----------------------------- MODULE ResendProofs -----------------------------
(* Proofs about Resend: what stays true however many transfers of a name are   *)
(* made, and what the last channel's late messages can and cannot do.          *)
EXTENDS Resend, FileChannelProofs

USE ChannelAssumption

\* The steps of the newest channel leave the history and the old channel's messages
\* alone.
Aside == UNCHANGED <<historyVars, oldTotal, oldStream, oldWire, oldTaken, oldToS>>

\* Every action, for the case splits below.
LEMMA AgainCases ==
    ASSUME AgainNext
    PROVE  \/ (Next /\ Aside) \/ ReplyUnheard \/ StartAgain
           \/ OldTransmit \/ OldDeliver \/ OldFlowAdv \/ OldFileReceived
           \/ (\E error \in BOOLEAN : OldSenderCloses(error))
           \/ (\E error \in BOOLEAN : OldReceiverCloses(error))
<1>1. CASE DcOpensBoth \/ SenderIceFailsBoth \/ ReceiverIceFailsBoth
  BY <1>1 DEF DcOpensBoth, SenderIceFailsBoth, ReceiverIceFailsBoth, Aside, Next
<1>2. CASE \/ InRound(HashDone) \/ InRound(AcceptAllPending) \/ InRound(RejectAllPending)
           \/ InRound(HandleFileAccept) \/ InRound(HandleFileReject)
           \/ InRound(Wake) \/ InRound(FileRead) \/ HandleReplyIn
           \/ InRound(AckTimeout) \/ InRound(RemoveOutgoing)
           \/ InRound(\E error \in BOOLEAN : SenderDcCloses(error))
           \/ InRound(Transmit) \/ InRound(Deliver) \/ InRound(RemoveIncoming)
           \/ InRound(\E error \in BOOLEAN : ReceiverDcCloses(error))
  BY <1>2 DEF InRound, HandleReplyIn, Aside, oldVars, Next
<1> QED
  BY <1>1, <1>2 DEF AgainNext, OldNext

-------------------------------------------------------------------------------
(* The order of the blocks.                                                    *)

\* What leaves the stream and the reader alone.
LEMMA OrderKept ==
    ASSUME OrderInv, UNCHANGED <<total, sent, sentIdx, reads, headSent, stream>>
    PROVE  OrderInv'
<1>1. ReadOrder'
  BY DEF OrderInv, ReadOrder, OneReader
<1>2. HeadOrder'
  BY DEF OrderInv, HeadOrder, HeadAt
<1> QED
  BY <1>1, <1>2 DEF OrderInv

LEMMA HeadKept ==
    ASSUME HeadOrder, UNCHANGED <<sent, headSent, stream>>
    PROVE  HeadOrder'
BY DEF HeadOrder, HeadAt

\* sendBlock, whoever calls it and whatever confirmation it reads.
LEMMA OrderSendBlock ==
    ASSUME OrderInv, NEW lc, SendBlock(lc), UNCHANGED <<total, sent, headSent, stream>>
    PROVE  OrderInv'
<1>1. CASE StartsRead(lc) /\ sentIdx' = sent /\ reads' = Append(reads, sent)
  <2>0. ReadOrder /\ HeadOrder /\ sent < total /\ sent > sentIdx
    BY <1>1 DEF StartsRead, OrderInv
  <2>1. reads = <<>>
    BY <2>0 DEF ReadOrder, OneReader
  <2>2. reads' = <<sent>>
    BY <1>1, <2>1
  <2>3. ReadOrder'
    BY <1>1, <2>0, <2>2 DEF ReadOrder, OneReader
  <2> QED
    BY <2>0, <2>3, HeadKept DEF OrderInv
<1>2. CASE UNCHANGED <<sentIdx, reads>>
  BY <1>2, OrderKept
<1> QED
  BY <1>1, <1>2 DEF SendBlock, sendVars

\* The one FileReader.
LEMMA OrderRead ==
    ASSUME ReadOrder, NEW k \in 1..Len(reads)
    PROVE  reads[k] = sent /\ ReadsBut(k) = <<>> /\ sentIdx = sent /\ sent < total
<1>1. reads # <<>>
  <2>1. Len(<<>>) = 0
    OBVIOUS
  <2> QED
    BY <2>1
<1>2. reads = <<sent>> /\ sentIdx = sent /\ sent < total
  BY <1>1 DEF ReadOrder, OneReader
<1>3. k = 1 /\ Len(reads) = 1
  BY <1>2
<1> QED
  BY <1>2, <1>3 DEF ReadsBut

\* Its answer sends the block after the last.
LEMMA OrderReadDone ==
    ASSUME OrderInv, NEW k \in 1..Len(reads), ReadDone(k)
    PROVE  OrderInv'
<1>0. ReadOrder /\ HeadOrder
  BY DEF OrderInv
<1>1. /\ reads' = <<>> /\ stream' = Append(stream, Block(sent)) /\ sent' = sent + 1
      /\ sentIdx = sent /\ sent < total /\ UNCHANGED <<total, headSent, sentIdx>>
  BY <1>0, OrderRead, Zenon DEF ReadDone
<1>2. /\ total \in Nat /\ sent \in 0..total /\ stream \in Seq(Messages) /\ Len(stream) \in Nat
      /\ headSent \in BOOLEAN /\ (headSent => Len(stream) = sent + 1)
      /\ (~headSent => Len(stream) = sent)
  BY <1>0 DEF ReadOrder, HeadOrder
<1>3. Block(sent) \in Messages
  BY <1>2 DEF Block, Messages
<1>4. /\ stream' \in Seq(Messages) /\ Len(stream') = Len(stream) + 1
      /\ stream'[Len(stream) + 1] = Block(sent)
      /\ \A j \in 1..Len(stream) : stream'[j] = stream[j]
  BY <1>1, <1>2, <1>3
<1>5. PICK h \in 1..(Len(stream) + 1) : HeadAt(h) /\ (headSent <=> h <= Len(stream))
  BY <1>0 DEF HeadOrder
<1>6. ReadOrder'
  BY <1>0, <1>1, <1>2 DEF ReadOrder, OneReader
<1>7. CASE headSent
  <2>1. h <= Len(stream) /\ Len(stream) = sent + 1
    BY <1>2, <1>5, <1>7
  <2>2. HeadAt(h)'
    BY <1>2, <1>4, <1>5, <2>1 DEF HeadAt
  <2>3. h \in 1..(Len(stream') + 1) /\ h <= Len(stream') /\ Len(stream') = sent' + 1
    BY <1>1, <1>2, <1>4, <1>5, <2>1
  <2> QED
    BY <1>1, <1>4, <1>6, <1>7, <2>2, <2>3, Zenon DEF OrderInv, HeadOrder
<1>8. CASE ~headSent
  <2>0. PICK g \in Nat : g = Len(stream) + 2
    BY <1>2
  <2>1. h = Len(stream) + 1 /\ Len(stream) = sent
    BY <1>2, <1>5, <1>8
  <2>2. HeadAt(g)'
    BY <1>2, <1>4, <1>5, <2>0, <2>1 DEF HeadAt
  <2>3. g \in 1..(Len(stream') + 1) /\ ~(g <= Len(stream')) /\ Len(stream') = sent'
    BY <1>1, <1>2, <1>4, <2>0, <2>1
  <2> QED
    BY <1>1, <1>2, <1>4, <1>6, <1>8, <2>2, <2>3, Zenon DEF OrderInv, HeadOrder
<1> QED
  BY <1>7, <1>8

\* The header goes out once, perhaps behind blocks.
LEMMA OrderHead ==
    ASSUME OrderInv, NEW dc, NEW acc, SendV2Head(dc, acc), UNCHANGED <<total, sent, sentIdx, reads>>
    PROVE  OrderInv'
<1>1. CASE CanSendHead(dc, acc)
  <2>0. PICK g \in Nat : g = Len(stream) + 1
    BY DEF OrderInv, HeadOrder
  <2>1. ~headSent /\ headSent' = TRUE /\ stream' = Append(stream, V2Head)
    BY <1>1 DEF SendV2Head, CanSendHead
  <2>2. stream \in Seq(Messages) /\ Len(stream) \in Nat /\ Len(stream) = sent
    BY <2>1 DEF OrderInv, HeadOrder
  <2>3. V2Head \in Messages
    BY DEF V2Head, Messages
  <2>4. /\ stream' \in Seq(Messages) /\ Len(stream') = Len(stream) + 1
        /\ stream'[Len(stream) + 1] = V2Head
        /\ \A j \in 1..Len(stream) : stream'[j] = stream[j]
    BY <2>1, <2>2, <2>3
  <2>5. HeadAt(g)
    <3>1. PICK h \in 1..(Len(stream) + 1) : HeadAt(h) /\ (headSent <=> h <= Len(stream))
      BY DEF OrderInv, HeadOrder
    <3> QED
      BY <2>0, <2>1, <2>2, <3>1
  <2>6. HeadAt(g)'
    BY <2>0, <2>2, <2>4, <2>5 DEF HeadAt
  <2>7. g \in 1..(Len(stream') + 1) /\ g <= Len(stream') /\ Len(stream') = sent' + 1
    BY <2>0, <2>2, <2>4
  <2>8. ReadOrder'
    BY DEF OrderInv, ReadOrder, OneReader
  <2> QED
    BY <2>1, <2>4, <2>6, <2>7, <2>8, Zenon DEF OrderInv, HeadOrder
<1>2. CASE ~CanSendHead(dc, acc)
  BY <1>2, OrderKept DEF SendV2Head
<1> QED
  BY <1>1, <1>2

\* The steps of the newest channel.
LEMMA OrderStep ==
    ASSUME OrderInv, Next
    PROVE  OrderInv'
<1>1. CASE DcOpens
  BY <1>1, OrderHead DEF DcOpens, sendVars
<1>2. CASE HandleFileAccept
  BY <1>2, OrderHead DEF HandleFileAccept, sendVars
<1>3. CASE Wake
  BY <1>3, OrderSendBlock DEF Wake, linkVars
<1>4. CASE HandleFlowAdv
  BY <1>4, OrderSendBlock DEF HandleFlowAdv, FlowAdvanced
<1>5. CASE \E k \in 1..Len(reads) : ReadDone(k)
  BY <1>5, OrderReadDone
<1>6. ASSUME NEW k \in 1..Len(reads), reads' = ReadsBut(k),
             UNCHANGED <<total, sent, sentIdx, headSent, stream>>
      PROVE  OrderInv'
  <2>0. ReadOrder /\ HeadOrder
    BY DEF OrderInv
  <2>1. reads' = <<>>
    BY <1>6, <2>0, OrderRead, Zenon
  <2>2. ReadOrder'
    BY <1>6, <2>0, <2>1 DEF ReadOrder, OneReader
  <2> QED
    BY <1>6, <2>0, <2>2, HeadKept DEF OrderInv
<1>7. CASE (\E k \in 1..Len(reads) : ReadDoneTooLate(k)) \/ (\E k \in 1..Len(reads) : ReadFails(k))
  BY <1>6, <1>7 DEF ReadDoneTooLate, ReadFails, linkVars
<1>8. CASE \/ HashDone \/ AcceptAllPending \/ RejectAllPending \/ HandleFileReject
           \/ HandleFileReceived \/ AckTimeout \/ RemoveOutgoing
  BY <1>8, OrderKept DEF HashDone, AcceptAllPending, RejectAllPending, HandleFileReject,
     HandleFileReceived, AckTimeout, RemoveOutgoing, senderVars, sendVars, linkVars
<1>9. CASE \/ SenderIceFails \/ (\E error \in BOOLEAN : SenderDcCloses(error)) \/ Transmit
           \/ RecvV2Head \/ RecvBlock \/ RemoveIncoming
           \/ ReceiverIceFails \/ (\E error \in BOOLEAN : ReceiverDcCloses(error))
  BY <1>9, OrderKept DEF SenderIceFails, SenderDcCloses, Transmit, RecvV2Head, RecvBlock,
     RemoveIncoming, ReceiverIceFails, ReceiverDcCloses, senderVars, sendVars, linkVars
<1> QED
  BY <1>1, <1>2, <1>3, <1>4, <1>5, <1>7, <1>8, <1>9, NextCases

\* Those of the old one: a late confirmation is one more caller of sendBlock.
LEMMA OrderOld ==
    ASSUME OrderInv, OldNext \/ ReplyUnheard
    PROVE  OrderInv'
<1>1. CASE OldFlowAdv
  BY <1>1, OrderSendBlock DEF OldFlowAdv, FlowAdvanced, linkVars
<1>2. CASE OldTransmit
  BY <1>2, OrderKept DEF OldTransmit, Alone!Transmit, Alone!sendVars, linkVars
<1>3. CASE OldDeliver
  BY <1>3, OrderKept DEF OldDeliver, Alone!Deliver, Alone!RecvV2Head, Alone!RecvBlock,
     Beside!Deliver, Beside!RecvV2Head, Beside!RecvBlock, Alone!senderVars, Alone!sendVars,
     Beside!senderVars, Beside!sendVars
<1>4. CASE OldFileReceived \/ ReplyUnheard
  BY <1>4, OrderKept DEF OldFileReceived, ReplyUnheard, senderVars, sendVars, linkVars
<1>5. CASE \E error \in BOOLEAN : OldSenderCloses(error) \/ OldReceiverCloses(error)
  BY <1>5, OrderKept DEF OldSenderCloses, OldReceiverCloses, senderVars, sendVars, linkVars
<1> QED
  BY <1>1, <1>2, <1>3, <1>4, <1>5 DEF OldNext

\* A new entry starts with nothing sent.
LEMMA OrderStart ==
    ASSUME StartAgain, reads = <<>>
    PROVE  OrderInv'
<1>1. /\ total' \in Nat /\ sent' = 0 /\ sentIdx' = -1 /\ headSent' = FALSE
      /\ stream' = <<>> /\ reads' = <<>>
  BY RoundsAssumption DEF StartAgain, FreshEntry
<1>2. sent' \in 0..total' /\ sentIdx' \in -1..(total' - 1)
  <2>1. \A t \in Nat : 0 \in 0..t /\ -1 \in -1..(t - 1)
    OBVIOUS
  <2> QED
    BY <1>1, <2>1, Zenon
<1>3. stream' \in Seq(Messages) /\ Len(stream') = 0
  BY <1>1
<1>4. ReadOrder'
  <2>1. sentIdx' <= sent'
    BY <1>1
  <2> QED
    BY <1>1, <1>2, <2>1, Zenon DEF ReadOrder, OneReader
<1>5. HeadAt(1)' /\ 1 \in 1..(Len(stream') + 1) /\ ~(1 <= Len(stream'))
  BY <1>3 DEF HeadAt
<1>6. HeadOrder'
  <2>1. ~headSent' /\ headSent' \in BOOLEAN /\ Len(stream') = sent'
    BY <1>1, <1>3
  <2> QED
    BY <1>3, <1>5, <2>1, Zenon DEF HeadOrder
<1> QED
  BY <1>4, <1>6 DEF OrderInv

-------------------------------------------------------------------------------
(* A transfer whose old channel is silent.                                     *)

\* What recvBlock does with an entry that may be an earlier transfer's: it holds
\* the first m blocks then, of which the new one is one, and saves them if they are
\* as many as the header it keeps announced.
LEMMA StaleStoreStep ==
    ASSUME SenderInv, AgainTypes, SavedInv, RecvBlock, rx
    PROVE  /\ taken \in Nat /\ taken >= 1 /\ taken' = taken + 1 /\ downloads = <<>>
           /\ \E m \in 1..(received + 1) :
                 /\ taken <= m
                 /\ \/ /\ Reply(FileReceived(m))
                       /\ downloads' = <<0..(m - 1)>>
                       /\ rRemovals' = rRemovals + 1
                       /\ FreeBuffer
                    \/ /\ Reply(FlowAdv(m - 1))
                       /\ blocks' = 0..(m - 1)
                       /\ received' = received + 1
                       /\ UNCHANGED <<rx, announced, downloads, rRemovals>>
<1>1. FromSender("block") /\ StoreBlock(stream[taken + 1].idx)
  BY DEF RecvBlock
<1>2. taken \in Nat /\ taken >= 1 /\ taken' = taken + 1
      /\ stream[taken + 1].idx = taken - 1
  <2>1. total \in Nat /\ taken \in 1..total /\ stream[taken + 1] = Block(taken - 1)
    BY <1>1, NextBlock DEF SenderInv, SenderTypes
  <2> QED
    BY <1>1, <2>1 DEF Block, FromSender
<1>3. received \in Nat /\ rRemovals \in Nat /\ downloads = <<>>
  BY DEF AgainTypes, SavedInv
<1> DEFINE have == blocks \cup {taken - 1}
<1>4. PICK m \in 1..(received + 1) : taken <= m /\ have = 0..(m - 1)
  <2>1. PICK n \in 0..received : blocks = 0..(n - 1) /\ taken - 1 <= n
    BY <1>2 DEF SavedInv, Arrived
  <2>2. CASE taken - 1 < n
    <3>1. have = 0..(n - 1) /\ n \in 1..(received + 1) /\ taken <= n
      BY <1>2, <1>3, <2>1, <2>2
    <3> QED
      BY <3>1
  <2>3. CASE taken - 1 = n
    <3>1. n \in Nat /\ n + 1 \in 1..(received + 1) /\ taken <= n + 1 /\ (n + 1) - 1 = n
      BY <1>2, <1>3, <2>1, <2>3
    <3>2. have = 0..n
      BY <2>1, <2>3, <3>1, PrefixGrows
    <3> QED
      BY <3>1, <3>2
  <2> QED
    BY <1>2, <2>1, <2>2, <2>3
<1>5. Cardinality(have) = m /\ (CHOOSE j \in have : \A k \in have : k <= j) = m - 1
  <2>1. m - 1 \in Nat /\ (m - 1) + 1 = m
    BY <1>3, <1>4
  <2>2. Cardinality(0..(m - 1)) = (m - 1) + 1
        /\ (CHOOSE j \in 0..(m - 1) : \A k \in 0..(m - 1) : k <= j) = m - 1
    BY <2>1, PrefixGrows
  <2> QED
    BY <1>4, <2>1, <2>2
<1>6. StoreBlock(taken - 1)
  BY <1>1, <1>2
<1>7. CASE IsWhole(have, received + 1)
  <2>1. announced = m
    BY <1>5, <1>7 DEF IsWhole
  <2>2. /\ Reply(FileReceived(announced)) /\ downloads' = Append(downloads, have)
        /\ rRemovals' = rRemovals + 1 /\ FreeBuffer
    BY <1>6, <1>7 DEF StoreBlock
  <2>3. downloads' = <<0..(m - 1)>>
    BY <1>3, <1>4, <2>2
  <2> QED
    BY <1>2, <1>3, <1>4, <2>1, <2>2, <2>3
<1>8. CASE ~IsWhole(have, received + 1)
  <2>1. /\ Reply(FlowAdv(m - 1)) /\ blocks' = have /\ received' = received + 1
        /\ UNCHANGED <<rx, announced, downloads, rRemovals>>
    BY <1>5, <1>6, <1>8, Zenon DEF StoreBlock
  <2> QED
    BY <1>2, <1>3, <1>4, <2>1
<1> QED
  BY <1>7, <1>8

\* What travels back are replies.
LEMMA ReplyTypes ==
    ASSUME SenderInv, AgainTypes, SavedInv, RecvBlock
    PROVE  toS' \in Seq(Replies)
<1>0. toS \in Seq(Replies)
  BY DEF SenderInv, LinkTypes
<1>1. CASE rx
  <2>1. PICK m \in 1..(received + 1) : Reply(FileReceived(m)) \/ Reply(FlowAdv(m - 1))
    BY <1>1, StaleStoreStep
  <2>2. FileReceived(m) \in Replies /\ FlowAdv(m - 1) \in Replies
    BY DEF AgainTypes, FileReceived, FlowAdv, Replies
  <2>3. \E r \in Replies : toS' = Append(toS, r) \/ toS' = toS
    BY <2>1, <2>2 DEF Reply
  <2> QED
    BY <1>0, <2>3
<1>2. CASE ~rx
  BY <1>0, <1>2 DEF RecvBlock
<1> QED
  BY <1>1, <1>2

\* A step within a transfer keeps the types.
LEMMA AgainTypeStep ==
    ASSUME SenderInv, AgainTypes, SavedInv, Next
    PROVE  AgainTypes'
<1> USE DEF AgainTypes
<1>0. total \in Nat
  BY DEF SenderInv, SenderTypes
<1> DEFINE Freed == rx' = FALSE /\ announced' = 0 /\ received' = 0
<1>a. CASE (Freed \/ UNCHANGED <<rx, announced, received>>) /\ rRemovals' \in Nat
  <2>1. rx' \in BOOLEAN
    BY <1>a, Zenon
  <2>2. announced' \in Nat /\ received' \in Nat
    BY <1>a
  <2> QED
    BY <1>a, <2>1, <2>2, Zenon
<1>1. CASE RecvBlock /\ rx
  <2>1. \/ Freed /\ rRemovals' = rRemovals + 1
        \/ received' = received + 1 /\ UNCHANGED <<rx, announced, rRemovals>>
    BY <1>1, StaleStoreStep, Zenon DEF FreeBuffer
  <2>2. CASE Freed /\ rRemovals' = rRemovals + 1
    <3>1. rRemovals' \in Nat
      BY <2>2
    <3> QED
      BY <1>a, <2>2, <3>1, Zenon
  <2>3. CASE received' = received + 1 /\ UNCHANGED <<rx, announced, rRemovals>>
    BY <2>3
  <2> QED
    BY <2>1, <2>2, <2>3
<1>2. CASE RecvBlock /\ ~rx
  BY <1>2 DEF RecvBlock, rxVars
<1>3. CASE RecvV2Head
  <2>1. \/ rx' = TRUE /\ announced' = total /\ received' = 0
        \/ UNCHANGED <<rx, announced, received>>
    BY <1>3 DEF RecvV2Head, rxVars
  <2>2. UNCHANGED rRemovals
    BY <1>3 DEF RecvV2Head
  <2>3. CASE rx' = TRUE /\ announced' = total /\ received' = 0
    BY <1>0, <2>2, <2>3
  <2> QED
    BY <1>a, <2>1, <2>2, <2>3
<1>4. CASE RemoveIncoming
  <2>1. Freed /\ rRemovals' \in Nat
    BY <1>4 DEF RemoveIncoming, RemoveTransfer, FreeBuffer
  <2> QED
    BY <1>a, <2>1, Zenon
<1>5. CASE ReceiverIceFails
  <2>1. (Freed \/ UNCHANGED <<rx, announced, received>>) /\ UNCHANGED rRemovals
    BY <1>5, Zenon DEF ReceiverIceFails, RemoveTransfer, FreeBuffer, rxVars
  <2> QED
    BY <1>a, <2>1, Zenon
<1>6. CASE \E error \in BOOLEAN : ReceiverDcCloses(error)
  BY <1>6 DEF ReceiverDcCloses, rxVars
<1>7. CASE UNCHANGED <<rx, announced, received, rRemovals>>
  BY <1>7
<1>8. CASE \/ HashDone \/ DcOpens \/ AcceptAllPending \/ RejectAllPending
           \/ HandleFileAccept \/ HandleFileReject
           \/ Wake \/ HandleFlowAdv \/ HandleFileReceived
  BY <1>7, <1>8 DEF HashDone, DcOpens, AcceptAllPending, RejectAllPending, HandleFileAccept,
                    HandleFileReject, Wake, HandleFlowAdv, FlowAdvanced, HandleFileReceived, FileConfirmed, receiverVars, rxVars
<1>9. CASE \/ (\E k \in 1..Len(reads) : ReadDone(k)) \/ (\E k \in 1..Len(reads) : ReadDoneTooLate(k))
           \/ (\E k \in 1..Len(reads) : ReadFails(k)) \/ AckTimeout \/ RemoveOutgoing
           \/ SenderIceFails \/ (\E error \in BOOLEAN : SenderDcCloses(error)) \/ Transmit
  BY <1>7, <1>9 DEF ReadDone, ReadDoneTooLate, ReadFails, AckTimeout, RemoveOutgoing,
                    SenderIceFails, SenderDcCloses, Transmit, receiverVars, rxVars
<1> QED
  BY <1>1, <1>2, <1>3, <1>4, <1>5, <1>6, <1>8, <1>9, NextCases

-------------------------------------------------------------------------------
(* What is saved.                                                              *)

\* The receiver's entry: its blocks are a prefix, which reaches past what arrived.
HeldInv ==
    /\ rx => \E n \in 0..received : blocks = 0..(n - 1) /\ Arrived <= n
    /\ ~rx => blocks = {} /\ received = 0
    /\ downloads # <<>> => ~rx /\ taken >= 2

\* An acknowledgement names what was saved.
Acknowledges(m) == m.type = "ack" => downloads = <<0..(m.idx - 1)>>

LEMMA SavedParts ==
    SavedInv <=> /\ HeldInv /\ ConfirmedMeansSaved
                 /\ \A k \in 1..Len(toS) : Acknowledges(toS[k])
BY DEF SavedInv, HeldInv, Acknowledges

\* The entry keeps a prefix without holes, and a saved file is the last thing that
\* happens to it in a round.
LEMMA HeldStep ==
    ASSUME SenderInv, AgainTypes, SavedInv, Next
    PROVE  HeldInv'
<1> USE DEF HeldInv
<1>0. HeldInv /\ taken \in Nat /\ received \in Nat
  BY SavedParts DEF SenderInv, LinkTypes, AgainTypes
<1>1. CASE RecvBlock /\ rx
  <2>1. PICK m \in 1..(received + 1) :
           /\ taken <= m
           /\ \/ downloads' = <<0..(m - 1)>> /\ FreeBuffer
              \/ /\ blocks' = 0..(m - 1) /\ received' = received + 1
                 /\ UNCHANGED <<rx, downloads>>
    BY <1>1, StaleStoreStep
  <2>2. taken >= 1 /\ taken' = taken + 1 /\ downloads = <<>>
    BY <1>1, StaleStoreStep
  <2>3. Arrived' = taken
    BY <1>0, <2>2 DEF Arrived
  <2>4. CASE downloads' = <<0..(m - 1)>> /\ FreeBuffer
    BY <1>0, <2>2, <2>4 DEF FreeBuffer
  <2>5. CASE blocks' = 0..(m - 1) /\ received' = received + 1 /\ UNCHANGED <<rx, downloads>>
    <3>1. m \in 0..received' /\ blocks' = 0..(m - 1) /\ Arrived' <= m
      BY <1>0, <2>1, <2>3, <2>5
    <3>2. rx' /\ downloads' = <<>>
      BY <1>1, <2>2, <2>5
    <3> QED
      BY <3>1, <3>2
  <2> QED
    BY <2>1, <2>4, <2>5
<1>2. CASE RecvBlock /\ ~rx
  <2>1. taken' = taken + 1 /\ UNCHANGED <<rx, blocks, received, downloads>>
    BY <1>2 DEF RecvBlock, FromSender, rxVars
  <2> QED
    BY <1>0, <1>2, <2>1
<1>3. CASE RecvV2Head
  <2>1. taken = 0 /\ taken' = 1
    <3>1. taken + 1 \in 1..Len(stream) /\ stream[taken + 1].type = "head" /\ taken' = taken + 1
      BY <1>3 DEF RecvV2Head, FromSender, SenderInv, LinkTypes
    <3>2. taken # 0 => stream[taken + 1] = Block(taken + 1 - 2)
      BY <1>0, <3>1 DEF SenderInv, StreamInOrder
    <3> QED
      BY <3>1, <3>2 DEF Block
  <2>2. downloads = <<>> /\ downloads' = <<>> /\ Arrived = 0 /\ Arrived' = 0
    BY <1>0, <1>3, <2>1 DEF RecvV2Head, Arrived
  <2>3. CASE rx' = TRUE /\ blocks' = {} /\ received' = 0
    <3>1. 0 \in 0..received' /\ blocks' = 0..(0 - 1) /\ Arrived' <= 0
      BY <2>2, <2>3
    <3> QED
      BY <2>2, <2>3, <3>1
  <2>4. CASE UNCHANGED <<rx, blocks, received>>
    BY <1>0, <2>2, <2>4
  <2> QED
    BY <1>3, <2>3, <2>4 DEF RecvV2Head, rxVars
<1>4. CASE RemoveIncoming \/ ReceiverIceFails
  <2>1. UNCHANGED <<taken, downloads>>
        /\ (FreeBuffer \/ UNCHANGED <<rx, blocks, received>>)
    BY <1>4 DEF RemoveIncoming, ReceiverIceFails, RemoveTransfer, linkVars, rxVars
  <2>2. Arrived' = Arrived
    BY <2>1 DEF Arrived
  <2>3. CASE FreeBuffer
    BY <1>0, <2>1, <2>3 DEF FreeBuffer
  <2>4. CASE UNCHANGED <<rx, blocks, received>>
    BY <1>0, <2>1, <2>2, <2>4
  <2> QED
    BY <2>1, <2>3, <2>4
<1>5. CASE UNCHANGED <<taken, rx, blocks, received, downloads>>
  BY <1>0, <1>5 DEF Arrived
<1>6. CASE \E error \in BOOLEAN : ReceiverDcCloses(error)
  BY <1>5, <1>6 DEF ReceiverDcCloses, rxVars
<1>7. CASE \/ HashDone \/ DcOpens \/ AcceptAllPending \/ RejectAllPending
           \/ HandleFileAccept \/ HandleFileReject
           \/ Wake \/ HandleFlowAdv \/ HandleFileReceived
  BY <1>5, <1>7 DEF HashDone, DcOpens, AcceptAllPending, RejectAllPending, HandleFileAccept,
                    HandleFileReject, Wake, HandleFlowAdv, FlowAdvanced, HandleFileReceived, FileConfirmed, linkVars,
                    receiverVars, rxVars
<1>8. CASE \/ (\E k \in 1..Len(reads) : ReadDone(k)) \/ (\E k \in 1..Len(reads) : ReadDoneTooLate(k))
           \/ (\E k \in 1..Len(reads) : ReadFails(k)) \/ AckTimeout \/ RemoveOutgoing
           \/ SenderIceFails \/ (\E error \in BOOLEAN : SenderDcCloses(error)) \/ Transmit
  BY <1>5, <1>8 DEF ReadDone, ReadDoneTooLate, ReadFails, AckTimeout, RemoveOutgoing,
                    SenderIceFails, SenderDcCloses, Transmit, linkVars, receiverVars, rxVars
<1> QED
  BY <1>1, <1>2, <1>3, <1>4, <1>6, <1>7, <1>8, NextCases

\* Acknowledgements stay true of what was saved, and so does what the sending page
\* shows, because the digest it compares is that of the blocks saved.
LEMMA AcknowledgeStep ==
    ASSUME SenderInv, AgainTypes, SavedInv, Next
    PROVE  /\ \A k \in 1..Len(toS') : Acknowledges(toS[k])'
           /\ ConfirmedMeansSaved'
<1> DEFINE Replied == \A k \in 1..Len(toS) : Acknowledges(toS[k])
<1>0. Replied /\ ConfirmedMeansSaved /\ toS \in Seq(Replies)
  BY SavedParts DEF SenderInv, LinkTypes
<1> SUFFICES Replied' /\ ConfirmedMeansSaved'
  OBVIOUS
<1>1. CASE RecvBlock /\ rx
  <2>1. PICK m \in 1..(received + 1) :
           \/ Reply(FileReceived(m)) /\ downloads' = <<0..(m - 1)>>
           \/ Reply(FlowAdv(m - 1)) /\ UNCHANGED downloads
    BY <1>1, StaleStoreStep
  <2>2. downloads = <<>> /\ UNCHANGED <<sHist, total>>
    BY <1>1, StaleStoreStep DEF RecvBlock, senderVars
  <2>3. \A k \in 1..Len(toS) : toS[k].type # "ack"
    BY <1>0, <2>2 DEF Acknowledges
  <2>4. \E r \in Replies : /\ toS' = Append(toS, r) \/ toS' = toS
                           /\ r.type = "ack" => downloads' = <<0..(r.idx - 1)>>
    <3>1. FileReceived(m) \in Replies /\ FlowAdv(m - 1) \in Replies
      BY DEF AgainTypes, FileReceived, FlowAdv, Replies
    <3> QED
      BY <2>1, <3>1 DEF Reply, FileReceived, FlowAdv
  <2>5. Replied'
    BY <1>0, <2>3, <2>4 DEF Acknowledges
  <2>6. "complete" \notin sHist
    BY <1>0, <2>2 DEF ConfirmedMeansSaved
  <2> QED
    BY <2>2, <2>5, <2>6 DEF ConfirmedMeansSaved
<1>2. CASE HandleFileReceived
  <2>1. toS # <<>> /\ toS' = Tail(toS) /\ Head(toS).type = "ack" /\ UNCHANGED <<downloads, total>>
    BY <1>2 DEF HandleFileReceived, FileConfirmed, FromReceiver, receiverVars
  <2>2. Acknowledges(Head(toS))
    BY <1>0, <2>1
  <2>3. Replied'
    BY <1>0, <2>1 DEF Acknowledges
  <2>4. \/ sHist' = sHist \cup {"complete"} /\ Head(toS).idx = total
        \/ sHist' = sHist \cup {"failed"}
        \/ sHist' = sHist
    BY <1>2 DEF HandleFileReceived, FileConfirmed, SenderFailed, DigestAgrees
  <2>5. CASE Head(toS).idx = total
    BY <2>1, <2>2, <2>3, <2>5 DEF Acknowledges, ConfirmedMeansSaved
  <2>6. CASE sHist' = sHist \cup {"failed"} \/ sHist' = sHist
    BY <1>0, <2>1, <2>3, <2>6 DEF ConfirmedMeansSaved
  <2> QED
    BY <2>4, <2>5, <2>6
<1>3. CASE HandleFlowAdv
  <2>1. toS # <<>> /\ toS' = Tail(toS) /\ UNCHANGED <<downloads, total, sHist>>
    BY <1>3 DEF HandleFlowAdv, FlowAdvanced, FromReceiver, receiverVars
  <2> QED
    BY <1>0, <2>1 DEF Acknowledges, ConfirmedMeansSaved
<1>4. CASE UNCHANGED <<toS, downloads, total>> /\ ("complete" \in sHist' => "complete" \in sHist)
  BY <1>0, <1>4 DEF Acknowledges, ConfirmedMeansSaved
<1>5. CASE \/ (RecvBlock /\ ~rx) \/ RecvV2Head \/ RemoveIncoming \/ ReceiverIceFails
           \/ (\E error \in BOOLEAN : ReceiverDcCloses(error)) \/ Transmit
  BY <1>4, <1>5 DEF RecvBlock, RecvV2Head, RemoveIncoming, ReceiverIceFails, ReceiverDcCloses,
                    Transmit, linkVars, senderVars, receiverVars
<1>6. CASE HashDone \/ DcOpens \/ HandleFileAccept \/ AcceptAllPending \/ RejectAllPending
  BY <1>4, <1>6 DEF HashDone, DcOpens, HandleFileAccept, AcceptAllPending, RejectAllPending,
                    linkVars, senderVars, receiverVars
<1>7. CASE Wake \/ (\E k \in 1..Len(reads) : ReadDone(k)) \/ (\E k \in 1..Len(reads) : ReadDoneTooLate(k))
  BY <1>4, <1>7 DEF Wake, ReadDone, ReadDoneTooLate, linkVars, receiverVars
<1>8. CASE HandleFileReject
  <2>1. UNCHANGED <<toS, downloads, total>> /\ sHist' = sHist \cup {"rejected"}
    BY <1>8 DEF HandleFileReject, linkVars, receiverVars
  <2> QED
    BY <1>4, <2>1
<1>9. CASE \/ AckTimeout \/ RemoveOutgoing \/ SenderIceFails
           \/ (\E k \in 1..Len(reads) : ReadFails(k)) \/ (\E error \in BOOLEAN : SenderDcCloses(error))
  BY <1>4, <1>9 DEF AckTimeout, RemoveOutgoing, SenderIceFails, SenderDcCloses, ReadFails,
                    SenderFailed, linkVars, receiverVars
<1> QED
  BY <1>1, <1>2, <1>3, <1>5, <1>6, <1>7, <1>8, <1>9, NextCases

-------------------------------------------------------------------------------
(* The digests that travel back, late ones included.                           *)

IsSeq(s) == \E S : s \in Seq(S)

LEMMA SeqAppend ==
    ASSUME NEW s, IsSeq(s), NEW x
    PROVE  /\ IsSeq(Append(s, x)) /\ Len(s) \in Nat /\ Len(Append(s, x)) = Len(s) + 1
           /\ \A i \in 1..Len(s) : Append(s, x)[i] = s[i]
           /\ Append(s, x)[Len(s) + 1] = x
<1>1. PICK S : s \in Seq(S)
  BY DEF IsSeq
<1>2. s \in Seq(S \cup {x})
  BY <1>1
<1>3. Append(s, x) \in Seq(S \cup {x})
  BY <1>2
<1> QED
  BY <1>2, <1>3 DEF IsSeq

LEMMA SeqTail ==
    ASSUME NEW s, IsSeq(s), s # <<>>
    PROVE  /\ IsSeq(Tail(s)) /\ Len(s) \in Nat /\ Len(Tail(s)) = Len(s) - 1
           /\ \A i \in 1..Len(Tail(s)) : Tail(s)[i] = s[i + 1]
           /\ Head(s) = s[1] /\ 1 \in 1..Len(s)
<1>1. PICK S : s \in Seq(S)
  BY DEF IsSeq
<1> QED
  BY <1>1 DEF IsSeq

\* What was saved may get one file more.
Grows(d, d2) == d2 = d \/ \E x : d2 = Append(d, x)

LEMMA SavesMore ==
    ASSUME NEW d, IsSeq(d), NEW d2, Grows(d, d2), NEW n, Saves(d, n)
    PROVE  Saves(d2, n)
<1>1. CASE d2 = d
  BY <1>1
<1>2. ASSUME NEW x, d2 = Append(d, x) PROVE Saves(d2, n)
  BY <1>2, SeqAppend DEF Saves
<1> QED
  BY <1>1, <1>2 DEF Grows

\* The replies lose their first, or get one, which names what is saved by then.
Follows(q, q2, d, e) ==
    \/ q2 = q
    \/ q # <<>> /\ q2 = Tail(q)
    \/ \E m : q2 = Append(q, m) /\ (m.type = "ack" => Saves(d, m.idx) \/ Saves(e, m.idx))

LEMMA AcksFollow ==
    ASSUME NEW q, IsSeq(q), NEW q2, NEW d, IsSeq(d), NEW d2, NEW e,
           AcksSaved(q, d, e), Grows(d, d2), Follows(q, q2, d2, e)
    PROVE  IsSeq(q2) /\ AcksSaved(q2, d2, e)
<1>1. AcksSaved(q, d2, e)
  BY SavesMore DEF AcksSaved
<1>2. CASE q2 = q
  BY <1>1, <1>2
<1>3. CASE q # <<>> /\ q2 = Tail(q)
  <2>1. \A k \in 1..Len(q2) : k + 1 \in 1..Len(q) /\ q2[k] = q[k + 1]
    BY <1>3, SeqTail
  <2> QED
    BY <1>1, <1>3, <2>1, SeqTail DEF AcksSaved
<1>4. ASSUME NEW m, q2 = Append(q, m), m.type = "ack" => Saves(d2, m.idx) \/ Saves(e, m.idx)
      PROVE  IsSeq(q2) /\ AcksSaved(q2, d2, e)
  <2>1. /\ IsSeq(q2) /\ Len(q) \in Nat /\ Len(q2) = Len(q) + 1
        /\ \A k \in 1..Len(q) : q2[k] = q[k]
        /\ q2[Len(q) + 1] = m
    BY <1>4, SeqAppend
  <2>2. \A k \in 1..Len(q2) : k \in 1..Len(q) \/ k = Len(q) + 1
    BY <2>1
  <2> QED
    BY <1>1, <1>4, <2>1, <2>2 DEF AcksSaved
<1> QED
  BY <1>2, <1>3, <1>4 DEF Follows

SeqInv == IsSeq(toS) /\ IsSeq(oldToS) /\ IsSeq(downloads)

LEMMA AckFrame ==
    ASSUME AckInv, SeqInv, UNCHANGED <<total, earlier>>, Grows(downloads, downloads'),
           Follows(toS, toS', downloads', earlier), Follows(oldToS, oldToS', downloads', earlier),
           "complete" \in sHist' =>
               "complete" \in sHist \/ Saves(downloads, total) \/ Saves(earlier, total)
    PROVE  AckInv' /\ SeqInv'
<1>1. IsSeq(toS') /\ AcksSaved(toS', downloads', earlier)
  BY AcksFollow DEF AckInv, SeqInv
<1>2. IsSeq(oldToS') /\ AcksSaved(oldToS', downloads', earlier)
  BY AcksFollow DEF AckInv, SeqInv
<1>3. IsSeq(downloads')
  <2>1. ASSUME NEW d, IsSeq(d), NEW d2, Grows(d, d2) PROVE IsSeq(d2)
    <3>1. CASE d2 = d
      BY <2>1, <3>1
    <3>2. ASSUME NEW x, d2 = Append(d, x) PROVE IsSeq(d2)
      BY <2>1, <3>2, SeqAppend
    <3> QED
      BY <2>1, <3>1, <3>2 DEF Grows
  <2> QED
    BY <2>1 DEF SeqInv
<1>4. Saves(downloads, total) => Saves(downloads', total)
  BY SavesMore DEF SeqInv
<1>5. ConfirmedIsSome'
  BY <1>4 DEF AckInv, ConfirmedIsSome
<1> QED
  BY <1>1, <1>2, <1>3, <1>5 DEF AckInv, SeqInv

\* The instances count as this module does.
LEMMA SameCardinality ==
    \A S : Alone!Cardinality(S) = Cardinality(S) /\ Beside!Cardinality(S) = Cardinality(S)
BY Zenon DEF Cardinality, Alone!Cardinality, Beside!Cardinality

\* recvBlock names the digest of what it saves in the same handler.
LEMMA Stored ==
    ASSUME IsSeq(downloads), NEW i, NEW e, StoreBlock(i)
    PROVE  Grows(downloads, downloads') /\ Follows(toS, toS', downloads', e)
<1> DEFINE have == blocks \cup {i}
           top == CHOOSE j \in have : \A k \in have : k <= j
<1>1. CASE /\ IsWhole(have, received + 1)
           /\ Reply(FileReceived(announced)) /\ downloads' = Append(downloads, have)
  <2>1. Cardinality(have) = announced
    BY <1>1 DEF IsWhole
  <2> HIDE DEF have
  <2>2. Saves(downloads', announced)
    BY <1>1, <2>1, SeqAppend DEF Saves
  <2> QED
    BY <1>1, <2>2 DEF Grows, Follows, Reply, FileReceived
<1>2. CASE Reply(FlowAdv(top)) /\ UNCHANGED downloads
  BY <1>2 DEF Grows, Follows, Reply, FlowAdv
<1> QED
  BY <1>1, <1>2, Zenon DEF StoreBlock

LEMMA StoredBeside ==
    ASSUME NEW i, Beside!StoreBlock(i)
    PROVE  StoreBlock(i)
<1> DEFINE have == blocks \cup {i}
<1>1. Beside!IsWhole(have, received + 1) <=> IsWhole(have, received + 1)
  BY SameCardinality, Zenon DEF Beside!IsWhole, IsWhole
<1>2. \A m : Beside!Reply(m) <=> Reply(m)
  BY DEF Beside!Reply, Reply
<1>3. \A n : Beside!FileReceived(n) = FileReceived(n) /\ Beside!FlowAdv(n) = FlowAdv(n)
  BY DEF Beside!FileReceived, FileReceived, Beside!FlowAdv, FlowAdv
<1>4. Beside!FreeBuffer <=> FreeBuffer
  BY DEF Beside!FreeBuffer, FreeBuffer
<1> QED
  BY <1>1, <1>2, <1>3, <1>4, Zenon DEF Beside!StoreBlock, StoreBlock

LEMMA StoredAlone ==
    ASSUME IsSeq(downloads), NEW i, NEW e, Alone!StoreBlock(i)
    PROVE  Grows(downloads, downloads') /\ Follows(oldToS, oldToS', downloads', e)
<1> DEFINE have == blocks \cup {i}
           top == CHOOSE j \in have : \A k \in have : k <= j
<1>0. \A n : Alone!FileReceived(n) = FileReceived(n) /\ Alone!FlowAdv(n) = FlowAdv(n)
  BY DEF Alone!FileReceived, FileReceived, Alone!FlowAdv, FlowAdv
<1>1. CASE /\ Alone!IsWhole(have, received + 1)
           /\ Alone!Reply(FileReceived(announced)) /\ downloads' = Append(downloads, have)
  <2>1. Cardinality(have) = announced
    BY <1>1, SameCardinality, Zenon DEF Alone!IsWhole
  <2> HIDE DEF have
  <2>2. Saves(downloads', announced)
    BY <1>1, <2>1, SeqAppend DEF Saves
  <2> QED
    BY <1>1, <2>2 DEF Grows, Follows, Alone!Reply, FileReceived
<1>2. CASE Alone!Reply(FlowAdv(top)) /\ UNCHANGED downloads
  BY <1>2 DEF Grows, Follows, Alone!Reply, FlowAdv
<1> QED
  BY <1>0, <1>1, <1>2, Zenon DEF Alone!StoreBlock

\* A digest that arrives confirms only what was saved.
LEMMA ConfirmedFromSaved ==
    ASSUME NEW q, IsSeq(q), AcksSaved(q, downloads, earlier), q # <<>>, Head(q).type = "ack",
           FileConfirmed(Head(q).idx), "complete" \in sHist'
    PROVE  "complete" \in sHist \/ Saves(downloads, total) \/ Saves(earlier, total)
<1>1. Saves(downloads, Head(q).idx) \/ Saves(earlier, Head(q).idx)
  BY SeqTail DEF AcksSaved
<1>2. \/ Head(q).idx = total
      \/ sHist' = sHist \cup {"failed"}
      \/ sHist' = sHist
  BY DEF FileConfirmed, DigestAgrees, SenderFailed
<1> QED
  BY <1>1, <1>2

\* The steps of the newest channel.
LEMMA AckStep ==
    ASSUME AckInv, SeqInv, Next, Aside
    PROVE  AckInv' /\ SeqInv'
<1>0. /\ UNCHANGED <<earlier, oldToS>> /\ Follows(oldToS, oldToS', downloads', earlier)
      /\ IsSeq(toS) /\ IsSeq(downloads) /\ AcksSaved(toS, downloads, earlier)
  BY DEF Aside, historyVars, Follows, SeqInv, AckInv
<1>1. CASE RecvBlock /\ rx
  <2>1. StoreBlock(stream[taken + 1].idx) /\ UNCHANGED <<total, sHist>>
    BY <1>1 DEF RecvBlock, senderVars
  <2> QED
    BY <1>0, <2>1, Stored, AckFrame
<1>2. CASE HandleFileReceived
  <2>1. /\ toS # <<>> /\ toS' = Tail(toS) /\ Head(toS).type = "ack"
        /\ FileConfirmed(Head(toS).idx) /\ UNCHANGED <<total, downloads>>
    BY <1>2 DEF HandleFileReceived, FromReceiver, receiverVars
  <2>2. "complete" \in sHist' =>
            "complete" \in sHist \/ Saves(downloads, total) \/ Saves(earlier, total)
    BY <1>0, <2>1, ConfirmedFromSaved
  <2> QED
    BY <1>0, <2>1, <2>2, AckFrame DEF Grows, Follows
<1>3. CASE /\ UNCHANGED <<total, downloads>> /\ ("complete" \in sHist' => "complete" \in sHist)
           /\ toS' = toS \/ (toS # <<>> /\ toS' = Tail(toS))
  BY <1>0, <1>3, AckFrame DEF Grows, Follows
<1>4. CASE HandleFlowAdv
  BY <1>3, <1>4 DEF HandleFlowAdv, FromReceiver, receiverVars
<1>5. CASE \/ (RecvBlock /\ ~rx) \/ RecvV2Head \/ RemoveIncoming \/ ReceiverIceFails
           \/ (\E error \in BOOLEAN : ReceiverDcCloses(error)) \/ Transmit
  BY <1>3, <1>5 DEF RecvBlock, RecvV2Head, RemoveIncoming, ReceiverIceFails, ReceiverDcCloses,
                    Transmit, linkVars, senderVars, receiverVars
<1>6. CASE HashDone \/ DcOpens \/ HandleFileAccept \/ AcceptAllPending \/ RejectAllPending
  BY <1>3, <1>6 DEF HashDone, DcOpens, HandleFileAccept, AcceptAllPending, RejectAllPending,
                    linkVars, senderVars, receiverVars
<1>7. CASE Wake \/ (\E k \in 1..Len(reads) : ReadDone(k)) \/ (\E k \in 1..Len(reads) : ReadDoneTooLate(k))
  BY <1>3, <1>7 DEF Wake, ReadDone, ReadDoneTooLate, linkVars, receiverVars
<1>8. CASE HandleFileReject
  BY <1>3, <1>8 DEF HandleFileReject, linkVars, receiverVars
<1>9. CASE \/ AckTimeout \/ RemoveOutgoing \/ SenderIceFails
           \/ (\E k \in 1..Len(reads) : ReadFails(k)) \/ (\E error \in BOOLEAN : SenderDcCloses(error))
  BY <1>3, <1>9 DEF AckTimeout, RemoveOutgoing, SenderIceFails, SenderDcCloses, ReadFails,
                    SenderFailed, linkVars, receiverVars
<1> QED
  BY <1>1, <1>2, <1>4, <1>5, <1>6, <1>7, <1>8, <1>9, NextCases

\* Those of the old one, whose digests are compared with the new entry's.
LEMMA AckOld ==
    ASSUME AckInv, SeqInv, OldNext \/ ReplyUnheard
    PROVE  AckInv' /\ SeqInv'
<1>0. /\ IsSeq(oldToS) /\ IsSeq(downloads) /\ AcksSaved(oldToS, downloads, earlier)
  BY DEF SeqInv, AckInv
<1>1. CASE OldDeliver
  <2>1. UNCHANGED <<total, earlier>>
    BY <1>1 DEF OldDeliver, historyVars
  <2>2. CASE Alone!RecvBlock /\ rx /\ UNCHANGED toS
    <3>1. (\E i : Alone!StoreBlock(i)) /\ UNCHANGED sHist
      BY <2>2 DEF Alone!RecvBlock, Alone!senderVars
    <3>2. Follows(toS, toS', downloads', earlier)
      BY <2>2 DEF Follows
    <3> QED
      BY <1>0, <2>1, <3>1, <3>2, StoredAlone, AckFrame
  <2>3. CASE Beside!RecvBlock /\ rx /\ UNCHANGED oldToS
    <3>1. (\E i : Beside!StoreBlock(i)) /\ UNCHANGED sHist
      BY <2>3 DEF Beside!RecvBlock, Beside!senderVars
    <3>2. Follows(oldToS, oldToS', downloads', earlier)
      BY <2>3 DEF Follows
    <3> QED
      BY <1>0, <2>1, <3>1, <3>2, StoredBeside, Stored, AckFrame
  <2>4. CASE UNCHANGED <<toS, oldToS, downloads, sHist>>
    BY <2>1, <2>4, AckFrame DEF Grows, Follows
  <2>5. CASE \/ (Alone!RecvBlock /\ ~rx) /\ UNCHANGED toS
             \/ (Beside!RecvBlock /\ ~rx) /\ UNCHANGED oldToS
    BY <2>4, <2>5 DEF Alone!RecvBlock, Beside!RecvBlock, Alone!senderVars, Beside!senderVars
  <2>6. CASE \/ Alone!RecvV2Head /\ UNCHANGED toS
             \/ Beside!RecvV2Head /\ UNCHANGED oldToS
    BY <2>4, <2>6 DEF Alone!RecvV2Head, Beside!RecvV2Head, Alone!senderVars, Beside!senderVars
  <2>7. CASE Alone!Deliver /\ UNCHANGED toS
    <3>1. Alone!RecvV2Head \/ Alone!RecvBlock
      BY <2>7 DEF Alone!Deliver
    <3>2. CASE Alone!RecvBlock
      BY <2>2, <2>5, <2>7, <3>2, Zenon
    <3> QED
      BY <2>6, <2>7, <3>1, <3>2, Zenon
  <2>8. CASE Beside!Deliver /\ UNCHANGED oldToS
    <3>1. Beside!RecvV2Head \/ Beside!RecvBlock
      BY <2>8 DEF Beside!Deliver
    <3>2. CASE Beside!RecvBlock
      BY <2>3, <2>5, <2>8, <3>2, Zenon
    <3> QED
      BY <2>6, <2>8, <3>1, <3>2, Zenon
  <2> QED
    BY <1>1, <2>7, <2>8, Zenon DEF OldDeliver
<1>2. CASE OldFileReceived
  <2>1. /\ oldToS # <<>> /\ oldToS' = Tail(oldToS) /\ Head(oldToS).type = "ack"
        /\ FileConfirmed(Head(oldToS).idx) /\ UNCHANGED <<total, earlier, downloads, toS>>
    BY <1>2 DEF OldFileReceived, Alone!FromReceiver, historyVars, linkVars, receiverVars
  <2>2. "complete" \in sHist' =>
            "complete" \in sHist \/ Saves(downloads, total) \/ Saves(earlier, total)
    BY <1>0, <2>1, ConfirmedFromSaved
  <2> QED
    BY <2>1, <2>2, AckFrame DEF Grows, Follows
<1>3. CASE OldFlowAdv
  <2>1. /\ oldToS # <<>> /\ oldToS' = Tail(oldToS)
        /\ UNCHANGED <<total, earlier, downloads, toS, sHist>>
    BY <1>3 DEF OldFlowAdv, Alone!FromReceiver, historyVars, linkVars, receiverVars
  <2> QED
    BY <2>1, AckFrame DEF Grows, Follows
<1>4. CASE /\ UNCHANGED <<total, earlier, downloads, oldToS>>
           /\ toS' = toS \/ (toS # <<>> /\ toS' = Tail(toS))
           /\ "complete" \in sHist' => "complete" \in sHist
  BY <1>4, AckFrame DEF Grows, Follows
<1>5. CASE OldTransmit
  BY <1>4, <1>5 DEF OldTransmit, Alone!Transmit, Alone!receiverVars, historyVars, linkVars
<1>6. CASE \E error \in BOOLEAN : OldSenderCloses(error) \/ OldReceiverCloses(error)
  BY <1>4, <1>6 DEF OldSenderCloses, OldReceiverCloses, SenderFailed, historyVars, linkVars,
     receiverVars, senderVars
<1>7. CASE ReplyUnheard
  BY <1>4, <1>7 DEF ReplyUnheard, historyVars, oldVars, senderVars, receiverVars
<1> QED
  BY <1>1, <1>2, <1>3, <1>5, <1>6, <1>7 DEF OldNext

\* What the last round saved and its late acknowledgements stay together.
LEMMA AckStart ==
    ASSUME AckInv, SeqInv, SavedInv, SenderInv, StartAgain
    PROVE  AckInv' /\ SeqInv'
<1>1. /\ earlier' = downloads /\ downloads' = <<>> /\ toS' = <<>> /\ oldToS' = toS
      /\ sHist' = {}
  BY DEF StartAgain, SetAside
<1>2. IsSeq(<<>>)
  BY DEF IsSeq
<1>3. AcksSaved(toS, <<>>, downloads)
  <2> SUFFICES ASSUME NEW k \in 1..Len(toS), toS[k].type = "ack"
               PROVE  Saves(downloads, toS[k].idx)
    BY DEF AcksSaved
  <2>1. toS[k].idx \in Nat
    <3>1. toS \in Seq(Replies)
      BY DEF SenderInv, LinkTypes
    <3>2. toS[k] \in Replies
      BY <3>1
    <3> QED
      BY <3>2 DEF Replies
  <2>2. downloads = <<0..(toS[k].idx - 1)>>
    BY DEF SavedInv
  <2>3. Cardinality(0..(toS[k].idx - 1)) = toS[k].idx
    <3>1. ASSUME NEW n \in Nat PROVE Cardinality(0..(n - 1)) = n
      <4>1. 0 \in Int /\ n - 1 \in Int
        OBVIOUS
      <4>2. Cardinality(0..(n - 1)) = IF 0 > n - 1 THEN 0 ELSE (n - 1) - 0 + 1
        BY <4>1, FS_Interval, Zenon
      <4> QED
        BY <4>2
    <3> QED
      BY <2>1, <3>1, Zenon
  <2>4. 1 \in 1..Len(downloads) /\ downloads[1] = 0..(toS[k].idx - 1)
    BY <2>2
  <2> QED
    BY <2>3, <2>4 DEF Saves
<1>4. AckInv'
  BY <1>1, <1>3 DEF AckInv, AcksSaved, ConfirmedIsSome
<1> QED
  BY <1>1, <1>2, <1>4 DEF SeqInv

-------------------------------------------------------------------------------
(* A round that is not late, and a clean one.                                  *)

LEMMA SilentStep ==
    ASSUME SilentInv, Next, Aside
    PROVE  SilentInv'
<1>0. SenderInv /\ AgainTypes /\ SavedInv /\ OldSilent
  BY DEF SilentInv
<1>1. SenderInv'
  BY <1>0, ReplyTypes, SenderStep
<1>2. AgainTypes'
  BY <1>0, AgainTypeStep
<1>3. SavedInv'
  <2>1. HeldInv'
    BY <1>0, HeldStep
  <2>2. (\A k \in 1..Len(toS') : Acknowledges(toS[k])') /\ ConfirmedMeansSaved'
    BY <1>0, AcknowledgeStep
  <2> QED
    BY <2>1, <2>2 DEF SavedInv, HeldInv, Acknowledges
<1>4. OldSilent'
  BY <1>0 DEF OldSilent, Aside
<1> QED
  BY <1>1, <1>2, <1>3, <1>4 DEF SilentInv

\* The old channel has nothing left to do but to close.
LEMMA OldIdle ==
    ASSUME SilentInv
    PROVE  ~OldTransmit /\ ~OldDeliver /\ ~OldFlowAdv /\ ~OldFileReceived
<1>0. oldStream = <<>> /\ oldWire = 0 /\ oldTaken = 0 /\ oldToS = <<>> /\ Len(oldStream) = 0
  BY DEF SilentInv, OldSilent
<1>1. ~OldTransmit
  BY <1>0 DEF OldTransmit, Alone!Transmit
<1>2. ~OldDeliver
  BY <1>0 DEF OldDeliver, Alone!Deliver, Alone!RecvV2Head, Alone!RecvBlock, Alone!FromSender,
     Beside!Deliver, Beside!RecvV2Head, Beside!RecvBlock, Beside!FromSender
<1>3. ~OldFlowAdv /\ ~OldFileReceived
  BY <1>0 DEF OldFlowAdv, OldFileReceived, Alone!FromReceiver
<1> QED
  BY <1>1, <1>2, <1>3

\* What the ends of the old channel, and a reply that nobody hears, leave alone.
Apart ==
    /\ UNCHANGED <<historyVars, oldTotal, oldStream, oldWire, oldTaken, oldToS>>
    /\ UNCHANGED <<total, consent, file, accepted, headSent, sent, lastConfirmed, wakeups>>
    /\ UNCHANGED <<sentIdx, reads, waitingAck, ackTimers, dcS, dcR, stream, wire, taken>>
    /\ UNCHANGED <<rx, announced, blocks, received, downloads>>
    /\ sHist' = sHist \/ sHist' = sHist \cup {"failed"}
    /\ sRemovals' = sRemovals \/ (sRemovals' = sRemovals + 1 /\ dcS = "lost")
    /\ rRemovals' = rRemovals \/ (rRemovals' = rRemovals + 1 /\ dcR = "lost")
    /\ toS' = toS \/ (toS # <<>> /\ toS' = Tail(toS))
    /\ chS' = chS \/ chS' = FALSE

LEMMA ApartCases ==
    ASSUME \/ ReplyUnheard \/ (\E error \in BOOLEAN : OldSenderCloses(error))
           \/ (\E error \in BOOLEAN : OldReceiverCloses(error)) \/ UNCHANGED againVars
    PROVE  Apart
<1>1. CASE ReplyUnheard
  BY <1>1 DEF ReplyUnheard, Apart, historyVars, oldVars, senderVars, sendVars, receiverVars, rxVars
<1>2. CASE \E error \in BOOLEAN : OldSenderCloses(error)
  BY <1>2 DEF OldSenderCloses, SenderFailed, Apart, sendVars, linkVars, receiverVars, rxVars
<1>3. CASE \E error \in BOOLEAN : OldReceiverCloses(error)
  BY <1>3 DEF OldReceiverCloses, Apart, senderVars, sendVars, linkVars, rxVars
<1>4. CASE UNCHANGED againVars
  BY <1>4 DEF againVars, Apart, historyVars, oldVars, vars, senderVars, sendVars, linkVars,
     receiverVars, rxVars
<1> QED
  BY <1>1, <1>2, <1>3, <1>4

LEMMA SilentApart ==
    ASSUME SilentInv, Apart
    PROVE  SilentInv'
<1>0. SenderInv /\ AgainTypes /\ SavedInv /\ OldSilent
  BY DEF SilentInv
<1>1. toS \in Seq(Replies) /\ toS' \in Seq(Replies) /\ (toS' # <<>> => toS # <<>>)
      /\ \A k \in 1..Len(toS') : \E j \in 1..Len(toS) : toS'[k] = toS[j]
  <2>0. toS \in Seq(Replies)
    BY <1>0 DEF SenderInv, LinkTypes
  <2>1. CASE toS' = toS
    BY <2>0, <2>1
  <2>2. CASE toS # <<>> /\ toS' = Tail(toS)
    BY <2>0, <2>2
  <2> QED
    BY <2>1, <2>2 DEF Apart
<1>2. SenderTypes'
  <2>1. chS' \in BOOLEAN /\ sHist' \subseteq {"complete", "failed", "rejected"}
    BY <1>0 DEF SenderInv, SenderTypes, Apart
  <2>2. sRemovals' \in Nat
    BY <1>0 DEF SenderInv, SenderTypes, Apart
  <2> QED
    BY <1>0, <2>1, <2>2, Zenon DEF SenderInv, SenderTypes, Apart
<1>3. LinkTypes' /\ StreamInOrder' /\ ReaderInv'
  BY <1>0, <1>1 DEF SenderInv, LinkTypes, StreamInOrder, ReaderInv, OneReader, Apart
<1>4. SenderInv'
  BY <1>0, <1>1, <1>2, <1>3 DEF SenderInv, Apart
<1>5. AgainTypes'
  <2>1. rRemovals' \in Nat
    BY <1>0 DEF AgainTypes, Apart
  <2> QED
    BY <1>0, <2>1 DEF AgainTypes, Apart
<1>6. SavedInv'
  <2>1. (\A k \in 1..Len(toS') : toS'[k].type = "ack" => downloads' = <<0..(toS'[k].idx - 1)>>)
    BY <1>0, <1>1, Zenon DEF SavedInv, Apart
  <2>2. ConfirmedMeansSaved'
    BY <1>0 DEF SavedInv, ConfirmedMeansSaved, Apart
  <2> QED
    BY <1>0, <2>1, <2>2 DEF SavedInv, Arrived, Apart
<1>7. OldSilent'
  BY <1>0 DEF OldSilent, Apart
<1> QED
  BY <1>4, <1>5, <1>6, <1>7 DEF SilentInv

\* The answer and the entry.
LEMMA AnswerStep ==
    ASSUME SenderInv, RemovalInv, AnswerInv, Next
    PROVE  AnswerInv'
<1> USE DEF AnswerInv
<1>1. CASE DcOpens
  BY <1>1 DEF DcOpens, SendV2Head, CanSendHead
<1>2. CASE HandleFileAccept
  BY <1>2 DEF HandleFileAccept, SendV2Head, CanSendHead
<1>3. CASE HashDone
  BY <1>3 DEF HashDone, linkVars
<1>4. CASE HandleFileReject \/ RemoveOutgoing
  BY <1>4 DEF HandleFileReject, RemoveOutgoing, linkVars
<1>5. CASE \E k \in 1..Len(reads) : ReadDone(k)
  <2> PICK r \in 1..Len(reads) : ReadDone(r)
    BY <1>5
  <2>1. file = "active"
    BY OneRead DEF ReadDone, RemovalInv
  <2> QED
    BY <2>1 DEF ReadDone
<1>6. CASE SenderIceFails
  BY <1>6 DEF SenderIceFails
<1>7. CASE \E error \in BOOLEAN : SenderDcCloses(error)
  BY <1>7 DEF SenderDcCloses
<1>8. CASE UNCHANGED <<file, accepted, headSent, dcS, consent>>
  BY <1>8
<1>9. CASE AcceptAllPending \/ RejectAllPending
  BY <1>9 DEF AcceptAllPending, RejectAllPending, senderVars, linkVars
<1>10. CASE \/ Wake \/ HandleFlowAdv \/ Transmit \/ HandleFileReceived \/ AckTimeout
            \/ (\E k \in 1..Len(reads) : ReadDoneTooLate(k)) \/ (\E k \in 1..Len(reads) : ReadFails(k))
  BY <1>8, <1>10 DEF Wake, HandleFlowAdv, HandleFileReceived, AckTimeout, Transmit,
     ReadDoneTooLate, ReadFails, linkVars
<1>11. CASE \/ RecvV2Head \/ RecvBlock \/ RemoveIncoming \/ ReceiverIceFails
            \/ (\E error \in BOOLEAN : ReceiverDcCloses(error))
  BY <1>8, <1>11 DEF RecvV2Head, RecvBlock, RemoveIncoming, ReceiverIceFails,
     ReceiverDcCloses, linkVars, senderVars
<1> QED
  BY <1>1, <1>2, <1>3, <1>4, <1>5, <1>6, <1>7, <1>9, <1>10, <1>11, NextCases

LEMMA CleanStep ==
    ASSUME SilentInv, CleanInv, Next, Aside
    PROVE  CleanInv'
<1>0. /\ SenderInv /\ SavedInv /\ ReceiverInv /\ RemovalInv /\ AnswerInv
      /\ received \in Nat /\ rRemovals \in Nat
  BY DEF SilentInv, CleanInv, AgainTypes
<1>1. ReceiverInv'
  BY <1>0, ReceiverStep
<1>2. RemovalInv'
  <2>1. FromReceiver("ack") => downloads # <<>>
    <3>1. toS \in Seq(Replies)
      BY <1>0 DEF SenderInv, LinkTypes
    <3>2. FromReceiver("ack") => 1 \in 1..Len(toS) /\ toS[1].type = "ack"
      BY <3>1 DEF FromReceiver
    <3>3. FromReceiver("ack") => downloads = <<0..(toS[1].idx - 1)>>
      BY <1>0, <3>2, Zenon DEF SavedInv
    <3>4. \A S : <<S>> # <<>>
      OBVIOUS
    <3> QED
      BY <3>3, <3>4, Zenon
  <2> QED
    BY <1>0, <2>1, RemovalStep
<1>3. AnswerInv'
  BY <1>0, AnswerStep
<1> QED
  BY <1>1, <1>2, <1>3 DEF CleanInv, Aside, historyVars

LEMMA CleanApart ==
    ASSUME SilentInv, CleanInv, Apart
    PROVE  CleanInv'
<1>0. sRemovals \in Nat /\ rRemovals \in Nat
  BY DEF SilentInv, SenderInv, SenderTypes, AgainTypes
<1>1. ReceiverInv'
  <2>1. rRemovals' > 0 => rRemovals > 0 \/ dcR # "open"
    BY <1>0 DEF Apart
  <2> QED
    BY <2>1 DEF CleanInv, ReceiverInv, WholeIsSaved, Apart
<1>2. RemovalInv'
  <2>1. sRemovals' > 0 => sRemovals > 0 \/ dcS = "lost"
    BY <1>0 DEF Apart
  <2> QED
    BY <2>1 DEF CleanInv, RemovalInv, Apart
<1>3. AnswerInv'
  BY DEF CleanInv, AnswerInv, Apart
<1> QED
  BY <1>1, <1>2, <1>3 DEF CleanInv, Apart, historyVars

-------------------------------------------------------------------------------
(* The invariant.                                                              *)

\* A reader never outlives the entry of a clean round.
LEMMA NoReaderLeft ==
    ASSUME AgainIInv, StartAgain
    PROVE  reads = <<>> /\ SilentInv /\ CleanInv
<1>1. SilentInv /\ CleanInv /\ file = "removed" /\ dcS \in {"connecting", "open"}
  BY DEF AgainIInv, CleanInv, StartAgain
<1> QED
  BY <1>1 DEF CleanInv, RemovalInv

\* A round that begins in silence has nothing of the last channel, and the counters of
\* the sending page start anew; the receiver's entry is whatever it was.
LEMMA SilentStart ==
    ASSUME AgainIInv, StartAgain, ~late'
    PROVE  SilentInv'
<1>0. SenderInv /\ AgainTypes /\ SavedInv /\ reads = <<>>
  BY NoReaderLeft DEF SilentInv
<1>s. wakeups = 0 /\ taken = Len(stream) /\ toS = <<>>
  BY DEF StartAgain, Silent
<1>1. /\ total' \in Nat /\ total' \in FileBlocks /\ sent' = 0 /\ sentIdx' = -1 /\ headSent' = FALSE
      /\ waitingAck' = FALSE /\ accepted' = FALSE /\ file' = "hashing" /\ chS' = TRUE
      /\ stream' = <<>> /\ wire' = 0 /\ taken' = 0 /\ toS' = <<>> /\ dcS' = "connecting"
      /\ sHist' = {} /\ downloads' = <<>>
  BY RoundsAssumption DEF StartAgain, FreshEntry
<1>2. /\ reads' = <<>> /\ wakeups' = 0
      /\ UNCHANGED <<lastConfirmed, ackTimers, sRemovals, dcR, rx, announced, blocks,
                     received, rRemovals>>
  BY <1>0, <1>s DEF StartAgain, rxVars
<1>3. SenderInv'
  <2>1. SenderTypes'
    <3>1. reads' \in Seq(0..(total' - 1)) /\ sHist' \subseteq {"complete", "failed", "rejected"}
      BY <1>1, <1>2
    <3>2. lastConfirmed' \in Nat /\ wakeups' \in Nat /\ ackTimers' \in Nat /\ sRemovals' \in Nat
      BY <1>0, <1>2 DEF SenderInv, SenderTypes
    <3>3. sent' \in 0..total' /\ sentIdx' \in -1..(total' - 1)
      <4>1. \A t \in Nat : 0 \in 0..t /\ -1 \in -1..(t - 1)
        OBVIOUS
      <4> QED
        BY <1>1, <4>1, Zenon
    <3> QED
      BY <1>1, <3>1, <3>2, <3>3 DEF SenderTypes
  <2>2. LinkTypes' /\ StreamInOrder'
    <3>1. dcR' \in DcStates /\ toS' \in Seq(Replies)
      BY <1>0, <1>1, <1>2 DEF SenderInv, LinkTypes
    <3>2. dcS' \in DcStates
      BY <1>1 DEF DcStates
    <3>3. stream' \in Seq(Messages) /\ Len(stream') = 0
      BY <1>1
    <3> QED
      BY <1>1, <3>1, <3>2, <3>3 DEF LinkTypes, StreamInOrder
  <2>3. ReaderInv'
    <3>1. lastConfirmed' \in Nat
      BY <1>0, <1>2 DEF SenderInv, SenderTypes
    <3> QED
      BY <1>1, <1>2, <3>1 DEF ReaderInv, OneReader
  <2> QED
    BY <1>1, <2>1, <2>2, <2>3 DEF SenderInv
<1>4. AgainTypes'
  BY <1>0, <1>2 DEF AgainTypes
<1>5. SavedInv'
  <2>1. rx' => \E n \in 0..received' : blocks' = 0..(n - 1) /\ Arrived' <= n
    <3>1. Arrived' = 0
      BY <1>1 DEF Arrived
    <3>2. rx => \E n \in 0..received : blocks = 0..(n - 1)
      BY <1>0 DEF SavedInv
    <3> QED
      BY <1>0, <1>2, <3>1, <3>2 DEF AgainTypes
  <2>2. ~rx' => blocks' = {} /\ received' = 0
    BY <1>0, <1>2 DEF SavedInv
  <2> QED
    BY <1>1, <2>1, <2>2 DEF SavedInv, ConfirmedMeansSaved
<1>6. OldSilent'
  <2>1. stream \in Seq(Messages) /\ wire = taken /\ taken \in Nat
    BY <1>0, <1>s DEF SenderInv, LinkTypes
  <2>2. oldStream' = SubSeq(stream, taken + 1, Len(stream)) /\ oldWire' = wire - taken
        /\ oldTaken' = 0 /\ oldToS' = toS
    BY DEF StartAgain, SetAside
  <2>3. SubSeq(stream, taken + 1, Len(stream)) = <<>>
    BY <1>s, <2>1
  <2> QED
    BY <1>s, <2>1, <2>2, <2>3 DEF OldSilent
<1> QED
  BY <1>3, <1>4, <1>5, <1>6 DEF SilentInv

\* After a complete transfer the receiver's entry is gone too.
LEMMA CleanStart ==
    ASSUME AgainIInv, StartAgain, clean'
    PROVE  CleanInv' /\ ~late'
<1>0. SilentInv /\ SavedInv /\ AgainTypes /\ SenderInv /\ reads = <<>>
  BY NoReaderLeft DEF SilentInv
<1>1. Silent /\ "complete" \in sHist /\ sRemovals = 0 /\ rRemovals = 0
  BY DEF StartAgain
<1>2. ~late'
  BY <1>1 DEF StartAgain
<1>3. /\ total' \in Nat /\ headSent' = FALSE /\ accepted' = FALSE /\ file' = "hashing"
      /\ consent' = "none" /\ taken' = 0 /\ downloads' = <<>> /\ reads' = <<>>
      /\ UNCHANGED <<sRemovals, rRemovals, rx, announced, blocks, received, dcR>>
  BY <1>0, RoundsAssumption DEF StartAgain, FreshEntry, rxVars
<1>4. ~rx /\ blocks = {} /\ received = 0
  <2>1. downloads = <<0..(total - 1)>>
    BY <1>0, <1>1 DEF SavedInv, ConfirmedMeansSaved
  <2>2. downloads # <<>>
    BY <2>1
  <2> QED
    BY <1>0, <2>2 DEF SavedInv
<1>5. ReceiverInv'
  BY <1>1, <1>3, <1>4 DEF ReceiverInv, WholeIsSaved
<1>6. RemovalInv' /\ AnswerInv'
  BY <1>1, <1>3 DEF RemovalInv, AnswerInv
<1> QED
  BY <1>2, <1>5, <1>6 DEF CleanInv

FullInv == AgainIInv /\ SeqInv

\* The first transfer starts as in FileChannel.
LEMMA InitFullInv == AgainInit => FullInv
<1> SUFFICES ASSUME AgainInit PROVE FullInv
  OBVIOUS
<1>1. SenderInv /\ ReceiverInv /\ RemovalInv /\ AnswerInv
  BY InitIInv, SenderPart, ReceiverPart DEF AgainInit, IInv, ConsentInv
<1>2. /\ rx = FALSE /\ announced = 0 /\ blocks = {} /\ received = 0 /\ rRemovals = 0
      /\ downloads = <<>> /\ toS = <<>> /\ sHist = {} /\ stream = <<>> /\ reads = <<>>
      /\ headSent = FALSE /\ sent = 0 /\ sentIdx = -1 /\ total \in Nat
      /\ clean = TRUE /\ late = FALSE /\ earlier = <<>>
      /\ oldStream = <<>> /\ oldWire = 0 /\ oldTaken = 0 /\ oldToS = <<>>
  BY DEF AgainInit, Init
<1>3. SilentInv
  <2>1. AgainTypes /\ OldSilent
    BY <1>2 DEF AgainTypes, OldSilent
  <2>2. Len(toS) = 0
    BY <1>2
  <2>3. SavedInv
    BY <1>2, <2>2 DEF SavedInv, ConfirmedMeansSaved
  <2> QED
    BY <1>1, <2>1, <2>3 DEF SilentInv
<1>4. CleanInv
  BY <1>1, <1>2 DEF CleanInv
<1>5. AckInv /\ SeqInv
  <2>1. IsSeq(<<>>) /\ Len(<<>>) = 0
    BY DEF IsSeq
  <2>2. AckInv
    BY <1>2 DEF AckInv, AcksSaved, ConfirmedIsSome
  <2> QED
    BY <1>2, <2>1, <2>2, Zenon DEF SeqInv
<1>6. ReadOrder
  BY <1>1, <1>2 DEF SenderInv, SenderTypes, ReaderInv, ReadOrder, OneReader
<1>7. HeadOrder
  <2>1. stream \in Seq(Messages) /\ Len(stream) = 0 /\ ~headSent /\ headSent \in BOOLEAN
    <3>1. <<>> \in Seq(Messages) /\ Len(<<>>) = 0
      OBVIOUS
    <3> QED
      BY <1>2, <3>1, Zenon
  <2>2. HeadAt(1) /\ 1 \in 1..(Len(stream) + 1) /\ ~(1 <= Len(stream)) /\ Len(stream) = sent
    BY <1>2, <2>1 DEF HeadAt
  <2> QED
    BY <2>1, <2>2, Zenon DEF HeadOrder
<1> QED
  BY <1>3, <1>4, <1>5, <1>6, <1>7 DEF FullInv, AgainIInv, OrderInv

\* The steps of the newest channel.
LEMMA FullStep ==
    ASSUME FullInv, Next, Aside
    PROVE  FullInv'
<1>1. UNCHANGED <<clean, late>>
  BY DEF Aside, historyVars
<1> QED
  BY <1>1, OrderStep, AckStep, SilentStep, CleanStep DEF FullInv, AgainIInv, CleanInv

\* Those of the old one.
LEMMA FullOld ==
    ASSUME FullInv, OldNext \/ ReplyUnheard
    PROVE  FullInv'
<1>1. UNCHANGED <<clean, late>>
  BY DEF OldNext, ReplyUnheard, OldTransmit, OldDeliver, OldFlowAdv, OldFileReceived,
     OldSenderCloses, OldReceiverCloses, historyVars
<1>2. OrderInv' /\ AckInv' /\ SeqInv'
  BY OrderOld, AckOld DEF FullInv, AgainIInv
<1>3. ASSUME SilentInv PROVE Apart
  BY <1>3, OldIdle, ApartCases DEF OldNext
<1> QED
  BY <1>1, <1>2, <1>3, SilentApart, CleanApart DEF FullInv, AgainIInv, CleanInv

\* Another transfer.
LEMMA FullStart ==
    ASSUME FullInv, StartAgain
    PROVE  FullInv'
<1>1. OrderInv'
  BY NoReaderLeft, OrderStart DEF FullInv
<1>2. AckInv' /\ SeqInv'
  BY NoReaderLeft, AckStart DEF FullInv, AgainIInv, SilentInv
<1> QED
  BY <1>1, <1>2, SilentStart, CleanStart DEF FullInv, AgainIInv

\* A step that changes nothing.
LEMMA FullStutter ==
    ASSUME FullInv, UNCHANGED againVars
    PROVE  FullInv'
<1>1. Apart
  BY ApartCases
<1>2. /\ UNCHANGED <<clean, late, earlier, total, downloads, toS, oldToS, sHist>>
      /\ UNCHANGED <<sent, sentIdx, reads, headSent, stream>>
  BY DEF againVars, historyVars, oldVars, vars, senderVars, sendVars, linkVars, receiverVars
<1>3. OrderInv'
  BY <1>2, OrderKept DEF FullInv, AgainIInv
<1>4. AckInv' /\ SeqInv'
  BY <1>2, AckFrame DEF FullInv, AgainIInv, Grows, Follows
<1> QED
  BY <1>1, <1>2, <1>3, <1>4, SilentApart, CleanApart DEF FullInv, AgainIInv, CleanInv

\* The invariant holds through every transfer and every start of one, whatever
\* entries, confirmations, timers and messages the last one left.
THEOREM AgainInvariance == AgainSpec => []AgainIInv
<1>1. FullInv /\ [AgainNext]_againVars => FullInv'
  BY AgainCases, FullStep, FullOld, FullStart, FullStutter DEF OldNext
<1>2. FullInv => AgainIInv
  BY DEF FullInv
<1> QED
  BY <1>1, <1>2, InitFullInv, PTL DEF AgainSpec

\* Every block of a transfer is sent once, in order, although late confirmations of
\* the last channel are one more caller of sendBlock, on an entry without header and
\* consent.
THEOREM AgainInOrder == AgainSpec => []OnceInOrder
<1>1. AgainIInv => OnceInOrder
  BY DEF AgainIInv, OrderInv, HeadOrder, OnceInOrder
<1> QED
  BY <1>1, AgainInvariance, PTL

\* One block is read at a time, with those callers too.
THEOREM AgainSingleReader == AgainSpec => []OneReader
<1>1. AgainIInv => OneReader
  BY DEF AgainIInv, OrderInv, ReadOrder
<1> QED
  BY <1>1, AgainInvariance, PTL

\* In a round that is not late the header is first, whatever entries, counters and
\* timers the last one left.
THEOREM AgainHeaderFirst == AgainSpec => []SilentInOrder
<1>1. AgainIInv => SilentInOrder
  BY DEF AgainIInv, SilentInv, SenderInv, SilentInOrder
<1> QED
  BY <1>1, AgainInvariance, PTL

\* A digest confirms only a file that was saved, this one or the last, and of as many
\* blocks: also when it is a late one of the last channel, or of blocks of both.
THEOREM AgainConfirmation == AgainSpec => []ConfirmedIsSome
<1>1. AgainIInv => ConfirmedIsSome
  BY DEF AgainIInv, AckInv
<1> QED
  BY <1>1, AgainInvariance, PTL

\* In a round that is not late it is this one, whole and once, whatever entry of an
\* earlier transfer the receiver adds the blocks to.
THEOREM SilentConfirmation == AgainSpec => []SilentConfirmed
<1>1. AgainIInv => SilentConfirmed
  BY DEF AgainIInv, SilentInv, SavedInv, SilentConfirmed
<1> QED
  BY <1>1, AgainInvariance, PTL

\* Complete transfers leave nothing that spoils the next: it is saved whole.
THEOREM CleanTransfers == AgainSpec => []CleanIsWhole
<1>1. AgainIInv => CleanIsWhole
  BY DEF AgainIInv, CleanInv, CleanIsWhole, ReceiverInv, PrefixHeld
<1> QED
  BY <1>1, AgainInvariance, PTL

===============================================================================
