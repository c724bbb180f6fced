--------------------------- MODULE FileChannelProofs ---------------------------
(* Proofs about FileChannel: its inductive invariant, the safety properties    *)
(* that follow from it, and that it implements Transfer.                       *)
EXTENDS FileChannel, FiniteSetTheorems, TLAPS

USE ChannelAssumption

\* Every action, for the case splits below.
LEMMA NextCases ==
    ASSUME Next
    PROVE  \/ HashDone \/ DcOpens \/ AcceptAllPending \/ RejectAllPending
           \/ HandleFileAccept \/ HandleFileReject
           \/ Wake \/ HandleFlowAdv \/ HandleFileReceived
           \/ (\E k \in 1..Len(reads) : ReadDone(k)) \/ (\E k \in 1..Len(reads) : ReadDoneTooLate(k))
           \/ (\E k \in 1..Len(reads) : ReadFails(k))
           \/ AckTimeout \/ RemoveOutgoing \/ SenderIceFails
           \/ (\E error \in BOOLEAN : SenderDcCloses(error))
           \/ Transmit \/ RecvV2Head \/ RecvBlock \/ RemoveIncoming
           \/ ReceiverIceFails \/ (\E error \in BOOLEAN : ReceiverDcCloses(error))
BY DEF Next, FileRead, HandleReply, Deliver

\* A sequence to which something was appended.
LEMMA AppendLen ==
    ASSUME NEW S, NEW q \in Seq(S), NEW e
    PROVE  Len(Append(q, e)) = Len(q) + 1 /\ Append(q, e) # <<>>
OBVIOUS

\* Initially nothing was sent.
LEMMA InitIInv == Init => IInv
<1> SUFFICES ASSUME Init PROVE IInv
  OBVIOUS
<1>1. TypeOK
  <2>1. total \in Nat /\ sent \in 0..total /\ sentIdx \in -1..(total - 1)
        /\ announced \in 0..total /\ received \in 0..total
    BY DEF Init
  <2>2. Len(stream) = 0 /\ stream \in Seq(Messages) /\ toS \in Seq(Replies)
        /\ downloads \in Seq(SUBSET Nat) /\ wire \in 0..Len(stream) /\ taken \in 0..wire
    BY DEF Init
  <2>3. reads \in Seq(0..(total - 1)) /\ blocks \subseteq 0..(total - 1)
        /\ sHist \subseteq {"complete", "failed", "rejected"}
    BY DEF Init
  <2>4. /\ total \in FileBlocks /\ file \in {"hashing", "active", "removed"}
        /\ dcS \in DcStates /\ dcR \in DcStates
        /\ lastConfirmed \in Nat /\ wakeups \in Nat /\ ackTimers \in Nat
        /\ sRemovals \in Nat /\ rRemovals \in Nat
    BY DEF Init, DcStates
  <2>5. /\ chS \in BOOLEAN /\ accepted \in BOOLEAN /\ headSent \in BOOLEAN
        /\ waitingAck \in BOOLEAN /\ chR \in BOOLEAN /\ incoming \in BOOLEAN
        /\ rx \in BOOLEAN
    BY DEF Init
  <2>6. consent \in Answers
    BY DEF Init, Answers
  <2> QED
    BY <2>1, <2>2, <2>3, <2>4, <2>5, <2>6, Zenon DEF TypeOK, SenderTypes, LinkTypes, ReceiverTypes
<1>2. StreamInOrder /\ ReaderInv /\ ConsentInv /\ RemovalInv
  BY DEF Init, StreamInOrder, ReaderInv, OneReader, ConsentInv, AnswerInv, AcceptedIsSent, RemovalInv
<1>3. ReceiverInv /\ ReplyInv
  BY DEF Init, ReceiverInv, WholeIsSaved, ReplyInv
<1> QED
  BY <1>1, <1>2, <1>3 DEF IInv

\* What the sending page keeps does not depend on the receiver's entry: a first
\* transfer and a repeated one share it.
LEMMA SenderPart ==
    ASSUME IInv
    PROVE  SenderInv
<1>1. SenderTypes /\ LinkTypes /\ StreamInOrder /\ ReaderInv
  BY DEF IInv, TypeOK
<1>2. ASSUME toS # <<>> PROVE taken > 0
  <2>1. 1 \in 1..Len(toS) /\ toS[1] \in Replies
    BY <1>1, <1>2 DEF LinkTypes
  <2>2. CASE toS[1].type = "flow"
    BY <1>1, <2>1, <2>2 DEF IInv, ReplyInv, Replies, LinkTypes
  <2>3. CASE toS[1].type = "ack"
    BY <1>1, <2>1, <2>3 DEF IInv, ReplyInv, ReceiverInv, SenderTypes
  <2> QED
    BY <2>1, <2>2, <2>3 DEF Replies
<1> QED
  BY <1>1, <1>2 DEF SenderInv

\* The receiver's entry, as its step lemmas need it.
LEMMA ReceiverPart ==
    ASSUME IInv
    PROVE  ReceiverInv /\ received \in Nat /\ rRemovals \in Nat
BY DEF IInv, TypeOK, SenderTypes, ReceiverTypes

\* A reply under way, or a queued sendBlock, means that the header was sent.
LEMMA HeaderBefore ==
    ASSUME SenderInv
    PROVE  /\ toS # <<>> => headSent
           /\ wakeups > 0 => headSent
           /\ taken > 0 => headSent
           /\ headSent => taken <= sent + 1
BY DEF SenderInv, SenderTypes, LinkTypes, ReaderInv

\* A FileReader under way is the only one, and reads the next block.
LEMMA OneRead ==
    ASSUME SenderInv, NEW k \in 1..Len(reads)
    PROVE  /\ reads = <<sent>> /\ k = 1 /\ reads[k] = sent /\ ReadsBut(k) = <<>>
           /\ reads # <<>> /\ sentIdx = sent /\ sent < total
<1>1. reads # <<>>
  BY DEF SenderInv, SenderTypes
<1>2. reads = <<sent>> /\ sentIdx = sent /\ sent < total
  BY <1>1 DEF SenderInv, ReaderInv, OneReader
<1>3. k = 1 /\ Len(reads) = 1
  BY <1>2
<1>4. ReadsBut(k) = <<>>
  BY <1>2, <1>3 DEF ReadsBut
<1> QED
  BY <1>1, <1>2, <1>3, <1>4

\* What sendBlock may do with the confirmation lc, a later one than before.
LEMMA SendBlockReader ==
    ASSUME SenderInv, NEW lc \in Nat, lc >= lastConfirmed, lastConfirmed' = lc, headSent,
           SendBlock(lc),
           UNCHANGED <<total, headSent, sent, wire, taken, stream>>,
           wakeups' \in Nat
    PROVE  ReaderInv'
<1> USE DEF SenderInv, SenderTypes, LinkTypes, ReaderInv, OneReader
<1>1. CASE StartsRead(lc) /\ sentIdx' = sent /\ reads' = Append(reads, sent)
           /\ UNCHANGED <<waitingAck, ackTimers>>
  <2>1. reads = <<>> /\ sent < total /\ sent - lc < MaxInflight
    BY <1>1 DEF StartsRead, WindowOpen
  <2>2. reads' = <<sent>>
    BY <1>1, <2>1
  <2> QED
    BY <1>1, <2>1, <2>2
<1>2. CASE AwaitsAck(lc) /\ waitingAck' = TRUE /\ UNCHANGED <<sentIdx, reads>>
  BY <1>2 DEF AwaitsAck
<1>3. CASE UNCHANGED sendVars
  BY <1>3 DEF sendVars
<1> QED
  BY <1>1, <1>2, <1>3 DEF SendBlock

\* The sender's counters, reader and window.
LEMMA ReaderStep ==
    ASSUME SenderInv, Next
    PROVE  ReaderInv'
<1> USE DEF SenderInv, SenderTypes, LinkTypes, ReaderInv, OneReader
<1>1. CASE DcOpens
  BY <1>1 DEF DcOpens, SendV2Head, CanSendHead, sendVars
<1>2. CASE HandleFileAccept
  BY <1>2 DEF HandleFileAccept, SendV2Head, CanSendHead, sendVars
<1>3. CASE Wake
  <2>1. headSent /\ SendBlock(lastConfirmed) /\ wakeups' \in Nat
        /\ UNCHANGED <<total, headSent, sent, wire, taken, stream, lastConfirmed>>
    BY <1>3, HeaderBefore DEF Wake, linkVars
  <2> QED
    BY <2>1, SendBlockReader DEF SenderInv, SenderTypes
<1>4. CASE HandleFlowAdv
  <2> DEFINE lc == IF Head(toS).idx > lastConfirmed THEN Head(toS).idx ELSE lastConfirmed
  <2>1. toS # <<>> /\ Head(toS) \in Replies
    BY <1>4 DEF HandleFlowAdv, FlowAdvanced, FromReceiver
  <2>2. lc \in Nat /\ lc >= lastConfirmed
    BY <2>1 DEF Replies
  <2>3. headSent /\ SendBlock(lc) /\ wakeups' \in Nat /\ lastConfirmed' = lc
        /\ UNCHANGED <<total, headSent, sent, wire, taken, stream>>
    BY <1>4, <2>1, HeaderBefore DEF HandleFlowAdv, FlowAdvanced
  <2> HIDE DEF lc
  <2> QED
    BY <2>2, <2>3, SendBlockReader
<1>5. CASE \E k \in 1..Len(reads) : ReadDone(k)
  <2> PICK r \in 1..Len(reads) : ReadDone(r)
    BY <1>5
  <2>1. reads # <<>> /\ reads = <<sent>> /\ reads[r] = sent /\ ReadsBut(r) = <<>>
    BY OneRead
  <2>2. reads' = <<>> /\ sent' = sent + 1 /\ stream' = Append(stream, Block(sent))
        /\ UNCHANGED <<total, headSent, sentIdx, lastConfirmed, waitingAck>>
    BY <2>1, Zenon DEF ReadDone
  <2>3. Len(stream') = Len(stream) + 1 /\ stream' # <<>>
    <3>1. stream \in Seq(Messages)
      BY DEF SenderInv, LinkTypes
    <3> QED
      BY <2>2, <3>1, AppendLen
  <2>4. ~waitingAck'
    BY <2>1, <2>2
  <2>5. OneReader' /\ (headSent' <=> stream' # <<>>)
    BY <2>1, <2>2, <2>3
  <2>6. sentIdx' <= sent' /\ sent' <= lastConfirmed' + MaxInflight
        /\ Len(stream') = sent' + 1
    BY <2>1, <2>2, <2>3
  <2> QED
    BY <2>1, <2>2, <2>4, <2>5, <2>6, Zenon DEF ReaderInv
<1>6. CASE \E k \in 1..Len(reads) : ReadDoneTooLate(k) \/ ReadFails(k)
  <2>1. reads' = <<>> /\ sentIdx <= sent
    BY <1>6, OneRead DEF ReadDoneTooLate, ReadFails
  <2>2. UNCHANGED <<total, headSent, sent, sentIdx, lastConfirmed, waitingAck, wakeups, stream>>
    BY <1>6 DEF ReadDoneTooLate, ReadFails, linkVars
  <2> QED
    BY <2>1, <2>2
<1>8. CASE HandleFileReceived
  BY <1>8 DEF HandleFileReceived, FileConfirmed
<1>9. CASE AckTimeout
  BY <1>9 DEF AckTimeout, linkVars
<1>10. CASE Transmit
  BY <1>10 DEF Transmit, sendVars
<1>11. CASE \/ HashDone \/ HandleFileReject \/ RemoveOutgoing
            \/ SenderIceFails \/ \E error \in BOOLEAN : SenderDcCloses(error)
  <2>1. UNCHANGED <<total, headSent, sent, sentIdx, reads, lastConfirmed, waitingAck,
                    wakeups, stream>>
    BY <1>11 DEF HashDone, HandleFileReject, RemoveOutgoing, SenderIceFails,
                 SenderDcCloses, sendVars, linkVars
  <2> QED
    BY <2>1
<1>12. CASE \/ RecvV2Head \/ RecvBlock \/ RemoveIncoming \/ ReceiverIceFails
            \/ (\E error \in BOOLEAN : ReceiverDcCloses(error))
            \/ AcceptAllPending \/ RejectAllPending
  <2>1. UNCHANGED <<total, headSent, sent, sentIdx, reads, lastConfirmed, waitingAck,
                    wakeups, stream>>
    BY <1>12 DEF RecvV2Head, RecvBlock, RemoveIncoming, ReceiverIceFails, AcceptAllPending,
                 RejectAllPending, ReceiverDcCloses, senderVars, sendVars, linkVars
  <2> QED
    BY <2>1
<1> QED
  BY <1>1, <1>2, <1>3, <1>4, <1>5, <1>6, <1>8, <1>9, <1>10, <1>11, <1>12, NextCases

-------------------------------------------------------------------------------
(* What the receiver does with a block.                                        *)

\* The next message is the block that the receiver's buffer misses first.
LEMMA NextBlock ==
    ASSUME SenderInv, FromSender("block")
    PROVE  /\ taken \in 1..total /\ stream[taken + 1] = Block(taken - 1)
           /\ taken <= sent
<1>0. /\ taken \in Nat /\ wire \in 0..Len(stream) /\ stream \in Seq(Messages)
      /\ total \in Nat /\ sent \in 0..total
  BY DEF SenderInv, SenderTypes, LinkTypes
<1>1. taken + 1 \in 1..Len(stream) /\ stream[taken + 1].type = "block"
  BY <1>0 DEF FromSender
<1>2. \A k \in 1..Len(stream) :
         /\ k = 1 => stream[k] = V2Head
         /\ k # 1 => stream[k] = Block(k - 2)
  BY DEF SenderInv, StreamInOrder
<1>3. taken # 0
  <2>1. V2Head.type = "head"
    BY DEF V2Head
  <2>2. taken + 1 = 1 => stream[taken + 1] = V2Head
    BY <1>1, <1>2, Zenon
  <2> QED
    BY <1>1, <2>1, <2>2
<1>4. stream[taken + 1] = Block(taken - 1)
  <2> DEFINE k == taken + 1
  <2>1. k \in 1..Len(stream) /\ k # 1 /\ k - 2 = taken - 1
    BY <1>0, <1>1, <1>3
  <2> HIDE DEF k
  <2>2. stream[k] = Block(k - 2)
    BY <1>2, <2>1
  <2>3. stream[k] = Block(taken - 1)
    BY <2>1, <2>2, Zenon
  <2> QED
    BY <2>3, Zenon DEF k
<1>5. Len(stream) = sent + 1
  <2>1. stream # <<>>
    BY <1>1
  <2> QED
    BY <2>1, Zenon DEF SenderInv, ReaderInv
<1>6. taken \in 1..total /\ taken <= sent
  BY <1>0, <1>1, <1>3, <1>5
<1> QED
  BY <1>4, <1>6, Zenon

\* Adding block n to the prefix of n blocks.
LEMMA PrefixGrows ==
    ASSUME NEW n \in Nat
    PROVE  /\ 0..(n - 1) \cup {n} = 0..n
           /\ Cardinality(0..n) = n + 1
           /\ (CHOOSE j \in 0..n : \A k \in 0..n : k <= j) = n
<1>1. Cardinality(0..n) = n + 1
  BY FS_Interval
<1>2. (CHOOSE j \in 0..n : \A k \in 0..n : k <= j) = n
  <2>1. n \in 0..n /\ \A k \in 0..n : k <= n
    OBVIOUS
  <2>2. \A j \in 0..n : (\A k \in 0..n : k <= j) => j = n
    BY <2>1
  <2> QED
    BY <2>1, <2>2
<1>3. 0..(n - 1) \cup {n} = 0..n
  OBVIOUS
<1> QED
  BY <1>1, <1>2, <1>3

\* The two outcomes of recvBlock on an entry: the file is whole with its last
\* block, and only then.
LEMMA StoreBlockStep ==
    ASSUME SenderInv, ReceiverInv, received \in Nat, RecvBlock, rx
    PROVE  /\ taken = received + 1 /\ received < total
           /\ announced = total /\ downloads = <<>>
           /\ \/ /\ received + 1 = total
                 /\ Reply(FileReceived(total))
                 /\ downloads' = <<0..(total - 1)>>
                 /\ rRemovals' = rRemovals + 1
                 /\ incoming' = FALSE
                 /\ FreeBuffer
              \/ /\ received + 1 # total
                 /\ Reply(FlowAdv(received))
                 /\ blocks' = 0..received
                 /\ received' = received + 1
                 /\ UNCHANGED <<rx, announced, incoming, downloads, rRemovals>>
<1>1. FromSender("block") /\ StoreBlock(stream[taken + 1].idx)
  BY DEF RecvBlock
<1>2. taken \in 1..total /\ stream[taken + 1].idx = taken - 1 /\ total \in Nat
  <2>1. taken \in 1..total /\ stream[taken + 1] = Block(taken - 1)
    BY <1>1, NextBlock
  <2>2. Block(taken - 1).idx = taken - 1
    BY DEF Block
  <2>3. total \in Nat
    BY DEF SenderInv, SenderTypes
  <2> QED
    BY <2>1, <2>2, <2>3
<1>3. announced = total /\ downloads = <<>> /\ taken = received + 1 /\ received \in Nat
  BY DEF ReceiverInv
<1>4. stream[taken + 1].idx = received /\ received < total
  BY <1>2, <1>3
<1>5. StoreBlock(received)
  BY <1>1, <1>4
<1>6. blocks \cup {received} = 0..received
  BY <1>3, PrefixGrows DEF ReceiverInv
<1>7. Cardinality(0..received) = received + 1
      /\ (CHOOSE j \in 0..received : \A k \in 0..received : k <= j) = received
  BY <1>3, PrefixGrows
<1>8. CASE received + 1 = total
  <2>1. IsWhole(0..received, received + 1)
    BY <1>3, <1>7, <1>8 DEF IsWhole
  <2>2. Append(downloads, 0..received) = <<0..(total - 1)>>
    BY <1>3, <1>8
  <2>3. /\ Reply(FileReceived(announced)) /\ downloads' = Append(downloads, 0..received)
        /\ rRemovals' = rRemovals + 1 /\ incoming' = FALSE /\ FreeBuffer
    BY <1>5, <1>6, <2>1 DEF StoreBlock
  <2> QED
    BY <1>3, <1>4, <1>8, <2>2, <2>3
<1>9. CASE received + 1 # total
  <2>1. ~IsWhole(0..received, received + 1)
    BY <1>3, <1>7, <1>9 DEF IsWhole
  <2> QED
    BY <1>3, <1>4, <1>5, <1>6, <1>7, <1>9, <2>1, Zenon DEF StoreBlock
<1> QED
  BY <1>8, <1>9

-------------------------------------------------------------------------------
(* Type correctness.                                                           *)

\* What sendBlock changes keeps its type.
LEMMA SendBlockType ==
    ASSUME SenderTypes, NEW lc \in Nat, SendBlock(lc), UNCHANGED total
    PROVE  /\ sentIdx' \in -1..(total' - 1) /\ reads' \in Seq(0..(total' - 1))
           /\ waitingAck' \in BOOLEAN /\ ackTimers' \in Nat
<1> USE DEF SenderTypes
<1>1. CASE StartsRead(lc) /\ sentIdx' = sent /\ reads' = Append(reads, sent)
           /\ UNCHANGED <<waitingAck, ackTimers>>
  BY <1>1 DEF StartsRead
<1>2. CASE waitingAck' = TRUE /\ ackTimers' = ackTimers + 1 /\ UNCHANGED <<sentIdx, reads>>
  BY <1>2
<1>3. CASE UNCHANGED sendVars
  BY <1>3 DEF sendVars
<1> QED
  BY <1>1, <1>2, <1>3 DEF SendBlock

\* A message that is handled is one of its kind.
LEMMA ReplyType ==
    ASSUME LinkTypes, toS # <<>>
    PROVE  /\ Head(toS) \in Replies /\ Head(toS).idx \in Nat
           /\ Tail(toS) \in Seq(Replies)
<1> USE DEF LinkTypes
<1>1. Head(toS) \in Replies /\ Tail(toS) \in Seq(Replies)
  OBVIOUS
<1> QED
  BY <1>1 DEF Replies

\* Every step keeps the types of the sending page.
LEMMA SenderTypeStep ==
    ASSUME SenderInv, Next
    PROVE  SenderTypes'
<1> USE DEF SenderTypes
<1>0. SenderInv /\ SenderTypes /\ LinkTypes
  BY DEF SenderInv
<1>1. CASE HashDone \/ HandleFileReject \/ RemoveOutgoing \/ SenderIceFails
  <2>1. file' \in {"hashing", "active", "removed"} /\ chS' \in BOOLEAN
    BY <1>0, <1>1 DEF HashDone, HandleFileReject, RemoveOutgoing, SenderIceFails
  <2>2. sHist' \subseteq {"complete", "failed", "rejected"}
    BY <1>0, <1>1 DEF HashDone, HandleFileReject, RemoveOutgoing, SenderIceFails
  <2>3. sRemovals' \in Nat
    BY <1>0, <1>1 DEF HashDone, HandleFileReject, RemoveOutgoing, SenderIceFails
  <2>4. UNCHANGED <<total, accepted, headSent, sent, lastConfirmed, wakeups,
                    sentIdx, reads, waitingAck, ackTimers>>
    BY <1>1 DEF HashDone, HandleFileReject, RemoveOutgoing, SenderIceFails, sendVars
  <2> QED
    BY <1>0, <2>1, <2>2, <2>3, <2>4
<1>2. CASE DcOpens \/ HandleFileAccept
  <2>1. accepted' \in BOOLEAN
    BY <1>0, <1>2 DEF DcOpens, HandleFileAccept
  <2>2. headSent' \in BOOLEAN /\ wakeups' \in Nat
    <3>1. wakeups \in Nat /\ headSent \in BOOLEAN
      BY <1>0
    <3>2. \E acc, dc : SendV2Head(dc, acc)
      BY <1>2 DEF DcOpens, HandleFileAccept
    <3>3. \/ headSent' = TRUE /\ wakeups' = wakeups + 1
          \/ headSent' = headSent /\ wakeups' = wakeups
      BY <3>2 DEF SendV2Head
    <3>4. headSent' \in BOOLEAN
      BY <3>1, <3>3, Zenon
    <3>5. wakeups' \in Nat
      BY <3>1, <3>3
    <3> QED
      BY <3>4, <3>5
  <2>3. UNCHANGED <<total, file, chS, sent, lastConfirmed, sRemovals, sHist,
                    sentIdx, reads, waitingAck, ackTimers>>
    BY <1>2 DEF DcOpens, HandleFileAccept, sendVars
  <2> QED
    BY <1>0, <2>1, <2>2, <2>3
<1>3. CASE Wake
  <2>1. /\ SendBlock(lastConfirmed) /\ wakeups' \in Nat
        /\ UNCHANGED <<total, file, chS, accepted, headSent, sent, lastConfirmed, sRemovals, sHist>>
    BY <1>0, <1>3 DEF Wake
  <2> QED
    BY <1>0, <2>1, SendBlockType
<1>4. CASE HandleFlowAdv
  <2> DEFINE lc == IF Head(toS).idx > lastConfirmed THEN Head(toS).idx ELSE lastConfirmed
  <2>1. lc \in Nat
    BY <1>0, <1>4, ReplyType DEF HandleFlowAdv, FlowAdvanced, FromReceiver
  <2>2. /\ lastConfirmed' = lc /\ SendBlock(lc)
        /\ UNCHANGED <<total, file, chS, accepted, headSent, sent, wakeups, sRemovals, sHist>>
    BY <1>4 DEF HandleFlowAdv, FlowAdvanced
  <2> HIDE DEF lc
  <2> QED
    BY <1>0, <2>1, <2>2, SendBlockType
<1>5. CASE \E k \in 1..Len(reads) : ReadDone(k)
  <2> PICK r \in 1..Len(reads) : ReadDone(r)
    BY <1>5
  <2>1. sent + 1 <= total /\ ReadsBut(r) = <<>>
    BY <1>0, OneRead
  <2>2. reads' = <<>>
    BY <2>1 DEF ReadDone
  <2>3. <<>> \in Seq(0..(total' - 1))
    OBVIOUS
  <2> QED
    BY <1>0, <2>1, <2>2, <2>3 DEF ReadDone
<1>6. CASE \E k \in 1..Len(reads) : ReadDoneTooLate(k) \/ ReadFails(k)
  <2>1. reads' = <<>>
    BY <1>0, <1>6, OneRead DEF ReadDoneTooLate, ReadFails
  <2>2. reads' \in Seq(0..(total' - 1))
    BY <2>1
  <2>3. sRemovals' \in Nat
    BY <1>0, <1>6 DEF ReadDoneTooLate, ReadFails, SenderFailed
  <2>4. sHist' \subseteq {"complete", "failed", "rejected"}
    BY <1>0, <1>6 DEF ReadDoneTooLate, ReadFails, SenderFailed
  <2>5. UNCHANGED <<total, file, chS, accepted, headSent, sent, lastConfirmed, wakeups,
                    sentIdx, waitingAck, ackTimers>>
    BY <1>6 DEF ReadDoneTooLate, ReadFails
  <2> QED
    BY <1>0, <2>2, <2>3, <2>4, <2>5
<1>7. CASE HandleFileReceived
  <2>1. waitingAck' \in BOOLEAN
    BY <1>0, <1>7 DEF HandleFileReceived, FileConfirmed
  <2>2. sHist' \subseteq {"complete", "failed", "rejected"} /\ sRemovals' \in Nat
    <3>1. \/ sHist' = sHist \cup {"complete"} /\ sRemovals' = sRemovals + 1
          \/ sHist' = sHist \cup {"failed"} /\ sRemovals' = sRemovals + 1
          \/ sHist' = sHist /\ sRemovals' = sRemovals
      BY <1>7 DEF HandleFileReceived, FileConfirmed, SenderFailed
    <3>2. sHist' \subseteq {"complete", "failed", "rejected"}
      BY <1>0, <3>1, Zenon
    <3>3. sRemovals' \in Nat
      BY <1>0, <3>1
    <3> QED
      BY <3>2, <3>3
  <2>3. UNCHANGED <<total, file, chS, accepted, headSent, sent, lastConfirmed, wakeups,
                    sentIdx, reads, ackTimers>>
    BY <1>7 DEF HandleFileReceived, FileConfirmed
  <2> QED
    BY <1>0, <2>1, <2>2, <2>3
<1>8. CASE AckTimeout \/ \E error \in BOOLEAN : SenderDcCloses(error)
  <2>1. waitingAck' \in BOOLEAN /\ chS' \in BOOLEAN
    BY <1>0, <1>8 DEF AckTimeout, SenderDcCloses, sendVars
  <2>2. sRemovals' \in Nat /\ ackTimers' \in Nat
    BY <1>0, <1>8 DEF AckTimeout, SenderDcCloses, SenderFailed, sendVars
  <2>3. sHist' \subseteq {"complete", "failed", "rejected"}
    BY <1>0, <1>8 DEF AckTimeout, SenderDcCloses, SenderFailed, sendVars
  <2>4. UNCHANGED <<total, file, accepted, headSent, sent, lastConfirmed, wakeups,
                    sentIdx, reads>>
    BY <1>8 DEF AckTimeout, SenderDcCloses, sendVars
  <2> QED
    BY <1>0, <2>1, <2>2, <2>3, <2>4
<1>9. CASE Transmit
  BY <1>0, <1>9 DEF Transmit, sendVars
<1>10. CASE \/ RecvV2Head \/ RecvBlock \/ RemoveIncoming \/ ReceiverIceFails
            \/ (\E error \in BOOLEAN : ReceiverDcCloses(error))
            \/ AcceptAllPending \/ RejectAllPending
  <2>1. UNCHANGED <<total, senderVars>>
    BY <1>10 DEF RecvV2Head, RecvBlock, RemoveIncoming, ReceiverIceFails, ReceiverDcCloses,
                 AcceptAllPending, RejectAllPending
  <2> QED
    BY <1>0, <2>1 DEF senderVars, sendVars
<1> QED
  BY <1>1, <1>2, <1>3, <1>4, <1>5, <1>6, <1>7, <1>8, <1>9, <1>10, NextCases

\* Every step keeps the types of the channel.
LEMMA LinkTypeStep ==
    ASSUME SenderInv, Next, RecvBlock => toS' \in Seq(Replies)
    PROVE  LinkTypes'
<1> USE DEF LinkTypes
<1>0. LinkTypes /\ SenderTypes
  BY DEF SenderInv
<1>1. CASE DcOpens \/ HandleFileAccept
  <2>1. stream' = stream \/ stream' = Append(stream, V2Head)
    BY <1>1 DEF DcOpens, HandleFileAccept, SendV2Head
  <2>2. stream' \in Seq(Messages) /\ Len(stream') \in Nat /\ Len(stream') >= Len(stream)
    <3>1. V2Head \in Messages
      BY DEF V2Head, Messages
    <3>2. stream \in Seq(Messages) /\ Len(stream) \in Nat
      BY <1>0
    <3>3. Len(Append(stream, V2Head)) = Len(stream) + 1
      BY <3>2, AppendLen
    <3>4. Append(stream, V2Head) \in Seq(Messages)
      BY <3>1, <3>2
    <3> QED
      BY <2>1, <3>2, <3>3, <3>4
  <2>3. dcS' \in DcStates /\ UNCHANGED <<dcR, wire, taken, toS>>
    BY <1>0, <1>1 DEF DcOpens, HandleFileAccept, DcStates
  <2> QED
    BY <1>0, <2>2, <2>3
<1>2. CASE \E k \in 1..Len(reads) : ReadDone(k)
  <2> PICK r \in 1..Len(reads) : ReadDone(r)
    BY <1>2
  <2>1. reads[r] \in Nat
    BY <1>0 DEF SenderTypes
  <2>2. stream' = Append(stream, Block(reads[r])) /\ UNCHANGED <<dcS, dcR, wire, taken, toS>>
    BY DEF ReadDone
  <2>3. stream' \in Seq(Messages) /\ Len(stream') = Len(stream) + 1
    BY <1>0, <2>1, <2>2 DEF Block, Messages
  <2> QED
    BY <1>0, <2>2, <2>3
<1>3. CASE HandleFlowAdv \/ HandleFileReceived
  <2>1. toS # <<>> /\ toS' = Tail(toS) /\ UNCHANGED <<dcS, dcR, stream, wire, taken>>
    BY <1>3 DEF HandleFlowAdv, FlowAdvanced, HandleFileReceived, FileConfirmed, FromReceiver
  <2> QED
    BY <1>0, <2>1, ReplyType
<1>4. CASE SenderIceFails \/ \E error \in BOOLEAN : SenderDcCloses(error)
  BY <1>0, <1>4 DEF SenderIceFails, SenderDcCloses, DcStates
<1>5. CASE ReceiverIceFails \/ \E error \in BOOLEAN : ReceiverDcCloses(error)
  BY <1>0, <1>5 DEF ReceiverIceFails, ReceiverDcCloses, DcStates
<1>6. CASE Transmit
  BY <1>0, <1>6 DEF Transmit
<1>7. CASE RecvV2Head
  BY <1>0, <1>7 DEF RecvV2Head, FromSender
<1>8. CASE RecvBlock
  <2>1. taken < wire /\ taken' = taken + 1 /\ UNCHANGED <<dcS, dcR, stream, wire>>
    BY <1>8 DEF RecvBlock, FromSender
  <2> QED
    BY <1>0, <1>8, <2>1
<1>9. CASE \/ HashDone \/ HandleFileReject \/ RemoveOutgoing \/ Wake \/ AckTimeout
           \/ (\E k \in 1..Len(reads) : ReadDoneTooLate(k)) \/ (\E k \in 1..Len(reads) : ReadFails(k))
           \/ RemoveIncoming \/ AcceptAllPending \/ RejectAllPending
  <2>1. UNCHANGED linkVars
    BY <1>9 DEF AcceptAllPending, RejectAllPending, HashDone, HandleFileReject, RemoveOutgoing, Wake, AckTimeout,
                ReadDoneTooLate, ReadFails, RemoveIncoming
  <2> QED
    BY <1>0, <2>1 DEF linkVars
<1> QED
  BY <1>1, <1>2, <1>3, <1>4, <1>5, <1>6, <1>7, <1>8, <1>9, NextCases

\* The fields of the receiver's entry.
BufferTypes ==
    /\ rx \in BOOLEAN /\ announced \in 0..total
    /\ blocks \subseteq 0..(total - 1) /\ received \in 0..total

\* An entry that is empty, or not there, has its types.
LEMMA EmptyBufferType ==
    ASSUME total \in Nat, total' = total, NEW b \in BOOLEAN, rx' = b,
           announced' = 0 \/ announced' = total, blocks' = {}, received' = 0
    PROVE  BufferTypes'
<1>1. rx' \in BOOLEAN /\ announced' \in 0..total' /\ received' \in 0..total'
  OBVIOUS
<1>2. blocks' \subseteq 0..(total' - 1)
  OBVIOUS
<1> QED
  BY <1>1, <1>2 DEF BufferTypes

\* Every step keeps the types of the receiving page.
LEMMA ReceiverTypeStep ==
    ASSUME IInv, Next
    PROVE  ReceiverTypes'
<1> USE DEF ReceiverTypes
<1>0. TypeOK /\ ReceiverTypes /\ total \in Nat /\ BufferTypes
  BY DEF IInv, TypeOK, SenderTypes, BufferTypes
<1>1. CASE DcOpens \/ AcceptAllPending
  <2>1. UNCHANGED <<total, rx, announced, blocks, received, downloads, rRemovals>>
    BY <1>1 DEF DcOpens, AcceptAllPending, rxVars
  <2>2. chR' \in BOOLEAN /\ incoming' \in BOOLEAN
    BY <1>0, <1>1, Zenon DEF DcOpens, AcceptAllPending
  <2> QED
    BY <1>0, <2>1, <2>2
<1>2. CASE RecvV2Head
  <2>1. UNCHANGED <<total, chR, incoming, downloads, rRemovals>>
    BY <1>2 DEF RecvV2Head, senderVars
  <2>2. \/ rx' = TRUE /\ announced' = total /\ blocks' = {} /\ received' = 0
        \/ UNCHANGED rxVars
    BY <1>2 DEF RecvV2Head
  <2>3. BufferTypes'
    BY <1>0, <2>1, <2>2, EmptyBufferType DEF rxVars, BufferTypes
  <2> QED
    BY <1>0, <2>1, <2>3 DEF BufferTypes
<1>3. CASE RecvBlock /\ rx
  <2>1. UNCHANGED <<total, chR>>
    BY <1>3 DEF RecvBlock
  <2>2. CASE received + 1 = total /\ downloads' = <<0..(total - 1)>>
             /\ rRemovals' = rRemovals + 1 /\ incoming' = FALSE /\ FreeBuffer
    <3>1. downloads' \in Seq(SUBSET Nat)
      BY <1>0, <2>2
    <3>2. rRemovals' \in Nat
      BY <1>0, <2>2
    <3>3. BufferTypes'
      BY <1>0, <2>1, <2>2, EmptyBufferType DEF FreeBuffer
    <3> QED
      BY <1>0, <2>1, <2>2, <3>1, <3>2, <3>3 DEF BufferTypes
  <2>3. CASE blocks' = 0..received /\ received' = received + 1 /\ received < total
             /\ UNCHANGED <<rx, announced, incoming, downloads, rRemovals>>
    BY <1>0, <2>1, <2>3
  <2> QED
    BY <1>3, <2>2, <2>3, SenderPart, ReceiverPart, StoreBlockStep
<1>4. CASE RecvBlock /\ ~rx
  <2>1. UNCHANGED <<total, chR, incoming, rxVars, downloads, rRemovals>>
    BY <1>4 DEF RecvBlock
  <2> QED
    BY <1>0, <2>1 DEF rxVars
<1>5. CASE RemoveIncoming
  <2>1. rRemovals' \in Nat /\ UNCHANGED <<total, downloads>>
    BY <1>0, <1>5 DEF RemoveIncoming
  <2>2. rx' = FALSE /\ announced' = 0 /\ blocks' = {} /\ received' = 0 /\ chR' = FALSE
        /\ incoming' = FALSE
    BY <1>5 DEF RemoveIncoming, RemoveTransfer, FreeBuffer
  <2>3. BufferTypes'
    BY <1>0, <2>1, <2>2, EmptyBufferType
  <2> QED
    BY <1>0, <2>1, <2>2, <2>3 DEF BufferTypes
<1>6. CASE ReceiverIceFails
  <2>1. UNCHANGED <<total, downloads, rRemovals>>
    BY <1>6 DEF ReceiverIceFails
  <2>2. \/ rx' = FALSE /\ announced' = 0 /\ blocks' = {} /\ received' = 0 /\ chR' = FALSE
           /\ incoming' = FALSE
        \/ UNCHANGED <<rx, announced, blocks, received, chR, incoming>>
    BY <1>6 DEF ReceiverIceFails, RemoveTransfer, FreeBuffer, rxVars
  <2>3. BufferTypes'
    BY <1>0, <2>1, <2>2, EmptyBufferType DEF BufferTypes
  <2>4. chR' \in BOOLEAN /\ incoming' \in BOOLEAN
    BY <1>0, <2>2, Zenon
  <2> QED
    BY <1>0, <2>1, <2>3, <2>4 DEF BufferTypes
<1>7. CASE \E error \in BOOLEAN : ReceiverDcCloses(error)
  <2>1. UNCHANGED <<total, downloads, incoming, rx, announced, blocks, received>>
        /\ chR' = FALSE
    BY <1>7 DEF ReceiverDcCloses, rxVars
  <2>2. rRemovals' \in Nat
    BY <1>0, <1>7 DEF ReceiverDcCloses
  <2> QED
    BY <1>0, <2>1, <2>2
<1>8. CASE \/ HashDone \/ HandleFileReject \/ RemoveOutgoing \/ Wake \/ AckTimeout
           \/ (\E k \in 1..Len(reads) : ReadDone(k)) \/ (\E k \in 1..Len(reads) : ReadDoneTooLate(k))
           \/ (\E k \in 1..Len(reads) : ReadFails(k))
           \/ HandleFlowAdv \/ HandleFileReceived \/ SenderIceFails
           \/ (\E error \in BOOLEAN : SenderDcCloses(error)) \/ Transmit
           \/ RejectAllPending \/ HandleFileAccept
  <2>1. UNCHANGED <<total, receiverVars>>
    BY <1>8 DEF RejectAllPending, HandleFileAccept, HashDone, HandleFileReject, RemoveOutgoing, Wake, AckTimeout,
                ReadDone, ReadDoneTooLate, ReadFails, HandleFlowAdv, FlowAdvanced, HandleFileReceived, FileConfirmed,
                SenderIceFails, SenderDcCloses, Transmit
  <2> QED
    BY <1>0, <2>1 DEF receiverVars, rxVars
<1> QED
  BY <1>1, <1>2, <1>3, <1>4, <1>5, <1>6, <1>7, <1>8, NextCases

\* Every step keeps the type of the answer.
LEMMA AnswerTypeStep ==
    ASSUME IInv, Next
    PROVE  consent' \in Answers
<1>0. consent \in Answers
  BY DEF IInv, TypeOK
<1>1. CASE \/ HashDone \/ AcceptAllPending \/ RejectAllPending
           \/ HandleFileAccept \/ HandleFileReject
  BY <1>1 DEF HashDone, AcceptAllPending, RejectAllPending, HandleFileAccept,
              HandleFileReject, Answers
<1>2. CASE UNCHANGED consent
  BY <1>0, <1>2
<1> QED
  BY <1>1, <1>2, NextCases, Zenon DEF DcOpens, Wake, HandleFlowAdv, FlowAdvanced, HandleFileReceived, FileConfirmed, ReadDone,
     ReadDoneTooLate, ReadFails, AckTimeout, RemoveOutgoing, SenderIceFails, SenderDcCloses,
     Transmit, RecvV2Head, RecvBlock, RemoveIncoming, ReceiverIceFails, ReceiverDcCloses

\* Every step keeps the types.
LEMMA TypeStep ==
    ASSUME IInv, Next
    PROVE  TypeOK'
<1>1. ASSUME RecvBlock PROVE toS' \in Seq(Replies)
  <2>0. toS \in Seq(Replies) /\ received \in Nat /\ total \in Nat
    BY DEF IInv, TypeOK, SenderTypes, LinkTypes, ReceiverTypes
  <2>1. CASE rx
    <3>1. FileReceived(total) \in Replies /\ FlowAdv(received) \in Replies
      BY <2>0 DEF FileReceived, FlowAdv, Replies
    <3>2. Reply(FileReceived(total)) \/ Reply(FlowAdv(received))
      BY <1>1, <2>0, <2>1, SenderPart, StoreBlockStep DEF IInv
    <3>3. \E m \in Replies : toS' = Append(toS, m) \/ toS' = toS
      BY <3>1, <3>2 DEF Reply
    <3> QED
      BY <2>0, <3>3
  <2>2. CASE ~rx
    BY <1>1, <2>0, <2>2 DEF RecvBlock
  <2> QED
    BY <2>1, <2>2
<1> QED
  BY <1>1, SenderPart, SenderTypeStep, LinkTypeStep, ReceiverTypeStep, AnswerTypeStep DEF TypeOK

-------------------------------------------------------------------------------
(* The stream.                                                                 *)

\* Only sendV2Head and the FileReader's onload send: the header to an empty
\* stream, and the block that the count of what was sent names.
LEMMA StreamStep ==
    ASSUME SenderInv, Next
    PROVE  StreamInOrder'
<1>0. StreamInOrder /\ stream \in Seq(Messages)
  BY DEF SenderInv, LinkTypes
<1>1. CASE DcOpens \/ HandleFileAccept
  <2>1. stream' = stream \/ (stream = <<>> /\ stream' = Append(stream, V2Head))
    BY <1>1 DEF DcOpens, HandleFileAccept, SendV2Head, CanSendHead, SenderInv, ReaderInv
  <2>2. CASE stream = <<>> /\ stream' = Append(stream, V2Head)
    BY <2>2 DEF StreamInOrder
  <2> QED
    BY <1>0, <2>1, <2>2 DEF StreamInOrder
<1>2. CASE \E k \in 1..Len(reads) : ReadDone(k)
  <2> PICK r \in 1..Len(reads) : ReadDone(r)
    BY <1>2
  <2>1. reads[r] = sent /\ sent \in Nat /\ Len(stream) = sent + 1
    BY OneRead DEF SenderInv, ReaderInv, SenderTypes
  <2>2. stream' = Append(stream, Block(sent))
    BY <2>1 DEF ReadDone
  <2>3. Len(stream') = sent + 2 /\ stream'[sent + 2] = Block(sent)
        /\ \A k \in 1..(sent + 1) : stream'[k] = stream[k]
    BY <1>0, <2>1, <2>2
  <2>4. \A k \in 1..(sent + 1) : stream'[k] = IF k = 1 THEN V2Head ELSE Block(k - 2)
    BY <1>0, <2>1, <2>3 DEF StreamInOrder
  <2>5. sent + 2 # 1 /\ sent + 2 - 2 = sent
    BY <2>1
  <2> SUFFICES ASSUME NEW k \in 1..Len(stream')
               PROVE  stream'[k] = IF k = 1 THEN V2Head ELSE Block(k - 2)
    BY DEF StreamInOrder
  <2>6. k \in 1..(sent + 1) \/ k = sent + 2
    BY <2>1, <2>3
  <2>7. CASE k = sent + 2
    <3>1. k # 1 /\ k - 2 = sent
      BY <2>1, <2>7
    <3> QED
      BY <2>3, <2>7, <3>1, Zenon
  <2> QED
    BY <2>4, <2>6, <2>7
<1>3. CASE UNCHANGED stream
  BY <1>0, <1>3 DEF StreamInOrder
<1>4. CASE \/ HashDone \/ HandleFileReject \/ Wake \/ HandleFlowAdv \/ HandleFileReceived
           \/ (\E k \in 1..Len(reads) : ReadDoneTooLate(k)) \/ (\E k \in 1..Len(reads) : ReadFails(k))
           \/ AckTimeout \/ RemoveOutgoing \/ SenderIceFails
           \/ (\E error \in BOOLEAN : SenderDcCloses(error))
  BY <1>3, <1>4 DEF HashDone, HandleFileReject, Wake, HandleFlowAdv, FlowAdvanced, HandleFileReceived, FileConfirmed,
                    ReadDoneTooLate, ReadFails, AckTimeout, RemoveOutgoing, SenderIceFails,
                    SenderDcCloses, linkVars
<1>5. CASE \/ Transmit \/ RecvV2Head \/ RecvBlock \/ RemoveIncoming \/ ReceiverIceFails
           \/ (\E error \in BOOLEAN : ReceiverDcCloses(error))
           \/ AcceptAllPending \/ RejectAllPending
  BY <1>3, <1>5 DEF AcceptAllPending, RejectAllPending, Transmit, RecvV2Head, RecvBlock, RemoveIncoming, ReceiverIceFails,
                    ReceiverDcCloses, linkVars
<1> QED
  BY <1>1, <1>2, <1>4, <1>5, NextCases

\* Every step keeps the part of the sending page, if only replies travel back.
LEMMA SenderStep ==
    ASSUME SenderInv, Next, RecvBlock => toS' \in Seq(Replies)
    PROVE  SenderInv'
<1>1. SenderTypes' /\ LinkTypes' /\ StreamInOrder' /\ ReaderInv'
  BY SenderTypeStep, LinkTypeStep, StreamStep, ReaderStep
<1>2. ASSUME toS' # <<>> PROVE taken' > 0
  <2>0. toS \in Seq(Replies) /\ taken \in Nat /\ (toS # <<>> => taken > 0)
    BY DEF SenderInv, LinkTypes
  <2>1. CASE RecvBlock \/ RecvV2Head
    BY <2>0, <2>1 DEF RecvBlock, RecvV2Head, FromSender
  <2>2. CASE HandleFlowAdv \/ HandleFileReceived
    BY <1>2, <2>0, <2>2 DEF HandleFlowAdv, FlowAdvanced, HandleFileReceived, FileConfirmed, FromReceiver
  <2>3. CASE UNCHANGED <<toS, taken>>
    BY <1>2, <2>0, <2>3
  <2> QED
    BY <2>1, <2>2, <2>3, NextCases, Zenon
       DEF HashDone, DcOpens, AcceptAllPending, RejectAllPending, HandleFileAccept,
           HandleFileReject, Wake, ReadDone, ReadDoneTooLate, ReadFails, AckTimeout,
           RemoveOutgoing, SenderIceFails, SenderDcCloses, Transmit, RemoveIncoming,
           ReceiverIceFails, ReceiverDcCloses, linkVars
<1> QED
  BY <1>1, <1>2 DEF SenderInv

-------------------------------------------------------------------------------
(* Consent, and the life of the sender's entries.                              *)

\* Every step keeps the consent and the sender's entries together.
LEMMA ConsentStep ==
    ASSUME IInv, Next
    PROVE  ConsentInv'
<1> USE DEF ConsentInv, AnswerInv, AcceptedIsSent
<1>0. ConsentInv /\ file \in {"hashing", "active", "removed"}
  BY DEF IInv, TypeOK, SenderTypes
<1>1. CASE DcOpens
  BY <1>0, <1>1 DEF DcOpens, SendV2Head, CanSendHead
<1>2. CASE HandleFileAccept
  BY <1>0, <1>2 DEF HandleFileAccept, SendV2Head, CanSendHead
<1>3. CASE HashDone
  BY <1>0, <1>3 DEF HashDone, linkVars
<1>4. CASE HandleFileReject \/ RemoveOutgoing
  BY <1>0, <1>4 DEF HandleFileReject, RemoveOutgoing, linkVars
<1>5. CASE \E k \in 1..Len(reads) : ReadDone(k)
  <2> PICK r \in 1..Len(reads) : ReadDone(r)
    BY <1>5
  <2>1. headSent /\ accepted
    BY <1>0 DEF IInv, ReaderInv
  <2>2. file = "active"
    BY DEF ReadDone, IInv, RemovalInv
  <2> QED
    BY <1>0, <2>1, <2>2 DEF ReadDone
<1>6. CASE SenderIceFails
  BY <1>0, <1>6 DEF SenderIceFails
<1>7. CASE \E error \in BOOLEAN : SenderDcCloses(error)
  BY <1>0, <1>7 DEF SenderDcCloses
<1>8. CASE /\ UNCHANGED <<file, chS, accepted, headSent, dcS, consent>>
           /\ file = "hashing" => UNCHANGED sRemovals
  BY <1>0, <1>8
<1>11. CASE AcceptAllPending \/ RejectAllPending
  BY <1>0, <1>11 DEF AcceptAllPending, RejectAllPending, senderVars, linkVars
<1>9. CASE \/ Wake \/ HandleFlowAdv \/ Transmit
           \/ \E k \in 1..Len(reads) : ReadDoneTooLate(k)
  BY <1>8, <1>9 DEF Wake, HandleFlowAdv, FlowAdvanced, Transmit, ReadDoneTooLate, linkVars
<1>12. CASE HandleFileReceived \/ AckTimeout
  BY <1>8, <1>12 DEF HandleFileReceived, FileConfirmed, AckTimeout, linkVars
<1>13. CASE \E k \in 1..Len(reads) : ReadFails(k)
  <2>1. file # "hashing"
    BY <1>0, <1>13 DEF IInv, ReaderInv
  <2> QED
    BY <1>8, <1>13, <2>1 DEF ReadFails, linkVars
<1>10. CASE \/ RecvV2Head \/ RecvBlock \/ RemoveIncoming \/ ReceiverIceFails
            \/ (\E error \in BOOLEAN : ReceiverDcCloses(error))
  BY <1>8, <1>10 DEF RecvV2Head, RecvBlock, RemoveIncoming, ReceiverIceFails,
                     ReceiverDcCloses, linkVars, senderVars
<1> QED
  BY <1>1, <1>2, <1>3, <1>4, <1>5, <1>6, <1>7, <1>9, <1>10, <1>11, <1>12, <1>13,
     NextCases

\* An answer that says "saved" is of a file that was.
LEMMA AckOfSaved ==
    ASSUME IInv, FromReceiver("ack")
    PROVE  downloads # <<>>
<1>1. 1 \in 1..Len(toS) /\ toS[1].type = "ack"
  BY DEF FromReceiver, IInv, TypeOK, LinkTypes
<1> QED
  BY <1>1 DEF IInv, ReplyInv

\* What is saved was sent to the end.
LEMMA AckMeansSent ==
    ASSUME SenderInv, ReceiverInv, downloads # <<>>
    PROVE  sent >= total /\ reads = <<>>
<1> USE DEF SenderInv, SenderTypes, LinkTypes
<1>1. taken = total + 1
  BY DEF ReceiverInv
<1>2. headSent /\ taken <= sent + 1
  BY <1>1, HeaderBefore
<1>3. sent >= total
  BY <1>1, <1>2
<1> QED
  BY <1>3 DEF ReaderInv

\* sendBlock starts no read for a file that is about to be removed.
LEMMA SendBlockRemoval ==
    ASSUME SenderInv, RemovalInv, NEW lc \in Nat, SendBlock(lc),
           UNCHANGED <<dcS, file, sRemovals, sent, total>>
    PROVE  RemovalInv'
<1> USE DEF SenderInv, SenderTypes, RemovalInv
<1>1. CASE StartsRead(lc) /\ sentIdx' = sent /\ reads' = Append(reads, sent)
  BY <1>1 DEF StartsRead, CanSend
<1>2. CASE UNCHANGED <<sentIdx, reads>>
  BY <1>2
<1> QED
  BY <1>1, <1>2 DEF SendBlock, sendVars

\* No step drops the sender's entry while a read could bring it back.
LEMMA RemovalStep ==
    ASSUME SenderInv, ReceiverInv, RemovalInv, AnswerInv, Next,
           FromReceiver("ack") => downloads # <<>>
    PROVE  RemovalInv'
<1> USE DEF RemovalInv
<1>0. RemovalInv /\ ReaderInv /\ AnswerInv /\ SenderTypes /\ LinkTypes
  BY DEF SenderInv
<1>1. CASE DcOpens \/ HandleFileAccept
  BY <1>0, <1>1 DEF DcOpens, HandleFileAccept, sendVars
<1>2. CASE Wake
  BY <1>0, <1>2, SendBlockRemoval DEF Wake, linkVars, SenderTypes
<1>3. CASE HandleFlowAdv
  <2>1. toS # <<>> /\ UNCHANGED <<dcS, file, sRemovals, sent, total>>
    BY <1>3 DEF HandleFlowAdv, FlowAdvanced, FromReceiver
  <2>2. \E lc \in Nat : SendBlock(lc)
    BY <1>0, <1>3, <2>1, ReplyType DEF HandleFlowAdv, FlowAdvanced, SenderTypes
  <2> QED
    BY <2>1, <2>2, SendBlockRemoval
<1>4. CASE \E k \in 1..Len(reads) : ReadDone(k)
  <2> PICK r \in 1..Len(reads) : ReadDone(r)
    BY <1>4
  <2>1. reads' = <<>> /\ dcS = "open" /\ dcS' = dcS /\ sRemovals' = sRemovals
    BY <1>0, OneRead DEF ReadDone
  <2> QED
    BY <1>0, <2>1 DEF SenderTypes
<1>5. CASE \E k \in 1..Len(reads) : ReadDoneTooLate(k)
  <2> PICK r \in 1..Len(reads) : ReadDoneTooLate(r)
    BY <1>5
  <2>1. ReadsBut(r) = <<>> /\ sentIdx = sent
    BY <1>0, OneRead
  <2>2. reads' = <<>>
    BY <2>1, Zenon DEF ReadDoneTooLate
  <2>3. sentIdx' = sent' /\ sent' \in Nat
    BY <1>0, <2>1 DEF ReadDoneTooLate, SenderTypes
  <2> QED
    BY <2>2, <2>3
<1>6. CASE \E k \in 1..Len(reads) : ReadFails(k)
  <2> PICK r \in 1..Len(reads) : ReadFails(r)
    BY <1>6
  <2>1. ReadsBut(r) = <<>> /\ sentIdx = sent
    BY <1>0, OneRead
  <2>2. reads' = <<>>
    BY <2>1, Zenon DEF ReadFails
  <2>3. sentIdx' = sent' /\ UNCHANGED <<dcS, file>>
    BY <2>1 DEF ReadFails, linkVars
  <2>4. sent' \in Nat
    BY <1>0 DEF ReadFails, SenderTypes
  <2> QED
    BY <2>2, <2>3, <2>4
<1>7. CASE HandleFileReceived
  <2>1. sent >= total /\ reads = <<>> /\ UNCHANGED <<reads, sent, sentIdx, total, dcS, file>>
    BY <1>7, AckMeansSent DEF HandleFileReceived, FileConfirmed
  <2> QED
    BY <1>0, <2>1
<1>8. CASE AckTimeout
  <2>1. UNCHANGED <<reads, sent, sentIdx, total, dcS, file>>
        /\ (sRemovals' = sRemovals \/ waitingAck)
    BY <1>8 DEF AckTimeout, linkVars
  <2>2. waitingAck => sent >= total /\ reads = <<>>
    BY <1>0 DEF ReaderInv, SenderTypes
  <2> QED
    BY <1>0, <2>1, <2>2
<1>9. CASE RemoveOutgoing
  <2>1. reads = <<>> \/ dcS \notin {"connecting", "open"}
    BY <1>0, <1>9 DEF RemoveOutgoing
  <2> QED
    BY <1>0, <1>9, <2>1 DEF RemoveOutgoing, linkVars, sendVars, SenderTypes
<1>10. CASE HandleFileReject
  <2>1. reads = <<>>
    BY <1>0, <1>10 DEF HandleFileReject, ReaderInv, AnswerInv
  <2> QED
    BY <1>0, <1>10, <2>1 DEF HandleFileReject, linkVars, sendVars
<1>11. CASE HashDone
  BY <1>0, <1>11 DEF HashDone, linkVars, sendVars
<1>12. CASE SenderIceFails \/ \E error \in BOOLEAN : SenderDcCloses(error)
  BY <1>12 DEF SenderIceFails, SenderDcCloses
<1>13. CASE UNCHANGED <<dcS, reads, file, sRemovals, sent, sentIdx, total>>
  BY <1>0, <1>13
<1>14. CASE \/ Transmit \/ RecvV2Head \/ RecvBlock \/ RemoveIncoming \/ ReceiverIceFails
            \/ (\E error \in BOOLEAN : ReceiverDcCloses(error))
            \/ AcceptAllPending \/ RejectAllPending
  BY <1>13, <1>14 DEF AcceptAllPending, RejectAllPending, Transmit, RecvV2Head, RecvBlock, RemoveIncoming, ReceiverIceFails,
                      ReceiverDcCloses, linkVars, senderVars, sendVars
<1> QED
  BY <1>1, <1>2, <1>3, <1>4, <1>5, <1>6, <1>7, <1>8, <1>9, <1>10, <1>11, <1>12, <1>14, NextCases

-------------------------------------------------------------------------------
(* The receiving page, and what travels back.                                  *)

\* What is saved stays saved, once.
LEMMA SavedOnce ==
    ASSUME IInv, Next
    PROVE  /\ UNCHANGED downloads \/ (downloads = <<>> /\ downloads' = <<0..(total - 1)>>)
           /\ downloads # <<>> => downloads' # <<>>
           /\ taken' \in Nat /\ taken' >= taken
<1>0. taken \in Nat
  BY DEF IInv, TypeOK, LinkTypes
<1>1. CASE RecvBlock
  <2>1. taken' = taken + 1
    BY <1>1 DEF RecvBlock, FromSender
  <2>2. CASE rx
    <3>1. downloads = <<>>
          /\ (downloads' = downloads \/ downloads' = <<0..(total - 1)>>)
      BY <1>1, <2>2, SenderPart, ReceiverPart, StoreBlockStep
    <3> QED
      BY <1>0, <2>1, <3>1
  <2>3. CASE ~rx
    <3>1. UNCHANGED downloads
      BY <1>1, <2>3 DEF RecvBlock
    <3> QED
      BY <1>0, <2>1, <3>1
  <2> QED
    BY <2>2, <2>3
<1>2. CASE RecvV2Head
  BY <1>0, <1>2 DEF RecvV2Head, FromSender
<1>3. CASE UNCHANGED <<taken, downloads>>
  BY <1>0, <1>3
<1>4. CASE \/ DcOpens \/ HandleFileAccept \/ HandleFileReject \/ HashDone
           \/ Wake \/ HandleFlowAdv \/ HandleFileReceived \/ (\E k \in 1..Len(reads) : ReadDone(k))
           \/ (\E k \in 1..Len(reads) : ReadDoneTooLate(k)) \/ (\E k \in 1..Len(reads) : ReadFails(k))
  BY <1>3, <1>4 DEF DcOpens, HandleFileAccept, HandleFileReject, HashDone, Wake, HandleFlowAdv, FlowAdvanced,
                    HandleFileReceived, FileConfirmed, ReadDone, ReadDoneTooLate, ReadFails, linkVars,
                    receiverVars
<1>5. CASE \/ AckTimeout \/ RemoveOutgoing \/ SenderIceFails
           \/ (\E error \in BOOLEAN : SenderDcCloses(error)) \/ Transmit
           \/ RemoveIncoming \/ ReceiverIceFails
           \/ (\E error \in BOOLEAN : ReceiverDcCloses(error))
           \/ AcceptAllPending \/ RejectAllPending
  BY <1>3, <1>5 DEF AcceptAllPending, RejectAllPending, AckTimeout, RemoveOutgoing, SenderIceFails, SenderDcCloses, Transmit,
                    RemoveIncoming, ReceiverIceFails, ReceiverDcCloses, linkVars, receiverVars
<1> QED
  BY <1>1, <1>2, <1>4, <1>5, NextCases

\* Confirmations are late, never early: a FLOW_ADV names a block that was
\* handled, and FILE_RECEIVED follows the download.
Late(m) ==
    /\ m.type = "flow" => m.idx + 2 <= taken
    /\ m.type = "ack" => downloads # <<>>

\* Every step keeps what travels back to the sender true of the receiver.
LEMMA ReplyStep ==
    ASSUME IInv, Next
    PROVE  ReplyInv'
<1> DEFINE Replied == \A k \in 1..Len(toS) : Late(toS[k])
           Confirmed == lastConfirmed = 0 \/ lastConfirmed + 2 <= taken
           Shown == "complete" \in sHist => downloads # <<>>
<1>0. /\ Replied /\ Confirmed /\ Shown /\ toS \in Seq(Replies) /\ taken \in Nat
      /\ lastConfirmed \in Nat
  BY DEF IInv, ReplyInv, Late, TypeOK, LinkTypes, SenderTypes
<1> SUFFICES Replied' /\ Confirmed' /\ Shown'
  BY DEF ReplyInv, Late
<1>1. \A m \in Replies : Late(m) => Late(m)'
  BY <1>0, SavedOnce DEF Late, Replies
<1>2. CASE RecvBlock /\ rx
  <2>1. \/ toS' = toS
        \/ toS' = Append(toS, FileReceived(total)) /\ downloads' # <<>>
        \/ toS' = Append(toS, FlowAdv(received)) /\ received + 2 <= taken'
    <3>1. taken' = taken + 1
      BY <1>2 DEF RecvBlock, FromSender
    <3>2. taken = received + 1
      BY <1>2, SenderPart, ReceiverPart, StoreBlockStep
    <3>3. received \in Nat
      BY DEF IInv, TypeOK, ReceiverTypes, SenderTypes
    <3>4. received + 2 <= taken'
      BY <3>1, <3>2, <3>3
    <3>5. <<0..(total - 1)>> # <<>>
      OBVIOUS
    <3>6. \/ Reply(FileReceived(total)) /\ downloads' # <<>>
          \/ Reply(FlowAdv(received))
      BY <1>2, <3>5, SenderPart, ReceiverPart, StoreBlockStep, Zenon
    <3>7. CASE Reply(FileReceived(total)) /\ downloads' # <<>>
      BY <3>7, Zenon DEF Reply
    <3>8. CASE Reply(FlowAdv(received))
      BY <3>4, <3>8, Zenon DEF Reply
    <3> QED
      BY <3>6, <3>7, <3>8
  <2>2. FileReceived(total) \in Replies /\ FlowAdv(received) \in Replies
    BY DEF IInv, TypeOK, SenderTypes, ReceiverTypes, FileReceived, FlowAdv, Replies
  <2>3. \/ toS' = toS
        \/ \E m \in Replies : toS' = Append(toS, m) /\ Late(m)'
    BY <2>1, <2>2 DEF Late, FileReceived, FlowAdv
  <2>4. Replied'
    BY <1>0, <1>1, <2>3
  <2>5. UNCHANGED <<lastConfirmed, sHist>>
    BY <1>2 DEF RecvBlock, senderVars
  <2> QED
    BY <1>0, <2>4, <2>5, SavedOnce
<1>3. CASE HandleFlowAdv
  <2>1. toS # <<>> /\ toS' = Tail(toS) /\ Head(toS).type = "flow"
        /\ UNCHANGED <<sHist, taken, downloads>>
        /\ (lastConfirmed' = lastConfirmed \/ lastConfirmed' = Head(toS).idx)
    BY <1>3 DEF HandleFlowAdv, FlowAdvanced, FromReceiver, receiverVars
  <2>2. Late(Head(toS))
    BY <1>0, <2>1
  <2>3. Replied'
    BY <1>0, <1>1, <2>1
  <2> QED
    BY <1>0, <2>1, <2>2, <2>3 DEF Late
<1>4. CASE HandleFileReceived
  <2>1. downloads # <<>> /\ toS' = Tail(toS) /\ toS # <<>>
        /\ UNCHANGED <<lastConfirmed, taken, downloads>>
    BY <1>4, AckOfSaved DEF HandleFileReceived, FileConfirmed, FromReceiver, receiverVars
  <2>2. Replied'
    BY <1>0, <1>1, <2>1
  <2> QED
    BY <1>0, <2>1, <2>2
<1>5. CASE UNCHANGED <<toS, lastConfirmed>> /\ ("complete" \in sHist' => "complete" \in sHist)
  <2>1. Replied'
    BY <1>0, <1>1, <1>5
  <2> QED
    BY <1>0, <1>5, <2>1, SavedOnce
<1>6. CASE \/ (RecvBlock /\ ~rx) \/ RecvV2Head \/ RemoveIncoming \/ ReceiverIceFails
           \/ (\E error \in BOOLEAN : ReceiverDcCloses(error)) \/ Transmit
  BY <1>5, <1>6 DEF RecvBlock, RecvV2Head, RemoveIncoming, ReceiverIceFails, ReceiverDcCloses,
                    Transmit, linkVars, senderVars
<1>7. CASE HashDone \/ DcOpens \/ HandleFileAccept \/ AcceptAllPending \/ RejectAllPending
  BY <1>5, <1>7 DEF HashDone, DcOpens, HandleFileAccept, AcceptAllPending, RejectAllPending,
                    linkVars, senderVars
<1>9. CASE Wake \/ (\E k \in 1..Len(reads) : ReadDone(k)) \/ (\E k \in 1..Len(reads) : ReadDoneTooLate(k))
  BY <1>5, <1>9 DEF Wake, ReadDone, ReadDoneTooLate, linkVars
<1>10. CASE HandleFileReject
  <2>1. UNCHANGED <<toS, lastConfirmed>> /\ sHist' = sHist \cup {"rejected"}
    BY <1>10 DEF HandleFileReject, linkVars
  <2> QED
    BY <1>5, <2>1
<1>8. CASE \/ AckTimeout \/ RemoveOutgoing \/ SenderIceFails
           \/ (\E k \in 1..Len(reads) : ReadFails(k)) \/ (\E error \in BOOLEAN : SenderDcCloses(error))
  BY <1>5, <1>8 DEF AckTimeout, RemoveOutgoing, SenderIceFails, SenderDcCloses, ReadFails,
                    SenderFailed, linkVars
<1> QED
  BY <1>2, <1>3, <1>4, <1>6, <1>7, <1>8, <1>9, <1>10, NextCases

\* The receiver's entry holds exactly what was handled, until it is saved.
LEMMA ReceiverStep ==
    ASSUME SenderInv, ReceiverInv, received \in Nat, rRemovals \in Nat, Next
    PROVE  ReceiverInv'
<1> USE DEF ReceiverInv, WholeIsSaved
<1>0. /\ ReceiverInv /\ total \in Nat /\ total' = total /\ taken \in Nat
      /\ received \in Nat /\ rRemovals \in Nat
  <2>1. total' = total
    BY NextCases, Zenon DEF HashDone, DcOpens, HandleFileAccept, HandleFileReject, Wake, HandleFlowAdv, FlowAdvanced,
       HandleFileReceived, FileConfirmed, ReadDone, ReadDoneTooLate, ReadFails, AckTimeout, RemoveOutgoing,
       SenderIceFails, SenderDcCloses, Transmit, RecvV2Head, RecvBlock, RemoveIncoming,
       ReceiverIceFails, ReceiverDcCloses, AcceptAllPending, RejectAllPending
  <2>2. ReceiverInv /\ total \in Nat /\ taken \in Nat
    BY DEF SenderInv, SenderTypes, LinkTypes
  <2> QED
    BY <2>1, <2>2
<1>1. CASE RecvV2Head
  <2>1. taken = 0 /\ taken' = 1
    <3>1. taken + 1 \in 1..Len(stream) /\ stream[taken + 1].type = "head" /\ taken' = taken + 1
      BY <1>1 DEF RecvV2Head, FromSender, SenderInv, LinkTypes
    <3>2. taken # 0 => stream[taken + 1].type = "block"
      <4>1. taken # 0 => stream[taken + 1] = Block(taken + 1 - 2)
        BY <1>0, <3>1 DEF SenderInv, StreamInOrder
      <4> QED
        BY <4>1 DEF Block
    <3> QED
      BY <3>1, <3>2
  <2>2. ~rx /\ downloads = <<>> /\ received = 0 /\ blocks = {} /\ UNCHANGED <<downloads, rRemovals, dcR>>
    BY <1>0, <1>1, <2>1 DEF RecvV2Head
  <2>3. \/ rx' = TRUE /\ announced' = total /\ blocks' = {} /\ received' = 0
        \/ UNCHANGED <<rx, blocks, received>> /\ ~(total <= MaxHeadBlocks)
    BY <1>1, <2>2 DEF RecvV2Head, rxVars
  <2>4. CASE rx' = TRUE /\ announced' = total /\ blocks' = {} /\ received' = 0
    BY <1>0, <2>1, <2>2, <2>4
  <2>5. CASE UNCHANGED <<rx, blocks, received>> /\ ~(total <= MaxHeadBlocks)
    BY <1>0, <2>1, <2>2, <2>5
  <2> QED
    BY <2>3, <2>4, <2>5
<1>2. CASE RecvBlock /\ rx
  <2>1. taken' = taken + 1 /\ taken = received + 1 /\ received < total /\ UNCHANGED dcR
    BY <1>2, StoreBlockStep DEF RecvBlock, FromSender
  <2>2. CASE received + 1 = total /\ downloads' = <<0..(total - 1)>> /\ FreeBuffer
    BY <1>0, <2>1, <2>2 DEF FreeBuffer
  <2>3. CASE received + 1 # total /\ blocks' = 0..received /\ received' = received + 1
             /\ UNCHANGED <<rx, announced, downloads, rRemovals>>
    BY <1>0, <1>2, <2>1, <2>3
  <2> QED
    BY <1>2, <2>2, <2>3, StoreBlockStep
<1>3. CASE RecvBlock /\ ~rx
  <2>1. FromSender("block") /\ UNCHANGED <<rx, announced, blocks, received, downloads, rRemovals, dcR>>
    BY <1>3 DEF RecvBlock, rxVars
  <2>2. taken \in 1..total /\ taken' = taken + 1 /\ dcR = "open"
    BY <2>1, NextBlock DEF FromSender
  <2>3. downloads = <<>> /\ ~(total <= MaxHeadBlocks)
    BY <1>0, <1>3, <2>2
  <2> QED
    BY <1>0, <1>3, <2>1, <2>2, <2>3
<1>4. CASE RemoveIncoming
  <2>1. rRemovals > 0 /\ rRemovals' = rRemovals - 1 /\ FreeBuffer
        /\ UNCHANGED <<dcR, taken, downloads>>
    BY <1>4 DEF RemoveIncoming, RemoveTransfer, linkVars
  <2> QED
    BY <1>0, <2>1 DEF FreeBuffer
<1>5. CASE ReceiverIceFails
  <2>1. dcR' = "closed" /\ UNCHANGED <<taken, downloads>>
        /\ (FreeBuffer \/ UNCHANGED <<rx, announced, blocks, received>>)
    BY <1>5 DEF ReceiverIceFails, RemoveTransfer, rxVars
  <2>2. CASE FreeBuffer
    BY <1>0, <2>1, <2>2 DEF FreeBuffer
  <2>3. CASE UNCHANGED <<rx, announced, blocks, received>>
    BY <1>0, <2>1, <2>3
  <2> QED
    BY <2>1, <2>2, <2>3
<1>6. CASE \E error \in BOOLEAN : ReceiverDcCloses(error)
  <2>1. dcR' = "lost" /\ UNCHANGED <<taken, downloads, rx, announced, blocks, received>>
    BY <1>6 DEF ReceiverDcCloses, rxVars
  <2> QED
    BY <1>0, <2>1
<1>7. CASE UNCHANGED <<dcR, taken, downloads, rx, announced, blocks, received, rRemovals>>
  BY <1>0, <1>7
<1>8. CASE \/ HashDone \/ DcOpens \/ HandleFileAccept \/ HandleFileReject
           \/ Wake \/ HandleFlowAdv \/ HandleFileReceived \/ AcceptAllPending \/ RejectAllPending
  BY <1>7, <1>8 DEF AcceptAllPending, RejectAllPending, HashDone, DcOpens, HandleFileAccept, HandleFileReject, Wake,
                    HandleFlowAdv, FlowAdvanced, HandleFileReceived, FileConfirmed, linkVars, receiverVars, rxVars
<1>9. CASE \/ (\E k \in 1..Len(reads) : ReadDone(k)) \/ (\E k \in 1..Len(reads) : ReadDoneTooLate(k))
           \/ (\E k \in 1..Len(reads) : ReadFails(k)) \/ AckTimeout \/ RemoveOutgoing
           \/ SenderIceFails \/ (\E error \in BOOLEAN : SenderDcCloses(error)) \/ Transmit
  BY <1>7, <1>9 DEF ReadDone, ReadDoneTooLate, ReadFails, AckTimeout, RemoveOutgoing,
                    SenderIceFails, SenderDcCloses, Transmit, linkVars, receiverVars, rxVars
<1> QED
  BY <1>1, <1>2, <1>3, <1>4, <1>5, <1>6, <1>8, <1>9, NextCases

-------------------------------------------------------------------------------
(* The invariant, and the safety properties.                                   *)

\* A step that changes nothing.
LEMMA StutterStep ==
    ASSUME IInv, UNCHANGED vars
    PROVE  IInv'
<1>1. UNCHANGED <<total, file, chS, accepted, headSent, sent, sentIdx, lastConfirmed,
                  waitingAck, reads, wakeups, ackTimers, sRemovals, sHist, consent>>
  BY DEF vars, senderVars, sendVars
<1>2. UNCHANGED <<dcS, dcR, stream, wire, taken, toS>>
  BY DEF vars, linkVars
<1>3. UNCHANGED <<chR, incoming, rx, announced, blocks, received, downloads, rRemovals>>
  BY DEF vars, receiverVars, rxVars
<1>4. TypeOK' /\ StreamInOrder'
  BY <1>1, <1>2, <1>3 DEF IInv, TypeOK, SenderTypes, LinkTypes, ReceiverTypes, StreamInOrder
<1>5. ReaderInv' /\ ConsentInv' /\ RemovalInv'
  BY <1>1, <1>2 DEF IInv, ReaderInv, OneReader, ConsentInv, AnswerInv, AcceptedIsSent, RemovalInv
<1>6. ReceiverInv' /\ ReplyInv'
  BY <1>1, <1>2, <1>3 DEF IInv, ReceiverInv, WholeIsSaved, ReplyInv
<1> QED
  BY <1>4, <1>5, <1>6 DEF IInv

\* Every step of the two pages and the network keeps the invariant.
LEMMA IInvStep == IInv /\ [Next]_vars => IInv'
<1>1. ASSUME IInv, Next PROVE IInv'
  <2>1. SenderInv /\ ReceiverInv /\ RemovalInv /\ AnswerInv
    BY <1>1, SenderPart DEF IInv, ConsentInv
  <2>2. RemovalInv'
    BY <1>1, <2>1, AckOfSaved, RemovalStep
  <2> QED
    BY <1>1, <2>1, <2>2, ReceiverPart, TypeStep, StreamStep, ReaderStep, ConsentStep, ReceiverStep, ReplyStep
       DEF IInv
<1> QED
  BY <1>1, StutterStep

\* The inductive invariant holds in every state: each handler, timer and FileReader
\* callback of the two pages, and the network, preserve it.
THEOREM Invariance == Spec => []IInv
  BY InitIInv, IInvStep, PTL DEF Spec

\* What the inductive invariant says of the window: block indices confirm one
\* block less than was handled, so the window is never too wide.
LEMMA WindowLemma == IInv => WindowRespected
<1> SUFFICES ASSUME IInv PROVE WindowRespected
  OBVIOUS
<1> USE DEF IInv, TypeOK, SenderTypes, LinkTypes, ReceiverTypes
<1>1. sent <= lastConfirmed + MaxInflight
  BY DEF ReaderInv
<1>2. lastConfirmed = 0 \/ lastConfirmed + 2 <= taken
  BY DEF ReplyInv
<1> QED
  BY <1>1, <1>2 DEF WindowRespected, Arrived

\* A small window keeps the send buffer low.
LEMMA BufferLemma == IInv => BufferNeverHigh
<1> SUFFICES ASSUME IInv, MaxInflight < BufferHigh PROVE Buffered < BufferHigh
  BY DEF BufferNeverHigh
<1> USE DEF IInv, TypeOK, SenderTypes, LinkTypes
<1>1. sent <= Arrived + MaxInflight
  BY WindowLemma DEF WindowRespected
<1>2. stream = <<>> \/ Len(stream) = sent + 1
  BY DEF ReaderInv
<1>3. wire \in Nat /\ taken \in Nat /\ taken <= wire /\ Len(stream) \in Nat
  OBVIOUS
<1> DEFINE waiting == {k \in (wire + 1)..Len(stream) : stream[k].type = "block"}
           first == IF wire = 0 THEN 2 ELSE wire + 1
<1>4. first \in Nat /\ waiting \in SUBSET (first..Len(stream))
  <2>1. ASSUME NEW k \in waiting PROVE k # 1
    <3>1. k \in 1..Len(stream) /\ stream[k].type = "block"
      BY <1>3
    <3>2. stream[1] = V2Head \/ k # 1
      BY <3>1 DEF StreamInOrder
    <3> QED
      BY <3>1, <3>2 DEF V2Head
  <2>2. first \in Nat
    BY <1>3
  <2>3. ASSUME NEW k \in waiting PROVE k \in first..Len(stream)
    <3>1. k \in (wire + 1)..Len(stream) /\ k # 1
      BY <2>1
    <3> QED
      BY <1>3, <3>1
  <2> QED
    BY <2>2, <2>3
<1>5. /\ IsFiniteSet(first..Len(stream))
      /\ Cardinality(first..Len(stream)) = IF first > Len(stream) THEN 0 ELSE Len(stream) - first + 1
  <2>1. first \in Int /\ Len(stream) \in Int
    BY <1>3, <1>4
  <2> HIDE DEF first
  <2> QED
    BY <2>1, FS_Interval
<1>6. Cardinality(waiting) \in Nat /\ Cardinality(waiting) <= Cardinality(first..Len(stream))
  <2> HIDE DEF waiting, first
  <2>1. IsFiniteSet(waiting) /\ Cardinality(waiting) <= Cardinality(first..Len(stream))
    BY <1>4, <1>5, FS_Subset
  <2> QED
    BY <2>1, FS_CardinalityType
<1>7. Buffered = Cardinality(waiting)
  BY DEF Buffered
<1>8. Cardinality(waiting) <= MaxInflight
  <2> HIDE DEF waiting
  <2> QED
    BY <1>1, <1>2, <1>3, <1>5, <1>6 DEF Arrived
<1> QED
  BY <1>6, <1>7, <1>8

\* Every variable keeps its type, and no block counter of either page passes the
\* end of the file.
THEOREM TypeCorrect == Spec => []TypeOK
<1>1. IInv => TypeOK
  BY DEF IInv
<1> QED
  BY <1>1, Invariance, PTL

\* For every file, window and buffer size, sendBlock sends the header and then
\* every block once, in order.
THEOREM InOrder == Spec => []StreamInOrder
<1>1. IInv => StreamInOrder
  BY DEF IInv, ReaderInv
<1> QED
  BY <1>1, Invariance, PTL

\* However many callers sendBlock has, one block is read at a time.
THEOREM SingleReader == Spec => []OneReader
<1>1. IInv => OneReader
  BY DEF IInv, ReaderInv
<1> QED
  BY <1>1, Invariance, PTL

\* The sender is never more than MAX_INFLIGHT blocks ahead of what the receiver
\* handled.
THEOREM WindowKept == Spec => []WindowRespected
<1>1. IInv => WindowRespected
  BY WindowLemma
<1> QED
  BY <1>1, Invariance, PTL

\* The send buffer stays below BUFFER_HIGH when the window is smaller than it.
THEOREM BufferKept == Spec => []BufferNeverHigh
<1>1. IInv => BufferNeverHigh
  BY BufferLemma
<1> QED
  BY <1>1, Invariance, PTL

\* The receiver's map of blocks never has a hole.
THEOREM NoHole == Spec => []PrefixHeld
<1>1. IInv => PrefixHeld
  BY DEF IInv, ReceiverInv, PrefixHeld
<1> QED
  BY <1>1, Invariance, PTL

\* A file of which everything was handled is saved (recvBlock has no end marker to
\* go by).
THEOREM Reception == Spec => []WholeIsSaved
<1>1. IInv => WholeIsSaved
  BY DEF IInv, ReceiverInv, PrefixHeld
<1> QED
  BY <1>1, Invariance, PTL

\* The sender shows "complete" only for a file that the receiver saved once, whole.
THEOREM Confirmation == Spec => []ConfirmedMeansSaved
<1>1. IInv => ConfirmedMeansSaved
  BY DEF IInv, ReplyInv, ReceiverInv, ConfirmedMeansSaved
<1> QED
  BY <1>1, Invariance, PTL

\* Nothing is sent before the file_accept.
THEOREM ConsentAwaited == Spec => []NothingWithoutConsent
<1>1. IInv => NothingWithoutConsent
  BY DEF IInv, ReaderInv, ConsentInv, AnswerInv, NothingWithoutConsent
<1> QED
  BY <1>1, Invariance, PTL

\* An accepted file is sent although its channel may have opened before the
\* handlers were set.
THEOREM ConsentKept == Spec => []AcceptedIsSent
<1>1. IInv => AcceptedIsSent
  BY DEF IInv, ReaderInv, ConsentInv
<1> QED
  BY <1>1, Invariance, PTL

-------------------------------------------------------------------------------
(* What a step may never do, and the abstract transfer.                        *)

\* Only onload writes an entry, and it runs on an open channel: RemovalInv says
\* that the entry it writes back was never removed.
LEMMA RemovedStays ==
    ASSUME IInv, Next, file = "removed"
    PROVE  file' = "removed"
<1>1. CASE HashDone \/ DcOpens \/ HandleFileAccept \/ HandleFileReject \/ Wake \/ HandleFlowAdv
  BY <1>1 DEF HashDone, DcOpens, HandleFileAccept, HandleFileReject, Wake, HandleFlowAdv, FlowAdvanced
<1>2. CASE \E k \in 1..Len(reads) : ReadDone(k)
  BY <1>2 DEF ReadDone, IInv, RemovalInv
<1>3. CASE \/ HandleFileReceived \/ (\E k \in 1..Len(reads) : ReadDoneTooLate(k))
           \/ (\E k \in 1..Len(reads) : ReadFails(k)) \/ AckTimeout \/ RemoveOutgoing
           \/ SenderIceFails \/ (\E error \in BOOLEAN : SenderDcCloses(error)) \/ Transmit
  BY <1>3 DEF HandleFileReceived, FileConfirmed, ReadDoneTooLate, ReadFails, AckTimeout, RemoveOutgoing,
              SenderIceFails, SenderDcCloses, Transmit
<1>4. CASE \/ RecvV2Head \/ RecvBlock \/ RemoveIncoming \/ ReceiverIceFails
           \/ (\E error \in BOOLEAN : ReceiverDcCloses(error))
           \/ AcceptAllPending \/ RejectAllPending
  BY <1>4 DEF AcceptAllPending, RejectAllPending, RecvV2Head, RecvBlock, RemoveIncoming, ReceiverIceFails, ReceiverDcCloses,
              senderVars
<1> QED
  BY <1>1, <1>2, <1>3, <1>4, NextCases

\* A late FileReader never brings back an entry of outgoingFiles.
THEOREM NeverResurrected == Spec => NoResurrection
<1>1. IInv /\ [Next]_vars => [file = "removed" => file' = "removed"]_vars
  BY RemovedStays
<1> QED
  BY <1>1, Invariance, PTL DEF Spec, NoResurrection

\* The initial states are initial states of Transfer.
LEMMA RefineInit == Init => T!Init
<1> SUFFICES ASSUME Init PROVE T!Init
  OBVIOUS
<1>1. total \in Nat /\ received = 0 /\ downloads = <<>>
  BY DEF Init
<1>2. ("complete" \in sHist) = FALSE
  BY DEF Init
<1> QED
  BY <1>1, <1>2 DEF T!Init

\* A block is Collect or Save, a removal Abandon, a completion Confirm; nothing
\* else is visible to the abstract transfer.
LEMMA RefineStep ==
    ASSUME IInv, Next
    PROVE  T!Next \/ UNCHANGED T!vars
<1>0. total \in Nat /\ received \in Nat /\ downloads \in Seq(SUBSET Nat)
  BY DEF IInv, TypeOK, SenderTypes, ReceiverTypes
<1>1. CASE RecvBlock /\ rx
  <2>1. received < total /\ downloads = <<>> /\ UNCHANGED <<total, sHist>>
    BY <1>1, SenderPart, ReceiverPart, StoreBlockStep DEF RecvBlock, senderVars
  <2>2. CASE received + 1 = total /\ downloads' = <<0..(total - 1)>> /\ FreeBuffer
    BY <2>1, <2>2 DEF FreeBuffer, T!Next, T!Save
  <2>3. CASE received + 1 # total /\ received' = received + 1 /\ UNCHANGED downloads
    <3>1. received + 1 < total
      BY <1>0, <2>1, <2>3
    <3> QED
      BY <2>1, <2>3, <3>1 DEF T!Next, T!Collect
  <2> QED
    BY <1>1, <2>2, <2>3, SenderPart, ReceiverPart, StoreBlockStep
<1>2. CASE HandleFileReceived
  <2>1. downloads # <<>> /\ UNCHANGED <<total, received, downloads>>
    BY <1>2, AckOfSaved DEF HandleFileReceived, FileConfirmed, receiverVars, rxVars
  <2>2. sHist' = sHist \cup {"complete"} \/ sHist' = sHist \cup {"failed"} \/ sHist' = sHist
    BY <1>2 DEF HandleFileReceived, FileConfirmed, SenderFailed
  <2>3. CASE "complete" \in sHist' /\ "complete" \notin sHist
    <3>1. ("complete" \in sHist') = TRUE
      BY <2>3
    <3> QED
      BY <2>1, <2>3, <3>1 DEF T!Next, T!Confirm
  <2>4. CASE "complete" \in sHist' <=> "complete" \in sHist
    <3>1. ("complete" \in sHist') = ("complete" \in sHist)
      BY <2>4
    <3> QED
      BY <2>1, <3>1 DEF T!vars
  <2> QED
    BY <2>2, <2>3, <2>4
<1>3. CASE RemoveIncoming \/ ReceiverIceFails
  <2>1. UNCHANGED <<total, downloads, sHist>>
    BY <1>3 DEF RemoveIncoming, ReceiverIceFails, linkVars, senderVars
  <2>2. received' = 0 \/ received' = received
    BY <1>3 DEF RemoveIncoming, ReceiverIceFails, RemoveTransfer, FreeBuffer, rxVars
  <2>3. CASE received # 0 /\ received' = 0
    BY <2>1, <2>3 DEF T!Next, T!Abandon
  <2>4. CASE received' = received
    BY <2>1, <2>4 DEF T!vars
  <2> QED
    BY <2>2, <2>3, <2>4
<1>4. CASE RecvV2Head
  <2>1. ~rx => received = 0
    BY DEF IInv, ReceiverInv
  <2>2. UNCHANGED <<total, downloads, sHist, received>>
    BY <1>4, <2>1 DEF RecvV2Head, senderVars, rxVars
  <2> QED
    BY <2>2 DEF T!vars
<1>5. CASE UNCHANGED <<total, downloads, received>> /\ ("complete" \in sHist' <=> "complete" \in sHist)
  <2>1. ("complete" \in sHist') = ("complete" \in sHist)
    BY <1>5
  <2> QED
    BY <1>5, <2>1 DEF T!vars
<1>6. CASE HashDone \/ DcOpens \/ HandleFileAccept \/ HandleFileReject \/ Wake \/ HandleFlowAdv
  <2>1. UNCHANGED <<total, downloads, received>>
    BY <1>6 DEF HashDone, DcOpens, HandleFileAccept, HandleFileReject, Wake, HandleFlowAdv, FlowAdvanced,
                receiverVars, rxVars
  <2>2. sHist' = sHist \/ sHist' = sHist \cup {"rejected"}
    BY <1>6 DEF HashDone, DcOpens, HandleFileAccept, HandleFileReject, Wake, HandleFlowAdv, FlowAdvanced
  <2> QED
    BY <1>5, <2>1, <2>2
<1>7. CASE \/ (\E k \in 1..Len(reads) : ReadDone(k)) \/ (\E k \in 1..Len(reads) : ReadDoneTooLate(k))
           \/ (\E k \in 1..Len(reads) : ReadFails(k)) \/ AckTimeout \/ RemoveOutgoing
  <2>1. UNCHANGED <<total, downloads, received>>
    BY <1>7 DEF ReadDone, ReadDoneTooLate, ReadFails, AckTimeout, RemoveOutgoing,
                receiverVars, rxVars
  <2>2. sHist' = sHist \/ sHist' = sHist \cup {"failed"}
    BY <1>7 DEF ReadDone, ReadDoneTooLate, ReadFails, SenderFailed, AckTimeout, RemoveOutgoing
  <2> QED
    BY <1>5, <2>1, <2>2
<1>8. CASE \/ SenderIceFails \/ (\E error \in BOOLEAN : SenderDcCloses(error)) \/ Transmit
           \/ (\E error \in BOOLEAN : ReceiverDcCloses(error)) \/ (RecvBlock /\ ~rx)
           \/ AcceptAllPending \/ RejectAllPending
  BY <1>5, <1>8 DEF AcceptAllPending, RejectAllPending, SenderIceFails, SenderDcCloses, SenderFailed, Transmit, ReceiverDcCloses,
                    RecvBlock, senderVars, receiverVars, rxVars
<1> QED
  BY <1>1, <1>2, <1>3, <1>4, <1>6, <1>7, <1>8, NextCases

\* The channel, with its window, buffers, timers and losses, implements the
\* abstract transfer: a file is saved at most once, whole, and "complete" is
\* shown only after that.
THEOREM Refinement == Spec => ImplementsTransfer
<1>1. IInv /\ [Next]_vars => [T!Next]_T!vars
  <2>1. UNCHANGED vars => UNCHANGED T!vars
    <3>1. ASSUME UNCHANGED vars PROVE UNCHANGED <<total, downloads, received, sHist>>
      BY <3>1 DEF vars, senderVars, receiverVars, rxVars
    <3> QED
      BY <3>1 DEF T!vars
  <2> QED
    BY <2>1, RefineStep
<1> QED
  BY <1>1, RefineInit, Invariance, PTL DEF Spec, ImplementsTransfer, T!Spec

===============================================================================
