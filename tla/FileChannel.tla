------------------------------ MODULE FileChannel ------------------------------
(* One file over one RTCDataChannel, from the moment startTransfer creates the *)
(* channel to the end of both pages' entries: web/static/app.js, functions     *)
(* startTransfer, setupDC, handleFileAccept/Reject, sendV2Head, sendBlock,     *)
(* startAckTimer, handleFileReceived, handleBinary, recvV2Head, recvBlock,     *)
(* doMd5AndSendAck, completeXfer, xferFailed, removeTransferUI and             *)
(* cleanupAllForConnId.  Every handler and every timer or FileReader callback  *)
(* is one action: a page runs one at a time, in any order the browser likes.   *)
(*                                                                             *)
(* The unit is the block: CHUNK_SIZE bytes of the file (the last may be        *)
(* shorter).  f.sent counts bytes and is a block boundary between handlers, so *)
(* f.sent / CHUNK_SIZE is the number of blocks sent until the last one, and    *)
(* "sent >= fileSize" is "all blocks sent".  Block contents are left out: two  *)
(* files of one length have one digest here, as in md5(), which reads an       *)
(* ArrayBuffer by index and so digests the length only.                        *)
EXTENDS Integers, Sequences, FiniteSets

CONSTANTS
    FileBlocks,      \* the block counts a chosen file may have
    MaxInflight,     \* MAX_INFLIGHT: blocks sent and not yet confirmed
    BufferHigh,      \* BUFFER_HIGH, in blocks
    BufferLow,       \* bufferedAmountLowThreshold, in blocks
    MaxHeadBlocks    \* the largest block count a header may announce

\* 10, 16, 31 and 100000 in the code, where a block on the channel is 16393 bytes
\* against 256 KB and 512 KB.  A window of one block would never open: the
\* confirmation of block 0 leaves lastConfirmed at its default, 0.
ASSUME ChannelAssumption ==
    /\ FileBlocks \subseteq Nat
    /\ MaxInflight \in Nat /\ MaxInflight >= 2
    /\ BufferHigh \in Nat \ {0}
    /\ BufferLow \in Nat /\ BufferHigh <= BufferLow
    /\ MaxHeadBlocks \in Nat

VARIABLES
    total,          \* totalBlocks of the file: chosen once
    \* the sending page
    file,           \* "hashing" until outgoingFiles has the entry, then "active", "removed"
    chS,            \* dataChannels has the entry
    accepted,       \* transferAccepted: its deletion with the entry, without
                    \*   which it is never read, is left out
    headSent,       \* f.sentV2Head
    sent,           \* f.sent
    sentIdx,        \* f.sentIdx, -1 for undefined
    lastConfirmed,  \* dcLastConfirmed, whose default is 0
    waitingAck,     \* f.waitingAck
    reads,          \* the FileReaders under way, by the index of their block
    wakeups,        \* queued sendBlock tasks: setTimeout(0) and bufferedamountlow
    ackTimers,      \* armed 30 s timers of startAckTimer
    sRemovals,      \* armed 3 s timers of completeXfer / xferFailed
    sHist,          \* statuses that the history has shown for this file
    consent,        \* the offer and its answer, on their way through the server
    \* the channel
    dcS, dcR,       \* each end: "lost" when the peer's end went, "closed" with its own pc
    stream,         \* everything sent to the receiver, in order
    wire,           \* how much of it left the send buffer
    taken,          \* how much of it the receiver's onmessage handled
    toS,            \* messages under way to the sender
    \* the receiving page
    chR,            \* dataChannels has the entry
    incoming,       \* incomingChannels has the entry: consent to save
    rx,             \* receiveBuffers has the entry, whose fields are
    announced,      \*   r.totalBlocks, from the header
    blocks,         \*   the indices in r.blocks
    received,       \*   and r.received, in blocks
    downloads,      \* what downloadBlob was given, block indices per file saved
    rRemovals       \* armed 3 s timers of completeXfer / xferFailed

sendVars == <<sentIdx, reads, waitingAck, ackTimers>>
senderVars == <<file, chS, accepted, headSent, sent, lastConfirmed, wakeups,
                sRemovals, sHist, sendVars>>
linkVars == <<dcS, dcR, stream, wire, taken, toS>>
rxVars == <<rx, announced, blocks, received>>
receiverVars == <<chR, incoming, rxVars, downloads, rRemovals>>
vars == <<total, senderVars, consent, linkVars, receiverVars>>

V2Head == [type |-> "head", idx |-> 0]
Block(i) == [type |-> "block", idx |-> i]
FlowAdv(i) == [type |-> "flow", idx |-> i]
FileReceived(n) == [type |-> "ack", idx |-> n]   \* with the digest of n blocks

\* bufferedAmount: the blocks ch.send took and the network did not.  The header
\* is far smaller than a block and counts for nothing.
Buffered == Cardinality({k \in (wire + 1)..Len(stream) : stream[k].type = "block"})

Init ==
    /\ total \in FileBlocks
    /\ file = "hashing" /\ chS = TRUE
    /\ accepted = FALSE /\ headSent = FALSE
    /\ sent = 0 /\ sentIdx = -1 /\ lastConfirmed = 0 /\ waitingAck = FALSE
    /\ reads = <<>> /\ wakeups = 0 /\ ackTimers = 0 /\ sRemovals = 0 /\ sHist = {}
    /\ consent = "none"
    /\ dcS = "connecting" /\ dcR = "open"
    /\ stream = <<>> /\ wire = 0 /\ taken = 0 /\ toS = <<>>
    /\ chR = FALSE /\ incoming = FALSE
    /\ rx = FALSE /\ announced = 0 /\ blocks = {} /\ received = 0
    /\ downloads = <<>> /\ rRemovals = 0

-------------------------------------------------------------------------------
(* The sending page.                                                           *)

\* The await of computeFileHash ends: the entry is made, the handlers are set,
\* and the file_offer follows.
HashDone ==
    /\ file = "hashing"
    /\ file' = "active"
    /\ consent' = "offered"
    /\ UNCHANGED <<total, chS, accepted, headSent, sent, lastConfirmed, wakeups,
                   sRemovals, sHist, sendVars, linkVars, receiverVars>>

\* (mutants) the channel state read before the open; no look at the consent
CanSendHeadStale(dc, acc) ==
    acc /\ chS /\ dcS = "open" /\ file = "active" /\ ~headSent
CanSendHeadUnasked(dc, acc) ==
    chS /\ dc = "open" /\ file = "active" /\ ~headSent

\* sendV2Head: after the consent, once per entry, and only on an open channel.
CanSendHead(dc, acc) ==
    acc /\ chS /\ dc = "open" /\ file = "active" /\ ~headSent

SendV2Head(dc, acc) ==
    IF CanSendHead(dc, acc)
    THEN /\ headSent' = TRUE
         /\ stream' = Append(stream, V2Head)
         /\ wakeups' = wakeups + 1
    ELSE UNCHANGED <<headSent, stream, wakeups>>

\* onopen, just after the receiver's ondatachannel listed its end.  Before
\* HashDone the sender has no handler installed and the event is lost.
DcOpens ==
    /\ dcS = "connecting" /\ dcR = "open"
    /\ dcS' = "open"
    /\ chR' = TRUE
    /\ SendV2Head("open", accepted)
    /\ UNCHANGED <<total, consent, file, chS, accepted, sent, lastConfirmed,
                   sRemovals, sHist, sendVars, dcR, wire, taken, toS, incoming,
                   rxVars, downloads, rRemovals>>

\* file_accept.  A second one for the same file would find the header sent.
HandleFileAccept ==
    /\ consent = "accepted"
    /\ consent' = "handled"
    /\ accepted' = TRUE
    /\ SendV2Head(dcS, TRUE)
    /\ UNCHANGED <<total, file, chS, sent, lastConfirmed, sRemovals, sHist,
                   sendVars, dcS, dcR, wire, taken, toS, receiverVars>>

\* file_reject.
HandleFileReject ==
    /\ consent = "rejected"
    /\ consent' = "handled"
    /\ file' = "removed" /\ chS' = FALSE
    /\ sHist' = sHist \cup {"rejected"}
    /\ UNCHANGED <<total, accepted, headSent, sent, lastConfirmed, wakeups,
                   sRemovals, sendVars, linkVars, receiverVars>>

\* sendBlock, with lc the confirmation it reads: it starts the next read, or
\* arms the ACK timer, or returns.
CanSend == file = "active" /\ chS /\ dcS = "open"

\* (mutants) one block too many, one too few, no window at all
WindowOpenLate(n, lc) == n - lc <= MaxInflight
WindowOpenEarly(n, lc) == n - lc < MaxInflight - 1
WindowOpenAlways(n, lc) == TRUE

WindowOpen(n, lc) == n - lc < MaxInflight

\* (mutants) the duplicate guard dropped, the end of the file missed
StartsReadTwice(lc) == CanSend /\ sent < total /\ WindowOpen(sent, lc)
StartsReadPastEnd(lc) ==
    CanSend /\ sent <= total /\ WindowOpen(sent, lc) /\ sent > sentIdx

StartsRead(lc) ==
    CanSend /\ sent < total /\ WindowOpen(sent, lc) /\ sent > sentIdx

AwaitsAck(lc) ==
    CanSend /\ sent >= total /\ lc >= total - 1 /\ ~waitingAck

SendBlock(lc) ==
    \/ /\ StartsRead(lc)
       /\ sentIdx' = sent
       /\ reads' = Append(reads, sent)
       /\ UNCHANGED <<waitingAck, ackTimers>>
    \/ /\ AwaitsAck(lc)
       /\ waitingAck' = TRUE
       /\ ackTimers' = ackTimers + 1
       /\ UNCHANGED <<sentIdx, reads>>
    \/ /\ ~StartsRead(lc) /\ ~AwaitsAck(lc)
       /\ UNCHANGED sendVars

\* A queued sendBlock runs.
Wake ==
    /\ wakeups > 0
    /\ wakeups' = wakeups - 1
    /\ SendBlock(lastConfirmed)
    /\ UNCHANGED <<total, consent, file, chS, accepted, headSent, sent,
                   lastConfirmed, sRemovals, sHist, linkVars, receiverVars>>

ReadsBut(k) == SubSeq(reads, 1, k - 1) \o SubSeq(reads, k + 1, Len(reads))

\* FileReader onload: send the block, count it, and go on unless the file is
\* sent, the window is full or the send buffer is high.
GoesOn ==
    /\ sent + 1 < total
    /\ WindowOpen(sent + 1, lastConfirmed)
    /\ Buffered + 1 < BufferHigh

ReadDone(k) ==
    /\ dcS = "open"
    /\ reads' = ReadsBut(k)
    /\ stream' = Append(stream, Block(reads[k]))
    /\ sent' = sent + 1
    /\ file' = "active"
    /\ wakeups' = IF GoesOn THEN wakeups + 1 ELSE wakeups
    /\ UNCHANGED <<total, consent, chS, accepted, headSent, sentIdx,
                   lastConfirmed, waitingAck, ackTimers, sRemovals, sHist, dcS,
                   dcR, wire, taken, toS, receiverVars>>

\* The same on a channel that is gone: ch.send throws out of onload.
ReadDoneTooLate(k) ==
    /\ dcS # "open"
    /\ reads' = ReadsBut(k)
    /\ UNCHANGED <<total, consent, file, chS, accepted, headSent, sent, sentIdx,
                   lastConfirmed, wakeups, waitingAck, ackTimers, sRemovals,
                   sHist, linkVars, receiverVars>>

\* xferFailed on the sending page.
SenderFailed ==
    /\ sHist' = sHist \cup {"failed"}
    /\ sRemovals' = sRemovals + 1

\* FileReader onerror: the file changed or went away on disk.
ReadFails(k) ==
    /\ reads' = ReadsBut(k)
    /\ SenderFailed
    /\ UNCHANGED <<total, consent, file, chS, accepted, headSent, sent, sentIdx,
                   lastConfirmed, wakeups, waitingAck, ackTimers, linkVars,
                   receiverVars>>

\* A message reaches the sending page.
FromReceiver(type) ==
    /\ dcS = "open"
    /\ toS # <<>> /\ Head(toS).type = type
    /\ toS' = Tail(toS)

\* FLOW_ADV: the window may have opened.
FlowAdvanced(i) ==
    LET lc == IF i > lastConfirmed THEN i ELSE lastConfirmed
    IN  lastConfirmed' = lc /\ SendBlock(lc)

HandleFlowAdv ==
    /\ FromReceiver("flow")
    /\ FlowAdvanced(Head(toS).idx)
    /\ UNCHANGED <<total, consent, file, chS, accepted, headSent, sent, wakeups,
                   sRemovals, sHist, dcS, dcR, stream, wire, taken,
                   receiverVars>>

\* (mutant) the digest not compared
DigestIgnored(n) == TRUE

\* recvHash === f.fileHash
DigestAgrees(n) == n = total

\* FILE_RECEIVED: completeXfer if the receiver's digest is the file's.
FileConfirmed(n) ==
    \/ /\ file = "active" /\ DigestAgrees(n)
       /\ sHist' = sHist \cup {"complete"} /\ sRemovals' = sRemovals + 1
       /\ waitingAck' = FALSE
    \/ /\ file = "active" /\ ~DigestAgrees(n)
       /\ SenderFailed
       /\ waitingAck' = FALSE
    \/ /\ file # "active"
       /\ UNCHANGED <<waitingAck, sHist, sRemovals>>

HandleFileReceived ==
    /\ FromReceiver("ack")
    /\ FileConfirmed(Head(toS).idx)
    /\ UNCHANGED <<total, consent, file, chS, accepted, headSent, sent, sentIdx,
                   lastConfirmed, wakeups, reads, ackTimers, dcS, dcR, stream,
                   wire, taken, receiverVars>>

\* The callback of startAckTimer.
AckTimeout ==
    /\ ackTimers > 0
    /\ ackTimers' = ackTimers - 1
    /\ IF file = "active" /\ waitingAck
       THEN waitingAck' = FALSE /\ SenderFailed
       ELSE UNCHANGED <<waitingAck, sHist, sRemovals>>
    /\ UNCHANGED <<total, consent, file, chS, accepted, headSent, sent, sentIdx,
                   lastConfirmed, wakeups, reads, linkVars, receiverVars>>

\* removeTransferUI, 3 s after completeXfer or xferFailed.  An entry that the
\* digest has yet to make (Resend) cannot be removed, its channel can.
RemoveOutgoing ==
    /\ sRemovals > 0
    /\ sRemovals' = sRemovals - 1
    /\ file' = IF file = "hashing" THEN file ELSE "removed"
    /\ chS' = FALSE
    /\ UNCHANGED <<total, consent, accepted, headSent, sent, lastConfirmed,
                   wakeups, sHist, sendVars, linkVars, receiverVars>>

\* (mutant) the connection left open
SenderIceFailsNoClose ==
    /\ dcS # "closed"
    /\ IF file = "active"
       THEN file' = "removed" /\ chS' = FALSE
       ELSE UNCHANGED <<file, chS>>
    /\ UNCHANGED <<total, consent, accepted, headSent, sent, lastConfirmed,
                   wakeups, sRemovals, sHist, sendVars, linkVars, receiverVars>>

\* ICE fails or disconnects: cleanupAllForConnId.  It finds the file by its
\* outgoingFiles entry, so a file still being digested keeps its channel entry.
SenderIceFails ==
    /\ dcS # "closed"
    /\ dcS' = "closed"
    /\ IF file = "active"
       THEN file' = "removed" /\ chS' = FALSE
       ELSE UNCHANGED <<file, chS>>
    /\ UNCHANGED <<total, consent, accepted, headSent, sent, lastConfirmed,
                   wakeups, sRemovals, sHist, sendVars, dcR, stream, wire,
                   taken, toS, receiverVars>>

\* The peer's end went: onclose, and before it onerror if the browser reports
\* the abort.  While the file is digested no handler is installed.
SenderDcCloses(error) ==
    /\ dcS \in {"connecting", "open"} /\ dcR # "open"
    /\ dcS' = "lost"
    /\ IF error /\ file # "hashing" THEN SenderFailed ELSE UNCHANGED <<sHist, sRemovals>>
    /\ chS' = (chS /\ file = "hashing")
    /\ UNCHANGED <<total, consent, file, accepted, headSent, sent,
                   lastConfirmed, wakeups, sendVars, dcR, stream, wire, taken,
                   toS, receiverVars>>

-------------------------------------------------------------------------------
(* The network.  SCTP delivers in order and loses nothing while both ends are  *)
(* open.                                                                       *)

\* A message leaves the send buffer; falling to the threshold fires the event.
Transmit ==
    /\ dcS = "open" /\ wire < Len(stream)
    /\ wire' = wire + 1
    /\ wakeups' = IF stream[wire + 1].type = "block" /\ Buffered = BufferLow + 1
                  THEN wakeups + 1 ELSE wakeups
    /\ UNCHANGED <<total, consent, file, chS, accepted, headSent, sent,
                   lastConfirmed, sRemovals, sHist, sendVars, dcS, dcR, stream,
                   taken, toS, receiverVars>>

-------------------------------------------------------------------------------
(* The receiving page.                                                         *)

\* The user, or the 60 s timer, answers the file_offer.
AcceptAllPending ==
    /\ consent = "offered"
    /\ consent' = "accepted"
    /\ incoming' = TRUE
    /\ UNCHANGED <<total, senderVars, linkVars, chR, rxVars, downloads,
                   rRemovals>>

RejectAllPending ==
    /\ consent = "offered"
    /\ consent' = "rejected"
    /\ UNCHANGED <<total, senderVars, linkVars, receiverVars>>

FromSender(type) ==
    /\ dcR = "open"
    /\ taken < wire /\ stream[taken + 1].type = type
    /\ taken' = taken + 1

\* recvV2Head: a header that announces too many blocks is dropped, and so is
\* one for a file that has an entry.
RecvV2Head ==
    /\ FromSender("head")
    /\ IF total <= MaxHeadBlocks /\ ~rx
       THEN rx' = TRUE /\ announced' = total /\ blocks' = {} /\ received' = 0
       ELSE UNCHANGED rxVars
    /\ UNCHANGED <<total, consent, senderVars, dcS, dcR, stream, wire, toS, chR,
                   incoming, downloads, rRemovals>>

\* Send to the sender if dataChannels still has the channel.
Reply(m) == toS' = IF chR THEN Append(toS, m) ELSE toS

\* (mutants) the buffer forgotten, and a part of it
FreeBufferLeaks == UNCHANGED rxVars
FreeBufferLeaksBlocks == rx' = FALSE /\ announced' = 0 /\ received' = 0 /\ UNCHANGED blocks

FreeBuffer == rx' = FALSE /\ announced' = 0 /\ blocks' = {} /\ received' = 0

\* (mutants) saved one block early, one block late
IsWholeEarly(have, n) == Cardinality(have) >= announced - 1
IsWholeLate(have, n) == Cardinality(have) = announced /\ n > announced

\* r.blocks.size === r.totalBlocks && r.received === r.fileSize
IsWhole(have, n) == Cardinality(have) = announced /\ n = announced

\* recvBlock on an entry.  The block that makes the file whole goes on to
\* doMd5AndSendAck, which saves the file and frees the entries; any other is
\* confirmed by a FLOW_ADV.
StoreBlock(i) ==
    LET have == blocks \cup {i}
        top == CHOOSE j \in have : \A k \in have : k <= j
    IN  IF IsWhole(have, received + 1)
        THEN /\ Reply(FileReceived(announced))
             /\ downloads' = Append(downloads, have)
             /\ rRemovals' = rRemovals + 1
             /\ incoming' = FALSE
             /\ FreeBuffer
        ELSE /\ Reply(FlowAdv(top))
             /\ blocks' = have
             /\ received' = received + 1
             /\ UNCHANGED <<rx, announced, incoming, downloads, rRemovals>>

RecvBlock ==
    /\ FromSender("block")
    /\ IF rx THEN StoreBlock(stream[taken + 1].idx)
             ELSE UNCHANGED <<toS, incoming, rxVars, downloads, rRemovals>>
    /\ UNCHANGED <<total, consent, senderVars, dcS, dcR, stream, wire, chR>>

RemoveTransfer == FreeBuffer /\ chR' = FALSE /\ incoming' = FALSE

\* removeTransferUI, 3 s after completeXfer or xferFailed.
RemoveIncoming ==
    /\ rRemovals > 0
    /\ rRemovals' = rRemovals - 1
    /\ RemoveTransfer
    /\ UNCHANGED <<total, consent, senderVars, linkVars, downloads>>

\* ICE fails or disconnects: cleanupAllForConnId.  It finds the file by its
\* incomingChannels entry.
ReceiverIceFails ==
    /\ dcR # "closed"
    /\ dcR' = "closed"
    /\ IF incoming THEN RemoveTransfer ELSE UNCHANGED <<chR, incoming, rxVars>>
    /\ UNCHANGED <<total, consent, senderVars, dcS, stream, wire, taken, toS,
                   downloads, rRemovals>>

\* The sender's end went: onclose, and before it onerror if the browser reports
\* the abort.
ReceiverDcCloses(error) ==
    /\ dcR = "open" /\ dcS \in {"lost", "closed"}
    /\ dcR' = "lost"
    /\ chR' = FALSE
    /\ rRemovals' = IF error THEN rRemovals + 1 ELSE rRemovals
    /\ UNCHANGED <<total, consent, senderVars, dcS, stream, wire, taken, toS,
                   incoming, rxVars, downloads>>

-------------------------------------------------------------------------------

Deliver == RecvV2Head \/ RecvBlock

HandleReply == HandleFlowAdv \/ HandleFileReceived

FileRead == \E k \in 1..Len(reads) : ReadDone(k) \/ ReadDoneTooLate(k) \/ ReadFails(k)

Next ==
    \/ HashDone \/ DcOpens
    \/ AcceptAllPending \/ RejectAllPending \/ HandleFileAccept \/ HandleFileReject
    \/ Wake \/ FileRead \/ HandleReply \/ AckTimeout \/ RemoveOutgoing
    \/ SenderIceFails \/ \E error \in BOOLEAN : SenderDcCloses(error)
    \/ Transmit \/ Deliver \/ RemoveIncoming
    \/ ReceiverIceFails \/ \E error \in BOOLEAN : ReceiverDcCloses(error)

Spec == Init /\ [][Next]_vars

-------------------------------------------------------------------------------
(* Properties.                                                                 *)

Answers == {"none", "offered", "accepted", "rejected", "handled"}
DcStates == {"connecting", "open", "lost", "closed"}
Messages == [type : {"head", "block"}, idx : Nat]
Replies == [type : {"flow", "ack"}, idx : Nat]

SenderTypes ==
    /\ total \in FileBlocks
    /\ file \in {"hashing", "active", "removed"}
    /\ chS \in BOOLEAN /\ accepted \in BOOLEAN /\ headSent \in BOOLEAN
    /\ sent \in 0..total /\ sentIdx \in -1..(total - 1)
    /\ lastConfirmed \in Nat /\ waitingAck \in BOOLEAN
    /\ reads \in Seq(0..(total - 1))
    /\ wakeups \in Nat /\ ackTimers \in Nat /\ sRemovals \in Nat
    /\ sHist \subseteq {"complete", "failed", "rejected"}

LinkTypes ==
    /\ dcS \in DcStates /\ dcR \in DcStates
    /\ stream \in Seq(Messages) /\ toS \in Seq(Replies)
    /\ wire \in 0..Len(stream) /\ taken \in 0..wire

ReceiverTypes ==
    /\ chR \in BOOLEAN /\ incoming \in BOOLEAN
    /\ rx \in BOOLEAN /\ announced \in 0..total
    /\ blocks \subseteq 0..(total - 1) /\ received \in 0..total
    /\ downloads \in Seq(SUBSET Nat) /\ rRemovals \in Nat

\* Every variable has its type, and no counter of blocks passes the file's end.
TypeOK == SenderTypes /\ LinkTypes /\ ReceiverTypes /\ consent \in Answers

\* sendBlock has three callers that can overlap, and the FileReader answers
\* later: all the same the stream is the header and then every block once, in
\* order (README 4.5).
StreamInOrder ==
    \A k \in 1..Len(stream) : stream[k] = IF k = 1 THEN V2Head ELSE Block(k - 2)

\* The receiver's map has no hole: it holds the blocks below r.received.
PrefixHeld == blocks = 0..(received - 1)

\* There is no end marker: when the last message of the stream is handled the
\* receiver has saved the file, which takes its block count and its byte count
\* to reach the header's in the same handler (README 4.4).  An empty file has
\* no block to trigger the test, a header over the limit makes no entry.
WholeIsSaved ==
    taken > total /\ total \in 1..MaxHeadBlocks => downloads = <<0..(total - 1)>>

\* At most one block is being read, and it is the next to send.
OneReader == reads \in {<<>>, <<sent>>}

Arrived == IF taken = 0 THEN 0 ELSE taken - 1

\* The sliding window of sendBlock: what the receiver has not handled yet never
\* exceeds MAX_INFLIGHT blocks, although the window is opened by confirmations
\* that name a block index, not a count, and default to 0.
WindowRespected == sent <= Arrived + MaxInflight

\* With the code's constants the window closes before the send buffer is high:
\* the second flow control layer is never needed in a first transfer.
BufferNeverHigh == MaxInflight < BufferHigh => Buffered < BufferHigh

\* The sending page shows "complete" only for a file that the receiving page
\* saved, once, with all its blocks.
ConfirmedMeansSaved ==
    "complete" \in sHist => downloads = <<0..(total - 1)>>

\* No byte leaves the page before the file_accept for the file.
NothingWithoutConsent == stream # <<>> => accepted

\* Consent and the open channel come in either order, and the open event is
\* even lost while the file is being digested: whenever both are there, the
\* header went out.
AcceptedIsSent ==
    accepted /\ dcS = "open" /\ file = "active" => headSent

\* A late FileReader writes its entry back into outgoingFiles: never after the
\* entry was removed.
NoResurrection == [][file = "removed" => file' = "removed"]_vars

\* The channel implements the abstract transfer of one file.
T == INSTANCE Transfer WITH
        size <- total, held <- received, disk <- downloads,
        confirmed <- "complete" \in sHist

ImplementsTransfer == T!Spec

-------------------------------------------------------------------------------
(* The inductive invariant behind the safety properties.                       *)

\* The sender: one reader at a time, and a stream as long as what was sent.
ReaderInv ==
    /\ OneReader
    /\ sentIdx <= sent
    /\ reads # <<>> => sentIdx = sent /\ sent < total /\ headSent
                      /\ sent < lastConfirmed + MaxInflight
    /\ headSent <=> stream # <<>>
    /\ headSent => Len(stream) = sent + 1
    /\ ~headSent => sent = 0 /\ wakeups = 0
    /\ sent <= lastConfirmed + MaxInflight
    /\ waitingAck => sent >= total

\* The answer comes before the header, and after the entry.
AnswerInv ==
    /\ headSent => accepted /\ dcS # "connecting"
    /\ accepted => consent = "handled"
    /\ file = "hashing" => consent = "none"

\* Consent and the entries of the sender.
ConsentInv ==
    /\ AnswerInv
    /\ file = "hashing" => sRemovals = 0
    /\ file # "removed" /\ dcS \in {"connecting", "open"} => chS
    /\ AcceptedIsSent

\* An entry is dropped only when no read can bring it back.
RemovalInv ==
    dcS \in {"connecting", "open"} =>
       /\ reads # <<>> => file = "active"
       /\ sRemovals > 0 => reads = <<>> /\ (sent >= total \/ sentIdx >= sent)

\* The receiver's entry against the messages it was given.
ReceiverInv ==
    /\ rx => /\ announced = total /\ downloads = <<>>
             /\ taken = received + 1
             /\ received < total \/ total = 0
    /\ ~rx => received = 0
    /\ blocks = 0..(received - 1)
    /\ downloads # <<>> => taken = total + 1 /\ total > 0 /\ downloads = <<0..(total - 1)>>
    /\ dcR = "open" /\ taken > 0 /\ total <= MaxHeadBlocks /\ downloads = <<>> => rx
    /\ rRemovals > 0 => downloads # <<>> \/ dcR # "open"
    /\ WholeIsSaved

\* What travels back confirms only what was handled.
ReplyInv ==
    /\ \A k \in 1..Len(toS) :
          /\ toS[k].type = "flow" => toS[k].idx + 2 <= taken
          /\ toS[k].type = "ack" => downloads # <<>>
    /\ lastConfirmed = 0 \/ lastConfirmed + 2 <= taken
    /\ "complete" \in sHist => downloads # <<>>

\* What the sending page keeps by itself, whatever entry the receiver has.
SenderInv ==
    /\ SenderTypes /\ LinkTypes
    /\ StreamInOrder /\ ReaderInv
    /\ toS # <<>> => taken > 0

IInv ==
    /\ TypeOK /\ StreamInOrder
    /\ ReaderInv /\ ConsentInv /\ RemovalInv /\ ReceiverInv /\ ReplyInv

===============================================================================
