-------------------------------- MODULE Resend --------------------------------
(* The same file name sent again to the same device: startTransfer finds the   *)
(* PeerConnection of the first transfer, makes a new DataChannel, and uses the *)
(* same fileConnId, "connId:name", so that everything keyed by it that the     *)
(* first transfer left behind meets the second one: entries of both pages'     *)
(* maps, dcLastConfirmed, which nothing clears, the 30 s and 3 s timers, which *)
(* nothing cancels, queued sendBlock tasks, and the old channel, which nothing *)
(* closes and whose handlers go on by the same key: its blocks reach the new   *)
(* entry of the receiver, its confirmations the new entry of the sender.       *)
(*                                                                             *)
(* FileChannel's variables are those of the newest transfer, and of what it    *)
(* shares with the earlier ones by the key.  The old* variables are the        *)
(* channel of the transfer before it.                                          *)
EXTENDS FileChannel

CONSTANTS
    MaxRounds,          \* bound on the number of transfers
    AgainBlocks         \* the block counts of the files sent again

ASSUME RoundsAssumption == MaxRounds \in Nat /\ AgainBlocks \subseteq FileBlocks

VARIABLES
    round,
    clean,      \* all earlier rounds were complete, silent and their timers over
    late,       \* this round began before the channel and the tasks of the last were silent
    overlap,    \* this round began under a 3 s timer of the last
    earlier,    \* what the last round saved
    oldTotal,   \* the block count that the old channel's header announces
    oldS, oldR, oldStream, oldWire, oldTaken, oldToS    \* see dcS, ..., toS

historyVars == <<round, clean, late, overlap, earlier>>
oldVars == <<oldTotal, oldS, oldR, oldStream, oldWire, oldTaken, oldToS>>
againVars == <<historyVars, oldVars, vars>>

AgainInit ==
    /\ Init
    /\ round = 1 /\ clean = TRUE /\ late = FALSE /\ overlap = FALSE /\ earlier = <<>>
    /\ oldTotal = 0 /\ oldS = "none" /\ oldR = "none"
    /\ oldStream = <<>> /\ oldWire = 0 /\ oldTaken = 0 /\ oldToS = <<>>

-------------------------------------------------------------------------------
(* Another startTransfer.                                                      *)

\* The channel has nothing more to carry, and no sendBlock is queued.
Silent == wakeups = 0 /\ taken = Len(stream) /\ toS = <<>>

\* (mutants) the counters of the old entry kept
FreshEntryKeepsSent ==
    /\ accepted' = FALSE /\ headSent' = FALSE /\ waitingAck' = FALSE
    /\ UNCHANGED sent /\ sentIdx' = -1
FreshEntryKeepsIdx ==
    /\ accepted' = FALSE /\ headSent' = FALSE /\ waitingAck' = FALSE
    /\ sent' = 0 /\ UNCHANGED sentIdx

FreshEntry ==
    /\ accepted' = FALSE /\ headSent' = FALSE /\ waitingAck' = FALSE
    /\ sent' = 0 /\ sentIdx' = -1

\* The channel of the last round becomes the old one.
SetAside ==
    /\ oldTotal' = total
    /\ oldS' = dcS /\ oldR' = IF dcS = "open" THEN dcR ELSE dcS
    /\ oldStream' = SubSeq(stream, taken + 1, Len(stream))
    /\ oldWire' = wire - taken /\ oldTaken' = 0
    /\ oldToS' = toS

\* startTransfer on the pc of the first transfer.  It skips a name whose
\* outgoingFiles entry is still there, and asks for nothing else.  No FileReader
\* outlives the entry of a clean round (RemovalInv).  The bounds: MaxRounds, and
\* that a round which follows one that was not clean is the last.  sHist and
\* downloads tell of one round.
StartAgain ==
    /\ round < MaxRounds /\ clean
    /\ file = "removed" /\ dcS \in {"connecting", "open"}
    /\ round' = round + 1
    /\ late' = ~Silent
    /\ overlap' = (sRemovals > 0 \/ rRemovals > 0)
    /\ clean' = (Silent /\ sRemovals = 0 /\ rRemovals = 0 /\ "complete" \in sHist)
    /\ earlier' = downloads
    /\ SetAside
    /\ total' \in AgainBlocks
    /\ file' = "hashing" /\ chS' = TRUE
    /\ FreshEntry
    /\ dcS' = "connecting"
    /\ stream' = <<>> /\ wire' = 0 /\ taken' = 0 /\ toS' = <<>>
    /\ consent' = "none" /\ sHist' = {} /\ downloads' = <<>>
    /\ UNCHANGED <<lastConfirmed, reads, wakeups, ackTimers, sRemovals, dcR,
                   chR, incoming, rxVars, rRemovals>>

-------------------------------------------------------------------------------
(* The newest channel, beside the old one.                                     *)

InRound(A) == A /\ UNCHANGED <<historyVars, oldVars>>

\* A channel that was still connecting opens before the one made after it, whose
\* sendV2Head finds it not open yet.
DcOpensBoth ==
    /\ DcOpens
    /\ oldS' = IF oldS = "connecting" THEN "open" ELSE oldS
    /\ oldR' = IF oldR = "connecting" THEN "open" ELSE oldR
    /\ UNCHANGED <<historyVars, oldTotal, oldStream, oldWire, oldTaken, oldToS>>

\* Until its digest is there the channel has no handlers.
HandleReplyIn == file # "hashing" /\ InRound(HandleReply)

ReplyUnheard ==
    /\ file = "hashing" /\ dcS = "open"
    /\ toS # <<>> /\ toS' = Tail(toS)
    /\ UNCHANGED <<historyVars, oldVars, total, senderVars, consent, dcS, dcR,
                   stream, wire, taken, receiverVars>>

\* cleanupAllForConnId closes the connection with all its channels.
SenderIceFailsBoth ==
    /\ SenderIceFails
    /\ oldS' = IF oldS = "none" THEN "none" ELSE "closed"
    /\ UNCHANGED <<historyVars, oldTotal, oldR, oldStream, oldWire, oldTaken, oldToS>>

ReceiverIceFailsBoth ==
    /\ ReceiverIceFails
    /\ oldR' = IF oldR = "none" THEN "none" ELSE "closed"
    /\ UNCHANGED <<historyVars, oldTotal, oldS, oldStream, oldWire, oldTaken, oldToS>>

-------------------------------------------------------------------------------
(* The old channel.  Its handlers are FileChannel's, on its own stream and     *)
(* ends, and with everything else shared.  The receiver replies on the channel *)
(* that its dataChannels entry has: the old one until the new one opens.       *)

Alone == INSTANCE FileChannel WITH
    total <- oldTotal, dcS <- oldS, dcR <- oldR, stream <- oldStream,
    wire <- oldWire, taken <- oldTaken, toS <- oldToS

Beside == INSTANCE FileChannel WITH
    total <- oldTotal, dcS <- oldS, dcR <- oldR, stream <- oldStream,
    wire <- oldWire, taken <- oldTaken

OldTransmit == Alone!Transmit /\ UNCHANGED <<historyVars, total, linkVars>>

OldDeliver ==
    /\ \/ dcS = "connecting" /\ Alone!Deliver /\ UNCHANGED toS
       \/ dcS # "connecting" /\ Beside!Deliver /\ UNCHANGED oldToS
    /\ UNCHANGED <<historyVars, total, dcS, dcR, stream, wire, taken>>

\* A late confirmation calls sendBlock for the new entry, on the new channel,
\* whether that one is accepted and has its header or not.
OldFlowAdv ==
    /\ Alone!FromReceiver("flow")
    /\ FlowAdvanced(Head(oldToS).idx)
    /\ UNCHANGED <<historyVars, oldTotal, oldS, oldR, oldStream, oldWire, oldTaken,
                   total, consent, file, chS, accepted, headSent, sent, wakeups,
                   sRemovals, sHist, linkVars, receiverVars>>

\* A late acknowledgement is compared with the new entry's digest.
OldFileReceived ==
    /\ Alone!FromReceiver("ack")
    /\ FileConfirmed(Head(oldToS).idx)
    /\ UNCHANGED <<historyVars, oldTotal, oldS, oldR, oldStream, oldWire, oldTaken,
                   total, consent, file, chS, accepted, headSent, sent, sentIdx,
                   lastConfirmed, wakeups, reads, ackTimers, linkVars, receiverVars>>

\* The peer's end went: the old channel's onclose and onerror are by key too.
\* The browser ends both channels in one go, long before a 3 s timer: here the
\* newest first.
OldSenderCloses(error) ==
    /\ oldS \in {"connecting", "open"} /\ dcS = "lost"
    /\ oldS' = "lost"
    /\ IF error THEN SenderFailed ELSE UNCHANGED <<sHist, sRemovals>>
    /\ chS' = FALSE
    /\ UNCHANGED <<historyVars, oldTotal, oldR, oldStream, oldWire, oldTaken, oldToS,
                   total, consent, file, accepted, headSent, sent, lastConfirmed,
                   wakeups, sendVars, linkVars, receiverVars>>

OldReceiverCloses(error) ==
    /\ oldR = "open" /\ dcR = "lost"
    /\ oldR' = "lost"
    /\ chR' = FALSE
    /\ rRemovals' = IF error THEN rRemovals + 1 ELSE rRemovals
    /\ UNCHANGED <<historyVars, oldTotal, oldS, oldStream, oldWire, oldTaken, oldToS,
                   total, consent, senderVars, linkVars, incoming, rxVars, downloads>>

OldNext ==
    \/ OldTransmit \/ OldDeliver \/ OldFlowAdv \/ OldFileReceived
    \/ \E error \in BOOLEAN : OldSenderCloses(error) \/ OldReceiverCloses(error)

-------------------------------------------------------------------------------

AgainNext ==
    \/ InRound(HashDone) \/ DcOpensBoth
    \/ InRound(AcceptAllPending) \/ InRound(RejectAllPending)
    \/ InRound(HandleFileAccept) \/ InRound(HandleFileReject)
    \/ InRound(Wake) \/ InRound(FileRead) \/ HandleReplyIn \/ ReplyUnheard
    \/ InRound(AckTimeout) \/ InRound(RemoveOutgoing)
    \/ SenderIceFailsBoth \/ InRound(\E error \in BOOLEAN : SenderDcCloses(error))
    \/ InRound(Transmit) \/ InRound(Deliver) \/ InRound(RemoveIncoming)
    \/ ReceiverIceFailsBoth \/ InRound(\E error \in BOOLEAN : ReceiverDcCloses(error))
    \/ OldNext \/ StartAgain

AgainSpec == AgainInit /\ [][AgainNext]_againVars

\* What the browsers and the network owe: queued tasks, timers and FileReaders
\* run, messages move while the channel is open, and each end hears that the
\* other is gone.  Users answer and send again when they like, nothing has to
\* fail, and nothing is asked of the old channel.
AgainFairness ==
    /\ WF_againVars(InRound(HashDone)) /\ WF_againVars(DcOpensBoth)
    /\ WF_againVars(InRound(Wake)) /\ WF_againVars(InRound(FileRead))
    /\ WF_againVars(InRound(Transmit)) /\ WF_againVars(InRound(Deliver))
    /\ WF_againVars(HandleReplyIn) /\ WF_againVars(InRound(AckTimeout))
    /\ WF_againVars(InRound(RemoveOutgoing)) /\ WF_againVars(InRound(RemoveIncoming))
    /\ WF_againVars(InRound(\E error \in BOOLEAN : SenderDcCloses(error)))
    /\ WF_againVars(InRound(\E error \in BOOLEAN : ReceiverDcCloses(error)))
    /\ WF_againVars(dcS = "closed" /\ ReceiverIceFailsBoth)

FairAgainSpec == AgainSpec /\ AgainFairness

-------------------------------------------------------------------------------
(* Properties, besides those of FileChannel.                                   *)

\* Whatever calls sendBlock, the old channel's handlers included, every block of
\* the newest transfer is sent once, in order; its header may come late.
HeadAt(h) ==
    \A k \in 1..Len(stream) :
        stream[k] = IF k = h THEN V2Head ELSE Block(IF k < h THEN k - 1 ELSE k - 2)
OnceInOrder == \E h \in 1..(Len(stream) + 1) : HeadAt(h)

\* A transfer that began in silence has its header first, whatever entries,
\* counters and timers the last one left.
SilentInOrder == late \/ StreamInOrder

\* The same of its confirmation: "complete" only for what it saved.
SilentConfirmed == late \/ ConfirmedMeansSaved

\* With late messages of the last transfer too, "complete" is shown only if this
\* one or the last saved a file of as many blocks.
Saves(files, n) == \E i \in 1..Len(files) : Cardinality(files[i]) = n
ConfirmedIsSome ==
    "complete" \in sHist => Saves(downloads, total) \/ Saves(earlier, total)

\* After complete transfers whose 3 s timers are over the next one is saved
\* whole, although the sender's confirmations are those of the last.
CleanIsWhole == clean => PrefixHeld /\ WholeIsSaved

\* A file that was accepted and that a header can announce ends as complete or
\* failed while the channel stays, whatever happened to the transfers before it:
\* no window stays shut for ever.  A 3 s timer of an earlier transfer may take
\* the entry of a new one.  A late confirmation may send blocks before the
\* header: the receiver drops them and confirms nothing, and the window stays
\* shut.
Completes ==
    (accepted /\ file = "active" /\ total \in 1..MaxHeadBlocks)
        ~> (sHist \cap {"complete", "failed"} # {} \/ dcS # "open" \/ dcR # "open"
               \/ overlap \/ late)

\* When the sender's connection is closed the receiving page frees the blocks
\* it holds, those of an earlier transfer that failed included; but not if a
\* timer or the end of that took the consent by which cleanupAllForConnId finds
\* them.
PeerGoneReleases == (dcS = "closed") ~> (~rx \/ overlap \/ late)

-------------------------------------------------------------------------------
(* The inductive invariant behind the safety properties.                       *)

\* sendBlock and its reader, whoever calls.
ReadOrder ==
    /\ total \in Nat /\ sent \in 0..total /\ sentIdx \in -1..(total - 1)
    /\ OneReader
    /\ sentIdx <= sent
    /\ reads # <<>> => sentIdx = sent /\ sent < total

\* The stream is the blocks below f.sent, with the header somewhere among them.
HeadOrder ==
    /\ headSent \in BOOLEAN /\ stream \in Seq(Messages)
    /\ Len(stream) = IF headSent THEN sent + 1 ELSE sent
    /\ \E h \in 1..(Len(stream) + 1) : HeadAt(h) /\ (headSent <=> h <= Len(stream))

OrderInv == ReadOrder /\ HeadOrder

AgainTypes ==
    /\ rx \in BOOLEAN /\ announced \in Nat /\ received \in Nat /\ rRemovals \in Nat

\* The receiver may keep the entry of an earlier transfer: the new one's blocks
\* are added to a prefix that is already longer, and its count overshoots.
SavedInv ==
    /\ rx => \E n \in 0..received : blocks = 0..(n - 1) /\ Arrived <= n
    /\ ~rx => blocks = {} /\ received = 0
    /\ downloads # <<>> => ~rx /\ taken >= 2
    /\ \A k \in 1..Len(toS) : toS[k].type = "ack" => downloads = <<0..(toS[k].idx - 1)>>
    /\ ConfirmedMeansSaved

OldSilent == oldStream = <<>> /\ oldWire = 0 /\ oldTaken = 0 /\ oldToS = <<>>

\* A round that is not late is one transfer, beside a channel with nothing to carry.
SilentInv == SenderInv /\ AgainTypes /\ SavedInv /\ OldSilent

\* A clean one also starts without an entry of the receiver or a timer, and so
\* leaves no reader behind.
CleanInv == ~late /\ ReceiverInv /\ RemovalInv /\ AnswerInv

\* Every digest under way is of something that was saved.
AcksSaved(replies, files, before) ==
    \A k \in 1..Len(replies) :
        replies[k].type = "ack" =>
            Saves(files, replies[k].idx) \/ Saves(before, replies[k].idx)
AckInv ==
    /\ AcksSaved(toS, downloads, earlier) /\ AcksSaved(oldToS, downloads, earlier)
    /\ ConfirmedIsSome

AgainIInv ==
    /\ OrderInv /\ AckInv
    /\ ~late => SilentInv
    /\ clean => CleanInv

===============================================================================
