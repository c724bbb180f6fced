------------------------------- MODULE FileKeys -------------------------------
(* Several files over one connection: web/static/app.js keys every map of a    *)
(* page, and every timer, by fileConnId, "connId:name", and tells the channels *)
(* of a connection apart by that alone.  Two files have one key on a page when *)
(* each page sends the other a file of that name, and when two names agree up  *)
(* to a ":", where ondatachannel splits the label "file:name:size".  A name is *)
(* the sequence of its parts between the colons.                               *)
(*                                                                             *)
(* Unlike in FileChannel a block has contents: the file it was read from.  The *)
(* connection lasts, an offer is accepted or stays open (Consent has the other *)
(* answers), a block is always read, and the send buffer is never high.  Each  *)
(* file is sent once, and its last block is as long as the others.             *)
EXTENDS Naturals, Sequences, FiniteSets, Functions, FiniteSetsExt

Pages == {1, 2}
Other(p) == 3 - p

CONSTANTS
    Files,
    Cases,          \* what they may be: the page, name and length in blocks of each
    MaxInflight     \* MAX_INFLIGHT, 10 in the code

\* A page skips a file whose name has an entry (Consent).
ASSUME KeysAssumption ==
    /\ \A case \in Cases, f \in Files :
          /\ case[f].from \in Pages /\ case[f].name # <<>> /\ case[f].size \in Nat \ {0}
          /\ \A g \in Files \ {f} :
                case[f].from = case[g].from => case[f].name # case[g].name
    /\ MaxInflight \in Nat /\ MaxInflight >= 2

VARIABLES
    chosen,         \* the case, chosen once
    sender,         \* what its page keeps for a file it sends: see NewFile
    open,           \* the channels that opened, each named by its file
    wire,           \* the messages under way on each channel to each page
    dataChannels, receiveBuffers, dcLastConfirmed,  \* the maps of each page
    removals,       \* armed 3 s timers of completeXfer and xferFailed, per key
    saved           \* what downloadBlob was given on each page

receiverVars == <<receiveBuffers, saved>>
vars == <<chosen, sender, open, wire, dataChannels, receiverVars,
          dcLastConfirmed, removals>>

from[f \in Files] == chosen[f].from
name[f \in Files] == chosen[f].name
size[f \in Files] == chosen[f].size

\* parts[1] of the label split at the colons.
LabelKey(n) == <<Head(n)>>

\* The key that setupDC gives to the handlers of f's channel on a page.
Key(p, f) == IF from[f] = p THEN name[f] ELSE LabelKey(name[f])

Keys == {name[f] : f \in Files} \cup {LabelKey(name[f]) : f \in Files}

\* A Map is a function; these are its set() and delete().
Set(m, k, v) == [x \in DOMAIN m \cup {k} |-> IF x = k THEN v ELSE m[x]]
Delete(m, k) == Restrict(m, DOMAIN m \ {k})

V2Head(f) == [type |-> "head", file |-> f]
Block(f, i) == [type |-> "block", file |-> f, idx |-> i]
FlowAdv(i) == [type |-> "flow", idx |-> i]
FileReceived(n) == [type |-> "ack", digest |-> n]

\* md5() reads an ArrayBuffer by index, which yields no byte: the digest is one
\* of the length.
Digest(n) == n

\* phase: "new" until startTransfer takes the file, "hashing" until outgoingFiles
\* has its entry, then "active" and "removed".  task: a queued sendBlock.
\* reading: the channel that the block being read will be sent on.
NewFile == [phase |-> "new", accepted |-> FALSE, headSent |-> FALSE, sent |-> 0,
            task |-> FALSE, reading |-> {}, waitingAck |-> FALSE, hist |-> {}]

Init ==
    /\ chosen \in Cases
    /\ sender = [f \in Files |-> NewFile]
    /\ open = {} /\ wire = [c \in Files |-> [p \in Pages |-> <<>>]]
    /\ dataChannels = [p \in Pages |-> <<>>] /\ receiveBuffers = [p \in Pages |-> <<>>]
    /\ dcLastConfirmed = [p \in Pages |-> [k \in Keys |-> 0]]
    /\ removals = [p \in Pages |-> [k \in Keys |-> 0]]
    /\ saved = [p \in Pages |-> {}]

-------------------------------------------------------------------------------
(* The sending page of a file.                                                 *)

\* createDataChannel, and the map entries before the await of the digest.
StartTransfer(f) ==
    /\ sender[f].phase = "new"
    /\ sender' = [sender EXCEPT ![f].phase = "hashing"]
    /\ dataChannels' = [dataChannels EXCEPT ![from[f]] = Set(@, name[f], f)]
    /\ UNCHANGED <<chosen, open, wire, receiverVars, dcLastConfirmed, removals>>

HashDone(f) ==
    /\ sender[f].phase = "hashing"
    /\ sender' = [sender EXCEPT ![f].phase = "active"]
    /\ UNCHANGED <<chosen, open, wire, dataChannels, receiverVars,
                   dcLastConfirmed, removals>>

\* The channel that the page finds for the file: its own, or one that the other
\* page made for a file of this key.
Found(f) == {c \in open : name[f] \in DOMAIN dataChannels[from[f]]
                             /\ c = dataChannels[from[f]][name[f]]}

Sends(w, c, p, m) == [w EXCEPT ![c][Other(p)] = Append(@, m)]

\* sendV2Head, if the entry has not sent it, on an open channel.
SendV2Head(f, accepted, channels) ==
    IF accepted /\ sender[f].phase = "active" /\ ~sender[f].headSent /\ channels # {}
    THEN /\ sender' = [sender EXCEPT ![f].accepted = TRUE, ![f].headSent = TRUE,
                                     ![f].task = TRUE]
         /\ \E c \in channels : wire' = Sends(wire, c, from[f], V2Head(f))
    ELSE /\ sender' = [sender EXCEPT ![f].accepted = accepted]
         /\ UNCHANGED wire

\* (mutant) under the whole name, where the handlers do not look
ListedWhole(f) == [dataChannels EXCEPT ![Other(from[f])] = Set(@, name[f], f)]
\* ondatachannel on the other page lists the channel.
Listed(f) == [dataChannels EXCEPT ![Other(from[f])] = Set(@, LabelKey(name[f]), f)]

\* ondatachannel on the other page, and onopen here.
DcOpens(f) ==
    /\ sender[f].phase # "new" /\ f \notin open
    /\ open' = open \cup {f}
    /\ dataChannels' = Listed(f)
    /\ SendV2Head(f, sender[f].accepted,
                  Found(f) \cup {c \in {f} : name[f] \in DOMAIN dataChannels[from[f]]
                                              /\ c = dataChannels[from[f]][name[f]]})
    /\ UNCHANGED <<chosen, receiverVars, dcLastConfirmed, removals>>

\* file_accept.
HandleFileAccept(f) ==
    /\ sender[f].phase = "active" /\ ~sender[f].accepted
    /\ SendV2Head(f, TRUE, Found(f))
    /\ UNCHANGED <<chosen, open, dataChannels, receiverVars, dcLastConfirmed,
                   removals>>

\* (mutant) a block past the end
MayReadPastEnd(f, lc) ==
    sender[f].sent <= size[f] /\ sender[f].sent - lc < MaxInflight /\ sender[f].reading = {}
MayRead(f, lc) ==
    sender[f].sent < size[f] /\ sender[f].sent - lc < MaxInflight /\ sender[f].reading = {}

\* sendBlock: the sender's entry after it, with lc the confirmation it reads.
SendBlock(f, lc) ==
    LET s == sender[f]
        mayWait == s.sent >= size[f] /\ lc >= size[f] - 1
    IN  IF s.phase # "active" \/ Found(f) = {} THEN s
        ELSE IF MayRead(f, lc) THEN [s EXCEPT !.reading = Found(f)]
        ELSE [s EXCEPT !.waitingAck = @ \/ mayWait]

\* A queued sendBlock runs.
Wake(f) ==
    /\ sender[f].task
    /\ sender' = [sender EXCEPT ![f] =
                     [SendBlock(f, dcLastConfirmed[from[f]][name[f]]) EXCEPT !.task = FALSE]]
    /\ UNCHANGED <<chosen, open, wire, dataChannels, receiverVars,
                   dcLastConfirmed, removals>>

\* FileReader onload.
ReadDone(f) ==
    LET s == sender[f]
        goesOn == /\ s.sent + 1 < size[f]
                  /\ s.sent + 1 - dcLastConfirmed[from[f]][name[f]] < MaxInflight
    IN  /\ \E c \in s.reading : wire' = Sends(wire, c, from[f], Block(f, s.sent))
        /\ sender' = [sender EXCEPT ![f].reading = {}, ![f].sent = @ + 1,
                                    ![f].phase = "active", ![f].task = @ \/ goesOn]
        /\ UNCHANGED <<chosen, open, dataChannels, receiverVars, dcLastConfirmed,
                       removals>>

Removing(p, k) == removals' = [removals EXCEPT ![p][k] = @ + 1]

\* The 30 s timer of startAckTimer.
AckTimeout(f) ==
    /\ sender[f].phase = "active" /\ sender[f].waitingAck
    /\ sender' = [sender EXCEPT ![f].waitingAck = FALSE, ![f].hist = @ \cup {"failed"}]
    /\ Removing(from[f], name[f])
    /\ UNCHANGED <<chosen, open, wire, dataChannels, receiverVars, dcLastConfirmed>>

-------------------------------------------------------------------------------
(* A message on the channel of c reaches page p, which files it under a key.   *)

\* Before the digest of its own file is there a page has no handler on the
\* channel, and the message is lost.
Listens(p, c) == from[c] = p => sender[c].phase # "hashing"

Takes(p, c, type) ==
    /\ wire[c][p] # <<>> /\ Listens(p, c) /\ Head(wire[c][p]).type = type

Rest(p, c) == [wire EXCEPT ![c][p] = Tail(@)]

Unheard(p, c) ==
    /\ wire[c][p] # <<>> /\ ~Listens(p, c)
    /\ wire' = Rest(p, c)
    /\ UNCHANGED <<chosen, sender, open, dataChannels, receiverVars,
                   dcLastConfirmed, removals>>

\* A header that finds an entry is ignored.
RecvV2Head(p, c) ==
    /\ Takes(p, c, "head")
    /\ wire' = Rest(p, c)
    /\ receiveBuffers' =
          [receiveBuffers EXCEPT ![p] =
              IF Key(p, c) \in DOMAIN @ THEN @
              ELSE Set(@, Key(p, c),
                       [as |-> Head(wire[c][p]).file, blocks |-> <<>>, received |-> 0])]
    /\ UNCHANGED <<chosen, sender, open, dataChannels, saved, dcLastConfirmed, removals>>

\* To the channel that the page now has under the key.
Reply(p, k, c, m) ==
    IF k \in DOMAIN dataChannels[p] /\ dataChannels[p][k] \in open
    THEN wire' = Sends(Rest(p, c), dataChannels[p][k], p, m)
    ELSE wire' = Rest(p, c)

\* (mutant) one block early
IsWholeEarly(r) == r.received >= size[r.as] - 1
IsWhole(r) == Cardinality(DOMAIN r.blocks) = size[r.as] /\ r.received = size[r.as]

\* The file put together from the blocks.
Assembled(r) == Restrict(r.blocks, DOMAIN r.blocks \cap 0..(size[r.as] - 1))

\* The entry of key k with the block m.
Stored(p, k, m) ==
    [receiveBuffers[p][k] EXCEPT !.blocks = Set(@, m.idx, m.file), !.received = @ + 1]

RecvBlock(p, c) ==
    /\ Takes(p, c, "block")
    /\ LET k == Key(p, c)
           r == Stored(p, k, Head(wire[c][p]))
       IN  \/ /\ k \notin DOMAIN receiveBuffers[p]
              /\ wire' = Rest(p, c)
              /\ UNCHANGED <<receiverVars, removals>>
           \/ /\ k \in DOMAIN receiveBuffers[p] /\ ~IsWhole(r)
              /\ receiveBuffers' = [receiveBuffers EXCEPT ![p] = Set(@, k, r)]
              /\ Reply(p, k, c, FlowAdv(Max(DOMAIN r.blocks)))
              /\ UNCHANGED <<saved, removals>>
           \/ /\ k \in DOMAIN receiveBuffers[p] /\ IsWhole(r)
              /\ receiveBuffers' = [receiveBuffers EXCEPT ![p] = Delete(@, k)]
              /\ Reply(p, k, c, FileReceived(Digest(size[r.as])))
              /\ saved' = [saved EXCEPT ![p] = @ \cup {<<r.as, Assembled(r)>>}]
              /\ Removing(p, k)
    /\ UNCHANGED <<chosen, sender, open, dataChannels, dcLastConfirmed>>

\* outgoingFiles.get: the file that the page sends under the key.
Outgoing(p, k) == {f \in Files : from[f] = p /\ name[f] = k /\ sender[f].phase = "active"}

HandleFlowAdv(p, c) ==
    /\ Takes(p, c, "flow")
    /\ wire' = Rest(p, c)
    /\ LET k == Key(p, c)
           lc == Max({dcLastConfirmed[p][k], Head(wire[c][p]).idx})
       IN  /\ dcLastConfirmed' = [dcLastConfirmed EXCEPT ![p][k] = lc]
           /\ sender' = [f \in Files |-> IF f \in Outgoing(p, k) THEN SendBlock(f, lc)
                                                                 ELSE sender[f]]
    /\ UNCHANGED <<chosen, open, dataChannels, receiverVars, removals>>

\* recvHash === f.fileHash
Agrees(f, digest) == digest = Digest(size[f])

HandleFileReceived(p, c) ==
    /\ Takes(p, c, "ack")
    /\ wire' = Rest(p, c)
    /\ LET k == Key(p, c)
           digest == Head(wire[c][p]).digest
       IN  \/ Outgoing(p, k) = {} /\ UNCHANGED <<sender, removals>>
           \/ \E f \in Outgoing(p, k) :
                 /\ sender' = [sender EXCEPT ![f].waitingAck = FALSE,
                                  ![f].hist = @ \cup {IF Agrees(f, digest) THEN "complete"
                                                                           ELSE "failed"}]
                 /\ Removing(p, k)
    /\ UNCHANGED <<chosen, open, dataChannels, receiverVars, dcLastConfirmed>>

\* removeTransferUI, 3 s after completeXfer or xferFailed: every map of the page,
\* whatever file and direction the key stands for by now.
RemoveTransferUI(p, k) ==
    /\ removals[p][k] > 0
    /\ removals' = [removals EXCEPT ![p][k] = @ - 1]
    /\ dataChannels' = [dataChannels EXCEPT ![p] = Delete(@, k)]
    /\ receiveBuffers' = [receiveBuffers EXCEPT ![p] = Delete(@, k)]
    /\ sender' = [f \in Files |->
                    IF from[f] # p \/ name[f] # k THEN sender[f]
                    ELSE IF sender[f].phase = "active"
                         THEN [sender[f] EXCEPT !.accepted = FALSE, !.phase = "removed"]
                         ELSE [sender[f] EXCEPT !.accepted = FALSE]]
    /\ UNCHANGED <<chosen, open, wire, saved, dcLastConfirmed>>

-------------------------------------------------------------------------------

Deliver(p, c) ==
    \/ Unheard(p, c) \/ RecvV2Head(p, c) \/ RecvBlock(p, c)
    \/ HandleFlowAdv(p, c) \/ HandleFileReceived(p, c)

FileStep(f) ==
    \/ StartTransfer(f) \/ HashDone(f) \/ DcOpens(f) \/ HandleFileAccept(f)
    \/ Wake(f) \/ ReadDone(f) \/ AckTimeout(f) \/ \E p \in Pages : Deliver(p, f)

Next ==
    \/ \E f \in Files : FileStep(f)
    \/ \E p \in Pages, k \in Keys : RemoveTransferUI(p, k)

Spec == Init /\ [][Next]_vars

\* Digests end, channels open, tasks, FileReaders and timers run, messages
\* arrive.  Users send and accept when they like.
Fairness ==
    /\ \A f \in Files :
          /\ WF_vars(HashDone(f)) /\ WF_vars(DcOpens(f)) /\ WF_vars(Wake(f))
          /\ WF_vars(ReadDone(f)) /\ WF_vars(AckTimeout(f))
          /\ \A p \in Pages : WF_vars(Deliver(p, f))

FairSpec == Spec /\ Fairness

-------------------------------------------------------------------------------
(* Properties.                                                                 *)

Messages ==
    [type : {"head"}, file : Files] \cup [type : {"block"}, file : Files, idx : Nat]
        \cup [type : {"flow"}, idx : Nat] \cup [type : {"ack"}, digest : Nat]

Senders == [phase : {"new", "hashing", "active", "removed"}, accepted : BOOLEAN,
            headSent : BOOLEAN, sent : Nat, task : BOOLEAN, reading : SUBSET Files,
            waitingAck : BOOLEAN, hist : SUBSET {"complete", "failed"}]

\* A file is read once at a time and not past its end.
SendersOK ==
    /\ sender \in [Files -> Senders]
    /\ \A f \in Files : sender[f].sent <= size[f] /\ \A c, d \in sender[f].reading : c = d

\* A page has a channel under the key that its handlers use for it.
ChannelsOK ==
    /\ DOMAIN dataChannels = Pages
    /\ \A p \in Pages :
          /\ DOMAIN dataChannels[p] \subseteq Keys
          /\ \A k \in DOMAIN dataChannels[p] :
                dataChannels[p][k] \in Files /\ Key(p, dataChannels[p][k]) = k

\* A page receives what the other sends.
BuffersOK ==
    /\ DOMAIN receiveBuffers = Pages
    /\ \A p \in Pages :
          /\ DOMAIN receiveBuffers[p] \subseteq Keys
          /\ \A k \in DOMAIN receiveBuffers[p] :
                LET r == receiveBuffers[p][k]
                IN  /\ r \in [as : Files, blocks : [DOMAIN r.blocks -> Files], received : Nat]
                    /\ DOMAIN r.blocks \subseteq Nat /\ from[r.as] = Other(p)

SavedOK ==
    DOMAIN saved = Pages /\ \A p \in Pages : \A s \in saved[p] : s[1] \in Files

\* Every variable has its type.
TypeOK ==
    /\ chosen \in Cases /\ open \subseteq Files
    /\ SendersOK /\ ChannelsOK /\ BuffersOK /\ SavedOK
    /\ wire \in [Files -> [Pages -> Seq(Messages)]]
    /\ dcLastConfirmed \in [Pages -> [Keys -> Nat]]
    /\ removals \in [Pages -> [Keys -> Nat]]

Whole(f) == <<f, [i \in 0..(size[f] - 1) |-> f]>>
Saved(f) == Whole(f) \in saved[Other(from[f])]

\* Two files of one page whose labels agree up to the colon.
Confused(f, g) == f # g /\ from[f] = from[g] /\ LabelKey(name[f]) = LabelKey(name[g])

Shared(f, g) == f # g /\ \E p \in Pages : Key(p, f) = Key(p, g)

\* What is saved under a name is the file of that name, whole, although each
\* page may send a file of that name to the other and both then send on the
\* channel that was opened last.
SavedIsItself ==
    \A p \in Pages : \A s \in saved[p] :
       s = Whole(s[1]) \/ \E g \in Files : Confused(s[1], g)

\* "Complete" on the sending page means that the other page saved that very
\* file, on whichever channels it went and was acknowledged.
CompleteIsSaved ==
    \A f \in Files :
       "complete" \in sender[f].hist => Saved(f) \/ \E g \in Files : Confused(f, g)

\* The same with no proviso: the acknowledgement after the digest is what makes
\* a transfer complete (README 4.4).
AcknowledgedIsSaved ==
    \A f \in Files : "complete" \in sender[f].hist => Saved(f)

\* An accepted file ends as complete, whatever other channels of the connection
\* do (README 6.2), unless one of their files has its key.
Isolated ==
    \A f \in Files :
       (sender[f].accepted /\ sender[f].phase = "active")
          ~> ("complete" \in sender[f].hist \/ \E g \in Files : Shared(f, g))

===============================================================================
