------------------------------- MODULE PeerConn -------------------------------
(* How two pages get to one RTCPeerConnection: web/static/app.js, functions    *)
(* getConnIdForTarget, reverseConnId, createPC, startTransfer (its connection  *)
(* and its SDP offer), handleOffer, handleAnswer, handleIce and                *)
(* cleanupAllForConnId.  The handlers are cut at their awaits.  A description  *)
(* and a candidate have no content; the offers of files are Consent's matter.  *)
(* The server relays what a page sends in order (DeviceHub) and both pages     *)
(* keep their WebSocket: a page that reconnects has another id, and so is      *)
(* another device.  No two connections are started in the same millisecond,    *)
(* so that Date.now() tells them apart.                                        *)
EXTENDS Naturals, Sequences, FiniteSets

CONSTANTS
    Pages,          \* by their deviceId
    MaxSends,       \* bound on the clicks on "send"
    MaxFiles,       \* bound on the files of one click
    MaxConns,       \* bound on the connections ever started
    MaxCandidates   \* bound on the candidates ever gathered

ASSUME PeerAssumption ==
    /\ MaxSends \in Nat /\ MaxFiles \in Nat \ {0}
    /\ MaxConns \in Nat /\ MaxCandidates \in Nat

VARIABLES
    started,            \* connections started, which numbers them as the clock does
    sends, candidates,  \* clicks and candidates so far
    peerConnections,    \* per page, the Map: its entries in order of insertion
    pc,                 \* per page, its end of each connection
    calls,              \* per page, the startTransfer calls that await
    pendingCandidates,  \* per page and connection, the candidates queued
    net                 \* messages on their way to each page

vars == <<started, sends, candidates, peerConnections, pc, calls, pendingCandidates, net>>

\* Connection ids, "from-to-time".
ConnIds == {c \in Pages \X Pages \X (1..MaxConns) : c[1] # c[2]}
Candidates == 1..MaxCandidates

reverseConnId(c) == <<c[2], c[1], c[3]>>

\* The end of a connection that no createPC has made, and that of a fresh one.
\* sig is the signalling state ("new": no description yet); job is the await of
\* handleOffer or handleAnswer, draining what they still have to add.
NoPC == [sig |-> "none", job |-> "none", draining |-> {}, added |-> {}, gathered |-> {}]
NewPC == [NoPC EXCEPT !.sig = "new"]

Msg(type, c) == [type |-> type, conn |-> c]
Ice(c, k) == [type |-> "ice", conn |-> c, cand |-> k]

Init ==
    /\ started = 0 /\ sends = 0 /\ candidates = 0
    /\ peerConnections = [p \in Pages |-> <<>>]
    /\ pc = [p \in Pages |-> [c \in ConnIds |-> NoPC]]
    /\ calls = [p \in Pages |-> <<>>]
    /\ pendingCandidates = [p \in Pages |-> [c \in ConnIds |-> {}]]
    /\ net = [p \in Pages |-> <<>>]

-------------------------------------------------------------------------------
(* The Map.                                                                    *)

Has(table, key) == \E i \in 1..Len(table) : table[i].key = key
Place(table, key) == CHOOSE i \in 1..Len(table) : table[i].key = key

\* Map.get: the connection whose end is stored under the key.
Get(table, key) == table[Place(table, key)].pc

\* (mutant) a list of pairs
SetAppends(table, key, c) == Append(table, [key |-> key, pc |-> c])
\* Map.set: a key that is there keeps its place.
Set(table, key, c) ==
    IF Has(table, key)
    THEN [i \in 1..Len(table) |-> IF table[i].key = key THEN [key |-> key, pc |-> c]
                                                       ELSE table[i]]
    ELSE Append(table, [key |-> key, pc |-> c])

\* A sequence without its i-th element.
Others(s, i) == SubSeq(s, 1, i - 1) \o SubSeq(s, i + 1, Len(s))

Delete(table, key) == IF Has(table, key) THEN Others(table, Place(table, key)) ELSE table

\* The places of the entries under ids that start with from-to-.
Prefixed(table, from, to) ==
    {i \in 1..Len(table) : table[i].key[1] = from /\ table[i].key[2] = to}

\* (mutant) only the ids that this page made
FoundOwn(p, q) == Prefixed(peerConnections[p], p, q)
\* getConnIdForTarget looks under its own ids, and under the other's if none fits.
Found(p, q) ==
    IF Prefixed(peerConnections[p], p, q) # {} THEN Prefixed(peerConnections[p], p, q)
    ELSE Prefixed(peerConnections[p], q, p)

First(S, i) == i \in S /\ \A j \in S : i <= j

-------------------------------------------------------------------------------
(* Sending: startTransfer.                                                     *)

\* A call that awaits the digest of a file, with this many after it, or the
\* local description of the connection that it started.
Call(c, new, at, more) == [conn |-> c, new |-> new, at |-> at, more |-> more]

IsClosed(p, c) == pc[p][c].sig = "closed"

\* A click on "send": a new connection, or the one found.  createDataChannel
\* throws on a closed one, and the call ends there.
StartTransfer(p, q, files) ==
    /\ p # q /\ sends < MaxSends
    /\ sends' = sends + 1
    /\ \/ /\ Found(p, q) = {} /\ started < MaxConns
          /\ started' = started + 1
          /\ LET c == <<p, q, started'>>
             IN  /\ pc' = [pc EXCEPT ![p][c] = NewPC]
                 /\ peerConnections' = [peerConnections EXCEPT ![p] = Set(@, c, c)]
                 /\ calls' = [calls EXCEPT ![p] = Append(@, Call(c, TRUE, "hash", files - 1))]
       \/ /\ \E i \in 1..Len(peerConnections[p]) :
                /\ First(Found(p, q), i)
                /\ LET c == peerConnections[p][i].pc
                   IN  calls' = IF IsClosed(p, c) THEN calls
                                ELSE [calls EXCEPT ![p] = Append(@, Call(c, FALSE, "hash", files - 1))]
          /\ UNCHANGED <<started, pc, peerConnections>>
    /\ UNCHANGED <<candidates, pendingCandidates, net>>

\* The await of computeFileHash ends in the i-th call: the next file gets its
\* channel, or a new connection its description, or the call is over.
HashDone(p, i) ==
    /\ i \in 1..Len(calls[p]) /\ calls[p][i].at = "hash"
    /\ LET j == calls[p][i]
       IN  calls' = [calls EXCEPT ![p] =
              IF j.more > 0 /\ ~IsClosed(p, j.conn) THEN [@ EXCEPT ![i].more = j.more - 1]
              ELSE IF j.more = 0 /\ j.new THEN [@ EXCEPT ![i].at = "offer"]
              ELSE Others(@, i)]
    /\ UNCHANGED <<started, sends, candidates, peerConnections, pc, pendingCandidates, net>>

\* It rejects, the file being unreadable or too large: the call is over, and the
\* connection that it made stays in the Map.
HashFails(p, i) ==
    /\ i \in 1..Len(calls[p]) /\ calls[p][i].at = "hash"
    /\ calls' = [calls EXCEPT ![p] = Others(@, i)]
    /\ UNCHANGED <<started, sends, candidates, peerConnections, pc, pendingCandidates, net>>

\* createOffer and setLocalDescription are over: the SDP offer goes out.
OfferMade(p, i) ==
    /\ i \in 1..Len(calls[p]) /\ calls[p][i].at = "offer"
    /\ LET c == calls[p][i].conn
       IN  /\ pc' = [pc EXCEPT ![p][c].sig = "local"]
           /\ net' = [net EXCEPT ![c[2]] = Append(@, Msg("offer", c))]
    /\ calls' = [calls EXCEPT ![p] = Others(@, i)]
    /\ UNCHANGED <<started, sends, candidates, peerConnections, pendingCandidates>>

-------------------------------------------------------------------------------
(* The handshake.                                                              *)

Peer(p, c) == IF c[1] = p THEN c[2] ELSE c[1]

\* A local description is set or being set.
Gathers(p, c) ==
    \/ pc[p][c].sig \in {"local", "stable"} \/ pc[p][c].job = "answer"
    \/ \E i \in 1..Len(calls[p]) : calls[p][i].conn = c /\ calls[p][i].at = "offer"

\* onicecandidate: the next candidate goes to the other page, perhaps before the
\* description does.
OnIceCandidate(p, c) ==
    /\ Gathers(p, c) /\ candidates < MaxCandidates
    /\ candidates' = candidates + 1
    /\ pc' = [pc EXCEPT ![p][c].gathered = @ \cup {candidates'}]
    /\ net' = [net EXCEPT ![Peer(p, c)] = Append(@, Ice(c, candidates'))]
    /\ UNCHANGED <<started, sends, peerConnections, calls, pendingCandidates>>

Receives(p, type) ==
    /\ net[p] # <<>> /\ Head(net[p]).type = type
    /\ net' = [net EXCEPT ![p] = Tail(@)]

\* handleOffer up to its first await.
HandleOffer(p) ==
    /\ Receives(p, "offer")
    /\ LET c == Head(net[p]).conn
           fresh == ~Has(peerConnections[p], c)
           d == IF fresh THEN c ELSE Get(peerConnections[p], c)
       IN  /\ peerConnections' = [peerConnections EXCEPT ![p] = Set(@, c, d)]
           /\ pc' = [pc EXCEPT ![p][d] = [IF fresh THEN NewPC ELSE @ EXCEPT !.job = "remote"]]
    /\ UNCHANGED <<started, sends, candidates, calls, pendingCandidates>>

\* (mutant) the answer's id taken for the other page's
AnswerKeyReversed(table, c) == reverseConnId(c)
\* The id under which handleAnswer finds the connection.
AnswerKey(table, c) == IF Has(table, c) THEN c ELSE reverseConnId(c)

\* handleAnswer up to its first await: the connection is stored under both ids.
HandleAnswer(p) ==
    /\ Receives(p, "answer")
    /\ LET c == Head(net[p]).conn
           key == AnswerKey(peerConnections[p], c)
       IN  IF ~Has(peerConnections[p], key) THEN UNCHANGED <<peerConnections, pc>>
           ELSE LET d == Get(peerConnections[p], key)
                IN  /\ peerConnections' = [peerConnections EXCEPT ![p] =
                                              Set(Set(@, c, d), reverseConnId(c), d)]
                    /\ pc' = [pc EXCEPT ![p][d].job = "remote"]
    /\ UNCHANGED <<started, sends, candidates, calls, pendingCandidates>>

\* setRemoteDescription is over.  The queued candidates are taken out, to be
\* added one by one; handleAnswer looks under the reversed id too, where nothing
\* is ever queued.
RemoteSet(p, c) ==
    /\ pc[p][c].job = "remote"
    /\ pc' = [pc EXCEPT ![p][c] = [@ EXCEPT !.sig = IF c[1] = p THEN "stable" ELSE "remote",
                                            !.job = "drain",
                                            !.draining = pendingCandidates[p][c]]]
    /\ pendingCandidates' = [pendingCandidates EXCEPT ![p][c] = {}]
    /\ UNCHANGED <<started, sends, candidates, peerConnections, calls, net>>

\* The handler adds the next queued candidate and awaits, or is done with them.
Drain(p, c) ==
    /\ pc[p][c].job = "drain"
    /\ \/ \E k \in pc[p][c].draining :
             pc' = [pc EXCEPT ![p][c].draining = @ \ {k}, ![p][c].added = @ \cup {k}]
       \/ /\ pc[p][c].draining = {}
          /\ pc' = [pc EXCEPT ![p][c].job = IF c[1] = p THEN "none" ELSE "answer"]
    /\ UNCHANGED <<started, sends, candidates, peerConnections, calls, pendingCandidates, net>>

\* createAnswer and setLocalDescription are over: the answer goes out.
AnswerMade(p, c) ==
    /\ pc[p][c].job = "answer"
    /\ pc' = [pc EXCEPT ![p][c] = [@ EXCEPT !.sig = "stable", !.job = "none"]]
    /\ net' = [net EXCEPT ![Peer(p, c)] = Append(@, Msg("answer", c))]
    /\ UNCHANGED <<started, sends, candidates, peerConnections, calls, pendingCandidates>>

HasRemote(p, c) == pc[p][c].sig \in {"remote", "stable"}

\* (mutants) added without a look at remoteDescription; only after the handshake
CanAddAlways(p, c) == Has(peerConnections[p], c)
CanAddStable(p, c) ==
    Has(peerConnections[p], c) /\ pc[p][Get(peerConnections[p], c)].sig = "stable"
\* A candidate can be added once the remote description is there.
CanAdd(p, c) == Has(peerConnections[p], c) /\ HasRemote(p, Get(peerConnections[p], c))

\* handleIce.  addIceCandidate without a remote description rejects, and the
\* candidate is gone.
HandleIce(p) ==
    /\ Receives(p, "ice")
    /\ LET c == Head(net[p]).conn
           k == Head(net[p]).cand
       IN  IF CanAdd(p, c)
           THEN LET d == Get(peerConnections[p], c)
                IN  /\ pc' = IF HasRemote(p, d)
                             THEN [pc EXCEPT ![p][d].added = @ \cup {k}] ELSE pc
                    /\ UNCHANGED pendingCandidates
           ELSE /\ pendingCandidates' = [pendingCandidates EXCEPT ![p][c] = @ \cup {k}]
                /\ UNCHANGED pc
    /\ UNCHANGED <<started, sends, candidates, peerConnections, calls>>

\* (mutant) closed and left in the Map
CleanupKeeps(table, c) == table
\* cleanupAllForConnId deletes the id that createPC was given.
Cleanup(table, c) == Delete(table, c)

\* iceConnectionState is "failed" or "disconnected": the end is closed.  A
\* handler that awaits on it gets a rejection and is over.
IceFails(p, c) ==
    /\ pc[p][c].sig = "stable"
    /\ pc' = [pc EXCEPT ![p][c] = [@ EXCEPT !.sig = "closed", !.job = "none", !.draining = {}]]
    /\ peerConnections' = [peerConnections EXCEPT ![p] = Cleanup(@, c)]
    /\ UNCHANGED <<started, sends, candidates, calls, pendingCandidates, net>>

-------------------------------------------------------------------------------

CallStep(p, i) == HashDone(p, i) \/ HashFails(p, i) \/ OfferMade(p, i)
Receive(p) == HandleOffer(p) \/ HandleAnswer(p) \/ HandleIce(p)
Await(p, c) == RemoteSet(p, c) \/ Drain(p, c) \/ AnswerMade(p, c)

Next ==
    \E p \in Pages :
       \/ \E q \in Pages, files \in 1..MaxFiles : StartTransfer(p, q, files)
       \/ \E i \in 1..Len(calls[p]) : CallStep(p, i)
       \/ Receive(p)
       \/ \E c \in ConnIds : Await(p, c) \/ OnIceCandidate(p, c) \/ IceFails(p, c)

Spec == Init /\ [][Next]_vars

\* What a page has to do: awaits that end, messages to handle, and an end whose
\* peer closed.  It is finite, and so a page that goes on working gets to all of
\* it.  Nobody has to click, and no connection has to fail by itself.
EventLoop(p) ==
    \/ \E i \in 1..Len(calls[p]) : CallStep(p, i)
    \/ Receive(p)
    \/ \E c \in ConnIds : Await(p, c)
    \/ \E c \in ConnIds : IsClosed(Peer(p, c), c) /\ IceFails(p, c)

Fairness == \A p \in Pages : WF_vars(EventLoop(p))

FairSpec == Spec /\ Fairness

-------------------------------------------------------------------------------
(* Properties.                                                                 *)

Ends == [sig : {"none", "new", "local", "remote", "stable", "closed"},
         job : {"none", "remote", "drain", "answer"},
         draining : SUBSET Candidates, added : SUBSET Candidates,
         gathered : SUBSET Candidates]

Range(s) == {s[i] : i \in 1..Len(s)}

Entries == [key : ConnIds, pc : ConnIds]
Calls == [conn : ConnIds, new : BOOLEAN, at : {"hash", "offer"}, more : 0..(MaxFiles - 1)]
Messages == [type : {"offer", "answer"}, conn : ConnIds]
               \cup [type : {"ice"}, conn : ConnIds, cand : Candidates]

\* Every variable has its type, and the Map has each key once.
TypeOK ==
    /\ started \in 0..MaxConns /\ sends \in 0..MaxSends /\ candidates \in 0..MaxCandidates
    /\ pc \in [Pages -> [ConnIds -> Ends]]
    /\ pendingCandidates \in [Pages -> [ConnIds -> SUBSET Candidates]]
    /\ peerConnections \in [Pages -> Seq(Entries)]
    /\ calls \in [Pages -> Seq(Calls)]
    /\ net \in [Pages -> Seq(Messages)]
    /\ \A p \in Pages : \A i, j \in 1..Len(peerConnections[p]) :
          peerConnections[p][i].key = peerConnections[p][j].key => i = j

Live(p, c) == pc[p][c].sig \notin {"none", "closed"}

\* A candidate comes before the description, while it is being set, while the
\* queue is drained, or after: until the end closes it is on its way, in the
\* queue, or added.
NoCandidateLost ==
    \A p \in Pages, c \in ConnIds :
       p \in {c[1], c[2]} /\ ~IsClosed(p, c)
          => pc[Peer(p, c)][c].gathered \subseteq
                {m.cand : m \in {n \in Range(net[p]) : n.type = "ice" /\ n.conn = c}}
                   \cup pendingCandidates[p][c] \cup pc[p][c].draining \cup pc[p][c].added

Busy(c) ==
    \E p \in {c[1], c[2]} :
       \/ pc[p][c].job # "none"
       \/ \E m \in Range(net[p]) : m.conn = c /\ m.type # "ice"
       \/ \E j \in Range(calls[p]) : j.conn = c /\ j.new

\* With no handler and no description of a connection under way both ends have
\* negotiated it, or an end is closed, or the digest failed before the offer:
\* never is one end left with half a handshake, though the two pages may call
\* each other at the same time.
Agreement ==
    \A c \in ConnIds :
       Busy(c) \/ <<pc[c[1]][c].sig, pc[c[2]][c].sig>> \in
          {<<"none", "none">>, <<"new", "none">>, <<"stable", "stable">>}
             \cup ({"closed"} \X {"stable", "closed"}) \cup {<<"stable", "closed">>}

\* A page never starts a connection to a device while it has a live one, of
\* either's making (app.js:55).
OneConnection ==
    [][\A p, q \in Pages :
          (\E c \in ConnIds : c[1] = p /\ c[2] = q /\ pc[p][c].sig = "none" /\ pc'[p][c].sig = "new")
             => ~\E c \in ConnIds : {c[1], c[2]} = {p, q} /\ Live(p, c)]_vars

\* A closed connection stays in the Map under one kind of id only: the reverse
\* of an id that the page itself made.  A page that was only called can always
\* call back.
ClosedOnlyReversed ==
    \A p \in Pages : \A e \in Range(peerConnections[p]) :
       IsClosed(p, e.pc) => e.pc[1] = p /\ e.key = reverseConnId(e.pc)

\* A page with a live connection to a device sends over a live one ("one connId
\* per device, the connection is reused", app.js:55).
ReusesLive ==
    \A p, q \in Pages :
       (\E c \in ConnIds : {c[1], c[2]} = {p, q} /\ Live(p, c))
          => /\ Found(p, q) # {}
             /\ \A i \in Found(p, q) :
                   First(Found(p, q), i) => ~IsClosed(p, peerConnections[p][i].pc)

Abandoned(c) ==
    pc[c[1]][c].sig = "new" /\ ~\E j \in Range(calls[c[1]]) : j.conn = c /\ j.new

Ended(c) == IsClosed(c[1], c) \/ IsClosed(c[2], c)

Negotiating(c) ==
    /\ pc[c[1]][c].sig # "none" /\ ~Abandoned(c) /\ ~Ended(c)
    /\ pc[c[1]][c].sig # "stable" \/ pc[c[2]][c].sig # "stable"

\* Every connection that is started gets negotiated, unless an end closes or the
\* digest fails before the SDP offer.  (Connections are finitely many.)
Connects == (\E c \in ConnIds : Negotiating(c)) ~> \A c \in ConnIds : ~Negotiating(c)

Owed(c) ==
    /\ ~Ended(c)
    /\ \E p \in {c[1], c[2]} : pc[Peer(p, c)][c].added # pc[p][c].gathered

\* Every candidate is added at the other end, unless an end closes.
CandidatesArrive == (\E c \in ConnIds : Owed(c)) ~> \A c \in ConnIds : ~Owed(c)

===============================================================================
