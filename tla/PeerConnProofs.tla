---------------------------- MODULE PeerConnProofs ----------------------------
(* Proofs about PeerConn: both ends agree on a connection, no candidate is     *)
(* lost, and a page has one live connection to a device.                       *)
EXTENDS PeerConn, SequenceLemmas

USE PeerAssumption

-------------------------------------------------------------------------------
(* The inductive invariant.                                                    *)

\* The new call of a connection at the page that starts it, its offer and its
\* answer on their way.
NewCalls(c) == {j \in Calls : j.conn = c /\ j.new}
Making(c) == Hits(calls[c[1]], NewCalls(c))
Offered(c) == Hits(net[c[2]], {Msg("offer", c)})
Answered(c) == Hits(net[c[1]], {Msg("answer", c)})

\* How far the two ends of a connection are: a of the page that starts it, b of
\* the other, and where its call, its offer and its answer are on their way.
NotStarted(a, b, m, o, w) ==
    a.sig = "none" /\ b.sig = "none" /\ m = {} /\ o = {} /\ w = {}
Starting(a, b, m, o, w) ==
    a.sig = "new" /\ a.job = "none" /\ b.sig = "none" /\ One(m) /\ o = {} /\ w = {}
OfferSent(a, b, m, o, w) ==
    /\ a.sig = "local" /\ a.job = "none" /\ b.sig = "none"
    /\ m = {} /\ o # {} /\ One(o) /\ w = {}
Answering(a, b, m, o, w) ==
    /\ a.sig = "local" /\ a.job = "none"
    /\ \/ b.sig = "new" /\ b.job = "remote"
       \/ b.sig = "remote" /\ b.job \in {"drain", "answer"}
    /\ m = {} /\ o = {} /\ w = {}
Over(b) == b.sig \in {"stable", "closed"} /\ b.job = "none"
AnswerSent(a, b, m, o, w) ==
    a.sig = "local" /\ a.job = "none" /\ Over(b) /\ m = {} /\ o = {} /\ w # {} /\ One(w)
AnswerTaken(a, b, m, o, w) ==
    a.sig = "local" /\ a.job = "remote" /\ Over(b) /\ m = {} /\ o = {} /\ w = {}
Settled(a, b, m, o, w) ==
    /\ Over(a) \/ (a.sig = "stable" /\ a.job = "drain")
    /\ Over(b) /\ m = {} /\ o = {} /\ w = {}

Phase(a, b, m, o, w) ==
    \/ NotStarted(a, b, m, o, w) \/ Starting(a, b, m, o, w) \/ OfferSent(a, b, m, o, w)
    \/ Answering(a, b, m, o, w) \/ AnswerSent(a, b, m, o, w) \/ AnswerTaken(a, b, m, o, w)
    \/ Settled(a, b, m, o, w)

\* The handshake of a connection goes through these phases.
PhaseInv ==
    \A c \in ConnIds : Phase(pc[c[1]][c], pc[c[2]][c], Making(c), Offered(c), Answered(c))

\* An end is made by one of the two pages and never again; what it drains it
\* drains in a handler.
EndInv ==
    \A p \in Pages, c \in ConnIds :
       /\ pc[p][c].sig = "none" => pc[p][c] = NoPC
       /\ pc[p][c].sig # "none" => p \in {c[1], c[2]} /\ c[3] <= started
       /\ pc[p][c].job # "drain" => pc[p][c].draining = {}

\* The clock tells connections apart.
NumberInv ==
    \A p, q \in Pages, c, d \in ConnIds :
       pc[p][c].sig # "none" /\ pc[q][d].sig # "none" /\ c[3] = d[3] => c = d

\* What an entry of the Map may be: an end under its own id, which is not
\* closed, or one that this page made under the reverse of its id.
Entry(p, e) ==
    \/ e.key = e.pc /\ Live(p, e.pc)
    \/ e.key = reverseConnId(e.pc) /\ e.pc[1] = p /\ pc[p][e.pc].sig # "none"

MapInv ==
    \A p \in Pages :
       /\ \A e \in Range(peerConnections[p]) : Entry(p, e)
       /\ \A c \in ConnIds :
             Live(p, c) => [key |-> c, pc |-> c] \in Range(peerConnections[p])

\* A call has an end of its connection, which it made if it is to make the offer.
CallInv ==
    \A p \in Pages : \A j \in Range(calls[p]) :
       /\ pc[p][j.conn].sig # "none"
       /\ j.new => j.conn[1] = p
       /\ j.at = "offer" => j.new

\* A message is for the right page, of a connection that its sender has.
MessageInv ==
    \A p \in Pages : \A m \in Range(net[p]) :
       /\ p \in {m.conn[1], m.conn[2]} /\ pc[Peer(p, m.conn)][m.conn].sig # "none"
       /\ m.type = "offer" => p = m.conn[2]
       /\ m.type = "answer" => p = m.conn[1]

\* Where a candidate for an end is.
Somewhere(p, c, k) ==
    \/ Ice(c, k) \in Range(net[p]) \/ k \in pendingCandidates[p][c]
    \/ k \in pc[p][c].draining \/ k \in pc[p][c].added

CandidateInv ==
    \A p \in Pages, c \in ConnIds :
       p \in {c[1], c[2]} /\ ~IsClosed(p, c)
          => \A k \in pc[Peer(p, c)][c].gathered : Somewhere(p, c, k)

IInv ==
    /\ TypeOK /\ EndInv /\ NumberInv /\ MapInv /\ CallInv /\ MessageInv /\ PhaseInv
    /\ CandidateInv


-------------------------------------------------------------------------------
(* Connection ids, sequences and the Map.                                      *)

LEMMA ConnParts ==
    ASSUME NEW c \in ConnIds
    PROVE  /\ c[1] \in Pages /\ c[2] \in Pages /\ c[1] # c[2] /\ c[3] \in 1..MaxConns
           /\ reverseConnId(c) \in ConnIds /\ reverseConnId(c) # c
           /\ reverseConnId(reverseConnId(c)) = c
           /\ reverseConnId(c)[1] = c[2] /\ reverseConnId(c)[2] = c[1]
           /\ reverseConnId(c)[3] = c[3]
BY DEF ConnIds, reverseConnId

LEMMA AppendRange ==
    ASSUME NEW S, NEW q \in Seq(S), NEW e \in S
    PROVE  Append(q, e) \in Seq(S) /\ Range(Append(q, e)) = Range(q) \cup {e}
<1>1. \A i \in 1..Len(q) : Append(q, e)[i] = q[i]
  BY AppendHits
<1>2. Append(q, e) \in Seq(S) /\ Len(Append(q, e)) = Len(q) + 1 /\ Len(q) \in Nat
      /\ Append(q, e)[Len(q) + 1] = e
  BY AppendHits
<1> QED
  BY <1>1, <1>2 DEF Range

LEMMA TailRange ==
    ASSUME NEW S, NEW q \in Seq(S), q # <<>>
    PROVE  /\ Tail(q) \in Seq(S) /\ Head(q) \in S
           /\ Range(q) = Range(Tail(q)) \cup {Head(q)}
<1>1. Tail(q) \in Seq(S) /\ Len(Tail(q)) = Len(q) - 1 /\ Head(q) \in S
      /\ Len(q) \in Nat \ {0} /\ Head(q) = q[1]
  OBVIOUS
<1>2. \A i \in 1..(Len(q) - 1) : Tail(q)[i] = q[i + 1]
  BY <1>1
<1>3. ASSUME NEW e \in Range(q)
      PROVE  e \in Range(Tail(q)) \cup {Head(q)}
  <2>1. PICK i \in 1..Len(q) : e = q[i]
    BY DEF Range
  <2>2. CASE i = 1
    BY <1>1, <2>1, <2>2
  <2>3. CASE i # 1
    <3>1. i - 1 \in 1..(Len(q) - 1) /\ i - 1 + 1 = i
      BY <1>1, <2>3
    <3> QED
      BY <1>1, <1>2, <2>1, <3>1 DEF Range
  <2> QED
    BY <2>2, <2>3
<1>4. ASSUME NEW e \in Range(Tail(q)) \cup {Head(q)}
      PROVE  e \in Range(q)
  <2>1. CASE e = Head(q)
    BY <1>1, <2>1 DEF Range
  <2>2. CASE e \in Range(Tail(q))
    <3>1. PICK i \in 1..(Len(q) - 1) : e = Tail(q)[i]
      BY <1>1, <2>2 DEF Range
    <3>2. i + 1 \in 1..Len(q) /\ e = q[i + 1]
      BY <1>1, <1>2, <3>1
    <3> QED
      BY <3>2 DEF Range
  <2> QED
    BY <2>1, <2>2
<1> QED
  BY <1>1, <1>3, <1>4

LEMMA OthersAt ==
    ASSUME NEW S, NEW q \in Seq(S), NEW i \in 1..Len(q)
    PROVE  /\ Others(q, i) \in Seq(S) /\ Len(Others(q, i)) = Len(q) - 1
           /\ \A k \in 1..(Len(q) - 1) : Others(q, i)[k] = q[IF k < i THEN k ELSE k + 1]
BY WithoutAt DEF Others, Without

LEMMA OthersHits ==
    ASSUME NEW S, NEW q \in Seq(S), NEW i \in 1..Len(q), NEW T
    PROVE  /\ Hits(Others(q, i), T) # {} => Hits(q, T) # {}
           /\ One(Hits(q, T)) => One(Hits(Others(q, i), T))
           /\ q[i] \in T => Hits(q, T) # {}
           /\ q[i] \in T /\ One(Hits(q, T)) => Hits(Others(q, i), T) = {}
<1>1. Others(q, i) = Without(q, i)
  BY DEF Others, Without
<1> QED
  BY <1>1, WithoutHits

LEMMA OthersRange ==
    ASSUME NEW S, NEW q \in Seq(S), NEW i \in 1..Len(q)
    PROVE  /\ Others(q, i) \in Seq(S)
           /\ q[i] \in S /\ Range(q) = Range(Others(q, i)) \cup {q[i]}
<1> DEFINE r == Others(q, i)
           at(k) == IF k < i THEN k ELSE k + 1
<1>1. r \in Seq(S) /\ Len(r) = Len(q) - 1 /\ q[i] \in S /\ Len(q) \in Nat
      /\ i \in Nat /\ 1 <= i /\ i <= Len(q)
  BY OthersAt
<1>2. \A k \in 1..(Len(q) - 1) : r[k] = q[at(k)]
  BY OthersAt
<1> HIDE DEF r
<1>3. ASSUME NEW e \in Range(q)
      PROVE  e \in Range(r) \cup {q[i]}
  <2>1. PICK k \in 1..Len(q) : e = q[k]
    BY DEF Range
  <2>2. CASE k = i
    BY <2>1, <2>2
  <2>3. CASE k < i
    <3>1. k \in 1..(Len(q) - 1) /\ at(k) = k
      BY <1>1, <2>3
    <3> QED
      BY <1>1, <1>2, <2>1, <3>1 DEF Range
  <2>4. CASE k > i
    <3>1. k - 1 \in 1..(Len(q) - 1) /\ at(k - 1) = k
      BY <1>1, <2>4
    <3> QED
      BY <1>1, <1>2, <2>1, <3>1 DEF Range
  <2> QED
    BY <1>1, <2>2, <2>3, <2>4
<1>4. ASSUME NEW e \in Range(r)
      PROVE  e \in Range(q)
  <2>1. PICK k \in 1..(Len(q) - 1) : e = r[k]
    BY <1>1 DEF Range
  <2>2. at(k) \in 1..Len(q) /\ e = q[at(k)]
    BY <1>1, <1>2, <2>1
  <2> HIDE DEF at
  <2> QED
    BY <2>2 DEF Range
<1>5. q[i] \in Range(q)
  BY <1>1 DEF Range
<1>6. r = Others(q, i)
  BY DEF r
<1> QED
  BY <1>1, <1>3, <1>4, <1>5, <1>6

LEMMA RangeIn ==
    ASSUME NEW S, NEW q \in Seq(S)
    PROVE  /\ \A e \in Range(q) : e \in S
           /\ \A i \in 1..Len(q) : q[i] \in Range(q) /\ q[i] \in S
BY DEF Range

\* A Map with each key once.
Keyed(t) == \A i, j \in 1..Len(t) : t[i].key = t[j].key => i = j

LEMMA MapGet ==
    ASSUME NEW t \in Seq(Entries), Keyed(t), NEW k
    PROVE  /\ Has(t, k) <=> \E e \in Range(t) : e.key = k
           /\ \A e \in Range(t) : e.key = k => Get(t, k) = e.pc
           /\ Has(t, k) => /\ Place(t, k) \in 1..Len(t) /\ t[Place(t, k)].key = k
                           /\ t[Place(t, k)] \in Range(t)
<1>1. Has(t, k) <=> \E e \in Range(t) : e.key = k
  BY DEF Has, Range
<1>2. ASSUME Has(t, k)
      PROVE  Place(t, k) \in 1..Len(t) /\ t[Place(t, k)].key = k
  BY <1>2 DEF Has, Place
<1>3. ASSUME NEW e \in Range(t), e.key = k
      PROVE  Get(t, k) = e.pc
  <2>1. PICK i \in 1..Len(t) : t[i] = e
    BY DEF Range
  <2>2. Has(t, k)
    BY <1>3, <2>1 DEF Has
  <2>3. Place(t, k) = i
    BY <1>2, <1>3, <2>1, <2>2 DEF Keyed
  <2> QED
    BY <2>1, <2>3 DEF Get
<1>4. ASSUME Has(t, k)
      PROVE  t[Place(t, k)] \in Range(t)
  BY <1>2, <1>4 DEF Range
<1> QED
  BY <1>1, <1>2, <1>3, <1>4

LEMMA MapSet ==
    ASSUME NEW t \in Seq(Entries), Keyed(t), NEW k \in ConnIds, NEW c \in ConnIds
    PROVE  /\ Set(t, k, c) \in Seq(Entries) /\ Keyed(Set(t, k, c))
           /\ Range(Set(t, k, c)) = {e \in Range(t) : e.key # k} \cup {[key |-> k, pc |-> c]}
<1> DEFINE n == [key |-> k, pc |-> c]
           r == [i \in 1..Len(t) |-> IF t[i].key = k THEN n ELSE t[i]]
<1>1. n \in Entries /\ n.key = k
  BY DEF Entries
<1>2. CASE Has(t, k)
  <2>1. Set(t, k, c) = r
    BY <1>2 DEF Set
  <2>2. r \in Seq(Entries) /\ Len(r) = Len(t)
    BY <1>1
  <2>3. \A i \in 1..Len(t) : r[i] = IF t[i].key = k THEN n ELSE t[i]
    OBVIOUS
  <2>4. PICK i \in 1..Len(t) : t[i].key = k
    BY <1>2 DEF Has
  <2> HIDE DEF r
  <2>5. \A j \in 1..Len(t) : r[j].key = t[j].key
    BY <1>1, <2>3
  <2>6. Keyed(r)
    BY <2>2, <2>5 DEF Keyed
  <2> HIDE DEF n
  <2>7. Range(r) \subseteq {e \in Range(t) : e.key # k} \cup {n}
    BY <2>2, <2>3 DEF Range
  <2>8. {e \in Range(t) : e.key # k} \subseteq Range(r)
    BY <2>2, <2>3 DEF Range
  <2>9. n \in Range(r)
    BY <2>2, <2>3, <2>4 DEF Range
  <2> QED
    BY <2>1, <2>2, <2>6, <2>7, <2>8, <2>9 DEF n
<1>3. CASE ~Has(t, k)
  <2>1. Set(t, k, c) = Append(t, n)
    BY <1>3 DEF Set
  <2>2. Append(t, n) \in Seq(Entries) /\ Range(Append(t, n)) = Range(t) \cup {n}
    BY <1>1, AppendRange
  <2>3. /\ Len(Append(t, n)) = Len(t) + 1 /\ Append(t, n)[Len(t) + 1] = n /\ Len(t) \in Nat
        /\ \A i \in 1..Len(t) : Append(t, n)[i] = t[i]
    BY <1>1, AppendHits
  <2>4. \A i \in 1..Len(t) : t[i].key # k
    BY <1>3 DEF Has
  <2>5. Keyed(Append(t, n))
    BY <1>1, <2>3, <2>4 DEF Keyed
  <2>6. \A e \in Range(t) : e.key # k
    BY <2>4 DEF Range
  <2> QED
    BY <2>1, <2>2, <2>5, <2>6
<1> QED
  BY <1>2, <1>3

LEMMA MapDelete ==
    ASSUME NEW t \in Seq(Entries), Keyed(t), NEW k
    PROVE  /\ Delete(t, k) \in Seq(Entries) /\ Keyed(Delete(t, k))
           /\ Range(Delete(t, k)) = {e \in Range(t) : e.key # k}
<1>1. CASE ~Has(t, k)
  BY <1>1, MapGet DEF Delete
<1>2. CASE Has(t, k)
  <2>1. PICK i \in 1..Len(t) : i = Place(t, k) /\ t[i].key = k
    BY <1>2, MapGet
  <2> DEFINE r == Others(t, i)
             at(m) == IF m < i THEN m ELSE m + 1
  <2>2. Delete(t, k) = r
    BY <1>2, <2>1 DEF Delete
  <2>3. /\ r \in Seq(Entries) /\ Len(r) = Len(t) - 1 /\ Len(t) \in Nat
        /\ \A m \in 1..(Len(t) - 1) : r[m] = t[at(m)]
    BY OthersAt
  <2>4. Range(t) = Range(r) \cup {t[i]}
    BY OthersRange
  <2> HIDE DEF r
  <2>5. \A m \in 1..(Len(t) - 1) : at(m) \in 1..Len(t) /\ at(m) # i
    BY <2>3
  <2>6. \A m, n \in 1..(Len(t) - 1) : at(m) = at(n) => m = n
    BY <2>3
  <2> HIDE DEF at
  <2>7. Keyed(r)
    BY <2>3, <2>5, <2>6 DEF Keyed
  <2>8. \A m \in 1..(Len(t) - 1) : r[m].key # k
    BY <2>1, <2>3, <2>5 DEF Keyed
  <2>9. \A e \in Range(r) : e.key # k
    BY <2>3, <2>8 DEF Range
  <2> QED
    BY <2>1, <2>2, <2>3, <2>4, <2>7, <2>9
<1> QED
  BY <1>1, <1>2

-------------------------------------------------------------------------------
(* What a step does to one variable.                                           *)

\* The end of c at p becomes e, and no other end changes.
Change(p, c, e) ==
    \A r \in Pages, d \in ConnIds : pc'[r][d] = IF r = p /\ d = c THEN e ELSE pc[r][d]

LEMMA HitsRange ==
    ASSUME NEW q, NEW T
    PROVE  Hits(q, T) = {} <=> \A e \in Range(q) : e \notin T
BY DEF Hits, Range

LEMMA PcChange ==
    ASSUME TypeOK, NEW p \in Pages, NEW c \in ConnIds, NEW e \in Ends,
           pc' = [pc EXCEPT ![p][c] = e]
    PROVE  pc' \in [Pages -> [ConnIds -> Ends]] /\ Change(p, c, e)
BY DEF TypeOK, Change

LEMMA MessageTypes ==
    ASSUME NEW c \in ConnIds
    PROVE  /\ Msg("offer", c) \in Messages /\ Msg("answer", c) \in Messages
           /\ \A k \in Candidates : Ice(c, k) \in Messages
BY DEF Messages, Msg, Ice

LEMMA Sent ==
    ASSUME TypeOK, NEW r \in Pages, NEW m \in Messages,
           net' = [net EXCEPT ![r] = Append(@, m)]
    PROVE  /\ net' \in [Pages -> Seq(Messages)]
           /\ Range(net'[r]) = Range(net[r]) \cup {m}
           /\ \A s \in Pages : s # r => net'[s] = net[s]
           /\ \A x : x # m => Hits(net'[r], {x}) = Hits(net[r], {x})
           /\ Hits(net[r], {m}) = {} => Hits(net'[r], {m}) # {} /\ One(Hits(net'[r], {m}))
<1>1. net[r] \in Seq(Messages) /\ net \in [Pages -> Seq(Messages)]
  BY DEF TypeOK
<1>2. PICK q \in Seq(Messages) : q = net[r]
  BY <1>1
<1>3. Append(q, m) \in Seq(Messages) /\ Range(Append(q, m)) = Range(q) \cup {m}
  BY AppendRange
<1>4. net'[r] = Append(q, m) /\ net' \in [Pages -> Seq(Messages)]
      /\ \A s \in Pages : s # r => net'[s] = net[s]
  BY <1>1, <1>2, <1>3
<1>5. ASSUME NEW x
      PROVE  Hits(Append(q, m), {x}) = Hits(q, {x}) \cup (IF m \in {x} THEN {Len(q) + 1} ELSE {})
  BY AppendHits
<1>6. \A x : x # m => Hits(Append(q, m), {x}) = Hits(q, {x})
  BY <1>5
<1>7. Hits(q, {m}) = {} => Hits(Append(q, m), {m}) = {Len(q) + 1}
  BY <1>5
<1> QED
  BY <1>2, <1>3, <1>4, <1>6, <1>7 DEF One

LEMMA Received ==
    ASSUME TypeOK, NEW p \in Pages, NEW type, Receives(p, type)
    PROVE  \E m \in Messages :
              /\ m = Head(net[p]) /\ m.type = type /\ m \in Range(net[p])
              /\ net' \in [Pages -> Seq(Messages)]
              /\ Range(net[p]) = Range(net'[p]) \cup {m}
              /\ \A s \in Pages : s # p => net'[s] = net[s]
              /\ \A x : /\ One(Hits(net[p], {x})) => One(Hits(net'[p], {x}))
                        /\ Hits(net[p], {x}) = {} => Hits(net'[p], {x}) = {}
                        /\ x # m /\ Hits(net[p], {x}) # {} => Hits(net'[p], {x}) # {}
              /\ One(Hits(net[p], {m})) => Hits(net'[p], {m}) = {}
<1>1. net[p] \in Seq(Messages) /\ net \in [Pages -> Seq(Messages)]
  BY DEF TypeOK
<1>2. PICK q \in Seq(Messages) : q = net[p]
  BY <1>1
<1>3. q # <<>> /\ Head(q).type = type /\ net' = [net EXCEPT ![p] = Tail(q)]
  BY <1>2 DEF Receives
<1>4. Tail(q) \in Seq(Messages) /\ Head(q) \in Messages /\ Range(q) = Range(Tail(q)) \cup {Head(q)}
  BY <1>3, TailRange
<1>5. net'[p] = Tail(q) /\ net' \in [Pages -> Seq(Messages)]
      /\ \A s \in Pages : s # p => net'[s] = net[s]
  BY <1>1, <1>3, <1>4
<1>6. ASSUME NEW x
      PROVE  /\ One(Hits(q, {x})) => One(Hits(Tail(q), {x}))
             /\ Hits(q, {x}) = {} => Hits(Tail(q), {x}) = {}
             /\ x # Head(q) /\ Hits(q, {x}) # {} => Hits(Tail(q), {x}) # {}
             /\ x = Head(q) /\ One(Hits(q, {x})) => Hits(Tail(q), {x}) = {}
  <2>1. /\ One(Hits(q, {x})) => One(Hits(Tail(q), {x}))
        /\ Hits(Tail(q), {x}) # {} => Hits(q, {x}) # {}
        /\ Head(q) \in {x} /\ One(Hits(q, {x})) => Hits(Tail(q), {x}) = {}
    BY <1>3, TailHits
  <2>2. x # Head(q) /\ Hits(q, {x}) # {} => Hits(Tail(q), {x}) # {}
    BY <1>4, HitsRange
  <2> QED
    BY <2>1, <2>2
<1> DEFINE m == Head(q)
<1>7. m = Head(net[p]) /\ m.type = type /\ m \in Range(q) /\ m \in Messages
  BY <1>2, <1>3, <1>4
<1> QED
  BY <1>2, <1>4, <1>5, <1>6, <1>7

\* What taking a call out does to the new calls of a connection.
LEMMA CallOver ==
    ASSUME TypeOK, NEW p \in Pages, NEW i \in 1..Len(calls[p]),
           calls' = [calls EXCEPT ![p] = Others(@, i)]
    PROVE  /\ calls' \in [Pages -> Seq(Calls)]
           /\ Range(calls[p]) = Range(calls'[p]) \cup {calls[p][i]}
           /\ \A s \in Pages : s # p => calls'[s] = calls[s]
           /\ \A T : /\ Hits(calls[p], T) = {} => Hits(calls'[p], T) = {}
                     /\ One(Hits(calls[p], T)) => One(Hits(calls'[p], T))
                     /\ calls[p][i] \in T /\ One(Hits(calls[p], T)) => Hits(calls'[p], T) = {}
<1>1. calls[p] \in Seq(Calls) /\ calls \in [Pages -> Seq(Calls)]
  BY DEF TypeOK
<1>2. PICK q \in Seq(Calls) : q = calls[p]
  BY <1>1
<1>3. i \in 1..Len(q)
  BY <1>2
<1>4. Others(q, i) \in Seq(Calls) /\ Range(q) = Range(Others(q, i)) \cup {q[i]}
  BY <1>3, OthersRange
<1>5. calls'[p] = Others(q, i) /\ calls' \in [Pages -> Seq(Calls)]
      /\ \A s \in Pages : s # p => calls'[s] = calls[s]
  BY <1>1, <1>2, <1>4
<1>6. ASSUME NEW T
      PROVE  /\ Hits(q, T) = {} => Hits(Others(q, i), T) = {}
             /\ One(Hits(q, T)) => One(Hits(Others(q, i), T))
             /\ q[i] \in T /\ One(Hits(q, T)) => Hits(Others(q, i), T) = {}
  BY <1>3, OthersHits
<1> QED
  BY <1>2, <1>4, <1>5, <1>6

LEMMA CallMade ==
    ASSUME TypeOK, NEW p \in Pages, NEW j \in Calls,
           calls' = [calls EXCEPT ![p] = Append(@, j)]
    PROVE  /\ calls' \in [Pages -> Seq(Calls)]
           /\ Range(calls'[p]) = Range(calls[p]) \cup {j}
           /\ \A s \in Pages : s # p => calls'[s] = calls[s]
           /\ \A T : /\ j \notin T => Hits(calls'[p], T) = Hits(calls[p], T)
                     /\ Hits(calls[p], T) = {} => One(Hits(calls'[p], T))
<1>1. calls[p] \in Seq(Calls) /\ calls \in [Pages -> Seq(Calls)]
  BY DEF TypeOK
<1>2. PICK q \in Seq(Calls) : q = calls[p]
  BY <1>1
<1>3. Append(q, j) \in Seq(Calls) /\ Range(Append(q, j)) = Range(q) \cup {j}
  BY AppendRange
<1>4. calls'[p] = Append(q, j) /\ calls' \in [Pages -> Seq(Calls)]
      /\ \A s \in Pages : s # p => calls'[s] = calls[s]
  BY <1>1, <1>2, <1>3
<1>5. ASSUME NEW T
      PROVE  Hits(Append(q, j), T) = Hits(q, T) \cup (IF j \in T THEN {Len(q) + 1} ELSE {})
  BY AppendHits
<1>6. ASSUME NEW T
      PROVE  /\ j \notin T => Hits(Append(q, j), T) = Hits(q, T)
             /\ Hits(q, T) = {} => One(Hits(Append(q, j), T))
  BY <1>5 DEF One
<1> QED
  BY <1>2, <1>3, <1>4, <1>6

\* A call goes on: it has a file less, or it is to make the offer.
LEMMA CallGoesOn ==
    ASSUME TypeOK, NEW p \in Pages, NEW i \in 1..Len(calls[p]), NEW j \in Calls,
           calls' = [calls EXCEPT ![p] = [@ EXCEPT ![i] = j]]
    PROVE  /\ calls' \in [Pages -> Seq(Calls)]
           /\ Range(calls'[p]) \subseteq Range(calls[p]) \cup {j}
           /\ \A s \in Pages : s # p => calls'[s] = calls[s]
           /\ \A T : (j \in T <=> calls[p][i] \in T) => Hits(calls'[p], T) = Hits(calls[p], T)
<1>1. calls[p] \in Seq(Calls) /\ calls \in [Pages -> Seq(Calls)]
  BY DEF TypeOK
<1>2. PICK q \in Seq(Calls) : q = calls[p]
  BY <1>1
<1>3. i \in 1..Len(q)
  BY <1>2
<1>4. PICK r : r = [q EXCEPT ![i] = j]
  OBVIOUS
<1>5. /\ r \in Seq(Calls) /\ Len(r) = Len(q) /\ r[i] = j
      /\ \A k \in 1..Len(q) : k # i => r[k] = q[k]
  BY <1>3, <1>4
<1>6. Range(r) \subseteq Range(q) \cup {j}
  BY <1>5 DEF Range
<1>7. calls'[p] = r /\ calls' \in [Pages -> Seq(Calls)]
      /\ \A s \in Pages : s # p => calls'[s] = calls[s]
  BY <1>1, <1>2, <1>4, <1>5
<1>8. ASSUME NEW T, j \in T <=> q[i] \in T
      PROVE  Hits(r, T) = Hits(q, T)
  BY <1>3, <1>5, <1>8 DEF Hits
<1> QED
  BY <1>2, <1>6, <1>7, <1>8

-------------------------------------------------------------------------------
(* What the actions do, and types.                                             *)

\* Every action, for the case splits below.
LEMMA NextCases ==
    ASSUME Next
    PROVE  \/ \E p, q \in Pages, files \in 1..MaxFiles : StartTransfer(p, q, files)
           \/ \E p \in Pages : \E i \in 1..Len(calls[p]) : HashDone(p, i)
           \/ \E p \in Pages : \E i \in 1..Len(calls[p]) : HashFails(p, i)
           \/ \E p \in Pages : \E i \in 1..Len(calls[p]) : OfferMade(p, i)
           \/ \E p \in Pages : HandleOffer(p)
           \/ \E p \in Pages : HandleAnswer(p)
           \/ \E p \in Pages : HandleIce(p)
           \/ \E p \in Pages, c \in ConnIds : RemoteSet(p, c)
           \/ \E p \in Pages, c \in ConnIds : Drain(p, c)
           \/ \E p \in Pages, c \in ConnIds : AnswerMade(p, c)
           \/ \E p \in Pages, c \in ConnIds : OnIceCandidate(p, c)
           \/ \E p \in Pages, c \in ConnIds : IceFails(p, c)
BY DEF Next, CallStep, Receive, Await

LEMMA NewEnds == NoPC \in Ends /\ NewPC \in Ends
BY DEF NoPC, NewPC, Ends

\* The end of c at p becomes e.
Becomes(p, c, e) == e \in Ends /\ pc' \in [Pages -> [ConnIds -> Ends]] /\ Change(p, c, e)

LEMMA BecomesNew ==
    ASSUME TypeOK, NEW p \in Pages, NEW c \in ConnIds, pc' = [pc EXCEPT ![p][c] = NewPC]
    PROVE  Becomes(p, c, NewPC)
BY NewEnds, PcChange DEF Becomes

LEMMA BecomesOffered ==
    ASSUME TypeOK, NEW p \in Pages, NEW c \in ConnIds, pc' = [pc EXCEPT ![p][c].sig = "local"]
    PROVE  \E e \in Ends :
              /\ Becomes(p, c, e) /\ e.sig = "local"
              /\ e.job = pc[p][c].job /\ e.draining = pc[p][c].draining
              /\ e.added = pc[p][c].added /\ e.gathered = pc[p][c].gathered
<1> DEFINE e == [pc[p][c] EXCEPT !.sig = "local"]
<1>1. pc[p][c] \in Ends
  BY DEF TypeOK
<1>2. /\ e \in Ends /\ e.sig = "local" /\ e.job = pc[p][c].job
      /\ e.draining = pc[p][c].draining /\ e.added = pc[p][c].added
      /\ e.gathered = pc[p][c].gathered
  BY <1>1 DEF Ends
<1>3. pc' = [pc EXCEPT ![p][c] = e]
  OBVIOUS
<1> HIDE DEF e
<1>4. e \in Ends
  BY <1>2
<1>5. Becomes(p, c, e)
  BY <1>3, <1>4, PcChange, Zenon DEF Becomes
<1> QED
  BY <1>2, <1>5

\* What OnIceCandidate and HandleIce do to an end.
GathersOne(p, c, k) == pc' = [pc EXCEPT ![p][c].gathered = @ \cup {k}]
AddsOne(p, c, k) == pc' = [pc EXCEPT ![p][c].added = @ \cup {k}]

LEMMA BecomesGathered ==
    ASSUME TypeOK, NEW p \in Pages, NEW c \in ConnIds, NEW k \in Candidates,
           GathersOne(p, c, k)
    PROVE  \E e \in Ends :
              /\ Becomes(p, c, e) /\ e.gathered = pc[p][c].gathered \cup {k}
              /\ e.sig = pc[p][c].sig /\ e.job = pc[p][c].job
              /\ e.draining = pc[p][c].draining /\ e.added = pc[p][c].added
<1> DEFINE e == [pc[p][c] EXCEPT !.gathered = @ \cup {k}]
<1>1. pc[p][c] \in Ends
  BY DEF TypeOK
<1>2. /\ e \in Ends /\ e.gathered = pc[p][c].gathered \cup {k}
      /\ e.sig = pc[p][c].sig /\ e.job = pc[p][c].job
      /\ e.draining = pc[p][c].draining /\ e.added = pc[p][c].added
  BY <1>1 DEF Ends
<1>3. pc' = [pc EXCEPT ![p][c] = e]
  BY DEF GathersOne
<1> HIDE DEF e
<1>4. e \in Ends
  BY <1>2
<1>5. Becomes(p, c, e)
  BY <1>3, <1>4, PcChange, Zenon DEF Becomes
<1> QED
  BY <1>2, <1>5

LEMMA BecomesAdded ==
    ASSUME TypeOK, NEW p \in Pages, NEW c \in ConnIds, NEW k \in Candidates,
           AddsOne(p, c, k)
    PROVE  \E e \in Ends :
              /\ Becomes(p, c, e) /\ e.added = pc[p][c].added \cup {k}
              /\ e.sig = pc[p][c].sig /\ e.job = pc[p][c].job
              /\ e.draining = pc[p][c].draining /\ e.gathered = pc[p][c].gathered
<1> DEFINE e == [pc[p][c] EXCEPT !.added = @ \cup {k}]
<1>1. pc[p][c] \in Ends
  BY DEF TypeOK
<1>2. /\ e \in Ends /\ e.added = pc[p][c].added \cup {k}
      /\ e.sig = pc[p][c].sig /\ e.job = pc[p][c].job
      /\ e.draining = pc[p][c].draining /\ e.gathered = pc[p][c].gathered
  BY <1>1 DEF Ends
<1>3. pc' = [pc EXCEPT ![p][c] = e]
  BY DEF AddsOne
<1> HIDE DEF e
<1>4. e \in Ends
  BY <1>2
<1>5. Becomes(p, c, e)
  BY <1>3, <1>4, PcChange, Zenon DEF Becomes
<1> QED
  BY <1>2, <1>5

\* The handler of an answer awaits setRemoteDescription.
LEMMA BecomesBusy ==
    ASSUME TypeOK, NEW p \in Pages, NEW c \in ConnIds, pc' = [pc EXCEPT ![p][c].job = "remote"]
    PROVE  \E e \in Ends :
              /\ Becomes(p, c, e) /\ e.job = "remote" /\ e.sig = pc[p][c].sig
              /\ e.draining = pc[p][c].draining /\ e.added = pc[p][c].added
              /\ e.gathered = pc[p][c].gathered
<1> DEFINE e == [pc[p][c] EXCEPT !.job = "remote"]
<1>1. pc[p][c] \in Ends
  BY DEF TypeOK
<1>2. /\ e \in Ends /\ e.job = "remote" /\ e.sig = pc[p][c].sig
      /\ e.draining = pc[p][c].draining /\ e.added = pc[p][c].added
      /\ e.gathered = pc[p][c].gathered
  BY <1>1 DEF Ends
<1>3. pc' = [pc EXCEPT ![p][c] = e]
  OBVIOUS
<1> HIDE DEF e
<1>4. e \in Ends
  BY <1>2
<1>5. Becomes(p, c, e)
  BY <1>3, <1>4, PcChange, Zenon DEF Becomes
<1> QED
  BY <1>2, <1>5

LEMMA BecomesRemote ==
    ASSUME TypeOK, NEW p \in Pages, NEW c \in ConnIds, RemoteSet(p, c)
    PROVE  \E e \in Ends :
              /\ Becomes(p, c, e) /\ e.job = "drain"
              /\ c[1] = p => e.sig = "stable"
              /\ c[1] # p => e.sig = "remote"
              /\ e.draining = pendingCandidates[p][c]
              /\ e.added = pc[p][c].added /\ e.gathered = pc[p][c].gathered
<1> DEFINE e == [pc[p][c] EXCEPT !.sig = IF c[1] = p THEN "stable" ELSE "remote",
                                 !.job = "drain", !.draining = pendingCandidates[p][c]]
<1>1. pc[p][c] \in Ends /\ pendingCandidates[p][c] \in SUBSET Candidates
  BY DEF TypeOK
<1>2. /\ e \in Ends /\ e.job = "drain"
      /\ c[1] = p => e.sig = "stable"
      /\ c[1] # p => e.sig = "remote"
      /\ e.draining = pendingCandidates[p][c]
      /\ e.added = pc[p][c].added /\ e.gathered = pc[p][c].gathered
  BY <1>1 DEF Ends
<1>3. pc' = [pc EXCEPT ![p][c] = e]
  BY DEF RemoteSet
<1> HIDE DEF e
<1>4. e \in Ends
  BY <1>2
<1>5. Becomes(p, c, e)
  BY <1>3, <1>4, PcChange, Zenon DEF Becomes
<1> QED
  BY <1>2, <1>5

\* The handler has added a candidate more, or is done with them.
Drained(p, c, e) ==
    /\ e.sig = pc[p][c].sig /\ e.gathered = pc[p][c].gathered
    /\ e.draining \cup e.added = pc[p][c].draining \cup pc[p][c].added
    /\ \/ e.job = "drain"
       \/ /\ e.draining = {}
          /\ c[1] = p => e.job = "none"
          /\ c[1] # p => e.job = "answer"

LEMMA BecomesDrained ==
    ASSUME TypeOK, NEW p \in Pages, NEW c \in ConnIds, Drain(p, c)
    PROVE  \E e \in Ends : Becomes(p, c, e) /\ Drained(p, c, e)
<1>1. pc[p][c] \in Ends /\ pc[p][c].job = "drain"
  BY DEF TypeOK, Drain
<1>2. ASSUME NEW k \in pc[p][c].draining,
             pc' = [pc EXCEPT ![p][c].draining = @ \ {k}, ![p][c].added = @ \cup {k}]
      PROVE  \E e \in Ends : Becomes(p, c, e) /\ Drained(p, c, e)
  <2> DEFINE e == [pc[p][c] EXCEPT !.draining = @ \ {k}, !.added = @ \cup {k}]
  <2>1. k \in Candidates
    BY <1>1 DEF Ends
  <2>2. /\ e \in Ends /\ e.sig = pc[p][c].sig /\ e.gathered = pc[p][c].gathered
        /\ e.job = "drain" /\ e.draining = pc[p][c].draining \ {k}
        /\ e.added = pc[p][c].added \cup {k}
    BY <1>1, <2>1 DEF Ends
  <2>3. pc' = [pc EXCEPT ![p][c] = e]
    BY <1>2
  <2> HIDE DEF e
  <2>4. e.draining \cup e.added = pc[p][c].draining \cup pc[p][c].added
    BY <2>2
  <2>5. e \in Ends
    BY <2>2
  <2>6. Becomes(p, c, e)
    BY <2>3, <2>5, PcChange, Zenon DEF Becomes
  <2> QED
    BY <2>2, <2>4, <2>6 DEF Drained
<1>3. ASSUME pc[p][c].draining = {},
             pc' = [pc EXCEPT ![p][c].job = IF c[1] = p THEN "none" ELSE "answer"]
      PROVE  \E e \in Ends : Becomes(p, c, e) /\ Drained(p, c, e)
  <2> DEFINE e == [pc[p][c] EXCEPT !.job = IF c[1] = p THEN "none" ELSE "answer"]
  <2>1. /\ e \in Ends /\ e.sig = pc[p][c].sig /\ e.gathered = pc[p][c].gathered
        /\ e.draining = pc[p][c].draining /\ e.added = pc[p][c].added
        /\ c[1] = p => e.job = "none"
        /\ c[1] # p => e.job = "answer"
    BY <1>1 DEF Ends
  <2>2. pc' = [pc EXCEPT ![p][c] = e]
    BY <1>3
  <2> HIDE DEF e
  <2>3. e \in Ends
    BY <2>1
  <2>4. Becomes(p, c, e)
    BY <2>2, <2>3, PcChange, Zenon DEF Becomes
  <2> QED
    BY <1>3, <2>1, <2>4 DEF Drained
<1> QED
  BY <1>2, <1>3 DEF Drain

LEMMA BecomesStable ==
    ASSUME TypeOK, NEW p \in Pages, NEW c \in ConnIds, AnswerMade(p, c)
    PROVE  \E e \in Ends :
              /\ Becomes(p, c, e) /\ e.sig = "stable" /\ e.job = "none"
              /\ e.draining = pc[p][c].draining /\ e.added = pc[p][c].added
              /\ e.gathered = pc[p][c].gathered
<1> DEFINE e == [pc[p][c] EXCEPT !.sig = "stable", !.job = "none"]
<1>1. pc[p][c] \in Ends
  BY DEF TypeOK
<1>2. /\ e \in Ends /\ e.sig = "stable" /\ e.job = "none"
      /\ e.draining = pc[p][c].draining /\ e.added = pc[p][c].added
      /\ e.gathered = pc[p][c].gathered
  BY <1>1 DEF Ends
<1>3. pc' = [pc EXCEPT ![p][c] = e]
  BY DEF AnswerMade
<1> HIDE DEF e
<1>4. e \in Ends
  BY <1>2
<1>5. Becomes(p, c, e)
  BY <1>3, <1>4, PcChange, Zenon DEF Becomes
<1> QED
  BY <1>2, <1>5

LEMMA BecomesClosed ==
    ASSUME TypeOK, NEW p \in Pages, NEW c \in ConnIds, IceFails(p, c)
    PROVE  \E e \in Ends :
              /\ Becomes(p, c, e) /\ e.sig = "closed" /\ e.job = "none" /\ e.draining = {}
              /\ e.gathered = pc[p][c].gathered
<1> DEFINE e == [pc[p][c] EXCEPT !.sig = "closed", !.job = "none", !.draining = {}]
<1>1. pc[p][c] \in Ends
  BY DEF TypeOK
<1>2. /\ e \in Ends /\ e.sig = "closed" /\ e.job = "none" /\ e.draining = {}
      /\ e.gathered = pc[p][c].gathered
  BY <1>1 DEF Ends
<1>3. pc' = [pc EXCEPT ![p][c] = e]
  BY DEF IceFails
<1> HIDE DEF e
<1>4. e \in Ends
  BY <1>2
<1>5. Becomes(p, c, e)
  BY <1>3, <1>4, PcChange, Zenon DEF Becomes
<1> QED
  BY <1>2, <1>5

\* The Map of p becomes t.
LEMMA MapChange ==
    ASSUME TypeOK, NEW p \in Pages, NEW t \in Seq(Entries), Keyed(t),
           peerConnections' = [peerConnections EXCEPT ![p] = t]
    PROVE  /\ peerConnections' \in [Pages -> Seq(Entries)]
           /\ peerConnections'[p] = t
           /\ \A s \in Pages : s # p => peerConnections'[s] = peerConnections[s]
           /\ \A s \in Pages : Keyed(peerConnections'[s])
BY DEF TypeOK, Keyed

\* A click starts a connection, or finds one.
LEMMA StartCases ==
    ASSUME TypeOK, NEW p \in Pages, NEW q \in Pages, NEW files \in 1..MaxFiles,
           StartTransfer(p, q, files)
    PROVE  /\ sends' \in 0..MaxSends /\ UNCHANGED <<candidates, pendingCandidates, net>>
           /\ \/ /\ Found(p, q) = {} /\ started' = started + 1 /\ started' \in 1..MaxConns
                 /\ \E c \in ConnIds, j \in Calls :
                       /\ c = <<p, q, started'>> /\ pc' = [pc EXCEPT ![p][c] = NewPC]
                       /\ peerConnections' = [peerConnections EXCEPT ![p] = Set(@, c, c)]
                       /\ calls' = [calls EXCEPT ![p] = Append(@, j)]
                       /\ j.conn = c /\ j.new /\ j.at = "hash"
              \/ /\ UNCHANGED <<started, pc, peerConnections>>
                 /\ \/ calls' = calls
                    \/ \E e \in Range(peerConnections[p]), j \in Calls :
                          /\ e \in Entries /\ ~IsClosed(p, e.pc)
                          /\ calls' = [calls EXCEPT ![p] = Append(@, j)]
                          /\ j.conn = e.pc /\ ~j.new /\ j.at = "hash"
<1>1. started \in 0..MaxConns /\ sends \in 0..MaxSends /\ peerConnections[p] \in Seq(Entries)
  BY DEF TypeOK
<1>2. p # q /\ sends < MaxSends /\ sends' = sends + 1
      /\ UNCHANGED <<candidates, pendingCandidates, net>>
  BY DEF StartTransfer
<1>3. files - 1 \in 0..(MaxFiles - 1)
  OBVIOUS
<1>4. ASSUME Found(p, q) = {}, started < MaxConns, started' = started + 1,
             pc' = [pc EXCEPT ![p][<<p, q, started'>>] = NewPC],
             peerConnections' = [peerConnections EXCEPT ![p] =
                                    Set(@, <<p, q, started'>>, <<p, q, started'>>)],
             calls' = [calls EXCEPT ![p] =
                          Append(@, Call(<<p, q, started'>>, TRUE, "hash", files - 1))]
      PROVE  \E c \in ConnIds, j \in Calls :
                /\ c = <<p, q, started'>> /\ pc' = [pc EXCEPT ![p][c] = NewPC]
                /\ peerConnections' = [peerConnections EXCEPT ![p] = Set(@, c, c)]
                /\ calls' = [calls EXCEPT ![p] = Append(@, j)]
                /\ j.conn = c /\ j.new /\ j.at = "hash"
  <2>1. <<p, q, started'>> \in ConnIds
    BY <1>1, <1>2, <1>4 DEF ConnIds
  <2>2. PICK c \in ConnIds : c = <<p, q, started'>>
    BY <2>1
  <2>3. PICK j \in Calls : j = Call(c, TRUE, "hash", files - 1)
    BY <1>3 DEF Calls, Call
  <2>4. j.conn = c /\ j.new /\ j.at = "hash"
    BY <2>3 DEF Call
  <2>5. /\ pc' = [pc EXCEPT ![p][c] = NewPC]
        /\ peerConnections' = [peerConnections EXCEPT ![p] = Set(@, c, c)]
        /\ calls' = [calls EXCEPT ![p] = Append(@, j)]
    BY <1>4, <2>2, <2>3, Zenon
  <2> QED
    BY <2>2, <2>4, <2>5, Zenon
<1>5. ASSUME NEW i \in 1..Len(peerConnections[p]), ~IsClosed(p, peerConnections[p][i].pc),
             calls' = [calls EXCEPT ![p] =
                          Append(@, Call(peerConnections[p][i].pc, FALSE, "hash", files - 1))]
      PROVE  \E e \in Range(peerConnections[p]), j \in Calls :
                /\ e \in Entries /\ ~IsClosed(p, e.pc)
                /\ calls' = [calls EXCEPT ![p] = Append(@, j)]
                /\ j.conn = e.pc /\ ~j.new /\ j.at = "hash"
  <2>1. PICK e \in Range(peerConnections[p]) : e = peerConnections[p][i] /\ e \in Entries
    BY <1>1, RangeIn
  <2>2. PICK j \in Calls : j = Call(e.pc, FALSE, "hash", files - 1)
    BY <1>3, <2>1 DEF Calls, Call, Entries
  <2>3. j.conn = e.pc /\ ~j.new /\ j.at = "hash"
    BY <2>2 DEF Call
  <2>4. calls' = [calls EXCEPT ![p] = Append(@, j)] /\ ~IsClosed(p, e.pc)
    BY <1>5, <2>1, <2>2, Zenon
  <2> QED
    BY <2>1, <2>3, <2>4, Zenon
<1>6. CASE Found(p, q) = {} /\ started < MaxConns /\ started' = started + 1
           /\ pc' = [pc EXCEPT ![p][<<p, q, started'>>] = NewPC]
           /\ peerConnections' = [peerConnections EXCEPT ![p] =
                                    Set(@, <<p, q, started'>>, <<p, q, started'>>)]
           /\ calls' = [calls EXCEPT ![p] =
                          Append(@, Call(<<p, q, started'>>, TRUE, "hash", files - 1))]
  <2>1. started' \in 1..MaxConns /\ sends' \in 0..MaxSends
    BY <1>1, <1>2, <1>6
  <2> QED
    BY <1>2, <1>4, <1>6, <2>1, Zenon
<1>7. CASE /\ \E i \in 1..Len(peerConnections[p]) :
                 /\ First(Found(p, q), i)
                 /\ calls' = IF IsClosed(p, peerConnections[p][i].pc) THEN calls
                             ELSE [calls EXCEPT ![p] =
                                Append(@, Call(peerConnections[p][i].pc, FALSE, "hash", files - 1))]
           /\ UNCHANGED <<started, pc, peerConnections>>
  <2>1. PICK i \in 1..Len(peerConnections[p]) :
           calls' = IF IsClosed(p, peerConnections[p][i].pc) THEN calls
                    ELSE [calls EXCEPT ![p] =
                       Append(@, Call(peerConnections[p][i].pc, FALSE, "hash", files - 1))]
    BY <1>7, Zenon
  <2>2. sends' \in 0..MaxSends
    BY <1>1, <1>2
  <2>3. CASE IsClosed(p, peerConnections[p][i].pc)
    <3>1. calls' = calls
      BY <2>1, <2>3
    <3> QED
      BY <1>2, <1>7, <2>2, <3>1, Zenon
  <2>4. CASE ~IsClosed(p, peerConnections[p][i].pc)
    <3>1. calls' = [calls EXCEPT ![p] =
                       Append(@, Call(peerConnections[p][i].pc, FALSE, "hash", files - 1))]
      BY <2>1, <2>4
    <3> QED
      BY <1>2, <1>5, <1>7, <2>2, <2>4, <3>1, Zenon
  <2> QED
    BY <2>3, <2>4
<1> QED
  BY <1>6, <1>7, Zenon DEF StartTransfer

\* A digest is over: the call goes on, or it is over.
LEMMA HashDoneCases ==
    ASSUME TypeOK, NEW p \in Pages, NEW i \in 1..Len(calls[p]), HashDone(p, i)
    PROVE  /\ calls[p][i] \in Calls /\ calls[p][i] \in Range(calls[p])
           /\ \/ calls' = [calls EXCEPT ![p] = Others(@, i)]
              \/ \E j \in Calls :
                    /\ calls' = [calls EXCEPT ![p] = [@ EXCEPT ![i] = j]]
                    /\ j.conn = calls[p][i].conn /\ j.new = calls[p][i].new
                    /\ j.at = "offer" => j.new
<1>1. calls[p] \in Seq(Calls)
  BY DEF TypeOK
<1>2. PICK j \in Calls : j = calls[p][i] /\ j \in Range(calls[p])
  BY <1>1, RangeIn
<1>3. j.at = "hash"
  BY <1>2 DEF HashDone
<1>4. CASE j.more > 0 /\ ~IsClosed(p, j.conn)
  <2> DEFINE k == [j EXCEPT !.more = j.more - 1]
  <2>1. k \in Calls /\ k.conn = j.conn /\ k.new = j.new /\ k.at = "hash"
    BY <1>3, <1>4 DEF Calls
  <2>2. calls' = [calls EXCEPT ![p] = [@ EXCEPT ![i] = k]]
    BY <1>2, <1>4 DEF HashDone
  <2> QED
    BY <1>2, <2>1, <2>2
<1>5. CASE ~(j.more > 0 /\ ~IsClosed(p, j.conn)) /\ j.more = 0 /\ j.new
  <2> DEFINE k == [j EXCEPT !.at = "offer"]
  <2>1. k \in Calls /\ k.conn = j.conn /\ k.new = j.new /\ k.new
    BY <1>5 DEF Calls
  <2>2. calls' = [calls EXCEPT ![p] = [@ EXCEPT ![i] = k]]
    BY <1>2, <1>5 DEF HashDone
  <2> QED
    BY <1>2, <2>1, <2>2
<1>6. CASE ~(j.more > 0 /\ ~IsClosed(p, j.conn)) /\ ~(j.more = 0 /\ j.new)
  <2>1. calls' = [calls EXCEPT ![p] = Others(@, i)]
    BY <1>2, <1>6 DEF HashDone
  <2> QED
    BY <1>2, <2>1
<1> QED
  BY <1>4, <1>5, <1>6

\* A page finds a connection that is started under its id, if at all.
LEMMA KeyOf ==
    ASSUME NumberInv, MapInv, NEW p \in Pages, NEW c \in ConnIds,
           NEW r \in Pages, pc[r][c].sig # "none",
           NEW e \in Range(peerConnections[p]), e \in Entries, e.key = c
    PROVE  e.pc = c
<1>1. e.pc \in ConnIds /\ Entry(p, e)
  BY DEF MapInv, Entries
<1>2. ASSUME e.key = reverseConnId(e.pc), pc[p][e.pc].sig # "none"
      PROVE  FALSE
  <2>1. e.pc[3] = c[3] /\ e.pc # c
    BY <1>1, <1>2, ConnParts
  <2> QED
    BY <1>1, <1>2, <2>1 DEF NumberInv
<1> QED
  BY <1>1, <1>2 DEF Entry

\* The same, for the operators on the Map.
LEMMA Finds ==
    ASSUME TypeOK, NumberInv, MapInv, NEW p \in Pages, NEW c \in ConnIds,
           NEW r \in Pages, pc[r][c].sig # "none"
    PROVE  /\ Has(peerConnections[p], c) => /\ Get(peerConnections[p], c) = c
                                            /\ Live(p, c)
           /\ Live(p, c) => Has(peerConnections[p], c)
<1>1. PICK t \in Seq(Entries) : t = peerConnections[p] /\ Keyed(t)
  BY DEF TypeOK, Keyed
<1>2. ASSUME Has(t, c)
      PROVE  Get(t, c) = c /\ Live(p, c)
  <2>1. PICK e \in Range(t) : e.key = c
    BY <1>1, <1>2, MapGet
  <2>2. e \in Range(peerConnections[p]) /\ e \in Entries
    BY <1>1, RangeIn
  <2>3. e.pc = c
    BY <2>1, <2>2, KeyOf
  <2>4. Get(t, c) = c
    BY <1>1, <2>1, <2>3, MapGet
  <2>5. Live(p, c)
    BY <2>1, <2>2, <2>3, ConnParts DEF MapInv, Entry
  <2> QED
    BY <2>4, <2>5
<1>3. ASSUME Live(p, c)
      PROVE  Has(t, c)
  <2>1. [key |-> c, pc |-> c] \in Range(t) /\ [key |-> c, pc |-> c].key = c
    BY <1>1, <1>3 DEF MapInv
  <2> QED
    BY <1>1, <2>1, MapGet
<1> QED
  BY <1>1, <1>2, <1>3

LEMMA MessageParts ==
    ASSUME NEW m \in Messages
    PROVE  /\ m.conn \in ConnIds
           /\ m.type = "offer" => m = Msg("offer", m.conn)
           /\ m.type = "answer" => m = Msg("answer", m.conn)
           /\ m.type = "ice" => m.cand \in Candidates /\ m = Ice(m.conn, m.cand)
BY DEF Messages, Msg, Ice

LEMMA Members ==
    ASSUME TypeOK, NEW p \in Pages
    PROVE  /\ \A e \in Range(peerConnections[p]) :
                 e \in Entries /\ e.key \in ConnIds /\ e.pc \in ConnIds
           /\ \A j \in Range(calls[p]) : j \in Calls /\ j.conn \in ConnIds
           /\ \A m \in Range(net[p]) : m \in Messages /\ m.conn \in ConnIds
<1>1. /\ peerConnections[p] \in Seq(Entries) /\ calls[p] \in Seq(Calls)
      /\ net[p] \in Seq(Messages)
  BY DEF TypeOK
<1>2. /\ \A e \in Range(peerConnections[p]) : e \in Entries
      /\ \A j \in Range(calls[p]) : j \in Calls
      /\ \A m \in Range(net[p]) : m \in Messages
  BY <1>1, RangeIn
<1>3. \A e \in Entries : e.key \in ConnIds /\ e.pc \in ConnIds
  BY DEF Entries
<1>4. \A j \in Calls : j.conn \in ConnIds
  BY DEF Calls
<1> QED
  BY <1>2, <1>3, <1>4, MessageParts

\* An offer that arrives finds no end of its connection.
OfferHandled(p, c, e) ==
    /\ p = c[2] /\ Becomes(p, c, e) /\ pc[p][c] = NoPC
    /\ e.sig = "new" /\ e.job = "remote" /\ e.draining = {} /\ e.added = {} /\ e.gathered = {}
    /\ peerConnections' \in [Pages -> Seq(Entries)]
    /\ \A s \in Pages : Keyed(peerConnections'[s])
    /\ Range(peerConnections'[p]) = Range(peerConnections[p]) \cup {[key |-> c, pc |-> c]}
    /\ \A s \in Pages : s # p => peerConnections'[s] = peerConnections[s]

LEMMA OfferEffect ==
    ASSUME IInv, NEW p \in Pages, HandleOffer(p)
    PROVE  \E c \in ConnIds, e \in Ends :
              /\ Head(net[p]) = Msg("offer", c) /\ Receives(p, "offer")
              /\ OfferHandled(p, c, e)
              /\ Hits(net[p], {Msg("offer", c)}) # {}
              /\ UNCHANGED <<started, sends, candidates, calls, pendingCandidates>>
<1>1. /\ TypeOK /\ EndInv /\ NumberInv /\ MapInv /\ MessageInv /\ PhaseInv
      /\ Receives(p, "offer")
  BY DEF IInv, HandleOffer
<1>2. PICK m \in Messages : m = Head(net[p]) /\ m.type = "offer" /\ m \in Range(net[p])
  BY <1>1, Received
<1>3. PICK c \in ConnIds : c = m.conn /\ m = Msg("offer", c)
  BY <1>2, MessageParts
<1>4. p = c[2] /\ pc[c[1]][c].sig # "none" /\ c[1] \in Pages /\ c[1] # c[2]
  <2>1. p = c[2] /\ pc[Peer(p, c)][c].sig # "none"
    BY <1>1, <1>2, <1>3 DEF MessageInv
  <2> QED
    BY <2>1, ConnParts DEF Peer
<1>5. Hits(net[p], {m}) # {}
  BY <1>2, HitsRange
<1>6. pc[p][c].sig = "none" /\ pc[p][c] = NoPC
  <2>1. Phase(pc[c[1]][c], pc[c[2]][c], Making(c), Offered(c), Answered(c)) /\ Offered(c) # {}
    BY <1>1, <1>3, <1>4, <1>5 DEF PhaseInv, Offered
  <2>2. pc[p][c].sig = "none"
    BY <1>4, <2>1 DEF Phase, NotStarted, Starting, OfferSent, Answering, AnswerSent,
                      AnswerTaken, Settled
  <2> QED
    BY <1>1, <2>2 DEF EndInv
<1>7. PICK t \in Seq(Entries) : t = peerConnections[p] /\ Keyed(t)
  BY <1>1 DEF TypeOK, Keyed
<1>8. ~Has(t, c)
  BY <1>1, <1>4, <1>6, <1>7, Finds DEF Live
<1>9. PICK u : u = Set(t, c, c)
  OBVIOUS
<1>10. u \in Seq(Entries) /\ Keyed(u) /\ Range(u) = Range(t) \cup {[key |-> c, pc |-> c]}
  <2>1. \A f \in Range(t) : f.key # c
    BY <1>7, <1>8, MapGet
  <2>2. /\ Set(t, c, c) \in Seq(Entries) /\ Keyed(Set(t, c, c))
        /\ Range(Set(t, c, c)) = {f \in Range(t) : f.key # c} \cup {[key |-> c, pc |-> c]}
    BY <1>7, MapSet
  <2> QED
    BY <1>9, <2>1, <2>2
<1>11. PICK e \in Ends :
          /\ e = [NewPC EXCEPT !.job = "remote"]
          /\ e.sig = "new" /\ e.job = "remote" /\ e.draining = {} /\ e.added = {}
          /\ e.gathered = {}
  <2> DEFINE n == [NewPC EXCEPT !.job = "remote"]
  <2>1. /\ n \in Ends /\ n.sig = "new" /\ n.job = "remote" /\ n.draining = {} /\ n.added = {}
        /\ n.gathered = {}
    BY DEF Ends, NewPC, NoPC
  <2> QED
    BY <2>1
<1>12. /\ peerConnections' = [peerConnections EXCEPT ![p] = u]
       /\ pc' = [pc EXCEPT ![p][c] = e]
       /\ UNCHANGED <<started, sends, candidates, calls, pendingCandidates>>
  BY <1>2, <1>3, <1>7, <1>8, <1>9, <1>11 DEF HandleOffer
<1>13. Becomes(p, c, e)
  BY <1>1, <1>12, PcChange DEF Becomes
<1>14. /\ peerConnections' \in [Pages -> Seq(Entries)] /\ peerConnections'[p] = u
       /\ \A s \in Pages : s # p => peerConnections'[s] = peerConnections[s]
       /\ \A s \in Pages : Keyed(peerConnections'[s])
  BY <1>1, <1>10, <1>12, MapChange
<1>15. OfferHandled(p, c, e)
  BY <1>4, <1>6, <1>7, <1>10, <1>11, <1>13, <1>14 DEF OfferHandled
<1> QED
  BY <1>1, <1>2, <1>3, <1>5, <1>12, <1>15

\* An answer finds the end that was offered.
AnswerHandled(p, c, e) ==
    /\ p = c[1] /\ Becomes(p, c, e)
    /\ pc[p][c].sig = "local" /\ pc[p][c].job = "none"
    /\ e.job = "remote" /\ e.sig = pc[p][c].sig /\ e.draining = pc[p][c].draining
    /\ e.added = pc[p][c].added /\ e.gathered = pc[p][c].gathered
    /\ peerConnections' \in [Pages -> Seq(Entries)]
    /\ \A s \in Pages : Keyed(peerConnections'[s])
    /\ Range(peerConnections'[p]) = Range(peerConnections[p])
          \cup {[key |-> c, pc |-> c], [key |-> reverseConnId(c), pc |-> c]}
    /\ \A s \in Pages : s # p => peerConnections'[s] = peerConnections[s]

LEMMA AnswerEffect ==
    ASSUME IInv, NEW p \in Pages, HandleAnswer(p)
    PROVE  \E c \in ConnIds, e \in Ends :
              /\ Head(net[p]) = Msg("answer", c) /\ Receives(p, "answer")
              /\ AnswerHandled(p, c, e)
              /\ Hits(net[p], {Msg("answer", c)}) # {}
              /\ UNCHANGED <<started, sends, candidates, calls, pendingCandidates>>
<1>1. /\ TypeOK /\ EndInv /\ NumberInv /\ MapInv /\ MessageInv /\ PhaseInv
      /\ Receives(p, "answer")
  BY DEF IInv, HandleAnswer
<1>2. PICK m \in Messages : m = Head(net[p]) /\ m.type = "answer" /\ m \in Range(net[p])
  BY <1>1, Received
<1>3. PICK c \in ConnIds : c = m.conn /\ m = Msg("answer", c)
  BY <1>2, MessageParts
<1>4. p = c[1]
  BY <1>1, <1>2, <1>3 DEF MessageInv
<1>5. Hits(net[p], {m}) # {}
  BY <1>2, HitsRange
<1>6. pc[p][c].sig = "local" /\ pc[p][c].job = "none"
  <2>1. Phase(pc[c[1]][c], pc[c[2]][c], Making(c), Offered(c), Answered(c)) /\ Answered(c) # {}
    BY <1>1, <1>3, <1>4, <1>5 DEF PhaseInv, Answered
  <2> QED
    BY <1>4, <2>1 DEF Phase, NotStarted, Starting, OfferSent, Answering, AnswerSent,
                      AnswerTaken, Settled
<1>7. PICK t \in Seq(Entries) : t = peerConnections[p] /\ Keyed(t)
  BY <1>1 DEF TypeOK, Keyed
<1>8. Has(t, c) /\ Get(t, c) = c
  BY <1>1, <1>6, <1>7, Finds DEF Live
<1>9. PICK r \in ConnIds : r = reverseConnId(c) /\ r # c
  BY ConnParts
<1> DEFINE own == [key |-> c, pc |-> c]
           rev == [key |-> r, pc |-> c]
<1>10. PICK u \in Seq(Entries) :
          u = Set(t, c, c) /\ Keyed(u) /\ Range(u) = {f \in Range(t) : f.key # c} \cup {own}
  BY <1>7, MapSet
<1>11. Keyed(u)
  BY <1>10
<1>12. PICK v \in Seq(Entries) :
          v = Set(u, r, c) /\ Keyed(v) /\ Range(v) = {f \in Range(u) : f.key # r} \cup {rev}
  BY <1>11, MapSet
<1>13. \A f \in Range(t) : f \in Entries /\ Entry(p, f)
  BY <1>1, <1>7, RangeIn DEF MapInv
<1>14. ASSUME NEW f \in Range(t), f.key = c
       PROVE  f = own
  <2>1. f.pc = c
    BY <1>1, <1>6, <1>7, <1>13, <1>14, KeyOf
  <2> QED
    BY <1>13, <1>14, <2>1 DEF Entries
<1>15. ASSUME NEW f \in Range(t), f.key = r
       PROVE  f = rev
  <2>1. f.pc \in ConnIds /\ pc[p][f.pc].sig # "none" /\ f.pc[3] = c[3]
    <3>1. f.pc \in ConnIds
      BY <1>13 DEF Entries
    <3>2. pc[p][f.pc].sig # "none"
      BY <1>13 DEF Entry, Live
    <3>3. f.key[3] = f.pc[3]
      BY <1>13, <3>1, ConnParts DEF Entry
    <3> QED
      BY <1>9, <1>15, <3>1, <3>2, <3>3, ConnParts
  <2>2. f.pc = c
    BY <1>1, <1>6, <2>1 DEF NumberInv
  <2> QED
    BY <1>13, <1>15, <2>2 DEF Entries
<1>16. Range(v) = Range(t) \cup {own, rev}
  <2>1. own.key # r
    BY <1>9
  <2> HIDE DEF own, rev
  <2> QED
    BY <1>10, <1>12, <1>14, <1>15, <2>1
<1>17. /\ peerConnections' = [peerConnections EXCEPT ![p] = v]
       /\ pc' = [pc EXCEPT ![p][c].job = "remote"]
       /\ UNCHANGED <<started, sends, candidates, calls, pendingCandidates>>
  <2>1. Head(net[p]).conn = c /\ AnswerKey(peerConnections[p], c) = c
    BY <1>2, <1>3, <1>7, <1>8 DEF AnswerKey
  <2> QED
    BY <1>7, <1>8, <1>9, <1>10, <1>12, <2>1 DEF HandleAnswer
<1>18. PICK e \in Ends :
          /\ Becomes(p, c, e) /\ e.job = "remote" /\ e.sig = pc[p][c].sig
          /\ e.draining = pc[p][c].draining /\ e.added = pc[p][c].added
          /\ e.gathered = pc[p][c].gathered
  BY <1>1, <1>17, BecomesBusy
<1>19. /\ peerConnections' \in [Pages -> Seq(Entries)] /\ peerConnections'[p] = v
       /\ \A s \in Pages : s # p => peerConnections'[s] = peerConnections[s]
       /\ \A s \in Pages : Keyed(peerConnections'[s])
  BY <1>1, <1>12, <1>17, MapChange
<1>20. AnswerHandled(p, c, e)
  BY <1>4, <1>6, <1>7, <1>9, <1>16, <1>18, <1>19 DEF AnswerHandled
<1> QED
  BY <1>1, <1>2, <1>3, <1>5, <1>17, <1>20

\* A candidate is added once the remote description is there, and queued before.
IceAdded(p, c, k, e) ==
    /\ Becomes(p, c, e) /\ HasRemote(p, c)
    /\ e.sig = pc[p][c].sig /\ e.job = pc[p][c].job
    /\ e.draining = pc[p][c].draining /\ e.added = pc[p][c].added \cup {k}
    /\ e.gathered = pc[p][c].gathered /\ UNCHANGED pendingCandidates

IceQueued(p, c, k) ==
    pendingCandidates' = [pendingCandidates EXCEPT ![p][c] = @ \cup {k}] /\ UNCHANGED pc

LEMMA IceEffect ==
    ASSUME IInv, NEW p \in Pages, HandleIce(p)
    PROVE  \E c \in ConnIds, k \in Candidates :
              /\ Head(net[p]) = Ice(c, k) /\ Receives(p, "ice")
              /\ IceQueued(p, c, k) \/ \E e \in Ends : IceAdded(p, c, k, e)
              /\ UNCHANGED <<started, sends, candidates, peerConnections, calls>>
<1>1. TypeOK /\ NumberInv /\ MapInv /\ MessageInv /\ Receives(p, "ice")
      /\ UNCHANGED <<started, sends, candidates, peerConnections, calls>>
  BY DEF IInv, HandleIce
<1>2. PICK m \in Messages : m = Head(net[p]) /\ m.type = "ice" /\ m \in Range(net[p])
  BY <1>1, Received
<1>3. PICK c \in ConnIds, k \in Candidates : m = Ice(c, k) /\ c = m.conn /\ k = m.cand
  BY <1>2, MessageParts
<1>4. PICK r \in Pages : pc[r][c].sig # "none"
  BY <1>1, <1>2, <1>3, ConnParts DEF MessageInv, Peer
<1>5. Has(peerConnections[p], c) => Get(peerConnections[p], c) = c
  BY <1>1, <1>4, Finds
<1>6. CASE CanAdd(p, c)
  <2>1. HasRemote(p, c) /\ pc' = [pc EXCEPT ![p][c].added = @ \cup {k}]
        /\ UNCHANGED pendingCandidates
    BY <1>2, <1>3, <1>5, <1>6 DEF HandleIce, CanAdd
  <2>2. PICK e \in Ends :
           /\ Becomes(p, c, e) /\ e.added = pc[p][c].added \cup {k}
           /\ e.sig = pc[p][c].sig /\ e.job = pc[p][c].job
           /\ e.draining = pc[p][c].draining /\ e.gathered = pc[p][c].gathered
    <3>1. TypeOK /\ AddsOne(p, c, k)
      BY <1>1, <2>1 DEF AddsOne
    <3> QED
      BY <3>1, BecomesAdded
  <2>3. IceAdded(p, c, k, e)
    BY <2>1, <2>2 DEF IceAdded
  <2> QED
    BY <1>1, <1>2, <1>3, <2>3
<1>7. CASE ~CanAdd(p, c)
  <2>1. IceQueued(p, c, k)
    BY <1>2, <1>3, <1>7 DEF HandleIce, IceQueued
  <2> QED
    BY <1>1, <1>2, <1>3, <2>1
<1> QED
  BY <1>6, <1>7

\* An end that fails is closed and its own entry of the Map deleted.
Failed(p, c, e) ==
    /\ Becomes(p, c, e) /\ pc[p][c].sig = "stable"
    /\ e.sig = "closed" /\ e.job = "none" /\ e.draining = {}
    /\ e.gathered = pc[p][c].gathered
    /\ peerConnections' \in [Pages -> Seq(Entries)]
    /\ \A s \in Pages : Keyed(peerConnections'[s])
    /\ Range(peerConnections'[p]) = {f \in Range(peerConnections[p]) : f.key # c}
    /\ \A s \in Pages : s # p => peerConnections'[s] = peerConnections[s]

LEMMA FailEffect ==
    ASSUME TypeOK, NEW p \in Pages, NEW c \in ConnIds, IceFails(p, c)
    PROVE  /\ \E e \in Ends : Failed(p, c, e)
           /\ UNCHANGED <<started, sends, candidates, calls, pendingCandidates, net>>
<1>1. PICK t \in Seq(Entries) : t = peerConnections[p] /\ Keyed(t)
  BY DEF TypeOK, Keyed
<1>2. PICK u \in Seq(Entries) :
         u = Delete(t, c) /\ Keyed(u) /\ Range(u) = {f \in Range(t) : f.key # c}
  BY <1>1, MapDelete
<1>3. peerConnections' = [peerConnections EXCEPT ![p] = u] /\ pc[p][c].sig = "stable"
      /\ UNCHANGED <<started, sends, candidates, calls, pendingCandidates, net>>
  BY <1>1, <1>2 DEF IceFails, Cleanup
<1>4. PICK e \in Ends :
         /\ Becomes(p, c, e) /\ e.sig = "closed" /\ e.job = "none" /\ e.draining = {}
         /\ e.gathered = pc[p][c].gathered
  BY BecomesClosed
<1>5. Keyed(u)
  BY <1>2
<1>6. /\ peerConnections' \in [Pages -> Seq(Entries)] /\ peerConnections'[p] = u
      /\ \A s \in Pages : s # p => peerConnections'[s] = peerConnections[s]
      /\ \A s \in Pages : Keyed(peerConnections'[s])
  BY <1>3, <1>5, MapChange
<1>7. Failed(p, c, e)
  BY <1>1, <1>2, <1>3, <1>4, <1>6 DEF Failed
<1> QED
  BY <1>3, <1>7

\* A candidate is gathered by an end that is there, and sent to the other page.
CandidateSent(p, c, k, e) ==
    /\ p \in {c[1], c[2]} /\ pc[p][c].sig # "none"
    /\ Becomes(p, c, e) /\ e.gathered = pc[p][c].gathered \cup {k}
    /\ e.sig = pc[p][c].sig /\ e.job = pc[p][c].job
    /\ e.draining = pc[p][c].draining /\ e.added = pc[p][c].added
    /\ net' = [net EXCEPT ![Peer(p, c)] = Append(@, Ice(c, k))]

LEMMA GatherEffect ==
    ASSUME TypeOK, EndInv, CallInv, NEW p \in Pages, NEW c \in ConnIds, OnIceCandidate(p, c)
    PROVE  /\ \E k \in Candidates, e \in Ends : CandidateSent(p, c, k, e)
           /\ candidates' \in 0..MaxCandidates
           /\ UNCHANGED <<started, sends, peerConnections, calls, pendingCandidates>>
<1>1. pc[p][c].sig # "none"
  <2>1. CASE \E i \in 1..Len(calls[p]) : calls[p][i].conn = c
    <3>1. PICK i \in 1..Len(calls[p]) : calls[p][i].conn = c
      BY <2>1
    <3>2. calls[p][i] \in Range(calls[p])
      BY DEF Range
    <3> QED
      BY <3>1, <3>2 DEF CallInv
  <2>2. CASE pc[p][c].sig \in {"local", "stable"}
    BY <2>2
  <2>3. CASE pc[p][c].job = "answer"
    BY <2>3 DEF EndInv, NoPC
  <2> QED
    BY <2>1, <2>2, <2>3 DEF OnIceCandidate, Gathers
<1>2. p \in {c[1], c[2]}
  BY <1>1 DEF EndInv
<1>3. PICK k \in Candidates : k = candidates'
  BY DEF OnIceCandidate, TypeOK, Candidates
<1>4. /\ pc' = [pc EXCEPT ![p][c].gathered = @ \cup {k}]
      /\ net' = [net EXCEPT ![Peer(p, c)] = Append(@, Ice(c, k))]
      /\ UNCHANGED <<started, sends, peerConnections, calls, pendingCandidates>>
  BY <1>3 DEF OnIceCandidate
<1>5. PICK e \in Ends :
         /\ Becomes(p, c, e) /\ e.gathered = pc[p][c].gathered \cup {k}
         /\ e.sig = pc[p][c].sig /\ e.job = pc[p][c].job
         /\ e.draining = pc[p][c].draining /\ e.added = pc[p][c].added
  <2>1. GathersOne(p, c, k)
    BY <1>4 DEF GathersOne
  <2> QED
    BY <2>1, BecomesGathered
<1>6. CandidateSent(p, c, k, e)
  BY <1>1, <1>2, <1>4, <1>5 DEF CandidateSent
<1> QED
  BY <1>3, <1>4, <1>6 DEF Candidates

-------------------------------------------------------------------------------
(* What keeps the parts of the invariant.                                      *)

LEMMA EndKept ==
    ASSUME EndInv, TypeOK, NEW p \in Pages, NEW c \in ConnIds, NEW e, Becomes(p, c, e),
           started' = started \/ started' = started + 1,
           e.sig # "none", p \in {c[1], c[2]}, c[3] <= started',
           e.job # "drain" => e.draining = {}
    PROVE  EndInv'
<1>1. started \in Nat
  BY DEF TypeOK
<1> SUFFICES ASSUME NEW r \in Pages, NEW d \in ConnIds
             PROVE  /\ pc'[r][d].sig = "none" => pc'[r][d] = NoPC
                    /\ pc'[r][d].sig # "none" => r \in {d[1], d[2]} /\ d[3] <= started'
                    /\ pc'[r][d].job # "drain" => pc'[r][d].draining = {}
  BY DEF EndInv
<1>2. CASE r = p /\ d = c
  <2>1. pc'[r][d] = e
    BY <1>2 DEF Becomes, Change
  <2> QED
    BY <1>2, <2>1
<1>3. CASE ~(r = p /\ d = c)
  <2>1. pc'[r][d] = pc[r][d]
    BY <1>3 DEF Becomes, Change
  <2>2. d[3] \in Nat
    BY ConnParts
  <2> QED
    BY <1>1, <2>1, <2>2 DEF EndInv
<1> QED
  BY <1>2, <1>3

\* The connection had an end before, or its number is new.
LEMMA NumberKept ==
    ASSUME NumberInv, NEW p \in Pages, NEW c \in ConnIds, NEW e, Becomes(p, c, e),
           \/ \E r \in Pages : pc[r][c].sig # "none"
           \/ \A r \in Pages, d \in ConnIds : pc[r][d].sig # "none" => d[3] # c[3]
    PROVE  NumberInv'
<1> SUFFICES ASSUME NEW r \in Pages, NEW s \in Pages, NEW d \in ConnIds, NEW f \in ConnIds,
                    pc'[r][d].sig # "none", pc'[s][f].sig # "none", d[3] = f[3]
             PROVE  d = f
  BY DEF NumberInv
<1>1. d = c \/ pc[r][d].sig # "none"
  BY DEF Becomes, Change
<1>2. f = c \/ pc[s][f].sig # "none"
  BY DEF Becomes, Change
<1> QED
  BY <1>1, <1>2 DEF NumberInv

\* Ends are never unmade.
LEMMA Grows ==
    ASSUME NEW p \in Pages, NEW c \in ConnIds, NEW e, Becomes(p, c, e), e.sig # "none"
    PROVE  \A r \in Pages, d \in ConnIds : pc[r][d].sig # "none" => pc'[r][d].sig # "none"
BY DEF Becomes, Change

\* An open end stays open.
LEMMA MapKept ==
    ASSUME MapInv, TypeOK, NEW p \in Pages, NEW c \in ConnIds, NEW e, Becomes(p, c, e),
           e.sig \notin {"none", "closed"}, Live(p, c), UNCHANGED peerConnections
    PROVE  MapInv'
<1>1. ASSUME NEW r \in Pages, NEW d \in ConnIds
      PROVE  /\ Live(r, d)' <=> Live(r, d)
             /\ pc[r][d].sig # "none" => pc'[r][d].sig # "none"
  BY DEF Becomes, Change, Live
<1>2. ASSUME NEW r \in Pages, NEW f \in Range(peerConnections[r])
      PROVE  Entry(r, f)'
  <2>1. f.pc \in ConnIds /\ Entry(r, f)
    BY Members DEF MapInv
  <2>2. PICK d \in ConnIds : d = f.pc
    BY <2>1
  <2> QED
    BY <1>1, <2>1, <2>2 DEF Entry, Live
<1> QED
  BY <1>1, <1>2 DEF MapInv

LEMMA CallsKept ==
    ASSUME CallInv, TypeOK,
           \A r \in Pages, d \in ConnIds : pc[r][d].sig # "none" => pc'[r][d].sig # "none",
           \A s \in Pages : Range(calls'[s]) \subseteq Range(calls[s])
    PROVE  CallInv'
<1> SUFFICES ASSUME NEW p \in Pages, NEW j \in Range(calls'[p])
             PROVE  /\ pc'[p][j.conn].sig # "none"
                    /\ j.new => j.conn[1] = p
                    /\ j.at = "offer" => j.new
  BY DEF CallInv
<1>1. j \in Range(calls[p])
  OBVIOUS
<1>2. j.conn \in ConnIds
  BY <1>1, Members
<1> QED
  BY <1>1, <1>2 DEF CallInv

LEMMA MessagesKept ==
    ASSUME MessageInv, TypeOK,
           \A r \in Pages, d \in ConnIds : pc[r][d].sig # "none" => pc'[r][d].sig # "none",
           \A s \in Pages : Range(net'[s]) \subseteq Range(net[s])
    PROVE  MessageInv'
<1> SUFFICES ASSUME NEW p \in Pages, NEW m \in Range(net'[p])
             PROVE  /\ p \in {m.conn[1], m.conn[2]}
                    /\ pc'[Peer(p, m.conn)][m.conn].sig # "none"
                    /\ m.type = "offer" => p = m.conn[2]
                    /\ m.type = "answer" => p = m.conn[1]
  BY DEF MessageInv, Peer
<1>1. m \in Range(net[p])
  OBVIOUS
<1>2. PICK c \in ConnIds : c = m.conn
  BY <1>1, Members
<1>3. Peer(p, c) \in Pages
  BY <1>2, ConnParts DEF Peer
<1> QED
  BY <1>1, <1>2, <1>3 DEF MessageInv

\* A message more, of a connection that its sender has.
LEMMA MessageSent ==
    ASSUME MessageInv, TypeOK, NEW p \in Pages, NEW c \in ConnIds, p \in {c[1], c[2]},
           pc[p][c].sig # "none", NEW m \in Messages, m.conn = c,
           m.type = "offer" => p = c[1], m.type = "answer" => p = c[2],
           net' = [net EXCEPT ![Peer(p, c)] = Append(@, m)],
           \A r \in Pages, d \in ConnIds : pc[r][d].sig # "none" => pc'[r][d].sig # "none"
    PROVE  MessageInv' /\ net' \in [Pages -> Seq(Messages)]
<1>1. PICK s \in Pages : s = Peer(p, c) /\ s \in {c[1], c[2]} /\ s # p /\ Peer(s, c) = p
  BY ConnParts DEF Peer
<1>2. net' = [net EXCEPT ![s] = Append(@, m)]
  BY <1>1
<1>3. /\ net' \in [Pages -> Seq(Messages)]
      /\ Range(net'[s]) = Range(net[s]) \cup {m}
      /\ \A r \in Pages : r # s => net'[r] = net[r]
  BY <1>2, Sent
<1>4. ASSUME NEW r \in Pages, NEW n \in Range(net'[r])
      PROVE  /\ r \in {n.conn[1], n.conn[2]}
             /\ pc'[Peer(r, n.conn)][n.conn].sig # "none"
             /\ n.type = "offer" => r = n.conn[2]
             /\ n.type = "answer" => r = n.conn[1]
  <2>1. CASE n \in Range(net[r])
    <3>1. PICK d \in ConnIds : d = n.conn
      BY <2>1, Members
    <3>2. Peer(r, d) \in Pages
      BY ConnParts DEF Peer
    <3> QED
      BY <2>1, <3>1, <3>2 DEF MessageInv
  <2>2. CASE n \notin Range(net[r])
    <3>1. r = s /\ n = m
      BY <1>3, <1>4, <2>2
    <3>2. c[1] # c[2]
      BY ConnParts
    <3> QED
      BY <1>1, <3>1, <3>2
  <2> QED
    BY <2>1, <2>2
<1> QED
  BY <1>3, <1>4 DEF MessageInv, Peer

LEMMA CandidatesKept ==
    ASSUME CandidateInv, NEW p \in Pages, NEW c \in ConnIds, NEW e, Becomes(p, c, e),
           e.gathered \subseteq pc[p][c].gathered,
           \/ e.sig = "closed"
           \/ /\ pc[p][c].sig # "closed"
              /\ pendingCandidates[p][c] \cup pc[p][c].draining \cup pc[p][c].added
                    \subseteq pendingCandidates'[p][c] \cup e.draining \cup e.added,
           \A r \in Pages, d \in ConnIds :
              r # p \/ d # c => pendingCandidates[r][d] \subseteq pendingCandidates'[r][d],
           \A r \in Pages, d \in ConnIds : \A k :
              Ice(d, k) \in Range(net[r]) => Ice(d, k) \in Range(net'[r])
    PROVE  CandidateInv'
<1> SUFFICES ASSUME NEW r \in Pages, NEW d \in ConnIds, r \in {d[1], d[2]},
                    ~IsClosed(r, d)', NEW k \in pc'[Peer(r, d)][d].gathered
             PROVE  Somewhere(r, d, k)'
  BY DEF CandidateInv, Peer
<1>1. PICK s \in Pages : s = Peer(r, d)
  BY ConnParts DEF Peer
<1>2. k \in pc[s][d].gathered
  <2>1. pc'[s][d] = pc[s][d] \/ (s = p /\ d = c /\ pc'[s][d] = e)
    BY DEF Becomes, Change
  <2> QED
    BY <1>1, <2>1
<1>3. CASE r = p /\ d = c
  <2>1. pc'[r][d] = e
    BY <1>3 DEF Becomes, Change
  <2>2. /\ pc[p][c].sig # "closed"
        /\ pendingCandidates[p][c] \cup pc[p][c].draining \cup pc[p][c].added
              \subseteq pendingCandidates'[p][c] \cup e.draining \cup e.added
    BY <1>3, <2>1 DEF IsClosed
  <2>3. Somewhere(r, d, k)
    BY <1>1, <1>2, <1>3, <2>2 DEF CandidateInv, IsClosed
  <2> QED
    BY <1>3, <2>1, <2>2, <2>3 DEF Somewhere
<1>4. CASE ~(r = p /\ d = c)
  <2>1. pc'[r][d] = pc[r][d]
    BY <1>4 DEF Becomes, Change
  <2>2. Somewhere(r, d, k)
    BY <1>1, <1>2, <2>1 DEF CandidateInv, IsClosed
  <2> QED
    BY <1>4, <2>1, <2>2 DEF Somewhere
<1> QED
  BY <1>3, <1>4

Fewer(S, T) == (S = {} => T = {}) /\ (One(S) => One(T))
Alike(S, T) == (S = {} <=> T = {}) /\ (One(S) => One(T))

LEMMA PhaseKept ==
    ASSUME NEW a, NEW b, NEW m, NEW o, NEW w, NEW a2, NEW b2, NEW m2, NEW o2, NEW w2,
           Phase(a, b, m, o, w), a2.sig = a.sig, a2.job = a.job, b2.sig = b.sig, b2.job = b.job,
           Fewer(m, m2), Alike(o, o2), Alike(w, w2)
    PROVE  Phase(a2, b2, m2, o2, w2)
BY DEF Phase, NotStarted, Starting, OfferSent, Answering, AnswerSent, AnswerTaken, Settled,
       Over, Fewer, Alike

\* A connection whose ends and messages a step leaves as they are.
Untouched(c) ==
    /\ pc'[c[1]][c].sig = pc[c[1]][c].sig /\ pc'[c[1]][c].job = pc[c[1]][c].job
    /\ pc'[c[2]][c].sig = pc[c[2]][c].sig /\ pc'[c[2]][c].job = pc[c[2]][c].job
    /\ Fewer(Making(c), Making(c)') /\ Alike(Offered(c), Offered(c)')
    /\ Alike(Answered(c), Answered(c)')

PhaseOf(c) == Phase(pc[c[1]][c], pc[c[2]][c], Making(c), Offered(c), Answered(c))

LEMMA PhasesKept ==
    ASSUME PhaseInv, \A c \in ConnIds : Untouched(c) \/ PhaseOf(c)'
    PROVE  PhaseInv'
<1> SUFFICES ASSUME NEW c \in ConnIds
             PROVE  PhaseOf(c)'
  BY DEF PhaseInv, PhaseOf, Making, Offered, Answered
<1>1. CASE Untouched(c)
  <2>1. Phase(pc[c[1]][c], pc[c[2]][c], Making(c), Offered(c), Answered(c))
    BY DEF PhaseInv
  <2>2. Phase(pc'[c[1]][c], pc'[c[2]][c], Making(c)', Offered(c)', Answered(c)')
    BY <1>1, <2>1, PhaseKept DEF Untouched
  <2> QED
    BY <2>2 DEF PhaseOf
<1> QED
  BY <1>1

\* What the phases say of an end, for either of the two.
LEMMA Phases ==
    ASSUME PhaseInv, NEW c \in ConnIds
    PROVE  /\ PhaseOf(c)
           /\ pc[c[2]][c].sig # "none" => pc[c[1]][c].sig # "none"
<1>1. PhaseOf(c)
  BY DEF PhaseInv, PhaseOf
<1> QED
  BY <1>1 DEF PhaseOf, Phase, NotStarted, Starting, OfferSent, Answering, AnswerSent,
              AnswerTaken, Settled, Over
-------------------------------------------------------------------------------
(* Every step preserves it.                                                    *)

\* No end has a number that the clock has not reached.
LEMMA Unstarted ==
    ASSUME TypeOK, EndInv, NEW c \in ConnIds, c[3] > started, NEW r \in Pages, NEW d \in ConnIds,
           pc[r][d].sig # "none"
    PROVE  d[3] # c[3]
<1>1. started \in Nat /\ c[3] \in Nat /\ d[3] \in Nat
  BY ConnParts DEF TypeOK
<1> QED
  BY <1>1 DEF EndInv

LEMMA StartStep ==
    ASSUME IInv, NEW p \in Pages, NEW q \in Pages, NEW files \in 1..MaxFiles,
           StartTransfer(p, q, files)
    PROVE  IInv'
<1>1. /\ TypeOK /\ EndInv /\ NumberInv /\ MapInv /\ CallInv /\ MessageInv /\ PhaseInv
      /\ CandidateInv
  BY DEF IInv
<1>2. sends' \in 0..MaxSends /\ UNCHANGED <<candidates, pendingCandidates, net>>
  BY <1>1, StartCases
<1>3. CASE /\ Found(p, q) = {} /\ started' = started + 1 /\ started' \in 1..MaxConns
           /\ \E c \in ConnIds, j \in Calls :
                 /\ c = <<p, q, started'>> /\ pc' = [pc EXCEPT ![p][c] = NewPC]
                 /\ peerConnections' = [peerConnections EXCEPT ![p] = Set(@, c, c)]
                 /\ calls' = [calls EXCEPT ![p] = Append(@, j)]
                 /\ j.conn = c /\ j.new /\ j.at = "hash"
  <2>1. PICK c \in ConnIds, j \in Calls :
           /\ c = <<p, q, started'>> /\ pc' = [pc EXCEPT ![p][c] = NewPC]
           /\ peerConnections' = [peerConnections EXCEPT ![p] = Set(@, c, c)]
           /\ calls' = [calls EXCEPT ![p] = Append(@, j)]
           /\ j.conn = c /\ j.new /\ j.at = "hash"
    BY <1>3
  <2>2. /\ c[1] = p /\ c[2] = q /\ c[3] = started' /\ p # q /\ started' = started + 1
        /\ started \in Nat /\ c[3] > started
    BY <1>1, <1>3, <2>1, ConnParts DEF TypeOK
  <2>3. PICK e \in Ends : e = NewPC
    BY NewEnds
  <2>4. /\ e.sig = "new" /\ e.job = "none" /\ e.draining = {} /\ e.added = {} /\ e.gathered = {}
    BY <2>3 DEF NewPC, NoPC
  <2>5. Becomes(p, c, e)
    BY <1>1, <2>1, <2>3, BecomesNew
  <2>6. \A r \in Pages, d \in ConnIds : pc[r][d].sig # "none" => d[3] # c[3]
    BY <1>1, <2>2, Unstarted
  <2>7. pc[p][c] = NoPC /\ pc[q][c].sig = "none" /\ pc[p][c].sig = "none"
    BY <1>1, <2>6 DEF EndInv
  <2>8. PhaseOf(c)
    BY <1>1, Phases
  <2>9. Making(c) = {} /\ Offered(c) = {} /\ Answered(c) = {}
    BY <2>2, <2>7, <2>8 DEF PhaseOf, Phase, NotStarted, Starting, OfferSent, Answering, AnswerSent,
                            AnswerTaken, Settled, Over
  <2>10. PICK t \in Seq(Entries) : t = peerConnections[p] /\ Keyed(t)
    BY <1>1 DEF TypeOK, Keyed
  <2>11. \A f \in Range(t) : f.key # c
    <3>1. SUFFICES ASSUME NEW f \in Range(t), f.key = c
                   PROVE  FALSE
      OBVIOUS
    <3>2. f.pc \in ConnIds /\ Entry(p, f)
      BY <1>1, <2>10, Members DEF MapInv
    <3>3. pc[p][f.pc].sig # "none" /\ f.pc[3] = c[3]
      BY <3>1, <3>2, ConnParts DEF Entry, Live
    <3> QED
      BY <2>6, <3>2, <3>3
  <2>12. PICK u \in Seq(Entries) :
            u = Set(t, c, c) /\ Keyed(u) /\ Range(u) = Range(t) \cup {[key |-> c, pc |-> c]}
    <3>1. /\ Set(t, c, c) \in Seq(Entries) /\ Keyed(Set(t, c, c))
          /\ Range(Set(t, c, c)) = {f \in Range(t) : f.key # c} \cup {[key |-> c, pc |-> c]}
      BY <2>10, MapSet
    <3> QED
      BY <2>11, <3>1
  <2>13. /\ peerConnections' \in [Pages -> Seq(Entries)] /\ peerConnections'[p] = u
         /\ \A s \in Pages : s # p => peerConnections'[s] = peerConnections[s]
         /\ \A s \in Pages : Keyed(peerConnections'[s])
    <3>1. peerConnections' = [peerConnections EXCEPT ![p] = u] /\ Keyed(u)
      BY <2>1, <2>10, <2>12
    <3> QED
      BY <1>1, <3>1, MapChange
  <2>14. /\ calls' \in [Pages -> Seq(Calls)]
         /\ Range(calls'[p]) = Range(calls[p]) \cup {j}
         /\ \A s \in Pages : s # p => calls'[s] = calls[s]
         /\ \A T : /\ j \notin T => Hits(calls'[p], T) = Hits(calls[p], T)
                   /\ Hits(calls[p], T) = {} => One(Hits(calls'[p], T))
    BY <1>1, <2>1, CallMade
  <2>15. \A r \in Pages, d \in ConnIds : pc[r][d].sig # "none" => pc'[r][d].sig # "none"
    BY <2>4, <2>5, Grows
  <2>16. TypeOK'
    <3>1. started' \in 0..MaxConns
      BY <1>3
    <3>2. pc' \in [Pages -> [ConnIds -> Ends]]
      BY <2>5 DEF Becomes
    <3> QED
      BY <1>1, <1>2, <2>13, <2>14, <3>1, <3>2 DEF TypeOK, Keyed
  <2>17. EndInv'
    BY <1>1, <2>2, <2>4, <2>5, EndKept
  <2>18. NumberInv'
    BY <1>1, <2>5, <2>6, NumberKept
  <2>19. MapInv'
    <3>1. ASSUME NEW r \in Pages, NEW f \in Range(peerConnections[r])
          PROVE  Entry(r, f)'
      <4>1. f.pc \in ConnIds /\ Entry(r, f)
        BY <1>1, Members DEF MapInv
      <4>2. f.pc # c
        BY <2>6, <4>1 DEF Entry, Live
      <4>3. pc'[r][f.pc] = pc[r][f.pc]
        BY <2>5, <4>1, <4>2 DEF Becomes, Change
      <4> QED
        BY <4>1, <4>3 DEF Entry, Live
    <3>2. Entry(p, [key |-> c, pc |-> c])'
      BY <2>4, <2>5 DEF Entry, Live, Becomes, Change
    <3>3. ASSUME NEW r \in Pages, NEW d \in ConnIds, Live(r, d)'
          PROVE  [key |-> d, pc |-> d] \in Range(peerConnections'[r])
      <4>1. CASE r = p /\ d = c
        BY <2>12, <2>13, <4>1
      <4>2. CASE ~(r = p /\ d = c)
        <5>1. Live(r, d)
          BY <2>5, <3>3, <4>2 DEF Live, Becomes, Change
        <5> QED
          BY <1>1, <2>10, <2>12, <2>13, <5>1 DEF MapInv
      <4> QED
        BY <4>1, <4>2
    <3>4. ASSUME NEW r \in Pages, NEW f \in Range(peerConnections'[r])
          PROVE  Entry(r, f)'
      <4>1. f \in Range(peerConnections[r]) \/ (r = p /\ f = [key |-> c, pc |-> c])
        BY <2>10, <2>12, <2>13
      <4> QED
        BY <3>1, <3>2, <4>1
    <3> QED
      BY <3>3, <3>4 DEF MapInv
  <2>20. CallInv'
    <3>1. ASSUME NEW r \in Pages, NEW k \in Range(calls'[r])
          PROVE  /\ pc'[r][k.conn].sig # "none"
                 /\ k.new => k.conn[1] = r
                 /\ k.at = "offer" => k.new
      <4>1. CASE k \in Range(calls[r])
        BY <1>1, <2>15, <4>1, Members DEF CallInv
      <4>2. CASE r = p /\ k = j
        <5>1. pc'[p][c].sig = "new"
          BY <2>4, <2>5 DEF Becomes, Change
        <5>2. k.conn = c /\ k.at = "hash" /\ c[1] = r
          BY <2>1, <2>2, <4>2
        <5> QED
          BY <4>2, <5>1, <5>2
      <4> QED
        BY <2>14, <4>1, <4>2
    <3> QED
      BY <3>1 DEF CallInv
  <2>21. MessageInv'
    BY <1>1, <1>2, <2>15, MessagesKept
  <2>22. PhaseInv'
    <3>1. ASSUME NEW d \in ConnIds, d # c
          PROVE  Untouched(d)
      <4>1. d[1] \in Pages /\ d[2] \in Pages
        BY ConnParts
      <4>2. pc'[d[1]][d] = pc[d[1]][d] /\ pc'[d[2]][d] = pc[d[2]][d]
        BY <2>5, <3>1, <4>1 DEF Becomes, Change
      <4>3. Hits(calls'[d[1]], NewCalls(d)) = Hits(calls[d[1]], NewCalls(d))
        BY <2>1, <2>14, <3>1, <4>1 DEF NewCalls
      <4> QED
        BY <1>2, <4>2, <4>3 DEF Untouched, Making, Offered, Answered, Fewer, Alike
    <3>2. PhaseOf(c)'
      <4>1. pc'[p][c] = e /\ pc'[q][c] = pc[q][c]
        BY <2>2, <2>5 DEF Becomes, Change
      <4>2. One(Making(c)') /\ Offered(c)' = {} /\ Answered(c)' = {}
        BY <1>2, <2>2, <2>9, <2>14 DEF Making, Offered, Answered
      <4> QED
        BY <2>2, <2>4, <2>7, <4>1, <4>2 DEF PhaseOf, Phase, Starting
    <3> QED
      BY <1>1, <3>1, <3>2, PhasesKept
  <2>23. CandidateInv'
    <3>1. /\ pc[p][c].sig # "closed" /\ pc[p][c].draining = {} /\ pc[p][c].added = {}
          /\ pc[p][c].gathered = {}
      BY <2>7 DEF NoPC
    <3> QED
      BY <1>1, <1>2, <2>4, <2>5, <3>1, CandidatesKept
  <2> QED
    BY <2>16, <2>17, <2>18, <2>19, <2>20, <2>21, <2>22, <2>23 DEF IInv
<1>4. CASE UNCHANGED <<started, pc, peerConnections>> /\ calls' = calls
  <2>1. TypeOK'
    BY <1>1, <1>2, <1>4 DEF TypeOK
  <2>2. EndInv' /\ NumberInv' /\ MapInv' /\ CallInv' /\ MessageInv'
    BY <1>1, <1>2, <1>4 DEF EndInv, NumberInv, MapInv, Entry, Live, CallInv, MessageInv
  <2>3. PhaseInv'
    BY <1>1, <1>2, <1>4 DEF PhaseInv, Making, Offered, Answered
  <2>4. CandidateInv'
    BY <1>1, <1>2, <1>4 DEF CandidateInv, Somewhere, IsClosed
  <2> QED
    BY <2>1, <2>2, <2>3, <2>4 DEF IInv
<1>5. CASE /\ UNCHANGED <<started, pc, peerConnections>>
           /\ \E f \in Range(peerConnections[p]), j \in Calls :
                 /\ f \in Entries /\ ~IsClosed(p, f.pc)
                 /\ calls' = [calls EXCEPT ![p] = Append(@, j)]
                 /\ j.conn = f.pc /\ ~j.new /\ j.at = "hash"
  <2>1. PICK f \in Range(peerConnections[p]), j \in Calls :
           /\ f \in Entries /\ calls' = [calls EXCEPT ![p] = Append(@, j)]
           /\ j.conn = f.pc /\ ~j.new /\ j.at = "hash"
    BY <1>5
  <2>2. /\ calls' \in [Pages -> Seq(Calls)]
        /\ Range(calls'[p]) = Range(calls[p]) \cup {j}
        /\ \A s \in Pages : s # p => calls'[s] = calls[s]
        /\ \A T : j \notin T => Hits(calls'[p], T) = Hits(calls[p], T)
    BY <1>1, <2>1, CallMade
  <2>3. pc[p][j.conn].sig # "none"
    BY <1>1, <2>1 DEF MapInv, Entry, Live
  <2>4. CallInv'
    BY <1>1, <1>5, <2>1, <2>2, <2>3 DEF CallInv
  <2>5. PhaseInv'
    <3>1. ASSUME NEW d \in ConnIds
          PROVE  Making(d)' = Making(d) /\ Offered(d)' = Offered(d) /\ Answered(d)' = Answered(d)
      <4>1. d[1] \in Pages /\ j \notin NewCalls(d)
        BY <2>1, ConnParts DEF NewCalls
      <4> QED
        BY <1>2, <2>2, <4>1 DEF Making, Offered, Answered, NewCalls
    <3> QED
      BY <1>1, <1>5, <3>1 DEF PhaseInv
  <2>6. TypeOK'
    BY <1>1, <1>2, <1>5, <2>2 DEF TypeOK
  <2>7. EndInv' /\ NumberInv' /\ MapInv' /\ MessageInv' /\ CandidateInv'
    BY <1>1, <1>2, <1>5 DEF EndInv, NumberInv, MapInv, Entry, Live, MessageInv, CandidateInv,
                            Somewhere, IsClosed
  <2> QED
    BY <2>4, <2>5, <2>6, <2>7 DEF IInv
<1> QED
  BY <1>1, <1>3, <1>4, <1>5, StartCases

\* A call goes on or is over, and nothing else changes.
LEMMA DigestStep ==
    ASSUME IInv, NEW p \in Pages, NEW i \in 1..Len(calls[p]), HashDone(p, i) \/ HashFails(p, i)
    PROVE  IInv'
<1>1. /\ TypeOK /\ EndInv /\ NumberInv /\ MapInv /\ CallInv /\ MessageInv /\ PhaseInv
      /\ CandidateInv
  BY DEF IInv
<1>2. UNCHANGED <<started, sends, candidates, peerConnections, pc, pendingCandidates, net>>
  BY DEF HashDone, HashFails
<1>3. /\ calls' \in [Pages -> Seq(Calls)]
      /\ \A s \in Pages : s # p => calls'[s] = calls[s]
      /\ \A k \in Range(calls'[p]) :
            \/ k \in Range(calls[p])
            \/ \E f \in Range(calls[p]) : k.conn = f.conn /\ k.new = f.new /\ (k.at = "offer" => k.new)
      /\ \A d \in ConnIds : Fewer(Hits(calls[p], NewCalls(d)), Hits(calls'[p], NewCalls(d)))
  <2>1. CASE calls' = [calls EXCEPT ![p] = Others(@, i)]
    <3>1. /\ calls' \in [Pages -> Seq(Calls)]
          /\ Range(calls[p]) = Range(calls'[p]) \cup {calls[p][i]}
          /\ \A s \in Pages : s # p => calls'[s] = calls[s]
          /\ \A T : /\ Hits(calls[p], T) = {} => Hits(calls'[p], T) = {}
                    /\ One(Hits(calls[p], T)) => One(Hits(calls'[p], T))
      BY <1>1, <2>1, CallOver
    <3> QED
      BY <3>1 DEF Fewer
  <2>2. CASE \E j \in Calls :
                /\ calls' = [calls EXCEPT ![p] = [@ EXCEPT ![i] = j]]
                /\ j.conn = calls[p][i].conn /\ j.new = calls[p][i].new
                /\ j.at = "offer" => j.new
    <3>1. PICK j \in Calls :
             /\ calls' = [calls EXCEPT ![p] = [@ EXCEPT ![i] = j]]
             /\ j.conn = calls[p][i].conn /\ j.new = calls[p][i].new
             /\ j.at = "offer" => j.new
      BY <2>2
    <3>2. /\ calls' \in [Pages -> Seq(Calls)]
          /\ Range(calls'[p]) \subseteq Range(calls[p]) \cup {j}
          /\ \A s \in Pages : s # p => calls'[s] = calls[s]
          /\ \A T : (j \in T <=> calls[p][i] \in T) => Hits(calls'[p], T) = Hits(calls[p], T)
      <4>1. TypeOK /\ calls' = [calls EXCEPT ![p] = [@ EXCEPT ![i] = j]]
        BY <1>1, <3>1
      <4> QED
        BY <4>1, CallGoesOn, Zenon
    <3>3. calls[p][i] \in Calls /\ calls[p][i] \in Range(calls[p])
      <4>1. calls[p] \in Seq(Calls)
        BY <1>1 DEF TypeOK
      <4> QED
        BY <4>1, RangeIn
    <3>4. \A d \in ConnIds : j \in NewCalls(d) <=> calls[p][i] \in NewCalls(d)
      BY <3>1, <3>3 DEF NewCalls
    <3> QED
      BY <3>1, <3>2, <3>3, <3>4 DEF Fewer
  <2>3. CASE HashDone(p, i)
    BY <1>1, <2>1, <2>2, <2>3, HashDoneCases
  <2>4. CASE HashFails(p, i)
    BY <2>1, <2>4 DEF HashFails
  <2> QED
    BY <2>3, <2>4
<1>4. TypeOK'
  BY <1>1, <1>2, <1>3 DEF TypeOK
<1>5. EndInv' /\ NumberInv' /\ MapInv' /\ MessageInv'
  BY <1>1, <1>2 DEF EndInv, NumberInv, MapInv, Entry, Live, MessageInv
<1>6. CandidateInv'
  BY <1>1, <1>2 DEF CandidateInv, Somewhere, IsClosed
<1>7. CallInv'
  <2>1. ASSUME NEW r \in Pages, NEW k \in Range(calls'[r])
        PROVE  /\ pc[r][k.conn].sig # "none"
               /\ k.new => k.conn[1] = r
               /\ k.at = "offer" => k.new
    <3>1. CASE k \in Range(calls[r])
      BY <1>1, <3>1 DEF CallInv
    <3>2. CASE k \notin Range(calls[r])
      <4>1. r = p
        BY <1>3, <2>1, <3>2
      <4>2. PICK f \in Range(calls[p]) :
               k.conn = f.conn /\ k.new = f.new /\ (k.at = "offer" => k.new)
        BY <1>3, <2>1, <3>2, <4>1
      <4> QED
        BY <1>1, <4>1, <4>2 DEF CallInv
    <3> QED
      BY <3>1, <3>2
  <2> QED
    BY <1>2, <2>1 DEF CallInv
<1>8. PhaseInv'
  <2>1. ASSUME NEW d \in ConnIds
        PROVE  Untouched(d)
    <3>1. d[1] \in Pages
      BY ConnParts
    <3>2. Fewer(Hits(calls[d[1]], NewCalls(d)), Hits(calls'[d[1]], NewCalls(d)))
      BY <1>3, <3>1 DEF Fewer
    <3> QED
      BY <1>2, <3>2 DEF Untouched, Making, Offered, Answered, NewCalls, Alike
  <2> QED
    BY <1>1, <2>1, PhasesKept
<1> QED
  BY <1>4, <1>5, <1>6, <1>7, <1>8 DEF IInv

LEMMA OfferMadeStep ==
    ASSUME IInv, NEW p \in Pages, NEW i \in 1..Len(calls[p]), OfferMade(p, i)
    PROVE  IInv'
<1>1. /\ TypeOK /\ EndInv /\ NumberInv /\ MapInv /\ CallInv /\ MessageInv /\ PhaseInv
      /\ CandidateInv
  BY DEF IInv
<1>2. PICK j \in Calls : j = calls[p][i] /\ j \in Range(calls[p]) /\ j.at = "offer"
  <2>1. calls[p] \in Seq(Calls)
    BY <1>1 DEF TypeOK
  <2> QED
    BY <2>1, RangeIn DEF OfferMade
<1>3. PICK c \in ConnIds : c = j.conn
  BY <1>1, <1>2, Members
<1>4. j.new /\ p = c[1] /\ j \in NewCalls(c)
  BY <1>1, <1>2, <1>3 DEF CallInv, NewCalls
<1>5. /\ pc' = [pc EXCEPT ![p][c].sig = "local"]
      /\ net' = [net EXCEPT ![c[2]] = Append(@, Msg("offer", c))]
      /\ calls' = [calls EXCEPT ![p] = Others(@, i)]
      /\ UNCHANGED <<started, sends, candidates, peerConnections, pendingCandidates>>
  BY <1>2, <1>3 DEF OfferMade
<1>6. c[2] \in Pages /\ c[1] # c[2]
  BY ConnParts
<1>7. /\ calls' \in [Pages -> Seq(Calls)]
      /\ Range(calls[p]) = Range(calls'[p]) \cup {calls[p][i]}
      /\ \A s \in Pages : s # p => calls'[s] = calls[s]
      /\ \A T : /\ Hits(calls[p], T) = {} => Hits(calls'[p], T) = {}
                /\ One(Hits(calls[p], T)) => One(Hits(calls'[p], T))
                /\ calls[p][i] \in T /\ One(Hits(calls[p], T)) => Hits(calls'[p], T) = {}
  BY <1>1, <1>5, CallOver
<1>8. PICK m \in Messages : m = Msg("offer", c)
  BY MessageTypes
<1>9. /\ net' \in [Pages -> Seq(Messages)]
      /\ Range(net'[c[2]]) = Range(net[c[2]]) \cup {m}
      /\ \A s \in Pages : s # c[2] => net'[s] = net[s]
      /\ \A x : x # m => Hits(net'[c[2]], {x}) = Hits(net[c[2]], {x})
      /\ Hits(net[c[2]], {m}) = {} => Hits(net'[c[2]], {m}) # {} /\ One(Hits(net'[c[2]], {m}))
  <2>1. TypeOK /\ c[2] \in Pages /\ net' = [net EXCEPT ![c[2]] = Append(@, m)]
    BY <1>1, <1>5, <1>6, <1>8
  <2> QED
    BY <2>1, Sent, Zenon
<1>10. Making(c) # {}
  <2>1. Hits(calls[p], NewCalls(c)) # {}
    BY <1>2, <1>4, HitsRange
  <2> QED
    BY <1>4, <2>1 DEF Making
<1>11. Starting(pc[p][c], pc[c[2]][c], Making(c), Offered(c), Answered(c))
  <2>1. PhaseOf(c)
    BY <1>1, Phases
  <2> QED
    BY <1>4, <1>10, <2>1 DEF PhaseOf, Phase, NotStarted, OfferSent, Answering, AnswerSent,
                             AnswerTaken, Settled
<1>12. pc[p][c].sig = "new" /\ pc[p][c].job = "none" /\ Live(p, c)
  BY <1>11 DEF Starting, Live
<1>13. PICK e \in Ends :
          /\ Becomes(p, c, e) /\ e.sig = "local"
          /\ e.job = pc[p][c].job /\ e.draining = pc[p][c].draining
          /\ e.added = pc[p][c].added /\ e.gathered = pc[p][c].gathered
  BY <1>1, <1>5, BecomesOffered
<1>14. \A r \in Pages, d \in ConnIds : pc[r][d].sig # "none" => pc'[r][d].sig # "none"
  BY <1>13, Grows
<1>15. TypeOK'
  <2>1. pc' \in [Pages -> [ConnIds -> Ends]]
    BY <1>13 DEF Becomes
  <2> QED
    BY <1>1, <1>5, <1>7, <1>9, <2>1 DEF TypeOK
<1>16. EndInv'
  BY <1>1, <1>5, <1>12, <1>13, EndKept DEF EndInv
<1>17. NumberInv'
  BY <1>1, <1>12, <1>13, NumberKept
<1>18. MapInv'
  BY <1>1, <1>5, <1>12, <1>13, MapKept
<1>19. CallInv'
  BY <1>1, <1>7, <1>14, CallsKept
<1>20. MessageInv'
  <2>1. net' = [net EXCEPT ![Peer(p, c)] = Append(@, m)]
    BY <1>4, <1>5, <1>8 DEF Peer
  <2>2. m.conn = c /\ m.type = "offer"
    BY <1>8 DEF Msg
  <2> QED
    BY <1>1, <1>4, <1>12, <1>14, <2>1, <2>2, MessageSent
<1>21. PhaseInv'
  <2>1. ASSUME NEW d \in ConnIds, d # c
        PROVE  Untouched(d)
    <3>1. d[1] \in Pages /\ d[2] \in Pages
      BY ConnParts
    <3>2. pc'[d[1]][d] = pc[d[1]][d] /\ pc'[d[2]][d] = pc[d[2]][d]
      BY <1>13, <2>1, <3>1 DEF Becomes, Change
    <3>3. Msg("offer", d) # m /\ Msg("answer", d) # m
      BY <1>8, <2>1 DEF Msg
    <3>4. Offered(d)' = Offered(d) /\ Answered(d)' = Answered(d)
      BY <1>9, <3>1, <3>3 DEF Offered, Answered
    <3>5. Fewer(Making(d), Making(d)')
      BY <1>7, <3>1 DEF Making, Fewer, NewCalls
    <3> QED
      BY <3>2, <3>4, <3>5 DEF Untouched, Alike
  <2>2. PhaseOf(c)'
    <3>1. pc'[p][c] = e /\ pc'[c[2]][c] = pc[c[2]][c]
      BY <1>4, <1>6, <1>13 DEF Becomes, Change
    <3>2. Making(c)' = {}
      BY <1>2, <1>4, <1>7, <1>11 DEF Making, Starting, NewCalls
    <3>3. Offered(c)' # {} /\ One(Offered(c)')
      BY <1>8, <1>9, <1>11 DEF Offered, Starting
    <3>4. Answered(c)' = {}
      BY <1>4, <1>6, <1>9, <1>11 DEF Answered, Starting
    <3> QED
      BY <1>4, <1>11, <1>12, <1>13, <3>1, <3>2, <3>3, <3>4 DEF PhaseOf, Phase, OfferSent, Starting
  <2> QED
    BY <1>1, <2>1, <2>2, PhasesKept
<1>22. CandidateInv'
  <2>1. \A r \in Pages : Range(net[r]) \subseteq Range(net'[r])
    BY <1>9
  <2> QED
    BY <1>1, <1>5, <1>12, <1>13, <2>1, CandidatesKept
<1> QED
  BY <1>15, <1>16, <1>17, <1>18, <1>19, <1>20, <1>21, <1>22 DEF IInv

\* Reading a message leaves the candidates on their way, but for its own.
LEMMA IceStays ==
    ASSUME TypeOK, NEW p \in Pages, NEW type, Receives(p, type), type # "ice"
    PROVE  \A r \in Pages, d \in ConnIds : \A k :
              Ice(d, k) \in Range(net[r]) => Ice(d, k) \in Range(net'[r])
<1>1. PICK m \in Messages :
         /\ m.type = type /\ Range(net[p]) = Range(net'[p]) \cup {m}
         /\ \A s \in Pages : s # p => net'[s] = net[s]
  BY Received
<1>2. \A d \in ConnIds : \A k : Ice(d, k) # m
  BY <1>1 DEF Ice
<1> QED
  BY <1>1, <1>2

LEMMA HandleOfferStep ==
    ASSUME IInv, NEW p \in Pages, HandleOffer(p)
    PROVE  IInv'
<1>1. /\ TypeOK /\ EndInv /\ NumberInv /\ MapInv /\ CallInv /\ MessageInv /\ PhaseInv
      /\ CandidateInv
  BY DEF IInv
<1>2. PICK c \in ConnIds, e \in Ends :
         /\ Head(net[p]) = Msg("offer", c) /\ Receives(p, "offer")
         /\ OfferHandled(p, c, e)
         /\ Hits(net[p], {Msg("offer", c)}) # {}
         /\ UNCHANGED <<started, sends, candidates, calls, pendingCandidates>>
  BY OfferEffect
<1>3. /\ p = c[2] /\ Becomes(p, c, e) /\ pc[p][c] = NoPC
      /\ e.sig = "new" /\ e.job = "remote" /\ e.draining = {} /\ e.added = {} /\ e.gathered = {}
      /\ peerConnections' \in [Pages -> Seq(Entries)]
      /\ \A s \in Pages : Keyed(peerConnections'[s])
      /\ Range(peerConnections'[p]) = Range(peerConnections[p]) \cup {[key |-> c, pc |-> c]}
      /\ \A s \in Pages : s # p => peerConnections'[s] = peerConnections[s]
  BY <1>2 DEF OfferHandled
<1>4. PICK m \in Messages :
         /\ m = Head(net[p]) /\ net' \in [Pages -> Seq(Messages)]
         /\ Range(net[p]) = Range(net'[p]) \cup {m}
         /\ \A s \in Pages : s # p => net'[s] = net[s]
         /\ \A x : /\ One(Hits(net[p], {x})) => One(Hits(net'[p], {x}))
                   /\ Hits(net[p], {x}) = {} => Hits(net'[p], {x}) = {}
                   /\ x # m /\ Hits(net[p], {x}) # {} => Hits(net'[p], {x}) # {}
         /\ One(Hits(net[p], {m})) => Hits(net'[p], {m}) = {}
  BY <1>1, <1>2, Received
<1>5. m = Msg("offer", c)
  BY <1>2, <1>4
<1>6. c[1] \in Pages /\ c[1] # p
  BY <1>3, ConnParts
<1>7. OfferSent(pc[c[1]][c], pc[p][c], Making(c), Offered(c), Answered(c))
  <2>1. PhaseOf(c) /\ Offered(c) # {}
    BY <1>1, <1>2, <1>3, Phases DEF Offered
  <2> QED
    BY <1>3, <2>1 DEF PhaseOf, Phase, NotStarted, Starting, Answering, AnswerSent, AnswerTaken,
                      Settled
<1>8. pc[c[1]][c].sig = "local"
  BY <1>7 DEF OfferSent
<1>9. \A r \in Pages, d \in ConnIds : pc[r][d].sig # "none" => pc'[r][d].sig # "none"
  BY <1>3, Grows
<1>10. TypeOK'
  <2>1. pc' \in [Pages -> [ConnIds -> Ends]]
    BY <1>3 DEF Becomes
  <2> QED
    BY <1>1, <1>2, <1>3, <1>4, <2>1 DEF TypeOK, Keyed
<1>11. EndInv'
  <2>1. c[3] <= started'
    BY <1>1, <1>2, <1>6, <1>8 DEF EndInv
  <2> QED
    BY <1>1, <1>2, <1>3, <2>1, EndKept
<1>12. NumberInv'
  BY <1>1, <1>3, <1>6, <1>8, NumberKept
<1>13. MapInv'
  <2>1. ASSUME NEW r \in Pages, NEW f \in Range(peerConnections'[r])
        PROVE  Entry(r, f)'
    <3>1. CASE r = p /\ f = [key |-> c, pc |-> c]
      BY <1>3, <3>1 DEF Entry, Live, Becomes, Change
    <3>2. CASE f \in Range(peerConnections[r])
      <4>1. f.pc \in ConnIds /\ Entry(r, f)
        BY <1>1, <3>2, Members DEF MapInv
      <4>2. ~(r = p /\ f.pc = c)
        BY <1>3, <4>1 DEF Entry, Live, NoPC
      <4>3. pc'[r][f.pc] = pc[r][f.pc]
        BY <1>3, <4>1, <4>2 DEF Becomes, Change
      <4> QED
        BY <4>1, <4>3 DEF Entry, Live
    <3> QED
      BY <1>3, <2>1, <3>1, <3>2
  <2>2. ASSUME NEW r \in Pages, NEW d \in ConnIds, Live(r, d)'
        PROVE  [key |-> d, pc |-> d] \in Range(peerConnections'[r])
    <3>1. CASE r = p /\ d = c
      BY <1>3, <3>1
    <3>2. CASE ~(r = p /\ d = c)
      <4>1. Live(r, d)
        BY <1>3, <2>2, <3>2 DEF Live, Becomes, Change
      <4> QED
        BY <1>1, <1>3, <4>1 DEF MapInv
    <3> QED
      BY <3>1, <3>2
  <2> QED
    BY <2>1, <2>2 DEF MapInv
<1>14. CallInv'
  BY <1>1, <1>2, <1>9, CallsKept
<1>15. MessageInv'
  <2>1. \A s \in Pages : Range(net'[s]) \subseteq Range(net[s])
    BY <1>4
  <2> QED
    BY <1>1, <1>9, <2>1, MessagesKept
<1>16. PhaseInv'
  <2>1. ASSUME NEW d \in ConnIds, d # c
        PROVE  Untouched(d)
    <3>1. d[1] \in Pages /\ d[2] \in Pages
      BY ConnParts
    <3>2. pc'[d[1]][d] = pc[d[1]][d] /\ pc'[d[2]][d] = pc[d[2]][d]
      BY <1>3, <2>1, <3>1 DEF Becomes, Change
    <3>3. Msg("offer", d) # m /\ Msg("answer", d) # m
      BY <1>5, <2>1 DEF Msg
    <3>4. Alike(Offered(d), Offered(d)') /\ Alike(Answered(d), Answered(d)')
      BY <1>4, <3>1, <3>3 DEF Offered, Answered, Alike
    <3>5. Making(d)' = Making(d)
      BY <1>2 DEF Making, NewCalls
    <3> QED
      BY <3>2, <3>4, <3>5 DEF Untouched, Fewer
  <2>2. PhaseOf(c)'
    <3>1. pc'[p][c] = e /\ pc'[c[1]][c] = pc[c[1]][c]
      BY <1>3, <1>6 DEF Becomes, Change
    <3>2. Making(c)' = {}
      BY <1>2, <1>7 DEF Making, OfferSent, NewCalls
    <3>3. Offered(c)' = {}
      BY <1>3, <1>4, <1>5, <1>7 DEF Offered, OfferSent
    <3>4. Answered(c)' = {}
      BY <1>4, <1>6, <1>7 DEF Answered, OfferSent
    <3> QED
      BY <1>3, <1>7, <3>1, <3>2, <3>3, <3>4 DEF PhaseOf, Phase, OfferSent, Answering
  <2> QED
    BY <1>1, <2>1, <2>2, PhasesKept
<1>17. CandidateInv'
  <2>1. /\ pc[p][c].sig # "closed" /\ pc[p][c].draining = {} /\ pc[p][c].added = {}
        /\ pc[p][c].gathered = {}
    BY <1>3 DEF NoPC
  <2>2. \A r \in Pages, d \in ConnIds : \A k :
           Ice(d, k) \in Range(net[r]) => Ice(d, k) \in Range(net'[r])
    BY <1>1, <1>2, IceStays
  <2> QED
    BY <1>1, <1>2, <1>3, <2>1, <2>2, CandidatesKept
<1> QED
  BY <1>10, <1>11, <1>12, <1>13, <1>14, <1>15, <1>16, <1>17 DEF IInv

LEMMA HandleAnswerStep ==
    ASSUME IInv, NEW p \in Pages, HandleAnswer(p)
    PROVE  IInv'
<1>1. /\ TypeOK /\ EndInv /\ NumberInv /\ MapInv /\ CallInv /\ MessageInv /\ PhaseInv
      /\ CandidateInv
  BY DEF IInv
<1>2. PICK c \in ConnIds, e \in Ends :
         /\ Head(net[p]) = Msg("answer", c) /\ Receives(p, "answer")
         /\ AnswerHandled(p, c, e)
         /\ Hits(net[p], {Msg("answer", c)}) # {}
         /\ UNCHANGED <<started, sends, candidates, calls, pendingCandidates>>
  BY AnswerEffect
<1> DEFINE own == [key |-> c, pc |-> c]
           rev == [key |-> reverseConnId(c), pc |-> c]
<1>3. /\ p = c[1] /\ Becomes(p, c, e)
      /\ pc[p][c].sig = "local" /\ pc[p][c].job = "none"
      /\ e.job = "remote" /\ e.sig = pc[p][c].sig /\ e.draining = pc[p][c].draining
      /\ e.added = pc[p][c].added /\ e.gathered = pc[p][c].gathered
      /\ peerConnections' \in [Pages -> Seq(Entries)]
      /\ \A s \in Pages : Keyed(peerConnections'[s])
      /\ Range(peerConnections'[p]) = Range(peerConnections[p]) \cup {own, rev}
      /\ \A s \in Pages : s # p => peerConnections'[s] = peerConnections[s]
  BY <1>2 DEF AnswerHandled
<1>4. PICK m \in Messages :
         /\ m = Head(net[p]) /\ net' \in [Pages -> Seq(Messages)]
         /\ Range(net[p]) = Range(net'[p]) \cup {m}
         /\ \A s \in Pages : s # p => net'[s] = net[s]
         /\ \A x : /\ One(Hits(net[p], {x})) => One(Hits(net'[p], {x}))
                   /\ Hits(net[p], {x}) = {} => Hits(net'[p], {x}) = {}
                   /\ x # m /\ Hits(net[p], {x}) # {} => Hits(net'[p], {x}) # {}
         /\ One(Hits(net[p], {m})) => Hits(net'[p], {m}) = {}
  BY <1>1, <1>2, Received
<1>5. m = Msg("answer", c)
  BY <1>2, <1>4
<1>6. c[2] \in Pages /\ c[2] # p
  BY <1>3, ConnParts
<1>7. AnswerSent(pc[p][c], pc[c[2]][c], Making(c), Offered(c), Answered(c))
  <2>1. PhaseOf(c) /\ Answered(c) # {}
    BY <1>1, <1>2, <1>3, Phases DEF Answered
  <2> QED
    BY <1>3, <2>1 DEF PhaseOf, Phase, NotStarted, Starting, OfferSent, Answering, AnswerTaken,
                      Settled
<1>8. \A r \in Pages, d \in ConnIds : pc[r][d].sig # "none" => pc'[r][d].sig # "none"
  BY <1>3, Grows
<1>9. TypeOK'
  <2>1. pc' \in [Pages -> [ConnIds -> Ends]]
    BY <1>3 DEF Becomes
  <2> QED
    BY <1>1, <1>2, <1>3, <1>4, <2>1 DEF TypeOK, Keyed
<1>10. EndInv'
  <2>1. c[3] <= started' /\ e.draining = {}
    BY <1>1, <1>2, <1>3 DEF EndInv
  <2> QED
    BY <1>1, <1>2, <1>3, <2>1, EndKept
<1>11. NumberInv'
  BY <1>1, <1>3, NumberKept
<1>12. MapInv'
  <2>1. ASSUME NEW r \in Pages, NEW d \in ConnIds
        PROVE  /\ Live(r, d)' <=> Live(r, d)
               /\ pc[r][d].sig # "none" => pc'[r][d].sig # "none"
    BY <1>3 DEF Live, Becomes, Change
  <2>2. ASSUME NEW r \in Pages, NEW f \in Range(peerConnections'[r])
        PROVE  Entry(r, f)'
    <3>1. CASE r = p /\ f = own
      BY <1>3, <2>1, <3>1 DEF Entry, Live
    <3>2. CASE r = p /\ f = rev
      BY <1>3, <2>1, <3>2 DEF Entry, Live
    <3>3. CASE f \in Range(peerConnections[r])
      <4>1. PICK d \in ConnIds : d = f.pc /\ Entry(r, f)
        BY <1>1, <3>3, Members DEF MapInv
      <4> QED
        BY <2>1, <4>1 DEF Entry, Live
    <3> QED
      BY <1>3, <2>2, <3>1, <3>2, <3>3
  <2> HIDE DEF own, rev
  <2>3. \A r \in Pages : Range(peerConnections[r]) \subseteq Range(peerConnections'[r])
    BY <1>3
  <2> QED
    BY <1>1, <2>1, <2>2, <2>3 DEF MapInv
<1>13. CallInv'
  BY <1>1, <1>2, <1>8, CallsKept
<1>14. MessageInv'
  <2>1. \A s \in Pages : Range(net'[s]) \subseteq Range(net[s])
    BY <1>4
  <2> QED
    BY <1>1, <1>8, <2>1, MessagesKept
<1>15. PhaseInv'
  <2>1. ASSUME NEW d \in ConnIds, d # c
        PROVE  Untouched(d)
    <3>1. d[1] \in Pages /\ d[2] \in Pages
      BY ConnParts
    <3>2. pc'[d[1]][d] = pc[d[1]][d] /\ pc'[d[2]][d] = pc[d[2]][d]
      BY <1>3, <2>1, <3>1 DEF Becomes, Change
    <3>3. Msg("offer", d) # m /\ Msg("answer", d) # m
      BY <1>5, <2>1 DEF Msg
    <3>4. Alike(Offered(d), Offered(d)') /\ Alike(Answered(d), Answered(d)')
      BY <1>4, <3>1, <3>3 DEF Offered, Answered, Alike
    <3>5. Making(d)' = Making(d)
      BY <1>2 DEF Making, NewCalls
    <3> QED
      BY <3>2, <3>4, <3>5 DEF Untouched, Fewer
  <2>2. PhaseOf(c)'
    <3>1. pc'[p][c] = e /\ pc'[c[2]][c] = pc[c[2]][c]
      BY <1>3, <1>6 DEF Becomes, Change
    <3>2. Making(c)' = {}
      BY <1>2, <1>7 DEF Making, AnswerSent, NewCalls
    <3>3. Offered(c)' = {}
      BY <1>4, <1>6, <1>7 DEF Offered, AnswerSent
    <3>4. Answered(c)' = {}
      BY <1>3, <1>4, <1>5, <1>7 DEF Answered, AnswerSent
    <3> QED
      BY <1>3, <1>7, <3>1, <3>2, <3>3, <3>4 DEF PhaseOf, Phase, AnswerSent, AnswerTaken
  <2> QED
    BY <1>1, <2>1, <2>2, PhasesKept
<1>16. CandidateInv'
  <2>1. \A r \in Pages, d \in ConnIds : \A k :
           Ice(d, k) \in Range(net[r]) => Ice(d, k) \in Range(net'[r])
    BY <1>1, <1>2, IceStays
  <2> QED
    BY <1>1, <1>2, <1>3, <2>1, CandidatesKept
<1> QED
  BY <1>9, <1>10, <1>11, <1>12, <1>13, <1>14, <1>15, <1>16 DEF IInv

\* A candidate that arrives is queued or added; the end stays in its phase.
LEMMA HandleIceStep ==
    ASSUME IInv, NEW p \in Pages, HandleIce(p)
    PROVE  IInv'
<1>1. /\ TypeOK /\ EndInv /\ NumberInv /\ MapInv /\ CallInv /\ MessageInv /\ PhaseInv
      /\ CandidateInv
  BY DEF IInv
<1>2. PICK c \in ConnIds, k \in Candidates :
         /\ Head(net[p]) = Ice(c, k) /\ Receives(p, "ice")
         /\ IceQueued(p, c, k) \/ \E e \in Ends : IceAdded(p, c, k, e)
         /\ UNCHANGED <<started, sends, candidates, peerConnections, calls>>
  BY IceEffect
<1>3. PICK m \in Messages :
         /\ m = Head(net[p]) /\ m.type = "ice" /\ m \in Range(net[p])
         /\ net' \in [Pages -> Seq(Messages)]
         /\ Range(net[p]) = Range(net'[p]) \cup {m}
         /\ \A s \in Pages : s # p => net'[s] = net[s]
         /\ \A x : /\ One(Hits(net[p], {x})) => One(Hits(net'[p], {x}))
                   /\ Hits(net[p], {x}) = {} => Hits(net'[p], {x}) = {}
                   /\ x # m /\ Hits(net[p], {x}) # {} => Hits(net'[p], {x}) # {}
         /\ One(Hits(net[p], {m})) => Hits(net'[p], {m}) = {}
  <2>1. TypeOK /\ Receives(p, "ice")
    BY <1>1, <1>2
  <2> QED
    BY <2>1, Received, Zenon
<1>4. m = Ice(c, k)
  BY <1>2, <1>3
\* The ends keep their state; the candidate is where it belongs, the others stay.
<1>5. /\ pc' \in [Pages -> [ConnIds -> Ends]]
      /\ pendingCandidates' \in [Pages -> [ConnIds -> SUBSET Candidates]]
      /\ \A r \in Pages, d \in ConnIds :
            /\ pc'[r][d].sig = pc[r][d].sig /\ pc'[r][d].job = pc[r][d].job
            /\ pc'[r][d].draining = pc[r][d].draining
            /\ pc'[r][d].gathered = pc[r][d].gathered
            /\ pc[r][d].added \subseteq pc'[r][d].added
            /\ pc[r][d].sig = "none" => pc'[r][d] = pc[r][d]
            /\ pendingCandidates[r][d] \subseteq pendingCandidates'[r][d]
      /\ k \in pendingCandidates'[p][c] \/ k \in pc'[p][c].added
  <2>1. CASE IceQueued(p, c, k)
    BY <1>1, <2>1 DEF IceQueued, TypeOK
  <2>2. CASE \E e \in Ends : IceAdded(p, c, k, e)
    <3>1. PICK e \in Ends : IceAdded(p, c, k, e)
      BY <2>2
    <3>2. /\ pc' \in [Pages -> [ConnIds -> Ends]] /\ Change(p, c, e) /\ pc[p][c].sig # "none"
          /\ e.sig = pc[p][c].sig /\ e.job = pc[p][c].job
          /\ e.draining = pc[p][c].draining /\ e.added = pc[p][c].added \cup {k}
          /\ e.gathered = pc[p][c].gathered /\ UNCHANGED pendingCandidates
      BY <3>1 DEF IceAdded, Becomes, HasRemote
    <3>3. pendingCandidates' \in [Pages -> [ConnIds -> SUBSET Candidates]]
      BY <1>1, <3>2 DEF TypeOK
    <3>4. k \in pc'[p][c].added
      BY <3>2 DEF Change
    <3>5. ASSUME NEW r \in Pages, NEW d \in ConnIds
          PROVE  /\ pc'[r][d].sig = pc[r][d].sig /\ pc'[r][d].job = pc[r][d].job
                 /\ pc'[r][d].draining = pc[r][d].draining
                 /\ pc'[r][d].gathered = pc[r][d].gathered
                 /\ pc[r][d].added \subseteq pc'[r][d].added
                 /\ pc[r][d].sig = "none" => pc'[r][d] = pc[r][d]
                 /\ pendingCandidates[r][d] \subseteq pendingCandidates'[r][d]
      <4>1. CASE r = p /\ d = c
        <5>1. pc'[r][d] = e
          BY <3>2, <4>1 DEF Change
        <5> QED
          BY <3>2, <4>1, <5>1
      <4>2. CASE ~(r = p /\ d = c)
        <5>1. pc'[r][d] = pc[r][d]
          BY <3>2, <4>2 DEF Change
        <5> QED
          BY <3>2, <5>1
      <4> QED
        BY <4>1, <4>2
    <3> QED
      BY <3>2, <3>3, <3>4, <3>5
  <2> QED
    BY <1>2, <2>1, <2>2
<1>6. TypeOK'
  BY <1>1, <1>2, <1>3, <1>5 DEF TypeOK
<1>7. EndInv'
  <2>1. ASSUME NEW r \in Pages, NEW d \in ConnIds
        PROVE  /\ pc'[r][d].sig = "none" => pc'[r][d] = NoPC
               /\ pc'[r][d].sig # "none" => r \in {d[1], d[2]} /\ d[3] <= started'
               /\ pc'[r][d].job # "drain" => pc'[r][d].draining = {}
    <3>1. /\ pc'[r][d].sig = pc[r][d].sig /\ pc'[r][d].job = pc[r][d].job
          /\ pc'[r][d].draining = pc[r][d].draining
          /\ pc[r][d].sig = "none" => pc'[r][d] = pc[r][d]
      BY <1>5
    <3>2. /\ pc[r][d].sig = "none" => pc[r][d] = NoPC
          /\ pc[r][d].sig # "none" => r \in {d[1], d[2]} /\ d[3] <= started
          /\ pc[r][d].job # "drain" => pc[r][d].draining = {}
      BY <1>1 DEF EndInv
    <3> QED
      BY <1>2, <3>1, <3>2
  <2> QED
    BY <2>1 DEF EndInv
<1>8. NumberInv'
  <2>1. \A r \in Pages, d \in ConnIds : pc'[r][d].sig = pc[r][d].sig
    BY <1>5
  <2> QED
    BY <1>1, <2>1 DEF NumberInv
<1>9. MapInv'
  <2>1. ASSUME NEW r \in Pages, NEW f \in Range(peerConnections[r])
        PROVE  Entry(r, f)'
    <3>1. PICK d \in ConnIds : d = f.pc /\ Entry(r, f)
      BY <1>1, Members DEF MapInv
    <3> QED
      BY <1>5, <3>1 DEF Entry, Live
  <2>2. \A r \in Pages, d \in ConnIds : Live(r, d)' => Live(r, d)
    BY <1>5 DEF Live
  <2> QED
    BY <1>1, <1>2, <2>1, <2>2 DEF MapInv
<1>10. CallInv'
  BY <1>1, <1>2, <1>5, CallsKept
<1>11. MessageInv'
  <2>1. \A s \in Pages : Range(net'[s]) \subseteq Range(net[s])
    BY <1>3
  <2> QED
    BY <1>1, <1>5, <2>1, MessagesKept
<1>12. PhaseInv'
  <2>1. ASSUME NEW d \in ConnIds
        PROVE  Untouched(d)
    <3>1. d[1] \in Pages /\ d[2] \in Pages
      BY ConnParts
    <3>2. Msg("offer", d) # m /\ Msg("answer", d) # m
      BY <1>4 DEF Msg, Ice
    <3>3. Alike(Offered(d), Offered(d)') /\ Alike(Answered(d), Answered(d)')
      BY <1>3, <3>1, <3>2 DEF Offered, Answered, Alike
    <3>4. Making(d)' = Making(d)
      BY <1>2 DEF Making, NewCalls
    <3> QED
      BY <1>5, <3>1, <3>3, <3>4 DEF Untouched, Fewer
  <2> QED
    BY <1>1, <2>1, PhasesKept
<1>13. CandidateInv'
  <2> SUFFICES ASSUME NEW r \in Pages, NEW d \in ConnIds, r \in {d[1], d[2]},
                      ~IsClosed(r, d)', NEW n \in pc'[Peer(r, d)][d].gathered
               PROVE  Somewhere(r, d, n)'
    BY DEF CandidateInv, Peer
  <2>1. Peer(r, d) \in Pages
    BY ConnParts DEF Peer
  <2>2. Somewhere(r, d, n)
    <3>1. ~IsClosed(r, d) /\ n \in pc[Peer(r, d)][d].gathered
      BY <1>5, <2>1 DEF IsClosed
    <3> QED
      BY <1>1, <3>1 DEF CandidateInv
  <2>3. CASE r = p /\ Ice(d, n) = m
    <3>1. d = c /\ n = k
      BY <1>4, <2>3 DEF Ice
    <3> QED
      BY <1>5, <2>3, <3>1 DEF Somewhere
  <2>4. CASE ~(r = p /\ Ice(d, n) = m)
    <3>1. Ice(d, n) \in Range(net[r]) => Ice(d, n) \in Range(net'[r])
      BY <1>3, <2>4
    <3> QED
      BY <1>5, <2>2, <3>1 DEF Somewhere
  <2> QED
    BY <2>3, <2>4
<1> QED
  BY <1>6, <1>7, <1>8, <1>9, <1>10, <1>11, <1>12, <1>13 DEF IInv

\* The other end gets a candidate to expect, and the message that brings it.
LEMMA OnIceCandidateStep ==
    ASSUME IInv, NEW p \in Pages, NEW c \in ConnIds, OnIceCandidate(p, c)
    PROVE  IInv'
<1>1. /\ TypeOK /\ EndInv /\ NumberInv /\ MapInv /\ CallInv /\ MessageInv /\ PhaseInv
      /\ CandidateInv
  BY DEF IInv
<1>2. /\ candidates' \in 0..MaxCandidates
      /\ UNCHANGED <<started, sends, peerConnections, calls, pendingCandidates>>
  BY <1>1, GatherEffect
<1>3. PICK k \in Candidates, e \in Ends :
         /\ p \in {c[1], c[2]} /\ pc[p][c].sig # "none"
         /\ Becomes(p, c, e) /\ e.gathered = pc[p][c].gathered \cup {k}
         /\ e.sig = pc[p][c].sig /\ e.job = pc[p][c].job
         /\ e.draining = pc[p][c].draining /\ e.added = pc[p][c].added
         /\ net' = [net EXCEPT ![Peer(p, c)] = Append(@, Ice(c, k))]
  BY <1>1, GatherEffect DEF CandidateSent
<1>4. PICK m \in Messages : m = Ice(c, k)
  BY MessageTypes
<1>5. m.conn = c /\ m.type = "ice"
  BY <1>4 DEF Ice
<1>6. PICK q \in Pages : q = Peer(p, c) /\ q # p /\ q \in {c[1], c[2]}
  BY <1>3, ConnParts DEF Peer
<1>7. net' = [net EXCEPT ![q] = Append(@, m)]
  BY <1>3, <1>4, <1>6
<1>8. /\ net' \in [Pages -> Seq(Messages)]
      /\ Range(net'[q]) = Range(net[q]) \cup {m}
      /\ \A s \in Pages : s # q => net'[s] = net[s]
      /\ \A x : x # m => Hits(net'[q], {x}) = Hits(net[q], {x})
  BY <1>1, <1>7, Sent
<1>9. pc' \in [Pages -> [ConnIds -> Ends]] /\ Change(p, c, e)
  BY <1>3 DEF Becomes
<1>10. ASSUME NEW r \in Pages, NEW d \in ConnIds
       PROVE  /\ pc'[r][d].sig = pc[r][d].sig /\ pc'[r][d].job = pc[r][d].job
              /\ pc'[r][d].draining = pc[r][d].draining /\ pc'[r][d].added = pc[r][d].added
              /\ pc'[r][d].gathered \subseteq pc[r][d].gathered
                    \cup IF r = p /\ d = c THEN {k} ELSE {}
  <2>1. CASE r = p /\ d = c
    <3>1. pc'[r][d] = e
      BY <1>9, <2>1 DEF Change
    <3> QED
      BY <1>3, <2>1, <3>1
  <2>2. CASE ~(r = p /\ d = c)
    <3>1. pc'[r][d] = pc[r][d]
      BY <1>9, <2>2 DEF Change
    <3> QED
      BY <3>1
  <2> QED
    BY <2>1, <2>2
<1>11. TypeOK'
  BY <1>1, <1>2, <1>8, <1>9 DEF TypeOK
<1>12. EndInv'
  <2>1. c[3] <= started' /\ e.sig # "none" /\ (e.job # "drain" => e.draining = {})
    BY <1>1, <1>2, <1>3 DEF EndInv
  <2> QED
    BY <1>1, <1>2, <1>3, <2>1, EndKept
<1>13. NumberInv'
  BY <1>1, <1>10 DEF NumberInv
<1>14. MapInv'
  <2>1. ASSUME NEW r \in Pages, NEW f \in Range(peerConnections[r])
        PROVE  Entry(r, f)'
    <3>1. PICK d \in ConnIds : d = f.pc /\ Entry(r, f)
      BY <1>1, Members DEF MapInv
    <3> QED
      BY <1>10, <3>1 DEF Entry, Live
  <2>2. \A r \in Pages, d \in ConnIds : Live(r, d)' => Live(r, d)
    BY <1>10 DEF Live
  <2> QED
    BY <1>1, <1>2, <2>1, <2>2 DEF MapInv
<1>15. CallInv'
  BY <1>1, <1>2, <1>10, CallsKept
<1>16. MessageInv'
  <2>1. net' = [net EXCEPT ![Peer(p, c)] = Append(@, m)]
    BY <1>3, <1>4
  <2>2. \A r \in Pages, d \in ConnIds : pc[r][d].sig # "none" => pc'[r][d].sig # "none"
    BY <1>10
  <2>3. p \in {c[1], c[2]} /\ pc[p][c].sig # "none"
        /\ (m.type = "offer" => p = c[1]) /\ (m.type = "answer" => p = c[2])
    BY <1>3, <1>5
  <2> QED
    BY <1>1, <1>5, <2>1, <2>2, <2>3, MessageSent
<1>17. PhaseInv'
  <2>1. ASSUME NEW d \in ConnIds
        PROVE  Untouched(d)
    <3>1. d[1] \in Pages /\ d[2] \in Pages
      BY ConnParts
    <3>2. Msg("offer", d) # m /\ Msg("answer", d) # m
      BY <1>4 DEF Msg, Ice
    <3>3. Offered(d)' = Offered(d) /\ Answered(d)' = Answered(d)
      BY <1>8, <3>1, <3>2 DEF Offered, Answered
    <3>4. Making(d)' = Making(d)
      BY <1>2 DEF Making, NewCalls
    <3> QED
      BY <1>10, <3>1, <3>3, <3>4 DEF Untouched, Fewer, Alike
  <2> QED
    BY <1>1, <2>1, PhasesKept
<1>18. CandidateInv'
  <2> SUFFICES ASSUME NEW r \in Pages, NEW d \in ConnIds, r \in {d[1], d[2]},
                      ~IsClosed(r, d)', NEW n \in pc'[Peer(r, d)][d].gathered
               PROVE  Somewhere(r, d, n)'
    BY DEF CandidateInv, Peer
  <2>1. PICK s \in Pages : s = Peer(r, d)
    BY ConnParts DEF Peer
  <2>2. Range(net[r]) \subseteq Range(net'[r])
    BY <1>8
  <2>3. CASE n \in pc[s][d].gathered
    <3>1. Somewhere(r, d, n)
      BY <1>1, <1>10, <2>1, <2>3 DEF CandidateInv, IsClosed
    <3> QED
      BY <1>2, <1>10, <2>2, <3>1 DEF Somewhere
  <2>4. CASE n \notin pc[s][d].gathered
    <3>1. s = p /\ d = c /\ n = k
      BY <1>10, <2>1, <2>4
    <3>2. r = q
      BY <1>3, <1>6, <2>1, <3>1, ConnParts DEF Peer
    <3> QED
      BY <1>4, <1>8, <3>1, <3>2 DEF Somewhere
  <2> QED
    BY <2>3, <2>4
<1> QED
  BY <1>11, <1>12, <1>13, <1>14, <1>15, <1>16, <1>17, <1>18 DEF IInv

\* A handler goes on: the end c at p becomes e, with the candidates it had.
Proceeds(p, c, e) ==
    /\ Becomes(p, c, e) /\ p \in {c[1], c[2]} /\ c[3] <= started /\ Live(p, c)
    /\ e.sig \notin {"none", "closed"} /\ e.gathered = pc[p][c].gathered
    /\ e.job # "drain" => e.draining = {}
    /\ pendingCandidates[p][c] \cup pc[p][c].draining \cup pc[p][c].added
          \subseteq pendingCandidates'[p][c] \cup e.draining \cup e.added
    /\ \A r \in Pages, d \in ConnIds :
          r # p \/ d # c => pendingCandidates'[r][d] = pendingCandidates[r][d]
    /\ pendingCandidates' \in [Pages -> [ConnIds -> SUBSET Candidates]]
    /\ UNCHANGED <<started, sends, candidates, peerConnections, calls>>

LEMMA Proceeding ==
    ASSUME IInv, NEW p \in Pages, NEW c \in ConnIds, NEW e, Proceeds(p, c, e),
           \/ UNCHANGED net
           \/ /\ p = c[2]
              /\ net' = [net EXCEPT ![Peer(p, c)] = Append(@, Msg("answer", c))],
           PhaseOf(c)'
    PROVE  IInv'
<1>1. /\ TypeOK /\ EndInv /\ NumberInv /\ MapInv /\ CallInv /\ MessageInv /\ PhaseInv
      /\ CandidateInv
  BY DEF IInv
<1>2. /\ Becomes(p, c, e) /\ p \in {c[1], c[2]} /\ c[3] <= started /\ Live(p, c)
      /\ e.sig \notin {"none", "closed"} /\ e.gathered = pc[p][c].gathered
      /\ e.job # "drain" => e.draining = {}
      /\ pendingCandidates[p][c] \cup pc[p][c].draining \cup pc[p][c].added
            \subseteq pendingCandidates'[p][c] \cup e.draining \cup e.added
      /\ \A r \in Pages, d \in ConnIds :
            r # p \/ d # c => pendingCandidates'[r][d] = pendingCandidates[r][d]
      /\ pendingCandidates' \in [Pages -> [ConnIds -> SUBSET Candidates]]
      /\ UNCHANGED <<started, sends, candidates, peerConnections, calls>>
  BY DEF Proceeds
<1>3. \A r \in Pages, d \in ConnIds : pc[r][d].sig # "none" => pc'[r][d].sig # "none"
  BY <1>2, Grows
<1>4. PICK m \in Messages : m = Msg("answer", c) /\ m.conn = c /\ m.type = "answer"
  BY MessageTypes DEF Msg
<1>5. PICK q \in Pages : q = Peer(p, c) /\ q # p
  BY <1>2, ConnParts DEF Peer
<1>6. pc[p][c].sig \notin {"none", "closed"}
  BY <1>2 DEF Live
<1>7. /\ net' \in [Pages -> Seq(Messages)] /\ MessageInv'
      /\ \A r \in Pages : Range(net[r]) \subseteq Range(net'[r])
      /\ \A r \in Pages : \A x : r # q \/ x # m => Hits(net'[r], {x}) = Hits(net[r], {x})
  <2>1. CASE UNCHANGED net
    <3>1. MessageInv'
      BY <1>1, <1>3, <2>1, MessagesKept
    <3> QED
      BY <1>1, <2>1, <3>1 DEF TypeOK
  <2>2. CASE p = c[2] /\ net' = [net EXCEPT ![Peer(p, c)] = Append(@, Msg("answer", c))]
    <3>1. net' = [net EXCEPT ![Peer(p, c)] = Append(@, m)] /\ net' = [net EXCEPT ![q] = Append(@, m)]
      BY <1>4, <1>5, <2>2
    <3>2. MessageInv'
      <4>1. /\ m.conn = c /\ (m.type = "offer" => p = c[1]) /\ (m.type = "answer" => p = c[2])
            /\ p \in {c[1], c[2]} /\ pc[p][c].sig # "none"
        BY <1>2, <1>4, <1>6, <2>2
      <4>2. net' = [net EXCEPT ![Peer(p, c)] = Append(@, m)]
        BY <3>1
      <4> QED
        BY <1>1, <1>3, <4>1, <4>2, MessageSent
    <3>3. net' = [net EXCEPT ![q] = Append(@, m)]
      BY <3>1
    <3>4. /\ net' \in [Pages -> Seq(Messages)]
          /\ Range(net'[q]) = Range(net[q]) \cup {m}
          /\ \A s \in Pages : s # q => net'[s] = net[s]
          /\ \A x : x # m => Hits(net'[q], {x}) = Hits(net[q], {x})
          /\ Hits(net[q], {m}) = {} => Hits(net'[q], {m}) # {} /\ One(Hits(net'[q], {m}))
      <4>1. TypeOK /\ q \in Pages /\ m \in Messages
        BY <1>1
      <4> QED
        BY <3>3, <4>1, Sent, Zenon
    <3>5. \A r \in Pages : Range(net[r]) \subseteq Range(net'[r])
      BY <3>4
    <3>6. \A r \in Pages : \A x : r # q \/ x # m => Hits(net'[r], {x}) = Hits(net[r], {x})
      BY <3>4
    <3> QED
      BY <3>2, <3>4, <3>5, <3>6
  <2> QED
    BY <2>1, <2>2
<1>8. TypeOK'
  BY <1>1, <1>2, <1>7 DEF TypeOK, Becomes
<1>9. EndInv'
  <2>1. started' = started /\ e.sig # "none" /\ c[3] <= started'
    BY <1>2
  <2> QED
    BY <1>1, <1>2, <2>1, EndKept
<1>10. NumberInv'
  BY <1>1, <1>2, <1>6, NumberKept
<1>11. MapInv'
  BY <1>1, <1>2, MapKept
<1>12. CallInv'
  BY <1>1, <1>2, <1>3, CallsKept
<1>13. PhaseInv'
  <2>1. ASSUME NEW d \in ConnIds, d # c
        PROVE  Untouched(d)
    <3>1. d[1] \in Pages /\ d[2] \in Pages
      BY ConnParts
    <3>2. pc'[d[1]][d] = pc[d[1]][d] /\ pc'[d[2]][d] = pc[d[2]][d]
      BY <1>2, <2>1, <3>1 DEF Becomes, Change
    <3>3. Msg("offer", d) # m /\ Msg("answer", d) # m
      BY <1>4, <2>1 DEF Msg
    <3>4. Offered(d)' = Offered(d) /\ Answered(d)' = Answered(d)
      BY <1>7, <3>1, <3>3 DEF Offered, Answered
    <3>5. Making(d)' = Making(d)
      BY <1>2 DEF Making, NewCalls
    <3> QED
      BY <3>2, <3>4, <3>5 DEF Untouched, Fewer, Alike
  <2> QED
    BY <1>1, <2>1, PhasesKept
<1>14. CandidateInv'
  <2>1. /\ Becomes(p, c, e) /\ e.gathered \subseteq pc[p][c].gathered
        /\ pc[p][c].sig # "closed"
        /\ pendingCandidates[p][c] \cup pc[p][c].draining \cup pc[p][c].added
              \subseteq pendingCandidates'[p][c] \cup e.draining \cup e.added
    BY <1>2, <1>6
  <2>2. \A r \in Pages, d \in ConnIds :
           r # p \/ d # c => pendingCandidates[r][d] \subseteq pendingCandidates'[r][d]
    BY <1>2
  <2>3. \A r \in Pages, d \in ConnIds : \A k :
           Ice(d, k) \in Range(net[r]) => Ice(d, k) \in Range(net'[r])
    BY <1>7
  <2> QED
    BY <1>1, <2>1, <2>2, <2>3, CandidatesKept
<1> QED
  BY <1>7, <1>8, <1>9, <1>10, <1>11, <1>12, <1>13, <1>14 DEF IInv

LEMMA RemoteSetStep ==
    ASSUME IInv, NEW p \in Pages, NEW c \in ConnIds, RemoteSet(p, c)
    PROVE  IInv'
<1>1. TypeOK /\ EndInv /\ PhaseInv
  BY DEF IInv
<1>2. PICK e \in Ends :
         /\ Becomes(p, c, e) /\ e.job = "drain"
         /\ c[1] = p => e.sig = "stable"
         /\ c[1] # p => e.sig = "remote"
         /\ e.draining = pendingCandidates[p][c]
         /\ e.added = pc[p][c].added /\ e.gathered = pc[p][c].gathered
  BY <1>1, BecomesRemote
<1>3. /\ pc[p][c].job = "remote"
      /\ pendingCandidates' = [pendingCandidates EXCEPT ![p][c] = {}]
      /\ UNCHANGED <<started, sends, candidates, peerConnections, calls, net>>
  BY DEF RemoteSet
<1>4. /\ pc[p][c].sig # "none" /\ p \in {c[1], c[2]} /\ c[3] <= started
      /\ pc[p][c].draining = {}
  BY <1>1, <1>3 DEF EndInv, NoPC
<1>5. c[1] \in Pages /\ c[2] \in Pages /\ c[1] # c[2]
  BY ConnParts
<1>6. PhaseOf(c)
  BY <1>1, Phases
<1>7. \/ p = c[1] /\ AnswerTaken(pc[c[1]][c], pc[c[2]][c], Making(c), Offered(c), Answered(c))
      \/ p = c[2] /\ Answering(pc[c[1]][c], pc[c[2]][c], Making(c), Offered(c), Answered(c))
  BY <1>3, <1>4, <1>6 DEF PhaseOf, Phase, NotStarted, Starting, OfferSent, Answering, AnswerSent,
                          AnswerTaken, Settled, Over
<1>8. pc[p][c].sig # "closed"
  BY <1>3, <1>7 DEF AnswerTaken, Answering
<1>9. Proceeds(p, c, e)
  <2>1. Live(p, c) /\ e.sig \notin {"none", "closed"}
    BY <1>2, <1>4, <1>8 DEF Live
  <2>2. /\ pendingCandidates' \in [Pages -> [ConnIds -> SUBSET Candidates]]
        /\ \A r \in Pages, d \in ConnIds :
              r # p \/ d # c => pendingCandidates'[r][d] = pendingCandidates[r][d]
    BY <1>1, <1>3 DEF TypeOK
  <2> QED
    BY <1>2, <1>3, <1>4, <2>1, <2>2 DEF Proceeds
<1>10. PhaseOf(c)'
  <2>1. Making(c)' = Making(c) /\ Offered(c)' = Offered(c) /\ Answered(c)' = Answered(c)
    BY <1>3 DEF Making, Offered, Answered, NewCalls
  <2>2. CASE p = c[1]
    <3>1. pc'[c[1]][c] = e /\ pc'[c[2]][c] = pc[c[2]][c]
      BY <1>2, <1>5, <2>2 DEF Becomes, Change
    <3> QED
      BY <1>2, <1>5, <1>7, <2>1, <2>2, <3>1 DEF PhaseOf, Phase, AnswerTaken, Settled
  <2>3. CASE p = c[2]
    <3>1. pc'[c[2]][c] = e /\ pc'[c[1]][c] = pc[c[1]][c]
      BY <1>2, <1>5, <2>3 DEF Becomes, Change
    <3> QED
      BY <1>2, <1>5, <1>7, <2>1, <2>3, <3>1 DEF PhaseOf, Phase, Answering
  <2> QED
    BY <1>4, <2>2, <2>3
<1> QED
  BY <1>3, <1>9, <1>10, Proceeding

LEMMA DrainStep ==
    ASSUME IInv, NEW p \in Pages, NEW c \in ConnIds, Drain(p, c)
    PROVE  IInv'
<1>1. TypeOK /\ EndInv /\ PhaseInv
  BY DEF IInv
<1>2. PICK e \in Ends :
         /\ Becomes(p, c, e) /\ e.sig = pc[p][c].sig /\ e.gathered = pc[p][c].gathered
         /\ e.draining \cup e.added = pc[p][c].draining \cup pc[p][c].added
         /\ \/ e.job = "drain"
            \/ /\ e.draining = {}
               /\ c[1] = p => e.job = "none"
               /\ c[1] # p => e.job = "answer"
  BY <1>1, BecomesDrained DEF Drained
<1>3. /\ pc[p][c].job = "drain"
      /\ UNCHANGED <<started, sends, candidates, peerConnections, calls, pendingCandidates, net>>
  BY DEF Drain
<1>4. pc[p][c].sig # "none" /\ p \in {c[1], c[2]} /\ c[3] <= started
  BY <1>1, <1>3 DEF EndInv, NoPC
<1>5. c[1] \in Pages /\ c[2] \in Pages /\ c[1] # c[2]
  BY ConnParts
<1>6. PhaseOf(c)
  BY <1>1, Phases
<1>7. \/ p = c[1] /\ Settled(pc[c[1]][c], pc[c[2]][c], Making(c), Offered(c), Answered(c))
      \/ p = c[2] /\ Answering(pc[c[1]][c], pc[c[2]][c], Making(c), Offered(c), Answered(c))
  BY <1>3, <1>4, <1>6 DEF PhaseOf, Phase, NotStarted, Starting, OfferSent, Answering, AnswerSent,
                          AnswerTaken, Settled, Over
<1>8. pc[p][c].sig # "closed"
  BY <1>3, <1>7 DEF Settled, Answering, Over
<1>9. Proceeds(p, c, e)
  <2>1. Live(p, c) /\ e.sig \notin {"none", "closed"}
    BY <1>2, <1>4, <1>8 DEF Live
  <2>2. e.job # "drain" => e.draining = {}
    BY <1>2
  <2>3. pendingCandidates' \in [Pages -> [ConnIds -> SUBSET Candidates]]
    BY <1>1, <1>3 DEF TypeOK
  <2>4. pendingCandidates[p][c] \cup pc[p][c].draining \cup pc[p][c].added
           \subseteq pendingCandidates'[p][c] \cup e.draining \cup e.added
    BY <1>2, <1>3
  <2> QED
    BY <1>2, <1>3, <1>4, <2>1, <2>2, <2>3, <2>4 DEF Proceeds
<1>10. PhaseOf(c)'
  <2>1. Making(c)' = Making(c) /\ Offered(c)' = Offered(c) /\ Answered(c)' = Answered(c)
    BY <1>3 DEF Making, Offered, Answered, NewCalls
  <2>2. CASE p = c[1]
    <3>1. pc'[c[1]][c] = e /\ pc'[c[2]][c] = pc[c[2]][c]
      BY <1>2, <1>5, <2>2 DEF Becomes, Change
    <3>2. e.sig = "stable" /\ e.job \in {"none", "drain"}
      BY <1>2, <1>3, <1>5, <1>7, <2>2 DEF Settled, Over
    <3> QED
      BY <1>5, <1>7, <2>1, <2>2, <3>1, <3>2 DEF PhaseOf, Phase, Settled, Over
  <2>3. CASE p = c[2]
    <3>1. pc'[c[2]][c] = e /\ pc'[c[1]][c] = pc[c[1]][c]
      BY <1>2, <1>5, <2>3 DEF Becomes, Change
    <3>2. e.sig = "remote" /\ e.job \in {"drain", "answer"}
      BY <1>2, <1>3, <1>5, <1>7, <2>3 DEF Answering
    <3> QED
      BY <1>5, <1>7, <2>1, <2>3, <3>1, <3>2 DEF PhaseOf, Phase, Answering
  <2> QED
    BY <1>4, <2>2, <2>3
<1> QED
  BY <1>3, <1>9, <1>10, Proceeding

LEMMA AnswerMadeStep ==
    ASSUME IInv, NEW p \in Pages, NEW c \in ConnIds, AnswerMade(p, c)
    PROVE  IInv'
<1>1. TypeOK /\ EndInv /\ PhaseInv
  BY DEF IInv
<1>2. PICK e \in Ends :
         /\ Becomes(p, c, e) /\ e.sig = "stable" /\ e.job = "none"
         /\ e.draining = pc[p][c].draining /\ e.added = pc[p][c].added
         /\ e.gathered = pc[p][c].gathered
  BY <1>1, BecomesStable
<1>3. /\ pc[p][c].job = "answer"
      /\ net' = [net EXCEPT ![Peer(p, c)] = Append(@, Msg("answer", c))]
      /\ UNCHANGED <<started, sends, candidates, peerConnections, calls, pendingCandidates>>
  BY DEF AnswerMade
<1>4. /\ pc[p][c].sig # "none" /\ p \in {c[1], c[2]} /\ c[3] <= started
      /\ pc[p][c].draining = {}
  BY <1>1, <1>3 DEF EndInv, NoPC
<1>5. c[1] \in Pages /\ c[2] \in Pages /\ c[1] # c[2]
  BY ConnParts
<1>6. PhaseOf(c)
  BY <1>1, Phases
<1>7. p = c[2] /\ Answering(pc[c[1]][c], pc[p][c], Making(c), Offered(c), Answered(c))
  BY <1>3, <1>4, <1>6 DEF PhaseOf, Phase, NotStarted, Starting, OfferSent, Answering, AnswerSent,
                          AnswerTaken, Settled, Over
<1>8. pc[p][c].sig = "remote"
  BY <1>3, <1>7 DEF Answering
<1>9. Proceeds(p, c, e)
  <2>1. Live(p, c)
    BY <1>8 DEF Live
  <2>2. pendingCandidates' \in [Pages -> [ConnIds -> SUBSET Candidates]]
    BY <1>1, <1>3 DEF TypeOK
  <2>3. pendingCandidates[p][c] \cup pc[p][c].draining \cup pc[p][c].added
           \subseteq pendingCandidates'[p][c] \cup e.draining \cup e.added
    BY <1>2, <1>3
  <2> QED
    BY <1>2, <1>3, <1>4, <2>1, <2>2, <2>3 DEF Proceeds
<1>10. PhaseOf(c)'
  <2>1. PICK m \in Messages : m = Msg("answer", c) /\ m # Msg("offer", c)
    BY MessageTypes DEF Msg
  <2>2. net' = [net EXCEPT ![c[1]] = Append(@, m)]
    BY <1>3, <1>5, <1>7, <2>1 DEF Peer
  <2>3. /\ \A s \in Pages : s # c[1] => net'[s] = net[s]
        /\ Hits(net[c[1]], {m}) = {} => Hits(net'[c[1]], {m}) # {} /\ One(Hits(net'[c[1]], {m}))
    BY <1>1, <1>5, <2>2, Sent
  <2>4. Offered(c)' = {} /\ Making(c)' = {}
    BY <1>3, <1>5, <1>7, <2>3 DEF Offered, Making, NewCalls, Answering
  <2>5. Answered(c)' # {} /\ One(Answered(c)')
    BY <1>7, <2>1, <2>3 DEF Answered, Answering
  <2>6. pc'[p][c] = e /\ pc'[c[1]][c] = pc[c[1]][c]
    BY <1>2, <1>5, <1>7 DEF Becomes, Change
  <2> QED
    BY <1>2, <1>5, <1>7, <2>4, <2>5, <2>6 DEF PhaseOf, Phase, Answering, AnswerSent, Over
<1> QED
  BY <1>3, <1>7, <1>9, <1>10, Proceeding

\* An end that fails is closed; what is left of it in the Map is the reversed id.
LEMMA IceFailsStep ==
    ASSUME IInv, NEW p \in Pages, NEW c \in ConnIds, IceFails(p, c)
    PROVE  IInv'
<1>1. /\ TypeOK /\ EndInv /\ NumberInv /\ MapInv /\ CallInv /\ MessageInv /\ PhaseInv
      /\ CandidateInv
  BY DEF IInv
<1>2. UNCHANGED <<started, sends, candidates, calls, pendingCandidates, net>>
  BY <1>1, FailEffect
<1>3. PICK e \in Ends :
         /\ Becomes(p, c, e) /\ pc[p][c].sig = "stable"
         /\ e.sig = "closed" /\ e.job = "none" /\ e.draining = {}
         /\ e.gathered = pc[p][c].gathered
         /\ peerConnections' \in [Pages -> Seq(Entries)]
         /\ \A s \in Pages : Keyed(peerConnections'[s])
         /\ Range(peerConnections'[p]) = {f \in Range(peerConnections[p]) : f.key # c}
         /\ \A s \in Pages : s # p => peerConnections'[s] = peerConnections[s]
  BY <1>1, FailEffect DEF Failed
<1>4. \A r \in Pages, d \in ConnIds : pc[r][d].sig # "none" => pc'[r][d].sig # "none"
  BY <1>3, Grows
<1>5. TypeOK'
  <2>1. pc' \in [Pages -> [ConnIds -> Ends]]
    BY <1>3 DEF Becomes
  <2> QED
    BY <1>1, <1>2, <1>3, <2>1 DEF TypeOK, Keyed
<1>6. EndInv'
  <2>1. p \in {c[1], c[2]} /\ c[3] <= started'
    BY <1>1, <1>2, <1>3 DEF EndInv
  <2> QED
    BY <1>1, <1>2, <1>3, <2>1, EndKept
<1>7. NumberInv'
  BY <1>1, <1>3, NumberKept
<1>8. MapInv'
  <2>1. ASSUME NEW r \in Pages, NEW d \in ConnIds, r # p \/ d # c
        PROVE  pc'[r][d] = pc[r][d]
    BY <1>3, <2>1 DEF Becomes, Change
  <2>2. ASSUME NEW r \in Pages, NEW f \in Range(peerConnections'[r])
        PROVE  Entry(r, f)'
    <3>1. f \in Range(peerConnections[r]) /\ (r = p => f.key # c)
      BY <1>3, <2>2
    <3>2. PICK d \in ConnIds : d = f.pc /\ Entry(r, f)
      BY <1>1, <3>1, Members DEF MapInv
    <3>3. CASE r = p /\ d = c
      BY <1>4, <3>1, <3>2, <3>3 DEF Entry, Live
    <3>4. CASE ~(r = p /\ d = c)
      BY <2>1, <3>2, <3>4 DEF Entry, Live
    <3> QED
      BY <3>3, <3>4
  <2>3. ASSUME NEW r \in Pages, NEW d \in ConnIds, Live(r, d)'
        PROVE  [key |-> d, pc |-> d] \in Range(peerConnections'[r])
    <3>1. ~(r = p /\ d = c)
      BY <1>3, <2>3 DEF Live, Becomes, Change
    <3>2. Live(r, d)
      BY <2>1, <2>3, <3>1 DEF Live
    <3>3. [key |-> d, pc |-> d] \in Range(peerConnections[r])
      BY <1>1, <3>2 DEF MapInv
    <3> QED
      BY <1>3, <3>1, <3>3
  <2> QED
    BY <2>2, <2>3 DEF MapInv
<1>9. CallInv'
  BY <1>1, <1>2, <1>4, CallsKept
<1>10. MessageInv'
  BY <1>1, <1>2, <1>4, MessagesKept
<1>11. PhaseInv'
  <2>1. ASSUME NEW d \in ConnIds
        PROVE  Making(d)' = Making(d) /\ Offered(d)' = Offered(d) /\ Answered(d)' = Answered(d)
    BY <1>2 DEF Making, Offered, Answered, NewCalls
  <2>2. ASSUME NEW d \in ConnIds, d # c
        PROVE  Untouched(d)
    <3>1. d[1] \in Pages /\ d[2] \in Pages
      BY ConnParts
    <3>2. pc'[d[1]][d] = pc[d[1]][d] /\ pc'[d[2]][d] = pc[d[2]][d]
      BY <1>3, <2>2, <3>1 DEF Becomes, Change
    <3> QED
      BY <2>1, <3>2 DEF Untouched, Fewer, Alike
  <2>3. PhaseOf(c)'
    <3>1. PhaseOf(c) /\ p \in {c[1], c[2]}
      BY <1>1, <1>3, Phases DEF EndInv
    <3>2. c[1] \in Pages /\ c[2] \in Pages /\ c[1] # c[2]
      BY ConnParts
    <3>3. CASE p = c[1]
      <4>1. pc'[c[1]][c] = e /\ pc'[c[2]][c] = pc[c[2]][c]
        BY <1>3, <3>2, <3>3 DEF Becomes, Change
      <4>2. Settled(pc[c[1]][c], pc[c[2]][c], Making(c), Offered(c), Answered(c))
        BY <1>3, <3>1, <3>3 DEF PhaseOf, Phase, NotStarted, Starting, OfferSent, Answering,
                                AnswerSent, AnswerTaken
      <4>3. Settled(e, pc[c[2]][c], Making(c), Offered(c), Answered(c))
        BY <1>3, <4>2 DEF Settled, Over
      <4> QED
        BY <2>1, <4>1, <4>3 DEF PhaseOf, Phase
    <3>4. CASE p = c[2]
      <4>1. pc'[c[2]][c] = e /\ pc'[c[1]][c] = pc[c[1]][c]
        BY <1>3, <3>2, <3>4 DEF Becomes, Change
      <4>2. Over(e)
        BY <1>3 DEF Over
      <4>3. \/ AnswerSent(pc[c[1]][c], pc[p][c], Making(c), Offered(c), Answered(c))
            \/ AnswerTaken(pc[c[1]][c], pc[p][c], Making(c), Offered(c), Answered(c))
            \/ Settled(pc[c[1]][c], pc[p][c], Making(c), Offered(c), Answered(c))
        BY <1>3, <3>1, <3>4 DEF PhaseOf, Phase, NotStarted, Starting, OfferSent, Answering
      <4>4. \/ AnswerSent(pc[c[1]][c], e, Making(c), Offered(c), Answered(c))
            \/ AnswerTaken(pc[c[1]][c], e, Making(c), Offered(c), Answered(c))
            \/ Settled(pc[c[1]][c], e, Making(c), Offered(c), Answered(c))
        BY <4>2, <4>3 DEF AnswerSent, AnswerTaken, Settled
      <4> QED
        BY <2>1, <4>1, <4>4 DEF PhaseOf, Phase
    <3> QED
      BY <3>1, <3>3, <3>4
  <2> QED
    BY <1>1, <2>2, <2>3, PhasesKept
<1>12. CandidateInv'
  BY <1>1, <1>2, <1>3, CandidatesKept
<1> QED
  BY <1>5, <1>6, <1>7, <1>8, <1>9, <1>10, <1>11, <1>12 DEF IInv

-------------------------------------------------------------------------------
(* The theorems.                                                               *)

LEMMA InitInv == Init => IInv
<1> SUFFICES ASSUME Init
             PROVE  IInv
  OBVIOUS
<1>1. /\ started = 0 /\ sends = 0 /\ candidates = 0
      /\ peerConnections = [p \in Pages |-> <<>>]
      /\ pc = [p \in Pages |-> [c \in ConnIds |-> NoPC]]
      /\ calls = [p \in Pages |-> <<>>]
      /\ pendingCandidates = [p \in Pages |-> [c \in ConnIds |-> {}]]
      /\ net = [p \in Pages |-> <<>>]
  BY DEF Init
<1>2. NoPC \in Ends /\ NoPC.sig = "none" /\ NoPC.draining = {} /\ NoPC.gathered = {}
  BY NewEnds DEF NoPC
<1>3. ASSUME NEW p \in Pages
      PROVE  /\ peerConnections[p] = <<>> /\ calls[p] = <<>> /\ net[p] = <<>>
             /\ Range(peerConnections[p]) = {} /\ Range(calls[p]) = {} /\ Range(net[p]) = {}
             /\ \A T : Hits(calls[p], T) = {} /\ Hits(net[p], T) = {}
  BY <1>1 DEF Range, Hits
<1>4. \A p \in Pages, c \in ConnIds : pc[p][c] = NoPC
  BY <1>1
<1>5. TypeOK
  <2>1. /\ started \in 0..MaxConns /\ sends \in 0..MaxSends /\ candidates \in 0..MaxCandidates
    BY <1>1
  <2>2. /\ pc \in [Pages -> [ConnIds -> Ends]]
        /\ pendingCandidates \in [Pages -> [ConnIds -> SUBSET Candidates]]
    BY <1>1, <1>2
  <2>3. /\ peerConnections \in [Pages -> Seq(Entries)] /\ calls \in [Pages -> Seq(Calls)]
        /\ net \in [Pages -> Seq(Messages)]
    BY <1>1
  <2>4. \A p \in Pages : \A i, j \in 1..Len(peerConnections[p]) :
           peerConnections[p][i].key = peerConnections[p][j].key => i = j
    BY <1>3
  <2> QED
    BY <2>1, <2>2, <2>3, <2>4 DEF TypeOK
<1>6. EndInv /\ NumberInv
  BY <1>2, <1>4 DEF EndInv, NumberInv
<1>7. MapInv /\ CallInv /\ MessageInv
  BY <1>2, <1>3, <1>4 DEF MapInv, CallInv, MessageInv, Live
<1>8. PhaseInv
  <2> SUFFICES ASSUME NEW c \in ConnIds
               PROVE  NotStarted(pc[c[1]][c], pc[c[2]][c], Making(c), Offered(c), Answered(c))
    BY DEF PhaseInv, Phase
  <2>1. c[1] \in Pages /\ c[2] \in Pages
    BY ConnParts
  <2>2. Making(c) = {} /\ Offered(c) = {} /\ Answered(c) = {}
    BY <1>3, <2>1 DEF Making, Offered, Answered
  <2> QED
    BY <1>2, <1>4, <2>1, <2>2 DEF NotStarted
<1>9. CandidateInv
  <2>1. \A p \in Pages, c \in ConnIds : Peer(p, c) \in Pages
    BY ConnParts DEF Peer
  <2> QED
    BY <1>2, <1>4, <2>1 DEF CandidateInv
<1> QED
  BY <1>5, <1>6, <1>7, <1>8, <1>9 DEF IInv

LEMMA StutterStep ==
    ASSUME IInv, UNCHANGED vars
    PROVE  IInv'
<1>1. /\ TypeOK /\ EndInv /\ NumberInv /\ MapInv /\ CallInv /\ MessageInv /\ PhaseInv
      /\ CandidateInv
  BY DEF IInv
<1>2. /\ UNCHANGED <<started, sends, candidates, peerConnections>>
      /\ UNCHANGED <<pc, calls, pendingCandidates, net>>
  BY DEF vars
<1>3. TypeOK'
  BY <1>1, <1>2 DEF TypeOK
<1>4. EndInv' /\ NumberInv'
  BY <1>1, <1>2 DEF EndInv, NumberInv
<1>5. MapInv'
  BY <1>1, <1>2 DEF MapInv, Entry, Live
<1>6. CallInv' /\ MessageInv'
  BY <1>1, <1>2 DEF CallInv, MessageInv
<1>7. PhaseInv'
  BY <1>1, <1>2 DEF PhaseInv, Making, NewCalls, Offered, Answered
<1>8. CandidateInv'
  BY <1>1, <1>2 DEF CandidateInv, Somewhere, IsClosed
<1> QED
  BY <1>3, <1>4, <1>5, <1>6, <1>7, <1>8 DEF IInv

LEMMA NextStep ==
    ASSUME IInv, Next
    PROVE  IInv'
<1>1. CASE \E p, q \in Pages, files \in 1..MaxFiles : StartTransfer(p, q, files)
  BY <1>1, StartStep
<1>2. CASE \E p \in Pages : \E i \in 1..Len(calls[p]) : HashDone(p, i)
  BY <1>2, DigestStep
<1>3. CASE \E p \in Pages : \E i \in 1..Len(calls[p]) : HashFails(p, i)
  BY <1>3, DigestStep
<1>4. CASE \E p \in Pages : \E i \in 1..Len(calls[p]) : OfferMade(p, i)
  BY <1>4, OfferMadeStep
<1>5. CASE \E p \in Pages : HandleOffer(p)
  BY <1>5, HandleOfferStep
<1>6. CASE \E p \in Pages : HandleAnswer(p)
  BY <1>6, HandleAnswerStep
<1>7. CASE \E p \in Pages : HandleIce(p)
  BY <1>7, HandleIceStep
<1>8. CASE \E p \in Pages, c \in ConnIds : RemoteSet(p, c)
  BY <1>8, RemoteSetStep
<1>9. CASE \E p \in Pages, c \in ConnIds : Drain(p, c)
  BY <1>9, DrainStep
<1>10. CASE \E p \in Pages, c \in ConnIds : AnswerMade(p, c)
  BY <1>10, AnswerMadeStep
<1>11. CASE \E p \in Pages, c \in ConnIds : OnIceCandidate(p, c)
  BY <1>11, OnIceCandidateStep
<1>12. CASE \E p \in Pages, c \in ConnIds : IceFails(p, c)
  BY <1>12, IceFailsStep
<1> QED
  BY <1>1, <1>2, <1>3, <1>4, <1>5, <1>6, <1>7, <1>8, <1>9, <1>10, <1>11, <1>12, NextCases

\* The inductive invariant holds in every state, for any pages and any bounds.
THEOREM Invariance == Spec => []IInv
<1>1. Init => IInv
  BY InitInv
<1>2. IInv /\ [Next]_vars => IInv'
  <2> SUFFICES ASSUME IInv, [Next]_vars
               PROVE  IInv'
    OBVIOUS
  <2> QED
    BY NextStep, StutterStep
<1> QED
  BY <1>1, <1>2, PTL DEF Spec

\* Every variable has its type, and the Map of a page has each key once.
THEOREM TypeCorrect == Spec => []TypeOK
BY Invariance, PTL DEF IInv

\* A candidate that an end gathered is on its way to the other end, queued there
\* or added there, whenever it comes, unless that end has closed.
THEOREM NothingLost == Spec => []NoCandidateLost
<1>1. CandidateInv => NoCandidateLost
  <2> SUFFICES ASSUME CandidateInv, NEW p \in Pages, NEW c \in ConnIds, p \in {c[1], c[2]},
                      ~IsClosed(p, c), NEW k \in pc[Peer(p, c)][c].gathered
               PROVE  k \in {m.cand : m \in {n \in Range(net[p]) : n.type = "ice" /\ n.conn = c}}
                               \cup pendingCandidates[p][c] \cup pc[p][c].draining
                               \cup pc[p][c].added
    BY DEF NoCandidateLost
  <2>1. Somewhere(p, c, k)
    BY DEF CandidateInv
  <2>2. Ice(c, k).type = "ice" /\ Ice(c, k).conn = c /\ Ice(c, k).cand = k
    BY DEF Ice
  <2> QED
    BY <2>1, <2>2 DEF Somewhere
<1> QED
  BY <1>1, Invariance, PTL DEF IInv

\* With nothing of a connection under way the two ends agree about it.
THEOREM BothAgree == Spec => []Agreement
<1>1. PhaseInv => Agreement
  <2> SUFFICES ASSUME PhaseInv, NEW c \in ConnIds, ~Busy(c)
               PROVE  <<pc[c[1]][c].sig, pc[c[2]][c].sig>> \in
                         {<<"none", "none">>, <<"new", "none">>, <<"stable", "stable">>}
                            \cup ({"closed"} \X {"stable", "closed"}) \cup {<<"stable", "closed">>}
    BY DEF Agreement
  <2>1. Phase(pc[c[1]][c], pc[c[2]][c], Making(c), Offered(c), Answered(c))
    BY DEF PhaseInv
  <2>2. pc[c[1]][c].job = "none" /\ pc[c[2]][c].job = "none"
    BY DEF Busy
  <2>3. \A j \in Range(calls[c[1]]) : j \notin NewCalls(c)
    BY DEF Busy, NewCalls
  <2>4. /\ \A m \in Range(net[c[2]]) : m \notin {Msg("offer", c)}
        /\ \A m \in Range(net[c[1]]) : m \notin {Msg("answer", c)}
    BY DEF Busy, Msg
  <2>5. Making(c) = {} /\ Offered(c) = {} /\ Answered(c) = {}
    BY <2>3, <2>4, HitsRange DEF Making, Offered, Answered
  <2>6. \/ pc[c[1]][c].sig = "none" /\ pc[c[2]][c].sig = "none"
        \/ pc[c[1]][c].sig = "new" /\ pc[c[2]][c].sig = "none"
        \/ pc[c[1]][c].sig \in {"stable", "closed"} /\ pc[c[2]][c].sig \in {"stable", "closed"}
    BY <2>1, <2>2, <2>5 DEF Phase, NotStarted, Starting, OfferSent, Answering, AnswerSent,
                            AnswerTaken, Settled, Over
  <2> QED
    BY <2>6
<1> QED
  BY <1>1, Invariance, PTL DEF IInv

\* What stays of a closed connection in the Map of a page is the reverse of an id
\* that the page itself made.
THEOREM ClosedReversed == Spec => []ClosedOnlyReversed
<1>1. MapInv => ClosedOnlyReversed
  BY DEF MapInv, Entry, Live, IsClosed, ClosedOnlyReversed
<1> QED
  BY <1>1, Invariance, PTL DEF IInv

-------------------------------------------------------------------------------
(* One live connection.                                                        *)

\* getConnIdForTarget finds a live connection to the device.
LEMMA FindsLive ==
    ASSUME TypeOK, MapInv, NEW p \in Pages, NEW q \in Pages, NEW c \in ConnIds,
           {c[1], c[2]} = {p, q}, Live(p, c)
    PROVE  Found(p, q) # {}
<1>1. [key |-> c, pc |-> c] \in Range(peerConnections[p])
  BY DEF MapInv
<1>2. PICK i \in 1..Len(peerConnections[p]) : peerConnections[p][i].key = c
  BY <1>1 DEF Range
<1>3. \/ i \in Prefixed(peerConnections[p], p, q)
      \/ i \in Prefixed(peerConnections[p], q, p)
  <2>1. (c[1] = p /\ c[2] = q) \/ (c[1] = q /\ c[2] = p)
    OBVIOUS
  <2> QED
    BY <1>2, <2>1 DEF Prefixed
<1> QED
  BY <1>3 DEF Found

\* An end of a connection that its own page makes is made by startTransfer,
\* which has found none.
LEMMA Started ==
    ASSUME IInv, Next, NEW c \in ConnIds,
           pc[c[1]][c].sig = "none", pc'[c[1]][c].sig = "new"
    PROVE  Found(c[1], c[2]) = {}
<1>1. TypeOK /\ EndInv /\ CallInv /\ c[1] \in Pages /\ c[2] \in Pages /\ c[1] # c[2]
  BY ConnParts DEF IInv
<1>2. CASE \E p, q \in Pages, files \in 1..MaxFiles : StartTransfer(p, q, files)
  <2>1. PICK p \in Pages, q \in Pages, files \in 1..MaxFiles : StartTransfer(p, q, files)
    BY <1>2
  <2>2. ~UNCHANGED pc
    OBVIOUS
  <2>3. /\ Found(p, q) = {}
        /\ \E d \in ConnIds : d = <<p, q, started'>> /\ pc' = [pc EXCEPT ![p][d] = NewPC]
    BY <1>1, <2>1, <2>2, StartCases
  <2>4. PICK d \in ConnIds : d = <<p, q, started'>> /\ pc' = [pc EXCEPT ![p][d] = NewPC]
    BY <2>3
  <2>5. Becomes(p, d, NewPC)
    BY <1>1, <2>4, BecomesNew
  <2>6. c = d
    BY <1>1, <2>5 DEF Becomes, Change
  <2> QED
    BY <2>3, <2>4, <2>6
<1>3. CASE \E p \in Pages : HandleOffer(p)
  <2>1. PICK p \in Pages : HandleOffer(p)
    BY <1>3
  <2>2. PICK d \in ConnIds, e \in Ends : OfferHandled(p, d, e)
    BY <2>1, OfferEffect
  <2>3. Change(p, d, e) /\ p = d[2]
    BY <2>2 DEF OfferHandled, Becomes
  <2> QED
    BY <1>1, <2>3 DEF Change
<1>4. ASSUME NEW p \in Pages, NEW d \in ConnIds, NEW e, Becomes(p, d, e),
             e.sig = pc[p][d].sig \/ e.sig # "new"
      PROVE  FALSE
  BY <1>1, <1>4 DEF Becomes, Change
<1>5. CASE \E p \in Pages : \E i \in 1..Len(calls[p]) : HashDone(p, i) \/ HashFails(p, i)
  BY <1>5 DEF HashDone, HashFails
<1>6. CASE \E p \in Pages : \E i \in 1..Len(calls[p]) : OfferMade(p, i)
  <2>1. PICK p \in Pages : \E i \in 1..Len(calls[p]) : OfferMade(p, i)
    BY <1>6
  <2>2. PICK i \in 1..Len(calls[p]) : OfferMade(p, i)
    BY <2>1
  <2>3. calls[p][i] \in Range(calls[p])
    BY DEF Range
  <2>4. PICK d \in ConnIds : d = calls[p][i].conn
    BY <1>1, <2>3, Members
  <2>5. pc' = [pc EXCEPT ![p][d].sig = "local"]
    BY <2>2, <2>4 DEF OfferMade
  <2>6. PICK e \in Ends : Becomes(p, d, e) /\ e.sig = "local"
    BY <1>1, <2>5, BecomesOffered
  <2> QED
    BY <1>4, <2>6
<1>7. CASE \E p \in Pages : HandleAnswer(p)
  <2>1. PICK p \in Pages : HandleAnswer(p)
    BY <1>7
  <2>2. PICK d \in ConnIds, e \in Ends : AnswerHandled(p, d, e)
    BY <2>1, AnswerEffect
  <2> QED
    BY <1>4, <2>2 DEF AnswerHandled
<1>8. CASE \E p \in Pages : HandleIce(p)
  <2>1. PICK p \in Pages : HandleIce(p)
    BY <1>8
  <2>2. PICK d \in ConnIds, k \in Candidates :
           IceQueued(p, d, k) \/ \E e \in Ends : IceAdded(p, d, k, e)
    BY <2>1, IceEffect
  <2>3. PICK e \in Ends : IceAdded(p, d, k, e)
    BY <2>2 DEF IceQueued
  <2> QED
    BY <1>4, <2>3 DEF IceAdded
<1>9. CASE \E p \in Pages, d \in ConnIds : OnIceCandidate(p, d)
  <2>1. PICK p \in Pages, d \in ConnIds : OnIceCandidate(p, d)
    BY <1>9
  <2>2. PICK k \in Candidates, e \in Ends : CandidateSent(p, d, k, e)
    BY <1>1, <2>1, GatherEffect
  <2> QED
    BY <1>4, <2>2 DEF CandidateSent
<1>10. CASE \E p \in Pages, d \in ConnIds : RemoteSet(p, d)
  <2>1. PICK p \in Pages, d \in ConnIds : RemoteSet(p, d)
    BY <1>10
  <2>2. PICK e \in Ends :
           /\ Becomes(p, d, e)
           /\ d[1] = p => e.sig = "stable"
           /\ d[1] # p => e.sig = "remote"
    BY <1>1, <2>1, BecomesRemote
  <2> QED
    BY <1>4, <2>2
<1>11. CASE \E p \in Pages, d \in ConnIds : Drain(p, d)
  <2>1. PICK p \in Pages, d \in ConnIds : Drain(p, d)
    BY <1>11
  <2>2. PICK e \in Ends : Becomes(p, d, e) /\ e.sig = pc[p][d].sig
    BY <1>1, <2>1, BecomesDrained DEF Drained
  <2> QED
    BY <1>4, <2>2
<1>12. CASE \E p \in Pages, d \in ConnIds : AnswerMade(p, d)
  <2>1. PICK p \in Pages, d \in ConnIds : AnswerMade(p, d)
    BY <1>12
  <2>2. PICK e \in Ends : Becomes(p, d, e) /\ e.sig = "stable"
    BY <1>1, <2>1, BecomesStable
  <2> QED
    BY <1>4, <2>2
<1>13. CASE \E p \in Pages, d \in ConnIds : IceFails(p, d)
  <2>1. PICK p \in Pages, d \in ConnIds : IceFails(p, d)
    BY <1>13
  <2>2. PICK e \in Ends : Becomes(p, d, e) /\ e.sig = "closed"
    BY <1>1, <2>1, BecomesClosed
  <2> QED
    BY <1>4, <2>2
<1> QED
  BY <1>2, <1>3, <1>5, <1>6, <1>7, <1>8, <1>9, <1>10, <1>11, <1>12, <1>13, NextCases

\* A page starts no connection to a device while its end of one, of either's
\* making, is live.
THEOREM OneLive == Spec => OneConnection
<1> DEFINE A == \A p, q \in Pages :
                   (\E c \in ConnIds : c[1] = p /\ c[2] = q /\ pc[p][c].sig = "none"
                                        /\ pc'[p][c].sig = "new")
                      => ~\E c \in ConnIds : {c[1], c[2]} = {p, q} /\ Live(p, c)
<1>1. IInv /\ [Next]_vars => A
  <2> SUFFICES ASSUME IInv, [Next]_vars, NEW p \in Pages, NEW q \in Pages,
                      NEW c \in ConnIds, c[1] = p, c[2] = q, pc[p][c].sig = "none",
                      pc'[p][c].sig = "new",
                      NEW d \in ConnIds, {d[1], d[2]} = {p, q}, Live(p, d)
               PROVE  FALSE
    OBVIOUS
  <2>1. Next
    BY DEF vars
  <2>2. Found(p, q) = {}
    BY <2>1, Started
  <2> QED
    BY <2>2, FindsLive DEF IInv
<1> QED
  BY <1>1, Invariance, PTL DEF Spec, OneConnection

===============================================================================
