---------------------------- MODULE DeviceHubProofs ----------------------------
(* Proofs about DeviceHub: messages from page to page keep their order, and the *)
(* device lists converge.                                                       *)
EXTENDS DeviceHub, TLAPS

-------------------------------------------------------------------------------
(* The inductive invariant.                                                    *)

\* A handler writes messages of its page; the hub writes one message at a time,
\* which is one that it has to write now.
BusyInv ==
    /\ \A c, d \in Conns : busy[d].by = c => RelaysOf(c, busy[d].msg)
    /\ \A d \in Conns : busy[d].by = HubId => <<d, busy[d].msg>> \in HubWrites
    /\ \A c, d \in Conns : busy[c].by = HubId /\ busy[d].by = HubId => c = d

\* What a page sent and its handler has not read is numbered upwards.
OutboxInv ==
    \A c \in Conns : \A i \in 1..Len(outbox[c]) :
       /\ outbox[c][i].n <= sends
       /\ \A j \in 1..(i - 1) : outbox[c][j].n < outbox[c][i].n

\* A number of c that d has handled, or that is on its way to it.
Passed(c, d, n) ==
    \/ n = got[d][c]
    \/ \E i \in 1..Len(inbox[d]) : RelaysOf(c, inbox[d][i]) /\ n = inbox[d][i].n
    \/ busy[d].by = c /\ n = busy[d].msg.n

\* Every such number is below those that the handler has not read.
PassedInv ==
    \A c, d \in Conns : \A n \in 0..MaxSends :
       Passed(c, d, n) => /\ n <= sends
                          /\ \A i \in 1..Len(outbox[c]) : n < outbox[c][i].n

\* The message that is being written comes after those that were.
WritingInv ==
    \A c, d \in Conns : busy[d].by = c =>
       /\ got[d][c] < busy[d].msg.n
       /\ \A i \in 1..Len(inbox[d]) : RelaysOf(c, inbox[d][i]) => inbox[d][i].n < busy[d].msg.n

\* A page that has not connected is not known to the server.
NewInv ==
    \A c \in Conns : page[c] = "new" =>
       /\ handler[c] = "none" /\ c \notin registry
       /\ \A i \in 1..Len(registerCh) : registerCh[i] # c

\* The device that the handler of the hub is about.
HubInv ==
    /\ hub.at \in {"joined", "registered", "list"} => hub.id \in registry
    /\ hub.at = "left" => hub.id \notin registry

\* What the handler of the hub has still to tell page c of device d.
Untold(c, d) ==
    \/ hub.at \in {"joined", "left"} /\ c \in hub.todo /\ d = hub.id
    \/ hub.at \in {"joined", "registered", "list"} /\ c = hub.id

\* No message is lost.
Whole == \A c \in Conns : busy[c].by # "none" => busy[c].whole

\* Otherwise each page is on its way to the list of the registry, in every state.
OnTheWay ==
    \A c \in registry : page[c] = "open" =>
       \A d \in Conns \ {c} : Untold(c, d) \/ (WillList(c, d) <=> d \in registry)

ListsInv == ~collided => Whole /\ OnTheWay

IInv ==
    /\ TypeOK /\ BusyInv /\ OutboxInv /\ PassedInv /\ WritingInv /\ RelayInOrder
    /\ NewInv /\ HubInv /\ ListsInv
-------------------------------------------------------------------------------
(* What the hub is doing, and what it writes.                                  *)

LEMMA MessageTypes ==
    /\ \A c \in Conns : Joined(c) \in Messages /\ Left(c) \in Messages
    /\ Registered \in Messages
    /\ \A s \in SUBSET Conns : DeviceList(s) \in Messages
    /\ \A c \in Conns, n \in 1..MaxSends : Relayed(c, n) \in Messages
  BY DEF Joined, Left, Registered, DeviceList, Relayed, Messages

LEMMA HubCases ==
    ASSUME hub \in Hubs
    PROVE  \/ hub = Idle /\ hub.at = "idle"
           \/ hub.at \in {"joined", "left"} /\ hub.id \in Conns /\ hub.todo \in SUBSET Conns
           \/ hub.at \in {"registered", "list"} /\ hub.id \in Conns
  BY DEF Hubs, Idle

LEMMA HubWritesType ==
    ASSUME hub \in Hubs, registry \subseteq Conns, NEW p \in HubWrites
    PROVE  /\ p[1] \in Conns /\ p[2] \in Messages /\ p = <<p[1], p[2]>>
           /\ \A c \in Conns : ~RelaysOf(c, p[2])
           /\ hub # Idle
  <1>1. CASE hub = Idle /\ hub.at = "idle"
    BY <1>1 DEF HubWrites
  <1>2. CASE hub.at \in {"joined", "left"} /\ hub.id \in Conns /\ hub.todo \in SUBSET Conns
    <2>1. PICK d \in hub.todo : p = <<d, Joined(hub.id)>> \/ p = <<d, Left(hub.id)>>
      BY <1>2 DEF HubWrites
    <2>2. p[1] = d /\ p[2] \in {Joined(hub.id), Left(hub.id)} /\ p = <<p[1], p[2]>>
      BY <2>1
    <2>3. hub # Idle
      BY <1>2 DEF Idle
    <2>4. p[2].type # "relay"
      BY <2>2 DEF Joined, Left
    <2>5. p[2] \in Messages
      BY <1>2, <2>2, MessageTypes
    <2> QED
      BY <1>2, <2>2, <2>3, <2>4, <2>5 DEF RelaysOf
  <1>3. CASE hub.at \in {"registered", "list"} /\ hub.id \in Conns
    <2>1. p = <<hub.id, Registered>> \/ p = <<hub.id, DeviceList(registry)>>
      BY <1>3 DEF HubWrites
    <2>2. p[1] = hub.id /\ p[2] \in {Registered, DeviceList(registry)} /\ p = <<p[1], p[2]>>
      BY <2>1
    <2>3. hub # Idle
      BY <1>3 DEF Idle
    <2> QED
      BY <1>3, <2>2, <2>3, MessageTypes DEF RelaysOf, Registered, DeviceList
  <1> QED
    BY <1>1, <1>2, <1>3, HubCases

LEMMA BroadcastType ==
    ASSUME NEW at \in {"joined", "left"}, NEW c \in Conns, NEW todo \in SUBSET Conns,
           NEW next \in Hubs
    PROVE  Broadcast(at, c, todo, next) \in Hubs
  BY DEF Broadcast, Hubs

LEMMA AfterWriteType ==
    ASSUME hub \in Hubs, NEW c
    PROVE  AfterWrite(c) \in Hubs
  <1>1. Idle \in Hubs /\ \A d \in Conns : Welcome(d) \in Hubs /\ [at |-> "list", id |-> d] \in Hubs
    BY DEF Hubs, Welcome
  <1>2. CASE hub.at = "idle"
    BY <1>1, <1>2 DEF AfterWrite
  <1>3. CASE hub.at \in {"joined", "left"} /\ hub.id \in Conns /\ hub.todo \in SUBSET Conns
    <2>1. hub.todo \ {c} \in SUBSET Conns
      BY <1>3
    <2> QED
      BY <1>1, <1>3, <2>1, BroadcastType DEF AfterWrite
  <1>4. CASE hub.at \in {"registered", "list"} /\ hub.id \in Conns
    BY <1>1, <1>4 DEF AfterWrite
  <1> QED
    BY <1>2, <1>3, <1>4, HubCases

-------------------------------------------------------------------------------
(* Writes.                                                                     *)

LEMMA BusyCases ==
    ASSUME TypeOK, NEW c \in Conns
    PROVE  \/ busy[c] = Free /\ busy[c].by = "none"
           \/ busy[c].by \in Writers /\ busy[c].msg \in Messages /\ busy[c].whole \in BOOLEAN
  BY DEF TypeOK, Writes, Free

LEMMA BeginType ==
    ASSUME TypeOK, NEW w \in Writers, NEW c \in Conns, NEW m \in Messages, Begin(w, c, m)
    PROVE  /\ busy' \in [Conns -> Writes]
           /\ busy[c].by = "none"
           /\ busy'[c].by = w /\ busy'[c].msg = m /\ busy'[c].whole = TRUE
           /\ \A d \in Conns \ {c} : busy'[d] = busy[d]
           /\ collided' = collided
  <1> DEFINE b == [by |-> w, msg |-> m, whole |-> TRUE]
  <1>1. busy' = [busy EXCEPT ![c] = b] /\ busy[c].by = "none" /\ collided' = collided
    BY DEF Begin, IsFree
  <1>2. b \in Writes
    BY DEF Writes
  <1> QED
    BY <1>1, <1>2 DEF TypeOK

LEMMA GarbleType ==
    ASSUME TypeOK, NEW c \in Conns, Garble(c)
    PROVE  /\ busy' \in [Conns -> Writes] /\ collided' = TRUE
           /\ \A d \in Conns : busy'[d].by = busy[d].by
           /\ \A d \in Conns : busy[d].by # "none" => busy'[d].msg = busy[d].msg
  <1> DEFINE b == [busy[c] EXCEPT !.whole = FALSE]
  <1>1. busy' = [busy EXCEPT ![c] = b] /\ busy[c].by # "none" /\ collided' = TRUE
    BY DEF Garble, IsFree
  <1>2. busy[c] \in [by : Writers, msg : Messages, whole : BOOLEAN]
    BY <1>1 DEF TypeOK, Writes, Free
  <1>3. b \in Writes /\ b.by = busy[c].by /\ b.msg = busy[c].msg
    BY <1>2 DEF Writes
  <1> HIDE DEF b
  <1> QED
    BY <1>1, <1>3 DEF TypeOK

LEMMA EndType ==
    ASSUME TypeOK, NEW w \in Writers, NEW c \in Conns, End(w, c)
    PROVE  /\ busy[c].by = w /\ busy'[c].by = "none" /\ \A d \in Conns \ {c} : busy'[d] = busy[d]
           /\ busy' \in [Conns -> Writes] /\ inbox' \in [Conns -> Seq(Messages)]
           /\ \A d \in Conns : Len(inbox'[d]) <= SockCap
           /\ busy[c].msg \in Messages
           /\ \A d \in Conns \ {c} : inbox'[d] = inbox[d]
           /\ inbox'[c] = IF page[c] = "open" /\ busy[c].whole
                          THEN Append(inbox[c], busy[c].msg) ELSE inbox[c]
  <1>1. busy[c].by = w /\ busy[c].msg \in Messages
    BY BusyCases, HubAssumption DEF End, Writers, HubId
  <1>2. busy' = [busy EXCEPT ![c] = Free] /\ Free \in Writes /\ Free.by = "none"
    BY DEF End, Writes, Free
  <1>3. /\ busy' \in [Conns -> Writes] /\ busy'[c].by = "none"
        /\ \A d \in Conns \ {c} : busy'[d] = busy[d]
    BY <1>2 DEF TypeOK
  <1> DEFINE q == IF page[c] = "open" /\ busy[c].whole
                  THEN Append(inbox[c], busy[c].msg) ELSE inbox[c]
  <1>4. inbox' = [inbox EXCEPT ![c] = q] /\ inbox[c] \in Seq(Messages)
    BY DEF End, TypeOK
  <1>5. q \in Seq(Messages)
    BY <1>1, <1>4
  <1>6. Len(q) <= SockCap
    <2>1. CASE page[c] = "open" /\ busy[c].whole
      <3>1. Len(inbox[c]) < SockCap
        BY <2>1 DEF End
      <3> QED
        BY <1>1, <1>4, <2>1, <3>1, HubAssumption
    <2>2. CASE ~(page[c] = "open" /\ busy[c].whole)
      BY <2>2 DEF TypeOK
    <2> QED
      BY <2>1, <2>2
  <1>7. inbox'[c] = q /\ \A d \in Conns \ {c} : inbox'[d] = inbox[d]
    BY <1>4 DEF TypeOK
  <1> HIDE DEF q
  <1>8. inbox' \in [Conns -> Seq(Messages)] /\ \A d \in Conns : Len(inbox'[d]) <= SockCap
    BY <1>4, <1>5, <1>6, <1>7 DEF TypeOK
  <1> QED
    BY <1>1, <1>3, <1>7, <1>8 DEF q
-------------------------------------------------------------------------------
(* What the pages and their handlers do to the queues.                         *)

Sent == [to : Conns, n : 1..MaxSends]

LEMMA TailFacts ==
    ASSUME NEW S, NEW q \in Seq(S), q # <<>>
    PROVE  /\ Head(q) \in S /\ Head(q) = q[1] /\ Len(q) \in Nat /\ Len(q) >= 1
           /\ Tail(q) \in Seq(S) /\ Len(Tail(q)) = Len(q) - 1
           /\ \A i \in 1..Len(Tail(q)) : i + 1 \in 1..Len(q) /\ Tail(q)[i] = q[i + 1]
  OBVIOUS

LEMMA AppendFacts ==
    ASSUME NEW S, NEW q \in Seq(S), NEW m \in S
    PROVE  /\ Append(q, m) \in Seq(S) /\ Len(q) \in Nat /\ Len(Append(q, m)) = Len(q) + 1
           /\ \A i \in 1..Len(q) : i \in 1..Len(Append(q, m)) /\ Append(q, m)[i] = q[i]
           /\ \A i \in 1..Len(Append(q, m)) : i \in 1..Len(q) \/ i = Len(q) + 1
           /\ Append(q, m)[Len(q) + 1] = m
  OBVIOUS

\* The page handles the first message of its socket.
LEMMA ReadEffect ==
    ASSUME TypeOK, NEW c \in Conns, Read(c), NEW m, m = Head(inbox[c])
    PROVE  /\ m \in Messages /\ m = inbox[c][1]
           /\ Len(inbox[c]) \in Nat /\ Len(inbox[c]) >= 1
           /\ inbox' \in [Conns -> Seq(Messages)]
           /\ \A d \in Conns \ {c} : inbox'[d] = inbox[d]
           /\ Len(inbox'[c]) = Len(inbox[c]) - 1
           /\ \A i \in 1..Len(inbox'[c]) :
                 i + 1 \in 1..Len(inbox[c]) /\ inbox'[c][i] = inbox[c][i + 1]
           /\ view' \in [Conns -> SUBSET Conns]
           /\ view'[c] = Listing(c, view[c], m)
           /\ \A d \in Conns \ {c} : view'[d] = view[d]
           /\ got' \in [Conns -> [Conns -> 0..MaxSends]]
           /\ \A d \in Conns : RelaysOf(d, m) => got'[c][d] = m.n
           /\ \A d \in Conns : ~RelaysOf(d, m) => got'[c][d] = got[c][d]
           /\ \A d \in Conns \ {c}, e \in Conns : got'[d][e] = got[d][e]
  <1>1. inbox[c] \in Seq(Messages) /\ inbox[c] # <<>>
    BY DEF TypeOK, Read
  <1>2. PICK q : q = inbox[c]
    OBVIOUS
  <1>3. /\ m \in Messages /\ m = q[1] /\ Len(q) \in Nat /\ Len(q) >= 1
        /\ Tail(q) \in Seq(Messages) /\ Len(Tail(q)) = Len(q) - 1
        /\ \A i \in 1..Len(Tail(q)) : i + 1 \in 1..Len(q) /\ Tail(q)[i] = q[i + 1]
    BY <1>1, <1>2, TailFacts, Zenon
  <1>4. PICK r : r = Tail(q)
    OBVIOUS
  <1>5. inbox' = [inbox EXCEPT ![c] = r]
    BY <1>2, <1>4 DEF Read
  <1>6. /\ inbox' \in [Conns -> Seq(Messages)] /\ inbox'[c] = r
        /\ \A d \in Conns \ {c} : inbox'[d] = inbox[d]
    BY <1>3, <1>4, <1>5 DEF TypeOK
  <1>7. PICK l : l = Listing(c, view[c], m)
    OBVIOUS
  <1>8. l \in SUBSET Conns
    <2>1. view[c] \in SUBSET Conns
      BY DEF TypeOK
    <2> QED
      BY <1>3, <1>7, <2>1 DEF Listing, Messages, Registered
  <1>9. view' = [view EXCEPT ![c] = l]
    BY <1>7 DEF Read
  <1>10. /\ view' \in [Conns -> SUBSET Conns] /\ view'[c] = l
         /\ \A d \in Conns \ {c} : view'[d] = view[d]
    BY <1>8, <1>9 DEF TypeOK
  <1>11. /\ got' \in [Conns -> [Conns -> 0..MaxSends]]
         /\ \A d \in Conns : RelaysOf(d, m) => got'[c][d] = m.n
         /\ \A d \in Conns : ~RelaysOf(d, m) => got'[c][d] = got[c][d]
         /\ \A d \in Conns \ {c}, e \in Conns : got'[d][e] = got[d][e]
    <2>1. got \in [Conns -> [Conns -> 0..MaxSends]]
      BY DEF TypeOK
    <2>2. CASE m.type = "relay"
      <3>1. PICK e, n : e = m.id /\ n = m.n
        OBVIOUS
      <3>2. e \in Conns /\ n \in 0..MaxSends
        BY <1>3, <2>2, <3>1 DEF Messages, Registered
      <3>3. got' = [got EXCEPT ![c][e] = n]
        BY <2>2, <3>1 DEF Read
      <3>4. \A d \in Conns : RelaysOf(d, m) <=> d = e
        BY <2>2, <3>1 DEF RelaysOf
      <3> QED
        BY <2>1, <3>1, <3>2, <3>3, <3>4
    <2>3. CASE m.type # "relay"
      <3>1. got' = got /\ \A d \in Conns : ~RelaysOf(d, m)
        BY <2>3 DEF Read, RelaysOf
      <3> QED
        BY <2>1, <3>1
    <2> QED
      BY <2>2, <2>3
  <1> QED
    BY <1>2, <1>3, <1>4, <1>6, <1>7, <1>10, <1>11

\* The page sends the next number, to its handler.
LEMMA SendEffect ==
    ASSUME TypeOK, NEW c \in Conns, NEW d \in Conns, Send(c, d)
    PROVE  /\ sends \in Nat /\ sends' = sends + 1 /\ sends + 1 \in 1..MaxSends
           /\ outbox' \in [Conns -> Seq(Sent)]
           /\ \A e \in Conns \ {c} : outbox'[e] = outbox[e]
           /\ Len(outbox[c]) \in Nat /\ Len(outbox'[c]) = Len(outbox[c]) + 1
           /\ \A i \in 1..Len(outbox[c]) : outbox'[c][i] = outbox[c][i]
           /\ outbox'[c][Len(outbox[c]) + 1].n = sends + 1
  <1>1. sends \in Nat /\ sends + 1 \in 1..MaxSends /\ sends' = sends + 1
    BY HubAssumption DEF TypeOK, Send
  <1>2. PICK m : m = [to |-> d, n |-> sends + 1]
    OBVIOUS
  <1>3. m \in Sent /\ m.n = sends + 1
    BY <1>1, <1>2 DEF Sent
  <1>4. PICK q : q = outbox[c]
    OBVIOUS
  <1>5. q \in Seq(Sent)
    BY <1>4 DEF TypeOK, Sent
  <1>6. PICK r : r = Append(q, m)
    OBVIOUS
  <1>7. /\ r \in Seq(Sent) /\ Len(q) \in Nat /\ Len(r) = Len(q) + 1
        /\ \A i \in 1..Len(q) : r[i] = q[i]
        /\ r[Len(q) + 1] = m
    BY <1>3, <1>5, <1>6
  <1>8. outbox' = [outbox EXCEPT ![c] = r]
    BY <1>2, <1>4, <1>6 DEF Send
  <1>9. outbox' \in [Conns -> Seq(Sent)] /\ outbox'[c] = r /\ \A e \in Conns \ {c} : outbox'[e] = outbox[e]
    BY <1>7, <1>8 DEF TypeOK, Sent
  <1> QED
    BY <1>1, <1>3, <1>4, <1>7, <1>9

\* The handler takes the first message of its page, and relays it or drops it.
LEMMA DispatchEffect ==
    ASSUME TypeOK, NEW c \in Conns, Dispatch(c)
    PROVE  \E to \in Conns, n \in 1..MaxSends :
           /\ n = outbox[c][1].n /\ Len(outbox[c]) \in Nat /\ Len(outbox[c]) >= 1
           /\ outbox' \in [Conns -> Seq(Sent)]
           /\ \A e \in Conns \ {c} : outbox'[e] = outbox[e]
           /\ Len(outbox'[c]) = Len(outbox[c]) - 1
           /\ \A i \in 1..Len(outbox'[c]) :
                 i + 1 \in 1..Len(outbox[c]) /\ outbox'[c][i] = outbox[c][i + 1]
           /\ \/ UNCHANGED <<busy, collided>>
              \/ Begin(c, to, Relayed(c, n))
              \/ Garble(to)
              \/ UNCHANGED busy /\ collided' = TRUE
  <1>1. PICK q : q = outbox[c]
    OBVIOUS
  <1>2. q \in Seq(Sent) /\ q # <<>>
    BY <1>1 DEF TypeOK, Dispatch, Sent
  <1>3. PICK m, to, n : m = Head(q) /\ to = m.to /\ n = m.n
    OBVIOUS
  <1>4. PICK r : r = Tail(q)
    OBVIOUS
  <1>5. /\ m \in Sent /\ m = q[1] /\ Len(q) \in Nat /\ Len(q) >= 1
        /\ r \in Seq(Sent) /\ Len(r) = Len(q) - 1
        /\ \A i \in 1..Len(r) : i + 1 \in 1..Len(q) /\ r[i] = q[i + 1]
    BY <1>2, <1>3, <1>4, TailFacts, Zenon
  <1>6. outbox' = [outbox EXCEPT ![c] = r]
    BY <1>1, <1>4 DEF Dispatch
  <1>7. outbox' \in [Conns -> Seq(Sent)] /\ outbox'[c] = r /\ \A e \in Conns \ {c} : outbox'[e] = outbox[e]
    BY <1>5, <1>6 DEF TypeOK, Sent
  <1>8. \/ UNCHANGED <<busy, collided>>
        \/ Begin(c, to, Relayed(c, n))
        \/ Garble(to)
        \/ UNCHANGED busy /\ collided' = TRUE
    BY <1>1, <1>3 DEF Dispatch
  <1>9. to \in Conns /\ n \in 1..MaxSends /\ n = outbox[c][1].n
    BY <1>1, <1>3, <1>5 DEF Sent
  <1> QED
    BY <1>1, <1>5, <1>7, <1>8, <1>9

-------------------------------------------------------------------------------
(* Types.                                                                      *)

\* The steps, each under the guard that the server still runs.
LEMMA NextCases ==
    ASSUME [Next]_vars
    PROVE  \/ HubBegins
           \/ TakeRegister /\ UNCHANGED crashed
           \/ TakeUnregister /\ UNCHANGED crashed
           \/ \E c \in Conns : HubEnds(c) /\ UNCHANGED crashed
           \/ \E c \in Conns : ConnStep(c) /\ UNCHANGED crashed
           \/ UNCHANGED vars
  BY DEF Next, HubStep

LEMMA TypeStep ==
    ASSUME IInv, [Next]_vars
    PROVE  TypeOK'
  <1>1. TypeOK
    BY DEF IInv
  <1>2. CASE HubBegins
    <2>1. PICK p \in HubWrites :
             \/ Begin(HubId, p[1], p[2]) /\ UNCHANGED <<hub, crashed>>
             \/ Garble(p[1]) /\ hub' = AfterWrite(p[1]) /\ UNCHANGED crashed
             \/ ~IsFree(p[1]) /\ crashed' = TRUE /\ collided' = TRUE /\ UNCHANGED <<hub, busy>>
      BY <1>2 DEF HubBegins
    <2>2. p[1] \in Conns /\ p[2] \in Messages /\ HubId \in Writers
      BY <1>1, HubWritesType DEF TypeOK, Writers
    <2>3. busy' \in [Conns -> Writes] /\ collided' \in BOOLEAN
      BY <1>1, <2>1, <2>2, BeginType, GarbleType DEF TypeOK
    <2>4. hub' \in Hubs /\ crashed' \in BOOLEAN
      BY <1>1, <2>1, AfterWriteType DEF TypeOK
    <2> QED
      BY <1>1, <1>2, <2>3, <2>4 DEF TypeOK, HubBegins, pageVars, chanVars
  <1>3. CASE TakeRegister /\ UNCHANGED crashed
    <2> DEFINE c == Head(registerCh)
    <2>1. c \in Conns /\ registerCh' \in Seq(Conns) /\ Len(registerCh') <= ChanCap
      BY <1>1, <1>3, HubAssumption DEF TypeOK, TakeRegister
    <2>2. Welcome(c) \in Hubs /\ registry \ {c} \in SUBSET Conns
      BY <1>1, <2>1 DEF TypeOK, Hubs, Welcome
    <2>3. hub' \in Hubs /\ registry' \subseteq Conns
      BY <1>1, <1>3, <2>1, <2>2, BroadcastType DEF TakeRegister, TypeOK
    <2> QED
      BY <1>1, <1>3, <2>1, <2>3 DEF TypeOK, TakeRegister, pageVars
  <1>4. CASE TakeUnregister /\ UNCHANGED crashed
    <2> DEFINE c == Head(unregisterCh)
    <2>1. c \in Conns /\ unregisterCh' \in Seq(Conns) /\ Len(unregisterCh') <= ChanCap
      BY <1>1, <1>4, HubAssumption DEF TypeOK, TakeUnregister
    <2>2. Idle \in Hubs /\ registry \ {c} \in SUBSET Conns
      BY <1>1 DEF TypeOK, Hubs
    <2>3. hub' \in Hubs /\ registry' \subseteq Conns
      BY <1>1, <1>4, <2>1, <2>2, BroadcastType DEF TakeUnregister, TypeOK
    <2> QED
      BY <1>1, <1>4, <2>1, <2>3 DEF TypeOK, TakeUnregister, pageVars
  <1>5. ASSUME NEW c \in Conns, HubEnds(c), UNCHANGED crashed
        PROVE  TypeOK'
    <2>1. End(HubId, c) /\ HubId \in Writers
      BY <1>5 DEF HubEnds, Writers
    <2>2. /\ busy' \in [Conns -> Writes] /\ inbox' \in [Conns -> Seq(Messages)]
          /\ \A d \in Conns : Len(inbox'[d]) <= SockCap
      BY <1>1, <2>1, EndType
    <2>3. hub' \in Hubs
      BY <1>1, <1>5, AfterWriteType DEF HubEnds, TypeOK
    <2> QED
      BY <1>1, <1>5, <2>2, <2>3 DEF TypeOK, HubEnds, chanVars
  <1>6. ASSUME NEW c \in Conns, ConnStep(c), UNCHANGED crashed
        PROVE  TypeOK'
    <2>1. CASE Connect(c)
      BY <1>1, <1>6, <2>1 DEF TypeOK, Connect, chanVars
    <2>2. CASE Close(c)
      <3>1. <<>> \in Seq(Messages) /\ Len(<<>>) = 0
        OBVIOUS
      <3>2. inbox' \in [Conns -> Seq(Messages)] /\ \A d \in Conns : Len(inbox'[d]) <= SockCap
        BY <1>1, <2>2, <3>1, HubAssumption DEF TypeOK, Close
      <3> QED
        BY <1>1, <1>6, <2>2, <3>2 DEF TypeOK, Close, chanVars
    <2>3. CASE Read(c)
      <3>1. PICK m : m = Head(inbox[c])
        OBVIOUS
      <3>2. /\ inbox' \in [Conns -> Seq(Messages)] /\ view' \in [Conns -> SUBSET Conns]
            /\ got' \in [Conns -> [Conns -> 0..MaxSends]]
            /\ \A d \in Conns \ {c} : inbox'[d] = inbox[d]
            /\ Len(inbox[c]) \in Nat /\ Len(inbox'[c]) = Len(inbox[c]) - 1
        BY <1>1, <2>3, <3>1, ReadEffect
      <3>3. SockCap \in Nat /\ \A d \in Conns : Len(inbox[d]) <= SockCap
        BY <1>1, HubAssumption DEF TypeOK
      <3>4. \A d \in Conns : Len(inbox'[d]) <= SockCap
        <4>1. Len(inbox'[c]) <= SockCap
          BY <3>2, <3>3
        <4> QED
          BY <3>2, <3>3, <4>1
      <3> QED
        BY <1>1, <1>6, <2>3, <3>2, <3>4 DEF TypeOK, Read, chanVars
    <2>4. ASSUME NEW d \in Conns, Send(c, d)
          PROVE  TypeOK'
      <3>1. outbox' \in [Conns -> Seq(Sent)] /\ sends' = sends + 1 /\ sends + 1 \in 1..MaxSends
        BY <1>1, <2>4, SendEffect, Zenon
      <3>2. sends' \in 0..MaxSends
        BY <3>1
      <3> QED
        BY <1>1, <1>6, <2>4, <3>1, <3>2 DEF TypeOK, Send, Sent, chanVars
    <2>5. CASE Register(c)
      <3>1. registerCh' \in Seq(Conns) /\ Len(registerCh') <= ChanCap
        BY <1>1, <2>5, HubAssumption DEF TypeOK, Register
      <3> QED
        BY <1>1, <1>6, <2>5, <3>1 DEF TypeOK, Register, pageVars
    <2>6. CASE Dispatch(c)
      <3>1. PICK to \in Conns, n \in 1..MaxSends :
               /\ outbox' \in [Conns -> Seq(Sent)]
               /\ \/ UNCHANGED <<busy, collided>>
                  \/ Begin(c, to, Relayed(c, n))
                  \/ Garble(to)
                  \/ UNCHANGED busy /\ collided' = TRUE
        BY <1>1, <2>6, DispatchEffect
      <3>2. c \in Writers /\ Relayed(c, n) \in Messages
        BY MessageTypes DEF Writers
      <3>3. busy' \in [Conns -> Writes] /\ collided' \in BOOLEAN
        BY <1>1, <3>1, <3>2, BeginType, GarbleType DEF TypeOK
      <3>4. handler' \in [Conns -> {"none", "registering", "reading", "leaving", "done"}]
        BY <1>1, <2>6 DEF TypeOK, Dispatch
      <3> QED
        BY <1>1, <1>6, <2>6, <3>1, <3>3, <3>4 DEF TypeOK, Dispatch, Sent, chanVars
    <2>7. CASE PumpEnds(c)
      <3>1. <<>> \in Seq([to : Conns, n : 1..MaxSends])
        OBVIOUS
      <3> QED
        BY <1>1, <1>6, <2>7, <3>1 DEF TypeOK, PumpEnds, chanVars
    <2>8. CASE Unregister(c)
      <3>1. unregisterCh' \in Seq(Conns) /\ Len(unregisterCh') <= ChanCap
        BY <1>1, <2>8, HubAssumption DEF TypeOK, Unregister
      <3> QED
        BY <1>1, <1>6, <2>8, <3>1 DEF TypeOK, Unregister, pageVars
    <2>9. ASSUME NEW d \in Conns, Relay(c, d)
          PROVE  TypeOK'
      <3>1. End(c, d) /\ c \in Writers
        BY <2>9 DEF Relay, Writers
      <3>2. /\ busy' \in [Conns -> Writes] /\ inbox' \in [Conns -> Seq(Messages)]
            /\ \A e \in Conns : Len(inbox'[e]) <= SockCap
        BY <1>1, <3>1, EndType
      <3> QED
        BY <1>1, <1>6, <2>9, <3>2 DEF TypeOK, Relay, chanVars
    <2> QED
      BY <1>6, <2>1, <2>2, <2>3, <2>4, <2>5, <2>6, <2>7, <2>8, <2>9 DEF ConnStep
  <1>7. CASE UNCHANGED vars
    BY <1>1, <1>7 DEF TypeOK, vars, pageVars, chanVars
  <1> QED
    BY <1>2, <1>3, <1>4, <1>5, <1>6, <1>7, NextCases

-------------------------------------------------------------------------------
(* Who writes.                                                                 *)

LEMMA ConnKeepsHub ==
    ASSUME NEW c \in Conns, ConnStep(c)
    PROVE  UNCHANGED <<hub, registry>>
  BY DEF ConnStep, Connect, Close, Read, Send, Register, Dispatch, PumpEnds, Unregister, Relay

\* The hub writes only what it has to write.
LEMMA IdleHub ==
    ASSUME IInv, hub = Idle
    PROVE  ~Writing(HubId)
  <1>1. \A d \in Conns : busy[d].by # HubId
    BY HubWritesType DEF IInv, TypeOK, BusyInv
  <1> QED
    BY <1>1 DEF Writing

\* A write of the hub that ends was its only one.
LEMMA HubEndsEffect ==
    ASSUME IInv, NEW c \in Conns, HubEnds(c)
    PROVE  /\ End(HubId, c) /\ hub' = AfterWrite(c)
           /\ <<c, busy[c].msg>> \in HubWrites
           /\ \A d \in Conns : busy'[d].by # HubId
  <1>1. End(HubId, c) /\ hub' = AfterWrite(c) /\ busy[c].by = HubId
    BY DEF HubEnds, End
  <1>2. TypeOK /\ HubId \in Writers
    BY DEF IInv, Writers
  <1>3. busy'[c].by = "none" /\ \A d \in Conns \ {c} : busy'[d] = busy[d]
    BY <1>1, <1>2, EndType
  <1>4. \A d \in Conns \ {c} : busy[d].by # HubId
    BY <1>1 DEF IInv, BusyInv
  <1>5. <<c, busy[c].msg>> \in HubWrites
    BY <1>1 DEF IInv, BusyInv
  <1> QED
    BY <1>1, <1>3, <1>4, <1>5 DEF HubId

LEMMA BusyStep ==
    ASSUME IInv, [Next]_vars
    PROVE  BusyInv'
  <1>1. TypeOK /\ BusyInv /\ HubId \notin Conns /\ "none" \notin Conns
    BY HubAssumption DEF IInv, HubId
  <1>2. ASSUME UNCHANGED <<busy, hub, registry>>
        PROVE  BusyInv'
    BY <1>1, <1>2 DEF BusyInv, HubWrites, RelaysOf
  <1>3. ASSUME \A d \in Conns : busy'[d].by = busy[d].by,
               \A d \in Conns : busy[d].by # "none" => busy'[d].msg = busy[d].msg,
               UNCHANGED <<hub, registry>> \/ \A d \in Conns : busy[d].by # HubId
        PROVE  BusyInv'
    <2>1. \A c, d \in Conns : busy'[d].by = c => RelaysOf(c, busy'[d].msg)
      BY <1>1, <1>3 DEF BusyInv
    <2>2. \A c, d \in Conns : busy'[c].by = HubId /\ busy'[d].by = HubId => c = d
      BY <1>1, <1>3 DEF BusyInv
    <2>3. CASE UNCHANGED <<hub, registry>>
      <3>1. HubWrites' = HubWrites
        BY <2>3 DEF HubWrites
      <3>2. \A d \in Conns : busy'[d].by = HubId => <<d, busy'[d].msg>> \in HubWrites'
        BY <1>1, <1>3, <3>1 DEF BusyInv, HubId
      <3> QED
        BY <2>1, <2>2, <3>2 DEF BusyInv, RelaysOf, HubId
    <2>4. CASE \A d \in Conns : busy[d].by # HubId
      BY <1>3, <2>1, <2>2, <2>4 DEF BusyInv, RelaysOf, HubId
    <2> QED
      BY <1>3, <2>3, <2>4
  <1>4. ASSUME NEW w \in Writers, NEW c \in Conns, End(w, c), w # HubId,
               UNCHANGED <<hub, registry>>
        PROVE  BusyInv'
    <2>1. busy'[c].by = "none" /\ \A d \in Conns \ {c} : busy'[d] = busy[d]
      BY <1>1, <1>4, EndType
    <2>2. HubWrites' = HubWrites
      BY <1>4 DEF HubWrites
    <2>3. \A d, e \in Conns : busy'[d].by = e => RelaysOf(e, busy'[d].msg)
      BY <1>1, <2>1 DEF BusyInv
    <2>4. \A d \in Conns : busy'[d].by = HubId => <<d, busy'[d].msg>> \in HubWrites'
      BY <1>1, <2>1, <2>2 DEF BusyInv, HubId
    <2>5. \A d, e \in Conns : busy'[e].by = HubId /\ busy'[d].by = HubId => e = d
      BY <1>1, <2>1 DEF BusyInv, HubId
    <2> QED
      BY <2>3, <2>4, <2>5 DEF BusyInv, RelaysOf, HubId
  <1>5. ASSUME NEW w \in Writers, NEW c \in Conns, NEW m \in Messages, Begin(w, c, m),
               UNCHANGED <<hub, registry>>,
               \/ w = HubId /\ ~Writing(HubId) /\ <<c, m>> \in HubWrites
                  /\ \A e \in Conns : ~RelaysOf(e, m)
               \/ w \in Conns /\ RelaysOf(w, m)
        PROVE  BusyInv'
    <2>1. /\ busy'[c].by = w /\ busy'[c].msg = m
          /\ \A d \in Conns \ {c} : busy'[d] = busy[d]
      BY <1>1, <1>5, BeginType, Zenon
    <2>2. HubWrites' = HubWrites
      BY <1>5 DEF HubWrites
    <2>3. \A d, e \in Conns : busy'[d].by = e => RelaysOf(e, busy'[d].msg)
      BY <1>1, <1>5, <2>1 DEF BusyInv
    <2>4. \A d \in Conns : busy'[d].by = HubId => <<d, busy'[d].msg>> \in HubWrites'
      BY <1>1, <1>5, <2>1, <2>2 DEF BusyInv
    <2>5. \A d, e \in Conns : busy'[e].by = HubId /\ busy'[d].by = HubId => e = d
      BY <1>1, <1>5, <2>1 DEF BusyInv, Writing
    <2> QED
      BY <2>3, <2>4, <2>5 DEF BusyInv, RelaysOf, HubId
  <1>6. CASE HubBegins
    <2>1. PICK p \in HubWrites :
             \/ Begin(HubId, p[1], p[2]) /\ UNCHANGED <<hub, crashed>>
             \/ Garble(p[1]) /\ hub' = AfterWrite(p[1]) /\ UNCHANGED crashed
             \/ ~IsFree(p[1]) /\ crashed' = TRUE /\ collided' = TRUE /\ UNCHANGED <<hub, busy>>
      BY <1>6 DEF HubBegins
    <2>2. /\ p[1] \in Conns /\ p[2] \in Messages /\ HubId \in Writers
          /\ <<p[1], p[2]>> \in HubWrites /\ \A e \in Conns : ~RelaysOf(e, p[2])
          /\ ~Writing(HubId) /\ UNCHANGED registry
      BY <1>1, <1>6, HubWritesType DEF TypeOK, Writers, HubBegins
    <2>3. PICK c, m : c = p[1] /\ m = p[2]
      OBVIOUS
    <2>4. CASE Begin(HubId, p[1], p[2]) /\ UNCHANGED <<hub, crashed>>
      BY <1>5, <2>2, <2>3, <2>4
    <2>5. CASE Garble(p[1]) /\ hub' = AfterWrite(p[1])
      BY <1>1, <1>3, <2>2, <2>5, GarbleType DEF Writing
    <2>6. CASE UNCHANGED <<hub, busy>>
      BY <1>2, <2>2, <2>6
    <2> QED
      BY <2>1, <2>4, <2>5, <2>6
  <1>7. CASE TakeRegister \/ TakeUnregister
    <2>1. hub = Idle /\ busy' = busy
      BY <1>7 DEF TakeRegister, TakeUnregister
    <2>2. ~Writing(HubId)
      BY <2>1, IdleHub
    <2> QED
      BY <1>3, <2>1, <2>2 DEF Writing
  <1>8. ASSUME NEW c \in Conns, HubEnds(c)
        PROVE  BusyInv'
    <2>1. End(HubId, c) /\ HubId \in Writers /\ \A d \in Conns : busy'[d].by # HubId
      BY <1>8, HubEndsEffect DEF Writers
    <2>2. busy'[c].by = "none" /\ \A d \in Conns \ {c} : busy'[d] = busy[d]
      BY <1>1, <2>1, EndType
    <2>3. \A d, e \in Conns : busy'[d].by = e => RelaysOf(e, busy'[d].msg)
      BY <1>1, <2>2 DEF BusyInv
    <2> QED
      BY <2>1, <2>3 DEF BusyInv, RelaysOf, HubId
  <1>9. ASSUME NEW c \in Conns, ConnStep(c)
        PROVE  BusyInv'
    <2>1. UNCHANGED <<hub, registry>>
      BY <1>9, ConnKeepsHub
    <2>2. CASE UNCHANGED busy
      BY <1>2, <2>1, <2>2
    <2>3. CASE Dispatch(c)
      <3>1. PICK to \in Conns, n \in 1..MaxSends :
               \/ UNCHANGED <<busy, collided>>
               \/ Begin(c, to, Relayed(c, n))
               \/ Garble(to)
               \/ UNCHANGED busy /\ collided' = TRUE
        BY <1>1, <2>3, DispatchEffect
      <3>2. c \in Writers /\ Relayed(c, n) \in Messages /\ RelaysOf(c, Relayed(c, n))
        BY MessageTypes DEF Writers, RelaysOf, Relayed
      <3>3. CASE Begin(c, to, Relayed(c, n))
        BY <1>5, <2>1, <3>2, <3>3
      <3>4. CASE Garble(to)
        BY <1>1, <1>3, <2>1, <3>4, GarbleType
      <3> QED
        BY <2>2, <3>1, <3>3, <3>4
    <2>4. ASSUME NEW d \in Conns, Relay(c, d)
          PROVE  BusyInv'
      <3>1. End(c, d) /\ c \in Writers /\ c # HubId
        BY <1>1, <2>4 DEF Relay, Writers
      <3> QED
        BY <1>4, <2>1, <3>1
    <2>5. \/ UNCHANGED busy \/ Dispatch(c) \/ \E d \in Conns : Relay(c, d)
      BY <1>9 DEF ConnStep, Connect, Close, Read, Send, Register, PumpEnds, Unregister
    <2> QED
      BY <2>2, <2>3, <2>4, <2>5
  <1>10. CASE UNCHANGED vars
    BY <1>2, <1>10 DEF vars
  <1> QED
    BY <1>6, <1>7, <1>8, <1>9, <1>10, NextCases

-------------------------------------------------------------------------------
(* Order.                                                                      *)

Order == OutboxInv /\ PassedInv /\ WritingInv /\ RelayInOrder

LEMMA Numbers ==
    ASSUME IInv
    PROVE  /\ sends \in Nat /\ MaxSends \in Nat
           /\ \A c, d \in Conns : got[d][c] \in 0..MaxSends
           /\ \A c \in Conns : /\ outbox[c] \in Seq(Sent) /\ Len(outbox[c]) \in Nat
                               /\ \A i \in 1..Len(outbox[c]) : outbox[c][i].n \in 1..MaxSends
           /\ \A d \in Conns : Len(inbox[d]) \in Nat
           /\ \A c, d \in Conns : \A i \in 1..Len(inbox[d]) :
                 /\ inbox[d][i] \in Messages
                 /\ RelaysOf(c, inbox[d][i]) => inbox[d][i].n \in 1..MaxSends
           /\ \A c, d \in Conns : busy[d].by = c =>
                 RelaysOf(c, busy[d].msg) /\ busy[d].msg.n \in 1..MaxSends
  <1>1. TypeOK /\ BusyInv /\ HubId \notin Conns /\ "none" \notin Conns
    BY HubAssumption DEF IInv, HubId
  <1>2. sends \in Nat /\ MaxSends \in Nat /\ \A c, d \in Conns : got[d][c] \in 0..MaxSends
    BY <1>1, HubAssumption DEF TypeOK
  <1>3. ASSUME NEW c \in Conns
        PROVE  /\ outbox[c] \in Seq(Sent) /\ Len(outbox[c]) \in Nat
               /\ \A i \in 1..Len(outbox[c]) : outbox[c][i].n \in 1..MaxSends
    <2>1. outbox[c] \in Seq(Sent)
      BY <1>1 DEF TypeOK, Sent
    <2>2. \A i \in 1..Len(outbox[c]) : outbox[c][i] \in Sent
      BY <2>1
    <2> QED
      BY <2>1, <2>2 DEF Sent
  <1>4. \A c \in Conns, m \in Messages : RelaysOf(c, m) => m.n \in 1..MaxSends
    BY DEF RelaysOf, Messages, Registered
  <1>5. ASSUME NEW d \in Conns
        PROVE  /\ Len(inbox[d]) \in Nat
               /\ \A i \in 1..Len(inbox[d]) : inbox[d][i] \in Messages
    <2>1. inbox[d] \in Seq(Messages)
      BY <1>1 DEF TypeOK
    <2> QED
      BY <2>1
  <1>6. \A c, d \in Conns : busy[d].by = c =>
           RelaysOf(c, busy[d].msg) /\ busy[d].msg.n \in 1..MaxSends
    <2>1. \A c, d \in Conns : busy[d].by = c => busy[d].msg \in Messages
      BY <1>1, BusyCases DEF HubId
    <2> QED
      BY <1>1, <1>4, <2>1 DEF BusyInv
  <1> QED
    BY <1>2, <1>3, <1>4, <1>5, <1>6

\* No page sends, reads or is written to, and no handler begins to write.
LEMMA OrderQuiet ==
    ASSUME IInv, UNCHANGED <<outbox, inbox, got, sends>>,
           \A c, d \in Conns : busy'[d].by = c => busy[d].by = c /\ busy'[d].msg = busy[d].msg
    PROVE  Order'
  <1>1. OutboxInv' /\ RelayInOrder'
    BY DEF IInv, OutboxInv, RelayInOrder, RelaysOf
  <1>2. \A c, d \in Conns : \A n : Passed(c, d, n)' => Passed(c, d, n)
    BY DEF Passed, RelaysOf
  <1>3. PassedInv'
    BY <1>2 DEF IInv, PassedInv
  <1>4. WritingInv'
    BY DEF IInv, WritingInv, RelaysOf
  <1> QED
    BY <1>1, <1>3, <1>4 DEF Order

LEMMA OrderClose ==
    ASSUME IInv, NEW c \in Conns, Close(c)
    PROVE  Order'
  <1>1. /\ UNCHANGED <<outbox, got, sends, busy>>
        /\ Len(inbox'[c]) = 0 /\ \A d \in Conns \ {c} : inbox'[d] = inbox[d]
    BY DEF Close, IInv, TypeOK
  <1>2. \A d \in Conns : \A i \in 1..Len(inbox'[d]) :
           i \in 1..Len(inbox[d]) /\ inbox'[d] = inbox[d]
    BY <1>1
  <1>3. OutboxInv'
    BY <1>1 DEF IInv, OutboxInv
  <1>4. \A e, d \in Conns : \A n : Passed(e, d, n)' => Passed(e, d, n)
    BY <1>1, <1>2 DEF Passed, RelaysOf
  <1>5. PassedInv'
    BY <1>1, <1>4 DEF IInv, PassedInv
  <1>6. WritingInv'
    BY <1>1, <1>2 DEF IInv, WritingInv, RelaysOf
  <1>7. RelayInOrder'
    BY <1>1, <1>2 DEF IInv, RelayInOrder, RelaysOf
  <1> QED
    BY <1>3, <1>5, <1>6, <1>7 DEF Order

\* What a page reads is the least of what is on its way to it.
LEMMA OrderRead ==
    ASSUME IInv, NEW c \in Conns, Read(c)
    PROVE  Order'
  <1>1. PICK m : m = Head(inbox[c])
    OBVIOUS
  <1>2. TypeOK /\ UNCHANGED <<outbox, sends, busy>>
    BY DEF IInv, Read
  <1>3. /\ m = inbox[c][1] /\ Len(inbox[c]) \in Nat /\ Len(inbox[c]) >= 1
        /\ \A d \in Conns \ {c} : inbox'[d] = inbox[d]
        /\ Len(inbox'[c]) = Len(inbox[c]) - 1
        /\ \A i \in 1..Len(inbox'[c]) :
              i + 1 \in 1..Len(inbox[c]) /\ inbox'[c][i] = inbox[c][i + 1]
        /\ \A d \in Conns : RelaysOf(d, m) => got'[c][d] = m.n
        /\ \A d \in Conns : ~RelaysOf(d, m) => got'[c][d] = got[c][d]
        /\ \A d \in Conns \ {c}, e \in Conns : got'[d][e] = got[d][e]
    <2> USE <1>1, <1>2
    <2>1. m = inbox[c][1] /\ Len(inbox[c]) \in Nat /\ Len(inbox[c]) >= 1
      BY ReadEffect
    <2>2. \A d \in Conns \ {c} : inbox'[d] = inbox[d]
      BY ReadEffect
    <2>3. Len(inbox'[c]) = Len(inbox[c]) - 1
      BY ReadEffect
    <2>4. \A i \in 1..Len(inbox'[c]) :
             i + 1 \in 1..Len(inbox[c]) /\ inbox'[c][i] = inbox[c][i + 1]
      BY ReadEffect
    <2>5. /\ \A d \in Conns : RelaysOf(d, m) => got'[c][d] = m.n
          /\ \A d \in Conns : ~RelaysOf(d, m) => got'[c][d] = got[c][d]
      BY ReadEffect
    <2>6. \A d \in Conns \ {c}, e \in Conns : got'[d][e] = got[d][e]
      BY ReadEffect
    <2> QED
      BY <2>1, <2>2, <2>3, <2>4, <2>5, <2>6
  <1>4. OutboxInv'
    BY <1>2 DEF IInv, OutboxInv
  <1>5. ASSUME NEW e \in Conns, NEW d \in Conns, NEW n, Passed(e, d, n)'
        PROVE  Passed(e, d, n)
    <2>1. CASE d = c
      <3>1. CASE n = got'[c][e]
        <4>1. 1 \in 1..Len(inbox[c])
          BY <1>3
        <4>2. n = got[c][e] \/ (RelaysOf(e, inbox[c][1]) /\ n = inbox[c][1].n)
          BY <1>3, <3>1
        <4> QED
          BY <2>1, <4>1, <4>2 DEF Passed
      <3>2. ASSUME NEW i \in 1..Len(inbox'[c]), RelaysOf(e, inbox'[c][i]), n = inbox'[c][i].n
            PROVE  Passed(e, d, n)
        <4>1. i + 1 \in 1..Len(inbox[c]) /\ inbox'[c][i] = inbox[c][i + 1]
          BY <1>3
        <4> QED
          BY <2>1, <3>2, <4>1 DEF Passed
      <3>3. CASE busy[d].by = e /\ n = busy[d].msg.n
        BY <3>3 DEF Passed
      <3> QED
        BY <1>2, <1>5, <2>1, <3>1, <3>2, <3>3 DEF Passed, RelaysOf
    <2>2. CASE d # c
      <3>1. inbox'[d] = inbox[d] /\ got'[d][e] = got[d][e] /\ busy' = busy
        BY <1>2, <1>3, <2>2
      <3> QED
        BY <1>5, <3>1 DEF Passed, RelaysOf
    <2> QED
      BY <2>1, <2>2
  <1>6. PassedInv'
    BY <1>2, <1>5 DEF IInv, PassedInv
  <1>7. ASSUME NEW d \in Conns, RelaysOf(d, m), NEW i \in 1..Len(inbox'[c]),
               RelaysOf(d, inbox'[c][i])
        PROVE  m.n < inbox'[c][i].n
    <2>1. PICK k : k = i + 1
      OBVIOUS
    <2>2. k \in 1..Len(inbox[c]) /\ 1 \in 1..(k - 1) /\ inbox'[c][i] = inbox[c][k]
      BY <1>3, <2>1
    <2> QED
      BY <1>3, <1>7, <2>2 DEF IInv, RelayInOrder
  <1>8. WritingInv'
    <2>1. ASSUME NEW e \in Conns, NEW d \in Conns, busy[d].by = e
          PROVE  /\ got'[d][e] < busy[d].msg.n
                 /\ \A i \in 1..Len(inbox'[d]) :
                       RelaysOf(e, inbox'[d][i]) => inbox'[d][i].n < busy[d].msg.n
      <3>1. /\ got[d][e] < busy[d].msg.n
            /\ \A i \in 1..Len(inbox[d]) :
                  RelaysOf(e, inbox[d][i]) => inbox[d][i].n < busy[d].msg.n
        BY <2>1 DEF IInv, WritingInv
      <3>2. CASE d = c
        <4>1. RelaysOf(e, m) => m.n < busy[d].msg.n
          BY <1>3, <3>1, <3>2
        <4> QED
          BY <1>3, <3>1, <3>2, <4>1
      <3>3. CASE d # c
        BY <1>3, <3>1, <3>3
      <3> QED
        BY <3>2, <3>3
    <2> QED
      BY <1>2, <2>1 DEF WritingInv, RelaysOf
  <1>9. RelayInOrder'
    <2>1. ASSUME NEW e \in Conns, NEW i \in 1..Len(inbox'[c]), RelaysOf(e, inbox'[c][i])
          PROVE  /\ got'[c][e] < inbox'[c][i].n
                 /\ \A j \in 1..(i - 1) : RelaysOf(e, inbox'[c][j]) => inbox'[c][j].n < inbox'[c][i].n
      <3>1. i + 1 \in 1..Len(inbox[c]) /\ inbox'[c][i] = inbox[c][i + 1]
        BY <1>3
      <3>2. /\ got[c][e] < inbox[c][i + 1].n
            /\ \A j \in 1..((i + 1) - 1) :
                  RelaysOf(e, inbox[c][j]) => inbox[c][j].n < inbox[c][i + 1].n
        BY <2>1, <3>1 DEF IInv, RelayInOrder
      <3>3. got'[c][e] < inbox'[c][i].n
        BY <1>3, <1>7, <2>1, <3>1, <3>2
      <3>4. ASSUME NEW j \in 1..(i - 1), RelaysOf(e, inbox'[c][j])
            PROVE  inbox'[c][j].n < inbox'[c][i].n
        <4>1. j \in 1..Len(inbox'[c]) /\ j + 1 \in 1..((i + 1) - 1)
          BY <1>3, <3>1
        <4>2. inbox'[c][j] = inbox[c][j + 1]
          BY <1>3, <4>1
        <4> QED
          BY <3>1, <3>2, <3>4, <4>1, <4>2
      <3> QED
        BY <3>3, <3>4
    <2>2. ASSUME NEW e \in Conns, NEW d \in Conns \ {c}, NEW i \in 1..Len(inbox'[d]),
                 RelaysOf(e, inbox'[d][i])
          PROVE  /\ got'[d][e] < inbox'[d][i].n
                 /\ \A j \in 1..(i - 1) : RelaysOf(e, inbox'[d][j]) => inbox'[d][j].n < inbox'[d][i].n
      <3>1. inbox'[d] = inbox[d] /\ got'[d][e] = got[d][e] /\ d \in Conns
        BY <1>3
      <3> QED
        BY <2>2, <3>1 DEF IInv, RelayInOrder
    <2> QED
      BY <2>1, <2>2 DEF RelayInOrder, RelaysOf
  <1> QED
    BY <1>4, <1>6, <1>8, <1>9 DEF Order

\* A new number is above all others.
LEMMA OrderSend ==
    ASSUME IInv, NEW c \in Conns, NEW d \in Conns, Send(c, d)
    PROVE  Order'
  <1>1. TypeOK /\ UNCHANGED <<inbox, got, busy>>
    BY DEF IInv, Send
  <1>2. /\ sends \in Nat /\ sends' = sends + 1
        /\ \A e \in Conns \ {c} : outbox'[e] = outbox[e]
        /\ Len(outbox[c]) \in Nat /\ Len(outbox'[c]) = Len(outbox[c]) + 1
        /\ \A i \in 1..Len(outbox[c]) : outbox'[c][i] = outbox[c][i]
        /\ outbox'[c][Len(outbox[c]) + 1].n = sends + 1
    BY <1>1, SendEffect
  <1>3. \A e \in Conns : \A i \in 1..Len(outbox[e]) :
           outbox[e][i].n \in Nat /\ outbox[e][i].n <= sends
    BY Numbers DEF IInv, OutboxInv
  <1>4. \A x \in Nat : x <= sends => x <= sends' /\ x < sends + 1
    BY <1>2
  <1>5. ASSUME NEW i \in 1..Len(outbox'[c])
        PROVE  \/ i \in 1..Len(outbox[c]) /\ outbox'[c][i] = outbox[c][i]
               \/ i = Len(outbox[c]) + 1 /\ outbox'[c][i].n = sends + 1
    BY <1>2
  <1>6. OutboxInv'
    <2>1. ASSUME NEW i \in 1..Len(outbox'[c])
          PROVE  /\ outbox'[c][i].n <= sends'
                 /\ \A j \in 1..(i - 1) : outbox'[c][j].n < outbox'[c][i].n
      <3>1. CASE i \in 1..Len(outbox[c])
        <4>1. \A j \in 1..(i - 1) : j \in 1..Len(outbox[c])
          BY <1>2, <3>1
        <4>2. /\ outbox[c][i].n <= sends
              /\ \A j \in 1..(i - 1) : outbox[c][j].n < outbox[c][i].n
          BY <3>1 DEF IInv, OutboxInv
        <4>3. outbox[c][i].n <= sends'
          BY <1>3, <1>4, <3>1
        <4>4. outbox'[c][i] = outbox[c][i]
          BY <1>2, <3>1
        <4>5. ASSUME NEW j \in 1..(i - 1)
              PROVE  outbox'[c][j].n < outbox'[c][i].n
          <5>1. outbox'[c][j] = outbox[c][j]
            BY <1>2, <4>1
          <5> QED
            BY <4>2, <4>4, <5>1
        <4> QED
          BY <4>3, <4>4, <4>5
      <3>2. CASE i = Len(outbox[c]) + 1
        <4>1. outbox'[c][i].n = sends + 1 /\ sends + 1 <= sends'
          BY <1>2, <3>2
        <4>2. ASSUME NEW j \in 1..(i - 1)
              PROVE  outbox'[c][j].n < sends + 1
          <5>1. j \in 1..Len(outbox[c]) /\ outbox'[c][j] = outbox[c][j]
            BY <1>2, <3>2
          <5> QED
            BY <1>3, <1>4, <5>1
        <4> QED
          BY <4>1, <4>2
      <3> QED
        BY <1>5, <3>1, <3>2
    <2>2. ASSUME NEW e \in Conns \ {c}, NEW i \in 1..Len(outbox'[e])
          PROVE  /\ outbox'[e][i].n <= sends'
                 /\ \A j \in 1..(i - 1) : outbox'[e][j].n < outbox'[e][i].n
      <3>1. outbox'[e] = outbox[e]
        BY <1>2
      <3>2. \A j \in 1..(i - 1) : outbox[e][j].n < outbox[e][i].n
        BY <3>1 DEF IInv, OutboxInv
      <3>3. outbox[e][i].n <= sends'
        BY <1>3, <1>4, <3>1
      <3> QED
        BY <3>1, <3>2, <3>3
    <2> QED
      BY <2>1, <2>2 DEF OutboxInv
  <1>7. \A e, f \in Conns : \A n : Passed(e, f, n)' => Passed(e, f, n)
    BY <1>1 DEF Passed, RelaysOf
  <1>8. PassedInv'
    <2>1. ASSUME NEW e \in Conns, NEW f \in Conns, NEW n \in 0..MaxSends, Passed(e, f, n)
          PROVE  /\ n <= sends'
                 /\ \A i \in 1..Len(outbox'[e]) : n < outbox'[e][i].n
      <3>1. n <= sends /\ \A i \in 1..Len(outbox[e]) : n < outbox[e][i].n
        BY <2>1 DEF IInv, PassedInv
      <3>2. n \in Nat
        BY Numbers
      <3>3. n <= sends' /\ n < sends + 1
        BY <1>4, <3>1, <3>2
      <3>4. CASE e = c
        <4>1. ASSUME NEW i \in 1..Len(outbox'[c])
              PROVE  n < outbox'[c][i].n
          <5>1. CASE i \in 1..Len(outbox[c]) /\ outbox'[c][i] = outbox[c][i]
            BY <3>1, <3>4, <5>1
          <5>2. CASE outbox'[c][i].n = sends + 1
            BY <3>3, <5>2
          <5> QED
            BY <1>5, <5>1, <5>2
        <4> QED
          BY <3>3, <3>4, <4>1
      <3>5. CASE e # c
        <4>1. outbox'[e] = outbox[e]
          BY <1>2, <3>5
        <4> QED
          BY <3>1, <3>3, <4>1
      <3> QED
        BY <3>4, <3>5
    <2> QED
      BY <1>7, <2>1 DEF PassedInv
  <1>9. WritingInv' /\ RelayInOrder'
    BY <1>1 DEF IInv, WritingInv, RelayInOrder, RelaysOf
  <1> QED
    BY <1>6, <1>8, <1>9 DEF Order

\* A handler writes the least of the numbers it has not read.
LEMMA OrderDispatch ==
    ASSUME IInv, NEW c \in Conns, Dispatch(c)
    PROVE  Order'
  <1>1. TypeOK /\ UNCHANGED <<inbox, got, sends>> /\ "none" \notin Conns
    BY HubAssumption DEF IInv, Dispatch
  <1>2. PICK to \in Conns, n \in 1..MaxSends :
           /\ n = outbox[c][1].n /\ Len(outbox[c]) \in Nat /\ Len(outbox[c]) >= 1
           /\ \A e \in Conns \ {c} : outbox'[e] = outbox[e]
           /\ Len(outbox'[c]) = Len(outbox[c]) - 1
           /\ \A i \in 1..Len(outbox'[c]) :
                 i + 1 \in 1..Len(outbox[c]) /\ outbox'[c][i] = outbox[c][i + 1]
           /\ \/ UNCHANGED <<busy, collided>>
              \/ Begin(c, to, Relayed(c, n))
              \/ Garble(to)
              \/ UNCHANGED busy /\ collided' = TRUE
    BY <1>1, DispatchEffect
  <1>3. /\ n <= sends
        /\ \A i \in 1..Len(outbox'[c]) : n < outbox'[c][i].n
    <2>1. 1 \in 1..Len(outbox[c]) /\ \A i \in 1..Len(outbox'[c]) : 1 \in 1..((i + 1) - 1)
      BY <1>2
    <2> QED
      BY <1>2, <2>1 DEF IInv, OutboxInv
  <1>4. OutboxInv'
    <2>1. ASSUME NEW i \in 1..Len(outbox'[c])
          PROVE  /\ outbox'[c][i].n <= sends
                 /\ \A j \in 1..(i - 1) : outbox'[c][j].n < outbox'[c][i].n
      <3>1. i + 1 \in 1..Len(outbox[c]) /\ outbox'[c][i] = outbox[c][i + 1]
        BY <1>2
      <3>2. /\ outbox[c][i + 1].n <= sends
            /\ \A j \in 1..((i + 1) - 1) : outbox[c][j].n < outbox[c][i + 1].n
        BY <3>1 DEF IInv, OutboxInv
      <3>3. ASSUME NEW j \in 1..(i - 1)
            PROVE  outbox'[c][j].n < outbox'[c][i].n
        <4>1. j \in 1..Len(outbox'[c]) /\ j + 1 \in 1..((i + 1) - 1)
          BY <1>2, <3>1
        <4>2. outbox'[c][j] = outbox[c][j + 1]
          BY <1>2, <4>1
        <4> QED
          BY <3>1, <3>2, <4>1, <4>2
      <3> QED
        BY <3>1, <3>2, <3>3
    <2>2. ASSUME NEW e \in Conns \ {c}, NEW i \in 1..Len(outbox'[e])
          PROVE  /\ outbox'[e][i].n <= sends
                 /\ \A j \in 1..(i - 1) : outbox'[e][j].n < outbox'[e][i].n
      BY <1>2 DEF IInv, OutboxInv
    <2> QED
      BY <1>1, <2>1, <2>2 DEF OutboxInv
  <1>5. \A e, d \in Conns : busy'[d].by = e =>
           \/ busy[d].by = e /\ busy'[d].msg = busy[d].msg
           \/ d = to /\ e = c /\ busy'[d].msg.n = n /\ busy[d].by = "none"
    <2>1. CASE Begin(c, to, Relayed(c, n))
      <3>1. PICK m : m = Relayed(c, n)
        OBVIOUS
      <3>2. c \in Writers /\ m \in Messages /\ m.n = n /\ Begin(c, to, m)
        BY <2>1, <3>1, MessageTypes DEF Writers, Relayed
      <3>3. /\ busy[to].by = "none" /\ busy'[to].by = c /\ busy'[to].msg = m
            /\ \A d \in Conns \ {to} : busy'[d] = busy[d]
        BY <1>1, <3>2, BeginType, Zenon
      <3> QED
        BY <3>2, <3>3
    <2>2. CASE Garble(to)
      BY <1>1, <2>2, GarbleType
    <2>3. CASE UNCHANGED busy
      BY <2>3
    <2> QED
      BY <1>2, <2>1, <2>2, <2>3
  <1>6. PassedInv'
    <2>1. ASSUME NEW e \in Conns, NEW d \in Conns, NEW k \in 0..MaxSends, Passed(e, d, k)'
          PROVE  Passed(e, d, k) \/ (e = c /\ k = n)
      BY <1>1, <1>5, <2>1 DEF Passed, RelaysOf
    <2>2. ASSUME NEW e \in Conns, NEW d \in Conns, NEW k \in 0..MaxSends, Passed(e, d, k)
          PROVE  /\ k <= sends
                 /\ \A i \in 1..Len(outbox'[e]) : k < outbox'[e][i].n
      <3>1. k <= sends /\ \A i \in 1..Len(outbox[e]) : k < outbox[e][i].n
        BY <2>2 DEF IInv, PassedInv
      <3>2. CASE e = c
        BY <1>2, <3>1, <3>2
      <3>3. CASE e # c
        BY <1>2, <3>1, <3>3
      <3> QED
        BY <3>2, <3>3
    <2> QED
      BY <1>1, <1>3, <2>1, <2>2 DEF PassedInv
  <1>7. WritingInv'
    <2>1. ASSUME NEW e \in Conns, NEW d \in Conns, busy'[d].by = e
          PROVE  /\ got[d][e] < busy'[d].msg.n
                 /\ \A i \in 1..Len(inbox[d]) :
                       RelaysOf(e, inbox[d][i]) => inbox[d][i].n < busy'[d].msg.n
      <3>1. CASE busy[d].by = e /\ busy'[d].msg = busy[d].msg
        BY <3>1 DEF IInv, WritingInv
      <3>2. CASE d = to /\ e = c /\ busy'[d].msg.n = n
        <4>1. 1 \in 1..Len(outbox[c])
          BY <1>2
        <4>2. \A k \in 0..MaxSends : Passed(c, d, k) => k < n
          BY <1>2, <4>1 DEF IInv, PassedInv
        <4>3. got[d][c] \in 0..MaxSends /\ Passed(c, d, got[d][c])
          BY Numbers DEF Passed
        <4>4. \A i \in 1..Len(inbox[d]) : RelaysOf(c, inbox[d][i]) =>
                 inbox[d][i].n \in 0..MaxSends /\ Passed(c, d, inbox[d][i].n)
          BY Numbers DEF Passed
        <4> QED
          BY <3>2, <4>2, <4>3, <4>4
      <3> QED
        BY <1>5, <2>1, <3>1, <3>2
    <2> QED
      BY <1>1, <2>1 DEF WritingInv, RelaysOf
  <1>8. RelayInOrder'
    BY <1>1 DEF IInv, RelayInOrder, RelaysOf
  <1> QED
    BY <1>4, <1>6, <1>7, <1>8 DEF Order

LEMMA OrderPumpEnds ==
    ASSUME IInv, NEW c \in Conns, PumpEnds(c)
    PROVE  Order'
  <1>1. /\ UNCHANGED <<inbox, got, sends, busy>>
        /\ Len(outbox'[c]) = 0 /\ \A d \in Conns \ {c} : outbox'[d] = outbox[d]
    BY DEF PumpEnds, IInv, TypeOK
  <1>2. \A d \in Conns : \A i \in 1..Len(outbox'[d]) :
           i \in 1..Len(outbox[d]) /\ outbox'[d] = outbox[d]
    BY <1>1
  <1>3. OutboxInv'
    BY <1>1, <1>2 DEF IInv, OutboxInv
  <1>4. \A e, d \in Conns : \A n : Passed(e, d, n)' => Passed(e, d, n)
    BY <1>1 DEF Passed, RelaysOf
  <1>5. PassedInv'
    BY <1>1, <1>2, <1>4 DEF IInv, PassedInv
  <1>6. WritingInv' /\ RelayInOrder'
    BY <1>1 DEF IInv, WritingInv, RelayInOrder, RelaysOf
  <1> QED
    BY <1>3, <1>5, <1>6 DEF Order

\* A write that ends adds to the socket what is above all that is in it.
LEMMA OrderEnd ==
    ASSUME IInv, NEW w \in Writers, NEW c \in Conns, End(w, c), UNCHANGED <<outbox, got, sends>>
    PROVE  Order'
  <1>1. TypeOK /\ "none" \notin Conns
    BY HubAssumption DEF IInv
  <1>2. /\ busy[c].by = w /\ busy'[c].by = "none" /\ \A d \in Conns \ {c} : busy'[d] = busy[d]
        /\ busy[c].msg \in Messages
        /\ \A d \in Conns \ {c} : inbox'[d] = inbox[d]
        /\ inbox'[c] = IF page[c] = "open" /\ busy[c].whole
                       THEN Append(inbox[c], busy[c].msg) ELSE inbox[c]
    BY <1>1, EndType
  <1>3. \A e, d \in Conns : busy'[d].by = e => busy[d].by = e /\ busy'[d].msg = busy[d].msg
    BY <1>1, <1>2
  <1>4. CASE ~(page[c] = "open" /\ busy[c].whole)
    <2>1. inbox' = inbox
      BY <1>4 DEF End
    <2> QED
      BY <1>3, <2>1, OrderQuiet
  <1>5. CASE page[c] = "open" /\ busy[c].whole
    <2>1. PICK m : m = busy[c].msg
      OBVIOUS
    <2>2. inbox[c] \in Seq(Messages) /\ inbox'[c] = Append(inbox[c], m)
      BY <1>1, <1>2, <1>5, <2>1 DEF TypeOK
    <2>3. PICK q : q = inbox[c]
      OBVIOUS
    <2>4. /\ Len(q) \in Nat /\ Len(inbox'[c]) = Len(q) + 1
          /\ \A i \in 1..Len(q) : inbox'[c][i] = q[i]
          /\ inbox'[c][Len(q) + 1] = m
      BY <1>2, <2>1, <2>2, <2>3
    <2>5. \A i \in 1..Len(inbox'[c]) :
             \/ i \in 1..Len(q) /\ inbox'[c][i] = q[i]
             \/ i = Len(q) + 1 /\ inbox'[c][i] = m
      BY <2>4
    <2>6. \A e \in Conns : RelaysOf(e, m) => busy[c].by = e
      <3>1. CASE w = HubId
        <4>1. <<c, m>> \in HubWrites
          BY <1>2, <2>1, <3>1 DEF IInv, BusyInv
        <4> QED
          BY <1>1, <4>1, HubWritesType DEF TypeOK
      <3>2. CASE w \in Conns
        <4>1. RelaysOf(w, m)
          BY <1>2, <2>1, <3>2 DEF IInv, BusyInv
        <4> QED
          BY <1>2, <4>1 DEF RelaysOf
      <3> QED
        BY <3>1, <3>2 DEF Writers
    <2>7. \A e, d \in Conns : \A n : Passed(e, d, n)' => Passed(e, d, n)
      <3>1. ASSUME NEW e \in Conns, NEW n, Passed(e, c, n)'
            PROVE  Passed(e, c, n)
        <4>1. CASE \E i \in 1..Len(inbox'[c]) : RelaysOf(e, inbox'[c][i]) /\ n = inbox'[c][i].n
          <5>1. PICK i \in 1..Len(inbox'[c]) : RelaysOf(e, inbox'[c][i]) /\ n = inbox'[c][i].n
            BY <4>1
          <5> QED
            BY <2>1, <2>3, <2>5, <2>6, <5>1 DEF Passed
        <4>2. CASE n = got[c][e]
          BY <4>2 DEF Passed
        <4> QED
          BY <1>1, <1>2, <3>1, <4>1, <4>2 DEF Passed, RelaysOf
      <3>2. ASSUME NEW e \in Conns, NEW d \in Conns \ {c}, NEW n, Passed(e, d, n)'
            PROVE  Passed(e, d, n)
        BY <1>2, <3>2 DEF Passed, RelaysOf
      <3> QED
        BY <3>1, <3>2
    <2>8. OutboxInv' /\ PassedInv'
      BY <2>7 DEF IInv, OutboxInv, PassedInv
    <2>9. WritingInv'
      <3>1. ASSUME NEW e \in Conns, NEW d \in Conns, busy'[d].by = e
            PROVE  d # c /\ busy'[d] = busy[d] /\ inbox'[d] = inbox[d]
        BY <1>1, <1>2, <3>1
      <3> QED
        BY <3>1 DEF IInv, WritingInv, RelaysOf
    <2>10. RelayInOrder'
      <3>1. ASSUME NEW e \in Conns, NEW i \in 1..Len(inbox'[c]), RelaysOf(e, inbox'[c][i])
            PROVE  /\ got[c][e] < inbox'[c][i].n
                   /\ \A j \in 1..(i - 1) :
                         RelaysOf(e, inbox'[c][j]) => inbox'[c][j].n < inbox'[c][i].n
        <4>1. \A j \in 1..(i - 1) : j \in 1..Len(q) /\ inbox'[c][j] = q[j]
          BY <2>4
        <4>2. CASE i \in 1..Len(q) /\ inbox'[c][i] = q[i]
          BY <2>3, <3>1, <4>1, <4>2 DEF IInv, RelayInOrder
        <4>3. CASE i = Len(q) + 1 /\ inbox'[c][i] = m
          <5>1. busy[c].by = e
            BY <2>6, <3>1, <4>3
          <5>2. /\ got[c][e] < m.n
                /\ \A j \in 1..Len(q) : RelaysOf(e, q[j]) => q[j].n < m.n
            BY <2>1, <2>3, <5>1 DEF IInv, WritingInv
          <5> QED
            BY <4>1, <4>3, <5>2
        <4> QED
          BY <2>5, <4>2, <4>3
      <3>2. ASSUME NEW e \in Conns, NEW d \in Conns \ {c}, NEW i \in 1..Len(inbox'[d]),
                   RelaysOf(e, inbox'[d][i])
            PROVE  /\ got[d][e] < inbox'[d][i].n
                   /\ \A j \in 1..(i - 1) :
                         RelaysOf(e, inbox'[d][j]) => inbox'[d][j].n < inbox'[d][i].n
        BY <1>2, <3>2 DEF IInv, RelayInOrder
      <3> QED
        BY <3>1, <3>2 DEF RelayInOrder, RelaysOf
    <2> QED
      BY <2>8, <2>9, <2>10 DEF Order
  <1> QED
    BY <1>4, <1>5

LEMMA OrderStep ==
    ASSUME IInv, [Next]_vars
    PROVE  Order'
  <1>1. TypeOK /\ HubId \in Writers /\ HubId \notin Conns
    BY HubAssumption DEF IInv, Writers, HubId
  <1>2. ASSUME UNCHANGED <<outbox, inbox, got, sends, busy>>
        PROVE  Order'
    BY <1>2, OrderQuiet
  <1>3. CASE HubBegins
    <2>1. PICK p \in HubWrites :
             \/ Begin(HubId, p[1], p[2]) /\ UNCHANGED <<hub, crashed>>
             \/ Garble(p[1]) /\ hub' = AfterWrite(p[1]) /\ UNCHANGED crashed
             \/ ~IsFree(p[1]) /\ crashed' = TRUE /\ collided' = TRUE /\ UNCHANGED <<hub, busy>>
      BY <1>3 DEF HubBegins
    <2>2. p[1] \in Conns /\ p[2] \in Messages
      BY <1>1, HubWritesType DEF TypeOK
    <2>3. UNCHANGED <<outbox, inbox, got, sends>>
      BY <1>3 DEF HubBegins, pageVars
    <2>4. CASE Begin(HubId, p[1], p[2])
      <3>1. PICK e, m : e = p[1] /\ m = p[2]
        OBVIOUS
      <3>2. e \in Conns /\ m \in Messages /\ Begin(HubId, e, m)
        BY <2>2, <2>4, <3>1
      <3>3. busy'[e].by = HubId /\ \A d \in Conns \ {e} : busy'[d] = busy[d]
        BY <1>1, <3>2, BeginType, Zenon
      <3>4. \A c, d \in Conns : busy'[d].by = c => busy[d].by = c /\ busy'[d].msg = busy[d].msg
        BY <1>1, <3>3
      <3> QED
        BY <2>3, <3>4, OrderQuiet
    <2>5. CASE Garble(p[1])
      <3>1. \A c, d \in Conns : busy'[d].by = c => busy[d].by = c /\ busy'[d].msg = busy[d].msg
        BY <1>1, <2>2, <2>5, GarbleType, HubAssumption
      <3> QED
        BY <2>3, <3>1, OrderQuiet
    <2>6. CASE UNCHANGED busy
      BY <1>2, <2>3, <2>6
    <2> QED
      BY <2>1, <2>4, <2>5, <2>6
  <1>4. CASE TakeRegister \/ TakeUnregister
    BY <1>2, <1>4 DEF TakeRegister, TakeUnregister, pageVars
  <1>5. ASSUME NEW c \in Conns, HubEnds(c)
        PROVE  Order'
    BY <1>1, <1>5, OrderEnd DEF HubEnds
  <1>6. ASSUME NEW c \in Conns, ConnStep(c)
        PROVE  Order'
    <2>1. CASE Connect(c) \/ Register(c) \/ Unregister(c)
      BY <1>2, <2>1 DEF Connect, Register, Unregister, pageVars
    <2>2. CASE Close(c)
      BY <2>2, OrderClose
    <2>3. CASE Read(c)
      BY <2>3, OrderRead
    <2>4. ASSUME NEW d \in Conns, Send(c, d)
          PROVE  Order'
      BY <2>4, OrderSend
    <2>5. CASE Dispatch(c)
      BY <2>5, OrderDispatch
    <2>6. CASE PumpEnds(c)
      BY <2>6, OrderPumpEnds
    <2>7. ASSUME NEW d \in Conns, Relay(c, d)
          PROVE  Order'
      BY <2>7, OrderEnd DEF Relay, Writers
    <2> QED
      BY <1>6, <2>1, <2>2, <2>3, <2>4, <2>5, <2>6, <2>7 DEF ConnStep
  <1>7. CASE UNCHANGED vars
    BY <1>2, <1>7 DEF vars, pageVars
  <1> QED
    BY <1>3, <1>4, <1>5, <1>6, <1>7, NextCases

-------------------------------------------------------------------------------
(* The registry.                                                               *)

LEMMA NewStep ==
    ASSUME IInv, [Next]_vars
    PROVE  NewInv'
  <1>1. TypeOK /\ NewInv
    BY DEF IInv
  <1>2. ASSUME UNCHANGED <<page, handler, registry, registerCh>>
        PROVE  NewInv'
    BY <1>1, <1>2 DEF NewInv
  <1>3. CASE HubBegins
    BY <1>2, <1>3 DEF HubBegins, pageVars, chanVars
  <1>4. CASE TakeRegister
    <2>1. PICK q, c, r : q = registerCh /\ c = Head(q) /\ r = Tail(q)
      OBVIOUS
    <2>2. q \in Seq(Conns) /\ q # <<>>
      BY <1>1, <1>4, <2>1 DEF TypeOK, TakeRegister
    <2>3. /\ c = q[1] /\ 1 \in 1..Len(q)
          /\ \A i \in 1..Len(r) : i + 1 \in 1..Len(q) /\ r[i] = q[i + 1]
      BY <2>1, <2>2
    <2>4. UNCHANGED <<page, handler>> /\ registry' = registry \cup {c} /\ registerCh' = r
      BY <1>4, <2>1 DEF TakeRegister, pageVars
    <2> QED
      BY <1>1, <2>1, <2>3, <2>4 DEF NewInv
  <1>5. CASE TakeUnregister
    BY <1>1, <1>5 DEF TakeUnregister, NewInv, pageVars
  <1>6. ASSUME NEW c \in Conns, HubEnds(c)
        PROVE  NewInv'
    BY <1>2, <1>6 DEF HubEnds, chanVars
  <1>7. ASSUME NEW c \in Conns, ConnStep(c)
        PROVE  NewInv'
    <2>1. CASE Connect(c)
      BY <1>1, <2>1 DEF Connect, NewInv, TypeOK, chanVars
    <2>2. CASE Close(c)
      BY <1>1, <2>2 DEF Close, NewInv, TypeOK, chanVars
    <2>3. CASE Register(c)
      <3>1. PICK q, r : q = registerCh /\ r = Append(q, c)
        OBVIOUS
      <3>2. q \in Seq(Conns)
        BY <1>1, <3>1 DEF TypeOK
      <3>3. \A i \in 1..Len(r) : (i \in 1..Len(q) /\ r[i] = q[i]) \/ r[i] = c
        BY <3>1, <3>2
      <3>4. /\ UNCHANGED <<page, registry>> /\ registerCh' = r /\ handler[c] = "registering"
            /\ \A d \in Conns \ {c} : handler'[d] = handler[d]
        BY <1>1, <2>3, <3>1 DEF Register, TypeOK, pageVars
      <3>5. page[c] # "new"
        BY <1>1, <3>4 DEF NewInv
      <3> QED
        BY <1>1, <3>1, <3>3, <3>4, <3>5 DEF NewInv
    <2>4. CASE Dispatch(c) \/ PumpEnds(c) \/ Unregister(c)
      <3>1. /\ UNCHANGED <<page, registry, registerCh>> /\ handler[c] # "none"
            /\ \A d \in Conns \ {c} : handler'[d] = handler[d]
        BY <1>1, <2>4 DEF Dispatch, PumpEnds, Unregister, TypeOK, pageVars, chanVars
      <3>2. page[c] # "new"
        BY <1>1, <3>1 DEF NewInv
      <3> QED
        BY <1>1, <3>1, <3>2 DEF NewInv
    <2>5. \/ UNCHANGED <<page, handler, registry, registerCh>>
          \/ Connect(c) \/ Close(c) \/ Register(c) \/ Dispatch(c) \/ PumpEnds(c) \/ Unregister(c)
      BY <1>7 DEF ConnStep, Read, Send, Relay, chanVars
    <2> QED
      BY <1>2, <2>1, <2>2, <2>3, <2>4, <2>5
  <1>8. CASE UNCHANGED vars
    BY <1>2, <1>8 DEF vars, pageVars, chanVars
  <1> QED
    BY <1>3, <1>4, <1>5, <1>6, <1>7, <1>8, NextCases

\* What a broadcast is, and what is left of it after a write.
LEMMA BroadcastCases ==
    ASSUME NEW at, NEW c, NEW todo, NEW next
    PROVE  \/ todo = {} /\ Broadcast(at, c, todo, next) = next
           \/ /\ todo # {} /\ Broadcast(at, c, todo, next).at = at
              /\ Broadcast(at, c, todo, next).id = c /\ Broadcast(at, c, todo, next).todo = todo
  BY DEF Broadcast

LEMMA AfterWriteCases ==
    ASSUME NEW c, NEW h, h = AfterWrite(c)
    PROVE  /\ hub.at = "joined" =>
                 \/ h.at = "joined" /\ h.id = hub.id /\ h.todo = hub.todo \ {c}
                 \/ h.at = "registered" /\ h.id = hub.id /\ hub.todo \ {c} = {}
           /\ hub.at = "left" =>
                 \/ h.at = "left" /\ h.id = hub.id /\ h.todo = hub.todo \ {c}
                 \/ h.at = "idle" /\ hub.todo \ {c} = {}
           /\ hub.at = "registered" => h.at = "list" /\ h.id = hub.id
           /\ hub.at = "list" => h.at = "idle"
  BY DEF AfterWrite, Broadcast, Welcome, Idle

LEMMA HubStepInv ==
    ASSUME IInv, [Next]_vars
    PROVE  HubInv'
  <1>1. TypeOK /\ HubInv
    BY DEF IInv
  <1>2. ASSUME UNCHANGED <<hub, registry>>
        PROVE  HubInv'
    BY <1>1, <1>2 DEF HubInv
  <1>3. ASSUME NEW c, hub' = AfterWrite(c), hub # Idle, UNCHANGED registry
        PROVE  HubInv'
    <2>1. hub.at \in {"joined", "left", "registered", "list"}
      BY <1>1, <1>3, HubCases DEF TypeOK
    <2> QED
      BY <1>1, <1>3, <2>1, AfterWriteCases DEF HubInv
  <1>4. CASE HubBegins
    <2>1. PICK p \in HubWrites : UNCHANGED hub \/ hub' = AfterWrite(p[1])
      BY <1>4 DEF HubBegins
    <2>2. hub # Idle /\ UNCHANGED registry
      BY <1>1, <1>4, <2>1, HubWritesType DEF TypeOK, HubBegins
    <2> QED
      BY <1>2, <1>3, <2>1, <2>2
  <1>5. CASE TakeRegister
    <2>1. PICK c : c = Head(registerCh)
      OBVIOUS
    <2>2. registry' = registry \cup {c} /\ hub' = Broadcast("joined", c, registry \ {c}, Welcome(c))
      BY <1>5, <2>1 DEF TakeRegister
    <2>3. hub'.at \in {"joined", "registered"} /\ hub'.id = c
      BY <2>2 DEF Broadcast, Welcome
    <2> QED
      BY <2>2, <2>3 DEF HubInv
  <1>6. CASE TakeUnregister
    <2>1. PICK c : c = Head(unregisterCh)
      OBVIOUS
    <2>2. /\ registry' = registry \ {c}
          /\ hub' \in {Idle, Broadcast("left", c, registry \ {c}, Idle)}
      BY <1>6, <2>1 DEF TakeUnregister
    <2>3. \/ hub'.at = "idle"
          \/ hub'.at = "left" /\ hub'.id = c
      BY <2>2 DEF Broadcast, Idle
    <2> QED
      BY <2>2, <2>3 DEF HubInv
  <1>7. ASSUME NEW c \in Conns, HubEnds(c)
        PROVE  HubInv'
    <2>1. hub # Idle
      BY <1>1, <1>7, HubEndsEffect, HubWritesType DEF TypeOK
    <2> QED
      BY <1>3, <1>7, <2>1 DEF HubEnds
  <1>8. ASSUME NEW c \in Conns, ConnStep(c)
        PROVE  HubInv'
    BY <1>2, <1>8, ConnKeepsHub
  <1>9. CASE UNCHANGED vars
    BY <1>2, <1>9 DEF vars
  <1> QED
    BY <1>4, <1>5, <1>6, <1>7, <1>8, <1>9, NextCases

-------------------------------------------------------------------------------
(* Device lists.                                                               *)

\* Whether a page that lists V will list d after the messages of q.
WillIn(q, V, d) ==
    \/ \E i \in 1..Len(q) : /\ Lists(q[i], d)
                            /\ \A j \in (i + 1)..Len(q) : ~Mentions(q[j], d)
    \/ d \in V /\ \A j \in 1..Len(q) : ~Mentions(q[j], d)

LEMMA WillListIn ==
    ASSUME NEW c, NEW d
    PROVE  WillList(c, d) <=> WillIn(inbox[c], view[c], d)
  BY DEF WillList, WillIn

LEMMA ListsMentions ==
    ASSUME NEW m, NEW d, Lists(m, d)
    PROVE  Mentions(m, d)
  BY DEF Lists, Mentions

\* The last message decides, if it says anything of the device.
LEMMA WillAppend ==
    ASSUME NEW q \in Seq(Messages), NEW m \in Messages, NEW V, NEW d
    PROVE  /\ Mentions(m, d) => (WillIn(Append(q, m), V, d) <=> Lists(m, d))
           /\ ~Mentions(m, d) => (WillIn(Append(q, m), V, d) <=> WillIn(q, V, d))
  <1>1. PICK r : r = Append(q, m)
    OBVIOUS
  <1>2. /\ Len(q) \in Nat /\ Len(r) = Len(q) + 1 /\ r[Len(q) + 1] = m
        /\ \A i \in 1..Len(q) : r[i] = q[i]
    BY <1>1
  <1>3. Len(r) \in 1..Len(r) /\ r[Len(r)] = m
    BY <1>2
  <1>4. \A i \in 1..Len(r) : i \in 1..Len(q) \/ i = Len(r)
    BY <1>2
  <1>5. \A i \in 1..Len(q) : i \in 1..Len(r) /\ Len(r) \in (i + 1)..Len(r)
    BY <1>2
  <1>6. ASSUME Mentions(m, d)
        PROVE  WillIn(r, V, d) <=> Lists(m, d)
    <2>1. ASSUME WillIn(r, V, d)
          PROVE  Lists(m, d)
      <3>1. PICK i \in 1..Len(r) : /\ Lists(r[i], d)
                                   /\ \A j \in (i + 1)..Len(r) : ~Mentions(r[j], d)
        BY <1>3, <1>6, <2>1 DEF WillIn
      <3> QED
        BY <1>3, <1>4, <1>5, <1>6, <3>1
    <2>2. ASSUME Lists(m, d)
          PROVE  WillIn(r, V, d)
      <3>1. \A j \in (Len(r) + 1)..Len(r) : FALSE
        BY <1>2
      <3> QED
        BY <1>3, <2>2, <3>1 DEF WillIn
    <2> QED
      BY <2>1, <2>2
  <1>7. ASSUME ~Mentions(m, d)
        PROVE  WillIn(r, V, d) <=> WillIn(q, V, d)
    <2>1. ~Lists(m, d)
      BY <1>7, ListsMentions
    <2>2. (\A j \in 1..Len(r) : ~Mentions(r[j], d)) <=> (\A j \in 1..Len(q) : ~Mentions(q[j], d))
      BY <1>2, <1>3, <1>4, <1>5, <1>7
    <2>3. ASSUME NEW i \in 1..Len(q)
          PROVE  (\A j \in (i + 1)..Len(r) : ~Mentions(r[j], d))
                    <=> (\A j \in (i + 1)..Len(q) : ~Mentions(q[j], d))
      <3>1. \A j \in (i + 1)..Len(r) : j \in (i + 1)..Len(q) \/ j = Len(r)
        BY <1>2
      <3>2. \A j \in (i + 1)..Len(q) : j \in (i + 1)..Len(r) /\ r[j] = q[j]
        BY <1>2
      <3> QED
        BY <1>3, <1>7, <3>1, <3>2
    <2>4. (\E i \in 1..Len(r) : /\ Lists(r[i], d)
                                /\ \A j \in (i + 1)..Len(r) : ~Mentions(r[j], d))
           <=> (\E i \in 1..Len(q) : /\ Lists(q[i], d)
                                     /\ \A j \in (i + 1)..Len(q) : ~Mentions(q[j], d))
      BY <1>2, <1>3, <1>4, <1>5, <2>1, <2>3
    <2> QED
      BY <2>2, <2>4 DEF WillIn
  <1> QED
    BY <1>1, <1>6, <1>7

\* Handling the first message changes what the page lists, not what it will.
LEMMA WillTail ==
    ASSUME NEW q, NEW r, NEW V, NEW W, NEW d, Len(q) \in Nat, Len(q) >= 1, Len(r) = Len(q) - 1,
           \A i \in 1..Len(r) : r[i] = q[i + 1],
           Mentions(q[1], d) => (d \in W <=> Lists(q[1], d)),
           ~Mentions(q[1], d) => (d \in W <=> d \in V)
    PROVE  WillIn(r, W, d) <=> WillIn(q, V, d)
  <1>1. 1 \in 1..Len(q) /\ \A i \in 1..Len(r) : i + 1 \in 1..Len(q)
    OBVIOUS
  <1>2. \A i \in 1..Len(q) : i # 1 => i - 1 \in 1..Len(r) /\ q[i] = r[i - 1]
    OBVIOUS
  <1>3. ASSUME NEW i \in 0..Len(r)
        PROVE  (\A j \in (i + 1)..Len(r) : ~Mentions(r[j], d))
                  <=> (\A j \in (i + 2)..Len(q) : ~Mentions(q[j], d))
    <2>1. \A j \in (i + 1)..Len(r) : j + 1 \in (i + 2)..Len(q) /\ r[j] = q[j + 1]
      OBVIOUS
    <2>2. \A j \in (i + 2)..Len(q) : j - 1 \in (i + 1)..Len(r) /\ r[j - 1] = q[j]
      OBVIOUS
    <2> QED
      BY <2>1, <2>2
  <1>4. (\A j \in 1..Len(r) : ~Mentions(r[j], d)) <=> (\A j \in 2..Len(q) : ~Mentions(q[j], d))
    <2>1. PICK i : i = 0
      OBVIOUS
    <2>2. i \in 0..Len(r) /\ i + 1 = 1 /\ i + 2 = 2
      BY <2>1
    <2> QED
      BY <1>3, <2>2
  <1>5. (\A j \in 1..Len(q) : ~Mentions(q[j], d))
           <=> (~Mentions(q[1], d) /\ \A j \in 2..Len(q) : ~Mentions(q[j], d))
    OBVIOUS
  <1>6. ASSUME WillIn(r, W, d)
        PROVE  WillIn(q, V, d)
    <2>1. CASE d \in W /\ \A j \in 1..Len(r) : ~Mentions(r[j], d)
      <3>1. CASE Mentions(q[1], d)
        <4>1. Lists(q[1], d) /\ \A j \in (1 + 1)..Len(q) : ~Mentions(q[j], d)
          BY <1>4, <2>1, <3>1
        <4> QED
          BY <1>1, <4>1 DEF WillIn
      <3>2. CASE ~Mentions(q[1], d)
        BY <1>4, <1>5, <2>1, <3>2 DEF WillIn
      <3> QED
        BY <3>1, <3>2
    <2>2. ASSUME NEW i \in 1..Len(r), Lists(r[i], d),
                 \A j \in (i + 1)..Len(r) : ~Mentions(r[j], d)
          PROVE  WillIn(q, V, d)
      <3>1. PICK k : k = i + 1
        OBVIOUS
      <3>2. k \in 1..Len(q) /\ q[k] = r[i]
        BY <1>1, <3>1
      <3>3. \A j \in (k + 1)..Len(q) : ~Mentions(q[j], d)
        BY <1>3, <2>2, <3>1
      <3> QED
        BY <2>2, <3>2, <3>3 DEF WillIn
    <2> QED
      BY <1>6, <2>1, <2>2 DEF WillIn
  <1>7. ASSUME WillIn(q, V, d)
        PROVE  WillIn(r, W, d)
    <2>1. CASE d \in V /\ \A j \in 1..Len(q) : ~Mentions(q[j], d)
      BY <1>4, <1>5, <2>1 DEF WillIn
    <2>2. ASSUME NEW k \in 1..Len(q), Lists(q[k], d),
                 \A j \in (k + 1)..Len(q) : ~Mentions(q[j], d)
          PROVE  WillIn(r, W, d)
      <3>1. CASE k = 1
        <4>1. \A j \in 2..Len(q) : ~Mentions(q[j], d)
          BY <2>2, <3>1
        <4>2. d \in W
          BY <2>2, <3>1, ListsMentions
        <4> QED
          BY <1>4, <4>1, <4>2 DEF WillIn
      <3>2. CASE k # 1
        <4>1. PICK i : i = k - 1
          OBVIOUS
        <4>2. i \in 1..Len(r) /\ r[i] = q[k]
          BY <1>2, <3>2, <4>1
        <4>3. \A j \in (i + 1)..Len(r) : ~Mentions(r[j], d)
          <5>1. k + 1 = i + 2 /\ i \in 0..Len(r)
            BY <4>1, <4>2
          <5> QED
            BY <1>3, <2>2, <5>1
        <4> QED
          BY <2>2, <4>2, <4>3 DEF WillIn
      <3> QED
        BY <3>1, <3>2
    <2> QED
      BY <1>7, <2>1, <2>2 DEF WillIn
  <1> QED
    BY <1>6, <1>7

LEMMA WillListNext ==
    ASSUME NEW c, NEW d
    PROVE  WillList(c, d)' <=> WillIn(inbox'[c], view'[c], d)
  BY DEF WillList, WillIn, Mentions, Lists

LEMMA WillListKept ==
    ASSUME NEW c, inbox'[c] = inbox[c], view'[c] = view[c]
    PROVE  \A d : WillList(c, d)' <=> WillList(c, d)
  BY WillListNext, WillListIn

\* The end of a write of m to an open page.
LEMMA WillListEnd ==
    ASSUME TypeOK, NEW w \in Writers, NEW c \in Conns, End(w, c), page[c] = "open",
           busy[c].whole, view' = view, NEW m, m = busy[c].msg, NEW d
    PROVE  /\ Mentions(m, d) => (WillList(c, d)' <=> Lists(m, d))
           /\ ~Mentions(m, d) => (WillList(c, d)' <=> WillList(c, d))
  <1>1. m \in Messages /\ inbox'[c] = Append(inbox[c], m)
    BY EndType
  <1>2. PICK q, V : q = inbox[c] /\ V = view[c]
    OBVIOUS
  <1>3. q \in Seq(Messages)
    BY <1>2 DEF TypeOK
  <1>4. WillList(c, d)' <=> WillIn(Append(q, m), V, d)
    BY <1>1, <1>2, WillListNext
  <1>5. WillList(c, d) <=> WillIn(q, V, d)
    BY <1>2, WillListIn
  <1>6. /\ Mentions(m, d) => (WillIn(Append(q, m), V, d) <=> Lists(m, d))
        /\ ~Mentions(m, d) => (WillIn(Append(q, m), V, d) <=> WillIn(q, V, d))
    BY <1>1, <1>3, WillAppend
  <1> QED
    BY <1>4, <1>5, <1>6

LEMMA WillListRead ==
    ASSUME TypeOK, NEW c \in Conns, Read(c), NEW d \in Conns \ {c}
    PROVE  WillList(c, d)' <=> WillList(c, d)
  <1>1. PICK m : m = Head(inbox[c])
    OBVIOUS
  <1>2. PICK q, r, V, W : q = inbox[c] /\ r = inbox'[c] /\ V = view[c] /\ W = view'[c]
    OBVIOUS
  <1>3. /\ m \in Messages /\ m = q[1] /\ Len(q) \in Nat /\ Len(q) >= 1 /\ Len(r) = Len(q) - 1
        /\ \A i \in 1..Len(r) : r[i] = q[i + 1]
        /\ W = Listing(c, V, m)
    BY <1>1, <1>2, ReadEffect
  <1>4. /\ Mentions(m, d) => (d \in W <=> Lists(m, d))
        /\ ~Mentions(m, d) => (d \in W <=> d \in V)
    BY <1>3 DEF Listing, Mentions, Lists, Messages, Registered
  <1>5. WillIn(r, W, d) <=> WillIn(q, V, d)
    BY <1>3, <1>4, WillTail
  <1> QED
    BY <1>2, <1>5, WillListIn, WillListNext

LEMMA CollidedStays ==
    ASSUME [Next]_vars, ~collided'
    PROVE  ~collided
  BY DEF Next, vars, HubBegins, Begin, Garble, HubStep, TakeRegister, TakeUnregister, HubEnds,
         ConnStep, Connect, Close, Read, Send, Register, Dispatch, PumpEnds, Unregister, Relay

LEMMA WholeStep ==
    ASSUME IInv, [Next]_vars, Whole, ~collided'
    PROVE  Whole'
  <1>1. TypeOK /\ HubId \in Writers
    BY DEF IInv, Writers
  <1>2. ASSUME UNCHANGED busy
        PROVE  Whole'
    BY <1>2 DEF Whole
  <1>3. ASSUME NEW w \in Writers, NEW c \in Conns, NEW m \in Messages, Begin(w, c, m)
        PROVE  Whole'
    <2>1. busy'[c].whole /\ \A d \in Conns \ {c} : busy'[d] = busy[d]
      BY <1>1, <1>3, BeginType
    <2> QED
      BY <2>1 DEF Whole
  <1>4. ASSUME NEW w \in Writers, NEW c \in Conns, End(w, c)
        PROVE  Whole'
    <2>1. busy'[c].by = "none" /\ \A d \in Conns \ {c} : busy'[d] = busy[d]
      BY <1>1, <1>4, EndType
    <2> QED
      BY <2>1 DEF Whole
  <1>5. CASE HubBegins
    <2>1. PICK p \in HubWrites : Begin(HubId, p[1], p[2])
      BY <1>5 DEF HubBegins, Garble
    <2>2. PICK c, m : c = p[1] /\ m = p[2]
      OBVIOUS
    <2>3. c \in Conns /\ m \in Messages /\ Begin(HubId, c, m)
      BY <1>1, <2>1, <2>2, HubWritesType DEF TypeOK
    <2> QED
      BY <1>1, <1>3, <2>3
  <1>6. CASE TakeRegister \/ TakeUnregister
    BY <1>2, <1>6 DEF TakeRegister, TakeUnregister
  <1>7. ASSUME NEW c \in Conns, HubEnds(c)
        PROVE  Whole'
    BY <1>1, <1>4, <1>7 DEF HubEnds
  <1>8. ASSUME NEW c \in Conns, ConnStep(c)
        PROVE  Whole'
    <2>1. CASE Dispatch(c)
      <3>1. PICK to \in Conns, n \in 1..MaxSends :
               UNCHANGED busy \/ Begin(c, to, Relayed(c, n))
        BY <1>1, <2>1, DispatchEffect DEF Garble
      <3>2. c \in Writers /\ Relayed(c, n) \in Messages
        BY MessageTypes DEF Writers
      <3> QED
        BY <1>2, <1>3, <3>1, <3>2
    <2>2. ASSUME NEW d \in Conns, Relay(c, d)
          PROVE  Whole'
      BY <1>4, <2>2 DEF Relay, Writers
    <2>3. \/ UNCHANGED busy \/ Dispatch(c) \/ \E d \in Conns : Relay(c, d)
      BY <1>8 DEF ConnStep, Connect, Close, Read, Send, Register, PumpEnds, Unregister
    <2> QED
      BY <1>2, <2>1, <2>2, <2>3
  <1>9. CASE UNCHANGED vars
    BY <1>2, <1>9 DEF vars
  <1> QED
    BY <1>5, <1>6, <1>7, <1>8, <1>9, NextCases

\* The hub and the registry stay, and what the pages that stay open will list.
LEMMA WayQuiet ==
    ASSUME OnTheWay, UNCHANGED <<hub, registry>>,
           \A c \in registry : page'[c] = "open" =>
              page[c] = "open" /\ \A d \in Conns \ {c} : WillList(c, d)' <=> WillList(c, d)
    PROVE  OnTheWay'
  BY DEF OnTheWay, Untold

LEMMA WayTakeRegister ==
    ASSUME IInv, OnTheWay, TakeRegister
    PROVE  OnTheWay'
  <1>1. PICK c : c = Head(registerCh)
    OBVIOUS
  <1>2. /\ hub = Idle /\ UNCHANGED <<page, view, inbox>> /\ registry' = registry \cup {c}
        /\ hub' = Broadcast("joined", c, registry \ {c}, Welcome(c))
    BY <1>1 DEF TakeRegister, pageVars
  <1>3. \A e, d \in Conns : ~Untold(e, d)
    BY <1>2 DEF Untold, Idle
  <1>4. hub'.at \in {"joined", "registered"} /\ hub'.id = c
    BY <1>2 DEF Broadcast, Welcome
  <1>5. \A e \in registry \ {c} : hub'.at = "joined" /\ e \in hub'.todo
    BY <1>2 DEF Broadcast
  <1>6. ASSUME NEW e \in registry', page'[e] = "open", NEW d \in Conns \ {e}
        PROVE  Untold(e, d)' \/ (WillList(e, d)' <=> d \in registry')
    <2>1. CASE e = c
      BY <1>4, <2>1 DEF Untold
    <2>2. CASE e # c /\ d = c
      <3>1. e \in registry \ {c}
        BY <1>2, <2>2
      <3> QED
        BY <1>4, <1>5, <2>2, <3>1 DEF Untold
    <2>3. CASE e # c /\ d # c
      <3>1. e \in registry /\ e \in Conns /\ page[e] = "open" /\ (d \in registry' <=> d \in registry)
        BY <1>2, <1>6, <2>3 DEF IInv, TypeOK
      <3>2. WillList(e, d) <=> d \in registry
        BY <1>3, <3>1 DEF OnTheWay
      <3>3. WillList(e, d)' <=> WillList(e, d)
        BY <1>2, WillListKept
      <3> QED
        BY <3>1, <3>2, <3>3
    <2> QED
      BY <2>1, <2>2, <2>3
  <1> QED
    BY <1>6 DEF OnTheWay

LEMMA WayTakeUnregister ==
    ASSUME IInv, OnTheWay, TakeUnregister
    PROVE  OnTheWay'
  <1>1. PICK c : c = Head(unregisterCh)
    OBVIOUS
  <1>2. /\ hub = Idle /\ UNCHANGED <<page, view, inbox>> /\ registry' = registry \ {c}
        /\ hub' = IF c \in registry THEN Broadcast("left", c, registry \ {c}, Idle) ELSE Idle
    BY <1>1 DEF TakeUnregister, pageVars
  <1>3. \A e, d \in Conns : ~Untold(e, d)
    BY <1>2 DEF Untold, Idle
  <1>4. c \in registry => \A e \in registry' : hub'.at = "left" /\ hub'.id = c /\ e \in hub'.todo
    BY <1>2 DEF Broadcast
  <1>5. ASSUME NEW e \in registry', page'[e] = "open", NEW d \in Conns \ {e}
        PROVE  Untold(e, d)' \/ (WillList(e, d)' <=> d \in registry')
    <2>1. CASE c \in registry /\ d = c
      BY <1>4, <2>1 DEF Untold
    <2>2. CASE ~(c \in registry /\ d = c)
      <3>1. e \in registry /\ e \in Conns /\ page[e] = "open" /\ (d \in registry' <=> d \in registry)
        BY <1>2, <1>5, <2>2 DEF IInv, TypeOK
      <3>2. WillList(e, d) <=> d \in registry
        BY <1>3, <3>1 DEF OnTheWay
      <3>3. WillList(e, d)' <=> WillList(e, d)
        BY <1>2, WillListKept
      <3> QED
        BY <3>1, <3>2, <3>3
    <2> QED
      BY <2>1, <2>2
  <1> QED
    BY <1>5 DEF OnTheWay

\* What the hub has told a page is what the page will list.
LEMMA WayHubEnds ==
    ASSUME IInv, Whole, OnTheWay, NEW c \in Conns, HubEnds(c)
    PROVE  OnTheWay'
  <1>1. TypeOK /\ HubInv /\ HubId \in Writers
    BY DEF IInv, Writers
  <1>2. PICK m, h, id : m = busy[c].msg /\ h = hub' /\ id = hub.id
    OBVIOUS
  <1>3. /\ End(HubId, c) /\ h = AfterWrite(c) /\ <<c, m>> \in HubWrites
        /\ UNCHANGED <<page, view, registry>>
    BY <1>2, HubEndsEffect DEF HubEnds
  <1>4. \A e \in Conns \ {c} : \A d : WillList(e, d)' <=> WillList(e, d)
    <2>1. \A e \in Conns \ {c} : inbox'[e] = inbox[e] /\ view'[e] = view[e]
      BY <1>1, <1>3, EndType
    <2> QED
      BY <2>1, WillListKept
  <1>5. page[c] = "open" =>
           \A d : /\ Mentions(m, d) => (WillList(c, d)' <=> Lists(m, d))
                  /\ ~Mentions(m, d) => (WillList(c, d)' <=> WillList(c, d))
    <2>1. busy[c].whole
      BY <1>1, <1>3, HubAssumption DEF Whole, End, HubId
    <2> QED
      BY <1>1, <1>2, <1>3, <2>1, WillListEnd
  <1>6. ASSUME NEW e \in registry, page[e] = "open", NEW d \in Conns \ {e}, Untold(e, d), e # c
        PROVE  Untold(e, d)'
    <2>1. CASE hub.at = "joined" \/ hub.at = "left"
      BY <1>2, <1>3, <1>6, <2>1, AfterWriteCases DEF Untold
    <2>2. CASE hub.at = "registered" \/ hub.at = "list"
      <3>1. c = id
        BY <1>2, <1>3, <2>2 DEF HubWrites
      <3> QED
        BY <1>2, <1>6, <2>2, <3>1 DEF Untold
    <2> QED
      BY <1>6, <2>1, <2>2 DEF Untold
  <1>7. ASSUME page[c] = "open", c \in registry, NEW d \in Conns \ {c}
        PROVE  Untold(c, d)' \/ (WillList(c, d)' <=> d \in registry)
    <2>1. Untold(c, d) \/ (WillList(c, d) <=> d \in registry)
      BY <1>7 DEF OnTheWay
    <2>2. CASE hub.at = "joined"
      <3>1. m = Joined(id) /\ id \in registry /\ h.at \in {"joined", "registered"} /\ h.id = id
        BY <1>1, <1>2, <1>3, <2>2, AfterWriteCases DEF HubWrites, HubInv
      <3>2. CASE d = id
        <4>1. Mentions(m, d) /\ Lists(m, d)
          BY <3>1, <3>2 DEF Joined, Mentions, Lists
        <4> QED
          BY <1>5, <1>7, <3>1, <3>2, <4>1
      <3>3. CASE d # id /\ c # id
        <4>1. ~Mentions(m, d) /\ ~Untold(c, d)
          BY <1>2, <2>2, <3>1, <3>3 DEF Joined, Mentions, Untold
        <4> QED
          BY <1>5, <1>7, <2>1, <4>1
      <3>4. CASE c = id
        BY <1>2, <3>1, <3>4 DEF Untold
      <3> QED
        BY <3>2, <3>3, <3>4
    <2>3. CASE hub.at = "left"
      <3>1. m = Left(id) /\ id \notin registry
        BY <1>1, <1>2, <1>3, <2>3 DEF HubWrites, HubInv
      <3>2. CASE d = id
        <4>1. Mentions(m, d) /\ ~Lists(m, d)
          BY <3>1, <3>2 DEF Left, Mentions, Lists
        <4> QED
          BY <1>5, <1>7, <3>1, <3>2, <4>1
      <3>3. CASE d # id
        <4>1. ~Mentions(m, d) /\ ~Untold(c, d)
          BY <1>2, <2>3, <3>1, <3>3 DEF Left, Mentions, Untold
        <4> QED
          BY <1>5, <1>7, <2>1, <4>1
      <3> QED
        BY <3>2, <3>3
    <2>4. CASE hub.at = "registered"
      <3>1. c = id /\ h.at = "list" /\ h.id = id
        BY <1>2, <1>3, <2>4, AfterWriteCases DEF HubWrites
      <3> QED
        BY <1>2, <3>1 DEF Untold
    <2>5. CASE hub.at = "list"
      <3>1. m = DeviceList(registry)
        BY <1>3, <2>5 DEF HubWrites
      <3>2. Mentions(m, d) /\ (Lists(m, d) <=> d \in registry)
        BY <3>1 DEF DeviceList, Mentions, Lists
      <3> QED
        BY <1>5, <1>7, <3>2
    <2> QED
      BY <1>3, <2>2, <2>3, <2>4, <2>5 DEF HubWrites
  <1>8. ASSUME NEW e \in registry, page[e] = "open", NEW d \in Conns \ {e}
        PROVE  Untold(e, d)' \/ (WillList(e, d)' <=> d \in registry)
    <2>1. CASE e = c
      BY <1>7, <1>8, <2>1
    <2>2. CASE e # c
      <3>1. Untold(e, d) \/ (WillList(e, d) <=> d \in registry)
        BY <1>8 DEF OnTheWay
      <3>2. e \in Conns \ {c}
        BY <1>1, <2>2 DEF TypeOK
      <3> QED
        BY <1>4, <1>6, <1>8, <2>2, <3>1, <3>2
    <2> QED
      BY <2>1, <2>2
  <1> QED
    BY <1>3, <1>8 DEF OnTheWay

\* What a handler relays says nothing of a device.
LEMMA WayRelay ==
    ASSUME IInv, Whole, OnTheWay, NEW c \in Conns, NEW d \in Conns, Relay(c, d)
    PROVE  OnTheWay'
  <1>1. TypeOK /\ c \in Writers /\ "none" \notin Conns
    BY HubAssumption DEF IInv, Writers
  <1>2. PICK m : m = busy[d].msg
    OBVIOUS
  <1>3. End(c, d) /\ UNCHANGED <<page, view, hub, registry>> /\ busy[d].by = c
    BY DEF Relay, End
  <1>4. \A e \in Conns \ {d} : \A f : WillList(e, f)' <=> WillList(e, f)
    <2>1. \A e \in Conns \ {d} : inbox'[e] = inbox[e] /\ view'[e] = view[e]
      BY <1>1, <1>3, EndType
    <2> QED
      BY <2>1, WillListKept
  <1>5. \A f : ~Mentions(m, f)
    <2>1. m.type = "relay"
      BY <1>2, <1>3 DEF IInv, BusyInv, RelaysOf
    <2> QED
      BY <2>1 DEF Mentions
  <1>6. page[d] = "open" => \A f : WillList(d, f)' <=> WillList(d, f)
    <2>1. busy[d].whole
      BY <1>1, <1>3 DEF Whole
    <2> QED
      BY <1>1, <1>2, <1>3, <1>5, <2>1, WillListEnd
  <1>7. \A e \in registry : page'[e] = "open" =>
           page[e] = "open" /\ \A f \in Conns \ {e} : WillList(e, f)' <=> WillList(e, f)
    BY <1>1, <1>3, <1>4, <1>6 DEF TypeOK
  <1> QED
    BY <1>3, <1>7, WayQuiet

LEMMA WayStep ==
    ASSUME IInv, [Next]_vars, Whole, OnTheWay, ~collided'
    PROVE  OnTheWay'
  <1>1. TypeOK /\ NewInv
    BY DEF IInv
  <1>2. ASSUME UNCHANGED <<page, view, inbox, hub, registry>>
        PROVE  OnTheWay'
    BY <1>2, WayQuiet, WillListKept
  <1>3. CASE HubBegins
    BY <1>2, <1>3 DEF HubBegins, Garble, pageVars
  <1>4. CASE TakeRegister
    BY <1>4, WayTakeRegister
  <1>5. CASE TakeUnregister
    BY <1>5, WayTakeUnregister
  <1>6. ASSUME NEW c \in Conns, HubEnds(c)
        PROVE  OnTheWay'
    BY <1>6, WayHubEnds
  <1>7. ASSUME NEW c \in Conns, ConnStep(c)
        PROVE  OnTheWay'
    <2>1. UNCHANGED <<hub, registry>> /\ registry \subseteq Conns
      BY <1>1, <1>7, ConnKeepsHub DEF TypeOK
    <2>2. CASE Connect(c)
      <3>1. c \notin registry
        BY <1>1, <2>2 DEF Connect, NewInv
      <3>2. UNCHANGED <<view, inbox>> /\ \A e \in Conns \ {c} : page'[e] = page[e]
        BY <1>1, <2>2 DEF Connect, TypeOK
      <3> QED
        BY <2>1, <3>1, <3>2, WayQuiet, WillListKept
    <2>3. CASE Close(c)
      <3>1. /\ page'[c] = "closed"
            /\ \A e \in Conns \ {c} :
                  page'[e] = page[e] /\ view'[e] = view[e] /\ inbox'[e] = inbox[e]
        BY <1>1, <2>3 DEF Close, TypeOK
      <3> QED
        BY <2>1, <3>1, WayQuiet, WillListKept
    <2>4. CASE Read(c)
      <3>1. page[c] = "open" /\ UNCHANGED page
        BY <2>4 DEF Read
      <3>2. PICK m : m = Head(inbox[c])
        OBVIOUS
      <3>3. \A e \in Conns \ {c} : view'[e] = view[e] /\ inbox'[e] = inbox[e]
        BY <1>1, <2>4, <3>2, ReadEffect
      <3>4. \A e \in Conns : \A d \in Conns \ {e} : WillList(e, d)' <=> WillList(e, d)
        BY <1>1, <2>4, <3>3, WillListKept, WillListRead
      <3> QED
        BY <2>1, <3>1, <3>4, WayQuiet
    <2>5. ASSUME NEW d \in Conns, Relay(c, d)
          PROVE  OnTheWay'
      BY <2>5, WayRelay
    <2>6. \/ UNCHANGED <<page, view, inbox>>
          \/ Connect(c) \/ Close(c) \/ Read(c) \/ \E d \in Conns : Relay(c, d)
      BY <1>7 DEF ConnStep, Send, Register, Dispatch, PumpEnds, Unregister, pageVars
    <2> QED
      BY <1>2, <2>1, <2>2, <2>3, <2>4, <2>5, <2>6
  <1>8. CASE UNCHANGED vars
    BY <1>2, <1>8 DEF vars, pageVars
  <1> QED
    BY <1>3, <1>4, <1>5, <1>6, <1>7, <1>8, NextCases

-------------------------------------------------------------------------------
(* The theorems.                                                               *)

LEMMA InitIInv == Init => IInv
  <1> SUFFICES ASSUME Init
               PROVE  IInv
    OBVIOUS
  <1>1. HubId \notin Conns /\ "none" \notin Conns /\ "none" # HubId
    BY HubAssumption DEF HubId
  <1>2. /\ \A c \in Conns : inbox[c] = <<>> /\ outbox[c] = <<>> /\ busy[c] = Free
        /\ \A c, d \in Conns : got[c][d] = 0
        /\ sends = 0 /\ registry = {} /\ hub = Idle /\ registerCh = <<>>
        /\ Len(<<>>) = 0 /\ Free.by = "none" /\ Idle.at = "idle"
    BY DEF Init, Free, Idle
  <1>3. TypeOK
    <2>1. Idle \in Hubs /\ Free \in Writes
      BY DEF Hubs, Writes
    <2>2. <<>> \in Seq(Messages) /\ <<>> \in Seq(Conns) /\ <<>> \in Seq([to : Conns, n : 1..MaxSends])
      OBVIOUS
    <2>3. 0 \in 0..MaxSends /\ 0 <= ChanCap /\ 0 <= SockCap
      BY HubAssumption
    <2> QED
      BY <1>2, <2>1, <2>2, <2>3 DEF Init, TypeOK
  <1>4. BusyInv
    BY <1>1, <1>2 DEF BusyInv
  <1>5. OutboxInv /\ WritingInv /\ RelayInOrder
    BY <1>1, <1>2 DEF OutboxInv, WritingInv, RelayInOrder
  <1>6. PassedInv
    BY <1>1, <1>2 DEF PassedInv, Passed
  <1>7. NewInv /\ HubInv
    BY <1>2 DEF Init, NewInv, HubInv
  <1>8. ListsInv
    BY <1>2 DEF ListsInv, Whole, OnTheWay
  <1> QED
    BY <1>3, <1>4, <1>5, <1>6, <1>7, <1>8 DEF IInv

LEMMA NextIInv == IInv /\ [Next]_vars => IInv'
  <1> SUFFICES ASSUME IInv, [Next]_vars
               PROVE  IInv'
    OBVIOUS
  <1>1. TypeOK' /\ BusyInv' /\ Order'
    BY TypeStep, BusyStep, OrderStep
  <1>2. NewInv' /\ HubInv'
    BY NewStep, HubStepInv
  <1>3. ListsInv'
    <2>1. ASSUME ~collided'
          PROVE  Whole' /\ OnTheWay'
      <3>1. Whole /\ OnTheWay
        BY <2>1, CollidedStays DEF IInv, ListsInv
      <3> QED
        BY <2>1, <3>1, WholeStep, WayStep
    <2> QED
      BY <2>1 DEF ListsInv
  <1> QED
    BY <1>1, <1>2, <1>3 DEF IInv, Order

\* The invariant, in every state of every behaviour.
THEOREM Invariance == Spec => []IInv
  BY InitIInv, NextIInv, PTL DEF Spec

\* Types, and the capacities of the channels and the sockets.
THEOREM TypeCorrect == Spec => []TypeOK
  <1>1. IInv => TypeOK
    BY DEF IInv
  <1> QED
    BY <1>1, Invariance, PTL

\* The frames that a page sends to another reach it in their order, however the
\* writes of the hub and of the handlers fall in between, and collide.
THEOREM OrderKept == Spec => []RelayInOrder
  <1>1. IInv => RelayInOrder
    BY DEF IInv
  <1> QED
    BY <1>1, Invariance, PTL

\* Whenever the hub is between two handlers, every page that stays open will come
\* to list the devices of the registry, unless two writers once collided.
THEOREM ListsConverge == Spec => []ViewsConverge
  <1>1. IInv => ViewsConverge
    <2> SUFFICES ASSUME IInv, hub = Idle, ~collided
                 PROVE  Converged
      BY DEF ViewsConverge
    <2>1. OnTheWay /\ registry \subseteq Conns
      BY DEF IInv, ListsInv, TypeOK
    <2>2. \A c, d : ~Untold(c, d)
      BY DEF Untold, Idle
    <2> QED
      BY <2>1, <2>2 DEF OnTheWay, Converged
  <1> QED
    BY <1>1, Invariance, PTL

===============================================================================
