------------------------------ MODULE DeviceHub ------------------------------
(* The signalling server: server/websocket.go (handleWS, readPump, dispatch,   *)
(* the hub goroutine) and server/device.go (the registry and its broadcasts),  *)
(* with the device list each page keeps (connectWebSocket, handleMsg).  The    *)
(* goroutines are the hub and one handler per connection.  A connection has a  *)
(* fresh id and is used once: a page that reconnects is another connection.    *)
(*                                                                             *)
(* The hub changes h.clients and then devices in one handler, and only the hub *)
(* writes them: they are one set here.  WriteJSON is two steps, because nobody *)
(* holds a lock while the hub and the handlers write to one connection.        *)
EXTENDS Integers, Sequences, FiniteSets

CONSTANTS
    Conns,          \* connections, by the id their page chose
    ChanCap,        \* capacity of hub.Register and hub.Unregister
    SockCap,        \* messages a socket takes before WriteJSON blocks
    MaxSends        \* bound on the messages the pages send to each other

\* The names that the model has for the hub and for nobody are no ids.
ASSUME HubAssumption ==
    /\ ChanCap \in Nat \ {0} /\ SockCap \in Nat \ {0} /\ MaxSends \in Nat
    /\ "hub" \notin Conns /\ "none" \notin Conns

VARIABLES
    page,           \* the page's WebSocket: "new", "open", "closed"
    view,           \* state.devices of the page
    outbox,         \* what the page sent and its handler has not read
    inbox,          \* what the server wrote and the page has not read
    got,            \* number of the last message the page handled, per sender
    sends,          \* messages sent so far, which numbers them
    handler,        \* the goroutine of handleWS
    registerCh, unregisterCh,   \* hub.Register, hub.Unregister
    registry,       \* h.clients and devices
    hub,            \* what the hub goroutine is doing
    busy,           \* the write under way on each connection
    collided,       \* two goroutines once wrote to one connection at a time
    crashed         \* the hub goroutine panicked, and with it the server

pageVars == <<page, view, outbox, inbox, got, sends>>
chanVars == <<registerCh, unregisterCh>>
vars == <<pageVars, handler, chanVars, registry, hub, busy, collided, crashed>>

HubId == "hub"
Writers == Conns \cup {HubId}

Joined(c) == [type |-> "device_joined", id |-> c]
Left(c) == [type |-> "device_left", id |-> c]
Registered == [type |-> "registered"]
DeviceList(s) == [type |-> "device_list", ids |-> s]
Relayed(c, n) == [type |-> "relay", id |-> c, n |-> n]

Idle == [at |-> "idle"]
Free == [by |-> "none"]
IsFree(c) == busy[c].by = "none"
Writing(w) == \E c \in Conns : busy[c].by = w

Init ==
    /\ page = [c \in Conns |-> "new"] /\ view = [c \in Conns |-> {}]
    /\ outbox = [c \in Conns |-> <<>>] /\ inbox = [c \in Conns |-> <<>>]
    /\ got = [c \in Conns |-> [d \in Conns |-> 0]]
    /\ sends = 0
    /\ handler = [c \in Conns |-> "none"]
    /\ registerCh = <<>> /\ unregisterCh = <<>>
    /\ registry = {} /\ hub = Idle /\ busy = [c \in Conns |-> Free]
    /\ collided = FALSE /\ crashed = FALSE

-------------------------------------------------------------------------------
(* The pages.                                                                  *)

\* The page opens its WebSocket and sends "register"; handleWS decodes it.
Connect(c) ==
    /\ page[c] = "new"
    /\ page' = [page EXCEPT ![c] = "open"]
    /\ handler' = [handler EXCEPT ![c] = "registering"]
    /\ UNCHANGED <<view, outbox, inbox, got, sends, chanVars, registry, hub, busy,
                   collided>>

\* onclose, or the network or the machine gone: the list is cleared.
Close(c) ==
    /\ page[c] = "open"
    /\ page' = [page EXCEPT ![c] = "closed"]
    /\ view' = [view EXCEPT ![c] = {}]
    /\ inbox' = [inbox EXCEPT ![c] = <<>>]
    /\ UNCHANGED <<outbox, got, sends, handler, chanVars, registry, hub, busy,
                   collided>>

\* Any of offer, answer, ice and file_*: to a device of the list.
Send(c, d) ==
    /\ page[c] = "open" /\ d \in view[c] \ {c} /\ sends < MaxSends
    /\ sends' = sends + 1
    /\ outbox' = [outbox EXCEPT ![c] = Append(@, [to |-> d, n |-> sends + 1])]
    /\ UNCHANGED <<page, view, inbox, got, handler, chanVars, registry, hub, busy,
                   collided>>

\* (mutant) device_left not handled
ListingForgetsLeft(c, ids, m) ==
    CASE m.type = "device_list" -> m.ids
      [] m.type = "device_joined" -> IF m.id = c THEN ids ELSE ids \cup {m.id}
      [] OTHER -> ids

\* handleMsg on the device list.
Listing(c, ids, m) ==
    CASE m.type = "device_list" -> m.ids
      [] m.type = "device_joined" -> IF m.id = c THEN ids ELSE ids \cup {m.id}
      [] m.type = "device_left" -> ids \ {m.id}
      [] OTHER -> ids

Read(c) ==
    /\ page[c] = "open" /\ inbox[c] # <<>>
    /\ LET m == Head(inbox[c])
       IN  /\ view' = [view EXCEPT ![c] = Listing(c, @, m)]
           /\ got' = IF m.type = "relay" THEN [got EXCEPT ![c][m.id] = m.n] ELSE got
    /\ inbox' = [inbox EXCEPT ![c] = Tail(@)]
    /\ UNCHANGED <<page, outbox, sends, handler, chanVars, registry, hub, busy,
                   collided>>

-------------------------------------------------------------------------------
(* WriteJSON, by the hub or by a handler.                                      *)

Begin(w, c, m) ==
    /\ IsFree(c)
    /\ busy' = [busy EXCEPT ![c] = [by |-> w, msg |-> m, whole |-> TRUE]]
    /\ UNCHANGED <<collided>>

\* Two writers in one connection, frames interleaved: the page drops what it
\* cannot parse, and neither message gets through.
Garble(c) ==
    /\ ~IsFree(c)
    /\ busy' = [busy EXCEPT ![c].whole = FALSE]
    /\ collided' = TRUE

\* (mutant) the socket as a stack
EndOnTop(w, c) ==
    /\ busy[c].by = w
    /\ page[c] = "closed" \/ Len(inbox[c]) < SockCap
    /\ busy' = [busy EXCEPT ![c] = Free]
    /\ inbox' = IF page[c] = "open" /\ busy[c].whole
                THEN [inbox EXCEPT ![c] = <<busy[c].msg>> \o @]
                ELSE inbox

\* (mutant) a write that never blocks
EndAlways(w, c) ==
    /\ busy[c].by = w
    /\ busy' = [busy EXCEPT ![c] = Free]
    /\ inbox' = IF page[c] = "open" /\ busy[c].whole
                THEN [inbox EXCEPT ![c] = Append(@, busy[c].msg)]
                ELSE inbox

\* The write ends once the socket has room; a closed connection takes anything.
End(w, c) ==
    /\ busy[c].by = w
    /\ page[c] = "closed" \/ Len(inbox[c]) < SockCap
    /\ busy' = [busy EXCEPT ![c] = Free]
    /\ inbox' = IF page[c] = "open" /\ busy[c].whole
                THEN [inbox EXCEPT ![c] = Append(@, busy[c].msg)]
                ELSE inbox

-------------------------------------------------------------------------------
(* The handler of a connection.                                                *)

\* hub.Register <- client: blocks while the channel is full.
Register(c) ==
    /\ handler[c] = "registering" /\ Len(registerCh) < ChanCap
    /\ registerCh' = Append(registerCh, c)
    /\ handler' = [handler EXCEPT ![c] = "reading"]
    /\ UNCHANGED <<pageVars, unregisterCh, registry, hub, busy, collided>>

\* readPump takes a message and dispatch looks up the target: the message is
\* dropped if there is none, and otherwise the write begins.
Dispatch(c) ==
    /\ handler[c] = "reading" /\ ~Writing(c) /\ outbox[c] # <<>>
    /\ outbox' = [outbox EXCEPT ![c] = Tail(@)]
    /\ LET to == Head(outbox[c]).to
           m == Relayed(c, Head(outbox[c]).n)
       IN  \/ to \notin registry /\ UNCHANGED <<handler, busy, collided>>
           \/ to \in registry /\ Begin(c, to, m) /\ UNCHANGED handler
           \/ to \in registry /\ Garble(to) /\ UNCHANGED handler
           \/ /\ to \in registry /\ ~IsFree(to)     \* panic, recovered by net/http
              /\ handler' = [handler EXCEPT ![c] = "leaving"]
              /\ collided' = TRUE
              /\ UNCHANGED busy
    /\ UNCHANGED <<page, view, inbox, got, sends, chanVars, registry, hub>>

Relay(c, d) ==
    /\ End(c, d)
    /\ UNCHANGED <<page, view, outbox, got, sends, handler, chanVars, registry,
                   hub, collided>>

\* ReadMessage fails: what the page sent last may never be read.
PumpEnds(c) ==
    /\ handler[c] = "reading" /\ ~Writing(c) /\ page[c] = "closed"
    /\ handler' = [handler EXCEPT ![c] = "leaving"]
    /\ outbox' = [outbox EXCEPT ![c] = <<>>]
    /\ UNCHANGED <<page, view, inbox, got, sends, chanVars, registry, hub, busy,
                   collided>>

\* The deferred hub.Unregister <- id: blocks while the channel is full.
Unregister(c) ==
    /\ handler[c] = "leaving" /\ Len(unregisterCh) < ChanCap
    /\ unregisterCh' = Append(unregisterCh, c)
    /\ handler' = [handler EXCEPT ![c] = "done"]
    /\ UNCHANGED <<pageVars, registerCh, registry, hub, busy, collided>>

-------------------------------------------------------------------------------
(* The hub goroutine.  Its select takes from either channel.                   *)

Broadcast(at, c, todo, next) ==
    IF todo = {} THEN next ELSE [at |-> at, id |-> c, todo |-> todo]

Welcome(c) == [at |-> "registered", id |-> c]

\* registerClient: the maps, then RegisterDevice's broadcast to the others.
TakeRegister ==
    /\ hub = Idle /\ registerCh # <<>>
    /\ registerCh' = Tail(registerCh)
    /\ LET c == Head(registerCh)
       IN  /\ registry' = registry \cup {c}
           /\ hub' = Broadcast("joined", c, registry \ {c}, Welcome(c))
    /\ UNCHANGED <<pageVars, handler, unregisterCh, busy, collided>>

\* (mutant) the broadcast waits for the lock that unregisterClient holds
TakeUnregisterLocked ==
    /\ hub = Idle /\ unregisterCh # <<>>
    /\ unregisterCh' = Tail(unregisterCh)
    /\ hub' = [at |-> "locked"]
    /\ UNCHANGED <<pageVars, handler, registerCh, registry, busy, collided>>

\* unregisterClient: an id that is not registered (yet) is forgotten.
TakeUnregister ==
    /\ hub = Idle /\ unregisterCh # <<>>
    /\ unregisterCh' = Tail(unregisterCh)
    /\ LET c == Head(unregisterCh)
       IN  /\ registry' = registry \ {c}
           /\ hub' = IF c \in registry
                     THEN Broadcast("left", c, registry \ {c}, Idle)
                     ELSE Idle
    /\ UNCHANGED <<pageVars, handler, registerCh, busy, collided>>

\* The connections the hub may write to next, with the message.
HubWrites ==
    CASE hub.at = "joined" -> {<<d, Joined(hub.id)>> : d \in hub.todo}
      [] hub.at = "left" -> {<<d, Left(hub.id)>> : d \in hub.todo}
      [] hub.at = "registered" -> {<<hub.id, Registered>>}
      [] hub.at = "list" -> {<<hub.id, DeviceList(registry)>>}
      [] OTHER -> {}

\* (mutant) the new device not sent the list
AfterWriteNoList(c) ==
    CASE hub.at = "joined" -> Broadcast("joined", hub.id, hub.todo \ {c}, Welcome(hub.id))
      [] hub.at = "left" -> Broadcast("left", hub.id, hub.todo \ {c}, Idle)
      [] OTHER -> Idle

AfterWrite(c) ==
    CASE hub.at = "joined" -> Broadcast("joined", hub.id, hub.todo \ {c}, Welcome(hub.id))
      [] hub.at = "left" -> Broadcast("left", hub.id, hub.todo \ {c}, Idle)
      [] hub.at = "registered" -> [at |-> "list", id |-> hub.id]
      [] OTHER -> Idle

HubBegins ==
    /\ ~Writing(HubId)
    /\ \E p \in HubWrites :
          \/ Begin(HubId, p[1], p[2]) /\ UNCHANGED <<hub, crashed>>
          \/ Garble(p[1]) /\ hub' = AfterWrite(p[1]) /\ UNCHANGED crashed
          \/ /\ ~IsFree(p[1])       \* panic: nothing recovers it
             /\ crashed' = TRUE /\ collided' = TRUE
             /\ UNCHANGED <<hub, busy>>
    /\ UNCHANGED <<pageVars, handler, chanVars, registry>>

HubEnds(c) ==
    /\ End(HubId, c)
    /\ hub' = AfterWrite(c)
    /\ UNCHANGED <<page, view, outbox, got, sends, handler, chanVars, registry,
                   collided>>

-------------------------------------------------------------------------------

ConnStep(c) ==
    \/ Connect(c) \/ Close(c) \/ Read(c) \/ \E d \in Conns : Send(c, d)
    \/ Register(c) \/ Dispatch(c) \/ PumpEnds(c) \/ Unregister(c)
    \/ \E d \in Conns : Relay(c, d)

HubStep == TakeRegister \/ TakeUnregister \/ \E c \in Conns : HubEnds(c)

Next ==
    /\ ~crashed
    /\ \/ HubBegins
       \/ (HubStep \/ \E c \in Conns : ConnStep(c)) /\ UNCHANGED crashed

Spec == Init /\ [][Next]_vars

\* Goroutines run, pages handle what reaches them, and a socket with room takes
\* the write.  Pages connect, send and close as they like.  The select of Run
\* may be unfair to a channel; each id goes through each channel once.
Up(A) == ~crashed /\ A /\ UNCHANGED crashed

Fairness ==
    /\ WF_vars(~crashed /\ HubBegins)
    /\ WF_vars(Up(TakeRegister)) /\ WF_vars(Up(TakeUnregister))
    /\ \A c \in Conns :
          /\ WF_vars(Up(HubEnds(c))) /\ WF_vars(Up(Read(c))) /\ WF_vars(Up(Register(c)))
          /\ WF_vars(Up(Dispatch(c))) /\ WF_vars(Up(PumpEnds(c))) /\ WF_vars(Up(Unregister(c)))
          /\ \A d \in Conns : WF_vars(Up(Relay(c, d)))

FairSpec == Spec /\ Fairness

-------------------------------------------------------------------------------
(* Properties.                                                                 *)

Messages ==
    [type : {"device_joined", "device_left"}, id : Conns]
        \cup {Registered} \cup [type : {"device_list"}, ids : SUBSET Conns]
        \cup [type : {"relay"}, id : Conns, n : 1..MaxSends]

Hubs ==
    {Idle} \cup [at : {"joined", "left"}, id : Conns, todo : SUBSET Conns]
        \cup [at : {"registered", "list"}, id : Conns]

Writes == {Free} \cup [by : Writers, msg : Messages, whole : BOOLEAN]

\* Every variable has its type; the channels and the sockets keep their capacity.
TypeOK ==
    /\ page \in [Conns -> {"new", "open", "closed"}]
    /\ view \in [Conns -> SUBSET Conns]
    /\ outbox \in [Conns -> Seq([to : Conns, n : 1..MaxSends])]
    /\ inbox \in [Conns -> Seq(Messages)] /\ \A c \in Conns : Len(inbox[c]) <= SockCap
    /\ got \in [Conns -> [Conns -> 0..MaxSends]]
    /\ sends \in 0..MaxSends
    /\ handler \in [Conns -> {"none", "registering", "reading", "leaving", "done"}]
    /\ registerCh \in Seq(Conns) /\ Len(registerCh) <= ChanCap
    /\ unregisterCh \in Seq(Conns) /\ Len(unregisterCh) <= ChanCap
    /\ registry \subseteq Conns
    /\ hub \in Hubs
    /\ busy \in [Conns -> Writes]
    /\ collided \in BOOLEAN /\ crashed \in BOOLEAN

\* What a message says of a device, if anything: a list says something of all.
Mentions(m, d) ==
    \/ m.type = "device_list"
    \/ m.type \in {"device_joined", "device_left"} /\ m.id = d
Lists(m, d) ==
    \/ m.type = "device_list" /\ d \in m.ids
    \/ m.type = "device_joined" /\ m.id = d

\* Whether page c will list d once it has handled all that was written to it: as
\* the last message says that mentions it, or as it does now.
WillList(c, d) ==
    LET q == inbox[c]
    IN  \/ \E i \in 1..Len(q) : /\ Lists(q[i], d)
                                /\ \A j \in (i + 1)..Len(q) : ~Mentions(q[j], d)
        \/ d \in view[c] /\ \A j \in 1..Len(q) : ~Mentions(q[j], d)

Converged ==
    \A c \in registry : page[c] = "open" =>
       \A d \in Conns \ {c} : WillList(c, d) <=> d \in registry

\* Joins and leaves are written one by one, to each page in any order, while
\* other pages come and go: between two handlers of the hub every page is on its
\* way to the registry's list, provided that no two goroutines ever wrote to a
\* connection at once.
ViewsConverge == hub = Idle /\ ~collided => Converged

RelaysOf(c, m) == m.type = "relay" /\ m.id = c

\* What one page sends to another arrives in the order it was sent, whoever else
\* is written in between: an offer is never overtaken by its candidates.
RelayInOrder ==
    \A c, d \in Conns : \A i \in 1..Len(inbox[d]) :
       RelaysOf(c, inbox[d][i]) =>
          /\ got[d][c] < inbox[d][i].n
          /\ \A j \in 1..(i - 1) : RelaysOf(c, inbox[d][j]) => inbox[d][j].n < inbox[d][i].n

\* A page whose connection stays hears the device list: the handlers and the hub
\* never wait for each other in a circle, through the two channels of bounded
\* capacity and the sockets.
EveryoneIsListed ==
    \A c \in Conns :
       (page[c] = "open") ~> (c \in view[c] \/ page[c] # "open" \/ collided)

\* A device that closes is removed when its id comes out of hub.Unregister, and
\* every handler gets that far.
HandlersEnd ==
    \A c \in Conns : (page[c] = "closed") ~> (handler[c] = "done" \/ crashed)

\* A device that is gone leaves the list, and device_left tells the others
\* (README 5.1).
GoneIsUnlisted ==
    \A c \in Conns : (page[c] = "closed") ~> (c \notin registry \/ collided)

===============================================================================
