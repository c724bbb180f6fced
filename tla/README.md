# webdrop: a verification project

webdrop moves files between browsers of one network. A Go server serves the
page and relays the signalling; the files go from page to page over WebRTC data
channels. This directory models the parts of the program whose correctness
depends on the order of events, checks them with TLC on small instances, and
proves the safety of most of them with TLAPS, for every value of the constants:
one file over one channel, offers and answers, several files over one
connection, the handshake of a connection, the hub and the pages' device lists.

## 1. Inventory

| Part | Code | State | Operations | Talks to |
|---|---|---|---|---|
| Hub and registry | `server/websocket.go`, `device.go`, `msg.go` | `Register`, `Unregister` channels, `clients`, `devices` | register, unregister, broadcast, relay | one handler goroutine per WebSocket; the pages |
| Device list of a page | `app.js` 205-307 | `devices`, `deviceId` | connect, reconnect after 3 s, list updates | the hub |
| PeerConnection signalling | `app.js` 315-374, 426-544 | `peerConnections`, `pendingCandidates` | offer, answer, ICE, cleanup by connection id | the other page, through the hub |
| Offers and the dialog | `app.js` 551-648, 834-1125 | `pendingFileOffers`, the dialog, its 60 s timer, `transferAccepted` | offer, accept, reject, cancel | the other page, through the hub |
| File channel, sender | `app.js` 377-423, 551-830, 1065-1101 | `outgoingFiles` (`sent`, `sentIdx`, `waitingAck`), `dcLastConfirmed`, FileReaders, timers | header, blocks, window, ACK timer, removal | the receiver, over the data channel |
| File channel, receiver | `app.js` 1128-1300 | `incomingChannels`, `receiveBuffers` | header, blocks, FLOW_ADV, digest, save, removal | the sender |
| Several files over one connection | `app.js` 357-371, 551-648, 1353-1406 | every map above, by `connId:fileName` | the same, with the keys of several files | the other page |
| Wire format, crc32c, md5 | `app.js` 119-200 and the parsers | none | conversions | - |
| UI and history | `app.js` 1302-1483, html, css | DOM, `transferHistory` | render | - |
| Go protocol package | `protocol/*.go` | none | an earlier version of the format, imported by nothing | - |
| Start-up, naming | `main.go`, `web/embed.go`, `server/signaling.go` | none after start-up | serve files, QR code, device name | - |

What makes each part correct:

- *Hub*: every page's list tends to the registry; relayed messages keep their
  order; nobody waits for ever on the bounded channels and the sockets; a device
  that is gone leaves the list.
- *Dialog*: nothing is sent that was not agreed to; every offer is answered,
  once; a later answer does not undo an earlier one.
- *File channel*: the blocks go out once and in order although `sendBlock` has
  three callers and an asynchronous reader; the two flow control layers neither
  overrun nor get stuck; the file is saved whole, once; "complete" is true.
- *Repeated transfers*: map entries and timers are keyed by
  `connId:fileName`, and the old channel stays open, so that what a transfer
  leaves behind and what it still says meets the next one.
- *Signalling*: the two pages agree on their connections, though both may call;
  no candidate is lost, whenever it comes; a page with a live connection does
  not start another, nor does it use a closed one (which it does, see 4).
- *Several files over one connection*: what happens to one does not reach
  another; what is saved under a name is the file of that name.

Hard behaviours: the interleavings of page tasks (timers, FileReader callbacks,
messages, clicks, awaits), of goroutines on one connection, failures of one end
only, names and ids reused, timers that outlive what they were armed for. The
list with lines is `hazards` in `PROJECT.json`.

## 2. Modules

| Module | Role |
|---|---|
| `FileChannel` | one file over one data channel, both pages and the network |
| `Transfer` | what a transfer promises; `FileChannel` implements it |
| `FileChannelProofs` | the inductive invariant's preservation, the theorems |
| `Resend` | extends `FileChannel`: the same name sent again |
| `ResendProofs` | its inductive invariant's preservation, the theorems |
| `FileKeys` | several files over one connection, whose keys may meet |
| `FileKeysProofs` | its inductive invariant and theorems |
| `PeerConn` | how two pages get to one `RTCPeerConnection` |
| `PeerConnProofs` | its inductive invariant and theorems |
| `Consent` | many senders, one receiving page: offers, dialog, answers |
| `ConsentProofs` | its inductive invariant and theorems |
| `DeviceHub` | the server's goroutines and the pages' device lists |
| `DeviceHubProofs` | its inductive invariant and theorems |
| `SequenceLemmas` | places in a sequence, for `ConsentProofs` and `PeerConnProofs` |
| `MC...` | the instances of each for TLC |

### FileChannel and Transfer

Every handler, timer callback and FileReader callback is one action, because a
page runs one at a time. The unit is the block of 16 KB; `f.sent`, a byte count
that is on a block boundary between handlers, is a number of blocks.

| State | Code |
|---|---|
| `file` | the `outgoingFiles` entry: not yet, there, removed |
| `chS`, `chR` | the `dataChannels` entries |
| `accepted`, `consent` | `transferAccepted`; the offer and its answer on their way |
| `sent`, `sentIdx`, `waitingAck`, `headSent` | fields of the entry |
| `lastConfirmed` | `dcLastConfirmed`, 0 when absent |
| `reads`, `wakeups`, `ackTimers`, `sRemovals`, `rRemovals` | FileReaders, `setTimeout` tasks and events under way |
| `stream`, `wire`, `taken` | all that was sent, how much left the buffer, how much was handled |
| `toS` | FLOW_ADV and FILE_RECEIVED on their way back |
| `rx`, `announced`, `blocks`, `received` | the `receiveBuffers` entry |
| `incoming`, `downloads`, `sHist` | `incomingChannels`, the files saved, the statuses shown |

`SendBlock(lc)` is `sendBlock` with the confirmation it reads; `Wake` and
`HandleFlowAdv` call it, `ReadDone` is the FileReader's `onload`. `StoreBlock`
includes `doMd5AndSendAck`, which runs in the same handler. SCTP delivers in
order and loses nothing until an end goes (the channel is created with
`ordered: true` alone; README 4.4 of the repository also names
`maxRetransmits: 3`, which the code does not set).

`Transfer` says what all this is for: blocks are collected, the file is saved
once and whole, or given up, and only then may the sender say "complete". The
mapping is `held <- received`, `disk <- downloads`,
`confirmed <- "complete" \in sHist`.

### Resend

`StartAgain` is `startTransfer` on the connection of the first transfer: a new
channel and a fresh entry, with `lastConfirmed`, the receiver's buffer, the
timers, the queued `sendBlock` tasks and the FileReader as the last transfer left
them. Its guard is the code's: the name has no `outgoingFiles` entry. Nothing
closes the channel of the last transfer, and its handlers find their file by the
same `connId:fileName`; so the old channel is modelled beside the new one, by
`FileChannel` itself over its own ends and stream:

| Action | Code |
|---|---|
| `OldTransmit`, `OldDeliver` | the rest of the old stream reaches `handleBinary` of the receiver, and the new entry's counters; the reply goes by the channel that `dataChannels` has now |
| `OldFlowAdv` | a late FLOW_ADV calls `sendBlock` for the new entry, on the new channel |
| `OldFileReceived` | a late FILE_RECEIVED is compared with the new entry's digest |
| `OldSenderCloses`, `OldReceiverCloses` | its `onclose` and `onerror`, which take the new entries |
| `ReplyUnheard` | a message on the new channel before its handlers are installed |

`round`, `clean`, `late`, `overlap` and `earlier` are history: all earlier rounds
were complete, silent and their timers over; this round began before the last
channel and the queued tasks were silent; it began under a removal timer; what
the last round saved. The 30 s timer may still be armed, and a 3 s removal timer
too: on the receiving page, whose timers the browser delays in the background, or
on the sending page after a second failure. Two bounds: `MaxRounds`, and that a
round after one that was not clean is the last, so that there is one old channel
with something to carry and no reader from two entries before.

### FileKeys

Every map of a page, and every timer, finds its file by `connId:fileName`. On
one connection two files have one key on a page when each page sends the other
a file of that name, and when two names agree up to a colon, where
`ondatachannel` splits the label. A name is the sequence of its parts between
colons, so that `LabelKey` is what the receiver takes of it and `Key(p, c)` the
key under which page `p` files what comes on the channel of `c`. The state is
each page's maps over these keys, the channels, and per file what its sender
keeps. Unlike in `FileChannel` a block has contents, the file it was read from,
because the question is whose blocks get where; the digest is a function of the
length, as the code's is. The connection lasts and reads succeed: those
failures are `FileChannel`'s and `Resend`'s.

### PeerConn

A connection is named by its id, "from-to-time"; `peerConnections` is the
JavaScript `Map`, a sequence of entries, since `getConnIdForTarget` takes the
first that fits. `pc[p][c]` is page `p`'s end of connection `c`: the signalling
state, the await in which `handleOffer` or `handleAnswer` is, the candidates
still to drain, and the history of those added and gathered.

| Action | Code |
|---|---|
| `StartTransfer`, `HashDone`, `HashFails`, `OfferMade` | `startTransfer` cut at its awaits: digest of each file, `createOffer` |
| `HandleOffer`, `HandleAnswer` | the handlers up to `setRemoteDescription` |
| `RemoteSet`, `Drain`, `AnswerMade` | what follows its awaits |
| `OnIceCandidate`, `HandleIce` | a candidate on its way, queued or added |
| `IceFails` | `cleanupAllForConnId` |

### Consent

A sender stands for its connection. `StartTransfer` and `HashDone` are the loop
of `startTransfer` cut at its awaits, so that a second click interleaves with
the first; `Skipped` is its test for an entry. The queue keeps the order of the
JavaScript `Map`. `TimerExpires` is the 60 s interval, which runs only while
`pendingFileTimer` says so. `Lose` is a WebSocket that closes: `send()` drops
what its page says, and the server what is for it. `CallFails` is a call that
throws after some digests, because one rejects, because the connection failed and
`createDataChannel` throws, or because the SDP offer fails: it ends before its
`file_offer`, and the files digested so far keep their entries. `mixed`, `blank`,
`doubled`, `lost` and `stranded` remember five things: one accept answered several
senders, an accept was clicked on a dialog without files, one name was digested by
two calls at a time, a message of a sender was lost, a file had its entry in a
call that failed. The properties hold but for these, and name those they need.

### DeviceHub

The hub's handler is a sequence of writes, one connection at a time; handlers
of the connections relay at the same time. A write is two steps, because no
lock covers it: when a second goroutine writes to the same connection the
frames are garbled or gorilla panics (`Garble`, `crashed`). Closing, registering
and unregistering come in any order, through channels of bounded capacity.

## 3. Runs

| Run | Instance | What it shows |
|---|---|---|
| `file_channel` | files of 0, 1, 2, 14, 18 blocks; window 10, buffer 16 and 31 blocks as in the code; header limit 17 | 10 invariants, no resurrection, refinement of `Transfer`, in every interleaving |
| `resend` | a transfer of 1, 2 or 3 blocks and two more of 1 or 2; window 2, buffer 3 | every block once and in order, one reader, with stale entries, timers and the old channel's messages; header first and true confirmation when the old channel was silent; a late confirmation names a length that was saved; after complete transfers the next is saved whole |
| `resend_live` | two transfers of 1 or 3 blocks | every accepted file ends; a peer's end frees the blocks |
| `resend_retry` | one file of 3 blocks, two tries | **violated**: a retry that arrives whole is never saved |
| `file_keys` | nine pairs of files that share keys in each possible way, or none; window 2 | what is saved and what is shown as complete is the file itself, but for labels that agree up to a colon; files without a common key end as complete |
| `file_keys_confused` | the same | **violated** without the proviso |
| `peer_conn` | 2 pages that may call at once, 2 clicks of up to 2 files, 2 connections, 2 candidates | candidates arrive, both ends agree, one live connection, every one negotiated |
| `peer_conn_closed` | 3 clicks, 1 candidate | **violated**: a closed connection is used again |
| `consent` | 2 senders, 2 shared names, 3 clicks on send, lost messages, failing calls | consent first, no accepted file torn down, every offer answered, with the provisos |
| `consent_unanswered` | the same, 2 clicks | **violated** without the proviso of the empty dialog: an offer is never answered |
| `hub` | 2 connections, channels of 1, sockets of 2 messages, 3 relayed messages | lists converge, order of the relay, no circle of waiting |
| `hub_ghost` | 2 connections, channels and sockets of 1 | **violated**: a device that is gone stays listed |

Bounds. The block counts include the empty file, a file in one window, one that
fills it and goes on (14), and one over the header limit (18, with the limit set
to 17); 0 and 1 are the boundary of "all confirmed". The instance of
`file_channel` has the ratio of window and buffers of the code; `resend` and
`resend_live` have the smallest window that is not the excluded 1, where each
wake-up matters. `MaxRounds` = 2 is one reuse of every stale entry, 3 a reuse of
what two transfers left; 2 and 3 blocks are a file in one window and one over it,
with confirmations of the longer one left to the shorter. `AgainBlocks` leaves the
longest file to the first transfer of `resend`; a short one before a long one is
in `resend_live`. In
`file_keys` the cases are all ways in which two files can meet: same name in
both directions, the same part before the colon in one direction or in both, the
whole name of one being the part of the other; and no common key, in both
directions or one, with and without colons. The longer files are longer than the
window. Two clicks on two pages are the crossing
calls; the third in `peer_conn_closed` is the send after the failure. A second
candidate is one that comes while the first is drained. Three starts in
`consent` give two calls that overlap on one sender and an offer of another.
Channels of capacity 1 block where capacity 64 would block with 64 devices; what
two connections may hide of the lists and the relay, the theorems of section 5
cover, which are for any number.
Nothing else is bounded: the counters of wake-ups and timers stay small on
their own.

Deadlock is not checked: a page whose transfers are over, or that nobody uses,
has nothing to do.

Fairness (in `Resend`, `FileKeys`, `PeerConn`, `Consent`, `DeviceHub`). Queued tasks, timers and FileReaders run (the event loop), messages
move while the channel is open (SCTP), an end hears that the other is gone,
goroutines run, pages that stay open read. In `PeerConn` a page's awaits and
messages are one disjunction, `EventLoop`: it is finite work, of which a page that
goes on working does all. A page stalls for as long as it likes, never for ever.
Nobody has to click, to accept, or
to close, and nothing has to fail. All of it is weak fairness: `Next` has one
disjunct for each, and none is disabled by another for ever but by an event
that makes it pointless.

## 4. Findings

1. *A retry is never saved* (`resend_retry`). After the sender fails to read a
   block the receiver keeps its half file; the new header is ignored
   (`app.js` 1195), bytes are counted twice and the final test never holds.
2. *Mixed-up files* (`file_keys_confused`). Of two files `a:x` and `a:y` the
   receiver keeps one entry. Blocks of the second fill the entry of the first,
   the digest agrees because it is one of the length, and the sender shows a
   file as complete that was saved with the other's contents.
3. *A closed connection is used again* (`peer_conn_closed`). `handleAnswer`
   stores a connection under two ids, cleanup deletes one. After a failure the
   page that made the connection finds the closed one on every send.
4. *A ghost device* (`hub_ghost`). `Run` may take the unregistration first.
5. *An offer without an answer* (`consent_unanswered`). An accept on a dialog
   without files returns early with its timer stopped; the offers that join it get
   no timeout.
What the provisos of the properties name is of the same kind, though no line of
the repository promises otherwise: one accept of several senders answers only the
first of them, with the names of all (`mixed`); a call that fails before its
`file_offer` leaves the files it had digested without an answer for ever, and
their names cannot be sent again (`stranded`); a transfer that starts under a
removal timer of the last one can lose its entries (`overlap`), and one that
starts before the last channel is silent meets its late messages (`late`, below);
a second transfer of a name starts
with the confirmations of the first, because `dcLastConfirmed` survives
`removeTransferUI`, and passes the window, though nothing is lost by it
(`CleanIsWhole`); a digest that rejects leaves a connection that later sends reuse
and that never connects (`Abandoned`); two files of one name that cross on one
connection may not both end as complete (`Shared`), although neither is ever
saved wrong; a file whose offer or answer is lost waits for ever (`lost`).

Two claims of the repository hold for a transfer only if the last channel of the
name was silent when it began. (a) "等待 file_accept 才发送" (`app.js` 396): a late
FLOW_ADV of the old channel calls `sendBlock` for the new entry, which asks
neither for the `file_accept` nor for the header, so that block 0 goes out on the
new channel unasked. The receiver drops blocks before the header and confirms
nothing, and the window may stay shut. (b) "发送端收到 ACK 才算完成"
(`README.md` 210): a late FILE_RECEIVED of a transfer that its 30 s timer had
failed reaches the new entry by its key, and the digest, one of the length,
agrees: the new transfer is shown as complete and nothing of it was saved. With
`INVARIANT NothingWithoutConsent` or `INVARIANT ConfirmedMeansSaved` in
`MCResend.cfg` TLC shows the two behaviours, (b) in the third transfer: the timer
runs only where the confirmations reach the last block, so with those that a longer
transfer left behind. `resend` checks what does hold with such messages
(`OnceInOrder`, `ConfirmedIsSome`) and without (`SilentInOrder`,
`SilentConfirmed`).

## 5. Proofs

`FileChannelProofs` proves, from `ChannelAssumption` alone (block counts are
naturals, the window is at least 2, `BUFFER_HIGH` is positive and at most the
low-water threshold, the header limit is a natural):

| Theorem | Says |
|---|---|
| `TypeCorrect` | `[]TypeOK` |
| `InOrder`, `SingleReader` | `[]StreamInOrder`, `[]OneReader` |
| `WindowKept`, `BufferKept` | `[]WindowRespected`, `[]BufferNeverHigh` |
| `NoHole`, `Reception` | `[]PrefixHeld`, `[]WholeIsSaved` |
| `Confirmation` | `[]ConfirmedMeansSaved` |
| `ConsentAwaited`, `ConsentKept` | `[]NothingWithoutConsent`, `[]AcceptedIsSent` |
| `NeverResurrected` | `NoResurrection` |
| `Refinement` | `ImplementsTransfer` |

All but the last follow from `Invariance == Spec => []IInv`. None of the
properties is inductive by itself. That blocks go out in order needs that a read
under way is of the next block (`ReaderInv`: `sentIdx = sent` while reading),
which three callers could spoil; that the window is respected needs that a
confirmation on its way names a handled block (`ReplyInv`); that the file is
saved needs that the receiver's map is exactly the blocks below `received` and
that `received` follows `taken` (`ReceiverInv`); that an accepted file is sent
needs that no consent exists before the entry does (`ConsentInv`, `AnswerInv`), which covers
the open event lost during the digest; and that no late read brings an entry back needs
that timers of removal are armed only when no read is left while the channel is
open (`RemovalInv`). `SenderInv` is the part of it that does not depend on what
entry the receiver has, for `ResendProofs`. One lemma per part says that every step preserves it, with
one step per action; `IInvStep` puts them together. TLC checks `IInv` too: it
held on the instance of `file_channel` before it was proved.

`ConsentProofs` proves, from `ConsentAssumption` alone (the number of clicks on
"send" is a natural; nothing of the senders and the names, not even that they are
finitely many):

| Theorem | Says |
|---|---|
| `TypeCorrect` | `[]TypeOK` |
| `FirstAgreed` | `[]ConsentFirst` |
| `AcceptedKept` | `KeepsAccepted` |

`ConsentFirst` needs `AgreedInv`: not only what a sender was told, but every
accept still on its way to it, names only files that have their entry on the
receiving page; an accept of several senders (`mixed`) is what breaks it, since
the first one is told the names of all. `KeepsAccepted` needs to know that no
reject of an accepted name can still be on its way. `SingleInv` says so: as long
as no name is digested by two calls at a time, a name of a sender is in one
place only of those it passes between its digest and its answer (the offer of a
call, a `file_offer`, the dialog, an answer), and in none before it has an entry
or after it was accepted. It is kept by every action because each takes a name
from one place to the next; a lost message and a call that fails take it away. `AppendHits`,
`TailHits` and `WithoutHits` (`SequenceLemmas`) say what appending to a sequence
and taking an element out do to the places of a name; TLC had checked both
invariants before.

`FileKeysProofs` proves, from `KeysAssumption` alone (names are not empty, and the
files of one page have different ones; lengths are positive; the window is at
least 2; nothing of how many files there are or which of their keys meet):

| Theorem | Says |
|---|---|
| `TypeCorrect` | `[]TypeOK` |
| `SavedRight` | `[]SavedIsItself` |
| `CompleteRight` | `[]CompleteIsSaved` |

The argument is about the stem of a label, what it is up to its first colon.
Whatever key a page uses for a channel, of the two that its own bookkeeping and
`ondatachannel` give it, the stem is that of the channel. So all blocks that an
entry holds, and every byte that is acknowledged, are of files of the other page
with the stem of the entry (`HeldInv`, `WireInv` for what is on its way,
`ReadingInv` for what is being read). Unless two names of one page have the
same stem (`Confused`, which is finding 2), that is a single file, though two
pages may send each other files of one name at once.

`DeviceHubProofs` proves, from `HubAssumption` (channels and sockets hold at
least one message, and "hub" and "none", by which the model calls the hub's goroutine and
nobody, name no connection):

| Theorem | Says |
|---|---|
| `TypeCorrect` | `[]TypeOK` |
| `OrderKept` | `[]RelayInOrder` |
| `ListsConverge` | `[]ViewsConverge` |

Both speak of what is neither lost nor garbled yet, so they need to know what is
on its way. Relayed messages keep their order because those handled, in the
socket and being written all come before those that the handler has not read
(`PassedInv`), and the one being written after those in the socket
(`WritingInv`); that in turn needs to know who writes what: a handler only
messages of its page, the hub only what the registration at hand calls for
(`BusyInv`, `OutboxInv`). For the lists, `ListsInv` compares in every state the
registry with the list that a page will have when it has read all that is
written to it (`WillList`), but for what the hub's current handler has still to
tell that page (`Untold`); `ViewsConverge` is the case in which nothing is under
way. `WillAppend` and `WillTail` say how that list takes a message more at one
end and one less at the other.

`PeerConnProofs` proves, from `PeerAssumption` alone (the bounds on clicks, files,
connections and candidates are naturals; any number of pages, of which any two
may call each other at the same time):

| Theorem | Says |
|---|---|
| `TypeCorrect` | `[]TypeOK` |
| `NothingLost` | `[]NoCandidateLost` |
| `BothAgree` | `[]Agreement` |
| `ClosedReversed` | `[]ClosedOnlyReversed` |
| `OneLive` | `OneConnection` |

`Agreement` speaks of a connection with nothing under way, so what is under way
has to be known. `PhaseInv` says that every connection is in one of seven phases
(`NotStarted`, `Starting`, `OfferSent`, `Answering`, `AnswerSent`, `AnswerTaken`,
`Settled`), each of which fixes the signalling state and the handler of both
ends, and whether the call that makes the offer, the offer and the answer
exist: one at most of the three, and once. Every action takes a connection to
the next phase or leaves it in its own, since a handler meets an end only in
the phase in which its message can arrive; for that a message has to find its
end under the id it carries. `MapInv` says so: an entry of the Map is a live
end under its own id, or an end that this page made under the reverse of its
id, and every live end has the first kind. Since ids are numbered by the clock
(`NumberInv`), the reverse of one is no other connection's. `ClosedOnlyReversed` is what
`MapInv` says of closed ends, and `OneLive` follows from it: `getConnIdForTarget`
cannot miss a live end. `CandidateInv` follows every candidate from its
gathering to the other end; its one fragile step, the candidate that arrives
while the handler drains the queue, is kept because `HandleIce` adds exactly
when the remote description that starts the draining is there. In the model a
digest may fail before the offer: the connection stays in `Starting` without its
call, which is the pair "new", "none" of `Agreement`.

`ResendProofs` proves, from `ChannelAssumption` and `RoundsAssumption` (the files
sent again are such as may be chosen) and for any number of rounds within the
second bound of the module:

| Theorem | Says |
|---|---|
| `AgainInOrder`, `AgainSingleReader` | `[]OnceInOrder`, `[]OneReader` |
| `AgainHeaderFirst` | `[]SilentInOrder` |
| `AgainConfirmation` | `[]ConfirmedIsSome` |
| `SilentConfirmation` | `[]SilentConfirmed` |
| `CleanTransfers` | `[]CleanIsWhole` |

The first two and `AgainConfirmation` hold with all that the old channel may
still say; the claims that do not (header and consent first, a confirmation of
this transfer) are (a) and (b) of section 4. `AgainIInv` has three layers. `OrderInv` and `AckInv` hold in
every round: `sent`, `sentIdx`, the reader and the stream belong to one entry, so
that however `sendBlock` is called, before the header too, the stream is the
blocks below `sent` with the header somewhere among them; and every digest under
way, on either channel, is of as many blocks as something that this round or the
last one saved. `SilentInv` holds in a round that is not late: the old channel has
nothing to carry, `SenderInv` of `FileChannel` holds, whose lemmas are those of
`FileChannelProofs`, and `SavedInv` says of any entry of the receiver, stale or
not, that its blocks are a prefix which reaches at least as far as the blocks
that arrived in this round. So whatever header it is measured by, what it saves
is a file's first blocks without a hole, at most once in a round. `CleanInv` holds
after clean rounds: `ReceiverInv` and `RemovalInv` as in `FileChannel`, so that
"complete" means saved, what is saved has no entry left, and the next transfer
meets an empty page. `StartAgain` needs of it that no reader outlives the entry
of a clean round.

TLC had checked the parts of each invariant on small instances before they were
proved.

Only model-checked: all liveness (temporal reasoning under fairness is beyond the
prover).

## 6. Not modelled

- The byte layouts of the messages and crc32c: each is written and read by
  straight-line code in one order, and the channel corrupts nothing.
- `md5()` as an algorithm: it indexes an `ArrayBuffer`, so that its result depends
  on the length only; the models give two files of one length one digest, and
  no property says anything of corruption.
- In `FileChannel` the channel opens once, by itself, and ICE may fail at any time
  on either end; that it opens at all is `PeerConn`'s matter.
- In `Resend` a round after one that was not clean is the last (section 2), all
  rounds are on one connection, and the two channels are closed by the browser the
  newest first. A second click while the digest of the name is awaited is
  `Consent`'s matter (`doubled`).
- In `Consent` an entry goes only by a reject: the end of a transfer and the
  cleanup of a failed connection are `FileChannel`'s.
- A WebSocket that closes during the handshake of `PeerConn`: the page gets a new
  id, and so is another device.
- `file_cancel`: handled by the receiving page, sent by none.
- A file larger than the memory of the page, storage errors on saving.
- The DOM, formatting, logging; the Go `protocol` package, which is not used.
- A page that neither reads nor closes: it blocks the hub inside a broadcast.

## 7. Plan

1. `FileChannel`, `Transfer`, proofs; `Resend`, `Consent`, `DeviceHub`; `PeerConn`,
   `FileKeys` (done).
2. Proofs: `Consent`, `FileKeys`, `DeviceHub`, `PeerConn`, `Resend` (done).
3. The layouts of V2Head, Block and FLOW_ADV against a reference over bounded
   inputs, if the format changes.
