---------------------------- MODULE FileKeysProofs ----------------------------
(* Proofs about FileKeys: what is saved under a name is the file of that name, *)
(* and what is shown as complete was saved.                                    *)
EXTENDS FileKeys, FiniteSetTheorems, TLAPS

-------------------------------------------------------------------------------
(* The inductive invariant.                                                    *)

\* The part of a key that survives the label of a channel, whichever page files
\* the channel.
Stem(f) == LabelKey(name[f])

\* A file that could be taken for another of its page.
Ambiguous(f) == \E g \in Files : Confused(f, g)

\* A block is being read for a channel of the same stem, and there is one to read.
ReadingInv ==
    \A f \in Files : \A c \in sender[f].reading : Stem(c) = Stem(f) /\ sender[f].sent < size[f]

\* A message that page p may get on channel c: what it announces or carries is of
\* the other page and of the stem of c, no block is past the end of its file, and
\* an acknowledgement is of a file of that stem that was saved.
Announced(p, c, m) ==
    m.type \in {"head", "block"} => from[m.file] = Other(p) /\ Stem(m.file) = Stem(c)
Numbered(m) == m.type = "block" => m.idx < size[m.file]
Acknowledged(p, c, m) ==
    m.type = "ack" => \E g \in Files : /\ from[g] = p /\ Stem(g) = Stem(c)
                                       /\ Saved(g) \/ Ambiguous(g)
Fits(p, c, m) == Announced(p, c, m) /\ Numbered(m) /\ Acknowledged(p, c, m)

WireInv ==
    \A c \in Files, p \in Pages : \A m \in Range(wire[c][p]) : Fits(p, c, m)

\* The greatest index, if there is one.
HasMax(S) == S = {} \/ \E i \in S : \A j \in S : j <= i

\* What page p holds under key k is of the other page and of the stem of k, block
\* by block, and no block has an index past the end of its file.
HeldInv ==
    \A p \in Pages : \A k \in DOMAIN receiveBuffers[p] :
       LET r == receiveBuffers[p][k]
       IN  /\ Stem(r.as) = LabelKey(k)
           /\ HasMax(DOMAIN r.blocks)
           /\ \A i \in DOMAIN r.blocks :
                 /\ from[r.blocks[i]] = Other(p) /\ Stem(r.blocks[i]) = LabelKey(k)
                 /\ i < size[r.blocks[i]]

IInv == TypeOK /\ ReadingInv /\ WireInv /\ HeldInv /\ SavedIsItself /\ CompleteIsSaved

-------------------------------------------------------------------------------
(* The case, and the files and keys of it.                                     *)

\* What the assumption says of the case that was chosen.
LEMMA Case ==
    ASSUME chosen \in Cases, NEW f \in Files
    PROVE  /\ from[f] \in Pages /\ size[f] \in Nat \ {0}
           /\ Other(from[f]) \in Pages /\ Other(Other(from[f])) = from[f]
           /\ name[f] \in Keys /\ LabelKey(name[f]) \in Keys
           /\ \A p \in Pages : Key(p, f) \in Keys
           /\ \A g \in Files : from[f] = from[g] /\ name[f] = name[g] => f = g
  <1>1. chosen[f].from \in Pages /\ chosen[f].size \in Nat \ {0}
    BY KeysAssumption
  <1>2. \A g \in Files \ {f} : chosen[f].from = chosen[g].from => chosen[f].name # chosen[g].name
    BY KeysAssumption
  <1> QED
    BY <1>1, <1>2 DEF from, size, name, Keys, Key, Pages, Other

\* The two pages.
LEMMA TwoPages ==
    ASSUME NEW p \in Pages
    PROVE  /\ Other(p) \in Pages /\ Other(p) # p /\ Other(Other(p)) = p
           /\ \A q \in Pages : q # p => q = Other(p)
  BY DEF Pages, Other

\* The label is cut once only, so that both of a channel's keys have its stem.
LEMMA KeyStem ==
    ASSUME NEW p \in Pages, NEW f \in Files
    PROVE  LabelKey(Key(p, f)) = Stem(f)
  <1>1. \A x : Head(<<x>>) = x
    OBVIOUS
  <1> QED
    BY <1>1 DEF Key, Stem, LabelKey

\* The case is chosen once.
LEMMA Constant ==
    ASSUME chosen' = chosen
    PROVE  /\ from' = from /\ name' = name /\ size' = size /\ Keys' = Keys
           /\ \A f \in Files : /\ Stem(f)' = Stem(f) /\ Ambiguous(f)' = Ambiguous(f)
                               /\ Whole(f)' = Whole(f)
           /\ \A f \in Files, p \in Pages : Key(p, f)' = Key(p, f)
  <1>1. from' = from /\ name' = name /\ size' = size
    BY DEF from, name, size
  <1> QED
    BY <1>1 DEF Keys, Stem, Ambiguous, Confused, Whole, Key

LEMMA NextConstant ==
    ASSUME [Next]_vars
    PROVE  chosen' = chosen
  <1>1. ASSUME NEW f \in Files, FileStep(f)
        PROVE  chosen' = chosen
    <2>1. CASE StartTransfer(f) \/ HashDone(f) \/ DcOpens(f) \/ HandleFileAccept(f)
      BY <2>1 DEF StartTransfer, HashDone, DcOpens, HandleFileAccept
    <2>2. CASE Wake(f) \/ ReadDone(f) \/ AckTimeout(f)
      BY <2>2 DEF Wake, ReadDone, AckTimeout
    <2>3. ASSUME NEW p \in Pages, Deliver(p, f)
          PROVE  chosen' = chosen
      BY <2>3 DEF Deliver, Unheard, RecvV2Head, RecvBlock, HandleFlowAdv, HandleFileReceived
    <2> QED
      BY <1>1, <2>1, <2>2, <2>3 DEF FileStep
  <1>2. ASSUME NEW p \in Pages, NEW k \in Keys, RemoveTransferUI(p, k)
        PROVE  chosen' = chosen
    BY <1>2 DEF RemoveTransferUI
  <1> QED
    BY <1>1, <1>2 DEF Next, vars

\* Of the files of one page and of one stem, one that is not ambiguous is alone.
LEMMA Unambiguous ==
    ASSUME chosen \in Cases, NEW f \in Files, NEW g \in Files,
           from[f] = from[g], Stem(f) = Stem(g), ~Ambiguous(f)
    PROVE  f = g
  BY DEF Ambiguous, Confused, Stem

-------------------------------------------------------------------------------
(* Maps and sets.                                                              *)

LEMMA MaxOf ==
    ASSUME NEW S, S \subseteq Nat, S # {}, HasMax(S)
    PROVE  /\ Max(S) \in S
           /\ \A n \in Nat : HasMax(S \cup {n})
  <1>1. PICK i \in S : \A j \in S : j <= i
    BY DEF HasMax
  <1>2. Max(S) \in S
    <2>1. \A j \in S : i >= j
      BY <1>1
    <2> QED
      BY <2>1 DEF Max
  <1>3. ASSUME NEW n \in Nat
        PROVE  HasMax(S \cup {n})
    <2>1. CASE n <= i
      BY <2>1, <1>1 DEF HasMax
    <2>2. CASE i <= n
      <3>1. \A j \in S \cup {n} : j <= n
        BY <2>2, <1>1
      <3> QED
        BY <3>1 DEF HasMax
    <2> QED
      BY <2>1, <2>2, <1>1
  <1> QED
    BY <1>2, <1>3

LEMMA MaxOfAdded ==
    ASSUME NEW S, S \subseteq Nat, HasMax(S), NEW n \in Nat
    PROVE  /\ HasMax(S \cup {n})
           /\ Max(S \cup {n}) \in Nat
  <1>1. HasMax(S \cup {n})
    <2>1. CASE S = {}
      BY <2>1 DEF HasMax
    <2>2. CASE S # {}
      BY <2>2, MaxOf
    <2> QED
      BY <2>1, <2>2
  <1> QED
    BY <1>1, MaxOf

\* The greatest of two confirmations.
LEMMA MaxOfTwo ==
    ASSUME NEW m \in Nat, NEW n \in Nat
    PROVE  Max({m, n}) \in Nat
  <1>1. HasMax({m})
    BY DEF HasMax
  <1>2. {m} \cup {n} = {m, n}
    OBVIOUS
  <1> QED
    BY <1>1, <1>2, MaxOfAdded

\* As many indices below n as there are, are all of them.
LEMMA AllIndices ==
    ASSUME NEW n \in Nat \ {0}, NEW S, S \subseteq 0..(n - 1), Cardinality(S) = n
    PROVE  S = 0..(n - 1)
  <1>1. IsFiniteSet(0..(n - 1)) /\ Cardinality(0..(n - 1)) = n
    BY FS_Interval
  <1> QED
    BY <1>1, FS_Subset
-------------------------------------------------------------------------------
(* The messages under way.                                                     *)

LEMMA TakeWire ==
    ASSUME TypeOK, NEW p \in Pages, NEW c \in Files, wire[c][p] # <<>>
    PROVE  /\ Rest(p, c) \in [Files -> [Pages -> Seq(Messages)]]
           /\ Head(wire[c][p]) \in Messages /\ Head(wire[c][p]) \in Range(wire[c][p])
           /\ \A d \in Files, q \in Pages : Range(Rest(p, c)[d][q]) \subseteq Range(wire[d][q])
  <1> DEFINE s == wire[c][p]
  <1>1. s \in Seq(Messages) /\ s # <<>>
    BY DEF TypeOK
  <1>2. Tail(s) \in Seq(Messages) /\ Head(s) \in Messages /\ Head(s) = s[1] /\ 1 \in DOMAIN s
    BY <1>1
  <1>3. Range(Tail(s)) \subseteq Range(s)
    <2>1. \A i \in DOMAIN Tail(s) : Tail(s)[i] = s[i + 1] /\ i + 1 \in DOMAIN s
      BY <1>1
    <2> QED
      BY <2>1 DEF Range
  <1>4. Rest(p, c) = [wire EXCEPT ![c][p] = Tail(s)]
    BY DEF Rest
  <1>5. wire \in [Files -> [Pages -> Seq(Messages)]]
    BY DEF TypeOK
  <1>6. Head(s) \in Range(s)
    BY <1>2 DEF Range
  <1> HIDE DEF s
  <1>7. \A d \in Files, q \in Pages :
           Rest(p, c)[d][q] = IF d = c /\ q = p THEN Tail(s) ELSE wire[d][q]
    BY <1>4, <1>5
  <1>8. \A d \in Files, q \in Pages : Range(Rest(p, c)[d][q]) \subseteq Range(wire[d][q])
    BY <1>7, <1>3 DEF s
  <1>9. Rest(p, c) \in [Files -> [Pages -> Seq(Messages)]]
    BY <1>2, <1>4, <1>5
  <1> QED
    BY <1>2, <1>6, <1>8, <1>9 DEF s

LEMMA SendWire ==
    ASSUME NEW w \in [Files -> [Pages -> Seq(Messages)]], NEW c \in Files, NEW p \in Pages,
           NEW m \in Messages
    PROVE  /\ Sends(w, c, p, m) \in [Files -> [Pages -> Seq(Messages)]]
           /\ \A d \in Files, q \in Pages :
                 Range(Sends(w, c, p, m)[d][q])
                    \subseteq Range(w[d][q]) \cup IF d = c /\ q = Other(p) THEN {m} ELSE {}
  <1>1. Other(p) \in Pages
    BY TwoPages
  <1> DEFINE s == w[c][Other(p)]
  <1>2. s \in Seq(Messages) /\ Append(s, m) \in Seq(Messages)
    BY <1>1
  <1>3. Range(Append(s, m)) \subseteq Range(s) \cup {m}
    <2>1. \A i \in DOMAIN Append(s, m) :
             Append(s, m)[i] = m \/ (i \in DOMAIN s /\ Append(s, m)[i] = s[i])
      BY <1>2
    <2> QED
      BY <2>1 DEF Range
  <1>4. Sends(w, c, p, m) = [w EXCEPT ![c][Other(p)] = Append(s, m)]
    BY DEF Sends
  <1> HIDE DEF s
  <1>5. \A d \in Files, q \in Pages :
           Sends(w, c, p, m)[d][q] = IF d = c /\ q = Other(p) THEN Append(s, m) ELSE w[d][q]
    BY <1>1, <1>4
  <1>6. Sends(w, c, p, m) \in [Files -> [Pages -> Seq(Messages)]]
    BY <1>1, <1>2, <1>4
  <1>7. ASSUME NEW d \in Files, NEW q \in Pages
        PROVE  Range(Sends(w, c, p, m)[d][q])
                  \subseteq Range(w[d][q]) \cup IF d = c /\ q = Other(p) THEN {m} ELSE {}
    BY <1>3, <1>5 DEF s
  <1> QED
    BY <1>6, <1>7

\* What fitted still does, since nothing is unsaved.
LEMMA FitsKept ==
    ASSUME chosen' = chosen, \A g \in Files : Saved(g) => Saved(g)',
           NEW p \in Pages, NEW c \in Files, NEW m \in Messages, Fits(p, c, m)
    PROVE  Fits(p, c, m)'
  <1>1. Announced(p, c, m)' /\ Numbered(m)'
    BY Constant DEF Fits, Announced, Numbered, Messages
  <1>2. Acknowledged(p, c, m)'
    BY Constant DEF Fits, Acknowledged
  <1> QED
    BY <1>1, <1>2 DEF Fits

-------------------------------------------------------------------------------
(* The senders.                                                                *)

\* What TypeOK and ReadingInv say of the entry s of f.
Reads(f, s) ==
    /\ s \in Senders /\ s.sent <= size[f]
    /\ \A c, d \in s.reading : c = d
    /\ \A c \in s.reading : Stem(c) = Stem(f) /\ s.sent < size[f]

LEMMA ReadsNow ==
    ASSUME SendersOK, ReadingInv, NEW f \in Files
    PROVE  Reads(f, sender[f])
  BY DEF SendersOK, ReadingInv, Reads

\* The entries of the files may change one by one.
LEMMA ReadsNext ==
    ASSUME chosen' = chosen, DOMAIN sender' = Files, sender' = [f \in Files |-> sender'[f]],
           \A f \in Files : Reads(f, sender'[f])
    PROVE  SendersOK' /\ ReadingInv'
  <1>1. sender' \in [Files -> Senders]
    BY DEF Reads
  <1>2. \A f \in Files : /\ sender'[f].sent <= size'[f]
                         /\ \A c, d \in sender'[f].reading : c = d
    BY Constant DEF Reads
  <1>3. \A f \in Files : \A c \in sender'[f].reading :
           Stem(c)' = Stem(f)' /\ sender'[f].sent < size'[f]
    <2> TAKE f \in Files
    <2> TAKE c \in sender'[f].reading
    <2>1. c \in Files
      BY <1>1 DEF Senders
    <2> QED
      BY <2>1, Constant DEF Reads
  <1> QED
    BY <1>1, <1>2, <1>3 DEF SendersOK, ReadingInv

LEMMA OneSender ==
    ASSUME SendersOK, ReadingInv, chosen' = chosen, NEW f \in Files, NEW s, Reads(f, s),
           sender' = [sender EXCEPT ![f] = s]
    PROVE  SendersOK' /\ ReadingInv'
  <1>1. \A g \in Files : sender'[g] = IF g = f THEN s ELSE sender[g]
    BY DEF SendersOK
  <1>2. \A g \in Files : Reads(g, sender'[g])
    BY <1>1, ReadsNow
  <1>3. DOMAIN sender' = Files /\ sender' = [g \in Files |-> sender'[g]]
    BY DEF SendersOK
  <1> QED
    BY <1>2, <1>3, ReadsNext

\* The channel found under a file's name has its stem.
LEMMA FoundStem ==
    ASSUME TypeOK, NEW f \in Files, NEW c \in Found(f)
    PROVE  c \in Files /\ Stem(c) = Stem(f) /\ \A d \in Found(f) : d = c
  <1>1. c \in Files /\ c = dataChannels[from[f]][name[f]] /\ name[f] \in DOMAIN dataChannels[from[f]]
    BY DEF Found, TypeOK
  <1>2. from[f] \in Pages
    BY Case DEF TypeOK
  <1>3. Key(from[f], c) = name[f]
    BY <1>1, <1>2 DEF TypeOK, ChannelsOK
  <1>4. Stem(c) = Stem(f)
    BY <1>1, <1>2, <1>3, KeyStem DEF Stem
  <1> QED
    BY <1>1, <1>4 DEF Found

\* sendBlock starts a read of the next block at most.
LEMMA SendBlockReads ==
    ASSUME TypeOK, ReadingInv, NEW f \in Files, NEW lc
    PROVE  Reads(f, SendBlock(f, lc)) /\ SendBlock(f, lc).hist = sender[f].hist
  <1> DEFINE s == sender[f]
  <1>1. Reads(f, s)
    BY ReadsNow DEF TypeOK
  <1> HIDE DEF s
  <1>2. CASE SendBlock(f, lc) = s
    BY <1>1, <1>2 DEF s
  <1>3. CASE MayRead(f, lc) /\ SendBlock(f, lc) = [s EXCEPT !.reading = Found(f)]
    <2>1. s.sent < size[f]
      BY <1>3 DEF MayRead, s
    <2>2. Found(f) \subseteq Files /\ \A c, d \in Found(f) : c = d /\ Stem(c) = Stem(f)
      BY FoundStem
    <2> DEFINE n == [s EXCEPT !.reading = Found(f)]
    <2>3. n \in Senders /\ n.sent = s.sent /\ n.reading = Found(f) /\ n.hist = s.hist
      BY <1>1, <2>2 DEF Reads, Senders
    <2> HIDE DEF n
    <2>4. Reads(f, n)
      BY <1>1, <2>1, <2>2, <2>3 DEF Reads
    <2> QED
      BY <1>3, <2>3, <2>4 DEF n, s
  <1>4. CASE \E b \in BOOLEAN : SendBlock(f, lc) = [s EXCEPT !.waitingAck = b]
    <2>1. PICK b \in BOOLEAN : SendBlock(f, lc) = [s EXCEPT !.waitingAck = b]
      BY <1>4
    <2> DEFINE n == [s EXCEPT !.waitingAck = b]
    <2>2. n \in Senders /\ n.sent = s.sent /\ n.reading = s.reading /\ n.hist = s.hist
      BY <1>1 DEF Reads, Senders
    <2> HIDE DEF n
    <2>3. Reads(f, n)
      BY <1>1, <2>2 DEF Reads
    <2> QED
      BY <2>1, <2>2, <2>3 DEF n, s
  <1>5. s.waitingAck \in BOOLEAN
    BY <1>1 DEF Reads, Senders
  <1>6. \/ SendBlock(f, lc) = [s EXCEPT !.reading = Found(f)] /\ MayRead(f, lc)
        \/ SendBlock(f, lc) = s
        \/ \E b \in BOOLEAN : SendBlock(f, lc) = [s EXCEPT !.waitingAck = b]
    BY <1>5 DEF SendBlock, s
  <1> QED
    BY <1>2, <1>3, <1>4, <1>6
\* An entry that changes in what is not about reading reads as before.
LEMMA SameReading ==
    ASSUME NEW f \in Files, NEW s, Reads(f, s), NEW n \in Senders,
           n.sent = s.sent, n.reading = s.reading
    PROVE  Reads(f, n)
  BY DEF Reads

LEMMA SendersStep ==
    ASSUME IInv, [Next]_vars
    PROVE  SendersOK' /\ ReadingInv'
  <1>1. SendersOK /\ ReadingInv /\ chosen' = chosen /\ chosen \in Cases
    BY NextConstant DEF IInv, TypeOK
  <1>2. CASE UNCHANGED sender
    <2>1. DOMAIN sender' = Files /\ sender' = [f \in Files |-> sender'[f]]
      BY <1>1, <1>2 DEF SendersOK
    <2> QED
      BY <1>1, <1>2, <2>1, ReadsNow, ReadsNext
  <1>3. ASSUME NEW f \in Files, NEW n \in Senders, sender' = [sender EXCEPT ![f] = n],
               n.sent = sender[f].sent, n.reading = sender[f].reading
        PROVE  SendersOK' /\ ReadingInv'
    BY <1>1, <1>3, ReadsNow, SameReading, OneSender
  <1>4. ASSUME NEW f \in Files
        PROVE  Reads(f, sender[f]) /\ sender[f] \in Senders
    BY <1>1, ReadsNow DEF Reads
  <1>5. ASSUME NEW f \in Files, FileStep(f)
        PROVE  SendersOK' /\ ReadingInv'
    <2> DEFINE s == sender[f]
    <2>0. s \in Senders /\ Reads(f, s)
      BY <1>4
    <2>1. CASE StartTransfer(f)
      <3> DEFINE n == [s EXCEPT !.phase = "hashing"]
      <3>1. n \in Senders /\ n.sent = s.sent /\ n.reading = s.reading
        BY <2>0 DEF Senders
      <3>2. sender' = [sender EXCEPT ![f] = n]
        BY <2>1 DEF StartTransfer
      <3> QED
        BY <3>1, <3>2, <1>3
    <2>2. CASE HashDone(f)
      <3> DEFINE n == [s EXCEPT !.phase = "active"]
      <3>1. n \in Senders /\ n.sent = s.sent /\ n.reading = s.reading
        BY <2>0 DEF Senders
      <3>2. sender' = [sender EXCEPT ![f] = n]
        BY <2>2 DEF HashDone
      <3> QED
        BY <3>1, <3>2, <1>3
    <2>3. ASSUME NEW a \in BOOLEAN, NEW channels, SendV2Head(f, a, channels)
          PROVE  SendersOK' /\ ReadingInv'
      <3> DEFINE n1 == [s EXCEPT !.accepted = TRUE, !.headSent = TRUE, !.task = TRUE]
                 n2 == [s EXCEPT !.accepted = a]
      <3>1. n1 \in Senders /\ n1.sent = s.sent /\ n1.reading = s.reading
        BY <2>0 DEF Senders
      <3>2. n2 \in Senders /\ n2.sent = s.sent /\ n2.reading = s.reading
        BY <2>0 DEF Senders
      <3>3. sender' = [sender EXCEPT ![f] = n1] \/ sender' = [sender EXCEPT ![f] = n2]
        BY <2>3 DEF SendV2Head
      <3> QED
        BY <3>1, <3>2, <3>3, <1>3
    <2>4. CASE DcOpens(f)
      <3>1. s.accepted \in BOOLEAN
        BY <2>0 DEF Senders
      <3> QED
        BY <2>3, <2>4, <3>1 DEF DcOpens
    <2>5. CASE HandleFileAccept(f)
      BY <2>3, <2>5 DEF HandleFileAccept
    <2>6. CASE Wake(f)
      <3> DEFINE b == SendBlock(f, dcLastConfirmed[from[f]][name[f]])
                 n == [b EXCEPT !.task = FALSE]
      <3>1. Reads(f, b)
        BY SendBlockReads DEF IInv
      <3> HIDE DEF b
      <3>2. n \in Senders /\ n.sent = b.sent /\ n.reading = b.reading
        BY <3>1 DEF Reads, Senders
      <3>3. Reads(f, n)
        BY <3>1, <3>2, SameReading
      <3>4. sender' = [sender EXCEPT ![f] = n]
        BY <2>6 DEF Wake, b
      <3> QED
        BY <3>3, <3>4, <1>1, OneSender
    <2>7. CASE ReadDone(f)
      <3>1. PICK c \in s.reading : TRUE
        BY <2>7 DEF ReadDone
      <3>2. s.sent + 1 <= size[f]
        BY <2>0, <3>1, <1>1, Case DEF Reads, Senders
      <3>3. PICK t \in BOOLEAN :
               sender' = [sender EXCEPT ![f] = [s EXCEPT !.reading = {}, !.sent = @ + 1,
                                                         !.phase = "active", !.task = t]]
        <4>1. s.task \in BOOLEAN
          BY <2>0 DEF Senders
        <4> QED
          BY <2>7, <4>1 DEF ReadDone
      <3> DEFINE n == [s EXCEPT !.reading = {}, !.sent = @ + 1, !.phase = "active", !.task = t]
      <3>4. n \in Senders /\ n.sent = s.sent + 1 /\ n.reading = {}
        <4> DEFINE r == [s EXCEPT !.reading = {}, !.sent = @ + 1]
        <4>1. r \in Senders /\ r.sent = s.sent + 1 /\ r.reading = {}
          <5>1. PICK i \in Nat : i = s.sent + 1
            BY <2>0 DEF Senders
          <5>2. r = [s EXCEPT !.reading = {}, !.sent = i]
            BY <5>1
          <5> HIDE DEF r
          <5>3. r \in Senders /\ r.sent = i /\ r.reading = {}
            BY <2>0, <5>2 DEF Senders
          <5> QED
            BY <5>1, <5>3
        <4>2. n = [r EXCEPT !.phase = "active", !.task = t]
          OBVIOUS
        <4> HIDE DEF r, n
        <4> QED
          BY <4>1, <4>2 DEF Senders
      <3>5. sender' = [sender EXCEPT ![f] = n]
        BY <3>3
      <3> HIDE DEF n
      <3>6. Reads(f, n)
        BY <3>2, <3>4 DEF Reads
      <3> QED
        BY <3>5, <3>6, <1>1, OneSender
    <2>8. CASE AckTimeout(f)
      <3> DEFINE n == [s EXCEPT !.waitingAck = FALSE, !.hist = @ \cup {"failed"}]
      <3>1. n \in Senders /\ n.sent = s.sent /\ n.reading = s.reading
        BY <2>0 DEF Senders
      <3>2. sender' = [sender EXCEPT ![f] = n]
        BY <2>8 DEF AckTimeout
      <3> QED
        BY <3>1, <3>2, <1>3
    <2>9. ASSUME NEW p \in Pages, Deliver(p, f)
          PROVE  SendersOK' /\ ReadingInv'
      <3>1. CASE Unheard(p, f) \/ RecvV2Head(p, f) \/ RecvBlock(p, f)
        BY <3>1, <1>2 DEF Unheard, RecvV2Head, RecvBlock
      <3>2. CASE HandleFlowAdv(p, f)
        <4>1. PICK lc : sender' = [g \in Files |-> IF g \in Outgoing(p, Key(p, f))
                                                   THEN SendBlock(g, lc) ELSE sender[g]]
          BY <3>2 DEF HandleFlowAdv
        <4>2. \A g \in Files : Reads(g, sender'[g])
          BY <4>1, <1>4, SendBlockReads DEF IInv
        <4>3. DOMAIN sender' = Files /\ sender' = [g \in Files |-> sender'[g]]
          BY <4>1
        <4> QED
          BY <4>2, <4>3, <1>1, ReadsNext
      <3>3. CASE HandleFileReceived(p, f)
        <4>1. CASE UNCHANGED sender
          BY <4>1, <1>2
        <4>2. ASSUME NEW g \in Files, NEW h \in {"complete", "failed"},
                     sender' = [sender EXCEPT ![g].waitingAck = FALSE, ![g].hist = @ \cup {h}]
              PROVE  SendersOK' /\ ReadingInv'
          <5> DEFINE n == [sender[g] EXCEPT !.waitingAck = FALSE, !.hist = @ \cup {h}]
          <5>1. n \in Senders /\ n.sent = sender[g].sent /\ n.reading = sender[g].reading
            <6>1. sender[g] \in Senders
              BY <1>4
            <6>2. sender[g].hist \cup {h} \in SUBSET {"complete", "failed"}
              BY <6>1 DEF Senders
            <6> QED
              BY <6>1, <6>2 DEF Senders
          <5>2. sender' = [sender EXCEPT ![g] = n]
            BY <4>2
          <5> QED
            BY <5>1, <5>2, <1>3
        <4> QED
          BY <3>3, <4>1, <4>2 DEF HandleFileReceived, Outgoing
      <3> QED
        BY <2>9, <3>1, <3>2, <3>3 DEF Deliver
    <2> QED
      BY <1>5, <2>1, <2>2, <2>4, <2>5, <2>6, <2>7, <2>8, <2>9 DEF FileStep
  <1>6. ASSUME NEW p \in Pages, NEW k \in Keys, RemoveTransferUI(p, k)
        PROVE  SendersOK' /\ ReadingInv'
    <2>1. ASSUME NEW f \in Files
          PROVE  Reads(f, sender'[f])
      <3> DEFINE s == sender[f]
                 n1 == [s EXCEPT !.accepted = FALSE, !.phase = "removed"]
                 n2 == [s EXCEPT !.accepted = FALSE]
      <3>0. s \in Senders
        BY <1>4
      <3>1. n1 \in Senders /\ n1.sent = s.sent /\ n1.reading = s.reading
        BY <3>0 DEF Senders
      <3>2. n2 \in Senders /\ n2.sent = s.sent /\ n2.reading = s.reading
        BY <3>0 DEF Senders
      <3>3. sender'[f] \in {s, n1, n2}
        BY <1>6 DEF RemoveTransferUI
      <3> HIDE DEF n1, n2
      <3> QED
        BY <3>1, <3>2, <3>3, <1>4, SameReading
    <2>2. DOMAIN sender' = Files /\ sender' = [f \in Files |-> sender'[f]]
      BY <1>6 DEF RemoveTransferUI
    <2> QED
      BY <2>1, <2>2, <1>1, ReadsNext
  <1>7. CASE UNCHANGED vars
    BY <1>7, <1>2 DEF vars
  <1> QED
    BY <1>5, <1>6, <1>7 DEF Next
-------------------------------------------------------------------------------
(* The maps of a page.                                                         *)

\* A channel listed under its key belongs there; one that is deleted leaves the
\* others where they are.
LEMMA ListChannel ==
    ASSUME TypeOK, chosen' = chosen, NEW p \in Pages, NEW f \in Files,
           dataChannels' = [dataChannels EXCEPT ![p] = Set(@, Key(p, f), f)]
    PROVE  ChannelsOK'
  <1>1. DOMAIN dataChannels = Pages
    BY DEF TypeOK, ChannelsOK
  <1>2. Key(p, f) \in Keys
    BY Case DEF TypeOK
  <1>3. DOMAIN dataChannels' = Pages
    BY <1>1
  <1>4. ASSUME NEW q \in Pages
        PROVE  /\ DOMAIN dataChannels'[q] \subseteq Keys
               /\ \A k \in DOMAIN dataChannels'[q] :
                     dataChannels'[q][k] \in Files /\ Key(q, dataChannels'[q][k]) = k
    <2>1. CASE q = p
      <3>1. dataChannels'[q] = Set(dataChannels[p], Key(p, f), f)
        BY <1>1, <2>1
      <3>2. /\ DOMAIN dataChannels'[q] = DOMAIN dataChannels[p] \cup {Key(p, f)}
            /\ \A k \in DOMAIN dataChannels'[q] :
                  dataChannels'[q][k] = IF k = Key(p, f) THEN f ELSE dataChannels[p][k]
        BY <3>1 DEF Set
      <3>3. ASSUME NEW k \in DOMAIN dataChannels'[q]
            PROVE  dataChannels'[q][k] \in Files /\ Key(p, dataChannels'[q][k]) = k
        <4>1. CASE k = Key(p, f)
          BY <4>1, <3>2
        <4>2. CASE k # Key(p, f)
          <5>1. k \in DOMAIN dataChannels[p] /\ dataChannels'[q][k] = dataChannels[p][k]
            BY <3>2, <4>2
          <5> QED
            BY <5>1 DEF TypeOK, ChannelsOK
        <4> QED
          BY <4>1, <4>2
      <3>4. DOMAIN dataChannels'[q] \subseteq Keys
        BY <3>2, <1>2 DEF TypeOK, ChannelsOK
      <3> QED
        BY <2>1, <3>3, <3>4
    <2>2. CASE q # p
      BY <1>1, <2>2 DEF TypeOK, ChannelsOK
    <2> QED
      BY <2>1, <2>2
  <1> QED
    BY <1>3, <1>4, Constant DEF ChannelsOK

LEMMA ChannelsStep ==
    ASSUME IInv, [Next]_vars
    PROVE  ChannelsOK'
  <1>1. TypeOK /\ ChannelsOK /\ chosen' = chosen
    BY NextConstant DEF IInv, TypeOK
  <1>2. CASE UNCHANGED dataChannels
    BY <1>1, <1>2, Constant DEF ChannelsOK
  <1>3. ASSUME NEW f \in Files, FileStep(f)
        PROVE  ChannelsOK'
    <2>0. from[f] \in Pages /\ Other(from[f]) \in Pages /\ Other(from[f]) # from[f]
      BY <1>1, Case, TwoPages DEF TypeOK
    <2>1. CASE StartTransfer(f)
      <3>1. Key(from[f], f) = name[f]
        BY DEF Key
      <3> QED
        BY <2>0, <2>1, <3>1, <1>1, ListChannel DEF StartTransfer
    <2>2. CASE DcOpens(f)
      <3>1. Key(Other(from[f]), f) = LabelKey(name[f])
        BY <2>0 DEF Key
      <3> QED
        BY <2>0, <2>2, <3>1, <1>1, ListChannel DEF DcOpens, Listed
    <2>3. CASE HashDone(f) \/ HandleFileAccept(f) \/ Wake(f) \/ ReadDone(f) \/ AckTimeout(f)
      BY <2>3, <1>2 DEF HashDone, HandleFileAccept, Wake, ReadDone, AckTimeout
    <2>4. ASSUME NEW p \in Pages, Deliver(p, f)
          PROVE  ChannelsOK'
      BY <2>4, <1>2 DEF Deliver, Unheard, RecvV2Head, RecvBlock, HandleFlowAdv,
                        HandleFileReceived
    <2> QED
      BY <1>3, <2>1, <2>2, <2>3, <2>4 DEF FileStep
  <1>4. ASSUME NEW p \in Pages, NEW k \in Keys, RemoveTransferUI(p, k)
        PROVE  ChannelsOK'
    <2>1. DOMAIN dataChannels' = Pages
      BY <1>1, <1>4 DEF RemoveTransferUI, ChannelsOK
    <2>2. ASSUME NEW q \in Pages
          PROVE  /\ DOMAIN dataChannels'[q] \subseteq DOMAIN dataChannels[q]
                 /\ \A x \in DOMAIN dataChannels'[q] : dataChannels'[q][x] = dataChannels[q][x]
      <3>1. dataChannels'[q] = dataChannels[q] \/ dataChannels'[q] = Delete(dataChannels[q], k)
        BY <1>1, <1>4 DEF RemoveTransferUI, ChannelsOK
      <3>2. /\ DOMAIN Delete(dataChannels[q], k) \subseteq DOMAIN dataChannels[q]
            /\ \A x \in DOMAIN Delete(dataChannels[q], k) :
                  Delete(dataChannels[q], k)[x] = dataChannels[q][x]
        BY DEF Delete, Restrict
      <3> QED
        BY <3>1, <3>2
    <2> QED
      BY <1>1, <2>1, <2>2, Constant DEF ChannelsOK
  <1>5. CASE UNCHANGED vars
    BY <1>5, <1>2 DEF vars
  <1> QED
    BY <1>3, <1>4, <1>5 DEF Next

\* An entry r of a page under key k: the part of BuffersOK and HeldInv about it.
Held(p, k, r) ==
    /\ r \in [as : Files, blocks : [DOMAIN r.blocks -> Files], received : Nat]
    /\ DOMAIN r.blocks \subseteq Nat /\ from[r.as] = Other(p)
    /\ Stem(r.as) = LabelKey(k) /\ HasMax(DOMAIN r.blocks)
    /\ \A i \in DOMAIN r.blocks :
          /\ from[r.blocks[i]] = Other(p) /\ Stem(r.blocks[i]) = LabelKey(k)
          /\ i < size[r.blocks[i]]

LEMMA HeldNow ==
    ASSUME BuffersOK, HeldInv, NEW p \in Pages, NEW k \in DOMAIN receiveBuffers[p]
    PROVE  Held(p, k, receiveBuffers[p][k])
  BY DEF BuffersOK, HeldInv, Held

\* The entries of a page may change one by one.
LEMMA HeldNext ==
    ASSUME chosen' = chosen, DOMAIN receiveBuffers' = Pages,
           \A p \in Pages : DOMAIN receiveBuffers'[p] \subseteq Keys,
           \A p \in Pages : \A k \in DOMAIN receiveBuffers'[p] :
              Held(p, k, receiveBuffers'[p][k])
    PROVE  BuffersOK' /\ HeldInv'
  <1> SUFFICES ASSUME NEW p \in Pages, NEW k \in DOMAIN receiveBuffers'[p], NEW r,
                      r = receiveBuffers'[p][k]
               PROVE  /\ r \in [as : Files, blocks : [DOMAIN r.blocks -> Files], received : Nat]
                      /\ DOMAIN r.blocks \subseteq Nat /\ from'[r.as] = Other(p)
                      /\ Stem(r.as)' = LabelKey(k) /\ HasMax(DOMAIN r.blocks)
                      /\ \A i \in DOMAIN r.blocks :
                            /\ from'[r.blocks[i]] = Other(p) /\ Stem(r.blocks[i])' = LabelKey(k)
                            /\ i < size'[r.blocks[i]]
    BY Constant DEF BuffersOK, HeldInv
  <1>1. Held(p, k, r)
    OBVIOUS
  <1>2. r.as \in Files /\ \A i \in DOMAIN r.blocks : r.blocks[i] \in Files
    BY <1>1 DEF Held
  <1> QED
    BY <1>1, <1>2, Constant DEF Held
\* A message that a page takes is one that fits.
LEMMA Taken ==
    ASSUME IInv, NEW p \in Pages, NEW c \in Files, NEW y, Takes(p, c, y)
    PROVE  /\ wire[c][p] # <<>> /\ Head(wire[c][p]) \in Messages
           /\ Head(wire[c][p]).type = y /\ Fits(p, c, Head(wire[c][p]))
  <1>1. wire[c][p] # <<>> /\ Head(wire[c][p]).type = y
    BY DEF Takes
  <1>2. Head(wire[c][p]) \in Messages /\ Head(wire[c][p]) \in Range(wire[c][p])
    BY <1>1, TakeWire DEF IInv
  <1> QED
    BY <1>1, <1>2 DEF IInv, WireInv

\* An entry with one more block is as it should be, and whole it is its file.
LEMMA StoredHeld ==
    ASSUME IInv, NEW p \in Pages, NEW c \in Files, NEW k, k = Key(p, c),
           k \in DOMAIN receiveBuffers[p],
           NEW m \in Messages, m.type = "block", Fits(p, c, m)
    PROVE  /\ Held(p, k, Stored(p, k, m)) /\ Max(DOMAIN Stored(p, k, m).blocks) \in Nat
           /\ LET r == Stored(p, k, m)
              IN  IsWhole(r) /\ ~Ambiguous(r.as) => <<r.as, Assembled(r)>> = Whole(r.as)
  <1> DEFINE old == receiveBuffers[p][k]
             r == Stored(p, k, m)
  <1>1. Held(p, k, old) /\ chosen \in Cases
    BY HeldNow DEF IInv, TypeOK
  <1>2. /\ m.file \in Files /\ m.idx \in Nat /\ m.idx < size[m.file]
        /\ from[m.file] = Other(p) /\ Stem(m.file) = LabelKey(k)
    BY KeyStem DEF Messages, Fits, Announced, Numbered
  <1> HIDE DEF old
  <1>3. /\ r.as = old.as /\ r.received = old.received + 1
        /\ r.blocks = Set(old.blocks, m.idx, m.file)
        /\ r = [as |-> r.as, blocks |-> r.blocks, received |-> r.received]
    <2> DEFINE b == Set(old.blocks, m.idx, m.file)
               n == old.received + 1
               B == [DOMAIN old.blocks -> Files]
    <2>1. old \in [as : Files, blocks : B, received : Nat]
      BY <1>1 DEF Held
    <2>2. r = [old EXCEPT !.blocks = b, !.received = n]
      BY DEF Stored, old
    <2> HIDE DEF b, n, B, r
    <2>3. /\ r.as = old.as /\ r.received = n /\ r.blocks = b
          /\ r = [as |-> r.as, blocks |-> r.blocks, received |-> r.received]
      BY <2>1, <2>2
    <2> QED
      BY <2>3 DEF b, n
  <1> HIDE DEF r
  <1>4. /\ DOMAIN r.blocks = DOMAIN old.blocks \cup {m.idx}
        /\ \A i \in DOMAIN r.blocks :
              r.blocks[i] = IF i = m.idx THEN m.file ELSE old.blocks[i]
        /\ r.blocks = [i \in DOMAIN r.blocks |-> r.blocks[i]]
    BY <1>3 DEF Set
  <1>5. DOMAIN r.blocks \subseteq Nat
    BY <1>1, <1>2, <1>4 DEF Held
  <1>6. HasMax(DOMAIN r.blocks) /\ Max(DOMAIN r.blocks) \in Nat
    BY <1>1, <1>2, <1>4, MaxOfAdded DEF Held
  <1>7. ASSUME NEW i \in DOMAIN r.blocks
        PROVE  /\ r.blocks[i] \in Files /\ from[r.blocks[i]] = Other(p)
               /\ Stem(r.blocks[i]) = LabelKey(k) /\ i < size[r.blocks[i]]
    <2>1. CASE i = m.idx
      BY <2>1, <1>2, <1>4
    <2>2. CASE i # m.idx
      <3>1. i \in DOMAIN old.blocks /\ r.blocks[i] = old.blocks[i]
        BY <2>2, <1>4
      <3> QED
        BY <3>1, <1>1 DEF Held
    <2> QED
      BY <2>1, <2>2
  <1>8. r \in [as : Files, blocks : [DOMAIN r.blocks -> Files], received : Nat]
    <2>1. r.as \in Files /\ r.received \in Nat
      BY <1>1, <1>3 DEF Held
    <2>2. r.blocks \in [DOMAIN r.blocks -> Files]
      BY <1>4, <1>7
    <2> QED
      BY <2>1, <2>2, <1>3
  <1>9. from[r.as] = Other(p) /\ Stem(r.as) = LabelKey(k)
    BY <1>1, <1>3 DEF Held
  <1>10. Held(p, k, r)
    BY <1>5, <1>6, <1>7, <1>8, <1>9 DEF Held
  <1>11. ASSUME IsWhole(r), ~Ambiguous(r.as)
         PROVE  <<r.as, Assembled(r)>> = Whole(r.as)
    <2>1. r.as \in Files
      BY <1>8
    <2>2. \A i \in DOMAIN r.blocks : r.blocks[i] = r.as
      BY <2>1, <1>1, <1>7, <1>9, <1>11, Unambiguous
    <2>3. size[r.as] \in Nat \ {0} /\ DOMAIN r.blocks \subseteq 0..(size[r.as] - 1)
      BY <2>1, <2>2, <1>1, <1>5, <1>7, Case
    <2>4. DOMAIN r.blocks = 0..(size[r.as] - 1)
      BY <2>3, <1>11, AllIndices DEF IsWhole
    <2>5. Assembled(r) = [i \in 0..(size[r.as] - 1) |-> r.as]
      BY <2>2, <2>4 DEF Assembled, Restrict
    <2> QED
      BY <2>5 DEF Whole
  <1> QED
    BY <1>6, <1>10, <1>11 DEF r

\* A header makes an empty entry.
LEMMA EmptyHeld ==
    ASSUME IInv, NEW p \in Pages, NEW c \in Files,
           NEW m \in Messages, m.type = "head", Fits(p, c, m)
    PROVE  Held(p, Key(p, c), [as |-> m.file, blocks |-> <<>>, received |-> 0])
  <1>1. m.file \in Files /\ from[m.file] = Other(p) /\ Stem(m.file) = LabelKey(Key(p, c))
    BY KeyStem DEF Messages, Fits, Announced
  <1>2. DOMAIN <<>> = {} /\ <<>> \in [DOMAIN <<>> -> Files] /\ HasMax({})
    BY DEF HasMax
  <1> QED
    BY <1>1, <1>2 DEF Held

LEMMA BuffersStep ==
    ASSUME IInv, [Next]_vars
    PROVE  BuffersOK' /\ HeldInv'
  <1>1. TypeOK /\ BuffersOK /\ HeldInv /\ chosen' = chosen
    BY NextConstant DEF IInv, TypeOK
  <1>2. ASSUME UNCHANGED receiveBuffers
        PROVE  BuffersOK' /\ HeldInv'
    BY <1>1, <1>2, HeldNow, HeldNext DEF BuffersOK
  <1>3. ASSUME NEW p \in Pages, NEW b, receiveBuffers' = [receiveBuffers EXCEPT ![p] = b],
               DOMAIN b \subseteq Keys, \A k \in DOMAIN b : Held(p, k, b[k])
        PROVE  BuffersOK' /\ HeldInv'
    <2>1. \A q \in Pages : receiveBuffers'[q] = IF q = p THEN b ELSE receiveBuffers[q]
      BY <1>1, <1>3 DEF BuffersOK
    <2>2. DOMAIN receiveBuffers' = Pages
      BY <1>1, <1>3 DEF BuffersOK
    <2>3. \A q \in Pages : /\ DOMAIN receiveBuffers'[q] \subseteq Keys
                           /\ \A k \in DOMAIN receiveBuffers'[q] :
                                 Held(q, k, receiveBuffers'[q][k])
      BY <1>1, <1>3, <2>1, HeldNow DEF BuffersOK
    <2> QED
      BY <1>1, <2>2, <2>3, HeldNext
  <1>4. ASSUME NEW p \in Pages, NEW k \in Keys, NEW r, Held(p, k, r),
               receiveBuffers' = [receiveBuffers EXCEPT ![p] = Set(@, k, r)]
        PROVE  BuffersOK' /\ HeldInv'
    <2> DEFINE b == Set(receiveBuffers[p], k, r)
    <2>1. /\ DOMAIN b = DOMAIN receiveBuffers[p] \cup {k}
          /\ \A x \in DOMAIN b : b[x] = IF x = k THEN r ELSE receiveBuffers[p][x]
      BY DEF Set
    <2>2. receiveBuffers' = [receiveBuffers EXCEPT ![p] = b]
      BY <1>4
    <2> HIDE DEF b
    <2>3. DOMAIN b \subseteq Keys
      BY <2>1, <1>1 DEF BuffersOK
    <2>4. ASSUME NEW x \in DOMAIN b
          PROVE  Held(p, x, b[x])
      <3>1. CASE x = k
        BY <3>1, <2>1, <1>4
      <3>2. CASE x # k
        <4>1. x \in DOMAIN receiveBuffers[p] /\ b[x] = receiveBuffers[p][x]
          BY <3>2, <2>1
        <4> QED
          BY <4>1, <1>1, HeldNow
      <3> QED
        BY <3>1, <3>2
    <2> QED
      BY <2>2, <2>3, <2>4, <1>3
  <1>5. ASSUME NEW p \in Pages, NEW k,
               receiveBuffers' = [receiveBuffers EXCEPT ![p] = Delete(@, k)]
        PROVE  BuffersOK' /\ HeldInv'
    <2> DEFINE b == Delete(receiveBuffers[p], k)
    <2>1. /\ DOMAIN b = DOMAIN receiveBuffers[p] \ {k}
          /\ \A x \in DOMAIN b : b[x] = receiveBuffers[p][x]
      BY DEF Delete, Restrict
    <2>2. receiveBuffers' = [receiveBuffers EXCEPT ![p] = b]
      BY <1>5
    <2> HIDE DEF b
    <2>3. DOMAIN b \subseteq Keys
      BY <2>1, <1>1 DEF BuffersOK
    <2>4. \A x \in DOMAIN b : Held(p, x, b[x])
      BY <2>1, <1>1, HeldNow
    <2> QED
      BY <2>2, <2>3, <2>4, <1>3
  <1>6. ASSUME NEW f \in Files, FileStep(f)
        PROVE  BuffersOK' /\ HeldInv'
    <2>1. CASE StartTransfer(f) \/ HashDone(f) \/ DcOpens(f) \/ HandleFileAccept(f)
      BY <2>1, <1>2 DEF StartTransfer, HashDone, DcOpens, HandleFileAccept, receiverVars
    <2>2. CASE Wake(f) \/ ReadDone(f) \/ AckTimeout(f)
      BY <2>2, <1>2 DEF Wake, ReadDone, AckTimeout, receiverVars
    <2>3. ASSUME NEW p \in Pages, Deliver(p, f)
          PROVE  BuffersOK' /\ HeldInv'
      <3>0. Key(p, f) \in Keys
        BY <1>1, Case DEF TypeOK
      <3>1. CASE Unheard(p, f) \/ HandleFlowAdv(p, f) \/ HandleFileReceived(p, f)
        BY <3>1, <1>2 DEF Unheard, HandleFlowAdv, HandleFileReceived, receiverVars
      <3>2. CASE RecvV2Head(p, f)
        <4> DEFINE m == Head(wire[f][p])
                   r == [as |-> m.file, blocks |-> <<>>, received |-> 0]
        <4>1. Held(p, Key(p, f), r)
          BY <3>2, Taken, EmptyHeld DEF RecvV2Head
        <4>2. CASE Key(p, f) \in DOMAIN receiveBuffers[p]
          <5>1. receiveBuffers' = [receiveBuffers EXCEPT ![p] = receiveBuffers[p]]
            BY <3>2, <4>2 DEF RecvV2Head
          <5> QED
            BY <5>1, <1>1, <1>3, HeldNow DEF BuffersOK
        <4>3. CASE Key(p, f) \notin DOMAIN receiveBuffers[p]
          <5>1. receiveBuffers' = [receiveBuffers EXCEPT ![p] = Set(@, Key(p, f), r)]
            BY <3>2, <4>3 DEF RecvV2Head
          <5> HIDE DEF r
          <5> QED
            BY <5>1, <4>1, <3>0, <1>4
        <4> QED
          BY <4>2, <4>3
      <3>3. CASE RecvBlock(p, f)
        <4> DEFINE k == Key(p, f)
                   r == Stored(p, k, Head(wire[f][p]))
        <4>1. k \in DOMAIN receiveBuffers[p] => Held(p, k, r)
          BY <3>3, Taken, StoredHeld DEF RecvBlock
        <4>2. \/ UNCHANGED receiveBuffers
              \/ /\ k \in DOMAIN receiveBuffers[p]
                 /\ receiveBuffers' = [receiveBuffers EXCEPT ![p] = Set(@, k, r)]
              \/ receiveBuffers' = [receiveBuffers EXCEPT ![p] = Delete(@, k)]
          BY <3>3 DEF RecvBlock, receiverVars
        <4> HIDE DEF k, r
        <4>3. k \in Keys
          BY <3>0 DEF k
        <4> QED
          BY <4>1, <4>2, <4>3, <1>2, <1>4, <1>5
      <3> QED
        BY <2>3, <3>1, <3>2, <3>3 DEF Deliver
    <2> QED
      BY <1>6, <2>1, <2>2, <2>3 DEF FileStep
  <1>7. ASSUME NEW p \in Pages, NEW k \in Keys, RemoveTransferUI(p, k)
        PROVE  BuffersOK' /\ HeldInv'
    BY <1>7, <1>5 DEF RemoveTransferUI
  <1>8. CASE UNCHANGED vars
    BY <1>8, <1>2 DEF vars, receiverVars
  <1> QED
    BY <1>6, <1>7, <1>8 DEF Next
-------------------------------------------------------------------------------
(* What is saved.                                                              *)

\* The file that a whole entry is saved as.
LEMMA SavesItself ==
    ASSUME IInv, NEW p \in Pages, NEW c \in Files, NEW k, k = Key(p, c), RecvBlock(p, c),
           k \in DOMAIN receiveBuffers[p], NEW r, r = Stored(p, k, Head(wire[c][p])), IsWhole(r)
    PROVE  /\ r.as \in Files /\ from[r.as] = Other(p) /\ Stem(r.as) = Stem(c)
           /\ <<r.as, Assembled(r)>> = Whole(r.as) \/ Ambiguous(r.as)
  <1>1. Held(p, k, r) /\ (~Ambiguous(r.as) => <<r.as, Assembled(r)>> = Whole(r.as))
    BY Taken, StoredHeld DEF RecvBlock
  <1>2. r.as \in Files /\ from[r.as] = Other(p) /\ Stem(r.as) = LabelKey(k)
    BY <1>1 DEF Held
  <1> QED
    BY <1>1, <1>2, KeyStem

LEMMA SavedStep ==
    ASSUME IInv, [Next]_vars
    PROVE  SavedOK' /\ SavedIsItself' /\ \A g \in Files : Saved(g) => Saved(g)'
  <1>1. SavedOK /\ SavedIsItself /\ chosen' = chosen /\ chosen \in Cases
    BY NextConstant DEF IInv, TypeOK
  <1>2. ASSUME UNCHANGED saved
        PROVE  SavedOK' /\ SavedIsItself' /\ \A g \in Files : Saved(g) => Saved(g)'
    <2>1. SavedOK'
      BY <1>1, <1>2 DEF SavedOK
    <2>2. \A g \in Files : Saved(g) => Saved(g)'
      BY <1>1, <1>2, Constant DEF Saved
    <2>3. ASSUME NEW p \in Pages, NEW s \in saved'[p]
          PROVE  s = Whole(s[1])' \/ Ambiguous(s[1])'
      <3>1. s[1] \in Files /\ (s = Whole(s[1]) \/ Ambiguous(s[1]))
        BY <1>1, <1>2 DEF SavedOK, SavedIsItself, Ambiguous
      <3> QED
        BY <1>1, <3>1, Constant
    <2> QED
      BY <2>1, <2>2, <2>3 DEF SavedIsItself, Ambiguous
  <1>3. ASSUME NEW p \in Pages, NEW g \in Files, NEW d,
               saved' = [saved EXCEPT ![p] = @ \cup {<<g, d>>}],
               <<g, d>> = Whole(g) \/ Ambiguous(g)
        PROVE  SavedOK' /\ SavedIsItself' /\ \A h \in Files : Saved(h) => Saved(h)'
    <2>0. /\ DOMAIN saved' = Pages
          /\ \A q \in Pages : saved'[q] = IF q = p THEN saved[q] \cup {<<g, d>>} ELSE saved[q]
      BY <1>1, <1>3 DEF SavedOK
    <2>1. ASSUME NEW q \in Pages, NEW s \in saved'[q]
          PROVE  s[1] \in Files /\ (s = Whole(s[1]) \/ Ambiguous(s[1]))
      <3>1. CASE s \in saved[q]
        BY <1>1, <3>1 DEF SavedOK, SavedIsItself, Ambiguous
      <3>2. CASE s = <<g, d>>
        BY <1>3, <3>2
      <3> QED
        BY <2>0, <3>1, <3>2
    <2>2. SavedOK'
      BY <2>0, <2>1 DEF SavedOK
    <2>3. ASSUME NEW q \in Pages, NEW s \in saved'[q]
          PROVE  s = Whole(s[1])' \/ Ambiguous(s[1])'
      BY <1>1, <2>1, Constant
    <2>4. ASSUME NEW h \in Files, Saved(h)
          PROVE  Saved(h)'
      <3>1. Other(from[h]) \in Pages /\ from' = from /\ Whole(h)' = Whole(h)
        BY <1>1, Case, Constant
      <3> QED
        BY <2>0, <2>4, <3>1 DEF Saved
    <2> QED
      BY <2>2, <2>3, <2>4 DEF SavedIsItself, Ambiguous
  <1>4. ASSUME NEW f \in Files, FileStep(f)
        PROVE  SavedOK' /\ SavedIsItself' /\ \A g \in Files : Saved(g) => Saved(g)'
    <2>1. CASE StartTransfer(f) \/ HashDone(f) \/ DcOpens(f) \/ HandleFileAccept(f)
      BY <2>1, <1>2 DEF StartTransfer, HashDone, DcOpens, HandleFileAccept, receiverVars
    <2>2. CASE Wake(f) \/ ReadDone(f) \/ AckTimeout(f)
      BY <2>2, <1>2 DEF Wake, ReadDone, AckTimeout, receiverVars
    <2>3. ASSUME NEW p \in Pages, Deliver(p, f)
          PROVE  SavedOK' /\ SavedIsItself' /\ \A g \in Files : Saved(g) => Saved(g)'
      <3>1. CASE \/ Unheard(p, f) \/ RecvV2Head(p, f) \/ HandleFlowAdv(p, f)
                 \/ HandleFileReceived(p, f)
        BY <3>1, <1>2 DEF Unheard, RecvV2Head, HandleFlowAdv, HandleFileReceived, receiverVars
      <3>2. CASE RecvBlock(p, f)
        <4> DEFINE k == Key(p, f)
                   r == Stored(p, k, Head(wire[f][p]))
        <4>1. CASE UNCHANGED saved
          BY <4>1, <1>2
        <4>2. CASE /\ k \in DOMAIN receiveBuffers[p] /\ IsWhole(r)
                   /\ saved' = [saved EXCEPT ![p] = @ \cup {<<r.as, Assembled(r)>>}]
          <5>1. r.as \in Files /\ (<<r.as, Assembled(r)>> = Whole(r.as) \/ Ambiguous(r.as))
            BY <3>2, <4>2, SavesItself
          <5> HIDE DEF k, r
          <5> QED
            BY <4>2, <5>1, <1>3
        <4> QED
          BY <3>2, <4>1, <4>2 DEF RecvBlock, receiverVars
      <3> QED
        BY <2>3, <3>1, <3>2 DEF Deliver
    <2> QED
      BY <1>4, <2>1, <2>2, <2>3 DEF FileStep
  <1>5. ASSUME NEW p \in Pages, NEW k \in Keys, RemoveTransferUI(p, k)
        PROVE  SavedOK' /\ SavedIsItself' /\ \A g \in Files : Saved(g) => Saved(g)'
    BY <1>5, <1>2 DEF RemoveTransferUI
  <1>6. CASE UNCHANGED vars
    BY <1>6, <1>2 DEF vars, receiverVars
  <1> QED
    BY <1>4, <1>5, <1>6 DEF Next

-------------------------------------------------------------------------------
(* What is sent.                                                               *)

WireOK == wire \in [Files -> [Pages -> Seq(Messages)]]

\* A message sent on a channel that carries it keeps the invariant.
LEMMA SentFits ==
    ASSUME IInv, chosen' = chosen, \A g \in Files : Saved(g) => Saved(g)',
           NEW w \in [Files -> [Pages -> Seq(Messages)]],
           \A d \in Files, q \in Pages : Range(w[d][q]) \subseteq Range(wire[d][q]),
           NEW p \in Pages, NEW q \in Pages, q = Other(p), NEW c \in Files,
           NEW m \in Messages, Fits(q, c, m)', wire' = Sends(w, c, p, m)
    PROVE  WireOK' /\ WireInv'
  <1>1. Sends(w, c, p, m) \in [Files -> [Pages -> Seq(Messages)]]
    BY SendWire, Zenon
  <1>2. WireOK'
    BY <1>1 DEF WireOK
  <1>3. \A d \in Files, b \in Pages :
           Range(wire'[d][b]) \subseteq Range(wire[d][b]) \cup IF d = c /\ b = q THEN {m} ELSE {}
    <2>1. \A d \in Files, b \in Pages :
             Range(Sends(w, c, p, m)[d][b])
                \subseteq Range(w[d][b]) \cup IF d = c /\ b = Other(p) THEN {m} ELSE {}
      BY SendWire, Zenon
    <2> QED
      BY <2>1
  <1>4. ASSUME NEW d \in Files, NEW b \in Pages, NEW n \in Range(wire'[d][b])
        PROVE  Fits(b, d, n)'
    <2>1. CASE n \in Range(wire[d][b])
      <3>1. n \in Messages /\ Fits(b, d, n)
        BY <2>1 DEF IInv, TypeOK, WireInv, Range
      <3> QED
        BY <3>1, FitsKept
    <2>2. CASE d = c /\ b = q /\ n = m
      BY <2>2
    <2> QED
      BY <1>3, <2>1, <2>2
  <1> QED
    BY <1>2, <1>4 DEF WireInv

\* A step that sends nothing keeps it.
LEMMA NoneSent ==
    ASSUME IInv, chosen' = chosen, \A g \in Files : Saved(g) => Saved(g)',
           wire' \in [Files -> [Pages -> Seq(Messages)]],
           \A d \in Files, q \in Pages : Range(wire'[d][q]) \subseteq Range(wire[d][q])
    PROVE  WireOK' /\ WireInv'
  <1>1. WireOK'
    BY DEF WireOK
  <1>2. ASSUME NEW d \in Files, NEW q \in Pages, NEW m \in Range(wire'[d][q])
        PROVE  Fits(q, d, m)'
    <2>1. m \in Messages
      BY DEF Range
    <2>2. Fits(q, d, m)
      BY <1>2 DEF IInv, WireInv
    <2> QED
      BY <2>1, <2>2, FitsKept
  <1> QED
    BY <1>1, <1>2 DEF WireInv

\* sendV2Head finds a channel of the file's stem.
LEMMA HeadSent ==
    ASSUME IInv, chosen' = chosen, \A g \in Files : Saved(g) => Saved(g)',
           NEW f \in Files, NEW a, NEW channels \in SUBSET Files,
           \A c \in channels : Stem(c) = Stem(f), SendV2Head(f, a, channels)
    PROVE  WireOK' /\ WireInv'
  <1>1. CASE UNCHANGED wire
    BY <1>1, NoneSent DEF IInv, TypeOK
  <1>2. ASSUME NEW c \in channels, wire' = Sends(wire, c, from[f], V2Head(f))
        PROVE  WireOK' /\ WireInv'
    <2>1. PICK p \in Pages, q \in Pages : p = from[f] /\ q = Other(p) /\ p = Other(q)
      BY Case DEF IInv, TypeOK
    <2>2. PICK m \in Messages : m = V2Head(f)
      BY DEF V2Head, Messages
    <2>3. Fits(q, c, m)'
      BY <2>1, <2>2, Constant DEF Fits, Announced, Numbered, Acknowledged, V2Head
    <2>4. wire' = Sends(wire, c, p, m) /\ wire \in [Files -> [Pages -> Seq(Messages)]]
      BY <1>2, <2>1, <2>2 DEF IInv, TypeOK
    <2> QED
      BY <2>1, <2>3, <2>4, SentFits
  <1> QED
    BY <1>1, <1>2 DEF SendV2Head

LEMMA WireStep ==
    ASSUME IInv, [Next]_vars
    PROVE  WireOK' /\ WireInv'
  <1>1. /\ TypeOK /\ wire \in [Files -> [Pages -> Seq(Messages)]]
        /\ chosen' = chosen /\ \A g \in Files : Saved(g) => Saved(g)'
    BY NextConstant, SavedStep DEF IInv, TypeOK
  <1>2. ASSUME UNCHANGED wire
        PROVE  WireOK' /\ WireInv'
    BY <1>1, <1>2, NoneSent
  <1>3. ASSUME NEW p \in Pages, NEW f \in Files, wire[f][p] # <<>>, wire' = Rest(p, f)
        PROVE  WireOK' /\ WireInv'
    BY <1>1, <1>3, TakeWire, NoneSent
  <1>4. ASSUME NEW f \in Files, FileStep(f)
        PROVE  WireOK' /\ WireInv'
    <2>1. CASE StartTransfer(f) \/ HashDone(f) \/ Wake(f) \/ AckTimeout(f)
      BY <2>1, <1>2 DEF StartTransfer, HashDone, Wake, AckTimeout
    <2>2. CASE DcOpens(f)
      <3> DEFINE C == Found(f) \cup {c \in {f} : name[f] \in DOMAIN dataChannels[from[f]]
                                                  /\ c = dataChannels[from[f]][name[f]]}
      <3>1. SendV2Head(f, sender[f].accepted, C)
        BY <2>2 DEF DcOpens
      <3>2. C \in SUBSET Files /\ \A c \in C : Stem(c) = Stem(f)
        BY <1>1, FoundStem
      <3> HIDE DEF C
      <3> QED
        BY <1>1, <3>1, <3>2, HeadSent
    <2>3. CASE HandleFileAccept(f)
      <3>1. Found(f) \in SUBSET Files /\ \A c \in Found(f) : Stem(c) = Stem(f)
        BY <1>1, FoundStem
      <3> QED
        BY <1>1, <2>3, <3>1, HeadSent DEF HandleFileAccept
    <2>4. CASE ReadDone(f)
      <3>1. PICK c \in sender[f].reading : wire' = Sends(wire, c, from[f], Block(f, sender[f].sent))
        BY <2>4 DEF ReadDone
      <3>2. c \in Files /\ Stem(c) = Stem(f) /\ sender[f].sent \in Nat /\ sender[f].sent < size[f]
        BY <3>1 DEF IInv, TypeOK, SendersOK, ReadingInv, Senders
      <3>3. PICK p \in Pages, q \in Pages : p = from[f] /\ q = Other(p) /\ p = Other(q)
        BY <1>1, Case DEF TypeOK
      <3>4. PICK m \in Messages : m = Block(f, sender[f].sent)
        BY <3>2 DEF Block, Messages
      <3>5. m.type = "block" /\ m.file = f /\ m.idx = sender[f].sent
        BY <3>4 DEF Block
      <3>6. Fits(q, c, m)'
        BY <1>1, <3>2, <3>3, <3>5, Constant DEF Fits, Announced, Numbered, Acknowledged
      <3>7. wire' = Sends(wire, c, p, m)
        BY <3>1, <3>3, <3>4
      <3> QED
        BY <1>1, <3>2, <3>3, <3>6, <3>7, SentFits
    <2>5. ASSUME NEW p \in Pages, Deliver(p, f)
          PROVE  WireOK' /\ WireInv'
      <3>1. CASE Unheard(p, f)
        BY <3>1, <1>3 DEF Unheard
      <3>2. CASE RecvV2Head(p, f) \/ HandleFlowAdv(p, f) \/ HandleFileReceived(p, f)
        BY <3>2, <1>3 DEF RecvV2Head, HandleFlowAdv, HandleFileReceived, Takes
      <3>3. CASE RecvBlock(p, f)
        <4> DEFINE k == Key(p, f)
                   r == Stored(p, k, Head(wire[f][p]))
        <4>0. wire[f][p] # <<>>
          BY <3>3 DEF RecvBlock, Takes
        <4>1. CASE wire' = Rest(p, f)
          BY <4>0, <4>1, <1>3
        <4>2. ASSUME NEW m \in Messages, Reply(p, k, f, m), m.type \in {"flow", "ack"},
                     m.type = "ack" => \E g \in Files : /\ from[g] = Other(p) /\ Stem(g) = Stem(f)
                                                        /\ Saved(g)' \/ Ambiguous(g)
              PROVE  WireOK' /\ WireInv'
          <5>1. CASE k \in DOMAIN dataChannels[p] /\ dataChannels[p][k] \in open
            <6> DEFINE c == dataChannels[p][k]
            <6>1. c \in Files /\ Key(p, c) = k
              BY <5>1, <1>1 DEF TypeOK, ChannelsOK
            <6>2. wire' = Sends(Rest(p, f), c, p, m)
              BY <4>2, <5>1 DEF Reply
            <6>3. Stem(c) = Stem(f)
              BY <6>1, KeyStem DEF k
            <6> HIDE DEF c, k
            <6>4. PICK q \in Pages : q = Other(p)
              BY TwoPages
            <6>5. PICK d \in Files : d = c
              BY <6>1
            <6>6. Fits(q, d, m)'
              BY <1>1, <4>2, <6>3, <6>4, <6>5, Constant
                 DEF Fits, Announced, Numbered, Acknowledged
            <6>7. /\ Rest(p, f) \in [Files -> [Pages -> Seq(Messages)]]
                  /\ \A e \in Files, b \in Pages :
                        Range(Rest(p, f)[e][b]) \subseteq Range(wire[e][b])
              BY <1>1, <4>0, TakeWire
            <6>8. wire' = Sends(Rest(p, f), d, p, m)
              BY <6>2, <6>5
            <6> QED
              BY <1>1, <6>4, <6>6, <6>7, <6>8, SentFits
          <5>2. CASE ~(k \in DOMAIN dataChannels[p] /\ dataChannels[p][k] \in open)
            BY <4>2, <5>2, <4>1 DEF Reply
          <5> QED
            BY <5>1, <5>2
        <4>3. CASE k \in DOMAIN receiveBuffers[p] /\ Reply(p, k, f, FlowAdv(Max(DOMAIN r.blocks)))
          <5>1. Max(DOMAIN r.blocks) \in Nat
            BY <3>3, <4>3, Taken, StoredHeld DEF RecvBlock
          <5>2. PICK m \in Messages : m = FlowAdv(Max(DOMAIN r.blocks)) /\ m.type = "flow"
            <6> DEFINE m0 == FlowAdv(Max(DOMAIN r.blocks))
            <6>1. m0 \in Messages /\ m0.type = "flow"
              BY <5>1 DEF FlowAdv, Messages
            <6> QED
              BY <6>1
          <5> HIDE DEF k, r
          <5> QED
            BY <4>2, <4>3, <5>2
        <4>4. CASE /\ k \in DOMAIN receiveBuffers[p] /\ IsWhole(r)
                   /\ Reply(p, k, f, FileReceived(Digest(size[r.as])))
                   /\ saved' = [saved EXCEPT ![p] = @ \cup {<<r.as, Assembled(r)>>}]
          <5>1. /\ r.as \in Files /\ from[r.as] = Other(p) /\ Stem(r.as) = Stem(f)
                /\ <<r.as, Assembled(r)>> = Whole(r.as) \/ Ambiguous(r.as)
            BY <3>3, <4>4, SavesItself
          <5> HIDE DEF k, r
          <5>2. PICK m \in Messages : m = FileReceived(Digest(size[r.as])) /\ m.type = "ack"
            <6> DEFINE m0 == FileReceived(Digest(size[r.as]))
            <6>1. size[r.as] \in Nat
              BY <1>1, <5>1, Case DEF TypeOK
            <6>2. m0 \in Messages /\ m0.type = "ack"
              BY <6>1 DEF FileReceived, Digest, Messages
            <6> QED
              BY <6>2
          <5>3. \E g \in Files : g = r.as /\ (Saved(g)' \/ Ambiguous(g))
            <6>1. CASE <<r.as, Assembled(r)>> = Whole(r.as)
              <7>1. p = Other(from[r.as]) /\ Whole(r.as) \in saved'[p]
                BY <4>4, <5>1, <6>1, <1>1, TwoPages DEF TypeOK, SavedOK
              <7>2. PICK g \in Files : g = r.as
                BY <5>1
              <7>3. Whole(g)' = Whole(g) /\ from' = from
                BY <1>1, Constant
              <7> QED
                BY <7>1, <7>2, <7>3 DEF Saved
            <6> QED
              BY <5>1, <6>1
          <5> QED
            BY <4>2, <4>4, <5>1, <5>2, <5>3
        <4> QED
          BY <3>3, <4>1, <4>3, <4>4 DEF RecvBlock
      <3> QED
        BY <2>5, <3>1, <3>2, <3>3 DEF Deliver
    <2> QED
      BY <1>4, <2>1, <2>2, <2>3, <2>4, <2>5 DEF FileStep
  <1>5. ASSUME NEW p \in Pages, NEW k \in Keys, RemoveTransferUI(p, k)
        PROVE  WireOK' /\ WireInv'
    BY <1>5, <1>2 DEF RemoveTransferUI
  <1>6. CASE UNCHANGED vars
    BY <1>6, <1>2 DEF vars
  <1> QED
    BY <1>4, <1>5, <1>6 DEF Next

-------------------------------------------------------------------------------
(* What is shown as complete.                                                  *)

LEMMA CompleteStep ==
    ASSUME IInv, [Next]_vars
    PROVE  CompleteIsSaved'
  <1>1. /\ TypeOK /\ CompleteIsSaved /\ chosen' = chosen /\ chosen \in Cases
        /\ DOMAIN sender = Files /\ \A g \in Files : Saved(g) => Saved(g)'
    BY NextConstant, SavedStep DEF IInv, TypeOK, SendersOK
  <1>2. ASSUME \A g \in Files : "complete" \in sender'[g].hist
                   => "complete" \in sender[g].hist \/ Saved(g) \/ Ambiguous(g)
        PROVE  CompleteIsSaved'
    <2> SUFFICES ASSUME NEW g \in Files, "complete" \in sender'[g].hist
                 PROVE  Saved(g)' \/ Ambiguous(g)'
      BY DEF CompleteIsSaved, Ambiguous
    <2>1. Saved(g) \/ Ambiguous(g)
      BY <1>1, <1>2 DEF CompleteIsSaved, Ambiguous
    <2> QED
      BY <1>1, <2>1, Constant
  <1>3. ASSUME UNCHANGED sender
        PROVE  CompleteIsSaved'
    BY <1>2, <1>3
  <1>4. ASSUME NEW f \in Files
        PROVE  sender[f] \in Senders
    BY <1>1 DEF TypeOK, SendersOK
  <1>5. ASSUME NEW f \in Files, NEW n, sender' = [sender EXCEPT ![f] = n],
               "complete" \in n.hist => "complete" \in sender[f].hist \/ Saved(f) \/ Ambiguous(f)
        PROVE  CompleteIsSaved'
    <2>1. \A g \in Files : sender'[g] = IF g = f THEN n ELSE sender[g]
      BY <1>1, <1>5
    <2> QED
      BY <1>2, <1>5, <2>1
  <1>6. ASSUME NEW f \in Files, FileStep(f)
        PROVE  CompleteIsSaved'
    <2> DEFINE s == sender[f]
    <2>0. s \in Senders
      BY <1>4
    <2>1. CASE StartTransfer(f) \/ HashDone(f) \/ ReadDone(f)
      <3>1. \A g \in Files : sender'[g].hist = sender[g].hist
        BY <2>0, <2>1, <1>1 DEF StartTransfer, HashDone, ReadDone, Senders
      <3> QED
        BY <3>1, <1>2
    <2>2. CASE DcOpens(f) \/ HandleFileAccept(f)
      <3>1. \A g \in Files : sender'[g].hist = sender[g].hist
        BY <2>0, <2>2, <1>1 DEF DcOpens, HandleFileAccept, SendV2Head, Senders
      <3> QED
        BY <3>1, <1>2
    <2>3. CASE Wake(f)
      <3> DEFINE b == SendBlock(f, dcLastConfirmed[from[f]][name[f]])
      <3>1. Reads(f, b) /\ b.hist = s.hist
        BY SendBlockReads DEF IInv
      <3> HIDE DEF b
      <3>2. [b EXCEPT !.task = FALSE].hist = s.hist
        BY <3>1 DEF Reads, Senders
      <3>3. sender' = [sender EXCEPT ![f] = [b EXCEPT !.task = FALSE]]
        BY <2>3 DEF Wake, b
      <3> QED
        BY <3>2, <3>3, <1>5
    <2>4. CASE AckTimeout(f)
      <3> DEFINE n == [s EXCEPT !.waitingAck = FALSE, !.hist = @ \cup {"failed"}]
      <3>1. n.hist = s.hist \cup {"failed"}
        BY <2>0 DEF Senders
      <3>2. sender' = [sender EXCEPT ![f] = n]
        BY <2>4 DEF AckTimeout
      <3> QED
        BY <3>1, <3>2, <1>5
    <2>5. ASSUME NEW p \in Pages, Deliver(p, f)
          PROVE  CompleteIsSaved'
      <3>1. CASE Unheard(p, f) \/ RecvV2Head(p, f) \/ RecvBlock(p, f)
        BY <3>1, <1>3 DEF Unheard, RecvV2Head, RecvBlock
      <3>2. CASE HandleFlowAdv(p, f)
        <4>1. PICK lc : sender' = [g \in Files |-> IF g \in Outgoing(p, Key(p, f))
                                                   THEN SendBlock(g, lc) ELSE sender[g]]
          BY <3>2 DEF HandleFlowAdv
        <4>2. \A g \in Files : SendBlock(g, lc).hist = sender[g].hist
          BY SendBlockReads DEF IInv
        <4>3. \A g \in Files : sender'[g].hist = sender[g].hist
          BY <4>1, <4>2
        <4> QED
          BY <4>3, <1>2
      <3>3. CASE HandleFileReceived(p, f)
        <4> DEFINE m == Head(wire[f][p])
        <4>1. m.type = "ack" /\ Fits(p, f, m)
          BY <3>3, Taken DEF HandleFileReceived
        <4>2. PICK h \in Files : /\ from[h] = p /\ Stem(h) = Stem(f)
                                 /\ Saved(h) \/ Ambiguous(h)
          BY <4>1 DEF Fits, Acknowledged
        <4>3. ASSUME NEW g \in Outgoing(p, Key(p, f)), NEW o \in {"complete", "failed"},
                     sender' = [sender EXCEPT ![g].waitingAck = FALSE, ![g].hist = @ \cup {o}]
              PROVE  CompleteIsSaved'
          <5>1. g \in Files /\ from[g] = p /\ name[g] = Key(p, f)
            BY DEF Outgoing
          <5>2. Stem(g) = Stem(f)
            BY <5>1, KeyStem DEF Stem
          <5>3. Saved(g) \/ Ambiguous(g)
            BY <4>2, <5>1, <5>2, <1>1, Unambiguous
          <5> DEFINE n == [sender[g] EXCEPT !.waitingAck = FALSE, !.hist = @ \cup {o}]
          <5>4. sender' = [sender EXCEPT ![g] = n]
            BY <4>3
          <5> QED
            BY <5>1, <5>3, <5>4, <1>5
        <4> QED
          BY <3>3, <4>3, <1>3 DEF HandleFileReceived
      <3> QED
        BY <2>5, <3>1, <3>2, <3>3 DEF Deliver
    <2> QED
      BY <1>6, <2>1, <2>2, <2>3, <2>4, <2>5 DEF FileStep
  <1>7. ASSUME NEW p \in Pages, NEW k \in Keys, RemoveTransferUI(p, k)
        PROVE  CompleteIsSaved'
    <2>1. ASSUME NEW f \in Files
          PROVE  sender'[f].hist = sender[f].hist
      <3>1. sender[f] \in Senders
        BY <1>4
      <3> QED
        BY <1>7, <3>1 DEF RemoveTransferUI, Senders
    <2> QED
      BY <2>1, <1>2
  <1>8. CASE UNCHANGED vars
    BY <1>8, <1>3 DEF vars
  <1> QED
    BY <1>6, <1>7, <1>8 DEF Next

-------------------------------------------------------------------------------
(* The channels that opened, the confirmations and the removal timers.         *)

LEMMA RestStep ==
    ASSUME IInv, [Next]_vars
    PROVE  /\ open' \subseteq Files
           /\ dcLastConfirmed' \in [Pages -> [Keys' -> Nat]]
           /\ removals' \in [Pages -> [Keys' -> Nat]]
  <1>1. /\ TypeOK /\ open \subseteq Files /\ dcLastConfirmed \in [Pages -> [Keys -> Nat]]
        /\ removals \in [Pages -> [Keys -> Nat]] /\ Keys' = Keys
    BY NextConstant, Constant DEF IInv, TypeOK
  <1>2. ASSUME NEW p \in Pages, NEW k \in Keys, Removing(p, k)
        PROVE  removals' \in [Pages -> [Keys' -> Nat]]
    BY <1>1, <1>2 DEF Removing
  <1>3. ASSUME NEW f \in Files, FileStep(f)
        PROVE  /\ open' \subseteq Files
               /\ dcLastConfirmed' \in [Pages -> [Keys' -> Nat]]
               /\ removals' \in [Pages -> [Keys' -> Nat]]
    <2>0. from[f] \in Pages /\ name[f] \in Keys /\ \A p \in Pages : Key(p, f) \in Keys
      BY <1>1, Case DEF TypeOK
    <2>1. CASE \/ StartTransfer(f) \/ HashDone(f) \/ DcOpens(f) \/ HandleFileAccept(f)
               \/ Wake(f) \/ ReadDone(f)
      BY <2>1, <1>1 DEF StartTransfer, HashDone, DcOpens, HandleFileAccept, Wake, ReadDone
    <2>2. CASE AckTimeout(f)
      BY <2>0, <2>2, <1>1, <1>2 DEF AckTimeout
    <2>3. ASSUME NEW p \in Pages, Deliver(p, f)
          PROVE  /\ open' \subseteq Files
                 /\ dcLastConfirmed' \in [Pages -> [Keys' -> Nat]]
                 /\ removals' \in [Pages -> [Keys' -> Nat]]
      <3>1. CASE Unheard(p, f) \/ RecvV2Head(p, f)
        BY <3>1, <1>1 DEF Unheard, RecvV2Head
      <3>2. CASE RecvBlock(p, f) \/ HandleFileReceived(p, f)
        BY <2>0, <3>2, <1>1, <1>2 DEF RecvBlock, HandleFileReceived
      <3>3. CASE HandleFlowAdv(p, f)
        <4> DEFINE k == Key(p, f)
                   i == Head(wire[f][p]).idx
                   lc == Max({dcLastConfirmed[p][k], i})
        <4>1. i \in Nat
          BY <3>3, Taken DEF HandleFlowAdv, Messages
        <4>2. lc \in Nat
          BY <2>0, <4>1, <1>1, MaxOfTwo
        <4>3. /\ dcLastConfirmed' = [dcLastConfirmed EXCEPT ![p][k] = lc]
              /\ UNCHANGED <<open, removals>>
          BY <3>3 DEF HandleFlowAdv
        <4> HIDE DEF lc, k
        <4> QED
          BY <4>2, <4>3, <1>1
      <3> QED
        BY <2>3, <3>1, <3>2, <3>3 DEF Deliver
    <2> QED
      BY <1>3, <2>1, <2>2, <2>3 DEF FileStep
  <1>4. ASSUME NEW p \in Pages, NEW k \in Keys, RemoveTransferUI(p, k)
        PROVE  /\ open' \subseteq Files
               /\ dcLastConfirmed' \in [Pages -> [Keys' -> Nat]]
               /\ removals' \in [Pages -> [Keys' -> Nat]]
    <2>1. removals[p][k] - 1 \in Nat
      <3>1. removals[p][k] \in Nat
        BY <1>1
      <3>2. removals[p][k] > 0
        BY <1>4 DEF RemoveTransferUI
      <3> QED
        BY <3>1, <3>2
    <2> QED
      BY <1>1, <1>4, <2>1 DEF RemoveTransferUI
  <1>5. CASE UNCHANGED vars
    BY <1>1, <1>5 DEF vars
  <1> QED
    BY <1>3, <1>4, <1>5 DEF Next

-------------------------------------------------------------------------------
(* The invariant.                                                              *)

LEMMA IInvInit == Init => IInv
  <1> SUFFICES ASSUME Init
               PROVE  IInv
    OBVIOUS
  <1>1. NewFile \in Senders /\ NewFile.sent = 0 /\ NewFile.reading = {} /\ NewFile.hist = {}
    BY DEF NewFile, Senders
  <1>2. \A f \in Files : size[f] \in Nat \ {0}
    BY Case DEF Init
  <1>3. SendersOK /\ ReadingInv /\ CompleteIsSaved
    BY <1>1, <1>2 DEF Init, SendersOK, ReadingInv, CompleteIsSaved
  <1>4. DOMAIN <<>> = {}
    OBVIOUS
  <1>5. ChannelsOK /\ BuffersOK /\ HeldInv /\ SavedOK /\ SavedIsItself
    BY <1>4 DEF Init, ChannelsOK, BuffersOK, HeldInv, SavedOK, SavedIsItself
  <1>6. wire \in [Files -> [Pages -> Seq(Messages)]] /\ WireInv
    <2>1. <<>> \in Seq(Messages) /\ Range(<<>>) = {}
      BY <1>4 DEF Range
    <2> QED
      BY <2>1 DEF Init, WireInv
  <1>7. TypeOK
    BY <1>3, <1>5, <1>6 DEF Init, TypeOK
  <1> QED
    BY <1>3, <1>5, <1>6, <1>7 DEF IInv

LEMMA IInvStep == IInv /\ [Next]_vars => IInv'
  <1> SUFFICES ASSUME IInv, [Next]_vars
               PROVE  IInv'
    OBVIOUS
  <1>1. chosen' \in Cases
    BY NextConstant DEF IInv, TypeOK
  <1>2. TypeOK'
    BY <1>1, SendersStep, ChannelsStep, BuffersStep, SavedStep, WireStep, RestStep
       DEF TypeOK, WireOK
  <1> QED
    BY <1>2, SendersStep, WireStep, BuffersStep, SavedStep, CompleteStep DEF IInv

THEOREM Invariance == Spec => []IInv
  BY IInvInit, IInvStep, PTL DEF Spec

-------------------------------------------------------------------------------
(* The theorems.                                                               *)

\* Every variable has its type: a sender reads one block at a time and never past
\* the end of its file, and whatever both pages do, a channel or a half file is
\* under a key only if the handlers of that page use this key for it.
THEOREM TypeCorrect == Spec => []TypeOK
  <1>1. IInv => TypeOK
    BY DEF IInv
  <1> QED
    BY <1>1, Invariance, PTL

\* What a page saves under a name is the file of that name, whole, for any number
\* of files that share channels and keys in both directions, except for names
\* that agree up to a colon.
THEOREM SavedRight == Spec => []SavedIsItself
  <1>1. IInv => SavedIsItself
    BY DEF IInv
  <1> QED
    BY <1>1, Invariance, PTL

\* A file that a sender shows as complete was saved, itself and whole, by the
\* other page, with the same exception.
THEOREM CompleteRight == Spec => []CompleteIsSaved
  <1>1. IInv => CompleteIsSaved
    BY DEF IInv
  <1> QED
    BY <1>1, Invariance, PTL

===============================================================================
