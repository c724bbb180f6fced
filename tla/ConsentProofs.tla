----------------------------- MODULE ConsentProofs -----------------------------
(* Proofs about Consent: nothing is sent that was not agreed to, and an        *)
(* accepted file is not torn down.                                             *)
EXTENDS Consent, SequenceLemmas

USE ConsentAssumption

-------------------------------------------------------------------------------
(* The inductive invariant.                                                    *)

\* Where a name of a sender can be on its way: digested, in the offer of a call,
\* in a message, in the dialog, in an answer.
Digesting(q, n) == Hits(q, {j \in Jobs : j.hashing = n})
Offering(q, n) == Hits(q, {j \in Jobs : n \in j.offered})
Hashing(s, n) == Digesting(jobs[s], n)
InCall(s, n) == Offering(jobs[s], n)
InOffer(s, n) == Hits(offers[s], {o \in SUBSET Names : n \in o})
Listed(q, s, n) == Hits(q, {e \in Queues : e.from = s /\ n \in e.names})
InDialog(s, n) == Listed(pendingFileOffers, s, n)
InAnswer(s, n) == Hits(answers[s], {a \in Answers : n \in a.names})

Idle(s, n) ==
    InCall(s, n) = {} /\ InOffer(s, n) = {} /\ InDialog(s, n) = {} /\ InAnswer(s, n) = {}

\* A name is on its way once at most, and only between its digest and its answer.
Single(s, n) ==
    /\ One(Hashing(s, n)) /\ One(InCall(s, n)) /\ One(InOffer(s, n)) /\ One(InAnswer(s, n))
    /\ Hashing(s, n) # {} => n \notin out[s] /\ n \notin transferAccepted[s]
    /\ n \notin out[s] => Idle(s, n)
    /\ n \in out[s] /\ n \in transferAccepted[s] => Idle(s, n)
    /\ InCall(s, n) # {} => InOffer(s, n) = {} /\ InDialog(s, n) = {} /\ InAnswer(s, n) = {}
    /\ InOffer(s, n) # {} => InDialog(s, n) = {} /\ InAnswer(s, n) = {}
    /\ InDialog(s, n) # {} => InAnswer(s, n) = {}

SingleInv == ~doubled /\ ~mixed => \A s \in Senders, n \in Names : Single(s, n)

\* What a sender was told, or will be, the user agreed to.
AgreedInv ==
    ~mixed => \A s \in Senders, n \in Names :
                 /\ n \in transferAccepted[s] => <<s, n>> \in incoming
                 /\ \A i \in 1..Len(answers[s]) :
                       answers[s][i].type = "accept" /\ n \in answers[s][i].names
                          => <<s, n>> \in incoming

-------------------------------------------------------------------------------
(* Sequences.                                                                  *)

LEMMA OthersHits ==
    ASSUME NEW S, NEW q \in Seq(S), NEW i \in 1..Len(q), NEW T
    PROVE  /\ Others(q, i) \in Seq(S)
           /\ Hits(Others(q, i), T) # {} => Hits(q, T) # {}
           /\ One(Hits(q, T)) => One(Hits(Others(q, i), T))
           /\ q[i] \in T => Hits(q, T) # {}
           /\ q[i] \in T /\ One(Hits(q, T)) => Hits(Others(q, i), T) = {}
<1>1. Others(q, i) = Without(q, i)
  BY DEF Others, Without
<1>2. /\ Without(q, i) \in Seq(S)
      /\ Hits(Without(q, i), T) # {} => Hits(q, T) # {}
      /\ One(Hits(q, T)) => One(Hits(Without(q, i), T))
      /\ q[i] \in T => Hits(q, T) # {}
      /\ q[i] \in T /\ One(Hits(q, T)) => Hits(Without(q, i), T) = {}
  BY WithoutHits
<1> QED
  BY <1>1, <1>2

-------------------------------------------------------------------------------
(* Types.                                                                      *)

\* Every action, for the case splits below.
LEMMA NextCases ==
    ASSUME Next
    PROVE  \/ \E s \in Senders, files \in SUBSET Names : StartTransfer(s, files) /\ UNCHANGED <<lost, stranded>>
           \/ \E s \in Senders, i \in 1..MaxStarts : HashDone(s, i) /\ UNCHANGED <<lost, stranded>>
           \/ \E s \in Senders : HandleFileAccept(s) /\ UNCHANGED <<lost, stranded>>
           \/ \E s \in Senders : HandleFileReject(s) /\ UNCHANGED <<lost, stranded>>
           \/ \E s \in Senders : HandleFileOffer(s) /\ UNCHANGED <<lost, stranded>>
           \/ AcceptAllPending /\ UNCHANGED <<lost, stranded>>
           \/ RejectAllPending /\ UNCHANGED <<lost, stranded>>
           \/ \E s \in Senders : Lose(s)
           \/ \E s \in Senders, i \in 1..MaxStarts : CallFails(s, i)
BY DEF Next, SenderStep, RejectClicked, TimerExpires

\* A call that goes on, or is over.
LEMMA GoOnTypes ==
    ASSUME TypeOK, NEW s \in Senders, NEW others \in Seq(Jobs),
           NEW todo \in SUBSET Names, NEW done \in SUBSET Names,
           NEW offered \in SUBSET Names, GoOn(s, others, todo, done, offered)
    PROVE  /\ jobs' \in [Senders -> Seq(Jobs)] /\ offers' \in [Senders -> Seq(SUBSET Names)]
           /\ transferAccepted' \in [Senders -> SUBSET Names] /\ doubled' \in BOOLEAN
<1>1. CASE /\ jobs' = [jobs EXCEPT ![s] = others]
           /\ offers' = [offers EXCEPT ![s] = Append(@, offered)]
           /\ UNCHANGED <<transferAccepted, doubled>>
  <2>1. Append(offers[s], offered) \in Seq(SUBSET Names)
    BY AppendHits DEF TypeOK
  <2> QED
    BY <1>1, <2>1 DEF TypeOK
<1>2. CASE \E n \in todo \ Skipped(s, done), skipped \in SUBSET (todo \cap Skipped(s, done)) :
             /\ jobs' = [jobs EXCEPT ![s] =
                            Append(others, Job(n, todo \ ({n} \cup skipped), offered))]
             /\ transferAccepted' = [transferAccepted EXCEPT ![s] = @ \ {n}]
             /\ doubled' = (doubled \/ n \in {others[i].hashing : i \in 1..Len(others)})
             /\ UNCHANGED offers
  <2> PICK n \in todo, skipped \in SUBSET todo :
             /\ jobs' = [jobs EXCEPT ![s] =
                            Append(others, Job(n, todo \ ({n} \cup skipped), offered))]
             /\ transferAccepted' = [transferAccepted EXCEPT ![s] = @ \ {n}]
             /\ doubled' = (doubled \/ n \in {others[i].hashing : i \in 1..Len(others)})
             /\ UNCHANGED offers
    BY <1>2
  <2>1. Job(n, todo \ ({n} \cup skipped), offered) \in Jobs
    BY DEF Job, Jobs
  <2>2. Append(others, Job(n, todo \ ({n} \cup skipped), offered)) \in Seq(Jobs)
    BY <2>1, AppendHits
  <2>3. doubled' \in BOOLEAN
    OBVIOUS
  <2> QED
    BY <2>2, <2>3 DEF TypeOK
<1> QED
  BY <1>1, <1>2 DEF GoOn

\* The queue of the sender gets the names, and no other changes.
LEMMA QueueHits ==
    ASSUME TypeOK, NEW s \in Senders, NEW names \in SUBSET Names
    PROVE  /\ Queue(s, names) \in Seq(Queues)
           /\ \A i, k \in 1..Len(Queue(s, names)) :
                 Queue(s, names)[i].from = Queue(s, names)[k].from => i = k
           /\ \A t \in Senders, n \in Names :
                 Listed(Queue(s, names), t, n) # {}
                    => InDialog(t, n) # {} \/ (t = s /\ n \in names)
<1> DEFINE p == pendingFileOffers
           q == Queue(s, names)
           f(i) == IF p[i].from = s THEN [from |-> s, names |-> p[i].names \cup names] ELSE p[i]
           e == [from |-> s, names |-> names]
<1>0. p \in Seq(Queues) /\ Len(p) \in Nat /\ (\A i \in 1..Len(p) : p[i] \in Queues)
      /\ \A i, k \in 1..Len(p) : p[i].from = p[k].from => i = k
  BY DEF TypeOK
<1>1. CASE Queued(s)
  <2>1. q = [i \in 1..Len(p) |-> f(i)]
    BY <1>1 DEF Queue
  <2>2. \A i \in 1..Len(p) : f(i) \in Queues /\ f(i).from = p[i].from
                               /\ f(i).names \subseteq
                                     p[i].names \cup (IF p[i].from = s THEN names ELSE {})
    BY <1>0 DEF Queues
  <2> HIDE DEF f
  <2>3. q \in Seq(Queues) /\ Len(q) = Len(p)
    BY <1>0, <2>1, <2>2
  <2>4. \A i \in 1..Len(p) : q[i] = f(i)
    BY <2>1
  <2>5. ASSUME NEW t \in Senders, NEW n \in Names,
               NEW i \in Listed(q, t, n)
        PROVE  i \in InDialog(t, n) \/ (t = s /\ n \in names)
    <3>1. i \in 1..Len(p) /\ f(i).from = t /\ n \in f(i).names
      BY <2>3, <2>4, <2>5 DEF Hits, Listed
    <3> QED
      BY <1>0, <2>2, <3>1 DEF InDialog, Listed, Hits
  <2> QED
    BY <1>0, <2>2, <2>3, <2>4, <2>5
<1>2. CASE ~Queued(s)
  <2>1. q = Append(p, e) /\ e \in Queues
    BY <1>2 DEF Queue, Queues
  <2>2. \A i \in 1..Len(p) : p[i].from # s
    BY <1>2 DEF Queued, Range
  <2> HIDE DEF q, p
  <2>3. q \in Seq(Queues) /\ Len(q) = Len(p) + 1 /\ q[Len(p) + 1] = e
        /\ \A i \in 1..Len(p) : q[i] = p[i]
    BY <1>0, <2>1, AppendHits
  <2>4. \A i, k \in 1..Len(q) : q[i].from = q[k].from => i = k
    <3> TAKE i, k \in 1..Len(q)
    <3>1. e.from = s
      OBVIOUS
    <3> QED
      BY <1>0, <2>2, <2>3, <3>1
  <2>5. ASSUME NEW t \in Senders, NEW n \in Names,
               NEW i \in Listed(q, t, n)
        PROVE  i \in InDialog(t, n) \/ (t = s /\ n \in names)
    <3>1. i \in 1..Len(q) /\ q[i].from = t /\ n \in q[i].names
      BY <2>5 DEF Hits, Listed
    <3>2. CASE i \in 1..Len(p)
      BY <1>0, <2>3, <3>1, <3>2 DEF InDialog, Listed, Hits, p
    <3>3. CASE i = Len(p) + 1
      BY <2>3, <3>1, <3>3
    <3> QED
      BY <1>0, <2>3, <3>1, <3>2, <3>3
  <2> QED
    BY <2>3, <2>4, <2>5 DEF q
<1> QED
  BY <1>1, <1>2

LEMMA TypeStep ==
    ASSUME TypeOK, Next
    PROVE  TypeOK'
<1>0. stranded \subseteq Senders \X Names
  BY DEF TypeOK
<1>1. CASE \E s \in Senders, files \in SUBSET Names : StartTransfer(s, files) /\ UNCHANGED <<lost, stranded>>
  <2> PICK s \in Senders, files \in SUBSET Names : StartTransfer(s, files) /\ UNCHANGED <<lost, stranded>>
    BY <1>1
  <2>1. jobs[s] \in Seq(Jobs)
    BY DEF TypeOK
  <2>2. GoOn(s, jobs[s], files, {}, {})
    BY DEF StartTransfer
  <2>3. /\ jobs' \in [Senders -> Seq(Jobs)] /\ offers' \in [Senders -> Seq(SUBSET Names)]
        /\ transferAccepted' \in [Senders -> SUBSET Names] /\ doubled' \in BOOLEAN
    <3>1. files \in SUBSET Names /\ {} \in SUBSET Names
      OBVIOUS
    <3> QED
      BY <2>1, <2>2, <3>1, GoOnTypes, Zenon
  <2>4. starts' \in 0..MaxStarts /\ UNCHANGED <<out, answers, dialogVars, lost, stranded>>
    BY DEF StartTransfer, TypeOK
  <2> QED
    BY <2>3, <2>4 DEF TypeOK, dialogVars
<1>2. CASE \E s \in Senders, i \in 1..MaxStarts : HashDone(s, i) /\ UNCHANGED <<lost, stranded>>
  <2> PICK s \in Senders, i \in 1..MaxStarts : HashDone(s, i) /\ UNCHANGED <<lost, stranded>>
    BY <1>2
  <2> DEFINE j == jobs[s][i]
  <2>1. jobs[s] \in Seq(Jobs) /\ i \in 1..Len(jobs[s])
    BY DEF TypeOK, HashDone
  <2>2. j \in Jobs /\ Others(jobs[s], i) \in Seq(Jobs)
    BY <2>1, OthersHits
  <2>3. j.hashing \in Names /\ j.todo \in SUBSET Names /\ j.offered \in SUBSET Names
    BY <2>2 DEF Jobs
  <2>4. /\ GoOn(s, Others(jobs[s], i), j.todo, {j.hashing}, j.offered \cup {j.hashing})
        /\ out' = [out EXCEPT ![s] = @ \cup {j.hashing}]
        /\ UNCHANGED <<starts, answers, dialogVars, lost, stranded>>
    BY DEF HashDone
  <2> HIDE DEF j
  <2>5. /\ jobs' \in [Senders -> Seq(Jobs)] /\ offers' \in [Senders -> Seq(SUBSET Names)]
        /\ transferAccepted' \in [Senders -> SUBSET Names] /\ doubled' \in BOOLEAN
    <3>1. {j.hashing} \in SUBSET Names /\ j.offered \cup {j.hashing} \in SUBSET Names
      BY <2>3
    <3> QED
      BY <2>2, <2>3, <2>4, <3>1, GoOnTypes, Zenon
  <2>6. out' \in [Senders -> SUBSET Names]
    BY <2>3, <2>4 DEF TypeOK
  <2> QED
    BY <2>4, <2>5, <2>6 DEF TypeOK, dialogVars
<1>3. CASE \E s \in Senders : (HandleFileAccept(s) \/ HandleFileReject(s)) /\ UNCHANGED <<lost, stranded>>
  <2> PICK s \in Senders : (HandleFileAccept(s) \/ HandleFileReject(s)) /\ UNCHANGED <<lost, stranded>>
    BY <1>3
  <2>0. answers[s] # <<>> /\ answers' = [answers EXCEPT ![s] = Tail(@)]
    BY DEF HandleFileAccept, HandleFileReject, Answered
  <2>1. answers[s] \in Seq(Answers)
    BY DEF TypeOK
  <2>2. Tail(answers[s]) \in Seq(Answers) /\ Head(answers[s]) \in Answers
    BY <2>0, <2>1, TailHits
  <2>3. answers' \in [Senders -> Seq(Answers)]
    BY <2>0, <2>2 DEF TypeOK
  <2>4. Head(answers[s]).names \in SUBSET Names
    BY <2>2 DEF Answers
  <2>5. transferAccepted' \in [Senders -> SUBSET Names] /\ out' \in [Senders -> SUBSET Names]
    <3> DEFINE names == Head(answers[s]).names
    <3>1. \/ /\ out' = out
             /\ transferAccepted' = [transferAccepted EXCEPT ![s] = @ \cup names]
          \/ /\ out' = [out EXCEPT ![s] = @ \ names]
             /\ transferAccepted' = [transferAccepted EXCEPT ![s] = @ \ names]
      <4>1. CASE HandleFileAccept(s)
        BY <4>1 DEF HandleFileAccept
      <4>2. CASE HandleFileReject(s)
        BY <4>2 DEF HandleFileReject
      <4> QED
        BY <4>1, <4>2
    <3>2. names \in SUBSET Names
      BY <2>4
    <3>3. out \in [Senders -> SUBSET Names] /\ transferAccepted \in [Senders -> SUBSET Names]
      BY DEF TypeOK
    <3> HIDE DEF names
    <3> QED
      BY <3>1, <3>2, <3>3
  <2>6. UNCHANGED <<jobs, starts, doubled, offers, dialogVars, lost, stranded>>
    BY DEF HandleFileAccept, HandleFileReject
  <2> QED
    BY <2>3, <2>5, <2>6 DEF TypeOK, dialogVars
<1>4. CASE \E s \in Senders : HandleFileOffer(s) /\ UNCHANGED <<lost, stranded>>
  <2> PICK s \in Senders : HandleFileOffer(s) /\ UNCHANGED <<lost, stranded>>
    BY <1>4
  <2>1. offers[s] \in Seq(SUBSET Names) /\ offers[s] # <<>>
    BY DEF HandleFileOffer, TypeOK
  <2>2. Tail(offers[s]) \in Seq(SUBSET Names) /\ Head(offers[s]) \in SUBSET Names
    BY <2>1, TailHits
  <2>3. offers' \in [Senders -> Seq(SUBSET Names)]
    BY <2>2 DEF HandleFileOffer, TypeOK
  <2>4. /\ pendingFileOffers' \in Seq(Queues)
        /\ \A i, k \in 1..Len(pendingFileOffers') :
              pendingFileOffers'[i].from = pendingFileOffers'[k].from => i = k
    <3>1. pendingFileOffers' = Queue(s, Head(offers[s]))
      BY DEF HandleFileOffer
    <3> QED
      BY <2>2, <3>1, QueueHits
  <2>5. shown' \in BOOLEAN /\ pendingFileTimer' \in BOOLEAN /\ (pendingFileTimer' => shown')
    BY DEF HandleFileOffer, TypeOK
  <2>6. UNCHANGED <<senderVars, answers, incoming, mixed, blank, lost, stranded>>
    BY DEF HandleFileOffer
  <2> QED
    BY <2>3, <2>4, <2>5, <2>6 DEF TypeOK, senderVars
<1>5. CASE AcceptAllPending /\ UNCHANGED <<lost, stranded>>
  <2>1. \A w \in Waiting : w \in Queues
    BY DEF TypeOK, Waiting, Range
  <2>2. AllNames \in SUBSET Names /\ Agreed \subseteq Senders \X Names
    BY <2>1 DEF AllNames, Agreed, Queues
  <2>3. incoming' \subseteq Senders \X Names
    BY <1>5, <2>2 DEF AcceptAllPending, TypeOK
  <2>4. pendingFileTimer' = FALSE /\ UNCHANGED <<senderVars, offers, lost, stranded>>
    BY <1>5 DEF AcceptAllPending
  <2>5. CASE Waiting = {}
    <3>1. blank' = TRUE /\ UNCHANGED <<answers, pendingFileOffers, shown, mixed>>
      BY <1>5, <2>5 DEF AcceptAllPending
    <3> QED
      BY <2>3, <2>4, <3>1 DEF TypeOK, senderVars
  <2>6. CASE Waiting # {}
    <3>1. /\ answers' = [answers EXCEPT ![First.from] = Answer("accept", First.from, AllNames)]
          /\ pendingFileOffers' = <<>> /\ shown' = FALSE
          /\ mixed' = (mixed \/ \E e \in Waiting : e.from # First.from)
          /\ UNCHANGED blank
      BY <1>5, <2>6 DEF AcceptAllPending
    <3>2. ASSUME First.from \in Senders
          PROVE  Answer("accept", First.from, AllNames) \in Seq(Answers)
      <4>1. [type |-> "accept", names |-> AllNames] \in Answers
        BY <2>2 DEF Answers
      <4>2. answers[First.from] \in Seq(Answers)
        BY <3>2 DEF TypeOK
      <4> QED
        BY <4>1, <4>2, AppendHits DEF Answer
    <3>3. answers' \in [Senders -> Seq(Answers)]
      BY <3>1, <3>2 DEF TypeOK
    <3>4. mixed' \in BOOLEAN
      BY <3>1, Zenon
    <3>5. pendingFileOffers' \in Seq(Queues) /\ Len(pendingFileOffers') = 0
      BY <3>1
    <3>6. \A i, k \in 1..Len(pendingFileOffers') :
             pendingFileOffers'[i].from = pendingFileOffers'[k].from => i = k
      BY <3>5
    <3>7. /\ shown' \in BOOLEAN /\ pendingFileTimer' \in BOOLEAN
          /\ pendingFileTimer' => shown'
          /\ doubled' \in BOOLEAN /\ blank' \in BOOLEAN
      BY <2>4, <3>1, Zenon DEF TypeOK, senderVars
    <3> QED
      BY <2>3, <2>4, <3>3, <3>4, <3>5, <3>6, <3>7 DEF TypeOK, senderVars
  <2> QED
    BY <2>5, <2>6
<1>6. CASE RejectAllPending /\ UNCHANGED <<lost, stranded>>
  <2> DEFINE told(s) == UNION {e.names : e \in {w \in Waiting : w.from = s}}
  <2>1. \A w \in Waiting : w.names \subseteq Names
    <3>1. \A w \in Waiting : w \in Queues
      BY DEF TypeOK, Waiting, Range
    <3> QED
      BY <3>1 DEF Queues
  <2>2. \A s \in Senders : Answer("reject", s, told(s)) \in Seq(Answers)
    <3> TAKE s \in Senders
    <3>1. told(s) \in SUBSET Names
      BY <2>1
    <3> HIDE DEF told
    <3>2. [type |-> "reject", names |-> told(s)] \in Answers
      BY <3>1 DEF Answers
    <3>3. answers[s] \in Seq(Answers)
      BY DEF TypeOK
    <3> QED
      BY <3>2, <3>3, AppendHits DEF Answer
  <2>3. answers' \in [Senders -> Seq(Answers)]
    <3>1. answers' = [s \in Senders |-> IF Rejects(s) THEN Answer("reject", s, told(s))
                                                       ELSE answers[s]]
      BY <1>6 DEF RejectAllPending
    <3> HIDE DEF told
    <3> QED
      BY <2>2, <3>1 DEF TypeOK
  <2>4. /\ pendingFileOffers' = <<>> /\ shown' = FALSE /\ pendingFileTimer' = FALSE
        /\ UNCHANGED <<senderVars, offers, incoming, mixed, blank, lost, stranded>>
    BY <1>6 DEF RejectAllPending
  <2>5. pendingFileOffers' \in Seq(Queues) /\ Len(pendingFileOffers') = 0
    BY <2>4
  <2> QED
    <3>1. \A i, k \in 1..Len(pendingFileOffers') :
             pendingFileOffers'[i].from = pendingFileOffers'[k].from => i = k
      BY <2>5
    <3>2. /\ shown' \in BOOLEAN /\ pendingFileTimer' \in BOOLEAN
          /\ pendingFileTimer' => shown'
          /\ doubled' \in BOOLEAN /\ mixed' \in BOOLEAN /\ blank' \in BOOLEAN
      BY <2>4, Zenon DEF TypeOK, senderVars
    <3> QED
      BY <2>3, <2>4, <2>5, <3>1, <3>2 DEF TypeOK, senderVars
<1>7. CASE \E s \in Senders : Lose(s)
  <2> PICK s \in Senders : Lose(s)
    BY <1>7
  <2>1. offers[s] # <<>> => Tail(offers[s]) \in Seq(SUBSET Names)
    <3>1. offers[s] \in Seq(SUBSET Names)
      BY DEF TypeOK
    <3> QED
      BY <3>1, TailHits
  <2>2. answers[s] # <<>> => Tail(answers[s]) \in Seq(Answers)
    <3>1. answers[s] \in Seq(Answers)
      BY DEF TypeOK
    <3> QED
      BY <3>1, TailHits
  <2>3. offers' \in [Senders -> Seq(SUBSET Names)] /\ answers' \in [Senders -> Seq(Answers)]
    BY <2>1, <2>2 DEF Lose, TypeOK
  <2>4. lost' \subseteq Senders /\ UNCHANGED <<senderVars, dialogVars, stranded>>
    BY DEF Lose, TypeOK
  <2> QED
    BY <2>3, <2>4 DEF TypeOK, senderVars, dialogVars
<1>8. CASE \E s \in Senders, i \in 1..MaxStarts : CallFails(s, i)
  <2> PICK s \in Senders, i \in 1..MaxStarts : CallFails(s, i)
    BY <1>8
  <2> DEFINE j == jobs[s][i]
  <2>1. jobs[s] \in Seq(Jobs) /\ i \in 1..Len(jobs[s])
    BY DEF TypeOK, CallFails
  <2>2. j \in Jobs /\ Others(jobs[s], i) \in Seq(Jobs)
    BY <2>1, OthersHits
  <2>3. j.hashing \in Names /\ j.offered \in SUBSET Names
    BY <2>2 DEF Jobs
  <2> PICK digested \in {{}, {j.hashing}} :
              /\ out' = [out EXCEPT ![s] = @ \cup digested]
              /\ stranded' = stranded \cup ({s} \X (j.offered \cup digested))
    BY DEF CallFails
  <2>4. /\ jobs' = [jobs EXCEPT ![s] = Others(@, i)]
        /\ UNCHANGED <<starts, transferAccepted, doubled, offers, answers, dialogVars, lost>>
    BY DEF CallFails
  <2> HIDE DEF j
  <2>5. jobs' \in [Senders -> Seq(Jobs)]
    BY <2>2, <2>4 DEF TypeOK
  <2>6. digested \in SUBSET Names
    BY <2>3
  <2>7. out' \in [Senders -> SUBSET Names] /\ stranded' \subseteq Senders \X Names
    BY <1>0, <2>3, <2>6 DEF TypeOK
  <2> QED
    BY <2>4, <2>5, <2>7 DEF TypeOK, dialogVars
<1> QED
  BY <1>1, <1>2, <1>3, <1>4, <1>5, <1>6, <1>7, <1>8, NextCases

-------------------------------------------------------------------------------
(* What was agreed to.                                                         *)

\* A call only takes consent away.
LEMMA GoOnAccepted ==
    ASSUME TypeOK, NEW s \in Senders, NEW others, NEW todo, NEW done, NEW offered,
           GoOn(s, others, todo, done, offered)
    PROVE  \A t \in Senders : transferAccepted'[t] \subseteq transferAccepted[t]
<1>1. \/ transferAccepted' = transferAccepted
      \/ \E n : transferAccepted' = [transferAccepted EXCEPT ![s] = @ \ {n}]
  BY Zenon DEF GoOn
<1> QED
  BY <1>1 DEF TypeOK

LEMMA AgreedStep ==
    ASSUME TypeOK, AgreedInv, Next
    PROVE  AgreedInv'
<1> DEFINE Told(s, i, n) == answers[s][i].type = "accept" /\ n \in answers[s][i].names
<1>0. SUFFICES ASSUME ~mixed', NEW s \in Senders, NEW n \in Names
               PROVE  /\ n \in transferAccepted'[s] => <<s, n>> \in incoming'
                      /\ \A i \in 1..Len(answers'[s]) :
                            Told(s, i, n)' => <<s, n>> \in incoming'
  BY DEF AgreedInv
<1>1. CASE UNCHANGED <<answers, dialogVars>>
           /\ \A t \in Senders : transferAccepted'[t] \subseteq transferAccepted[t]
  BY <1>0, <1>1 DEF AgreedInv, dialogVars
<1>2. CASE \E r \in Senders, files \in SUBSET Names : StartTransfer(r, files) /\ UNCHANGED <<lost, stranded>>
  <2> PICK r \in Senders, files \in SUBSET Names : StartTransfer(r, files)
    BY <1>2
  <2>1. GoOn(r, jobs[r], files, {}, {}) /\ UNCHANGED <<answers, dialogVars>>
    BY DEF StartTransfer
  <2> QED
    BY <1>1, <2>1, GoOnAccepted, Zenon
<1>3. CASE \E r \in Senders, i \in 1..MaxStarts : HashDone(r, i) /\ UNCHANGED <<lost, stranded>>
  <2> PICK r \in Senders, i \in 1..MaxStarts : HashDone(r, i)
    BY <1>3
  <2>1. /\ GoOn(r, Others(jobs[r], i), jobs[r][i].todo, {jobs[r][i].hashing},
                jobs[r][i].offered \cup {jobs[r][i].hashing})
        /\ UNCHANGED <<answers, dialogVars>>
    BY DEF HashDone
  <2> QED
    BY <1>1, <2>1, GoOnAccepted, Zenon
<1>4. ASSUME NEW r \in Senders, answers[r] # <<>>,
             answers' = [answers EXCEPT ![r] = Tail(@)],
             UNCHANGED <<incoming, mixed>>,
             \A t \in Senders, m \in Names :
                m \in transferAccepted'[t] =>
                   \/ m \in transferAccepted[t]
                   \/ t = r /\ Head(answers[r]).type = "accept" /\ m \in Head(answers[r]).names
      PROVE  AgreedInv'
  <2>1. answers[r] \in Seq(Answers)
    BY DEF TypeOK
  <2>2. /\ Tail(answers[r]) \in Seq(Answers) /\ Len(Tail(answers[r])) = Len(answers[r]) - 1
        /\ \A i \in 1..Len(Tail(answers[r])) : Tail(answers[r])[i] = answers[r][i + 1]
    BY <2>1, <1>4, TailHits
  <2>3. Len(answers[r]) \in Nat \ {0} /\ Head(answers[r]) = answers[r][1]
    BY <2>1, <1>4
  <2>4. answers'[r] = Tail(answers[r]) /\ \A t \in Senders \ {r} : answers'[t] = answers[t]
    BY <1>4 DEF TypeOK
  <2>5. ASSUME NEW t \in Senders, NEW m \in Names, NEW i \in 1..Len(answers'[t])
        PROVE  \E k \in 1..Len(answers[t]) : answers'[t][i] = answers[t][k]
    <3>1. CASE t = r
      <4>1. i \in 1..Len(Tail(answers[r])) /\ answers'[r][i] = Tail(answers[r])[i]
        BY <2>4, <3>1
      <4>2. i + 1 \in 1..Len(answers[r])
        BY <2>2, <2>3, <4>1
      <4>3. Tail(answers[r])[i] = answers[r][i + 1]
        BY <2>2, <4>1
      <4> QED
        BY <3>1, <4>1, <4>2, <4>3
    <3> QED
      BY <2>4, <3>1
  <2>6. ~mixed' => ~mixed
    BY <1>4
  <2>7. Head(answers[r]) = answers[r][1] /\ 1 \in 1..Len(answers[r])
    BY <2>3
  <2>8. ASSUME ~mixed', NEW t \in Senders, NEW m \in Names
        PROVE  /\ m \in transferAccepted'[t] => <<t, m>> \in incoming'
               /\ \A i \in 1..Len(answers'[t]) :
                     answers'[t][i].type = "accept" /\ m \in answers'[t][i].names
                        => <<t, m>> \in incoming'
    <3>1. /\ m \in transferAccepted[t] => <<t, m>> \in incoming'
          /\ \A k \in 1..Len(answers[t]) :
                answers[t][k].type = "accept" /\ m \in answers[t][k].names
                   => <<t, m>> \in incoming'
      BY <1>4, <2>6, <2>8 DEF AgreedInv
    <3>2. m \in transferAccepted'[t] => <<t, m>> \in incoming'
      BY <1>4, <2>7, <3>1
    <3>3. ASSUME NEW i \in 1..Len(answers'[t]), answers'[t][i].type = "accept",
                 m \in answers'[t][i].names
          PROVE  <<t, m>> \in incoming'
      <4> PICK k \in 1..Len(answers[t]) : answers'[t][i] = answers[t][k]
        BY <2>5
      <4> QED
        BY <3>1, <3>3
    <3> QED
      BY <3>2, <3>3
  <2> QED
    BY <2>8 DEF AgreedInv
<1>5. CASE \E r \in Senders : HandleFileAccept(r) /\ UNCHANGED <<lost, stranded>>
  <2> PICK r \in Senders : HandleFileAccept(r)
    BY <1>5
  <2>1. answers[r] # <<>> /\ answers' = [answers EXCEPT ![r] = Tail(@)]
        /\ Head(answers[r]).type = "accept" /\ UNCHANGED <<incoming, mixed>>
    BY DEF HandleFileAccept, Answered, dialogVars
  <2>2. \A t \in Senders, m \in Names :
           m \in transferAccepted'[t] => m \in transferAccepted[t]
                                         \/ (t = r /\ m \in Head(answers[r]).names)
    BY DEF HandleFileAccept, TypeOK
  <2> QED
    BY <1>0, <1>4, <2>1, <2>2 DEF AgreedInv
<1>6. CASE \E r \in Senders : HandleFileReject(r) /\ UNCHANGED <<lost, stranded>>
  <2> PICK r \in Senders : HandleFileReject(r)
    BY <1>6
  <2>1. answers[r] # <<>> /\ answers' = [answers EXCEPT ![r] = Tail(@)]
        /\ UNCHANGED <<incoming, mixed>>
    BY DEF HandleFileReject, Answered, dialogVars
  <2>2. \A t \in Senders, m \in Names : m \in transferAccepted'[t] => m \in transferAccepted[t]
    BY DEF HandleFileReject, TypeOK
  <2> QED
    BY <1>0, <1>4, <2>1, <2>2 DEF AgreedInv
<1>7. CASE \E r \in Senders : HandleFileOffer(r) /\ UNCHANGED <<lost, stranded>>
  <2>1. UNCHANGED <<transferAccepted, answers, incoming, mixed>>
    BY <1>7 DEF HandleFileOffer, senderVars
  <2> QED
    BY <1>0, <2>1 DEF AgreedInv
<1>8. CASE \E r \in Senders : Lose(r)
  <2> PICK r \in Senders : Lose(r)
    BY <1>8
  <2>1. UNCHANGED <<transferAccepted, incoming, mixed>>
    BY DEF Lose, senderVars, dialogVars
  <2>2. CASE answers[r] # <<>> /\ answers' = [answers EXCEPT ![r] = Tail(@)]
    BY <1>0, <1>4, <2>1, <2>2 DEF AgreedInv
  <2>3. CASE UNCHANGED answers
    BY <1>0, <2>1, <2>3 DEF AgreedInv
  <2> QED
    BY <2>2, <2>3 DEF Lose
<1>9. CASE AcceptAllPending /\ UNCHANGED <<lost, stranded>>
  <2>1. incoming' = incoming \cup Agreed /\ transferAccepted' = transferAccepted
    BY <1>9 DEF AcceptAllPending, senderVars
  <2>2. CASE Waiting = {}
    BY <1>0, <1>9, <2>1, <2>2 DEF AgreedInv, AcceptAllPending
  <2>3. CASE Waiting # {}
    <3>1. /\ answers' = [answers EXCEPT ![First.from] = Answer("accept", First.from, AllNames)]
          /\ mixed' = (mixed \/ \E e \in Waiting : e.from # First.from)
      BY <1>9, <2>3 DEF AcceptAllPending
    <3>2. ~mixed /\ \A e \in Waiting : e.from = First.from
      BY <1>0, <3>1
    <3>3. s = First.from /\ n \in AllNames => <<s, n>> \in Agreed
      <4>1. SUFFICES ASSUME s = First.from, n \in AllNames
                     PROVE  <<s, n>> \in Agreed
        OBVIOUS
      <4>2. PICK e \in Waiting : n \in e.names
        BY <4>1 DEF AllNames
      <4>3. <<s, n>> \in {e.from} \X e.names
        BY <3>2, <4>1, <4>2
      <4> QED
        BY <4>2, <4>3 DEF Agreed
    <3>4. answers[s] \in Seq(Answers) /\ Len(answers[s]) \in Nat
      BY DEF TypeOK
    <3>5. CASE s = First.from
      <4> DEFINE a == [type |-> "accept", names |-> AllNames]
      <4>1. answers'[s] = Append(answers[s], a)
        BY <3>1, <3>5 DEF TypeOK, Answer
      <4>2. Len(answers'[s]) = Len(answers[s]) + 1 /\ answers'[s][Len(answers[s]) + 1] = a
            /\ \A i \in 1..Len(answers[s]) : answers'[s][i] = answers[s][i]
        BY <3>4, <4>1
      <4>3. a.names = AllNames
        OBVIOUS
      <4> HIDE DEF a
      <4>4. ASSUME NEW i \in 1..Len(answers'[s]), Told(s, i, n)'
            PROVE  <<s, n>> \in incoming'
        <5>1. CASE i \in 1..Len(answers[s])
          BY <2>1, <3>2, <4>2, <4>4, <5>1 DEF AgreedInv
        <5>2. CASE i = Len(answers[s]) + 1
          BY <2>1, <3>3, <3>5, <4>2, <4>3, <4>4, <5>2
        <5> QED
          BY <3>4, <4>2, <5>1, <5>2
      <4> QED
        BY <2>1, <3>2, <4>4 DEF AgreedInv
    <3>6. CASE s # First.from
      <4>1. answers'[s] = answers[s]
        BY <3>1, <3>6 DEF TypeOK
      <4> QED
        BY <2>1, <3>2, <4>1 DEF AgreedInv
    <3> QED
      BY <3>5, <3>6
  <2> QED
    BY <2>2, <2>3
<1>10. CASE RejectAllPending /\ UNCHANGED <<lost, stranded>>
  <2>1. UNCHANGED <<transferAccepted, incoming, mixed>>
    BY <1>10 DEF RejectAllPending, senderVars
  <2>2. answers[s] \in Seq(Answers) /\ Len(answers[s]) \in Nat
    BY DEF TypeOK
  <2>3. \/ answers'[s] = answers[s]
        \/ \E names : answers'[s] = Append(answers[s], [type |-> "reject", names |-> names])
    BY <1>10 DEF RejectAllPending, Answer
  <2>4. CASE answers'[s] = answers[s]
    BY <1>0, <2>1, <2>4 DEF AgreedInv
  <2>5. CASE \E names : answers'[s] = Append(answers[s], [type |-> "reject", names |-> names])
    <3> PICK names : answers'[s] = Append(answers[s], [type |-> "reject", names |-> names])
      BY <2>5
    <3>1. Len(answers'[s]) = Len(answers[s]) + 1 /\ answers'[s][Len(answers[s]) + 1].type = "reject"
          /\ \A i \in 1..Len(answers[s]) : answers'[s][i] = answers[s][i]
      BY <2>2
    <3>2. ASSUME NEW i \in 1..Len(answers'[s]), Told(s, i, n)'
          PROVE  i \in 1..Len(answers[s]) /\ answers'[s][i] = answers[s][i]
      BY <2>2, <3>1, <3>2
    <3> QED
      BY <1>0, <2>1, <3>2 DEF AgreedInv
  <2> QED
    BY <2>3, <2>4, <2>5
<1>11. CASE \E r \in Senders, i \in 1..MaxStarts : CallFails(r, i)
  <2>1. UNCHANGED <<transferAccepted, answers, dialogVars>>
    BY <1>11 DEF CallFails
  <2> QED
    BY <1>1, <2>1
<1> QED
  BY <1>2, <1>3, <1>5, <1>6, <1>7, <1>8, <1>9, <1>10, <1>11, NextCases

-------------------------------------------------------------------------------
(* A name on its way.                                                          *)

\* A set that may only have shrunk, for what Single says of it.
Less(R, S) == (R # {} => S # {}) /\ (One(S) => One(R))

LEMMA SingleKept ==
    ASSUME NEW s \in Senders, NEW n \in Names, Single(s, n),
           Less(Hashing(s, n)', Hashing(s, n)), Less(InCall(s, n)', InCall(s, n)),
           Less(InOffer(s, n)', InOffer(s, n)), Less(InDialog(s, n)', InDialog(s, n)),
           Less(InAnswer(s, n)', InAnswer(s, n)),
           n \in out'[s] <=> n \in out[s],
           n \in transferAccepted'[s] <=> n \in transferAccepted[s]
    PROVE  Single(s, n)'
BY DEF Single, Idle, Less

\* What a name that has been digested and waits is not.
LEMMA OnTheWay ==
    ASSUME NEW s \in Senders, NEW n \in Names, Single(s, n), ~Idle(s, n)
    PROVE  n \in out[s] /\ n \notin transferAccepted[s] /\ Hashing(s, n) = {}
BY DEF Single

\* One step of a call of the same sender, as the sets see it.
Moves(s, n, others, done, offered) ==
    /\ \A t \in Senders \ {s} : /\ jobs'[t] = jobs[t] /\ offers'[t] = offers[t]
                                /\ transferAccepted'[t] = transferAccepted[t]
    /\ \/ /\ Hashing(s, n)' = Digesting(others, n) /\ InCall(s, n)' = Offering(others, n)
          /\ InOffer(s, n)' = InOffer(s, n) \cup
                              (IF n \in offered THEN {Len(offers[s]) + 1} ELSE {})
          /\ transferAccepted' = transferAccepted
       \/ \E m \in Names :
             /\ m \notin out[s] \cup done
             /\ Hashing(s, n)' = Digesting(others, n) \cup
                                 (IF n = m THEN {Len(others) + 1} ELSE {})
             /\ InCall(s, n)' = Offering(others, n) \cup
                                (IF n \in offered THEN {Len(others) + 1} ELSE {})
             /\ InOffer(s, n)' = InOffer(s, n)
             /\ transferAccepted'[s] = transferAccepted[s] \ {m}
             /\ ~doubled' /\ n = m => Digesting(others, n) = {}

LEMMA GoOnHits ==
    ASSUME TypeOK, NEW s \in Senders, NEW n \in Names, NEW others \in Seq(Jobs),
           NEW todo \in SUBSET Names, NEW done \in SUBSET Names,
           NEW offered \in SUBSET Names, GoOn(s, others, todo, done, offered)
    PROVE  Moves(s, n, others, done, offered)
<1> DEFINE H == Digesting(others, n)
           C == Offering(others, n)
<1>1. CASE /\ jobs' = [jobs EXCEPT ![s] = others]
           /\ offers' = [offers EXCEPT ![s] = Append(@, offered)]
           /\ UNCHANGED <<transferAccepted, doubled>>
  <2>1. offers[s] \in Seq(SUBSET Names)
    BY DEF TypeOK
  <2>2. Hits(Append(offers[s], offered), {o \in SUBSET Names : n \in o})
          = Hits(offers[s], {o \in SUBSET Names : n \in o})
              \cup (IF offered \in {o \in SUBSET Names : n \in o} THEN {Len(offers[s]) + 1} ELSE {})
    BY <2>1, AppendHits
  <2>3. jobs'[s] = others /\ offers'[s] = Append(offers[s], offered)
    BY <1>1 DEF TypeOK
  <2>4. Hashing(s, n)' = H /\ InCall(s, n)' = C
    BY <2>3 DEF Hashing, InCall, Digesting, Offering
  <2>5. InOffer(s, n)' = InOffer(s, n) \cup
                            (IF n \in offered THEN {Len(offers[s]) + 1} ELSE {})
    BY <2>2, <2>3 DEF InOffer
  <2>6. \A t \in Senders \ {s} : jobs'[t] = jobs[t] /\ offers'[t] = offers[t]
    BY <1>1 DEF TypeOK
  <2> QED
    BY <1>1, <2>4, <2>5, <2>6 DEF Moves
<1>2. CASE \E m \in todo \ Skipped(s, done), skipped \in SUBSET (todo \cap Skipped(s, done)) :
             /\ jobs' = [jobs EXCEPT ![s] =
                            Append(others, Job(m, todo \ ({m} \cup skipped), offered))]
             /\ transferAccepted' = [transferAccepted EXCEPT ![s] = @ \ {m}]
             /\ doubled' = (doubled \/ m \in {others[i].hashing : i \in 1..Len(others)})
             /\ UNCHANGED offers
  <2> PICK m \in todo \ Skipped(s, done), skipped \in SUBSET todo :
             /\ jobs' = [jobs EXCEPT ![s] =
                            Append(others, Job(m, todo \ ({m} \cup skipped), offered))]
             /\ transferAccepted' = [transferAccepted EXCEPT ![s] = @ \ {m}]
             /\ doubled' = (doubled \/ m \in {others[i].hashing : i \in 1..Len(others)})
             /\ UNCHANGED offers
    BY <1>2
  <2> DEFINE j == Job(m, todo \ ({m} \cup skipped), offered)
  <2>1. j \in Jobs /\ j.hashing = m /\ j.offered = offered
    BY DEF Job, Jobs
  <2>2. m \in Names /\ m \notin out[s] \cup done
    BY DEF Skipped
  <2>3. jobs' = [jobs EXCEPT ![s] = Append(others, j)]
    OBVIOUS
  <2> HIDE DEF j
  <2>4. jobs'[s] = Append(others, j)
    BY <2>3 DEF TypeOK
  <2>5. Hits(Append(others, j), {k \in Jobs : k.hashing = n})
          = H \cup (IF j \in {k \in Jobs : k.hashing = n} THEN {Len(others) + 1} ELSE {})
    BY <2>1, AppendHits DEF Digesting
  <2>6. Hits(Append(others, j), {k \in Jobs : n \in k.offered})
          = C \cup (IF j \in {k \in Jobs : n \in k.offered} THEN {Len(others) + 1} ELSE {})
    BY <2>1, AppendHits DEF Offering
  <2>7. Hashing(s, n)' = H \cup (IF n = m THEN {Len(others) + 1} ELSE {})
    BY <2>1, <2>4, <2>5 DEF Hashing, Digesting
  <2>8. InCall(s, n)' = C \cup (IF n \in offered THEN {Len(others) + 1} ELSE {})
    BY <2>1, <2>4, <2>6 DEF InCall, Offering
  <2>9. InOffer(s, n)' = InOffer(s, n)
    BY DEF InOffer
  <2>10. transferAccepted'[s] = transferAccepted[s] \ {m}
    BY DEF TypeOK
  <2>11. ~doubled' /\ n = m => H = {}
    BY DEF Hits, Digesting
  <2>12. \A t \in Senders \ {s} : /\ jobs'[t] = jobs[t] /\ offers'[t] = offers[t]
                                  /\ transferAccepted'[t] = transferAccepted[t]
    BY <2>3 DEF TypeOK
  <2> QED
    BY <2>2, <2>7, <2>8, <2>9, <2>10, <2>11, <2>12 DEF Moves
<1> QED
  BY <1>1, <1>2 DEF GoOn

\* Nothing of a name changes in a step of another sender.
LEMMA Elsewhere ==
    ASSUME NEW s \in Senders, NEW n \in Names, Single(s, n),
           jobs'[s] = jobs[s], offers'[s] = offers[s], answers'[s] = answers[s],
           out'[s] = out[s], transferAccepted'[s] = transferAccepted[s],
           Less(InDialog(s, n)', InDialog(s, n))
    PROVE  Single(s, n)'
<1>1. /\ Hashing(s, n)' = Hashing(s, n) /\ InCall(s, n)' = InCall(s, n)
      /\ InOffer(s, n)' = InOffer(s, n) /\ InAnswer(s, n)' = InAnswer(s, n)
  BY DEF Hashing, InCall, InOffer, InAnswer
<1>2. \A S : Less(S, S)
  BY DEF Less
<1> QED
  BY <1>1, <1>2, SingleKept

\* A click on "send": a new call, which may digest a first name.
LEMMA SingleStart ==
    ASSUME TypeOK, NEW r \in Senders, NEW files \in SUBSET Names,
           StartTransfer(r, files), ~doubled',
           NEW s \in Senders, NEW n \in Names, Single(s, n)
    PROVE  Single(s, n)'
<1>1. GoOn(r, jobs[r], files, {}, {}) /\ UNCHANGED <<out, answers, dialogVars>>
  BY DEF StartTransfer
<1>2. InDialog(s, n)' = InDialog(s, n) /\ InAnswer(s, n)' = InAnswer(s, n)
  BY <1>1 DEF InDialog, InAnswer, dialogVars
<1>3. \A S : Less(S, S)
  BY DEF Less
<1>4. Moves(r, n, jobs[r], {}, {})
  <2>1. jobs[r] \in Seq(Jobs) /\ {} \in SUBSET Names
    BY DEF TypeOK
  <2> QED
    BY <1>1, <2>1, GoOnHits, Zenon
<1>5. CASE s # r
  <2>1. /\ jobs'[s] = jobs[s] /\ offers'[s] = offers[s]
        /\ transferAccepted'[s] = transferAccepted[s]
    BY <1>4, <1>5 DEF Moves
  <2> QED
    BY <1>1, <1>2, <1>3, <2>1, Elsewhere
<1>6. CASE s = r
  <2>1. \/ /\ Hashing(s, n)' = Hashing(s, n) /\ InCall(s, n)' = InCall(s, n)
           /\ InOffer(s, n)' = InOffer(s, n)
           /\ transferAccepted' = transferAccepted
        \/ \E m \in Names :
              /\ m \notin out[s]
              /\ Hashing(s, n)' = Hashing(s, n) \cup
                                     (IF n = m THEN {Len(jobs[s]) + 1} ELSE {})
              /\ InCall(s, n)' = InCall(s, n) /\ InOffer(s, n)' = InOffer(s, n)
              /\ transferAccepted'[s] = transferAccepted[s] \ {m}
              /\ n = m => Hashing(s, n) = {}
    <3>1. Digesting(jobs[r], n) = Hashing(s, n) /\ Offering(jobs[r], n) = InCall(s, n)
      BY <1>6 DEF Hashing, InCall
    <3> QED
      BY <1>4, <1>6, <3>1 DEF Moves
  <2>2. CASE /\ Hashing(s, n)' = Hashing(s, n) /\ InCall(s, n)' = InCall(s, n)
             /\ InOffer(s, n)' = InOffer(s, n)
             /\ transferAccepted' = transferAccepted
    BY <1>1, <1>2, <1>3, <2>2, SingleKept
  <2>3. ASSUME NEW m \in Names, m \notin out[s],
               Hashing(s, n)' = Hashing(s, n) \cup
                                   (IF n = m THEN {Len(jobs[s]) + 1} ELSE {}),
               InCall(s, n)' = InCall(s, n), InOffer(s, n)' = InOffer(s, n),
               transferAccepted'[s] = transferAccepted[s] \ {m},
               n = m => Hashing(s, n) = {}
        PROVE  Single(s, n)'
    <3>1. CASE n # m
      <4>1. Hashing(s, n)' = Hashing(s, n)
            /\ (n \in transferAccepted'[s] <=> n \in transferAccepted[s])
        BY <2>3, <3>1
      <4> QED
        BY <1>1, <1>2, <1>3, <2>3, <4>1, SingleKept
    <3>2. CASE n = m
      <4>1. n \notin out[s] /\ n \notin out'[s] /\ n \notin transferAccepted'[s]
        BY <1>1, <2>3, <3>2
      <4>2. One(Hashing(s, n)')
        BY <2>3, <3>2 DEF One
      <4>3. Idle(s, n)
        BY <4>1 DEF Single
      <4> QED
        BY <1>2, <2>3, <4>1, <4>2, <4>3 DEF Single, Idle
    <3> QED
      BY <3>1, <3>2
  <2> QED
    BY <2>1, <2>2, <2>3
<1> QED
  BY <1>5, <1>6

\* The end of a digest: its name has an entry and is in the offer of its call.
LEMMA SingleHash ==
    ASSUME TypeOK, NEW r \in Senders, NEW i \in 1..MaxStarts,
           HashDone(r, i), ~doubled',
           NEW s \in Senders, NEW n \in Names, Single(s, n)
    PROVE  Single(s, n)'
<1> DEFINE j == jobs[r][i]
           others == Others(jobs[r], i)
           offered == j.offered \cup {j.hashing}
           H == Digesting(others, n)
           C == Offering(others, n)
<1>1. /\ GoOn(r, others, j.todo, {j.hashing}, offered)
      /\ out' = [out EXCEPT ![r] = @ \cup {j.hashing}]
      /\ UNCHANGED <<answers, dialogVars>>
  BY DEF HashDone
<1>2. InDialog(s, n)' = InDialog(s, n) /\ InAnswer(s, n)' = InAnswer(s, n)
  BY <1>1 DEF InDialog, InAnswer, dialogVars
<1>3. \A S : Less(S, S)
  BY DEF Less
<1>4. jobs[r] \in Seq(Jobs) /\ i \in 1..Len(jobs[r])
  BY DEF TypeOK, HashDone
<1>5. others \in Seq(Jobs) /\ j \in Jobs
  BY <1>4, OthersHits
<1>6. /\ j.hashing \in Names /\ j.todo \in SUBSET Names /\ offered \in SUBSET Names
      /\ {j.hashing} \in SUBSET Names
  BY <1>5 DEF Jobs
<1>7. \* what the other calls hold, and what this one held
      s = r => /\ Less(H, Hashing(s, n)) /\ Less(C, InCall(s, n))
               /\ j.hashing = n => /\ Hashing(s, n) # {}
                                   /\ One(Hashing(s, n)) => H = {}
               /\ n \in j.offered => /\ InCall(s, n) # {}
                                     /\ One(InCall(s, n)) => C = {}
  <2>1. /\ Less(H, Digesting(jobs[r], n))
        /\ j.hashing = n => /\ Digesting(jobs[r], n) # {}
                            /\ One(Digesting(jobs[r], n)) => H = {}
    <3> DEFINE T == {k \in Jobs : k.hashing = n}
    <3>1. j.hashing = n => j \in T
      BY <1>5
    <3>2. H = Hits(others, T) /\ Digesting(jobs[r], n) = Hits(jobs[r], T)
      BY DEF Digesting
    <3> HIDE DEF T, H
    <3> QED
      BY <1>4, <3>1, <3>2, OthersHits DEF Less
  <2>2. /\ Less(C, Offering(jobs[r], n))
        /\ n \in j.offered => /\ Offering(jobs[r], n) # {}
                              /\ One(Offering(jobs[r], n)) => C = {}
    <3> DEFINE T == {k \in Jobs : n \in k.offered}
    <3>1. n \in j.offered => j \in T
      BY <1>5
    <3>2. C = Hits(others, T) /\ Offering(jobs[r], n) = Hits(jobs[r], T)
      BY DEF Offering
    <3> HIDE DEF T, C
    <3> QED
      BY <1>4, <3>1, <3>2, OthersHits DEF Less
  <2> QED
    BY <2>1, <2>2 DEF Hashing, InCall
<1>8. Moves(r, n, others, {j.hashing}, offered)
  <2> HIDE DEF j, others, offered
  <2> QED
    BY <1>1, <1>5, <1>6, GoOnHits, Zenon
<1> HIDE DEF j, others, H, C
<1>9. CASE s # r
  <2>1. out'[s] = out[s]
    BY <1>1, <1>9 DEF TypeOK
  <2>2. /\ jobs'[s] = jobs[s] /\ offers'[s] = offers[s]
        /\ transferAccepted'[s] = transferAccepted[s]
    BY <1>8, <1>9 DEF Moves
  <2> QED
    BY <1>1, <1>2, <1>3, <2>1, <2>2, Elsewhere
<1>10. CASE s = r
  <2>0. \/ /\ Hashing(s, n)' = H /\ InCall(s, n)' = C
           /\ InOffer(s, n)' = InOffer(s, n) \cup
                                  (IF n \in offered THEN {Len(offers[s]) + 1} ELSE {})
           /\ transferAccepted' = transferAccepted
        \/ \E m \in Names :
              /\ m \notin out[s] \cup {j.hashing}
              /\ Hashing(s, n)' = H \cup (IF n = m THEN {Len(others) + 1} ELSE {})
              /\ InCall(s, n)' = C \cup (IF n \in offered THEN {Len(others) + 1} ELSE {})
              /\ InOffer(s, n)' = InOffer(s, n)
              /\ transferAccepted'[s] = transferAccepted[s] \ {m}
              /\ n = m => H = {}
    BY <1>8, <1>10 DEF Moves, H, C
  <2>1. out'[s] = out[s] \cup {j.hashing}
    BY <1>1, <1>10 DEF TypeOK
  <2>2. n \in offered <=> n = j.hashing \/ n \in j.offered
    OBVIOUS
  <2>3. CASE n = j.hashing
    <3>1. n \notin out[s] /\ n \notin transferAccepted[s] /\ H = {}
      BY <1>7, <1>10, <2>3 DEF Single
    <3>2. Idle(s, n) /\ C = {}
      BY <1>7, <1>10, <3>1 DEF Single, Idle, Less
    <3>3. n \in out'[s] /\ n \notin transferAccepted'[s] /\ Hashing(s, n)' = {}
      BY <2>0, <2>1, <2>3, <3>1
    <3>4. \/ InCall(s, n)' = {} /\ \E k : InOffer(s, n)' = {k}
          \/ InOffer(s, n)' = {} /\ \E k : InCall(s, n)' = {k}
      <4>1. n \in offered /\ InOffer(s, n) = {}
        BY <2>2, <2>3, <3>2 DEF Idle
      <4> HIDE DEF offered
      <4> QED
        BY <2>0, <3>2, <4>1
    <3> QED
      BY <1>2, <3>2, <3>3, <3>4 DEF Single, Idle, One
  <2>4. CASE n # j.hashing /\ n \in j.offered
    <3>1. InCall(s, n) # {} /\ C = {}
      BY <1>7, <1>10, <2>4 DEF Single
    <3>2. /\ n \in out[s] /\ n \notin transferAccepted[s] /\ Hashing(s, n) = {}
          /\ InOffer(s, n) = {} /\ InDialog(s, n) = {} /\ InAnswer(s, n) = {}
      BY <3>1, OnTheWay DEF Single, Idle
    <3>3. H = {}
      BY <1>7, <1>10, <3>2 DEF Less
    <3>4. n \in out'[s] /\ n \notin transferAccepted'[s] /\ Hashing(s, n)' = {}
      BY <2>0, <2>1, <3>2, <3>3
    <3>5. \/ InCall(s, n)' = {} /\ \E k : InOffer(s, n)' = {k}
          \/ InOffer(s, n)' = {} /\ \E k : InCall(s, n)' = {k}
      <4>1. n \in offered
        BY <2>2, <2>4
      <4> HIDE DEF offered
      <4>2. CASE InCall(s, n)' = C
        BY <2>0, <3>1, <3>2, <4>1, <4>2
      <4>3. CASE InOffer(s, n)' = InOffer(s, n) /\ InCall(s, n)' = C \cup {Len(others) + 1}
        BY <3>1, <3>2, <4>3
      <4> QED
        BY <2>0, <4>1, <4>2, <4>3
    <3> QED
      BY <1>2, <3>2, <3>4, <3>5 DEF Single, Idle, One
  <2>5. CASE n # j.hashing /\ n \notin j.offered
    <3>1. n \notin offered /\ (n \in out'[s] <=> n \in out[s])
      BY <2>1, <2>2, <2>5
    <3>2. Less(H, Hashing(s, n)) /\ Less(C, InCall(s, n))
      BY <1>7, <1>10
    <3>3. CASE /\ Hashing(s, n)' = H /\ InCall(s, n)' = C
               /\ InOffer(s, n)' = InOffer(s, n)
               /\ (n \in transferAccepted'[s] <=> n \in transferAccepted[s])
      BY <1>2, <1>3, <3>1, <3>2, <3>3, SingleKept
    <3>4. CASE /\ n \notin out[s] /\ n \notin transferAccepted'[s]
               /\ \E k : Hashing(s, n)' = {k}
               /\ InCall(s, n)' = C /\ InOffer(s, n)' = InOffer(s, n)
      <4>1. Idle(s, n) /\ C = {}
        BY <3>2, <3>4 DEF Single, Idle, Less
      <4> QED
        BY <1>2, <3>1, <3>4, <4>1 DEF Single, Idle, One
    <3> QED
      BY <2>0, <3>1, <3>3, <3>4
  <2> QED
    BY <2>3, <2>4, <2>5
<1> QED
  BY <1>9, <1>10

\* The end of a call that fails: the files in it are on their way no more.
LEMMA SingleFail ==
    ASSUME TypeOK, NEW r \in Senders, NEW i \in 1..MaxStarts, CallFails(r, i),
           NEW s \in Senders, NEW n \in Names, Single(s, n)
    PROVE  Single(s, n)'
<1> DEFINE j == jobs[r][i]
<1>1. /\ jobs' = [jobs EXCEPT ![r] = Others(@, i)]
      /\ UNCHANGED <<transferAccepted, offers, answers, dialogVars>>
  BY DEF CallFails
<1>2. PICK digested \in {{}, {j.hashing}} : out' = [out EXCEPT ![r] = @ \cup digested]
  BY DEF CallFails
<1>3. jobs[r] \in Seq(Jobs) /\ i \in 1..Len(jobs[r])
  BY DEF TypeOK, CallFails
<1>4. j \in Jobs
  BY <1>3, OthersHits
<1>5. InDialog(s, n)' = InDialog(s, n) /\ InAnswer(s, n)' = InAnswer(s, n)
      /\ InOffer(s, n)' = InOffer(s, n)
  BY <1>1 DEF InDialog, InAnswer, InOffer, dialogVars
<1>6. \A S : Less(S, S)
  BY DEF Less
<1>7. CASE s # r
  <2>1. jobs'[s] = jobs[s] /\ out'[s] = out[s]
    BY <1>1, <1>2, <1>7 DEF TypeOK
  <2> QED
    BY <1>1, <1>5, <1>6, <2>1, Elsewhere
<1>8. CASE s = r
  <2>1. jobs'[s] = Others(jobs[r], i) /\ out'[s] = out[s] \cup digested
    BY <1>1, <1>2, <1>8 DEF TypeOK
  <2>2. /\ Less(Hashing(s, n)', Hashing(s, n))
        /\ j.hashing = n => /\ Hashing(s, n) # {}
                            /\ One(Hashing(s, n)) => Hashing(s, n)' = {}
    <3> DEFINE T == {k \in Jobs : k.hashing = n}
    <3>1. j.hashing = n => j \in T
      BY <1>4
    <3>2. Hashing(s, n)' = Hits(Others(jobs[r], i), T) /\ Hashing(s, n) = Hits(jobs[r], T)
      BY <1>8, <2>1 DEF Hashing, Digesting
    <3> HIDE DEF T
    <3> QED
      BY <1>3, <3>1, <3>2, OthersHits DEF Less
  <2>3. Less(InCall(s, n)', InCall(s, n))
    <3> DEFINE T == {k \in Jobs : n \in k.offered}
    <3>1. InCall(s, n)' = Hits(Others(jobs[r], i), T) /\ InCall(s, n) = Hits(jobs[r], T)
      BY <1>8, <2>1 DEF InCall, Offering
    <3> HIDE DEF T
    <3> QED
      BY <1>3, <3>1, OthersHits DEF Less
  <2>4. CASE n \notin digested
    <3>1. n \in out'[s] <=> n \in out[s]
      BY <2>1, <2>4
    <3> QED
      BY <1>1, <1>5, <1>6, <2>2, <2>3, <3>1, SingleKept
  <2>5. CASE n \in digested
    <3>1. n \notin out[s] /\ n \notin transferAccepted[s] /\ Hashing(s, n)' = {}
      BY <2>2, <2>5 DEF Single
    <3>2. Idle(s, n)
      BY <3>1 DEF Single
    <3>3. InCall(s, n)' = {}
      BY <2>3, <3>2 DEF Less, Idle
    <3> QED
      BY <1>1, <1>5, <3>1, <3>2, <3>3 DEF Single, Idle, One
  <2> QED
    BY <2>4, <2>5
<1> QED
  BY <1>7, <1>8

\* An answer arrives, or is lost: it was the only one of its names.
LEMMA AnswerGone ==
    ASSUME TypeOK, NEW r \in Senders, answers[r] # <<>>,
           answers' = [answers EXCEPT ![r] = Tail(@)],
           NEW s \in Senders, NEW n \in Names
    PROVE  /\ Less(InAnswer(s, n)', InAnswer(s, n))
           /\ s # r => answers'[s] = answers[s]
           /\ s = r /\ n \in Head(answers[r]).names =>
                 /\ InAnswer(s, n) # {}
                 /\ One(InAnswer(s, n)) => InAnswer(s, n)' = {}
<1>1. answers[r] \in Seq(Answers)
  BY DEF TypeOK
<1>2. answers'[r] = Tail(answers[r]) /\ (s # r => answers'[s] = answers[s])
  BY DEF TypeOK
<1>3. CASE s # r
  BY <1>2, <1>3 DEF InAnswer, Less
<1>4. CASE s = r
  <2> DEFINE T == {a \in Answers : n \in a.names}
  <2>1. InAnswer(s, n) = Hits(answers[r], T) /\ InAnswer(s, n)' = Hits(Tail(answers[r]), T)
    BY <1>2, <1>4 DEF InAnswer
  <2>2. n \in Head(answers[r]).names => Head(answers[r]) \in T
    BY <1>1, TailHits
  <2> HIDE DEF T
  <2> QED
    BY <1>1, <1>4, <2>1, <2>2, TailHits DEF Less
<1> QED
  BY <1>3, <1>4

\* The same of an offer.
LEMMA OfferGone ==
    ASSUME TypeOK, NEW r \in Senders, offers[r] # <<>>,
           offers' = [offers EXCEPT ![r] = Tail(@)],
           NEW s \in Senders, NEW n \in Names
    PROVE  /\ Less(InOffer(s, n)', InOffer(s, n))
           /\ s # r => offers'[s] = offers[s]
           /\ s = r /\ n \in Head(offers[r]) =>
                 /\ InOffer(s, n) # {}
                 /\ One(InOffer(s, n)) => InOffer(s, n)' = {}
<1>1. offers[r] \in Seq(SUBSET Names)
  BY DEF TypeOK
<1>2. offers'[r] = Tail(offers[r]) /\ (s # r => offers'[s] = offers[s])
  BY DEF TypeOK
<1>3. CASE s # r
  BY <1>2, <1>3 DEF InOffer, Less
<1>4. CASE s = r
  <2> DEFINE T == {o \in SUBSET Names : n \in o}
  <2>1. InOffer(s, n) = Hits(offers[r], T) /\ InOffer(s, n)' = Hits(Tail(offers[r]), T)
    BY <1>2, <1>4 DEF InOffer
  <2>2. n \in Head(offers[r]) => Head(offers[r]) \in T
    BY <1>1, TailHits
  <2> HIDE DEF T
  <2> QED
    BY <1>1, <1>4, <2>1, <2>2, TailHits DEF Less
<1> QED
  BY <1>3, <1>4

\* The names of a sender leave the dialog, all that were there in one answer.
LEMMA DialogGone ==
    ASSUME TypeOK, pendingFileOffers' = <<>>, UNCHANGED <<senderVars, offers>>,
           NEW s \in Senders, NEW n \in Names, Single(s, n),
           NEW a \in Answers, n \in a.names => InDialog(s, n) # {},
           answers'[s] \in {answers[s], Append(answers[s], a)}
    PROVE  Single(s, n)'
<1> DEFINE T == {b \in Answers : n \in b.names}
<1>1. InDialog(s, n)' = {}
  BY DEF InDialog, Listed, Hits
<1>2. /\ Hashing(s, n)' = Hashing(s, n) /\ InCall(s, n)' = InCall(s, n)
      /\ InOffer(s, n)' = InOffer(s, n)
      /\ out'[s] = out[s] /\ transferAccepted'[s] = transferAccepted[s]
  BY DEF Hashing, InCall, InOffer, senderVars
<1>3. \A S : Less(S, S) /\ Less({}, S)
  BY DEF Less, One
<1>4. CASE answers'[s] = answers[s] \/ n \notin a.names
  <2>1. InAnswer(s, n)' = InAnswer(s, n)
    <3>1. answers[s] \in Seq(Answers)
      BY DEF TypeOK
    <3>2. InAnswer(s, n) = Hits(answers[s], T) /\ InAnswer(s, n)' = Hits(answers'[s], T)
      BY DEF InAnswer
    <3>3. n \notin a.names => a \notin T
      OBVIOUS
    <3> HIDE DEF T
    <3>4. a \notin T => Hits(Append(answers[s], a), T) = Hits(answers[s], T)
      <4>1. Hits(Append(answers[s], a), T)
              = Hits(answers[s], T) \cup (IF a \in T THEN {Len(answers[s]) + 1} ELSE {})
        BY <3>1, AppendHits
      <4> QED
        BY <4>1
    <3> QED
      BY <1>4, <3>2, <3>3, <3>4
  <2> QED
    BY <1>1, <1>2, <1>3, <2>1, SingleKept
<1>5. CASE answers'[s] = Append(answers[s], a) /\ n \in a.names
  <2>1. /\ InAnswer(s, n) = {} /\ InCall(s, n) = {} /\ InOffer(s, n) = {}
        /\ n \in out[s] /\ n \notin transferAccepted[s] /\ Hashing(s, n) = {}
    BY <1>5, OnTheWay DEF Single, Idle
  <2>2. \E k : InAnswer(s, n)' = {k}
    <3>1. answers[s] \in Seq(Answers)
      BY DEF TypeOK
    <3>2. InAnswer(s, n) = Hits(answers[s], T)
          /\ InAnswer(s, n)' = Hits(Append(answers[s], a), T)
      BY <1>5 DEF InAnswer
    <3>3. a \in T
      BY <1>5
    <3> HIDE DEF T
    <3>4. Hits(Append(answers[s], a), T) = Hits(answers[s], T) \cup {Len(answers[s]) + 1}
      BY <3>1, <3>3, AppendHits
    <3> QED
      BY <2>1, <3>2, <3>4
  <2> QED
    BY <1>1, <1>2, <2>1, <2>2 DEF Single, Idle, One
<1> QED
  BY <1>4, <1>5

\* What happened once stays recorded.
LEMMA Recorded ==
    ASSUME Next
    PROVE  (doubled => doubled') /\ (mixed => mixed')
<1>1. ASSUME NEW s, NEW others, NEW todo, NEW done, NEW offered,
             GoOn(s, others, todo, done, offered)
      PROVE  doubled => doubled'
  BY <1>1 DEF GoOn
<1>2. CASE \E s \in Senders, files \in SUBSET Names : StartTransfer(s, files)
  <2>1. UNCHANGED mixed
    BY <1>2 DEF StartTransfer, dialogVars
  <2>2. doubled => doubled'
    BY <1>1, <1>2, Zenon DEF StartTransfer
  <2> QED
    BY <2>1, <2>2
<1>3. CASE \E s \in Senders, i \in 1..MaxStarts : HashDone(s, i)
  <2>1. UNCHANGED mixed
    BY <1>3 DEF HashDone, dialogVars
  <2>2. doubled => doubled'
    BY <1>1, <1>3, Zenon DEF HashDone
  <2> QED
    BY <2>1, <2>2
<1>4. CASE \E s \in Senders : HandleFileAccept(s) \/ HandleFileReject(s)
  BY <1>4 DEF HandleFileAccept, HandleFileReject, dialogVars
<1>5. CASE (\E s \in Senders : HandleFileOffer(s)) \/ RejectAllPending
  <2>1. UNCHANGED <<doubled, mixed>>
    BY <1>5 DEF HandleFileOffer, RejectAllPending, senderVars
  <2> QED
    BY <2>1
<1>6. CASE AcceptAllPending
  <2>1. UNCHANGED doubled
    BY <1>6 DEF AcceptAllPending, senderVars
  <2>2. mixed => mixed'
    BY <1>6 DEF AcceptAllPending
  <2> QED
    BY <2>1, <2>2
<1>7. CASE \E s \in Senders : Lose(s)
  BY <1>7 DEF Lose, senderVars, dialogVars
<1>8. CASE \E s \in Senders, i \in 1..MaxStarts : CallFails(s, i)
  BY <1>8 DEF CallFails, dialogVars
<1> QED
  BY <1>2, <1>3, <1>4, <1>5, <1>6, <1>7, <1>8, NextCases

\* Every action keeps what SingleInv says of one name.
LEMMA SingleStep ==
    ASSUME TypeOK, SingleInv, Next
    PROVE  SingleInv'
<1>0. SUFFICES ASSUME ~doubled', ~mixed', ~doubled, ~mixed,
                      NEW s \in Senders, NEW n \in Names, Single(s, n)
               PROVE  Single(s, n)'
  BY Recorded DEF SingleInv
<1>1. \A S : Less(S, S)
  BY DEF Less
<1>2. CASE \E r \in Senders, files \in SUBSET Names : StartTransfer(r, files) /\ UNCHANGED <<lost, stranded>>
  BY <1>0, <1>2, SingleStart
<1>3. CASE \E r \in Senders, i \in 1..MaxStarts : HashDone(r, i) /\ UNCHANGED <<lost, stranded>>
  BY <1>0, <1>3, SingleHash
<1>4. CASE \E r \in Senders : HandleFileAccept(r) \/ HandleFileReject(r)
  <2> PICK r \in Senders : HandleFileAccept(r) \/ HandleFileReject(r)
    BY <1>4
  <2> DEFINE names == Head(answers[r]).names
  <2>1. /\ answers[r] # <<>> /\ answers' = [answers EXCEPT ![r] = Tail(@)]
        /\ UNCHANGED <<jobs, offers, dialogVars>>
    BY DEF HandleFileAccept, HandleFileReject, Answered
  <2>2. /\ Less(InAnswer(s, n)', InAnswer(s, n))
        /\ s # r => answers'[s] = answers[s]
        /\ s = r /\ n \in names => /\ InAnswer(s, n) # {}
                                   /\ One(InAnswer(s, n)) => InAnswer(s, n)' = {}
    BY <2>1, AnswerGone
  <2>3. /\ Hashing(s, n)' = Hashing(s, n) /\ InCall(s, n)' = InCall(s, n)
        /\ InOffer(s, n)' = InOffer(s, n) /\ InDialog(s, n)' = InDialog(s, n)
    BY <2>1 DEF Hashing, InCall, InOffer, InDialog, dialogVars
  <2>4. \/ out' = out /\ transferAccepted' = [transferAccepted EXCEPT ![r] = @ \cup names]
        \/ /\ out' = [out EXCEPT ![r] = @ \ names]
           /\ transferAccepted' = [transferAccepted EXCEPT ![r] = @ \ names]
    BY DEF HandleFileAccept, HandleFileReject
  <2> HIDE DEF names
  <2>5. CASE s # r \/ n \notin names
    <3>1. /\ n \in out'[s] <=> n \in out[s]
          /\ n \in transferAccepted'[s] <=> n \in transferAccepted[s]
      BY <2>4, <2>5 DEF TypeOK
    <3> QED
      BY <1>0, <1>1, <2>2, <2>3, <3>1, SingleKept
  <2>6. CASE s = r /\ n \in names
    <3>1. /\ InAnswer(s, n)' = {} /\ InCall(s, n) = {} /\ InOffer(s, n) = {}
          /\ InDialog(s, n) = {} /\ Hashing(s, n) = {}
      BY <1>0, <2>2, <2>6, OnTheWay DEF Single, Idle
    <3> QED
      BY <2>3, <3>1 DEF Single, Idle, One
  <2> QED
    BY <2>5, <2>6
<1>5. CASE \E r \in Senders : HandleFileOffer(r)
  <2> PICK r \in Senders : HandleFileOffer(r)
    BY <1>5
  <2> DEFINE names == Head(offers[r])
  <2>1. /\ offers[r] # <<>> /\ offers' = [offers EXCEPT ![r] = Tail(@)]
        /\ pendingFileOffers' = Queue(r, names)
        /\ UNCHANGED <<senderVars, answers>>
    BY DEF HandleFileOffer
  <2>2. /\ Less(InOffer(s, n)', InOffer(s, n))
        /\ s # r => offers'[s] = offers[s]
        /\ s = r /\ n \in names => /\ InOffer(s, n) # {}
                                   /\ One(InOffer(s, n)) => InOffer(s, n)' = {}
    BY <2>1, OfferGone
  <2>3. names \in SUBSET Names
    <3>1. offers[r] \in Seq(SUBSET Names)
      BY DEF TypeOK
    <3> QED
      BY <2>1, <3>1, TailHits
  <2> HIDE DEF names
  <2>4. InDialog(s, n)' # {} => InDialog(s, n) # {} \/ (s = r /\ n \in names)
    <3>1. InDialog(s, n)' = Listed(Queue(r, names), s, n)
      BY <2>1 DEF InDialog
    <3>2. Listed(Queue(r, names), s, n) # {} => InDialog(s, n) # {} \/ (s = r /\ n \in names)
      BY <2>3, QueueHits, Zenon
    <3> QED
      BY <3>1, <3>2
  <2>5. /\ Hashing(s, n)' = Hashing(s, n) /\ InCall(s, n)' = InCall(s, n)
        /\ InAnswer(s, n)' = InAnswer(s, n)
        /\ out'[s] = out[s] /\ transferAccepted'[s] = transferAccepted[s]
    BY <2>1 DEF Hashing, InCall, InAnswer, senderVars
  <2>6. CASE s = r /\ n \in names
    <3>1. /\ InOffer(s, n)' = {} /\ InCall(s, n) = {} /\ InAnswer(s, n) = {}
          /\ n \in out[s] /\ n \notin transferAccepted[s] /\ Hashing(s, n) = {}
      BY <1>0, <2>2, <2>6, OnTheWay DEF Single, Idle
    <3> QED
      BY <2>5, <3>1 DEF Single, Idle, One
  <2>7. CASE ~(s = r /\ n \in names)
    BY <1>0, <2>2, <2>4, <2>5, <2>7 DEF Single, Idle, Less
  <2> QED
    BY <2>6, <2>7
<1>6. CASE AcceptAllPending
  <2>1. UNCHANGED <<senderVars, offers>>
    BY <1>6 DEF AcceptAllPending
  <2>2. CASE Waiting = {}
    <3>1. UNCHANGED <<answers, pendingFileOffers>>
      BY <1>6, <2>2 DEF AcceptAllPending
    <3>2. InDialog(s, n)' = InDialog(s, n)
      BY <3>1 DEF InDialog
    <3> QED
      BY <1>0, <1>1, <2>1, <3>1, <3>2, Elsewhere DEF senderVars
  <2>3. CASE Waiting # {}
    <3> DEFINE a == [type |-> "accept", names |-> AllNames]
    <3>1. /\ answers' = [answers EXCEPT ![First.from] = Answer("accept", First.from, AllNames)]
          /\ pendingFileOffers' = <<>>
          /\ \A e \in Waiting : e.from = First.from
      BY <1>0, <1>6, <2>3 DEF AcceptAllPending
    <3>2. CASE s # First.from
      <4>1. answers'[s] = answers[s]
        BY <3>1, <3>2 DEF TypeOK
      <4>2. InDialog(s, n)' = {}
        BY <3>1 DEF InDialog, Listed, Hits
      <4>3. Less({}, InDialog(s, n))
        BY DEF Less, One
      <4> QED
        BY <1>0, <2>1, <4>1, <4>2, <4>3, Elsewhere DEF senderVars
    <3>3. CASE s = First.from
      <4>1. answers'[s] = Append(answers[s], a)
        BY <3>1, <3>3 DEF TypeOK, Answer
      <4>2. a \in Answers
        <5>1. \A w \in Waiting : w \in Queues
          BY DEF TypeOK, Waiting, Range
        <5> QED
          BY <5>1 DEF AllNames, Answers, Queues
      <4>3. n \in a.names => InDialog(s, n) # {}
        <5>1. SUFFICES ASSUME NEW e \in Waiting, n \in e.names
                       PROVE  InDialog(s, n) # {}
          BY DEF AllNames
        <5>2. PICK k \in 1..Len(pendingFileOffers) : pendingFileOffers[k] = e
          BY DEF Waiting, Range
        <5>3. e \in Queues /\ e.from = s
          BY <3>1, <3>3, <5>2 DEF TypeOK
        <5> QED
          BY <5>1, <5>2, <5>3 DEF InDialog, Listed, Hits
      <4> HIDE DEF a
      <4> QED
        BY <1>0, <2>1, <3>1, <4>1, <4>2, <4>3, DialogGone
    <3> QED
      BY <3>2, <3>3
  <2> QED
    BY <2>2, <2>3
<1>7. CASE RejectAllPending
  <2> DEFINE told == UNION {e.names : e \in {w \in Waiting : w.from = s}}
             a == [type |-> "reject", names |-> told]
  <2>1. pendingFileOffers' = <<>> /\ UNCHANGED <<senderVars, offers>>
    BY <1>7 DEF RejectAllPending
  <2>2. answers'[s] \in {answers[s], Append(answers[s], a)}
    BY <1>7 DEF RejectAllPending, Answer
  <2>3. a \in Answers
    <3>1. \A w \in Waiting : w \in Queues
      BY DEF TypeOK, Waiting, Range
    <3>2. told \in SUBSET Names
      BY <3>1 DEF Queues
    <3> HIDE DEF told
    <3> QED
      BY <3>2 DEF Answers
  <2>4. n \in a.names => InDialog(s, n) # {}
    <3>1. SUFFICES ASSUME NEW e \in Waiting, e.from = s, n \in e.names
                   PROVE  InDialog(s, n) # {}
      OBVIOUS
    <3>2. PICK k \in 1..Len(pendingFileOffers) : pendingFileOffers[k] = e
      BY DEF Waiting, Range
    <3>3. e \in Queues
      BY <3>2 DEF TypeOK
    <3> QED
      BY <3>1, <3>2, <3>3 DEF InDialog, Listed, Hits
  <2> HIDE DEF a
  <2> QED
    BY <1>0, <2>1, <2>2, <2>3, <2>4, DialogGone
<1>8. CASE \E r \in Senders : Lose(r)
  <2> PICK r \in Senders : Lose(r)
    BY <1>8
  <2>1. UNCHANGED <<senderVars, dialogVars>>
    BY DEF Lose
  <2>2. Less(InOffer(s, n)', InOffer(s, n)) /\ Less(InAnswer(s, n)', InAnswer(s, n))
    <3>1. CASE /\ offers[r] # <<>> /\ offers' = [offers EXCEPT ![r] = Tail(@)]
               /\ UNCHANGED answers
      <4>1. InAnswer(s, n)' = InAnswer(s, n)
        BY <3>1 DEF InAnswer
      <4> QED
        BY <1>1, <3>1, <4>1, OfferGone
    <3>2. CASE /\ answers[r] # <<>> /\ answers' = [answers EXCEPT ![r] = Tail(@)]
               /\ UNCHANGED offers
      <4>1. InOffer(s, n)' = InOffer(s, n)
        BY <3>2 DEF InOffer
      <4> QED
        BY <1>1, <3>2, <4>1, AnswerGone
    <3> QED
      BY <3>1, <3>2 DEF Lose
  <2>3. /\ Hashing(s, n)' = Hashing(s, n) /\ InCall(s, n)' = InCall(s, n)
        /\ InDialog(s, n)' = InDialog(s, n)
        /\ out'[s] = out[s] /\ transferAccepted'[s] = transferAccepted[s]
    BY <2>1 DEF Hashing, InCall, InDialog, senderVars, dialogVars
  <2> QED
    BY <1>0, <1>1, <2>2, <2>3, SingleKept
<1>9. CASE \E r \in Senders, i \in 1..MaxStarts : CallFails(r, i)
  BY <1>0, <1>9, SingleFail
<1> QED
  BY <1>2, <1>3, <1>4, <1>5, <1>6, <1>7, <1>8, <1>9, NextCases

-------------------------------------------------------------------------------
(* The theorems.                                                               *)

IInv == TypeOK /\ AgreedInv /\ SingleInv

LEMMA InitIInv == Init => IInv
<1> SUFFICES ASSUME Init
             PROVE  IInv
  OBVIOUS
<1>1. /\ jobs = [s \in Senders |-> <<>>] /\ offers = [s \in Senders |-> <<>>]
      /\ answers = [s \in Senders |-> <<>>] /\ pendingFileOffers = <<>>
      /\ out = [s \in Senders |-> {}] /\ transferAccepted = [s \in Senders |-> {}]
  BY DEF Init
<1>2. TypeOK
  <2>1. \A S : <<>> \in Seq(S)
    OBVIOUS
  <2>2. \A i, k \in 1..Len(pendingFileOffers) :
           pendingFileOffers[i].from = pendingFileOffers[k].from => i = k
    BY <1>1
  <2>3. /\ jobs \in [Senders -> Seq(Jobs)] /\ offers \in [Senders -> Seq(SUBSET Names)]
        /\ answers \in [Senders -> Seq(Answers)] /\ pendingFileOffers \in Seq(Queues)
        /\ out \in [Senders -> SUBSET Names]
        /\ transferAccepted \in [Senders -> SUBSET Names]
    BY <1>1, <2>1
  <2>4. /\ shown \in BOOLEAN /\ pendingFileTimer \in BOOLEAN
        /\ pendingFileTimer => shown
        /\ doubled \in BOOLEAN /\ mixed \in BOOLEAN /\ blank \in BOOLEAN
    BY Zenon DEF Init
  <2>5. starts \in 0..MaxStarts /\ incoming \subseteq Senders \X Names /\ lost \subseteq Senders
        /\ stranded \subseteq Senders \X Names
    BY DEF Init
  <2> QED
    BY <2>2, <2>3, <2>4, <2>5 DEF TypeOK
<1>3. AgreedInv
  BY <1>1 DEF AgreedInv
<1>4. SingleInv
  <2>1. \A s \in Senders, n \in Names : Idle(s, n) /\ Hashing(s, n) = {}
    BY <1>1 DEF Idle, Hashing, InCall, InOffer, InDialog, InAnswer, Digesting,
       Offering, Listed, Hits
  <2> QED
    BY <1>1, <2>1 DEF SingleInv, Single, Idle, One
<1> QED
  BY <1>2, <1>3, <1>4 DEF IInv

LEMMA IInvStep == IInv /\ [Next]_vars => IInv'
<1> SUFFICES ASSUME IInv, [Next]_vars
             PROVE  IInv'
  OBVIOUS
<1>1. CASE Next
  BY <1>1, TypeStep, AgreedStep, SingleStep DEF IInv
<1>2. CASE UNCHANGED vars
  <2>1. TypeOK'
    BY <1>2 DEF IInv, vars, senderVars, dialogVars, TypeOK
  <2>2. AgreedInv'
    BY <1>2 DEF IInv, vars, senderVars, dialogVars, AgreedInv
  <2>3. \A s \in Senders, n \in Names : Single(s, n) => Single(s, n)'
    <3>1. \A S : Less(S, S)
      BY DEF Less
    <3> QED
      BY <1>2, <3>1, Elsewhere DEF vars, senderVars, dialogVars, InDialog
  <2> QED
    BY <1>2, <2>1, <2>2, <2>3 DEF IInv, SingleInv, vars, senderVars, dialogVars
<1> QED
  BY <1>1, <1>2

LEMMA Invariance == Spec => []IInv
BY InitIInv, IInvStep, PTL DEF Spec

\* Every variable of the offers and the dialog has its type, a connection has one
\* queue, and the timer runs only under a dialog.
THEOREM TypeCorrect == Spec => []TypeOK
BY Invariance, PTL DEF IInv

\* A sender sends nothing that the user of the receiving page has not agreed to,
\* unless one accept answered several senders.
THEOREM FirstAgreed == Spec => []ConsentFirst
<1>1. IInv => ConsentFirst
  BY DEF IInv, AgreedInv, ConsentFirst, TypeOK
<1> QED
  BY <1>1, Invariance, PTL

\* No later reject tears an accepted file down, unless its name was digested by
\* two calls at a time or one accept answered several senders.
THEOREM AcceptedKept == Spec => KeepsAccepted
<1> DEFINE A == \A s \in Senders, n \in Names :
                   n \in out[s] \cap transferAccepted[s] /\ n \notin out'[s]
                      => doubled \/ mixed
<1>1. IInv /\ [Next]_vars => A
  <2> SUFFICES ASSUME IInv, [Next]_vars, NEW s \in Senders, NEW n \in Names,
                      n \in out[s], n \in transferAccepted[s], n \notin out'[s],
                      ~doubled, ~mixed
               PROVE  FALSE
    OBVIOUS
  <2>1. TypeOK /\ Single(s, n)
    BY DEF IInv, SingleInv
  <2>2. Next
    BY DEF vars, senderVars
  <2>3. PICK r \in Senders : HandleFileReject(r)
    <3>1. \/ \E r \in Senders : HandleFileReject(r)
          \/ \A t \in Senders : out[t] \subseteq out'[t]
      <4>1. CASE UNCHANGED out
        BY <4>1
      <4>2. CASE \E t \in Senders, i \in 1..MaxStarts : HashDone(t, i)
        <5> PICK t \in Senders, i \in 1..MaxStarts : HashDone(t, i)
          BY <4>2
        <5>1. out' = [out EXCEPT ![t] = @ \cup {jobs[t][i].hashing}]
          BY DEF HashDone
        <5> QED
          BY <2>1, <5>1 DEF TypeOK
      <4>3. CASE \E t \in Senders, i \in 1..MaxStarts : CallFails(t, i)
        <5> PICK t \in Senders, i \in 1..MaxStarts : CallFails(t, i)
          BY <4>3
        <5>1. PICK digested \in {{}, {jobs[t][i].hashing}} :
                 out' = [out EXCEPT ![t] = @ \cup digested]
          BY DEF CallFails
        <5> QED
          BY <2>1, <5>1 DEF TypeOK
      <4>4. \/ \E r \in Senders : HandleFileReject(r)
            \/ \E t \in Senders, i \in 1..MaxStarts : HashDone(t, i)
            \/ \E t \in Senders, i \in 1..MaxStarts : CallFails(t, i)
            \/ UNCHANGED out
        BY <2>2, NextCases, Zenon DEF StartTransfer, HandleFileAccept, HandleFileOffer,
           AcceptAllPending, RejectAllPending, Lose, senderVars
      <4> QED
        BY <4>1, <4>2, <4>3, <4>4
    <3> QED
      BY <3>1
  <2>4. answers[r] # <<>> /\ answers' = [answers EXCEPT ![r] = Tail(@)]
    BY <2>3 DEF HandleFileReject, Answered
  <2>5. s = r /\ n \in Head(answers[r]).names
    BY <2>1, <2>3 DEF HandleFileReject, TypeOK
  <2>6. InAnswer(s, n) # {}
    BY <2>1, <2>4, <2>5, AnswerGone
  <2> QED
    BY <2>1, <2>6 DEF Single, Idle
<1> QED
  BY <1>1, Invariance, PTL DEF Spec, KeepsAccepted

===============================================================================
