-------------------------------- MODULE Consent --------------------------------
(* Who may send what: the file_offer of startTransfer, the one dialog in which *)
(* a receiving page collects the offers of all senders, its 60 s timer, and    *)
(* the answers (web/static/app.js, startTransfer, handleFileOffer,             *)
(* showPendingModal, acceptAllPending, rejectAllPending, handleFileAccept and  *)
(* handleFileReject).  One receiving page, several senders, each with one      *)
(* connection, so that a sender stands for its connId.  The server relays the  *)
(* messages of a page in order.  The await of createOffer in the first call    *)
(* only delays its offer and is left out; a call that throws at its first file *)
(* changes nothing.  What becomes of an accepted file is FileChannel's matter: *)
(* here its entry stays.                                                       *)
EXTENDS Naturals, Sequences

CONSTANTS
    Senders,
    Names,          \* file names, which two senders may share
    MaxStarts       \* bound on the clicks on "send"

ASSUME ConsentAssumption == MaxStarts \in Nat

VARIABLES
    \* a sending page
    jobs,           \* the startTransfer calls that await a digest
    out,            \* names in outgoingFiles
    transferAccepted,   \* names for which it is true
    starts,
    \* the server
    offers,         \* file_offer messages on their way from each sender
    answers,        \* file_accept and file_reject messages on their way to it
    \* the receiving page
    pendingFileOffers,  \* per connId in the order of insertion, the names queued
    shown,          \* the dialog is not hidden
    pendingFileTimer,   \* the interval runs
    incoming,       \* incomingChannels: what the user agreed to
    \* what happened once
    doubled,        \* a name was digested by two calls at a time
    mixed,          \* one accept answered for several senders
    blank,          \* an accept was clicked on a dialog without files
    lost,           \* senders of whom an offer or an answer was lost
    stranded        \* files that got an entry in a call that then failed

senderVars == <<jobs, out, transferAccepted, starts, doubled>>
dialogVars == <<pendingFileOffers, shown, pendingFileTimer, incoming, mixed, blank>>
vars == <<senderVars, offers, answers, dialogVars, lost, stranded>>

Init ==
    /\ jobs = [s \in Senders |-> <<>>]
    /\ out = [s \in Senders |-> {}]
    /\ transferAccepted = [s \in Senders |-> {}]
    /\ starts = 0
    /\ offers = [s \in Senders |-> <<>>] /\ answers = [s \in Senders |-> <<>>]
    /\ pendingFileOffers = <<>> /\ shown = FALSE /\ pendingFileTimer = FALSE
    /\ incoming = {}
    /\ doubled = FALSE /\ mixed = FALSE /\ blank = FALSE
    /\ lost = {} /\ stranded = {}

-------------------------------------------------------------------------------
(* A sending page.                                                             *)

\* A startTransfer call between two awaits: the file whose digest it awaits,
\* the files still to come and those in its offer.
Job(n, todo, offered) == [hashing |-> n, todo |-> todo, offered |-> offered]

\* (mutant) a file that has an entry is offered again
SkipsNone(s, done) == done
\* Files whose name has an entry are skipped.  done: the file just digested.
Skipped(s, done) == out[s] \cup done

\* The call goes on to the next file without an entry, where it awaits again, or
\* it sends its offer, though nothing be left in it.  others: the sender's other
\* calls; skipped: the files passed over on the way, in any order of the files.
GoOn(s, others, todo, done, offered) ==
    \/ /\ todo \subseteq Skipped(s, done)
       /\ jobs' = [jobs EXCEPT ![s] = others]
       /\ offers' = [offers EXCEPT ![s] = Append(@, offered)]
       /\ UNCHANGED <<transferAccepted, doubled>>
    \/ \E n \in todo \ Skipped(s, done), skipped \in SUBSET (todo \cap Skipped(s, done)) :
          /\ jobs' = [jobs EXCEPT ![s] =
                         Append(others, Job(n, todo \ ({n} \cup skipped), offered))]
          /\ transferAccepted' = [transferAccepted EXCEPT ![s] = @ \ {n}]
          /\ doubled' = (doubled \/ n \in {others[i].hashing : i \in 1..Len(others)})
          /\ UNCHANGED offers

\* A click on "send", which stays enabled until the call ends.
StartTransfer(s, files) ==
    /\ starts < MaxStarts
    /\ starts' = starts + 1
    /\ GoOn(s, jobs[s], files, {}, {})
    /\ UNCHANGED <<out, answers, dialogVars>>

Others(q, i) == SubSeq(q, 1, i - 1) \o SubSeq(q, i + 1, Len(q))

\* The await of computeFileHash ends in the i-th call.
HashDone(s, i) ==
    /\ i \in 1..Len(jobs[s])
    /\ LET j == jobs[s][i]
       IN  /\ out' = [out EXCEPT ![s] = @ \cup {j.hashing}]
           /\ GoOn(s, Others(jobs[s], i), j.todo, {j.hashing}, j.offered \cup {j.hashing})
    /\ UNCHANGED <<starts, answers, dialogVars>>

\* The i-th call throws, and sends no offer: its digest rejects, or the digest is
\* there and createDataChannel throws for the next file, or createOffer or
\* setLocalDescription rejects, which any call awaits that made the connection.
\* The files digested so far keep their entries (of those of a failed connection,
\* the ones digested after its cleanup).
CallFails(s, i) ==
    /\ i \in 1..Len(jobs[s])
    /\ jobs' = [jobs EXCEPT ![s] = Others(@, i)]
    /\ \E digested \in {{}, {jobs[s][i].hashing}} :
          /\ out' = [out EXCEPT ![s] = @ \cup digested]
          /\ stranded' = stranded \cup ({s} \X (jobs[s][i].offered \cup digested))
    /\ UNCHANGED <<starts, transferAccepted, doubled, offers, answers, dialogVars, lost>>

Answered(s, type) ==
    /\ answers[s] # <<>> /\ Head(answers[s]).type = type
    /\ answers' = [answers EXCEPT ![s] = Tail(@)]

HandleFileAccept(s) ==
    /\ Answered(s, "accept")
    /\ transferAccepted' = [transferAccepted EXCEPT ![s] = @ \cup Head(answers[s]).names]
    /\ UNCHANGED <<jobs, out, starts, doubled, offers, dialogVars>>

HandleFileReject(s) ==
    /\ Answered(s, "reject")
    /\ out' = [out EXCEPT ![s] = @ \ Head(answers[s]).names]
    /\ transferAccepted' = [transferAccepted EXCEPT ![s] = @ \ Head(answers[s]).names]
    /\ UNCHANGED <<jobs, starts, doubled, offers, dialogVars>>

-------------------------------------------------------------------------------
(* The receiving page.                                                         *)

Range(q) == {q[i] : i \in 1..Len(q)}

Queued(s) == \E e \in Range(pendingFileOffers) : e.from = s

\* (mutant) each offer gets a queue of its own
QueueAppends(s, names) == Append(pendingFileOffers, [from |-> s, names |-> names])

\* The offer joins the queue of its connection.
Queue(s, names) ==
    IF Queued(s)
    THEN [i \in 1..Len(pendingFileOffers) |->
             IF pendingFileOffers[i].from = s
             THEN [from |-> s, names |-> pendingFileOffers[i].names \cup names]
             ELSE pendingFileOffers[i]]
    ELSE Append(pendingFileOffers, [from |-> s, names |-> names])

\* The dialog and its timer start together; a dialog that is shown is updated.
HandleFileOffer(s) ==
    /\ offers[s] # <<>>
    /\ offers' = [offers EXCEPT ![s] = Tail(@)]
    /\ pendingFileOffers' = Queue(s, Head(offers[s]))
    /\ shown' = TRUE
    /\ pendingFileTimer' = IF shown THEN pendingFileTimer ELSE TRUE
    /\ UNCHANGED <<senderVars, answers, incoming, mixed, blank>>

Waiting == {e \in Range(pendingFileOffers) : e.names # {}}
AllNames == UNION {e.names : e \in Waiting}
First == CHOOSE e \in Waiting :
            \E i \in 1..Len(pendingFileOffers) :
               /\ e = pendingFileOffers[i]
               /\ \A k \in 1..(i - 1) : pendingFileOffers[k].names = {}

\* (mutant) one file of each queue, as the unused acceptOffer does
AgreedOne == {<<e.from, CHOOSE n \in e.names : TRUE>> : e \in Waiting}
\* The files that get an entry.
Agreed == UNION {{e.from} \X e.names : e \in Waiting}

Answer(type, s, names) == Append(answers[s], [type |-> type, names |-> names])

\* The user clicks "accept": every file of every queue gets its entry, and one
\* file_accept with all their names goes to the first sender.  Without files
\* nothing is sent, cleared or hidden, but the timer has stopped.
AcceptAllPending ==
    /\ shown
    /\ pendingFileTimer' = FALSE
    /\ incoming' = incoming \cup Agreed
    /\ IF Waiting = {}
       THEN /\ blank' = TRUE
            /\ UNCHANGED <<answers, pendingFileOffers, shown, mixed>>
       ELSE /\ answers' = [answers EXCEPT ![First.from] =
                              Answer("accept", First.from, AllNames)]
            /\ pendingFileOffers' = <<>> /\ shown' = FALSE
            /\ mixed' = (mixed \/ \E e \in Waiting : e.from # First.from)
            /\ UNCHANGED blank
    /\ UNCHANGED <<senderVars, offers>>

\* (mutant) the first sender only, as on accept
RejectsFirst(s) == Waiting # {} /\ First.from = s
\* Each sender whose queue has files is told.
Rejects(s) == \E e \in Waiting : e.from = s

\* The user clicks "reject", or the timer does.
RejectAllPending ==
    /\ answers' = [s \in Senders |->
                     IF Rejects(s)
                     THEN Answer("reject", s, UNION {e.names : e \in
                                                       {w \in Waiting : w.from = s}})
                     ELSE answers[s]]
    /\ pendingFileOffers' = <<>> /\ shown' = FALSE /\ pendingFileTimer' = FALSE
    /\ UNCHANGED <<senderVars, offers, incoming, mixed, blank>>

RejectClicked == shown /\ RejectAllPending
TimerExpires == pendingFileTimer /\ RejectAllPending

-------------------------------------------------------------------------------

\* A WebSocket closes: send() drops what its page has to say, and the server what
\* is for a page that comes back under a new id.
Lose(s) ==
    /\ lost' = lost \cup {s}
    /\ \/ /\ offers[s] # <<>> /\ offers' = [offers EXCEPT ![s] = Tail(@)]
          /\ UNCHANGED answers
       \/ /\ answers[s] # <<>> /\ answers' = [answers EXCEPT ![s] = Tail(@)]
          /\ UNCHANGED offers
    /\ UNCHANGED <<senderVars, dialogVars, stranded>>

SenderStep(s) ==
    \/ \E files \in (SUBSET Names) \ {{}} : StartTransfer(s, files)
    \/ \E i \in 1..MaxStarts : HashDone(s, i)
    \/ HandleFileAccept(s) \/ HandleFileReject(s) \/ HandleFileOffer(s)

Next ==
    \/ /\ \/ \E s \in Senders : SenderStep(s)
          \/ AcceptAllPending \/ RejectClicked \/ TimerExpires
       /\ UNCHANGED <<lost, stranded>>
    \/ \E s \in Senders : Lose(s) \/ \E i \in 1..MaxStarts : CallFails(s, i)

Spec == Init /\ [][Next]_vars

\* Digests end, in success or not, the server relays, timers run.  Nobody has to
\* click.
Kept(A) == A /\ UNCHANGED <<lost, stranded>>

DigestEnds(s, i) == Kept(HashDone(s, i)) \/ CallFails(s, i)

Fairness ==
    /\ WF_vars(Kept(TimerExpires))
    /\ \A s \in Senders :
          /\ WF_vars(\E i \in 1..MaxStarts : DigestEnds(s, i))
          /\ WF_vars(Kept(HandleFileAccept(s))) /\ WF_vars(Kept(HandleFileReject(s)))
          /\ WF_vars(Kept(HandleFileOffer(s)))

FairSpec == Spec /\ Fairness

-------------------------------------------------------------------------------
(* Properties.                                                                 *)

Jobs == [hashing : Names, todo : SUBSET Names, offered : SUBSET Names]
Answers == [type : {"accept", "reject"}, names : SUBSET Names]
Queues == [from : Senders, names : SUBSET Names]

\* Every variable has its type; a queue belongs to one connection, and the timer
\* runs only under a dialog.
TypeOK ==
    /\ jobs \in [Senders -> Seq(Jobs)]
    /\ out \in [Senders -> SUBSET Names]
    /\ transferAccepted \in [Senders -> SUBSET Names]
    /\ starts \in 0..MaxStarts
    /\ offers \in [Senders -> Seq(SUBSET Names)]
    /\ answers \in [Senders -> Seq(Answers)]
    /\ pendingFileOffers \in Seq(Queues)
    /\ \A i, k \in 1..Len(pendingFileOffers) :
          pendingFileOffers[i].from = pendingFileOffers[k].from => i = k
    /\ shown \in BOOLEAN /\ pendingFileTimer \in BOOLEAN
    /\ pendingFileTimer => shown
    /\ incoming \subseteq Senders \X Names
    /\ doubled \in BOOLEAN /\ mixed \in BOOLEAN /\ blank \in BOOLEAN
    /\ lost \subseteq Senders /\ stranded \subseteq Senders \X Names

\* Nothing is sent that the user has not agreed to, unless one accept once
\* answered several senders: then the first of them is told the names of all.
ConsentFirst ==
    ~mixed => \A s \in Senders : \A n \in out[s] \cap transferAccepted[s] :
                                    <<s, n>> \in incoming

\* A file that the user accepted is not torn down by a later reject, of another
\* offer that had the same name in it, unless "send" was clicked twice while the
\* digest was under way, or one accept answered several senders.
KeepsAccepted ==
    [][\A s \in Senders, n \in Names :
          n \in out[s] \cap transferAccepted[s] /\ n \notin out'[s]
             => doubled \/ mixed]_vars

Waits(s, n) == n \in out[s] /\ n \notin transferAccepted[s]

\* Every file that was digested is accepted or rejected in the end, without a
\* click: but one accept of several senders, and one of a dialog without files,
\* leave senders without an answer for ever, and so do a lost message, its own
\* sender, and a call that fails before its offer, the files it had digested.
AnsweredInTime ==
    \A s \in Senders, n \in Names :
       Waits(s, n) ~> \/ ~Waits(s, n) \/ mixed \/ blank
                      \/ s \in lost \/ <<s, n>> \in stranded

\* 60 s without an action reject (DESIGN 7.3): every file that was offered, and
\* of whose sender no message was lost, gets its answer if no accept answered for
\* several senders.
OfferAnswered ==
    \A s \in Senders, n \in Names :
       Waits(s, n) ~> ~Waits(s, n) \/ mixed \/ s \in lost \/ <<s, n>> \in stranded

===============================================================================
