---------------------------- MODULE SequenceLemmas ----------------------------
(* What appending to a sequence, taking its head and taking an element out do  *)
(* to the places of the elements of a set.                                     *)
EXTENDS Naturals, Sequences, TLAPS

\* The places of a sequence that hold an element of T.
Hits(q, T) == {i \in 1..Len(q) : q[i] \in T}

One(S) == \A i, k \in S : i = k

Without(q, i) == SubSeq(q, 1, i - 1) \o SubSeq(q, i + 1, Len(q))

LEMMA AppendHits ==
    ASSUME NEW S, NEW q \in Seq(S), NEW e \in S, NEW T
    PROVE  /\ Append(q, e) \in Seq(S) /\ Len(Append(q, e)) = Len(q) + 1
           /\ \A i \in 1..Len(q) : Append(q, e)[i] = q[i]
           /\ Append(q, e)[Len(q) + 1] = e
           /\ Hits(Append(q, e), T) = Hits(q, T) \cup (IF e \in T THEN {Len(q) + 1} ELSE {})
<1>1. Append(q, e) \in Seq(S) /\ Len(Append(q, e)) = Len(q) + 1 /\ Len(q) \in Nat
  OBVIOUS
<1>2. \A i \in 1..Len(q) : Append(q, e)[i] = q[i]
  OBVIOUS
<1>3. Append(q, e)[Len(q) + 1] = e
  OBVIOUS
<1> QED
  BY <1>1, <1>2, <1>3 DEF Hits

\* What is left when one element is taken out.
LEMMA TailHits ==
    ASSUME NEW S, NEW q \in Seq(S), q # <<>>, NEW T
    PROVE  /\ Tail(q) \in Seq(S) /\ Len(Tail(q)) = Len(q) - 1 /\ Head(q) \in S
           /\ \A i \in 1..Len(Tail(q)) : Tail(q)[i] = q[i + 1]
           /\ Hits(Tail(q), T) # {} => Hits(q, T) # {}
           /\ One(Hits(q, T)) => One(Hits(Tail(q), T))
           /\ Head(q) \in T => Hits(q, T) # {}
           /\ Head(q) \in T /\ One(Hits(q, T)) => Hits(Tail(q), T) = {}
<1>1. Tail(q) \in Seq(S) /\ Len(Tail(q)) = Len(q) - 1 /\ Head(q) \in S
      /\ Len(q) \in Nat \ {0} /\ Head(q) = q[1]
  OBVIOUS
<1>2. \A i \in 1..Len(Tail(q)) : Tail(q)[i] = q[i + 1]
  BY <1>1
<1>3. \A i \in Hits(Tail(q), T) : i \in Nat /\ i >= 1 /\ i + 1 \in Hits(q, T)
  BY <1>1, <1>2 DEF Hits
<1>4. Head(q) \in T => 1 \in Hits(q, T)
  BY <1>1 DEF Hits
<1> QED
  BY <1>1, <1>2, <1>3, <1>4 DEF One

LEMMA Concat ==
    ASSUME NEW S, NEW a \in Seq(S), NEW b \in Seq(S)
    PROVE  /\ a \o b \in Seq(S) /\ Len(a \o b) = Len(a) + Len(b)
           /\ \A k \in 1..(Len(a) + Len(b)) :
                 (a \o b)[k] = IF k <= Len(a) THEN a[k] ELSE b[k - Len(a)]
OBVIOUS

\* What is left when the i-th element is taken out, place by place.
LEMMA WithoutAt ==
    ASSUME NEW S, NEW q \in Seq(S), NEW i \in 1..Len(q)
    PROVE  /\ Without(q, i) \in Seq(S) /\ Len(Without(q, i)) = Len(q) - 1
           /\ \A k \in 1..(Len(q) - 1) : Without(q, i)[k] = q[IF k < i THEN k ELSE k + 1]
<1> DEFINE a == SubSeq(q, 1, i - 1)
           b == SubSeq(q, i + 1, Len(q))
           at(k) == IF k < i THEN k ELSE k + 1
<1>1. Len(q) \in Nat /\ i \in Nat /\ 1 <= i /\ i <= Len(q)
  OBVIOUS
<1>2. a \in Seq(S) /\ Len(a) = i - 1 /\ \A k \in 1..(i - 1) : a[k] = q[k]
  BY <1>1
<1>3. b \in Seq(S) /\ Len(b) = Len(q) - i /\ \A k \in 1..(Len(q) - i) : b[k] = q[k + i]
  <2>1. b \in Seq(S) /\ Len(b) = Len(q) - i
    BY <1>1
  <2>2. \A k \in 1..(Len(q) - i) : b[k] = q[i + 1 + k - 1]
    BY <1>1
  <2> QED
    BY <1>1, <2>1, <2>2
<1> Without(q, i) = a \o b
  BY DEF Without
<1> HIDE DEF a, b
<1>4. a \o b \in Seq(S) /\ Len(a \o b) = Len(q) - 1
  BY <1>1, <1>2, <1>3, Concat
<1>5. ASSUME NEW k \in 1..(Len(q) - 1)
      PROVE  (a \o b)[k] = q[at(k)]
  <2>1. (a \o b)[k] = IF k <= i - 1 THEN a[k] ELSE b[k - (i - 1)]
    BY <1>1, <1>2, <1>3, Concat
  <2>2. CASE k < i
    BY <1>1, <1>2, <2>1, <2>2
  <2>3. CASE ~(k < i)
    <3>1. k - (i - 1) \in 1..(Len(q) - i) /\ k - (i - 1) + i = k + 1
      BY <1>1, <2>3
    <3> QED
      BY <1>1, <1>3, <2>1, <2>3, <3>1
  <2> QED
    BY <2>2, <2>3
<1> QED
  BY <1>4, <1>5

LEMMA WithoutHits ==
    ASSUME NEW S, NEW q \in Seq(S), NEW i \in 1..Len(q), NEW T
    PROVE  /\ Without(q, i) \in Seq(S)
           /\ Hits(Without(q, i), T) # {} => Hits(q, T) # {}
           /\ One(Hits(q, T)) => One(Hits(Without(q, i), T))
           /\ q[i] \in T => Hits(q, T) # {}
           /\ q[i] \in T /\ One(Hits(q, T)) => Hits(Without(q, i), T) = {}
<1> DEFINE at(k) == IF k < i THEN k ELSE k + 1
<1>1. Len(q) \in Nat /\ i \in Nat /\ 1 <= i /\ i <= Len(q)
  OBVIOUS
<1>2. Without(q, i) \in Seq(S) /\ Len(Without(q, i)) = Len(q) - 1
      /\ \A k \in 1..(Len(q) - 1) : Without(q, i)[k] = q[at(k)]
  BY WithoutAt
<1>3. ASSUME NEW k \in Hits(Without(q, i), T)
      PROVE  k \in Nat /\ at(k) \in Hits(q, T) /\ at(k) # i
  <2>1. k \in 1..(Len(q) - 1) /\ Without(q, i)[k] \in T
    BY <1>2, <1>3 DEF Hits
  <2>2. q[at(k)] \in T
    BY <1>2, <2>1
  <2>3. k \in Nat /\ at(k) \in 1..Len(q) /\ at(k) # i
    BY <1>1, <2>1
  <2> HIDE DEF at
  <2> QED
    BY <2>2, <2>3 DEF Hits
<1>4. \A k, m \in Nat : at(k) = at(m) => k = m
  BY <1>1
<1>5. q[i] \in T => i \in Hits(q, T)
  BY <1>1 DEF Hits
<1> HIDE DEF at
<1> QED
  BY <1>2, <1>3, <1>4, <1>5 DEF One

===============================================================================
