--------------------------- MODULE SequenceLemmas ---------------------------
(***************************************************************************)
(* What the modules' proofs need to know about sequences without repeated  *)
(* elements: taking one out, putting one in, the first that passes a test. *)
(***************************************************************************)
EXTENDS SequencesExt, SequenceTheorems, FiniteSetTheorems, WellFoundedInduction, TLAPS

-----------------------------------------------------------------------------
(* Smallest numbers, and induction with a set in place of a predicate.     *)

\* A set of natural numbers has a smallest one.
LEMMA Smallest ==
  ASSUME NEW T \in SUBSET Nat, T # {}
  PROVE  \E x \in T : \A y \in T : x <= y
<1>1. PICK x \in T : \A y \in T : ~ (<<y, x>> \in OpToRel(<, Nat))
  BY NatLessThanWellFounded, WFMin
<1>2. \A y \in T : ~(y < x)
  BY <1>1, Zenon DEF OpToRel
<1> QED
  BY <1>2

\* Min of the community modules picks it.
LEMMA MinIsSmallest ==
  ASSUME NEW T \in SUBSET Nat, T # {}
  PROVE  Min(T) \in T /\ \A y \in T : Min(T) <= y
<1>1. \E x \in T : \A y \in T : x <= y
  BY Smallest
<1> QED
  BY <1>1 DEF Min

\* A set that contains 0 and, with a number, the next one contains them all.
LEMMA InductiveSet ==
  ASSUME NEW T, 0 \in T, \A n \in Nat : n \in T => n + 1 \in T
  PROVE  \A n \in Nat : n \in T
<1> SUFFICES ASSUME NEW m \in Nat, m \notin T PROVE FALSE
  OBVIOUS
<1> DEFINE rest == {n \in Nat : n \notin T}
<1>1. PICK x \in rest : \A y \in rest : x <= y
  BY Smallest
<1>2. x # 0 /\ x - 1 \in Nat /\ (x - 1) + 1 = x
  BY <1>1
<1>3. x - 1 \in T
  BY <1>1, <1>2
<1> QED
  BY <1>1, <1>2, <1>3

\* An element's place is where SelectInSeq finds it, which takes the smallest of the
\* places that pass its test.
LEMMA OnlyPlace ==
  ASSUME NEW S, NEW s \in Seq(S), IsInjective(s), NEW i \in 1..Len(s), NEW n, n = s[i]
  PROVE  LET I == {j \in 1..Len(s) : s[j] = n}
         IN  I # {} /\ Min(I) = i
<1>1. Len(s) \in Nat /\ DOMAIN s = 1..Len(s)
  BY LenProperties
<1> DEFINE I == {j \in 1..Len(s) : s[j] = n}
<1>2. I = {i}
  BY <1>1 DEF IsInjective
<1> HIDE DEF I
<1>3. I \in SUBSET Nat /\ I # {}
  BY <1>1, <1>2
<1>4. Min(I) \in I
  BY <1>3, MinIsSmallest
<1>5. I # {} /\ Min(I) = i
  BY <1>2, <1>3, <1>4
<1> QED
  BY <1>5 DEF I

-----------------------------------------------------------------------------
(* RemoveAt and RemoveFirst.                                               *)

\* RemoveAt: the elements behind the one that is taken out move up.
LEMMA RemovedFrom ==
  ASSUME NEW S, NEW s \in Seq(S), NEW at \in 1..Len(s)
  PROVE  LET t == RemoveAt(s, at)
         IN  /\ t \in Seq(S) /\ Len(t) = Len(s) - 1
             /\ \A i \in 1..(Len(s) - 1) : t[i] = IF i < at THEN s[i] ELSE s[i + 1]
<1> DEFINE front == SubSeq(s, 1, at - 1)
           back == SubSeq(s, at + 1, Len(s))
<1>1. Len(s) \in Nat /\ DOMAIN s = 1..Len(s) /\ \A i \in 1..Len(s) : s[i] \in S
  BY LenProperties
<1>2. /\ front \in Seq(S) /\ Len(front) = at - 1
      /\ \A i \in 1..(at - 1) : front[i] = s[i]
  <2>1. /\ front \in Seq(S) /\ Len(front) = IF 1 <= at - 1 THEN at - 1 - 1 + 1 ELSE 0
        /\ \A i \in 1..(at - 1 - 1 + 1) : front[i] = s[1 + i - 1]
    BY <1>1, SubSeqProperties
  <2> QED
    BY <1>1, <2>1
<1>3. /\ back \in Seq(S) /\ Len(back) = Len(s) - at
      /\ \A i \in 1..(Len(s) - at) : back[i] = s[at + i]
  <2>1. /\ back \in Seq(S)
        /\ Len(back) = IF at + 1 <= Len(s) THEN Len(s) - (at + 1) + 1 ELSE 0
        /\ \A i \in 1..(Len(s) - (at + 1) + 1) : back[i] = s[at + 1 + i - 1]
    BY <1>1, SubSeqProperties
  <2> HIDE DEF back
  <2>2. Len(back) = Len(s) - at
    <3>1. at \in Nat /\ Len(s) \in Nat /\ at <= Len(s)
      BY <1>1
    <3>2. CASE at + 1 <= Len(s)
      <4>1. Len(back) = Len(s) - (at + 1) + 1
        BY <2>1, <3>2
      <4> QED
        BY <3>1, <4>1
    <3>3. CASE ~(at + 1 <= Len(s))
      <4>1. Len(back) = 0
        BY <2>1, <3>3
      <4> QED
        BY <3>1, <3>3, <4>1
    <3> QED
      BY <3>2, <3>3
  <2>3. \A i \in 1..(Len(s) - at) : i \in 1..(Len(s) - (at + 1) + 1) /\ at + 1 + i - 1 = at + i
    BY <1>1
  <2> QED
    BY <2>1, <2>2, <2>3
<1> HIDE DEF front, back
<1>4. /\ front \o back \in Seq(S) /\ Len(front \o back) = Len(s) - 1
      /\ \A i \in 1..(Len(s) - 1) :
           (front \o back)[i] = IF i <= at - 1 THEN front[i] ELSE back[i - (at - 1)]
  <2>1. /\ front \o back \in Seq(S) /\ Len(front \o back) = Len(front) + Len(back)
        /\ \A i \in 1..(Len(front) + Len(back)) :
             (front \o back)[i] = IF i <= Len(front) THEN front[i] ELSE back[i - Len(front)]
    BY <1>2, <1>3, ConcatProperties
  <2>2. Len(front) + Len(back) = Len(s) - 1
    BY <1>1, <1>2, <1>3
  <2> QED
    BY <1>2, <2>1, <2>2
<1>5. ASSUME NEW i \in 1..(Len(s) - 1)
      PROVE  (front \o back)[i] = IF i < at THEN s[i] ELSE s[i + 1]
  <2>1. CASE i < at
    BY <1>1, <1>2, <1>4, <2>1
  <2>2. CASE i >= at
    <3>1. i - (at - 1) \in 1..(Len(s) - at) /\ at + (i - (at - 1)) = i + 1 /\ ~(i <= at - 1)
      BY <1>1, <2>2
    <3> QED
      BY <1>3, <1>4, <2>2, <3>1
  <2>3. i < at \/ i >= at
    BY <1>1
  <2> QED
    BY <2>1, <2>2, <2>3
<1> QED
  BY <1>4, <1>5 DEF RemoveAt, front, back

\* RemoveFirst takes out the element where it is.
LEMMA RemovedAt ==
  ASSUME NEW S, NEW s \in Seq(S), IsInjective(s), NEW at \in 1..Len(s)
  PROVE  LET t == RemoveFirst(s, s[at])
         IN  /\ t \in Seq(S) /\ Len(t) = Len(s) - 1
             /\ \A i \in 1..(Len(s) - 1) : t[i] = IF i < at THEN s[i] ELSE s[i + 1]
<1> DEFINE I == {i \in 1..Len(s) : s[i] = s[at]}
<1>1. Len(s) \in Nat /\ DOMAIN s = 1..Len(s) /\ \A i \in 1..Len(s) : s[i] \in S
  BY LenProperties
<1>2. I = {at}
  BY <1>1 DEF IsInjective
<1>3. Min(I) = at
  <2>1. I \in SUBSET Nat /\ I # {}
    BY <1>1, <1>2
  <2>2. Min(I) \in I
    BY <2>1, MinIsSmallest
  <2> QED
    BY <1>2, <2>2
<1>4. SelectInSeq(s, LAMBDA v : v = s[at]) = at
  BY <1>2, <1>3 DEF SelectInSeq
<1>5. RemoveFirst(s, s[at]) = RemoveAt(s, at)
  BY <1>1, <1>4 DEF RemoveFirst
<1> QED
  BY <1>5, RemovedFrom

\* What is left has the other elements, once each and in their old order.
LEMMA RemovedOnce ==
  ASSUME NEW S, NEW s \in Seq(S), IsInjective(s), NEW e \in ToSet(s)
  PROVE  LET t == RemoveFirst(s, e)
         IN  /\ t \in Seq(S) /\ IsInjective(t) /\ ToSet(t) = ToSet(s) \ {e}
             /\ Len(t) = Len(s) - 1
             /\ \A i, j \in DOMAIN t : i < j =>
                  \E k, l \in DOMAIN s : k < l /\ t[i] = s[k] /\ t[j] = s[l]
<1>1. Len(s) \in Nat /\ DOMAIN s = 1..Len(s) /\ \A i \in 1..Len(s) : s[i] \in S
  BY LenProperties
<1>2. PICK at \in 1..Len(s) : s[at] = e
  BY <1>1 DEF ToSet
<1> DEFINE t == RemoveFirst(s, e)
<1>3. /\ t \in Seq(S) /\ Len(t) = Len(s) - 1
      /\ \A i \in 1..(Len(s) - 1) : t[i] = IF i < at THEN s[i] ELSE s[i + 1]
  BY <1>2, RemovedAt
<1> HIDE DEF t
<1>4. DOMAIN t = 1..(Len(s) - 1)
  BY <1>3, LenProperties
<1>5. IsInjective(t)
  BY SMTT(30), <1>1, <1>3, <1>4 DEF IsInjective
<1>6. ToSet(t) \subseteq ToSet(s) \ {e}
  BY SMTT(30), <1>1, <1>2, <1>3, <1>4 DEF ToSet, IsInjective
<1>7. ASSUME NEW x \in ToSet(s), x # e PROVE x \in ToSet(t)
  <2>1. PICK j \in 1..Len(s) : s[j] = x
    BY <1>1 DEF ToSet
  <2>2. CASE j < at
    <3>1. j \in 1..(Len(s) - 1) /\ t[j] = x
      BY <1>1, <1>3, <2>1, <2>2
    <3> QED
      BY <1>4, <3>1 DEF ToSet
  <2>3. CASE j > at
    <3>1. j - 1 \in 1..(Len(s) - 1) /\ ~(j - 1 < at) /\ (j - 1) + 1 = j
      BY <1>1, <2>3
    <3>2. t[j - 1] = x
      BY <1>3, <2>1, <3>1
    <3> QED
      BY <1>4, <3>1, <3>2 DEF ToSet
  <2> QED
    BY <1>1, <1>2, <1>7, <2>1, <2>2, <2>3
<1>8. ASSUME NEW i \in DOMAIN t, NEW j \in DOMAIN t, i < j
      PROVE  \E k, l \in DOMAIN s : k < l /\ t[i] = s[k] /\ t[j] = s[l]
  <2> DEFINE k == IF i < at THEN i ELSE i + 1
             l == IF j < at THEN j ELSE j + 1
  <2>1. k \in DOMAIN s /\ l \in DOMAIN s /\ k < l
    BY <1>1, <1>4, <1>8
  <2>2. t[i] = s[k] /\ t[j] = s[l]
    BY <1>3, <1>4
  <2> QED
    BY <2>1, <2>2
<1> QED
  BY <1>3, <1>5, <1>6, <1>7, <1>8 DEF t

-----------------------------------------------------------------------------
(* InsertAt and Append.                                                    *)

\* t is s with e inserted at p, place by place.
IsInserted(t, X, s, p, e) ==
  /\ t \in Seq(X) /\ Len(t) = Len(s) + 1
  /\ \A i \in 1..(Len(s) + 1) : t[i] = IF i < p THEN s[i] ELSE IF i = p THEN e ELSE s[i - 1]

\* InsertAt inserts.
LEMMA InsertedIs ==
  ASSUME NEW S, NEW s \in Seq(S), NEW e \in S, NEW p \in 1..(Len(s) + 1)
  PROVE  IsInserted(InsertAt(s, p, e), S, s, p, e)
<1> DEFINE front == SubSeq(s, 1, p - 1)
           back == SubSeq(s, p, Len(s))
           middle == front \o <<e>>
<1>1. Len(s) \in Nat /\ DOMAIN s = 1..Len(s) /\ \A i \in 1..Len(s) : s[i] \in S
  BY LenProperties
<1>2. /\ front \in Seq(S) /\ Len(front) = p - 1
      /\ \A i \in 1..(p - 1) : front[i] = s[i]
  <2>1. /\ front \in Seq(S) /\ Len(front) = IF 1 <= p - 1 THEN p - 1 - 1 + 1 ELSE 0
        /\ \A i \in 1..(p - 1 - 1 + 1) : front[i] = s[1 + i - 1]
    BY <1>1, SubSeqProperties
  <2> QED
    BY <1>1, <2>1
<1>3. /\ back \in Seq(S) /\ Len(back) = Len(s) + 1 - p
      /\ \A i \in 1..(Len(s) + 1 - p) : back[i] = s[p + i - 1]
  <2>1. /\ back \in Seq(S) /\ Len(back) = IF p <= Len(s) THEN Len(s) - p + 1 ELSE 0
        /\ \A i \in 1..(Len(s) - p + 1) : back[i] = s[p + i - 1]
    BY <1>1, SubSeqProperties
  <2> HIDE DEF back
  <2>2. Len(back) = Len(s) + 1 - p /\ Len(s) - p + 1 = Len(s) + 1 - p
    BY <1>1, <2>1
  <2> QED
    BY <2>1, <2>2
<1> HIDE DEF front, back
<1>4. /\ <<e>> \in Seq(S) /\ Len(<<e>>) = 1 /\ <<e>>[1] = e
  OBVIOUS
<1>5. /\ middle \in Seq(S) /\ Len(middle) = p
      /\ \A i \in 1..p : middle[i] = IF i < p THEN s[i] ELSE e
  <2>1. /\ middle \in Seq(S) /\ Len(middle) = Len(front) + Len(<<e>>)
        /\ \A i \in 1..(Len(front) + Len(<<e>>)) :
             middle[i] = IF i <= Len(front) THEN front[i] ELSE <<e>>[i - Len(front)]
    BY <1>2, <1>4, ConcatProperties
  <2> HIDE DEF middle
  <2>2. Len(front) + Len(<<e>>) = p
    BY <1>2, <1>4
  <2>3. ASSUME NEW i \in 1..p PROVE middle[i] = IF i < p THEN s[i] ELSE e
    <3>1. CASE i < p
      BY <1>2, <2>1, <2>2, <3>1
    <3>2. CASE i = p
      <4>1. i - Len(front) = 1 /\ ~(i <= Len(front))
        BY <1>2, <3>2
      <4> QED
        BY <1>4, <2>1, <2>2, <3>2, <4>1
    <3> QED
      BY <3>1, <3>2
  <2> QED
    BY <2>1, <2>2, <2>3
<1> HIDE DEF middle
<1>6. /\ middle \o back \in Seq(S) /\ Len(middle \o back) = Len(s) + 1
      /\ \A i \in 1..(Len(s) + 1) :
           (middle \o back)[i] = IF i <= p THEN middle[i] ELSE back[i - p]
  <2>1. /\ middle \o back \in Seq(S) /\ Len(middle \o back) = Len(middle) + Len(back)
        /\ \A i \in 1..(Len(middle) + Len(back)) :
             (middle \o back)[i] = IF i <= Len(middle) THEN middle[i] ELSE back[i - Len(middle)]
    BY <1>3, <1>5, ConcatProperties
  <2>2. Len(middle) + Len(back) = Len(s) + 1
    BY <1>1, <1>3, <1>5
  <2> QED
    BY <1>5, <2>1, <2>2
<1>7. InsertAt(s, p, e) = middle \o back
  BY DEF InsertAt, middle, front, back
<1>8. ASSUME NEW i \in 1..(Len(s) + 1)
      PROVE  (middle \o back)[i] = IF i < p THEN s[i] ELSE IF i = p THEN e ELSE s[i - 1]
  <2>1. CASE i <= p
    <3>1. i \in 1..p /\ (i < p \/ i = p)
      BY <1>1, <2>1
    <3> QED
      BY <1>5, <1>6, <2>1, <3>1
  <2>2. CASE i > p
    <3>1. i - p \in 1..(Len(s) + 1 - p) /\ p + (i - p) - 1 = i - 1 /\ ~(i <= p) /\ ~(i < p) /\ i # p
      BY <1>1, <2>2
    <3> QED
      BY <1>3, <1>6, <2>2, <3>1
  <2>3. i <= p \/ i > p
    BY <1>1
  <2> QED
    BY <2>1, <2>2, <2>3
<1> QED
  BY <1>6, <1>7, <1>8 DEF IsInserted

\* The elements from the place on move down.
LEMMA InsertedAt ==
  ASSUME NEW S, NEW s \in Seq(S), NEW e \in S, NEW p \in 1..(Len(s) + 1)
  PROVE  LET t == InsertAt(s, p, e)
         IN  /\ t \in Seq(S) /\ Len(t) = Len(s) + 1
             /\ \A i \in 1..(Len(s) + 1) :
                  t[i] = IF i < p THEN s[i] ELSE IF i = p THEN e ELSE s[i - 1]
<1>1. IsInserted(InsertAt(s, p, e), S, s, p, e)
  BY InsertedIs
<1> QED
  BY <1>1 DEF IsInserted

\* The new element is added to the others, wherever it goes.
LEMMA Inserted ==
  ASSUME NEW S, NEW s \in Seq(S), IsInjective(s), NEW e \in S \ ToSet(s),
         NEW p \in 1..(Len(s) + 1)
  PROVE  LET t == InsertAt(s, p, e)
         IN  t \in Seq(S) /\ IsInjective(t) /\ ToSet(t) = ToSet(s) \cup {e}
<1>1. Len(s) \in Nat /\ DOMAIN s = 1..Len(s) /\ \A i \in 1..Len(s) : s[i] \in S
  BY LenProperties
<1> DEFINE t == InsertAt(s, p, e)
<1>2. /\ t \in Seq(S) /\ Len(t) = Len(s) + 1
      /\ \A i \in 1..(Len(s) + 1) : t[i] = IF i < p THEN s[i] ELSE IF i = p THEN e ELSE s[i - 1]
  <2>1. e \in S
    OBVIOUS
  <2> QED
    BY <2>1, InsertedAt
<1> HIDE DEF t
<1>3. DOMAIN t = 1..(Len(s) + 1)
  BY <1>2, LenProperties
<1>4. \A i \in 1..Len(s) : s[i] # e
  BY <1>1 DEF ToSet
<1> DEFINE old(i) == IF i < p THEN i ELSE i - 1
<1>a. \A i \in 1..(Len(s) + 1) : i # p => old(i) \in 1..Len(s) /\ t[i] = s[old(i)]
  BY <1>1, <1>2
<1>b. \A i, j \in 1..(Len(s) + 1) : i # p /\ j # p /\ old(i) = old(j) => i = j
  BY <1>1
<1> HIDE DEF old
<1>c. t[p] = e
  BY <1>1, <1>2
<1>5. IsInjective(t)
  <2> SUFFICES ASSUME NEW i \in 1..(Len(s) + 1), NEW j \in 1..(Len(s) + 1), t[i] = t[j]
               PROVE  i = j
    BY <1>3 DEF IsInjective
  <2>1. CASE i # p /\ j # p
    BY <1>1, <1>a, <1>b, <2>1 DEF IsInjective
  <2>2. CASE i = p \/ j = p
    BY <1>4, <1>a, <1>c, <2>2
  <2> QED
    BY <2>1, <2>2
<1>6. ToSet(t) \subseteq ToSet(s) \cup {e}
  <2> SUFFICES ASSUME NEW i \in 1..(Len(s) + 1) PROVE t[i] \in ToSet(s) \cup {e}
    BY <1>3 DEF ToSet
  <2> QED
    BY <1>1, <1>a, <1>c DEF ToSet
<1>7. e \in ToSet(t)
  BY <1>2, <1>3 DEF ToSet
<1>8. ASSUME NEW x \in ToSet(s) PROVE x \in ToSet(t)
  <2>1. PICK j \in 1..Len(s) : s[j] = x
    BY <1>1 DEF ToSet
  <2>2. CASE j < p
    <3>1. j \in 1..(Len(s) + 1) /\ t[j] = x
      BY <1>1, <1>2, <2>1, <2>2
    <3> QED
      BY <1>3, <3>1 DEF ToSet
  <2>3. CASE j >= p
    <3>1. j + 1 \in 1..(Len(s) + 1) /\ ~(j + 1 < p) /\ j + 1 # p /\ (j + 1) - 1 = j
      BY <1>1, <2>3
    <3>2. t[j + 1] = x
      BY <1>2, <2>1, <3>1
    <3> QED
      BY <1>3, <3>1, <3>2 DEF ToSet
  <2> QED
    BY <1>1, <2>2, <2>3
<1> QED
  BY <1>2, <1>5, <1>6, <1>7, <1>8 DEF t

\* The same at the end.
LEMMA Appended ==
  ASSUME NEW S, NEW s \in Seq(S), IsInjective(s), NEW e \in S \ ToSet(s)
  PROVE  LET t == Append(s, e)
         IN  t \in Seq(S) /\ IsInjective(t) /\ ToSet(t) = ToSet(s) \cup {e}
<1>1. Len(s) \in Nat /\ DOMAIN s = 1..Len(s) /\ \A i \in 1..Len(s) : s[i] \in S
  BY LenProperties
<1> DEFINE t == Append(s, e)
<1>2. /\ t \in Seq(S) /\ Len(t) = Len(s) + 1 /\ t[Len(s) + 1] = e
      /\ \A i \in 1..Len(s) : t[i] = s[i]
  BY AppendProperties
<1> HIDE DEF t
<1>3. DOMAIN t = 1..(Len(s) + 1)
  BY <1>2, LenProperties
<1>4. IsInjective(t)
  BY <1>1, <1>2, <1>3 DEF IsInjective, ToSet
<1>5. ToSet(t) = ToSet(s) \cup {e}
  BY <1>1, <1>2, <1>3 DEF ToSet
<1> QED
  BY <1>2, <1>4, <1>5 DEF t

\* Appending is inserting behind the last place.
LEMMA AppendedIsInserted ==
  ASSUME NEW S, NEW s \in Seq(S), NEW e \in S
  PROVE  InsertAt(s, Len(s) + 1, e) = Append(s, e)
<1> DEFINE t == InsertAt(s, Len(s) + 1, e)
           u == Append(s, e)
<1>1. Len(s) \in Nat /\ Len(s) + 1 \in 1..(Len(s) + 1)
  BY LenProperties
<1>2. /\ t \in Seq(S) /\ Len(t) = Len(s) + 1
      /\ \A i \in 1..(Len(s) + 1) :
           t[i] = IF i < Len(s) + 1 THEN s[i] ELSE IF i = Len(s) + 1 THEN e ELSE s[i - 1]
  BY <1>1, InsertedAt
<1>3. /\ u \in Seq(S) /\ Len(u) = Len(s) + 1 /\ u[Len(s) + 1] = e
      /\ \A i \in 1..Len(s) : u[i] = s[i]
  BY AppendProperties
<1> HIDE DEF t, u
<1>4. \A i \in 1..(Len(s) + 1) : t[i] = u[i]
  BY <1>1, <1>2, <1>3
<1>5. t = u
  BY <1>2, <1>3, <1>4, SeqEqual
<1> QED
  BY <1>5 DEF t, u

\* What was appended and is taken out again has changed nothing.
LEMMA AppendedAndRemoved ==
  ASSUME NEW S, NEW s \in Seq(S), IsInjective(s), NEW e \in S \ ToSet(s)
  PROVE  RemoveFirst(Append(s, e), e) = s
<1> DEFINE u == Append(s, e)
           t == RemoveFirst(u, e)
<1>1. Len(s) \in Nat
  BY LenProperties
<1>2. /\ u \in Seq(S) /\ Len(u) = Len(s) + 1 /\ u[Len(s) + 1] = e
      /\ \A i \in 1..Len(s) : u[i] = s[i]
  BY AppendProperties
<1>3. IsInjective(u)
  BY Appended
<1> HIDE DEF u
<1>4. Len(s) + 1 \in 1..Len(u)
  BY <1>1, <1>2
<1>5. /\ t \in Seq(S) /\ Len(t) = Len(u) - 1
      /\ \A i \in 1..(Len(u) - 1) : t[i] = IF i < Len(s) + 1 THEN u[i] ELSE u[i + 1]
  BY <1>2, <1>3, <1>4, RemovedAt
<1> HIDE DEF t
<1>6. Len(t) = Len(s) /\ \A i \in 1..Len(s) : t[i] = s[i]
  BY <1>1, <1>2, <1>5
<1>7. t = s
  BY <1>5, <1>6, SeqEqual
<1> QED
  BY <1>7 DEF t, u

-----------------------------------------------------------------------------
(* Cons, and moving to the front.                                          *)

\* The other elements move down.
LEMMA Consed ==
  ASSUME NEW S, NEW s \in Seq(S), NEW e \in S
  PROVE  LET t == Cons(e, s)
         IN  /\ t \in Seq(S) /\ Len(t) = Len(s) + 1 /\ t[1] = e
             /\ \A i \in 2..(Len(s) + 1) : t[i] = s[i - 1]
             /\ ToSet(t) = ToSet(s) \cup {e}
             /\ IsInjective(s) /\ e \notin ToSet(s) => IsInjective(t)
<1> DEFINE t == Cons(e, s)
<1>1. Len(s) \in Nat /\ DOMAIN s = 1..Len(s) /\ \A i \in 1..Len(s) : s[i] \in S
  BY LenProperties
<1>2. <<e>> \in Seq(S) /\ Len(<<e>>) = 1 /\ <<e>>[1] = e
  OBVIOUS
<1>3. /\ t \in Seq(S) /\ Len(t) = 1 + Len(s)
      /\ \A i \in 1..(1 + Len(s)) : t[i] = IF i <= 1 THEN <<e>>[i] ELSE s[i - 1]
  BY <1>2, ConcatProperties DEF Cons
<1> HIDE DEF t
<1>4. t[1] = e
  BY <1>1, <1>2, <1>3
<1>5. \A i \in 2..(Len(s) + 1) : i \in 1..(1 + Len(s)) /\ ~(i <= 1) /\ i - 1 \in 1..Len(s)
  BY <1>1
<1>6. \A i \in 2..(Len(s) + 1) : t[i] = s[i - 1]
  BY <1>3, <1>5
<1>7. Len(t) = Len(s) + 1 /\ DOMAIN t = 1..(Len(s) + 1)
  <2>1. Len(t) = Len(s) + 1
    BY <1>1, <1>3
  <2> QED
    BY <1>3, <2>1, LenProperties
<1>8. \A i \in 1..(Len(s) + 1) : i = 1 \/ i \in 2..(Len(s) + 1)
  BY <1>1
<1>9. ToSet(t) = ToSet(s) \cup {e}
  <2>1. ToSet(t) \subseteq ToSet(s) \cup {e}
    BY <1>1, <1>4, <1>5, <1>6, <1>7, <1>8 DEF ToSet
  <2>2. ASSUME NEW i \in 1..Len(s) PROVE s[i] \in ToSet(t)
    <3>1. i + 1 \in 2..(Len(s) + 1) /\ i + 1 \in 1..(Len(s) + 1) /\ (i + 1) - 1 = i
      BY <1>1
    <3> QED
      BY <1>6, <1>7, <3>1 DEF ToSet
  <2>3. e \in ToSet(t)
    BY <1>1, <1>4, <1>7 DEF ToSet
  <2> QED
    BY <1>1, <2>1, <2>2, <2>3 DEF ToSet
<1>10. ASSUME IsInjective(s), e \notin ToSet(s) PROVE IsInjective(t)
  <2> SUFFICES ASSUME NEW i \in 1..(Len(s) + 1), NEW j \in 1..(Len(s) + 1), t[i] = t[j]
               PROVE  i = j
    BY <1>7 DEF IsInjective
  <2>1. CASE i = 1 \/ j = 1
    BY <1>1, <1>4, <1>5, <1>6, <1>8, <1>10, <2>1 DEF ToSet
  <2>2. CASE i # 1 /\ j # 1
    <3>1. i - 1 \in 1..Len(s) /\ j - 1 \in 1..Len(s) /\ s[i - 1] = s[j - 1]
      BY <1>5, <1>6, <1>8, <2>2
    <3>2. i - 1 = j - 1
      BY <1>1, <1>10, <3>1 DEF IsInjective
    <3> QED
      BY <1>1, <3>2
  <2> QED
    BY <2>1, <2>2
<1> QED
  BY <1>3, <1>4, <1>6, <1>7, <1>9, <1>10 DEF t

\* Taking out what is not there changes nothing.
LEMMA NotRemoved ==
  ASSUME NEW S, NEW s \in Seq(S), NEW e, e \notin ToSet(s)
  PROVE  RemoveFirst(s, e) = s
<1>1. DOMAIN s = 1..Len(s)
  BY LenProperties
<1> QED
  BY <1>1 DEF RemoveFirst, ToSet

\* An element goes to the front, from place p or, when that is behind the last place, from
\* outside: what was in front of it moves down.
LEMMA ToTheFront ==
  ASSUME NEW S, NEW s \in Seq(S), IsInjective(s), NEW e \in S, NEW p \in 1..(Len(s) + 1),
         IF p \in 1..Len(s) THEN s[p] = e ELSE e \notin ToSet(s)
  PROVE  LET t == Cons(e, RemoveFirst(s, e))
         IN  /\ t \in Seq(S) /\ IsInjective(t) /\ ToSet(t) = ToSet(s) \cup {e} /\ t[1] = e
             /\ Len(t) = IF p \in 1..Len(s) THEN Len(s) ELSE Len(s) + 1
             /\ \A i \in 2..Len(t) : t[i] = IF i <= p THEN s[i - 1] ELSE s[i]
<1> DEFINE r == RemoveFirst(s, e)
           t == Cons(e, r)
<1>1. Len(s) \in Nat /\ DOMAIN s = 1..Len(s)
  BY LenProperties
<1>2. /\ r \in Seq(S) /\ IsInjective(r) /\ e \notin ToSet(r) /\ ToSet(r) \cup {e} = ToSet(s) \cup {e}
      /\ Len(r) = (IF p \in 1..Len(s) THEN Len(s) - 1 ELSE Len(s))
      /\ \A i \in 1..Len(r) : r[i] = IF i < p THEN s[i] ELSE s[i + 1]
  <2>1. CASE p \in 1..Len(s)
    <3>1. e \in ToSet(s)
      BY <1>1, <2>1 DEF ToSet
    <3>2. r \in Seq(S) /\ IsInjective(r) /\ ToSet(r) = ToSet(s) \ {e}
      BY <3>1, RemovedOnce
    <3>3. Len(r) = Len(s) - 1 /\ \A i \in 1..(Len(s) - 1) : r[i] = IF i < p THEN s[i] ELSE s[i + 1]
      <4>1. e = s[p]
        BY <2>1
      <4> HIDE DEF r
      <4>2. r = RemoveFirst(s, s[p])
        BY <4>1 DEF r
      <4> QED
        BY <2>1, <4>2, RemovedAt
    <3> QED
      BY <2>1, <3>1, <3>2, <3>3
  <2>2. CASE p \notin 1..Len(s)
    <3>1. r = s
      BY <2>2, NotRemoved
    <3>2. \A i \in 1..Len(s) : i < p
      BY <1>1, <2>2
    <3> QED
      BY <2>2, <3>1, <3>2
  <2> QED
    BY <2>1, <2>2
<1> HIDE DEF r
<1>3. /\ t \in Seq(S) /\ Len(t) = Len(r) + 1 /\ t[1] = e /\ IsInjective(t)
      /\ \A i \in 2..(Len(r) + 1) : t[i] = r[i - 1]
      /\ ToSet(t) = ToSet(r) \cup {e}
  <2>1. /\ t \in Seq(S) /\ Len(t) = Len(r) + 1 /\ t[1] = e
        /\ \A i \in 2..(Len(r) + 1) : t[i] = r[i - 1]
        /\ ToSet(t) = ToSet(r) \cup {e}
        /\ IsInjective(r) /\ e \notin ToSet(r) => IsInjective(t)
    <3>1. r \in Seq(S) /\ e \in S
      BY <1>2
    <3> QED
      BY <3>1, Consed
  <2> QED
    BY <1>2, <2>1
<1> HIDE DEF t
<1>4. Len(t) = IF p \in 1..Len(s) THEN Len(s) ELSE Len(s) + 1
  <2>1. CASE p \in 1..Len(s)
    <3>1. Len(r) = Len(s) - 1 /\ Len(t) = Len(r) + 1
      BY <1>2, <1>3, <2>1
    <3> QED
      BY <1>1, <2>1, <3>1
  <2>2. CASE p \notin 1..Len(s)
    BY <1>2, <1>3, <2>2
  <2> QED
    BY <2>1, <2>2
<1>5. ASSUME NEW i \in 2..Len(t)
      PROVE  t[i] = IF i <= p THEN s[i - 1] ELSE s[i]
  <2>1. /\ i \in 2..(Len(r) + 1) /\ i - 1 \in 1..Len(r) /\ (i <= p <=> i - 1 < p)
        /\ (i - 1) + 1 = i
    <3>1. Len(r) \in Nat
      BY <1>2, LenProperties
    <3>2. i \in 2..(Len(r) + 1) /\ p \in Nat
      BY <1>1, <1>3
    <3> HIDE DEF r, t
    <3> QED
      BY <3>1, <3>2
  <2> QED
    BY <1>2, <1>3, <2>1
<1> QED
  BY <1>2, <1>3, <1>4, <1>5 DEF t, r

-----------------------------------------------------------------------------
(* Reverse.                                                                *)

\* The same elements from the other end.
LEMMA Reversal ==
  ASSUME NEW S, NEW s \in Seq(S)
  PROVE  LET t == Reverse(s)
         IN  /\ t \in Seq(S) /\ Len(t) = Len(s) /\ ToSet(t) = ToSet(s)
             /\ \A i \in 1..Len(s) : t[i] = s[Len(s) - i + 1]
             /\ IsInjective(s) => IsInjective(t)
<1>1. Len(s) \in Nat /\ DOMAIN s = 1..Len(s) /\ \A i \in 1..Len(s) : s[i] \in S
  BY LenProperties
<1> DEFINE t == Reverse(s)
<1>2. t = [i \in 1..Len(s) |-> s[Len(s) - i + 1]]
  BY DEF Reverse
<1>3. \A i \in 1..Len(s) : Len(s) - i + 1 \in 1..Len(s)
  BY <1>1
<1> HIDE DEF t
<1>4. t \in Seq(S)
  BY <1>1, <1>2, <1>3, IsASeq
<1>5. Len(t) = Len(s) /\ DOMAIN t = 1..Len(s)
  BY <1>1, <1>2, <1>4, LenProperties
<1>6. \A i \in 1..Len(s) : t[i] = s[Len(s) - i + 1]
  BY <1>2
<1>7. ToSet(t) = ToSet(s)
  <2>1. ToSet(t) \subseteq ToSet(s)
    BY <1>1, <1>3, <1>5, <1>6 DEF ToSet
  <2>2. ASSUME NEW i \in 1..Len(s) PROVE s[i] \in ToSet(t)
    <3>1. Len(s) - (Len(s) - i + 1) + 1 = i
      BY <1>1
    <3>2. t[Len(s) - i + 1] = s[i]
      BY <1>3, <1>6, <3>1
    <3> QED
      BY <1>3, <1>5, <3>2 DEF ToSet
  <2> QED
    BY <1>1, <2>1, <2>2 DEF ToSet
<1>8. ASSUME IsInjective(s) PROVE IsInjective(t)
  <2> SUFFICES ASSUME NEW i \in 1..Len(s), NEW j \in 1..Len(s), t[i] = t[j] PROVE i = j
    BY <1>5 DEF IsInjective
  <2>1. s[Len(s) - i + 1] = s[Len(s) - j + 1]
    BY <1>6
  <2>2. Len(s) - i + 1 = Len(s) - j + 1
    BY <1>1, <1>3, <1>8, <2>1 DEF IsInjective
  <2> QED
    BY <1>1, <2>2
<1> QED
  BY <1>4, <1>5, <1>6, <1>7, <1>8 DEF t

\* Reversing twice changes nothing.
LEMMA ReversedTwice ==
  ASSUME NEW S, NEW s \in Seq(S)
  PROVE  Reverse(Reverse(s)) = s
<1> DEFINE t == Reverse(s)
           u == Reverse(t)
<1>1. Len(s) \in Nat
  BY LenProperties
<1>2. t \in Seq(S) /\ Len(t) = Len(s) /\ \A i \in 1..Len(s) : t[i] = s[Len(s) - i + 1]
  BY Reversal
<1> HIDE DEF t
<1>3. u \in Seq(S) /\ Len(u) = Len(t) /\ \A i \in 1..Len(t) : u[i] = t[Len(t) - i + 1]
  BY <1>2, Reversal
<1> HIDE DEF u
<1>4. ASSUME NEW i \in 1..Len(s) PROVE u[i] = s[i]
  <2>1. Len(s) - i + 1 \in 1..Len(s) /\ Len(s) - (Len(s) - i + 1) + 1 = i
    BY <1>1
  <2> QED
    BY <1>2, <1>3, <2>1
<1>5. u = s
  BY <1>2, <1>3, <1>4, SeqEqual
<1> QED
  BY <1>5 DEF t, u

\* Two sequences with the same elements, once each, have the same length.
LEMMA SameLength ==
  ASSUME NEW S, NEW s \in Seq(S), NEW t \in Seq(S), IsInjective(s), IsInjective(t),
         ToSet(s) = ToSet(t)
  PROVE  Len(s) = Len(t)
<1>1. ASSUME NEW u \in Seq(S), IsInjective(u)
      PROVE  Cardinality(ToSet(u)) = Len(u)
  <2>1. Len(u) \in Nat /\ DOMAIN u = 1..Len(u)
    BY LenProperties
  <2> DEFINE k == Len(u)
  <2> HIDE DEF k
  <2>2. IsFiniteSet(1..k) /\ Cardinality(1..k) = k
    <3>1. k \in Nat
      BY <2>1 DEF k
    <3>2. IsFiniteSet(1..k) /\ Cardinality(1..k) = IF 1 > k THEN 0 ELSE k - 1 + 1
      BY <3>1, FS_Interval
    <3> QED
      BY <3>1, <3>2
  <2>3. u \in Bijection(1..k, ToSet(u))
    <3>1. u \in [1..Len(u) -> ToSet(u)]
      BY <2>1, SeqDef DEF ToSet
    <3>2. \A i, j \in 1..Len(u) : u[i] = u[j] => i = j
      BY <1>1, <2>1 DEF IsInjective
    <3>3. \A x \in ToSet(u) : \E i \in 1..Len(u) : u[i] = x
      BY <2>1 DEF ToSet
    <3> QED
      BY <2>1, <3>1, <3>2, <3>3 DEF Bijection, Injection, Surjection, IsInjective, k
  <2>4. Cardinality(ToSet(u)) = Cardinality(1..k)
    BY <2>2, <2>3, FS_Bijection DEF ExistsBijection
  <2> QED
    BY <2>2, <2>4 DEF k
<1> QED
  BY <1>1

-----------------------------------------------------------------------------
(* Prefixes.                                                               *)

\* IsPrefix compares place by place.
LEMMA PrefixByPlace ==
  ASSUME NEW S, NEW s \in Seq(S), NEW t \in Seq(S)
  PROVE  IsPrefix(s, t) <=> Len(s) <= Len(t) /\ \A i \in 1..Len(s) : s[i] = t[i]
<1>1. Len(s) \in Nat /\ Len(t) \in Nat /\ DOMAIN s = 1..Len(s) /\ DOMAIN t = 1..Len(t)
  BY LenProperties
<1>2. CASE Len(s) <= Len(t)
  <2> DEFINE a == SubSeq(s, 1, Len(s))
             b == SubSeq(t, 1, Len(s))
  <2>1. 1 \in 1..(Len(s) + 1) /\ Len(s) \in (1 - 1)..Len(s) /\ Len(s) \in (1 - 1)..Len(t)
        /\ 1 \in 1..(Len(t) + 1)
    BY <1>1, <1>2
  <2>2. a \in Seq(S) /\ Len(a) = Len(s) /\ \A i \in 1..Len(s) : a[i] = s[i]
    <3>1. /\ a \in Seq(S) /\ Len(a) = Len(s) - 1 + 1
          /\ \A i \in 1..(Len(s) - 1 + 1) : a[i] = s[1 + i - 1]
      BY <1>1, <2>1, SubSeqProperties
    <3> QED
      BY <1>1, <3>1
  <2>3. b \in Seq(S) /\ Len(b) = Len(s) /\ \A i \in 1..Len(s) : b[i] = t[i]
    <3>1. /\ b \in Seq(S) /\ Len(b) = Len(s) - 1 + 1
          /\ \A i \in 1..(Len(s) - 1 + 1) : b[i] = t[1 + i - 1]
      BY <1>1, <1>2, <2>1, SubSeqProperties
    <3> QED
      BY <1>1, <3>1
  <2> HIDE DEF a, b
  <2>4. a = b <=> \A i \in 1..Len(s) : a[i] = b[i]
    BY <2>2, <2>3, SeqEqual
  <2> QED
    BY <1>2, <2>2, <2>3, <2>4 DEF IsPrefix, a, b
<1>3. CASE ~(Len(s) <= Len(t))
  BY <1>3 DEF IsPrefix
<1> QED
  BY <1>2, <1>3

\* The head of a prefix is the first element; the tail is a prefix of what is left when
\* that element is taken out, whether or not it is put back at the end.
LEMMA PrefixPassed ==
  ASSUME NEW S, NEW s \in Seq(S), IsInjective(s), NEW r \in Seq(S), r # <<>>, IsPrefix(r, s)
  PROVE  LET n == Head(r)
         IN  /\ n \in ToSet(s) /\ n \in S /\ Tail(r) \in Seq(S)
             /\ ToSet(r) \ {n} \subseteq ToSet(Tail(r))
             /\ IsPrefix(Tail(r), RemoveFirst(s, n))
             /\ IsPrefix(Tail(r), Append(RemoveFirst(s, n), n))
<1> DEFINE n == Head(r)
           u == Tail(r)
           t == RemoveFirst(s, n)
           w == Append(t, n)
<1>1. Len(s) \in Nat /\ DOMAIN s = 1..Len(s) /\ Len(r) \in Nat /\ DOMAIN r = 1..Len(r)
  BY LenProperties
<1>2. Len(r) <= Len(s) /\ \A i \in 1..Len(r) : r[i] = s[i]
  BY PrefixByPlace
<1>3. n = r[1] /\ u \in Seq(S) /\ Len(u) = Len(r) - 1 /\ \A i \in 1..Len(u) : u[i] = r[i + 1]
      /\ DOMAIN u = 1..Len(u)
  BY HeadTailProperties, LenProperties
<1>4. Len(r) >= 1
  BY <1>1, EmptySeq
<1>5. n = s[1] /\ 1 \in 1..Len(s) /\ n \in S
  BY <1>1, <1>2, <1>3, <1>4
<1>6. /\ t \in Seq(S) /\ Len(t) = Len(s) - 1
      /\ \A i \in 1..(Len(s) - 1) : t[i] = IF i < 1 THEN s[i] ELSE s[i + 1]
  <2>1. /\ RemoveFirst(s, s[1]) \in Seq(S) /\ Len(RemoveFirst(s, s[1])) = Len(s) - 1
        /\ \A i \in 1..(Len(s) - 1) : RemoveFirst(s, s[1])[i] = IF i < 1 THEN s[i] ELSE s[i + 1]
    BY <1>5, RemovedAt
  <2>2. t = RemoveFirst(s, s[1])
    BY <1>5
  <2> HIDE DEF t
  <2> QED
    BY <2>1, <2>2
<1> HIDE DEF t
<1>7. w \in Seq(S) /\ Len(w) = Len(t) + 1 /\ \A i \in 1..Len(t) : w[i] = t[i]
  BY <1>5, <1>6, AppendProperties
<1> HIDE DEF n, u, w
<1>8. /\ Len(u) <= Len(t) /\ Len(u) <= Len(w)
      /\ \A i \in 1..Len(u) : u[i] = t[i] /\ u[i] = w[i]
  <2>1. Len(u) = Len(r) - 1 /\ Len(t) = Len(s) - 1 /\ Len(w) = Len(t) + 1
    BY <1>3, <1>6, <1>7
  <2>2. Len(u) <= Len(t) /\ Len(u) <= Len(w) /\ Len(u) \in Nat /\ Len(t) \in Nat
    BY <1>1, <1>2, <1>4, <2>1
  <2>3. ASSUME NEW i \in 1..Len(u) PROVE u[i] = t[i] /\ u[i] = w[i]
    <3>1. i \in 1..Len(t) /\ i \in 1..(Len(s) - 1) /\ ~(i < 1) /\ i + 1 \in 1..Len(r)
      BY <1>1, <2>1, <2>2
    <3>2. u[i] = r[i + 1] /\ r[i + 1] = s[i + 1]
      BY <1>2, <1>3, <3>1
    <3>3. t[i] = s[i + 1]
      BY <1>6, <3>1
    <3> QED
      BY <1>7, <3>1, <3>2, <3>3
  <2> QED
    BY <2>2, <2>3
<1>9. ToSet(r) \ {n} \subseteq ToSet(u)
  <2> SUFFICES ASSUME NEW i \in 1..Len(r), r[i] # n PROVE r[i] \in ToSet(u)
    BY <1>1 DEF ToSet
  <2>1. i - 1 \in 1..Len(u) /\ i = (i - 1) + 1
    BY <1>1, <1>3
  <2>2. u[i - 1] = r[i]
    BY <1>3, <2>1
  <2> QED
    BY <1>3, <2>1, <2>2 DEF ToSet
<1>10. IsPrefix(u, t) /\ IsPrefix(u, w)
  BY <1>3, <1>6, <1>7, <1>8, PrefixByPlace
<1>11. n \in ToSet(s)
  BY <1>1, <1>5 DEF ToSet
<1> QED
  BY <1>3, <1>5, <1>9, <1>10, <1>11 DEF n, u, t, w

-----------------------------------------------------------------------------
(* Numbers of elements.                                                    *)

\* The numbers from 1 to n are n.
LEMMA PlacesCount ==
  ASSUME NEW n \in Nat
  PROVE  IsFiniteSet(1..n) /\ Cardinality(1..n) = n
<1>1. 1 \in Int /\ n \in Int
  OBVIOUS
<1>2. IsFiniteSet(1..n) /\ Cardinality(1..n) = IF 1 > n THEN 0 ELSE n - 1 + 1
  BY <1>1, FS_Interval, Zenon
<1> DEFINE c == Cardinality(1..n)
<1>3. c = IF 1 > n THEN 0 ELSE n - 1 + 1
  BY <1>2
<1> HIDE DEF c
<1>4. c = n
  BY <1>3
<1> QED
  BY <1>2, <1>4 DEF c

\* A sequence without repeated elements has as many places as elements.
LEMMA DistinctCount ==
  ASSUME NEW S, NEW s \in Seq(S), IsInjective(s)
  PROVE  IsFiniteSet(ToSet(s)) /\ Cardinality(ToSet(s)) = Len(s)
<1>1. Len(s) \in Nat /\ DOMAIN s = 1..Len(s) /\ s \in [1..Len(s) -> S]
  BY LenProperties, SeqDef
<1>2. s \in Bijection(1..Len(s), ToSet(s))
  <2>1. s \in [1..Len(s) -> ToSet(s)]
    BY <1>1 DEF ToSet
  <2>2. \A i, j \in 1..Len(s) : s[i] = s[j] => i = j
    BY <1>1 DEF IsInjective
  <2>3. \A x \in ToSet(s) : \E i \in 1..Len(s) : s[i] = x
    BY <1>1 DEF ToSet
  <2> QED
    BY <2>1, <2>2, <2>3 DEF Bijection, Injection, Surjection, IsInjective
<1>3. IsFiniteSet(1..Len(s)) /\ Cardinality(1..Len(s)) = Len(s)
  BY <1>1, PlacesCount
<1>4. ExistsBijection(1..Len(s), ToSet(s))
  BY <1>2 DEF ExistsBijection
<1> QED
  BY <1>3, <1>4, FS_Bijection

-----------------------------------------------------------------------------
(* Functions defined by recursion.                                         *)

\* g has x at a and, at the k places behind it, what step f makes of the value before.
IsIteration(g, X, x, a, k, f) ==
  /\ g \in [a..(a + k) -> X]
  /\ \A i \in a..(a + k) : g[i] = IF i = a THEN x ELSE f[<<i, g[i - 1]>>]

\* What is computed step by step exists.
LEMMA Iterated ==
  ASSUME NEW X, NEW x \in X, NEW a \in Nat, NEW k \in Nat, NEW f \in [Nat \X X -> X]
  PROVE  \E g : IsIteration(g, X, x, a, k, f)
<1> DEFINE Follows(g, j) == IsIteration(g, X, x, a, j, f)
           T == {j \in Nat : \E g : Follows(g, j)}
<1>1. 0 \in T
  <2> DEFINE g == [i \in a..(a + 0) |-> x]
  <2>1. a..(a + 0) = {a}
    OBVIOUS
  <2>2. Follows(g, 0)
    BY <2>1 DEF IsIteration
  <2> QED
    BY <2>2
<1>2. ASSUME NEW j \in Nat, j \in T
      PROVE  j + 1 \in T
  <2>1. PICK g :
          /\ g \in [a..(a + j) -> X]
          /\ \A i \in a..(a + j) : g[i] = IF i = a THEN x ELSE f[<<i, g[i - 1]>>]
    BY <1>2 DEF IsIteration
  <2> DEFINE top == a + (j + 1)
             y == f[<<top, g[a + j]>>]
             h == [i \in a..top |-> IF i = top THEN y ELSE g[i]]
  <2>2. /\ top \in Nat /\ top # a /\ top \in a..top /\ top - 1 = a + j /\ a + j \in a..(a + j)
        /\ a + j \in a..top /\ a + j # top
        /\ \A i \in a..top : i # top => i \in a..(a + j)
        /\ \A i \in a..(a + j) : i # a => i - 1 \in a..(a + j) /\ i - 1 \in a..top /\ i - 1 # top
    OBVIOUS
  <2> HIDE DEF top
  <2>3. y \in X
    <3>1. g[a + j] \in X
      BY <2>1, <2>2
    <3> QED
      BY <2>2, <3>1
  <2> HIDE DEF y
  <2>4. h \in [a..top -> X]
    BY <2>1, <2>2, <2>3
  <2>5. ASSUME NEW i \in a..top
        PROVE  h[i] = IF i = a THEN x ELSE f[<<i, h[i - 1]>>]
    <3>1. CASE i = top
      <4>1. h[i] = y /\ h[i - 1] = g[a + j]
        BY <2>2, <3>1
      <4> QED
        BY <2>2, <3>1, <4>1 DEF y
    <3>2. CASE i # top /\ i = a
      BY <2>1, <2>2, <3>2
    <3>3. CASE i # top /\ i # a
      <4>1. h[i] = g[i] /\ h[i - 1] = g[i - 1]
        BY <2>2, <3>3
      <4>2. g[i] = f[<<i, g[i - 1]>>]
        BY <2>1, <2>2, <3>3
      <4> QED
        BY <3>3, <4>1, <4>2
    <3> QED
      BY <3>1, <3>2, <3>3
  <2> HIDE DEF h
  <2>6. Follows(h, j + 1)
    BY <2>4, <2>5 DEF top, IsIteration
  <2> HIDE DEF Follows
  <2> QED
    BY <2>6
<1> HIDE DEF T
<1>3. k \in T
  BY <1>1, <1>2, InductiveSet
<1> QED
  BY <1>3 DEF T

-----------------------------------------------------------------------------
(* FlattenSeq.                                                             *)

\* p and q say where each element of f comes from: place q[j] of sequence p[j] of cs.
ComesFrom(f, cs, l, p, q) ==
  /\ p \in [1..Len(f) -> 1..l] /\ q \in [1..Len(f) -> Nat]
  /\ \A j \in 1..Len(f) : q[j] \in 1..Len(cs[p[j]]) /\ f[j] = cs[p[j]][q[j]]
  /\ \A i, j \in 1..Len(f) : i < j => p[i] < p[j] \/ (p[i] = p[j] /\ q[i] < q[j])
  /\ \A b \in 1..l : \A i \in 1..Len(cs[b]) : \E j \in 1..Len(f) : p[j] = b /\ q[j] = i

\* f is made of the first l sequences of cs, one behind the other.
IsFlat(f, cs, l) == \E p, q : ComesFrom(f, cs, l, p, q)

LEMMA OneIsFlat ==
  ASSUME NEW S, NEW cs \in Seq(Seq(S)), Len(cs) > 0
  PROVE  cs[1] \in Seq(S) /\ IsFlat(cs[1], cs, 1)
<1>1. Len(cs) \in Nat /\ cs[1] \in Seq(S)
  BY LenProperties
<1> DEFINE s == cs[1]
           p == [j \in 1..Len(s) |-> 1]
           q == [j \in 1..Len(s) |-> j]
<1>2. Len(s) \in Nat /\ 1..1 = {1}
  BY <1>1, LenProperties
<1>3. ComesFrom(s, cs, 1, p, q)
  BY <1>2 DEF ComesFrom
<1> QED
  BY <1>1, <1>3 DEF IsFlat

LEMMA OneMoreIsFlat ==
  ASSUME NEW S, NEW cs \in Seq(Seq(S)), NEW l \in 1..Len(cs), l < Len(cs),
         NEW f \in Seq(S), IsFlat(f, cs, l)
  PROVE  f \o cs[l + 1] \in Seq(S) /\ IsFlat(f \o cs[l + 1], cs, l + 1)
<1> DEFINE c == cs[l + 1]
           t == f \o c
           m == Len(f)
<1>1. Len(cs) \in Nat /\ l \in Nat /\ l + 1 \in 1..Len(cs) /\ c \in Seq(S)
  <2>1. Len(cs) \in Nat /\ \A i \in 1..Len(cs) : cs[i] \in Seq(S)
    BY LenProperties
  <2>2. l \in Nat /\ l + 1 \in 1..Len(cs)
    BY <2>1
  <2> QED
    BY <2>1, <2>2
<1> HIDE DEF c
<1>2. /\ m \in Nat /\ Len(c) \in Nat /\ t \in Seq(S) /\ Len(t) = m + Len(c)
      /\ \A j \in 1..m : t[j] = f[j]
      /\ \A j \in 1..(m + Len(c)) : j > m => t[j] = c[j - m]
  <2>1. /\ t \in Seq(S) /\ Len(t) = m + Len(c)
        /\ \A j \in 1..(m + Len(c)) : t[j] = IF j <= m THEN f[j] ELSE c[j - m]
    BY <1>1, ConcatProperties
  <2>2. m \in Nat /\ Len(c) \in Nat
    BY <1>1, LenProperties
  <2> HIDE DEF t, m
  <2> QED
    BY <2>1, <2>2
<1>3. PICK p, q : ComesFrom(f, cs, l, p, q)
  BY DEF IsFlat
<1> HIDE DEF t
<1> DEFINE p2 == [j \in 1..(m + Len(c)) |-> IF j <= m THEN p[j] ELSE l + 1]
           q2 == [j \in 1..(m + Len(c)) |-> IF j <= m THEN q[j] ELSE j - m]
<1>4. /\ p \in [1..m -> 1..l] /\ q \in [1..m -> Nat]
      /\ \A j \in 1..m : q[j] \in 1..Len(cs[p[j]]) /\ f[j] = cs[p[j]][q[j]]
      /\ \A i, j \in 1..m : i < j => p[i] < p[j] \/ (p[i] = p[j] /\ q[i] < q[j])
      /\ \A b \in 1..l : \A i \in 1..Len(cs[b]) : \E j \in 1..m : p[j] = b /\ q[j] = i
  BY <1>3 DEF ComesFrom
<1> HIDE DEF m
<1>5. p2 \in [1..(m + Len(c)) -> 1..(l + 1)] /\ q2 \in [1..(m + Len(c)) -> Nat]
  <2>1. \A j \in 1..(m + Len(c)) : j <= m => p[j] \in 1..(l + 1) /\ q[j] \in Nat
    BY <1>1, <1>2, <1>4
  <2>2. \A j \in 1..(m + Len(c)) : ~(j <= m) => j - m \in Nat
    BY <1>2
  <2> QED
    BY <1>1, <2>1, <2>2
<1>6. /\ \A j \in 1..m : j \in 1..(m + Len(c)) /\ p2[j] = p[j] /\ q2[j] = q[j]
      /\ \A j \in 1..(m + Len(c)) : j > m =>
           p2[j] = l + 1 /\ q2[j] = j - m /\ j - m \in 1..Len(c) /\ t[j] = c[q2[j]]
      /\ \A j \in 1..(m + Len(c)) : j \in 1..m \/ j > m
  BY <1>2
<1> HIDE DEF p2, q2
<1>7. \A j \in 1..(m + Len(c)) : q2[j] \in 1..Len(cs[p2[j]]) /\ t[j] = cs[p2[j]][q2[j]]
  <2>1. ASSUME NEW j \in 1..(m + Len(c)), j \in 1..m
        PROVE  q2[j] \in 1..Len(cs[p2[j]]) /\ t[j] = cs[p2[j]][q2[j]]
    <3>1. p2[j] = p[j] /\ q2[j] = q[j] /\ t[j] = f[j]
      BY <1>2, <1>6, <2>1
    <3> QED
      BY <1>4, <2>1, <3>1
  <2>2. ASSUME NEW j \in 1..(m + Len(c)), j > m
        PROVE  q2[j] \in 1..Len(cs[p2[j]]) /\ t[j] = cs[p2[j]][q2[j]]
    <3>1. p2[j] = l + 1 /\ q2[j] = j - m /\ j - m \in 1..Len(c) /\ t[j] = c[q2[j]]
      BY <1>6, <2>2
    <3> QED
      BY <3>1 DEF c
  <2> QED
    BY <1>6, <2>1, <2>2
<1>8. \A i, j \in 1..(m + Len(c)) : i < j => p2[i] < p2[j] \/ (p2[i] = p2[j] /\ q2[i] < q2[j])
  <2> SUFFICES ASSUME NEW i \in 1..(m + Len(c)), NEW j \in 1..(m + Len(c)), i < j
               PROVE  p2[i] < p2[j] \/ (p2[i] = p2[j] /\ q2[i] < q2[j])
    OBVIOUS
  <2>1. CASE j \in 1..m
    <3>1. i \in 1..m
      BY <1>2, <2>1
    <3> QED
      BY <1>4, <1>6, <2>1, <3>1
  <2>2. CASE j > m /\ i \in 1..m
    <3>1. p2[i] \in 1..l /\ p2[j] = l + 1
      BY <1>4, <1>6, <2>2
    <3> QED
      BY <1>1, <3>1
  <2>3. CASE j > m /\ i > m
    <3>1. p2[i] = l + 1 /\ p2[j] = l + 1 /\ q2[i] = i - m /\ q2[j] = j - m
      BY <1>6, <2>3
    <3> QED
      BY <1>2, <3>1
  <2> QED
    BY <1>6, <2>1, <2>2, <2>3
<1>9. \A b \in 1..(l + 1) : \A i \in 1..Len(cs[b]) :
        \E j \in 1..(m + Len(c)) : p2[j] = b /\ q2[j] = i
  <2> SUFFICES ASSUME NEW b \in 1..(l + 1), NEW i \in 1..Len(cs[b])
               PROVE  \E j \in 1..(m + Len(c)) : p2[j] = b /\ q2[j] = i
    OBVIOUS
  <2>1. CASE b \in 1..l
    <3>1. PICK j \in 1..m : p[j] = b /\ q[j] = i
      BY <1>4, <2>1
    <3> QED
      BY <1>6, <3>1
  <2>2. CASE b = l + 1
    <3>1. i \in 1..Len(c)
      BY <2>2 DEF c
    <3>2. m + i \in 1..(m + Len(c)) /\ m + i > m /\ (m + i) - m = i
      BY <1>2, <3>1
    <3>3. p2[m + i] = l + 1 /\ q2[m + i] = i
      BY <1>6, <3>2
    <3> QED
      BY <2>2, <3>2, <3>3
  <2> QED
    BY <1>1, <2>1, <2>2
<1>10. ComesFrom(t, cs, l + 1, p2, q2)
  BY <1>2, <1>5, <1>7, <1>8, <1>9 DEF ComesFrom
<1> QED
  BY <1>2, <1>10 DEF IsFlat, t, c

\* FlattenSeq puts the sequences one behind the other.
LEMMA Flattened ==
  ASSUME NEW S, NEW cs \in Seq(Seq(S)), Len(cs) > 0
  PROVE  FlattenSeq(cs) \in Seq(S) /\ IsFlat(FlattenSeq(cs), cs, Len(cs))
<1> DEFINE k == Len(cs)
           X == Seq(S)
           f == [z \in Nat \X X |-> IF z[1] \in 1..k THEN z[2] \o cs[z[1]] ELSE z[2]]
<1>1. k \in Nat /\ k >= 1 /\ \A i \in 1..k : cs[i] \in X
  BY LenProperties
<1>2. f \in [Nat \X X -> X]
  <2>1. ASSUME NEW i \in Nat, NEW s \in X
        PROVE  (IF i \in 1..k THEN s \o cs[i] ELSE s) \in X
    BY <1>1, ConcatProperties
  <2> HIDE DEF k, X
  <2> QED
    BY <2>1
<1>3. \A i \in 1..k, s \in X : f[<<i, s>>] = s \o cs[i]
  <2>1. \A i \in 1..k : i \in Nat
    BY <1>1
  <2> QED
    BY <2>1
<1>4. PICK h \in [1..k -> X] : \A i \in 1..k : h[i] = IF i = 1 THEN cs[1] ELSE f[<<i, h[i - 1]>>]
  <2> DEFINE d == k - 1
             x == cs[1]
  <2>1. 1 \in Nat /\ d \in Nat /\ 1 + d = k /\ x \in X
    BY <1>1
  <2> HIDE DEF f, k, X, d, x
  <2>2. PICK g : IsIteration(g, X, x, 1, d, f)
    BY <1>2, <2>1, Iterated
  <2> QED
    BY <2>1, <2>2 DEF x, IsIteration
<1> HIDE DEF f
<1>5. h = [i \in 1..k |-> IF i = 1 THEN cs[i] ELSE h[i - 1] \o cs[i]]
  <2>1. ASSUME NEW i \in 1..k
        PROVE  h[i] = IF i = 1 THEN cs[i] ELSE h[i - 1] \o cs[i]
    <3>1. CASE i = 1
      BY <1>4, <3>1
    <3>2. CASE i # 1
      <4>1. i - 1 \in 1..k
        BY <1>1, <3>2
      <4> QED
        BY <1>3, <1>4, <3>2, <4>1
    <3> QED
      BY <3>1, <3>2
  <2> QED
    BY <1>4, <2>1
<1> DEFINE g == CHOOSE g : g = [i \in 1..Len(cs) |-> IF i = 1 THEN cs[i] ELSE g[i - 1] \o cs[i]]
<1>6. g = [i \in 1..k |-> IF i = 1 THEN cs[i] ELSE g[i - 1] \o cs[i]]
  BY <1>5
<1>7. FlattenSeq(cs) = g[k]
  BY <1>1 DEF FlattenSeq
<1> HIDE DEF g
<1> DEFINE T == {j \in Nat : j + 1 <= k => g[j + 1] \in X /\ IsFlat(g[j + 1], cs, j + 1)}
<1>8. 0 \in T
  <2>1. g[1] = cs[1] /\ 0 + 1 = 1
    BY <1>1, <1>6
  <2>2. cs[1] \in X /\ IsFlat(cs[1], cs, 1)
    BY OneIsFlat
  <2> QED
    BY <2>1, <2>2
<1>9. ASSUME NEW j \in Nat, j \in T PROVE j + 1 \in T
  <2> SUFFICES ASSUME (j + 1) + 1 <= k
               PROVE  g[(j + 1) + 1] \in X /\ IsFlat(g[(j + 1) + 1], cs, (j + 1) + 1)
    OBVIOUS
  <2> DEFINE l == j + 1
  <2>1. g[l] \in X /\ IsFlat(g[l], cs, l) /\ l \in 1..k /\ l < k
    BY <1>1, <1>9
  <2>2. g[l + 1] = g[l] \o cs[l + 1]
    <3>1. l + 1 \in 1..k /\ l + 1 # 1 /\ (l + 1) - 1 = l
      BY <1>1, <2>1
    <3> HIDE DEF l
    <3> QED
      BY <1>6, <3>1
  <2> HIDE DEF l
  <2>3. g[l] \o cs[l + 1] \in X /\ IsFlat(g[l] \o cs[l + 1], cs, l + 1)
    BY <2>1, OneMoreIsFlat
  <2> QED
    BY <2>2, <2>3 DEF l
<1>10. k - 1 \in T
  <2>1. k - 1 \in Nat
    BY <1>1
  <2> HIDE DEF T
  <2> QED
    BY <1>8, <1>9, <2>1, InductiveSet
<1>11. (k - 1) + 1 = k /\ k <= k
  BY <1>1
<1> QED
  BY <1>7, <1>10, <1>11

-----------------------------------------------------------------------------
(* Slices.                                                                 *)

\* From position p on, the elements of the order o are the ones in T.
Cuts(o, T, p) == p \in 1..(Len(o) + 1) /\ \A i \in 1..Len(o) : o[i] \in T <=> i >= p

\* A set that, once entered, is never left along o begins at one place.
LEMMA CutExists ==
  ASSUME NEW X, NEW o \in Seq(X), NEW T,
         \A i, j \in 1..Len(o) : i <= j /\ o[i] \in T => o[j] \in T
  PROVE  \E p : Cuts(o, T, p)
<1>1. Len(o) \in Nat
  BY LenProperties
<1> DEFINE M == {i \in 1..(Len(o) + 1) : i = Len(o) + 1 \/ o[i] \in T}
<1>2. M \in SUBSET Nat /\ M # {}
  <2>1. Len(o) + 1 \in M
    BY <1>1
  <2> QED
    BY <1>1, <2>1
<1>3. PICK p \in M : \A i \in M : p <= i
  <2> HIDE DEF M
  <2> QED
    BY <1>2, Smallest
<1>4. p \in 1..(Len(o) + 1) /\ (p = Len(o) + 1 \/ o[p] \in T)
  OBVIOUS
<1>5. \A i \in 1..Len(o) : o[i] \in T => p <= i
  BY <1>1, <1>3
<1> HIDE DEF M
<1>6. ASSUME NEW i \in 1..Len(o), i >= p PROVE o[i] \in T
  <2>1. p \in 1..Len(o) /\ p <= i
    BY <1>1, <1>4, <1>6
  <2>2. p # Len(o) + 1
    BY <1>1, <2>1
  <2> QED
    BY <1>4, <2>1, <2>2
<1>7. \A i \in 1..Len(o) : i >= p <=> p <= i
  BY <1>1, <1>4
<1> QED
  BY <1>4, <1>5, <1>6, <1>7 DEF Cuts

\* A slice grows by one element at its end.
LEMMA SliceGrows ==
  ASSUME NEW X, NEW o \in Seq(X), NEW i \in 1..(Len(o) + 1), NEW k \in (i - 1)..(Len(o) - 1)
  PROVE  /\ SubSeq(o, i, k) \in Seq(X)
         /\ Append(SubSeq(o, i, k), o[k + 1]) = SubSeq(o, i, k + 1)
<1>1. Len(o) \in Nat /\ \A j \in 1..Len(o) : o[j] \in X
  BY LenProperties
<1>2. i \in 1..Len(o) /\ k + 1 \in i..Len(o) /\ (k + 1) - 1 = k /\ o[k + 1] \in X /\ k \in Int
  BY <1>1
<1>3. SubSeq(o, i, k) \in Seq(X)
  BY <1>1, <1>2, SubSeqProperties
<1>4. SubSeq(o, i, k + 1) = SubSeq(o, i, (k + 1) - 1) \o << o[k + 1] >>
  BY <1>2, SubSeqRecursiveSecond
<1>5. Append(SubSeq(o, i, k), o[k + 1]) = SubSeq(o, i, k) \o << o[k + 1] >>
  BY <1>2, <1>3, AppendIsConcat
<1> QED
  BY <1>2, <1>3, <1>4, <1>5

\* The elements of T are adjacent in o, from position i up to and without j.
IsSlice(o, T, i, j) ==
  /\ i \in 1..(Len(o) + 1) /\ j \in i..(Len(o) + 1)
  /\ \A k \in 1..Len(o) : o[k] \in T <=> i <= k /\ k < j

\* A subtree is a slice of the order.
LEMMA SliceJoins ==
  ASSUME NEW X, NEW o \in Seq(X), NEW l \in 1..Len(o), NEW p \in l..Len(o), NEW r \in p..Len(o)
  PROVE  SubSeq(o, l, p - 1) \o << o[p] >> \o SubSeq(o, p + 1, r) = SubSeq(o, l, r)
<1>1. Len(o) \in Nat
  BY LenProperties
<1>2. SubSeq(o, l, p) = SubSeq(o, l, p - 1) \o << o[p] >>
  BY SubSeqRecursiveSecond
<1>3. l \in 1..(Len(o) + 1) /\ p \in (l - 1)..Len(o)
  BY <1>1
<1>4. SubSeq(o, l, p) \o SubSeq(o, p + 1, r) = SubSeq(o, l, r)
  BY <1>3, ConcatAdjacentSubSeq
<1> QED
  BY <1>2, <1>4

\* A node taken out of where it has just been put.
LEMMA InsertedThenRemoved ==
  ASSUME NEW T, NEW o \in Seq(T), NEW m \in T, NEW p \in 1..(Len(o) + 1)
  PROVE  LET w == InsertAt(o, p, m)
         IN  p \in 1..Len(w) /\ w[p] = m /\ RemoveAt(w, p) = o
<1> DEFINE w == InsertAt(o, p, m)
<1>1. /\ w \in Seq(T) /\ Len(w) = Len(o) + 1
      /\ \A i \in 1..(Len(o) + 1) : w[i] = IF i < p THEN o[i] ELSE IF i = p THEN m ELSE o[i - 1]
  <2> HIDE DEF w
  <2>1. IsInserted(w, T, o, p, m)
    BY InsertedIs DEF w
  <2> QED
    BY <2>1 DEF IsInserted
<1> HIDE DEF w
<1>2. Len(o) \in Nat /\ p \in 1..Len(w) /\ w[p] = m
  BY <1>1, LenProperties
<1> DEFINE v == RemoveAt(w, p)
<1>3. /\ v \in Seq(T) /\ Len(v) = Len(w) - 1
      /\ \A i \in 1..(Len(w) - 1) : v[i] = IF i < p THEN w[i] ELSE w[i + 1]
  BY <1>1, <1>2, RemovedFrom
<1> HIDE DEF v
<1>4. Len(v) = Len(o)
  BY <1>1, <1>2, <1>3
<1>5. ASSUME NEW i \in 1..Len(v) PROVE v[i] = o[i]
  <2>1. CASE i < p
    <3>1. v[i] = w[i] /\ i \in 1..(Len(o) + 1)
      BY <1>1, <1>2, <1>3, <1>4, <2>1
    <3> QED
      BY <1>1, <2>1, <3>1
  <2>2. CASE ~(i < p)
    <3>1. /\ v[i] = w[i + 1] /\ i + 1 \in 1..(Len(o) + 1)
          /\ ~(i + 1 < p) /\ i + 1 # p /\ (i + 1) - 1 = i
      BY <1>1, <1>2, <1>3, <1>4, <2>2
    <3> QED
      BY <1>1, <3>1
  <2> QED
    BY <2>1, <2>2
<1>6. v = o
  BY <1>3, <1>4, <1>5, SeqEqual
<1> QED
  BY <1>2, <1>6 DEF v, w
=============================================================================
