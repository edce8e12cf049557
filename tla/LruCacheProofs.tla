---------------------------- MODULE LruCacheProofs ----------------------------
(***************************************************************************)
(* Proofs about LruCache, for every capacity, and every number of keys,    *)
(* nodes and insertions that throw: the most recently used keys are        *)
(* cached, and the pointer get() returned is good until Cap other keys     *)
(* have been used.                                                         *)
(***************************************************************************)
EXTENDS LruCache, SequenceLemmas

-----------------------------------------------------------------------------
(* The inductive invariant.                                                *)

\* by_key is unique.
KeysDiffer == \A m, n \in ToSet(recency) : entry[m].key = entry[n].key => m = n

\* The foremost nodes hold the keys used last, with the values given to them last.
FrontHolds ==
  \A i \in 1..Len(uses) : i <= Cap =>
    /\ i <= Len(recency)
    /\ entry[recency[i]] = [key |-> uses[i], val |-> latest[uses[i]]]

\* What was used after the key of the pointer that is held was counted.
Counted ==
  held # NoNode =>
    /\ heldFor \in Key
    /\ \E q \in 1..Len(uses) : uses[q] = heldFor /\ \A i \in 1..(q - 1) : uses[i] \in others

History ==
  /\ entry \in [Node -> Entries \cup {Freed}]
  /\ latest \in [Key -> Val \cup {NoNode}]
  /\ uses \in Seq(Key) /\ IsInjective(uses)
  /\ IsFiniteSet(others) /\ failures \in Nat

IInv == TypeOK /\ History /\ KeysDiffer /\ FrontHolds /\ Counted /\ PointerLive

-----------------------------------------------------------------------------
(* Numbers and places.                                                     *)

LEMMA Numbers ==
  /\ Cap \in Nat /\ Cap >= 1 /\ MaxFailures \in Nat /\ NoNode \notin Node
  /\ \A k \in Nat : Excess(k) \in Nat /\ k - Excess(k) \in 0..Cap
                    /\ (k <= Cap => k - Excess(k) = k) /\ (k > Cap => k - Excess(k) = Cap)
BY LruAssumption DEF Excess

LEMMA Places ==
  ASSUME IInv
  PROVE  /\ Len(recency) \in Nat /\ DOMAIN recency = 1..Len(recency)
         /\ \A i \in 1..Len(recency) : recency[i] \in Node
         /\ \A i, j \in 1..Len(recency) : recency[i] = recency[j] => i = j
         /\ Len(uses) \in Nat /\ DOMAIN uses = 1..Len(uses)
         /\ \A i \in 1..Len(uses) : uses[i] \in Key
         /\ \A i, j \in 1..Len(uses) : uses[i] = uses[j] => i = j
         /\ ToSet(recency) \subseteq Node
<1>1. recency \in Seq(Node) /\ uses \in Seq(Key) /\ IsInjective(recency) /\ IsInjective(uses)
  BY DEF IInv, TypeOK, History
<1>2. /\ Len(recency) \in Nat /\ DOMAIN recency = 1..Len(recency)
      /\ \A i \in 1..Len(recency) : recency[i] \in Node
      /\ Len(uses) \in Nat /\ DOMAIN uses = 1..Len(uses)
      /\ \A i \in 1..Len(uses) : uses[i] \in Key
  BY <1>1, LenProperties
<1> QED
  BY <1>1, <1>2 DEF IsInjective, ToSet

\* The place p of an element in a sequence, or the one behind its last.
IsPlace(s, e, p) ==
  /\ p \in 1..(Len(s) + 1)
  /\ IF p \in 1..Len(s) THEN s[p] = e ELSE e \notin ToSet(s)

LEMMA PlaceExists ==
  ASSUME NEW S, NEW s \in Seq(S), NEW e
  PROVE  \E p : IsPlace(s, e, p)
<1>1. Len(s) \in Nat /\ DOMAIN s = 1..Len(s)
  BY LenProperties
<1>2. CASE e \in ToSet(s)
  <2>1. PICK p \in 1..Len(s) : s[p] = e
    BY <1>1, <1>2 DEF ToSet
  <2>2. IsPlace(s, e, p)
    BY <1>1, <2>1 DEF IsPlace
  <2> QED
    BY <2>2
<1>3. CASE e \notin ToSet(s)
  <2>1. Len(s) + 1 \in 1..(Len(s) + 1) /\ Len(s) + 1 \notin 1..Len(s)
    BY <1>1
  <2>2. IsPlace(s, e, Len(s) + 1)
    BY <1>3, <2>1 DEF IsPlace
  <2> QED
    BY <2>2
<1> QED
  BY <1>2, <1>3

LEMMA Initial == Init => IInv
<1> SUFFICES ASSUME Init PROVE IInv
  OBVIOUS
<1>1. /\ recency = <<>> /\ uses = <<>> /\ Len(<<>>) = 0 /\ DOMAIN <<>> = {} /\ ToSet(<<>>) = {}
      /\ <<>> \in Seq(Node) /\ <<>> \in Seq(Key)
  BY DEF Init, ToSet
<1>2. TypeOK
  BY <1>1, Numbers, LruAssumption DEF Init, TypeOK, IsInjective
<1>3. History
  BY <1>1, FS_EmptySet DEF Init, History, IsInjective
<1> QED
  BY <1>1, <1>2, <1>3 DEF Init, IInv, KeysDiffer, FrontHolds, Counted, PointerLive

-----------------------------------------------------------------------------
(* A use of a key.                                                         *)

\* The queue of uses when k has moved to its front.
LEMMA UsesAfter ==
  ASSUME IInv, NEW k \in Key, uses' = Cons(k, RemoveFirst(uses, k))
  PROVE  \E q \in 1..(Len(uses) + 1) :
           /\ IsPlace(uses, k, q)
           /\ uses' \in Seq(Key) /\ IsInjective(uses') /\ uses'[1] = k
           /\ Len(uses') = (IF q \in 1..Len(uses) THEN Len(uses) ELSE Len(uses) + 1)
           /\ \A i \in 2..Len(uses') : uses'[i] = IF i <= q THEN uses[i - 1] ELSE uses[i]
<1>1. uses \in Seq(Key) /\ IsInjective(uses)
  BY DEF IInv, History
<1>2. PICK q : IsPlace(uses, k, q)
  BY <1>1, PlaceExists
<1>3. q \in 1..(Len(uses) + 1) /\ IF q \in 1..Len(uses) THEN uses[q] = k ELSE k \notin ToSet(uses)
  BY <1>2 DEF IsPlace
<1> DEFINE t == Cons(k, RemoveFirst(uses, k))
<1>4. /\ t \in Seq(Key) /\ IsInjective(t) /\ t[1] = k
      /\ Len(t) = (IF q \in 1..Len(uses) THEN Len(uses) ELSE Len(uses) + 1)
      /\ \A i \in 2..Len(t) : t[i] = IF i <= q THEN uses[i - 1] ELSE uses[i]
  BY <1>1, <1>3, ToTheFront
<1> QED
  BY <1>2, <1>3, <1>4

\* The pointer's key is still in the queue, behind keys that were counted.
LEMMA StillCounted ==
  ASSUME IInv, NEW k \in Key, Used(k), UNCHANGED caller
  PROVE  Counted' /\ IsFiniteSet(others') /\ others \subseteq others'
<1>1. /\ uses' = Cons(k, RemoveFirst(uses, k))
      /\ others' = IF k = heldFor THEN others ELSE others \cup {k}
      /\ held' = held /\ heldFor' = heldFor
  BY DEF Used, caller
<1>2. IsFiniteSet(others') /\ others \subseteq others'
  BY <1>1, FS_AddElement DEF IInv, History
<1>3. PICK q \in 1..(Len(uses) + 1) :
           /\ IsPlace(uses, k, q) /\ uses'[1] = k
           /\ Len(uses') = (IF q \in 1..Len(uses) THEN Len(uses) ELSE Len(uses) + 1)
           /\ \A i \in 2..Len(uses') : uses'[i] = IF i <= q THEN uses[i - 1] ELSE uses[i]
  BY <1>1, UsesAfter
<1>4. Len(uses) \in Nat /\ Len(uses') \in Nat /\ Len(uses) <= Len(uses') /\ 1 <= Len(uses')
      /\ (q \in 1..Len(uses) => uses[q] = k)
  <2>1. Len(uses) \in Nat /\ q \in 1..(Len(uses) + 1)
    BY <1>3, Places
  <2>2. CASE q \in 1..Len(uses)
    BY <1>3, <2>1, <2>2 DEF IsPlace
  <2>3. CASE q \notin 1..Len(uses)
    BY <1>3, <2>1, <2>3
  <2> QED
    BY <2>2, <2>3
<1>5. ASSUME held # NoNode
      PROVE  \E p \in 1..Len(uses') : uses'[p] = heldFor /\ \A i \in 1..(p - 1) : uses'[i] \in others'
  <2>1. PICK at \in 1..Len(uses) : uses[at] = heldFor /\ \A i \in 1..(at - 1) : uses[i] \in others
    BY <1>5 DEF IInv, Counted
  <2>2. CASE k = heldFor
    <3>1. 1 \in 1..Len(uses') /\ 1..(1 - 1) = {}
      BY <1>4
    <3> QED
      BY <1>3, <2>2, <3>1
  <2>3. CASE k # heldFor /\ at < q
    <3>1. /\ at + 1 \in 1..Len(uses') /\ at + 1 \in 2..Len(uses') /\ at + 1 <= q
          /\ (at + 1) - 1 = at
          /\ \A i \in 1..at : i = 1 \/ (i \in 2..Len(uses') /\ i <= q /\ i - 1 \in 1..(at - 1))
      <4>1. q = Len(uses) + 1 => Len(uses') = Len(uses) + 1
        BY <1>3, <1>4
      <4>2. q \in 1..(Len(uses) + 1) /\ at \in 1..Len(uses)
        BY <1>3, <2>1
      <4> QED
        BY <1>4, <2>3, <4>1, <4>2
    <3>2. uses'[at + 1] = heldFor
      BY <1>3, <2>1, <3>1
    <3>3. \A i \in 1..at : uses'[i] \in others'
      BY <1>1, <1>3, <2>1, <2>3, <3>1
    <3> QED
      BY <3>1, <3>2, <3>3
  <2>4. CASE k # heldFor /\ at > q
    <3>1. /\ at \in 1..Len(uses') /\ at \in 2..Len(uses') /\ ~(at <= q)
          /\ \A i \in 1..(at - 1) :
               i = 1 \/ (i \in 2..Len(uses') /\ i - 1 \in 1..(at - 1) /\ i \in 1..(at - 1))
      <4>1. q \in 1..(Len(uses) + 1) /\ at \in 1..Len(uses)
        BY <1>3, <2>1
      <4> QED
        BY <1>4, <2>4, <4>1
    <3>2. uses'[at] = heldFor
      BY <1>3, <2>1, <3>1
    <3>3. \A i \in 1..(at - 1) : uses'[i] \in others'
      BY <1>1, <1>3, <2>1, <2>4, <3>1
    <3> QED
      BY <3>1, <3>2, <3>3
  <2>5. k = heldFor \/ at < q \/ at > q
    <3>1. q = at => k = heldFor
      BY <1>4, <2>1
    <3>2. q \in 1..(Len(uses) + 1) /\ at \in 1..Len(uses)
      BY <1>3, <2>1
    <3> QED
      BY <1>4, <3>1, <3>2
  <2> QED
    BY <2>2, <2>3, <2>4, <2>5
<1>6. held # NoNode => heldFor \in Key
  BY DEF IInv, Counted
<1>7. Counted'
  BY <1>1, <1>5, <1>6 DEF Counted
<1> QED
  BY <1>2, <1>7

\* While fewer than Cap other keys were used, the pointer's key is one of the Cap most
\* recent ones.
LEMMA HeldIsRecent ==
  ASSUME NEW S, NEW s \in Seq(S), IsInjective(s), NEW T, IsFiniteSet(T),
         Cardinality(T) < Cap, NEW q \in 1..Len(s), \A i \in 1..(q - 1) : s[i] \in T
  PROVE  q <= Cap
<1>1. Len(s) \in Nat /\ DOMAIN s = 1..Len(s)
  BY LenProperties
<1> DEFINE k == q - 1
<1>2. k \in Nat /\ q = k + 1 /\ 1..k \subseteq DOMAIN s
  BY <1>1
<1> DEFINE f == [i \in 1..k |-> s[i]]
<1>3. f \in Injection(1..k, T)
  <2>1. f \in [1..k -> T]
    OBVIOUS
  <2>2. \A i, j \in 1..k : f[i] = f[j] => i = j
    BY <1>2 DEF IsInjective
  <2> HIDE DEF f, k
  <2> QED
    BY <2>1, <2>2 DEF Injection, IsInjective
<1> HIDE DEF f, k
<1>4. Cardinality(1..k) <= Cardinality(T)
  BY <1>3, FS_Injection
<1>5. Cardinality(1..k) = k
  <2>1. Cardinality(1..k) = IF 1 > k THEN 0 ELSE k - 1 + 1
    BY <1>2, FS_Interval
  <2> QED
    BY <1>2, <2>1
<1>6. Cardinality(T) \in Nat
  BY FS_CardinalityType
<1> QED
  BY <1>2, <1>4, <1>5, <1>6, Numbers

-----------------------------------------------------------------------------
(* The steps.                                                              *)

\* What get and put have in common when they find node n for k: it moves to the front, and
\* v is the value that k has now.
Finds(k, n, v) ==
  /\ n \in Holding(k) /\ k \in Key /\ v \in Val
  /\ recency' = Promoted(recency, n)
  /\ uses' = Cons(k, RemoveFirst(uses, k))
  /\ entry' = [entry EXCEPT ![n].val = v]
  /\ latest' = [latest EXCEPT ![k] = v]
  /\ UNCHANGED <<size, buckets, failures>>

LEMMA Found ==
  ASSUME IInv, NEW k, NEW n, NEW v, Finds(k, n, v)
  PROVE  /\ KeysDiffer' /\ FrontHolds'
         /\ recency' \in Seq(Node) /\ IsInjective(recency')
         /\ ToSet(recency') = ToSet(recency) /\ Len(recency') = Len(recency)
         /\ uses' \in Seq(Key) /\ IsInjective(uses')
         /\ entry' \in [Node -> Entries \cup {Freed}]
         /\ latest' \in [Key -> Val \cup {NoNode}]
         /\ \A m \in Node : entry'[m] \in IF m \in ToSet(recency) THEN Entries ELSE {Freed}
         /\ \A m \in Node : entry'[m].key = entry[m].key
<1>1. /\ n \in ToSet(recency) /\ n \in Node /\ entry[n].key = k /\ k \in Key /\ v \in Val
      /\ entry[n] \in Entries
  BY Places DEF Finds, Holding, IInv, TypeOK
<1>2. recency \in Seq(Node) /\ IsInjective(recency)
  BY DEF IInv, TypeOK
<1>3. PICK p \in 1..Len(recency) : recency[p] = n
  BY <1>1, Places DEF ToSet
<1>4. /\ recency' \in Seq(Node) /\ IsInjective(recency') /\ recency'[1] = n
      /\ ToSet(recency') = ToSet(recency) /\ Len(recency') = Len(recency)
      /\ \A i \in 2..Len(recency) :
           recency'[i] = IF i <= p THEN recency[i - 1] ELSE recency[i]
  <2> DEFINE t == Cons(n, RemoveFirst(recency, n))
  <2>1. p \in 1..(Len(recency) + 1) /\ p \in 1..Len(recency)
    BY <1>3, Places
  <2>2. /\ t \in Seq(Node) /\ IsInjective(t) /\ ToSet(t) = ToSet(recency) \cup {n} /\ t[1] = n
        /\ Len(t) = (IF p \in 1..Len(recency) THEN Len(recency) ELSE Len(recency) + 1)
        /\ \A i \in 2..Len(t) : t[i] = IF i <= p THEN recency[i - 1] ELSE recency[i]
    BY <1>1, <1>2, <1>3, <2>1, ToTheFront
  <2>3. recency' = t
    BY DEF Finds, Promoted
  <2> HIDE DEF t
  <2> QED
    BY <1>1, <2>1, <2>2, <2>3
<1>5. PICK q \in 1..(Len(uses) + 1) :
           /\ IsPlace(uses, k, q)
           /\ uses' \in Seq(Key) /\ IsInjective(uses') /\ uses'[1] = k
           /\ Len(uses') = (IF q \in 1..Len(uses) THEN Len(uses) ELSE Len(uses) + 1)
           /\ \A i \in 2..Len(uses') : uses'[i] = IF i <= q THEN uses[i - 1] ELSE uses[i]
  BY <1>1, UsesAfter DEF Finds
<1>6. /\ entry' \in [Node -> Entries \cup {Freed}]
      /\ \A m \in Node : m # n => entry'[m] = entry[m]
      /\ entry'[n] = [key |-> k, val |-> v]
  <2>1. /\ entry \in [Node -> Entries \cup {Freed}]
        /\ entry' = [entry EXCEPT ![n] = [entry[n] EXCEPT !.val = v]]
    BY DEF IInv, History, Finds
  <2>2. [entry[n] EXCEPT !.val = v] = [key |-> k, val |-> v]
    BY <1>1 DEF Entries
  <2>3. [key |-> k, val |-> v] \in Entries
    BY <1>1 DEF Entries
  <2> QED
    BY <1>1, <2>1, <2>2, <2>3
<1>7. /\ latest' \in [Key -> Val \cup {NoNode}] /\ latest'[k] = v
      /\ \A j \in Key : j # k => latest'[j] = latest[j]
  BY <1>1 DEF IInv, History, Finds
<1>8. \A m \in Node : entry'[m].key = entry[m].key
  BY <1>1, <1>6
<1>9. \A m \in Node : entry'[m] \in IF m \in ToSet(recency) THEN Entries ELSE {Freed}
  <2>1. [key |-> k, val |-> v] \in Entries
    BY <1>1 DEF Entries
  <2> QED
    BY <1>1, <1>6, <2>1 DEF IInv, TypeOK
<1>10. KeysDiffer'
  BY <1>4, <1>8, Places DEF IInv, KeysDiffer
<1>11. /\ \A i \in 1..Len(uses) : i <= Cap =>
            i <= Len(recency) /\ entry[recency[i]] = [key |-> uses[i], val |-> latest[uses[i]]]
  BY DEF IInv, FrontHolds
<1>12. \A i \in 1..Len(uses) : uses[i] = k => i = q
  BY <1>5, Places DEF IsPlace, ToSet
<1>13. q \in 1..Len(uses) => uses[q] = k
  BY <1>5 DEF IsPlace
<1>14. q \in 1..Len(uses) /\ q <= Cap => p = q
  <2> SUFFICES ASSUME q \in 1..Len(uses), q <= Cap PROVE p = q
    OBVIOUS
  <2>1. q \in 1..Len(recency) /\ entry[recency[q]].key = k
    <3>1. q <= Len(recency) /\ entry[recency[q]] = [key |-> uses[q], val |-> latest[uses[q]]]
      BY <1>11
    <3>2. entry[recency[q]].key = uses[q]
      BY <3>1
    <3> QED
      BY <1>13, <3>1, <3>2, Places
  <2>2. recency[q] = n
    BY <1>1, <2>1, Places DEF IInv, KeysDiffer, ToSet
  <2> QED
    BY <1>3, <2>1, <2>2, Places
<1>15. ~(q \in 1..Len(uses) /\ q <= Cap) => p > Len(uses) \/ p > Cap
  <2> SUFFICES ASSUME ~(p > Len(uses)), ~(p > Cap) PROVE q \in 1..Len(uses) /\ q <= Cap
    OBVIOUS
  <2>1. p \in 1..Len(uses) /\ p <= Cap
    BY <1>3, Places, Numbers
  <2>2. uses[p] = k
    <3>1. entry[recency[p]] = [key |-> uses[p], val |-> latest[uses[p]]]
      BY <1>11, <2>1
    <3>2. entry[recency[p]].key = uses[p]
      BY <3>1
    <3> QED
      BY <1>1, <1>3, <3>2
  <2> QED
    BY <1>12, <2>1, <2>2
<1>16. ASSUME NEW i \in 1..Len(uses), i <= Cap, i # q, recency[i] # n
       PROVE  /\ i <= Len(recency)
              /\ entry'[recency[i]] = [key |-> uses[i], val |-> latest'[uses[i]]]
  <2>1. i <= Len(recency) /\ entry[recency[i]] = [key |-> uses[i], val |-> latest[uses[i]]]
    BY <1>11, <1>16
  <2>2. recency[i] \in Node
    BY <2>1, Places
  <2>3. uses[i] \in Key /\ uses[i] # k
    BY <1>12, <1>16, Places
  <2> QED
    BY <1>6, <1>7, <1>16, <2>1, <2>2, <2>3
<1>17. FrontHolds'
  <2> SUFFICES ASSUME NEW i \in 1..Len(uses'), i <= Cap
               PROVE  /\ i <= Len(recency')
                      /\ entry'[recency'[i]] = [key |-> uses'[i], val |-> latest'[uses'[i]]]
    BY DEF FrontHolds
  <2>0. /\ Len(uses) \in Nat /\ Len(recency) \in Nat /\ p \in 1..Len(recency)
        /\ q \in 1..(Len(uses) + 1) /\ Cap \in Nat /\ i \in Nat
        /\ (i <= Len(uses) \/ (q = Len(uses) + 1 /\ i <= q))
    <3>1. CASE q \in 1..Len(uses)
      BY <1>3, <1>5, <3>1, Places, Numbers
    <3>2. CASE q \notin 1..Len(uses)
      <4>1. Len(uses) \in Nat /\ Len(recency) \in Nat /\ Cap \in Nat
        BY Places, Numbers
      <4>2. q \in 1..(Len(uses) + 1) /\ Len(uses') = Len(uses) + 1 /\ p \in 1..Len(recency)
        BY <1>3, <1>5, <3>2
      <4> QED
        BY <3>2, <4>1, <4>2
    <3> QED
      BY <3>1, <3>2
  <2>1. CASE i = 1
    BY <1>4, <1>5, <1>6, <1>7, <2>0, <2>1
  <2>2. CASE i # 1 /\ i <= q
    <3> DEFINE j == i - 1
    <3>1. j \in 1..Len(uses) /\ j <= Cap /\ j < q /\ j # q /\ i \in 2..Len(uses')
      BY <2>0, <2>2
    <3>2. i <= p
      <4>1. CASE q \in 1..Len(uses) /\ q <= Cap
        BY <1>14, <2>2, <4>1
      <4>2. CASE p > Len(uses) \/ p > Cap
        BY <2>0, <2>2, <4>2
      <4> QED
        BY <1>15, <4>1, <4>2
    <3>3. i \in 2..Len(recency) /\ i <= Len(recency') /\ j \in 1..Len(recency) /\ j # p
      BY <1>4, <2>0, <2>2, <3>2
    <3>4. recency'[i] = recency[j] /\ uses'[i] = uses[j]
      BY <1>4, <1>5, <2>2, <3>1, <3>2, <3>3
    <3>5. recency[j] # n
      BY <1>3, <3>3, Places
    <3> HIDE DEF j
    <3> QED
      BY <1>16, <3>1, <3>3, <3>4, <3>5
  <2>3. CASE i # 1 /\ i > q
    <3>1. q \in 1..Len(uses) /\ q <= Cap /\ i \in 1..Len(uses) /\ i # q /\ ~(i <= q)
          /\ i \in 2..Len(uses')
      BY <2>0, <2>3
    <3>2. p = q /\ i \in 2..Len(recency) /\ i <= Len(recency')
      <4>1. p = q /\ i <= Len(recency)
        BY <1>11, <1>14, <3>1
      <4> QED
        BY <1>4, <2>0, <2>3, <4>1
    <3>3. recency'[i] = recency[i] /\ uses'[i] = uses[i]
      BY <1>4, <1>5, <3>1, <3>2
    <3>4. recency[i] # n
      <4>1. i \in 1..Len(recency) /\ i # p
        BY <2>0, <3>1, <3>2
      <4> QED
        BY <1>3, <4>1, Places
    <3> QED
      BY <1>16, <3>1, <3>2, <3>3, <3>4
  <2> QED
    BY <2>0, <2>1, <2>2, <2>3
<1> QED
  BY <1>4, <1>5, <1>6, <1>7, <1>8, <1>9, <1>10, <1>17

LEMMA GetStep ==
  ASSUME IInv, NEW k \in Key, Get(k)
  PROVE  IInv'
<1>1. PICK n \in Holding(k) :
        /\ recency' = Promoted(recency, n)
        /\ held' = n /\ heldFor' = k /\ others' = {}
        /\ uses' = Cons(k, RemoveFirst(uses, k))
        /\ latest' = [latest EXCEPT ![k] = entry[n].val]
        /\ UNCHANGED <<entry, size, buckets, failures>>
  BY DEF Get
<1>2. n \in ToSet(recency) /\ n \in Node /\ entry[n].key = k /\ entry[n] \in Entries
  BY Places DEF Holding, IInv, TypeOK
<1>3. Finds(k, n, entry[n].val)
  <2>1. entry \in [Node -> Entries \cup {Freed}]
    BY DEF IInv, History
  <2>2. [entry EXCEPT ![n].val = entry[n].val] = entry
    BY <1>2, <2>1 DEF Entries
  <2>3. entry[n].val \in Val
    BY <1>2 DEF Entries
  <2> QED
    BY <1>1, <2>2, <2>3 DEF Finds
<1>4. /\ KeysDiffer' /\ FrontHolds'
      /\ recency' \in Seq(Node) /\ IsInjective(recency')
      /\ ToSet(recency') = ToSet(recency) /\ Len(recency') = Len(recency)
      /\ uses' \in Seq(Key) /\ IsInjective(uses')
      /\ entry' \in [Node -> Entries \cup {Freed}]
      /\ latest' \in [Key -> Val \cup {NoNode}]
      /\ \A m \in Node : entry'[m] \in IF m \in ToSet(recency) THEN Entries ELSE {Freed}
      /\ \A m \in Node : entry'[m].key = entry[m].key
  BY <1>3, Found
<1>5. TypeOK'
  BY <1>1, <1>2, <1>4 DEF IInv, TypeOK
<1>6. History'
  BY <1>1, <1>4, FS_EmptySet DEF IInv, History
<1>7. Counted'
  <2>1. PICK q \in 1..(Len(uses) + 1) :
          /\ uses'[1] = k
          /\ Len(uses') = (IF q \in 1..Len(uses) THEN Len(uses) ELSE Len(uses) + 1)
    BY <1>1, UsesAfter
  <2>2. 1 \in 1..Len(uses') /\ 1..(1 - 1) = {}
    BY <2>1, Places
  <2> QED
    BY <1>1, <2>1, <2>2 DEF Counted
<1>8. PointerLive'
  <2>1. Holding(k)' = {n}
    BY <1>1, <1>2, <1>4, Places DEF Holding, KeysDiffer
  <2> QED
    BY <1>1, <2>1 DEF PointerLive
<1> QED
  BY <1>4, <1>5, <1>6, <1>7, <1>8 DEF IInv

LEMMA PutExistingStep ==
  ASSUME IInv, NEW k \in Key, NEW v \in Val, PutExisting(k, v)
  PROVE  IInv'
<1>1. PICK n \in Holding(k) :
        /\ entry' = [entry EXCEPT ![n].val = v]
        /\ recency' = Promoted(recency, n)
        /\ latest' = [latest EXCEPT ![k] = v]
        /\ Used(k)
        /\ UNCHANGED <<size, buckets, caller, failures>>
  BY DEF PutExisting
<1>2. Finds(k, n, v)
  BY <1>1 DEF Finds, Used
<1>4. /\ KeysDiffer' /\ FrontHolds'
      /\ recency' \in Seq(Node) /\ IsInjective(recency')
      /\ ToSet(recency') = ToSet(recency) /\ Len(recency') = Len(recency)
      /\ uses' \in Seq(Key) /\ IsInjective(uses')
      /\ entry' \in [Node -> Entries \cup {Freed}]
      /\ latest' \in [Key -> Val \cup {NoNode}]
      /\ \A m \in Node : entry'[m] \in IF m \in ToSet(recency) THEN Entries ELSE {Freed}
      /\ \A m \in Node : entry'[m].key = entry[m].key
  BY <1>2, Found
<1>5. TypeOK'
  BY <1>1, <1>4 DEF IInv, TypeOK, caller
<1>6. Counted' /\ IsFiniteSet(others') /\ others \subseteq others'
  BY <1>1, StillCounted
<1>7. History'
  BY <1>1, <1>4, <1>6 DEF IInv, History
<1>8. PointerLive'
  <2> SUFFICES ASSUME held # NoNode, Cardinality(others') < Cap
               PROVE  Holding(heldFor)' = {held}
    BY <1>1 DEF PointerLive, caller
  <2>1. Cardinality(others) < Cap
    <3>1. Cardinality(others) <= Cardinality(others')
      BY <1>6, FS_Subset
    <3> QED
      BY <1>6, <3>1, FS_CardinalityType, Numbers DEF IInv, History
  <2>2. Holding(heldFor) = {held}
    BY <2>1 DEF IInv, PointerLive
  <2>3. Holding(heldFor)' = Holding(heldFor)
    BY <1>1, <1>4, Places DEF Holding, caller
  <2> QED
    BY <2>2, <2>3
<1> QED
  BY <1>4, <1>5, <1>6, <1>7, <1>8 DEF IInv

\* While the pointer is good, the queue's own place for its key is among the foremost Cap.
LEMMA PointerNeverEvicted ==
  ASSUME IInv, held # NoNode, Counted', IsFiniteSet(others'), others \subseteq others',
         FrontHolds', UNCHANGED caller, uses' \in Seq(Key), IsInjective(uses'),
         recency' \in Seq(Node), Cardinality(others') < Cap
  PROVE  /\ Holding(heldFor) = {held}
         /\ \E m \in ToSet(recency') : entry'[m].key = heldFor
<1>1. Cardinality(others) < Cap
  <2>1. Cardinality(others) <= Cardinality(others')
    BY FS_Subset
  <2> QED
    BY <2>1, FS_CardinalityType, Numbers DEF IInv, History
<1>2. Holding(heldFor) = {held}
  BY <1>1 DEF IInv, PointerLive
<1>3. PICK q \in 1..Len(uses') :
        uses'[q] = heldFor /\ \A i \in 1..(q - 1) : uses'[i] \in others'
  BY DEF Counted, caller
<1>4. q <= Cap
  <2> DEFINE s == uses'
             T == others'
  <2>1. s \in Seq(Key) /\ IsInjective(s) /\ IsFiniteSet(T) /\ Cardinality(T) < Cap
        /\ q \in 1..Len(s) /\ \A i \in 1..(q - 1) : s[i] \in T
    BY <1>3
  <2> HIDE DEF s, T
  <2> QED
    BY <2>1, HeldIsRecent
<1>5. q <= Len(recency') /\ entry'[recency'[q]] = [key |-> uses'[q], val |-> latest'[uses'[q]]]
  BY <1>4 DEF FrontHolds
<1>6. q \in DOMAIN recency' /\ recency'[q] \in ToSet(recency')
  <2>1. DOMAIN recency' = 1..Len(recency') /\ Len(recency') \in Nat /\ Len(uses') \in Nat
    BY LenProperties
  <2>2. q \in DOMAIN recency'
    BY <1>5, <2>1
  <2> QED
    BY <2>2 DEF ToSet
<1>7. entry'[recency'[q]].key = heldFor
  BY <1>3, <1>5
<1> QED
  BY <1>2, <1>6, <1>7

\* The node that is new is in front, and what goes is what is last.
LEMMA KeptOf ==
  ASSUME IInv, NEW n \in Node \ ToSet(recency), NEW kept,
         kept = Evict(Cons(n, recency), Excess(size + 1))
  PROVE  /\ kept \in Seq(Node) /\ IsInjective(kept)
         /\ Len(kept) \in 1..(Len(recency) + 1)
         /\ Len(kept) = (size + 1 - Excess(size + 1)) + failures
         /\ (Len(kept) = Len(recency) + 1 \/ Len(kept) >= Cap)
         /\ kept[1] = n /\ \A i \in 2..Len(kept) : kept[i] = recency[i - 1]
         /\ n \in ToSet(kept) /\ ToSet(kept) \subseteq ToSet(recency) \cup {n}
<1> DEFINE c == Cons(n, recency)
           e == Excess(size + 1)
<1>1. /\ c \in Seq(Node) /\ Len(c) = Len(recency) + 1 /\ c[1] = n
      /\ \A i \in 2..(Len(recency) + 1) : c[i] = recency[i - 1]
      /\ ToSet(c) = ToSet(recency) \cup {n} /\ IsInjective(c)
  <2>1. recency \in Seq(Node) /\ IsInjective(recency) /\ n \in Node /\ n \notin ToSet(recency)
    BY DEF IInv, TypeOK
  <2>2. /\ c \in Seq(Node) /\ Len(c) = Len(recency) + 1 /\ c[1] = n
        /\ \A i \in 2..(Len(recency) + 1) : c[i] = recency[i - 1]
        /\ ToSet(c) = ToSet(recency) \cup {n}
        /\ IsInjective(recency) /\ n \notin ToSet(recency) => IsInjective(c)
    BY <2>1, Consed
  <2> QED
    BY <2>1, <2>2
<1>2. /\ size \in Nat /\ failures \in Nat /\ Len(recency) \in Nat /\ Len(recency) = size + failures
      /\ e \in Nat /\ (e = 0 \/ size + 1 - e = Cap) /\ Cap >= 1 /\ Cap \in Nat
      /\ size + 1 - e >= 1
  <2>1. size \in 0..Cap /\ failures \in Nat /\ Len(recency) = size + failures
    BY DEF IInv, TypeOK, History
  <2> QED
    BY <2>1, Numbers, Places DEF Excess
<1>3. kept = SubSeq(c, 1, Len(c) - e)
  BY DEF Evict
<1> HIDE DEF c, e
<1> DEFINE l == Len(recency) + 1 - e
<1>4. l \in 1..(Len(recency) + 1) /\ l = (size + 1 - e) + failures
      /\ (l = Len(recency) + 1 \/ l >= Cap)
  BY <1>2
<1>5. DOMAIN c = 1..(Len(recency) + 1) /\ \A i \in 1..(Len(recency) + 1) : c[i] \in Node
  BY <1>1, LenProperties
<1>6. kept = SubSeq(c, 1, l)
  <2>1. Len(c) = Len(recency) + 1
    BY <1>1
  <2>2. Len(c) - e = l
    BY <1>2, <2>1
  <2> QED
    BY <1>3, <2>2
<1> HIDE DEF l
<1>7. kept \in Seq(Node) /\ Len(kept) = l /\ \A i \in 1..l : kept[i] = c[i]
  <2>1. l \in Int /\ 1 \in Int /\ 1 <= l /\ l - 1 + 1 = l /\ \A i \in 1..l : c[i] \in Node /\ 1 + i - 1 = i
    BY <1>2, <1>4, <1>5
  <2>2. /\ SubSeq(c, 1, l) \in Seq(Node) /\ Len(SubSeq(c, 1, l)) = (IF 1 <= l THEN l - 1 + 1 ELSE 0)
        /\ \A i \in 1..(l - 1 + 1) : SubSeq(c, 1, l)[i] = c[1 + i - 1]
    BY <2>1, SubSeqProperties
  <2> QED
    BY <1>6, <2>1, <2>2
<1>8. DOMAIN kept = 1..l /\ 1..l \subseteq DOMAIN c
  BY <1>2, <1>4, <1>5, <1>7, LenProperties
<1>9. IsInjective(kept)
  BY SMTT(30), <1>1, <1>7, <1>8 DEF IsInjective
<1>10. kept[1] = n /\ \A i \in 2..l : kept[i] = recency[i - 1]
  BY <1>1, <1>2, <1>4, <1>7
<1>11. ToSet(kept) \subseteq ToSet(c)
  BY <1>7, <1>8 DEF ToSet
<1>12. n \in ToSet(kept)
  <2>1. 1 \in DOMAIN kept
    BY <1>2, <1>4, <1>8
  <2> QED
    BY <1>10, <2>1 DEF ToSet
<1> QED
  BY <1>1, <1>4, <1>7, <1>9, <1>10, <1>11, <1>12 DEF e

LEMMA PutNewStep ==
  ASSUME IInv, NEW k \in Key, NEW v \in Val, PutNew(k, v)
  PROVE  IInv'
<1>1. PICK n \in Node \ ToSet(recency) :
        /\ recency' = Evict(Cons(n, recency), Excess(size + 1))
        /\ entry' = [m \in Node |-> IF m \notin ToSet(recency') THEN Freed
                                    ELSE IF m = n THEN [key |-> k, val |-> v]
                                    ELSE entry[m]]
  BY DEF PutNew
<1>2. /\ ~Cached(k) /\ size' = size + 1 - Excess(size + 1)
      /\ buckets' = (IF Crowded THEN 2 * buckets ELSE buckets)
      /\ latest' = [latest EXCEPT ![k] = v]
      /\ Used(k) /\ UNCHANGED <<caller, failures>>
  BY DEF PutNew
<1>3. /\ recency' \in Seq(Node) /\ IsInjective(recency')
      /\ Len(recency') \in 1..(Len(recency) + 1)
      /\ Len(recency') = (size + 1 - Excess(size + 1)) + failures
      /\ (Len(recency') = Len(recency) + 1 \/ Len(recency') >= Cap)
      /\ recency'[1] = n /\ \A i \in 2..Len(recency') : recency'[i] = recency[i - 1]
      /\ n \in ToSet(recency') /\ ToSet(recency') \subseteq ToSet(recency) \cup {n}
  <2> DEFINE kept == recency'
  <2>1. kept = Evict(Cons(n, recency), Excess(size + 1))
    BY <1>1
  <2> HIDE DEF kept
  <2>2. /\ kept \in Seq(Node) /\ IsInjective(kept)
        /\ Len(kept) \in 1..(Len(recency) + 1)
        /\ Len(kept) = (size + 1 - Excess(size + 1)) + failures
        /\ (Len(kept) = Len(recency) + 1 \/ Len(kept) >= Cap)
        /\ kept[1] = n /\ \A i \in 2..Len(kept) : kept[i] = recency[i - 1]
        /\ n \in ToSet(kept) /\ ToSet(kept) \subseteq ToSet(recency) \cup {n}
    BY <2>1, KeptOf
  <2> QED
    BY <2>2 DEF kept
<1>4. /\ [key |-> k, val |-> v] \in Entries
      /\ entry'[n] = [key |-> k, val |-> v]
      /\ \A m \in ToSet(recency') : m # n => m \in ToSet(recency) /\ entry'[m] = entry[m]
      /\ \A m \in Node \ ToSet(recency') : entry'[m] = Freed
  <2>1. ToSet(recency') \subseteq Node
    BY <1>3, Places
  <2> QED
    BY <1>1, <1>3, <2>1 DEF Entries
<1>5. \A m \in ToSet(recency) : m \in Node /\ entry[m] \in Entries /\ entry[m].key # k
  BY <1>2, Places DEF Cached, Holding, IInv, TypeOK
<1>6. entry' \in [Node -> Entries \cup {Freed}]
  <2>1. DOMAIN entry' = Node /\ entry' = [m \in Node |-> entry'[m]]
    BY <1>1
  <2>2. \A m \in Node : entry'[m] \in Entries \cup {Freed}
    BY <1>4, <1>5
  <2> QED
    BY <2>1, <2>2
<1>7. TypeOK'
  <2>1. \A m \in Node : entry'[m] \in IF m \in ToSet(recency') THEN Entries ELSE {Freed}
    BY <1>4, <1>5
  <2>2. size \in 0..Cap /\ buckets \in Nat \ {0}
    BY DEF IInv, TypeOK
  <2>3. size' \in 0..Cap
    <3>1. ASSUME NEW one \in Nat PROVE Excess(one) \in Nat /\ one - Excess(one) \in 0..Cap
      BY Numbers
    <3>2. size + 1 \in Nat
      BY <2>2, Numbers
    <3>3. size + 1 - Excess(size + 1) \in 0..Cap
      <4>1. Excess(size + 1) \in Nat /\ (size + 1) - Excess(size + 1) \in 0..Cap
        BY <3>1, <3>2
      <4> DEFINE e == Excess(size + 1)
      <4>2. size \in Nat /\ e \in Nat /\ (size + 1) - e \in 0..Cap
        BY <2>2, <4>1, Numbers
      <4> HIDE DEF e
      <4>3. size + 1 - e = (size + 1) - e
        BY <4>2
      <4>4. size + 1 - e \in 0..Cap
        BY <4>2, <4>3
      <4> QED
        BY <4>4 DEF e
    <3>4. size' = size + 1 - Excess(size + 1)
      BY <1>2
    <3> DEFINE left == size + 1 - Excess(size + 1)
    <3>5. left \in 0..Cap /\ size' = left
      BY <3>3, <3>4
    <3> HIDE DEF left
    <3> QED
      BY <3>5
  <2>4. buckets' \in Nat \ {0}
    BY <1>2, <2>2
  <2> QED
    BY <1>2, <1>3, <2>1, <2>3, <2>4 DEF IInv, TypeOK, caller
<1>8. KeysDiffer'
  <2> SUFFICES ASSUME NEW a \in ToSet(recency'), NEW b \in ToSet(recency'),
                      entry'[a].key = entry'[b].key
               PROVE  a = b
    BY DEF KeysDiffer
  <2>1. entry'[n].key = k
    BY <1>4
  <2>2. a # n => a \in ToSet(recency) /\ entry'[a] = entry[a] /\ entry[a].key # k
    BY <1>4, <1>5
  <2>3. b # n => b \in ToSet(recency) /\ entry'[b] = entry[b] /\ entry[b].key # k
    BY <1>4, <1>5
  <2> QED
    BY <2>1, <2>2, <2>3 DEF IInv, KeysDiffer
<1>9. Counted' /\ IsFiniteSet(others') /\ others \subseteq others'
  BY <1>2, StillCounted
<1>10. PICK q \in 1..(Len(uses) + 1) :
           /\ IsPlace(uses, k, q)
           /\ uses' \in Seq(Key) /\ IsInjective(uses') /\ uses'[1] = k
           /\ Len(uses') = (IF q \in 1..Len(uses) THEN Len(uses) ELSE Len(uses) + 1)
           /\ \A i \in 2..Len(uses') : uses'[i] = IF i <= q THEN uses[i - 1] ELSE uses[i]
  BY <1>2, UsesAfter DEF Used
<1>11. History'
  BY <1>2, <1>6, <1>9, <1>10 DEF IInv, History
<1>12. \A i \in 1..Len(uses) : i <= Cap =>
         i <= Len(recency) /\ entry[recency[i]] = [key |-> uses[i], val |-> latest[uses[i]]]
  BY DEF IInv, FrontHolds
<1>13. q \notin 1..Len(uses) \/ q > Cap
  <2> SUFFICES ASSUME q \in 1..Len(uses), q <= Cap PROVE FALSE
    BY <1>10, Places, Numbers
  <2>1. uses[q] = k
    BY <1>10 DEF IsPlace
  <2>2. q \in 1..Len(recency) /\ entry[recency[q]] = [key |-> uses[q], val |-> latest[uses[q]]]
    BY <1>12, Places
  <2>3. recency[q] \in ToSet(recency)
    BY <2>2, Places DEF ToSet
  <2> QED
    BY <1>5, <2>1, <2>2, <2>3
<1>14. FrontHolds'
  <2> SUFFICES ASSUME NEW i \in 1..Len(uses'), i <= Cap
               PROVE  /\ i <= Len(recency')
                      /\ entry'[recency'[i]] = [key |-> uses'[i], val |-> latest'[uses'[i]]]
    BY DEF FrontHolds
  <2>1. CASE i = 1
    <3>1. latest'[k] = v
      BY <1>2 DEF IInv, History
    <3>2. 1 <= Len(recency')
      BY <1>3, Places
    <3> QED
      BY <1>3, <1>4, <1>10, <2>1, <3>1, <3>2
  <2>2. CASE i # 1
    <3> DEFINE j == i - 1
    <3>1. /\ Len(uses) \in Nat /\ Len(recency) \in Nat /\ Cap \in Nat /\ i \in Nat /\ i > 1
          /\ i \in 2..Len(uses')
      BY <1>10, <2>2, Places, Numbers
    <3>2. i <= q /\ j \in 1..Len(uses) /\ j <= Cap
      <4>1. CASE q \in 1..Len(uses)
        BY <1>10, <1>13, <3>1, <4>1
      <4>2. CASE q \notin 1..Len(uses)
        <5>1. Len(uses') = Len(uses) + 1 /\ q \in 1..(Len(uses) + 1)
          BY <1>10, <4>2
        <5>2. q = Len(uses) + 1
          BY <3>1, <4>2, <5>1
        <5> QED
          BY <3>1, <5>1, <5>2
      <4> QED
        BY <4>1, <4>2
    <3>3. uses'[i] = uses[j] /\ uses[j] \in Key /\ uses[j] # k
      <4>1. uses'[i] = uses[j]
        BY <1>10, <3>1, <3>2
      <4>2. DOMAIN uses' = 1..Len(uses') /\ Len(uses') \in Nat
        BY <1>10, LenProperties
      <4>3. i \in DOMAIN uses' /\ 1 \in DOMAIN uses'
        BY <3>1, <4>2
      <4>4. uses'[i] # uses'[1]
        BY <1>10, <2>2, <4>3 DEF IsInjective
      <4> QED
        BY <1>10, <3>2, <4>1, <4>4, Places
    <3>4. j <= Len(recency) /\ entry[recency[j]] = [key |-> uses[j], val |-> latest[uses[j]]]
      BY <1>12, <3>2
    <3>5. i <= Len(recency') /\ i \in 2..Len(recency') /\ j \in 1..Len(recency)
      BY <1>3, <3>1, <3>2, <3>4
    <3>6. recency'[i] = recency[j] /\ recency[j] \in ToSet(recency) /\ recency[j] # n
      BY <1>1, <1>3, <3>5, Places DEF ToSet
    <3>7. recency[j] \in ToSet(recency')
      <4>1. i \in DOMAIN recency'
        BY <1>3, <3>1, <3>5, LenProperties
      <4> QED
        BY <3>6, <4>1 DEF ToSet
    <3>8. entry'[recency[j]] = entry[recency[j]]
      BY <1>4, <3>6, <3>7
    <3>9. latest'[uses[j]] = latest[uses[j]]
      BY <1>2, <3>3 DEF IInv, History
    <3> HIDE DEF j
    <3> QED
      BY <3>3, <3>4, <3>5, <3>6, <3>8, <3>9
  <2> QED
    BY <2>1, <2>2
<1>15. PointerLive'
  <2> SUFFICES ASSUME held # NoNode, Cardinality(others') < Cap
               PROVE  Holding(heldFor)' = {held}
    BY <1>2 DEF PointerLive, caller
  <2>1. /\ Holding(heldFor) = {held}
        /\ \E m \in ToSet(recency') : entry'[m].key = heldFor
    <3>1. UNCHANGED caller
      BY <1>2
    <3> QED
      BY <1>3, <1>9, <1>10, <1>14, <3>1, PointerNeverEvicted
  <2>2. heldFor # k
    BY <1>2, <2>1 DEF Cached
  <2>3. entry'[n].key = k
    BY <1>4
  <2>4. ASSUME NEW m \in ToSet(recency'), entry'[m].key = heldFor PROVE m = held
    BY <1>4, <2>1, <2>2, <2>3, <2>4 DEF Holding
  <2>5. Holding(heldFor)' = {m \in ToSet(recency') : entry'[m].key = heldFor}
    BY <1>2 DEF Holding, caller
  <2> QED
    BY <2>1, <2>4, <2>5
<1> QED
  BY <1>7, <1>8, <1>9, <1>11, <1>14, <1>15 DEF IInv

LEMMA PutFailsStep ==
  ASSUME IInv, NEW k \in Key, NEW v \in Val, PutFails(k, v)
  PROVE  IInv'
<1>1. PICK n \in Node \ ToSet(recency) :
        /\ entry' = [entry EXCEPT ![n] = [key |-> k, val |-> v]]
        /\ recency' = Append(recency, n)
  BY DEF PutFails
<1>2. /\ ~Cached(k) /\ failures' = failures + 1
      /\ UNCHANGED <<size, buckets, held, heldFor, uses, latest, others>>
  BY DEF PutFails, caller, history
<1>3. /\ recency' \in Seq(Node) /\ IsInjective(recency')
      /\ ToSet(recency') = ToSet(recency) \cup {n} /\ Len(recency') = Len(recency) + 1
      /\ \A i \in 1..Len(recency) : recency'[i] = recency[i]
  <2>1. recency \in Seq(Node) /\ IsInjective(recency)
    BY DEF IInv, TypeOK
  <2> DEFINE t == Append(recency, n)
  <2>2. t \in Seq(Node) /\ IsInjective(t) /\ ToSet(t) = ToSet(recency) \cup {n}
    BY <2>1, Appended
  <2>3. Len(t) = Len(recency) + 1 /\ \A i \in 1..Len(recency) : t[i] = recency[i]
    BY <2>1, AppendProperties
  <2> HIDE DEF t
  <2>4. recency' = t
    BY <1>1 DEF t
  <2> QED
    BY <2>2, <2>3, <2>4
<1>4. /\ [key |-> k, val |-> v] \in Entries
      /\ entry' \in [Node -> Entries \cup {Freed}]
      /\ entry'[n] = [key |-> k, val |-> v]
      /\ \A m \in Node : m # n => entry'[m] = entry[m]
  <2>1. [key |-> k, val |-> v] \in Entries
    BY DEF Entries
  <2> QED
    BY <1>1, <2>1 DEF IInv, History
<1>5. \A m \in ToSet(recency) : m \in Node /\ m # n /\ entry[m].key # k
  BY <1>2, Places DEF Cached, Holding
<1>6. entry'[n].key = k
  BY <1>4
<1>7. TypeOK'
  <2>1. \A m \in Node : entry'[m] \in IF m \in ToSet(recency') THEN Entries ELSE {Freed}
    BY <1>3, <1>4 DEF IInv, TypeOK
  <2>2. Len(recency') = size' + failures'
    <3>1. size \in Nat /\ failures \in Nat /\ Len(recency) = size + failures
      BY Numbers DEF IInv, TypeOK, History
    <3> QED
      BY <1>2, <1>3, <3>1
  <2> QED
    BY <1>2, <1>3, <2>1, <2>2 DEF IInv, TypeOK
<1>8. History'
  BY <1>2, <1>4 DEF IInv, History
<1>9. KeysDiffer'
  BY <1>3, <1>4, <1>5, <1>6 DEF IInv, KeysDiffer
<1>10. FrontHolds'
  <2> SUFFICES ASSUME NEW i \in 1..Len(uses), i <= Cap
               PROVE  /\ i <= Len(recency')
                      /\ entry'[recency'[i]] = [key |-> uses[i], val |-> latest[uses[i]]]
    BY <1>2 DEF FrontHolds
  <2>1. i <= Len(recency) /\ entry[recency[i]] = [key |-> uses[i], val |-> latest[uses[i]]]
    BY DEF IInv, FrontHolds
  <2>2. i \in 1..Len(recency) /\ i <= Len(recency')
    BY <1>3, <2>1, Places
  <2>3. recency[i] \in ToSet(recency)
    BY <2>2, Places DEF ToSet
  <2> QED
    BY <1>3, <1>4, <1>5, <2>1, <2>2, <2>3
<1>11. Counted'
  BY <1>2 DEF IInv, Counted
<1>12. PointerLive'
  <2> SUFFICES ASSUME held # NoNode, Cardinality(others) < Cap
               PROVE  Holding(heldFor)' = {held}
    BY <1>2 DEF PointerLive
  <2>1. Holding(heldFor) = {held}
    BY DEF IInv, PointerLive
  <2>2. heldFor # k
    BY <1>2, <2>1 DEF Cached
  <2>3. Holding(heldFor)' = Holding(heldFor)
    BY <1>2, <1>3, <1>4, <1>5, <1>6, <2>2 DEF Holding
  <2> QED
    BY <2>1, <2>3
<1> QED
  BY <1>7, <1>8, <1>9, <1>10, <1>11, <1>12 DEF IInv

LEMMA WriteStep ==
  ASSUME IInv, NEW v \in Val, Write(v)
  PROVE  IInv'
<1>1. /\ held # NoNode /\ Cardinality(others) < Cap
      /\ entry' = [entry EXCEPT ![held].val = v]
      /\ latest' = [latest EXCEPT ![heldFor] = v]
      /\ UNCHANGED <<recency, size, buckets, held, heldFor, failures, uses, others>>
  BY DEF Write, caller
<1>2. Holding(heldFor) = {held} /\ heldFor \in Key
  BY <1>1 DEF IInv, PointerLive, Counted
<1>3. held \in ToSet(recency) /\ held \in Node /\ entry[held].key = heldFor /\ entry[held] \in Entries
  BY <1>2, Places DEF Holding, IInv, TypeOK
<1>4. /\ entry' \in [Node -> Entries \cup {Freed}]
      /\ \A m \in Node : m # held => entry'[m] = entry[m]
      /\ entry'[held] = [key |-> heldFor, val |-> v]
      /\ [key |-> heldFor, val |-> v] \in Entries
  <2>1. /\ entry \in [Node -> Entries \cup {Freed}]
        /\ entry' = [entry EXCEPT ![held] = [entry[held] EXCEPT !.val = v]]
    BY <1>1 DEF IInv, History
  <2>2. [entry[held] EXCEPT !.val = v] = [key |-> heldFor, val |-> v]
    BY <1>3 DEF Entries
  <2>3. [key |-> heldFor, val |-> v] \in Entries
    BY <1>2 DEF Entries
  <2> QED
    BY <1>3, <2>1, <2>2, <2>3
<1>5. /\ latest' \in [Key -> Val \cup {NoNode}] /\ latest'[heldFor] = v
      /\ \A j \in Key : j # heldFor => latest'[j] = latest[j]
  BY <1>1, <1>2 DEF IInv, History
<1>6. \A m \in Node : entry'[m].key = entry[m].key
  BY <1>3, <1>4
<1>7. TypeOK'
  <2>1. \A m \in Node : entry'[m] \in IF m \in ToSet(recency) THEN Entries ELSE {Freed}
    BY <1>3, <1>4 DEF IInv, TypeOK
  <2> QED
    BY <1>1, <2>1 DEF IInv, TypeOK
<1>8. History'
  BY <1>1, <1>4, <1>5 DEF IInv, History
<1>9. KeysDiffer'
  BY <1>1, <1>6, Places DEF IInv, KeysDiffer
<1>10. FrontHolds'
  <2> SUFFICES ASSUME NEW i \in 1..Len(uses), i <= Cap
               PROVE  /\ i <= Len(recency)
                      /\ entry'[recency[i]] = [key |-> uses[i], val |-> latest'[uses[i]]]
    BY <1>1 DEF FrontHolds
  <2>1. i <= Len(recency) /\ entry[recency[i]] = [key |-> uses[i], val |-> latest[uses[i]]]
    BY DEF IInv, FrontHolds
  <2>2. entry[recency[i]].key = uses[i]
    BY <2>1
  <2>3. i \in 1..Len(recency) /\ recency[i] \in Node /\ recency[i] \in ToSet(recency)
        /\ uses[i] \in Key
    BY <2>1, Places DEF ToSet
  <2>4. CASE uses[i] = heldFor
    <3>1. recency[i] = held
      BY <1>3, <2>2, <2>3, <2>4 DEF IInv, KeysDiffer
    <3> QED
      BY <1>4, <1>5, <2>1, <2>4, <3>1
  <2>5. CASE uses[i] # heldFor
    <3>1. recency[i] # held
      BY <1>3, <2>2, <2>5
    <3> QED
      BY <1>4, <1>5, <2>1, <2>3, <2>5, <3>1
  <2> QED
    BY <2>4, <2>5
<1>11. Counted'
  BY <1>1 DEF IInv, Counted
<1>12. PointerLive'
  <2>1. Holding(heldFor)' = Holding(heldFor)
    BY <1>1, <1>6, Places DEF Holding
  <2> QED
    BY <1>1, <1>2, <2>1 DEF PointerLive
<1> QED
  BY <1>7, <1>8, <1>9, <1>10, <1>11, <1>12 DEF IInv

-----------------------------------------------------------------------------
(* The theorems.                                                           *)

\* Puts, gets, evictions, writes through the pointer and insertions that throw leave the
\* foremost nodes in step with the keys used last, and what holds the pointer's key in place.
THEOREM IInvHolds == Spec => []IInv
<1>1. Init => IInv
  BY Initial
<1>2. IInv /\ [Next]_vars => IInv'
  <2> SUFFICES ASSUME IInv, [Next]_vars PROVE IInv'
    OBVIOUS
  <2>1. ASSUME NEW k \in Key, Get(k) PROVE IInv'
    BY <2>1, GetStep
  <2>2. ASSUME NEW k \in Key, NEW v \in Val, PutExisting(k, v) PROVE IInv'
    BY <2>2, PutExistingStep
  <2>3. ASSUME NEW k \in Key, NEW v \in Val, PutNew(k, v) PROVE IInv'
    BY <2>3, PutNewStep
  <2>4. ASSUME NEW k \in Key, NEW v \in Val, PutFails(k, v) PROVE IInv'
    BY <2>4, PutFailsStep
  <2>5. ASSUME NEW v \in Val, Write(v) PROVE IInv'
    BY <2>5, WriteStep
  <2>6. CASE UNCHANGED vars
    BY <2>6 DEF vars, store, caller, history, IInv, TypeOK, History, KeysDiffer, FrontHolds,
                Counted, PointerLive, Holding
  <2> QED
    BY <2>1, <2>2, <2>3, <2>4, <2>5, <2>6 DEF Next
<1> QED
  BY <1>1, <1>2, PTL DEF Spec

\* The Cap keys used last are cached, foremost and in order, with their last values.
THEOREM RecentAreCached == Spec => []HoldsMostRecent
<1>1. IInv => HoldsMostRecent
  <2> SUFFICES ASSUME IInv PROVE HoldsMostRecent
    OBVIOUS
  <2> DEFINE l == IF Len(uses) < Cap THEN Len(uses) ELSE Cap
  <2>1. l \in 0..Len(uses) /\ l <= Cap /\ Len(uses) \in Nat /\ l \in Nat
        /\ \A i \in 1..l : i \in 1..Len(uses) /\ i <= Cap
    <3>1. Len(uses) \in Nat /\ Cap \in Nat
      BY Places, Numbers
    <3> QED
      BY <3>1
  <2>2. Recent = SubSeq(uses, 1, l)
    BY DEF Recent
  <2> HIDE DEF l
  <2>3. Recent \in Seq(Key) /\ Len(Recent) = l /\ \A i \in 1..l : Recent[i] = uses[i]
    <3>1. l \in Int /\ 1 \in Int /\ l - 1 + 1 = l /\ \A i \in 1..l : uses[i] \in Key /\ 1 + i - 1 = i
      BY <2>1, Places
    <3>2. /\ SubSeq(uses, 1, l) \in Seq(Key)
          /\ Len(SubSeq(uses, 1, l)) = (IF 1 <= l THEN l - 1 + 1 ELSE 0)
          /\ \A i \in 1..(l - 1 + 1) : SubSeq(uses, 1, l)[i] = uses[1 + i - 1]
      BY <3>1, SubSeqProperties
    <3> QED
      BY <2>1, <2>2, <3>1, <3>2
  <2>4. DOMAIN Recent = 1..l
    BY <2>3, LenProperties
  <2>5. \A i \in 1..Len(uses) : i <= Cap =>
          i <= Len(recency) /\ entry[recency[i]] = [key |-> uses[i], val |-> latest[uses[i]]]
    BY DEF IInv, FrontHolds
  <2>6. Len(recency) >= l
    <3>1. Len(recency) \in Nat
      BY Places
    <3>2. CASE l = 0
      BY <3>1, <3>2
    <3>3. CASE l # 0
      <4>1. l \in 1..Len(uses) /\ l <= Cap
        BY <2>1, <3>3
      <4>2. l <= Len(recency)
        BY <2>5, <4>1
      <4> QED
        BY <2>1, <3>1, <4>2
    <3> QED
      BY <3>2, <3>3
  <2>7. TypeOK
    BY DEF IInv
  <2> QED
    BY <2>1, <2>3, <2>4, <2>5, <2>6, <2>7 DEF HoldsMostRecent
<1> QED
  BY <1>1, IInvHolds, PTL

\* The pointer get() returned is good until Cap other keys have been used.
THEOREM PointersStayLive == Spec => []PointerLive
<1>1. IInv => PointerLive
  BY DEF IInv
<1> QED
  BY <1>1, IInvHolds, PTL
=============================================================================
