-------------------------- MODULE StaticArenaProofs --------------------------
(***************************************************************************)
(* Proofs about StaticArena, for every capacity, size of a node and of a   *)
(* bucket table, under the budget of BudgetAssumption: the arena is not    *)
(* exhausted before its capacity, and failed insertions do no harm to the  *)
(* elements that are in the container until they are erased.               *)
(***************************************************************************)
EXTENDS StaticArena, FiniteSetTheorems, TLAPS

\* Every word of the arena went to a node, to a bucket array or to a pointer array.
\* The bucket arrays double from the initial one, the pointer arrays from one place.
Accounts ==
  used = made * NodeWords + (2 * buckets - InitialBuckets + 1)
           + (IF capacity = 0 THEN 0 ELSE 2 * capacity - 1)

\* No table is larger than twice what it has ever held.
TablesFit ==
  /\ Cardinality(hashed) <= made /\ Len(array) <= made /\ Len(array) <= capacity
  /\ buckets = InitialBuckets \/ (buckets >= InitialBuckets /\ buckets < 2 * made)
  /\ capacity = 0 \/ capacity < 2 * made

\* The nodes of the indices, whatever became of the registry and of size().
MembersAgree ==
  /\ hashed = tree /\ halfway \subseteq tree
  /\ {array[i] : i \in 1..Len(array)} = tree \ halfway
  /\ \A i, j \in 1..Len(array) : array[i] = array[j] => i = j

\* size() is short of the nodes that were erased without having been counted.
Uncounted(e) ==
  /\ e + Cardinality(halfway) + Len(array) <= made
  /\ trampled <=> e # 0
  /\ size = IF e <= Len(array) THEN Len(array) - e ELSE Len(array) + SizeRange - e

SizeOffBy == \E e \in 0..made : Uncounted(e)

\* No insertion has failed before N nodes were allocated.
CapacityReported == outcome = "capacity" => made >= Capacity

IInv ==
  /\ TypeOK /\ Accounts /\ TablesFit /\ CapacityReported
  /\ MembersAgree /\ SizeOffBy /\ InsertedAreKept

-----------------------------------------------------------------------------
(* Arithmetic.                                                             *)

LEMMA Multiples ==
  ASSUME NEW a \in Nat, NEW b \in Nat, NEW c \in Nat, a <= b
  PROVE  a * c <= b * c /\ a * c \in Nat
<1>1. PICK d \in Nat : b = a + d
  <2> WITNESS b - a \in Nat
  <2> QED
    OBVIOUS
<1>2. (a + d) * c = a * c + d * c /\ d * c \in Nat /\ a * c \in Nat
  OBVIOUS
<1> QED
  BY <1>1, <1>2

\* The budget pays for n nodes and eight words of tables for each.
LEMMA Budget ==
  ASSUME NEW n \in Nat, n <= Capacity
  PROVE  n * NodeWords + 8 * n + InitialBuckets + 1 <= ArenaWords
<1> USE BudgetAssumption
<1>1. n * (NodeWords + 8) = n * NodeWords + 8 * n
  OBVIOUS
<1>2. n * (NodeWords + 8) <= n * ElementWords
  <2>1. (NodeWords + 8) * n <= ElementWords * n
    BY Multiples
  <2>2. (NodeWords + 8) * n = n * (NodeWords + 8) /\ ElementWords * n = n * ElementWords
    OBVIOUS
  <2> QED
    BY <2>1, <2>2
<1>3. n * ElementWords <= Capacity * ElementWords
  BY Multiples
<1>4. /\ n * NodeWords \in Nat /\ n * (NodeWords + 8) \in Nat
      /\ n * ElementWords \in Nat /\ Capacity * ElementWords \in Nat
  BY Multiples
<1> QED
  BY <1>1, <1>2, <1>3, <1>4 DEF ArenaWords

LEMMA ArenaIsNat == ArenaWords \in Nat
<1>1. Capacity * ElementWords \in Nat
  BY Multiples, BudgetAssumption
<1> QED
  BY <1>1, BudgetAssumption DEF ArenaWords

LEMMA OneMoreNode ==
  ASSUME NEW n \in Nat
  PROVE  (n + 1) * NodeWords = n * NodeWords + NodeWords /\ n * NodeWords \in Nat
  BY BudgetAssumption

\* Linking one more node adds at most one.
LEMMA OneMoreElement ==
  ASSUME NEW k \in Key, hashed \subseteq Key
  PROVE  /\ IsFiniteSet(hashed) /\ Cardinality(hashed) \in Nat
         /\ Cardinality(hashed \cup {k}) \in Nat
         /\ Cardinality(hashed \cup {k}) <= Cardinality(hashed) + 1
<1>1. IsFiniteSet(hashed)
  BY FS_Subset, KeyAssumption
<1>2. /\ IsFiniteSet(hashed \cup {k})
      /\ Cardinality(hashed \cup {k}) = IF k \in hashed THEN Cardinality(hashed)
                                       ELSE Cardinality(hashed) + 1
  BY <1>1, FS_AddElement
<1> QED
  BY <1>1, <1>2, FS_CardinalityType

\* Taking a pointer out of the array that occurs in it.
LEMMA TakenOut ==
  ASSUME NEW s \in Seq(Key), NEW at \in 1..Len(s),
         \A i, j \in 1..Len(s) : s[i] = s[j] => i = j
  PROVE  Without(s, s[at]) = [i \in 1..(Len(s) - 1) |-> IF i < at THEN s[i] ELSE s[i + 1]]
<1> DEFINE first == CHOOSE i \in 1..Len(s) : s[i] = s[at] /\ \A j \in 1..(i - 1) : s[j] # s[at]
<1>1. at \in 1..Len(s) /\ s[at] = s[at] /\ \A j \in 1..(at - 1) : s[j] # s[at]
  OBVIOUS
<1>2. first \in 1..Len(s) /\ s[first] = s[at]
  BY <1>1
<1>3. first = at
  BY <1>2
<1>4. \E i \in 1..Len(s) : s[i] = s[at]
  OBVIOUS
<1> HIDE DEF first
<1>5. Without(s, s[at]) = [i \in 1..(Len(s) - 1) |-> IF i < first THEN s[i] ELSE s[i + 1]]
  BY <1>4 DEF Without, first
<1> QED
  BY <1>3, <1>5

\* Erasing never lengthens the array, whatever is in it.
LEMMA WithoutType ==
  ASSUME NEW s \in Seq(Key), NEW k
  PROVE  Without(s, k) \in Seq(Key) /\ Len(Without(s, k)) <= Len(s)
<1>1. CASE ~ \E i \in 1..Len(s) : s[i] = k
  BY <1>1 DEF Without
<1>2. CASE \E i \in 1..Len(s) : s[i] = k
  <2> DEFINE first == CHOOSE i \in 1..Len(s) : s[i] = k /\ \A j \in 1..(i - 1) : s[j] # k
             rest == [i \in 1..(Len(s) - 1) |-> IF i < first THEN s[i] ELSE s[i + 1]]
  <2>1. Without(s, k) = rest
    BY <1>2 DEF Without
  <2> HIDE DEF first
  <2>2. Len(s) \in Nat \ {0}
    BY <1>2
  <2>3. \A i \in 1..(Len(s) - 1) : rest[i] \in Key
    BY <2>2
  <2>4. rest \in Seq(Key) /\ Len(rest) = Len(s) - 1
    BY <2>2, <2>3
  <2> QED
    BY <2>1, <2>2, <2>4
<1> QED
  BY <1>1, <1>2

-----------------------------------------------------------------------------
(* The invariant.                                                          *)

\* The empty container, its bucket table allocated, satisfies the invariant.
LEMMA InitIInv == Init => IInv
<1> SUFFICES ASSUME Init PROVE IInv
  OBVIOUS
<1> USE BudgetAssumption, KeyAssumption, SizeAssumption, ArenaIsNat DEF Init, NoLinks
<1>1. used <= ArenaWords
  <2>1. 0 * NodeWords = 0 /\ 0 <= Capacity
    OBVIOUS
  <2> QED
    BY <2>1, Budget
<1>2. TypeOK
  <2>1. used \in 0..ArenaWords /\ made \in Nat /\ buckets \in Nat \ {0} /\ capacity \in Nat
    BY <1>1
  <2>2. array \in Seq(Key) /\ size \in 0..(SizeRange - 1)
    OBVIOUS
  <2>3. registry \in [ head : Key \cup {Nil}, tail : Key \cup {Nil},
                      prev : [Key -> Key \cup {Nil}], next : [Key -> Key \cup {Nil}] ]
    OBVIOUS
  <2> QED
    BY <2>1, <2>2, <2>3 DEF TypeOK
<1>3. Accounts
  BY DEF Accounts
<1>4. TablesFit
  BY FS_EmptySet DEF TablesFit
<1>5. CapacityReported
  BY DEF CapacityReported
<1>6. InsertedAreKept /\ MembersAgree
  BY DEF InsertedAreKept, MembersAgree, ListedAs
<1>7. SizeOffBy
  <2>1. Uncounted(0)
    BY FS_EmptySet DEF Uncounted
  <2> QED
    BY <2>1 DEF SizeOffBy
<1> QED
  BY <1>2, <1>3, <1>4, <1>5, <1>6, <1>7 DEF IInv

\* What an insertion that finds memory for its tables adds to them.
TablesGrow ==
  /\ BucketWords \in Nat /\ ArrayWords \in Nat
  /\ BucketsThen \in Nat \ {0} /\ CapacityThen \in Nat \ {0}
  /\ BucketWords = 2 * BucketsThen - 2 * buckets
  /\ ArrayWords = (2 * CapacityThen - 1) - (IF capacity = 0 THEN 0 ELSE 2 * capacity - 1)
  /\ BucketsThen = InitialBuckets
       \/ (BucketsThen >= InitialBuckets /\ BucketsThen < 2 * (made + 1))
  /\ CapacityThen < 2 * (made + 1) /\ Len(array) + 1 <= CapacityThen

LEMMA TablesThen ==
  ASSUME TypeOK, TablesFit
  PROVE  TablesGrow
<1> USE DEF TablesGrow
<1>1. /\ buckets \in Nat \ {0} /\ capacity \in Nat /\ made \in Nat
      /\ Len(array) \in Nat /\ Cardinality(hashed) \in Nat
      /\ InitialBuckets \in Nat \ {0}
  <2>1. hashed \subseteq Key /\ array \in Seq(Key)
    BY DEF TypeOK
  <2>2. Cardinality(hashed) \in Nat
    BY <2>1, KeyAssumption, FS_Subset, FS_CardinalityType
  <2>3. Len(array) \in Nat
    BY <2>1
  <2> QED
    BY <2>2, <2>3, BudgetAssumption DEF TypeOK
<1>2. /\ BucketWords \in Nat /\ BucketsThen \in Nat \ {0}
      /\ BucketWords = 2 * BucketsThen - 2 * buckets
  BY <1>1 DEF BucketWords, BucketsThen
<1>3. BucketsThen = InitialBuckets
        \/ (BucketsThen >= InitialBuckets /\ BucketsThen < 2 * (made + 1))
  BY <1>1 DEF BucketsThen, Crowded, TablesFit
<1>4. /\ ArrayWords \in Nat /\ CapacityThen \in Nat \ {0}
      /\ ArrayWords = (2 * CapacityThen - 1)
                        - (IF capacity = 0 THEN 0 ELSE 2 * capacity - 1)
  BY <1>1 DEF ArrayWords, CapacityThen, Doubled, TablesFit, ArrayFull
<1>5. CapacityThen < 2 * (made + 1) /\ Len(array) + 1 <= CapacityThen
  BY <1>1 DEF CapacityThen, Doubled, TablesFit, ArrayFull
<1> QED
  BY <1>2, <1>3, <1>4, <1>5

LEMMA LinksType ==
  ASSUME TypeOK, NEW k \in Key
  PROVE  /\ Constructed(k) \in [ head : Key \cup {Nil}, tail : Key \cup {Nil},
                                 prev : [Key -> Key \cup {Nil}], next : [Key -> Key \cup {Nil}] ]
         /\ PushedBack(Constructed(k), k) \in
               [ head : Key \cup {Nil}, tail : Key \cup {Nil},
                 prev : [Key -> Key \cup {Nil}], next : [Key -> Key \cup {Nil}] ]
         /\ Unlinked(registry, k) \in
               [ head : Key \cup {Nil}, tail : Key \cup {Nil},
                 prev : [Key -> Key \cup {Nil}], next : [Key -> Key \cup {Nil}] ]
<1> DEFINE Links == [ head : Key \cup {Nil}, tail : Key \cup {Nil},
                      prev : [Key -> Key \cup {Nil}], next : [Key -> Key \cup {Nil}] ]
<1>1. \A l \in Links, m, n \in Key \cup {Nil} : SetNext(l, m, n) \in Links /\ SetPrev(l, m, n) \in Links
  BY KeyAssumption DEF SetNext, SetPrev
<1>2. Constructed(k) \in Links /\ registry \in Links
  BY DEF TypeOK, Constructed
<1>3. \A l \in Links : l.tail \in Key \cup {Nil} /\ l.prev[k] \in Key \cup {Nil} /\ l.next[k] \in Key \cup {Nil}
  OBVIOUS
<1>4. \A l \in Links : [l EXCEPT !.prev[k] = l.tail, !.next[k] = Nil] \in Links
  OBVIOUS
<1> HIDE DEF Links
<1>5. PushedBack(Constructed(k), k) \in Links
  BY <1>1, <1>2, <1>3, <1>4 DEF PushedBack, Linked
<1>6. Unlinked(registry, k) \in Links
  BY <1>1, <1>2, <1>3 DEF Unlinked
<1> QED
  BY <1>2, <1>5, <1>6 DEF Links

LEMMA TypePreserved == IInv /\ [Next]_vars => TypeOK'
<1> SUFFICES ASSUME IInv, [Next]_vars PROVE TypeOK'
  OBVIOUS
<1>0. TypeOK /\ TablesFit
  BY DEF IInv
<1> USE SizeAssumption, BudgetAssumption, ArenaIsNat
<1>1. ASSUME NEW k \in Key, InsertNoNode(k) PROVE TypeOK'
  BY <1>0, <1>1 DEF InsertNoNode, memory, elements, room, TypeOK
<1>2. ASSUME NEW k \in Key, InsertRefused(k) PROVE TypeOK'
  BY <1>0, <1>2 DEF InsertRefused, elements, room, TypeOK, Fits
<1>3. ASSUME NEW k \in Key, InsertNoBuckets(k) PROVE TypeOK'
  BY <1>0, <1>3, LinksType DEF InsertNoBuckets, room, TypeOK, Fits
<1>4. ASSUME NEW k \in Key, InsertNoArray(k) PROVE TypeOK'
  <2>1. used \in Nat /\ TablesGrow
    BY <1>0, TablesThen DEF TypeOK
  <2>2. used + NodeWords + BucketWords \in 0..ArenaWords /\ BucketsThen \in Nat \ {0}
    <3>1. used + (NodeWords + BucketWords) <= ArenaWords
      BY <1>4 DEF InsertNoArray, Fits
    <3>2. BucketWords \in Nat /\ BucketsThen \in Nat \ {0}
      BY <2>1 DEF TablesGrow
    <3> QED
      BY <2>1, <3>1, <3>2
  <2> QED
    BY <1>0, <1>4, <2>2, LinksType DEF InsertNoArray, TypeOK
<1>5. ASSUME NEW k \in Key, Insert(k) PROVE TypeOK'
  <2>0. used \in Nat /\ TablesGrow
    BY <1>0, TablesThen DEF TypeOK
  <2>1. /\ used + NodeWords + BucketWords + ArrayWords \in 0..ArenaWords
        /\ BucketsThen \in Nat \ {0} /\ CapacityThen \in Nat
    <3>1. used + (NodeWords + BucketWords + ArrayWords) <= ArenaWords
      BY <1>5 DEF Insert, Fits
    <3>2. /\ BucketWords \in Nat /\ ArrayWords \in Nat
          /\ BucketsThen \in Nat \ {0} /\ CapacityThen \in Nat
      BY <2>0 DEF TablesGrow
    <3> QED
      BY <2>0, <3>1, <3>2
  <2>2. (size + 1) % SizeRange \in 0..(SizeRange - 1) /\ Append(array, k) \in Seq(Key)
    BY <1>0 DEF TypeOK
  <2> QED
    BY <1>0, <1>5, <2>1, <2>2, LinksType DEF Insert, TypeOK
<1>6. ASSUME NEW k \in Key, Erase(k) PROVE TypeOK'
  <2>1. size' \in 0..(SizeRange - 1)
    BY <1>0, <1>6 DEF TypeOK, Erase
  <2>2. Without(array, k) \in Seq(Key)
    BY <1>0, WithoutType DEF TypeOK
  <2> QED
    BY <1>0, <1>6, <2>1, <2>2, LinksType DEF Erase, memory, room, TypeOK
<1>7. CASE Clear
  <2>1. array' \in Seq(Key) /\ size' \in 0..(SizeRange - 1)
    BY <1>7 DEF Clear
  <2> QED
    BY <1>0, <1>7, <2>1 DEF Clear, memory, room, TypeOK
<1>8. CASE UNCHANGED vars
  BY <1>0, <1>8 DEF vars, memory, elements, room, TypeOK
<1> QED
  BY <1>1, <1>2, <1>3, <1>4, <1>5, <1>6, <1>7, <1>8 DEF Next

LEMMA AccountsPreserved == IInv /\ [Next]_vars => Accounts'
<1> SUFFICES ASSUME IInv, [Next]_vars PROVE Accounts'
  OBVIOUS
<1>0. /\ TypeOK /\ TablesFit /\ Accounts
      /\ made \in Nat /\ used \in Nat /\ buckets \in Nat /\ capacity \in Nat
      /\ InitialBuckets \in Nat /\ NodeWords \in Nat
      /\ (made + 1) * NodeWords = made * NodeWords + NodeWords /\ made * NodeWords \in Nat
  BY BudgetAssumption, ArenaIsNat, OneMoreNode DEF IInv, TypeOK
<1>1. ASSUME NEW k \in Key, InsertNoNode(k) PROVE Accounts'
  BY <1>0, <1>1 DEF InsertNoNode, memory, room, Accounts
<1>2. ASSUME NEW k \in Key, InsertRefused(k) PROVE Accounts'
  BY <1>0, <1>2 DEF InsertRefused, room, Accounts
<1>3. ASSUME NEW k \in Key, InsertNoBuckets(k) PROVE Accounts'
  BY <1>0, <1>3 DEF InsertNoBuckets, room, Accounts
<1>4. ASSUME NEW k \in Key, InsertNoArray(k) PROVE Accounts'
  <2>1. TablesGrow
    BY <1>0, TablesThen
  <2> QED
    BY <1>0, <1>4, <2>1 DEF InsertNoArray, Accounts, TablesGrow
<1>5. ASSUME NEW k \in Key, Insert(k) PROVE Accounts'
  <2>1. TablesGrow
    BY <1>0, TablesThen
  <2> QED
    BY <1>0, <1>5, <2>1 DEF Insert, Accounts, TablesGrow
<1>6. ASSUME NEW k \in Key, Erase(k) PROVE Accounts'
  BY <1>0, <1>6 DEF Erase, memory, room, Accounts
<1>7. CASE Clear
  BY <1>0, <1>7 DEF Clear, memory, room, Accounts
<1>8. CASE UNCHANGED vars
  BY <1>0, <1>8 DEF vars, memory, room, Accounts
<1> QED
  BY <1>1, <1>2, <1>3, <1>4, <1>5, <1>6, <1>7, <1>8 DEF Next

LEMMA TablesPreserved == IInv /\ [Next]_vars => TablesFit'
<1> SUFFICES ASSUME IInv, [Next]_vars PROVE TablesFit'
  OBVIOUS
<1>0. /\ TypeOK /\ TablesFit /\ hashed \subseteq Key
      /\ made \in Nat /\ buckets \in Nat /\ capacity \in Nat /\ InitialBuckets \in Nat
      /\ array \in Seq(Key) /\ Len(array) \in Nat
  BY BudgetAssumption DEF IInv, TypeOK
<1>1. ASSUME NEW k \in Key, InsertNoNode(k) PROVE TablesFit'
  BY <1>0, <1>1 DEF InsertNoNode, memory, elements, room, TablesFit
<1>2. ASSUME NEW k \in Key, InsertRefused(k) PROVE TablesFit'
  <2>1. Cardinality(hashed) \in Nat
    BY <1>0, OneMoreElement
  <2> QED
    BY <1>0, <1>2, <2>1 DEF InsertRefused, elements, room, TablesFit
<1>3. ASSUME NEW k \in Key, InsertNoBuckets(k) PROVE TablesFit'
  BY <1>0, <1>3, OneMoreElement DEF InsertNoBuckets, room, TablesFit
<1>4. ASSUME NEW k \in Key, InsertNoArray(k) PROVE TablesFit'
  <2>1. Cardinality(hashed \cup {k}) \in Nat /\ Cardinality(hashed) \in Nat
        /\ Cardinality(hashed \cup {k}) <= Cardinality(hashed) + 1 /\ TablesGrow
    BY <1>0, OneMoreElement, TablesThen
  <2> QED
    BY <1>0, <1>4, <2>1 DEF InsertNoArray, TablesFit, TablesGrow
<1>5. ASSUME NEW k \in Key, Insert(k) PROVE TablesFit'
  <2>1. Len(Append(array, k)) = Len(array) + 1
    BY <1>0
  <2>2. Cardinality(hashed \cup {k}) \in Nat /\ Cardinality(hashed) \in Nat
        /\ Cardinality(hashed \cup {k}) <= Cardinality(hashed) + 1 /\ TablesGrow
    BY <1>0, OneMoreElement, TablesThen
  <2> QED
    BY <1>0, <1>5, <2>1, <2>2 DEF Insert, TablesFit, TablesGrow
<1>6. ASSUME NEW k \in Key, Erase(k) PROVE TablesFit'
  <2>1. Cardinality(hashed \ {k}) <= Cardinality(hashed) /\ Cardinality(hashed \ {k}) \in Nat
    <3>1. IsFiniteSet(hashed) /\ Cardinality(hashed) \in Nat
      BY <1>0, OneMoreElement
    <3>2. IsFiniteSet(hashed \ {k})
      BY <3>1, FS_RemoveElement
    <3>3. Cardinality(hashed \ {k}) \in Nat
      BY <3>2, FS_CardinalityType
    <3>4. Cardinality(hashed \ {k}) = IF k \in hashed THEN Cardinality(hashed) - 1
                                     ELSE Cardinality(hashed)
      BY <3>1, FS_RemoveElement
    <3> QED
      BY <3>1, <3>3, <3>4
  <2>2. Len(Without(array, k)) <= Len(array) /\ Len(Without(array, k)) \in Nat
    BY <1>0, WithoutType
  <2>3. Cardinality(hashed) \in Nat
    BY <1>0, OneMoreElement
  <2> QED
    BY <1>0, <1>6, <2>1, <2>2, <2>3 DEF Erase, memory, room, TablesFit
<1>7. CASE Clear
  BY <1>0, <1>7, FS_EmptySet DEF Clear, memory, room, TablesFit
<1>8. CASE UNCHANGED vars
  BY <1>0, <1>8 DEF vars, memory, elements, room, TablesFit
<1> QED
  BY <1>1, <1>2, <1>3, <1>4, <1>5, <1>6, <1>7, <1>8 DEF Next

\* No allocation fails for one of the first N nodes: what it asks for is within the budget.
LEMMA CapacityPreserved == IInv /\ [Next]_vars => CapacityReported'
<1> SUFFICES ASSUME IInv, [Next]_vars PROVE CapacityReported'
  OBVIOUS
<1>0. /\ TypeOK /\ TablesFit /\ Accounts /\ CapacityReported
      /\ made \in Nat /\ used \in Nat /\ buckets \in Nat /\ capacity \in Nat
      /\ InitialBuckets \in Nat \ {0} /\ NodeWords \in Nat /\ Capacity \in Nat
      /\ ArenaWords \in Nat
      /\ (made + 1) * NodeWords = made * NodeWords + NodeWords /\ made * NodeWords \in Nat
  BY BudgetAssumption, ArenaIsNat, OneMoreNode DEF IInv, TypeOK
<1>a. made + 1 <= Capacity =>
        (made + 1) * NodeWords + 8 * (made + 1) + InitialBuckets + 1 <= ArenaWords
  BY <1>0, Budget
<1>1. ASSUME NEW k \in Key, InsertNoNode(k) PROVE CapacityReported'
  <2>1. used + NodeWords <= (made + 1) * NodeWords + 8 * (made + 1) + InitialBuckets + 1
    BY <1>0 DEF Accounts, TablesFit
  <2>2. used + NodeWords > ArenaWords
    BY <1>0, <1>1 DEF InsertNoNode, Fits
  <2>3. ~(made + 1 <= Capacity)
    BY <1>0, <1>a, <2>1, <2>2
  <2> QED
    BY <1>0, <1>1, <2>3 DEF InsertNoNode, memory, CapacityReported
<1>2. ASSUME NEW k \in Key, InsertRefused(k) PROVE CapacityReported'
  BY <1>0, <1>2 DEF InsertRefused, CapacityReported
<1>b. ASSUME NEW k \in Key
      PROVE  /\ used + NodeWords + BucketWords + ArrayWords
                  <= (made + 1) * NodeWords + 8 * (made + 1) + InitialBuckets + 1
             /\ BucketWords \in Nat /\ ArrayWords \in Nat
  <2>1. TablesGrow
    BY <1>0, TablesThen
  <2> QED
    BY <1>0, <2>1 DEF Accounts, TablesGrow
<1>3. ASSUME NEW k \in Key, InsertNoBuckets(k) PROVE CapacityReported'
  <2>1. used + NodeWords + BucketWords > ArenaWords
    BY <1>0, <1>3, <1>b DEF InsertNoBuckets, Fits
  <2> QED
    BY <1>0, <1>a, <1>b, <1>3, <2>1 DEF InsertNoBuckets, CapacityReported
<1>4. ASSUME NEW k \in Key, InsertNoArray(k) PROVE CapacityReported'
  <2>1. used + NodeWords + BucketWords + ArrayWords > ArenaWords
    BY <1>0, <1>4, <1>b DEF InsertNoArray, Fits
  <2> QED
    BY <1>0, <1>a, <1>b, <1>4, <2>1 DEF InsertNoArray, CapacityReported
<1>5. ASSUME NEW k \in Key, Insert(k) PROVE CapacityReported'
  BY <1>0, <1>5 DEF Insert, CapacityReported
<1>6. ASSUME NEW k \in Key, Erase(k) PROVE CapacityReported'
  BY <1>0, <1>6 DEF Erase, memory, CapacityReported
<1>7. CASE Clear
  BY <1>0, <1>7 DEF Clear, memory, CapacityReported
<1>8. CASE UNCHANGED vars
  BY <1>0, <1>8 DEF vars, memory, CapacityReported
<1> QED
  BY <1>1, <1>2, <1>3, <1>4, <1>5, <1>6, <1>7, <1>8 DEF Next

\* As long as fewer than N nodes have been allocated, another one and the tables it may
\* ask for are within the budget.
LEMMA RoomForOneMore == IInv => FullOnlyPastCapacity
<1> SUFFICES ASSUME IInv, made < Capacity
             PROVE  outcome # "capacity" /\ Fits(NodeWords + BucketWords + ArrayWords)
  BY DEF FullOnlyPastCapacity
<1>0. /\ TypeOK /\ TablesFit /\ Accounts /\ CapacityReported
      /\ made \in Nat /\ used \in Nat /\ buckets \in Nat /\ capacity \in Nat
      /\ InitialBuckets \in Nat \ {0} /\ NodeWords \in Nat /\ Capacity \in Nat
      /\ ArenaWords \in Nat
      /\ (made + 1) * NodeWords = made * NodeWords + NodeWords /\ made * NodeWords \in Nat
  BY BudgetAssumption, ArenaIsNat, OneMoreNode DEF IInv, TypeOK
<1>1. (made + 1) * NodeWords + 8 * (made + 1) + InitialBuckets + 1 <= ArenaWords
  BY <1>0, Budget
<1>2. /\ used + NodeWords + BucketWords + ArrayWords
            <= (made + 1) * NodeWords + 8 * (made + 1) + InitialBuckets + 1
      /\ BucketWords \in Nat /\ ArrayWords \in Nat
  <2>1. TablesGrow
    BY <1>0, TablesThen
  <2> QED
    BY <1>0, <2>1 DEF Accounts, TablesGrow
<1>3. used + (NodeWords + BucketWords + ArrayWords) <= ArenaWords
  BY <1>0, <1>1, <1>2
<1>4. outcome # "capacity"
  BY <1>0 DEF CapacityReported
<1> QED
  BY <1>3, <1>4 DEF Fits

\* A node takes at least a word of the arena, so size_ never comes near its range.
LEMMA ElementsPaidFor ==
  ASSUME IInv PROVE Len(array) \in Nat /\ used \in Nat /\ Len(array) <= used
<1>1. /\ made \in Nat /\ used \in Nat /\ buckets \in Nat /\ capacity \in Nat
      /\ Len(array) \in Nat /\ Len(array) <= made
      /\ InitialBuckets \in Nat /\ buckets >= InitialBuckets
  BY BudgetAssumption, ArenaIsNat DEF IInv, TypeOK, TablesFit
<1>2. 1 * made <= NodeWords * made /\ NodeWords * made = made * NodeWords
      /\ 1 * made = made /\ made * NodeWords \in Nat
  BY <1>1, Multiples, BudgetAssumption
<1> QED
  BY <1>1, <1>2 DEF IInv, Accounts

LEMMA InsertedFits ==
  ASSUME IInv, NEW k \in Key, Insert(k)
  PROVE  Len(array) + 1 < SizeRange
<1>1. Len(array) \in Nat /\ used \in Nat /\ Len(array) <= used
  BY ElementsPaidFor
<1>2. used + (NodeWords + BucketWords + ArrayWords) <= ArenaWords
  BY DEF Insert, Fits
<1>3. BucketWords \in Nat /\ ArrayWords \in Nat
  BY TablesThen DEF IInv, TablesGrow
<1> QED
  BY <1>1, <1>2, <1>3, BudgetAssumption, SizeAssumption, ArenaIsNat

\* A new element goes to the end of the array.
LEMMA InsertedMember ==
  ASSUME IInv, NEW k \in Key, Insert(k)
  PROVE  MembersAgree'
<1>1. MembersAgree /\ TypeOK
  BY DEF IInv
<1> DEFINE n == Len(array)
<1>2. /\ array \in Seq(Key) /\ n \in Nat
      /\ \A i \in 1..n : array[i] \in Key /\ array[i] # k
  BY <1>1 DEF MembersAgree, TypeOK, Insert
<1>3. /\ array' = Append(array, k) /\ Len(array') = n + 1 /\ array'[n + 1] = k
      /\ \A i \in 1..n : array'[i] = array[i]
  BY <1>2 DEF Insert
<1>4. {array'[i] : i \in 1..Len(array')} = tree' \ halfway'
  <2>1. {array'[i] : i \in 1..(n + 1)} = {array[i] : i \in 1..n} \cup {k}
    BY <1>2, <1>3
  <2>2. {array[i] : i \in 1..n} = tree \ halfway /\ k \notin halfway
    BY <1>1 DEF MembersAgree, Insert
  <2> QED
    BY <1>3, <2>1, <2>2 DEF Insert
<1>5. \A i, j \in 1..Len(array') : array'[i] = array'[j] => i = j
  BY <1>1, <1>2, <1>3 DEF MembersAgree
<1> QED
  BY <1>1, <1>4, <1>5 DEF MembersAgree, Insert

\* Erasing an element of the array closes the gap; one that is not in it changes nothing.
LEMMA ErasedMember ==
  ASSUME IInv, NEW k \in Key, Erase(k)
  PROVE  MembersAgree'
<1>1. MembersAgree /\ TypeOK
  BY DEF IInv
<1> DEFINE n == Len(array)
<1>2. /\ array \in Seq(Key) /\ n \in Nat
      /\ \A i, j \in 1..n : array[i] = array[j] => i = j
  BY <1>1 DEF MembersAgree, TypeOK
<1>3. CASE k \in halfway
  <2>1. ~ \E i \in 1..n : array[i] = k
    BY <1>1, <1>3 DEF MembersAgree
  <2>2. array' = array
    BY <2>1 DEF Erase, Without
  <2> QED
    BY <1>1, <1>3, <2>2 DEF MembersAgree, Erase
<1>4. CASE k \notin halfway
  <2>1. PICK at \in 1..n : array[at] = k
    BY <1>1, <1>4 DEF MembersAgree, Erase
  <2>2. array' = [i \in 1..(n - 1) |-> IF i < at THEN array[i] ELSE array[i + 1]]
    BY <1>2, <2>1, TakenOut DEF Erase
  <2>3. /\ n > 0 /\ Len(array') = n - 1
        /\ \A i \in 1..(n - 1) : array'[i] = IF i < at THEN array[i] ELSE array[i + 1]
    BY <1>2, <2>1, <2>2
  <2>4. {array'[i] : i \in 1..Len(array')} = tree' \ halfway'
    <3>1. {array'[i] : i \in 1..(n - 1)} = {array[i] : i \in 1..n} \ {k}
      <4>1. ASSUME NEW i \in 1..(n - 1) PROVE array'[i] \in {array[j] : j \in 1..n} \ {k}
        BY <1>2, <2>1, <2>3
      <4>2. ASSUME NEW j \in 1..n, array[j] # k PROVE \E i \in 1..(n - 1) : array'[i] = array[j]
        <5>1. CASE j < at
          BY <1>2, <2>1, <2>3, <5>1
        <5>2. CASE j > at
          <6>1. j - 1 \in 1..(n - 1) /\ ~(j - 1 < at) /\ (j - 1) + 1 = j
            BY <1>2, <2>1, <5>2
          <6> QED
            BY <2>3, <6>1
        <5> QED
          BY <2>1, <4>2, <5>1, <5>2
      <4> DEFINE left == {array'[i] : i \in 1..(n - 1)}
                 held == {array[i] : i \in 1..n} \ {k}
      <4>3. left \subseteq held
        BY <4>1
      <4>4. held \subseteq left
        <5>1. SUFFICES ASSUME NEW x \in held PROVE x \in left
          OBVIOUS
        <5>2. PICK j \in 1..n : x = array[j]
          OBVIOUS
        <5>3. array[j] # k
          BY <5>2
        <5>4. PICK i \in 1..(n - 1) : array'[i] = array[j]
          BY <4>2, <5>3
        <5> QED
          BY <5>2, <5>4
      <4> QED
        BY <4>3, <4>4
    <3> QED
      BY <1>1, <1>4, <2>3, <3>1 DEF MembersAgree, Erase
  <2>5. \A i, j \in 1..Len(array') : array'[i] = array'[j] => i = j
    BY <1>2, <2>1, <2>3
  <2> QED
    BY <1>1, <2>4, <2>5 DEF MembersAgree, Erase
<1> QED
  BY <1>3, <1>4

LEMMA MembersPreserved == IInv /\ [Next]_vars => MembersAgree'
<1> SUFFICES ASSUME IInv, [Next]_vars PROVE MembersAgree'
  OBVIOUS
<1>0. MembersAgree
  BY DEF IInv
<1>1. ASSUME NEW k \in Key, InsertNoNode(k) PROVE MembersAgree'
  BY <1>0, <1>1 DEF InsertNoNode, elements, MembersAgree
<1>2. ASSUME NEW k \in Key, InsertRefused(k) PROVE MembersAgree'
  BY <1>0, <1>2 DEF InsertRefused, elements, MembersAgree
<1>3. ASSUME NEW k \in Key, InsertNoBuckets(k) PROVE MembersAgree'
  BY <1>0, <1>3 DEF InsertNoBuckets, MembersAgree
<1>4. ASSUME NEW k \in Key, InsertNoArray(k) PROVE MembersAgree'
  BY <1>0, <1>4 DEF InsertNoArray, MembersAgree
<1>5. ASSUME NEW k \in Key, Insert(k) PROVE MembersAgree'
  BY <1>5, InsertedMember
<1>6. ASSUME NEW k \in Key, Erase(k) PROVE MembersAgree'
  BY <1>6, ErasedMember
<1>7. CASE Clear
  BY <1>7 DEF Clear, MembersAgree
<1>8. CASE UNCHANGED vars
  BY <1>0, <1>8 DEF vars, elements, MembersAgree
<1> QED
  BY <1>1, <1>2, <1>3, <1>4, <1>5, <1>6, <1>7, <1>8 DEF Next

\* A node that failed insertions left in the tree and the hash index is not in the array
\* or the registry, and nothing there changes.
LEMMA HalfwayKept ==
  ASSUME IInv, NEW k \in Key, k \notin tree,
         tree' = tree \cup {k}, hashed' = hashed \cup {k}, halfway' = halfway \cup {k},
         registry' = Constructed(k), UNCHANGED <<array, size, trampled>>
  PROVE  InsertedAreKept'
<1> SUFFICES ASSUME ~trampled PROVE InsertedAreKept'
  BY DEF InsertedAreKept
<1>1. InsertedAreKept /\ TypeOK
  BY DEF IInv
<1>2. array \in Seq(Key) /\ \A i \in 1..Len(array) : array[i] \in Key /\ array[i] # k
  BY <1>1 DEF InsertedAreKept, TypeOK
<1>3. ListedAs(array)'
  <2>1. ListedAs(array)
    BY <1>1 DEF InsertedAreKept
  <2>2. /\ registry'.head = registry.head /\ registry'.tail = registry.tail
        /\ \A m \in Key : m # k => /\ registry'.prev[m] = registry.prev[m]
                                   /\ registry'.next[m] = registry.next[m]
    BY <1>1 DEF Constructed, TypeOK
  <2> QED
    BY <1>2, <2>1, <2>2 DEF ListedAs
<1>4. {array[i] : i \in 1..Len(array)} = (tree \cup {k}) \ (halfway \cup {k})
  BY <1>1, <1>2 DEF InsertedAreKept
<1> QED
  BY <1>1, <1>3, <1>4 DEF InsertedAreKept

\* A new element goes to the end of the array and of the registry.
LEMMA InsertedKept ==
  ASSUME IInv, NEW k \in Key, Insert(k)
  PROVE  InsertedAreKept'
<1> SUFFICES ASSUME ~trampled PROVE InsertedAreKept'
  BY DEF Insert, InsertedAreKept
<1>1. InsertedAreKept /\ TypeOK
  BY DEF IInv
<1> DEFINE n == Len(array)
<1>2. /\ array \in Seq(Key) /\ n \in Nat
      /\ \A i \in 1..n : array[i] \in Key /\ array[i] # k /\ array[i] # Nil
  BY <1>1, KeyAssumption DEF InsertedAreKept, TypeOK, Insert
<1>3. /\ array' = Append(array, k) /\ Len(array') = n + 1 /\ array'[n + 1] = k
      /\ \A i \in 1..n : array'[i] = array[i]
  BY <1>2 DEF Insert
<1>4. size' = Len(array')
  <2>1. n + 1 < SizeRange /\ size = n
    BY <1>1, InsertedFits DEF InsertedAreKept
  <2>2. size' = (n + 1) % SizeRange
    BY <2>1 DEF Insert
  <2> QED
    BY <1>2, <1>3, <2>1, <2>2, SizeAssumption, ArenaIsNat
<1>5. MembersAgree'
  BY InsertedMember
<1>6. ListedAs(array)'
  <2> DEFINE new == Constructed(k)
             last == IF n = 0 THEN Nil ELSE array[n]
             with == [new EXCEPT !.prev[k] = last, !.next[k] = Nil]
  <2>1. ListedAs(array) /\ registry.tail = last
    BY <1>1, <1>2 DEF InsertedAreKept, ListedAs
  <2>2. registry' = SetPrev(SetNext(with, last, k), Nil, k)
    <3>1. new.tail = last
      BY <1>1, <2>1 DEF Constructed, TypeOK
    <3> HIDE DEF new, last
    <3>2. PushedBack(new, k) = SetPrev(SetNext(with, last, k), Nil, k)
      BY <3>1 DEF PushedBack, Linked
    <3> QED
      BY <3>2 DEF Insert, new
  <2>3. /\ with.head = registry.head /\ with.tail = last
        /\ with.prev[k] = last /\ with.next[k] = Nil
        /\ \A m \in Key : m # k => /\ with.prev[m] = registry.prev[m]
                                   /\ with.next[m] = registry.next[m]
        /\ with \in [ head : Key \cup {Nil}, tail : Key \cup {Nil},
                      prev : [Key -> Key \cup {Nil}], next : [Key -> Key \cup {Nil}] ]
    BY <1>1, <1>2, <2>1 DEF Constructed, TypeOK
  <2> HIDE DEF with
  <2>4. CASE n = 0
    <3>1. registry'.head = k /\ registry'.tail = k
          /\ registry'.prev[k] = Nil /\ registry'.next[k] = Nil
      BY <2>2, <2>3, <2>4, KeyAssumption DEF SetNext, SetPrev
    <3> QED
      BY <1>3, <2>4, <3>1 DEF ListedAs
  <2>5. CASE n > 0
    <3>1. /\ last = array[n] /\ last \in Key /\ last # k /\ last # Nil
      BY <1>2, <2>5
    <3>2. /\ registry'.head = registry.head /\ registry'.tail = k
          /\ registry'.prev = with.prev /\ registry'.next = [with.next EXCEPT ![last] = k]
      BY <2>2, <2>3, <3>1 DEF SetNext, SetPrev
    <3>3. /\ registry'.prev[k] = array[n] /\ registry'.next[k] = Nil
          /\ \A i \in 1..n : /\ registry'.prev[array[i]] = registry.prev[array[i]]
                             /\ registry'.next[array[i]] =
                                   IF i = n THEN k ELSE registry.next[array[i]]
      <4>1. \A i \in 1..n : array[i] = last => i = n
        BY <1>1, <1>2, <2>5, <3>1 DEF InsertedAreKept
      <4> QED
        BY <1>2, <2>3, <2>5, <3>1, <3>2, <4>1
    <3> QED
      BY <1>2, <1>3, <2>1, <2>5, <3>2, <3>3 DEF ListedAs
  <2> QED
    BY <1>2, <2>4, <2>5
<1> QED
  BY <1>1, <1>4, <1>5, <1>6 DEF InsertedAreKept, MembersAgree, Insert

\* Erasing an element of the registry closes the gap there and in the array.
LEMMA ErasedKept ==
  ASSUME IInv, NEW k \in Key, Erase(k)
  PROVE  InsertedAreKept'
<1> SUFFICES ASSUME ~trampled, k \notin halfway PROVE InsertedAreKept'
  BY DEF Erase, InsertedAreKept
<1>1. InsertedAreKept /\ TypeOK
  BY DEF IInv
<1> DEFINE n == Len(array)
<1>2. /\ array \in Seq(Key) /\ n \in Nat
      /\ \A i \in 1..n : array[i] \in Key /\ array[i] # Nil
      /\ \A i, j \in 1..n : array[i] = array[j] => i = j
  BY <1>1, KeyAssumption DEF InsertedAreKept, TypeOK
<1>3. PICK at \in 1..n : array[at] = k
  BY <1>1 DEF InsertedAreKept, Erase
<1>4. array' = [i \in 1..(n - 1) |-> IF i < at THEN array[i] ELSE array[i + 1]]
  BY <1>2, <1>3, TakenOut DEF Erase
<1>5. /\ n > 0 /\ Len(array') = n - 1
      /\ \A i \in 1..(n - 1) : array'[i] = IF i < at THEN array[i] ELSE array[i + 1]
  BY <1>2, <1>3, <1>4
<1>6. size' = Len(array')
  BY <1>1, <1>2, <1>5 DEF InsertedAreKept, Erase
<1>7. MembersAgree'
  BY ErasedMember
<1>8. ListedAs(array)'
  <2> DEFINE before == IF at = 1 THEN Nil ELSE array[at - 1]
             after == IF at = n THEN Nil ELSE array[at + 1]
  <2>1. ListedAs(array) /\ registry.prev[k] = before /\ registry.next[k] = after
    BY <1>1, <1>3 DEF InsertedAreKept, ListedAs
  <2>2. registry' = SetPrev(SetNext(registry, before, after), after, before)
    BY <2>1 DEF Erase, Unlinked
  <2>3. /\ registry'.head = IF at = 1 THEN after ELSE registry.head
        /\ registry'.tail = IF at = n THEN before ELSE registry.tail
        /\ \A m \in Key : /\ registry'.next[m] = IF m = before THEN after ELSE registry.next[m]
                          /\ registry'.prev[m] = IF m = after THEN before ELSE registry.prev[m]
    <3>1. (before = Nil <=> at = 1) /\ (after = Nil <=> at = n)
      BY <1>2, <1>3
    <3> HIDE DEF before, after
    <3> QED
      BY <1>1, <2>2, <3>1, KeyAssumption DEF SetNext, SetPrev, TypeOK
  <2>4. \A i \in 1..n : /\ array[i] = before <=> i = at - 1
                        /\ array[i] = after <=> i = at + 1
    BY <1>2, <1>3
  <2>5. registry'.head = IF n - 1 = 0 THEN Nil ELSE array'[1]
    BY <1>2, <1>3, <1>5, <2>1, <2>3 DEF ListedAs
  <2>6. registry'.tail = IF n - 1 = 0 THEN Nil ELSE array'[n - 1]
    BY <1>2, <1>3, <1>5, <2>1, <2>3 DEF ListedAs
  <2>7. \A i \in 1..n : i # at =>
          /\ registry'.prev[array[i]] =
                IF i = at + 1 THEN before ELSE IF i = 1 THEN Nil ELSE array[i - 1]
          /\ registry'.next[array[i]] =
                IF i = at - 1 THEN after ELSE IF i = n THEN Nil ELSE array[i + 1]
    <3> HIDE DEF before, after
    <3>1. \A i \in 1..n : /\ registry.prev[array[i]] = IF i = 1 THEN Nil ELSE array[i - 1]
                          /\ registry.next[array[i]] = IF i = n THEN Nil ELSE array[i + 1]
      BY <2>1 DEF ListedAs
    <3>2. \A i \in 1..n : i # at =>
            /\ registry'.prev[array[i]] =
                  IF array[i] = after THEN before ELSE registry.prev[array[i]]
            /\ registry'.next[array[i]] =
                  IF array[i] = before THEN after ELSE registry.next[array[i]]
      BY <1>2, <2>3
    <3> QED
      BY <2>4, <3>1, <3>2
  <2>8. \A i \in 1..(n - 1) :
          /\ registry'.prev[array'[i]] = IF i = 1 THEN Nil ELSE array'[i - 1]
          /\ registry'.next[array'[i]] = IF i = n - 1 THEN Nil ELSE array'[i + 1]
    <3> SUFFICES ASSUME NEW i \in 1..(n - 1)
                 PROVE  /\ registry'.prev[array'[i]] = IF i = 1 THEN Nil ELSE array'[i - 1]
                        /\ registry'.next[array'[i]] = IF i = n - 1 THEN Nil ELSE array'[i + 1]
      OBVIOUS
    <3>1. CASE i < at
      <4>1. i \in 1..n /\ i # at /\ array'[i] = array[i]
        BY <1>2, <1>3, <1>5, <3>1
      <4>2. registry'.prev[array'[i]] = IF i = 1 THEN Nil ELSE array'[i - 1]
        <5>1. registry'.prev[array[i]] = IF i = 1 THEN Nil ELSE array[i - 1]
          BY <1>2, <1>3, <2>7, <3>1, <4>1
        <5> QED
          BY <1>2, <1>3, <1>5, <3>1, <4>1, <5>1
      <4>3. registry'.next[array'[i]] = IF i = n - 1 THEN Nil ELSE array'[i + 1]
        <5>1. registry'.next[array[i]] =
                IF i = at - 1 THEN after ELSE IF i = n THEN Nil ELSE array[i + 1]
          BY <2>7, <4>1
        <5>2. CASE i = at - 1
          BY <1>2, <1>3, <1>5, <4>1, <5>1, <5>2
        <5>3. CASE i < at - 1
          BY <1>2, <1>3, <1>5, <4>1, <5>1, <5>3
        <5> QED
          BY <1>3, <3>1, <5>2, <5>3
      <4> QED
        BY <4>2, <4>3
    <3>2. CASE i >= at
      BY <1>2, <1>3, <1>5, <2>7, <3>2
    <3> QED
      BY <1>3, <3>1, <3>2
  <2> QED
    BY <1>5, <2>5, <2>6, <2>8 DEF ListedAs
<1> QED
  BY <1>1, <1>6, <1>7, <1>8 DEF InsertedAreKept, MembersAgree, Erase

LEMMA KeptPreserved == IInv /\ [Next]_vars => InsertedAreKept'
<1> SUFFICES ASSUME IInv, [Next]_vars PROVE InsertedAreKept'
  OBVIOUS
<1>0. InsertedAreKept
  BY DEF IInv
<1>1. ASSUME NEW k \in Key, InsertNoNode(k) PROVE InsertedAreKept'
  BY <1>0, <1>1 DEF InsertNoNode, elements, InsertedAreKept, ListedAs
<1>2. ASSUME NEW k \in Key, InsertRefused(k) PROVE InsertedAreKept'
  BY <1>0, <1>2 DEF InsertRefused, elements, InsertedAreKept, ListedAs
<1>3. ASSUME NEW k \in Key, InsertNoBuckets(k) PROVE InsertedAreKept'
  BY <1>3, HalfwayKept DEF InsertNoBuckets
<1>4. ASSUME NEW k \in Key, InsertNoArray(k) PROVE InsertedAreKept'
  BY <1>4, HalfwayKept DEF InsertNoArray
<1>5. ASSUME NEW k \in Key, Insert(k) PROVE InsertedAreKept'
  BY <1>5, InsertedKept
<1>6. ASSUME NEW k \in Key, Erase(k) PROVE InsertedAreKept'
  BY <1>6, ErasedKept
<1>7. CASE Clear
  <2>1. array' = <<>> /\ Len(array') = 0
    BY <1>7 DEF Clear
  <2>2. registry'.head = Nil /\ registry'.tail = Nil
    BY <1>7 DEF Clear, IInv, TypeOK
  <2> QED
    BY <1>7, <2>1, <2>2 DEF Clear, InsertedAreKept, ListedAs
<1>8. CASE UNCHANGED vars
  BY <1>0, <1>8 DEF vars, elements, InsertedAreKept, ListedAs
<1> QED
  BY <1>1, <1>2, <1>3, <1>4, <1>5, <1>6, <1>7, <1>8 DEF Next

-----------------------------------------------------------------------------
(* size() and the audit.                                                   *)

\* Every node was paid for with a word of the arena at least.
LEMMA NodesPaidFor ==
  ASSUME IInv
  PROVE  /\ made \in Nat /\ made < SizeRange /\ SizeRange \in Nat
         /\ Len(array) \in Nat /\ IsFiniteSet(halfway) /\ Cardinality(halfway) \in Nat
<1>1. /\ made \in Nat /\ used \in Nat /\ used <= ArenaWords
      /\ buckets \in Nat /\ capacity \in Nat
      /\ InitialBuckets \in Nat /\ buckets >= InitialBuckets
  BY BudgetAssumption, ArenaIsNat DEF IInv, TypeOK, TablesFit
<1>2. 1 * made <= NodeWords * made /\ NodeWords * made = made * NodeWords
      /\ 1 * made = made /\ made * NodeWords \in Nat
  BY <1>1, Multiples, BudgetAssumption
<1>3. made <= used
  BY <1>1, <1>2 DEF IInv, Accounts
<1>4. IsFiniteSet(halfway) /\ Cardinality(halfway) \in Nat /\ Len(array) \in Nat
  BY KeyAssumption, FS_Subset, FS_CardinalityType DEF IInv, TypeOK
<1> QED
  BY <1>1, <1>3, <1>4, SizeAssumption, ArenaIsNat

\* What is left half way and counted by no index of size().
LEMMA SizePreserved == IInv /\ [Next]_vars => SizeOffBy'
<1> SUFFICES ASSUME IInv, [Next]_vars PROVE SizeOffBy'
  OBVIOUS
<1>0. /\ made \in Nat /\ made < SizeRange /\ SizeRange \in Nat /\ Len(array) \in Nat
      /\ IsFiniteSet(halfway) /\ Cardinality(halfway) \in Nat
  BY NodesPaidFor
<1>a. PICK e \in 0..made : Uncounted(e)
  BY DEF IInv, SizeOffBy
<1>b. ASSUME NEW k \in Key, halfway' = halfway \cup {k}, made' = made + 1,
             UNCHANGED <<array, size, trampled>>
      PROVE  SizeOffBy'
  <2>1. Cardinality(halfway') <= Cardinality(halfway) + 1 /\ Cardinality(halfway') \in Nat
    <3>1. Cardinality(halfway \cup {k}) =
            IF k \in halfway THEN Cardinality(halfway) ELSE Cardinality(halfway) + 1
      BY <1>0, FS_AddElement
    <3> QED
      BY <1>0, <1>b, <3>1
  <2>2. e \in 0..made' /\ Uncounted(e)'
    BY <1>0, <1>a, <1>b, <2>1 DEF Uncounted
  <2> QED
    BY <2>2 DEF SizeOffBy
<1>1. ASSUME NEW k \in Key, InsertNoNode(k) PROVE SizeOffBy'
  BY <1>a, <1>1 DEF InsertNoNode, memory, elements, SizeOffBy, Uncounted
<1>2. ASSUME NEW k \in Key, InsertRefused(k) PROVE SizeOffBy'
  <2>1. e \in 0..made' /\ Uncounted(e)'
    BY <1>0, <1>a, <1>2 DEF InsertRefused, elements, Uncounted
  <2> QED
    BY <2>1 DEF SizeOffBy
<1>3. ASSUME NEW k \in Key, InsertNoBuckets(k) PROVE SizeOffBy'
  BY <1>b, <1>3 DEF InsertNoBuckets
<1>4. ASSUME NEW k \in Key, InsertNoArray(k) PROVE SizeOffBy'
  BY <1>b, <1>4 DEF InsertNoArray
<1>5. ASSUME NEW k \in Key, Insert(k) PROVE SizeOffBy'
  <2>1. Len(array') = Len(array) + 1 /\ made' = made + 1
    BY <1>5 DEF Insert, IInv, TypeOK
  <2>2. size' = IF e <= Len(array') THEN Len(array') - e ELSE Len(array') + SizeRange - e
    <3>1. size' = (size + 1) % SizeRange
      BY <1>5 DEF Insert
    <3>2. CASE e <= Len(array)
      <4>1. size + 1 = Len(array') - e /\ size + 1 \in 0..(SizeRange - 1)
        <5>1. Len(array') < SizeRange
          BY <1>5, <2>1, InsertedFits
        <5> QED
          BY <1>0, <1>a, <2>1, <3>2, <5>1 DEF Uncounted
      <4> QED
        BY <1>0, <2>1, <3>1, <3>2, <4>1
    <3>3. CASE e = Len(array) + 1
      <4>1. size + 1 = SizeRange
        BY <1>0, <1>a, <3>3 DEF Uncounted
      <4> QED
        BY <1>0, <2>1, <3>1, <3>3, <4>1
    <3>4. CASE e > Len(array) + 1
      <4>1. size + 1 = Len(array') + SizeRange - e /\ size + 1 \in 0..(SizeRange - 1)
        BY <1>0, <1>a, <2>1, <3>4 DEF Uncounted
      <4> QED
        BY SMTT(30), <1>0, <2>1, <3>1, <3>4, <4>1
    <3> QED
      BY <1>0, <3>2, <3>3, <3>4
  <2>3. e \in 0..made'
    BY <1>0, <1>a, <2>1
  <2>4. Uncounted(e)'
    <3>1. halfway' = halfway /\ trampled' = trampled
      BY <1>5 DEF Insert
    <3>2. e + Cardinality(halfway) + Len(array') <= made'
      BY <1>0, <1>a, <2>1 DEF Uncounted
    <3>3. trampled <=> e # 0
      BY <1>a DEF Uncounted
    <3> QED
      BY <2>2, <3>1, <3>2, <3>3 DEF Uncounted
  <2> QED
    BY <2>3, <2>4 DEF SizeOffBy
<1>6. ASSUME NEW k \in Key, Erase(k) PROVE SizeOffBy'
  <2>0. /\ MembersAgree /\ array \in Seq(Key) /\ made' = made
        /\ size' = IF size = 0 THEN SizeRange - 1 ELSE size - 1
        /\ halfway' = halfway \ {k} /\ trampled' = (trampled \/ k \in halfway)
        /\ array' = Without(array, k)
    BY <1>6 DEF IInv, TypeOK, Erase, memory
  <2>1. CASE k \in halfway
    <3>1. array' = array
      BY <2>0, <2>1 DEF MembersAgree, Without
    <3>2. Cardinality(halfway') = Cardinality(halfway) - 1
      BY <1>0, <2>0, <2>1, FS_RemoveElement
    <3>3. e + 1 \in 0..made
      BY <1>0, <1>a, <3>2, <2>0, <2>1, FS_CardinalityType, FS_RemoveElement DEF Uncounted
    <3>4. size' = IF e + 1 <= Len(array) THEN Len(array) - (e + 1)
                  ELSE Len(array) + SizeRange - (e + 1)
      BY <1>0, <1>a, <2>0 DEF Uncounted
    <3>5. Uncounted(e + 1)'
      <4>1. trampled'
        BY <2>0, <2>1
      <4>0. e + 1 # 0
        BY <1>0, <1>a
      <4>2. e + 1 + Cardinality(halfway') + Len(array') <= made'
        BY <1>0, <1>a, <2>0, <3>1, <3>2 DEF Uncounted
      <4> QED
        BY <3>1, <3>4, <4>0, <4>1, <4>2 DEF Uncounted
    <3> QED
      BY <2>0, <3>3, <3>5 DEF SizeOffBy
  <2>2. CASE k \notin halfway
    <3>1. PICK at \in 1..Len(array) : array[at] = k
      BY <1>6, <2>0, <2>2 DEF MembersAgree, Erase
    <3>2. Len(array') = Len(array) - 1
      <4>1. array' = [i \in 1..(Len(array) - 1) |-> IF i < at THEN array[i] ELSE array[i + 1]]
        BY <2>0, <3>1, TakenOut DEF MembersAgree
      <4> QED
        BY <1>0, <3>1, <4>1
    <3>3. halfway' = halfway /\ (trampled' <=> trampled)
      BY <2>0, <2>2
    <3>4. size' = IF e <= Len(array) - 1 THEN Len(array) - 1 - e
                  ELSE Len(array) - 1 + SizeRange - e
      BY <1>0, <1>a, <2>0, <3>1 DEF Uncounted
    <3>5. Uncounted(e)'
      <4>1. e + Cardinality(halfway') + Len(array') <= made'
        <5>1. Cardinality(halfway') = Cardinality(halfway) /\ made' = made
          BY <2>0, <3>3, Zenon
        <5> QED
          BY <1>0, <1>a, <3>2, <5>1 DEF Uncounted
      <4>2. trampled' <=> e # 0
        BY <1>a, <3>3 DEF Uncounted
      <4> QED
        BY <3>2, <3>4, <4>1, <4>2 DEF Uncounted
    <3> QED
      BY <2>0, <3>5 DEF SizeOffBy
  <2> QED
    BY <2>1, <2>2
<1>7. CASE Clear
  <2>1. Uncounted(0)'
    BY <1>0, <1>7, FS_EmptySet DEF Clear, memory, Uncounted
  <2> QED
    BY <1>0, <1>7, <2>1 DEF Clear, memory, SizeOffBy
<1>8. CASE UNCHANGED vars
  BY <1>a, <1>8 DEF vars, memory, elements, SizeOffBy, Uncounted
<1> QED
  BY <1>1, <1>2, <1>3, <1>4, <1>5, <1>6, <1>7, <1>8 DEF Next

\* The pointers in the array are as many as the nodes they address.
LEMMA MembersCounted ==
  ASSUME IInv
  PROVE  /\ IsFiniteSet(tree) /\ Cardinality(tree) = Len(array) + Cardinality(halfway)
<1>1. /\ array \in Seq(Key) /\ Len(array) \in Nat /\ MembersAgree
      /\ tree \subseteq Key /\ halfway \subseteq tree
  BY DEF IInv, TypeOK, MembersAgree
<1>2. IsFiniteSet(tree) /\ IsFiniteSet(halfway)
  BY <1>1, KeyAssumption, FS_Subset
<1> DEFINE listed == tree \ halfway
<1>3. array \in Bijection(1..Len(array), listed)
  BY <1>1 DEF MembersAgree, Bijection, Injection, Surjection, IsInjective
<1>4. Cardinality(listed) = Len(array)
  <2>1. IsFiniteSet(1..Len(array)) /\ Cardinality(1..Len(array)) = Len(array)
    BY SMTT(30), <1>1, FS_Interval
  <2>2. ExistsBijection(1..Len(array), listed)
    BY <1>3 DEF ExistsBijection
  <2> QED
    BY <2>1, <2>2, FS_Bijection, <1>2, FS_Subset, FS_SameCardinalityBij
<1>5. Cardinality(tree \ halfway) = Cardinality(tree) - Cardinality(tree \cap halfway)
  BY <1>2, FS_Difference
<1>6. Cardinality(tree \cap halfway) = Cardinality(halfway)
  <2>1. tree \cap halfway = halfway
    BY <1>1
  <2> QED
    BY <2>1, Zenon
<1>7. Cardinality(tree) \in Nat /\ Cardinality(halfway) \in Nat
  BY <1>2, FS_CardinalityType
<1> QED
  BY <1>1, <1>2, <1>4, <1>5, <1>6, <1>7

\* An index is short of size() elements or has more, in one of the two ways.
LEMMA AuditExact == IInv => AuditFindsLeftovers
<1> SUFFICES ASSUME IInv PROVE AuditFindsLeftovers
  OBVIOUS
<1>0. /\ made \in Nat /\ made < SizeRange /\ SizeRange \in Nat /\ Len(array) \in Nat
      /\ IsFiniteSet(halfway) /\ Cardinality(halfway) \in Nat
  BY NodesPaidFor
<1>1. PICK e \in 0..made : Uncounted(e)
  BY DEF IInv, SizeOffBy
<1>2. Cardinality(tree) = Len(array) + Cardinality(halfway) /\ hashed = tree
  BY MembersCounted DEF IInv, MembersAgree
<1>3. /\ "by_id" \in Audit <=> size # Cardinality(tree)
      /\ "by_hash" \in Audit <=> size # Cardinality(hashed)
      /\ "array" \in Audit <=> size # Len(array)
      /\ Audit \subseteq {"by_id", "by_hash", "array"}
  BY DEF Audit
<1>4. halfway = {} <=> Cardinality(halfway) = 0
  BY <1>0, FS_EmptySet
<1>5. size = Len(array) <=> e = 0
  BY <1>0, <1>1 DEF Uncounted
<1>6. trampled <=> e # 0
  BY <1>1 DEF Uncounted
<1>7. Audit = {} <=> size = Cardinality(tree) /\ size = Len(array)
  BY <1>2, <1>3
<1>8. Audit = {} <=> halfway = {} /\ ~trampled
  BY <1>0, <1>2, <1>4, <1>5, <1>6, <1>7
<1>9. ASSUME ~trampled, halfway # {}
      PROVE  Audit = {"by_id", "by_hash"}
  <2>1. size = Len(array) /\ size # Cardinality(tree) /\ size # Cardinality(hashed)
    BY <1>0, <1>2, <1>4, <1>5, <1>6, <1>9
  <2>2. "by_id" \in Audit /\ "by_hash" \in Audit /\ "array" \notin Audit
    BY <1>3, <2>1
  <2> QED
    BY <1>3, <2>2
<1> QED
  BY <1>8, <1>9 DEF AuditFindsLeftovers

-----------------------------------------------------------------------------

\* Everything below follows from the inductive invariant.
THEOREM Inductive == Spec => []IInv
<1>1. IInv /\ [Next]_vars => IInv'
  BY TypePreserved, AccountsPreserved, TablesPreserved, CapacityPreserved,
     MembersPreserved, SizePreserved, KeptPreserved DEF IInv
<1> QED
  BY <1>1, InitIInv, PTL DEF Spec

\* The sizes, counters and links always have their types, and no allocation takes the
\* arena beyond its end.
THEOREM TypeCorrect == Spec => []TypeOK
  BY Inductive, PTL DEF IInv

\* The first N insertions into a static_multi_index never fail for want of memory
\* (multi_index.hpp:1826-1877), refused and erased elements counted among the N.
THEOREM HoldsItsCapacity == Spec => []FullOnlyPastCapacity
  BY Inductive, RoomForOneMore, PTL

\* Insertions that fail for want of memory do not harm the elements that are in the
\* container: every index, the registry and size() go on agreeing about them until an
\* element is erased that such an insertion left behind.
THEOREM ElementsSurviveFailures == Spec => []InsertedAreKept
  BY Inductive, PTL DEF IInv

\* The audit reports every container in which a failed insertion left a node linked,
\* until it is cleared, and no other; before such a node is erased it names the indices
\* that hold it.  Erasing one does not silence it: size() is then short of one that is
\* counted nowhere, and it would take as many of them as a std::size_t has values for
\* the difference to vanish, more than the arena can hold.
THEOREM AuditIsExact == Spec => []AuditFindsLeftovers
  BY Inductive, AuditExact, PTL
=============================================================================
