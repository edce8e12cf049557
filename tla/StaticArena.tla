----------------------------- MODULE StaticArena -----------------------------
(***************************************************************************)
(* static_multi_index with three indices, ordered_unique by_id,            *)
(* hashed_non_unique and random_access: every allocation is served from an *)
(* arena in the object, which takes nothing back.                          *)
(*                                                                         *)
(* An insertion allocates up to three times: the node, a larger bucket     *)
(* array once the hashed index has linked the node, and a larger pointer   *)
(* array.  When the second or the third fails, the exception leaves the    *)
(* node in the indices it had reached and outside the registry, and        *)
(* try_insert reports capacity_exceeded.                                   *)
(*                                                                         *)
(* An element is named by its id, unique among the nodes that are linked.  *)
(* Memory is counted in words of eight bytes.                              *)
(***************************************************************************)
EXTENDS Integers, FiniteSets, Sequences, LinkedList

CONSTANTS
  Key,             \* the ids
  Capacity,        \* N
  NodeWords,       \* a node
  ElementWords,    \* what the arena holds per element of its capacity
  Slack,           \* and in addition
  InitialBuckets,  \* of a hashed index
  SizeRange        \* size_ is a number modulo this

ASSUME KeyAssumption == IsFiniteSet(Key) /\ Nil \notin Key
ASSUME BudgetAssumption ==
  /\ Capacity \in Nat /\ InitialBuckets \in Nat \ {0} /\ Slack \in Nat
  /\ NodeWords \in Nat \ {0} /\ ElementWords \in Nat
  /\ ElementWords >= NodeWords + 8
  /\ Slack >= InitialBuckets + 1

ArenaWords == Capacity * ElementWords + Slack

\* The size of the arena is itself a std::size_t.
ASSUME SizeAssumption == SizeRange \in Nat /\ SizeRange > ArenaWords

VARIABLES
  used,       \* the words handed out
  made,       \* the nodes allocated so far
  tree,       \* the nodes linked in the ordered index
  hashed,     \* the nodes linked in the hashed index
  buckets,    \* the size of its bucket array
  array,      \* the node pointers of the random access index
  capacity,   \* c.capacity()
  registry,   \* rhead_, rtail_ and the registry's links
  size,       \* size_
  outcome,    \* what the last insertion returned
  halfway,    \* the nodes failed insertions left in some of the indices
  trampled    \* one of those was erased, through a registry it was not in

memory == <<used, made>>
elements == <<tree, hashed, array, registry, size>>
room == <<buckets, capacity>>
vars == <<memory, elements, room, outcome, halfway, trampled>>

-----------------------------------------------------------------------------
(* Allocation.                                                             *)

Fits(words) == used + words <= ArenaWords

\* Mutant: the table grows at every insertion.
AlwaysCrowded(n) == TRUE

\* n_ > max_lf_ * buckets_.size(), at the default max_load_factor
Crowded(n) == n > buckets

\* The words of the bucket array an insertion allocates, if it does.
BucketWords == IF Crowded(Cardinality(hashed) + 1) THEN 2 * buckets ELSE 0
BucketsThen == IF Crowded(Cardinality(hashed) + 1) THEN 2 * buckets ELSE buckets

\* push_back doubles a full vector.
ArrayFull == Len(array) = capacity
Doubled == IF capacity = 0 THEN 1 ELSE 2 * capacity
ArrayWords == IF ArrayFull THEN Doubled ELSE 0
CapacityThen == IF ArrayFull THEN Doubled ELSE capacity

-----------------------------------------------------------------------------

Init ==
  \* The core is moved into the container, and the one it is moved from is given
  \* one bucket of its own, from the same arena.
  /\ used = InitialBuckets + 1
  /\ made = 0
  /\ tree = {} /\ hashed = {} /\ buckets = InitialBuckets
  /\ array = <<>> /\ capacity = 0
  /\ registry = NoLinks(Key)
  /\ size = 0
  /\ outcome = "none" /\ halfway = {} /\ trampled = FALSE

\* The registry's links with those of a node that has just been constructed.
Constructed(k) == [registry EXCEPT !.prev[k] = Nil, !.next[k] = Nil]

InsertNoNode(k) ==
  /\ ~Fits(NodeWords)
  /\ outcome' = "capacity"
  /\ UNCHANGED <<memory, elements, room, halfway, trampled>>

\* by_id refuses the node; its memory is not taken back.
InsertRefused(k) ==
  /\ Fits(NodeWords) /\ k \in tree
  /\ used' = used + NodeWords /\ made' = made + 1
  /\ outcome' = "duplicate"
  /\ UNCHANGED <<elements, room, halfway, trampled>>

\* The node is linked in the tree and in its bucket when the table cannot grow.
InsertNoBuckets(k) ==
  /\ Fits(NodeWords) /\ k \notin tree /\ ~Fits(NodeWords + BucketWords)
  /\ used' = used + NodeWords /\ made' = made + 1
  /\ tree' = tree \cup {k} /\ hashed' = hashed \cup {k}
  /\ registry' = Constructed(k)
  /\ outcome' = "capacity" /\ halfway' = halfway \cup {k}
  /\ UNCHANGED <<array, size, room, trampled>>

\* The table has grown when the array cannot.
InsertNoArray(k) ==
  /\ k \notin tree /\ Fits(NodeWords + BucketWords)
  /\ ~Fits(NodeWords + BucketWords + ArrayWords)
  /\ used' = used + NodeWords + BucketWords /\ made' = made + 1
  /\ tree' = tree \cup {k} /\ hashed' = hashed \cup {k} /\ buckets' = BucketsThen
  /\ registry' = Constructed(k)
  /\ outcome' = "capacity" /\ halfway' = halfway \cup {k}
  /\ UNCHANGED <<array, capacity, size, trampled>>

Insert(k) ==
  /\ k \notin tree /\ Fits(NodeWords + BucketWords + ArrayWords)
  /\ used' = used + NodeWords + BucketWords + ArrayWords /\ made' = made + 1
  /\ tree' = tree \cup {k} /\ hashed' = hashed \cup {k} /\ buckets' = BucketsThen
  /\ array' = Append(array, k) /\ capacity' = CapacityThen
  /\ registry' = PushedBack(Constructed(k), k)
  /\ size' = (size + 1) % SizeRange
  /\ outcome' = "inserted"
  /\ UNCHANGED <<halfway, trampled>>

\* std::find from begin(), and the gap is closed.
Without(s, k) ==
  IF \E i \in 1..Len(s) : s[i] = k
  THEN LET at == CHOOSE i \in 1..Len(s) : s[i] = k /\ \A j \in 1..(i - 1) : s[j] # k
       IN  [i \in 1..(Len(s) - 1) |-> IF i < at THEN s[i] ELSE s[i + 1]]
  ELSE s

\* Mutant: the element stays in the array.
EraseKeepingPointer(k) ==
  /\ k \in tree
  /\ tree' = tree \ {k} /\ hashed' = hashed \ {k}
  /\ registry' = Unlinked(registry, k)
  /\ size' = IF size = 0 THEN SizeRange - 1 ELSE size - 1
  /\ halfway' = halfway \ {k} /\ trampled' = (trampled \/ k \in halfway)
  /\ UNCHANGED <<memory, array, room, outcome>>

\* An element found by its id is erased, one an insertion left behind included.
Erase(k) ==
  /\ k \in tree
  /\ tree' = tree \ {k} /\ hashed' = hashed \ {k} /\ array' = Without(array, k)
  /\ registry' = Unlinked(registry, k)
  /\ size' = IF size = 0 THEN SizeRange - 1 ELSE size - 1
  /\ halfway' = halfway \ {k} /\ trampled' = (trampled \/ k \in halfway)
  /\ UNCHANGED <<memory, room, outcome>>

Clear ==
  /\ tree' = {} /\ hashed' = {} /\ array' = <<>>
  /\ registry' = [registry EXCEPT !.head = Nil, !.tail = Nil]
  /\ size' = 0
  /\ halfway' = {} /\ trampled' = FALSE
  /\ UNCHANGED <<memory, room, outcome>>

\* Mutant: an audit of one index only.
AuditArray == {i \in {"array"} : Len(array) # size}

\* audit(): the indices in which not size() elements are reached.
Audit ==
  {i \in {"by_id", "by_hash", "array"} :
     size # CASE i = "by_id" -> Cardinality(tree)
              [] i = "by_hash" -> Cardinality(hashed)
              [] i = "array" -> Len(array)}

Next ==
  \/ \E k \in Key :
       \/ InsertNoNode(k) \/ InsertRefused(k) \/ InsertNoBuckets(k) \/ InsertNoArray(k)
       \/ Insert(k) \/ Erase(k)
  \/ Clear

Spec == Init /\ [][Next]_vars

-----------------------------------------------------------------------------

TypeOK ==
  /\ used \in 0..ArenaWords /\ made \in Nat
  /\ tree \subseteq Key /\ hashed \subseteq Key /\ buckets \in Nat \ {0}
  /\ array \in Seq(Key) /\ capacity \in Nat
  /\ registry \in [ head : Key \cup {Nil}, tail : Key \cup {Nil},
                    prev : [Key -> Key \cup {Nil}], next : [Key -> Key \cup {Nil}] ]
  /\ size \in 0..(SizeRange - 1)
  /\ outcome \in {"none", "inserted", "duplicate", "capacity"}
  /\ halfway \subseteq Key /\ trampled \in BOOLEAN

\* The first N insertions never fail for want of memory, however far the tables and the
\* arena have grown with them: as long as fewer than N nodes have been allocated, those
\* of refused and of erased elements counted, no insertion has reported
\* capacity_exceeded, and there is room for all that the next one may allocate.
FullOnlyPastCapacity ==
  made < Capacity => outcome # "capacity" /\ Fits(NodeWords + BucketWords + ArrayWords)

\* The registry's list is s, forwards and backwards.
ListedAs(s) ==
  LET n == Len(s)
  IN  /\ registry.head = IF n = 0 THEN Nil ELSE s[1]
      /\ registry.tail = IF n = 0 THEN Nil ELSE s[n]
      /\ \A i \in 1..n : /\ registry.prev[s[i]] = IF i = 1 THEN Nil ELSE s[i - 1]
                         /\ registry.next[s[i]] = IF i = n THEN Nil ELSE s[i + 1]

\* Until an element is erased that a failed insertion left behind, the elements that
\* were inserted are all there, once and in order, in every index and in the registry
\* both ways, and size() is their number; the indices by id and by hash hold nothing
\* else than those and the ones left behind.
InsertedAreKept ==
  ~trampled =>
    /\ hashed = tree /\ halfway \subseteq tree
    /\ {array[i] : i \in 1..Len(array)} = tree \ halfway
    /\ \A i, j \in 1..Len(array) : array[i] = array[j] => i = j
    /\ ListedAs(array)
    /\ size = Len(array)

\* The audit has something to report from the first insertion that leaves its node
\* linked until the container is cleared, also when that node is gone again, and
\* nothing otherwise; and until such a node is erased it names the two indices that
\* hold them, and not the array.
AuditFindsLeftovers ==
  /\ Audit = {} <=> halfway = {} /\ ~trampled
  /\ ~trampled /\ halfway # {} => Audit = {"by_id", "by_hash"}

\* "Strong guarantee for single-element insert: on any throw, allocation, the container
\* is exactly as before" (PROMPT.md:82): an insertion that reports capacity_exceeded
\* leaves indices, registry and size alone.
FailureChangesNothing ==
  [][outcome' = "capacity" /\ made' # made => UNCHANGED elements]_vars
=============================================================================
