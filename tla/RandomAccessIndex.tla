-------------------------- MODULE RandomAccessIndex --------------------------
(***************************************************************************)
(* rand_core, the array of node pointers behind a random_access index, in  *)
(* a container that has a sequenced index as well.                         *)
(*                                                                         *)
(* Both follow the same insertions and erasures, and both can be walked.   *)
(* The iterators of this one are positions of the array: an insertion that *)
(* reallocates it, even one that another index then refuses, and the       *)
(* erasure of an earlier element leave them without a meaning, and the     *)
(* caller has to stop using them.                                          *)
(***************************************************************************)
EXTENDS SequencedIndex

VARIABLES
  array,      \* c: the node pointers
  capacity,   \* c.capacity(), at most one place for every node
  registry,   \* rhead_, rtail_ and the links of the container's registry list
  spot,       \* the place of an iterator in use, 1 at begin(), or NoSpot
  met         \* the elements it has passed

NoSpot == 0

\* reg_push_back and reg_unlink do to the registry's links what push_back and unlink
\* do to those of the sequenced index.
Registered(n) == registry' = PushedBack(registry, n)
Unregistered(n) == registry' = Unlinked(registry, n)

places == <<array, capacity, registry, spot, met>>
rvars == <<vars, places>>

-----------------------------------------------------------------------------

\* std::find from begin()
PlaceOf(n) == SelectInSeq(array, LAMBDA m : m = n)

IndexOf(n) == PlaceOf(n) - 1
NthAt(i) == array[i + 1]

StopVisit == spot' = NoSpot /\ met' = {}

\* push_back: past the capacity the array moves, to room for at least one more.
Room ==
  IF Len(array) < capacity THEN {capacity} ELSE (Len(array) + 1) .. Cardinality(Node)

\* Every iterator is lost when the array moves, and one at end() in any case.
Grow ==
  /\ capacity' \in Room
  /\ IF capacity' # capacity \/ spot = Len(array) + 1 THEN StopVisit ELSE UNCHANGED <<spot, met>>

Insert(n) ==
  /\ PushBack(n) \/ PushFront(n)
  /\ array' = Append(array, n)
  /\ Registered(n)
  /\ Grow

InsertRefused(n) ==
  /\ PushBackRefused(n)
  /\ Grow
  /\ UNCHANGED <<array, registry>>

\* Mutant: the last pointer fills the gap.
FilledFromBack(n) ==
  [i \in 1..(Len(array) - 1) |-> IF i = PlaceOf(n) THEN array[Len(array)] ELSE array[i]]

\* remove: find the pointer and close the gap.
Removed(n) == RemoveAt(array, PlaceOf(n))

\* An erasure at or before an iterator takes its meaning away.
EraseElsewhere(n) ==
  /\ Erase(n)
  /\ array' = Removed(n)
  /\ Unregistered(n)
  /\ IF spot # NoSpot /\ PlaceOf(n) <= spot THEN StopVisit ELSE UNCHANGED <<spot, met>>
  /\ UNCHANGED capacity

\* Mutant: the iterator returned is one past the place that was computed before.
AfterStale(n, next) == PlaceOf(n) + 1

\* make_iter on the node after the erased one, which has moved up; end() if none.
AfterErasure(n, next) ==
  IF next = Nil THEN Len(array') + 1 ELSE SelectInSeq(array', LAMBDA m : m = next)

\* it = index.erase(it)
EraseAtSpot ==
  /\ spot \in DOMAIN array
  /\ LET n == array[spot]
         next == IF spot = Len(array) THEN Nil ELSE array[spot + 1]
     IN  /\ Erase(n)
         /\ array' = Removed(n)
         /\ Unregistered(n)
         /\ spot' = AfterErasure(n, next)
  /\ UNCHANGED <<capacity, met>>

ClearAll ==
  /\ Clear
  /\ array' = <<>>
  /\ registry' = [registry EXCEPT !.head = Nil, !.tail = Nil]
  /\ StopVisit
  /\ UNCHANGED capacity

Reserve(c) ==
  /\ fresh = Nil /\ c > capacity
  /\ capacity' = c
  /\ StopVisit
  /\ UNCHANGED <<vars, array, registry>>

StartVisit ==
  /\ fresh = Nil /\ spot = NoSpot /\ ~walking
  /\ spot' = 1
  /\ UNCHANGED <<vars, array, capacity, registry, met>>

StepVisit ==
  /\ fresh = Nil /\ spot \in DOMAIN array
  /\ spot' = spot + 1 /\ met' = met \cup {array[spot]}
  /\ UNCHANGED <<vars, array, capacity, registry>>

EndVisit ==
  /\ fresh = Nil /\ spot = Len(array) + 1
  /\ StopVisit
  /\ UNCHANGED <<vars, array, capacity, registry>>

\* What rearranges or walks the sequenced index concerns this one not at all.
ListOnly ==
  /\ \/ \E n \in Node, b \in Node \cup {Nil} : Relocate(b, n)
     \/ MoveToFront \/ ObserverThrows \/ ReverseAll
     \/ spot = NoSpot /\ StartWalk
     \/ StepWalk \/ EndWalk
  /\ UNCHANGED places

RInit ==
  /\ Init
  /\ array = <<>> /\ capacity = 0
  /\ registry = list
  /\ spot = NoSpot /\ met = {}

RNext ==
  \/ \E n \in Node : Insert(n) \/ InsertRefused(n) \/ EraseElsewhere(n)
  \/ EraseAtSpot \/ ClearAll \/ ListOnly
  \/ \E c \in 1..Cardinality(Node) : Reserve(c)
  \/ StartVisit \/ StepVisit \/ EndVisit

RSpec == RInit /\ [][RNext]_rvars

-----------------------------------------------------------------------------

\* The array is the registry: positions follow the order of insertion, whatever the
\* sequenced index is rearranged into, and both indices have the same elements.
PositionsByAge ==
  /\ array = From(registry.next, registry.head)
  /\ array = Reverse(From(registry.prev, registry.tail))
  /\ ToSet(array) = Elements /\ Len(array) = Len(Order)
  /\ \A n \in Elements : NthAt(IndexOf(n)) = n

\* A walk over positions that erases as it goes passes every element that stays, and
\* an iterator that the vector's rules still allow is where its walk has come to.
VisitExact ==
  spot # NoSpot =>
    /\ spot <= Len(array) + 1
    /\ met = ToSet(SubSeq(array, 1, spot - 1))
=============================================================================
