--------------------------- MODULE SequencedIndex ---------------------------
(***************************************************************************)
(* intrusive_list, the doubly linked list behind a sequenced index, with   *)
(* the calls its container and its callers make on it, and an iterator     *)
(* that is in use meanwhile.  The registry of the container is the same    *)
(* kind of list, with push_back and unlink only.                           *)
(***************************************************************************)
EXTENDS Integers, SequencesExt, LinkedList

CONSTANT Node

ASSUME NilAssumption == Nil \notin Node /\ IsFiniteSet(Node)

VARIABLES
  list,      \* head_, tail_ and the links in the nodes
  fresh,     \* the node push_front has pushed to the back so far, or Nil
  walking,   \* an iterator is in use
  cur,       \* the node it stands on, Nil at end()
  seen,      \* the elements it has passed, less those moved since
  late       \* the elements pushed or moved since the walk began

walk == <<walking, cur, seen, late>>
vars == <<list, fresh, walk>>

-----------------------------------------------------------------------------
(* The list.                                                               *)

MovedToFront(l, n) == LET out == Unlinked(l, n) IN Linked(out, Nil, n, out.head)

\* Mutant: the predecessor of b is read before n is unlinked.
RelocatedStale(l, b, n) ==
  IF n = b THEN l
  ELSE LET out == Unlinked(l, n)
       IN  IF b = Nil THEN PushedBack(out, n) ELSE Linked(out, l.prev[b], n, b)

\* n to just before b, or to the back.
Relocated(l, b, n) ==
  IF n = b THEN l
  ELSE LET out == Unlinked(l, n)
       IN  IF b = Nil THEN PushedBack(out, n) ELSE Linked(out, out.prev[b], n, b)

Follow(f, m) == IF m = Nil THEN Nil ELSE f[m]

\* The nodes from n on, along the links f; a chain with a cycle is cut off at one
\* node more than there are.
From(f, n) ==
  LET room == Cardinality(Node) + 1
      at[i \in 1..room] == IF i = 1 THEN n ELSE Follow(f, at[i - 1])
  IN  SubSeq(at, 1, Cardinality({i \in 1..room : at[i] # Nil}))

Order == From(list.next, list.head)
Elements == ToSet(Order)

Reversed(l) ==
  LET in == ToSet(From(l.next, l.head))
  IN  [ head |-> l.tail, tail |-> l.head,
        prev |-> [m \in Node |-> IF m \in in THEN l.next[m] ELSE l.prev[m]],
        next |-> [m \in Node |-> IF m \in in THEN l.prev[m] ELSE l.next[m]] ]

-----------------------------------------------------------------------------

TypeOK ==
  /\ list \in [ head : Node \cup {Nil}, tail : Node \cup {Nil},
                prev : [Node -> Node \cup {Nil}], next : [Node -> Node \cup {Nil}] ]
  /\ list.head = Nil <=> list.tail = Nil
  /\ fresh \in Node \cup {Nil}
  /\ walking \in BOOLEAN /\ cur \in Node \cup {Nil} /\ seen \subseteq Node /\ late \subseteq Node

Init ==
  /\ list = NoLinks(Node)
  /\ fresh = Nil
  /\ walking = FALSE /\ cur = Nil /\ seen = {} /\ late = {}

StopWalk == walking' = FALSE /\ cur' = Nil /\ seen' = {} /\ late' = {}

\* Node n enters or changes place; an iterator on it would travel with it.
Disturb(n) ==
  IF ~walking THEN UNCHANGED walk
  ELSE IF cur = n THEN StopWalk
  ELSE seen' = seen \ {n} /\ late' = late \cup {n} /\ UNCHANGED <<walking, cur>>

PushBack(n) ==
  /\ fresh = Nil /\ n \notin Elements
  /\ list' = PushedBack(list, n)
  /\ Disturb(n)
  /\ UNCHANGED fresh

\* A later index refuses the node, and insert_all takes it out again.
PushBackRefused(n) ==
  /\ fresh = Nil /\ n \notin Elements
  /\ list' = Unlinked(PushedBack(list, n), n)
  /\ UNCHANGED <<fresh, walk>>

\* push_front inserts at the back, where the observers see the element, and then
\* moves it.
PushFront(n) ==
  /\ fresh = Nil /\ n \notin Elements
  /\ list' = PushedBack(list, n)
  /\ Disturb(n)
  /\ fresh' = n

MoveToFront ==
  /\ fresh # Nil
  /\ list' = MovedToFront(list, fresh)
  /\ fresh' = Nil
  /\ UNCHANGED walk

ObserverThrows ==
  /\ fresh # Nil
  /\ fresh' = Nil
  /\ UNCHANGED <<list, walk>>

\* Mutant: the iterator stays on the node that was erased.
EraseLosingIterator(n) ==
  /\ fresh = Nil /\ n \in Elements
  /\ list' = Unlinked(list, n)
  /\ seen' = seen \ {n} /\ late' = late \ {n}
  /\ UNCHANGED <<fresh, walking, cur>>

\* erase, pop_front, pop_back.  erase(it) returns the element after it.
Erase(n) ==
  /\ fresh = Nil /\ n \in Elements
  /\ list' = Unlinked(list, n)
  /\ cur' = IF cur = n THEN list.next[n] ELSE cur
  /\ seen' = seen \ {n} /\ late' = late \ {n}
  /\ UNCHANGED <<fresh, walking>>

Relocate(b, n) ==
  /\ fresh = Nil /\ n \in Elements /\ b \in Elements \cup {Nil}
  /\ list' = Relocated(list, b, n)
  /\ IF n = b THEN UNCHANGED walk ELSE Disturb(n)
  /\ UNCHANGED fresh

ReverseAll ==
  /\ fresh = Nil
  /\ list' = Reversed(list)
  /\ StopWalk
  /\ UNCHANGED fresh

Clear ==
  /\ fresh = Nil
  /\ list' = [list EXCEPT !.head = Nil, !.tail = Nil]
  /\ StopWalk
  /\ UNCHANGED fresh

StartWalk ==
  /\ fresh = Nil /\ ~walking
  /\ walking' = TRUE /\ cur' = list.head
  /\ UNCHANGED <<list, fresh, seen, late>>

StepWalk ==
  /\ fresh = Nil /\ walking /\ cur # Nil
  /\ cur' = list.next[cur] /\ seen' = seen \cup {cur}
  /\ UNCHANGED <<list, fresh, walking, late>>

EndWalk ==
  /\ fresh = Nil /\ walking /\ cur = Nil
  /\ StopWalk
  /\ UNCHANGED <<list, fresh>>

Next ==
  \/ \E n \in Node :
       \/ PushBack(n) \/ PushBackRefused(n) \/ PushFront(n) \/ Erase(n)
       \/ \E b \in Node \cup {Nil} : Relocate(b, n)
  \/ MoveToFront \/ ObserverThrows
  \/ ReverseAll \/ Clear
  \/ StartWalk \/ StepWalk \/ EndWalk

Spec == Init /\ [][Next]_vars

-----------------------------------------------------------------------------

\* The list read backwards from tail_ is the list read forwards from head_: --it
\* undoes ++it, whatever was unlinked, relocated and reversed before.
BothWays == TypeOK /\ From(list.prev, list.tail) = Reverse(Order)

\* A walk meets every element exactly once and in order, except one that is pushed
\* or relocated meanwhile, also when elements under the iterator are erased.
WalkInOrder ==
  walking =>
    LET at == IF cur = Nil THEN Len(Order) + 1 ELSE SelectInSeq(Order, LAMBDA m : m = cur)
        behind == ToSet(SubSeq(Order, 1, at - 1))
    IN  at # 0 /\ seen \subseteq behind /\ behind \subseteq seen \cup late

Sequence == INSTANCE SequenceSpec WITH seq <- Order

\* The pointer surgery implements the operations on a sequence: nothing is lost,
\* doubled or moved but the element that is relocated.
Refines == Sequence!Spec
=============================================================================
