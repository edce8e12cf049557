----------------------------- MODULE MultiIndex -----------------------------
(***************************************************************************)
(* mic::multi_index_container, one call at a time and one index at a time. *)
(*                                                                         *)
(* An element lives in one node that every index links.  A call inserts,   *)
(* repositions or removes the node index by index, and a unique index may  *)
(* refuse it halfway, so the call unwinds.  User code runs inside a call   *)
(* (extractors, comparators, hashers, mutators, observers) and so does the *)
(* allocator: between any two steps one of them may throw.                 *)
(*                                                                         *)
(* A keyless index (sequenced, random_access) is a non-unique index whose  *)
(* extractor is constant: it never refuses a node and its key never        *)
(* changes.  This module says which nodes an index links and under which   *)
(* key; the order inside an index is the business of the index's own       *)
(* module.                                                                 *)
(***************************************************************************)
EXTENDS Integers, FiniteSets

CONSTANTS
  Node,           \* nodes the allocator can hand out (the capacity bound)
  Value,          \* element values
  Key,            \* keys of every index
  N,              \* how many indices the container has
  Kind,           \* Kind[i]: the index_kind of index i
  Unique,         \* positions of the unique indices
  KeyOf,          \* KeyOf[i][v]: the key index i extracts from value v
  PointerStored,  \* Value is pointer-like: modify() mutates the pointee
  MayThrow,       \* which foreign code may throw, a subset of ThrowPoint
  NoNode, NoValue, NotLinked

Index == 1..N

Keyed == {i \in Index : Kind[i] \in {"ordered", "hashed"}}

ThrowPoint ==
  { "mutate",     \* the mutator handed to modify(), the assignment of replace()
    "observe",    \* an observer callback
    "key",        \* an extractor, comparator or hasher
    "grow" }      \* the allocator, asked for a larger bucket or pointer array

ASSUME IndexAssumption ==
  /\ N \in Nat \ {0}
  /\ Kind \in [Index -> {"ordered", "hashed", "sequenced", "random_access"}]
  /\ Unique \subseteq Keyed
  /\ KeyOf \in [Index -> [Value -> Key]]
  /\ \A i \in Index \ Keyed, v, w \in Value : KeyOf[i][v] = KeyOf[i][w]
ASSUME AbsentAssumption == NoNode \notin Node /\ NoValue \notin Value /\ NotLinked \notin Key
ASSUME ModeAssumption   == PointerStored \in BOOLEAN /\ MayThrow \subseteq ThrowPoint

VARIABLES
  value,      \* node -> its value, NoValue when the node is not allocated
  index,      \* index -> node -> the key it is filed under, or NotLinked
  registry,   \* nodes on the registry list: the elements of the container
  size,       \* size_
  held,       \* nodes owned by node handles
  pc,         \* where the current call is
  op,         \* which call it is
  p,          \* the node it works on
  at,         \* the index it tries or undoes next
  changed,    \* ch: the indices in which p has to be linked
  before,     \* the value p had before the mutation
  failed,     \* the index that refused p (N + 1: none)
  conflict,   \* the element it clashed with
  victims     \* nodes that erase_key has still to erase

store == <<value, index, registry, size, held>>
frame == <<pc, op, p, at, changed, before, victims>>
report == <<failed, conflict>>
vars == <<store, frame, report>>

Live == {n \in Node : value[n] # NoValue}
Linked(i) == {n \in Node : index[i][n] # NotLinked}
Mutations == {"modify", "modify_or_erase", "replace"}

TypeOK ==
  /\ value \in [Node -> Value \cup {NoValue}]
  /\ index \in [Index -> [Node -> Key \cup {NotLinked}]]
  /\ registry \subseteq Node
  /\ size \in Nat
  /\ held \subseteq Node
  /\ pc \in { "idle", "link", "unwind", "relink", "undo_relink",
              "fire_insert", "fire_modify", "fire_erase", "sweep", "thrown", "dangling" }
  /\ op \in {"none", "insert", "reinsert", "erase"} \cup Mutations
  /\ p \in Node \cup {NoNode}
  /\ at \in 0 .. N + 1
  /\ changed \subseteq Index
  /\ before \in Value \cup {NoValue}
  /\ failed \in 1 .. N + 1
  /\ conflict \in Node \cup {NoNode}
  /\ victims \subseteq Node

Init ==
  /\ value = [n \in Node |-> NoValue]
  /\ index = [i \in Index |-> [n \in Node |-> NotLinked]]
  /\ registry = {} /\ size = 0 /\ held = {}
  /\ pc = "idle" /\ op = "none" /\ p = NoNode /\ at = 0
  /\ changed = {} /\ before = NoValue /\ victims = {}
  /\ failed = N + 1 /\ conflict = NoNode

-----------------------------------------------------------------------------
(* The call frame.                                                         *)

NoReport == failed' = N + 1 /\ conflict' = NoNode

\* Start linking node n into the indices ch, from the first one.
Begin(o, n, ch, old) ==
  /\ pc' = "link" /\ op' = o /\ p' = n /\ at' = 1
  /\ changed' = ch /\ before' = old /\ victims' = {}
  /\ NoReport

Leave(where) ==
  /\ pc' = where /\ op' = "none" /\ p' = NoNode /\ at' = 0
  /\ changed' = {} /\ before' = NoValue /\ victims' = {}

Goto(where) == pc' = where /\ UNCHANGED <<op, p, at, changed, before, victims>>

\* Back to the caller, or to the rest of erase_key's loop.
Return ==
  IF victims = {} THEN Leave("idle")
  ELSE /\ pc' = "sweep" /\ p' = NoNode
       /\ UNCHANGED <<op, at, changed, before, victims>>

-----------------------------------------------------------------------------
(* Linking a node index by index: insert_all and insert_changed, which is  *)
(* the same recursion over the changed indices only.                       *)

\* Mutant: the lower_bound check of ordered_unique is missing.
ClashingInHashedOnly(i) ==
  {q \in Linked(i) : i \in Unique /\ Kind[i] = "hashed" /\ index[i][q] = KeyOf[i][value[p]]}

Clashing(i) == {q \in Linked(i) : i \in Unique /\ index[i][q] = KeyOf[i][value[p]]}

LinkInto(i) == index' = [index EXCEPT ![i][p] = KeyOf[i][value[p]]]
UnlinkFrom(i) == index' = [index EXCEPT ![i][p] = NotLinked]

Linking == pc \in {"link", "relink"} /\ at \in Index

TryInsert ==
  /\ Linking /\ at \in changed
  /\ Clashing(at) = {}
  /\ LinkInto(at)
  /\ at' = at + 1
  /\ UNCHANGED <<value, registry, size, held, pc, op, p, changed, before, victims, report>>

SkipUnchanged ==
  /\ Linking /\ at \notin changed
  /\ at' = at + 1
  /\ UNCHANGED <<store, pc, op, p, changed, before, victims, report>>

\* Mutant: the next index is blamed.
RefuseBlamingNext ==
  /\ Linking /\ at \in changed
  /\ \E q \in Clashing(at) :
       IF pc = "link" THEN failed' = at + 1 /\ conflict' = q ELSE UNCHANGED report
  /\ pc' = IF pc = "link" THEN "unwind" ELSE "undo_relink"
  /\ at' = at - 1
  /\ UNCHANGED <<store, op, p, changed, before, victims>>

\* A unique index refuses p.  The second attempt keeps its own out-parameters
\* (c2, f2), so only the first one is reported.
Refuse ==
  /\ Linking /\ at \in changed
  /\ \E q \in Clashing(at) :
       IF pc = "link" THEN failed' = at /\ conflict' = q ELSE UNCHANGED report
  /\ pc' = IF pc = "link" THEN "unwind" ELSE "undo_relink"
  /\ at' = at - 1
  /\ UNCHANGED <<store, op, p, changed, before, victims>>

\* Mutant: the recursion never returns through an unchanged index.
UnwindStalling ==
  /\ pc \in {"unwind", "undo_relink"} /\ at \in Index
  /\ IF at \in changed THEN UnlinkFrom(at) /\ at' = at - 1 ELSE UNCHANGED <<index, at>>
  /\ UNCHANGED <<value, registry, size, held, pc, op, p, changed, before, victims, report>>

Unwind ==
  /\ pc \in {"unwind", "undo_relink"} /\ at \in Index
  /\ IF at \in changed THEN UnlinkFrom(at) ELSE UNCHANGED index
  /\ at' = at - 1
  /\ UNCHANGED <<value, registry, size, held, pc, op, p, changed, before, victims, report>>

-----------------------------------------------------------------------------
(* insert, emplace, try_insert, insert(node_handle&&).                     *)

Insert(n, v) ==
  /\ pc = "idle"
  /\ value[n] = NoValue
  /\ value' = [value EXCEPT ![n] = v]                         \* make_node
  /\ Begin("insert", n, Index, NoValue)
  /\ UNCHANGED <<index, registry, size, held>>

InsertHandle(n) ==
  /\ pc = "idle"
  /\ n \in held
  /\ Begin("reinsert", n, Index, NoValue)
  /\ UNCHANGED store

\* Mutant: the handle is not emptied when the container adopts its node.
CommitInsertKeepingHandle ==
  /\ pc = "link" /\ at = N + 1
  /\ op \in {"insert", "reinsert"}
  /\ registry' = registry \cup {p}
  /\ size' = size + 1
  /\ Goto("fire_insert")
  /\ UNCHANGED <<value, index, held, report>>

CommitInsert ==
  /\ pc = "link" /\ at = N + 1
  /\ op \in {"insert", "reinsert"}
  /\ registry' = registry \cup {p}                            \* reg_push_back
  /\ size' = size + 1
  /\ held' = held \ {p}                                       \* h.p_ = nullptr
  /\ Goto("fire_insert")
  /\ UNCHANGED <<value, index, report>>

\* A refused new node is destroyed; a refused handle keeps its node.
RejectInsert ==
  /\ pc = "unwind" /\ at = 0
  /\ op \in {"insert", "reinsert"}
  /\ value' = IF op = "insert" THEN [value EXCEPT ![p] = NoValue] ELSE value
  /\ Leave("idle")
  /\ UNCHANGED <<index, registry, size, held, report>>

-----------------------------------------------------------------------------
(* modify, modify_key, replace and their try_ twins.                       *)

\* Capture the keys, mutate the value, and take the node out of the indices
\* whose key changed.
Mutate(o, n, v) ==
  /\ pc = "idle"
  /\ n \in registry
  /\ LET ch == {i \in Index : KeyOf[i][value[n]] # KeyOf[i][v]}
     IN  /\ index' = [i \in Index |->
                        IF i \in ch THEN [index[i] EXCEPT ![n] = NotLinked] ELSE index[i]]
         /\ Begin(o, n, ch, value[n])
  /\ value' = [value EXCEPT ![n] = v]
  /\ UNCHANGED <<registry, size, held>>

\* Mutant: the snapshot is not assigned back.
NotRestored == value

\* The copy of a pointer shares the pointee, so assigning it back undoes nothing;
\* replace() moved the old pointer out and can put it back.
Restored ==
  IF PointerStored /\ op # "replace" THEN value ELSE [value EXCEPT ![p] = before]

CommitMutation ==
  /\ pc = "link" /\ at = N + 1
  /\ op \in Mutations
  /\ Goto("fire_modify")
  /\ UNCHANGED <<store, report>>

\* Mutant: the second insert_changed starts at the second index.
RollBackSkippingFirst ==
  /\ pc = "unwind" /\ at = 0
  /\ op \in Mutations
  /\ value' = Restored
  /\ pc' = "relink" /\ at' = 2
  /\ UNCHANGED <<index, registry, size, held, op, p, changed, before, victims, report>>

RollBack ==
  /\ pc = "unwind" /\ at = 0
  /\ op \in Mutations
  /\ value' = Restored
  /\ pc' = "relink" /\ at' = 1
  /\ UNCHANGED <<index, registry, size, held, op, p, changed, before, victims, report>>

\* The element is back under its old keys; on_collision::erase then drops it.
RolledBack ==
  /\ pc = "relink" /\ at = N + 1
  /\ IF op = "modify_or_erase" THEN Goto("fire_erase") ELSE Leave("idle")
  /\ UNCHANGED <<store, report>>

\* The calls are over once an unchanged index is left with a node that is freed:
\* what reads it next is undefined.
AfterDrop == IF \A i \in Index : index[i][p] = NotLinked THEN "idle" ELSE "dangling"

\* Mutant: the node leaves the registry uncounted.
DropUncounted ==
  /\ pc = "undo_relink" /\ at = 0
  /\ registry' = registry \ {p}
  /\ value' = [value EXCEPT ![p] = NoValue]
  /\ Leave(AfterDrop)
  /\ UNCHANGED <<index, size, held, report>>

\* Mutant: the node is freed and stays on the registry list.
DropStillRegistered ==
  /\ pc = "undo_relink" /\ at = 0
  /\ value' = [value EXCEPT ![p] = NoValue]
  /\ size' = size - 1
  /\ Leave(AfterDrop)
  /\ UNCHANGED <<index, registry, held, report>>

\* The old keys are refused as well: the node is freed with no remove_all.
DropAfterFailedRollback ==
  /\ pc = "undo_relink" /\ at = 0
  /\ registry' = registry \ {p}
  /\ value' = [value EXCEPT ![p] = NoValue]
  /\ size' = size - 1
  /\ Leave(AfterDrop)
  /\ UNCHANGED <<index, held, report>>

-----------------------------------------------------------------------------
(* erase, erase_key, extract, clear, and what a caller does with a handle. *)

Erase(n) ==
  /\ pc = "idle"
  /\ n \in registry
  /\ pc' = "fire_erase" /\ op' = "erase" /\ p' = n
  /\ NoReport
  /\ UNCHANGED <<store, at, changed, before, victims>>

EraseKey(i, k) ==
  /\ pc = "idle"
  /\ victims' = {n \in Linked(i) : index[i][n] = k}
  /\ victims' # {}
  /\ pc' = "sweep" /\ op' = "erase"
  /\ NoReport
  /\ UNCHANGED <<store, p, at, changed, before>>

NextVictim ==
  /\ pc = "sweep"
  /\ \E n \in victims : p' = n /\ victims' = victims \ {n}
  /\ pc' = "fire_erase"
  /\ UNCHANGED <<store, op, at, changed, before, report>>

\* Take node n out of every index and off the registry.
Detach(n) ==
  /\ index' = [i \in Index |-> [index[i] EXCEPT ![n] = NotLinked]]
  /\ registry' = registry \ {n}
  /\ size' = size - 1

EraseNodeFull ==
  /\ pc = "fire_erase"
  /\ Detach(p)
  /\ value' = [value EXCEPT ![p] = NoValue]
  /\ Return
  /\ UNCHANGED <<held, report>>

Fired ==
  /\ pc \in {"fire_insert", "fire_modify"}
  /\ Leave("idle")
  /\ UNCHANGED <<store, report>>

Extract(n) ==
  /\ pc = "idle"
  /\ n \in registry
  /\ Detach(n)
  /\ held' = held \cup {n}
  /\ NoReport
  /\ UNCHANGED <<value, frame>>

AssignThroughHandle(n, v) ==
  /\ pc = "idle"
  /\ n \in held
  /\ value' = [value EXCEPT ![n] = v]
  /\ UNCHANGED <<index, registry, size, held, frame, report>>

ResetHandle(n) ==
  /\ pc = "idle"
  /\ n \in held
  /\ held' = held \ {n}
  /\ value' = [value EXCEPT ![n] = NoValue]
  /\ UNCHANGED <<index, registry, size, frame, report>>

Clear ==
  /\ pc = "idle"
  /\ value' = [n \in Node |-> IF n \in registry THEN NoValue ELSE value[n]]
  /\ index' = [i \in Index |-> [n \in Node |-> NotLinked]]
  /\ registry' = {} /\ size' = 0
  /\ NoReport
  /\ UNCHANGED <<held, frame>>

-----------------------------------------------------------------------------
(* Exceptions.  A mutator's and an observer's are survived by design: the  *)
(* call is over and the container is used again.  Nothing catches one that *)
(* leaves the middle of insert_all, compute_changed or insert_changed:     *)
(* the model stops in the state it leaves behind.                          *)

MutatorThrows(n, v) ==
  /\ "mutate" \in MayThrow
  /\ pc = "idle"
  /\ n \in registry
  /\ value' = IF PointerStored THEN [value EXCEPT ![n] = v] ELSE value
  /\ NoReport
  /\ UNCHANGED <<index, registry, size, held, frame>>

ObserverThrows ==
  /\ "observe" \in MayThrow
  /\ pc \in {"fire_insert", "fire_modify", "fire_erase"}
  /\ Leave("idle")
  /\ UNCHANGED <<store, report>>

\* compute_changed extracts the new keys after the value has been mutated.
CompareThrows(n, v) ==
  /\ "key" \in MayThrow
  /\ pc = "idle"
  /\ n \in registry
  /\ value' = [value EXCEPT ![n] = v]
  /\ Leave("thrown")
  /\ UNCHANGED <<index, registry, size, held, report>>

TryInsertThrows ==
  /\ "key" \in MayThrow
  /\ Linking /\ at \in changed \cap Keyed
  /\ Leave("thrown")
  /\ UNCHANGED <<store, report>>

\* A hashed index grows after it has linked the node, a random_access one
\* before.  A repositioned node grows nothing: it returns to a table it left.
GrowThrows ==
  /\ "grow" \in MayThrow
  /\ Linking /\ op \in {"insert", "reinsert"}
  /\ Clashing(at) = {}
  /\ \/ Kind[at] = "hashed" /\ LinkInto(at)
     \/ Kind[at] = "random_access" /\ UNCHANGED index
  /\ Leave("thrown")
  /\ UNCHANGED <<value, registry, size, held, report>>

-----------------------------------------------------------------------------

Call ==
  \/ \E n \in Node, v \in Value :
       \/ Insert(n, v)
       \/ \E o \in Mutations : Mutate(o, n, v)
       \/ AssignThroughHandle(n, v)
       \/ MutatorThrows(n, v)
       \/ CompareThrows(n, v)
  \/ \E n \in Node : InsertHandle(n) \/ Erase(n) \/ Extract(n) \/ ResetHandle(n)
  \/ \E i \in Keyed, k \in Key : EraseKey(i, k)
  \/ Clear

Continue ==
  \/ TryInsert \/ SkipUnchanged \/ Refuse \/ Unwind
  \/ CommitInsert \/ RejectInsert
  \/ CommitMutation \/ RollBack \/ RolledBack \/ DropAfterFailedRollback
  \/ NextVictim \/ EraseNodeFull \/ Fired

Throw == ObserverThrows \/ TryInsertThrows \/ GrowThrows

Next == Call \/ Continue \/ Throw

Spec == Init /\ [][Next]_vars

\* The thread that made a call runs it to its end.
FairSpec == Spec /\ WF_vars(Continue)

-----------------------------------------------------------------------------
(* Properties.                                                             *)

\* What user code can see the container in: between two calls, between two
\* erasures of erase_key, and from an observer.
Visible == pc \in {"idle", "sweep", "fire_insert", "fire_modify", "fire_erase"}

Agrees(n) ==
  \A i \in Index :
    index[i][n] = IF n \in registry THEN KeyOf[i][value[n]] ELSE NotLinked

\* Whenever user code can look, every index links exactly the elements of the
\* registry, each under the key its value has now, and size() counts them.
Consistent ==
  Visible => size = Cardinality(registry) /\ \A n \in Node : Agrees(n)

\* No unique index ever links two nodes under one key, not even while a call is
\* halfway through linking, unwinding or rolling back.
UniqueKeys ==
  \A i \in Unique : \A m, n \in Linked(i) : index[i][m] = index[i][n] => m = n

Owned ==
  LET inserting == op = "insert" /\ pc \in {"link", "unwind"}
  IN  /\ Live = registry \cup held \cup (IF inserting THEN {p} ELSE {})
      /\ registry \cap held = {}
      /\ inserting => p \notin registry \cup held
      /\ \A i \in Index : Linked(i) \subseteq Live

\* Every allocated node has exactly one owner (the registry, a node handle or the
\* insert in progress), and no index links a node that has been freed.
Ownership == pc # "thrown" => Owned

\* reposition()'s second insert_changed, under the old keys, is never refused: a
\* rejected modify never frees the element it was meant to keep.
RollbackSucceeds == pc \notin {"undo_relink", "dangling"}

\* A rejection names the first index, in declaration order, whose uniqueness the
\* new value breaks, and an element that is still in the container and has that
\* key; the element named stays in the container as long as the report stands.
ClashReport ==
  /\ pc = "unwind" =>
       /\ failed \in Unique /\ conflict \in registry \ {p}
       /\ KeyOf[failed][value[conflict]] = KeyOf[failed][value[p]]
       /\ \A i \in Unique, m \in registry \ {p} :
            i < failed => KeyOf[i][value[m]] # KeyOf[i][value[p]]
  /\ conflict # NoNode => conflict \in registry \ {p}

\* Every call returns, unless an exception that nothing catches cuts it short or it
\* leaves a dangling node behind.
CallReturns == pc # "idle" ~> pc \in {"idle", "thrown", "dangling"}

\* A whole call looks like one step of the abstract container: until a mutation
\* commits, the element has the value it had before.
Uncommitted == op \in Mutations /\ pc \in {"link", "unwind", "relink"}

Elems == [n \in registry |-> IF n = p /\ Uncommitted THEN before ELSE value[n]]
Detached == [n \in held |-> value[n]]

Abstract == INSTANCE MultiIndexSpec WITH elems <- Elems, detached <- Detached

\* The calls, with their unwinding and rolling back, implement the all-or-nothing
\* operations of MultiIndexSpec.
Refines == Abstract!Spec

\* Where the model stops, after an exception that nothing catches or a drop that
\* left a freed node linked, one node is damaged at most: every other element is
\* still in all indices under its key, size() counts the registry, and no index
\* links a freed node except the dropped one.
DamageIsLocal ==
  pc \in {"thrown", "dangling"} =>
    /\ size = Cardinality(registry)
    /\ registry \subseteq Live
    /\ \E x \in Node :
         /\ \A n \in Node \ {x} : Agrees(n)
         /\ \A i \in Index : Linked(i) \subseteq Live \cup (IF pc = "dangling" THEN {x} ELSE {})

-----------------------------------------------------------------------------
(* The inductive invariant behind the properties.                          *)

\* The indices in which the node of the current call is linked.
Attached ==
  CASE pc \in {"link", "relink"}        -> {i \in Index : i \notin changed \/ i < at}
    [] pc \in {"unwind", "undo_relink"} -> {i \in Index : i \notin changed \/ i <= at}
    [] OTHER                            -> Index

Placement ==
  \A i \in Index, n \in Node :
    index[i][n] = IF IF n = p THEN i \in Attached ELSE n \in registry
                  THEN KeyOf[i][value[n]] ELSE NotLinked

Counting == IsFiniteSet(registry) /\ size = Cardinality(registry)

Inserting == op \in {"insert", "reinsert"} /\ pc \in {"link", "unwind"}

FrameFits ==
  /\ p = NoNode <=> pc \in {"idle", "sweep"}
  /\ pc \in {"link", "relink"} => at \in 1 .. N + 1
  /\ pc = "unwind" => at \in 0 .. N
  /\ pc \in {"link", "unwind"} => Inserting \/ Uncommitted
  /\ Inserting => /\ changed = Index
                  /\ p \notin registry
                  /\ value[p] # NoValue
                  /\ op = "reinsert" <=> p \in held
  /\ Uncommitted => p \in registry /\ before \in Value
  /\ Uncommitted /\ pc # "relink" =>
       changed = {i \in Index : KeyOf[i][before] # KeyOf[i][value[p]]}
  /\ pc = "relink" => op \in Mutations /\ value[p] = before
  /\ pc \in {"fire_insert", "fire_modify", "fire_erase"} => p \in registry
  /\ victims \subseteq registry \ {p}
  /\ victims # {} => pc \in {"sweep", "fire_erase"} /\ conflict = NoNode
  /\ pc = "sweep" => victims # {}

\* Nobody takes the old keys of an element while its mutation is undecided.
OldKeysFree ==
  Uncommitted => \A i \in Unique, m \in registry \ {p} : KeyOf[i][value[m]] # KeyOf[i][before]

\* What holds as long as no exception has cut a call short.
Sound ==
  /\ Placement /\ Counting /\ Owned /\ FrameFits
  /\ OldKeysFree /\ RollbackSucceeds /\ ClashReport

\* Everything the properties need, in a form that each step preserves.
IInv ==
  /\ TypeOK
  /\ UniqueKeys
  /\ DamageIsLocal
  /\ pc # "thrown" => Sound
=============================================================================
