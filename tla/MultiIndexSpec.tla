--------------------------- MODULE MultiIndexSpec ---------------------------
(***************************************************************************)
(* What mic::multi_index_container promises its caller, with no index, no  *)
(* call in progress and no rollback: a set of elements on which several    *)
(* indices agree.                                                          *)
(*                                                                         *)
(* elems maps the nodes of the container to their values; detached maps    *)
(* the nodes owned by node handles to theirs.  A call that is rejected     *)
(* changes nothing, so it is a stuttering step here.                       *)
(***************************************************************************)
CONSTANTS
  Node,      \* the nodes the allocator can hand out
  Value,     \* the element values
  Index,     \* the positions of the index list
  Unique,    \* the indices with unique keys
  KeyOf      \* KeyOf[i][v]: what index i's extractor returns for v

VARIABLES elems, detached

vars == <<elems, detached>>

Put(f, n, v)    == [m \in DOMAIN f \cup {n} |-> IF m = n THEN v ELSE f[m]]
Without(f, S)   == [m \in DOMAIN f \ S |-> f[m]]

\* No element but n has v's key in a unique index.
Fits(n, v) ==
  \A i \in Unique, m \in DOMAIN elems \ {n} : KeyOf[i][elems[m]] # KeyOf[i][v]

Init == elems = <<>> /\ detached = <<>>

Insert(n, v) ==
  /\ n \notin DOMAIN elems \cup DOMAIN detached
  /\ Fits(n, v)
  /\ elems' = Put(elems, n, v)
  /\ UNCHANGED detached

Change(n, v) ==
  /\ n \in DOMAIN elems
  /\ Fits(n, v)
  /\ elems' = Put(elems, n, v)
  /\ UNCHANGED detached

Erase(n) ==
  /\ n \in DOMAIN elems
  /\ elems' = Without(elems, {n})
  /\ UNCHANGED detached

Clear ==
  /\ elems' = Without(elems, DOMAIN elems)
  /\ UNCHANGED detached

Extract(n) ==
  /\ n \in DOMAIN elems
  /\ elems' = Without(elems, {n})
  /\ detached' = Put(detached, n, elems[n])

Reinsert(n) ==
  /\ n \in DOMAIN detached
  /\ Fits(n, detached[n])
  /\ elems' = Put(elems, n, detached[n])
  /\ detached' = Without(detached, {n})

Edit(n, v) ==
  /\ n \in DOMAIN detached
  /\ detached' = Put(detached, n, v)
  /\ UNCHANGED elems

Discard(n) ==
  /\ n \in DOMAIN detached
  /\ detached' = Without(detached, {n})
  /\ UNCHANGED elems

Next ==
  \/ \E n \in Node, v \in Value : Insert(n, v) \/ Change(n, v) \/ Edit(n, v)
  \/ \E n \in Node : Erase(n) \/ Extract(n) \/ Reinsert(n) \/ Discard(n)
  \/ Clear

Spec == Init /\ [][Next]_vars
=============================================================================
