------------------------------ MODULE HashIndex ------------------------------
(***************************************************************************)
(* intrusive_hash, the bucketed table behind hashed_unique and             *)
(* hashed_non_unique, with the calls its container makes on it.            *)
(*                                                                         *)
(* Chains run through the nodes; the node also caches the hash it was      *)
(* filed under.  The container repositions an element by mutating its      *)
(* value first and unlinking the node afterwards, so the cached hash is    *)
(* what leads back to the right bucket.  A caller may be walking the index *)
(* with an iterator, erasing as it goes.                                   *)
(***************************************************************************)
EXTENDS Integers, SequencesExt

CONSTANTS
  Node, Key,
  HashOf,           \* HashOf[k]: the hasher
  InitialBuckets,   \* buckets of a new table (8 in the code)
  NoNode, NoKey

ASSUME HashAssumption ==
  /\ HashOf \in [Key -> Nat]
  /\ InitialBuckets \in Nat \ {0}
  /\ NoNode \notin Node /\ NoKey \notin Key

VARIABLES
  unique,    \* hashed_unique or hashed_non_unique, for the life of the table
  table,     \* the chains of the buckets, the cached hashes, and n_
  key,       \* node -> the key of its value now, NoKey when not an element
  pc,        \* "idle", or the step of the reposition under way
  moving,    \* the node being repositioned
  old,       \* and the key it had
  walking,   \* an iterator is in use
  cur,       \* the node it stands on, NoNode at end()
  seen       \* the elements it has passed

walk == <<walking, cur, seen>>
vars == <<unique, table, key, pc, moving, old, walk>>

-----------------------------------------------------------------------------
(* The table.                                                              *)

Empty(nb) == [chain |-> [b \in 1..nb |-> <<>>], hash |-> [n \in Node |-> 0], n |-> 0]

Buckets(t) == Len(t.chain)
Bucket(t, h) == (h % Buckets(t)) + 1

Order(t) == FlattenSeq(t.chain)
Linked(t) == ToSet(Order(t))

\* The first node of k's bucket that has key k.
FindNode(t, ks, k) ==
  LET c == t.chain[Bucket(t, HashOf[k])]
      i == SelectInSeq(c, LAMBDA q : ks[q] = k)
  IN  IF i = 0 THEN NoNode ELSE c[i]

\* rehash_to: one after the other, the nodes are prepended to their new chains.
Refiled(order, hash, nb) ==
  LET filed[i \in 0..Len(order)] ==
        IF i = 0 THEN [b \in 1..nb |-> <<>>]
        ELSE [filed[i - 1] EXCEPT ![(hash[order[i]] % nb) + 1] = Cons(order[i], @)]
  IN  filed[Len(order)]

\* maybe_grow, at max_load_factor 1
Grown(t) ==
  IF t.n <= Buckets(t) THEN t
  ELSE [t EXCEPT !.chain = Refiled(Order(t), t.hash, 2 * Buckets(t))]

\* Mutant: a node is prepended even when its key is there already.
AddedInFront(t, ks, n) ==
  LET b == Bucket(t, HashOf[ks[n]])
  IN  Grown([t EXCEPT !.chain[b] = <<n>> \o @, !.hash[n] = HashOf[ks[n]], !.n = @ + 1])

\* try_add when nothing refuses n: after the first node with its key, if any.
Added(t, ks, n) ==
  LET b == Bucket(t, HashOf[ks[n]])
      i == SelectInSeq(t.chain[b], LAMBDA q : ks[q] = ks[n])
  IN  Grown([chain |-> [t.chain EXCEPT ![b] = InsertAt(@, i + 1, n)],
             hash |-> [t.hash EXCEPT ![n] = HashOf[ks[n]]],
             n |-> t.n + 1])

\* Mutant: the table takes every node.
RefusesNothing(t, ks, n) == FALSE

Refuses(t, ks, n) == unique /\ FindNode(t, ks, ks[n]) # NoNode

\* erase_node: the bucket comes from the cached hash.
Unlinked(t, n) ==
  LET b == Bucket(t, t.hash[n])
  IN  IF Contains(t.chain[b], n)
      THEN [t EXCEPT !.chain[b] = RemoveFirst(@, n), !.n = @ - 1]
      ELSE t

\* The first node in bucket b or after it.
FirstFrom(t, b) ==
  LET i == SelectInSubSeq(t.chain, b, Buckets(t), LAMBDA c : c # <<>>)
  IN  IF i = 0 THEN NoNode ELSE t.chain[i][1]

\* iterator::operator++
Succ(t, n) ==
  LET b == Bucket(t, t.hash[n])
      i == SelectInSeq(t.chain[b], LAMBDA q : q = n)
  IN  IF i < Len(t.chain[b]) THEN t.chain[b][i + 1] ELSE FirstFrom(t, b + 1)

\* equal_range: from the first match to the last of the matches that follow it.
EqualRange(t, ks, k) ==
  LET c == t.chain[Bucket(t, HashOf[k])]
      i == SelectInSeq(c, LAMBDA q : ks[q] = k)
      stop == SelectInSubSeq(c, i, Len(c), LAMBDA q : ks[q] # k)
  IN  IF i = 0 THEN <<>> ELSE SubSeq(c, i, IF stop = 0 THEN Len(c) ELSE stop - 1)

Count(t, ks, k) ==
  LET c == t.chain[Bucket(t, HashOf[k])] IN Cardinality({i \in DOMAIN c : ks[c[i]] = k})

-----------------------------------------------------------------------------

TypeOK ==
  /\ unique \in BOOLEAN
  /\ Buckets(table) > 0 /\ table.chain \in Seq(Seq(Node))
  /\ table.hash \in [Node -> Nat] /\ table.n \in Nat
  /\ key \in [Node -> Key \cup {NoKey}]
  /\ pc \in {"idle", "out", "back"}
  /\ moving \in Node \cup {NoNode} /\ old \in Key \cup {NoKey}
  /\ walking \in BOOLEAN /\ cur \in Node \cup {NoNode} /\ seen \subseteq Node

Init ==
  /\ unique \in BOOLEAN
  /\ table = Empty(InitialBuckets)
  /\ key = [n \in Node |-> NoKey]
  /\ pc = "idle" /\ moving = NoNode /\ old = NoKey
  /\ walking = FALSE /\ cur = NoNode /\ seen = {}

\* Nothing is promised to a walk during which elements are added or rekeyed:
\* it may meet them again or not at all.
StopWalk == walking' = FALSE /\ cur' = NoNode /\ seen' = {}

Insert(n, k) ==
  /\ pc = "idle" /\ key[n] = NoKey
  /\ LET ks == [key EXCEPT ![n] = k] IN
       IF Refuses(table, ks, n) THEN UNCHANGED <<table, key>>
       ELSE table' = Added(table, ks, n) /\ key' = ks
  /\ StopWalk
  /\ UNCHANGED <<pc, moving, old>>

Erase(n) ==
  /\ pc = "idle" /\ key[n] # NoKey
  /\ table' = Unlinked(table, n)
  /\ key' = [key EXCEPT ![n] = NoKey]
  /\ IF cur = n THEN StopWalk ELSE seen' = seen \ {n} /\ UNCHANGED <<walking, cur>>
  /\ UNCHANGED <<pc, moving, old>>

\* Mutant: the bucket is derived from the value, which has the new key already.
RekeyByValue(n, k) ==
  /\ pc = "idle" /\ key[n] \notin {NoKey, k}
  /\ table' = Unlinked([table EXCEPT !.hash[n] = HashOf[k]], n)
  /\ key' = [key EXCEPT ![n] = k]
  /\ pc' = "out" /\ moving' = n /\ old' = key[n]
  /\ StopWalk

\* reposition: the node leaves its bucket because its key has changed.  The code
\* swaps the old value back in for this, which changes nothing behind a pointer.
Rekey(n, k) ==
  /\ pc = "idle" /\ key[n] \notin {NoKey, k}
  /\ table' = Unlinked(table, n)
  /\ key' = [key EXCEPT ![n] = k]
  /\ pc' = "out" /\ moving' = n /\ old' = key[n]
  /\ StopWalk

Settle == pc' = "idle" /\ moving' = NoNode /\ old' = NoKey

Relink ==
  /\ pc = "out" /\ ~Refuses(table, key, moving)
  /\ table' = Added(table, key, moving)
  /\ Settle
  /\ UNCHANGED <<key, walk>>

RestoreKey == key' = [key EXCEPT ![moving] = old] /\ pc' = "back"

RefuseRelink ==
  /\ pc = "out" /\ Refuses(table, key, moving)
  /\ RestoreKey
  /\ UNCHANGED <<table, moving, old, walk>>

\* This table takes the node, a later index refuses it, and it is unlinked again.
Veto ==
  /\ pc = "out" /\ ~Refuses(table, key, moving)
  /\ table' = Unlinked(Added(table, key, moving), moving)
  /\ RestoreKey
  /\ UNCHANGED <<moving, old, walk>>

RollBack ==
  /\ pc = "back" /\ ~Refuses(table, key, moving)
  /\ table' = Added(table, key, moving)
  /\ Settle
  /\ UNCHANGED <<key, walk>>

Clear ==
  /\ pc = "idle"
  /\ table' = [table EXCEPT !.chain = [b \in 1..Buckets(table) |-> <<>>], !.n = 0]
  /\ key' = [n \in Node |-> NoKey]
  /\ StopWalk
  /\ UNCHANGED <<pc, moving, old>>

\* The table is moved from: another container has the nodes, this one is left
\* with a single empty bucket.
MoveAway ==
  /\ pc = "idle"
  /\ table' = Empty(1)
  /\ key' = [n \in Node |-> NoKey]
  /\ StopWalk
  /\ UNCHANGED <<pc, moving, old>>

StartWalk ==
  /\ pc = "idle" /\ ~walking
  /\ walking' = TRUE /\ cur' = FirstFrom(table, 1) /\ seen' = {}
  /\ UNCHANGED <<table, key, pc, moving, old>>

StepWalk ==
  /\ pc = "idle" /\ walking /\ cur # NoNode
  /\ cur' = Succ(table, cur) /\ seen' = seen \cup {cur}
  /\ UNCHANGED <<table, key, pc, moving, old, walking>>

\* Mutant: the iterator is advanced in the table the node has left.
EraseAtCursorThenStep ==
  /\ pc = "idle" /\ walking /\ cur # NoNode
  /\ table' = Unlinked(table, cur)
  /\ key' = [key EXCEPT ![cur] = NoKey]
  /\ cur' = Succ(table', cur)
  /\ UNCHANGED <<pc, moving, old, walking, seen>>

\* it = index.erase(it): the successor is taken before the node goes.
EraseAtCursor ==
  /\ pc = "idle" /\ walking /\ cur # NoNode
  /\ cur' = Succ(table, cur)
  /\ table' = Unlinked(table, cur)
  /\ key' = [key EXCEPT ![cur] = NoKey]
  /\ UNCHANGED <<pc, moving, old, walking, seen>>

EndWalk ==
  /\ pc = "idle" /\ walking /\ cur = NoNode
  /\ StopWalk
  /\ UNCHANGED <<table, key, pc, moving, old>>

Operation ==
  \/ \E n \in Node, k \in Key : Insert(n, k) \/ Rekey(n, k)
  \/ \E n \in Node : Erase(n)
  \/ Relink \/ RefuseRelink \/ Veto \/ RollBack
  \/ Clear \/ MoveAway
  \/ StartWalk \/ StepWalk \/ EraseAtCursor \/ EndWalk

Next == Operation /\ UNCHANGED unique

Spec == Init /\ [][Next]_vars

-----------------------------------------------------------------------------

Elements == {n \in Node : key[n] # NoKey} \ {moving}

\* The chains hold every element exactly once, in the bucket that the hash of the
\* key it has now selects, and n_ counts them; in particular a node is found and
\* unlinked after its value has changed under it.
BucketsConsistent ==
  /\ TypeOK
  /\ Linked(table) = Elements
  /\ Len(Order(table)) = Cardinality(Elements) /\ table.n = Cardinality(Elements)
  /\ \A b \in 1..Buckets(table) : \A n \in ToSet(table.chain[b]) :
       table.hash[n] = HashOf[key[n]] /\ Bucket(table, HashOf[key[n]]) = b

\* After any history of splices, rehashes and erasures, equal_range, count and find
\* answer for every key as a scan of all elements would.
LookupsExact ==
  \A k \in Key :
    LET matches == {n \in Elements : key[n] = k}
        range == EqualRange(table, key, k)
    IN  /\ ToSet(range) = matches /\ Len(range) = Cardinality(matches)
        /\ Count(table, key, k) = Cardinality(matches)
        /\ IF matches = {} THEN FindNode(table, key, k) = NoNode
           ELSE FindNode(table, key, k) \in matches

\* A walk meets every element that survives it exactly once, even when elements are
\* erased at the iterator, behind it and ahead of it.
WalkComplete ==
  walking =>
    LET at == SelectInSeq(Order(table), LAMBDA n : n = cur)
        ahead == IF cur = NoNode THEN {} ELSE ToSet(SubSeq(Order(table), at, Len(Order(table))))
    IN  /\ cur # NoNode => at # 0
        /\ seen \cap ahead = {} /\ seen \cup ahead = Elements

\* Until a reposition is over, the element has the key it had.
Keys == [n \in {m \in Node : key[m] # NoKey} |-> IF n = moving THEN old ELSE key[n]]

KeyOf == [i \in {1} |-> [k \in Key |-> k]]

UniqueContainer == INSTANCE MultiIndexSpec WITH
  Value <- Key, Index <- {1}, Unique <- {1}, KeyOf <- KeyOf, elems <- Keys, detached <- <<>>

MultiContainer == INSTANCE MultiIndexSpec WITH
  Value <- Key, Index <- {1}, Unique <- {}, KeyOf <- KeyOf, elems <- Keys, detached <- <<>>

\* The table with its repositions implements the abstract container with one index
\* on the key itself: a unique one takes no duplicate key, a non-unique one refuses
\* nothing, and changes are all-or-nothing.
Refines ==
  /\ UniqueContainer!Init
  /\ [][IF unique THEN UniqueContainer!Next ELSE MultiContainer!Next]_Keys
=============================================================================
