---------------------------- MODULE OrderedIndex ----------------------------
(***************************************************************************)
(* intrusive_tree, the size-augmented AVL tree behind ordered_unique,      *)
(* ordered_non_unique and their ranked twins, with the calls its container *)
(* makes on it.                                                            *)
(*                                                                         *)
(* The links, subtree sizes and heights live in the nodes, so inserting    *)
(* and erasing rewrite pointers in place: both children, the parent, and   *)
(* the two counts of every ancestor have to come out right.  A caller may  *)
(* be walking the index with an iterator all the while.                    *)
(***************************************************************************)
EXTENDS Integers, SequencesExt

CONSTANTS
  Node, Key,
  Candidate,    \* Candidate[n]: the keys the element in node n may have
  Unique,       \* ordered_unique or ordered_non_unique
  Walks,        \* whether callers walk the index with an iterator
  Nil, NoKey

ASSUME OrderedAssumption ==
  /\ Key \subseteq Int /\ NoKey \notin Key
  /\ Candidate \in [Node -> SUBSET Key]
  /\ Unique \in BOOLEAN /\ Walks \in BOOLEAN
  /\ Nil \notin Node /\ IsFiniteSet(Node)

Link == Node \cup {Nil}
Side == {"l", "r"}
Other(s) == IF s = "l" THEN "r" ELSE "l"

VARIABLES
  tree,      \* root_, n_ and the hooks of all nodes
  key,       \* node -> the key of its value now, NoKey when not an element
  pc,        \* "idle", or the step of the reposition under way
  moving,    \* the node being repositioned
  old,       \* and the key it had
  walking,   \* an iterator is in use
  cur,       \* the node it stands on, Nil at end()
  seen,      \* the elements it has passed, less those rekeyed since
  late,      \* the elements added or rekeyed since the walk began
  was        \* the order of the elements when the reposition began

walk == <<walking, cur, seen, late>>
vars == <<tree, key, pc, moving, old, walk, was>>

Elements == {n \in Node : key[n] # NoKey} \ {moving}

-----------------------------------------------------------------------------
(* The tree: links, heights and sizes.                                     *)

Trees ==
  [ root : Link, n : Nat, kid : [Side -> [Node -> Link]], up : [Node -> Link],
    size : [Node -> Nat], height : [Node -> Nat] ]

Empty ==
  [ root |-> Nil, n |-> 0,
    kid |-> [s \in Side |-> [m \in Node |-> Nil]], up |-> [m \in Node |-> Nil],
    size |-> [m \in Node |-> 1], height |-> [m \in Node |-> 1] ]

S(t, a) == IF a = Nil THEN 0 ELSE t.size[a]
Ht(t, a) == IF a = Nil THEN 0 ELSE t.height[a]

\* How much higher a's subtree on side s is than the other one.
Lean(t, a, s) == Ht(t, t.kid[s][a]) - Ht(t, t.kid[Other(s)][a])

Upd(t, a) ==
  LET hl == Ht(t, t.kid["l"][a])
      hr == Ht(t, t.kid["r"][a])
      sized == [t EXCEPT !.size[a] = 1 + S(t, t.kid["l"][a]) + S(t, t.kid["r"][a])]
  IN  [sized EXCEPT !.height[a] = 1 + (IF hl > hr THEN hl ELSE hr)]

\* c becomes a's child on side s.
Hang(t, a, s, c) ==
  LET linked == [t EXCEPT !.kid[s][a] = c]
  IN  IF c = Nil THEN linked ELSE [linked EXCEPT !.up[c] = a]

\* v takes the place of u under u's parent.
Transplant(t, u, v) ==
  LET a == t.up[u]
      linked == IF a = Nil THEN [t EXCEPT !.root = v]
                ELSE [t EXCEPT !.kid[IF t.kid["l"][a] = u THEN "l" ELSE "r"][a] = v]
  IN  IF v = Nil THEN linked ELSE [linked EXCEPT !.up[v] = a]

\* y's child x on side s takes y's place and y goes down on the other side.
Turned(t, y, s) ==
  LET x == t.kid[s][y]
  IN  Hang(Hang(Transplant(t, y, x), y, s, t.kid[Other(s)][x]), x, Other(s), y)

\* Mutant: the counts of the node that went down are not recomputed.
RotateStale(t, y, s) == Upd(Turned(t, y, s), t.kid[s][y])

\* rot_right (s = "l") and rot_left (s = "r").
Rotate(t, y, s) == Upd(Upd(Turned(t, y, s), y), t.kid[s][y])

Rebalance(t, a) ==
  IF \A s \in Side : Lean(t, a, s) <= 1 THEN t
  ELSE LET s == CHOOSE x \in Side : Lean(t, a, x) > 1
           c == t.kid[s][a]
       IN  Rotate(IF Lean(t, c, s) < 0 THEN Rotate(t, c, Other(s)) ELSE t, a, s)

\* A while loop: f is its body, and the identity once its condition is false.  No loop
\* on a tree takes more rounds than there are nodes.
Rounds == Cardinality(Node)
Loop(f, x) ==
  LET within[i \in 0..Rounds] ==
        [y \in DOMAIN f |-> LET z == f[y] IN IF i = 0 \/ z = y THEN y ELSE within[i - 1][z]]
  IN  within[Rounds][x]

\* Recompute and rebalance a and all its ancestors.
Fixup(t, a) ==
  LET f == [w \in Trees \X Link |->
              IF w[2] = Nil THEN w
              ELSE <<Rebalance(Upd(w[1], w[2]), w[2]), w[1].up[w[2]]>>]
  IN  Loop(f, <<t, a>>)[1]

\* leftmost (s = "l") and rightmost (s = "r").
Most(t, a, s) ==
  Loop([b \in Link |-> IF b = Nil \/ t.kid[s][b] = Nil THEN b ELSE t.kid[s][b]], a)

\* The first ancestor of which a is not in the subtree on side s.
Climb(t, a, s) ==
  LET f == [b \in Node |-> IF t.up[b] # Nil /\ b = t.kid[s][t.up[b]] THEN t.up[b] ELSE b]
  IN  t.up[Loop(f, a)]

\* succ (s = "r") and pred (s = "l").
Step(t, a, s) ==
  IF t.kid[s][a] # Nil THEN Most(t, t.kid[s][a], Other(s)) ELSE Climb(t, a, s)

-----------------------------------------------------------------------------
(* Searching, inserting and erasing.                                       *)

\* lb and ub: the first node that is in stop.
Bound(t, stop) ==
  LET f == [w \in Link \X Link |->
              IF w[1] = Nil THEN w
              ELSE IF w[1] \in stop THEN <<t.kid["l"][w[1]], w[1]>>
              ELSE <<t.kid["r"][w[1]], w[2]>>]
  IN  Loop(f, <<t.root, Nil>>)[2]

LowerBound(t, ks, k) == Bound(t, {m \in Node : ks[m] # NoKey /\ ks[m] >= k})
UpperBound(t, ks, k) == Bound(t, {m \in Node : ks[m] # NoKey /\ ks[m] > k})

Find(t, ks, k) ==
  LET a == LowerBound(t, ks, k) IN IF a # Nil /\ ks[a] <= k THEN a ELSE Nil

\* The nodes from a up to (and without) b, as an iterator meets them.
Run(t, a, b) ==
  LET f == [w \in Seq(Node) \X Link |->
              IF w[2] \in {b, Nil} THEN w ELSE <<Append(w[1], w[2]), Step(t, w[2], "r")>>]
  IN  Loop(f, <<<<>>, a>>)[1]

Begin(t) == Most(t, t.root, "l")

Nth(t, i) ==
  LET before(a) == S(t, t.kid["l"][a])
      f == [w \in Link \X Nat |->
              IF w[1] = Nil \/ w[2] = before(w[1]) THEN w
              ELSE IF w[2] < before(w[1]) THEN <<t.kid["l"][w[1]], w[2]>>
              ELSE <<t.kid["r"][w[1]], w[2] - before(w[1]) - 1>>]
  IN  Loop(f, <<t.root, i>>)[1]

Rank(t, a) ==
  LET before(b) == S(t, t.kid["l"][b])
      f == [w \in Node \X Nat |->
              LET b == t.up[w[1]] IN
              IF b = Nil THEN w
              ELSE <<b, IF w[1] = t.kid["r"][b] THEN w[2] + before(b) + 1 ELSE w[2]>>]
  IN  IF a = Nil THEN t.n ELSE Loop(f, <<a, before(a)>>)[2]

\* Mutant: an equal key goes to the left.
GoesLeftOnTies(ks, m, a) == ks[m] <= ks[a]

GoesLeft(ks, m, a) == ks[m] < ks[a]

\* Where avl_insert's descent ends: the parent and the side.
Leaf(t, ks, m) ==
  LET side(a) == IF GoesLeft(ks, m, a) THEN "l" ELSE "r"
      f == [a \in Node |-> IF t.kid[side(a)][a] = Nil THEN a ELSE t.kid[side(a)][a]]
      a == Loop(f, t.root)
  IN  <<a, side(a)>>

\* try_add when nothing refuses m: a fresh hook, then avl_insert.
Added(t, ks, m) ==
  LET fresh == [ root |-> t.root, n |-> t.n + 1,
                 kid |-> [s \in Side |-> [t.kid[s] EXCEPT ![m] = Nil]],
                 up |-> [t.up EXCEPT ![m] = Nil],
                 size |-> [t.size EXCEPT ![m] = 1], height |-> [t.height EXCEPT ![m] = 1] ]
      place == Leaf(t, ks, m)
  IN  IF t.root = Nil THEN [fresh EXCEPT !.root = m]
      ELSE Fixup(Hang(fresh, place[1], place[2], m), place[1])

Refuses(t, ks, m) == Unique /\ Find(t, ks, ks[m]) # Nil

\* Mutant: the fix-up starts above the place the successor has left.
FixFromSuccessor(t, s, r) == s

\* The lowest node whose subtree shrinks when s, in the right subtree r, moves up.
FixFrom(t, s, r) == IF s = r THEN s ELSE t.up[s]

\* avl_erase without its count: a z with two children gives its place to its
\* successor s, any other one to its only child.
Cut(t, z) ==
  LET l == t.kid["l"][z]
      r == t.kid["r"][z]
      s == Most(t, r, "l")
      out == IF s = r THEN t ELSE Hang(Transplant(t, s, t.kid["r"][s]), s, "r", r)
  IN  IF l = Nil \/ r = Nil
      THEN Fixup(Transplant(t, z, IF l # Nil THEN l ELSE r), t.up[z])
      ELSE Fixup(Hang(Transplant(out, z, s), s, "l", l), FixFrom(t, s, r))

Erased(t, z) == [Cut(t, z) EXCEPT !.n = @ - 1]

-----------------------------------------------------------------------------

\* The nodes of subtree a, which is no deeper than there are nodes.
InOrder(t, a) ==
  LET down[d \in 0..Rounds] ==
        [b \in Link |-> IF d = 0 \/ b = Nil THEN <<>>
                        ELSE down[d - 1][t.kid["l"][b]] \o <<b>> \o down[d - 1][t.kid["r"][b]]]
  IN  down[Rounds][a]

Order == InOrder(tree, tree.root)

\* The elements of s that are in T, in the order they have in s.
Only(s, T) ==
  LET upto[i \in 0..Len(s)] ==
        IF i = 0 THEN <<>> ELSE IF s[i] \in T THEN Append(upto[i - 1], s[i]) ELSE upto[i - 1]
  IN  upto[Len(s)]

TypeOK ==
  /\ tree \in Trees /\ tree.n <= Cardinality(Node)
  /\ key \in [Node -> Key \cup {NoKey}]
  /\ pc \in {"idle", "out", "back"}
  /\ moving \in Link /\ old \in Key \cup {NoKey}
  /\ walking \in BOOLEAN /\ cur \in Link /\ seen \subseteq Node /\ late \subseteq Node
  /\ was \in Seq(Node)

Init ==
  /\ tree = Empty
  /\ key = [m \in Node |-> NoKey]
  /\ pc = "idle" /\ moving = Nil /\ old = NoKey
  /\ walking = FALSE /\ cur = Nil /\ seen = {} /\ late = {}
  /\ was = <<>>

StopWalk == walking' = FALSE /\ cur' = Nil /\ seen' = {} /\ late' = {}

\* Node m enters, leaves or changes place; the iterator is lost if it is on it.
Disturb(m, added) ==
  IF ~walking THEN UNCHANGED walk
  ELSE IF cur = m THEN StopWalk
  ELSE /\ seen' = seen \ {m}
       /\ late' = IF added THEN late \cup {m} ELSE late \ {m}
       /\ UNCHANGED <<walking, cur>>

Insert(m, k) ==
  /\ pc = "idle" /\ key[m] = NoKey
  /\ LET ks == [key EXCEPT ![m] = k]
     IN  /\ ~Refuses(tree, ks, m)
         /\ tree' = Added(tree, ks, m) /\ key' = ks
  /\ Disturb(m, TRUE)
  /\ UNCHANGED <<pc, moving, old, was>>

Erase(m) ==
  /\ pc = "idle" /\ key[m] # NoKey
  /\ tree' = Erased(tree, m)
  /\ key' = [key EXCEPT ![m] = NoKey]
  /\ Disturb(m, FALSE)
  /\ UNCHANGED <<pc, moving, old, was>>

\* reposition: the node leaves the tree because its key has changed.
Rekey(m, k) ==
  /\ pc = "idle" /\ key[m] \notin {NoKey, k}
  /\ tree' = Erased(tree, m)
  /\ key' = [key EXCEPT ![m] = k]
  /\ pc' = "out" /\ moving' = m /\ old' = key[m] /\ was' = Order
  /\ Disturb(m, TRUE)

Settle == pc' = "idle" /\ moving' = Nil /\ old' = NoKey /\ was' = <<>>

Relink ==
  /\ pc = "out" /\ ~Refuses(tree, key, moving)
  /\ tree' = Added(tree, key, moving)
  /\ Settle
  /\ UNCHANGED <<key, walk>>

\* Another index refuses the node, before this one tries it or after it has taken
\* it; or this one does.  Either way the node is out again, with its old key.
GiveUp ==
  /\ pc = "out"
  /\ \/ UNCHANGED tree
     \/ ~Refuses(tree, key, moving) /\ tree' = Erased(Added(tree, key, moving), moving)
  /\ key' = [key EXCEPT ![moving] = old]
  /\ pc' = "back"
  /\ UNCHANGED <<moving, old, walk, was>>

RollBack ==
  /\ pc = "back" /\ ~Refuses(tree, key, moving)
  /\ tree' = Added(tree, key, moving)
  /\ Settle
  /\ UNCHANGED <<key, walk>>

Clear ==
  /\ pc = "idle"
  /\ tree' = [tree EXCEPT !.root = Nil, !.n = 0]
  /\ key' = [m \in Node |-> NoKey]
  /\ StopWalk
  /\ UNCHANGED <<pc, moving, old, was>>

StartWalk ==
  /\ Walks /\ pc = "idle" /\ ~walking
  /\ walking' = TRUE /\ cur' = Begin(tree)
  /\ UNCHANGED <<tree, key, pc, moving, old, seen, late, was>>

StepWalk ==
  /\ pc = "idle" /\ walking /\ cur # Nil
  /\ cur' = Step(tree, cur, "r") /\ seen' = seen \cup {cur}
  /\ UNCHANGED <<tree, key, pc, moving, old, walking, late, was>>

\* Mutant: the iterator is advanced after the node has left the tree.
EraseAtCursorThenStep ==
  /\ pc = "idle" /\ walking /\ cur # Nil
  /\ tree' = Erased(tree, cur)
  /\ cur' = Step(tree', cur, "r")
  /\ key' = [key EXCEPT ![cur] = NoKey]
  /\ late' = late \ {cur}
  /\ UNCHANGED <<pc, moving, old, walking, seen, was>>

\* it = index.erase(it): the successor is taken before the node goes.
EraseAtCursor ==
  /\ pc = "idle" /\ walking /\ cur # Nil
  /\ tree' = Erased(tree, cur)
  /\ cur' = Step(tree, cur, "r")
  /\ key' = [key EXCEPT ![cur] = NoKey]
  /\ late' = late \ {cur}
  /\ UNCHANGED <<pc, moving, old, walking, seen, was>>

EndWalk ==
  /\ pc = "idle" /\ walking /\ cur = Nil
  /\ StopWalk
  /\ UNCHANGED <<tree, key, pc, moving, old, was>>

\* What the container's calls do to the index.
Change ==
  \/ \E m \in Node : Erase(m) \/ \E k \in Candidate[m] : Insert(m, k) \/ Rekey(m, k)
  \/ Relink \/ GiveUp \/ RollBack
  \/ Clear

Walk == StartWalk \/ StepWalk \/ EraseAtCursor \/ EndWalk

Next == Change \/ Walk

Spec == Init /\ [][Next]_vars

-----------------------------------------------------------------------------

\* Every node's parent link, subtree size and height tell the truth and no node
\* leans by more than one: what nth(), rank(), ++ and the logarithmic cost rest on.
WellFormed ==
  /\ TypeOK
  /\ tree.root # Nil => tree.up[tree.root] = Nil
  /\ tree.n = Len(Order)
  /\ \A a \in ToSet(Order) :
       /\ tree.size[a] = Len(InOrder(tree, a))
       /\ \A s \in Side : tree.kid[s][a] # Nil => tree.up[tree.kid[s][a]] = a
       /\ tree.height[a] = Upd(tree, a).height[a]
       /\ \A s \in Side : Lean(tree, a, s) <= 1

\* find, lower_bound, upper_bound, equal_range, count, nth and rank answer as a scan
\* of the elements in order would, and ++ and -- walk that order both ways.
LookupsExact ==
  /\ ToSet(Order) = Elements
  /\ \A k \in Key :
       LET below == Only(Order, {m \in Elements : key[m] < k})
           equal == Only(Order, {m \in Elements : key[m] = k})
           lo == LowerBound(tree, key, k)
           hi == UpperBound(tree, key, k)
       IN  /\ Run(tree, lo, hi) = equal
           /\ Run(tree, Begin(tree), lo) = below
           /\ Find(tree, key, k) = IF equal = <<>> THEN Nil ELSE equal[1]
  /\ \A i \in 0..tree.n :
       LET m == Nth(tree, i)
       IN  /\ m = IF i < tree.n THEN Order[i + 1] ELSE Nil
           /\ Rank(tree, m) = i
           /\ i < tree.n => Step(tree, m, "l") = IF i = 0 THEN Nil ELSE Order[i]

\* A walk meets every element exactly once and in order, except one that is added or
\* rekeyed meanwhile; erasing and rotating under the iterator does not derail it.
WalkInOrder ==
  walking =>
    LET at == IF cur = Nil THEN Len(Order) + 1 ELSE SelectInSeq(Order, LAMBDA m : m = cur)
        behind == ToSet(SubSeq(Order, 1, at - 1))
    IN  at # 0 /\ seen \subseteq behind \cup {moving} /\ behind \subseteq seen \cup late

\* The order the caller sees, with the key each element is filed under.
Filed == [i \in DOMAIN Order |-> [node |-> Order[i], key |-> key[Order[i]]]]

Sorted == INSTANCE OrderedSpec WITH seq <- Filed

\* The tree implements the sorted sequence: adding, erasing and rotating never
\* reorder other elements, and an added element follows its equals.
Refines == Sorted!Spec

\* A refused modification or replacement leaves the element in its place, also
\* among the elements with an equal key.
RefusedStaysInPlace == [][pc = "back" /\ pc' = "idle" => Order' = was]_vars
=============================================================================
