-------------------------- MODULE OrderedIndexProofs --------------------------
(***************************************************************************)
(* Proofs about OrderedIndex and OrderedQueries, for every number of nodes *)
(* and keys: rotations, insertions and erasures keep a search tree a       *)
(* search tree, with true counts and balanced, every lookup answers as a   *)
(* scan would, an iterator survives the changes around it, and the tree is *)
(* a sorted sequence.                                                      *)
(***************************************************************************)
EXTENDS OrderedQueries, SequenceLemmas

-----------------------------------------------------------------------------
(* Loops.                                                                  *)

\* The bound on a loop is a number.
LEMMA RoundsCount == Rounds \in Nat
  BY OrderedAssumption, FS_CardinalityType DEF Rounds

\* w[i] does at most i rounds of the loop with body f.
IsLoop(w, f) ==
  \A i \in 0..Rounds : \A y \in DOMAIN f :
    w[i][y] = IF i = 0 \/ f[y] = y THEN y ELSE w[i - 1][f[y]]

\* Loop is the last row of the table of its rounds.
LEMMA LoopUnrolls ==
  ASSUME NEW f
  PROVE  \E w : IsLoop(w, f) /\ \A x \in DOMAIN f : Loop(f, x) = w[Rounds][x]
<1> DEFINE X == DOMAIN f
           Round(v, i) == [y \in X |-> LET z == f[y] IN IF i = 0 \/ z = y THEN y ELSE v[i - 1][z]]
           W(w) == w = [i \in 0..Rounds |-> Round(w, i)]
           Upto(w, n) == \A i \in 0..n : w[i] = Round(w, i)
           T == {n \in Nat : \E w : Upto(w, n)}
<1>1. Rounds \in Nat
  BY RoundsCount
<1>2. 0 \in T
  <2> DEFINE v == [i \in {0} |-> [y \in X |-> y]]
  <2>1. Round(v, 0) = [y \in X |-> y]
    OBVIOUS
  <2>2. v[0] = Round(v, 0)
    BY <2>1
  <2> HIDE DEF Round, v
  <2>3. Upto(v, 0)
    BY <2>2
  <2> HIDE DEF Upto
  <2> QED
    BY <2>3
<1>3. ASSUME NEW n \in Nat, n \in T PROVE n + 1 \in T
  <2>1. PICK w : Upto(w, n)
    BY <1>3
  <2> DEFINE v == [i \in 0..(n + 1) |-> IF i <= n THEN w[i] ELSE Round(w, n + 1)]
  <2>2. \A i \in 0..n : v[i] = w[i] /\ i \in 0..(n + 1)
    OBVIOUS
  <2>3. v[n + 1] = Round(w, n + 1)
    <3> HIDE DEF Round
    <3> QED
      OBVIOUS
  <2>4. ASSUME NEW i \in 0..(n + 1) PROVE Round(v, i) = Round(w, i)
    <3>1. CASE i = 0
      BY <3>1
    <3>2. CASE i # 0
      <4>1. i - 1 \in 0..n
        BY <3>2
      <4>2. v[i - 1] = w[i - 1]
        BY <2>2, <4>1
      <4> HIDE DEF v
      <4> QED
        BY <4>2
    <3> QED
      BY <3>1, <3>2
  <2> HIDE DEF v, Round
  <2>5. ASSUME NEW i \in 0..(n + 1) PROVE v[i] = Round(v, i)
    <3>1. CASE i = n + 1
      BY <2>3, <2>4, <3>1
    <3>2. CASE i # n + 1
      <4>1. i \in 0..n
        BY <3>2
      <4> QED
        BY <2>1, <2>2, <2>4, <4>1
    <3> QED
      BY <3>1, <3>2
  <2>6. Upto(v, n + 1)
    BY <2>5
  <2> HIDE DEF Upto
  <2> QED
    BY <2>6
<1> HIDE DEF T
<1>4. Rounds \in T
  BY <1>1, <1>2, <1>3, InductiveSet
<1>5. PICK g : Upto(g, Rounds)
  BY <1>4 DEF T
<1> DEFINE G == [i \in 0..Rounds |-> g[i]]
<1>6. ASSUME NEW i \in 0..Rounds PROVE G[i] = Round(G, i)
  <2>1. g[i] = Round(g, i)
    BY <1>5
  <2>2. i # 0 => i - 1 \in 0..Rounds
    BY <1>1
  <2>3. i # 0 => G[i - 1] = g[i - 1]
    BY <2>2
  <2>4. Round(G, i) = Round(g, i)
    <3>1. CASE i = 0
      BY <3>1
    <3>2. CASE i # 0
      <4>1. G[i - 1] = g[i - 1]
        BY <2>3, <3>2
      <4> HIDE DEF G
      <4> QED
        BY <4>1
    <3> QED
      BY <3>1, <3>2
  <2> HIDE DEF Round
  <2> QED
    BY <2>1, <2>4
<1>7. W(G)
  <2> HIDE DEF Round
  <2>1. G = [i \in 0..Rounds |-> G[i]]
    OBVIOUS
  <2> HIDE DEF G
  <2> QED
    BY <1>6, <2>1
<1> DEFINE w == CHOOSE v : W(v)
<1>8. W(w)
  BY <1>7
<1>9. \A x \in X : Loop(f, x) = w[Rounds][x]
  BY DEF Loop
<1> HIDE DEF w
<1>10. IsLoop(w, f)
  <2>1. \A i \in 0..Rounds : w[i] = Round(w, i)
    <3> HIDE DEF Round
    <3> QED
      BY <1>8
  <2>2. ASSUME NEW i \in 0..Rounds, NEW y \in X
        PROVE  w[i][y] = IF i = 0 \/ f[y] = y THEN y ELSE w[i - 1][f[y]]
    <3>1. w[i] = Round(w, i)
      BY <2>1
    <3>2. Round(w, i)[y] = IF i = 0 \/ f[y] = y THEN y ELSE w[i - 1][f[y]]
      OBVIOUS
    <3> HIDE DEF Round
    <3> QED
      BY <3>1, <3>2, Zenon
  <2> QED
    BY <2>2, Zenon DEF IsLoop
<1> QED
  BY <1>9, <1>10

\* Hoare's rule, with a stage of the invariant for each round: at the last one the
\* result is in the last stage.
LEMMA LoopInStages ==
  ASSUME NEW f, NEW I \in [0..Rounds -> SUBSET DOMAIN f], NEW x \in I[0],
         \A i \in 0..Rounds : i < Rounds => \A y \in I[i] : f[y] \in I[i + 1]
  PROVE  Loop(f, x) \in I[Rounds]
<1>1. Rounds \in Nat /\ 0 \in 0..Rounds /\ \A i \in 0..Rounds : I[i] \subseteq DOMAIN f
  BY RoundsCount
<1>2. PICK w : IsLoop(w, f) /\ \A y \in DOMAIN f : Loop(f, y) = w[Rounds][y]
  BY LoopUnrolls
<1>3. \A i \in 0..Rounds : \A y \in DOMAIN f :
        w[i][y] = IF i = 0 \/ f[y] = y THEN y ELSE w[i - 1][f[y]]
  BY <1>2 DEF IsLoop
<1> DEFINE T == {n \in Nat : n <= Rounds => \A y \in I[Rounds - n] : w[n][y] \in I[Rounds]}
<1>4. 0 \in T
  BY <1>1, <1>3
<1>5. ASSUME NEW n \in Nat, n \in T PROVE n + 1 \in T
  <2> SUFFICES ASSUME n + 1 <= Rounds, NEW y \in I[Rounds - (n + 1)]
               PROVE  w[n + 1][y] \in I[Rounds]
    OBVIOUS
  <2> DEFINE i == Rounds - (n + 1)
  <2>1. /\ i \in 0..Rounds /\ i < Rounds /\ i + 1 = Rounds - n /\ n \in 0..Rounds
        /\ n + 1 \in 0..Rounds /\ n + 1 # 0 /\ (n + 1) - 1 = n
    BY <1>1
  <2>2. y \in DOMAIN f /\ f[y] \in I[Rounds - n] /\ f[y] \in DOMAIN f
    <3>1. y \in I[i]
      OBVIOUS
    <3> HIDE DEF i
    <3> QED
      BY <1>1, <2>1, <3>1
  <2>3. w[n][f[y]] \in I[Rounds]
    BY <1>5, <2>1, <2>2
  <2>4. CASE f[y] = y
    <3>1. w[n][y] = y /\ w[n + 1][y] = y
      BY <1>3, <2>1, <2>2, <2>4
    <3> QED
      BY <2>3, <2>4, <3>1
  <2>5. CASE f[y] # y
    <3>1. w[n + 1][y] = w[n][f[y]]
      BY <1>3, <2>1, <2>2, <2>5
    <3> QED
      BY <2>3, <3>1
  <2> QED
    BY <2>4, <2>5
<1> HIDE DEF T
<1>6. Rounds \in T
  BY <1>1, <1>4, <1>5, InductiveSet
<1> QED
  <2>1. \A y \in I[Rounds - Rounds] : w[Rounds][y] \in I[Rounds]
    BY <1>1, <1>6 DEF T
  <2>2. Rounds - Rounds = 0
    BY <1>1
  <2> QED
    BY <1>1, <1>2, <2>1, <2>2

\* Hoare's rule for a loop that terminates: m bounds the rounds left.
LEMMA LoopEnds ==
  ASSUME NEW f, NEW J \in SUBSET DOMAIN f, NEW m \in [J -> Nat], NEW x \in J,
         m[x] <= Rounds,
         \A y \in J : f[y] \in J /\ (f[y] = y \/ m[f[y]] < m[y])
  PROVE  Loop(f, x) \in J /\ f[Loop(f, x)] = Loop(f, x)
<1> DEFINE I == [i \in 0..Rounds |-> {y \in J : f[y] = y \/ m[y] <= Rounds - i}]
<1>1. Rounds \in Nat /\ 0 \in 0..Rounds /\ Rounds \in 0..Rounds /\ \A y \in J : m[y] \in Nat
  BY RoundsCount
<1>2. I \in [0..Rounds -> SUBSET DOMAIN f] /\ x \in I[0]
  BY <1>1
<1>3. ASSUME NEW i \in 0..Rounds, i < Rounds, NEW y \in I[i] PROVE f[y] \in I[i + 1]
  <2>1. i + 1 \in 0..Rounds
    BY <1>1, <1>3
  <2>2. y \in J /\ f[y] \in J /\ (f[y] = y \/ m[y] <= Rounds - i)
    OBVIOUS
  <2>3. f[f[y]] = f[y] \/ m[f[y]] <= Rounds - (i + 1)
    <3>1. CASE f[y] = y
      BY <3>1
    <3>2. CASE f[y] # y
      <4>1. m[f[y]] < m[y] /\ m[y] <= Rounds - i /\ m[f[y]] \in Nat /\ m[y] \in Nat
        BY <1>1, <2>2, <3>2
      <4> QED
        BY <1>1, <4>1
    <3> QED
      BY <3>1, <3>2
  <2> QED
    BY <2>1, <2>2, <2>3
<1> HIDE DEF I
<1>4. Loop(f, x) \in I[Rounds]
  BY <1>2, <1>3, LoopInStages
<1> DEFINE z == Loop(f, x)
<1>5. z \in J /\ (f[z] = z \/ m[z] <= Rounds - Rounds)
  BY <1>1, <1>4 DEF I
<1> HIDE DEF z
<1>6. m[z] <= Rounds - Rounds => ~(m[f[z]] < m[z])
  <2>1. m[z] \in Nat /\ m[f[z]] \in Nat
    BY <1>1, <1>5
  <2> QED
    BY <1>1, <2>1
<1>7. f[z] = z
  BY <1>5, <1>6
<1> QED
  BY <1>5, <1>7 DEF z

\* The result of a loop has the type of its states.
LEMMA LoopType ==
  ASSUME NEW X, NEW f \in [X -> X], NEW x \in X
  PROVE  Loop(f, x) \in X
<1> DEFINE I == [i \in 0..Rounds |-> X]
<1>1. Rounds \in Nat /\ 0 \in 0..Rounds /\ Rounds \in 0..Rounds
  BY RoundsCount
<1>2. I \in [0..Rounds -> SUBSET DOMAIN f] /\ x \in I[0] /\ I[Rounds] = X
  BY <1>1
<1>3. \A i \in 0..Rounds : i < Rounds => \A y \in I[i] : f[y] \in I[i + 1]
  BY <1>1
<1> HIDE DEF I
<1> QED
  BY <1>2, <1>3, LoopInStages

-----------------------------------------------------------------------------
(* What the primitive updates assign, field by field.                      *)

\* The two sides.
LEMMA Sides ==
  /\ Side = {"l", "r"} /\ "l" \in Side /\ "r" \in Side
  /\ Other("l") = "r" /\ Other("r") = "l"
  /\ \A s \in Side : Other(s) \in Side /\ Other(s) # s /\ Other(Other(s)) = s
  /\ \A s, q \in Side : q = s \/ q = Other(s)
  BY DEF Side, Other

\* The types of a tree's fields.
LEMMA TreeFields ==
  ASSUME NEW t \in Trees
  PROVE  /\ t.root \in Link /\ t.n \in Nat
         /\ \A s \in Side : t.kid[s] \in [Node -> Link]
         /\ \A s \in Side : \A a \in Node : t.kid[s][a] \in Link
         /\ t.up \in [Node -> Link] /\ \A a \in Node : t.up[a] \in Link
         /\ t.size \in [Node -> Nat] /\ t.height \in [Node -> Nat]
         /\ \A a \in Link : S(t, a) \in Nat /\ Ht(t, a) \in Nat
         /\ t.kid \in [Side -> [Node -> Link]]
<1>1. /\ t.root \in Link /\ t.n \in Nat /\ t.kid \in [Side -> [Node -> Link]]
      /\ t.up \in [Node -> Link] /\ t.size \in [Node -> Nat] /\ t.height \in [Node -> Nat]
  BY DEF Trees
<1>2. \A a \in Link : S(t, a) \in Nat /\ Ht(t, a) \in Nat
  BY <1>1 DEF S, Ht, Link
<1> QED
  BY <1>1, <1>2

\* u is t with c as a's child on side s; c's parent is set if there is a c.
IsHung(u, t, a, s, c) ==
  /\ u \in Trees /\ u.root = t.root /\ u.n = t.n /\ u.size = t.size /\ u.height = t.height
  /\ \A q \in Side : \A x \in Node : u.kid[q][x] = IF q = s /\ x = a THEN c ELSE t.kid[q][x]
  /\ \A x \in Node : u.up[x] = IF x = c THEN a ELSE t.up[x]

\* What Hang assigns.
LEMMA HangFields ==
  ASSUME NEW t \in Trees, NEW a \in Node, NEW s \in Side, NEW c \in Link
  PROVE  IsHung(Hang(t, a, s, c), t, a, s, c)
<1> DEFINE linked == [t EXCEPT !.kid[s][a] = c]
           u == Hang(t, a, s, c)
<1>1. /\ linked \in Trees /\ linked.root = t.root /\ linked.n = t.n /\ linked.up = t.up
      /\ linked.size = t.size /\ linked.height = t.height
      /\ \A q \in Side : \A x \in Node :
           linked.kid[q][x] = IF q = s /\ x = a THEN c ELSE t.kid[q][x]
  BY DEF Trees
<1>2. CASE c = Nil
  <2>1. u = linked
    BY <1>2 DEF Hang
  <2> HIDE DEF linked, u
  <2> QED
    BY <1>1, <1>2, <2>1, OrderedAssumption DEF u, IsHung
<1>3. CASE c # Nil
  <2>1. u = [linked EXCEPT !.up[c] = a] /\ c \in Node
    BY <1>3 DEF Hang, Link
  <2> HIDE DEF linked, u
  <2>2. /\ u \in Trees /\ u.root = linked.root /\ u.n = linked.n /\ u.kid = linked.kid
        /\ u.size = linked.size /\ u.height = linked.height
        /\ \A x \in Node : u.up[x] = IF x = c THEN a ELSE linked.up[x]
    <3>1. a \in Link
      BY DEF Link
    <3> QED
      BY <1>1, <2>1, <3>1 DEF Trees
  <2> QED
    BY <1>1, <2>2 DEF u, IsHung
<1> QED
  BY <1>2, <1>3

\* The side on which a's parent has it, as the code finds it out.
SideOf(t, a) == IF t.kid["l"][t.up[a]] = a THEN "l" ELSE "r"

\* w is t with v in u's place under u's parent.
IsTransplanted(w, t, u, v) ==
  /\ w \in Trees /\ w.root = (IF t.up[u] = Nil THEN v ELSE t.root) /\ w.n = t.n
  /\ w.size = t.size /\ w.height = t.height
  /\ \A q \in Side : \A x \in Node :
       w.kid[q][x] = IF x = t.up[u] /\ q = SideOf(t, u) THEN v ELSE t.kid[q][x]
  /\ \A x \in Node : w.up[x] = IF x = v THEN t.up[u] ELSE t.up[x]

\* What Transplant assigns.
LEMMA TransplantFields ==
  ASSUME NEW t \in Trees, NEW u \in Node, NEW v \in Link
  PROVE  IsTransplanted(Transplant(t, u, v), t, u, v)
<1> DEFINE a == t.up[u]
           q0 == SideOf(t, u)
           linked == IF a = Nil THEN [t EXCEPT !.root = v] ELSE [t EXCEPT !.kid[q0][a] = v]
           w == Transplant(t, u, v)
<1>1. a \in Link /\ q0 \in Side /\ (a # Nil => a \in Node)
  BY TreeFields, Sides DEF Link, SideOf
<1> HIDE DEF q0
<1>2. /\ linked \in Trees /\ linked.root = (IF a = Nil THEN v ELSE t.root) /\ linked.n = t.n
      /\ linked.up = t.up /\ linked.size = t.size /\ linked.height = t.height
      /\ \A q \in Side : \A x \in Node :
           linked.kid[q][x] = IF x = a /\ q = q0 THEN v ELSE t.kid[q][x]
  <2>1. CASE a = Nil
    <3>1. linked = [t EXCEPT !.root = v] /\ a \notin Node
      BY <2>1, OrderedAssumption
    <3> HIDE DEF linked, a
    <3> QED
      BY <2>1, <3>1 DEF Trees
  <2>2. CASE a # Nil
    <3>1. linked = [t EXCEPT !.kid[q0][a] = v] /\ a \in Node
      BY <1>1, <2>2
    <3> HIDE DEF linked, a
    <3> QED
      BY <1>1, <2>2, <3>1 DEF Trees
  <2> QED
    BY <2>1, <2>2
<1>3. w = IF v = Nil THEN linked ELSE [linked EXCEPT !.up[v] = a]
  BY DEF Transplant, q0, SideOf
<1> HIDE DEF w, linked, a
<1>4. CASE v = Nil
  <2>1. w = linked /\ \A x \in Node : x # v
    BY <1>3, <1>4, OrderedAssumption
  <2> QED
    BY <1>2, <2>1 DEF w, a, q0, IsTransplanted
<1>5. CASE v # Nil
  <2>1. w = [linked EXCEPT !.up[v] = a] /\ v \in Node
    BY <1>3, <1>5 DEF Link
  <2>2. /\ w \in Trees /\ w.root = linked.root /\ w.n = linked.n /\ w.kid = linked.kid
        /\ w.size = linked.size /\ w.height = linked.height
        /\ \A x \in Node : w.up[x] = IF x = v THEN a ELSE linked.up[x]
    BY <1>1, <1>2, <2>1 DEF Trees
  <2> QED
    BY <1>2, <2>2 DEF w, a, q0, IsTransplanted
<1> QED
  BY <1>4, <1>5

\* As the comparison in upd picks it.
Larger(i, j) == IF i > j THEN i ELSE j

\* u is t with a's size and height counted anew.
IsUpdated(u, t, a) ==
  /\ u \in Trees /\ u.root = t.root /\ u.n = t.n /\ u.kid = t.kid /\ u.up = t.up
  /\ \A x \in Node :
       /\ u.size[x] = IF x = a THEN 1 + S(t, t.kid["l"][a]) + S(t, t.kid["r"][a]) ELSE t.size[x]
       /\ u.height[x] = IF x = a THEN 1 + Larger(Ht(t, t.kid["l"][a]), Ht(t, t.kid["r"][a]))
                        ELSE t.height[x]

\* What Upd assigns.
LEMMA UpdFields ==
  ASSUME NEW t \in Trees, NEW a \in Node
  PROVE  IsUpdated(Upd(t, a), t, a)
<1> DEFINE z == 1 + S(t, t.kid["l"][a]) + S(t, t.kid["r"][a])
           h == 1 + Larger(Ht(t, t.kid["l"][a]), Ht(t, t.kid["r"][a]))
           sized == [t EXCEPT !.size[a] = z]
           u == Upd(t, a)
<1>1. z \in Nat /\ h \in Nat
  <2>1. /\ S(t, t.kid["l"][a]) \in Nat /\ S(t, t.kid["r"][a]) \in Nat
        /\ Ht(t, t.kid["l"][a]) \in Nat /\ Ht(t, t.kid["r"][a]) \in Nat
    BY TreeFields, Sides
  <2> QED
    BY <2>1 DEF Larger
<1>2. u = [sized EXCEPT !.height[a] = h]
  BY DEF Upd, Larger
<1> HIDE DEF z, h, u
<1>3. /\ sized \in Trees /\ sized.root = t.root /\ sized.n = t.n /\ sized.kid = t.kid
      /\ sized.up = t.up /\ sized.height = t.height
      /\ \A x \in Node : sized.size[x] = IF x = a THEN z ELSE t.size[x]
  BY <1>1 DEF Trees
<1> HIDE DEF sized
<1>4. /\ u \in Trees /\ u.root = sized.root /\ u.n = sized.n /\ u.kid = sized.kid
      /\ u.up = sized.up /\ u.size = sized.size
      /\ \A x \in Node : u.height[x] = IF x = a THEN h ELSE sized.height[x]
  BY <1>1, <1>2, <1>3 DEF Trees
<1> QED
  BY <1>3, <1>4 DEF u, z, h, IsUpdated

-----------------------------------------------------------------------------
(* The shape of the tree.  Its elements E have the order o; the element a  *)
(* is at position P[a], and its subtree is what lies from position         *)
(* Q["l"][a] to position Q["r"][a].                                        *)

\* The step from a position to its neighbour on side s.
Toward(s) == IF s = "l" THEN -1 ELSE 1

\* o lists the elements E once each, and P gives their positions.
Numbered(o, E, P) ==
  /\ E \subseteq Node /\ o \in Seq(E) /\ P \in [Node -> Int]
  /\ \A i \in 1..Len(o) : P[o[i]] = i
  /\ \A a \in E : P[a] \in 1..Len(o) /\ o[P[a]] = a

\* The span of a's subtree lies in 1..n and holds a's own position.
Inside(P, Q, n, a) ==
  /\ 1 <= Q["l"][a] /\ Q["l"][a] <= P[a]
  /\ P[a] <= Q["r"][a] /\ Q["r"][a] <= n

\* a's children are elements, know their parent, and share out the rest of a's span.
Below(t, E, P, Q, a) ==
  \A s \in Side :
    IF t.kid[s][a] = Nil THEN Q[s][a] = P[a]
    ELSE /\ t.kid[s][a] \in E /\ t.up[t.kid[s][a]] = a
         /\ Q[s][t.kid[s][a]] = Q[s][a]
         /\ Q[Other(s)][t.kid[s][a]] = P[a] + Toward(s)

\* a is the root and spans everything, or one of its parent's children.
Above(t, E, Q, n, a) ==
  IF t.up[a] = Nil THEN t.root = a /\ Q["l"][a] = 1 /\ Q["r"][a] = n
  ELSE t.up[a] \in E /\ t.root # a /\ \E s \in Side : t.kid[s][t.up[a]] = a

\* t is a search tree over E in the order o: P numbers it, Q gives the span of each subtree.
Spans(t, E, o, P, Q) ==
  /\ t \in Trees /\ Q \in [Side -> [Node -> Int]] /\ Numbered(o, E, P)
  /\ IF t.root = Nil THEN E = {} ELSE t.root \in E
  /\ \A a \in E : Inside(P, Q, Len(o), a) /\ Below(t, E, P, Q, a) /\ Above(t, E, Q, Len(o), a)

\* What Spans says of types and of the links.
LEMMA SpansTypes ==
  ASSUME NEW t, NEW E, NEW o, NEW P, NEW Q, Spans(t, E, o, P, Q)
  PROVE  /\ Len(o) \in Nat /\ DOMAIN o = 1..Len(o) /\ \A i \in 1..Len(o) : o[i] \in E
         /\ E \subseteq Node /\ Nil \notin E
         /\ \A a \in Node : P[a] \in Int /\ Q["l"][a] \in Int /\ Q["r"][a] \in Int
         /\ \A a \in E : /\ a \in Node /\ a \in Link /\ a # Nil
                         /\ t.kid["l"][a] \in E \cup {Nil} /\ t.kid["r"][a] \in E \cup {Nil}
                         /\ t.up[a] \in E \cup {Nil}
         /\ \A s \in Side : Toward(s) \in {-1, 1} /\ Toward(Other(s)) = 0 - Toward(s)
<1>1. Len(o) \in Nat /\ DOMAIN o = 1..Len(o) /\ \A i \in 1..Len(o) : o[i] \in E
  BY LenProperties DEF Spans, Numbered
<1>2. E \subseteq Node /\ Nil \notin E
  BY OrderedAssumption DEF Spans, Numbered
<1>3. \A a \in Node : P[a] \in Int /\ Q["l"][a] \in Int /\ Q["r"][a] \in Int
  BY Sides DEF Spans, Numbered
<1>4. ASSUME NEW a \in E
      PROVE  /\ t.kid["l"][a] \in E \cup {Nil} /\ t.kid["r"][a] \in E \cup {Nil}
             /\ t.up[a] \in E \cup {Nil}
  <2>1. Below(t, E, P, Q, a) /\ Above(t, E, Q, Len(o), a)
    BY DEF Spans
  <2> QED
    BY <2>1, Sides DEF Below, Above
<1>5. \A s \in Side : Toward(s) \in {-1, 1} /\ Toward(Other(s)) = 0 - Toward(s)
  BY DEF Side, Toward, Other
<1> QED
  BY <1>1, <1>2, <1>3, <1>4, <1>5 DEF Link

\* What Spans says of one element, side by side.
LEMMA SpansAt ==
  ASSUME NEW t, NEW E, NEW o, NEW P, NEW Q, Spans(t, E, o, P, Q), NEW a \in E
  PROVE  /\ 1 <= Q["l"][a] /\ Q["l"][a] <= P[a] /\ P[a] <= Q["r"][a] /\ Q["r"][a] <= Len(o)
         /\ t.kid["l"][a] = Nil => Q["l"][a] = P[a]
         /\ t.kid["l"][a] # Nil =>
              /\ t.kid["l"][a] \in E /\ t.up[t.kid["l"][a]] = a
              /\ Q["l"][t.kid["l"][a]] = Q["l"][a] /\ Q["r"][t.kid["l"][a]] = P[a] - 1
         /\ t.kid["r"][a] = Nil => Q["r"][a] = P[a]
         /\ t.kid["r"][a] # Nil =>
              /\ t.kid["r"][a] \in E /\ t.up[t.kid["r"][a]] = a
              /\ Q["r"][t.kid["r"][a]] = Q["r"][a] /\ Q["l"][t.kid["r"][a]] = P[a] + 1
         /\ t.up[a] = Nil => t.root = a /\ Q["l"][a] = 1 /\ Q["r"][a] = Len(o)
         /\ t.up[a] # Nil => /\ t.up[a] \in E /\ t.root # a
                             /\ t.kid["l"][t.up[a]] = a \/ t.kid["r"][t.up[a]] = a
<1>1. Inside(P, Q, Len(o), a) /\ Below(t, E, P, Q, a) /\ Above(t, E, Q, Len(o), a)
  BY DEF Spans
<1>2. /\ t.kid["l"][a] = Nil => Q["l"][a] = P[a]
      /\ t.kid["l"][a] # Nil =>
              /\ t.kid["l"][a] \in E /\ t.up[t.kid["l"][a]] = a
              /\ Q["l"][t.kid["l"][a]] = Q["l"][a] /\ Q["r"][t.kid["l"][a]] = P[a] + -1
  BY <1>1, Sides DEF Below, Toward
<1>3. /\ t.kid["r"][a] = Nil => Q["r"][a] = P[a]
      /\ t.kid["r"][a] # Nil =>
              /\ t.kid["r"][a] \in E /\ t.up[t.kid["r"][a]] = a
              /\ Q["r"][t.kid["r"][a]] = Q["r"][a] /\ Q["l"][t.kid["r"][a]] = P[a] + 1
  BY <1>1, Sides DEF Below, Toward
<1>4. P[a] \in Int
  BY SpansTypes
<1>5. P[a] + -1 = P[a] - 1
  BY <1>4
<1>6. /\ t.up[a] = Nil => t.root = a /\ Q["l"][a] = 1 /\ Q["r"][a] = Len(o)
      /\ t.up[a] # Nil => /\ t.up[a] \in E /\ t.root # a
                          /\ t.kid["l"][t.up[a]] = a \/ t.kid["r"][t.up[a]] = a
  BY <1>1 DEF Above, Side
<1>7. /\ 1 <= Q["l"][a] /\ Q["l"][a] <= P[a] /\ P[a] <= Q["r"][a] /\ Q["r"][a] <= Len(o)
  BY <1>1 DEF Inside
<1> QED
  BY <1>2, <1>3, <1>5, <1>6, <1>7

\* Two elements have two positions.
LEMMA OnePosition ==
  ASSUME NEW o, NEW E, NEW P, Numbered(o, E, P), NEW a \in E, NEW b \in E, P[a] = P[b]
  PROVE  a = b
BY DEF Numbered

-----------------------------------------------------------------------------
(* Rotations.                                                              *)

\* u is t after the links of a rotation at y, whose child x on side s comes up.
IsTurned(u, t, y, s, x) ==
  /\ u \in Trees /\ u.root = (IF t.up[y] = Nil THEN x ELSE t.root) /\ u.n = t.n
  /\ u.size = t.size /\ u.height = t.height
  /\ \A d \in Side : \A z \in Node :
       u.kid[d][z] = IF z = y /\ d = s THEN t.kid[Other(s)][x]
                     ELSE IF z = x /\ d = Other(s) THEN y
                     ELSE IF z = t.up[y] /\ d = SideOf(t, y) THEN x
                     ELSE t.kid[d][z]
  /\ \A z \in Node :
       u.up[z] = IF z = y THEN x
                 ELSE IF z = t.kid[Other(s)][x] THEN y
                 ELSE IF z = x THEN t.up[y]
                 ELSE t.up[z]

\* What Turned assigns.
LEMMA TurnedFields ==
  ASSUME NEW t \in Trees, NEW y \in Node, NEW s \in Side, NEW x \in Node, x = t.kid[s][y],
         x # y, t.kid[Other(s)][x] \notin {x, y}, t.up[y] \notin {x, y}
  PROVE  IsTurned(Turned(t, y, s), t, y, s, x)
<1> DEFINE b == t.kid[Other(s)][x]
           t1 == Transplant(t, y, x)
           t2 == Hang(t1, y, s, b)
           u == Hang(t2, x, Other(s), y)
<1>1. Other(s) \in Side /\ x \in Link /\ b \in Link /\ y \in Link /\ b \notin {x, y}
  BY TreeFields, Sides DEF Link
<1>2. u = Turned(t, y, s)
  BY DEF Turned
<1> HIDE DEF b
<1>3. IsTransplanted(t1, t, y, x)
  BY <1>1, TransplantFields
<1> HIDE DEF t1
<1>4. IsHung(t2, t1, y, s, b)
  <2>1. t1 \in Trees
    BY <1>3 DEF IsTransplanted
  <2> QED
    BY <1>1, <2>1, HangFields
<1> HIDE DEF t2
<1>5. IsHung(u, t2, x, Other(s), y)
  <2>1. t2 \in Trees
    BY <1>4 DEF IsHung
  <2> QED
    BY <1>1, <2>1, HangFields
<1> HIDE DEF u
<1>6. \A d \in Side : \A z \in Node :
        u.kid[d][z] = IF z = y /\ d = s THEN b
                      ELSE IF z = x /\ d = Other(s) THEN y
                      ELSE IF z = t.up[y] /\ d = SideOf(t, y) THEN x
                      ELSE t.kid[d][z]
  BY <1>3, <1>4, <1>5 DEF IsTransplanted, IsHung
<1>7. \A z \in Node :
        u.up[z] = IF z = y THEN x
                  ELSE IF z = b THEN y
                  ELSE IF z = x THEN t.up[y]
                  ELSE t.up[z]
  BY <1>1, <1>3, <1>4, <1>5 DEF IsTransplanted, IsHung
<1>8. /\ u \in Trees /\ u.root = (IF t.up[y] = Nil THEN x ELSE t.root) /\ u.n = t.n
      /\ u.size = t.size /\ u.height = t.height
  BY <1>3, <1>4, <1>5 DEF IsTransplanted, IsHung
<1> QED
  BY <1>2, <1>6, <1>7, <1>8 DEF b, IsTurned

\* How many elements the subtree of a has.
Width(Q, a) == IF a = Nil THEN 0 ELSE Q["r"][a] - Q["l"][a] + 1

\* Subtrees are as wide as their spans, and strictly narrower than their parent's.
LEMMA Widths ==
  ASSUME NEW t, NEW E, NEW o, NEW P, NEW Q, Spans(t, E, o, P, Q)
  PROVE  /\ \A a \in E \cup {Nil} : Width(Q, a) \in Nat /\ Width(Q, a) <= Len(o)
         /\ \A a \in E : /\ 1 <= Width(Q, a)
                         /\ Width(Q, t.kid["l"][a]) = P[a] - Q["l"][a]
                         /\ Width(Q, t.kid["r"][a]) = Q["r"][a] - P[a]
                         /\ \A s \in Side : Width(Q, t.kid[s][a]) < Width(Q, a)
                         /\ t.up[a] # Nil => Width(Q, a) < Width(Q, t.up[a])
<1>1. Len(o) \in Nat /\ Nil \notin E
  BY SpansTypes
<1>2. ASSUME NEW a \in E
      PROVE  /\ Width(Q, a) \in Nat /\ Width(Q, a) <= Len(o) /\ 1 <= Width(Q, a)
             /\ Width(Q, t.kid["l"][a]) = P[a] - Q["l"][a]
             /\ Width(Q, t.kid["r"][a]) = Q["r"][a] - P[a]
             /\ \A s \in Side : Width(Q, t.kid[s][a]) < Width(Q, a)
  <2>1. a # Nil /\ a \in Node
    BY SpansTypes
  <2>2. P[a] \in Int /\ Q["l"][a] \in Int /\ Q["r"][a] \in Int
    BY <2>1, SpansTypes
  <2>3. 1 <= Q["l"][a] /\ Q["l"][a] <= P[a] /\ P[a] <= Q["r"][a] /\ Q["r"][a] <= Len(o)
    BY SpansAt
  <2>4. Width(Q, a) = Q["r"][a] - Q["l"][a] + 1
    BY <2>1 DEF Width
  <2>5. Width(Q, t.kid["l"][a]) = P[a] - Q["l"][a]
    <3>1. CASE t.kid["l"][a] = Nil
      <4>1. Q["l"][a] = P[a]
        BY <3>1, SpansAt
      <4> QED
        BY <2>2, <3>1, <4>1 DEF Width
    <3>2. CASE t.kid["l"][a] # Nil
      <4>1. Q["l"][t.kid["l"][a]] = Q["l"][a] /\ Q["r"][t.kid["l"][a]] = P[a] - 1
        BY <3>2, SpansAt
      <4> QED
        BY <2>2, <3>2, <4>1 DEF Width
    <3> QED
      BY <3>1, <3>2
  <2>6. Width(Q, t.kid["r"][a]) = Q["r"][a] - P[a]
    <3>1. CASE t.kid["r"][a] = Nil
      <4>1. Q["r"][a] = P[a]
        BY <3>1, SpansAt
      <4> QED
        BY <2>2, <3>1, <4>1 DEF Width
    <3>2. CASE t.kid["r"][a] # Nil
      <4>1. Q["r"][t.kid["r"][a]] = Q["r"][a] /\ Q["l"][t.kid["r"][a]] = P[a] + 1
        BY <3>2, SpansAt
      <4> QED
        BY <2>2, <3>2, <4>1 DEF Width
    <3> QED
      BY <3>1, <3>2
  <2>7. \A s \in Side : s = "l" \/ s = "r"
    BY DEF Side
  <2> QED
    BY <1>1, <2>2, <2>3, <2>4, <2>5, <2>6, <2>7
<1>3. Width(Q, Nil) = 0
  BY DEF Width
<1>4. ASSUME NEW a \in E, t.up[a] # Nil PROVE Width(Q, a) < Width(Q, t.up[a])
  <2>1. t.up[a] \in E /\ \E s \in Side : t.kid[s][t.up[a]] = a
    BY <1>4, SpansAt, Sides
  <2> QED
    BY <1>2, <2>1
<1> QED
  BY <1>1, <1>2, <1>3, <1>4

\* The neighbours of the element y whose child x on side s is turned upwards.
LEMMA Around ==
  ASSUME NEW t, NEW E, NEW o, NEW P, NEW Q, Spans(t, E, o, P, Q), NEW y \in E,
         NEW s \in Side, t.kid[s][y] # Nil
  PROVE  LET x == t.kid[s][y]
             b == t.kid[Other(s)][x]
             q == t.up[y]
         IN  /\ x \in E /\ b \in E \cup {Nil} /\ q \in E \cup {Nil}
             /\ x # y /\ b \notin {x, y} /\ q \notin {x, y} /\ (b # Nil => b # q)
             /\ t.up[x] = y /\ (b # Nil => t.up[b] = x)
<1> DEFINE x == t.kid[s][y]
           b == t.kid[Other(s)][x]
           q == t.up[y]
<1>1. x \in E /\ t.up[x] = y /\ q \in E \cup {Nil} /\ Other(s) \in Side
  BY SpansTypes, SpansAt, Sides DEF Side
<1>2. b \in E \cup {Nil} /\ (b # Nil => t.up[b] = x)
  BY <1>1, SpansTypes, SpansAt, Sides DEF Side
<1>3. Width(Q, x) < Width(Q, y) /\ Width(Q, b) < Width(Q, x)
  BY <1>1, Widths
<1>4. q # Nil => Width(Q, y) < Width(Q, q)
  BY Widths
<1>5. /\ Width(Q, x) \in Nat /\ Width(Q, y) \in Nat /\ Width(Q, b) \in Nat
      /\ q # Nil => Width(Q, q) \in Nat
  BY <1>1, <1>2, Widths
<1>6. x # Nil /\ y # Nil
  BY <1>1, SpansTypes
<1> HIDE DEF x, b, q
<1>7. x # y /\ b \notin {x, y} /\ q \notin {x, y} /\ (b # Nil => b # q)
  BY <1>3, <1>4, <1>5, <1>6
<1> QED
  BY <1>1, <1>2, <1>7 DEF x, b, q

\* The reach of the subtrees after y's child on side s has been turned upwards.
QTurned(t, P, Q, y, s) ==
  LET x == t.kid[s][y]
  IN  [d \in Side |-> [z \in Node |->
         IF d = s /\ z = y THEN P[x] - Toward(s)
         ELSE IF d = Other(s) /\ z = x THEN Q[d][y]
         ELSE Q[d][z]]]

\* rot_left and rot_right keep the elements in order.
LEMMA TurnedSpans ==
  ASSUME NEW t, NEW E, NEW o, NEW P, NEW Q, Spans(t, E, o, P, Q), NEW y \in E,
         NEW s \in Side, t.kid[s][y] # Nil
  PROVE  Spans(Turned(t, y, s), E, o, P, QTurned(t, P, Q, y, s))
<1> DEFINE x == t.kid[s][y]
           b == t.kid[Other(s)][x]
           q == t.up[y]
           u == Turned(t, y, s)
           R == QTurned(t, P, Q, y, s)
           e == Other(s)
<1>1. /\ x \in E /\ b \in E \cup {Nil} /\ q \in E \cup {Nil}
      /\ x # y /\ b \notin {x, y} /\ q \notin {x, y} /\ (b # Nil => b # q)
      /\ t.up[x] = y /\ (b # Nil => t.up[b] = x)
  BY Around
<1>2. /\ t \in Trees /\ Q \in [Side -> [Node -> Int]] /\ Numbered(o, E, P)
      /\ IF t.root = Nil THEN E = {} ELSE t.root \in E
  BY DEF Spans
<1>3. E \subseteq Node /\ Nil \notin E /\ Len(o) \in Nat /\ x # Nil /\ y # Nil
  BY <1>1, SpansTypes
<1>4. e \in Side /\ e # s /\ Other(e) = s /\ \A d \in Side : d = s \/ d = e
  BY Sides
<1>5. /\ IsTurned(u, t, y, s, x)
      /\ u \in Trees /\ u.root = (IF q = Nil THEN x ELSE t.root)
      /\ \A d \in Side : \A z \in Node :
           u.kid[d][z] = IF z = y /\ d = s THEN b
                         ELSE IF z = x /\ d = e THEN y
                         ELSE IF z = q /\ d = SideOf(t, y) THEN x
                         ELSE t.kid[d][z]
      /\ \A z \in Node :
           u.up[z] = IF z = y THEN x ELSE IF z = b THEN y ELSE IF z = x THEN q ELSE t.up[z]
  <2>1. t \in Trees /\ y \in Node /\ x \in Node /\ x # y
    BY <1>1, <1>2, <1>3
  <2>2. t.kid[Other(s)][x] \notin {x, y} /\ t.up[y] \notin {x, y}
    BY <1>1
  <2> HIDE DEF x, u
  <2>3. IsTurned(Turned(t, y, s), t, y, s, x)
    BY <2>1, <2>2, TurnedFields DEF x
  <2>4. IsTurned(u, t, y, s, x)
    BY <2>3 DEF u
  <2> QED
    BY <2>4 DEF IsTurned
<1>6. \A d \in Side : \A z \in Node :
        R[d][z] = IF d = s /\ z = y THEN P[x] - Toward(s)
                  ELSE IF d = e /\ z = x THEN Q[d][y] ELSE Q[d][z]
  BY DEF QTurned
<1>7. R \in [Side -> [Node -> Int]]
  <2>1. \A d \in Side : \A z \in Node : Q[d][z] \in Int
    BY <1>2
  <2>2. P[x] - Toward(s) \in Int
    BY <1>1, <1>3, SpansTypes
  <2> HIDE DEF x, e
  <2> QED
    BY <1>1, <1>3, <2>1, <2>2 DEF QTurned, x, e
<1> HIDE DEF u, R
<1>8. IF u.root = Nil THEN E = {} ELSE u.root \in E
  BY <1>1, <1>2, <1>3, <1>5
<1>9. \A a \in E : Inside(P, Q, Len(o), a) /\ Below(t, E, P, Q, a) /\ Above(t, E, Q, Len(o), a)
  BY DEF Spans
<1>10. \A z \in E : P[z] \in Int /\ Q[s][z] \in Int /\ Q[e][z] \in Int
  BY <1>3, <1>4, SpansTypes DEF Side
<1>11. /\ Toward(s) \in {-1, 1} /\ Toward(e) = 0 - Toward(s)
  BY SpansTypes
<1>12. /\ Q[s][x] = Q[s][y] /\ Q[e][x] = P[y] + Toward(s)
       /\ b = Nil => Q[e][x] = P[x]
       /\ b # Nil => Q[e][b] = Q[e][x] /\ Q[s][b] = P[x] + Toward(e)
  <2>1. Below(t, E, P, Q, y) /\ Below(t, E, P, Q, x)
    BY <1>1, <1>9
  <2> QED
    BY <1>3, <1>4, <2>1 DEF Below
<1> HIDE DEF x, b, q, e
\* no other element has x, y or b for a child
<1>13. ASSUME NEW z \in E, NEW d \in Side, t.kid[d][z] # Nil
       PROVE  /\ t.kid[d][z] = y => z = q /\ d = SideOf(t, y)
              /\ t.kid[d][z] = x => z = y /\ d = s
              /\ t.kid[d][z] = b => z = x /\ d = e
  <2>1. t.up[t.kid[d][z]] = z
    BY <1>9, <1>13 DEF Below
  <2>2. t.kid[d][z] = y => z = q
    BY <2>1 DEF q
  <2>3. t.kid[d][z] = x => z = y
    BY <1>1, <2>1
  <2>4. t.kid[d][z] = b => z = x
    BY <1>1, <1>13, <2>1
  \* an element is on one side of its parent only
  <2>5. \A f \in Side : t.kid[f][z] # Nil => t.kid[f][z] # t.kid[Other(f)][z]
    <3>1. t.kid["l"][z] # Nil /\ t.kid["r"][z] # Nil => t.kid["l"][z] # t.kid["r"][z]
      <4>1. P[z] \in Int
        BY <1>10
      <4> QED
        BY <4>1, SpansAt, SpansTypes
    <3> QED
      BY <3>1 DEF Side, Other
  <2>6. t.kid[d][z] = x => d = s
    BY <1>13, <2>3, <2>5, <1>4 DEF x, e
  <2>7. t.kid[d][z] = b => d = e
    BY <1>13, <2>4, <2>5, <1>4 DEF b, e
  <2>8. t.kid[d][z] = y => d = SideOf(t, y)
    BY <1>13, <2>2, <2>5 DEF SideOf, q, Side, Other
  <2> QED
    BY <2>2, <2>3, <2>4, <2>6, <2>7, <2>8
<1>14. ASSUME NEW z \in E PROVE Below(u, E, P, R, z)
  <2>1. SUFFICES ASSUME NEW d \in Side
                 PROVE  IF u.kid[d][z] = Nil THEN R[d][z] = P[z]
                        ELSE /\ u.kid[d][z] \in E /\ u.up[u.kid[d][z]] = z
                             /\ R[d][u.kid[d][z]] = R[d][z]
                             /\ R[Other(d)][u.kid[d][z]] = P[z] + Toward(d)
    BY DEF Below
  <2>2. IF t.kid[d][z] = Nil THEN Q[d][z] = P[z]
        ELSE /\ t.kid[d][z] \in E /\ t.up[t.kid[d][z]] = z
             /\ Q[d][t.kid[d][z]] = Q[d][z]
             /\ Q[Other(d)][t.kid[d][z]] = P[z] + Toward(d)
    BY <1>9 DEF Below
  <2>3. z \in Node /\ y \in Node /\ x \in Node /\ (b # Nil => b \in Node /\ b \in E)
    BY <1>1, <1>3
  <2>4. CASE z = y /\ d = s
    <3>1. u.kid[d][z] = b /\ R[d][z] = P[x] - Toward(s)
      BY <1>5, <1>6, <2>3, <2>4
    <3>2. CASE b = Nil
      <4>1. P[x] = P[y] + Toward(s)
        BY <1>12, <3>2
      <4> QED
        BY <1>1, <1>3, <1>10, <1>11, <2>4, <3>1, <3>2, <4>1
    <3>3. CASE b # Nil
      <4>1. u.up[b] = y /\ R[s][b] = Q[s][b] /\ R[e][b] = Q[e][b]
        BY <1>1, <1>4, <1>5, <1>6, <2>3, <3>3
      <4>2. Q[s][b] = P[x] - Toward(s) /\ Q[e][b] = P[y] + Toward(s)
        BY <1>1, <1>10, <1>11, <1>12, <3>3
      <4> QED
        BY <2>3, <2>4, <3>1, <3>3, <4>1, <4>2 DEF e
    <3> QED
      BY <3>2, <3>3
  <2>5. CASE z = x /\ d = e
    <3>1. u.kid[d][z] = y /\ R[d][z] = Q[e][y] /\ u.up[y] = x
      BY <1>1, <1>4, <1>5, <1>6, <2>3, <2>5
    <3>2. R[e][y] = Q[e][y] /\ R[s][y] = P[x] - Toward(s)
      BY <1>1, <1>4, <1>6, <2>3
    <3>3. P[x] - Toward(s) = P[x] + Toward(e)
      BY <1>1, <1>10, <1>11
    <3> QED
      BY <1>3, <1>4, <2>5, <3>1, <3>2, <3>3
  <2>6. CASE z = q /\ d = SideOf(t, y)
    <3>1. t.kid[d][z] = y /\ q # Nil
      <4>1. q # Nil
        BY <1>3, <2>6
      <4>2. t.kid["l"][q] = y \/ t.kid["r"][q] = y
        BY <4>1, SpansAt DEF q
      <4> QED
        BY <2>6, <4>1, <4>2 DEF SideOf, q
    <3>2. u.kid[d][z] = x /\ u.up[x] = q
      BY <1>1, <1>5, <2>3, <2>6
    <3>3. R[d][z] = Q[d][z]
      BY <1>1, <1>6, <2>3, <2>6
    <3>4. \A f \in Side : R[f][x] = Q[f][y]
      BY <1>1, <1>4, <1>6, <1>12, <2>3
    <3> QED
      BY <1>1, <1>3, <2>2, <2>6, <3>1, <3>2, <3>3, <3>4, Sides
  <2>7. CASE ~(z = y /\ d = s) /\ ~(z = x /\ d = e) /\ ~(z = q /\ d = SideOf(t, y))
    <3>1. u.kid[d][z] = t.kid[d][z]
      BY <1>5, <2>3, <2>7
    <3>2. R[d][z] = Q[d][z]
      BY <1>6, <2>3, <2>7
    <3>3. CASE t.kid[d][z] = Nil
      BY <2>2, <3>1, <3>2, <3>3
    <3>4. CASE t.kid[d][z] # Nil
      <4>1. t.kid[d][z] \notin {x, y, b}
        BY <1>13, <2>7, <3>4
      <4>2. \A f \in Side : R[f][t.kid[d][z]] = Q[f][t.kid[d][z]]
        BY <1>3, <1>6, <2>2, <3>4, <4>1
      <4>3. u.up[t.kid[d][z]] = t.up[t.kid[d][z]]
        BY <1>3, <1>5, <2>2, <3>4, <4>1
      <4> QED
        BY <2>2, <3>1, <3>2, <3>4, <4>2, <4>3, Sides
    <3> QED
      BY <3>3, <3>4
  <2> QED
    BY <2>4, <2>5, <2>6, <2>7
<1>15. ASSUME NEW z \in E PROVE Above(u, E, R, Len(o), z)
  <2>1. IF t.up[z] = Nil THEN t.root = z /\ Q["l"][z] = 1 /\ Q["r"][z] = Len(o)
        ELSE t.up[z] \in E /\ t.root # z /\ \E d \in Side : t.kid[d][t.up[z]] = z
    BY <1>9 DEF Above
  <2>2. z \in Node /\ y \in Node /\ x \in Node
    BY <1>1, <1>3
  <2>3. CASE z = y
    <3>1. u.up[y] = x /\ u.kid[e][x] = y
      BY <1>1, <1>4, <1>5, <2>2
    <3>2. u.root # y
      <4>1. t.root = y => q = Nil
        BY <2>1, <2>3 DEF q
      <4> QED
        BY <1>1, <1>5, <4>1
    <3> QED
      BY <1>1, <1>3, <1>4, <2>3, <3>1, <3>2 DEF Above
  <2>4. CASE z = b
    <3>1. u.up[z] = y /\ u.kid[s][y] = z /\ y # Nil
      BY <1>1, <1>3, <1>5, <2>2, <2>4
    <3>2. t.up[z] = x
      BY <1>1, <1>3, <2>4
    <3>3. u.root # z
      BY <1>1, <1>3, <1>5, <2>1, <2>4, <3>2
    <3> QED
      BY <3>1, <3>3 DEF Above
  <2>5. CASE z = x
    <3>1. u.up[z] = q
      BY <1>1, <1>5, <2>2, <2>5
    <3>2. R["l"][x] = Q["l"][y] /\ R["r"][x] = Q["r"][y]
      <4>1. R[s][x] = Q[s][y] /\ R[e][x] = Q[e][y]
        BY <1>1, <1>4, <1>6, <1>12, <2>2
      <4> QED
        BY <1>4, <4>1 DEF Side
    <3>3. CASE q = Nil
      <4>1. Q["l"][y] = 1 /\ Q["r"][y] = Len(o)
        BY <3>3, SpansAt DEF q
      <4> QED
        BY <1>5, <2>5, <3>1, <3>2, <3>3, <4>1 DEF Above
    <3>4. CASE q # Nil
      <4>1. q \in E /\ q \in Node
        BY <1>1, <1>3, <3>4
      <4>2. SideOf(t, y) \in Side /\ u.kid[SideOf(t, y)][q] = x
        BY <1>1, <1>5, <4>1 DEF SideOf, Side
      <4>3. t.root # x
        BY <1>1, <1>3, <2>1, <2>5
      <4> QED
        BY <1>5, <2>5, <3>1, <3>4, <4>1, <4>2, <4>3 DEF Above
    <3> QED
      BY <3>3, <3>4
  <2>6. CASE z \notin {x, y, b}
    <3>1. u.up[z] = t.up[z] /\ R["l"][z] = Q["l"][z] /\ R["r"][z] = Q["r"][z]
      BY <1>5, <1>6, <2>2, <2>6, Sides
    <3>2. CASE t.up[z] = Nil
      <4>1. q # Nil
        <5>1. t.root = z
          BY <2>1, <3>2
        <5>2. q = Nil => t.root = y
          BY SpansAt DEF q
        <5> QED
          BY <2>6, <5>1, <5>2
      <4> QED
        BY <1>5, <2>1, <3>1, <3>2, <4>1 DEF Above
    <3>3. CASE t.up[z] # Nil
      <4>1. PICK d \in Side : t.kid[d][t.up[z]] = z
        BY <2>1, <3>3
      <4>2. t.up[z] \in E /\ t.up[z] \in Node /\ t.root # z /\ z # Nil
        BY <1>3, <2>1, <3>3
      <4>3. u.kid[d][t.up[z]] = z
        <5>1. t.up[z] = y /\ d = s => z = x
          BY <4>1 DEF x
        <5>2. t.up[z] = x /\ d = e => z = b
          BY <4>1 DEF b, e
        <5>3. t.up[z] = q /\ d = SideOf(t, y) => z = y
          <6> SUFFICES ASSUME t.up[z] = q, d = SideOf(t, y) PROVE z = y
            OBVIOUS
          <6>1. t.kid["l"][q] = y \/ t.kid["r"][q] = y
            BY <3>3, SpansAt DEF q
          <6>2. t.kid[SideOf(t, y)][q] = y
            BY <6>1 DEF SideOf, q
          <6> QED
            BY <4>1, <6>2
        <5> QED
          BY <1>5, <2>6, <4>1, <4>2, <5>1, <5>2, <5>3
      <4>4. u.root # z
        BY <1>5, <2>6, <4>2
      <4> QED
        BY <3>1, <3>3, <4>2, <4>3, <4>4 DEF Above
    <3> QED
      BY <3>2, <3>3
  <2> QED
    BY <2>3, <2>4, <2>5, <2>6
<1>16. ASSUME NEW z \in E PROVE Inside(P, R, Len(o), z)
  <2>1. Inside(P, Q, Len(o), z) /\ Inside(P, Q, Len(o), x) /\ Inside(P, Q, Len(o), y)
    BY <1>1, <1>9
  <2>2. z \in Node /\ y \in Node /\ x \in Node
    BY <1>1, <1>3
  <2>3. CASE z \notin {x, y}
    <3>1. R["l"][z] = Q["l"][z] /\ R["r"][z] = Q["r"][z]
      BY <1>6, <2>2, <2>3, Sides
    <3> QED
      BY <2>1, <3>1 DEF Inside
  <2>4. /\ P[x] \in Int /\ P[y] \in Int /\ Q["l"][x] \in Int /\ Q["r"][x] \in Int
        /\ Q["l"][y] \in Int /\ Q["r"][y] \in Int
    BY <2>2, SpansTypes
  <2>5. CASE s = "l"
    <3>1. e = "r" /\ Toward(s) = -1
      BY <2>5 DEF e, Other, Toward
    <3>2. /\ R["l"][x] = Q["l"][x] /\ R["r"][x] = Q["r"][y]
          /\ R["l"][y] = P[x] - (-1) /\ R["r"][y] = Q["r"][y]
      BY <1>1, <1>6, <2>2, <2>5, <3>1, Sides
    <3>3. Q["l"][x] = Q["l"][y] /\ Q["r"][x] = P[y] + -1
      BY <1>12, <2>5, <3>1
    <3>4. Inside(P, R, Len(o), x) /\ Inside(P, R, Len(o), y)
      BY <1>3, <2>1, <2>4, <3>2, <3>3 DEF Inside
    <3> QED
      BY <2>3, <3>4
  <2>6. CASE s = "r"
    <3>1. e = "l" /\ Toward(s) = 1
      BY <2>6 DEF e, Other, Toward
    <3>2. /\ R["r"][x] = Q["r"][x] /\ R["l"][x] = Q["l"][y]
          /\ R["r"][y] = P[x] - 1 /\ R["l"][y] = Q["l"][y]
      BY <1>1, <1>6, <2>2, <2>6, <3>1, Sides
    <3>3. Q["r"][x] = Q["r"][y] /\ Q["l"][x] = P[y] + 1
      BY <1>12, <2>6, <3>1
    <3>4. Inside(P, R, Len(o), x) /\ Inside(P, R, Len(o), y)
      BY <1>3, <2>1, <2>4, <3>2, <3>3 DEF Inside
    <3> QED
      BY <2>3, <3>4
  <2> QED
    BY <2>5, <2>6 DEF Side
<1>17. Spans(u, E, o, P, R)
  BY <1>2, <1>5, <1>7, <1>8, <1>14, <1>15, <1>16 DEF Spans
<1> QED
  BY <1>17 DEF u, R

\* Spans is about the links alone.
LEMMA SameLinks ==
  ASSUME NEW t, NEW E, NEW o, NEW P, NEW Q, Spans(t, E, o, P, Q),
         NEW u \in Trees, u.root = t.root, u.kid = t.kid, u.up = t.up
  PROVE  Spans(u, E, o, P, Q)
<1>1. \A a \in E : /\ Inside(P, Q, Len(o), a) /\ Below(t, E, P, Q, a)
                   /\ Above(t, E, Q, Len(o), a)
  BY DEF Spans
<1>2. \A a \in E : Below(u, E, P, Q, a)
  BY <1>1 DEF Below
<1>3. \A a \in E : Above(u, E, Q, Len(o), a)
  BY <1>1 DEF Above
<1> QED
  BY <1>1, <1>2, <1>3 DEF Spans

\* H[a] is the height a's subtree should have; a's counts are up to date.
Clean(t, Q, H, a) == t.size[a] = Width(Q, a) /\ t.height[a] = H[a]

\* H gives every subtree a height.
Heights(H) == H \in [Link -> Nat] /\ H[Nil] = 0

\* S and Ht read the right numbers at a clean element, and at none.
LEMMA CleanCounts ==
  ASSUME NEW t, NEW E, NEW o, NEW P, NEW Q, Spans(t, E, o, P, Q), NEW H, Heights(H),
         NEW a \in E \cup {Nil}, a # Nil => Clean(t, Q, H, a)
  PROVE  S(t, a) = Width(Q, a) /\ Ht(t, a) = H[a] /\ H[a] \in Nat /\ Width(Q, a) \in Nat
<1>1. a \in Link
  BY SpansTypes DEF Link
<1>2. H[a] \in Nat /\ Width(Q, a) \in Nat
  BY <1>1, Widths DEF Heights
<1> QED
  BY <1>2 DEF S, Ht, Clean, Heights, Width

\* Upd on an element whose children are clean.
LEMMA Updated ==
  ASSUME NEW t, NEW E, NEW o, NEW P, NEW Q, Spans(t, E, o, P, Q), NEW H, Heights(H),
         NEW a \in E, \A s \in Side : t.kid[s][a] # Nil => Clean(t, Q, H, t.kid[s][a])
  PROVE  /\ IsUpdated(Upd(t, a), t, a) /\ Spans(Upd(t, a), E, o, P, Q)
         /\ Upd(t, a).size[a] = Width(Q, a)
         /\ Upd(t, a).height[a] = 1 + Larger(H[t.kid["l"][a]], H[t.kid["r"][a]])
<1> DEFINE u == Upd(t, a)
           l == t.kid["l"][a]
           r == t.kid["r"][a]
<1>1. t \in Trees /\ a \in Node /\ a # Nil
  <2>1. t \in Trees
    BY DEF Spans
  <2> QED
    BY <2>1, SpansTypes
<1>2. IsUpdated(u, t, a)
  BY <1>1, UpdFields
<1> HIDE DEF u
<1>3. Spans(u, E, o, P, Q)
  BY <1>2, SameLinks DEF IsUpdated
<1>4. l \in E \cup {Nil} /\ r \in E \cup {Nil}
  BY SpansTypes
<1>5. S(t, l) = Width(Q, l) /\ Ht(t, l) = H[l]
  BY <1>4, CleanCounts, Sides
<1>6. S(t, r) = Width(Q, r) /\ Ht(t, r) = H[r]
  BY <1>4, CleanCounts, Sides
<1>7. u.height[a] = 1 + Larger(H[l], H[r]) /\ u.size[a] = 1 + Width(Q, l) + Width(Q, r)
  BY <1>1, <1>2, <1>5, <1>6 DEF IsUpdated
<1>8. Width(Q, a) = 1 + Width(Q, l) + Width(Q, r)
  <2>1. Width(Q, l) = P[a] - Q["l"][a] /\ Width(Q, r) = Q["r"][a] - P[a]
    BY Widths
  <2>2. P[a] \in Int /\ Q["l"][a] \in Int /\ Q["r"][a] \in Int
    BY <1>1, SpansTypes
  <2>3. Width(Q, a) = Q["r"][a] - Q["l"][a] + 1
    BY <1>1 DEF Width
  <2> HIDE DEF l, r
  <2> QED
    BY <2>1, <2>2, <2>3
<1> QED
  BY <1>2, <1>3, <1>7, <1>8 DEF u

\* The heights that a rotation computes.
HTurned(t, H, y, s) ==
  LET x == t.kid[s][y]
      low == 1 + Larger(H[t.kid[Other(s)][x]], H[t.kid[Other(s)][y]])
  IN  [z \in Link |-> IF z = y THEN low
                      ELSE IF z = x THEN 1 + Larger(H[t.kid[s][x]], low)
                      ELSE H[z]]

\* w is t after rot_left or rot_right at y, with both its nodes counted anew.
IsRotated(w, t, E, o, P, Q, R, H, G, y, s, x) ==
  /\ Spans(w, E, o, P, R) /\ Heights(G) /\ w.n = t.n
  /\ G[y] = 1 + Larger(H[t.kid[Other(s)][x]], H[t.kid[Other(s)][y]])
  /\ G[x] = 1 + Larger(H[t.kid[s][x]], G[y])
  /\ \A z \in Link \ {x, y} : G[z] = H[z]
  /\ \A d \in Side : \A z \in Node :
       w.kid[d][z] = IF z = y /\ d = s THEN t.kid[Other(s)][x]
                     ELSE IF z = x /\ d = Other(s) THEN y
                     ELSE IF z = t.up[y] /\ d = SideOf(t, y) THEN x
                     ELSE t.kid[d][z]
  /\ \A z \in Node :
       w.up[z] = IF z = y THEN x
                 ELSE IF z = t.kid[Other(s)][x] THEN y
                 ELSE IF z = x THEN t.up[y]
                 ELSE t.up[z]
  /\ Clean(w, R, G, y) /\ Clean(w, R, G, x)
  /\ \A z \in E \ {x, y} :
       /\ w.size[z] = t.size[z] /\ w.height[z] = t.height[z]
       /\ \A d \in Side : R[d][z] = Q[d][z]
  /\ \A d \in Side : R[d][x] = Q[d][y]

\* The larger of two numbers.
LEMMA LargerFacts ==
  /\ \A i, j \in Nat : Larger(i, j) \in Nat /\ Larger(i, j) = Larger(j, i)
BY DEF Larger

\* A rotation leaves the counts of the two elements it turns correct.
LEMMA Rotated ==
  ASSUME NEW t, NEW E, NEW o, NEW P, NEW Q, Spans(t, E, o, P, Q), NEW H, Heights(H),
         NEW y \in E, NEW s \in Side, NEW x, x = t.kid[s][y], x # Nil,
         \A z \in {t.kid[s][x], t.kid[Other(s)][x], t.kid[Other(s)][y]} \ {Nil} : Clean(t, Q, H, z)
  PROVE  IsRotated(Rotate(t, y, s), t, E, o, P, Q, QTurned(t, P, Q, y, s),
                   H, HTurned(t, H, y, s), y, s, x)
<1> DEFINE e == Other(s)
           a == t.kid[s][x]
           b == t.kid[e][x]
           c == t.kid[e][y]
           u == Turned(t, y, s)
           v == Upd(u, y)
           w == Upd(v, x)
           R == QTurned(t, P, Q, y, s)
           G == HTurned(t, H, y, s)
<1>1. /\ x \in E /\ b \in E \cup {Nil} /\ x # y /\ b \notin {x, y} /\ t.up[y] \notin {x, y}
      /\ t.up[y] \in E \cup {Nil}
  BY Around
<1>2. /\ t \in Trees /\ E \subseteq Node /\ x \in Node /\ y \in Node /\ Nil \notin E
      /\ a \in E \cup {Nil} /\ c \in E \cup {Nil} /\ e \in Side /\ e # s
  <2>1. t \in Trees
    BY DEF Spans
  <2> QED
    BY <1>1, <2>1, SpansTypes, Sides DEF Side
<1>3. w = Rotate(t, y, s)
  BY DEF Rotate
<1>4. Spans(u, E, o, P, R)
  BY TurnedSpans
<1>5. IsTurned(u, t, y, s, x)
  BY <1>1, <1>2, TurnedFields
<1>6. a \notin {x, y} /\ c \notin {x, y}
  <2>1. /\ Width(Q, a) < Width(Q, x) /\ Width(Q, x) < Width(Q, y) /\ Width(Q, c) < Width(Q, y)
        /\ Width(Q, a) \in Nat /\ Width(Q, x) \in Nat /\ Width(Q, y) \in Nat
    BY <1>1, <1>2, Widths
  <2>2. c # x
    <3>1. t.kid["l"][y] = Nil \/ t.kid["r"][y] = Nil \/ t.kid["l"][y] # t.kid["r"][y]
      <4>1. P[y] \in Int
        BY <1>2, SpansTypes
      <4> QED
        BY <4>1, SpansAt, SpansTypes
    <3> QED
      BY <1>2, <3>1, Sides DEF Side, Other
  <2> HIDE DEF a, c
  <2> QED
    BY <2>1, <2>2
<1>7. R[s][y] \in Int /\ \A d \in Side : \A z \in E \ {x, y} : R[d][z] = Q[d][z]
  <2>1. R[s][y] \in Int
    BY <1>2, <1>4 DEF Spans
  <2>2. \A d \in Side : \A z \in E \ {x, y} : R[d][z] = Q[d][z]
    BY <1>2 DEF QTurned
  <2> QED
    BY <2>1, <2>2
<1>8. \A d \in Side : R[d][x] = Q[d][y]
  <2>1. R[e][x] = Q[e][y]
    BY <1>1, <1>2 DEF QTurned
  <2>2. R[s][x] = Q[s][x]
    BY <1>1, <1>2 DEF QTurned
  <2>3. Q[s][x] = Q[s][y]
    BY <1>2, SpansAt, Sides DEF Side
  <2> QED
    BY <2>1, <2>2, <2>3, Sides
<1> DEFINE low == 1 + Larger(H[b], H[c])
           top == 1 + Larger(H[a], low)
<1>9. H[a] \in Nat /\ H[b] \in Nat /\ H[c] \in Nat /\ low \in Nat /\ top \in Nat
  <2>1. a \in Link /\ b \in Link /\ c \in Link
    BY <1>1, <1>2 DEF Link
  <2>2. H[a] \in Nat /\ H[b] \in Nat /\ H[c] \in Nat
    BY <2>1 DEF Heights
  <2> HIDE DEF a, b, c
  <2>3. Larger(H[b], H[c]) \in Nat
    BY <2>2, LargerFacts
  <2>4. low \in Nat
    BY <2>3
  <2> HIDE DEF low
  <2>5. Larger(H[a], low) \in Nat
    BY <2>2, <2>4, LargerFacts
  <2> QED
    BY <2>2, <2>4, <2>5
<1>10. G = [z \in Link |-> IF z = y THEN low ELSE IF z = x THEN top ELSE H[z]]
  BY DEF HTurned
<1> HIDE DEF R, G
<1>11. Heights(G) /\ G[y] = low /\ G[x] = top /\ \A z \in Link \ {x, y} : G[z] = H[z]
  <2> HIDE DEF low, top
  <2>1. x \in Link /\ y \in Link /\ Nil \in Link /\ x # Nil /\ y # Nil
    BY <1>2 DEF Link
  <2> QED
    BY <1>1, <1>9, <1>10, <2>1 DEF Heights
<1> HIDE DEF low, top
<1>12. \A z \in {a, b, c} \ {Nil} : Clean(u, R, G, z)
  <2>1. TAKE z \in {a, b, c} \ {Nil}
  <2>2. Clean(t, Q, H, z) /\ z \in E /\ z \notin {x, y} /\ z \in Link
    BY <1>1, <1>2, <1>6 DEF Link
  <2>3. Width(R, z) = Width(Q, z) /\ G[z] = H[z]
    BY <1>7, <1>11, <2>2, Sides DEF Width
  <2>4. u.size = t.size /\ u.height = t.height
    BY <1>5 DEF IsTurned
  <2> QED
    BY <2>2, <2>3, <2>4 DEF Clean
<1>13. u.kid[s][y] = b /\ u.kid[e][y] = c /\ u.kid[s][x] = a /\ u.kid[e][x] = y
  <2>1. /\ u.kid[s][y] = b /\ u.kid[e][x] = y
    BY <1>1, <1>2, <1>5 DEF IsTurned
  <2>2. u.kid[e][y] = c /\ u.kid[s][x] = a
    BY <1>1, <1>2, <1>5 DEF IsTurned
  <2> QED
    BY <2>1, <2>2
<1>14. \A d \in Side : u.kid[d][y] \in {b, c} /\ u.kid[d][x] \in {a, y}
  BY <1>13, Sides
<1> HIDE DEF a, b, c, e
<1>15. \A i, j \in Nat : Larger(i, j) = Larger(j, i)
  BY LargerFacts
<1> HIDE DEF u
<1>16. /\ IsUpdated(v, u, y) /\ Spans(v, E, o, P, R) /\ v.size[y] = Width(R, y)
       /\ v.height[y] = low
  <2>1. \A d \in Side : u.kid[d][y] # Nil => Clean(u, R, G, u.kid[d][y])
    BY <1>12, <1>14
  <2>2. /\ IsUpdated(v, u, y) /\ Spans(v, E, o, P, R) /\ v.size[y] = Width(R, y)
        /\ v.height[y] = 1 + Larger(G[u.kid["l"][y]], G[u.kid["r"][y]])
    BY <1>4, <1>11, <2>1, Updated
  <2>3. G[b] = H[b] /\ G[c] = H[c]
    <3>1. b \in Link \ {x, y} /\ c \in Link \ {x, y}
      BY <1>1, <1>2, <1>6 DEF Link
    <3> QED
      BY <1>11, <3>1
  <2>4. \/ u.kid["l"][y] = b /\ u.kid["r"][y] = c
        \/ u.kid["l"][y] = c /\ u.kid["r"][y] = b
    BY <1>13 DEF e, Side, Other
  <2>5. Larger(G[u.kid["l"][y]], G[u.kid["r"][y]]) = Larger(H[b], H[c])
    BY <1>9, <1>15, <2>3, <2>4
  <2> QED
    BY <2>2, <2>5 DEF low
<1>17. v.kid = u.kid /\ v.up = u.up /\ v.root = u.root /\ v.n = u.n /\ v \in Trees
  BY <1>16 DEF IsUpdated
<1>18. \A z \in E \ {y} : v.size[z] = u.size[z] /\ v.height[z] = u.height[z]
  BY <1>2, <1>16 DEF IsUpdated
<1>19. Clean(v, R, G, y) /\ (a # Nil => Clean(v, R, G, a))
  BY <1>1, <1>2, <1>6, <1>11, <1>12, <1>16, <1>18 DEF Clean
<1> HIDE DEF v
<1>20. /\ IsUpdated(w, v, x) /\ Spans(w, E, o, P, R) /\ w.size[x] = Width(R, x)
       /\ w.height[x] = top
  <2>1. \A d \in Side : v.kid[d][x] # Nil => Clean(v, R, G, v.kid[d][x])
    BY <1>14, <1>17, <1>19
  <2>2. /\ IsUpdated(w, v, x) /\ Spans(w, E, o, P, R) /\ w.size[x] = Width(R, x)
        /\ w.height[x] = 1 + Larger(G[v.kid["l"][x]], G[v.kid["r"][x]])
    BY <1>1, <1>11, <1>16, <2>1, Updated
  <2>3. G[a] = H[a] /\ G[y] = low
    <3>1. a \in Link \ {x, y}
      BY <1>1, <1>2, <1>6 DEF Link
    <3> QED
      BY <1>11, <3>1
  <2>4. \/ v.kid["l"][x] = a /\ v.kid["r"][x] = y
        \/ v.kid["l"][x] = y /\ v.kid["r"][x] = a
    BY <1>13, <1>17 DEF e, Side, Other
  <2>5. Larger(G[v.kid["l"][x]], G[v.kid["r"][x]]) = Larger(H[a], low)
    BY <1>9, <1>15, <2>3, <2>4
  <2> QED
    BY <2>2, <2>5 DEF top
<1>21. /\ w.kid = u.kid /\ w.up = u.up /\ w.n = u.n
       /\ \A z \in E \ {x} : w.size[z] = v.size[z] /\ w.height[z] = v.height[z]
  BY <1>2, <1>17, <1>20 DEF IsUpdated
<1> HIDE DEF w
<1>22. Clean(w, R, G, y) /\ Clean(w, R, G, x)
  BY <1>1, <1>11, <1>16, <1>20, <1>21 DEF Clean
<1>23. \A z \in E \ {x, y} : w.size[z] = t.size[z] /\ w.height[z] = t.height[z]
  BY <1>5, <1>18, <1>21 DEF IsTurned
<1>24. /\ \A d \in Side : \A z \in Node :
            w.kid[d][z] = IF z = y /\ d = s THEN t.kid[Other(s)][x]
                          ELSE IF z = x /\ d = Other(s) THEN y
                          ELSE IF z = t.up[y] /\ d = SideOf(t, y) THEN x
                          ELSE t.kid[d][z]
       /\ \A z \in Node :
            w.up[z] = IF z = y THEN x
                      ELSE IF z = t.kid[Other(s)][x] THEN y
                      ELSE IF z = x THEN t.up[y]
                      ELSE t.up[z]
       /\ w.n = t.n
  BY <1>5, <1>21 DEF IsTurned
<1>25. /\ G[y] = 1 + Larger(H[t.kid[Other(s)][x]], H[t.kid[Other(s)][y]])
       /\ G[x] = 1 + Larger(H[t.kid[s][x]], G[y])
  BY <1>11 DEF low, top, a, b, c, e
<1>26. IsRotated(w, t, E, o, P, Q, R, H, G, y, s, x)
  BY <1>7, <1>8, <1>11, <1>20, <1>22, <1>23, <1>24, <1>25 DEF IsRotated, e
<1> QED
  BY <1>3, <1>26 DEF R, G

-----------------------------------------------------------------------------
(* The fix-up.  The elements in D, from its cursor a upwards, are the ones *)
(* whose counts are stale; H is what the heights were before the change    *)
(* below a, except at the elements that have been dealt with.              *)

\* Two heights differ by one at most.
Close(i, j) == i <= j + 1 /\ j <= i + 1

\* a is balanced, with the height H says.
Level(t, H, a) ==
  /\ H[a] = 1 + Larger(H[t.kid["l"][a]], H[t.kid["r"][a]])
  /\ Close(H[t.kid["l"][a]], H[t.kid["r"][a]])

\* Level with another height of one child, which has changed by at most one.
Nearly(t, H, a) ==
  \E s \in Side, h \in Nat :
    /\ H[a] = 1 + Larger(h, H[t.kid[Other(s)][a]])
    /\ Close(h, H[t.kid[Other(s)][a]]) /\ Close(h, H[t.kid[s][a]])

\* D is the path from a to the root.
Trail(t, D, a) ==
  /\ a \in D \cup {Nil}
  /\ \A d \in D : /\ t.up[d] \in D \/ (t.up[d] = Nil /\ a # Nil)
                  /\ ~(t.kid["l"][d] \in D /\ t.kid["r"][d] \in D)
  /\ a # Nil => t.kid["l"][a] \notin D /\ t.kid["r"][a] \notin D

\* The fix-up stands at a; D, the path from there to the root, may be stale.
Fixing(t, E, o, P, Q, H, D, a) ==
  /\ Spans(t, E, o, P, Q) /\ Heights(H) /\ D \subseteq E /\ Trail(t, D, a)
  /\ \A c \in E \ D : Clean(t, Q, H, c)
  /\ \A c \in E \ {a} : Level(t, H, c)
  /\ a # Nil => Nearly(t, H, a)

\* The round of the fix-up at a turns t into w and touches only M, with x at the top in
\* the end.
Touches(t, w, E, Q, R, H, G, D, a, M, x) ==
  /\ M \subseteq E /\ x \in M /\ a \in M /\ M \cap D = {a} /\ t.up[a] \notin M
  /\ \A m \in M \ {a} : t.up[m] \in M
  /\ \A z \in E \ M : /\ w.size[z] = t.size[z] /\ w.height[z] = t.height[z]
                      /\ G[z] = H[z]
                      /\ \A d \in Side : R[d][z] = Q[d][z]
  /\ \A z \in E \ M : \A d \in Side : w.kid[d][z] = IF t.kid[d][z] = a THEN x ELSE t.kid[d][z]
  /\ \A z \in D \ {a} : w.up[z] = t.up[z]
  /\ \A z \in M : Clean(w, R, G, z) /\ Level(w, G, z)
  /\ Close(G[x], H[a])

\* A round that only touches a and nodes below it has moved the work up to a's parent.
LEMMA StepDone ==
  ASSUME NEW t, NEW E, NEW o, NEW P, NEW Q, NEW H, NEW D, NEW a \in E,
         Fixing(t, E, o, P, Q, H, D, a),
         NEW w, NEW R, Spans(w, E, o, P, R), NEW G, Heights(G),
         NEW M, NEW x, Touches(t, w, E, Q, R, H, G, D, a, M, x)
  PROVE  Fixing(w, E, o, P, R, G, D \ {a}, t.up[a])
<1> USE DEF Touches
<1> DEFINE q == t.up[a]
           C == D \ {a}
<1>1. /\ Spans(t, E, o, P, Q) /\ Heights(H) /\ D \subseteq E /\ a \in D
      /\ \A d \in D : /\ t.up[d] \in D \cup {Nil}
                      /\ ~(t.kid["l"][d] \in D /\ t.kid["r"][d] \in D)
      /\ t.kid["l"][a] \notin D /\ t.kid["r"][a] \notin D
      /\ \A c \in E \ D : Clean(t, Q, H, c)
      /\ \A c \in E \ {a} : Level(t, H, c)
  <2>1. a # Nil
    BY SpansTypes DEF Fixing
  <2> QED
    BY <2>1 DEF Fixing, Trail
<1>2. a # Nil /\ Nil \notin E /\ q \in E \cup {Nil}
  BY <1>1, SpansTypes
\* the children of what is left of D are not touched, but for a
<1>3. \A z \in E \ M : \A d \in Side : t.kid[d][z] # Nil => t.kid[d][z] \notin M \ {a}
  <2>1. TAKE z \in E \ M
  <2>2. TAKE d \in Side
  <2>3. SUFFICES ASSUME t.kid[d][z] # Nil, t.kid[d][z] \in M \ {a} PROVE FALSE
    OBVIOUS
  <2>4. t.up[t.kid[d][z]] = z
    BY <1>1, <2>3, SpansAt DEF Side
  <2> QED
    BY <2>3, <2>4
<1>4. C \cap M = {} /\ C \subseteq E /\ q \in C \cup {Nil}
  BY <1>1
<1>5. Trail(w, C, q)
  <2>1. ASSUME NEW d \in C
        PROVE  w.up[d] \in C \/ (w.up[d] = Nil /\ q # Nil)
    <3>1. w.up[d] = t.up[d] /\ d \in E /\ d # a
      BY <1>4
    <3>2. t.up[d] # a
      <4>1. t.up[d] = a => t.kid["l"][a] = d \/ t.kid["r"][a] = d
        BY <1>1, <1>2, <3>1, SpansAt
      <4> QED
        BY <1>1, <4>1
    <3>3. t.up[d] = Nil => q # Nil
      <4>1. t.up[d] = Nil => t.root = d
        BY <1>1, <3>1, SpansAt
      <4>2. q = Nil => t.root = a
        BY <1>1, SpansAt
      <4> QED
        BY <3>1, <4>1, <4>2
    <3> QED
      BY <1>1, <3>1, <3>2, <3>3
  <2>2. ASSUME NEW d \in C
        PROVE  ~(w.kid["l"][d] \in C /\ w.kid["r"][d] \in C)
    <3>1. d \in E \ M /\ "l" \in Side /\ "r" \in Side
      BY <1>4, Sides
    <3>2. \A s \in Side : w.kid[s][d] \in C => t.kid[s][d] \in C
      <4>1. x \notin C
        BY <1>4
      <4> QED
        BY <3>1, <4>1
    <3> QED
      BY <1>1, <3>1, <3>2
  <2>3. q # Nil => w.kid["l"][q] \notin C /\ w.kid["r"][q] \notin C
    <3>1. SUFFICES ASSUME q # Nil, NEW s \in Side, w.kid[s][q] \in C PROVE FALSE
      BY Sides
    <3>2. q \in E \ M
      BY <1>2, <3>1
    <3>3. w.kid[s][q] # x
      BY <1>4, <3>1
    <3>4. t.kid[s][q] \in C /\ t.kid[s][q] # a
      BY <3>1, <3>2, <3>3
    <3>5. t.kid["l"][q] = a \/ t.kid["r"][q] = a
      BY <1>1, <3>1, SpansAt
    <3>6. q \in D /\ ~(t.kid["l"][q] \in D /\ t.kid["r"][q] \in D)
      BY <1>1, <1>2, <3>1
    <3> QED
      BY <1>1, <3>4, <3>5, <3>6 DEF Side
  <2> QED
    BY <1>4, <2>1, <2>2, <2>3 DEF Trail
<1>6. \A c \in E \ C : Clean(w, R, G, c)
  <2>1. TAKE c \in E \ C
  <2>2. CASE c \in M
    BY <2>2
  <2>3. CASE c \notin M
    <3>1. Clean(t, Q, H, c) /\ c # Nil
      BY <1>1, <1>2, <2>3
    <3>2. Width(R, c) = Width(Q, c)
      BY <2>3, Sides DEF Width
    <3> QED
      BY <2>3, <3>1, <3>2 DEF Clean
  <2> QED
    BY <2>2, <2>3
<1>7. \A z \in E \ M : \A d \in Side :
        /\ t.kid[d][z] # a => w.kid[d][z] = t.kid[d][z] /\ G[w.kid[d][z]] = H[t.kid[d][z]]
        /\ t.kid[d][z] = a => w.kid[d][z] = x
  <2>1. TAKE z \in E \ M
  <2>2. TAKE d \in Side
  <2>3. t.kid[d][z] \in E \cup {Nil}
    BY <1>1, SpansTypes DEF Side
  <2>4. t.kid[d][z] # a => t.kid[d][z] \notin M
    BY <1>2, <1>3
  <2> QED
    BY <1>1, <2>3, <2>4 DEF Heights
<1>8. ASSUME NEW c \in E \ {q} PROVE Level(w, G, c)
  <2>1. CASE c \in M
    BY <2>1
  <2>2. CASE c \notin M
    <3>1. t.kid["l"][c] # a /\ t.kid["r"][c] # a
      <4>1. t.kid["l"][c] = a \/ t.kid["r"][c] = a => t.up[a] = c
        BY <1>1, <1>2, SpansAt
      <4> QED
        BY <4>1
    <3>2. Level(t, H, c) /\ G[c] = H[c] /\ c \in E \ M
      BY <1>1, <2>2
    <3> QED
      BY <1>7, <3>1, <3>2, Sides DEF Level
  <2> QED
    BY <2>1, <2>2
<1>9. q # Nil => Nearly(w, G, q)
  <2> SUFFICES ASSUME q # Nil PROVE Nearly(w, G, q)
    OBVIOUS
  <2>1. q \in E \ M
    BY <1>2
  <2>2. PICK s \in Side : t.kid[s][q] = a
    <3>1. t.kid["l"][q] = a \/ t.kid["r"][q] = a
      BY <1>1, SpansAt
    <3> QED
      BY <3>1, Sides
  <2>3. t.kid[Other(s)][q] # a
    <3>1. t.kid["l"][q] # t.kid["r"][q] \/ t.kid["l"][q] = Nil
      <4>1. P[q] \in Int
        BY <1>1, <2>1, SpansTypes
      <4> QED
        BY <1>1, <2>1, <4>1, SpansAt, SpansTypes
    <3> QED
      BY <1>2, <2>2, <3>1 DEF Side, Other
  <2>4. Level(t, H, q) /\ G[q] = H[q]
    <3>1. q # a
      BY <2>1
    <3> QED
      BY <1>1, <2>1, <3>1
  <2>5. Other(s) \in Side
    BY Sides
  <2>6. w.kid[s][q] = x /\ w.kid[Other(s)][q] = t.kid[Other(s)][q]
        /\ G[w.kid[Other(s)][q]] = H[t.kid[Other(s)][q]]
    BY <1>7, <2>1, <2>2, <2>3, <2>5
  <2>7. H[a] \in Nat /\ H[t.kid[Other(s)][q]] \in Nat /\ G[x] \in Nat
    <3>1. a \in Link /\ x \in Link /\ t.kid[Other(s)][q] \in E \cup {Nil}
      BY <1>1, <2>1, <2>5, SpansTypes DEF Side, Link
    <3>2. t.kid[Other(s)][q] \in Link
      BY <1>1, <3>1, SpansTypes DEF Link
    <3> QED
      BY <1>1, <3>1, <3>2 DEF Heights
  <2>8. /\ H[q] = 1 + Larger(H[a], H[t.kid[Other(s)][q]])
        /\ Close(H[a], H[t.kid[Other(s)][q]])
    <3>1. CASE s = "l"
      BY <2>2, <2>4, <3>1, Sides DEF Level
    <3>2. CASE s = "r"
      <4>1. Larger(H[t.kid["l"][q]], H[a]) = Larger(H[a], H[t.kid["l"][q]])
        BY <2>7, <3>2, LargerFacts, Sides
      <4> QED
        BY <2>2, <2>4, <3>2, <4>1, Sides DEF Level, Close
    <3> QED
      BY <3>1, <3>2 DEF Side
  <2>9. Close(H[a], G[x])
    BY DEF Close
  <2> QED
    BY <2>4, <2>6, <2>7, <2>8, <2>9 DEF Nearly
<1> QED
  BY <1>4, <1>5, <1>6, <1>8, <1>9 DEF Fixing

\* The one link that leads down to an element.
LEMMA SideOfKid ==
  ASSUME NEW t, NEW E, NEW o, NEW P, NEW Q, Spans(t, E, o, P, Q), NEW a \in E
  PROVE  /\ SideOf(t, a) \in Side /\ (t.up[a] # Nil => t.kid[SideOf(t, a)][t.up[a]] = a)
         /\ \A z \in E : \A d \in Side : t.kid[d][z] = a <=> z = t.up[a] /\ d = SideOf(t, a)
         /\ t.up[a] # Nil => t.kid[Other(SideOf(t, a))][t.up[a]] # a
<1>1. a # Nil /\ Nil \notin E
  BY SpansTypes
<1>2. SideOf(t, a) \in Side /\ (t.up[a] # Nil => t.kid[SideOf(t, a)][t.up[a]] = a)
  <2>1. t.up[a] # Nil => t.kid["l"][t.up[a]] = a \/ t.kid["r"][t.up[a]] = a
    BY SpansAt
  <2> QED
    BY <2>1 DEF SideOf, Side
<1>3. \A z \in E : t.kid["l"][z] # t.kid["r"][z] \/ t.kid["l"][z] = Nil
  <2>1. TAKE z \in E
  <2>2. P[z] \in Int
    BY SpansTypes
  <2> QED
    BY <2>2, SpansAt, SpansTypes
<1>4. ASSUME NEW z \in E, NEW d \in Side, t.kid[d][z] = a PROVE z = t.up[a] /\ d = SideOf(t, a)
  <2>1. z = t.up[a]
    BY <1>1, <1>4, SpansAt DEF Side
  <2>2. t.kid[SideOf(t, a)][z] = a
    BY <1>1, <1>2, <2>1
  <2> QED
    BY <1>1, <1>2, <1>3, <1>4, <2>1, <2>2 DEF Side
<1>5. t.up[a] # Nil => t.kid[Other(SideOf(t, a))][t.up[a]] # a
  <2>1. t.up[a] # Nil => t.up[a] \in E
    BY SpansAt
  <2> QED
    BY <1>1, <1>2, <1>3, <2>1 DEF Side, Other
<1> QED
  BY <1>1, <1>2, <1>4, <1>5

\* What is known when Upd has recomputed the counts of a.
Recounted(u, t, E, o, P, Q, H, D, a) ==
  /\ Spans(u, E, o, P, Q) /\ u.kid = t.kid /\ u.up = t.up /\ u.n = t.n
  /\ u.size[a] = Width(Q, a)
  /\ u.height[a] = 1 + Larger(H[t.kid["l"][a]], H[t.kid["r"][a]])
  /\ \A z \in E \ {a} : u.size[z] = t.size[z] /\ u.height[z] = t.height[z]
  /\ \A z \in E \ D : Clean(u, Q, H, z)
  /\ \A z \in (E \ D) \cup {a} : \A d \in Side :
       /\ t.kid[d][z] \notin D
       /\ Lean(u, z, d) = H[t.kid[d][z]] - H[t.kid[Other(d)][z]]
  /\ \A z \in E : \A d \in Side : t.kid[d][z] \in E \cup {Nil} /\ H[t.kid[d][z]] \in Nat

\* upd makes the current element clean and reads its children's true heights.
LEMMA FixRecounts ==
  ASSUME NEW t, NEW E, NEW o, NEW P, NEW Q, NEW H, NEW D, NEW a \in E,
         Fixing(t, E, o, P, Q, H, D, a)
  PROVE  Recounted(Upd(t, a), t, E, o, P, Q, H, D, a)
<1> DEFINE u == Upd(t, a)
<1>1. a # Nil /\ a \in Node
  BY SpansTypes DEF Fixing
<1>2. /\ Spans(t, E, o, P, Q) /\ Heights(H) /\ D \subseteq E /\ a \in D
      /\ \A d \in D : t.up[d] \in D \cup {Nil}
      /\ t.kid["l"][a] \notin D /\ t.kid["r"][a] \notin D
      /\ \A c \in E \ D : Clean(t, Q, H, c)
  BY <1>1 DEF Fixing, Trail
<1>3. \A z \in E : \A d \in Side : /\ t.kid[d][z] \in E \cup {Nil} /\ t.kid[d][z] \in Link
                                   /\ H[t.kid[d][z]] \in Nat
  <2>1. \A z \in E : \A d \in Side : t.kid[d][z] \in E \cup {Nil}
    BY <1>2, SpansTypes DEF Side
  <2>2. E \cup {Nil} \subseteq Link
    BY <1>2, SpansTypes DEF Link
  <2> QED
    BY <1>2, <2>1, <2>2 DEF Heights
<1>4. \A z \in (E \ D) \cup {a} : \A d \in Side : t.kid[d][z] \notin D
  <2>1. TAKE z \in (E \ D) \cup {a}
  <2>2. TAKE d \in Side
  <2>3. CASE z = a
    BY <1>2, <2>3 DEF Side
  <2>4. CASE z # a
    <3>1. t.kid[d][z] # Nil => t.up[t.kid[d][z]] = z
      BY <1>2, <2>4, SpansAt DEF Side
    <3>2. Nil \notin D /\ z # Nil /\ z \notin D
      BY <1>2, <2>4, SpansTypes
    <3> QED
      BY <1>2, <3>1, <3>2
  <2> QED
    BY <2>3, <2>4
<1>5. \A s \in Side : t.kid[s][a] # Nil => Clean(t, Q, H, t.kid[s][a])
  BY <1>2, <1>3, <1>4
<1>6. /\ IsUpdated(u, t, a) /\ Spans(u, E, o, P, Q)
      /\ u.size[a] = Width(Q, a)
      /\ u.height[a] = 1 + Larger(H[t.kid["l"][a]], H[t.kid["r"][a]])
  BY <1>2, <1>5, Updated
<1> HIDE DEF u
<1>7. u.kid = t.kid /\ u.up = t.up /\ u.n = t.n
  BY <1>6 DEF IsUpdated
<1>8. \A z \in E \ {a} : u.size[z] = t.size[z] /\ u.height[z] = t.height[z]
  <2>1. E \subseteq Node
    BY <1>2, SpansTypes
  <2> QED
    BY <1>6, <2>1 DEF IsUpdated
<1>9. \A z \in E \ D : Clean(u, Q, H, z)
  BY <1>2, <1>8 DEF Clean
<1>10. \A z \in (E \ D) \cup {a} : \A d \in Side : Ht(u, u.kid[d][z]) = H[t.kid[d][z]]
  <2>1. TAKE z \in (E \ D) \cup {a}
  <2>2. TAKE d \in Side
  <2>3. t.kid[d][z] \in E \cup {Nil} /\ t.kid[d][z] \notin D
    BY <1>2, <1>3, <1>4
  <2>4. t.kid[d][z] # Nil => Clean(u, Q, H, t.kid[d][z])
    BY <1>9, <2>3
  <2>5. Ht(u, t.kid[d][z]) = H[t.kid[d][z]]
    BY <1>2, <1>6, <2>3, <2>4, CleanCounts
  <2> QED
    BY <1>7, <2>5
<1>11. \A z \in (E \ D) \cup {a} : \A d \in Side :
         Lean(u, z, d) = H[t.kid[d][z]] - H[t.kid[Other(d)][z]]
  BY <1>10, Sides DEF Lean
<1> QED
  BY <1>3, <1>4, <1>6, <1>7, <1>8, <1>9, <1>11 DEF Recounted, u

\* A round of the fix-up turns t into w, and hands over to a's parent.
FixedUp(w, t, E, o, P, Q, D, a) ==
  /\ w.n = t.n
  /\ \E G, R : /\ Fixing(w, E, o, P, R, G, D \ {a}, t.up[a])
               /\ \A z \in D \ {a} : \A d \in Side : R[d][z] = Q[d][z]

\* A round that only recomputes the counts.
LEMMA FixWithoutTurn ==
  ASSUME NEW t, NEW E, NEW o, NEW P, NEW Q, NEW H, NEW D, NEW a \in E,
         Fixing(t, E, o, P, Q, H, D, a), \A s \in Side : Lean(Upd(t, a), a, s) <= 1
  PROVE  FixedUp(Upd(t, a), t, E, o, P, Q, D, a)
<1> DEFINE u == Upd(t, a)
           l == t.kid["l"][a]
           r == t.kid["r"][a]
           h == 1 + Larger(H[l], H[r])
           G == [z \in Link |-> IF z = a THEN h ELSE H[z]]
           M == {a}
<1>1. Recounted(u, t, E, o, P, Q, H, D, a)
  BY FixRecounts
<1>2. /\ Spans(t, E, o, P, Q) /\ Heights(H) /\ D \subseteq E
      /\ Trail(t, D, a) /\ (a # Nil => Nearly(t, H, a))
  BY DEF Fixing
<1>3. a # Nil /\ a \in Link /\ t.up[a] \in E \cup {Nil} /\ E \subseteq Link /\ a \in D
  <2>1. a # Nil /\ a \in Link /\ t.up[a] \in E \cup {Nil} /\ E \subseteq Link
    BY <1>2, SpansTypes DEF Link
  <2> QED
    BY <1>2, <2>1 DEF Trail
<1>4. H[l] \in Nat /\ H[r] \in Nat /\ l # a /\ r # a
  <2>1. H[l] \in Nat /\ H[r] \in Nat /\ l \notin D /\ r \notin D
    BY <1>1, Sides DEF Recounted
  <2> QED
    BY <1>3, <2>1
<1>5. h \in Nat
  <2>1. Larger(H[l], H[r]) \in Nat
    BY <1>4, LargerFacts
  <2> QED
    BY <2>1
<1>6. Lean(u, a, "l") = H[l] - H[r] /\ Lean(u, a, "r") = H[r] - H[l]
  BY <1>1, Sides DEF Recounted
<1>7. Close(H[l], H[r])
  <2>1. Lean(u, a, "l") <= 1 /\ Lean(u, a, "r") <= 1
    BY Sides
  <2> HIDE DEF l, r, u
  <2> QED
    BY <1>4, <1>6, <2>1 DEF Close
<1>8. Close(h, H[a])
  <2>1. PICK s \in Side, g \in Nat :
          /\ H[a] = 1 + Larger(g, H[t.kid[Other(s)][a]])
          /\ Close(g, H[t.kid[Other(s)][a]]) /\ Close(g, H[t.kid[s][a]])
    BY <1>2, <1>3 DEF Nearly
  <2>2. \/ H[a] = 1 + Larger(g, H[r]) /\ Close(g, H[r]) /\ Close(g, H[l])
        \/ H[a] = 1 + Larger(g, H[l]) /\ Close(g, H[l]) /\ Close(g, H[r])
    BY <2>1 DEF Side, Other
  <2> HIDE DEF l, r
  <2> QED
    BY <1>4, <1>7, <2>2 DEF Close, Larger
<1>9. Heights(G)
  <2> HIDE DEF h
  <2> QED
    BY <1>2, <1>3, <1>5 DEF Heights, Link
<1>10. G[a] = h /\ \A z \in Link \ {a} : G[z] = H[z]
  BY <1>3
<1> HIDE DEF G, h, u
<1>11. Clean(u, Q, G, a)
  BY <1>1, <1>10 DEF Clean, Recounted, h
<1>12. Level(u, G, a)
  <2>1. u.kid["l"][a] = l /\ u.kid["r"][a] = r
    BY <1>1 DEF Recounted
  <2>2. G[l] = H[l] /\ G[r] = H[r]
    <3>1. l \in Link /\ r \in Link
      BY <1>1, <1>3, Sides DEF Recounted, Link
    <3> QED
      BY <1>4, <1>10, <3>1
  <2> QED
    BY <1>7, <1>10, <2>1, <2>2 DEF Level, h
<1>13. /\ M \in SUBSET E /\ a \in M /\ M \cap D = {a} /\ t.up[a] \notin M
       /\ \A m \in M \ {a} : t.up[m] \in M
  <2>1. t.up[a] # a
    <3>1. t.up[a] # Nil => Width(Q, a) < Width(Q, t.up[a]) /\ Width(Q, a) \in Nat
      BY <1>2, Widths
    <3> QED
      BY <1>3, <3>1
  <2> QED
    BY <1>3, <2>1
<1>14. Spans(u, E, o, P, Q) /\ u.kid = t.kid /\ u.up = t.up
  BY <1>1 DEF Recounted
<1>15. \A z \in E \ M : /\ u.size[z] = t.size[z] /\ u.height[z] = t.height[z]
                        /\ G[z] = H[z]
                        /\ \A d \in Side : Q[d][z] = Q[d][z]
  BY <1>1, <1>3, <1>10 DEF Recounted
<1>16. \A z \in E \ M : \A d \in Side :
         u.kid[d][z] = IF t.kid[d][z] = a THEN a ELSE t.kid[d][z]
  BY <1>14
<1>17. \A z \in D \ {a} : u.up[z] = t.up[z]
  BY <1>14
<1>18. \A z \in M : Clean(u, Q, G, z) /\ Level(u, G, z)
  BY <1>11, <1>12
<1>19. Close(G[a], H[a])
  BY <1>8, <1>10
<1> HIDE DEF M
<1>20. Touches(t, u, E, Q, Q, H, G, D, a, M, a)
  BY <1>13, <1>15, <1>16, <1>17, <1>18, <1>19 DEF Touches
<1>21. Fixing(u, E, o, P, Q, G, D \ {a}, t.up[a])
  BY <1>9, <1>14, <1>20, StepDone
<1>22. u.n = t.n
  BY <1>1 DEF Recounted
<1> QED
  BY <1>21, <1>22 DEF u, FixedUp

\* When a leans to side s, by how much, and what its height was before the change.
LEMMA HeavySide ==
  ASSUME NEW t, NEW H, NEW a, NEW s \in Side, Nearly(t, H, a),
         NEW i, NEW j, i = H[t.kid[s][a]], j = H[t.kid[Other(s)][a]],
         i \in Nat, j \in Nat, i > j + 1
  PROVE  i = j + 2 /\ H[a] \in {j + 2, j + 3}
<1>1. PICK d \in Side, h \in Nat :
        /\ H[a] = 1 + Larger(h, H[t.kid[Other(d)][a]])
        /\ Close(h, H[t.kid[Other(d)][a]]) /\ Close(h, H[t.kid[d][a]])
  BY DEF Nearly
<1>2. \/ H[a] = 1 + Larger(h, j) /\ Close(h, j) /\ Close(h, i)
      \/ H[a] = 1 + Larger(h, i) /\ Close(h, i) /\ Close(h, j)
  BY <1>1, Sides
<1> QED
  BY <1>2 DEF Close, Larger

\* Level, seen from either side.
LEMMA LevelSides ==
  ASSUME NEW t, NEW H, NEW a, NEW s \in Side,
         H[t.kid["l"][a]] \in Nat, H[t.kid["r"][a]] \in Nat
  PROVE  Level(t, H, a) <=> /\ H[a] = 1 + Larger(H[t.kid[s][a]], H[t.kid[Other(s)][a]])
                            /\ Close(H[t.kid[s][a]], H[t.kid[Other(s)][a]])
<1>1. Larger(H[t.kid["l"][a]], H[t.kid["r"][a]]) = Larger(H[t.kid["r"][a]], H[t.kid["l"][a]])
  BY LargerFacts
<1> QED
  BY <1>1 DEF Level, Side, Other, Close

\* A round with one rotation.
LEMMA FixWithOneTurn ==
  ASSUME NEW t, NEW E, NEW o, NEW P, NEW Q, NEW H, NEW D, NEW a \in E,
         Fixing(t, E, o, P, Q, H, D, a), NEW s \in Side, Lean(Upd(t, a), a, s) > 1,
         ~(Lean(Upd(t, a), t.kid[s][a], s) < 0)
  PROVE  FixedUp(Rotate(Upd(t, a), a, s), t, E, o, P, Q, D, a)
<1> DEFINE u == Upd(t, a)
           e == Other(s)
           c == t.kid[s][a]
           b == t.kid[e][c]
           f == t.kid[s][c]
           j == t.kid[e][a]
           w == Rotate(u, a, s)
           R == QTurned(u, P, Q, a, s)
           G == HTurned(u, H, a, s)
           M == {a, c}
<1>u. u = Upd(t, a)
  OBVIOUS
<1>e. e = Other(s)
  OBVIOUS
<1>c. c = t.kid[s][a] /\ j = t.kid[e][a]
  OBVIOUS
<1>b. b = t.kid[e][c] /\ f = t.kid[s][c]
  OBVIOUS
<1>w. w = Rotate(u, a, s) /\ R = QTurned(u, P, Q, a, s) /\ G = HTurned(u, H, a, s)
  OBVIOUS
<1> HIDE DEF u, e, c, b, f, j, w, R, G
<1>1. Recounted(u, t, E, o, P, Q, H, D, a)
  BY <1>u, FixRecounts
<1>2. /\ Spans(t, E, o, P, Q) /\ Heights(H) /\ D \subseteq E
      /\ Trail(t, D, a) /\ (a # Nil => Nearly(t, H, a))
      /\ \A z \in E \ {a} : Level(t, H, z)
  BY DEF Fixing
<1>3. /\ a # Nil /\ t.up[a] \in E \cup {Nil} /\ E \subseteq Link /\ E \subseteq Node /\ a \in D
      /\ Nil \notin E /\ Nil \in Link /\ e \in Side
  <2>1. a # Nil /\ t.up[a] \in E \cup {Nil} /\ E \subseteq Link /\ E \subseteq Node /\ Nil \notin E
    BY <1>2, SpansTypes DEF Link
  <2> QED
    BY <1>2, <1>e, <2>1, Sides DEF Trail, Link
<1>4. /\ H[c] \in Nat /\ H[j] \in Nat /\ c \notin D /\ j \notin D
      /\ c \in E \cup {Nil} /\ j \in E \cup {Nil}
      /\ Lean(u, a, s) = H[c] - H[j]
  BY <1>1, <1>3, <1>e, <1>c DEF Recounted
<1>5. H[c] = H[j] + 2 /\ H[a] \in {H[j] + 2, H[j] + 3}
  <2>1. H[c] > H[j] + 1
    <3>1. Lean(u, a, s) > 1
      BY <1>u
    <3> QED
      BY <1>4, <3>1
  <2>2. Nearly(t, H, a)
    BY <1>2, <1>3
  <2> QED
    BY <1>4, <1>e, <1>c, <2>1, <2>2, HeavySide
<1>6. c # Nil /\ c \in E /\ c # a
  <2>1. c # Nil
    <3> QED
      BY <1>2, <1>4, <1>5 DEF Heights
  <2> QED
    BY <1>3, <1>4, <2>1
<1>7. /\ H[b] \in Nat /\ H[f] \in Nat /\ b \notin D /\ f \notin D
      /\ b \in E \cup {Nil} /\ f \in E \cup {Nil}
      /\ Lean(u, c, s) = H[f] - H[b]
  BY <1>1, <1>3, <1>4, <1>6, <1>e, <1>b DEF Recounted
<1>8. H[f] = H[j] + 1 /\ H[b] \in {H[j], H[j] + 1}
  <2>1. H[c] = 1 + Larger(H[f], H[b]) /\ Close(H[f], H[b])
    <3>1. H[t.kid["l"][c]] \in Nat /\ H[t.kid["r"][c]] \in Nat
      BY <1>1, <1>6, Sides DEF Recounted
    <3> QED
      BY <1>2, <1>6, <1>e, <1>b, <3>1, LevelSides
  <2>2. ~(H[f] - H[b] < 0)
    BY <1>7, <1>u, <1>c
  <2> QED
    BY <1>4, <1>5, <1>7, <2>1, <2>2 DEF Close, Larger
<1>9. IsRotated(w, u, E, o, P, Q, R, H, G, a, s, c)
  <2>1. Spans(u, E, o, P, Q) /\ u.kid = t.kid
    BY <1>1 DEF Recounted
  <2>2. \A z \in {f, b, j} \ {Nil} : Clean(u, Q, H, z)
    BY <1>1, <1>4, <1>7 DEF Recounted
  <2> QED
    BY <1>2, <1>6, <2>1, <2>2, <1>e, <1>c, <1>b, <1>w, Rotated
<1>10. u.kid = t.kid /\ u.up = t.up /\ SideOf(u, a) = SideOf(t, a)
  BY <1>1 DEF Recounted, SideOf
<1>11. /\ Spans(w, E, o, P, R) /\ Heights(G)
       /\ G[a] = 1 + Larger(H[b], H[j]) /\ G[c] = 1 + Larger(H[f], G[a])
       /\ \A z \in Link \ {c, a} : G[z] = H[z]
       /\ Clean(w, R, G, a) /\ Clean(w, R, G, c)
       /\ \A z \in E \ {c, a} :
            /\ w.size[z] = u.size[z] /\ w.height[z] = u.height[z]
            /\ \A d \in Side : R[d][z] = Q[d][z]
  BY <1>9, <1>10, <1>e, <1>c, <1>b DEF IsRotated
<1>12. /\ \A d \in Side : \A z \in Node :
            w.kid[d][z] = IF z = a /\ d = s THEN b
                          ELSE IF z = c /\ d = e THEN a
                          ELSE IF z = t.up[a] /\ d = SideOf(t, a) THEN c
                          ELSE t.kid[d][z]
       /\ \A z \in Node : w.up[z] = IF z = a THEN c
                                    ELSE IF z = b THEN a
                                    ELSE IF z = c THEN t.up[a]
                                    ELSE t.up[z]
  <2> QED
    BY <1>9, <1>10, <1>e, <1>b DEF IsRotated
<1>13. /\ b \notin {a, c} /\ t.up[a] \notin {a, c} /\ t.up[c] = a
  BY <1>2, <1>6, <1>e, <1>c, <1>b, Around
<1>14. G[a] = 1 + H[b] /\ G[c] = 1 + G[a] /\ G[a] \in Nat
  <2> QED
    BY <1>4, <1>7, <1>8, <1>11 DEF Larger
<1>15. f \notin {a, c} /\ j \notin {a, c}
  <2>1. f # c
    <3>1. Width(Q, f) < Width(Q, c) /\ Width(Q, c) \in Nat
      BY <1>2, <1>6, <1>b, Widths
    <3> QED
      BY <3>1
  <2>2. f # a /\ j # a
    BY <1>3, <1>4, <1>7
  <2>3. j # c
    <3> QED
      BY <1>4, <1>5
  <2> QED
    BY <2>1, <2>2, <2>3
<1>16. Level(w, G, a)
  <2>1. w.kid[s][a] = b /\ w.kid[e][a] = j
    BY <1>3, <1>6, <1>12, <1>13, <1>c, <1>e, Sides
  <2>2. G[b] = H[b] /\ G[j] = H[j]
    BY <1>3, <1>4, <1>7, <1>11, <1>13, <1>15
  <2>3. Close(H[b], H[j])
    <3> QED
      BY <1>4, <1>7, <1>8 DEF Close
  <2>4. G[w.kid["l"][a]] \in Nat /\ G[w.kid["r"][a]] \in Nat
    BY <1>4, <1>7, <2>1, <2>2, <1>e, Sides
  <2>5. /\ G[a] = 1 + Larger(G[w.kid[s][a]], G[w.kid[Other(s)][a]])
        /\ Close(G[w.kid[s][a]], G[w.kid[Other(s)][a]])
    BY <1>11, <1>e, <2>1, <2>2, <2>3
  <2> QED
    BY <2>4, <2>5, LevelSides
<1>17. Level(w, G, c)
  <2>1. w.kid[e][c] = a /\ w.kid[s][c] = f
    BY <1>3, <1>6, <1>12, <1>13, <1>b, <1>e, Sides
  <2>2. G[f] = H[f]
    BY <1>3, <1>7, <1>11, <1>15
  <2>3. Close(H[f], G[a])
    <3> QED
      BY <1>4, <1>7, <1>8, <1>14 DEF Close
  <2>4. G[w.kid["l"][c]] \in Nat /\ G[w.kid["r"][c]] \in Nat
    BY <1>7, <1>14, <2>1, <2>2, <1>e, Sides
  <2>5. /\ G[c] = 1 + Larger(G[w.kid[s][c]], G[w.kid[Other(s)][c]])
        /\ Close(G[w.kid[s][c]], G[w.kid[Other(s)][c]])
    BY <1>11, <1>e, <2>1, <2>2, <2>3
  <2> QED
    BY <2>4, <2>5, LevelSides
<1>18. Close(G[c], H[a])
  <2> QED
    BY <1>4, <1>5, <1>7, <1>8, <1>14 DEF Close
<1>19. /\ M \subseteq E /\ c \in M /\ a \in M /\ M \cap D = {a} /\ t.up[a] \notin M
       /\ \A m \in M \ {a} : t.up[m] \in M
  BY <1>3, <1>4, <1>6, <1>13
<1>20. \A z \in E \ M : /\ w.size[z] = t.size[z] /\ w.height[z] = t.height[z]
                        /\ G[z] = H[z]
                        /\ \A d \in Side : R[d][z] = Q[d][z]
  BY <1>1, <1>3, <1>11 DEF Recounted
<1>21. \A z \in E \ M : \A d \in Side :
         w.kid[d][z] = IF t.kid[d][z] = a THEN c ELSE t.kid[d][z]
  <2>1. TAKE z \in E \ M
  <2>2. TAKE d \in Side
  <2>3. t.kid[d][z] = a <=> z = t.up[a] /\ d = SideOf(t, a)
    BY <1>2, SideOfKid
  <2> QED
    BY <1>3, <1>12, <2>3
<1>22. \A z \in D \ {a} : w.up[z] = t.up[z]
  BY <1>2, <1>3, <1>4, <1>7, <1>12
<1>23. \A z \in M : Clean(w, R, G, z) /\ Level(w, G, z)
  BY <1>11, <1>16, <1>17
<1>24. Touches(t, w, E, Q, R, H, G, D, a, M, c)
  BY <1>18, <1>19, <1>20, <1>21, <1>22, <1>23 DEF Touches
<1>25. Fixing(w, E, o, P, R, G, D \ {a}, t.up[a])
  BY <1>11, <1>24, StepDone
<1>26. \A z \in D \ {a} : \A d \in Side : R[d][z] = Q[d][z]
  BY <1>2, <1>4, <1>20
<1>27. w.n = t.n
  BY <1>1, <1>9 DEF Recounted, IsRotated
<1> QED
  BY <1>25, <1>26, <1>27, <1>u, <1>w DEF FixedUp

\* A round with two rotations.
LEMMA FixWithTwoTurns ==
  ASSUME NEW t, NEW E, NEW o, NEW P, NEW Q, NEW H, NEW D, NEW a \in E,
         Fixing(t, E, o, P, Q, H, D, a), NEW s \in Side, Lean(Upd(t, a), a, s) > 1,
         Lean(Upd(t, a), t.kid[s][a], s) < 0
  PROVE  FixedUp(Rotate(Rotate(Upd(t, a), t.kid[s][a], Other(s)), a, s), t, E, o, P, Q, D, a)
<1> DEFINE u == Upd(t, a)
           e == Other(s)
           c == t.kid[s][a]
           g == t.kid[e][c]
           f == t.kid[s][c]
           j == t.kid[e][a]
           p == t.kid[s][g]
           q == t.kid[e][g]
           v == Rotate(u, c, e)
           w == Rotate(v, a, s)
           R1 == QTurned(u, P, Q, c, e)
           G1 == HTurned(u, H, c, e)
           R == QTurned(v, P, R1, a, s)
           G == HTurned(v, G1, a, s)
           M == {a, c, g}
<1> HIDE DEF v, w, R1, G1, R, G
<1>u. u = Upd(t, a)
  OBVIOUS
<1>e. e = Other(s)
  OBVIOUS
<1>c. c = t.kid[s][a] /\ j = t.kid[e][a]
  OBVIOUS
<1>g. g = t.kid[e][c] /\ f = t.kid[s][c]
  OBVIOUS
<1>p. p = t.kid[s][g] /\ q = t.kid[e][g]
  OBVIOUS
<1>v. v = Rotate(u, c, e) /\ R1 = QTurned(u, P, Q, c, e) /\ G1 = HTurned(u, H, c, e)
  BY DEF v, R1, G1
<1>w. w = Rotate(v, a, s) /\ R = QTurned(v, P, R1, a, s) /\ G = HTurned(v, G1, a, s)
  BY DEF w, R, G
<1> HIDE DEF u, e, c, g, f, j, p, q
<1>1. Recounted(u, t, E, o, P, Q, H, D, a)
  BY <1>u, FixRecounts
<1>2. /\ Spans(t, E, o, P, Q) /\ Heights(H) /\ D \subseteq E
      /\ Trail(t, D, a) /\ (a # Nil => Nearly(t, H, a))
      /\ \A z \in E \ {a} : Level(t, H, z)
  BY DEF Fixing
<1>3. /\ a # Nil /\ t.up[a] \in E \cup {Nil} /\ E \subseteq Link /\ E \subseteq Node /\ a \in D
      /\ Nil \notin E /\ Nil \in Link /\ e \in Side /\ Other(e) = s /\ e # s
  <2>1. a # Nil /\ t.up[a] \in E \cup {Nil} /\ E \subseteq Link /\ E \subseteq Node /\ Nil \notin E
    BY <1>2, SpansTypes DEF Link
  <2> QED
    BY <1>2, <1>e, <2>1, Sides DEF Trail, Link
<1>4. /\ H[c] \in Nat /\ H[j] \in Nat /\ c \notin D /\ j \notin D
      /\ c \in E \cup {Nil} /\ j \in E \cup {Nil}
      /\ Lean(u, a, s) = H[c] - H[j]
  BY <1>1, <1>3, <1>e, <1>c DEF Recounted
<1>5. H[c] = H[j] + 2 /\ H[a] \in {H[j] + 2, H[j] + 3}
  <2>1. H[c] > H[j] + 1
    <3>1. Lean(u, a, s) > 1
      BY <1>u
    <3> QED
      BY <1>4, <3>1
  <2>2. Nearly(t, H, a)
    BY <1>2, <1>3
  <2> QED
    BY <1>4, <1>e, <1>c, <2>1, <2>2, HeavySide
<1>6. c # Nil /\ c \in E /\ c # a
  <2>1. c # Nil
    <3> QED
      BY <1>2, <1>4, <1>5 DEF Heights
  <2> QED
    BY <1>3, <1>4, <2>1
<1>7. /\ H[g] \in Nat /\ H[f] \in Nat /\ g \notin D /\ f \notin D
      /\ g \in E \cup {Nil} /\ f \in E \cup {Nil}
      /\ Lean(u, c, s) = H[f] - H[g]
  BY <1>1, <1>3, <1>4, <1>6, <1>e, <1>g DEF Recounted
<1>8. H[g] = H[j] + 1 /\ H[f] = H[j]
  <2>1. H[c] = 1 + Larger(H[f], H[g]) /\ Close(H[f], H[g])
    <3>1. H[t.kid["l"][c]] \in Nat /\ H[t.kid["r"][c]] \in Nat
      BY <1>1, <1>6, Sides DEF Recounted
    <3> QED
      BY <1>2, <1>6, <1>e, <1>g, <3>1, LevelSides
  <2>2. H[f] - H[g] < 0
    BY <1>7, <1>u, <1>c
  <2> QED
    BY <1>4, <1>5, <1>7, <2>1, <2>2 DEF Close, Larger
<1>9. g # Nil /\ g \in E /\ g # a
  <2>1. g # Nil
    <3> QED
      BY <1>2, <1>4, <1>7, <1>8 DEF Heights
  <2> QED
    BY <1>3, <1>7, <2>1
<1>10. /\ H[p] \in Nat /\ H[q] \in Nat /\ p \notin D /\ q \notin D
       /\ p \in E \cup {Nil} /\ q \in E \cup {Nil}
  BY <1>1, <1>3, <1>7, <1>9, <1>p DEF Recounted
<1>11. H[g] = 1 + Larger(H[p], H[q]) /\ Close(H[p], H[q])
  <2>1. H[t.kid["l"][g]] \in Nat /\ H[t.kid["r"][g]] \in Nat
    BY <1>1, <1>9, Sides DEF Recounted
  <2> QED
    BY <1>2, <1>9, <1>e, <1>p, <2>1, LevelSides
<1>12. /\ g # c /\ p \notin {a, c, g} /\ q \notin {a, c, g} /\ f \notin {a, c, g}
       /\ j \notin {a, c, g}
  <2>1. /\ Width(Q, c) \in Nat /\ Width(Q, g) \in Nat
        /\ Width(Q, g) < Width(Q, c)
        /\ Width(Q, f) < Width(Q, c) /\ Width(Q, p) < Width(Q, g) /\ Width(Q, q) < Width(Q, g)
        /\ Width(Q, p) \in Nat /\ Width(Q, q) \in Nat /\ Width(Q, f) \in Nat
    BY <1>2, <1>3, <1>6, <1>7, <1>9, <1>10, <1>g, <1>p, Widths
  <2>2. f # a /\ j # a /\ p # a /\ q # a
    BY <1>3, <1>4, <1>7, <1>10
  <2>3. j # c /\ j # g /\ f # g
    <3> QED
      BY <1>4, <1>5, <1>7, <1>8
  <2> QED
    BY <2>1, <2>2, <2>3
<1>13. t.up[g] = c /\ t.up[c] = a /\ t.up[a] \notin {a, c, g}
  <2>1. t.up[c] = a /\ t.up[g] = c
    BY <1>2, <1>3, <1>6, <1>9, <1>c, <1>g, SpansAt DEF Side
  <2>2. t.up[a] \notin {a, c}
    BY <1>2, <1>6, <1>c, Around
  <2>3. t.up[a] # g
    <3>1. /\ t.up[a] # Nil => Width(Q, a) < Width(Q, t.up[a])
          /\ Width(Q, g) < Width(Q, c) /\ Width(Q, c) < Width(Q, a)
          /\ Width(Q, a) \in Nat /\ Width(Q, c) \in Nat /\ Width(Q, g) \in Nat
      BY <1>2, <1>3, <1>6, <1>9, <1>c, <1>g, Widths
    <3> QED
      BY <1>9, <3>1
  <2> QED
    BY <2>1, <2>2, <2>3
<1>14. /\ p # Nil => t.up[p] = g
       /\ q # Nil => t.up[q] = g
  BY <1>2, <1>3, <1>9, <1>p, SpansAt DEF Side
\* the first rotation, at the child
<1>15. IsRotated(v, u, E, o, P, Q, R1, H, G1, c, e, g)
  <2>1. Spans(u, E, o, P, Q) /\ u.kid = t.kid
    BY <1>1 DEF Recounted
  <2>2. \A z \in {q, p, f} \ {Nil} : Clean(u, Q, H, z)
    BY <1>1, <1>7, <1>10 DEF Recounted
  <2> QED
    BY <1>2, <1>3, <1>6, <1>9, <1>g, <1>p, <1>v, <2>1, <2>2, Rotated
<1>16. /\ u.kid = t.kid /\ u.up = t.up /\ SideOf(u, c) = s /\ t.up[c] = a
  <2>1. u.kid = t.kid /\ u.up = t.up
    BY <1>1 DEF Recounted
  <2>2. SideOf(t, c) = s
    BY <1>2, <1>6, <1>c, SideOfKid
  <2> QED
    BY <1>13, <2>1, <2>2 DEF SideOf
<1>17. /\ Spans(v, E, o, P, R1) /\ Heights(G1)
       /\ G1[c] = 1 + Larger(H[p], H[f]) /\ G1[g] = 1 + Larger(H[q], G1[c])
       /\ \A z \in Link \ {c, g} : G1[z] = H[z]
       /\ Clean(v, R1, G1, c) /\ Clean(v, R1, G1, g)
       /\ \A z \in E \ {c, g} :
            /\ v.size[z] = u.size[z] /\ v.height[z] = u.height[z]
            /\ \A d \in Side : R1[d][z] = Q[d][z]
  <2> QED
    BY <1>3, <1>15, <1>16, <1>g, <1>p DEF IsRotated
<1>18. /\ \A d \in Side : \A z \in Node :
            v.kid[d][z] = IF z = c /\ d = e THEN p
                          ELSE IF z = g /\ d = s THEN c
                          ELSE IF z = a /\ d = s THEN g
                          ELSE t.kid[d][z]
       /\ \A z \in Node : v.up[z] = IF z = c THEN g
                                    ELSE IF z = p THEN c
                                    ELSE IF z = g THEN a
                                    ELSE t.up[z]
  <2>1. /\ \A d \in Side : \A z \in Node :
             v.kid[d][z] = IF z = c /\ d = e THEN t.kid[s][g]
                           ELSE IF z = g /\ d = s THEN c
                           ELSE IF z = a /\ d = s THEN g
                           ELSE t.kid[d][z]
    BY <1>3, <1>15, <1>16 DEF IsRotated
  <2>2. \A z \in Node : v.up[z] = IF z = c THEN g
                                  ELSE IF z = t.kid[s][g] THEN c
                                  ELSE IF z = g THEN a
                                  ELSE t.up[z]
    BY <1>3, <1>15, <1>16 DEF IsRotated
  <2> QED
    BY <1>p, <2>1, <2>2
<1>19. \A z \in {c, q, j} \ {Nil} : Clean(v, R1, G1, z)
  <2>1. \A z \in {q, j} \ {Nil} : Clean(u, Q, H, z) /\ z \in E \ {c, g} /\ z \in Link \ {c, g}
                                  /\ z # Nil
    BY <1>1, <1>3, <1>4, <1>10, <1>12 DEF Recounted
  <2>2. \A z \in {q, j} \ {Nil} : Width(R1, z) = Width(Q, z)
    BY <1>17, <2>1, Sides DEF Width
  <2>3. \A z \in {q, j} \ {Nil} : Clean(v, R1, G1, z)
    BY <1>17, <2>1, <2>2 DEF Clean
  <2> QED
    BY <1>17, <2>3
<1>20. /\ v.kid[s][a] = g /\ v.kid[e][a] = j /\ v.kid[s][g] = c /\ v.kid[e][g] = q
       /\ v.kid[s][c] = f /\ v.kid[e][c] = p /\ v.up[a] = t.up[a]
  <2>1. /\ v.kid[s][a] = g /\ v.kid[s][g] = c /\ v.kid[e][c] = p
    BY <1>3, <1>6, <1>9, <1>12, <1>18
  <2>2. /\ v.kid[e][a] = t.kid[e][a] /\ v.kid[e][g] = t.kid[e][g]
        /\ v.kid[s][c] = t.kid[s][c]
    BY <1>3, <1>6, <1>9, <1>12, <1>18
  <2>3. v.up[a] = t.up[a]
    BY <1>3, <1>6, <1>9, <1>12, <1>18
  <2> QED
    BY <1>c, <1>g, <1>p, <2>1, <2>2, <2>3
<1>21. IsRotated(w, v, E, o, P, R1, R, G1, G, a, s, g)
  <2>1. \A z \in {v.kid[s][g], v.kid[e][g], v.kid[e][a]} \ {Nil} : Clean(v, R1, G1, z)
    BY <1>19, <1>20
  <2>2. g = v.kid[s][a] /\ g # Nil
    BY <1>9, <1>20
  <2> QED
    BY <1>17, <1>e, <1>w, <2>1, <2>2, Rotated
<1>22. /\ Spans(w, E, o, P, R) /\ Heights(G)
       /\ G[a] = 1 + Larger(G1[q], G1[j]) /\ G[g] = 1 + Larger(G1[c], G[a])
       /\ \A z \in Link \ {a, g} : G[z] = G1[z]
       /\ Clean(w, R, G, a) /\ Clean(w, R, G, g)
       /\ \A z \in E \ {a, g} :
            /\ w.size[z] = v.size[z] /\ w.height[z] = v.height[z]
            /\ \A d \in Side : R[d][z] = R1[d][z]
  <2> QED
    BY <1>3, <1>e, <1>20, <1>21 DEF IsRotated
<1>23. /\ \A d \in Side : \A z \in Node :
            w.kid[d][z] = IF z = a /\ d = s THEN q
                          ELSE IF z = g /\ d = e THEN a
                          ELSE IF z = v.up[a] /\ d = SideOf(v, a) THEN g
                          ELSE v.kid[d][z]
       /\ \A z \in Node : w.up[z] = IF z = a THEN g
                                    ELSE IF z = q THEN a
                                    ELSE IF z = g THEN v.up[a]
                                    ELSE v.up[z]
  <2> QED
    BY <1>3, <1>e, <1>20, <1>21 DEF IsRotated
<1>24. G1[q] = H[q] /\ G1[j] = H[j] /\ G1[p] = H[p] /\ G1[f] = H[f]
  <2>1. {q, j, p, f} \subseteq Link \ {c, g}
    BY <1>3, <1>4, <1>7, <1>10, <1>12
  <2> QED
    BY <1>17, <2>1
<1>25. G[q] = H[q] /\ G[j] = H[j] /\ G[p] = H[p] /\ G[f] = H[f] /\ G[c] = G1[c]
  <2>1. {q, j, p, f, c} \subseteq Link \ {a, g}
    BY <1>3, <1>4, <1>6, <1>7, <1>10, <1>12
  <2> QED
    BY <1>22, <1>24, <2>1
<1>26. /\ G[c] = H[j] + 1 /\ G[a] = H[j] + 1 /\ G[g] = H[j] + 2
       /\ H[p] \in {H[j], H[j] - 1} /\ H[q] \in {H[j], H[j] - 1}
  <2>1. 1 + Larger(H[p], H[q]) = H[j] + 1
    BY <1>8, <1>11
  <2>2. H[p] <= H[j] /\ H[q] <= H[j] /\ H[p] \in {H[j], H[j] - 1} /\ H[q] \in {H[j], H[j] - 1}
    <3>1. Close(H[p], H[q])
      BY <1>11
    <3> QED
      BY <1>4, <1>10, <2>1, <3>1 DEF Close, Larger
  <2>3. G1[c] = H[j] + 1 /\ G[a] = H[j] + 1
    <3>1. G1[c] = 1 + Larger(H[p], H[j]) /\ G[a] = 1 + Larger(H[q], H[j])
      BY <1>8, <1>17, <1>22, <1>24
    <3> QED
      BY <1>4, <1>10, <2>2, <3>1 DEF Larger
  <2>4. G[g] = 1 + Larger(G1[c], G[a])
    BY <1>22
  <2>5. G[g] = H[j] + 2
    <3> QED
      BY <1>4, <2>3, <2>4 DEF Larger
  <2> QED
    BY <1>25, <2>2, <2>3, <2>5
<1>27. /\ Close(H[q], H[j]) /\ Close(H[f], H[p]) /\ Close(G[c], G[a]) /\ Close(G[g], H[a])
  <2> QED
    BY <1>4, <1>5, <1>7, <1>8, <1>10, <1>26 DEF Close
<1>28. w.kid[s][a] = q /\ w.kid[e][a] = j /\ w.kid[s][g] = c /\ w.kid[e][g] = a
       /\ w.kid[s][c] = f /\ w.kid[e][c] = p
  <2>1. v.up[a] \notin {a, c, g}
    BY <1>13, <1>20
  <2> QED
    BY <1>3, <1>6, <1>9, <1>12, <1>20, <1>23, <2>1
<1>29. Level(w, G, a)
  <2>1. G[w.kid["l"][a]] \in Nat /\ G[w.kid["r"][a]] \in Nat
    <3>1. \A d \in Side : w.kid[d][a] \in {q, j}
      BY <1>28, <1>e, Sides
    <3>2. w.kid["l"][a] \in {q, j} /\ w.kid["r"][a] \in {q, j}
      BY <3>1, Sides
    <3> QED
      BY <1>4, <1>10, <1>25, <3>2
  <2>2. /\ G[a] = 1 + Larger(G[w.kid[s][a]], G[w.kid[Other(s)][a]])
        /\ Close(G[w.kid[s][a]], G[w.kid[Other(s)][a]])
    BY <1>22, <1>24, <1>25, <1>27, <1>28, <1>e
  <2> QED
    BY <2>1, <2>2, LevelSides
<1>30. Level(w, G, g)
  <2>1. G[w.kid["l"][g]] \in Nat /\ G[w.kid["r"][g]] \in Nat
    <3>1. G[c] \in Nat /\ G[a] \in Nat
      BY <1>4, <1>26
    <3> QED
      BY <1>28, <3>1, <1>e, Sides
  <2>2. /\ G[g] = 1 + Larger(G[w.kid[s][g]], G[w.kid[Other(s)][g]])
        /\ Close(G[w.kid[s][g]], G[w.kid[Other(s)][g]])
    BY <1>22, <1>25, <1>27, <1>28, <1>e
  <2> QED
    BY <2>1, <2>2, LevelSides
<1>31. Level(w, G, c)
  <2>1. G[w.kid["l"][c]] \in Nat /\ G[w.kid["r"][c]] \in Nat
    <3>1. \A d \in Side : w.kid[d][c] \in {f, p}
      BY <1>28, <1>e, Sides
    <3>2. w.kid["l"][c] \in {f, p} /\ w.kid["r"][c] \in {f, p}
      BY <3>1, Sides
    <3> QED
      BY <1>7, <1>10, <1>25, <3>2
  <2>2. Larger(H[p], H[f]) = Larger(H[f], H[p])
    BY <1>7, <1>10, LargerFacts
  <2>3. /\ G[c] = 1 + Larger(G[w.kid[s][c]], G[w.kid[Other(s)][c]])
        /\ Close(G[w.kid[s][c]], G[w.kid[Other(s)][c]])
    BY <1>17, <1>25, <1>27, <1>28, <2>2, <1>e
  <2> QED
    BY <2>1, <2>3, LevelSides
<1>32. Clean(w, R, G, c)
  <2>1. c \in E \ {a, g} /\ c # Nil
    BY <1>6, <1>12
  <2>2. Width(R, c) = Width(R1, c)
    BY <1>22, <2>1, Sides DEF Width
  <2> QED
    BY <1>17, <1>22, <1>25, <2>1, <2>2 DEF Clean
<1>33. /\ M \subseteq E /\ g \in M /\ a \in M /\ M \cap D = {a} /\ t.up[a] \notin M
       /\ \A m \in M \ {a} : t.up[m] \in M
  BY <1>3, <1>4, <1>6, <1>7, <1>9, <1>13
<1>34. \A z \in E \ M : /\ w.size[z] = t.size[z] /\ w.height[z] = t.height[z]
                        /\ G[z] = H[z]
                        /\ \A d \in Side : R[d][z] = Q[d][z]
  <2>1. TAKE z \in E \ M
  <2>2. z \in E \ {c, g} /\ z \in E \ {a, g} /\ z \in E \ {a} /\ z \in Link
    BY <1>3
  <2>3. z \in Link \ {c, g} /\ z \in Link \ {a, g}
    BY <2>2
  <2>4. G[z] = H[z]
    BY <1>17, <1>22, <2>3
  <2>5. w.size[z] = t.size[z] /\ w.height[z] = t.height[z]
    <3>1. u.size[z] = t.size[z] /\ u.height[z] = t.height[z]
      BY <1>1, <2>2 DEF Recounted
    <3>2. v.size[z] = u.size[z] /\ v.height[z] = u.height[z]
      BY <1>17, <2>2
    <3>3. w.size[z] = v.size[z] /\ w.height[z] = v.height[z]
      BY <1>22, <2>2
    <3> QED
      BY <3>1, <3>2, <3>3
  <2>6. \A d \in Side : R[d][z] = Q[d][z]
    <3>1. TAKE d \in Side
    <3>2. R1[d][z] = Q[d][z]
      BY <1>17, <2>2
    <3>3. R[d][z] = R1[d][z]
      BY <1>22, <2>2
    <3> QED
      BY <3>2, <3>3
  <2> QED
    BY <2>4, <2>5, <2>6
<1>35. \A z \in E \ M : \A d \in Side :
         w.kid[d][z] = IF t.kid[d][z] = a THEN g ELSE t.kid[d][z]
  <2>1. TAKE z \in E \ M
  <2>2. TAKE d \in Side
  <2>3. v.kid[d][z] = a <=> z = v.up[a] /\ d = SideOf(v, a)
    <3>1. z \in E /\ a \in E /\ Spans(v, E, o, P, R1)
      BY <1>17
    <3> HIDE DEF M
    <3> QED
      BY <3>1, SideOfKid
  <2>4. z \in Node /\ z # a /\ z # c /\ z # g
    BY <1>3
  <2>5. v.kid[d][z] = t.kid[d][z]
    BY <1>18, <2>4
  <2> QED
    BY <1>23, <2>3, <2>4, <2>5
<1>36. \A z \in D \ {a} : w.up[z] = t.up[z]
  <2>1. TAKE z \in D \ {a}
  <2>2. z \in Node /\ z \notin {a, c, g, p, q}
    BY <1>2, <1>3, <1>4, <1>7, <1>10
  <2> QED
    BY <1>18, <1>23, <2>2
<1>37. \A z \in M : Clean(w, R, G, z) /\ Level(w, G, z)
  BY <1>22, <1>29, <1>30, <1>31, <1>32
<1> HIDE DEF M
<1>38. Touches(t, w, E, Q, R, H, G, D, a, M, g)
  BY <1>27, <1>33, <1>34, <1>35, <1>36, <1>37 DEF Touches
<1>39. Fixing(w, E, o, P, R, G, D \ {a}, t.up[a])
  BY <1>22, <1>38, StepDone
<1>40. \A z \in D \ {a} : \A d \in Side : R[d][z] = Q[d][z]
  BY <1>2, <1>4, <1>7, <1>34 DEF M
<1>41. w.n = t.n
  <2>1. u.n = t.n
    BY <1>1 DEF Recounted
  <2>2. v.n = u.n
    BY <1>15 DEF IsRotated
  <2>3. w.n = v.n
    BY <1>21 DEF IsRotated
  <2> QED
    BY <2>1, <2>2, <2>3
<1> QED
  BY <1>39, <1>40, <1>41, <1>u, <1>c, <1>e, <1>v, <1>w DEF FixedUp

\* A round of the fix-up.
LEMMA FixRound ==
  ASSUME NEW t, NEW E, NEW o, NEW P, NEW Q, NEW H, NEW D, NEW a \in E,
         Fixing(t, E, o, P, Q, H, D, a)
  PROVE  FixedUp(Rebalance(Upd(t, a), a), t, E, o, P, Q, D, a)
<1> DEFINE u == Upd(t, a)
           b == Rebalance(u, a)
<1>1. Recounted(u, t, E, o, P, Q, H, D, a)
  BY FixRecounts
<1> HIDE DEF b
<1>2. CASE \A s \in Side : Lean(u, a, s) <= 1
  <2>1. b = u
    BY <1>2 DEF b, Rebalance
  <2>2. FixedUp(u, t, E, o, P, Q, D, a)
    BY <1>2, FixWithoutTurn
  <2> QED
    BY <2>1, <2>2 DEF b
<1>3. CASE ~ \A s \in Side : Lean(u, a, s) <= 1
  <2> DEFINE s == CHOOSE x \in Side : Lean(u, a, x) > 1
             c == t.kid[s][a]
  <2>1. \A d \in Side : Lean(u, a, d) \in Int
    BY <1>1, Sides DEF Recounted
  <2>2. \E x \in Side : Lean(u, a, x) > 1
    <3> HIDE DEF u
    <3> QED
      BY <1>3, <2>1
  <2>3. s \in Side /\ Lean(u, a, s) > 1
    BY <2>2
  <2>4. u.kid[s][a] = c
    BY <1>1 DEF Recounted
  <2>5. b = Rotate(IF Lean(u, c, s) < 0 THEN Rotate(u, c, Other(s)) ELSE u, a, s)
    BY <1>3, <2>4 DEF b, Rebalance
  <2> HIDE DEF s
  <2>6. CASE Lean(u, c, s) < 0
    <3>1. b = Rotate(Rotate(u, c, Other(s)), a, s)
      BY <2>5, <2>6
    <3>2. FixedUp(Rotate(Rotate(u, c, Other(s)), a, s), t, E, o, P, Q, D, a)
      BY <2>3, <2>6, FixWithTwoTurns
    <3> QED
      BY <3>1, <3>2 DEF b
  <2>7. CASE ~(Lean(u, c, s) < 0)
    <3>1. b = Rotate(u, a, s)
      BY <2>5, <2>7
    <3>2. FixedUp(Rotate(u, a, s), t, E, o, P, Q, D, a)
      BY <2>3, <2>7, FixWithOneTurn
    <3> QED
      BY <3>1, <3>2 DEF b
  <2> QED
    BY <2>6, <2>7
<1> QED
  BY <1>2, <1>3

\* There are at most as many elements as nodes.
LEMMA OrderFits ==
  ASSUME NEW o, NEW E, NEW P, Numbered(o, E, P)
  PROVE  Len(o) \in Nat /\ Len(o) <= Rounds
<1>1. /\ E \subseteq Node /\ o \in Seq(E) /\ \A i \in 1..Len(o) : P[o[i]] = i
      /\ Len(o) \in Nat /\ DOMAIN o = 1..Len(o) /\ \A i \in 1..Len(o) : o[i] \in E
  BY LenProperties DEF Numbered
<1>2. IsInjective(o)
  BY <1>1 DEF IsInjective
<1>3. Cardinality(ToSet(o)) = Len(o)
  BY <1>1, <1>2, DistinctCount
<1>4. ToSet(o) \subseteq Node
  BY <1>1 DEF ToSet
<1>5. Cardinality(ToSet(o)) <= Cardinality(Node)
  BY <1>4, OrderedAssumption, FS_Subset
<1> QED
  BY <1>1, <1>3, <1>5 DEF Rounds

\* Every count is right and the tree is balanced.
Counted(t, E, Q) ==
  \A a \in E :
    /\ t.size[a] = Width(Q, a)
    /\ t.height[a] = 1 + Larger(Ht(t, t.kid["l"][a]), Ht(t, t.kid["r"][a]))
    /\ Close(Ht(t, t.kid["l"][a]), Ht(t, t.kid["r"][a]))

\* t is a search tree with the elements E in order o, correct and balanced.
Sound(t, E, o) == \E P, Q : Spans(t, E, o, P, Q) /\ Counted(t, E, Q)

\* When the cursor has left the root, nothing is stale any more.
LEMMA FixDone ==
  ASSUME NEW t, NEW E, NEW o, NEW P, NEW Q, NEW H, NEW D, Fixing(t, E, o, P, Q, H, D, Nil)
  PROVE  Sound(t, E, o)
<1>1. /\ Spans(t, E, o, P, Q) /\ Heights(H) /\ D \subseteq E
      /\ \A d \in D : t.up[d] \in D
      /\ \A c \in E \ D : Clean(t, Q, H, c)
      /\ \A c \in E \ {Nil} : Level(t, H, c)
  BY DEF Fixing, Trail
<1>2. Len(o) \in Nat /\ Nil \notin E
  BY <1>1, SpansTypes
<1>3. \A d \in D : /\ Width(Q, d) \in Nat /\ Width(Q, d) <= Len(o) /\ 1 <= Width(Q, d)
                   /\ Width(Q, d) < Width(Q, t.up[d])
  <2>1. \A d \in D : d \in E /\ t.up[d] # Nil
    BY <1>1, <1>2
  <2> QED
    BY <1>1, <2>1, Widths
<1>4. D = {}
  <2> DEFINE T == {n \in Nat : \A d \in D : Width(Q, d) <= Len(o) - n}
  <2>1. 0 \in T
    BY <1>2, <1>3
  <2>2. ASSUME NEW n \in Nat, n \in T PROVE n + 1 \in T
    <3>1. ASSUME NEW d \in D PROVE Width(Q, d) <= Len(o) - (n + 1)
      <4>1. t.up[d] \in D /\ Width(Q, d) < Width(Q, t.up[d]) /\ Width(Q, t.up[d]) <= Len(o) - n
        BY <1>1, <1>3, <2>2
      <4>2. Width(Q, d) \in Nat /\ Width(Q, t.up[d]) \in Nat
        BY <1>3, <4>1
      <4> QED
        BY <1>2, <4>1, <4>2
    <3> QED
      BY <3>1
  <2> HIDE DEF T
  <2>3. Len(o) \in T
    BY <1>2, <2>1, <2>2, InductiveSet
  <2>4. \A d \in D : Width(Q, d) <= Len(o) - Len(o)
    BY <2>3 DEF T
  <2> QED
    BY <1>2, <1>3, <2>4
<1>5. \A c \in E \cup {Nil} : Ht(t, c) = H[c]
  <2>1. \A c \in E : Clean(t, Q, H, c)
    BY <1>1, <1>4
  <2> QED
    BY <1>1, <2>1, CleanCounts
<1>6. Counted(t, E, Q)
  <2>1. SUFFICES ASSUME NEW a \in E
                 PROVE  /\ t.size[a] = Width(Q, a)
                        /\ t.height[a] = 1 + Larger(Ht(t, t.kid["l"][a]), Ht(t, t.kid["r"][a]))
                        /\ Close(Ht(t, t.kid["l"][a]), Ht(t, t.kid["r"][a]))
    BY DEF Counted
  <2>2. t.kid["l"][a] \in E \cup {Nil} /\ t.kid["r"][a] \in E \cup {Nil}
    BY <1>1, SpansTypes
  <2>3. Clean(t, Q, H, a) /\ Level(t, H, a)
    BY <1>1, <1>2, <1>4
  <2> QED
    BY <1>5, <2>2, <2>3 DEF Clean, Level
<1> QED
  BY <1>1, <1>6 DEF Sound

\* The fix-up ends, and leaves the tree correct and balanced.
LEMMA FixupSound ==
  ASSUME NEW t, NEW E, NEW o, NEW P, NEW Q, NEW H, NEW D, NEW a \in Link,
         Fixing(t, E, o, P, Q, H, D, a)
  PROVE  Sound(Fixup(t, a), E, o) /\ Fixup(t, a).n = t.n
<1> DEFINE X == Trees \X Link
           f == [w \in X |-> IF w[2] = Nil THEN w
                             ELSE <<Rebalance(Upd(w[1], w[2]), w[2]), w[1].up[w[2]]>>]
           Stage(w, i) == /\ w[1].n = t.n
                          /\ \E K, G, C : /\ Fixing(w[1], E, o, P, K, G, C, w[2])
                                          /\ w[2] # Nil => Width(K, w[2]) >= i + 1
           I == [i \in 0..Rounds |-> {w \in X : Stage(w, i)}]
<1>1. Rounds \in Nat /\ 0 \in 0..Rounds /\ Rounds \in 0..Rounds
  BY RoundsCount
<1>2. DOMAIN f = X /\ \A w \in X : f[w] = IF w[2] = Nil THEN w
                             ELSE <<Rebalance(Upd(w[1], w[2]), w[2]), w[1].up[w[2]]>>
  OBVIOUS
<1>3. Fixup(t, a) = Loop(f, <<t, a>>)[1]
  BY DEF Fixup
<1> HIDE DEF f
<1>4. I \in [0..Rounds -> SUBSET DOMAIN f]
  <2> HIDE DEF Stage, X
  <2> QED
    BY <1>2
<1>5. \A i \in 0..Rounds : \A w : w \in I[i] <=> w \in X /\ Stage(w, i)
  <2> HIDE DEF Stage, X
  <2> QED
    OBVIOUS
<1> HIDE DEF I
\* what holds of every tree on the way
<1>6. ASSUME NEW v, NEW b, NEW K, NEW G, NEW C, Fixing(v, E, o, P, K, G, C, b)
      PROVE  /\ v \in Trees /\ Spans(v, E, o, P, K)
             /\ b # Nil => /\ b \in E /\ Width(K, b) \in Nat /\ 1 <= Width(K, b)
                           /\ Width(K, b) <= Rounds
  <2>1. Spans(v, E, o, P, K) /\ (b # Nil => b \in E)
    BY <1>6 DEF Fixing, Trail
  <2>2. v \in Trees /\ Numbered(o, E, P)
    BY <2>1 DEF Spans
  <2>3. Len(o) \in Nat /\ Len(o) <= Rounds
    BY <2>2, OrderFits
  <2>4. b # Nil => Width(K, b) \in Nat /\ 1 <= Width(K, b) /\ Width(K, b) <= Len(o)
    BY <2>1, Widths
  <2> QED
    BY <1>1, <2>1, <2>2, <2>3, <2>4
<1>7. <<t, a>> \in I[0]
  <2>1. <<t, a>> \in X
    BY <1>6
  <2>2. a # Nil => Width(Q, a) >= 0 + 1
    BY <1>6
  <2>3. Stage(<<t, a>>, 0)
    BY <2>2
  <2> QED
    BY <1>1, <1>5, <2>1, <2>3
<1>8. ASSUME NEW i \in 0..Rounds, i < Rounds, NEW w \in I[i] PROVE f[w] \in I[i + 1]
  <2>1. i + 1 \in 0..Rounds /\ i \in Nat
    BY <1>1, <1>8
  <2>2. w \in X /\ Stage(w, i)
    BY <1>5
  <2>3. CASE w[2] = Nil
    <3>1. f[w] = w /\ Stage(w, i + 1)
      BY <1>2, <2>2, <2>3
    <3> QED
      BY <1>5, <2>1, <2>2, <3>1
  <2>4. CASE w[2] # Nil
    <3> DEFINE v == w[1]
               b == w[2]
               y == Rebalance(Upd(v, b), b)
    <3>1. PICK K, G, C : Fixing(v, E, o, P, K, G, C, b) /\ Width(K, b) >= i + 1
      BY <2>2, <2>4
    <3>2. v \in Trees /\ Spans(v, E, o, P, K) /\ b \in E /\ b # Nil /\ Width(K, b) \in Nat
      BY <1>6, <2>4, <3>1
    <3>3. f[w] = <<y, v.up[b]>> /\ v.n = t.n
      BY <1>2, <2>2, <2>4
    <3> HIDE DEF v, b, y
    <3>4. FixedUp(y, v, E, o, P, K, C, b)
      BY <3>1, <3>2, FixRound DEF y
    <3>5. PICK L, R : /\ Fixing(y, E, o, P, R, L, C \ {b}, v.up[b])
                      /\ \A z \in C \ {b} : \A d \in Side : R[d][z] = K[d][z]
      BY <3>4 DEF FixedUp
    <3>6. v.up[b] # Nil => Width(R, v.up[b]) >= i + 1 + 1
      <4> SUFFICES ASSUME v.up[b] # Nil PROVE Width(R, v.up[b]) >= i + 1 + 1
        OBVIOUS
      <4>1. v.up[b] \in C \ {b}
        BY <3>5 DEF Fixing, Trail
      <4>2. Width(R, v.up[b]) = Width(K, v.up[b])
        BY <3>5, <4>1, Sides DEF Width
      <4>3. Width(K, b) < Width(K, v.up[b])
        BY <3>2, Widths
      <4>4. Width(R, v.up[b]) \in Nat
        BY <1>6, <3>5
      <4> QED
        BY <2>1, <3>1, <3>2, <4>2, <4>3, <4>4
    <3>7. y \in Trees /\ v.up[b] \in Link
      <4>1. y \in Trees
        BY <1>6, <3>5
      <4>2. b \in Node
        BY <3>2, SpansTypes
      <4> QED
        BY <3>2, <4>1, <4>2, TreeFields
    <3>8. y.n = t.n
      BY <3>3, <3>4 DEF FixedUp
    <3>9. Stage(<<y, v.up[b]>>, i + 1)
      BY <3>5, <3>6, <3>8
    <3> HIDE DEF Stage
    <3> QED
      BY <1>5, <2>1, <3>3, <3>7, <3>9
  <2> QED
    BY <2>3, <2>4
<1> DEFINE z == Loop(f, <<t, a>>)
<1>9. z \in I[Rounds]
  BY <1>4, <1>7, <1>8, LoopInStages
<1>10. Stage(z, Rounds)
  BY <1>1, <1>5, <1>9
<1> HIDE DEF z
<1>11. PICK K, G, C : /\ Fixing(z[1], E, o, P, K, G, C, z[2])
                      /\ z[2] # Nil => Width(K, z[2]) >= Rounds + 1
  BY <1>10
<1>12. z[2] = Nil
  BY <1>1, <1>6, <1>11
<1>13. Sound(z[1], E, o)
  BY <1>11, <1>12, FixDone
<1> QED
  BY <1>3, <1>10, <1>13 DEF z

-----------------------------------------------------------------------------
(* A new leaf.                                                             *)

\* The positions when m enters at p.
PInserted(P, m, p) == [x \in Node |-> IF x = m THEN p ELSE IF P[x] >= p THEN P[x] + 1 ELSE P[x]]

\* They number the order with m inserted at p.
LEMMA NumberedInserted ==
  ASSUME NEW o, NEW E, NEW P, Numbered(o, E, P), NEW m \in Node \ E, NEW p \in 1..(Len(o) + 1)
  PROVE  /\ Numbered(InsertAt(o, p, m), E \cup {m}, PInserted(P, m, p))
         /\ Len(InsertAt(o, p, m)) = Len(o) + 1
<1> DEFINE F == E \cup {m}
           u == InsertAt(o, p, m)
           R == PInserted(P, m, p)
<1>1. /\ E \subseteq Node /\ o \in Seq(E) /\ P \in [Node -> Int]
      /\ \A i \in 1..Len(o) : P[o[i]] = i
      /\ \A a \in E : P[a] \in 1..Len(o) /\ o[P[a]] = a
  BY DEF Numbered
<1>2. o \in Seq(F) /\ Len(o) \in Nat /\ \A i \in 1..Len(o) : o[i] \in E
  BY <1>1, SeqMonotonic, LenProperties
<1>3. /\ u \in Seq(F) /\ Len(u) = Len(o) + 1
      /\ \A i \in 1..(Len(o) + 1) : u[i] = IF i < p THEN o[i] ELSE IF i = p THEN m ELSE o[i - 1]
  <2>1. m \in F
    OBVIOUS
  <2> HIDE DEF F
  <2> QED
    BY <1>2, <2>1, InsertedAt
<1> HIDE DEF u
<1>4. /\ R \in [Node -> Int] /\ R[m] = p
      /\ \A x \in Node \ {m} : R[x] = IF P[x] >= p THEN P[x] + 1 ELSE P[x]
  BY <1>1 DEF PInserted
<1> HIDE DEF R
<1>5. ASSUME NEW i \in 1..Len(u) PROVE R[u[i]] = i
  <2>1. CASE i = p
    BY <1>3, <1>4, <2>1
  <2>2. CASE i < p
    <3>1. i \in 1..Len(o) /\ u[i] = o[i] /\ o[i] \in E /\ P[o[i]] = i
      BY <1>1, <1>2, <1>3, <2>2
    <3>2. o[i] \in Node \ {m}
      BY <1>1, <3>1
    <3> QED
      BY <1>4, <2>2, <3>1, <3>2
  <2>3. CASE i > p
    <3>1. i - 1 \in 1..Len(o) /\ u[i] = o[i - 1]
      BY <1>2, <1>3, <2>3
    <3>2. o[i - 1] \in E /\ P[o[i - 1]] = i - 1
      BY <1>1, <1>2, <3>1
    <3>3. o[i - 1] \in Node \ {m}
      BY <1>1, <3>2
    <3>4. R[o[i - 1]] = IF i - 1 >= p THEN (i - 1) + 1 ELSE i - 1
      BY <1>4, <3>2, <3>3
    <3> QED
      BY <2>3, <3>1, <3>4
  <2> QED
    BY <2>1, <2>2, <2>3
<1>6. ASSUME NEW a \in F PROVE R[a] \in 1..Len(u) /\ u[R[a]] = a
  <2>1. CASE a = m
    BY <1>2, <1>3, <1>4, <2>1
  <2>2. CASE a # m
    <3>1. a \in Node \ {m} /\ P[a] \in 1..Len(o) /\ o[P[a]] = a
      BY <1>1, <2>2
    <3>2. CASE P[a] >= p
      <4>1. R[a] = P[a] + 1
        BY <1>4, <3>1, <3>2
      <4>2. P[a] + 1 \in 1..(Len(o) + 1) /\ ~(P[a] + 1 < p) /\ P[a] + 1 # p /\ (P[a] + 1) - 1 = P[a]
        BY <1>2, <3>1, <3>2
      <4>3. u[P[a] + 1] = o[P[a]]
        BY <1>3, <4>2
      <4> QED
        BY <1>3, <3>1, <4>1, <4>2, <4>3
    <3>3. CASE ~(P[a] >= p)
      <4>1. R[a] = P[a] /\ P[a] \in 1..(Len(o) + 1) /\ P[a] < p
        BY <1>2, <1>4, <3>1, <3>3
      <4> QED
        BY <1>3, <3>1, <4>1
    <3> QED
      BY <3>2, <3>3
  <2> QED
    BY <2>1, <2>2
<1>7. F \subseteq Node
  BY <1>1
<1>8. Numbered(u, F, R)
  <2> HIDE DEF F
  <2> QED
    BY <1>3, <1>4, <1>5, <1>6, <1>7 DEF Numbered
<1> QED
  BY <1>3, <1>8 DEF u, R

\* The elements whose subtree spans a position lie on a path from the root.
Over(E, Q, p) == {c \in E : Q["l"][c] <= p /\ p <= Q["r"][c]}

\* The elements whose spans hold a position form one path to the root.
LEMMA OverIsPath ==
  ASSUME NEW t, NEW E, NEW o, NEW P, NEW Q, Spans(t, E, o, P, Q), NEW p \in Int
  PROVE  LET D == Over(E, Q, p)
         IN  /\ D \subseteq E
             /\ \A d \in D : t.up[d] \in D \cup {Nil}
             /\ \A d \in E : ~(t.kid["l"][d] \in D /\ t.kid["r"][d] \in D)
             /\ \A d \in E : P[d] = p => /\ d \in D
                                         /\ t.kid["l"][d] \notin D /\ t.kid["r"][d] \notin D
<1> DEFINE D == Over(E, Q, p)
<1>1. D \subseteq E /\ \A c \in E : c \in D <=> Q["l"][c] <= p /\ p <= Q["r"][c]
  BY DEF Over
<1> HIDE DEF D
<1>2. \A c \in E : P[c] \in Int /\ Q["l"][c] \in Int /\ Q["r"][c] \in Int
  BY SpansTypes
<1>3. Nil \notin E
  BY SpansTypes
<1>4. ASSUME NEW d \in D PROVE t.up[d] \in D \cup {Nil}
  <2> SUFFICES ASSUME t.up[d] # Nil PROVE t.up[d] \in D
    OBVIOUS
  <2> DEFINE b == t.up[d]
  <2>1. d \in E /\ b \in E /\ (t.kid["l"][b] = d \/ t.kid["r"][b] = d)
    BY <1>1, SpansAt
  <2>2. Q["l"][b] <= P[b] /\ P[b] <= Q["r"][b]
    BY <2>1, SpansAt
  <2>3. \/ Q["l"][d] = Q["l"][b] /\ Q["r"][d] = P[b] - 1
        \/ Q["r"][d] = Q["r"][b] /\ Q["l"][d] = P[b] + 1
    BY <1>3, <2>1, SpansAt
  <2>4. Q["l"][d] <= p /\ p <= Q["r"][d]
    BY <1>1
  <2> HIDE DEF b
  <2>5. Q["l"][b] <= p /\ p <= Q["r"][b]
    BY <1>2, <2>1, <2>2, <2>3, <2>4
  <2> QED
    BY <1>1, <2>1, <2>5 DEF b
<1>5. ASSUME NEW d \in E
      PROVE  /\ t.kid["l"][d] \in D => p <= P[d] - 1
             /\ t.kid["r"][d] \in D => P[d] + 1 <= p
  <2>1. t.kid["l"][d] \in D => p <= P[d] - 1
    <3> SUFFICES ASSUME t.kid["l"][d] \in D PROVE p <= P[d] - 1
      OBVIOUS
    <3>1. t.kid["l"][d] # Nil /\ p <= Q["r"][t.kid["l"][d]]
      BY <1>1, <1>3
    <3> QED
      BY <3>1, SpansAt
  <2>2. t.kid["r"][d] \in D => P[d] + 1 <= p
    <3> SUFFICES ASSUME t.kid["r"][d] \in D PROVE P[d] + 1 <= p
      OBVIOUS
    <3>1. t.kid["r"][d] # Nil /\ Q["l"][t.kid["r"][d]] <= p
      BY <1>1, <1>3
    <3> QED
      BY <3>1, SpansAt
  <2> QED
    BY <2>1, <2>2
<1>6. \A d \in E : ~(t.kid["l"][d] \in D /\ t.kid["r"][d] \in D)
  BY <1>2, <1>5
<1>7. ASSUME NEW d \in E, P[d] = p
      PROVE  d \in D /\ t.kid["l"][d] \notin D /\ t.kid["r"][d] \notin D
  <2>1. Q["l"][d] <= P[d] /\ P[d] <= Q["r"][d]
    BY SpansAt
  <2> QED
    BY <1>1, <1>2, <1>5, <1>7, <2>1
<1> QED
  BY <1>1, <1>4, <1>6, <1>7 DEF D

\* The tree with m's hook as new.
Fresh(t, m) ==
  [ root |-> t.root, n |-> t.n + 1,
    kid |-> [s \in Side |-> [t.kid[s] EXCEPT ![m] = Nil]],
    up |-> [t.up EXCEPT ![m] = Nil],
    size |-> [t.size EXCEPT ![m] = 1], height |-> [t.height EXCEPT ![m] = 1] ]

\* u is t with m as a leaf that hangs nowhere yet.
IsFresh(u, t, m) ==
  /\ u \in Trees /\ u.root = t.root /\ u.n = t.n + 1
  /\ \A d \in Side : \A x \in Node : u.kid[d][x] = IF x = m THEN Nil ELSE t.kid[d][x]
  /\ \A x \in Node : /\ u.up[x] = IF x = m THEN Nil ELSE t.up[x]
                     /\ u.size[x] = IF x = m THEN 1 ELSE t.size[x]
                     /\ u.height[x] = IF x = m THEN 1 ELSE t.height[x]

\* What the initialisation of a new leaf assigns.
LEMMA FreshFields ==
  ASSUME NEW t \in Trees, NEW m \in Node
  PROVE  IsFresh(Fresh(t, m), t, m)
<1> DEFINE k == [s \in Side |-> [t.kid[s] EXCEPT ![m] = Nil]]
           b == [t.up EXCEPT ![m] = Nil]
           z == [t.size EXCEPT ![m] = 1]
           h == [t.height EXCEPT ![m] = 1]
           u == Fresh(t, m)
<1>1. /\ t.root \in Link /\ t.n \in Nat /\ t.up \in [Node -> Link]
      /\ t.size \in [Node -> Nat] /\ t.height \in [Node -> Nat]
      /\ \A s \in Side : t.kid[s] \in [Node -> Link]
  BY TreeFields
<1>2. /\ k \in [Side -> [Node -> Link]]
      /\ \A d \in Side : \A x \in Node : k[d][x] = IF x = m THEN Nil ELSE t.kid[d][x]
  BY <1>1 DEF Link
<1>3. /\ b \in [Node -> Link] /\ z \in [Node -> Nat] /\ h \in [Node -> Nat]
      /\ \A x \in Node : /\ b[x] = IF x = m THEN Nil ELSE t.up[x]
                         /\ z[x] = IF x = m THEN 1 ELSE t.size[x]
                         /\ h[x] = IF x = m THEN 1 ELSE t.height[x]
  BY <1>1 DEF Link
<1>4. u = [root |-> t.root, n |-> t.n + 1, kid |-> k, up |-> b, size |-> z, height |-> h]
  BY DEF Fresh
<1> HIDE DEF k, b, z, h, u
<1>5. t.n + 1 \in Nat
  BY <1>1
<1>6. u \in Trees
  BY <1>1, <1>2, <1>3, <1>4, <1>5 DEF Trees
<1>7. u.root = t.root /\ u.n = t.n + 1 /\ u.kid = k /\ u.up = b /\ u.size = z /\ u.height = h
  BY <1>4
<1>8. IsFresh(u, t, m)
  BY <1>2, <1>3, <1>6, <1>7 DEF IsFresh
<1> QED
  BY <1>8 DEF u

\* m becomes a leaf at position p, under a on the side s where a has no child.
QInserted(Q, m, p, g) ==
  [d \in Side |-> [x \in Node |->
     IF x = m THEN p
     ELSE IF (d = "l" /\ Q[d][x] > g) \/ (d = "r" /\ Q[d][x] >= g) THEN Q[d][x] + 1
     ELSE Q[d][x]]]

\* u is t with m as a leaf under a on side s.
IsAttached(u, t, a, s, m) ==
  /\ u \in Trees /\ u.root = t.root /\ u.n = t.n + 1
  /\ \A d \in Side : \A x \in Node :
       u.kid[d][x] = IF x = m THEN Nil ELSE IF x = a /\ d = s THEN m ELSE t.kid[d][x]
  /\ \A x \in Node : /\ u.up[x] = IF x = m THEN a ELSE t.up[x]
                     /\ u.size[x] = IF x = m THEN 1 ELSE t.size[x]
                     /\ u.height[x] = IF x = m THEN 1 ELSE t.height[x]

\* What hanging a new leaf under a assigns.
LEMMA AttachedFields ==
  ASSUME NEW t \in Trees, NEW m \in Node, NEW a \in Node, a # m, NEW s \in Side
  PROVE  IsAttached(Hang(Fresh(t, m), a, s, m), t, a, s, m)
<1> DEFINE v == Fresh(t, m)
           u == Hang(v, a, s, m)
<1>1. IsFresh(v, t, m)
  BY FreshFields
<1> HIDE DEF v
<1>2. IsHung(u, v, a, s, m)
  <2>1. v \in Trees /\ m \in Link
    BY <1>1 DEF IsFresh, Link
  <2> QED
    BY <2>1, HangFields
<1> HIDE DEF u
<1>3. /\ u \in Trees /\ u.root = t.root /\ u.n = t.n + 1
      /\ \A d \in Side : \A x \in Node :
           u.kid[d][x] = IF x = m THEN Nil ELSE IF x = a /\ d = s THEN m ELSE t.kid[d][x]
  BY <1>1, <1>2 DEF IsFresh, IsHung
<1>4. \A x \in Node : /\ u.up[x] = IF x = m THEN a ELSE t.up[x]
                      /\ u.size[x] = IF x = m THEN 1 ELSE t.size[x]
                      /\ u.height[x] = IF x = m THEN 1 ELSE t.height[x]
  BY <1>1, <1>2 DEF IsFresh, IsHung
<1>5. IsAttached(u, t, a, s, m)
  BY <1>3, <1>4 DEF IsAttached
<1> QED
  BY <1>5 DEF u, v

\* A new leaf takes the position next to its parent's, and the tree stays a search tree.
LEMMA AttachedSpans ==
  ASSUME NEW t, NEW E, NEW o, NEW P, NEW Q, Spans(t, E, o, P, Q), NEW m \in Node \ E,
         NEW a \in E, NEW s \in Side, t.kid[s][a] = Nil,
         NEW p, p = (IF s = "l" THEN P[a] ELSE P[a] + 1), NEW u, IsAttached(u, t, a, s, m)
  PROVE  /\ p \in 1..(Len(o) + 1)
         /\ Spans(u, E \cup {m}, InsertAt(o, p, m), PInserted(P, m, p), QInserted(Q, m, p, P[a]))
<1> DEFINE F == E \cup {m}
           v == InsertAt(o, p, m)
           A == PInserted(P, m, p)
           B == QInserted(Q, m, p, P[a])
           g == P[a]
<1>1. /\ t \in Trees /\ Numbered(o, E, P) /\ Q \in [Side -> [Node -> Int]] /\ t.root \in E
  BY DEF Spans
<1>2. /\ Len(o) \in Nat /\ E \subseteq Node /\ Nil \notin E /\ m \in Node /\ m # Nil /\ m \notin E
      /\ a \in Node /\ a # m /\ g \in 1..Len(o) /\ P \in [Node -> Int]
      /\ \A x \in E : P[x] = g => x = a
  <2>1. /\ Len(o) \in Nat /\ E \subseteq Node /\ Nil \notin E
    BY SpansTypes
  <2> QED
    BY <1>1, <2>1, OnePosition, OrderedAssumption DEF Numbered
<1>3. p \in 1..(Len(o) + 1)
  BY <1>2
<1>4. Numbered(v, F, A) /\ Len(v) = Len(o) + 1
  BY <1>1, <1>3, NumberedInserted
<1>5. A[m] = p /\ \A x \in E : A[x] = IF P[x] >= p THEN P[x] + 1 ELSE P[x]
  BY <1>2 DEF PInserted
<1>6. /\ B \in [Side -> [Node -> Int]] /\ B["l"][m] = p /\ B["r"][m] = p
      /\ \A x \in E : /\ B["l"][x] = IF Q["l"][x] > g THEN Q["l"][x] + 1 ELSE Q["l"][x]
                      /\ B["r"][x] = IF Q["r"][x] >= g THEN Q["r"][x] + 1 ELSE Q["r"][x]
  <2>1. \A d \in Side : \A x \in Node : Q[d][x] \in Int
    BY <1>1
  <2>2. p \in Int
    BY <1>3
  <2>3. B \in [Side -> [Node -> Int]]
    <3> HIDE DEF g
    <3> QED
      BY <2>1, <2>2 DEF QInserted
  <2>4. \A d \in Side : B[d][m] = p
    BY <1>2 DEF QInserted
  <2>5. \A x \in E : /\ B["l"][x] = IF Q["l"][x] > g THEN Q["l"][x] + 1 ELSE Q["l"][x]
                     /\ B["r"][x] = IF Q["r"][x] >= g THEN Q["r"][x] + 1 ELSE Q["r"][x]
    BY <1>2, Sides DEF QInserted
  <2> QED
    BY <2>3, <2>4, <2>5, Sides
<1> HIDE DEF v, A, B
<1>7. /\ u \in Trees /\ u.root = t.root
      /\ \A d \in Side : \A x \in Node :
           u.kid[d][x] = IF x = m THEN Nil ELSE IF x = a /\ d = s THEN m ELSE t.kid[d][x]
      /\ \A x \in Node : u.up[x] = IF x = m THEN a ELSE t.up[x]
  BY DEF IsAttached
<1>8. \A x \in E : /\ P[x] \in Int /\ Q["l"][x] \in Int /\ Q["r"][x] \in Int
                   /\ 1 <= Q["l"][x] /\ Q["l"][x] <= P[x] /\ P[x] <= Q["r"][x] /\ Q["r"][x] <= Len(o)
  BY SpansTypes, SpansAt
<1>9. ASSUME NEW x \in F PROVE Inside(A, B, Len(v), x)
  <2>1. CASE x = m
    BY <1>2, <1>3, <1>4, <1>5, <1>6, <2>1 DEF Inside
  <2>2. CASE x \in E
    <3>0. B["l"][x] <= A[x] /\ A[x] <= B["r"][x] /\ 1 <= B["l"][x] /\ B["r"][x] <= Len(o) + 1
      <4>1. /\ A[x] = IF P[x] >= p THEN P[x] + 1 ELSE P[x]
            /\ B["l"][x] = IF Q["l"][x] > g THEN Q["l"][x] + 1 ELSE Q["l"][x]
            /\ B["r"][x] = IF Q["r"][x] >= g THEN Q["r"][x] + 1 ELSE Q["r"][x]
        BY <1>5, <1>6, <2>2
      <4>2. /\ P[x] \in Int /\ Q["l"][x] \in Int /\ Q["r"][x] \in Int
            /\ 1 <= Q["l"][x] /\ Q["l"][x] <= P[x] /\ P[x] <= Q["r"][x] /\ Q["r"][x] <= Len(o)
        BY <1>8, <2>2
      <4>3. g \in Int /\ Len(o) \in Nat /\ (p = g \/ p = g + 1)
        BY <1>2
      <4> HIDE DEF g
      <4> QED
        BY <4>1, <4>2, <4>3
    <3> QED
      BY <1>4, <3>0 DEF Inside
  <2> QED
    BY <2>1, <2>2
<1>10. ASSUME NEW x \in F PROVE Below(u, F, A, B, x)
  <2>1. CASE x = m
    <3>1. u.kid["l"][x] = Nil /\ u.kid["r"][x] = Nil
      BY <1>2, <1>7, <2>1, Sides
    <3> QED
      BY <1>5, <1>6, <2>1, <3>1 DEF Below, Side
  <2>2. CASE x \in E
    <3>1. x # m /\ x \in Node
      BY <1>2, <2>2
    <3>2. ASSUME t.kid["l"][x] # Nil
          PROVE  /\ u.kid["l"][x] = t.kid["l"][x] /\ t.kid["l"][x] \in E
                 /\ u.up[t.kid["l"][x]] = x /\ B["l"][t.kid["l"][x]] = B["l"][x]
                 /\ B["r"][t.kid["l"][x]] = A[x] - 1
      <4> DEFINE c == t.kid["l"][x]
      <4>1. c \in E /\ t.up[c] = x /\ Q["l"][c] = Q["l"][x] /\ Q["r"][c] = P[x] - 1
        BY <2>2, <3>2, SpansAt
      <4>2. u.kid["l"][x] = c /\ u.up[c] = x
        BY <1>2, <1>7, <3>1, <3>2, <4>1, Sides
      <4>3. s = "l" => P[x] # g
        BY <1>2, <2>2, <3>2
      <4> HIDE DEF c
      <4>4. B["l"][c] = B["l"][x]
        BY <1>6, <2>2, <4>1
      <4>9. P[x] \in Int /\ g \in Int
        BY <1>2, <1>8, <2>2
      <4>5. B["r"][c] = IF P[x] - 1 >= g THEN P[x] ELSE P[x] - 1
        <5>1. B["r"][c] = IF P[x] - 1 >= g THEN (P[x] - 1) + 1 ELSE P[x] - 1
          BY <1>6, <4>1
        <5> HIDE DEF g
        <5> QED
          BY <4>9, <5>1
      <4>6. A[x] = IF P[x] >= p THEN P[x] + 1 ELSE P[x]
        BY <1>5, <2>2
      <4>7. p = g \/ p = g + 1
        OBVIOUS
      <4>8. B["r"][c] = A[x] - 1
        <5>1. CASE s = "l"
          <6>1. p = g /\ P[x] # g
            BY <4>3, <5>1
          <6> HIDE DEF g
          <6> QED
            BY <4>5, <4>6, <4>9, <6>1
        <5>2. CASE s = "r"
          <6>1. p = g + 1
            BY <5>2
          <6> HIDE DEF g
          <6> QED
            BY <4>5, <4>6, <4>9, <6>1
        <5> QED
          BY <5>1, <5>2 DEF Side
      <4> QED
        BY <4>1, <4>2, <4>4, <4>8 DEF c
    <3>3. ASSUME t.kid["r"][x] # Nil
          PROVE  /\ u.kid["r"][x] = t.kid["r"][x] /\ t.kid["r"][x] \in E
                 /\ u.up[t.kid["r"][x]] = x /\ B["r"][t.kid["r"][x]] = B["r"][x]
                 /\ B["l"][t.kid["r"][x]] = A[x] + 1
      <4> DEFINE c == t.kid["r"][x]
      <4>1. c \in E /\ t.up[c] = x /\ Q["r"][c] = Q["r"][x] /\ Q["l"][c] = P[x] + 1
        BY <2>2, <3>3, SpansAt
      <4>2. u.kid["r"][x] = c /\ u.up[c] = x
        BY <1>2, <1>7, <3>1, <3>3, <4>1, Sides
      <4>3. s = "r" => P[x] # g
        BY <1>2, <2>2, <3>3
      <4> HIDE DEF c
      <4>4. B["r"][c] = B["r"][x]
        BY <1>6, <2>2, <4>1
      <4>9. P[x] \in Int /\ g \in Int
        BY <1>2, <1>8, <2>2
      <4>5. B["l"][c] = IF P[x] + 1 > g THEN P[x] + 2 ELSE P[x] + 1
        <5>1. B["l"][c] = IF P[x] + 1 > g THEN (P[x] + 1) + 1 ELSE P[x] + 1
          BY <1>6, <4>1
        <5> HIDE DEF g
        <5> QED
          BY <4>9, <5>1
      <4>6. A[x] = IF P[x] >= p THEN P[x] + 1 ELSE P[x]
        BY <1>5, <2>2
      <4>8. B["l"][c] = A[x] + 1
        <5>1. CASE s = "l"
          <6>1. p = g
            BY <5>1
          <6> HIDE DEF g
          <6> QED
            BY <4>5, <4>6, <4>9, <6>1
        <5>2. CASE s = "r"
          <6>1. p = g + 1 /\ P[x] # g
            BY <4>3, <5>2
          <6> HIDE DEF g
          <6> QED
            BY <4>5, <4>6, <4>9, <6>1
        <5> QED
          BY <5>1, <5>2 DEF Side
      <4> QED
        BY <4>1, <4>2, <4>4, <4>8 DEF c
    <3>4. ASSUME NEW d \in Side, t.kid[d][x] = Nil, ~(x = a /\ d = s)
          PROVE  u.kid[d][x] = Nil /\ B[d][x] = A[x]
      <4>1. u.kid[d][x] = Nil
        BY <1>7, <3>1, <3>4
      <4>2. Q[d][x] = P[x]
        BY <2>2, <3>4, SpansAt DEF Side
      <4>3. A[x] = IF P[x] >= p THEN P[x] + 1 ELSE P[x]
        BY <1>5, <2>2
      <4>4. d = "l" => B[d][x] = IF P[x] > g THEN P[x] + 1 ELSE P[x]
        BY <1>6, <2>2, <4>2
      <4>5. d = "r" => B[d][x] = IF P[x] >= g THEN P[x] + 1 ELSE P[x]
        BY <1>6, <2>2, <4>2
      <4>6. d = s => P[x] # g
        BY <1>2, <2>2, <3>4
      <4>7. P[x] \in Int /\ g \in Int
        BY <1>2, <1>8, <2>2
      <4>8. p = IF s = "l" THEN g ELSE g + 1
        OBVIOUS
      <4> HIDE DEF g
      <4>9. B[d][x] = A[x]
        <5>1. CASE s = "l"
          BY <4>3, <4>4, <4>5, <4>6, <4>7, <4>8, <5>1 DEF Side
        <5>2. CASE s = "r"
          BY <4>3, <4>4, <4>5, <4>6, <4>7, <4>8, <5>2 DEF Side
        <5> QED
          BY <5>1, <5>2 DEF Side
      <4> QED
        BY <4>1, <4>9
    <3>5. ASSUME NEW d \in Side, x = a, d = s
          PROVE  /\ u.kid[d][x] = m /\ u.up[m] = x /\ B[d][m] = B[d][x]
                 /\ B[Other(d)][m] = A[x] + Toward(d)
      <4>1. u.kid[d][x] = m /\ u.up[m] = x
        BY <1>2, <1>7, <3>5
      <4>2. Q[d][x] = P[x]
        BY <3>5, SpansAt DEF Side
      <4>3. A[x] = IF g >= p THEN g + 1 ELSE g
        BY <1>5, <2>2, <3>5
      <4>4. B["l"][m] = p /\ B["r"][m] = p
        BY <1>6
      <4>5. CASE s = "l"
        <5>1. B["l"][x] = IF g > g THEN g + 1 ELSE g
          BY <1>6, <3>5, <4>2, <4>5
        <5> QED
          BY <1>2, <3>5, <4>1, <4>3, <4>4, <4>5, <5>1 DEF Other, Toward
      <4>6. CASE s = "r"
        <5>1. B["r"][x] = IF g >= g THEN g + 1 ELSE g
          BY <1>6, <3>5, <4>2, <4>6
        <5> QED
          BY <1>2, <3>5, <4>1, <4>3, <4>4, <4>6, <5>1 DEF Other, Toward
      <4> QED
        BY <4>5, <4>6 DEF Side
    <3>6. A[x] \in Int
      BY <1>5, <1>8, <2>2
    <3>7. ASSUME NEW d \in Side
          PROVE  IF u.kid[d][x] = Nil THEN B[d][x] = A[x]
                 ELSE /\ u.kid[d][x] \in F /\ u.up[u.kid[d][x]] = x
                      /\ B[d][u.kid[d][x]] = B[d][x]
                      /\ B[Other(d)][u.kid[d][x]] = A[x] + Toward(d)
      <4>1. CASE x = a /\ d = s
        BY <1>2, <3>5, <4>1
      <4>2. CASE ~(x = a /\ d = s) /\ t.kid[d][x] = Nil
        BY <3>4, <4>2
      <4>3. CASE t.kid[d][x] # Nil
        <5>1. A[x] - 1 = A[x] + -1
          BY <3>6
        <5>2. CASE d = "l"
          BY <1>2, <3>2, <4>3, <5>1, <5>2 DEF Other, Toward
        <5>3. CASE d = "r"
          BY <1>2, <3>3, <4>3, <5>3 DEF Other, Toward
        <5> QED
          BY <5>2, <5>3 DEF Side
      <4> QED
        BY <4>1, <4>2, <4>3
    <3> QED
      BY <3>7 DEF Below
  <2> QED
    BY <2>1, <2>2
<1>11. ASSUME NEW x \in F PROVE Above(u, F, B, Len(v), x)
  <2>1. CASE x = m
    <3>1. u.up[x] = a /\ u.kid[s][a] = x /\ u.root # x
      BY <1>1, <1>2, <1>7, <2>1
    <3> QED
      BY <1>2, <3>1 DEF Above
  <2>2. CASE x \in E
    <3>1. x # m /\ x \in Node /\ u.up[x] = t.up[x]
      BY <1>2, <1>7, <2>2
    <3>2. Above(t, E, Q, Len(o), x)
      BY <2>2 DEF Spans
    <3>3. CASE t.up[x] = Nil
      <4>1. Q["l"][x] = 1 /\ Q["r"][x] = Len(o) /\ t.root = x
        BY <3>2, <3>3 DEF Above
      <4>2. B["l"][x] = 1 /\ B["r"][x] = Len(o) + 1
        BY <1>2, <1>6, <2>2, <4>1
      <4> QED
        BY <1>4, <1>7, <3>1, <3>3, <4>1, <4>2 DEF Above
    <3>4. CASE t.up[x] # Nil
      <4>1. PICK d \in Side : t.kid[d][t.up[x]] = x
        BY <3>2, <3>4 DEF Above
      <4>2. t.up[x] \in E /\ t.root # x
        BY <3>2, <3>4 DEF Above
      <4>3. u.kid[d][t.up[x]] = x
        BY <1>2, <1>7, <2>2, <4>1, <4>2
      <4> QED
        BY <1>7, <3>1, <3>4, <4>2, <4>3 DEF Above
    <3> QED
      BY <3>3, <3>4
  <2> QED
    BY <2>1, <2>2
<1>12. u.root # Nil /\ u.root \in F
  BY <1>1, <1>2, <1>7
<1> HIDE DEF F
<1>13. Spans(u, F, v, A, B)
  BY <1>4, <1>6, <1>7, <1>9, <1>10, <1>11, <1>12 DEF Spans
<1> QED
  BY <1>3, <1>13 DEF F, v, A, B

\* Once m is attached, the fix-up that starts at its parent a has m's ancestors to recount.
LEMMA AttachedSound ==
  ASSUME NEW t, NEW E, NEW o, NEW P, NEW Q, Spans(t, E, o, P, Q), Counted(t, E, Q),
         NEW m \in Node \ E, NEW a \in E, NEW s \in Side, t.kid[s][a] = Nil,
         NEW p, p = (IF s = "l" THEN P[a] ELSE P[a] + 1), NEW u, IsAttached(u, t, a, s, m)
  PROVE  Sound(Fixup(u, a), E \cup {m}, InsertAt(o, p, m)) /\ Fixup(u, a).n = t.n + 1
<1> DEFINE F == E \cup {m}
           v == InsertAt(o, p, m)
           A == PInserted(P, m, p)
           B == QInserted(Q, m, p, P[a])
           g == P[a]
           D == Over(E, Q, g)
           H == [x \in Link |-> IF x = Nil THEN 0 ELSE IF x = m THEN 1 ELSE t.height[x]]
<1>1. /\ t \in Trees /\ P \in [Node -> Int]
      /\ E \subseteq Node /\ Nil \notin E /\ m \in Node /\ m # Nil /\ m \notin E
      /\ a \in Node /\ a # m /\ g \in Int
  BY SpansTypes, OrderedAssumption DEF Spans, Numbered
<1>2. Spans(u, F, v, A, B)
  BY AttachedSpans
<1>3. /\ u.n = t.n + 1
      /\ \A d \in Side : \A x \in Node :
           u.kid[d][x] = IF x = m THEN Nil ELSE IF x = a /\ d = s THEN m ELSE t.kid[d][x]
      /\ \A x \in Node : /\ u.up[x] = IF x = m THEN a ELSE t.up[x]
                         /\ u.size[x] = IF x = m THEN 1 ELSE t.size[x]
                         /\ u.height[x] = IF x = m THEN 1 ELSE t.height[x]
  BY DEF IsAttached
<1>4. /\ D \subseteq E /\ \A c \in E : c \in D <=> Q["l"][c] <= g /\ g <= Q["r"][c]
  BY DEF Over
<1>5. /\ \A d \in D : t.up[d] \in D \cup {Nil}
      /\ \A d \in E : ~(t.kid["l"][d] \in D /\ t.kid["r"][d] \in D)
      /\ a \in D /\ t.kid["l"][a] \notin D /\ t.kid["r"][a] \notin D
  BY <1>1, OverIsPath
<1>6. H \in [Link -> Nat] /\ H[Nil] = 0 /\ H[m] = 1 /\ \A x \in E : H[x] = t.height[x]
  BY <1>1, TreeFields DEF Link
<1>7. \A x \in E \cup {Nil} : H[x] = Ht(t, x)
  BY <1>1, <1>6 DEF Ht
<1>8. \A x \in E : /\ t.size[x] = Width(Q, x)
                   /\ t.height[x] = 1 + Larger(Ht(t, t.kid["l"][x]), Ht(t, t.kid["r"][x]))
                   /\ Close(Ht(t, t.kid["l"][x]), Ht(t, t.kid["r"][x]))
                   /\ t.kid["l"][x] \in E \cup {Nil} /\ t.kid["r"][x] \in E \cup {Nil}
  BY SpansTypes DEF Counted
<1>9. \A x \in E : P[x] \in Int /\ Q["l"][x] \in Int /\ Q["r"][x] \in Int /\ Q["l"][x] <= Q["r"][x]
  <2>1. \A x \in E : /\ P[x] \in Int /\ Q["l"][x] \in Int /\ Q["r"][x] \in Int
                     /\ Q["l"][x] <= P[x] /\ P[x] <= Q["r"][x]
    BY SpansTypes, SpansAt
  <2> QED
    BY <2>1
<1>10. p \in Int
  BY <1>1
<1>11. /\ B["l"][m] = p /\ B["r"][m] = p
       /\ \A x \in E : /\ B["l"][x] = IF Q["l"][x] > g THEN Q["l"][x] + 1 ELSE Q["l"][x]
                       /\ B["r"][x] = IF Q["r"][x] >= g THEN Q["r"][x] + 1 ELSE Q["r"][x]
  BY <1>1, Sides DEF QInserted
<1> HIDE DEF v, A, B, D, H
<1>12. Trail(u, D, a)
  <2>1. a \in D \cup {Nil} /\ a # Nil
    BY <1>1, <1>5
  <2>2. ASSUME NEW d \in D
        PROVE  /\ u.up[d] \in D \/ (u.up[d] = Nil /\ a # Nil)
               /\ ~(u.kid["l"][d] \in D /\ u.kid["r"][d] \in D)
    <3>1. d \in E /\ d \in Node /\ d # m /\ m \notin D
      BY <1>1, <1>4
    <3>2. u.up[d] = t.up[d]
      BY <1>3, <3>1
    <3>3. \A q \in Side : u.kid[q][d] \in D => t.kid[q][d] \in D
      BY <1>3, <3>1
    <3> QED
      BY <1>5, <2>1, <3>1, <3>2, <3>3, Sides
  <2>3. u.kid["l"][a] \notin D /\ u.kid["r"][a] \notin D
    BY <1>1, <1>3, <1>4, <1>5, Sides
  <2> QED
    BY <2>1, <2>2, <2>3 DEF Trail
<1>13. ASSUME NEW c \in F \ D PROVE Clean(u, B, H, c)
  <2>1. CASE c = m
    <3>1. u.size[c] = 1 /\ u.height[c] = 1 /\ H[c] = 1
      BY <1>1, <1>3, <1>6, <2>1
    <3>2. Width(B, c) = 1
      BY <1>1, <1>10, <1>11, <2>1 DEF Width
    <3> QED
      BY <3>1, <3>2 DEF Clean
  <2>2. CASE c # m
    <3>1. c \in E /\ c \in Node /\ c # Nil /\ ~(Q["l"][c] <= g /\ g <= Q["r"][c])
      BY <1>1, <1>4, <2>2
    <3>2. u.size[c] = Width(Q, c) /\ u.height[c] = H[c]
      BY <1>3, <1>6, <1>8, <2>2, <3>1
    <3>3. /\ B["l"][c] = IF Q["l"][c] > g THEN Q["l"][c] + 1 ELSE Q["l"][c]
          /\ B["r"][c] = IF Q["r"][c] >= g THEN Q["r"][c] + 1 ELSE Q["r"][c]
      BY <1>11, <3>1
    <3>4. Q["l"][c] \in Int /\ Q["r"][c] \in Int /\ Q["l"][c] <= Q["r"][c] /\ g \in Int
      BY <1>1, <1>9, <3>1
    <3>5. B["r"][c] - B["l"][c] + 1 = Q["r"][c] - Q["l"][c] + 1
      <4> HIDE DEF g
      <4> QED
        BY <3>1, <3>3, <3>4
    <3>6. Width(B, c) = Width(Q, c)
      BY <3>1, <3>5 DEF Width
    <3> QED
      BY <3>2, <3>6 DEF Clean
  <2> QED
    BY <2>1, <2>2
<1>14. ASSUME NEW c \in F \ {a} PROVE Level(u, H, c)
  <2>1. CASE c = m
    <3>1. u.kid["l"][c] = Nil /\ u.kid["r"][c] = Nil /\ H[c] = 1
      BY <1>1, <1>3, <1>6, <2>1, Sides
    <3> QED
      BY <1>6, <3>1 DEF Level, Larger, Close
  <2>2. CASE c # m
    <3>1. c \in E /\ c \in Node
      BY <1>1, <2>2
    <3>2. u.kid["l"][c] = t.kid["l"][c] /\ u.kid["r"][c] = t.kid["r"][c]
      BY <1>3, <2>2, <3>1, Sides
    <3> QED
      BY <1>6, <1>7, <1>8, <3>1, <3>2 DEF Level
  <2> QED
    BY <2>1, <2>2
<1>15. Nearly(u, H, a)
  <2> DEFINE q == Other(s)
             k == Ht(t, t.kid[q][a])
  <2>1. /\ t.height[a] = 1 + Larger(Ht(t, t.kid["l"][a]), Ht(t, t.kid["r"][a]))
        /\ Close(Ht(t, t.kid["l"][a]), Ht(t, t.kid["r"][a])) /\ H[a] = t.height[a]
        /\ Ht(t, t.kid[s][a]) = 0
    BY <1>6, <1>8 DEF Ht
  <2>2. k \in Nat
    BY <1>1, Sides, TreeFields
  <2>3. H[a] = 1 + Larger(0, k) /\ Close(0, k)
    <3>1. CASE s = "l"
      BY <2>1, <3>1, Sides
    <3>2. CASE s = "r"
      <4>1. H[a] = 1 + Larger(k, 0) /\ Close(k, 0)
        BY <2>1, <3>2, Sides
      <4> HIDE DEF k
      <4> QED
        BY <2>2, <4>1 DEF Larger, Close
    <3> QED
      BY <3>1, <3>2 DEF Side
  <2>4. u.kid[s][a] = m /\ u.kid[q][a] = t.kid[q][a]
    BY <1>1, <1>3, Sides
  <2>5. H[u.kid[q][a]] = k
    BY <1>7, <1>8, <2>4, Sides DEF Side
  <2>6. Close(0, H[u.kid[s][a]])
    BY <1>6, <2>4 DEF Close
  <2> HIDE DEF k
  <2> QED
    BY <2>3, <2>5, <2>6 DEF Nearly
<1>16. Fixing(u, F, v, A, B, H, D, a)
  BY <1>2, <1>4, <1>6, <1>12, <1>13, <1>14, <1>15 DEF Fixing, Heights
<1> HIDE DEF F
<1>17. a \in Link
  BY <1>1 DEF Link
<1>18. Sound(Fixup(u, a), F, v) /\ Fixup(u, a).n = u.n
  BY <1>16, <1>17, FixupSound
<1> QED
  BY <1>3, <1>18 DEF F, v

\* The root of a tree with elements, and the position of a cut seen from an element.
LEMMA RootSpans ==
  ASSUME NEW t, NEW E, NEW o, NEW P, NEW Q, Spans(t, E, o, P, Q), t.root # Nil
  PROVE  /\ t.root \in E /\ t.up[t.root] = Nil
         /\ Q["l"][t.root] = 1 /\ Q["r"][t.root] = Len(o)
<1>1. t.root \in E
  BY DEF Spans
<1>2. t.up[t.root] = Nil
  BY <1>1, SpansAt
<1> QED
  BY <1>1, <1>2, SpansAt

\* Which elements it holds, by position.
LEMMA CutAt ==
  ASSUME NEW o, NEW E, NEW P, Numbered(o, E, P), NEW T, NEW p, Cuts(o, T, p), NEW a \in E
  PROVE  p \in Int /\ P[a] \in Int /\ (a \in T <=> P[a] >= p)
<1>1. P[a] \in 1..Len(o) /\ o[P[a]] = a
  BY DEF Numbered
<1> QED
  BY <1>1 DEF Cuts

\* The insertion's descent ends at the free place that position p needs.
IsFree(w, t, E, P, p) ==
  /\ w[1] \in E /\ w[2] \in Side /\ t.kid[w[2]][w[1]] = Nil
  /\ p = IF w[2] = "l" THEN P[w[1]] ELSE P[w[1]] + 1

\* The descent of an insertion ends at a free link next to the place where m belongs.
LEMMA LeafFound ==
  ASSUME NEW t, NEW E, NEW o, NEW P, NEW Q, Spans(t, E, o, P, Q), t.root # Nil,
         NEW ks, NEW m, NEW p, Cuts(o, {x \in Node : GoesLeft(ks, m, x)}, p)
  PROVE  IsFree(Leaf(t, ks, m), t, E, P, p)
<1> DEFINE T == {x \in Node : GoesLeft(ks, m, x)}
           side(a) == IF GoesLeft(ks, m, a) THEN "l" ELSE "r"
           f == [a \in Node |-> IF t.kid[side(a)][a] = Nil THEN a ELSE t.kid[side(a)][a]]
           J == {a \in E : Q["l"][a] <= p /\ p <= Q["r"][a] + 1}
           w == [a \in J |-> Width(Q, a)]
           z == Loop(f, t.root)
<1>1. Leaf(t, ks, m) = <<z, side(z)>>
  BY DEF Leaf
<1>2. /\ E \subseteq Node /\ Nil \notin E /\ Len(o) \in Nat /\ Len(o) <= Rounds /\ Rounds \in Nat
      /\ Numbered(o, E, P) /\ p \in 1..(Len(o) + 1)
  <2>1. Numbered(o, E, P)
    BY DEF Spans
  <2>2. E \subseteq Node /\ Nil \notin E
    BY SpansTypes
  <2>3. Len(o) \in Nat /\ Len(o) <= Rounds /\ Rounds \in Nat
    BY <2>1, OrderFits, RoundsCount
  <2> QED
    BY <2>1, <2>2, <2>3 DEF Cuts
<1>3. \A a \in E : /\ p \in Int /\ P[a] \in Int /\ Q["l"][a] \in Int /\ Q["r"][a] \in Int
                   /\ (side(a) = "l" /\ P[a] >= p) \/ (side(a) = "r" /\ P[a] < p)
  <2>1. \A a \in E : p \in Int /\ P[a] \in Int /\ (GoesLeft(ks, m, a) <=> P[a] >= p)
    <3>1. \A a \in E : p \in Int /\ P[a] \in Int /\ (a \in T <=> P[a] >= p)
      BY <1>2, CutAt
    <3> QED
      BY <1>2, <3>1
  <2>2. \A a \in E : Q["l"][a] \in Int /\ Q["r"][a] \in Int
    BY SpansTypes
  <2> QED
    BY <2>1, <2>2
<1>4. DOMAIN f = Node /\ \A a \in E : f[a] = IF t.kid[side(a)][a] = Nil THEN a ELSE t.kid[side(a)][a]
  BY <1>2
<1> HIDE DEF f
<1>5. ASSUME NEW a \in E, Q["l"][a] <= p, p <= Q["r"][a] + 1, t.kid[side(a)][a] # Nil
      PROVE  LET c == t.kid[side(a)][a]
             IN  c \in E /\ Q["l"][c] <= p /\ p <= Q["r"][c] + 1 /\ Width(Q, c) < Width(Q, a)
  <2> DEFINE c == t.kid[side(a)][a]
  <2>1. side(a) \in Side
    BY Sides
  <2>2. Width(Q, c) < Width(Q, a)
    BY <2>1, Widths
  <2>3. CASE side(a) = "l"
    <3>1. /\ c \in E /\ Q["l"][c] = Q["l"][a] /\ Q["r"][c] = P[a] - 1 /\ P[a] >= p
          /\ P[a] \in Int /\ p \in Int
      BY <1>3, <1>5, <2>3, SpansAt
    <3> HIDE DEF c
    <3> QED
      BY <1>5, <2>2, <3>1 DEF c
  <2>4. CASE side(a) = "r"
    <3>1. /\ c \in E /\ Q["r"][c] = Q["r"][a] /\ Q["l"][c] = P[a] + 1 /\ P[a] < p
          /\ P[a] \in Int /\ p \in Int
      BY <1>3, <1>5, <2>4, SpansAt
    <3> HIDE DEF c
    <3> QED
      BY <1>5, <2>2, <3>1 DEF c
  <2> QED
    BY <2>3, <2>4
<1> HIDE DEF side
<1>6. J \in SUBSET DOMAIN f /\ w \in [J -> Nat] /\ \A a \in J : w[a] <= Rounds
  <2>1. \A a \in E : Width(Q, a) \in Nat /\ Width(Q, a) <= Len(o)
    BY Widths
  <2> QED
    BY <1>2, <1>4, <2>1
<1>7. t.root \in J
  <2>1. t.root \in E /\ Q["l"][t.root] = 1 /\ Q["r"][t.root] = Len(o)
    BY RootSpans
  <2> QED
    BY <1>2, <2>1
<1>8. \A a \in J : f[a] \in J /\ (f[a] = a \/ w[f[a]] < w[a])
  <2> SUFFICES ASSUME NEW a \in J PROVE f[a] \in J /\ (f[a] = a \/ w[f[a]] < w[a])
    OBVIOUS
  <2>1. CASE t.kid[side(a)][a] = Nil
    BY <1>4, <2>1
  <2>2. CASE t.kid[side(a)][a] # Nil
    <3>1. a \in E /\ Q["l"][a] <= p /\ p <= Q["r"][a] + 1 /\ f[a] = t.kid[side(a)][a]
      BY <1>4, <2>2
    <3> QED
      BY <1>5, <2>2, <3>1
  <2> QED
    BY <2>1, <2>2
<1>9. z \in J /\ f[z] = z
  <2> HIDE DEF J, w
  <2> QED
    BY <1>6, <1>7, <1>8, LoopEnds
<1> HIDE DEF z
<1>10. z \in E /\ Q["l"][z] <= p /\ p <= Q["r"][z] + 1
  BY <1>9
<1>11. t.kid[side(z)][z] = Nil
  <2> SUFFICES ASSUME t.kid[side(z)][z] # Nil PROVE FALSE
    OBVIOUS
  <2>1. f[z] = t.kid[side(z)][z]
    BY <1>4, <1>10
  <2>2. Width(Q, z) < Width(Q, z) /\ Width(Q, z) \in Nat
    BY <1>5, <1>9, <1>10, <2>1, Widths
  <2> QED
    BY <2>2
<1>12. side(z) \in Side /\ p = IF side(z) = "l" THEN P[z] ELSE P[z] + 1
  <2>1. CASE side(z) = "l"
    <3>1. Q["l"][z] = P[z] /\ P[z] >= p /\ P[z] \in Int /\ p \in Int
      BY <1>3, <1>10, <1>11, <2>1, SpansAt
    <3> QED
      BY <1>10, <2>1, <3>1, Sides
  <2>2. CASE side(z) = "r"
    <3>1. Q["r"][z] = P[z] /\ P[z] < p /\ P[z] \in Int /\ p \in Int
      BY <1>3, <1>10, <1>11, <2>2, SpansAt
    <3> QED
      BY <1>10, <2>2, <3>1, Sides
  <2> QED
    BY <1>3, <1>10, <2>1, <2>2
<1> QED
  BY <1>1, <1>10, <1>11, <1>12 DEF IsFree

\* avl_insert: the tree stays correct and balanced, and m comes before the first element
\* with a larger key.
LEMMA AddedSound ==
  ASSUME NEW t, NEW E, NEW o, Sound(t, E, o), NEW m \in Node \ E, NEW ks,
         NEW p, Cuts(o, {x \in Node : GoesLeft(ks, m, x)}, p)
  PROVE  Sound(Added(t, ks, m), E \cup {m}, InsertAt(o, p, m)) /\ Added(t, ks, m).n = t.n + 1
<1> DEFINE v == Fresh(t, m)
           u == Added(t, ks, m)
           b == Leaf(t, ks, m)
<1>1. PICK P, Q : Spans(t, E, o, P, Q) /\ Counted(t, E, Q)
  BY DEF Sound
<1>2. t \in Trees /\ m \in Node /\ m # Nil /\ Numbered(o, E, P)
  BY <1>1, OrderedAssumption DEF Spans
<1>3. u = IF t.root = Nil THEN [v EXCEPT !.root = m] ELSE Fixup(Hang(v, b[1], b[2], m), b[1])
  BY DEF Added, Fresh
<1> HIDE DEF v, u, b
<1>4. IsFresh(v, t, m)
  BY <1>2, FreshFields DEF v
<1>5. CASE t.root = Nil
  <2> DEFINE A == PInserted(P, m, p)
             B == [d \in Side |-> [x \in Node |-> 1]]
             O == InsertAt(o, p, m)
  <2>1. E = {} /\ Len(o) = 0 /\ p = 1
    <3>1. E = {}
      BY <1>1, <1>5 DEF Spans
    <3>2. Len(o) \in Nat /\ \A i \in 1..Len(o) : o[i] \in E
      BY <1>1, SpansTypes
    <3> QED
      BY <3>1, <3>2 DEF Cuts
  <2>2. /\ u \in Trees /\ u.root = m /\ u.n = t.n + 1 /\ u.up[m] = Nil
        /\ u.kid["l"][m] = Nil /\ u.kid["r"][m] = Nil /\ u.size[m] = 1 /\ u.height[m] = 1
    <3>1. u = [v EXCEPT !.root = m] /\ m \in Link /\ v \in Trees
      BY <1>2, <1>3, <1>4, <1>5 DEF IsFresh, Link
    <3>2. /\ u \in Trees /\ u.root = m /\ u.n = v.n /\ u.up = v.up /\ u.kid = v.kid
          /\ u.size = v.size /\ u.height = v.height
      BY <3>1 DEF Trees
    <3> QED
      BY <1>2, <1>4, <3>2, Sides DEF IsFresh
  <2>3. Numbered(O, E \cup {m}, A) /\ Len(O) = 1 /\ A[m] = 1
    <3>1. p \in 1..(Len(o) + 1) /\ m \in Node \ E
      BY <2>1
    <3>2. A[m] = p
      BY <1>2 DEF PInserted
    <3>3. Numbered(O, E \cup {m}, A) /\ Len(O) = Len(o) + 1
      BY <1>2, <3>1, NumberedInserted
    <3> QED
      BY <2>1, <3>2, <3>3
  <2>4. B \in [Side -> [Node -> Int]] /\ B["l"][m] = 1 /\ B["r"][m] = 1
    BY <1>2, Sides
  <2> HIDE DEF A, B, O
  <2>5. Inside(A, B, Len(O), m) /\ Below(u, E \cup {m}, A, B, m) /\ Above(u, E \cup {m}, B, Len(O), m)
    <3>1. Inside(A, B, Len(O), m)
      BY <2>3, <2>4 DEF Inside
    <3>2. Below(u, E \cup {m}, A, B, m)
      BY <2>2, <2>3, <2>4 DEF Below, Side
    <3>3. Above(u, E \cup {m}, B, Len(O), m)
      BY <2>2, <2>3, <2>4 DEF Above
    <3> QED
      BY <3>1, <3>2, <3>3
  <2>6. Spans(u, E \cup {m}, O, A, B)
    BY <1>2, <2>1, <2>2, <2>3, <2>4, <2>5 DEF Spans
  <2>7. Counted(u, E \cup {m}, B)
    <3>1. Width(B, m) = 1
      BY <1>2, <2>4 DEF Width
    <3> QED
      BY <2>1, <2>2, <3>1 DEF Counted, Ht, Larger, Close
  <2>8. Sound(u, E \cup {m}, O)
    BY <2>6, <2>7 DEF Sound
  <2> QED
    BY <2>2, <2>8 DEF u, O
<1>6. CASE t.root # Nil
  <2> DEFINE a == b[1]
             s == b[2]
             h == Hang(v, a, s, m)
  <2>1. a \in E /\ s \in Side /\ t.kid[s][a] = Nil /\ p = IF s = "l" THEN P[a] ELSE P[a] + 1
    BY <1>1, <1>6, LeafFound DEF IsFree, b
  <2>2. a \in Node /\ a # m
    BY <1>1, <2>1, SpansTypes
  <2>3. u = Fixup(h, a)
    BY <1>3, <1>6
  <2> HIDE DEF a, s
  <2>4. IsAttached(h, t, a, s, m)
    BY <1>2, <2>1, <2>2, AttachedFields DEF v
  <2> HIDE DEF h
  <2>5. Sound(Fixup(h, a), E \cup {m}, InsertAt(o, p, m)) /\ Fixup(h, a).n = t.n + 1
    BY <1>1, <2>1, <2>4, AttachedSound
  <2> QED
    BY <2>3, <2>5 DEF u
<1> QED
  BY <1>5, <1>6

-----------------------------------------------------------------------------
(* Taking out an element with at most one child.                           *)

\* The positions when the one at p leaves.
PRemoved(P, p) == [x \in Node |-> IF P[x] > p THEN P[x] - 1 ELSE P[x]]

\* The spans when the position p leaves.
QRemoved(Q, p) ==
  [d \in Side |-> [x \in Node |->
     IF (d = "l" /\ Q[d][x] > p) \/ (d = "r" /\ Q[d][x] >= p) THEN Q[d][x] - 1 ELSE Q[d][x]]]

\* They number the order without z.
LEMMA NumberedRemoved ==
  ASSUME NEW o, NEW E, NEW P, Numbered(o, E, P), NEW z \in E
  PROVE  /\ Numbered(RemoveAt(o, P[z]), E \ {z}, PRemoved(P, P[z]))
         /\ Len(RemoveAt(o, P[z])) = Len(o) - 1
<1> DEFINE F == E \ {z}
           p == P[z]
           u == RemoveAt(o, p)
           R == PRemoved(P, p)
<1>1. /\ E \subseteq Node /\ o \in Seq(E) /\ P \in [Node -> Int]
      /\ \A i \in 1..Len(o) : P[o[i]] = i
      /\ \A a \in E : P[a] \in 1..Len(o) /\ o[P[a]] = a
  BY DEF Numbered
<1>2. Len(o) \in Nat /\ \A i \in 1..Len(o) : o[i] \in E
  BY <1>1, LenProperties
<1>3. p \in 1..Len(o) /\ o[p] = z /\ z \in Node
  BY <1>1
<1> HIDE DEF p
<1>4. /\ u \in Seq(E) /\ Len(u) = Len(o) - 1
      /\ \A i \in 1..(Len(o) - 1) : u[i] = IF i < p THEN o[i] ELSE o[i + 1]
  BY <1>1, <1>3, RemovedFrom
<1> HIDE DEF u
<1>5. R \in [Node -> Int] /\ \A x \in Node : R[x] = IF P[x] > p THEN P[x] - 1 ELSE P[x]
  BY <1>1 DEF PRemoved
<1> HIDE DEF R
<1>6. ASSUME NEW i \in 1..Len(u) PROVE R[u[i]] = i /\ u[i] \in F
  <2>1. CASE i < p
    <3>1. i \in 1..Len(o) /\ u[i] = o[i] /\ i \in Int
      BY <1>2, <1>4, <2>1
    <3>2. o[i] \in E /\ P[o[i]] = i /\ o[i] \in Node
      BY <1>1, <1>2, <3>1
    <3>3. R[o[i]] = IF i > p THEN i - 1 ELSE i
      BY <1>5, <3>2
    <3>4. o[i] # z
      BY <2>1, <3>2, <3>1, <1>3 DEF p
    <3> QED
      BY <1>3, <2>1, <3>1, <3>2, <3>3, <3>4
  <2>2. CASE ~(i < p)
    <3>1. i + 1 \in 1..Len(o) /\ u[i] = o[i + 1] /\ i \in Int
      BY <1>2, <1>4, <2>2
    <3>2. o[i + 1] \in E /\ P[o[i + 1]] = i + 1 /\ o[i + 1] \in Node
      BY <1>1, <1>2, <3>1
    <3>3. R[o[i + 1]] = IF i + 1 > p THEN (i + 1) - 1 ELSE i + 1
      BY <1>5, <3>2
    <3>4. o[i + 1] # z
      BY <2>2, <3>2, <3>1, <1>3 DEF p
    <3> QED
      BY <1>3, <2>2, <3>1, <3>2, <3>3, <3>4
  <2> QED
    BY <2>1, <2>2
<1>7. ASSUME NEW a \in F PROVE R[a] \in 1..Len(u) /\ u[R[a]] = a
  <2>1. a \in E /\ a \in Node /\ P[a] \in 1..Len(o) /\ o[P[a]] = a
    BY <1>1
  <2>2. P[a] # p
    BY <1>3, <2>1
  <2>3. CASE P[a] > p
    <3>1. R[a] = P[a] - 1
      BY <1>5, <2>1, <2>3
    <3>2. P[a] - 1 \in 1..(Len(o) - 1) /\ ~(P[a] - 1 < p) /\ (P[a] - 1) + 1 = P[a]
      BY <1>2, <1>3, <2>1, <2>3
    <3>3. u[P[a] - 1] = o[P[a]]
      BY <1>4, <3>2
    <3> QED
      BY <1>4, <2>1, <3>1, <3>2, <3>3
  <2>4. CASE ~(P[a] > p)
    <3>1. R[a] = P[a]
      BY <1>5, <2>1, <2>4
    <3>2. P[a] \in 1..(Len(o) - 1) /\ P[a] < p
      BY <1>2, <1>3, <2>1, <2>2, <2>4
    <3>3. u[P[a]] = o[P[a]]
      BY <1>4, <3>2
    <3> QED
      BY <1>4, <2>1, <3>1, <3>2, <3>3
  <2> QED
    BY <2>3, <2>4
<1>8. F \subseteq Node /\ u \in Seq(F)
  <2> HIDE DEF F
  <2>1. \A i \in 1..Len(u) : u[i] \in F
    BY <1>6
  <2>2. Len(u) \in Nat /\ u = [i \in 1..Len(u) |-> u[i]]
    BY <1>4, LenProperties
  <2>3. u \in [1..Len(u) -> F]
    BY <2>1, <2>2
  <2>4. u \in Seq(F)
    BY <2>2, <2>3, SeqDef
  <2> QED
    BY <1>1, <2>4 DEF F
<1> HIDE DEF F
<1>9. Numbered(u, F, R)
  BY <1>5, <1>6, <1>7, <1>8 DEF Numbered
<1> QED
  BY <1>4, <1>9 DEF u, R, F, p

\* What is known when v, the only child of z or Nil, has taken its place.
IsCut(w, t, E, z, v) ==
  /\ w \in Trees /\ w.n = t.n /\ w.root = (IF t.root = z THEN v ELSE t.root)
  /\ \A x \in E \ {z} :
       /\ \A d \in Side : w.kid[d][x] = IF t.kid[d][x] = z THEN v ELSE t.kid[d][x]
       /\ w.up[x] = IF x = v THEN t.up[z] ELSE t.up[x]
       /\ w.size[x] = t.size[x] /\ w.height[x] = t.height[x]

\* What taking z out and putting v in its place assigns.
LEMMA CutFields ==
  ASSUME NEW t, NEW E, NEW o, NEW P, NEW Q, Spans(t, E, o, P, Q), NEW z \in E, NEW v \in Link
  PROVE  IsCut(Transplant(t, z, v), t, E, z, v)
<1> DEFINE w == Transplant(t, z, v)
<1>1. t \in Trees
  BY DEF Spans
<1>2. z \in Node /\ E \subseteq Node
  BY SpansTypes
<1>3. IsTransplanted(w, t, z, v)
  BY <1>1, <1>2, TransplantFields
<1> HIDE DEF w
<1>4. \A x \in E : \A d \in Side : t.kid[d][x] = z <=> x = t.up[z] /\ d = SideOf(t, z)
  BY SideOfKid
<1>5. t.up[z] = Nil <=> t.root = z
  BY SpansAt
<1>6. /\ w \in Trees /\ w.root = (IF t.up[z] = Nil THEN v ELSE t.root) /\ w.n = t.n
      /\ w.size = t.size /\ w.height = t.height
      /\ \A q \in Side : \A x \in Node :
           w.kid[q][x] = IF x = t.up[z] /\ q = SideOf(t, z) THEN v ELSE t.kid[q][x]
      /\ \A x \in Node : w.up[x] = IF x = v THEN t.up[z] ELSE t.up[x]
  BY <1>3 DEF IsTransplanted
<1>7. \A x \in E \ {z} :
       /\ \A d \in Side : w.kid[d][x] = IF t.kid[d][x] = z THEN v ELSE t.kid[d][x]
       /\ w.up[x] = IF x = v THEN t.up[z] ELSE t.up[x]
       /\ w.size[x] = t.size[x] /\ w.height[x] = t.height[x]
  BY <1>2, <1>4, <1>6
<1>8. IsCut(w, t, E, z, v)
  BY <1>5, <1>6, <1>7 DEF IsCut
<1> QED
  BY <1>8 DEF w

\* Taking out an element with one child at most leaves a search tree of the others.
LEMMA CutSpans ==
  ASSUME NEW t, NEW E, NEW o, NEW P, NEW Q, Spans(t, E, o, P, Q), NEW z \in E,
         NEW s \in Side, t.kid[s][z] = Nil, NEW v, v = t.kid[Other(s)][z],
         NEW w, IsCut(w, t, E, z, v)
  PROVE  Spans(w, E \ {z}, RemoveAt(o, P[z]), PRemoved(P, P[z]), QRemoved(Q, P[z]))
<1> DEFINE F == E \ {z}
           p == P[z]
           u == RemoveAt(o, p)
           A == PRemoved(P, p)
           B == QRemoved(Q, p)
           n == Len(o)
<1>1. /\ t \in Trees /\ Numbered(o, E, P) /\ Q \in [Side -> [Node -> Int]] /\ t.root \in E
  BY DEF Spans
<1>2. n \in Nat /\ E \subseteq Node /\ Nil \notin E
  BY SpansTypes
<1>3. /\ \A x \in E : /\ x \in Node /\ P[x] \in Int /\ Q["l"][x] \in Int /\ Q["r"][x] \in Int
                      /\ 1 <= Q["l"][x] /\ Q["l"][x] <= P[x] /\ P[x] <= Q["r"][x] /\ Q["r"][x] <= n
      /\ \A x \in F : P[x] # p
  <2>1. \A x \in F : P[x] # p
    BY <1>1, OnePosition
  <2> QED
    BY <2>1, SpansTypes, SpansAt
<1>4. p \in Int /\ 1 <= p /\ p <= n
  BY <1>3
<1>5. Numbered(u, F, A) /\ Len(u) = n - 1
  BY <1>1, NumberedRemoved
<1>6. /\ B \in [Side -> [Node -> Int]]
      /\ \A x \in E : /\ A[x] = IF P[x] > p THEN P[x] - 1 ELSE P[x]
                      /\ B["l"][x] = IF Q["l"][x] > p THEN Q["l"][x] - 1 ELSE Q["l"][x]
                      /\ B["r"][x] = IF Q["r"][x] >= p THEN Q["r"][x] - 1 ELSE Q["r"][x]
  <2>1. \A d \in Side : \A x \in Node : Q[d][x] \in Int
    BY <1>1
  <2>2. B \in [Side -> [Node -> Int]]
    <3> HIDE DEF p
    <3> QED
      BY <2>1 DEF QRemoved
  <2>3. \A x \in E : /\ B["l"][x] = IF Q["l"][x] > p THEN Q["l"][x] - 1 ELSE Q["l"][x]
                     /\ B["r"][x] = IF Q["r"][x] >= p THEN Q["r"][x] - 1 ELSE Q["r"][x]
    BY <1>2, Sides DEF QRemoved
  <2>4. \A x \in E : A[x] = IF P[x] > p THEN P[x] - 1 ELSE P[x]
    BY <1>2 DEF PRemoved
  <2> QED
    BY <2>2, <2>3, <2>4
<1> HIDE DEF u, A, B
<1>7. /\ w \in Trees /\ w.root = (IF t.root = z THEN v ELSE t.root)
      /\ \A x \in F : /\ \A d \in Side : w.kid[d][x] = IF t.kid[d][x] = z THEN v ELSE t.kid[d][x]
                      /\ w.up[x] = IF x = v THEN t.up[z] ELSE t.up[x]
  BY DEF IsCut
\* the subtree of z is z and the subtree of v
<1>8. /\ v \in E \cup {Nil} /\ v # z
      /\ v = Nil => Q["l"][z] = p /\ Q["r"][z] = p
      /\ v # Nil => /\ t.up[v] = z
                    /\ B["l"][v] = Q["l"][z] /\ B["r"][v] = Q["r"][z] - 1
      /\ \A x \in E : \A d \in Side : t.kid[d][x] # Nil /\ t.kid[d][x] = v => x = z
  <2>1. v \in E \cup {Nil}
    BY SpansTypes, Sides DEF Side
  <2>2. v # Nil => t.up[v] = z
    BY SpansAt, Sides DEF Side
  <2>3. v # z
    <3>1. Width(Q, v) < Width(Q, z) /\ Width(Q, z) \in Nat
      BY Sides, Widths
    <3> QED
      BY <3>1
  <2>4. v = Nil => Q["l"][z] = p /\ Q["r"][z] = p
    <3>1. v = Nil => t.kid["l"][z] = Nil /\ t.kid["r"][z] = Nil
      BY DEF Side, Other
    <3> QED
      BY <3>1, SpansAt
  <2>5. ASSUME v # Nil PROVE B["l"][v] = Q["l"][z] /\ B["r"][v] = Q["r"][z] - 1
    <3>1. /\ v \in E
          /\ B["l"][v] = IF Q["l"][v] > p THEN Q["l"][v] - 1 ELSE Q["l"][v]
          /\ B["r"][v] = IF Q["r"][v] >= p THEN Q["r"][v] - 1 ELSE Q["r"][v]
      BY <1>6, <2>1, <2>5
    <3>2. /\ Q["l"][v] \in Int /\ Q["r"][v] \in Int /\ Q["l"][z] \in Int /\ Q["r"][z] \in Int
          /\ Q["l"][z] <= p /\ p <= Q["r"][z] /\ Q["l"][v] <= Q["r"][v]
      <4>1. Q["l"][v] <= P[v] /\ P[v] <= Q["r"][v] /\ P[v] \in Int
        BY <1>3, <3>1
      <4> QED
        BY <1>3, <3>1, <4>1
    <3>3. CASE s = "l"
      <4>1. Q["l"][z] = p /\ Q["l"][v] = p + 1 /\ Q["r"][v] = Q["r"][z]
        BY <2>5, <3>3, SpansAt DEF Other
      <4> HIDE DEF p
      <4> QED
        BY <1>4, <3>1, <3>2, <4>1
    <3>4. CASE s = "r"
      <4>1. Q["r"][z] = p /\ Q["r"][v] = p - 1 /\ Q["l"][v] = Q["l"][z]
        BY <2>5, <3>4, SpansAt DEF Other
      <4> HIDE DEF p
      <4> QED
        BY <1>4, <3>1, <3>2, <4>1
    <3> QED
      BY <3>3, <3>4 DEF Side
  <2>6. ASSUME NEW x \in E, NEW d \in Side, t.kid[d][x] # Nil, t.kid[d][x] = v PROVE x = z
    <3>1. t.up[t.kid[d][x]] = x
      BY <2>6, SpansAt DEF Side
    <3> QED
      BY <2>2, <2>6, <3>1
  <2> QED
    BY <2>1, <2>2, <2>3, <2>4, <2>5, <2>6
<1>9. ASSUME NEW x \in F PROVE Inside(A, B, Len(u), x)
  <2>1. /\ A[x] = IF P[x] > p THEN P[x] - 1 ELSE P[x]
        /\ B["l"][x] = IF Q["l"][x] > p THEN Q["l"][x] - 1 ELSE Q["l"][x]
        /\ B["r"][x] = IF Q["r"][x] >= p THEN Q["r"][x] - 1 ELSE Q["r"][x]
    BY <1>6
  <2>2. /\ P[x] \in Int /\ Q["l"][x] \in Int /\ Q["r"][x] \in Int /\ P[x] # p
        /\ 1 <= Q["l"][x] /\ Q["l"][x] <= P[x] /\ P[x] <= Q["r"][x] /\ Q["r"][x] <= n
    BY <1>3
  <2>3. 1 <= B["l"][x] /\ B["l"][x] <= A[x] /\ A[x] <= B["r"][x] /\ B["r"][x] <= n - 1
    <3> HIDE DEF p, n
    <3> QED
      BY <1>2, <1>4, <2>1, <2>2
  <2> QED
    BY <1>5, <2>3 DEF Inside
<1>10. ASSUME NEW x \in F PROVE Below(w, F, A, B, x)
  <2>1. /\ A[x] = IF P[x] > p THEN P[x] - 1 ELSE P[x]
        /\ B["l"][x] = IF Q["l"][x] > p THEN Q["l"][x] - 1 ELSE Q["l"][x]
        /\ B["r"][x] = IF Q["r"][x] >= p THEN Q["r"][x] - 1 ELSE Q["r"][x]
    BY <1>6
  <2>2. /\ P[x] \in Int /\ Q["l"][x] \in Int /\ Q["r"][x] \in Int /\ P[x] # p
        /\ 1 <= Q["l"][x] /\ Q["l"][x] <= P[x] /\ P[x] <= Q["r"][x] /\ Q["r"][x] <= n
    BY <1>3
  <2>3. \A d \in Side : w.kid[d][x] = IF t.kid[d][x] = z THEN v ELSE t.kid[d][x]
    BY <1>7
  <2>4. Q["l"][z] \in Int /\ Q["r"][z] \in Int /\ Q["l"][z] <= p /\ p <= Q["r"][z]
    BY <1>3
  <2>5. A[x] \in Int
    BY <2>1, <2>2
  <2>6. /\ w.kid["l"][x] = Nil => B["l"][x] = A[x]
        /\ w.kid["l"][x] # Nil =>
             /\ w.kid["l"][x] \in F /\ w.up[w.kid["l"][x]] = x
             /\ B["l"][w.kid["l"][x]] = B["l"][x] /\ B["r"][w.kid["l"][x]] = A[x] - 1
    <3> DEFINE c == t.kid["l"][x]
    <3>1. CASE c = z
      <4>1. w.kid["l"][x] = v
        BY <2>3, <3>1, Sides
      <4>2. t.up[z] = x /\ Q["l"][z] = Q["l"][x] /\ Q["r"][z] = P[x] - 1
        BY <1>2, <3>1, SpansAt
      <4>3. CASE v = Nil
        <5>1. Q["l"][z] = p /\ Q["r"][z] = p
          BY <1>8, <4>3
        <5>2. B["l"][x] = A[x]
          <6> HIDE DEF p
          <6> QED
            BY <1>4, <2>1, <2>2, <4>2, <5>1
        <5> QED
          BY <4>1, <4>3, <5>2
      <4>4. CASE v # Nil
        <5>1. /\ v \in F /\ B["l"][v] = Q["l"][z] /\ B["r"][v] = Q["r"][z] - 1
          BY <1>8, <4>4
        <5>2. w.up[v] = x
          BY <1>7, <4>2, <5>1
        <5>3. B["l"][v] = B["l"][x] /\ B["r"][v] = A[x] - 1
          <6> HIDE DEF p
          <6> QED
            BY <1>4, <2>1, <2>2, <2>4, <4>2, <5>1
        <5> QED
          BY <4>1, <5>1, <5>2, <5>3, <1>2
      <4> QED
        BY <4>3, <4>4
    <3>2. CASE c # z /\ c = Nil
      <4>1. w.kid["l"][x] = Nil /\ Q["l"][x] = P[x]
        BY <2>3, <3>2, SpansAt, Sides
      <4>2. B["l"][x] = A[x]
        <5> HIDE DEF p
        <5> QED
          BY <1>4, <2>1, <2>2, <4>1
      <4> QED
        BY <4>1, <4>2
    <3>3. CASE c # z /\ c # Nil
      <4>1. w.kid["l"][x] = c
        BY <2>3, <3>3, Sides
      <4>2. c \in E /\ t.up[c] = x /\ Q["l"][c] = Q["l"][x] /\ Q["r"][c] = P[x] - 1
        BY <3>3, SpansAt
      <4>3. c # v
        BY <1>8, <3>3, Sides
      <4> HIDE DEF c
      <4>4. c \in F /\ w.up[c] = x
        BY <1>7, <3>3, <4>2, <4>3
      <4>5. /\ B["l"][c] = IF Q["l"][c] > p THEN Q["l"][c] - 1 ELSE Q["l"][c]
            /\ B["r"][c] = IF Q["r"][c] >= p THEN Q["r"][c] - 1 ELSE Q["r"][c]
        BY <1>6, <4>2
      <4>6. B["l"][c] = B["l"][x] /\ B["r"][c] = A[x] - 1
        <5> HIDE DEF p
        <5> QED
          BY <1>4, <2>1, <2>2, <4>2, <4>5
      <4> QED
        BY <1>2, <3>3, <4>1, <4>4, <4>6
    <3> QED
      BY <3>1, <3>2, <3>3
  <2>7. /\ w.kid["r"][x] = Nil => B["r"][x] = A[x]
        /\ w.kid["r"][x] # Nil =>
             /\ w.kid["r"][x] \in F /\ w.up[w.kid["r"][x]] = x
             /\ B["r"][w.kid["r"][x]] = B["r"][x] /\ B["l"][w.kid["r"][x]] = A[x] + 1
    <3> DEFINE c == t.kid["r"][x]
    <3>1. CASE c = z
      <4>1. w.kid["r"][x] = v
        BY <2>3, <3>1, Sides
      <4>2. t.up[z] = x /\ Q["r"][z] = Q["r"][x] /\ Q["l"][z] = P[x] + 1
        BY <1>2, <3>1, SpansAt
      <4>3. CASE v = Nil
        <5>1. Q["l"][z] = p /\ Q["r"][z] = p
          BY <1>8, <4>3
        <5>2. B["r"][x] = A[x]
          <6> HIDE DEF p
          <6> QED
            BY <1>4, <2>1, <2>2, <4>2, <5>1
        <5> QED
          BY <4>1, <4>3, <5>2
      <4>4. CASE v # Nil
        <5>1. /\ v \in F /\ B["l"][v] = Q["l"][z] /\ B["r"][v] = Q["r"][z] - 1
          BY <1>8, <4>4
        <5>2. w.up[v] = x
          BY <1>7, <4>2, <5>1
        <5>3. B["r"][v] = B["r"][x] /\ B["l"][v] = A[x] + 1
          <6> HIDE DEF p
          <6> QED
            BY <1>4, <2>1, <2>2, <2>4, <4>2, <5>1
        <5> QED
          BY <4>1, <5>1, <5>2, <5>3, <1>2
      <4> QED
        BY <4>3, <4>4
    <3>2. CASE c # z /\ c = Nil
      <4>1. w.kid["r"][x] = Nil /\ Q["r"][x] = P[x]
        BY <2>3, <3>2, SpansAt, Sides
      <4>2. B["r"][x] = A[x]
        <5> HIDE DEF p
        <5> QED
          BY <1>4, <2>1, <2>2, <4>1
      <4> QED
        BY <4>1, <4>2
    <3>3. CASE c # z /\ c # Nil
      <4>1. w.kid["r"][x] = c
        BY <2>3, <3>3, Sides
      <4>2. c \in E /\ t.up[c] = x /\ Q["r"][c] = Q["r"][x] /\ Q["l"][c] = P[x] + 1
        BY <3>3, SpansAt
      <4>3. c # v
        BY <1>8, <3>3, Sides
      <4> HIDE DEF c
      <4>4. c \in F /\ w.up[c] = x
        BY <1>7, <3>3, <4>2, <4>3
      <4>5. /\ B["l"][c] = IF Q["l"][c] > p THEN Q["l"][c] - 1 ELSE Q["l"][c]
            /\ B["r"][c] = IF Q["r"][c] >= p THEN Q["r"][c] - 1 ELSE Q["r"][c]
        BY <1>6, <4>2
      <4>6. B["r"][c] = B["r"][x] /\ B["l"][c] = A[x] + 1
        <5> HIDE DEF p
        <5> QED
          BY <1>4, <2>1, <2>2, <4>2, <4>5
      <4> QED
        BY <1>2, <3>3, <4>1, <4>4, <4>6
    <3> QED
      BY <3>1, <3>2, <3>3
  <2>8. A[x] - 1 = A[x] + -1
    BY <2>5
  <2>9. ASSUME NEW d \in Side
        PROVE  IF w.kid[d][x] = Nil THEN B[d][x] = A[x]
               ELSE /\ w.kid[d][x] \in F /\ w.up[w.kid[d][x]] = x
                    /\ B[d][w.kid[d][x]] = B[d][x]
                    /\ B[Other(d)][w.kid[d][x]] = A[x] + Toward(d)
    <3>1. CASE d = "l"
      BY <2>6, <2>8, <3>1 DEF Other, Toward
    <3>2. CASE d = "r"
      BY <2>7, <3>2 DEF Other, Toward
    <3> QED
      BY <3>1, <3>2 DEF Side
  <2> QED
    BY <2>9 DEF Below
<1>11. ASSUME NEW x \in F PROVE Above(w, F, B, Len(u), x)
  <2>1. w.up[x] = IF x = v THEN t.up[z] ELSE t.up[x]
    BY <1>7
  <2>2. /\ B["l"][x] = IF Q["l"][x] > p THEN Q["l"][x] - 1 ELSE Q["l"][x]
        /\ B["r"][x] = IF Q["r"][x] >= p THEN Q["r"][x] - 1 ELSE Q["r"][x]
    BY <1>6
  <2>3. CASE x = v
    <3>1. t.root # v /\ x # Nil
      BY <1>2, <1>8, <2>3, SpansAt
    <3>2. CASE t.up[z] = Nil
      <4>1. t.root = z /\ Q["l"][z] = 1 /\ Q["r"][z] = n
        BY <3>2, SpansAt
      <4> QED
        BY <1>5, <1>7, <1>8, <2>1, <2>3, <3>1, <3>2, <4>1 DEF Above
    <3>3. CASE t.up[z] # Nil
      <4>1. PICK d \in Side : t.kid[d][t.up[z]] = z /\ t.up[z] \in E /\ t.root # z
        BY <3>3, SpansAt, Sides
      <4>2. t.up[z] # z
        <5>1. Width(Q, z) < Width(Q, t.up[z]) /\ Width(Q, z) \in Nat
          BY <3>3, Widths
        <5> QED
          BY <5>1
      <4>3. w.kid[d][t.up[z]] = v /\ t.up[z] \in F
        BY <1>7, <4>1, <4>2
      <4> QED
        BY <1>7, <2>1, <2>3, <3>1, <3>3, <4>1, <4>3 DEF Above
    <3> QED
      BY <3>2, <3>3
  <2>4. CASE x # v
    <3>1. CASE t.up[x] = Nil
      <4>1. t.root = x /\ Q["l"][x] = 1 /\ Q["r"][x] = n /\ x # z
        BY <3>1, SpansAt
      <4>2. B["l"][x] = 1 /\ B["r"][x] = n - 1
        <5> HIDE DEF p, n
        <5> QED
          BY <1>2, <1>4, <2>2, <4>1
      <4> QED
        BY <1>5, <1>7, <2>1, <2>4, <3>1, <4>1, <4>2 DEF Above
    <3>2. CASE t.up[x] # Nil
      <4>1. PICK d \in Side : t.kid[d][t.up[x]] = x /\ t.up[x] \in E /\ t.root # x
        BY <3>2, SpansAt, Sides
      <4>2. t.up[x] # z
        <5> SUFFICES ASSUME t.up[x] = z PROVE FALSE
          OBVIOUS
        <5>1. d = s \/ d = Other(s)
          BY Sides
        <5> QED
          BY <1>2, <2>4, <4>1, <5>1
      <4>3. w.kid[d][t.up[x]] = x /\ t.up[x] \in F
        BY <1>7, <4>1, <4>2
      <4> QED
        BY <1>7, <2>1, <2>4, <3>2, <4>1, <4>3 DEF Above
    <3> QED
      BY <3>1, <3>2
  <2> QED
    BY <2>3, <2>4
<1>12. IF w.root = Nil THEN F = {} ELSE w.root \in F
  <2>1. CASE t.root # z
    BY <1>1, <1>2, <1>7, <2>1
  <2>2. CASE t.root = z /\ v # Nil
    BY <1>2, <1>7, <1>8, <2>2
  <2>3. CASE t.root = z /\ v = Nil
    <3>1. Q["l"][z] = 1 /\ Q["r"][z] = n /\ Q["l"][z] = p /\ Q["r"][z] = p
      <4>1. t.root # Nil
        BY <1>2, <2>3
      <4> QED
        BY <1>8, <2>3, <4>1, RootSpans
    <3>2. \A x \in E : P[x] = p
      <4> HIDE DEF p, n
      <4> QED
        BY <1>3, <1>4, <3>1
    <3> QED
      BY <1>3, <1>7, <2>3, <3>2
  <2> QED
    BY <2>1, <2>2, <2>3
<1> HIDE DEF F
<1>13. Spans(w, F, u, A, B)
  BY <1>5, <1>6, <1>7, <1>9, <1>10, <1>11, <1>12 DEF Spans
<1> QED
  BY <1>13 DEF F, u, A, B, p

\* Once z is out, the fix-up that starts at its parent has its ancestors to recount.
CutFixing(w, t, E, o, P, Q, H, D, z) ==
  /\ Fixing(w, E \ {z}, RemoveAt(o, P[z]), PRemoved(P, P[z]), QRemoved(Q, P[z]), H, D, t.up[z])
  /\ H = [x \in Link |-> Ht(t, x)] /\ D = Over(E, Q, P[z]) \ {z}

\* After it, the fix-up can start at the parent of the element taken out.
LEMMA CutIsFixing ==
  ASSUME NEW t, NEW E, NEW o, NEW P, NEW Q, Spans(t, E, o, P, Q), Counted(t, E, Q), NEW z \in E,
         NEW s \in Side, t.kid[s][z] = Nil, NEW v, v = t.kid[Other(s)][z],
         NEW w, IsCut(w, t, E, z, v)
  PROVE  CutFixing(w, t, E, o, P, Q, [x \in Link |-> Ht(t, x)], Over(E, Q, P[z]) \ {z}, z)
<1> DEFINE F == E \ {z}
           p == P[z]
           u == RemoveAt(o, p)
           A == PRemoved(P, p)
           B == QRemoved(Q, p)
           V == Over(E, Q, p)
           D == V \ {z}
           H == [x \in Link |-> Ht(t, x)]
           a == t.up[z]
<1>1. t \in Trees
  BY DEF Spans
<1>2. /\ E \subseteq Node /\ Nil \notin E /\ p \in Int /\ z \in Node /\ a \in E \cup {Nil}
      /\ \A x \in E : /\ Q["l"][x] \in Int /\ Q["r"][x] \in Int /\ x # Nil /\ x \in Node
                      /\ t.kid["l"][x] \in E \cup {Nil} /\ t.kid["r"][x] \in E \cup {Nil}
  BY SpansTypes
<1>3. Spans(w, F, u, A, B)
  BY CutSpans
<1>4. \A x \in F : /\ \A d \in Side : w.kid[d][x] = IF t.kid[d][x] = z THEN v ELSE t.kid[d][x]
                   /\ w.up[x] = IF x = v THEN t.up[z] ELSE t.up[x]
                   /\ w.size[x] = t.size[x] /\ w.height[x] = t.height[x]
  BY DEF IsCut
<1>5. /\ V \subseteq E /\ \A c \in E : c \in V <=> Q["l"][c] <= p /\ p <= Q["r"][c]
  BY DEF Over
<1>6. /\ \A d \in V : t.up[d] \in V \cup {Nil}
      /\ \A d \in E : ~(t.kid["l"][d] \in V /\ t.kid["r"][d] \in V)
      /\ z \in V /\ t.kid["l"][z] \notin V /\ t.kid["r"][z] \notin V
  BY <1>2, OverIsPath
<1>7. H \in [Link -> Nat] /\ H[Nil] = 0 /\ \A x \in E \cup {Nil} : H[x] = Ht(t, x)
  BY <1>1, <1>2, TreeFields DEF Link, Ht
<1>8. \A x \in E : /\ t.size[x] = Width(Q, x) /\ H[x] = t.height[x]
                   /\ t.height[x] = 1 + Larger(Ht(t, t.kid["l"][x]), Ht(t, t.kid["r"][x]))
                   /\ Close(Ht(t, t.kid["l"][x]), Ht(t, t.kid["r"][x]))
  BY <1>2, <1>7 DEF Counted, Ht
<1>9. \A x \in E : /\ H[x] = 1 + Larger(H[t.kid["l"][x]], H[t.kid["r"][x]])
                   /\ Close(H[t.kid["l"][x]], H[t.kid["r"][x]])
                   /\ H[t.kid["l"][x]] \in Nat /\ H[t.kid["r"][x]] \in Nat /\ H[x] \in Nat
  <2>1. \A x \in E \cup {Nil} : x \in Link
    BY <1>2 DEF Link
  <2> QED
    BY <1>2, <1>7, <1>8, <2>1
<1>10. \A x \in E : /\ B["l"][x] = IF Q["l"][x] > p THEN Q["l"][x] - 1 ELSE Q["l"][x]
                    /\ B["r"][x] = IF Q["r"][x] >= p THEN Q["r"][x] - 1 ELSE Q["r"][x]
  BY <1>2, Sides DEF QRemoved
<1>11. v \notin V /\ v \in E \cup {Nil} /\ H[v] \in Nat /\ H[z] = 1 + H[v] /\ Close(H[z], H[v])
  <2>1. v \notin V /\ v \in E \cup {Nil}
    BY <1>2, <1>6, Sides DEF Side
  <2>2. H[v] \in Nat
    BY <1>9 DEF Side, Other
  <2>3. H[z] = 1 + Larger(0, H[v]) \/ H[z] = 1 + Larger(H[v], 0)
    <3>1. \/ t.kid["l"][z] = Nil /\ t.kid["r"][z] = v
          \/ t.kid["r"][z] = Nil /\ t.kid["l"][z] = v
      <4>1. CASE s = "l"
        BY <4>1 DEF Other
      <4>2. CASE s = "r"
        BY <4>2 DEF Other
      <4> QED
        BY <4>1, <4>2 DEF Side
    <3> QED
      BY <1>7, <1>9, <3>1
  <2> HIDE DEF H
  <2>4. H[z] = 1 + H[v]
    BY <2>2, <2>3 DEF Larger
  <2> QED
    BY <2>1, <2>2, <2>4 DEF Close
<1>12. /\ SideOf(t, z) \in Side /\ (a # Nil => a \in E /\ t.kid[SideOf(t, z)][a] = z)
       /\ \A x \in E : \A d \in Side : t.kid[d][x] = z <=> x = a /\ d = SideOf(t, z)
       /\ a # Nil => t.kid[Other(SideOf(t, z))][a] # z
       /\ a # z
  <2>1. a # z
    <3> SUFFICES ASSUME a = z PROVE FALSE
      OBVIOUS
    <3>1. Width(Q, z) < Width(Q, t.up[z]) /\ Width(Q, z) \in Nat
      BY <1>2, Widths
    <3> QED
      BY <3>1
  <2> QED
    BY <1>2, <2>1, SideOfKid
<1> HIDE DEF V, H, u, A, B
<1>13. Trail(w, D, a)
  <2>1. a \in D \cup {Nil}
    BY <1>6, <1>12
  <2>2. ASSUME NEW d \in D
        PROVE  /\ w.up[d] \in D \/ (w.up[d] = Nil /\ a # Nil)
               /\ ~(w.kid["l"][d] \in D /\ w.kid["r"][d] \in D)
    <3>1. d \in F /\ d \in V /\ d # v
      BY <1>5, <1>11
    <3>2. w.up[d] = t.up[d] /\ t.up[d] \in V \cup {Nil}
      BY <1>4, <1>6, <3>1
    <3>3. t.up[d] # z
      <4> SUFFICES ASSUME t.up[d] = z PROVE FALSE
        OBVIOUS
      <4>1. t.kid["l"][z] = d \/ t.kid["r"][z] = d
        BY <1>2, <3>1, SpansAt
      <4> QED
        BY <1>6, <3>1, <4>1
    <3>4. t.up[d] = Nil => a # Nil
      <4> SUFFICES ASSUME t.up[d] = Nil, a = Nil PROVE FALSE
        OBVIOUS
      <4>1. t.root = d /\ t.root = z
        BY <3>1, SpansAt
      <4> QED
        BY <4>1
    <3>5. \A q \in Side : w.kid[q][d] \in D => t.kid[q][d] \in V
      BY <1>4, <1>11, <3>1
    <3> QED
      BY <1>6, <3>1, <3>2, <3>3, <3>4, <3>5, Sides
  <2>3. a # Nil => w.kid["l"][a] \notin D /\ w.kid["r"][a] \notin D
    <3> SUFFICES ASSUME a # Nil PROVE w.kid["l"][a] \notin D /\ w.kid["r"][a] \notin D
      OBVIOUS
    <3>1. a \in F
      BY <1>12
    <3>2. \A q \in Side : t.kid[q][a] # z => t.kid[q][a] \notin V
      <4>1. t.kid["l"][a] = z \/ t.kid["r"][a] = z
        BY <1>12 DEF Side
      <4> QED
        BY <1>6, <3>1, <4>1 DEF Side
    <3>3. \A q \in Side : w.kid[q][a] \notin V
      BY <1>4, <1>11, <3>1, <3>2
    <3> QED
      BY <3>3, Sides
  <2> QED
    BY <2>1, <2>2, <2>3 DEF Trail
<1>14. ASSUME NEW c \in F \ D PROVE Clean(w, B, H, c)
  <2>1. c \in E /\ c # z /\ c # Nil /\ ~(Q["l"][c] <= p /\ p <= Q["r"][c])
    BY <1>2, <1>5
  <2>2. w.size[c] = Width(Q, c) /\ w.height[c] = H[c]
    BY <1>4, <1>8, <2>1
  <2>3. /\ B["l"][c] = IF Q["l"][c] > p THEN Q["l"][c] - 1 ELSE Q["l"][c]
        /\ B["r"][c] = IF Q["r"][c] >= p THEN Q["r"][c] - 1 ELSE Q["r"][c]
    BY <1>10, <2>1
  <2>4. Q["l"][c] \in Int /\ Q["r"][c] \in Int /\ Q["l"][c] <= Q["r"][c]
    <3>1. Q["l"][c] <= P[c] /\ P[c] <= Q["r"][c] /\ P[c] \in Int
      BY <2>1, SpansAt, SpansTypes
    <3> QED
      BY <1>2, <2>1, <3>1
  <2>5. B["r"][c] - B["l"][c] + 1 = Q["r"][c] - Q["l"][c] + 1
    <3>1. p \in Int
      BY <1>2
    <3> HIDE DEF p
    <3> QED
      BY <2>1, <2>3, <2>4, <3>1
  <2>6. Width(B, c) = Width(Q, c)
    BY <2>1, <2>5 DEF Width
  <2> QED
    BY <2>2, <2>6 DEF Clean
<1>15. ASSUME NEW c \in F \ {a} PROVE Level(w, H, c)
  <2>1. w.kid["l"][c] = t.kid["l"][c] /\ w.kid["r"][c] = t.kid["r"][c]
    BY <1>4, <1>12, Sides
  <2> QED
    BY <1>9, <2>1 DEF Level
<1>16. a # Nil => Nearly(w, H, a)
  <2> SUFFICES ASSUME a # Nil PROVE Nearly(w, H, a)
    OBVIOUS
  <2> DEFINE q == SideOf(t, z)
             k == t.kid[Other(q)][a]
  <2>1. /\ q \in Side /\ Other(q) \in Side /\ a \in F /\ t.kid[q][a] = z /\ k # z
    BY <1>12, Sides
  <2>2. w.kid[q][a] = v /\ w.kid[Other(q)][a] = k
    BY <1>4, <2>1
  <2>3. H[k] \in Nat /\ H[z] \in Nat
    BY <1>9, <2>1 DEF Side
  <2>4. H[a] = 1 + Larger(H[z], H[k]) /\ Close(H[z], H[k])
    <3>1. CASE q = "l"
      BY <1>9, <2>1, <3>1, Sides
    <3>2. CASE q = "r"
      <4>1. H[a] = 1 + Larger(H[k], H[z]) /\ Close(H[k], H[z])
        BY <1>9, <2>1, <3>2, Sides
      <4> HIDE DEF k
      <4> QED
        BY <2>3, <4>1 DEF Larger, Close
    <3> QED
      BY <2>1, <3>1, <3>2 DEF Side
  <2>5. Close(H[z], H[w.kid[q][a]])
    BY <1>11, <2>2
  <2> HIDE DEF k, q
  <2> QED
    BY <2>1, <2>2, <2>3, <2>4, <2>5 DEF Nearly
<1>17. D \subseteq F
  BY <1>5
<1>18. Fixing(w, F, u, A, B, H, D, a)
  BY <1>3, <1>7, <1>13, <1>14, <1>15, <1>16, <1>17 DEF Fixing, Heights
<1> QED
  BY <1>18 DEF CutFixing, u, A, B, H, V

-----------------------------------------------------------------------------
(* Taking out an element with two children: its successor takes its place. *)

\* s stands for z.
As(z, s) == [x \in Link |-> IF x = z THEN s ELSE x]
\* X with s in the place of z.
Swap(X, z, s) == (X \ {z}) \cup {s}

\* w is t with s under every link that led to z.
IsRenamed(w, t, E, z, s) ==
  /\ w \in Trees /\ w.root = As(z, s)[t.root]
  /\ \A x \in E :
       /\ \A d \in Side : w.kid[d][As(z, s)[x]] = As(z, s)[t.kid[d][x]]
       /\ w.up[As(z, s)[x]] = As(z, s)[t.up[x]]
       /\ x # z => w.size[x] = t.size[x] /\ w.height[x] = t.height[x]

\* g gives the renamed element what f gives the original.
Like(E, z, s, f, g) == \A x \in E : g[As(z, s)[x]] = f[x]

\* The renaming is one to one.
Fits(E, z, s) ==
  /\ \A x \in E : As(z, s)[x] \in Swap(E, z, s)
  /\ \A y \in Swap(E, z, s) : \E x \in E : y = As(z, s)[x]
  /\ As(z, s)[Nil] = Nil
  /\ \A x \in E \cup {Nil} : As(z, s)[x] = Nil <=> x = Nil
  /\ \A x, y \in E \cup {Nil} : As(z, s)[x] = As(z, s)[y] => x = y
  /\ \A x \in E \ {z} : As(z, s)[x] = x
  /\ As(z, s)[z] = s

\* It is, when s is no element yet.
LEMMA NamesFit ==
  ASSUME NEW E, E \subseteq Node, NEW z \in E, NEW s \in Node \ E
  PROVE  /\ Fits(E, z, s)
         /\ \A D \in SUBSET E : z \in D =>
              \A x \in E \cup {Nil} : As(z, s)[x] \in Swap(D, z, s) <=> x \in D
<1>1. Nil \notin E /\ E \cup {Nil} \subseteq Link /\ s # Nil /\ z # Nil /\ s \in Link
  BY OrderedAssumption DEF Link
<1>2. \A x \in E \cup {Nil} : As(z, s)[x] = IF x = z THEN s ELSE x
  BY <1>1 DEF As
<1> QED
  BY <1>1, <1>2 DEF Swap, Fits

\* A function on 1..n is a sequence of length n.
LEMMA TableIsSequence ==
  ASSUME NEW X, NEW n \in Nat, NEW u \in [1..n -> X]
  PROVE  u \in Seq(X) /\ Len(u) = n
<1>1. u \in Seq(X)
  BY SeqDef
<1> QED
  BY <1>1, LenProperties

\* A renamed search tree is one, with s at z's position.
LEMMA RenamedSpans ==
  ASSUME NEW t, NEW E, NEW o, NEW P, NEW Q, Spans(t, E, o, P, Q), NEW z \in E,
         NEW s \in Node \ E, NEW w, IsRenamed(w, t, E, z, s),
         NEW u, u = [o EXCEPT ![P[z]] = s], NEW A \in [Node -> Int], NEW B \in [Side -> [Node -> Int]],
         Like(E, z, s, P, A), \A d \in Side : Like(E, z, s, Q[d], B[d])
  PROVE  Spans(w, Swap(E, z, s), u, A, B)
<1> DEFINE F == Swap(E, z, s)
           r == As(z, s)
<1>1. /\ t \in Trees /\ Numbered(o, E, P) /\ t.root \in E
      /\ \A x \in E : Inside(P, Q, Len(o), x) /\ Below(t, E, P, Q, x) /\ Above(t, E, Q, Len(o), x)
  BY DEF Spans
<1>2. /\ E \subseteq Node /\ o \in Seq(E) /\ P \in [Node -> Int]
      /\ \A i \in 1..Len(o) : P[o[i]] = i
      /\ \A a \in E : P[a] \in 1..Len(o) /\ o[P[a]] = a
  BY <1>1 DEF Numbered
<1>3. /\ Len(o) \in Nat /\ DOMAIN o = 1..Len(o) /\ \A i \in 1..Len(o) : o[i] \in E
      /\ Nil \notin E
      /\ \A x \in E : /\ t.kid["l"][x] \in E \cup {Nil} /\ t.kid["r"][x] \in E \cup {Nil}
                      /\ t.up[x] \in E \cup {Nil}
  BY SpansTypes
<1>4. /\ \A x \in E : r[x] \in F
      /\ \A y \in F : \E x \in E : y = r[x]
      /\ r[Nil] = Nil
      /\ \A x \in E \cup {Nil} : r[x] = Nil <=> x = Nil
      /\ \A x, y \in E \cup {Nil} : r[x] = r[y] => x = y
      /\ \A x \in E \ {z} : r[x] = x
      /\ r[z] = s
  <2>1. Fits(E, z, s)
    BY <1>2, NamesFit
  <2> QED
    BY <2>1 DEF Fits
<1>5. \A x \in E : A[r[x]] = P[x] /\ B["l"][r[x]] = Q["l"][x] /\ B["r"][r[x]] = Q["r"][x]
  BY Sides DEF Like
<1>6. \A x \in E : \A d \in Side : B[d][r[x]] = Q[d][x]
  BY <1>5 DEF Side
<1>7. /\ w \in Trees /\ w.root = r[t.root]
      /\ \A x \in E : /\ \A d \in Side : w.kid[d][r[x]] = r[t.kid[d][x]]
                      /\ w.up[r[x]] = r[t.up[x]]
  BY DEF IsRenamed
<1>8. s \in F /\ F \subseteq Node
  BY <1>2 DEF Swap
<1> HIDE DEF F, r
<1>9. \A i \in 1..Len(o) : u[i] = r[o[i]]
  <2>1. \A i \in 1..Len(o) : u[i] = IF i = P[z] THEN s ELSE o[i]
    BY <1>3
  <2>2. \A i \in 1..Len(o) : o[i] = z <=> i = P[z]
    BY <1>2
  <2> QED
    BY <1>3, <1>4, <2>1, <2>2
<1>10. Numbered(u, F, A) /\ Len(u) = Len(o)
  <2>1. u = [i \in 1..Len(o) |-> u[i]]
    BY <1>3
  <2>2. \A i \in 1..Len(o) : u[i] \in F
    BY <1>3, <1>4, <1>9
  <2>3. u \in [1..Len(o) -> F]
    BY <2>1, <2>2
  <2>4. u \in Seq(F) /\ Len(u) = Len(o)
    BY <1>3, <2>3, TableIsSequence
  <2>6. \A i \in 1..Len(o) : A[u[i]] = i
    BY <1>2, <1>3, <1>5, <1>9
  <2>7. ASSUME NEW y \in F PROVE A[y] \in 1..Len(u) /\ u[A[y]] = y
    <3>1. PICK x \in E : y = r[x]
      BY <1>4
    <3> QED
      BY <1>2, <1>5, <1>9, <2>4, <3>1
  <2> QED
    BY <1>8, <2>4, <2>6, <2>7 DEF Numbered
<1>11. ASSUME NEW y \in F
       PROVE  Inside(A, B, Len(u), y) /\ Below(w, F, A, B, y) /\ Above(w, F, B, Len(u), y)
  <2>1. PICK x \in E : y = r[x]
    BY <1>4
  <2>2. Inside(A, B, Len(u), y)
    BY <1>1, <1>5, <1>10, <2>1 DEF Inside
  <2>3. ASSUME NEW d \in Side
        PROVE  IF w.kid[d][y] = Nil THEN B[d][y] = A[y]
               ELSE /\ w.kid[d][y] \in F /\ w.up[w.kid[d][y]] = y
                    /\ B[d][w.kid[d][y]] = B[d][y]
                    /\ B[Other(d)][w.kid[d][y]] = A[y] + Toward(d)
    <3> DEFINE c == t.kid[d][x]
    <3>1. IF c = Nil THEN Q[d][x] = P[x]
          ELSE /\ c \in E /\ t.up[c] = x /\ Q[d][c] = Q[d][x]
               /\ Q[Other(d)][c] = P[x] + Toward(d)
      BY <1>1 DEF Below
    <3>2. w.kid[d][y] = r[c] /\ c \in E \cup {Nil}
      BY <1>3, <1>7, <2>1 DEF Side
    <3> HIDE DEF c
    <3>3. CASE c = Nil
      BY <1>4, <1>5, <1>6, <2>1, <3>1, <3>2, <3>3
    <3>4. CASE c # Nil
      <4>1. c \in E /\ r[c] # Nil /\ r[c] \in F /\ w.up[r[c]] = y
        BY <1>4, <1>7, <2>1, <3>1, <3>4
      <4>2. /\ B[d][r[c]] = B[d][y] /\ B[Other(d)][r[c]] = A[y] + Toward(d)
        BY <1>5, <1>6, <2>1, <3>1, <3>4, Sides
      <4> QED
        BY <3>2, <4>1, <4>2
    <3> QED
      BY <3>3, <3>4
  <2>4. Above(w, F, B, Len(u), y)
    <3>1. Above(t, E, Q, Len(o), x)
      BY <1>1
    <3>2. w.up[y] = r[t.up[x]] /\ w.root = r[t.root] /\ t.up[x] \in E \cup {Nil}
      BY <1>3, <1>7, <2>1
    <3>3. CASE t.up[x] = Nil
      BY <1>4, <1>5, <1>10, <2>1, <3>1, <3>2, <3>3 DEF Above
    <3>4. CASE t.up[x] # Nil
      <4>1. t.up[x] \in E /\ t.root # x
        BY <3>1, <3>4 DEF Above
      <4>2. PICK d \in Side : t.kid[d][t.up[x]] = x
        BY <3>1, <3>4 DEF Above
      <4>3. w.up[y] \in F /\ w.up[y] # Nil /\ w.kid[d][w.up[y]] = y
        <5>1. t.up[x] \in E /\ t.up[x] \in E \cup {Nil} /\ t.up[x] # Nil
          BY <3>4, <4>1
        <5>2. r[t.up[x]] \in F /\ r[t.up[x]] # Nil
          BY <1>4, <5>1
        <5>3. w.kid[d][r[t.up[x]]] = r[t.kid[d][t.up[x]]]
          BY <1>7, <5>1
        <5> QED
          BY <2>1, <3>2, <4>2, <5>2, <5>3
      <4>4. w.root # y
        BY <1>1, <1>4, <2>1, <3>2, <4>1
      <4> QED
        BY <4>3, <4>4 DEF Above
    <3> QED
      BY <3>3, <3>4
  <2> QED
    BY <2>2, <2>3, <2>4 DEF Below
<1>12. w.root # Nil /\ w.root \in F
  BY <1>1, <1>3, <1>4, <1>7
<1>13. Spans(w, F, u, A, B)
  BY <1>7, <1>10, <1>11, <1>12 DEF Spans
<1> QED
  BY <1>13 DEF F

\* Renaming does not disturb a fix-up under way.
LEMMA RenamedFixing ==
  ASSUME NEW t, NEW E, NEW o, NEW P, NEW Q, NEW H, NEW D, NEW a, Fixing(t, E, o, P, Q, H, D, a),
         NEW z \in D, NEW s \in Node \ E, NEW w, IsRenamed(w, t, E, z, s),
         NEW u, u = [o EXCEPT ![P[z]] = s], NEW A \in [Node -> Int], NEW B \in [Side -> [Node -> Int]],
         Like(E, z, s, P, A), \A d \in Side : Like(E, z, s, Q[d], B[d]),
         NEW G, Heights(G), Like(E, z, s, H, G)
  PROVE  Fixing(w, Swap(E, z, s), u, A, B, G, Swap(D, z, s), As(z, s)[a])
<1> DEFINE F == Swap(E, z, s)
           C == Swap(D, z, s)
           r == As(z, s)
           b == r[a]
<1>1. /\ Spans(t, E, o, P, Q) /\ Heights(H) /\ D \subseteq E /\ Trail(t, D, a) /\ z \in E
      /\ \A c \in E \ D : Clean(t, Q, H, c)
      /\ \A c \in E \ {a} : Level(t, H, c)
      /\ a # Nil => Nearly(t, H, a)
  BY DEF Fixing
<1>2. Spans(w, F, u, A, B)
  BY <1>1, RenamedSpans
<1>3. /\ E \subseteq Node /\ Nil \notin E
      /\ \A x \in E : /\ t.kid["l"][x] \in E \cup {Nil} /\ t.kid["r"][x] \in E \cup {Nil}
                      /\ t.up[x] \in E \cup {Nil}
  BY <1>1, SpansTypes
<1>4. /\ \A x \in E : r[x] \in F
      /\ \A y \in F : \E x \in E : y = r[x]
      /\ r[Nil] = Nil
      /\ \A x \in E \cup {Nil} : r[x] = Nil <=> x = Nil
      /\ \A x, y \in E \cup {Nil} : r[x] = r[y] => x = y
      /\ \A x \in E \ {z} : r[x] = x
      /\ r[z] = s
      /\ \A x \in E \cup {Nil} : r[x] \in C <=> x \in D
  <2>1. Fits(E, z, s)
    BY <1>1, <1>3, NamesFit
  <2>2. \A x \in E \cup {Nil} : As(z, s)[x] \in Swap(D, z, s) <=> x \in D
    BY <1>1, <1>3, NamesFit
  <2> QED
    BY <2>1, <2>2 DEF Fits
<1>5. \A x \in E : \A d \in Side : B[d][r[x]] = Q[d][x]
  BY DEF Like
<1>6. \A x \in E \cup {Nil} : G[r[x]] = H[x]
  <2>1. G[Nil] = 0 /\ H[Nil] = 0
    BY <1>1 DEF Heights
  <2> QED
    BY <1>4, <2>1 DEF Like
<1>7. /\ \A x \in E : /\ \A d \in Side : w.kid[d][r[x]] = r[t.kid[d][x]]
                      /\ w.up[r[x]] = r[t.up[x]]
                      /\ x # z => w.size[x] = t.size[x] /\ w.height[x] = t.height[x]
  BY DEF IsRenamed
<1>8. a \in E \cup {Nil}
  BY <1>1 DEF Trail
<1>9. C \subseteq F
  BY <1>1 DEF Swap
<1> HIDE DEF F, C, r
<1>10. \A x \in E : \A d \in Side : /\ t.kid[d][x] \in E \cup {Nil} /\ w.kid[d][r[x]] = r[t.kid[d][x]]
                                    /\ G[w.kid[d][r[x]]] = H[t.kid[d][x]]
                                    /\ w.kid[d][r[x]] \in C <=> t.kid[d][x] \in D
  <2>1. \A x \in E : \A d \in Side : t.kid[d][x] \in E \cup {Nil}
    BY <1>3 DEF Side
  <2> QED
    BY <1>4, <1>6, <1>7, <2>1
<1>11. Trail(w, C, b)
  <2>1. b \in C \cup {Nil}
    BY <1>1, <1>4, <1>8 DEF Trail
  <2>2. ASSUME NEW y \in C
        PROVE  /\ w.up[y] \in C \/ (w.up[y] = Nil /\ b # Nil)
               /\ ~(w.kid["l"][y] \in C /\ w.kid["r"][y] \in C)
    <3>1. PICK x \in E : y = r[x]
      BY <1>4, <1>9
    <3>2. x \in D
      BY <1>4, <3>1
    <3>3. /\ t.up[x] \in D \/ (t.up[x] = Nil /\ a # Nil)
          /\ ~(t.kid["l"][x] \in D /\ t.kid["r"][x] \in D)
      BY <1>1, <3>2 DEF Trail
    <3>4. w.up[y] = r[t.up[x]] /\ t.up[x] \in E \cup {Nil}
      BY <1>3, <1>7, <3>1
    <3> QED
      BY <1>4, <1>8, <1>10, <3>1, <3>3, <3>4, Sides
  <2>3. b # Nil => w.kid["l"][b] \notin C /\ w.kid["r"][b] \notin C
    <3>1. b # Nil => a # Nil /\ a \in E
      BY <1>4, <1>8
    <3>2. a # Nil => t.kid["l"][a] \notin D /\ t.kid["r"][a] \notin D
      BY <1>1 DEF Trail
    <3> QED
      BY <1>10, <3>1, <3>2, Sides
  <2> HIDE DEF b
  <2> QED
    BY <2>1, <2>2, <2>3 DEF Trail
<1>12. ASSUME NEW y \in F \ C PROVE Clean(w, B, G, y)
  <2>1. PICK x \in E : y = r[x]
    BY <1>4
  <2>2. x \notin D /\ x # z /\ y = x
    BY <1>4, <2>1
  <2>3. t.size[x] = Width(Q, x) /\ t.height[x] = H[x]
    BY <1>1, <2>2 DEF Clean
  <2>4. w.size[x] = t.size[x] /\ w.height[x] = t.height[x]
    BY <1>7, <2>2
  <2>5. r[x] = x /\ x \in E \cup {Nil}
    BY <2>1, <2>2
  <2>6. G[x] = H[x]
    BY <1>6, <2>5
  <2>7. \A d \in Side : B[d][x] = Q[d][x]
    BY <1>5, <2>5
  <2>8. Width(B, x) = Width(Q, x)
    BY <2>7, Sides DEF Width
  <2> QED
    BY <2>2, <2>3, <2>4, <2>6, <2>8 DEF Clean
<1>13. ASSUME NEW y \in F \ {b} PROVE Level(w, G, y)
  <2>1. PICK x \in E : y = r[x]
    BY <1>4
  <2>2. Level(t, H, x)
    BY <1>1, <2>1
  <2>3. /\ G[y] = H[x] /\ G[w.kid["l"][y]] = H[t.kid["l"][x]]
        /\ G[w.kid["r"][y]] = H[t.kid["r"][x]]
    BY <1>6, <1>10, <2>1, Sides
  <2> QED
    BY <2>2, <2>3 DEF Level
<1>14. b # Nil => Nearly(w, G, b)
  <2> SUFFICES ASSUME b # Nil PROVE Nearly(w, G, b)
    OBVIOUS
  <2>1. a # Nil /\ a \in E
    BY <1>4, <1>8
  <2>2. PICK d \in Side, h \in Nat :
          /\ H[a] = 1 + Larger(h, H[t.kid[Other(d)][a]])
          /\ Close(h, H[t.kid[Other(d)][a]]) /\ Close(h, H[t.kid[d][a]])
    BY <1>1, <2>1 DEF Nearly
  <2>3. /\ G[b] = H[a] /\ G[w.kid[Other(d)][b]] = H[t.kid[Other(d)][a]]
        /\ G[w.kid[d][b]] = H[t.kid[d][a]]
    BY <1>6, <1>10, <2>1, Sides
  <2> HIDE DEF b
  <2> QED
    BY <2>2, <2>3 DEF Nearly
<1> HIDE DEF b
<1>15. Fixing(w, F, u, A, B, G, C, b)
  BY <1>2, <1>9, <1>11, <1>12, <1>13, <1>14 DEF Fixing
<1> QED
  BY <1>15 DEF F, C, r, b

\* leftmost and rightmost: the ends of the subtree.
LEMMA MostFound ==
  ASSUME NEW t, NEW E, NEW o, NEW P, NEW Q, Spans(t, E, o, P, Q), NEW a \in E, NEW s \in Side
  PROVE  /\ Most(t, a, s) \in E /\ t.kid[s][Most(t, a, s)] = Nil
         /\ P[Most(t, a, s)] = Q[s][a]
<1> DEFINE f == [b \in Link |-> IF b = Nil \/ t.kid[s][b] = Nil THEN b ELSE t.kid[s][b]]
           J == {b \in E : Q[s][b] = Q[s][a]}
           w == [b \in J |-> Width(Q, b)]
           z == Loop(f, a)
<1>1. Most(t, a, s) = z
  BY DEF Most
<1>2. Numbered(o, E, P)
  BY DEF Spans
<1>3. Nil \notin E /\ \A b \in E : b \in Link
  BY SpansTypes
<1>4. Len(o) \in Nat /\ Len(o) <= Rounds /\ Rounds \in Nat
  BY <1>2, OrderFits, RoundsCount
<1>5. DOMAIN f = Link /\ \A b \in E : f[b] = IF t.kid[s][b] = Nil THEN b ELSE t.kid[s][b]
  BY <1>3
<1> HIDE DEF f
<1>6. J \in SUBSET DOMAIN f /\ w \in [J -> Nat] /\ \A b \in J : w[b] <= Rounds
  <2>1. \A b \in E : Width(Q, b) \in Nat /\ Width(Q, b) <= Len(o)
    BY Widths
  <2> QED
    BY <1>3, <1>4, <1>5, <2>1
<1>7. a \in J
  OBVIOUS
<1>8. ASSUME NEW b \in E, t.kid[s][b] # Nil
      PROVE  /\ t.kid[s][b] \in E /\ Q[s][t.kid[s][b]] = Q[s][b]
             /\ Width(Q, t.kid[s][b]) < Width(Q, b)
  BY <1>8, SpansAt, Widths DEF Side
<1>9. \A b \in J : f[b] \in J /\ (f[b] = b \/ w[f[b]] < w[b])
  <2> SUFFICES ASSUME NEW b \in J PROVE f[b] \in J /\ (f[b] = b \/ w[f[b]] < w[b])
    OBVIOUS
  <2>1. CASE t.kid[s][b] = Nil
    BY <1>5, <2>1
  <2>2. CASE t.kid[s][b] # Nil
    <3>1. b \in E /\ Q[s][b] = Q[s][a] /\ f[b] = t.kid[s][b]
      BY <1>5, <2>2
    <3> QED
      BY <1>8, <2>2, <3>1
  <2> QED
    BY <2>1, <2>2
<1>10. z \in J /\ f[z] = z
  <2> HIDE DEF J, w
  <2> QED
    BY <1>6, <1>7, <1>9, LoopEnds
<1> HIDE DEF z
<1>11. z \in E /\ Q[s][z] = Q[s][a]
  BY <1>10
<1>12. t.kid[s][z] = Nil
  <2> SUFFICES ASSUME t.kid[s][z] # Nil PROVE FALSE
    OBVIOUS
  <2>1. f[z] = t.kid[s][z]
    BY <1>5, <1>11
  <2>2. Width(Q, z) < Width(Q, z) /\ Width(Q, z) \in Nat
    BY <1>8, <1>10, <1>11, <2>1, Widths
  <2> QED
    BY <2>2
<1>13. Q[s][z] = P[z]
  BY <1>11, <1>12, SpansAt DEF Side
<1> QED
  BY <1>1, <1>11, <1>12, <1>13

\* free is w without s, which is about to stand for z and has z's right subtree already.
Loosened(free, w, E, z, s) ==
  /\ free \in Trees /\ free.n = w.n /\ free.root = w.root /\ free.up[z] = w.up[z]
  /\ free.kid["r"][s] = w.kid["r"][z]
  /\ \A x \in E \ {z} :
       /\ \A d \in Side : free.kid[d][x] = w.kid[d][x]
       /\ free.up[x] = IF x = w.kid["r"][z] THEN s ELSE w.up[x]
       /\ free.size[x] = w.size[x] /\ free.height[x] = w.height[x]

\* The assignments that put the successor in z's place rename z.
LEMMA HungIsRenamed ==
  ASSUME NEW w, NEW E, NEW o, NEW P, NEW Q, Spans(w, E, o, P, Q), NEW z \in E,
         NEW s \in Node \ E, NEW free, Loosened(free, w, E, z, s), NEW l, l = w.kid["l"][z]
  PROVE  /\ IsRenamed(Hang(Transplant(free, z, s), s, "l", l), w, E, z, s)
         /\ Hang(Transplant(free, z, s), s, "l", l).n = w.n
<1> DEFINE v == Transplant(free, z, s)
           u == Hang(v, s, "l", l)
           r == As(z, s)
<1>1. /\ w.root \in E /\ w.root # Nil /\ Nil \notin E /\ E \subseteq Node /\ l \in E \cup {Nil}
      /\ \A x \in E : /\ w.kid["l"][x] \in E \cup {Nil} /\ w.kid["r"][x] \in E \cup {Nil}
                      /\ w.up[x] \in E \cup {Nil} /\ x \in Node
  <2>1. w.root \in E
    BY DEF Spans
  <2> QED
    BY <2>1, SpansTypes
<1>2. s \in Node /\ s \in Link /\ s # Nil /\ s # z /\ s \notin E /\ l \in Link
  BY <1>1, OrderedAssumption DEF Link
<1>3. /\ free \in Trees /\ free.n = w.n /\ free.root = w.root /\ free.up[z] = w.up[z]
      /\ free.kid["r"][s] = w.kid["r"][z]
      /\ \A x \in E \ {z} :
           /\ \A d \in Side : free.kid[d][x] = w.kid[d][x]
           /\ free.up[x] = IF x = w.kid["r"][z] THEN s ELSE w.up[x]
           /\ free.size[x] = w.size[x] /\ free.height[x] = w.height[x]
  BY DEF Loosened
<1>4. IsTransplanted(v, free, z, s)
  BY <1>1, <1>2, <1>3, TransplantFields
<1> HIDE DEF v
<1>5. /\ v \in Trees /\ v.root = (IF w.up[z] = Nil THEN s ELSE w.root) /\ v.n = w.n
      /\ v.size = free.size /\ v.height = free.height
      /\ \A q \in Side : \A x \in Node :
           v.kid[q][x] = IF x = w.up[z] /\ q = SideOf(free, z) THEN s ELSE free.kid[q][x]
      /\ \A x \in Node : v.up[x] = IF x = s THEN w.up[z] ELSE free.up[x]
  BY <1>3, <1>4 DEF IsTransplanted
<1>6. IsHung(u, v, s, "l", l)
  BY <1>2, <1>5, HangFields, Sides
<1> HIDE DEF u
<1>7. /\ u \in Trees /\ u.root = v.root /\ u.n = v.n /\ u.size = v.size /\ u.height = v.height
      /\ \A q \in Side : \A x \in Node :
           u.kid[q][x] = IF q = "l" /\ x = s THEN l ELSE v.kid[q][x]
      /\ \A x \in Node : u.up[x] = IF x = l THEN s ELSE v.up[x]
  BY <1>6 DEF IsHung
<1>8. /\ \A x \in E : r[x] = IF x = z THEN s ELSE x
      /\ r[Nil] = Nil
      /\ \A x \in E \cup {Nil} : r[x] = IF x = z THEN s ELSE x
  BY <1>1 DEF As, Link
<1> HIDE DEF r
<1>9. w.up[z] = Nil <=> w.root = z
  BY SpansAt
<1>10. /\ \A x \in E : \A d \in Side : w.kid[d][x] = z <=> x = w.up[z] /\ d = SideOf(w, z)
       /\ w.up[z] # Nil => SideOf(free, z) = SideOf(w, z)
       /\ w.up[z] # z
  <2>1. w.up[z] # z
    <3> SUFFICES ASSUME w.up[z] = z PROVE FALSE
      OBVIOUS
    <3>1. Width(Q, z) < Width(Q, w.up[z]) /\ Width(Q, z) \in Nat
      BY <1>1, Widths
    <3> QED
      BY <3>1
  <2>2. w.up[z] # Nil => w.up[z] \in E \ {z}
    BY <1>1, <2>1
  <2>3. w.up[z] # Nil => SideOf(free, z) = SideOf(w, z)
    BY <1>3, <2>2, Sides DEF SideOf
  <2> QED
    BY <2>1, <2>3, SideOfKid
<1>11. \A x \in E \ {z} : w.up[x] = z <=> (x = l \/ x = w.kid["r"][z])
  <2> SUFFICES ASSUME NEW x \in E, x # z PROVE w.up[x] = z <=> (x = l \/ x = w.kid["r"][z])
    OBVIOUS
  <2>1. w.up[x] = z => (x = l \/ x = w.kid["r"][z])
    BY <1>1, SpansAt
  <2>2. x = l \/ x = w.kid["r"][z] => w.up[x] = z
    BY <1>1, SpansAt
  <2> QED
    BY <2>1, <2>2
<1>12. u.root = r[w.root]
  BY <1>1, <1>5, <1>7, <1>8, <1>9
<1>13. ASSUME NEW x \in E PROVE \A d \in Side : u.kid[d][r[x]] = r[w.kid[d][x]]
  <2>1. CASE x = z
    <3>1. r[x] = s /\ s # w.up[z]
      BY <1>1, <1>2, <1>8, <2>1
    <3>2. l # z /\ w.kid["r"][z] # z
      <4>1. /\ Width(Q, w.kid["l"][z]) < Width(Q, z) /\ Width(Q, w.kid["r"][z]) < Width(Q, z)
            /\ Width(Q, z) \in Nat
        BY Widths, Sides
      <4> QED
        BY <4>1
    <3>3. u.kid["l"][s] = l
      BY <1>2, <1>7, Sides
    <3>4. u.kid["r"][s] = w.kid["r"][z]
      BY <1>2, <1>3, <1>5, <1>7, <3>1, Sides
    <3>5. r[l] = l /\ r[w.kid["r"][z]] = w.kid["r"][z]
      BY <1>1, <1>8, <3>2
    <3> QED
      BY <2>1, <3>1, <3>3, <3>4, <3>5 DEF Side
  <2>2. CASE x # z
    <3>1. r[x] = x /\ x # s /\ x \in Node
      BY <1>1, <1>2, <1>8, <2>2
    <3>2. ASSUME NEW d \in Side PROVE u.kid[d][x] = r[w.kid[d][x]]
      <4>1. u.kid[d][x] = IF x = w.up[z] /\ d = SideOf(free, z) THEN s ELSE free.kid[d][x]
        BY <1>5, <1>7, <3>1
      <4>2. w.kid[d][x] \in E \cup {Nil}
        BY <1>1 DEF Side
      <4>3. r[w.kid[d][x]] = IF w.kid[d][x] = z THEN s ELSE w.kid[d][x]
        BY <1>8, <4>2
      <4>4. free.kid[d][x] = w.kid[d][x]
        BY <1>3, <2>2
      <4>5. w.kid[d][x] = z <=> x = w.up[z] /\ d = SideOf(free, z)
        <5>1. x = w.up[z] => w.up[z] # Nil
          BY <1>1
        <5> QED
          BY <1>10, <5>1
      <4> QED
        BY <4>1, <4>3, <4>4, <4>5
    <3> QED
      BY <3>1, <3>2
  <2> QED
    BY <2>1, <2>2
<1>14. ASSUME NEW x \in E PROVE u.up[r[x]] = r[w.up[x]]
  <2>1. CASE x = z
    <3>1. r[x] = s /\ r[w.up[z]] = w.up[z] /\ s # l
      BY <1>1, <1>2, <1>8, <1>10, <2>1
    <3> QED
      BY <1>2, <1>5, <1>7, <2>1, <3>1
  <2>2. CASE x # z
    <3>1. r[x] = x /\ x # s /\ x \in Node
      BY <1>1, <1>2, <1>8, <2>2
    <3>2. u.up[x] = IF x = l \/ x = w.kid["r"][z] THEN s ELSE w.up[x]
      BY <1>3, <1>5, <1>7, <2>2, <3>1
    <3>3. r[w.up[x]] = IF w.up[x] = z THEN s ELSE w.up[x]
      BY <1>1, <1>8
    <3> QED
      BY <1>11, <2>2, <3>1, <3>2, <3>3
  <2> QED
    BY <2>1, <2>2
<1>15. \A x \in E \ {z} : u.size[x] = w.size[x] /\ u.height[x] = w.height[x]
  BY <1>3, <1>5, <1>7
<1>16. IsRenamed(u, w, E, z, s)
  BY <1>7, <1>12, <1>13, <1>14, <1>15 DEF IsRenamed, r
<1> QED
  BY <1>5, <1>7, <1>16 DEF u, v

\* The successor of z in its right subtree, taken out of it.
IsSuccessor(t, E, P, z, s) ==
  /\ s \in E /\ s # z /\ t.kid["l"][s] = Nil /\ P[s] = P[z] + 1
  /\ t.kid["l"][z] # s /\ t.root # s /\ (t.kid["r"][z] = s <=> t.up[s] = z)

\* The leftmost of the right subtree is the successor, and has no left child.
LEMMA SuccessorFound ==
  ASSUME NEW t, NEW E, NEW o, NEW P, NEW Q, Spans(t, E, o, P, Q), NEW z \in E,
         t.kid["l"][z] # Nil, t.kid["r"][z] # Nil
  PROVE  IsSuccessor(t, E, P, z, Most(t, t.kid["r"][z], "l"))
<1> DEFINE r == t.kid["r"][z]
           s == Most(t, r, "l")
<1>1. r \in E /\ t.up[r] = z /\ Q["l"][r] = P[z] + 1
  BY SpansAt
<1>2. s \in E /\ t.kid["l"][s] = Nil /\ P[s] = Q["l"][r]
  BY <1>1, MostFound, Sides
<1> HIDE DEF s
<1>3. P[z] \in Int /\ P[s] = P[z] + 1 /\ s # z
  <2>1. P[z] \in Int
    BY SpansTypes
  <2> QED
    BY <1>1, <1>2, <2>1
<1>4. t.kid["l"][z] # s
  <2> DEFINE l == t.kid["l"][z]
  <2>1. l \in E /\ Q["r"][l] = P[z] - 1
    BY SpansAt
  <2>2. P[l] <= Q["r"][l] /\ P[l] \in Int
    BY <2>1, SpansAt, SpansTypes
  <2> HIDE DEF l
  <2>3. P[l] # P[s]
    BY <1>3, <2>1, <2>2
  <2> QED
    BY <2>3 DEF l
<1>5. t.root # s
  <2> SUFFICES ASSUME t.root = s PROVE FALSE
    OBVIOUS
  <2>1. s # Nil
    BY <1>2, SpansTypes
  <2>2. Q["l"][s] = 1 /\ 1 <= P[z]
    <3>1. Q["l"][s] = 1
      BY <2>1, RootSpans
    <3>2. 1 <= Q["l"][z] /\ Q["l"][z] <= P[z] /\ Q["l"][z] \in Int
      BY SpansAt, SpansTypes
    <3> QED
      BY <1>3, <3>1, <3>2
  <2>3. Q["l"][s] = P[s]
    BY <1>2, SpansAt
  <2> QED
    BY <1>3, <2>2, <2>3
<1>6. r = s <=> t.up[s] = z
  <2>1. t.up[s] = z => t.kid["l"][z] = s \/ t.kid["r"][z] = s
    <3>1. z # Nil
      BY SpansTypes
    <3> QED
      BY <1>2, <3>1, SpansAt
  <2> QED
    BY <1>1, <1>4, <2>1
<1>7. IsSuccessor(t, E, P, z, s)
  BY <1>2, <1>3, <1>4, <1>5, <1>6 DEF IsSuccessor
<1> QED
  BY <1>7 DEF s

\* w is t without the successor, free is w with z's right subtree handed to it.
IsFreed(free, w, t, E, z, s) ==
  /\ Loosened(free, w, E \ {s}, z, s) /\ IsCut(w, t, E, s, t.kid["r"][s])
  /\ w.kid["l"][z] = t.kid["l"][z] /\ w.n = t.n

\* The assignments of avl_erase before the successor goes to z's place.
Frees(free, w, r, t, z, s) ==
  /\ w = Transplant(t, s, t.kid["r"][s]) /\ r = t.kid["r"][z] /\ r # Nil
  /\ free = IF s = r THEN t ELSE Hang(w, s, "r", r)

\* These assignments do that, whether or not the successor is z's own child.
LEMMA SuccessorLoosened ==
  ASSUME NEW t, NEW E, NEW o, NEW P, NEW Q, Spans(t, E, o, P, Q), NEW z \in E, NEW s,
         IsSuccessor(t, E, P, z, s), NEW w, NEW r, NEW free, Frees(free, w, r, t, z, s)
  PROVE  IsFreed(free, w, t, E, z, s)
<1> DEFINE v == t.kid["r"][s]
           F == E \ {s}
<1>w. w = Transplant(t, s, v)
  BY DEF Frees
<1>r. r = t.kid["r"][z] /\ r # Nil
  BY DEF Frees
<1>f. free = IF s = r THEN t ELSE Hang(w, s, "r", r)
  BY DEF Frees
<1>v. v = t.kid["r"][s]
  OBVIOUS
<1> HIDE DEF v
<1>1. /\ s \in E /\ s # z /\ t.kid["l"][s] = Nil
      /\ t.kid["l"][z] # s /\ t.root # s /\ (r = s <=> t.up[s] = z)
  BY <1>r DEF IsSuccessor
<1>2. /\ t \in Trees /\ E \subseteq Node /\ Nil \notin E /\ v \in E \cup {Nil} /\ v \in Link
      /\ s \in Node /\ z \in Node /\ z \in F /\ t.up[z] \in E \cup {Nil}
  <2>1. t \in Trees
    BY DEF Spans
  <2>2. E \subseteq Node /\ Nil \notin E /\ v \in E \cup {Nil} /\ t.up[z] \in E \cup {Nil}
    BY <1>1, <1>v, SpansTypes
  <2> QED
    BY <1>1, <2>1, <2>2 DEF Link
<1>3. IsCut(w, t, E, s, v)
  BY <1>1, <1>2, <1>w, <1>v, CutFields
<1>4. /\ w \in Trees /\ w.n = t.n /\ w.root = t.root
      /\ \A x \in F :
           /\ \A d \in Side : w.kid[d][x] = IF t.kid[d][x] = s THEN v ELSE t.kid[d][x]
           /\ w.up[x] = IF x = v THEN t.up[s] ELSE t.up[x]
           /\ w.size[x] = t.size[x] /\ w.height[x] = t.height[x]
  BY <1>1, <1>3 DEF IsCut
<1>5. v # s /\ (v # Nil => t.up[v] = s) /\ z # v /\ r \in E /\ t.up[r] = z
  <2>1. v # Nil => t.up[v] = s
    BY <1>1, <1>v, SpansAt
  <2>2. v # s
    <3>1. Width(Q, v) < Width(Q, s) /\ Width(Q, s) \in Nat
      BY <1>1, <1>v, Widths, Sides
    <3> QED
      BY <3>1
  <2>3. r \in E /\ t.up[r] = z
    BY <1>r, SpansAt
  <2>4. z # v
    <3> SUFFICES ASSUME z = v PROVE FALSE
      OBVIOUS
    <3>1. v # Nil
      BY <1>2
    <3>2. Q["l"][v] = P[s] + 1 /\ Q["l"][z] <= P[z] /\ P[s] = P[z] + 1
      BY <1>1, <1>v, <3>1, SpansAt DEF IsSuccessor
    <3>3. Q["l"][z] \in Int /\ P[z] \in Int /\ P[s] \in Int
      BY <1>1, <1>2, SpansTypes
    <3> QED
      BY <3>2, <3>3
  <2> QED
    BY <2>1, <2>2, <2>3, <2>4
<1>6. w.kid["l"][z] = t.kid["l"][z]
  BY <1>1, <1>2, <1>4, Sides
<1>7. CASE s = r
  <2>1. free = t
    BY <1>7, <1>f
  <2>2. w.kid["r"][z] = v
    BY <1>2, <1>4, <1>7, <1>r, Sides
  <2>3. w.up[z] = t.up[z]
    BY <1>2, <1>4, <1>5
  <2>4. ASSUME NEW x \in F \ {z}
        PROVE  /\ \A d \in Side : t.kid[d][x] = w.kid[d][x]
               /\ t.up[x] = IF x = v THEN s ELSE w.up[x]
               /\ t.size[x] = w.size[x] /\ t.height[x] = w.height[x]
    <3>1. ASSUME NEW d \in Side PROVE t.kid[d][x] # s
      <4> SUFFICES ASSUME t.kid[d][x] = s PROVE FALSE
        OBVIOUS
      <4>1. t.up[s] = x
        BY <1>1, <1>2, SpansAt DEF Side
      <4> QED
        BY <1>1, <1>7, <4>1
    <3>2. \A d \in Side : t.kid[d][x] = w.kid[d][x]
      BY <1>4, <3>1
    <3>3. x # Nil /\ x \in F
      BY <1>2
    <3> QED
      BY <1>4, <1>5, <3>2, <3>3
  <2>5. Loosened(t, w, F, z, s)
    <3>1. t.n = w.n /\ t.root = w.root /\ t.up[z] = w.up[z] /\ t.kid["r"][s] = w.kid["r"][z]
      BY <1>4, <1>v, <2>2, <2>3
    <3>2. \A x \in F \ {z} :
            /\ \A d \in Side : t.kid[d][x] = w.kid[d][x]
            /\ t.up[x] = IF x = w.kid["r"][z] THEN s ELSE w.up[x]
            /\ t.size[x] = w.size[x] /\ t.height[x] = w.height[x]
      BY <2>2, <2>4
    <3> HIDE DEF F
    <3> QED
      BY <1>2, <3>1, <3>2 DEF Loosened
  <2> QED
    BY <1>3, <1>4, <1>6, <1>v, <2>1, <2>5 DEF IsFreed
<1>8. CASE s # r
  <2>1. free = Hang(w, s, "r", r)
    BY <1>8, <1>f
  <2>2. r \in Link
    BY <1>2, <1>5 DEF Link
  <2>3. IsHung(free, w, s, "r", r)
    BY <1>2, <1>4, <2>1, <2>2, HangFields, Sides
  <2>4. /\ free \in Trees /\ free.root = w.root /\ free.n = w.n /\ free.size = w.size
        /\ free.height = w.height
        /\ \A q \in Side : \A x \in Node :
             free.kid[q][x] = IF q = "r" /\ x = s THEN r ELSE w.kid[q][x]
        /\ \A x \in Node : free.up[x] = IF x = r THEN s ELSE w.up[x]
    BY <2>3 DEF IsHung
  <2>5. w.kid["r"][z] = r
    BY <1>2, <1>4, <1>8, <1>r, Sides
  <2>6. r # z
    <3>1. Width(Q, r) < Width(Q, z) /\ Width(Q, z) \in Nat
      BY <1>r, Widths, Sides
    <3> QED
      BY <3>1
  <2>7. free.up[z] = w.up[z] /\ free.kid["r"][s] = r
    BY <1>2, <2>4, <2>6, Sides
  <2>8. ASSUME NEW x \in F \ {z}
        PROVE  /\ \A d \in Side : free.kid[d][x] = w.kid[d][x]
               /\ free.up[x] = IF x = r THEN s ELSE w.up[x]
               /\ free.size[x] = w.size[x] /\ free.height[x] = w.height[x]
    <3>1. x \in Node /\ x # s
      BY <1>2
    <3> QED
      BY <2>4, <3>1
  <2>9. Loosened(free, w, F, z, s)
    <3>1. /\ free \in Trees /\ free.n = w.n /\ free.root = w.root /\ free.up[z] = w.up[z]
          /\ free.kid["r"][s] = w.kid["r"][z]
      BY <2>4, <2>5, <2>7
    <3>2. \A x \in F \ {z} :
            /\ \A d \in Side : free.kid[d][x] = w.kid[d][x]
            /\ free.up[x] = IF x = w.kid["r"][z] THEN s ELSE w.up[x]
            /\ free.size[x] = w.size[x] /\ free.height[x] = w.height[x]
      BY <2>5, <2>8
    <3> HIDE DEF F
    <3> QED
      BY <3>1, <3>2 DEF Loosened
  <2> QED
    BY <1>3, <1>4, <1>6, <1>v, <2>9 DEF IsFreed
<1> QED
  BY <1>7, <1>8

\* Taking out the position behind z's and putting s in z's is taking out z's.
LEMMA SuccessorMovesUp ==
  ASSUME NEW o, NEW E, NEW P, Numbered(o, E, P), NEW z \in E, NEW s \in E, P[s] = P[z] + 1
  PROVE  [RemoveAt(o, P[s]) EXCEPT ![P[z]] = s] = RemoveAt(o, P[z])
<1> DEFINE p == P[z]
           n == Len(o)
           u == RemoveAt(o, P[s])
           w == RemoveAt(o, p)
           v == [u EXCEPT ![p] = s]
<1>1. /\ o \in Seq(E) /\ p \in 1..n /\ p + 1 \in 1..n /\ P[s] = p + 1 /\ o[p + 1] = s
      /\ n \in Nat
  BY LenProperties DEF Numbered
<1>2. /\ u \in Seq(E) /\ Len(u) = n - 1
      /\ \A i \in 1..(n - 1) : u[i] = IF i < p + 1 THEN o[i] ELSE o[i + 1]
  <2>1. P[s] \in 1..Len(o) /\ P[s] = p + 1
    BY <1>1
  <2>2. /\ u \in Seq(E) /\ Len(u) = n - 1
        /\ \A i \in 1..(n - 1) : u[i] = IF i < P[s] THEN o[i] ELSE o[i + 1]
    BY <1>1, <2>1, RemovedFrom
  <2> HIDE DEF u, p, n
  <2> QED
    BY <2>1, <2>2
<1>3. /\ w \in Seq(E) /\ Len(w) = n - 1
      /\ \A i \in 1..(n - 1) : w[i] = IF i < p THEN o[i] ELSE o[i + 1]
  BY <1>1, RemovedFrom
<1> HIDE DEF u, w, p, n
<1>4. DOMAIN u = 1..(n - 1) /\ n - 1 \in Nat
  BY <1>1, <1>2, LenProperties
<1>5. \A i \in 1..(n - 1) : v[i] = w[i]
  <2> SUFFICES ASSUME NEW i \in 1..(n - 1) PROVE v[i] = w[i]
    OBVIOUS
  <2>1. CASE i = p
    BY <1>1, <1>3, <1>4, <2>1
  <2>2. CASE i # p
    <3>1. v[i] = u[i]
      BY <1>4, <2>2
    <3>2. i \in Int /\ p \in Int
      BY <1>1
    <3>3. u[i] = w[i]
      BY <1>2, <1>3, <2>2, <3>2
    <3> QED
      BY <3>1, <3>3
  <2> QED
    BY <2>1, <2>2
<1>6. v = [i \in 1..(n - 1) |-> v[i]]
  BY <1>4
<1>7. DOMAIN w = 1..(n - 1)
  BY <1>3, LenProperties
<1>8. w = [i \in 1..(n - 1) |-> w[i]]
  BY <1>3, <1>7, LenProperties
<1>9. v = w
  <2> HIDE DEF v
  <2> QED
    BY <1>5, <1>6, <1>8
<1> QED
  BY <1>9 DEF v, u, w, p

\* avl_erase: the tree stays correct and balanced, and the others keep their order.
LEMMA CutSound ==
  ASSUME NEW t, NEW E, NEW o, NEW P, NEW Q, Spans(t, E, o, P, Q), Counted(t, E, Q), NEW z \in E
  PROVE  Sound(Cut(t, z), E \ {z}, RemoveAt(o, P[z])) /\ Cut(t, z).n = t.n
<1> DEFINE l == t.kid["l"][z]
           r == t.kid["r"][z]
           s == Most(t, r, "l")
           free == IF s = r THEN t ELSE Hang(Transplant(t, s, t.kid["r"][s]), s, "r", r)
           u == Cut(t, z)
           v == IF l # Nil THEN l ELSE r
           O == RemoveAt(o, P[z])
           H == [x \in Link |-> Ht(t, x)]
<1>1. u = IF l = Nil \/ r = Nil THEN Fixup(Transplant(t, z, v), t.up[z])
          ELSE Fixup(Hang(Transplant(free, z, s), s, "l", l), FixFrom(t, s, r))
  BY DEF Cut
<1> HIDE DEF u
<1>2. /\ t \in Trees /\ Numbered(o, E, P)
      /\ E \subseteq Node /\ Nil \notin E /\ l \in E \cup {Nil} /\ r \in E \cup {Nil} /\ z # Nil
      /\ \A x \in E : t.up[x] \in E \cup {Nil} /\ t.up[x] \in Link
  <2>1. t \in Trees /\ Numbered(o, E, P)
    BY DEF Spans
  <2>2. /\ E \subseteq Node /\ Nil \notin E /\ l \in E \cup {Nil} /\ r \in E \cup {Nil} /\ z # Nil
        /\ \A x \in E : t.up[x] \in E \cup {Nil}
    BY SpansTypes
  <2> QED
    BY <2>1, <2>2 DEF Link
<1>3. CASE l = Nil \/ r = Nil
  <2> DEFINE w == Transplant(t, z, v)
             D == Over(E, Q, P[z]) \ {z}
  <2>1. PICK q \in Side : t.kid[q][z] = Nil /\ v = t.kid[Other(q)][z]
    <3>1. CASE l = Nil
      BY <3>1, Sides
    <3>2. CASE l # Nil
      BY <1>3, <3>2, Sides
    <3> QED
      BY <3>1, <3>2
  <2>2. v \in Link
    BY <1>2 DEF Link
  <2> HIDE DEF v
  <2>3. IsCut(w, t, E, z, v)
    BY <2>2, CutFields
  <2>4. u = Fixup(w, t.up[z])
    BY <1>1, <1>3 DEF v
  <2> HIDE DEF w, l, r, s
  <2>5. CutFixing(w, t, E, o, P, Q, H, D, z)
    BY <2>1, <2>3, CutIsFixing
  <2> HIDE DEF H, D, O
  <2>6. Fixing(w, E \ {z}, O, PRemoved(P, P[z]), QRemoved(Q, P[z]), H, D, t.up[z])
    BY <2>5 DEF CutFixing, O
  <2>7. w.n = t.n
    BY <2>3 DEF IsCut
  <2>8. Sound(Fixup(w, t.up[z]), E \ {z}, O) /\ Fixup(w, t.up[z]).n = w.n
    BY <1>2, <2>6, FixupSound
  <2> QED
    BY <2>4, <2>7, <2>8 DEF u, O
<1>4. CASE l # Nil /\ r # Nil
  <2> DEFINE w == Transplant(t, s, t.kid["r"][s])
             y == Hang(Transplant(free, z, s), s, "l", l)
             F == E \ {s}
             p == P[s]
             o1 == RemoveAt(o, p)
             P1 == PRemoved(P, p)
             Q1 == QRemoved(Q, p)
             D == Over(E, Q, p) \ {s}
             A == [P1 EXCEPT ![s] = P1[z]]
             B == [d \in Side |-> [Q1[d] EXCEPT ![s] = Q1[d][z]]]
             G == [H EXCEPT ![s] = H[z]]
  <2>1. u = Fixup(y, FixFrom(t, s, r))
    BY <1>1, <1>4
  <2>2. IsSuccessor(t, E, P, z, s)
    BY <1>4, SuccessorFound
  <2> HIDE DEF s, u, H, O
  <2>3. /\ Loosened(free, w, F, z, s) /\ IsCut(w, t, E, s, t.kid["r"][s])
        /\ w.kid["l"][z] = l /\ w.n = t.n
    <3>1. w = Transplant(t, s, t.kid["r"][s]) /\ r = t.kid["r"][z] /\ r # Nil
      BY <1>4
    <3>2. free = IF s = r THEN t ELSE Hang(w, s, "r", r)
      OBVIOUS
    <3>3. l = t.kid["l"][z]
      OBVIOUS
    <3> HIDE DEF w, free, l, r
    <3>4. Frees(free, w, r, t, z, s)
      BY <3>1, <3>2 DEF Frees
    <3>5. IsFreed(free, w, t, E, z, s)
      BY <2>2, <3>4, SuccessorLoosened
    <3> QED
      BY <3>3, <3>5 DEF IsFreed
  <2>4. /\ s \in E /\ s # z /\ t.kid["l"][s] = Nil /\ p = P[z] + 1 /\ (r = s <=> t.up[s] = z)
        /\ s \in Node /\ s \in Node \ F /\ z \in F /\ s # Nil /\ s \in Link
    BY <1>2, <2>2 DEF IsSuccessor, Link
  <2>5. CutFixing(w, t, E, o, P, Q, H, D, s)
    BY <2>3, <2>4, CutIsFixing, Sides DEF H
  <2> HIDE DEF w, free, l, r, D
  <2>6. Fixing(w, F, o1, P1, Q1, H, D, t.up[s])
    BY <2>5 DEF CutFixing
  <2>7. Spans(w, F, o1, P1, Q1) /\ Heights(H)
    BY <2>6 DEF Fixing
  <2>8. IsRenamed(y, w, F, z, s) /\ y.n = w.n
    BY <2>3, <2>4, <2>7, HungIsRenamed
  <2>9. z \in D
    <3>1. z \in Over(E, Q, p)
      <4>1. s \in Over(E, Q, p)
        BY <2>4, SpansTypes, OverIsPath
      <4>2. /\ Q["l"][z] <= P[z] /\ P[z] <= Q["r"][z] /\ P[z] \in Int
            /\ Q["l"][z] \in Int /\ Q["r"][z] \in Int
        BY SpansAt, SpansTypes
      <4>3. /\ r \in E /\ Q["r"][r] = Q["r"][z] /\ P[z] + 1 <= Q["r"][r]
        <5>1. r \in E /\ Q["r"][r] = Q["r"][z] /\ Q["l"][r] = P[z] + 1
          BY <1>4, SpansAt DEF r
        <5>2. Q["l"][r] <= P[r] /\ P[r] <= Q["r"][r]
          BY <5>1, SpansAt
        <5>3. P[r] \in Int /\ Q["l"][r] \in Int /\ Q["r"][r] \in Int
          BY <1>2, <5>1, SpansTypes
        <5> QED
          BY <5>1, <5>2, <5>3
      <4>4. Q["l"][z] <= p /\ p <= Q["r"][z]
        BY <2>4, <4>2, <4>3
      <4> QED
        BY <4>4 DEF Over
    <3> QED
      BY <2>4, <3>1 DEF D
  <2>10. /\ P1 \in [Node -> Int] /\ Q1 \in [Side -> [Node -> Int]] /\ H \in [Link -> Nat] /\ H[Nil] = 0
    BY <2>7 DEF Spans, Numbered, Heights
  <2> HIDE DEF P1, Q1, o1
  <2>11. /\ A \in [Node -> Int] /\ Like(F, z, s, P1, A)
    <3>1. P1[z] \in Int /\ A \in [Node -> Int]
      BY <1>2, <2>10
    <3>2. \A x \in F : As(z, s)[x] = IF x = z THEN s ELSE x
      BY <1>2 DEF As, Link
    <3>3. \A x \in F : A[As(z, s)[x]] = P1[x]
      BY <1>2, <2>4, <2>10, <3>2
    <3> QED
      BY <3>1, <3>3 DEF Like
  <2>12. /\ B \in [Side -> [Node -> Int]] /\ \A d \in Side : Like(F, z, s, Q1[d], B[d])
    <3>1. \A d \in Side : Q1[d] \in [Node -> Int] /\ Q1[d][z] \in Int
      BY <1>2, <2>10
    <3>2. \A x \in F : As(z, s)[x] = IF x = z THEN s ELSE x
      BY <1>2 DEF As, Link
    <3>3. ASSUME NEW d \in Side, NEW x \in F PROVE B[d][As(z, s)[x]] = Q1[d][x]
      <4>1. B[d] = [Q1[d] EXCEPT ![s] = Q1[d][z]]
        OBVIOUS
      <4> HIDE DEF B
      <4> QED
        BY <1>2, <2>4, <3>1, <3>2, <4>1
    <3>4. B \in [Side -> [Node -> Int]]
      BY <3>1
    <3> HIDE DEF B
    <3> QED
      BY <3>3, <3>4 DEF Like
  <2>13. Heights(G) /\ Like(F, z, s, H, G)
    <3>1. H[z] \in Nat /\ G \in [Link -> Nat] /\ G[Nil] = 0
      <4>1. z \in Link
        BY <1>2 DEF Link
      <4> QED
        BY <2>4, <2>10, <4>1
    <3>2. \A x \in F : As(z, s)[x] = (IF x = z THEN s ELSE x) /\ x \in Link
      BY <1>2 DEF As, Link
    <3>3. \A x \in F : G[As(z, s)[x]] = H[x]
      BY <2>4, <2>10, <3>2
    <3> QED
      BY <3>1, <3>3 DEF Heights, Like
  <2> DEFINE o2 == [o1 EXCEPT ![P1[z]] = s]
             c == As(z, s)[t.up[s]]
  <2> HIDE DEF A, B, G, y
  <2>14. Fixing(y, Swap(F, z, s), o2, A, B, G, Swap(D, z, s), c)
    <3>1. o2 = [o1 EXCEPT ![P1[z]] = s] /\ c = As(z, s)[t.up[s]]
      OBVIOUS
    <3>2. s \in Node \ F
      BY <2>4
    <3> HIDE DEF o2, c, F
    <3>3. Fixing(y, Swap(F, z, s), o2, A, B, G, Swap(D, z, s), As(z, s)[t.up[s]])
      BY <2>6, <2>8, <2>9, <2>11, <2>12, <2>13, <3>1, <3>2, RenamedFixing
    <3> QED
      BY <3>1, <3>3
  <2>15. Swap(F, z, s) = E \ {z}
    BY <2>4 DEF Swap
  <2>16. P1[z] = P[z]
    <3>1. P[z] \in Int /\ z \in Node /\ ~(P[z] > P[z] + 1)
      BY <1>2, SpansTypes
    <3> QED
      BY <2>4, <3>1 DEF P1, PRemoved
  <2>17. o2 = O
    <3>1. [RemoveAt(o, P[s]) EXCEPT ![P[z]] = s] = RemoveAt(o, P[z])
      BY <1>2, <2>4, SuccessorMovesUp
    <3> QED
      BY <2>16, <3>1 DEF o1, O
  <2>18. FixFrom(t, s, r) = c /\ c \in Link
    <3>1. t.up[s] \in Link
      BY <1>2, <2>4
    <3>2. c = IF t.up[s] = z THEN s ELSE t.up[s]
      BY <3>1 DEF As
    <3> QED
      BY <2>4, <3>1, <3>2 DEF FixFrom
  <2> HIDE DEF o2, c
  <2>19. Sound(Fixup(y, c), Swap(F, z, s), o2) /\ Fixup(y, c).n = y.n
    BY <2>14, <2>18, FixupSound
  <2>20. u = Fixup(y, c)
    BY <2>1, <2>18
  <2> QED
    BY <2>3, <2>8, <2>15, <2>17, <2>19, <2>20 DEF u, O
<1> QED
  BY <1>3, <1>4

\* avl_erase takes one element out of a sound tree and leaves a sound one.
LEMMA ErasedSound ==
  ASSUME NEW t, NEW E, NEW o, Sound(t, E, o), t.n = Len(o), NEW i \in 1..Len(o)
  PROVE  /\ o[i] \in E /\ Sound(Erased(t, o[i]), E \ {o[i]}, RemoveAt(o, i))
         /\ Erased(t, o[i]).n = t.n - 1
<1> DEFINE z == o[i]
           u == Cut(t, z)
           w == Erased(t, z)
           O == RemoveAt(o, i)
<1>1. PICK P, Q : Spans(t, E, o, P, Q) /\ Counted(t, E, Q)
  BY DEF Sound
<1>2. Numbered(o, E, P) /\ Len(o) \in Nat
  BY <1>1, SpansTypes DEF Spans
<1>3. z \in E /\ P[z] = i
  BY <1>1, <1>2, SpansTypes DEF Numbered
<1> HIDE DEF z, O
<1>4. Sound(u, E \ {z}, O) /\ u.n = t.n
  <2>1. Sound(Cut(t, z), E \ {z}, RemoveAt(o, P[z])) /\ Cut(t, z).n = t.n
    BY <1>1, <1>3, CutSound
  <2> QED
    BY <1>3, <2>1 DEF O
<1>5. w = [u EXCEPT !.n = u.n - 1]
  BY DEF Erased
<1> HIDE DEF u, w
<1>6. PICK A, B : Spans(u, E \ {z}, O, A, B) /\ Counted(u, E \ {z}, B)
  BY <1>4 DEF Sound
<1>7. u \in Trees
  BY <1>6 DEF Spans
<1>8. /\ w \in Trees /\ w.n = t.n - 1 /\ w.root = u.root /\ w.kid = u.kid /\ w.up = u.up
      /\ w.size = u.size /\ w.height = u.height
  <2>1. u.n - 1 \in Nat
    BY <1>2, <1>4
  <2> QED
    BY <1>4, <1>5, <1>7, <2>1 DEF Trees
<1>9. Spans(w, E \ {z}, O, A, B)
  BY <1>6, <1>8, SameLinks
<1>10. Counted(w, E \ {z}, B)
  BY <1>6, <1>8 DEF Counted, Ht
<1>11. Sound(w, E \ {z}, O)
  BY <1>9, <1>10 DEF Sound
<1> QED
  BY <1>3, <1>8, <1>11 DEF w, O, z

-----------------------------------------------------------------------------
(* Slices of the order.                                                    *)

\* The elements of o that are in T are a slice, if they are those from i to j.
LEMMA OnlySlice ==
  ASSUME NEW X, NEW o \in Seq(X), NEW T, NEW i, NEW j, IsSlice(o, T, i, j)
  PROVE  Only(o, T) = SubSeq(o, i, j - 1)
<1> DEFINE n == Len(o)
           m(k) == IF k < j THEN k ELSE j - 1
           W(k) == SubSeq(o, i, m(k))
           Next1(g, k) == IF k = 0 THEN <<>>
                          ELSE IF o[k] \in T THEN Append(g[k - 1], o[k]) ELSE g[k - 1]
           w == [k \in 0..n |-> W(k)]
           g == CHOOSE u : u = [k \in 0..n |-> Next1(u, k)]
<1>1. n \in Nat /\ \A k \in 1..n : o[k] \in X
  BY LenProperties
<1>2. i \in 1..(n + 1) /\ j \in i..(n + 1) /\ \A k \in 1..n : o[k] \in T <=> i <= k /\ k < j
  BY DEF IsSlice
<1>3. W(0) = <<>>
  <2>1. m(0) \in Int /\ m(0) < i /\ i \in Int
    BY <1>1, <1>2
  <2> HIDE DEF m
  <2> QED
    BY <2>1, SubSeqEmpty
<1>4. ASSUME NEW k \in 1..n PROVE W(k) = IF o[k] \in T THEN Append(W(k - 1), o[k]) ELSE W(k - 1)
  <2>1. CASE i <= k /\ k < j
    <3>1. k - 1 \in (i - 1)..(n - 1) /\ (k - 1) + 1 = k /\ m(k) = k /\ m(k - 1) = k - 1
      BY <1>1, <1>2, <2>1
    <3>2. Append(SubSeq(o, i, k - 1), o[(k - 1) + 1]) = SubSeq(o, i, (k - 1) + 1)
      BY <1>2, <3>1, SliceGrows
    <3> HIDE DEF m
    <3> QED
      BY <1>2, <2>1, <3>1, <3>2
  <2>2. CASE k < i
    <3>1. m(k) \in Int /\ m(k - 1) \in Int /\ m(k) < i /\ m(k - 1) < i /\ i \in Int /\ ~(i <= k)
      BY <1>1, <1>2, <2>2
    <3> HIDE DEF m
    <3>2. W(k) = <<>> /\ W(k - 1) = <<>>
      BY <3>1, SubSeqEmpty
    <3> HIDE DEF W
    <3> QED
      BY <1>2, <3>1, <3>2
  <2>3. CASE ~(k < i) /\ ~(k < j)
    <3>1. m(k) = m(k - 1)
      BY <1>1, <1>2, <2>3
    <3> HIDE DEF m
    <3> QED
      BY <1>2, <2>3, <3>1
  <2> QED
    BY <1>1, <1>2, <2>1, <2>2, <2>3
<1>5. W(n) = SubSeq(o, i, j - 1)
  <2>1. m(n) = j - 1
    BY <1>1, <1>2
  <2> HIDE DEF m
  <2> QED
    BY <2>1
<1> HIDE DEF W
<1>6. w = [k \in 0..n |-> Next1(w, k)]
  <2>1. ASSUME NEW k \in 0..n PROVE w[k] = Next1(w, k)
    <3>1. CASE k = 0
      BY <1>3, <3>1
    <3>2. CASE k # 0
      <4>1. k \in 1..n /\ k - 1 \in 0..n
        BY <1>1, <3>2
      <4>2. w[k] = W(k) /\ w[k - 1] = W(k - 1)
        BY <4>1
      <4> HIDE DEF w
      <4> QED
        BY <1>4, <3>2, <4>1, <4>2
    <3> QED
      BY <3>1, <3>2
  <2>2. w = [k \in 0..n |-> w[k]]
    OBVIOUS
  <2> HIDE DEF w, Next1
  <2> QED
    BY <2>1, <2>2
<1>7. g = [k \in 0..n |-> Next1(g, k)]
  <2> HIDE DEF w, Next1
  <2> QED
    BY <1>6
<1>8. Only(o, T) = g[n]
  BY DEF Only
<1> HIDE DEF g, w
<1> DEFINE I == {k \in Nat : k <= n => g[k] = W(k)}
<1>9. 0 \in I
  <2>1. g[0] = <<>>
    <3>1. 0 \in 0..n /\ Next1(g, 0) = <<>>
      BY <1>1
    <3> HIDE DEF Next1
    <3> QED
      BY <1>7, <3>1
  <2> QED
    BY <1>3, <2>1
<1>10. ASSUME NEW k \in Nat, k \in I PROVE k + 1 \in I
  <2> SUFFICES ASSUME k + 1 <= n PROVE g[k + 1] = W(k + 1)
    OBVIOUS
  <2>1. k + 1 \in 1..n /\ k + 1 \in 0..n /\ (k + 1) - 1 = k /\ k + 1 # 0 /\ g[k] = W(k)
    BY <1>1, <1>10
  <2>2. g[k + 1] = Next1(g, k + 1)
    <3> HIDE DEF Next1
    <3> QED
      BY <1>7, <2>1
  <2>3. Next1(g, k + 1) = IF o[k + 1] \in T THEN Append(g[k], o[k + 1]) ELSE g[k]
    BY <2>1
  <2>4. W(k + 1) = IF o[k + 1] \in T THEN Append(W((k + 1) - 1), o[k + 1]) ELSE W((k + 1) - 1)
    BY <1>4, <2>1
  <2> HIDE DEF Next1
  <2> QED
    BY <2>1, <2>2, <2>3, <2>4
<1> HIDE DEF I
<1>11. n \in I
  BY <1>1, <1>9, <1>10, InductiveSet
<1>12. g[n] = W(n)
  <2>1. n \in {k \in Nat : k <= n => g[k] = W(k)} /\ n <= n
    BY <1>1, <1>11 DEF I
  <2> HIDE DEF n
  <2> QED
    BY <2>1
<1> QED
  BY <1>5, <1>8, <1>12

-----------------------------------------------------------------------------
(* The order is what a walk through the whole tree collects.               *)

\* g[d] is the order of every subtree, read d levels deep.
IsOrder(g, t) ==
  \A d \in 0..Rounds : \A b \in Link :
    g[d][b] = IF d = 0 \/ b = Nil THEN <<>>
              ELSE g[d - 1][t.kid["l"][b]] \o <<b>> \o g[d - 1][t.kid["r"][b]]

\* InOrder is the deepest such reading.
LEMMA InOrderUnrolls ==
  ASSUME NEW t \in Trees
  PROVE  \E g : IsOrder(g, t) /\ \A a \in Link : InOrder(t, a) = g[Rounds][a]
<1> DEFINE X == [Link -> Seq(Node)]
           Deeper(g) == [b \in Link |-> IF b = Nil THEN <<>>
                                        ELSE g[t.kid["l"][b]] \o <<b>> \o g[t.kid["r"][b]]]
           x == [b \in Link |-> <<>>]
           f == [z \in Nat \X X |-> Deeper(z[2])]
           Next1(g, d) == [b \in Link |-> IF d = 0 \/ b = Nil THEN <<>>
                            ELSE g[d - 1][t.kid["l"][b]] \o <<b>> \o g[d - 1][t.kid["r"][b]]]
<1>1. Rounds \in Nat /\ 0 \in Nat /\ 0 + Rounds = Rounds
  BY RoundsCount
<1>2. x \in X
  BY EmptySeq
<1>3. ASSUME NEW g \in X PROVE Deeper(g) \in X
  <2>1. ASSUME NEW b \in Link, b # Nil
        PROVE  g[t.kid["l"][b]] \o <<b>> \o g[t.kid["r"][b]] \in Seq(Node)
    <3> HIDE DEF Deeper, f, Next1, x
    <3>1. b \in Node /\ t.kid["l"][b] \in Link /\ t.kid["r"][b] \in Link
      BY <2>1, TreeFields, Sides DEF Link
    <3>2. g[t.kid["l"][b]] \in Seq(Node) /\ <<b>> \in Seq(Node) /\ g[t.kid["r"][b]] \in Seq(Node)
      BY <3>1
    <3>3. g[t.kid["l"][b]] \o <<b>> \in Seq(Node)
      BY <3>2, ConcatProperties
    <3> QED
      BY <3>2, <3>3, ConcatProperties
  <2>2. <<>> \in Seq(Node)
    BY EmptySeq
  <2> QED
    BY <2>1, <2>2
<1> HIDE DEF x
<1>4. f \in [Nat \X X -> X] /\ \A i \in Nat : \A g \in X : f[<<i, g>>] = Deeper(g)
  <2> HIDE DEF X, Deeper
  <2> QED
    BY <1>3
<1> HIDE DEF f
<1>5. PICK g : IsIteration(g, X, x, 0, Rounds, f)
  <2> HIDE DEF X
  <2> QED
    BY <1>1, <1>2, <1>4, Iterated
<1>6. \A d \in 0..Rounds : g[d] \in X /\ g[d] = IF d = 0 THEN x ELSE f[<<d, g[d - 1]>>]
  <2> HIDE DEF X
  <2> QED
    BY <1>1, <1>5 DEF IsIteration
<1>7. ASSUME NEW d \in 0..Rounds PROVE g[d] = Next1(g, d)
  <2>1. CASE d = 0
    BY <1>6, <2>1 DEF x
  <2>2. CASE d # 0
    <3>1. d - 1 \in 0..Rounds /\ d \in Nat
      BY <1>1, <2>2
    <3>2. g[d] = Deeper(g[d - 1])
      <4> HIDE DEF X, Deeper
      <4> QED
        BY <1>4, <1>6, <2>2, <3>1
    <3> QED
      BY <2>2, <3>2
  <2> QED
    BY <2>1, <2>2
<1> DEFINE h == CHOOSE u : u = [d \in 0..Rounds |-> Next1(u, d)]
           v == [d \in 0..Rounds |-> g[d]]
<1>8. v = [d \in 0..Rounds |-> Next1(v, d)]
  <2>1. ASSUME NEW d \in 0..Rounds PROVE Next1(v, d) = Next1(g, d)
    <3>1. CASE d = 0
      BY <3>1
    <3>2. CASE d # 0
      <4>1. d - 1 \in 0..Rounds
        BY <1>1, <3>2
      <4>2. v[d - 1] = g[d - 1]
        BY <4>1
      <4> HIDE DEF v
      <4> QED
        BY <4>2
    <3> QED
      BY <3>1, <3>2
  <2> HIDE DEF Next1
  <2> QED
    BY <1>7, <2>1
<1>9. h = [d \in 0..Rounds |-> Next1(h, d)]
  <2> HIDE DEF v, Next1
  <2> QED
    BY <1>8
<1>10. \A a \in Link : InOrder(t, a) = h[Rounds][a]
  BY DEF InOrder
<1> HIDE DEF h
<1>11. \A d \in 0..Rounds : h[d] = Next1(h, d)
  <2> HIDE DEF Next1
  <2> QED
    BY <1>9
<1>12. IsOrder(h, t)
  BY <1>11 DEF IsOrder
<1> QED
  BY <1>10, <1>12

\* A subtree in order is the slice of o that it spans.
LEMMA InOrderIsSlice ==
  ASSUME NEW t, NEW E, NEW o, NEW P, NEW Q, Spans(t, E, o, P, Q)
  PROVE  \A a \in E : InOrder(t, a) = SubSeq(o, Q["l"][a], Q["r"][a])
<1> DEFINE Part(a) == SubSeq(o, Q["l"][a], Q["r"][a])
<1>1. /\ t \in Trees /\ Numbered(o, E, P) /\ o \in Seq(E) /\ Rounds \in Nat /\ Nil \notin E
      /\ E \subseteq Link /\ Nil \in Link
  <2>1. t \in Trees /\ Numbered(o, E, P) /\ o \in Seq(E)
    BY DEF Spans, Numbered
  <2>2. Nil \notin E /\ \A a \in E : a \in Link
    BY SpansTypes
  <2> QED
    BY <2>1, <2>2, RoundsCount DEF Link
<1>2. PICK g : IsOrder(g, t) /\ \A a \in Link : InOrder(t, a) = g[Rounds][a]
  BY <1>1, InOrderUnrolls
<1> DEFINE T == {d \in Nat : d <= Rounds => \A a \in E : Width(Q, a) <= d => g[d][a] = Part(a)}
<1>3. 0 \in T
  <2>1. \A a \in E : 1 <= Width(Q, a) /\ Width(Q, a) \in Nat
    BY Widths
  <2> QED
    BY <2>1
<1>4. ASSUME NEW d \in Nat, d \in T PROVE d + 1 \in T
  <2> SUFFICES ASSUME d + 1 <= Rounds, NEW a \in E, Width(Q, a) <= d + 1
               PROVE  g[d + 1][a] = Part(a)
    OBVIOUS
  <2>1. /\ d \in 0..Rounds /\ d + 1 \in 0..Rounds /\ (d + 1) - 1 = d /\ d + 1 # 0
        /\ \A b \in E : Width(Q, b) <= d => g[d][b] = Part(b)
    BY <1>1, <1>4
  <2>2. a \in Link /\ a # Nil
    BY <1>1
  <2> DEFINE l == t.kid["l"][a]
             r == t.kid["r"][a]
  <2>3. g[d + 1][a] = g[d][l] \o <<a>> \o g[d][r]
    BY <1>2, <2>1, <2>2 DEF IsOrder
  <2>4. g[d][Nil] = <<>>
    BY <1>1, <1>2, <2>1 DEF IsOrder
  <2>5. /\ l \in E \cup {Nil} /\ r \in E \cup {Nil} /\ o[P[a]] = a
        /\ P[a] \in Int /\ Q["l"][a] \in Int /\ Q["r"][a] \in Int /\ Len(o) \in Nat
        /\ 1 <= Q["l"][a] /\ Q["l"][a] <= P[a] /\ P[a] <= Q["r"][a] /\ Q["r"][a] <= Len(o)
    BY <1>1, <2>2, SpansTypes, SpansAt DEF Numbered
  <2>6. l = Nil => Q["l"][a] = P[a]
    BY SpansAt
  <2>7. r = Nil => Q["r"][a] = P[a]
    BY SpansAt
  <2>8. l # Nil => l \in E /\ Q["l"][l] = Q["l"][a] /\ Q["r"][l] = P[a] - 1
    BY SpansAt
  <2>9. r # Nil => r \in E /\ Q["r"][r] = Q["r"][a] /\ Q["l"][r] = P[a] + 1
    BY SpansAt
  <2>10. (l # Nil => Width(Q, l) <= d) /\ (r # Nil => Width(Q, r) <= d)
    <3>1. /\ Width(Q, l) < Width(Q, a) /\ Width(Q, r) < Width(Q, a)
          /\ Width(Q, l) \in Nat /\ Width(Q, r) \in Nat /\ Width(Q, a) \in Nat
      BY <2>5, Widths, Sides
    <3> HIDE DEF l, r
    <3> QED
      BY <2>1, <3>1
  <2> HIDE DEF l, r
  <2>11. g[d][l] = SubSeq(o, Q["l"][a], P[a] - 1)
    <3>1. CASE l = Nil
      <4>1. P[a] - 1 \in Int /\ P[a] - 1 < Q["l"][a]
        BY <2>5, <2>6, <3>1
      <4> QED
        BY <2>4, <2>5, <3>1, <4>1, SubSeqEmpty
    <3>2. CASE l # Nil
      BY <2>1, <2>8, <2>10, <3>2
    <3> QED
      BY <3>1, <3>2
  <2>12. g[d][r] = SubSeq(o, P[a] + 1, Q["r"][a])
    <3>1. CASE r = Nil
      <4>1. P[a] + 1 \in Int /\ Q["r"][a] < P[a] + 1
        BY <2>5, <2>7, <3>1
      <4> QED
        BY <2>4, <2>5, <3>1, <4>1, SubSeqEmpty
    <3>2. CASE r # Nil
      BY <2>1, <2>9, <2>10, <3>2
    <3> QED
      BY <3>1, <3>2
  <2>13. Q["l"][a] \in 1..Len(o) /\ P[a] \in (Q["l"][a])..Len(o) /\ Q["r"][a] \in (P[a])..Len(o)
    BY <2>5
  <2>14. SubSeq(o, Q["l"][a], P[a] - 1) \o << o[P[a]] >> \o SubSeq(o, P[a] + 1, Q["r"][a]) = Part(a)
    BY <1>1, <2>13, SliceJoins
  <2> QED
    BY <2>3, <2>5, <2>11, <2>12, <2>14
<1>5. Rounds \in {d \in Nat : d <= Rounds => \A a \in E : Width(Q, a) <= d => g[d][a] = Part(a)}
  <2>1. Rounds \in T
    <3> HIDE DEF T
    <3> QED
      BY <1>1, <1>3, <1>4, InductiveSet
  <2> QED
    BY <2>1
<1> HIDE DEF T
<1>6. \A a \in E : Width(Q, a) <= Rounds
  <2>1. \A a \in E : Width(Q, a) \in Nat /\ Width(Q, a) <= Len(o)
    BY Widths
  <2>2. Len(o) \in Nat /\ Len(o) <= Rounds
    BY <1>1, OrderFits
  <2> QED
    BY <1>1, <2>1, <2>2
<1>7. \A a \in E : g[Rounds][a] = Part(a)
  BY <1>1, <1>5, <1>6
<1> QED
  BY <1>1, <1>2, <1>7

\* In particular the whole tree has the order that Sound says.
LEMMA OrderOfTree ==
  ASSUME NEW t, NEW E, NEW o, Sound(t, E, o)
  PROVE  InOrder(t, t.root) = o
<1>1. PICK P, Q : Spans(t, E, o, P, Q)
  BY DEF Sound
<1>2. t \in Trees /\ o \in Seq(E)
  BY <1>1 DEF Spans, Numbered
<1>3. CASE t.root = Nil
  <2>1. E = {}
    BY <1>1, <1>3 DEF Spans
  <2>2. o = <<>>
    BY <1>2, <2>1, LenProperties, EmptySeq
  <2>3. PICK g : IsOrder(g, t) /\ \A a \in Link : InOrder(t, a) = g[Rounds][a]
    BY <1>2, InOrderUnrolls
  <2>4. Nil \in Link /\ Rounds \in 0..Rounds
    BY RoundsCount DEF Link
  <2> QED
    BY <1>3, <2>2, <2>3, <2>4 DEF IsOrder
<1>4. CASE t.root # Nil
  <2>1. t.root \in E /\ Q["l"][t.root] = 1 /\ Q["r"][t.root] = Len(o)
    BY <1>1, <1>4, RootSpans
  <2>2. \A a \in E : InOrder(t, a) = SubSeq(o, Q["l"][a], Q["r"][a])
    BY <1>1, InOrderIsSlice
  <2>3. InOrder(t, t.root) = SubSeq(o, 1, Len(o))
    BY <2>1, <2>2
  <2> QED
    BY <1>2, <2>3, SubSeqFull
<1> QED
  BY <1>3, <1>4

-----------------------------------------------------------------------------
(* Lookups: each answers with the element at a position of the order.      *)

\* The element at position i, or end().
At(o, i) == IF i \in 1..Len(o) THEN o[i] ELSE Nil

\* At undoes positions.
LEMMA AtPlace ==
  ASSUME NEW o, NEW E, NEW P, Numbered(o, E, P), NEW x \in E
  PROVE  At(o, P[x]) = x /\ P[x] \in 1..Len(o)
BY DEF Numbered, At

\* Two positions up to end() that have the same element are the same.
LEMMA AtOnce ==
  ASSUME NEW o, NEW E, NEW P, Numbered(o, E, P),
         NEW i \in 1..(Len(o) + 1), NEW j \in 1..(Len(o) + 1), At(o, i) = At(o, j)
  PROVE  i = j
<1>1. /\ Len(o) \in Nat /\ \A k \in 1..Len(o) : o[k] \in E /\ P[o[k]] = k
  BY LenProperties DEF Numbered
<1>2. Nil \notin E
  BY OrderedAssumption DEF Numbered
<1>3. CASE i \in 1..Len(o) /\ j \in 1..Len(o)
  BY <1>1, <1>3 DEF At
<1>4. CASE i \in 1..Len(o) /\ j \notin 1..Len(o)
  BY <1>1, <1>2, <1>4 DEF At
<1>5. CASE i \notin 1..Len(o) /\ j \in 1..Len(o)
  BY <1>1, <1>2, <1>5 DEF At
<1>6. CASE i \notin 1..Len(o) /\ j \notin 1..Len(o)
  BY <1>1, <1>6
<1> QED
  BY <1>3, <1>4, <1>5, <1>6

\* A loop whose condition is false does nothing.
LEMMA LoopStays ==
  ASSUME NEW f, NEW x \in DOMAIN f, f[x] = x
  PROVE  Loop(f, x) = x
<1> DEFINE J == {x}
           m == [y \in J |-> 0]
<1>1. J \in SUBSET DOMAIN f /\ m \in [J -> Nat] /\ x \in J /\ m[x] <= Rounds
  BY RoundsCount
<1>2. \A y \in J : f[y] \in J /\ (f[y] = y \/ m[f[y]] < m[y])
  OBVIOUS
<1>3. Loop(f, x) \in J
  <2> HIDE DEF J, m
  <2> QED
    BY <1>1, <1>2, LoopEnds
<1> QED
  BY <1>3

\* begin() is the first element.
LEMMA BeginFound ==
  ASSUME NEW t, NEW E, NEW o, NEW P, NEW Q, Spans(t, E, o, P, Q)
  PROVE  Begin(t) = At(o, 1)
<1>1. Numbered(o, E, P) /\ "l" \in Side
  BY Sides DEF Spans
<1>2. Len(o) \in Nat /\ \A i \in 1..Len(o) : o[i] \in E
  BY SpansTypes
<1>3. CASE t.root = Nil
  <2> DEFINE f == [b \in Link |-> IF b = Nil \/ t.kid["l"][b] = Nil THEN b ELSE t.kid["l"][b]]
  <2>1. Nil \in DOMAIN f /\ f[Nil] = Nil
    BY DEF Link
  <2>2. Begin(t) = Loop(f, Nil)
    BY <1>3 DEF Begin, Most
  <2> HIDE DEF f
  <2>3. Begin(t) = Nil
    BY <2>1, <2>2, LoopStays
  <2>4. E = {}
    BY <1>3 DEF Spans
  <2>5. ~(1 \in 1..Len(o))
    BY <1>2, <2>4
  <2> QED
    BY <2>3, <2>5 DEF At
<1>4. CASE t.root # Nil
  <2> DEFINE b == Most(t, t.root, "l")
  <2>1. t.root \in E /\ Q["l"][t.root] = 1
    BY <1>4, RootSpans
  <2>2. b \in E /\ P[b] = 1
    BY <1>1, <2>1, MostFound
  <2>3. Begin(t) = b
    BY DEF Begin
  <2> HIDE DEF b
  <2> QED
    BY <1>1, <2>2, <2>3, AtPlace
<1> QED
  BY <1>3, <1>4

\* Climbing from a ends at the neighbour of a's span on that side.
LEMMA ClimbFound ==
  ASSUME NEW t, NEW E, NEW o, NEW P, NEW Q, Spans(t, E, o, P, Q), NEW a \in E, NEW s \in Side
  PROVE  Climb(t, a, s) = At(o, Q[s][a] + Toward(s))
<1> DEFINE f == [b \in Node |-> IF t.up[b] # Nil /\ b = t.kid[s][t.up[b]] THEN t.up[b] ELSE b]
           J == {b \in E : Q[s][b] = Q[s][a]}
           w == [b \in J |-> Len(o) - Width(Q, b)]
           z == Loop(f, a)
<1>1. Climb(t, a, s) = t.up[z]
  BY DEF Climb
<1>2. Numbered(o, E, P)
  BY DEF Spans
<1>3. Nil \notin E /\ \A b \in E : b \in Node
  BY SpansTypes
<1>4. Len(o) \in Nat /\ Len(o) <= Rounds /\ Rounds \in Nat
  BY <1>2, OrderFits, RoundsCount
<1>5. /\ DOMAIN f = Node
      /\ \A b \in E : f[b] = IF t.up[b] # Nil /\ b = t.kid[s][t.up[b]] THEN t.up[b] ELSE b
  BY <1>3
<1> HIDE DEF f
<1>6. \A b \in E : Width(Q, b) \in Nat /\ Width(Q, b) <= Len(o)
  BY Widths
<1>7. J \in SUBSET DOMAIN f /\ w \in [J -> Nat] /\ \A b \in J : w[b] <= Rounds
  <2>1. \A b \in E : Len(o) - Width(Q, b) \in Nat /\ Len(o) - Width(Q, b) <= Rounds
    BY <1>4, <1>6
  <2> QED
    BY <1>3, <1>5, <2>1
<1>8. a \in J
  OBVIOUS
<1>9. ASSUME NEW b \in E, t.up[b] # Nil, b = t.kid[s][t.up[b]]
      PROVE  /\ t.up[b] \in E /\ Q[s][t.up[b]] = Q[s][b]
             /\ Len(o) - Width(Q, t.up[b]) < Len(o) - Width(Q, b)
  <2>1. t.up[b] \in E
    BY <1>9, SpansAt
  <2>2. Q[s][t.up[b]] = Q[s][b]
    BY <1>3, <1>9, <2>1, SpansAt DEF Side
  <2>3. Width(Q, b) < Width(Q, t.up[b]) /\ Width(Q, b) \in Nat /\ Width(Q, t.up[b]) \in Nat
    BY <1>6, <1>9, <2>1, Widths
  <2> QED
    BY <1>4, <2>1, <2>2, <2>3
<1>10. \A b \in J : f[b] \in J /\ (f[b] = b \/ w[f[b]] < w[b])
  <2> SUFFICES ASSUME NEW b \in J PROVE f[b] \in J /\ (f[b] = b \/ w[f[b]] < w[b])
    OBVIOUS
  <2>1. CASE ~(t.up[b] # Nil /\ b = t.kid[s][t.up[b]])
    BY <1>5, <2>1
  <2>2. CASE t.up[b] # Nil /\ b = t.kid[s][t.up[b]]
    <3>1. b \in E /\ Q[s][b] = Q[s][a] /\ f[b] = t.up[b]
      BY <1>5, <2>2
    <3> QED
      BY <1>9, <2>2, <3>1
  <2> QED
    BY <2>1, <2>2
<1>11. z \in J /\ f[z] = z
  <2> HIDE DEF J, w
  <2> QED
    BY <1>7, <1>8, <1>10, LoopEnds
<1> HIDE DEF z
<1>12. z \in E /\ Q[s][z] = Q[s][a]
  BY <1>11
<1>13. ~(t.up[z] # Nil /\ z = t.kid[s][t.up[z]])
  <2> SUFFICES ASSUME t.up[z] # Nil, z = t.kid[s][t.up[z]] PROVE FALSE
    OBVIOUS
  <2>1. f[z] = t.up[z]
    BY <1>5, <1>12
  <2>2. Len(o) - Width(Q, z) < Len(o) - Width(Q, z) /\ Width(Q, z) \in Nat
    BY <1>6, <1>9, <1>11, <1>12, <2>1
  <2> QED
    BY <1>4, <2>2
<1>14. CASE t.up[z] = Nil
  <2>1. Q["l"][z] = 1 /\ Q["r"][z] = Len(o)
    BY <1>12, <1>14, SpansAt
  <2>2. ~(Q[s][z] + Toward(s) \in 1..Len(o))
    <3>1. CASE s = "l"
      BY <2>1, <3>1 DEF Toward
    <3>2. CASE s = "r"
      BY <1>4, <2>1, <3>2 DEF Toward
    <3> QED
      BY <3>1, <3>2 DEF Side
  <2> QED
    BY <1>1, <1>12, <1>14, <2>2 DEF At
<1>15. CASE t.up[z] # Nil
  <2> DEFINE c == t.up[z]
  <2>1. c \in E /\ (t.kid["l"][c] = z \/ t.kid["r"][c] = z) /\ z # Nil
    BY <1>3, <1>12, <1>15, SpansAt
  <2>2. P[c] \in Int
    BY <2>1, SpansTypes
  <2>3. P[c] = Q[s][z] + Toward(s)
    <3>1. CASE s = "l"
      <4>1. t.kid["r"][c] = z
        BY <1>13, <1>15, <2>1, <3>1
      <4>2. Q["l"][z] = P[c] + 1
        BY <2>1, <4>1, SpansAt
      <4> HIDE DEF c
      <4> QED
        BY <2>2, <3>1, <4>2 DEF Toward
    <3>2. CASE s = "r"
      <4>1. t.kid["l"][c] = z
        BY <1>13, <1>15, <2>1, <3>2
      <4>2. Q["r"][z] = P[c] - 1
        BY <2>1, <4>1, SpansAt
      <4> HIDE DEF c
      <4> QED
        BY <2>2, <3>2, <4>2 DEF Toward
    <3> QED
      BY <3>1, <3>2 DEF Side
  <2>4. At(o, P[c]) = c
    <3> HIDE DEF c
    <3> QED
      BY <1>2, <2>1, AtPlace
  <2> QED
    BY <1>1, <1>12, <2>3, <2>4
<1> QED
  BY <1>14, <1>15

\* ++ and -- go to the next position on either side.
LEMMA StepFound ==
  ASSUME NEW t, NEW E, NEW o, NEW P, NEW Q, Spans(t, E, o, P, Q), NEW a \in E, NEW s \in Side
  PROVE  Step(t, a, s) = At(o, P[a] + Toward(s))
<1>1. Numbered(o, E, P) /\ Other(s) \in Side
  BY Sides DEF Spans
<1>2. CASE t.kid[s][a] # Nil
  <2> DEFINE c == t.kid[s][a]
             b == Most(t, c, Other(s))
  <2>1. c \in E /\ Q[Other(s)][c] = P[a] + Toward(s)
    <3>1. Below(t, E, P, Q, a)
      BY DEF Spans
    <3> QED
      BY <1>2, <3>1 DEF Below
  <2> HIDE DEF c
  <2>2. b \in E /\ P[b] = Q[Other(s)][c]
    BY <1>1, <2>1, MostFound
  <2>3. Step(t, a, s) = b
    BY <1>2 DEF Step, c
  <2> HIDE DEF b
  <2> QED
    BY <1>1, <2>1, <2>2, <2>3, AtPlace
<1>3. CASE t.kid[s][a] = Nil
  <2>1. Q[s][a] = P[a]
    BY <1>3, SpansAt DEF Side
  <2>2. Step(t, a, s) = Climb(t, a, s)
    BY <1>3 DEF Step
  <2> QED
    BY <2>1, <2>2, ClimbFound
<1> QED
  BY <1>2, <1>3

\* lb and ub: the descent keeps the answer between the cursor's subtree and its best find.
Between(w, o, E, Q, p) ==
  /\ w[1] \in E \cup {Nil}
  /\ IF w[1] = Nil THEN w[2] = At(o, p)
     ELSE /\ Q["l"][w[1]] <= p /\ p <= Q["r"][w[1]] + 1
          /\ w[2] = At(o, Q["r"][w[1]] + 1)

\* A bound is the element at which stop begins to hold.
LEMMA BoundFound ==
  ASSUME NEW t, NEW E, NEW o, NEW P, NEW Q, Spans(t, E, o, P, Q),
         NEW stop, NEW p, Cuts(o, stop, p)
  PROVE  Bound(t, stop) = At(o, p)
<1> DEFINE f == [w \in Link \X Link |->
                   IF w[1] = Nil THEN w
                   ELSE IF w[1] \in stop THEN <<t.kid["l"][w[1]], w[1]>>
                   ELSE <<t.kid["r"][w[1]], w[2]>>]
           J == {w \in Link \X Link : Between(w, o, E, Q, p)}
           m == [w \in J |-> Width(Q, w[1])]
           z == Loop(f, <<t.root, Nil>>)
<1>1. Bound(t, stop) = z[2]
  BY DEF Bound
<1>2. /\ Numbered(o, E, P) /\ Nil \notin E /\ E \subseteq Link /\ Nil \in Link
      /\ Len(o) \in Nat /\ Len(o) <= Rounds /\ Rounds \in Nat
      /\ p \in 1..(Len(o) + 1) /\ \A i \in 1..Len(o) : o[i] \in E
  <2>1. Numbered(o, E, P)
    BY DEF Spans
  <2>2. Nil \notin E /\ (\A b \in E : b \in Link) /\ \A i \in 1..Len(o) : o[i] \in E
    BY SpansTypes
  <2>3. Len(o) \in Nat /\ Len(o) <= Rounds /\ Rounds \in Nat
    BY <2>1, OrderFits, RoundsCount
  <2>4. p \in 1..(Len(o) + 1)
    BY DEF Cuts
  <2>5. E \subseteq Link /\ Nil \in Link
    BY <2>2 DEF Link
  <2> QED
    BY <2>1, <2>2, <2>3, <2>4, <2>5
<1>3. DOMAIN f = Link \X Link
  OBVIOUS
<1>4. \A a, b \in Link : f[<<a, b>>] = IF a = Nil THEN <<a, b>>
                                       ELSE IF a \in stop THEN <<t.kid["l"][a], a>>
                                       ELSE <<t.kid["r"][a], b>>
  OBVIOUS
<1> HIDE DEF f
<1>5. \A i : At(o, i) \in Link
  BY <1>2 DEF At
<1>6. \A a \in E \cup {Nil} : Width(Q, a) \in Nat /\ Width(Q, a) <= Len(o)
  BY Widths
<1>7. J \in SUBSET DOMAIN f /\ m \in [J -> Nat] /\ \A w \in J : m[w] <= Rounds
  <2>1. \A w \in J : w[1] \in E \cup {Nil}
    BY DEF Between
  <2>2. \A w \in J : Width(Q, w[1]) \in Nat /\ Width(Q, w[1]) <= Rounds
    <3> HIDE DEF J
    <3>1. \A a \in E \cup {Nil} : Width(Q, a) \in Nat /\ Width(Q, a) <= Rounds
      BY <1>2, <1>6
    <3> QED
      BY <2>1, <3>1
  <2> QED
    BY <1>3, <2>2
<1>8. <<t.root, Nil>> \in J
  <2>1. CASE t.root = Nil
    <3>1. E = {}
      BY <2>1 DEF Spans
    <3>2. p \notin 1..Len(o)
      BY <1>2, <3>1
    <3> QED
      BY <1>2, <2>1, <3>2 DEF Between, At
  <2>2. CASE t.root # Nil
    <3>1. t.root \in E /\ Q["l"][t.root] = 1 /\ Q["r"][t.root] = Len(o)
      BY <2>2, RootSpans
    <3>2. Len(o) + 1 \notin 1..Len(o)
      BY <1>2
    <3> QED
      BY <1>2, <2>2, <3>1, <3>2 DEF Between, At
  <2> QED
    BY <2>1, <2>2
<1>9. ASSUME NEW a \in E, NEW b \in Link, Between(<<a, b>>, o, E, Q, p)
      PROVE  /\ a \in stop => /\ Between(<<t.kid["l"][a], a>>, o, E, Q, p)
                              /\ t.kid["l"][a] \in Link
             /\ a \notin stop => /\ Between(<<t.kid["r"][a], b>>, o, E, Q, p)
                                 /\ t.kid["r"][a] \in Link
  <2>1. /\ a # Nil /\ Q["l"][a] <= p /\ p <= Q["r"][a] + 1 /\ b = At(o, Q["r"][a] + 1)
        /\ p \in Int /\ P[a] \in Int /\ Q["l"][a] \in Int /\ Q["r"][a] \in Int
    <3>1. a # Nil
      BY <1>2
    <3>2. Q["l"][a] <= p /\ p <= Q["r"][a] + 1 /\ b = At(o, Q["r"][a] + 1)
      BY <1>9, <3>1 DEF Between
    <3>3. P[a] \in Int /\ Q["l"][a] \in Int /\ Q["r"][a] \in Int
      BY SpansTypes
    <3> QED
      BY <1>2, <3>1, <3>2, <3>3
  <2>2. a \in stop <=> P[a] >= p
    BY <1>2, CutAt
  <2>3. t.kid["l"][a] \in E \cup {Nil} /\ t.kid["r"][a] \in E \cup {Nil}
    BY SpansTypes
  <2>4. ASSUME a \in stop PROVE Between(<<t.kid["l"][a], a>>, o, E, Q, p)
    <3> DEFINE c == t.kid["l"][a]
    <3>1. At(o, P[a]) = a
      BY <1>2, AtPlace
    <3>2. CASE c = Nil
      <4>1. Q["l"][a] = P[a]
        BY <3>2, SpansAt
      <4>2. p = P[a]
        BY <2>1, <2>2, <2>4, <4>1
      <4> QED
        BY <3>1, <3>2, <4>2 DEF Between
    <3>3. CASE c # Nil
      <4>1. c \in E /\ Q["l"][c] = Q["l"][a] /\ Q["r"][c] = P[a] - 1
        BY <3>3, SpansAt
      <4> HIDE DEF c
      <4>2. Q["l"][c] <= p /\ p <= Q["r"][c] + 1 /\ Q["r"][c] + 1 = P[a]
        BY <2>1, <2>2, <2>4, <4>1
      <4>3. Between(<<c, a>>, o, E, Q, p)
        BY <3>1, <3>3, <4>1, <4>2 DEF Between
      <4> QED
        BY <4>3 DEF c
    <3> QED
      BY <3>2, <3>3
  <2>5. ASSUME a \notin stop PROVE Between(<<t.kid["r"][a], b>>, o, E, Q, p)
    <3> DEFINE c == t.kid["r"][a]
    <3>1. P[a] < p
      BY <2>1, <2>2, <2>5
    <3>2. CASE c = Nil
      <4>1. Q["r"][a] = P[a]
        BY <3>2, SpansAt
      <4>2. p = Q["r"][a] + 1
        BY <2>1, <3>1, <4>1
      <4> QED
        BY <2>1, <3>2, <4>2 DEF Between
    <3>3. CASE c # Nil
      <4>1. c \in E /\ Q["r"][c] = Q["r"][a] /\ Q["l"][c] = P[a] + 1
        BY <3>3, SpansAt
      <4> HIDE DEF c
      <4>2. Q["l"][c] <= p /\ p <= Q["r"][c] + 1
        BY <2>1, <3>1, <4>1
      <4>3. Between(<<c, b>>, o, E, Q, p)
        BY <2>1, <3>3, <4>1, <4>2 DEF Between
      <4> QED
        BY <4>3 DEF c
    <3> QED
      BY <3>2, <3>3
  <2>6. t.kid["l"][a] \in Link /\ t.kid["r"][a] \in Link
    BY <1>2, <2>3
  <2> QED
    BY <2>4, <2>5, <2>6
<1>10. ASSUME NEW a \in Link, NEW b \in Link, <<a, b>> \in J, a # Nil
       PROVE  /\ f[<<a, b>>] \in J
              /\ Width(Q, f[<<a, b>>][1]) < Width(Q, a)
  <2>1. a \in E /\ Between(<<a, b>>, o, E, Q, p)
    BY <1>10 DEF Between
  <2>2. /\ Width(Q, t.kid["l"][a]) < Width(Q, a)
        /\ Width(Q, t.kid["r"][a]) < Width(Q, a)
    BY <2>1, Widths, Sides
  <2>3. CASE a \in stop
    <3>1. f[<<a, b>>] = <<t.kid["l"][a], a>>
      BY <1>4, <1>10, <2>3
    <3>2. Between(<<t.kid["l"][a], a>>, o, E, Q, p) /\ t.kid["l"][a] \in Link
      BY <1>9, <2>1, <2>3
    <3> QED
      BY <2>2, <3>1, <3>2
  <2>4. CASE a \notin stop
    <3>1. f[<<a, b>>] = <<t.kid["r"][a], b>>
      BY <1>4, <1>10, <2>4
    <3>2. Between(<<t.kid["r"][a], b>>, o, E, Q, p) /\ t.kid["r"][a] \in Link
      BY <1>9, <2>1, <2>4
    <3> QED
      BY <2>2, <3>1, <3>2
  <2> QED
    BY <2>3, <2>4
<1>11. \A w \in J : w[1] \in Link /\ w[2] \in Link /\ w = <<w[1], w[2]>>
  OBVIOUS
<1>12. ASSUME NEW w \in J PROVE f[w] \in J /\ (f[w] = w \/ Width(Q, f[w][1]) < Width(Q, w[1]))
  <2>1. w[1] \in Link /\ w[2] \in Link /\ w = <<w[1], w[2]>>
    BY <1>11
  <2>2. CASE w[1] = Nil
    <3>1. f[w] = w
      BY <1>4, <2>1, <2>2
    <3> QED
      BY <3>1
  <2>3. CASE w[1] # Nil
    <3> HIDE DEF J
    <3>1. /\ f[<<w[1], w[2]>>] \in J
          /\ Width(Q, f[<<w[1], w[2]>>][1]) < Width(Q, w[1])
      BY <1>10, <1>12, <2>1, <2>3
    <3> QED
      BY <2>1, <3>1
  <2> QED
    BY <2>2, <2>3
<1>13. \A w \in J : m[w] = Width(Q, w[1])
  OBVIOUS
<1> HIDE DEF J, m
<1>14. \A w \in J : f[w] \in J /\ (f[w] = w \/ m[f[w]] < m[w])
  BY <1>12, <1>13
<1>15. z \in J /\ f[z] = z
  BY <1>7, <1>8, <1>14, LoopEnds
<1> HIDE DEF z
<1>16. z[1] = Nil
  <2> SUFFICES ASSUME z[1] # Nil PROVE FALSE
    OBVIOUS
  <2>1. z[1] \in Link /\ z[2] \in Link /\ z = <<z[1], z[2]>>
    BY <1>11, <1>15
  <2>2. Width(Q, f[<<z[1], z[2]>>][1]) < Width(Q, z[1])
    BY <1>10, <1>15, <2>1
  <2>3. Width(Q, z[1]) < Width(Q, z[1])
    BY <1>15, <2>1, <2>2
  <2>4. Width(Q, z[1]) \in Nat
    <3>1. z[1] \in E \cup {Nil}
      BY <1>15 DEF J, Between
    <3> QED
      BY <1>6, <3>1
  <2> QED
    BY <2>3, <2>4
<1>17. z[2] = At(o, p)
  BY <1>15, <1>16 DEF J, Between
<1> QED
  BY <1>1, <1>17

\* What the counts say of the elements before one in its subtree.
LEMMA CountsBefore ==
  ASSUME NEW t, NEW E, NEW o, NEW P, NEW Q, Spans(t, E, o, P, Q), Counted(t, E, Q), NEW a \in E
  PROVE  S(t, t.kid["l"][a]) = P[a] - Q["l"][a]
<1>1. Width(Q, t.kid["l"][a]) = P[a] - Q["l"][a]
  BY Widths
<1>2. t.kid["l"][a] \in E \cup {Nil} /\ Nil \notin E
  BY SpansTypes
<1>3. S(t, t.kid["l"][a]) = Width(Q, t.kid["l"][a])
  BY <1>2 DEF S, Width, Counted
<1> QED
  BY <1>1, <1>3

\* nth: the position i + 1 lies in the cursor's subtree, w[2] places from its start, unless
\* there is no such position.
Counting(w, o, E, Q, i) ==
  /\ w[1] \in E \cup {Nil} /\ w[2] \in Nat
  /\ IF w[1] = Nil THEN i >= Len(o)
     ELSE Q["l"][w[1]] + w[2] = i + 1 /\ (i + 1 <= Q["r"][w[1]] \/ i >= Len(o))

\* nth(i) is the element at position i, counted from zero.
LEMMA NthFound ==
  ASSUME NEW t, NEW E, NEW o, NEW P, NEW Q, Spans(t, E, o, P, Q), Counted(t, E, Q), NEW i \in Nat
  PROVE  Nth(t, i) = At(o, i + 1)
<1> DEFINE before(a) == S(t, t.kid["l"][a])
           f == [w \in Link \X Nat |->
                   IF w[1] = Nil \/ w[2] = before(w[1]) THEN w
                   ELSE IF w[2] < before(w[1]) THEN <<t.kid["l"][w[1]], w[2]>>
                   ELSE <<t.kid["r"][w[1]], w[2] - before(w[1]) - 1>>]
           J == {w \in Link \X Nat : Counting(w, o, E, Q, i)}
           m == [w \in J |-> Width(Q, w[1])]
           z == Loop(f, <<t.root, i>>)
<1>1. Nth(t, i) = z[1]
  BY DEF Nth
<1>2. /\ Numbered(o, E, P) /\ Nil \notin E /\ E \subseteq Link /\ Nil \in Link
      /\ Len(o) \in Nat /\ Len(o) <= Rounds /\ Rounds \in Nat
      /\ \A j \in 1..Len(o) : o[j] \in E
  <2>1. Numbered(o, E, P)
    BY DEF Spans
  <2>2. Nil \notin E /\ (\A b \in E : b \in Link) /\ \A j \in 1..Len(o) : o[j] \in E
    BY SpansTypes
  <2>3. Len(o) \in Nat /\ Len(o) <= Rounds /\ Rounds \in Nat
    BY <2>1, OrderFits, RoundsCount
  <2>4. E \subseteq Link /\ Nil \in Link
    BY <2>2 DEF Link
  <2> QED
    BY <2>1, <2>2, <2>3, <2>4
<1>3. DOMAIN f = Link \X Nat
  OBVIOUS
<1>4. \A a \in Link, b \in Nat :
        f[<<a, b>>] = IF a = Nil \/ b = before(a) THEN <<a, b>>
                      ELSE IF b < before(a) THEN <<t.kid["l"][a], b>>
                      ELSE <<t.kid["r"][a], b - before(a) - 1>>
  OBVIOUS
<1> HIDE DEF f
<1>5. \A a \in E : before(a) = P[a] - Q["l"][a]
  BY CountsBefore
<1> HIDE DEF before
<1>6. \A a \in E \cup {Nil} : Width(Q, a) \in Nat /\ Width(Q, a) <= Len(o)
  BY Widths
<1>7. J \in SUBSET DOMAIN f /\ m \in [J -> Nat] /\ \A w \in J : m[w] <= Rounds
  <2>1. \A w \in J : w[1] \in E \cup {Nil}
    BY DEF Counting
  <2>2. \A w \in J : Width(Q, w[1]) \in Nat /\ Width(Q, w[1]) <= Rounds
    <3> HIDE DEF J
    <3>1. \A a \in E \cup {Nil} : Width(Q, a) \in Nat /\ Width(Q, a) <= Rounds
      BY <1>2, <1>6
    <3> QED
      BY <2>1, <3>1
  <2> QED
    BY <1>3, <2>2
<1>8. <<t.root, i>> \in J
  <2>1. CASE t.root = Nil
    <3>1. E = {}
      BY <2>1 DEF Spans
    <3>2. Len(o) = 0
      BY <1>2, <3>1
    <3> QED
      BY <1>2, <2>1, <3>2 DEF Counting
  <2>2. CASE t.root # Nil
    <3>1. t.root \in E /\ Q["l"][t.root] = 1 /\ Q["r"][t.root] = Len(o)
      BY <2>2, RootSpans
    <3>2. Counting(<<t.root, i>>, o, E, Q, i)
      BY <1>2, <2>2, <3>1 DEF Counting
    <3> QED
      BY <1>2, <3>1, <3>2
  <2> QED
    BY <2>1, <2>2
<1>9. ASSUME NEW a \in E, NEW b \in Nat, Counting(<<a, b>>, o, E, Q, i), b # before(a)
      PROVE  /\ b < before(a) => /\ Counting(<<t.kid["l"][a], b>>, o, E, Q, i)
                                 /\ t.kid["l"][a] \in Link
             /\ ~(b < before(a)) => /\ Counting(<<t.kid["r"][a], b - before(a) - 1>>, o, E, Q, i)
                                    /\ t.kid["r"][a] \in Link /\ b - before(a) - 1 \in Nat
  <2>1. /\ a # Nil /\ Q["l"][a] + b = i + 1 /\ (i + 1 <= Q["r"][a] \/ i >= Len(o))
        /\ P[a] \in Int /\ Q["l"][a] \in Int /\ Q["r"][a] \in Int
        /\ before(a) = P[a] - Q["l"][a] /\ Q["l"][a] <= P[a] /\ P[a] <= Q["r"][a]
        /\ Q["r"][a] <= Len(o)
    <3>1. a # Nil
      BY <1>2
    <3>2. Q["l"][a] + b = i + 1 /\ (i + 1 <= Q["r"][a] \/ i >= Len(o))
      BY <1>9, <3>1 DEF Counting
    <3>3. P[a] \in Int /\ Q["l"][a] \in Int /\ Q["r"][a] \in Int
      BY SpansTypes
    <3>4. Q["l"][a] <= P[a] /\ P[a] <= Q["r"][a] /\ Q["r"][a] <= Len(o)
      BY SpansAt
    <3> QED
      BY <1>5, <3>1, <3>2, <3>3, <3>4
  <2>2. t.kid["l"][a] \in E \cup {Nil} /\ t.kid["r"][a] \in E \cup {Nil}
    BY SpansTypes
  <2>3. ASSUME b < before(a) PROVE Counting(<<t.kid["l"][a], b>>, o, E, Q, i)
    <3> DEFINE c == t.kid["l"][a]
    <3>1. c # Nil
      <4> SUFFICES ASSUME c = Nil PROVE FALSE
        OBVIOUS
      <4>1. Q["l"][a] = P[a]
        BY SpansAt
      <4> QED
        BY <2>1, <2>3, <4>1
    <3>2. c \in E /\ Q["l"][c] = Q["l"][a] /\ Q["r"][c] = P[a] - 1
      BY <3>1, SpansAt
    <3> HIDE DEF c
    <3>3. i + 1 <= Q["r"][c]
      BY <2>1, <2>3, <3>2
    <3>4. Counting(<<c, b>>, o, E, Q, i)
      BY <2>1, <3>1, <3>2, <3>3 DEF Counting
    <3> QED
      BY <3>4 DEF c
  <2>4. ASSUME ~(b < before(a))
        PROVE  /\ Counting(<<t.kid["r"][a], b - before(a) - 1>>, o, E, Q, i)
               /\ b - before(a) - 1 \in Nat
    <3> DEFINE c == t.kid["r"][a]
               d == b - before(a) - 1
    <3>1. d \in Nat /\ P[a] + 1 + d = i + 1
      <4> DEFINE e == before(a)
                 q == Q["l"][a]
      <4>1. /\ e \in Int /\ b # e /\ ~(b < e) /\ e = P[a] - q /\ q + b = i + 1
            /\ P[a] \in Int /\ q \in Int /\ d = b - e - 1
        BY <1>9, <2>1, <2>4
      <4> HIDE DEF e, q, d
      <4> QED
        BY <4>1
    <3>2. CASE c = Nil
      <4>1. Q["r"][a] = P[a]
        BY <3>2, SpansAt
      <4>2. i >= Len(o)
        <5> HIDE DEF d
        <5> QED
          BY <1>2, <2>1, <3>1, <4>1
      <4> HIDE DEF d
      <4>3. Counting(<<c, d>>, o, E, Q, i)
        BY <3>1, <3>2, <4>2 DEF Counting
      <4> QED
        BY <3>1, <4>3 DEF d
    <3>3. CASE c # Nil
      <4>1. c \in E /\ Q["r"][c] = Q["r"][a] /\ Q["l"][c] = P[a] + 1
        BY <3>3, SpansAt
      <4> HIDE DEF c, d
      <4>2. Counting(<<c, d>>, o, E, Q, i)
        BY <2>1, <3>1, <3>3, <4>1 DEF Counting
      <4> QED
        BY <3>1, <4>2 DEF c, d
    <3> QED
      BY <3>2, <3>3
  <2>5. t.kid["l"][a] \in Link /\ t.kid["r"][a] \in Link
    BY <1>2, <2>2
  <2> QED
    BY <2>3, <2>4, <2>5
<1>10. ASSUME NEW a \in Link, NEW b \in Nat, <<a, b>> \in J, a # Nil, b # before(a)
       PROVE  /\ f[<<a, b>>] \in J
              /\ Width(Q, f[<<a, b>>][1]) < Width(Q, a)
  <2>1. a \in E /\ Counting(<<a, b>>, o, E, Q, i)
    BY <1>10 DEF Counting
  <2>2. /\ Width(Q, t.kid["l"][a]) < Width(Q, a)
        /\ Width(Q, t.kid["r"][a]) < Width(Q, a)
    BY <2>1, Widths, Sides
  <2>3. CASE b < before(a)
    <3>1. f[<<a, b>>] = <<t.kid["l"][a], b>>
      BY <1>4, <1>10, <2>3
    <3>2. Counting(<<t.kid["l"][a], b>>, o, E, Q, i) /\ t.kid["l"][a] \in Link
      BY <1>9, <1>10, <2>1, <2>3
    <3> QED
      BY <2>2, <3>1, <3>2
  <2>4. CASE ~(b < before(a))
    <3> DEFINE d == b - before(a) - 1
    <3>1. f[<<a, b>>] = <<t.kid["r"][a], d>>
      BY <1>4, <1>10, <2>4
    <3>2. Counting(<<t.kid["r"][a], d>>, o, E, Q, i) /\ t.kid["r"][a] \in Link /\ d \in Nat
      BY <1>9, <1>10, <2>1, <2>4
    <3> HIDE DEF d
    <3> QED
      BY <2>2, <3>1, <3>2
  <2> QED
    BY <2>3, <2>4
<1>11. \A w \in J : w[1] \in Link /\ w[2] \in Nat /\ w = <<w[1], w[2]>>
  OBVIOUS
<1>12. ASSUME NEW w \in J PROVE f[w] \in J /\ (f[w] = w \/ Width(Q, f[w][1]) < Width(Q, w[1]))
  <2>1. w[1] \in Link /\ w[2] \in Nat /\ w = <<w[1], w[2]>>
    BY <1>11
  <2>2. CASE w[1] = Nil \/ w[2] = before(w[1])
    <3>1. f[w] = w
      BY <1>4, <2>1, <2>2
    <3> QED
      BY <3>1
  <2>3. CASE ~(w[1] = Nil \/ w[2] = before(w[1]))
    <3> HIDE DEF J
    <3>1. /\ f[<<w[1], w[2]>>] \in J
          /\ Width(Q, f[<<w[1], w[2]>>][1]) < Width(Q, w[1])
      BY <1>10, <1>12, <2>1, <2>3
    <3> QED
      BY <2>1, <3>1
  <2> QED
    BY <2>2, <2>3
<1>13. \A w \in J : m[w] = Width(Q, w[1])
  OBVIOUS
<1> HIDE DEF J, m
<1>14. \A w \in J : f[w] \in J /\ (f[w] = w \/ m[f[w]] < m[w])
  BY <1>12, <1>13
<1>15. z \in J /\ f[z] = z
  BY <1>7, <1>8, <1>14, LoopEnds
<1> HIDE DEF z
<1>16. z[1] \in E \cup {Nil} /\ Counting(z, o, E, Q, i)
  BY <1>15 DEF J, Counting
<1>17. z[1] = Nil \/ z[2] = before(z[1])
  <2> SUFFICES ASSUME z[1] # Nil, z[2] # before(z[1]) PROVE FALSE
    OBVIOUS
  <2>1. z[1] \in Link /\ z[2] \in Nat /\ z = <<z[1], z[2]>>
    BY <1>11, <1>15
  <2>2. Width(Q, f[<<z[1], z[2]>>][1]) < Width(Q, z[1])
    BY <1>10, <1>15, <2>1
  <2>3. Width(Q, z[1]) < Width(Q, z[1])
    BY <1>15, <2>1, <2>2
  <2>4. Width(Q, z[1]) \in Nat
    BY <1>6, <1>16
  <2> QED
    BY <2>3, <2>4
<1>18. CASE z[1] = Nil
  <2>1. i >= Len(o)
    BY <1>16, <1>18 DEF Counting
  <2>2. i + 1 \notin 1..Len(o)
    BY <1>2, <2>1
  <2> QED
    BY <1>1, <1>18, <2>2 DEF At
<1>19. CASE z[1] # Nil
  <2>1. z[1] \in E /\ Q["l"][z[1]] + z[2] = i + 1 /\ z[2] = before(z[1])
    BY <1>16, <1>17, <1>19 DEF Counting
  <2>2. P[z[1]] \in Int /\ Q["l"][z[1]] \in Int /\ before(z[1]) = P[z[1]] - Q["l"][z[1]]
    BY <1>5, <1>19, <2>1, SpansTypes
  <2>3. P[z[1]] = i + 1
    BY <2>1, <2>2
  <2> QED
    BY <1>1, <1>2, <2>1, <2>3, AtPlace
<1> QED
  BY <1>18, <1>19

\* rank: the second component counts the elements before a in the cursor's subtree.
LEMMA RankFound ==
  ASSUME NEW t, NEW E, NEW o, NEW P, NEW Q, Spans(t, E, o, P, Q), Counted(t, E, Q), NEW a \in E
  PROVE  Rank(t, a) = P[a] - 1
<1> DEFINE before(b) == S(t, t.kid["l"][b])
           f == [w \in Node \X Nat |->
                   LET b == t.up[w[1]] IN
                   IF b = Nil THEN w
                   ELSE <<b, IF w[1] = t.kid["r"][b] THEN w[2] + before(b) + 1 ELSE w[2]>>]
           Good(w) == w[1] \in E /\ w[2] \in Nat /\ Q["l"][w[1]] + w[2] = P[a]
           J == {w \in Node \X Nat : Good(w)}
           m == [w \in J |-> Len(o) - Width(Q, w[1])]
           z == Loop(f, <<a, before(a)>>)
<1>1. Rank(t, a) = z[2]
  <2>1. a # Nil
    BY SpansTypes
  <2> QED
    BY <2>1 DEF Rank
<1>2. /\ Numbered(o, E, P) /\ Nil \notin E /\ E \subseteq Node
      /\ Len(o) \in Nat /\ Len(o) <= Rounds /\ Rounds \in Nat
  <2>1. Numbered(o, E, P)
    BY DEF Spans
  <2>2. Nil \notin E /\ E \subseteq Node
    BY SpansTypes
  <2>3. Len(o) \in Nat /\ Len(o) <= Rounds /\ Rounds \in Nat
    BY <2>1, OrderFits, RoundsCount
  <2> QED
    BY <2>1, <2>2, <2>3
<1>3. DOMAIN f = Node \X Nat
  OBVIOUS
<1>4. \A b \in Node, k \in Nat :
        f[<<b, k>>] = IF t.up[b] = Nil THEN <<b, k>>
                      ELSE <<t.up[b], IF b = t.kid["r"][t.up[b]]
                                      THEN k + before(t.up[b]) + 1 ELSE k>>
  OBVIOUS
<1> HIDE DEF f
<1>5. \A b \in E : before(b) = P[b] - Q["l"][b]
  BY CountsBefore
<1> HIDE DEF before
<1>6. \A b \in E : Width(Q, b) \in Nat /\ Width(Q, b) <= Len(o)
  BY Widths
<1>7. J \in SUBSET DOMAIN f /\ m \in [J -> Nat] /\ \A w \in J : m[w] <= Rounds
  <2>1. \A b \in E : Len(o) - Width(Q, b) \in Nat /\ Len(o) - Width(Q, b) <= Rounds
    BY <1>2, <1>6
  <2> QED
    BY <1>3, <2>1
<1>8. <<a, before(a)>> \in J
  <2>1. /\ before(a) = P[a] - Q["l"][a] /\ P[a] \in Int /\ Q["l"][a] \in Int
        /\ Q["l"][a] <= P[a]
    BY <1>5, SpansTypes, SpansAt
  <2>2. before(a) \in Nat /\ Q["l"][a] + before(a) = P[a]
    BY <2>1
  <2> QED
    BY <1>2, <2>2
<1>9. ASSUME NEW b \in E, NEW k \in Nat, Good(<<b, k>>), t.up[b] # Nil
      PROVE  /\ t.up[b] \in E
             /\ Good(<<t.up[b], IF b = t.kid["r"][t.up[b]] THEN k + before(t.up[b]) + 1 ELSE k>>)
             /\ Len(o) - Width(Q, t.up[b]) < Len(o) - Width(Q, b)
  <2> DEFINE c == t.up[b]
  <2>1. c \in E /\ (t.kid["l"][c] = b \/ t.kid["r"][c] = b) /\ b # Nil
    BY <1>2, <1>9, SpansAt
  <2>2. /\ P[c] \in Int /\ Q["l"][c] \in Int /\ Q["l"][c] <= P[c] /\ P[a] \in Int
        /\ before(c) = P[c] - Q["l"][c]
    <3> HIDE DEF c
    <3> QED
      BY <1>5, <2>1, SpansTypes, SpansAt
  <2>3. Len(o) - Width(Q, c) < Len(o) - Width(Q, b)
    <3>1. Width(Q, b) < Width(Q, c)
      BY <1>9, Widths
    <3>2. Width(Q, b) \in Nat /\ Width(Q, c) \in Nat
      BY <1>6, <2>1
    <3> HIDE DEF c
    <3> QED
      BY <1>2, <3>1, <3>2
  <2>4. Q["l"][b] + k = P[a] /\ Q["l"][b] \in Int
    <3>1. Q["l"][b] \in Int
      BY SpansTypes
    <3> QED
      BY <1>9, <3>1
  <2> HIDE DEF c
  <2>5. CASE b = t.kid["r"][c]
    <3>1. Q["l"][b] = P[c] + 1
      BY <2>1, <2>5, SpansAt
    <3>2. k + before(c) + 1 \in Nat /\ Q["l"][c] + (k + before(c) + 1) = P[a]
      BY <2>2, <2>4, <3>1
    <3>3. Good(<<c, k + before(c) + 1>>)
      BY <2>1, <3>2
    <3> HIDE DEF Good
    <3> QED
      BY <2>1, <2>3, <2>5, <3>3 DEF c
  <2>6. CASE b # t.kid["r"][c]
    <3>1. Q["l"][b] = Q["l"][c]
      BY <2>1, <2>6, SpansAt
    <3>2. Good(<<c, k>>)
      BY <2>1, <2>4, <3>1
    <3> HIDE DEF Good
    <3> QED
      BY <2>1, <2>3, <2>6, <3>2 DEF c
  <2> QED
    BY <2>5, <2>6
<1>10. ASSUME NEW w \in J
       PROVE  f[w] \in J /\ (f[w] = w \/ Len(o) - Width(Q, f[w][1]) < Len(o) - Width(Q, w[1]))
  <2>1. w[1] \in E /\ w[1] \in Node /\ w[2] \in Nat /\ w = <<w[1], w[2]>> /\ Good(w)
    OBVIOUS
  <2> DEFINE b == w[1]
             k == w[2]
             d == IF b = t.kid["r"][t.up[b]] THEN k + before(t.up[b]) + 1 ELSE k
  <2>2. CASE t.up[b] = Nil
    <3>1. f[<<b, k>>] = <<b, k>>
      BY <1>4, <2>1, <2>2
    <3> QED
      BY <2>1, <3>1
  <2>3. CASE t.up[b] # Nil
    <3>1. f[<<b, k>>] = <<t.up[b], d>>
      BY <1>4, <2>1, <2>3
    <3>2. t.up[b] \in E /\ Good(<<t.up[b], d>>) /\ Len(o) - Width(Q, t.up[b]) < Len(o) - Width(Q, b)
      <4>1. Good(<<b, k>>)
        BY <2>1
      <4> HIDE DEF Good
      <4> QED
        BY <1>9, <2>1, <2>3, <4>1
    <3> HIDE DEF d
    <3>3. d \in Nat
      BY <3>2
    <3>4. <<t.up[b], d>> \in J
      BY <1>2, <3>2, <3>3
    <3> QED
      BY <2>1, <3>1, <3>2, <3>4
  <2> QED
    BY <2>2, <2>3
<1>11. \A w \in J : m[w] = Len(o) - Width(Q, w[1])
  OBVIOUS
<1>12. \A w \in J : w[1] \in E /\ w[2] \in Nat /\ Q["l"][w[1]] + w[2] = P[a] /\ w = <<w[1], w[2]>>
  OBVIOUS
<1> HIDE DEF J, m
<1>13. \A w \in J : f[w] \in J /\ (f[w] = w \/ m[f[w]] < m[w])
  BY <1>10, <1>11
<1>14. z \in J /\ f[z] = z
  BY <1>7, <1>8, <1>13, LoopEnds
<1> HIDE DEF z
<1>15. t.up[z[1]] = Nil
  <2> SUFFICES ASSUME t.up[z[1]] # Nil PROVE FALSE
    OBVIOUS
  <2>1. z[1] \in E /\ z[1] \in Node /\ z[2] \in Nat /\ z = <<z[1], z[2]>>
    BY <1>2, <1>12, <1>14
  <2>2. f[z][1] = t.up[z[1]]
    <3> DEFINE d == IF z[1] = t.kid["r"][t.up[z[1]]] THEN z[2] + before(t.up[z[1]]) + 1 ELSE z[2]
    <3>1. f[<<z[1], z[2]>>] = <<t.up[z[1]], d>>
      BY <1>4, <2>1
    <3> HIDE DEF d
    <3> QED
      BY <2>1, <3>1
  <2>3. Width(Q, z[1]) < Width(Q, z[1]) /\ Width(Q, z[1]) \in Nat
    <3>1. Width(Q, z[1]) < Width(Q, t.up[z[1]])
      BY <2>1, Widths
    <3> QED
      BY <1>6, <1>14, <2>1, <2>2, <3>1
  <2> QED
    BY <2>3
<1>16. z[1] \in E /\ Q["l"][z[1]] = 1 /\ z[2] \in Nat /\ Q["l"][z[1]] + z[2] = P[a]
  BY <1>12, <1>14, <1>15, SpansAt
<1> QED
  BY <1>1, <1>16

\* How many steps from x to end().
Left(o, P, x) == IF x = Nil THEN 0 ELSE Len(o) + 1 - P[x]

\* How many elements an iterator at position k has yet to pass.
LEMMA LeftAt ==
  ASSUME NEW o, NEW E, NEW P, Numbered(o, E, P), NEW k \in 1..(Len(o) + 1)
  PROVE  /\ Left(o, P, At(o, k)) = Len(o) + 1 - k
         /\ At(o, k) \in E \cup {Nil} /\ At(o, k) \in Link
         /\ At(o, k) # Nil => k \in 1..Len(o) /\ At(o, k) = o[k] /\ P[At(o, k)] = k
         /\ At(o, k) = Nil => k = Len(o) + 1
         /\ Left(o, P, At(o, k)) \in Nat /\ Left(o, P, At(o, k)) <= Rounds
<1>1. /\ Len(o) \in Nat /\ \A i \in 1..Len(o) : o[i] \in E /\ P[o[i]] = i
      /\ E \subseteq Node
  BY LenProperties DEF Numbered
<1>2. Nil \notin E
  BY <1>1, OrderedAssumption
<1>3. Len(o) <= Rounds /\ Rounds \in Nat
  BY OrderFits, RoundsCount
<1>4. CASE k \in 1..Len(o)
  <2>1. At(o, k) = o[k] /\ o[k] \in E /\ P[o[k]] = k /\ o[k] # Nil
    BY <1>1, <1>2, <1>4 DEF At
  <2>2. Left(o, P, At(o, k)) = Len(o) + 1 - k
    BY <2>1 DEF Left
  <2>3. Len(o) + 1 - k \in Nat /\ Len(o) + 1 - k <= Rounds
    BY <1>1, <1>3, <1>4
  <2> QED
    BY <1>1, <1>4, <2>1, <2>2, <2>3 DEF Link
<1>5. CASE k \notin 1..Len(o)
  <2>1. k = Len(o) + 1
    BY <1>1, <1>5
  <2>2. At(o, k) = Nil
    BY <1>5 DEF At
  <2>3. Left(o, P, At(o, k)) = 0 /\ Len(o) + 1 - k = 0
    BY <1>1, <2>1, <2>2 DEF Left
  <2> QED
    BY <1>3, <2>1, <2>2, <2>3 DEF Link
<1> QED
  BY <1>4, <1>5

\* A loop over the elements from position i collects those up to position j.
Gathered(w, o, i, j) == \E k \in i..j : w[1] = SubSeq(o, i, k - 1) /\ w[2] = At(o, k)

\* Walking from the element at i to the one at j yields the slice between.
LEMMA RunFound ==
  ASSUME NEW t, NEW E, NEW o, NEW P, NEW Q, Spans(t, E, o, P, Q),
         NEW i \in 1..(Len(o) + 1), NEW j \in i..(Len(o) + 1)
  PROVE  Run(t, At(o, i), At(o, j)) = SubSeq(o, i, j - 1)
<1> DEFINE b == At(o, j)
           f == [w \in Seq(Node) \X Link |->
                  IF w[2] \in {b, Nil} THEN w ELSE <<Append(w[1], w[2]), Step(t, w[2], "r")>>]
           J == {w \in Seq(Node) \X Link : Gathered(w, o, i, j)}
           m == [w \in J |-> Left(o, P, w[2])]
           x == << <<>>, At(o, i) >>
           z == Loop(f, x)
<1>1. Run(t, At(o, i), At(o, j)) = z[1]
  BY DEF Run
<1>2. /\ Numbered(o, E, P) /\ Nil \notin E /\ E \subseteq Node /\ "r" \in Side
      /\ Len(o) \in Nat /\ o \in Seq(Node) /\ i \in Int /\ j \in Int
  <2>1. Numbered(o, E, P) /\ "r" \in Side
    BY Sides DEF Spans
  <2>2. Nil \notin E /\ E \subseteq Node /\ Len(o) \in Nat
    BY SpansTypes
  <2>3. o \in Seq(Node)
    BY <2>1, <2>2, SeqMonotonic DEF Numbered
  <2> QED
    BY <2>1, <2>2, <2>3
<1>3. DOMAIN f = Seq(Node) \X Link
  OBVIOUS
<1>4. \A u \in Seq(Node), c \in Link :
        f[<<u, c>>] = IF c \in {b, Nil} THEN <<u, c>> ELSE <<Append(u, c), Step(t, c, "r")>>
  OBVIOUS
<1> HIDE DEF f
<1>5. \A k \in i..j :
        /\ k \in 1..(Len(o) + 1) /\ k - 1 \in (i - 1)..Len(o)
        /\ SubSeq(o, i, k - 1) \in Seq(Node) /\ At(o, k) \in Link
  <2> SUFFICES ASSUME NEW k \in i..j
               PROVE  /\ k \in 1..(Len(o) + 1) /\ k - 1 \in (i - 1)..Len(o)
                      /\ SubSeq(o, i, k - 1) \in Seq(Node) /\ At(o, k) \in Link
    OBVIOUS
  <2>1. k \in 1..(Len(o) + 1) /\ k - 1 \in (i - 1)..Len(o) /\ k - 1 \in Int
    BY <1>2
  <2>2. \A l \in i..(k - 1) : o[l] \in Node
    <3>1. \A l \in i..(k - 1) : l \in 1..Len(o)
      BY <1>2, <2>1
    <3> QED
      BY <1>2, <3>1, ElementOfSeq
  <2>3. SubSeq(o, i, k - 1) \in Seq(Node)
    BY <1>2, <2>1, <2>2, SubSeqProperties
  <2> QED
    BY <1>2, <2>1, <2>3, LeftAt
<1>6. J \in SUBSET DOMAIN f /\ m \in [J -> Nat] /\ \A w \in J : m[w] <= Rounds
  <2>1. \A w \in J : Left(o, P, w[2]) \in Nat /\ Left(o, P, w[2]) <= Rounds
    <3> SUFFICES ASSUME NEW w \in J PROVE Left(o, P, w[2]) \in Nat /\ Left(o, P, w[2]) <= Rounds
      OBVIOUS
    <3>1. PICK k \in i..j : w[2] = At(o, k)
      BY DEF Gathered
    <3> QED
      BY <1>2, <1>5, <3>1, LeftAt
  <2> QED
    BY <1>3, <2>1
<1>7. x \in J
  <2>1. i \in i..j /\ i - 1 \in Int /\ i - 1 < i
    BY <1>2
  <2>2. SubSeq(o, i, i - 1) = <<>>
    BY <1>2, <2>1, SubSeqEmpty
  <2>3. Gathered(x, o, i, j)
    BY <2>1, <2>2 DEF Gathered
  <2>4. x \in Seq(Node) \X Link
    BY <1>5, <2>1, <2>2
  <2> QED
    BY <2>3, <2>4
<1>8. ASSUME NEW k \in i..j, At(o, k) \notin {b, Nil}
      PROVE  /\ k + 1 \in i..j
             /\ f[<<SubSeq(o, i, k - 1), At(o, k)>>] = <<SubSeq(o, i, k), At(o, k + 1)>>
  <2>1. k \in 1..(Len(o) + 1) /\ SubSeq(o, i, k - 1) \in Seq(Node) /\ At(o, k) \in Link
    BY <1>5
  <2>2. k \in 1..Len(o) /\ At(o, k) = o[k] /\ P[At(o, k)] = k /\ At(o, k) \in E
    BY <1>2, <1>8, <2>1, LeftAt
  <2>3. k + 1 \in i..j
    <3>1. k # j
      BY <1>8
    <3> QED
      BY <1>2, <3>1
  <2>4. Step(t, At(o, k), "r") = At(o, k + 1)
    <3>1. Step(t, At(o, k), "r") = At(o, P[At(o, k)] + Toward("r"))
      BY <1>2, <2>2, StepFound
    <3>2. Toward("r") = 1
      BY DEF Toward
    <3> QED
      BY <2>2, <3>1, <3>2
  <2>5. Append(SubSeq(o, i, k - 1), o[k]) = SubSeq(o, i, k)
    <3>1. k - 1 \in (i - 1)..(Len(o) - 1) /\ (k - 1) + 1 = k
      BY <1>2, <2>2
    <3>2. Append(SubSeq(o, i, k - 1), o[(k - 1) + 1]) = SubSeq(o, i, (k - 1) + 1)
      BY <1>2, <3>1, SliceGrows
    <3> QED
      BY <3>1, <3>2
  <2> QED
    BY <1>4, <1>8, <2>1, <2>2, <2>3, <2>4, <2>5
<1>9. \A w \in J : w[1] \in Seq(Node) /\ w[2] \in Link /\ w = <<w[1], w[2]>>
  OBVIOUS
<1>10. ASSUME NEW w \in J, w[2] \notin {b, Nil}
       PROVE  f[w] \in J /\ Left(o, P, f[w][2]) < Left(o, P, w[2])
  <2>1. PICK k \in i..j : w[1] = SubSeq(o, i, k - 1) /\ w[2] = At(o, k)
    BY DEF Gathered
  <2>2. k + 1 \in i..j /\ f[w] = <<SubSeq(o, i, k), At(o, k + 1)>>
    BY <1>8, <1>9, <1>10, <2>1
  <2>3. SubSeq(o, i, k) \in Seq(Node) /\ At(o, k + 1) \in Link
    <3>1. (k + 1) - 1 = k
      BY <1>2
    <3> QED
      BY <1>5, <2>2, <3>1
  <2>4. Gathered(f[w], o, i, j)
    <3>1. (k + 1) - 1 = k
      BY <1>2
    <3> QED
      BY <2>2, <3>1 DEF Gathered
  <2>5. Left(o, P, At(o, k + 1)) < Left(o, P, At(o, k))
    <3>1. k \in 1..(Len(o) + 1) /\ k + 1 \in 1..(Len(o) + 1)
      BY <1>5, <2>2
    <3>2. Left(o, P, At(o, k)) = Len(o) + 1 - k
      BY <1>2, <3>1, LeftAt
    <3>3. Left(o, P, At(o, k + 1)) = Len(o) + 1 - (k + 1)
      BY <1>2, <3>1, LeftAt
    <3> QED
      BY <1>2, <3>1, <3>2, <3>3
  <2>6. f[w] \in Seq(Node) \X Link /\ f[w][2] = At(o, k + 1)
    <3> DEFINE u == SubSeq(o, i, k)
               c == At(o, k + 1)
    <3>1. f[w] = <<u, c>> /\ u \in Seq(Node) /\ c \in Link
      BY <2>2, <2>3
    <3> HIDE DEF u, c
    <3>2. f[w] \in Seq(Node) \X Link /\ f[w][2] = c
      BY <3>1
    <3> QED
      BY <3>2 DEF c
  <2>7. f[w] \in J
    BY <2>4, <2>6
  <2> QED
    BY <2>1, <2>5, <2>6, <2>7
<1>11. ASSUME NEW w \in J PROVE f[w] \in J /\ (f[w] = w \/ m[f[w]] < m[w])
  <2>1. CASE w[2] \in {b, Nil}
    <3>1. f[w] = w
      BY <1>4, <1>9, <2>1
    <3> QED
      BY <3>1
  <2>2. CASE w[2] \notin {b, Nil}
    <3>1. f[w] \in J /\ Left(o, P, f[w][2]) < Left(o, P, w[2])
      BY <1>10, <2>2
    <3> HIDE DEF J
    <3> QED
      BY <3>1
  <2> QED
    BY <2>1, <2>2
<1>12. z \in J /\ f[z] = z
  <2> HIDE DEF J, m, x
  <2> QED
    BY <1>6, <1>7, <1>11, LoopEnds
<1> HIDE DEF z
<1>13. PICK k \in i..j : z[1] = SubSeq(o, i, k - 1) /\ z[2] = At(o, k)
  BY <1>12 DEF Gathered
<1>14. z[2] \in {b, Nil}
  <2> SUFFICES ASSUME z[2] \notin {b, Nil} PROVE FALSE
    OBVIOUS
  <2>1. Left(o, P, z[2]) < Left(o, P, z[2])
    <3> HIDE DEF J
    <3> QED
      BY <1>10, <1>12
  <2>2. Left(o, P, z[2]) \in Nat
    BY <1>2, <1>5, <1>13, LeftAt
  <2> QED
    BY <2>1, <2>2
<1>15. k = j
  <2>1. CASE z[2] = b
    <3>1. k \in 1..(Len(o) + 1) /\ j \in 1..(Len(o) + 1) /\ At(o, k) = At(o, j)
      BY <1>2, <1>5, <1>13, <2>1
    <3> QED
      BY <1>2, <3>1, AtOnce
  <2>2. CASE z[2] = Nil
    <3>1. k = Len(o) + 1
      BY <1>2, <1>5, <1>13, <2>2, LeftAt
    <3> QED
      BY <1>2, <3>1
  <2> QED
    BY <1>14, <2>1, <2>2
<1> QED
  BY <1>1, <1>13, <1>15

\* The loop of group_by that looks for the end of the group.
LEMMA RunEndFound ==
  ASSUME NEW E, NEW o, NEW P, NEW Q, Spans(tree, E, o, P, Q), NEW a \in E, NEW k,
         NEW j \in (P[a] + 1)..(Len(o) + 1),
         \A l \in (P[a] + 1)..(j - 1) : SameKey(k, o[l]),
         j <= Len(o) => ~SameKey(k, o[j])
  PROVE  RunEnd(a, k) = At(o, j)
<1> DEFINE t == tree
           f == [q \in Link |-> IF q # Nil /\ SameKey(k, q) THEN Step(t, q, "r") ELSE q]
           J == {q \in Link : \E l \in (P[a] + 1)..j : q = At(o, l)}
           m == [q \in J |-> Left(o, P, q)]
           x == At(o, P[a] + 1)
           z == Loop(f, x)
<1>1. RunEnd(a, k) = z
  <2>1. "r" \in Side /\ Toward("r") = 1
    BY Sides DEF Toward
  <2>2. Step(t, a, "r") = At(o, P[a] + Toward("r"))
    BY <2>1, StepFound
  <2> QED
    BY <2>1, <2>2 DEF RunEnd
<1>2. /\ Numbered(o, E, P) /\ Nil \notin E /\ E \subseteq Node /\ "r" \in Side
      /\ Len(o) \in Nat /\ P[a] \in 1..Len(o) /\ j \in Int
  <2>1. Numbered(o, E, P) /\ "r" \in Side
    BY Sides DEF Spans
  <2>2. Nil \notin E /\ E \subseteq Node /\ Len(o) \in Nat
    BY SpansTypes
  <2>3. P[a] \in 1..Len(o)
    BY <2>1, AtPlace
  <2> QED
    BY <2>1, <2>2, <2>3
<1>3. DOMAIN f = Link /\ \A q \in Link : f[q] = IF q # Nil /\ SameKey(k, q) THEN Step(t, q, "r") ELSE q
  OBVIOUS
<1> HIDE DEF f
<1>4. \A l \in (P[a] + 1)..j : l \in 1..(Len(o) + 1) /\ At(o, l) \in Link
  <2>1. \A l \in (P[a] + 1)..j : l \in 1..(Len(o) + 1)
    BY <1>2
  <2> QED
    BY <1>2, <2>1, LeftAt
<1>5. J \in SUBSET DOMAIN f /\ m \in [J -> Nat] /\ \A q \in J : m[q] <= Rounds
  <2>1. \A q \in J : Left(o, P, q) \in Nat /\ Left(o, P, q) <= Rounds
    <3> SUFFICES ASSUME NEW q \in J PROVE Left(o, P, q) \in Nat /\ Left(o, P, q) <= Rounds
      OBVIOUS
    <3>1. PICK l \in (P[a] + 1)..j : q = At(o, l)
      OBVIOUS
    <3> QED
      BY <1>2, <1>4, <3>1, LeftAt
  <2> QED
    BY <1>3, <2>1
<1>6. x \in J
  <2>1. P[a] + 1 \in (P[a] + 1)..j
    BY <1>2
  <2> QED
    BY <1>4, <2>1
<1>7. ASSUME NEW q \in J, q # Nil, SameKey(k, q)
      PROVE  f[q] \in J /\ Left(o, P, f[q]) < Left(o, P, q)
  <2>1. PICK l \in (P[a] + 1)..j : q = At(o, l)
    OBVIOUS
  <2>2. l \in 1..Len(o) /\ q = o[l] /\ P[q] = l /\ q \in E
    BY <1>2, <1>4, <1>7, <2>1, LeftAt
  <2>3. l # j
    BY <1>2, <1>7, <2>2
  <2>4. l + 1 \in (P[a] + 1)..j
    BY <1>2, <2>3
  <2>5. Step(t, q, "r") = At(o, l + 1)
    <3>1. Step(t, q, "r") = At(o, P[q] + Toward("r"))
      BY <1>2, <2>2, StepFound
    <3>2. Toward("r") = 1
      BY DEF Toward
    <3> QED
      BY <2>2, <3>1, <3>2
  <2>6. f[q] = At(o, l + 1)
    BY <1>3, <1>7, <2>5
  <2>7. Left(o, P, At(o, l + 1)) < Left(o, P, At(o, l))
    <3>1. l \in 1..(Len(o) + 1) /\ l + 1 \in 1..(Len(o) + 1)
      BY <1>4, <2>4
    <3>2. Left(o, P, At(o, l)) = Len(o) + 1 - l
      BY <1>2, <3>1, LeftAt
    <3>3. Left(o, P, At(o, l + 1)) = Len(o) + 1 - (l + 1)
      BY <1>2, <3>1, LeftAt
    <3> QED
      BY <1>2, <3>1, <3>2, <3>3
  <2>8. At(o, l + 1) \in J
    BY <1>4, <2>4
  <2> QED
    BY <2>1, <2>6, <2>7, <2>8
<1>8. ASSUME NEW q \in J PROVE f[q] \in J /\ (f[q] = q \/ m[f[q]] < m[q])
  <2>1. CASE ~(q # Nil /\ SameKey(k, q))
    <3>1. f[q] = q
      BY <1>3, <2>1
    <3> QED
      BY <3>1
  <2>2. CASE q # Nil /\ SameKey(k, q)
    <3>1. f[q] \in J /\ Left(o, P, f[q]) < Left(o, P, q)
      BY <1>7, <2>2
    <3> HIDE DEF J
    <3> QED
      BY <3>1
  <2> QED
    BY <2>1, <2>2
<1>9. z \in J /\ f[z] = z
  <2> HIDE DEF J, m, x
  <2> QED
    BY <1>5, <1>6, <1>8, LoopEnds
<1> HIDE DEF z
<1>10. PICK l \in (P[a] + 1)..j : z = At(o, l)
  BY <1>9
<1>11. ~(z # Nil /\ SameKey(k, z))
  <2> SUFFICES ASSUME z # Nil, SameKey(k, z) PROVE FALSE
    OBVIOUS
  <2>1. Left(o, P, z) < Left(o, P, z)
    <3> HIDE DEF J
    <3> QED
      BY <1>7, <1>9
  <2>2. Left(o, P, z) \in Nat
    BY <1>2, <1>4, <1>10, LeftAt
  <2> QED
    BY <2>1, <2>2
<1>12. l = j
  <2>1. CASE z = Nil
    <3>1. l = Len(o) + 1
      BY <1>2, <1>4, <1>10, <2>1, LeftAt
    <3> QED
      BY <1>2, <3>1
  <2>2. CASE z # Nil
    <3>1. z = o[l]
      BY <1>2, <1>4, <1>10, <2>2, LeftAt
    <3>2. ~(l \in (P[a] + 1)..(j - 1))
      BY <1>11, <2>2, <3>1
    <3> QED
      BY <1>2, <3>2
  <2> QED
    BY <2>1, <2>2
<1> QED
  BY <1>1, <1>10, <1>12

-----------------------------------------------------------------------------
(* An index on its own: a sound tree in the order of the keys ks.          *)

\* Keys ascend along o, strictly in a unique index.
Ascending(ks, o) ==
  \A i, j \in 1..Len(o) :
    i < j => ks[o[i]] <= ks[o[j]] /\ (Unique => ks[o[i]] < ks[o[j]])

\* t is a sound tree of E in the order o, which ascends by key, and counts it.
InTree(t, ks, E, o) ==
  Sound(t, E, o) /\ t.n = Len(o) /\ (\A x \in E : ks[x] \in Key) /\ Ascending(ks, o)

\* What InTree says of o.
LEMMA InTreeFacts ==
  ASSUME NEW t, NEW ks, NEW E, NEW o, InTree(t, ks, E, o)
  PROVE  /\ E \subseteq Node /\ Nil \notin E /\ o \in Seq(E) /\ o \in Seq(Node)
         /\ Len(o) \in Nat /\ DOMAIN o = 1..Len(o)
         /\ \A i \in 1..Len(o) : o[i] \in E /\ ks[o[i]] \in Key /\ ks[o[i]] \in Int
                                 /\ ks[o[i]] # NoKey
         /\ \A x \in E : \E i \in 1..Len(o) : o[i] = x
         /\ \A i, j \in 1..Len(o) : o[i] = o[j] => i = j
         /\ t \in Trees /\ InOrder(t, t.root) = o
<1>1. PICK P, Q : Spans(t, E, o, P, Q)
  BY DEF InTree, Sound
<1>2. Numbered(o, E, P) /\ t \in Trees
  BY <1>1 DEF Spans
<1>3. /\ E \subseteq Node /\ o \in Seq(E) /\ \A i \in 1..Len(o) : P[o[i]] = i
      /\ \A x \in E : P[x] \in 1..Len(o) /\ o[P[x]] = x
  BY <1>2 DEF Numbered
<1>4. Len(o) \in Nat /\ DOMAIN o = 1..Len(o) /\ \A i \in 1..Len(o) : o[i] \in E
  BY <1>3, LenProperties
<1>5. Nil \notin E /\ o \in Seq(Node)
  BY <1>3, OrderedAssumption, SeqMonotonic
<1>6. \A x \in E : ks[x] \in Key /\ ks[x] \in Int /\ ks[x] # NoKey
  BY OrderedAssumption DEF InTree
<1>7. InOrder(t, t.root) = o
  <2>1. Sound(t, E, o)
    BY DEF InTree
  <2> QED
    BY <2>1, OrderOfTree
<1>8. \A i, j \in 1..Len(o) : o[i] = o[j] => i = j
  BY <1>3
<1>9. \A x \in E : \E i \in 1..Len(o) : o[i] = x
  BY <1>3
<1> QED
  BY <1>2, <1>3, <1>4, <1>5, <1>6, <1>7, <1>8, <1>9

\* It depends on the keys of its elements alone.
LEMMA OtherKeys ==
  ASSUME NEW t, NEW ks, NEW E, NEW o, InTree(t, ks, E, o), NEW ls, \A x \in E : ls[x] = ks[x]
  PROVE  InTree(t, ls, E, o)
<1>1. \A i \in 1..Len(o) : o[i] \in E
  BY InTreeFacts
<1>2. Ascending(ls, o)
  BY <1>1 DEF InTree, Ascending
<1> QED
  BY <1>2 DEF InTree

\* The first position with a key of at least k, and the first with one above k.
IsLower(t, ks, o, k, p) ==
  /\ p \in 1..(Len(o) + 1) /\ LowerBound(t, ks, k) = At(o, p)
  /\ \A i \in 1..Len(o) : ks[o[i]] >= k <=> i >= p

\* The upper bound of k is the element at p, the first with a key above k.
IsUpper(t, ks, o, k, p) ==
  /\ p \in 1..(Len(o) + 1) /\ UpperBound(t, ks, k) = At(o, p)
  /\ \A i \in 1..Len(o) : ks[o[i]] > k <=> i >= p

\* lower_bound is where keys stop being below k.
LEMMA LowerFound ==
  ASSUME NEW t, NEW ks, NEW E, NEW o, InTree(t, ks, E, o), NEW k \in Int
  PROVE  \E p : IsLower(t, ks, o, k, p)
<1> DEFINE T == {m \in Node : ks[m] # NoKey /\ ks[m] >= k}
<1>1. PICK P, Q : Spans(t, E, o, P, Q)
  BY DEF InTree, Sound
<1>2. /\ E \subseteq Node /\ o \in Seq(E) /\ Len(o) \in Nat
      /\ \A i \in 1..Len(o) : o[i] \in E /\ ks[o[i]] \in Int /\ ks[o[i]] # NoKey
  BY InTreeFacts
<1>3. \A i \in 1..Len(o) : o[i] \in T <=> ks[o[i]] >= k
  BY <1>2
<1> HIDE DEF T
<1>4. ASSUME NEW i \in 1..Len(o), NEW j \in 1..Len(o), i <= j, o[i] \in T PROVE o[j] \in T
  <2>1. i = j \/ ks[o[i]] <= ks[o[j]]
    BY <1>2, <1>4 DEF InTree, Ascending
  <2>2. ks[o[i]] \in Int /\ ks[o[j]] \in Int /\ ks[o[i]] >= k
    BY <1>2, <1>3, <1>4
  <2> QED
    BY <1>3, <1>4, <2>1, <2>2
<1>5. PICK p : Cuts(o, T, p)
  BY <1>2, <1>4, CutExists
<1>6. LowerBound(t, ks, k) = At(o, p)
  <2>1. Bound(t, T) = At(o, p)
    BY <1>1, <1>5, BoundFound
  <2> QED
    BY <2>1 DEF LowerBound, T
<1>7. IsLower(t, ks, o, k, p)
  BY <1>3, <1>5, <1>6 DEF Cuts, IsLower
<1> QED
  BY <1>7

\* upper_bound is where keys begin to be above k.
LEMMA UpperFound ==
  ASSUME NEW t, NEW ks, NEW E, NEW o, InTree(t, ks, E, o), NEW k \in Int
  PROVE  \E p : IsUpper(t, ks, o, k, p)
<1> DEFINE T == {m \in Node : ks[m] # NoKey /\ ks[m] > k}
<1>1. PICK P, Q : Spans(t, E, o, P, Q)
  BY DEF InTree, Sound
<1>2. /\ E \subseteq Node /\ o \in Seq(E) /\ Len(o) \in Nat
      /\ \A i \in 1..Len(o) : o[i] \in E /\ ks[o[i]] \in Int /\ ks[o[i]] # NoKey
  BY InTreeFacts
<1>3. \A i \in 1..Len(o) : o[i] \in T <=> ks[o[i]] > k
  BY <1>2
<1> HIDE DEF T
<1>4. ASSUME NEW i \in 1..Len(o), NEW j \in 1..Len(o), i <= j, o[i] \in T PROVE o[j] \in T
  <2>1. i = j \/ ks[o[i]] <= ks[o[j]]
    BY <1>2, <1>4 DEF InTree, Ascending
  <2>2. ks[o[i]] \in Int /\ ks[o[j]] \in Int /\ ks[o[i]] > k
    BY <1>2, <1>3, <1>4
  <2> QED
    BY <1>3, <1>4, <2>1, <2>2
<1>5. PICK p : Cuts(o, T, p)
  BY <1>2, <1>4, CutExists
<1>6. UpperBound(t, ks, k) = At(o, p)
  <2>1. Bound(t, T) = At(o, p)
    BY <1>1, <1>5, BoundFound
  <2> QED
    BY <2>1 DEF UpperBound, T
<1>7. IsUpper(t, ks, o, k, p)
  BY <1>3, <1>5, <1>6 DEF Cuts, IsUpper
<1> QED
  BY <1>7

\* find.
LEMMA FindFound ==
  ASSUME NEW t, NEW ks, NEW E, NEW o, InTree(t, ks, E, o), NEW k \in Int,
         NEW p, IsLower(t, ks, o, k, p)
  PROVE  Find(t, ks, k) = IF p \in 1..Len(o) /\ ks[o[p]] = k THEN o[p] ELSE Nil
<1>1. LowerBound(t, ks, k) = At(o, p) /\ p \in 1..(Len(o) + 1)
  BY DEF IsLower
<1>2. /\ Nil \notin E /\ Len(o) \in Nat
      /\ \A i \in 1..Len(o) : o[i] \in E /\ ks[o[i]] \in Int
  BY InTreeFacts
<1>3. CASE p \in 1..Len(o)
  <2>1. At(o, p) = o[p] /\ o[p] # Nil /\ ks[o[p]] \in Int
    BY <1>2, <1>3 DEF At
  <2>2. ks[o[p]] >= k
    <3>1. p >= p
      BY <1>3
    <3> QED
      BY <1>3, <3>1 DEF IsLower
  <2>3. ks[o[p]] <= k <=> ks[o[p]] = k
    BY <2>1, <2>2
  <2> QED
    BY <1>1, <1>3, <2>1, <2>3 DEF Find
<1>4. CASE p \notin 1..Len(o)
  BY <1>1, <1>4 DEF Find, At
<1> QED
  BY <1>3, <1>4

\* What find does not find is not there.
LEMMA NotFound ==
  ASSUME NEW t, NEW ks, NEW E, NEW o, InTree(t, ks, E, o), NEW k \in Int, Find(t, ks, k) = Nil
  PROVE  \A x \in E : ks[x] # k
<1>1. PICK p : IsLower(t, ks, o, k, p)
  BY LowerFound
<1>2. /\ Nil \notin E /\ Len(o) \in Nat
      /\ \A i \in 1..Len(o) : o[i] \in E /\ ks[o[i]] \in Int
      /\ \A x \in E : \E i \in 1..Len(o) : o[i] = x
  BY InTreeFacts
<1> SUFFICES ASSUME NEW x \in E, ks[x] = k PROVE FALSE
  OBVIOUS
<1>3. PICK i \in 1..Len(o) : o[i] = x
  BY <1>2
<1>4. p \in 1..(Len(o) + 1) /\ i >= p
  <2>1. ks[o[i]] >= k
    BY <1>3
  <2> QED
    BY <1>1, <1>3, <2>1 DEF IsLower
<1>5. p \in 1..Len(o) /\ ks[o[p]] >= k
  <2>1. p \in 1..Len(o) /\ p >= p
    BY <1>2, <1>4
  <2> QED
    BY <1>1, <2>1 DEF IsLower
<1>6. ks[o[p]] <= ks[o[i]]
  <2>1. p = i \/ p < i
    BY <1>2, <1>4
  <2>2. ks[o[p]] \in Int
    BY <1>2, <1>5
  <2> QED
    BY <1>5, <2>1, <2>2 DEF InTree, Ascending
<1>7. ks[o[p]] = k
  <2>1. ks[o[p]] \in Int
    BY <1>2, <1>5
  <2> QED
    BY <1>3, <1>5, <1>6, <2>1
<1>8. Find(t, ks, k) = IF p \in 1..Len(o) /\ ks[o[p]] = k THEN o[p] ELSE Nil
  BY <1>1, FindFound
<1> QED
  BY <1>2, <1>5, <1>7, <1>8

\* try_add, when nothing refuses the new node: it goes behind the keys up to its own.
Adds(t, ks, E, o, m, p) ==
  /\ InTree(Added(t, ks, m), ks, E \cup {m}, InsertAt(o, p, m))
  /\ p \in 1..(Len(o) + 1) /\ \A i \in 1..Len(o) : ks[m] < ks[o[i]] <=> i >= p

\* try_add, if it does not refuse, adds m behind its equals to a sound tree.
LEMMA AddKeeps ==
  ASSUME NEW t, NEW ks, NEW E, NEW o, InTree(t, ks, E, o), NEW m \in Node \ E,
         ks[m] \in Key, ~Refuses(t, ks, m)
  PROVE  \E p : Adds(t, ks, E, o, m, p)
<1> DEFINE T == {x \in Node : GoesLeft(ks, m, x)}
<1>1. /\ E \subseteq Node /\ o \in Seq(E) /\ Len(o) \in Nat
      /\ \A i \in 1..Len(o) : o[i] \in E /\ ks[o[i]] \in Int
      /\ ks[m] \in Int
  BY InTreeFacts, OrderedAssumption
<1>2. \A i \in 1..Len(o) : o[i] \in T <=> ks[m] < ks[o[i]]
  BY <1>1 DEF GoesLeft
<1>3. ASSUME NEW i \in 1..Len(o), NEW j \in 1..Len(o), i <= j, o[i] \in T PROVE o[j] \in T
  <2> HIDE DEF T
  <2>1. i = j \/ ks[o[i]] <= ks[o[j]]
    BY <1>1, <1>3 DEF InTree, Ascending
  <2>2. ks[o[i]] \in Int /\ ks[o[j]] \in Int /\ ks[m] < ks[o[i]]
    BY <1>1, <1>2, <1>3
  <2> QED
    BY <1>1, <1>2, <1>3, <2>1, <2>2
<1>4. PICK p : Cuts(o, T, p)
  <2> HIDE DEF T
  <2> QED
    BY <1>1, <1>3, CutExists
<1>5. Sound(Added(t, ks, m), E \cup {m}, InsertAt(o, p, m)) /\ Added(t, ks, m).n = t.n + 1
  <2>1. Sound(t, E, o)
    BY DEF InTree
  <2> QED
    BY <1>4, <2>1, AddedSound
<1>6. p \in 1..(Len(o) + 1) /\ \A i \in 1..Len(o) : ks[m] < ks[o[i]] <=> i >= p
  <2> HIDE DEF T
  <2> QED
    BY <1>2, <1>4 DEF Cuts
<1> HIDE DEF T
<1>7. Unique => \A i \in 1..Len(o) : ks[o[i]] # ks[m]
  <2> SUFFICES ASSUME Unique PROVE \A i \in 1..Len(o) : ks[o[i]] # ks[m]
    OBVIOUS
  <2>1. Find(t, ks, ks[m]) = Nil
    BY DEF Refuses
  <2>2. \A x \in E : ks[x] # ks[m]
    BY <1>1, <2>1, NotFound
  <2> QED
    BY <1>1, <2>2
<1> DEFINE u == InsertAt(o, p, m)
<1>8. /\ Len(u) = Len(o) + 1
      /\ \A i \in 1..(Len(o) + 1) : u[i] = IF i < p THEN o[i] ELSE IF i = p THEN m ELSE o[i - 1]
  <2>1. m \in Node /\ o \in Seq(Node) /\ p \in 1..(Len(o) + 1)
    BY <1>1, <1>6, SeqMonotonic
  <2> QED
    BY <2>1, InsertedAt
<1> HIDE DEF u
<1>9. Ascending(ks, u)
  <2> SUFFICES ASSUME NEW i \in 1..(Len(o) + 1), NEW j \in 1..(Len(o) + 1), i < j
               PROVE  ks[u[i]] <= ks[u[j]] /\ (Unique => ks[u[i]] < ks[u[j]])
    BY <1>8 DEF Ascending
  <2>1. CASE i = p
    <3>1. j - 1 \in 1..Len(o) /\ j - 1 >= p /\ u[j] = o[j - 1] /\ u[i] = m
      BY <1>1, <1>6, <1>8, <2>1
    <3>2. ks[m] < ks[o[j - 1]] /\ ks[o[j - 1]] \in Int
      BY <1>1, <1>6, <3>1
    <3> QED
      BY <1>1, <3>1, <3>2
  <2>2. CASE j = p
    <3>1. i \in 1..Len(o) /\ ~(i >= p) /\ u[i] = o[i] /\ u[j] = m
      BY <1>1, <1>6, <1>8, <2>2
    <3>2. ~(ks[m] < ks[o[i]]) /\ ks[o[i]] \in Int /\ (Unique => ks[o[i]] # ks[m])
      BY <1>1, <1>6, <1>7, <3>1
    <3> QED
      BY <1>1, <3>1, <3>2
  <2>3. CASE i # p /\ j # p
    <3> DEFINE a == IF i < p THEN i ELSE i - 1
               b == IF j < p THEN j ELSE j - 1
    <3>1. a \in 1..Len(o) /\ b \in 1..Len(o) /\ a < b /\ u[i] = o[a] /\ u[j] = o[b]
      BY <1>1, <1>6, <1>8, <2>3
    <3> HIDE DEF a, b
    <3> QED
      BY <3>1 DEF InTree, Ascending
  <2> QED
    BY <2>1, <2>2, <2>3
<1>10. InTree(Added(t, ks, m), ks, E \cup {m}, u)
  <2>1. Added(t, ks, m).n = Len(u)
    BY <1>5, <1>8 DEF InTree
  <2>2. \A x \in E \cup {m} : ks[x] \in Key
    BY DEF InTree
  <2> QED
    BY <1>5, <1>9, <2>1, <2>2 DEF InTree, u
<1>11. Adds(t, ks, E, o, m, p)
  BY <1>6, <1>10 DEF Adds, u
<1> QED
  BY <1>11

\* avl_erase.
LEMMA EraseKeeps ==
  ASSUME NEW t, NEW ks, NEW E, NEW o, InTree(t, ks, E, o), NEW i \in 1..Len(o)
  PROVE  InTree(Erased(t, o[i]), ks, E \ {o[i]}, RemoveAt(o, i))
<1>1. /\ o \in Seq(E) /\ Len(o) \in Nat /\ \A j \in 1..Len(o) : ks[o[j]] \in Int
  BY InTreeFacts
<1>2. /\ Sound(Erased(t, o[i]), E \ {o[i]}, RemoveAt(o, i)) /\ Erased(t, o[i]).n = t.n - 1
  BY ErasedSound DEF InTree
<1> DEFINE u == RemoveAt(o, i)
<1>3. /\ Len(u) = Len(o) - 1
      /\ \A j \in 1..(Len(o) - 1) : u[j] = IF j < i THEN o[j] ELSE o[j + 1]
  BY <1>1, RemovedFrom
<1> HIDE DEF u
<1>4. Ascending(ks, u)
  <2> SUFFICES ASSUME NEW j \in 1..(Len(o) - 1), NEW k \in 1..(Len(o) - 1), j < k
               PROVE  ks[u[j]] <= ks[u[k]] /\ (Unique => ks[u[j]] < ks[u[k]])
    BY <1>3 DEF Ascending
  <2> DEFINE a == IF j < i THEN j ELSE j + 1
             b == IF k < i THEN k ELSE k + 1
  <2>1. a \in 1..Len(o) /\ b \in 1..Len(o) /\ a < b /\ u[j] = o[a] /\ u[k] = o[b]
    BY <1>1, <1>3
  <2> HIDE DEF a, b
  <2> QED
    BY <2>1 DEF InTree, Ascending
<1> QED
  BY <1>2, <1>3, <1>4 DEF InTree, u

\* A tree without a root is empty.
LEMMA NoTree ==
  ASSUME NEW t \in Trees, t.root = Nil, t.n = 0, NEW ks
  PROVE  InTree(t, ks, {}, <<>>)
<1> DEFINE P == [x \in Node |-> 0]
           Q == [s \in Side |-> [x \in Node |-> 0]]
<1>1. Len(<<>>) = 0 /\ <<>> \in Seq({})
  BY EmptySeq
<1>2. Numbered(<<>>, {}, P)
  BY <1>1 DEF Numbered
<1>3. Spans(t, {}, <<>>, P, Q)
  BY <1>1, <1>2 DEF Spans
<1>4. Counted(t, {}, Q)
  BY DEF Counted
<1>5. Sound(t, {}, <<>>)
  BY <1>3, <1>4 DEF Sound
<1>6. Ascending(ks, <<>>)
  BY <1>1 DEF Ascending
<1> QED
  BY <1>1, <1>5, <1>6 DEF InTree

-----------------------------------------------------------------------------
(* What lies behind an iterator.                                           *)

\* The elements of o before c, all of them for end().
Behind(o, c) == {x \in Node : \E i \in 1..Len(o) : o[i] = x /\ \A j \in 1..i : o[j] # c}

\* A sequence of nodes, none of them twice.
Distinct(o) ==
  o \in Seq(Node) /\ (\A i, j \in 1..Len(o) : o[i] = o[j] => i = j)

\* What Distinct says.
LEMMA DistinctFacts ==
  ASSUME NEW o, Distinct(o)
  PROVE  /\ o \in Seq(Node) /\ Len(o) \in Nat /\ \A i \in 1..Len(o) : o[i] \in Node /\ o[i] # Nil
         /\ \A i, j \in 1..Len(o) : o[i] = o[j] => i = j
BY LenProperties, OrderedAssumption DEF Distinct

\* Seen from a position.
LEMMA BehindAt ==
  ASSUME NEW o, Distinct(o), NEW p \in 1..(Len(o) + 1)
  PROVE  Behind(o, At(o, p)) = {x \in Node : \E i \in 1..Len(o) : o[i] = x /\ i < p}
<1>1. /\ Len(o) \in Nat /\ \A i \in 1..Len(o) : o[i] \in Node /\ o[i] # Nil
      /\ \A i, j \in 1..Len(o) : o[i] = o[j] => i = j
  BY DistinctFacts
<1>2. ASSUME NEW i \in 1..Len(o) PROVE (\A j \in 1..i : o[j] # At(o, p)) <=> i < p
  <2>1. CASE p \in 1..Len(o)
    <3>1. At(o, p) = o[p]
      BY <2>1 DEF At
    <3>2. \A j \in 1..i : j \in 1..Len(o)
      BY <1>1
    <3> QED
      BY <1>1, <2>1, <3>1, <3>2
  <2>2. CASE p \notin 1..Len(o)
    <3>1. At(o, p) = Nil /\ i < p
      BY <1>1, <2>2 DEF At
    <3>2. \A j \in 1..i : j \in 1..Len(o)
      BY <1>1
    <3> QED
      BY <1>1, <3>1, <3>2
  <2> QED
    BY <2>1, <2>2
<1> QED
  BY <1>2 DEF Behind

\* A node that comes in behind the iterator or before it.
LEMMA BehindInserted ==
  ASSUME NEW o, Distinct(o), NEW p \in 1..(Len(o) + 1), NEW m \in Node,
         \A i \in 1..Len(o) : o[i] # m, NEW c, c # m
  PROVE  /\ Behind(o, c) \subseteq Behind(InsertAt(o, p, m), c)
         /\ Behind(InsertAt(o, p, m), c) \subseteq Behind(o, c) \cup {m}
         /\ \A k \in 1..Len(o) : o[k] = c /\ m \in Behind(InsertAt(o, p, m), c) => k >= p
<1> DEFINE u == InsertAt(o, p, m)
<1>1. /\ o \in Seq(Node) /\ Len(o) \in Nat /\ \A i \in 1..Len(o) : o[i] \in Node
      /\ \A i, j \in 1..Len(o) : o[i] = o[j] => i = j
  BY DistinctFacts
<1>2. /\ Len(u) = Len(o) + 1
      /\ \A i \in 1..(Len(o) + 1) : u[i] = IF i < p THEN o[i] ELSE IF i = p THEN m ELSE o[i - 1]
  BY <1>1, InsertedAt
<1> HIDE DEF u
<1>3. ASSUME NEW i \in 1..Len(o), \A j \in 1..i : o[j] # c PROVE o[i] \in Behind(u, c)
  <2> DEFINE k == IF i < p THEN i ELSE i + 1
  <2>1. k \in 1..Len(u) /\ u[k] = o[i]
    BY <1>1, <1>2
  <2>2. ASSUME NEW j \in 1..k PROVE u[j] # c
    <3>1. CASE j = p
      BY <1>2, <3>1
    <3>2. CASE j < p
      <4>1. j \in 1..i /\ j \in 1..(Len(o) + 1)
        BY <1>1, <3>2
      <4> QED
        BY <1>2, <1>3, <3>2, <4>1
    <3>3. CASE j > p
      <4>1. j - 1 \in 1..i /\ j \in 1..(Len(o) + 1) /\ ~(j < p) /\ j # p
        BY <1>1, <3>3
      <4> QED
        BY <1>2, <1>3, <4>1
    <3> QED
      BY <3>1, <3>2, <3>3
  <2> HIDE DEF k
  <2> QED
    BY <1>1, <2>1, <2>2 DEF Behind
<1>4. Behind(o, c) \subseteq Behind(u, c)
  BY <1>3 DEF Behind
<1>5. ASSUME NEW i \in 1..(Len(o) + 1), \A j \in 1..i : u[j] # c
      PROVE  u[i] \in Behind(o, c) \cup {m}
  <2>1. CASE i < p
    <3>1. i \in 1..Len(o) /\ u[i] = o[i]
      BY <1>1, <1>2, <2>1
    <3>2. \A j \in 1..i : o[j] # c
      <4>1. \A j \in 1..i : u[j] = o[j]
        BY <1>1, <1>2, <2>1
      <4> QED
        BY <1>5, <4>1
    <3> QED
      BY <1>1, <3>1, <3>2 DEF Behind
  <2>2. CASE i = p
    BY <1>2, <2>2
  <2>3. CASE i > p
    <3>1. i - 1 \in 1..Len(o) /\ u[i] = o[i - 1]
      BY <1>1, <1>2, <2>3
    <3>2. ASSUME NEW j \in 1..(i - 1) PROVE o[j] # c
      <4>1. CASE j < p
        <5>1. j \in 1..i /\ u[j] = o[j]
          BY <1>1, <1>2, <4>1
        <5> QED
          BY <1>5, <5>1
      <4>2. CASE ~(j < p)
        <5>1. j + 1 \in 1..i /\ j + 1 \in 1..(Len(o) + 1) /\ ~(j + 1 < p) /\ j + 1 # p
          BY <1>1, <2>3, <4>2
        <5>2. u[j + 1] = o[(j + 1) - 1] /\ (j + 1) - 1 = j
          BY <1>2, <5>1
        <5> QED
          BY <1>5, <5>1, <5>2
      <4> QED
        BY <4>1, <4>2
    <3> QED
      BY <1>1, <3>1, <3>2 DEF Behind
  <2> QED
    BY <2>1, <2>2, <2>3
<1>6. Behind(u, c) \subseteq Behind(o, c) \cup {m}
  <2> SUFFICES ASSUME NEW x \in Behind(u, c) PROVE x \in Behind(o, c) \cup {m}
    OBVIOUS
  <2>1. PICK i \in 1..Len(u) : u[i] = x /\ \A j \in 1..i : u[j] # c
    BY DEF Behind
  <2> QED
    BY <1>2, <1>5, <2>1
<1>7. ASSUME NEW k \in 1..Len(o), o[k] = c, m \in Behind(u, c) PROVE k >= p
  <2>1. PICK i \in 1..Len(u) : u[i] = m /\ \A j \in 1..i : u[j] # c
    BY <1>7 DEF Behind
  <2>2. i = p
    <3>1. CASE i < p
      <4>1. i \in 1..Len(o) /\ u[i] = o[i]
        BY <1>1, <1>2, <2>1, <3>1
      <4> QED
        BY <2>1, <4>1
    <3>2. CASE i > p
      <4>1. i - 1 \in 1..Len(o) /\ u[i] = o[i - 1]
        BY <1>1, <1>2, <2>1, <3>2
      <4> QED
        BY <2>1, <4>1
    <3> QED
      BY <3>1, <3>2
  <2> SUFFICES ASSUME k < p PROVE FALSE
    BY <1>1
  <2>3. k \in 1..i /\ k \in 1..(Len(o) + 1) /\ u[k] = o[k]
    BY <1>1, <1>2, <2>2
  <2> QED
    BY <1>7, <2>1, <2>3
<1> QED
  BY <1>4, <1>6, <1>7 DEF u

\* A node that goes, from either side.
LEMMA BehindRemoved ==
  ASSUME NEW o, Distinct(o), NEW p \in 1..Len(o), NEW c, c # o[p]
  PROVE  Behind(RemoveAt(o, p), c) = Behind(o, c) \ {o[p]}
<1> DEFINE u == RemoveAt(o, p)
<1>1. /\ o \in Seq(Node) /\ Len(o) \in Nat /\ \A i \in 1..Len(o) : o[i] \in Node
      /\ \A i, j \in 1..Len(o) : o[i] = o[j] => i = j
  BY DistinctFacts
<1>2. /\ Len(u) = Len(o) - 1
      /\ \A i \in 1..(Len(o) - 1) : u[i] = IF i < p THEN o[i] ELSE o[i + 1]
  BY <1>1, RemovedFrom
<1> HIDE DEF u
<1>3. ASSUME NEW i \in 1..Len(o), i # p, \A j \in 1..i : o[j] # c PROVE o[i] \in Behind(u, c)
  <2> DEFINE k == IF i < p THEN i ELSE i - 1
  <2>1. k \in 1..Len(u) /\ u[k] = o[i] /\ k \in 1..(Len(o) - 1)
    BY <1>1, <1>2, <1>3
  <2>2. ASSUME NEW j \in 1..k PROVE u[j] # c
    <3>1. CASE j < p
      <4>1. j \in 1..i /\ j \in 1..(Len(o) - 1)
        BY <1>1, <1>3, <2>1, <3>1
      <4> QED
        BY <1>2, <1>3, <3>1, <4>1
    <3>2. CASE ~(j < p)
      <4>1. j + 1 \in 1..i /\ j \in 1..(Len(o) - 1)
        BY <1>1, <1>3, <2>1, <3>2
      <4> QED
        BY <1>2, <1>3, <3>2, <4>1
    <3> QED
      BY <3>1, <3>2
  <2> HIDE DEF k
  <2> QED
    BY <1>1, <2>1, <2>2 DEF Behind
<1>4. Behind(o, c) \ {o[p]} \subseteq Behind(u, c)
  <2> SUFFICES ASSUME NEW x \in Behind(o, c), x # o[p] PROVE x \in Behind(u, c)
    OBVIOUS
  <2>1. PICK i \in 1..Len(o) : o[i] = x /\ \A j \in 1..i : o[j] # c
    BY DEF Behind
  <2> QED
    BY <1>3, <2>1
<1>5. ASSUME NEW i \in 1..(Len(o) - 1), \A j \in 1..i : u[j] # c
      PROVE  u[i] \in Behind(o, c) /\ u[i] # o[p]
  <2> DEFINE k == IF i < p THEN i ELSE i + 1
  <2>1. k \in 1..Len(o) /\ k # p /\ u[i] = o[k]
    BY <1>1, <1>2
  <2>2. ASSUME NEW j \in 1..k PROVE o[j] # c
    <3>1. CASE j = p
      BY <3>1
    <3>2. CASE j < p
      <4>1. j \in 1..i /\ u[j] = o[j]
        BY <1>1, <1>2, <3>2
      <4> QED
        BY <1>5, <4>1
    <3>3. CASE j > p
      <4>1. j - 1 \in 1..i /\ j - 1 \in 1..(Len(o) - 1) /\ ~(j - 1 < p) /\ (j - 1) + 1 = j
        BY <1>1, <3>3
      <4>2. u[j - 1] = o[(j - 1) + 1]
        BY <1>2, <4>1
      <4> QED
        BY <1>5, <4>1, <4>2
    <3> QED
      BY <3>1, <3>2, <3>3
  <2> HIDE DEF k
  <2>3. u[i] # o[p]
    BY <1>1, <2>1
  <2> QED
    BY <1>1, <2>1, <2>2, <2>3 DEF Behind
<1>6. Behind(u, c) \subseteq Behind(o, c) \ {o[p]}
  <2> SUFFICES ASSUME NEW x \in Behind(u, c) PROVE x \in Behind(o, c) \ {o[p]}
    OBVIOUS
  <2>1. PICK i \in 1..Len(u) : u[i] = x /\ \A j \in 1..i : u[j] # c
    BY DEF Behind
  <2> QED
    BY <1>2, <1>5, <2>1
<1> QED
  BY <1>4, <1>6 DEF u

\* it = erase(it): the iterator steps over the node that goes, and passes nothing.
LEMMA BehindErased ==
  ASSUME NEW o, Distinct(o), NEW p \in 1..Len(o)
  PROVE  Behind(RemoveAt(o, p), At(o, p + 1)) = Behind(o, o[p])
<1>1. /\ o \in Seq(Node) /\ Len(o) \in Nat /\ \A i \in 1..Len(o) : o[i] \in Node /\ o[i] # Nil
      /\ \A i, j \in 1..Len(o) : o[i] = o[j] => i = j
  BY DistinctFacts
<1>2. p \in 1..(Len(o) + 1) /\ p + 1 \in 1..(Len(o) + 1) /\ At(o, p) = o[p]
  BY <1>1 DEF At
<1>3. At(o, p + 1) # o[p]
  BY <1>1, <1>2 DEF At
<1>4. Behind(RemoveAt(o, p), At(o, p + 1)) = Behind(o, At(o, p + 1)) \ {o[p]}
  BY <1>3, BehindRemoved
<1>5. Behind(o, At(o, p + 1)) = {x \in Node : \E i \in 1..Len(o) : o[i] = x /\ i < p + 1}
  BY <1>2, BehindAt
<1>6. Behind(o, o[p]) = {x \in Node : \E i \in 1..Len(o) : o[i] = x /\ i < p}
  BY <1>2, BehindAt
<1>7. \A i \in 1..Len(o) : (i < p + 1 /\ o[i] # o[p]) <=> i < p
  BY <1>1
<1> QED
  BY <1>4, <1>5, <1>6, <1>7

-----------------------------------------------------------------------------
(* The actions, as what they do to the order.                              *)

\* The index holds exactly the elements; a node on its way keeps both its keys.
TreeInv ==
  /\ InTree(tree, key, Elements, Order)
  /\ IF pc = "idle" THEN moving = Nil /\ old = NoKey
     ELSE moving \in Node /\ key[moving] \in Key /\ old \in Key

\* m enters the order at position p, behind its equals.
Enters(m, p) ==
  /\ m \in Node \ Elements /\ key'[m] \in Key /\ p \in 1..(Len(Order) + 1)
  /\ Elements' = Elements \cup {m} /\ Order' = InsertAt(Order, p, m)
  /\ \A x \in Elements : key'[x] = key[x]
  /\ \A i \in 1..Len(Order) : key'[m] < key[Order[i]] <=> i >= p
  /\ InTree(tree', key', Elements', Order')

\* m leaves it.
Leaves(m, p) ==
  /\ p \in 1..Len(Order) /\ m = Order[p]
  /\ Elements' = Elements \ {m} /\ Order' = RemoveAt(Order, p)
  /\ \A x \in Elements' : key'[x] = key[x]
  /\ InTree(tree', key', Elements', Order')

\* It stays as it is.
Stays ==
  /\ Elements' = Elements /\ Order' = Order /\ \A x \in Elements : key'[x] = key[x]
  /\ InTree(tree', key', Elements', Order')

\* The step leaves an empty tree.
Empties ==
  /\ Elements' = {} /\ Order' = <<>>
  /\ InTree(tree', key', Elements', Order')

\* A step that calls Added adds one element to the order.
LEMMA Added1 ==
  ASSUME TreeInv, NEW m \in Node \ Elements, NEW ks, ks[m] \in Key,
         \A x \in Elements : ks[x] = key[x], ~Refuses(tree, ks, m),
         tree' = Added(tree, ks, m), key' = ks, Elements' = Elements \cup {m}
  PROVE  \E p : Enters(m, p)
<1>1. InTree(tree, ks, Elements, Order)
  BY OtherKeys DEF TreeInv
<1>2. PICK p : Adds(tree, ks, Elements, Order, m, p)
  BY <1>1, AddKeeps
<1>3. /\ InTree(tree', key', Elements', InsertAt(Order, p, m))
      /\ p \in 1..(Len(Order) + 1) /\ \A i \in 1..Len(Order) : ks[m] < ks[Order[i]] <=> i >= p
  BY <1>2 DEF Adds
<1>4. InOrder(tree', tree'.root) = InsertAt(Order, p, m)
  BY <1>3, InTreeFacts
<1>5. Order' = InsertAt(Order, p, m)
  BY <1>4 DEF Order
<1>6. \A i \in 1..Len(Order) : Order[i] \in Elements
  BY <1>1, InTreeFacts
<1>7. InTree(tree', key', Elements', Order')
  BY <1>3, <1>5
<1> HIDE DEF Order
<1>8. \A i \in 1..Len(Order) : key'[m] < key[Order[i]] <=> i >= p
  BY <1>3, <1>6
<1> QED
  BY <1>3, <1>5, <1>7, <1>8 DEF Enters

\* A step that calls Erased takes one element out of it.
LEMMA Erased1 ==
  ASSUME TreeInv, NEW m \in Elements, tree' = Erased(tree, m), Elements' = Elements \ {m},
         \A x \in Elements \ {m} : key'[x] = key[x]
  PROVE  \E p : Leaves(m, p)
<1>1. InTree(tree, key, Elements, Order)
  BY DEF TreeInv
<1>2. PICK p \in 1..Len(Order) : Order[p] = m
  BY <1>1, InTreeFacts
<1>3. InTree(Erased(tree, Order[p]), key, Elements \ {Order[p]}, RemoveAt(Order, p))
  BY <1>1, EraseKeeps
<1>4. InTree(tree', key, Elements', RemoveAt(Order, p))
  BY <1>2, <1>3
<1>5. InTree(tree', key', Elements', RemoveAt(Order, p))
  BY <1>4, OtherKeys
<1>6. InOrder(tree', tree'.root) = RemoveAt(Order, p)
  BY <1>5, InTreeFacts
<1>7. Order' = RemoveAt(Order, p)
  BY <1>6 DEF Order
<1>8. Leaves(m, p)
  BY <1>2, <1>5, <1>7 DEF Leaves
<1> QED
  BY <1>8

\* An insertion adds its element.
LEMMA InsertEnters ==
  ASSUME TypeOK, TreeInv, NEW m \in Node, NEW k \in Candidate[m], Insert(m, k)
  PROVE  \E p : Enters(m, p)
<1> DEFINE ks == [key EXCEPT ![m] = k]
<1>1. /\ k \in Key /\ k # NoKey /\ moving = Nil /\ moving' = Nil /\ m # Nil /\ key[m] = NoKey
      /\ Nil \notin Node
  BY OrderedAssumption DEF Insert, TreeInv
<1>2. /\ ks[m] = k /\ \A x \in Node \ {m} : ks[x] = key[x]
  BY DEF TypeOK
<1>3. tree' = Added(tree, ks, m) /\ key' = ks /\ ~Refuses(tree, ks, m)
  BY DEF Insert
<1> HIDE DEF ks
<1>4. m \in Node \ Elements /\ Elements \subseteq Node /\ Elements' = Elements \cup {m}
  BY <1>1, <1>2, <1>3 DEF Elements
<1>5. \A x \in Elements : ks[x] = key[x]
  BY <1>2, <1>4
<1> QED
  BY <1>1, <1>2, <1>3, <1>4, <1>5, Added1

\* Both ways back into the index.
LEMMA ReturnEnters ==
  ASSUME TypeOK, TreeInv, Relink \/ RollBack
  PROVE  \E p : Enters(moving, p)
<1>1. /\ moving \in Node /\ key[moving] \in Key /\ key[moving] # NoKey /\ Nil \notin Node
  BY OrderedAssumption DEF TreeInv, Relink, RollBack
<1>2. /\ tree' = Added(tree, key, moving) /\ key' = key /\ ~Refuses(tree, key, moving)
      /\ moving' = Nil
  BY DEF Relink, RollBack, Settle
<1>3. moving \in Node \ Elements /\ Elements' = Elements \cup {moving}
  BY <1>1, <1>2 DEF Elements
<1> QED
  BY <1>1, <1>2, <1>3, Added1

\* An erasure takes its element out.
LEMMA EraseLeaves ==
  ASSUME TypeOK, TreeInv, NEW m \in Node, Erase(m)
  PROVE  \E p : Leaves(m, p)
<1>1. /\ moving = Nil /\ moving' = Nil /\ key[m] # NoKey /\ Nil \notin Node
      /\ tree' = Erased(tree, m)
      /\ key'[m] = NoKey /\ \A x \in Node \ {m} : key'[x] = key[x]
  BY OrderedAssumption DEF Erase, TreeInv, TypeOK
<1>2. m \in Elements /\ Elements \subseteq Node /\ Elements' = Elements \ {m}
  BY <1>1 DEF Elements
<1>3. \A x \in Elements \ {m} : key'[x] = key[x]
  BY <1>1, <1>2
<1> QED
  BY <1>1, <1>2, <1>3, Erased1

\* The first half of a reposition takes its element out.
LEMMA RekeyLeaves ==
  ASSUME TypeOK, TreeInv, NEW m \in Node, NEW k \in Candidate[m], Rekey(m, k)
  PROVE  \E p : Leaves(m, p)
<1>1. /\ moving = Nil /\ moving' = m /\ key[m] # NoKey /\ Nil \notin Node
      /\ tree' = Erased(tree, m) /\ \A x \in Node \ {m} : key'[x] = key[x]
  BY OrderedAssumption DEF Rekey, TreeInv, TypeOK
<1>2. m \in Elements /\ Elements \subseteq Node /\ Elements' = Elements \ {m}
  BY <1>1 DEF Elements
<1>3. \A x \in Elements \ {m} : key'[x] = key[x]
  BY <1>1, <1>2
<1> QED
  BY <1>1, <1>2, <1>3, Erased1

\* erase(it) takes the element under the iterator out.
LEMMA CursorLeaves ==
  ASSUME TypeOK, TreeInv, cur \in Elements \cup {Nil}, EraseAtCursor
  PROVE  \E p : Leaves(cur, p)
<1>1. /\ moving = Nil /\ moving' = Nil /\ cur \in Elements /\ Nil \notin Node
      /\ tree' = Erased(tree, cur)
  BY OrderedAssumption DEF EraseAtCursor, TreeInv
<1>2. Elements \subseteq Node
  BY DEF Elements
<1>3. key'[cur] = NoKey /\ \A x \in Node \ {cur} : key'[x] = key[x]
  BY <1>1, <1>2 DEF EraseAtCursor, TypeOK
<1>4. Elements' = Elements \ {cur}
  BY <1>1, <1>2, <1>3 DEF Elements
<1>5. \A x \in Elements \ {cur} : key'[x] = key[x]
  BY <1>2, <1>3
<1> QED
  BY <1>1, <1>4, <1>5, Erased1

\* Where another index refuses after this one has taken the node, it goes out again.
LEMMA GiveUpStays ==
  ASSUME TypeOK, TreeInv, GiveUp
  PROVE  Stays
<1>1. /\ moving \in Node /\ key[moving] \in Key /\ moving' = moving
      /\ moving \notin Elements /\ Elements \subseteq Node
      /\ \A x \in Node \ {moving} : key'[x] = key[x]
      /\ InTree(tree, key, Elements, Order)
  BY DEF GiveUp, TreeInv, TypeOK, Elements
<1>2. Elements' = Elements /\ \A x \in Elements : key'[x] = key[x]
  <2>1. Elements' = {n \in Node : key'[n] # NoKey} \ {moving}
    BY <1>1 DEF Elements
  <2>2. {n \in Node : key'[n] # NoKey} \ {moving} = Elements
    BY <1>1 DEF Elements
  <2> QED
    BY <1>1, <2>1, <2>2
<1>3. ASSUME InTree(tree', key, Elements, Order) PROVE Stays
  <2>1. InTree(tree', key', Elements, Order)
    BY <1>2, <1>3, OtherKeys
  <2>2. InOrder(tree', tree'.root) = Order
    BY <2>1, InTreeFacts
  <2>3. Order' = Order
    BY <2>2 DEF Order
  <2> QED
    BY <1>2, <2>1, <2>3 DEF Stays
<1>4. CASE UNCHANGED tree
  BY <1>1, <1>3, <1>4
<1>5. CASE ~Refuses(tree, key, moving) /\ tree' = Erased(Added(tree, key, moving), moving)
  <2> DEFINE u == Added(tree, key, moving)
             F == Elements \cup {moving}
  <2>1. PICK p : Adds(tree, key, Elements, Order, moving, p)
    BY <1>1, <1>5, AddKeeps
  <2> DEFINE w == InsertAt(Order, p, moving)
  <2>2. InTree(u, key, F, w) /\ p \in 1..(Len(Order) + 1)
    BY <2>1 DEF Adds
  <2>3. Order \in Seq(Node)
    BY <1>1, InTreeFacts
  <2>4. p \in 1..Len(w) /\ w[p] = moving /\ RemoveAt(w, p) = Order
    <3>1. moving \in Node
      BY <1>1
    <3> QED
      BY <2>2, <2>3, <3>1, InsertedThenRemoved
  <2> HIDE DEF u, w, F
  <2>5. InTree(Erased(u, w[p]), key, F \ {w[p]}, RemoveAt(w, p))
    BY <2>2, <2>4, EraseKeeps
  <2>6. F \ {w[p]} = Elements
    BY <1>1, <2>4 DEF F
  <2>7. InTree(tree', key, Elements, Order)
    BY <1>5, <2>4, <2>5, <2>6 DEF u
  <2> QED
    BY <1>3, <2>7
<1> QED
  BY <1>4, <1>5 DEF GiveUp

\* clear() empties the tree.
LEMMA ClearEmpties ==
  ASSUME TypeOK, TreeInv, Clear
  PROVE  Empties
<1>1. tree' \in Trees /\ tree'.root = Nil /\ tree'.n = 0
  BY DEF Clear, TypeOK, Trees, Link
<1>2. Elements' = {}
  BY DEF Clear, Elements
<1>3. InTree(tree', key', {}, <<>>)
  BY <1>1, NoTree
<1>4. InOrder(tree', tree'.root) = <<>>
  BY <1>3, InTreeFacts
<1>5. Order' = <<>>
  BY <1>4 DEF Order
<1> QED
  BY <1>2, <1>3, <1>5 DEF Empties

\* The steps of an iterator and of a query leave the index alone.
LEMMA UntouchedStays ==
  ASSUME TreeInv, UNCHANGED <<tree, key, moving>>
  PROVE  Stays
<1>1. Order' = Order /\ Elements' = Elements
  BY DEF Order, Elements
<1> QED
  BY <1>1 DEF Stays, TreeInv

-----------------------------------------------------------------------------
(* The inductive invariant.                                                *)

\* What the iterator has passed lies behind it; what lies behind it, it has passed, or
\* it came there after the walk began.
WalkInv ==
  /\ walking => /\ cur \in Elements \cup {Nil}
                /\ seen \subseteq Behind(Order, cur)
                /\ Behind(Order, cur) \subseteq seen \cup late
                /\ pc # "idle" => moving \in late
  /\ ~walking => seen = {}

\* The key of the iterator's element is new to it.
Smaller == cur # Nil => \A x \in Behind(Order, cur) : key[x] < key[cur]

\* A query has an iterator.  That of group_by stands on the first element of a group, that
\* of equi_join on the element whose partners it yields.
GroupInv ==
  /\ job # "none" => walking
  /\ job = "group" => Smaller
  /\ job = "emit" => cur # Nil

\* The inductive invariant.
IInv == TypeOK /\ TreeInv /\ WalkInv /\ GroupInv

\* The order of a sound index, with the facts that the steps need.
LEMMA IndexFacts ==
  ASSUME NEW t, NEW ks, NEW E, NEW o, InTree(t, ks, E, o)
  PROVE  /\ t \in Trees /\ t.n <= Cardinality(Node) /\ Distinct(o) /\ o \in Seq(Node)
         /\ Len(o) \in Nat /\ E \subseteq Node /\ Nil \notin E
         /\ \A i \in 1..Len(o) : o[i] \in E /\ ks[o[i]] \in Int /\ o[i] # Nil
         /\ \A x \in E : \E i \in 1..Len(o) : o[i] = x
         /\ \A c : Behind(o, c) \subseteq E
<1>1. /\ t \in Trees /\ o \in Seq(Node) /\ Len(o) \in Nat /\ E \subseteq Node /\ Nil \notin E
      /\ \A i \in 1..Len(o) : o[i] \in E /\ ks[o[i]] \in Int
      /\ \A x \in E : \E i \in 1..Len(o) : o[i] = x
      /\ \A i, j \in 1..Len(o) : o[i] = o[j] => i = j
  BY InTreeFacts
<1>2. Distinct(o)
  BY <1>1 DEF Distinct
<1>3. t.n <= Cardinality(Node)
  <2>1. PICK P, Q : Spans(t, E, o, P, Q)
    BY DEF InTree, Sound
  <2>2. Numbered(o, E, P)
    BY <2>1 DEF Spans
  <2>3. Len(o) <= Rounds
    BY <2>2, OrderFits
  <2> QED
    BY <2>3 DEF InTree, Rounds
<1>4. \A c : Behind(o, c) \subseteq E
  BY <1>1 DEF Behind
<1>5. \A i \in 1..Len(o) : o[i] # Nil
  BY <1>1
<1> QED
  BY <1>1, <1>2, <1>3, <1>4, <1>5

\* A node enters while the iterator stands elsewhere.
LEMMA WalkEntered ==
  ASSUME TreeInv, WalkInv, NEW m, NEW p, Enters(m, p), pc' = "idle",
         Disturb(m, TRUE) \/ (UNCHANGED walk /\ (walking => m \in late))
  PROVE  /\ WalkInv' /\ (walking' => walking /\ cur' = cur)
         /\ walking' /\ Smaller => Smaller'
<1>1. InTree(tree, key, Elements, Order) /\ m \in Node \ Elements /\ p \in 1..(Len(Order) + 1)
      /\ Order' = InsertAt(Order, p, m) /\ Elements' = Elements \cup {m}
      /\ \A x \in Elements : key'[x] = key[x]
      /\ \A i \in 1..Len(Order) : key'[m] < key[Order[i]] <=> i >= p
  BY DEF TreeInv, Enters
<1>2. /\ Distinct(Order) /\ Len(Order) \in Nat /\ Nil \notin Elements
      /\ \A i \in 1..Len(Order) : Order[i] \in Elements
      /\ \A x \in Elements : \E i \in 1..Len(Order) : Order[i] = x
      /\ \A c : Behind(Order, c) \subseteq Elements
  BY <1>1, IndexFacts
<1>3. CASE ~walking
  <2>1. ~walking' /\ seen' = seen
    BY <1>3 DEF Disturb, walk
  <2> QED
    BY <1>3, <2>1 DEF WalkInv
<1>4. CASE walking
  <2>1. /\ cur \in Elements \cup {Nil} /\ seen \subseteq Behind(Order, cur)
        /\ Behind(Order, cur) \subseteq seen \cup late
    BY <1>4 DEF WalkInv
  <2>2. cur # m /\ m \notin seen
    <3>1. Nil \notin Node
      BY OrderedAssumption
    <3> QED
      BY <1>1, <1>2, <2>1, <3>1
  <2>3. walking' = TRUE /\ cur' = cur /\ seen' = seen /\ late' = late \cup {m}
    <3>1. CASE Disturb(m, TRUE)
      BY <1>4, <2>2, <3>1 DEF Disturb
    <3>2. CASE UNCHANGED walk /\ (walking => m \in late)
      BY <1>4, <3>2 DEF walk
    <3> QED
      BY <3>1, <3>2
  <2>4. \A i \in 1..Len(Order) : Order[i] # m
    BY <1>1, <1>2
  <2>5. /\ Behind(Order, cur) \subseteq Behind(Order', cur)
        /\ Behind(Order', cur) \subseteq Behind(Order, cur) \cup {m}
        /\ \A k \in 1..Len(Order) : Order[k] = cur /\ m \in Behind(Order', cur) => k >= p
    <3> DEFINE o == Order
    <3>1. /\ Distinct(o) /\ p \in 1..(Len(o) + 1) /\ m \in Node /\ cur # m
          /\ \A i \in 1..Len(o) : o[i] # m
      BY <1>1, <1>2, <2>2, <2>4
    <3> HIDE DEF o
    <3>2. /\ Behind(o, cur) \subseteq Behind(InsertAt(o, p, m), cur)
          /\ Behind(InsertAt(o, p, m), cur) \subseteq Behind(o, cur) \cup {m}
          /\ \A k \in 1..Len(o) : o[k] = cur /\ m \in Behind(InsertAt(o, p, m), cur) => k >= p
      BY <3>1, BehindInserted
    <3>3. Order' = InsertAt(o, p, m) /\ o = Order
      BY <1>1 DEF o
    <3> QED
      BY <3>2, <3>3
  <2>6. WalkInv'
    BY <1>1, <2>1, <2>3, <2>5 DEF WalkInv
  <2>7. ASSUME Smaller PROVE Smaller'
    <3> SUFFICES ASSUME cur # Nil, NEW x \in Behind(Order', cur) PROVE key'[x] < key'[cur]
      BY <2>3 DEF Smaller
    <3>1. cur \in Elements /\ key'[cur] = key[cur]
      BY <1>1, <2>1
    <3>2. CASE x \in Behind(Order, cur)
      BY <1>1, <1>2, <2>7, <3>1, <3>2 DEF Smaller
    <3>3. CASE x = m
      <4>1. PICK k \in 1..Len(Order) : Order[k] = cur
        BY <1>2, <3>1
      <4>2. k >= p
        BY <2>5, <3>3, <4>1
      <4> QED
        BY <1>1, <3>1, <3>3, <4>1, <4>2
    <3> QED
      BY <2>5, <3>2, <3>3
  <2> QED
    BY <1>4, <2>3, <2>6, <2>7
<1> QED
  BY <1>3, <1>4

\* A node leaves: the walk is over if the iterator stands on it.
LEMMA WalkLeft ==
  ASSUME TreeInv, WalkInv, NEW m, NEW p, Leaves(m, p), NEW b \in BOOLEAN, Disturb(m, b),
         pc' # "idle" => b /\ moving' = m
  PROVE  /\ WalkInv' /\ (walking' => walking /\ cur' = cur)
         /\ walking' /\ Smaller => Smaller'
<1>1. InTree(tree, key, Elements, Order) /\ p \in 1..Len(Order) /\ m = Order[p]
      /\ Order' = RemoveAt(Order, p) /\ Elements' = Elements \ {m}
      /\ \A x \in Elements' : key'[x] = key[x]
  BY DEF TreeInv, Leaves
<1>2. /\ Distinct(Order) /\ Len(Order) \in Nat /\ Nil \notin Elements
      /\ \A i \in 1..Len(Order) : Order[i] \in Elements
      /\ \A c : Behind(Order, c) \subseteq Elements
  BY <1>1, IndexFacts
<1>3. CASE ~walking
  <2>1. ~walking' /\ seen' = seen
    BY <1>3 DEF Disturb, walk
  <2> QED
    BY <1>3, <2>1 DEF WalkInv
<1>4. CASE walking /\ cur = m
  <2>1. ~walking' /\ seen' = {}
    BY <1>4 DEF Disturb, StopWalk
  <2> QED
    BY <2>1 DEF WalkInv
<1>5. CASE walking /\ cur # m
  <2>1. /\ cur \in Elements \cup {Nil} /\ seen \subseteq Behind(Order, cur)
        /\ Behind(Order, cur) \subseteq seen \cup late
    BY <1>5 DEF WalkInv
  <2>2. /\ walking' = TRUE /\ cur' = cur /\ seen' = seen \ {m}
        /\ late' = IF b THEN late \cup {m} ELSE late \ {m}
    BY <1>5 DEF Disturb
  <2>3. Behind(Order', cur) = Behind(Order, cur) \ {m}
    <3> DEFINE o == Order
    <3>1. Distinct(o) /\ p \in 1..Len(o) /\ cur # o[p]
      BY <1>1, <1>2, <1>5
    <3> HIDE DEF o
    <3>2. Behind(RemoveAt(o, p), cur) = Behind(o, cur) \ {o[p]}
      BY <3>1, BehindRemoved
    <3>3. Order' = RemoveAt(o, p) /\ o = Order /\ m = o[p]
      BY <1>1 DEF o
    <3> QED
      BY <3>2, <3>3
  <2>4. pc' # "idle" => moving' \in late'
    BY <2>2
  <2>5. Behind(Order', cur) \subseteq seen' \cup late'
    BY <2>1, <2>2, <2>3
  <2>6. WalkInv'
    BY <1>1, <1>5, <2>1, <2>2, <2>3, <2>4, <2>5 DEF WalkInv
  <2>7. ASSUME Smaller PROVE Smaller'
    <3> SUFFICES ASSUME cur # Nil, NEW x \in Behind(Order', cur) PROVE key'[x] < key'[cur]
      BY <2>2 DEF Smaller
    <3>1. cur \in Elements' /\ x \in Elements' /\ x \in Behind(Order, cur)
      BY <1>1, <1>2, <1>5, <2>1, <2>3
    <3> QED
      BY <1>1, <2>7, <3>1 DEF Smaller
  <2> QED
    BY <1>5, <2>2, <2>6, <2>7
<1> QED
  BY <1>3, <1>4, <1>5

-----------------------------------------------------------------------------
(* Every action keeps it: the container's calls.                           *)

\* The types of the iterator's part of the state.
WalkType == walking \in BOOLEAN /\ cur \in Link /\ seen \subseteq Node /\ late \subseteq Node

\* The types of the rest.
RestType ==
  /\ key \in [Node -> Key \cup {NoKey}] /\ pc \in {"idle", "out", "back"}
  /\ moving \in Link /\ old \in Key \cup {NoKey} /\ was \in Seq(Node)

\* TypeOK has both parts.
LEMMA TypeParts ==
  ASSUME TypeOK
  PROVE  WalkType /\ RestType
BY DEF TypeOK, WalkType, RestType

\* Both parts and a tree make TypeOK.
LEMMA TypeOfParts ==
  ASSUME InTree(tree', key', Elements', Order'), WalkType', RestType'
  PROVE  TypeOK'
<1>1. tree' \in Trees /\ tree'.n <= Cardinality(Node)
  BY IndexFacts
<1> QED
  BY <1>1 DEF TypeOK, WalkType, RestType

\* What happens next to an iterator keeps its type.
LEMMA DisturbType ==
  ASSUME TypeOK, NEW m \in Node, NEW b \in BOOLEAN, Disturb(m, b)
  PROVE  WalkType'
<1>1. CASE ~walking
  BY <1>1 DEF Disturb, walk, TypeOK, WalkType
<1>2. CASE walking /\ cur = m
  BY <1>2 DEF Disturb, StopWalk, TypeOK, WalkType, Link
<1>3. CASE walking /\ cur # m
  <2>1. walking' = walking /\ cur' = cur /\ seen' = seen \ {m}
    BY <1>3 DEF Disturb
  <2>2. late' = late \cup {m} \/ late' = late \ {m}
    BY <1>3 DEF Disturb
  <2>3. late' \subseteq Node
    BY <2>2 DEF TypeOK
  <2> QED
    BY <2>1, <2>3 DEF TypeOK, WalkType
<1> QED
  BY <1>1, <1>2, <1>3

\* A walk that ends keeps its type.
LEMMA StopType ==
  ASSUME TypeOK, StopWalk
  PROVE  WalkType' /\ WalkInv' /\ ~walking'
BY DEF StopWalk, WalkType, WalkInv, Link

\* What a change of the container leaves true.
Keeps ==
  /\ TypeOK' /\ TreeInv' /\ WalkInv'
  /\ walking' => walking /\ cur' = cur
  /\ walking' /\ Smaller => Smaller'

\* An insertion keeps the invariant of a walk.
LEMMA InsertKeeps ==
  ASSUME TypeOK, TreeInv, WalkInv, NEW m \in Node, NEW k \in Candidate[m], Insert(m, k)
  PROVE  Keeps
<1>1. PICK p : Enters(m, p)
  BY InsertEnters
<1>2. /\ pc = "idle" /\ pc' = "idle" /\ moving' = moving /\ old' = old /\ was' = was
      /\ Disturb(m, TRUE) /\ key' = [key EXCEPT ![m] = k]
  BY DEF Insert
<1>3. InTree(tree', key', Elements', Order')
  BY <1>1 DEF Enters
<1>4. k \in Key
  BY OrderedAssumption
<1>5. RestType'
  BY <1>2, <1>4 DEF TypeOK, RestType
<1>6. TypeOK'
  BY <1>2, <1>3, <1>5, DisturbType, TypeOfParts
<1>7. TreeInv'
  BY <1>2, <1>3 DEF TreeInv
<1>8. /\ WalkInv' /\ (walking' => walking /\ cur' = cur)
      /\ walking' /\ Smaller => Smaller'
  BY <1>1, <1>2, WalkEntered
<1> QED
  BY <1>6, <1>7, <1>8 DEF Keeps

\* So does the second half of a reposition, granted or rolled back.
LEMMA ReturnKeeps ==
  ASSUME TypeOK, TreeInv, WalkInv, Relink \/ RollBack
  PROVE  Keeps
<1>1. PICK p : Enters(moving, p)
  BY ReturnEnters
<1>2. /\ pc # "idle" /\ pc' = "idle" /\ moving' = Nil /\ old' = NoKey /\ was' = <<>>
      /\ UNCHANGED walk /\ key' = key
  BY DEF Relink, RollBack, Settle
<1>3. InTree(tree', key', Elements', Order')
  BY <1>1 DEF Enters
<1>4. RestType' /\ WalkType'
  <2>1. <<>> \in Seq(Node) /\ Nil \in Link
    BY EmptySeq DEF Link
  <2>2. WalkType'
    BY <1>2 DEF TypeOK, WalkType, walk
  <2> QED
    BY <1>2, <2>1, <2>2 DEF TypeOK, RestType
<1>5. TypeOK'
  BY <1>3, <1>4, TypeOfParts
<1>6. TreeInv'
  BY <1>2, <1>3 DEF TreeInv
<1>7. walking => moving \in late
  BY <1>2 DEF WalkInv
<1>8. /\ WalkInv' /\ (walking' => walking /\ cur' = cur)
      /\ walking' /\ Smaller => Smaller'
  BY <1>1, <1>2, <1>7, WalkEntered
<1> QED
  BY <1>5, <1>6, <1>8 DEF Keeps

\* So does an erasure elsewhere.
LEMMA EraseKeepsAll ==
  ASSUME TypeOK, TreeInv, WalkInv, NEW m \in Node, Erase(m)
  PROVE  Keeps
<1>1. PICK p : Leaves(m, p)
  BY EraseLeaves
<1>2. /\ pc = "idle" /\ pc' = "idle" /\ moving' = moving /\ old' = old /\ was' = was
      /\ Disturb(m, FALSE) /\ key' = [key EXCEPT ![m] = NoKey]
  BY DEF Erase
<1>3. InTree(tree', key', Elements', Order')
  BY <1>1 DEF Leaves
<1>4. RestType'
  BY <1>2 DEF TypeOK, RestType
<1>5. WalkType'
  BY <1>2, DisturbType
<1>6. TypeOK'
  BY <1>3, <1>4, <1>5, TypeOfParts
<1>7. TreeInv'
  BY <1>2, <1>3 DEF TreeInv
<1>8. /\ WalkInv' /\ (walking' => walking /\ cur' = cur)
      /\ walking' /\ Smaller => Smaller'
  BY <1>1, <1>2, WalkLeft
<1> QED
  BY <1>6, <1>7, <1>8 DEF Keeps

\* So does the first half of a reposition.
LEMMA RekeyKeeps ==
  ASSUME TypeOK, TreeInv, WalkInv, NEW m \in Node, NEW k \in Candidate[m], Rekey(m, k)
  PROVE  Keeps
<1>1. PICK p : Leaves(m, p)
  BY RekeyLeaves
<1>2. /\ pc = "idle" /\ pc' = "out" /\ moving' = m /\ old' = key[m] /\ was' = Order
      /\ Disturb(m, TRUE) /\ key' = [key EXCEPT ![m] = k] /\ key[m] # NoKey
  BY DEF Rekey
<1>3. InTree(tree', key', Elements', Order') /\ InTree(tree, key, Elements, Order)
  BY <1>1 DEF Leaves, TreeInv
<1>4. k \in Key /\ key[m] \in Key
  BY <1>2, OrderedAssumption DEF TypeOK
<1>5. RestType'
  <2>1. Order \in Seq(Node)
    BY <1>3, IndexFacts
  <2> QED
    BY <1>2, <1>4, <2>1 DEF TypeOK, RestType, Link
<1>6. WalkType'
  BY <1>2, DisturbType
<1>7. TypeOK'
  BY <1>3, <1>5, <1>6, TypeOfParts
<1>8. key'[m] = k
  BY <1>2 DEF TypeOK
<1>9. TreeInv'
  BY <1>2, <1>3, <1>4, <1>8 DEF TreeInv
<1>10. /\ WalkInv' /\ (walking' => walking /\ cur' = cur)
       /\ walking' /\ Smaller => Smaller'
  BY <1>1, <1>2, WalkLeft
<1> QED
  BY <1>7, <1>9, <1>10 DEF Keeps

\* So does a step that leaves the order alone.
LEMMA StaysKeeps ==
  ASSUME TreeInv, WalkInv, Stays, UNCHANGED walk, pc' # "idle" => pc # "idle" /\ moving' = moving
  PROVE  /\ WalkInv' /\ (walking' => walking /\ cur' = cur)
         /\ walking' /\ Smaller => Smaller'
<1>1. walking' = walking /\ cur' = cur /\ seen' = seen /\ late' = late
  BY DEF walk
<1>2. Elements' = Elements /\ Order' = Order /\ \A x \in Elements : key'[x] = key[x]
  BY DEF Stays
<1>3. WalkInv'
  BY <1>1, <1>2 DEF WalkInv
<1>4. ASSUME walking', Smaller PROVE Smaller'
  <2>1. cur \in Elements \cup {Nil}
    BY <1>1, <1>4 DEF WalkInv
  <2>2. Behind(Order, cur) \subseteq Elements
    <3>1. InTree(tree, key, Elements, Order)
      BY DEF TreeInv
    <3> QED
      BY <3>1, IndexFacts
  <2> QED
    BY <1>1, <1>2, <1>4, <2>1, <2>2 DEF Smaller
<1> QED
  BY <1>1, <1>3, <1>4

\* So does a refusal by a later index.
LEMMA GiveUpKeeps ==
  ASSUME TypeOK, TreeInv, WalkInv, GiveUp
  PROVE  Keeps
<1>1. Stays
  BY GiveUpStays
<1>2. /\ pc # "idle" /\ pc' = "back" /\ moving' = moving /\ old' = old /\ was' = was
      /\ UNCHANGED walk /\ key' = [key EXCEPT ![moving] = old]
  BY DEF GiveUp
<1>3. InTree(tree', key', Elements', Order')
  BY <1>1 DEF Stays
<1>4. moving \in Node /\ old \in Key
  BY <1>2 DEF TreeInv
<1>5. RestType' /\ WalkType'
  <2>1. WalkType'
    BY <1>2 DEF TypeOK, WalkType, walk
  <2> QED
    BY <1>2, <1>4, <2>1 DEF TypeOK, RestType
<1>6. TypeOK'
  BY <1>3, <1>5, TypeOfParts
<1>7. key'[moving] = old
  BY <1>2, <1>4 DEF TypeOK
<1>8. TreeInv'
  BY <1>2, <1>3, <1>4, <1>7 DEF TreeInv
<1>9. /\ WalkInv' /\ (walking' => walking /\ cur' = cur)
      /\ walking' /\ Smaller => Smaller'
  BY <1>1, <1>2, StaysKeeps
<1> QED
  BY <1>6, <1>8, <1>9 DEF Keeps

\* So does clear(), which ends it.
LEMMA ClearKeeps ==
  ASSUME TypeOK, TreeInv, WalkInv, Clear
  PROVE  Keeps
<1>1. Empties
  BY ClearEmpties
<1>2. /\ pc = "idle" /\ pc' = "idle" /\ moving' = moving /\ old' = old /\ was' = was
      /\ StopWalk /\ key' = [m \in Node |-> NoKey]
  BY DEF Clear
<1>3. InTree(tree', key', Elements', Order')
  BY <1>1 DEF Empties
<1>4. RestType'
  BY <1>2 DEF TypeOK, RestType
<1>5. WalkType' /\ WalkInv' /\ ~walking'
  BY <1>2, StopType
<1>6. TypeOK'
  BY <1>3, <1>4, <1>5, TypeOfParts
<1>7. TreeInv'
  BY <1>2, <1>3 DEF TreeInv
<1> QED
  BY <1>5, <1>6, <1>7 DEF Keeps

\* So does every change of the tree.
LEMMA ChangeKeeps ==
  ASSUME TypeOK, TreeInv, WalkInv, Change
  PROVE  Keeps
BY EraseKeepsAll, InsertKeeps, RekeyKeeps, ReturnKeeps, GiveUpKeeps, ClearKeeps DEF Change

-----------------------------------------------------------------------------
(* Every action keeps it: the steps of an iterator.                        *)

\* What an iterator into the index meets.
Iterates ==
  /\ Begin(tree) = At(Order, 1)
  /\ \A p \in 1..Len(Order) : /\ Step(tree, Order[p], "r") = At(Order, p + 1)
                              /\ Step(tree, Order[p], "l") = At(Order, p - 1)
  /\ \A i \in 1..(Len(Order) + 1) : \A j \in i..(Len(Order) + 1) :
       Run(tree, At(Order, i), At(Order, j)) = SubSeq(Order, i, j - 1)

\* ++ goes from each element to the next in the order, and ends.
LEMMA OrderIterates ==
  ASSUME TreeInv
  PROVE  Iterates
<1> DEFINE o == Order
<1>1. InTree(tree, key, Elements, o)
  BY DEF TreeInv
<1> HIDE DEF o
<1>2. PICK P, Q : Spans(tree, Elements, o, P, Q)
  BY <1>1 DEF InTree, Sound
<1>3. Numbered(o, Elements, P) /\ \A i \in 1..Len(o) : o[i] \in Elements
  BY <1>1, <1>2, IndexFacts DEF Spans
<1>4. \A i \in 1..Len(o) : P[o[i]] = i
  BY <1>3 DEF Numbered
<1>5. Begin(tree) = At(o, 1)
  BY <1>2, BeginFound
<1>6. ASSUME NEW p \in 1..Len(o)
      PROVE  Step(tree, o[p], "r") = At(o, p + 1) /\ Step(tree, o[p], "l") = At(o, p - 1)
  <2>1. "l" \in Side /\ "r" \in Side /\ Toward("r") = 1 /\ Toward("l") = -1
    BY DEF Side, Toward
  <2>2. Step(tree, o[p], "r") = At(o, P[o[p]] + Toward("r"))
    BY <1>2, <1>3, <2>1, StepFound
  <2>3. Step(tree, o[p], "l") = At(o, P[o[p]] + Toward("l"))
    BY <1>2, <1>3, <2>1, StepFound
  <2>4. p + Toward("r") = p + 1 /\ p + Toward("l") = p - 1
    BY <2>1
  <2> QED
    BY <1>4, <2>2, <2>3, <2>4
<1>7. \A i \in 1..(Len(o) + 1) : \A j \in i..(Len(o) + 1) :
        Run(tree, At(o, i), At(o, j)) = SubSeq(o, i, j - 1)
  BY <1>2, RunFound
<1> QED
  BY <1>5, <1>6, <1>7 DEF Iterates, o

\* Where it stands.
LEMMA CursorAt ==
  ASSUME TreeInv, NEW c \in Elements \cup {Nil}
  PROVE  \E p \in 1..(Len(Order) + 1) :
           /\ At(Order, p) = c
           /\ c # Nil => p \in 1..Len(Order) /\ Order[p] = c
           /\ c = Nil => p = Len(Order) + 1
<1> DEFINE o == Order
<1>1. InTree(tree, key, Elements, o)
  BY DEF TreeInv
<1> HIDE DEF o
<1>2. /\ Len(o) \in Nat /\ Nil \notin Elements
      /\ \A x \in Elements : \E i \in 1..Len(o) : o[i] = x
  BY <1>1, IndexFacts
<1>3. CASE c = Nil
  <2>1. Len(o) + 1 \in 1..(Len(o) + 1) /\ Len(o) + 1 \notin 1..Len(o)
    BY <1>2
  <2>2. At(o, Len(o) + 1) = c
    BY <1>3, <2>1 DEF At
  <2> QED
    BY <1>3, <2>1, <2>2 DEF o
<1>4. CASE c # Nil
  <2>1. PICK p \in 1..Len(o) : o[p] = c
    BY <1>2, <1>4
  <2>2. p \in 1..(Len(o) + 1) /\ At(o, p) = c
    BY <1>2, <2>1 DEF At
  <2> QED
    BY <1>4, <2>1, <2>2 DEF o
<1> QED
  BY <1>3, <1>4

\* The iterator goes on from position p to position q.
Moves(p, q) ==
  /\ p \in 1..(Len(Order) + 1) /\ q \in p..(Len(Order) + 1)
  /\ cur = At(Order, p) /\ cur' = At(Order, q)
  /\ seen' = seen \cup {x \in Node : \E i \in p..(q - 1) : Order[i] = x}
  /\ UNCHANGED <<tree, key, pc, moving, old, walking, late, was>>

\* What a step of the iterator leaves true.
WalkKeeps == TypeOK' /\ TreeInv' /\ WalkInv'

\* A step that leaves tree and keys alone keeps all that is said of them.
LEMMA StaysTree ==
  ASSUME TypeOK, TreeInv, UNCHANGED <<tree, key, pc, moving, old, was>>, WalkType'
  PROVE  TypeOK' /\ TreeInv' /\ Order' = Order /\ Elements' = Elements
<1>1. Order' = Order /\ Elements' = Elements
  BY DEF Order, Elements
<1>2. RestType'
  BY DEF TypeOK, RestType
<1>3. InTree(tree', key', Elements', Order')
  BY <1>1 DEF TreeInv
<1>4. TypeOK'
  BY <1>2, <1>3, TypeOfParts
<1> QED
  BY <1>1, <1>3, <1>4 DEF TreeInv

\* An iterator that moves on, over elements it counts as seen, keeps the invariant.
LEMMA MoveKeeps ==
  ASSUME TypeOK, TreeInv, WalkInv, walking, NEW p, NEW q, Moves(p, q)
  PROVE  WalkKeeps
<1> DEFINE o == Order
           passed == {x \in Node : \E i \in p..(q - 1) : o[i] = x}
<1>1. InTree(tree, key, Elements, o)
  BY DEF TreeInv
<1>2. /\ p \in 1..(Len(o) + 1) /\ q \in p..(Len(o) + 1)
      /\ cur = At(o, p) /\ cur' = At(o, q) /\ seen' = seen \cup passed
      /\ UNCHANGED <<tree, key, pc, moving, old, walking, late, was>>
  BY DEF Moves
<1>3. /\ seen \subseteq Behind(o, cur) /\ Behind(o, cur) \subseteq seen \cup late
      /\ (pc # "idle" => moving \in late)
  BY DEF WalkInv
<1> HIDE DEF o
<1>4. /\ Distinct(o) /\ Len(o) \in Nat /\ Elements \subseteq Node
      /\ \A i \in 1..Len(o) : o[i] \in Elements
  BY <1>1, IndexFacts
<1>5. q \in 1..(Len(o) + 1)
  BY <1>2, <1>4
<1>6. cur' \in Elements \cup {Nil}
  BY <1>2, <1>4 DEF At
<1>7. Behind(o, cur') = Behind(o, cur) \cup passed
  <2>1. Behind(o, cur') = {x \in Node : \E i \in 1..Len(o) : o[i] = x /\ i < q}
    BY <1>2, <1>4, <1>5, BehindAt
  <2>2. Behind(o, cur) = {x \in Node : \E i \in 1..Len(o) : o[i] = x /\ i < p}
    BY <1>2, <1>4, BehindAt
  <2>3. \A i : (i \in 1..Len(o) /\ i < q) <=> (i \in 1..Len(o) /\ i < p) \/ i \in p..(q - 1)
    BY <1>2, <1>4
  <2> QED
    BY <2>1, <2>2, <2>3
<1> HIDE DEF passed
<1>8. WalkType'
  <2>1. seen' \subseteq Node
    BY <1>2 DEF TypeOK, passed
  <2> QED
    BY <1>2, <1>4, <1>6, <2>1 DEF TypeOK, WalkType, Link
<1>9. TypeOK' /\ TreeInv' /\ Order' = o /\ Elements' = Elements
  <2>1. UNCHANGED <<tree, key, pc, moving, old, was>>
    BY <1>2
  <2> QED
    BY <1>8, <2>1, StaysTree DEF o
<1>10. WalkInv'
  BY <1>2, <1>3, <1>6, <1>7, <1>9 DEF WalkInv
<1> QED
  BY <1>9, <1>10 DEF WalkKeeps

\* begin().
LEMMA StartKeeps ==
  ASSUME TypeOK, TreeInv, WalkInv, ~walking, walking' = TRUE, cur' = Begin(tree), pc = "idle",
         UNCHANGED <<tree, key, pc, moving, old, seen, late, was>>
  PROVE  WalkKeeps /\ (cur' # Nil => Behind(Order', cur') = {})
<1> DEFINE o == Order
<1>1. InTree(tree, key, Elements, o) /\ cur' = At(o, 1)
  BY OrderIterates DEF TreeInv, Iterates
<1> HIDE DEF o
<1>2. /\ Distinct(o) /\ Len(o) \in Nat /\ Elements \subseteq Node
      /\ \A i \in 1..Len(o) : o[i] \in Elements
  BY <1>1, IndexFacts
<1>3. cur' \in Elements \cup {Nil}
  BY <1>1, <1>2 DEF At
<1>4. Behind(o, cur') = {}
  <2>1. 1 \in 1..(Len(o) + 1) /\ \A i \in 1..Len(o) : ~(i < 1)
    BY <1>2
  <2>2. Behind(o, cur') = {x \in Node : \E i \in 1..Len(o) : o[i] = x /\ i < 1}
    BY <1>1, <1>2, <2>1, BehindAt
  <2> QED
    BY <2>1, <2>2
<1>5. WalkType'
  BY <1>2, <1>3 DEF TypeOK, WalkType, Link
<1>6. TypeOK' /\ TreeInv' /\ Order' = o /\ Elements' = Elements
  BY <1>5, StaysTree DEF o
<1>7. WalkInv'
  BY <1>3, <1>4, <1>6 DEF WalkInv
<1> QED
  BY <1>4, <1>6, <1>7 DEF WalkKeeps

\* ++.
LEMMA StepMoves ==
  ASSUME TypeOK, TreeInv, WalkInv, walking, cur # Nil, cur' = Step(tree, cur, "r"),
         seen' = seen \cup {cur}, UNCHANGED <<tree, key, pc, moving, old, walking, late, was>>
  PROVE  WalkKeeps
<1> DEFINE o == Order
<1>1. InTree(tree, key, Elements, o) /\ cur \in Elements
  BY DEF TreeInv, WalkInv
<1>2. PICK p \in 1..(Len(o) + 1) : At(o, p) = cur /\ p \in 1..Len(o) /\ o[p] = cur
  BY <1>1, CursorAt
<1>3. cur' = At(o, p + 1)
  BY <1>2, OrderIterates DEF Iterates
<1> HIDE DEF o
<1>4. Len(o) \in Nat /\ Elements \subseteq Node
  BY <1>1, IndexFacts
<1>5. p + 1 \in p..(Len(o) + 1) /\ \A i : i \in p..((p + 1) - 1) <=> i = p
  BY <1>2, <1>4
<1>6. seen' = seen \cup {x \in Node : \E i \in p..((p + 1) - 1) : o[i] = x}
  BY <1>1, <1>2, <1>4, <1>5
<1>7. Moves(p, p + 1)
  BY <1>2, <1>3, <1>5, <1>6 DEF Moves, o
<1> QED
  BY <1>7, MoveKeeps

\* erase(it) keeps it.
LEMMA EraseAtCursorKeeps ==
  ASSUME TypeOK, TreeInv, WalkInv, EraseAtCursor
  PROVE  WalkKeeps
<1> DEFINE o == Order
<1>1. InTree(tree, key, Elements, o) /\ cur \in Elements
  BY DEF TreeInv, WalkInv, EraseAtCursor
<1>2. PICK p : Leaves(cur, p)
  BY <1>1, CursorLeaves
<1>3. p \in 1..Len(o) /\ cur = o[p] /\ Elements' = Elements \ {cur}
      /\ InTree(tree', key', Elements', Order')
  BY <1>2 DEF Leaves
<1>4. Order' = RemoveAt(o, p)
  BY <1>2 DEF Leaves
<1>5. cur' = At(o, p + 1)
  BY <1>3, OrderIterates DEF Iterates, EraseAtCursor
<1> HIDE DEF o
<1>6. /\ Distinct(o) /\ Len(o) \in Nat /\ Elements \subseteq Node
      /\ \A i \in 1..Len(o) : o[i] \in Elements
      /\ \A i, j \in 1..Len(o) : o[i] = o[j] => i = j
  <2>1. Distinct(o) /\ Len(o) \in Nat /\ Elements \subseteq Node
        /\ \A i \in 1..Len(o) : o[i] \in Elements
    BY <1>1, IndexFacts
  <2> QED
    BY <2>1 DEF Distinct
<1>7. Behind(Order', cur') = Behind(o, cur)
  BY <1>3, <1>4, <1>5, <1>6, BehindErased
<1>8. cur \notin Behind(o, cur)
  BY <1>6 DEF Behind
<1>9. cur' \in Elements' \cup {Nil}
  <2>1. CASE p + 1 \in 1..Len(o)
    <3>1. cur' = o[p + 1] /\ p + 1 # p
      BY <1>3, <1>5, <1>6, <2>1 DEF At
    <3> QED
      BY <1>3, <1>6, <2>1, <3>1
  <2>2. CASE p + 1 \notin 1..Len(o)
    BY <1>5, <2>2 DEF At
  <2> QED
    BY <2>1, <2>2
<1>10. /\ pc = "idle" /\ walking /\ UNCHANGED <<pc, moving, old, walking, seen, was>>
       /\ late' = late \ {cur} /\ key' = [key EXCEPT ![cur] = NoKey]
  BY DEF EraseAtCursor
<1>11. WalkInv'
  <2>1. seen' \subseteq Behind(Order', cur') /\ Behind(Order', cur') \subseteq seen' \cup late'
    BY <1>7, <1>8, <1>10 DEF WalkInv, o
  <2> QED
    BY <1>9, <1>10, <2>1 DEF WalkInv
<1>12. WalkType'
  BY <1>3, <1>6, <1>9, <1>10 DEF TypeOK, WalkType, Link
<1>13. RestType'
  BY <1>10 DEF TypeOK, RestType
<1>14. TypeOK'
  BY <1>3, <1>12, <1>13, TypeOfParts
<1>15. TreeInv'
  BY <1>3, <1>10 DEF TreeInv
<1> QED
  BY <1>11, <1>14, <1>15 DEF WalkKeeps

\* A walk that ends keeps it.
LEMMA EndKeeps ==
  ASSUME TypeOK, TreeInv, StopWalk, UNCHANGED <<tree, key, pc, moving, old, was>>
  PROVE  WalkKeeps /\ ~walking'
<1>1. WalkType' /\ WalkInv' /\ ~walking'
  BY StopType
<1> QED
  BY <1>1, StaysTree DEF WalkKeeps

\* Every step of the index and of an iterator into it.
LEMMA WalkStepKeeps ==
  ASSUME TypeOK, TreeInv, WalkInv, Walk
  PROVE  WalkKeeps
<1>1. CASE StartWalk
  BY <1>1, StartKeeps DEF StartWalk
<1>2. CASE StepWalk
  BY <1>2, StepMoves DEF StepWalk
<1>3. CASE EraseAtCursor
  BY <1>3, EraseAtCursorKeeps
<1>4. CASE EndWalk
  BY <1>4, EndKeeps DEF EndWalk
<1> QED
  BY <1>1, <1>2, <1>3, <1>4 DEF Walk

-----------------------------------------------------------------------------
(* Every action keeps it: queries.                                         *)

\* The group of cur is what lies from position p up to position q.
Groups(p, q) ==
  /\ p \in 1..Len(Order) /\ q \in (p + 1)..(Len(Order) + 1) /\ Order[p] = cur
  /\ RunEnd(cur, key[cur]) = At(Order, q)
  /\ Run(tree, cur, At(Order, q)) = SubSeq(Order, p, q - 1)
  /\ Only(Order, {m \in Elements : key[m] = key[cur]}) = SubSeq(Order, p, q - 1)
  /\ \A i \in 1..Len(Order) : key[Order[i]] > key[cur] <=> i >= q

\* At the first element of a key, the group is the slice up to the next key.
LEMMA GroupFound ==
  ASSUME TreeInv, cur \in Elements, Smaller
  PROVE  \E p, q : Groups(p, q)
<1> DEFINE o == Order
           k == key[cur]
           T == {m \in Elements : key[m] = k}
<1>1. InTree(tree, key, Elements, o)
  BY DEF TreeInv
<1>2. PICK p \in 1..(Len(o) + 1) : At(o, p) = cur /\ (cur # Nil => p \in 1..Len(o) /\ o[p] = cur)
  BY CursorAt
<1>3. /\ Distinct(o) /\ Len(o) \in Nat /\ o \in Seq(Node) /\ Nil \notin Elements
      /\ \A i \in 1..Len(o) : o[i] \in Elements /\ key[o[i]] \in Int /\ o[i] \in Node
  BY <1>1, IndexFacts
<1>4. p \in 1..Len(o) /\ o[p] = cur /\ cur # Nil /\ k \in Int
  BY <1>2, <1>3
<1>5. PICK q : IsUpper(tree, key, o, k, q)
  BY <1>1, <1>4, UpperFound
<1>6. q \in 1..(Len(o) + 1) /\ \A i \in 1..Len(o) : key[o[i]] > k <=> i >= q
  BY <1>5 DEF IsUpper
<1>7. \A i \in 1..Len(o) : i < p => key[o[i]] < k
  <2>1. Behind(o, cur) = {x \in Node : \E i \in 1..Len(o) : o[i] = x /\ i < p}
    BY <1>2, <1>3, BehindAt
  <2>2. \A x \in Behind(o, cur) : key[x] < k
    BY <1>4 DEF Smaller
  <2> QED
    BY <1>3, <2>1, <2>2
<1>8. Iterates
  BY OrderIterates
<1> HIDE DEF o, k
<1>9. ~(p >= q)
  <2>1. key[o[p]] = k
    BY <1>4 DEF k
  <2> QED
    BY <1>4, <1>6, <2>1
<1>10. q \in (p + 1)..(Len(o) + 1)
  BY <1>3, <1>4, <1>6, <1>9
<1>11. ASSUME NEW i \in 1..Len(o) PROVE key[o[i]] = k <=> p <= i /\ i < q
  <2>1. CASE i < p
    BY <1>3, <1>4, <1>7, <2>1
  <2>2. CASE i = p
    BY <1>3, <1>4, <1>9, <1>6, <2>2 DEF k
  <2>3. CASE i > p
    <3>1. key[o[p]] <= key[o[i]]
      BY <1>1, <1>4, <2>3 DEF InTree, Ascending
    <3>2. key[o[p]] = k /\ key[o[i]] \in Int
      BY <1>3, <1>4 DEF k
    <3>3. key[o[i]] > k <=> i >= q
      BY <1>6
    <3> QED
      BY <1>4, <1>6, <2>3, <3>1, <3>2, <3>3
  <2> QED
    BY <1>4, <2>1, <2>2, <2>3
<1>12. RunEnd(cur, k) = At(o, q)
  <2>1. PICK P, Q : Spans(tree, Elements, o, P, Q)
    BY <1>1 DEF InTree, Sound
  <2>2. P[cur] = p
    <3>1. Numbered(o, Elements, P)
      BY <2>1 DEF Spans
    <3> QED
      BY <1>4, <3>1 DEF Numbered
  <2>3. ASSUME NEW l \in (P[cur] + 1)..(q - 1) PROVE SameKey(k, o[l])
    <3>1. l \in 1..Len(o) /\ p <= l /\ l < q
      BY <1>3, <1>4, <1>6, <2>2
    <3>2. key[o[l]] = k
      BY <1>11, <3>1
    <3> QED
      BY <1>4, <3>2 DEF SameKey
  <2>4. ASSUME q <= Len(o) PROVE ~SameKey(k, o[q])
    <3>1. q \in 1..Len(o) /\ q >= q
      BY <1>3, <1>6, <2>4
    <3>2. key[o[q]] > k
      BY <1>6, <3>1
    <3> QED
      BY <1>3, <1>4, <3>1, <3>2 DEF SameKey
  <2>5. q \in (P[cur] + 1)..(Len(o) + 1)
    BY <1>10, <2>2
  <2>6. cur \in Elements
    OBVIOUS
  <2> QED
    BY <2>1, <2>3, <2>4, <2>5, <2>6, RunEndFound
<1>13. Run(tree, cur, At(o, q)) = SubSeq(o, p, q - 1)
  <2>1. p \in 1..(Len(o) + 1) /\ q \in p..(Len(o) + 1)
    BY <1>3, <1>4, <1>10
  <2> QED
    BY <1>2, <1>8, <2>1 DEF Iterates, o
<1>14. Only(o, T) = SubSeq(o, p, q - 1)
  <2>1. \A i \in 1..Len(o) : o[i] \in T <=> p <= i /\ i < q
    BY <1>3, <1>11
  <2> HIDE DEF T
  <2>2. p \in 1..(Len(o) + 1) /\ q \in p..(Len(o) + 1)
    BY <1>3, <1>4, <1>10
  <2>3. IsSlice(o, T, p, q)
    BY <2>1, <2>2 DEF IsSlice
  <2> QED
    BY <1>3, <2>3, OnlySlice
<1>15. Groups(p, q)
  BY <1>4, <1>6, <1>10, <1>12, <1>13, <1>14 DEF Groups, o, k
<1> QED
  BY <1>15

\* group_by yields exactly the elements of the key it stands at, and moves behind them.
LEMMA NextGroupKeeps ==
  ASSUME IInv, NextGroup
  PROVE  WalkKeeps /\ GroupInv' /\ out' = Only(Order, {m \in Elements : key[m] = key[cur]})
<1> DEFINE o == Order
<1>1. InTree(tree, key, Elements, o) /\ TreeInv /\ WalkInv /\ TypeOK
  BY DEF IInv, TreeInv
<1>2. cur \in Elements /\ cur # Nil /\ Smaller /\ walking /\ job = "group"
  BY DEF IInv, GroupInv, WalkInv, NextGroup
<1>3. PICK p, q : Groups(p, q)
  BY <1>1, <1>2, GroupFound
<1>4. /\ p \in 1..Len(o) /\ q \in (p + 1)..(Len(o) + 1) /\ o[p] = cur
      /\ \A i \in 1..Len(o) : key[o[i]] > key[cur] <=> i >= q
      /\ Only(o, {m \in Elements : key[m] = key[cur]}) = SubSeq(o, p, q - 1)
  BY <1>3 DEF Groups
<1>5. cur' = At(o, q)
  BY <1>3 DEF Groups, NextGroup
<1>6. out' = SubSeq(o, p, q - 1)
  BY <1>3, <1>5 DEF Groups, NextGroup
<1>7. seen' = seen \cup ToSet(out')
      /\ UNCHANGED <<tree, key, pc, moving, old, walking, late, was, job>>
  BY DEF NextGroup
<1> HIDE DEF o
<1>8. /\ Distinct(o) /\ Len(o) \in Nat /\ o \in Seq(Node) /\ Elements \subseteq Node
      /\ \A i \in 1..Len(o) : o[i] \in Elements /\ key[o[i]] \in Int /\ o[i] \in Node
  BY <1>1, IndexFacts
<1>9. p \in 1..(Len(o) + 1) /\ q \in p..(Len(o) + 1) /\ q \in 1..(Len(o) + 1) /\ At(o, p) = cur
  BY <1>4, <1>8 DEF At
<1>10. ToSet(SubSeq(o, p, q - 1)) = {x \in Node : \E i \in p..(q - 1) : o[i] = x}
  <2> DEFINE u == SubSeq(o, p, q - 1)
  <2>1. /\ Len(u) = q - p /\ DOMAIN u = 1..(q - p)
        /\ \A i \in 1..(q - p) : u[i] = o[p + i - 1]
    <3>1. \A i \in p..(q - 1) : o[i] \in Node
      BY <1>4, <1>8
    <3>2. p \in Int /\ q - 1 \in Int /\ IF p <= q - 1 THEN (q - 1) - p + 1 = q - p ELSE FALSE
      BY <1>4, <1>8
    <3>3. p \in 1..(Len(o) + 1) /\ q - 1 \in (p - 1)..Len(o)
      BY <1>4, <1>8
    <3>4. /\ u \in Seq(Node) /\ Len(u) = (q - 1) - p + 1
          /\ \A i \in 1..((q - 1) - p + 1) : u[i] = o[p + i - 1]
      BY <1>8, <3>3, SubSeqProperties
    <3>5. (q - 1) - p + 1 = q - p
      BY <3>2
    <3> QED
      BY <3>4, <3>5, LenProperties
  <2> HIDE DEF u
  <2>2. ToSet(u) = {u[i] : i \in 1..(q - p)}
    BY <2>1 DEF ToSet
  <2>3. ASSUME NEW i \in p..(q - 1) PROVE o[i] \in ToSet(u)
    <3>1. i - p + 1 \in 1..(q - p) /\ p + (i - p + 1) - 1 = i
      BY <1>4, <1>8
    <3> QED
      BY <2>1, <2>2, <3>1
  <2>4. ASSUME NEW i \in 1..(q - p) PROVE u[i] \in {x \in Node : \E j \in p..(q - 1) : o[j] = x}
    <3>1. p + i - 1 \in p..(q - 1) /\ p + i - 1 \in 1..Len(o)
      BY <1>4, <1>8
    <3> QED
      BY <1>8, <2>1, <3>1
  <2> QED
    BY <2>2, <2>3, <2>4 DEF u
<1>11. Moves(p, q)
  BY <1>5, <1>6, <1>7, <1>9, <1>10 DEF Moves, o
<1>12. WalkKeeps
  BY <1>1, <1>2, <1>11, MoveKeeps
<1>13. Smaller'
  <2> SUFFICES ASSUME cur' # Nil, NEW x \in Behind(o, cur') PROVE key[x] < key[cur']
    BY <1>7 DEF Smaller, Order, o
  <2>1. PICK i \in 1..Len(o) : o[i] = x /\ i < q
    <3>1. Behind(o, cur') = {y \in Node : \E i \in 1..Len(o) : o[i] = y /\ i < q}
      BY <1>5, <1>8, <1>9, BehindAt
    <3> QED
      BY <3>1
  <2>2. q \in 1..Len(o) /\ cur' = o[q] /\ q >= q /\ ~(i >= q)
    BY <1>4, <1>5, <1>8, <2>1 DEF At
  <2>3. key[o[q]] > key[cur] /\ ~(key[o[i]] > key[cur])
    BY <1>4, <2>2
  <2>4. key[o[q]] \in Int /\ key[o[i]] \in Int /\ key[cur] \in Int
    BY <1>4, <1>8, <2>2
  <2> QED
    BY <2>1, <2>2, <2>3, <2>4
<1>14. GroupInv'
  BY <1>2, <1>7, <1>13 DEF GroupInv
<1> QED
  BY <1>4, <1>6, <1>12, <1>14 DEF o

\* A coroutine begins with a walk at the first element.
LEMMA QueryStarts ==
  ASSUME IInv, NEW j \in {"group", "match"}, NEW r, StartQuery(j, r)
  PROVE  WalkKeeps /\ GroupInv'
<1>1. TypeOK /\ TreeInv /\ WalkInv
  BY DEF IInv
<1>2. /\ pc = "idle" /\ ~walking /\ walking' = TRUE /\ cur' = Begin(tree)
      /\ UNCHANGED <<tree, key, pc, moving, old, seen, late, was>>
  BY DEF StartQuery
<1>3. WalkKeeps /\ (cur' # Nil => Behind(Order', cur') = {})
  BY <1>1, <1>2, StartKeeps
<1>4. Smaller'
  BY <1>3 DEF Smaller
<1>5. job' # "emit"
  BY DEF StartQuery
<1> QED
  BY <1>2, <1>3, <1>4, <1>5 DEF GroupInv

\* An equi_join that skips or finishes an element of its left side moves on by one.
LEMMA QueryAdvances ==
  ASSUME IInv, SkipLeft \/ NextLeft
  PROVE  WalkKeeps /\ GroupInv'
<1>1. TypeOK /\ TreeInv /\ WalkInv /\ walking
  BY DEF IInv, GroupInv, SkipLeft, NextLeft, Joining
<1>2. /\ cur # Nil /\ cur' = Step(tree, cur, "r") /\ seen' = seen \cup {cur}
      /\ UNCHANGED <<tree, key, pc, moving, old, walking, late, was>>
      /\ job' # "group" /\ (job' = "emit" => cur' # Nil)
  <2>1. CASE SkipLeft
    BY <2>1 DEF SkipLeft, Joining, Advance, queries
  <2>2. CASE NextLeft
    BY <2>2 DEF NextLeft, Advance, IInv, GroupInv
  <2> QED
    BY <2>1, <2>2
<1>3. WalkKeeps
  BY <1>1, <1>2, StepMoves
<1> QED
  BY <1>1, <1>2, <1>3 DEF GroupInv

-----------------------------------------------------------------------------
(* The inductive invariant of the index, its iterators and its queries.    *)

\* Nothing is filed yet, and no iterator is in use.
LEMMA InitIInv ==
  ASSUME QInit
  PROVE  IInv
<1>1. /\ tree = Empty /\ key = [m \in Node |-> NoKey] /\ pc = "idle" /\ moving = Nil
      /\ old = NoKey /\ walking = FALSE /\ cur = Nil /\ seen = {} /\ late = {} /\ was = <<>>
      /\ job = "none"
  BY DEF QInit, Init
<1>2. Empty \in Trees /\ Empty.root = Nil /\ Empty.n = 0
  BY DEF Empty, Trees, Link
<1>3. Elements = {}
  BY <1>1 DEF Elements
<1>4. InTree(tree, key, {}, <<>>)
  BY <1>1, <1>2, NoTree
<1>5. Order = <<>>
  <2>1. InOrder(tree, tree.root) = <<>>
    BY <1>4, InTreeFacts
  <2> QED
    BY <2>1 DEF Order
<1>6. tree.n <= Cardinality(Node)
  BY <1>4, IndexFacts
<1>7. <<>> \in Seq(Node)
  BY EmptySeq
<1>8. TypeOK
  BY <1>1, <1>2, <1>6, <1>7 DEF TypeOK, Link
<1>9. TreeInv
  BY <1>1, <1>3, <1>4, <1>5 DEF TreeInv
<1> QED
  BY <1>1, <1>8, <1>9 DEF IInv, WalkInv, GroupInv

\* What the consumer does to the container meanwhile keeps the invariant.
LEMMA MeanwhileKeeps ==
  ASSUME IInv, Meanwhile
  PROVE  IInv'
<1>1. Keeps
  BY ChangeKeeps DEF IInv, Meanwhile
<1>2. GroupInv'
  <2>1. CASE walking'
    <3>1. job' = job
      BY <2>1 DEF Meanwhile, queries
    <3> QED
      BY <1>1, <2>1, <3>1 DEF Keeps, IInv, GroupInv
  <2>2. CASE ~walking'
    BY <2>2 DEF Meanwhile, Idle, GroupInv
  <2> QED
    BY <2>1, <2>2
<1> QED
  BY <1>1, <1>2 DEF Keeps, IInv

\* Steps that leave the index and its iterator alone.
LEMMA UntouchedKeeps ==
  ASSUME IInv, UNCHANGED vars, job' = job \/ (job' = "emit" /\ job = "match" /\ cur # Nil)
  PROVE  IInv'
<1>1. /\ UNCHANGED <<tree, key, pc, moving, old, was>>
      /\ walking' = walking /\ cur' = cur /\ seen' = seen /\ late' = late
  BY DEF vars, walk
<1>2. WalkType'
  BY <1>1, TypeParts DEF IInv, WalkType
<1>3. TypeOK' /\ TreeInv' /\ Order' = Order /\ Elements' = Elements
  BY <1>1, <1>2, StaysTree DEF IInv
<1>4. WalkInv'
  BY <1>1, <1>3 DEF IInv, WalkInv
<1>5. Smaller' <=> Smaller
  BY <1>1, <1>3 DEF Smaller
<1>6. GroupInv'
  BY <1>1, <1>5 DEF IInv, GroupInv
<1> QED
  BY <1>3, <1>4, <1>6 DEF IInv

\* So does the end of a coroutine.
LEMMA EndQueryKeeps ==
  ASSUME IInv, EndQuery
  PROVE  IInv'
<1>1. WalkKeeps
  BY EndKeeps DEF IInv, EndQuery
<1>2. GroupInv'
  BY DEF EndQuery, Idle, GroupInv
<1> QED
  BY <1>1, <1>2 DEF IInv, WalkKeeps

\* Every step keeps it.
LEMMA IInvStep ==
  ASSUME IInv, QNext
  PROVE  IInv'
<1>1. CASE job = "none" /\ Next /\ UNCHANGED queries
  <2>1. TypeOK' /\ TreeInv' /\ WalkInv'
    BY <1>1, ChangeKeeps, WalkStepKeeps DEF IInv, Next, Keeps, WalkKeeps
  <2>2. GroupInv'
    BY <1>1 DEF queries, GroupInv
  <2> QED
    BY <2>1, <2>2 DEF IInv
<1>2. CASE StartQuery("group", <<>>) \/ \E r \in Rights : StartQuery("match", r)
  BY <1>2, QueryStarts DEF IInv, WalkKeeps
<1>3. CASE NextGroup
  BY <1>3, NextGroupKeeps DEF IInv, WalkKeeps
<1>4. CASE SkipLeft \/ NextLeft
  BY <1>4, QueryAdvances DEF IInv, WalkKeeps
<1>5. CASE SkipRight \/ TakeGroup \/ Yield
  <2>1. CASE SkipRight
    <3>1. UNCHANGED vars /\ job' = job
      BY <2>1 DEF SkipRight
    <3> QED
      BY <3>1, UntouchedKeeps
  <2>2. CASE TakeGroup
    <3>1. UNCHANGED vars /\ job' = "emit" /\ job = "match" /\ cur # Nil
      BY <2>2 DEF TakeGroup, Joining
    <3> QED
      BY <3>1, UntouchedKeeps
  <2>3. CASE Yield
    <3>1. UNCHANGED vars /\ job' = job
      BY <2>3 DEF Yield
    <3> QED
      BY <3>1, UntouchedKeeps
  <2> QED
    BY <1>5, <2>1, <2>2, <2>3
<1>6. CASE EndGroups \/ EndJoin
  BY <1>6, EndQueryKeeps DEF EndGroups, EndJoin
<1>7. CASE Meanwhile
  BY <1>7, MeanwhileKeeps
<1> QED
  BY <1>1, <1>2, <1>3, <1>4, <1>5, <1>6, <1>7 DEF QNext

\* The order of a sound tree is that of its elements' keys, the tree holds exactly the
\* elements, and an iterator has passed exactly the elements behind it that were there
\* when the walk began: inserting, erasing, repositioning and rotating keep all of it.
THEOREM IndexInvariant == QSpec => []IInv
<1>1. QInit => IInv
  BY InitIInv
<1>2. IInv /\ [QNext]_qvars => IInv'
  <2> SUFFICES ASSUME IInv, [QNext]_qvars PROVE IInv'
    OBVIOUS
  <2>1. CASE QNext
    BY <2>1, IInvStep
  <2>2. CASE UNCHANGED qvars
    <3>1. UNCHANGED vars /\ job' = job
      BY <2>2 DEF qvars, queries
    <3> QED
      BY <3>1, UntouchedKeeps
  <2> QED
    BY <2>1, <2>2
<1> QED
  BY <1>1, <1>2, PTL DEF QSpec

\* The links, counts and cursors stay within their types: no rotation, insertion or
\* erasure makes the tree reach outside its nodes.
THEOREM IndexTypeOK == QSpec => []TypeOK
<1>1. IInv => TypeOK
  BY DEF IInv
<1> QED
  BY <1>1, IndexInvariant, PTL

\* Every group that group_by yields is complete and in order, whatever its consumer has
\* added, rekeyed and erased in groups yielded before.
THEOREM GroupsAreExact == QSpec => GroupsExact
<1> DEFINE A == job = "group" /\ out' \notin {<<>>, out} =>
                  out' = Only(Order, {m \in Elements : key[m] = key[cur]})
<1>1. IInv /\ [QNext]_qvars => [A]_qvars
  <2> SUFFICES ASSUME IInv, QNext, job = "group", out' \notin {<<>>, out}
               PROVE  out' = Only(Order, {m \in Elements : key[m] = key[cur]})
    OBVIOUS
  <2>1. NextGroup
    <3>1. ~(job = "none" /\ Next /\ UNCHANGED queries)
      OBVIOUS
    <3>2. \A j, r : ~StartQuery(j, r)
      BY DEF StartQuery, IInv, GroupInv
    <3>3. ~EndGroups /\ ~EndJoin
      BY DEF EndGroups, EndJoin, EndQuery, Idle
    <3>4. ~SkipLeft /\ ~SkipRight /\ ~TakeGroup /\ ~Yield /\ ~NextLeft
      BY DEF SkipLeft, SkipRight, TakeGroup, Yield, NextLeft, Joining
    <3>5. ~Meanwhile
      BY DEF Meanwhile, queries, Idle
    <3> QED
      BY <3>1, <3>2, <3>3, <3>4, <3>5 DEF QNext
  <2> QED
    BY <2>1, NextGroupKeeps
<1> QED
  BY <1>1, IndexInvariant, PTL DEF QSpec, GroupsExact

-----------------------------------------------------------------------------
(* What the invariant says of the tree and of what its callers ask.        *)

\* The counts of a sound tree are those of a walk through it.
LEMMA WellFormedThen ==
  ASSUME IInv
  PROVE  WellFormed
<1> DEFINE o == Order
           t == tree
<1>1. TypeOK /\ InTree(t, key, Elements, o)
  BY DEF IInv, TreeInv
<1> HIDE DEF o
<1>2. PICK P, Q : Spans(t, Elements, o, P, Q) /\ Counted(t, Elements, Q)
  BY <1>1 DEF InTree, Sound
<1>3. /\ Len(o) \in Nat /\ Elements \subseteq Node /\ Nil \notin Elements /\ t \in Trees
      /\ o \in Seq(Node) /\ \A i \in 1..Len(o) : o[i] \in Elements
  BY <1>1, IndexFacts
<1>4. t.n = Len(o)
  BY <1>1 DEF InTree
<1>5. t.root # Nil => t.up[t.root] = Nil
  <2> SUFFICES ASSUME t.root # Nil PROVE t.up[t.root] = Nil
    OBVIOUS
  <2>1. t.root \in Elements
    BY <1>2 DEF Spans
  <2> QED
    BY <1>2, <2>1, SpansAt
<1>6. ASSUME NEW a \in ToSet(o) PROVE a \in Elements
  <2>1. DOMAIN o = 1..Len(o)
    BY <1>3, LenProperties
  <2> QED
    BY <1>3, <1>6, <2>1 DEF ToSet
<1>7. ASSUME NEW a \in Elements
      PROVE  /\ t.size[a] = Len(InOrder(t, a))
             /\ \A s \in Side : t.kid[s][a] # Nil => t.up[t.kid[s][a]] = a
             /\ t.height[a] = Upd(t, a).height[a]
             /\ \A s \in Side : Lean(t, a, s) <= 1
  <2>1. /\ t.size[a] = Width(Q, a)
        /\ t.height[a] = 1 + Larger(Ht(t, t.kid["l"][a]), Ht(t, t.kid["r"][a]))
        /\ Close(Ht(t, t.kid["l"][a]), Ht(t, t.kid["r"][a]))
    BY <1>2, <1>7 DEF Counted
  <2>2. t.size[a] = Len(InOrder(t, a))
    <3>1. \A b \in Elements : InOrder(t, b) = SubSeq(o, Q["l"][b], Q["r"][b])
      BY <1>2, InOrderIsSlice
    <3>2. InOrder(t, a) = SubSeq(o, Q["l"][a], Q["r"][a])
      BY <1>7, <3>1
    <3>3. /\ 1 <= Q["l"][a] /\ Q["l"][a] <= P[a] /\ P[a] <= Q["r"][a] /\ Q["r"][a] <= Len(o)
          /\ P[a] \in Int /\ Q["l"][a] \in Int /\ Q["r"][a] \in Int
      BY <1>2, <1>3, <1>7, SpansAt, SpansTypes
    <3>4. Q["l"][a] \in 1..(Len(o) + 1) /\ Q["r"][a] \in (Q["l"][a] - 1)..Len(o)
      BY <1>3, <3>3
    <3>5. Len(SubSeq(o, Q["l"][a], Q["r"][a])) = Q["r"][a] - Q["l"][a] + 1
      BY <1>3, <3>4, SubSeqProperties
    <3>6. Width(Q, a) = Q["r"][a] - Q["l"][a] + 1
      BY <1>3, <1>7 DEF Width
    <3> QED
      BY <2>1, <3>2, <3>5, <3>6
  <2>3. \A s \in Side : t.kid[s][a] # Nil => t.up[t.kid[s][a]] = a
    <3>1. Below(t, Elements, P, Q, a)
      BY <1>2, <1>7 DEF Spans
    <3> QED
      BY <3>1 DEF Below
  <2>4. t.height[a] = Upd(t, a).height[a]
    <3>1. a \in Node
      BY <1>3, <1>7
    <3>2. IsUpdated(Upd(t, a), t, a)
      BY <1>3, <3>1, UpdFields
    <3> QED
      BY <2>1, <3>1, <3>2 DEF IsUpdated
  <2>5. ASSUME NEW s \in Side PROVE Lean(t, a, s) <= 1
    <3>1. /\ Ht(t, t.kid["l"][a]) \in Nat /\ Ht(t, t.kid["r"][a]) \in Nat
      BY <1>3, <1>7, TreeFields, Sides
    <3>2. CASE s = "l"
      BY <2>1, <3>1, <3>2 DEF Lean, Other, Close
    <3>3. CASE s = "r"
      BY <2>1, <3>1, <3>3 DEF Lean, Other, Close
    <3> QED
      BY <3>2, <3>3 DEF Side
  <2> QED
    BY <2>2, <2>3, <2>4, <2>5
<1> QED
  BY <1>1, <1>4, <1>5, <1>6, <1>7 DEF WellFormed, o

\* Every node's parent link, subtree size and height tell the truth and no node leans by
\* more than one: what nth(), rank(), ++ and the logarithmic cost rest on.
THEOREM IndexWellFormed == QSpec => []WellFormed
<1>1. IInv => WellFormed
  BY WellFormedThen
<1> QED
  BY <1>1, IndexInvariant, PTL

\* A slice from a position with a certain bound to the next one.
KeySlice(k, p, q) ==
  /\ LowerBound(tree, key, k) = At(Order, p) /\ UpperBound(tree, key, k) = At(Order, q)
  /\ p \in 1..(Len(Order) + 1) /\ q \in p..(Len(Order) + 1)
  /\ \A i \in 1..Len(Order) : key[Order[i]] >= k <=> i >= p
  /\ \A i \in 1..Len(Order) : key[Order[i]] > k <=> i >= q
  /\ Find(tree, key, k) = IF p < q THEN Order[p] ELSE Nil

\* The elements of a key are a slice between its two bounds.
LEMMA KeySliceFound ==
  ASSUME TreeInv, NEW k \in Int
  PROVE  \E p, q : KeySlice(k, p, q)
<1> DEFINE o == Order
<1>1. InTree(tree, key, Elements, o)
  BY DEF TreeInv
<1> HIDE DEF o
<1>2. PICK p : IsLower(tree, key, o, k, p)
  BY <1>1, LowerFound
<1>3. PICK q : IsUpper(tree, key, o, k, q)
  BY <1>1, UpperFound
<1>4. /\ p \in 1..(Len(o) + 1) /\ q \in 1..(Len(o) + 1) /\ Len(o) \in Nat
      /\ \A i \in 1..Len(o) : key[o[i]] >= k <=> i >= p
      /\ \A i \in 1..Len(o) : key[o[i]] > k <=> i >= q
      /\ \A i \in 1..Len(o) : key[o[i]] \in Int
  BY <1>1, <1>2, <1>3, IndexFacts DEF IsLower, IsUpper
<1>5. p <= q
  <2> SUFFICES ASSUME q < p PROVE FALSE
    BY <1>4
  <2>1. q \in 1..Len(o) /\ q >= q /\ ~(q >= p)
    BY <1>4
  <2>2. key[o[q]] > k /\ ~(key[o[q]] >= k) /\ key[o[q]] \in Int
    BY <1>4, <2>1
  <2> QED
    BY <2>2
<1>6. Find(tree, key, k) = IF p \in 1..Len(o) /\ key[o[p]] = k THEN o[p] ELSE Nil
  BY <1>1, <1>2, FindFound
<1>7. (p \in 1..Len(o) /\ key[o[p]] = k) <=> p < q
  <2>1. CASE p \in 1..Len(o)
    <3>1. p >= p /\ key[o[p]] \in Int
      BY <1>4, <2>1
    <3>2. key[o[p]] >= k /\ (key[o[p]] > k <=> p >= q)
      BY <1>4, <2>1, <3>1
    <3>3. key[o[p]] = k <=> ~(p >= q)
      BY <3>1, <3>2
    <3> QED
      BY <1>4, <2>1, <3>3
  <2>2. CASE p \notin 1..Len(o)
    BY <1>4, <2>2
  <2> QED
    BY <2>1, <2>2
<1>8. KeySlice(k, p, q)
  BY <1>2, <1>3, <1>4, <1>5, <1>6, <1>7 DEF KeySlice, IsLower, IsUpper, o
<1> QED
  BY <1>8

\* Answers by key.
LEMMA ByKey ==
  ASSUME TreeInv, NEW k \in Int
  PROVE  LET below == Only(Order, {m \in Elements : key[m] < k})
             equal == Only(Order, {m \in Elements : key[m] = k})
             lo == LowerBound(tree, key, k)
             hi == UpperBound(tree, key, k)
         IN  /\ Run(tree, lo, hi) = equal
             /\ Run(tree, Begin(tree), lo) = below
             /\ Find(tree, key, k) = IF equal = <<>> THEN Nil ELSE equal[1]
<1> DEFINE o == Order
           B == {m \in Elements : key[m] < k}
           T == {m \in Elements : key[m] = k}
<1>1. PICK p, q : KeySlice(k, p, q)
  BY KeySliceFound
<1>2. /\ LowerBound(tree, key, k) = At(o, p) /\ UpperBound(tree, key, k) = At(o, q)
      /\ p \in 1..(Len(o) + 1) /\ q \in p..(Len(o) + 1)
      /\ \A i \in 1..Len(o) : key[o[i]] >= k <=> i >= p
      /\ \A i \in 1..Len(o) : key[o[i]] > k <=> i >= q
      /\ Find(tree, key, k) = IF p < q THEN o[p] ELSE Nil
  BY <1>1 DEF KeySlice
<1>3. /\ Len(o) \in Nat /\ o \in Seq(Node)
      /\ \A i \in 1..Len(o) : o[i] \in Elements /\ key[o[i]] \in Int
  BY IndexFacts DEF TreeInv
<1>4. /\ Begin(tree) = At(o, 1)
      /\ \A i \in 1..(Len(o) + 1) : \A j \in i..(Len(o) + 1) :
           Run(tree, At(o, i), At(o, j)) = SubSeq(o, i, j - 1)
  BY OrderIterates DEF Iterates
<1> HIDE DEF o
<1>5. Run(tree, At(o, p), At(o, q)) = SubSeq(o, p, q - 1)
  BY <1>2, <1>4
<1>6. Run(tree, At(o, 1), At(o, p)) = SubSeq(o, 1, p - 1)
  <2>1. 1 \in 1..(Len(o) + 1)
    BY <1>3
  <2> QED
    BY <1>2, <1>4, <2>1
<1>7. Only(o, T) = SubSeq(o, p, q - 1)
  <2>1. \A i \in 1..Len(o) : o[i] \in T <=> p <= i /\ i < q
    <3> SUFFICES ASSUME NEW i \in 1..Len(o) PROVE key[o[i]] = k <=> p <= i /\ i < q
      BY <1>3
    <3>1. (key[o[i]] >= k <=> i >= p) /\ (key[o[i]] > k <=> i >= q) /\ key[o[i]] \in Int
      BY <1>2, <1>3
    <3> QED
      BY <1>2, <3>1
  <2> HIDE DEF T
  <2>2. IsSlice(o, T, p, q)
    BY <1>2, <2>1 DEF IsSlice
  <2> QED
    BY <1>3, <2>2, OnlySlice
<1>8. Only(o, B) = SubSeq(o, 1, p - 1)
  <2>1. \A i \in 1..Len(o) : o[i] \in B <=> 1 <= i /\ i < p
    <3> SUFFICES ASSUME NEW i \in 1..Len(o) PROVE key[o[i]] < k <=> i < p
      BY <1>3
    <3>1. (key[o[i]] >= k <=> i >= p) /\ key[o[i]] \in Int
      BY <1>2, <1>3
    <3> QED
      BY <1>2, <3>1
  <2> HIDE DEF B
  <2>2. IsSlice(o, B, 1, p)
    <3>1. 1 \in 1..(Len(o) + 1) /\ p \in 1..(Len(o) + 1)
      BY <1>2, <1>3
    <3> QED
      BY <2>1, <3>1 DEF IsSlice
  <2> QED
    BY <1>3, <2>2, OnlySlice
<1>9. LET e == SubSeq(o, p, q - 1)
      IN  (IF p < q THEN o[p] ELSE Nil) = IF e = <<>> THEN Nil ELSE e[1]
  <2> DEFINE e == SubSeq(o, p, q - 1)
  <2>1. p \in 1..(Len(o) + 1) /\ q - 1 \in (p - 1)..Len(o)
    BY <1>2, <1>3
  <2>2. Len(e) = (q - 1) - p + 1 /\ \A i \in 1..((q - 1) - p + 1) : e[i] = o[p + i - 1]
    BY <1>3, <2>1, SubSeqProperties
  <2>3. Len(<<>>) = 0
    BY EmptySeq
  <2> HIDE DEF e
  <2>4. CASE p < q
    <3>1. 1 \in 1..((q - 1) - p + 1) /\ p + 1 - 1 = p /\ (q - 1) - p + 1 # 0
      BY <1>2, <2>4
    <3>2. e[1] = o[p] /\ e # <<>>
      BY <2>2, <2>3, <3>1
    <3> QED
      BY <2>4, <3>2 DEF e
  <2>5. CASE ~(p < q)
    <3>1. q = p
      BY <1>2, <2>5
    <3>2. Len(e) = 0 /\ e \in Seq(Node)
      BY <1>2, <1>3, <2>1, <2>2, <3>1, SubSeqProperties DEF e
    <3>3. e = <<>>
      BY <3>2, EmptySeq
    <3> QED
      BY <2>5, <3>3 DEF e
  <2> QED
    BY <2>4, <2>5
<1> QED
  BY <1>2, <1>4, <1>5, <1>6, <1>7, <1>8, <1>9 DEF o

\* Answers by place.
LEMMA ByPlace ==
  ASSUME TreeInv, NEW i \in 0..tree.n
  PROVE  LET m == Nth(tree, i)
         IN  /\ m = IF i < tree.n THEN Order[i + 1] ELSE Nil
             /\ Rank(tree, m) = i
             /\ i < tree.n => Step(tree, m, "l") = IF i = 0 THEN Nil ELSE Order[i]
<1> DEFINE o == Order
           m == Nth(tree, i)
<1>1. InTree(tree, key, Elements, o) /\ Iterates
  BY OrderIterates DEF TreeInv
<1>2. \A p \in 1..Len(o) : Step(tree, o[p], "l") = At(o, p - 1)
  BY <1>1 DEF Iterates
<1> HIDE DEF o
<1>3. PICK P, Q : Spans(tree, Elements, o, P, Q) /\ Counted(tree, Elements, Q)
  BY <1>1 DEF InTree, Sound
<1>4. /\ Len(o) \in Nat /\ tree.n = Len(o)
      /\ \A j \in 1..Len(o) : o[j] \in Elements /\ o[j] # Nil
  BY <1>1, IndexFacts DEF InTree
<1>5. m = At(o, i + 1)
  <2>1. i \in Nat
    BY <1>4
  <2> QED
    BY <1>3, <2>1, NthFound
<1> HIDE DEF m
<1>6. CASE i < tree.n
  <2>1. i + 1 \in 1..Len(o) /\ (i + 1) - 1 = i
    BY <1>4, <1>6
  <2>2. m = o[i + 1] /\ m \in Elements /\ m # Nil
    BY <1>4, <1>5, <2>1 DEF At
  <2>3. P[m] = i + 1
    <3>1. Numbered(o, Elements, P)
      BY <1>3 DEF Spans
    <3> QED
      BY <2>1, <2>2, <3>1 DEF Numbered
  <2>4. Rank(tree, m) = i
    <3>1. Rank(tree, m) = P[m] - 1
      BY <1>3, <2>2, RankFound
    <3> QED
      BY <2>1, <2>3, <3>1
  <2>5. Step(tree, m, "l") = At(o, i)
    BY <1>2, <2>1, <2>2
  <2>6. At(o, i) = IF i = 0 THEN Nil ELSE o[i]
    <3>1. i \in 1..Len(o) <=> i # 0
      BY <1>4, <1>6
    <3> QED
      BY <3>1 DEF At
  <2> QED
    BY <1>6, <2>2, <2>4, <2>5, <2>6 DEF m, o
<1>7. CASE ~(i < tree.n)
  <2>1. i = tree.n /\ i + 1 \notin 1..Len(o)
    BY <1>4, <1>7
  <2>2. m = Nil
    BY <1>5, <2>1 DEF At
  <2>3. Rank(tree, m) = i
    BY <2>1, <2>2 DEF Rank
  <2> QED
    BY <1>7, <2>2, <2>3 DEF m, o
<1> QED
  BY <1>6, <1>7

\* The order holds the elements.
LEMMA OrderHoldsElements ==
  ASSUME TreeInv
  PROVE  ToSet(Order) = Elements
<1>1. /\ Order \in Seq(Node)
      /\ \A i \in 1..Len(Order) : Order[i] \in Elements
      /\ \A x \in Elements : \E i \in 1..Len(Order) : Order[i] = x
  BY IndexFacts DEF TreeInv
<1>2. DOMAIN Order = 1..Len(Order)
  BY <1>1, LenProperties
<1> QED
  BY <1>1, <1>2 DEF ToSet

\* Lookups are exact in every state that satisfies the invariant.
LEMMA LookupsThen ==
  ASSUME IInv
  PROVE  LookupsExact
<1>1. TreeInv /\ \A k \in Key : k \in Int
  BY OrderedAssumption DEF IInv
<1>2. ToSet(Order) = Elements
  BY <1>1, OrderHoldsElements
<1>3. \A k \in Key :
       LET below == Only(Order, {m \in Elements : key[m] < k})
           equal == Only(Order, {m \in Elements : key[m] = k})
           lo == LowerBound(tree, key, k)
           hi == UpperBound(tree, key, k)
       IN  /\ Run(tree, lo, hi) = equal
           /\ Run(tree, Begin(tree), lo) = below
           /\ Find(tree, key, k) = IF equal = <<>> THEN Nil ELSE equal[1]
  BY <1>1, ByKey
<1>4. \A i \in 0..tree.n :
       LET m == Nth(tree, i)
       IN  /\ m = IF i < tree.n THEN Order[i + 1] ELSE Nil
           /\ Rank(tree, m) = i
           /\ i < tree.n => Step(tree, m, "l") = IF i = 0 THEN Nil ELSE Order[i]
  BY <1>1, ByPlace
<1> QED
  BY <1>2, <1>3, <1>4 DEF LookupsExact

\* find, lower_bound, upper_bound, equal_range, count, nth and rank answer as a scan of
\* the elements in order would, and ++ and -- walk that order both ways.
THEOREM IndexLookupsExact == QSpec => []LookupsExact
<1>1. IInv => LookupsExact
  BY LookupsThen
<1> QED
  BY <1>1, IndexInvariant, PTL

-----------------------------------------------------------------------------
(* Iterators, ranges.                                                      *)

\* Where a search finds a node of a sequence in which it occurs once.
LEMMA FoundAt ==
  ASSUME NEW o, Distinct(o), NEW p \in 1..Len(o), NEW c, c = o[p]
  PROVE  LET I == {j \in 1..Len(o) : o[j] = c}
         IN  (IF I # {} THEN Min(I) ELSE 0) = p
<1>1. /\ o \in Seq(Node) /\ IsInjective(o)
  <2>1. o \in Seq(Node) /\ DOMAIN o = 1..Len(o) /\ \A i, j \in 1..Len(o) : o[i] = o[j] => i = j
    BY DistinctFacts, LenProperties
  <2> QED
    BY <2>1 DEF IsInjective
<1>2. LET I == {j \in 1..Len(o) : o[j] = c} IN I # {} /\ Min(I) = p
  BY <1>1, OnlyPlace
<1> QED
  BY <1>2

\* Place undoes At.
LEMMA PlaceFound ==
  ASSUME TreeInv, NEW p \in 1..(Len(Order) + 1)
  PROVE  Place(At(Order, p)) = p
<1> DEFINE o == Order
<1>1. Distinct(o) /\ Len(o) \in Nat /\ \A i \in 1..Len(o) : o[i] # Nil
  BY IndexFacts DEF TreeInv
<1>2. ASSUME NEW c
      PROVE  Place(c) = IF c = Nil THEN Len(o) + 1
                        ELSE LET I == {j \in 1..Len(o) : o[j] = c} IN IF I # {} THEN Min(I) ELSE 0
  BY DEF Place, SelectInSeq
<1>3. p \in 1..(Len(o) + 1)
  OBVIOUS
<1> HIDE DEF o
<1>4. Place(At(o, p)) = p
  <2>1. CASE p \in 1..Len(o)
    <3> DEFINE c == o[p]
               i == LET I == {j \in 1..Len(o) : o[j] = c} IN IF I # {} THEN Min(I) ELSE 0
    <3>1. At(o, p) = c /\ c # Nil
      BY <1>1, <2>1 DEF At
    <3>2. c = o[p]
      OBVIOUS
    <3> HIDE DEF c
    <3>3. i = p
      BY <1>1, <2>1, <3>2, FoundAt
    <3>4. Place(c) = i
      BY <1>2, <3>1
    <3> QED
      BY <3>1, <3>3, <3>4
  <2>2. CASE p \notin 1..Len(o)
    <3>1. At(o, p) = Nil /\ p = Len(o) + 1
      BY <1>1, <1>3, <2>2 DEF At
    <3> QED
      BY <1>2, <3>1
  <2> QED
    BY <2>1, <2>2
<1> QED
  BY <1>4 DEF o

\* A walk meets every element exactly once and in order, except one that is added or
\* rekeyed meanwhile; erasing and rotating under the iterator does not derail it.
LEMMA WalkThen ==
  ASSUME IInv
  PROVE  WalkInOrder
<1> SUFFICES ASSUME walking PROVE WalkInOrder
  BY DEF WalkInOrder
<1> DEFINE o == Order
           at == Place(cur)
           behind == ToSet(SubSeq(o, 1, at - 1))
<1>1. /\ InTree(tree, key, Elements, o) /\ cur \in Elements \cup {Nil}
      /\ seen \subseteq Behind(o, cur) /\ Behind(o, cur) \subseteq seen \cup late
  BY DEF IInv, TreeInv, WalkInv
<1>2. TreeInv
  BY DEF IInv
<1>3. PICK p \in 1..(Len(o) + 1) : At(o, p) = cur
  BY <1>1, <1>2, CursorAt
<1>4. at = p
  BY <1>2, <1>3, PlaceFound
<1>5. (at # 0 /\ seen \subseteq behind \cup {moving} /\ behind \subseteq seen \cup late) => WalkInOrder
  BY DEF WalkInOrder, Place
<1> HIDE DEF o, at
<1>6. /\ Distinct(o) /\ Len(o) \in Nat /\ o \in Seq(Node) /\ \A i \in 1..Len(o) : o[i] \in Node
  BY <1>1, IndexFacts
<1>7. behind = Behind(o, cur)
  <2>1. Behind(o, cur) = {x \in Node : \E i \in 1..Len(o) : o[i] = x /\ i < p}
    BY <1>3, <1>6, BehindAt
  <2> DEFINE u == SubSeq(o, 1, p - 1)
  <2>2. 1 \in 1..(Len(o) + 1) /\ p - 1 \in (1 - 1)..Len(o) /\ (p - 1) - 1 + 1 = p - 1
    BY <1>3, <1>6
  <2>3. u \in Seq(Node) /\ Len(u) = p - 1 /\ \A i \in 1..(p - 1) : u[i] = o[1 + i - 1]
    BY <1>6, <2>2, SubSeqProperties
  <2> HIDE DEF u
  <2>4. DOMAIN u = 1..(p - 1) /\ \A i \in 1..(p - 1) : u[i] = o[i]
    <3>1. \A i \in 1..(p - 1) : 1 + i - 1 = i
      BY <1>3, <1>6
    <3> QED
      BY <2>3, <3>1, LenProperties
  <2>5. ToSet(u) = {u[i] : i \in 1..(p - 1)}
    BY <2>4 DEF ToSet
  <2>6. \A i : i \in 1..(p - 1) <=> i \in 1..Len(o) /\ i < p
    BY <1>3, <1>6
  <2>7. ToSet(u) = {x \in Node : \E i \in 1..Len(o) : o[i] = x /\ i < p}
    BY <1>6, <2>4, <2>5, <2>6
  <2> QED
    BY <1>4, <2>1, <2>7 DEF u
<1> HIDE DEF behind
<1>8. at # 0
  BY <1>3, <1>4
<1> QED
  BY <1>1, <1>5, <1>7, <1>8

\* A walk meets every element exactly once and in order, except one that is added or
\* rekeyed meanwhile; erasing and rotating under the iterator does not derail it.
THEOREM IndexWalkInOrder == QSpec => []WalkInOrder
<1>1. IInv => WalkInOrder
  BY WalkThen
<1> QED
  BY <1>1, IndexInvariant, PTL

\* Where a range begins, and where it ends.
FirstAt(lo, p) ==
  /\ p \in 1..(Len(Order) + 1) /\ Place(RangeFirst(lo)) = p
  /\ \A i \in 1..Len(Order) : Admits(lo, key[Order[i]]) <=> i >= p

\* range() ends at q, behind the last key that hi admits.
LastAt(hi, q) ==
  /\ q \in 1..(Len(Order) + 1) /\ Place(RangeLast(hi)) = q
  /\ \A i \in 1..Len(Order) : Admits(hi, key[Order[i]]) <=> i < q

\* No bound is a key, and a bound with a key is of one kind.
LEMMA BoundKinds ==
  ASSUME NEW b
  PROVE  /\ Unbounded.kind = "unbounded" /\ Unbounded.key = NoKey
         /\ b \in [kind : {"ge", "gt", "le", "lt"}, key : Key] =>
              b # Unbounded /\ b.key \in Int /\ b.kind \in {"ge", "gt", "le", "lt"}
<1>1. Unbounded.kind = "unbounded" /\ Unbounded.key = NoKey
  BY DEF Unbounded
<1>2. ASSUME b \in [kind : {"ge", "gt", "le", "lt"}, key : Key]
      PROVE  b # Unbounded /\ b.key \in Int /\ b.kind \in {"ge", "gt", "le", "lt"}
  <2>1. b.kind \in {"ge", "gt", "le", "lt"} /\ b.key \in Key
    BY <1>2
  <2>2. b.kind # "unbounded"
    BY <2>1
  <2> QED
    BY <1>1, <2>1, <2>2, OrderedAssumption
<1> QED
  BY <1>1, <1>2

\* Every lower bound has its place.
LEMMA FirstFound ==
  ASSUME TreeInv, NEW lo \in LowerBounds
  PROVE  \E p : FirstAt(lo, p)
<1> DEFINE o == Order
<1>1. InTree(tree, key, Elements, o) /\ Begin(tree) = At(o, 1)
  BY OrderIterates DEF TreeInv, Iterates
<1>2. \A p \in 1..(Len(o) + 1) : Place(At(o, p)) = p
  BY PlaceFound
<1>3. \A p : FirstAt(lo, p) <=>
        /\ p \in 1..(Len(o) + 1) /\ Place(RangeFirst(lo)) = p
        /\ \A i \in 1..Len(o) : Admits(lo, key[o[i]]) <=> i >= p
  BY DEF FirstAt
<1> HIDE DEF o
<1>4. Len(o) \in Nat /\ \A i \in 1..Len(o) : key[o[i]] \in Int
  BY <1>1, IndexFacts
<1>5. CASE lo = Unbounded
  <2>1. 1 \in 1..(Len(o) + 1) /\ \A i \in 1..Len(o) : i >= 1
    BY <1>4
  <2>2. Place(RangeFirst(lo)) = 1
    BY <1>1, <1>2, <1>5, <2>1 DEF RangeFirst
  <2>3. \A k : Admits(lo, k)
    BY <1>5 DEF Admits
  <2>4. FirstAt(lo, 1)
    BY <1>3, <2>1, <2>2, <2>3
  <2> QED
    BY <2>4
<1>6. CASE lo \in [kind : {"ge", "gt"}, key : Key]
  <2> DEFINE b == lo.key
  <2>1. lo # Unbounded /\ b \in Int /\ lo.kind \in {"ge", "gt"}
    <3>1. lo \in [kind : {"ge", "gt", "le", "lt"}, key : Key] /\ lo.kind \in {"ge", "gt"}
      BY <1>6
    <3> QED
      BY <3>1, BoundKinds
  <2>2. CASE lo.kind = "ge"
    <3>1. RangeFirst(lo) = LowerBound(tree, key, b) /\ \A k : Admits(lo, k) <=> k >= b
      BY <2>1, <2>2 DEF RangeFirst, Resolve, Admits
    <3> HIDE DEF b
    <3>2. PICK p : IsLower(tree, key, o, b, p)
      BY <1>1, <2>1, LowerFound
    <3>3. FirstAt(lo, p)
      BY <1>2, <1>3, <3>1, <3>2 DEF IsLower
    <3> QED
      BY <3>3
  <2>3. CASE lo.kind = "gt"
    <3>1. RangeFirst(lo) = UpperBound(tree, key, b) /\ \A k : Admits(lo, k) <=> k > b
      BY <2>1, <2>3 DEF RangeFirst, Resolve, Admits
    <3> HIDE DEF b
    <3>2. PICK p : IsUpper(tree, key, o, b, p)
      BY <1>1, <2>1, UpperFound
    <3>3. FirstAt(lo, p)
      BY <1>2, <1>3, <3>1, <3>2 DEF IsUpper
    <3> QED
      BY <3>3
  <2> QED
    BY <2>1, <2>2, <2>3
<1> QED
  BY <1>5, <1>6 DEF LowerBounds

\* Every upper bound has its place.
LEMMA LastFound ==
  ASSUME TreeInv, NEW hi \in UpperBounds
  PROVE  \E q : LastAt(hi, q)
<1> DEFINE o == Order
<1>1. InTree(tree, key, Elements, o)
  BY DEF TreeInv
<1>2. \A p \in 1..(Len(o) + 1) : Place(At(o, p)) = p
  BY PlaceFound
<1>3. \A q : LastAt(hi, q) <=>
        /\ q \in 1..(Len(o) + 1) /\ Place(RangeLast(hi)) = q
        /\ \A i \in 1..Len(o) : Admits(hi, key[o[i]]) <=> i < q
  BY DEF LastAt
<1> HIDE DEF o
<1>4. Len(o) \in Nat /\ \A i \in 1..Len(o) : key[o[i]] \in Int
  BY <1>1, IndexFacts
<1>5. CASE hi = Unbounded
  <2> DEFINE q == Len(o) + 1
  <2>1. q \in 1..(Len(o) + 1) /\ q \notin 1..Len(o) /\ \A i \in 1..Len(o) : i < q
    BY <1>4
  <2> HIDE DEF q
  <2>2. Place(RangeLast(hi)) = q
    BY <1>2, <1>5, <2>1 DEF RangeLast, At
  <2>3. \A k : Admits(hi, k)
    BY <1>5 DEF Admits
  <2>4. LastAt(hi, q)
    BY <1>3, <2>1, <2>2, <2>3
  <2> QED
    BY <2>4
<1>6. CASE hi \in [kind : {"le", "lt"}, key : Key]
  <2> DEFINE b == hi.key
  <2>1. hi # Unbounded /\ b \in Int /\ hi.kind \in {"le", "lt"}
    <3>1. hi \in [kind : {"ge", "gt", "le", "lt"}, key : Key] /\ hi.kind \in {"le", "lt"}
      BY <1>6
    <3> QED
      BY <3>1, BoundKinds
  <2>2. CASE hi.kind = "lt"
    <3>1. RangeLast(hi) = LowerBound(tree, key, b) /\ \A k : Admits(hi, k) <=> k < b
      BY <2>1, <2>2 DEF RangeLast, Resolve, Admits
    <3> HIDE DEF b
    <3>2. PICK q : IsLower(tree, key, o, b, q)
      BY <1>1, <2>1, LowerFound
    <3>3. q \in 1..(Len(o) + 1) /\ Place(RangeLast(hi)) = q
      BY <1>2, <3>1, <3>2 DEF IsLower
    <3>4. ASSUME NEW i \in 1..Len(o) PROVE Admits(hi, key[o[i]]) <=> i < q
      <4>1. (key[o[i]] >= b <=> i >= q) /\ key[o[i]] \in Int
        BY <1>4, <3>2 DEF IsLower
      <4>2. key[o[i]] < b <=> i < q
        BY <2>1, <3>3, <4>1
      <4> QED
        BY <3>1, <4>2
    <3>5. LastAt(hi, q)
      BY <1>3, <3>3, <3>4
    <3> QED
      BY <3>5
  <2>3. CASE hi.kind = "le"
    <3>1. RangeLast(hi) = UpperBound(tree, key, b) /\ \A k : Admits(hi, k) <=> k <= b
      BY <2>1, <2>3 DEF RangeLast, Resolve, Admits
    <3> HIDE DEF b
    <3>2. PICK q : IsUpper(tree, key, o, b, q)
      BY <1>1, <2>1, UpperFound
    <3>3. q \in 1..(Len(o) + 1) /\ Place(RangeLast(hi)) = q
      BY <1>2, <3>1, <3>2 DEF IsUpper
    <3>4. ASSUME NEW i \in 1..Len(o) PROVE Admits(hi, key[o[i]]) <=> i < q
      <4>1. (key[o[i]] > b <=> i >= q) /\ key[o[i]] \in Int
        BY <1>4, <3>2 DEF IsUpper
      <4>2. key[o[i]] <= b <=> i < q
        BY <2>1, <3>3, <4>1
      <4> QED
        BY <3>1, <4>2
    <3>5. LastAt(hi, q)
      BY <1>3, <3>3, <3>4
    <3> QED
      BY <3>5
  <2> QED
    BY <2>1, <2>2, <2>3
<1> QED
  BY <1>5, <1>6 DEF UpperBounds

\* Ranges are exact in every state that satisfies the invariant.
LEMMA RangesThen ==
  ASSUME IInv
  PROVE  RangesExact
<1> SUFFICES ASSUME NEW lo \in LowerBounds, NEW hi \in UpperBounds
    PROVE LET first == Place(RangeFirst(lo))
              last == Place(RangeLast(hi))
              crossed == \E m \in Elements : ~Admits(lo, key[m]) /\ ~Admits(hi, key[m])
          IN  IF crossed THEN last < first
              ELSE /\ first <= last
                   /\ SubSeq(Order, first, last - 1) =
                        Only(Order, {m \in Elements : Admits(lo, key[m]) /\ Admits(hi, key[m])})
  BY DEF RangesExact
<1> DEFINE o == Order
           first == Place(RangeFirst(lo))
           last == Place(RangeLast(hi))
           crossed == \E m \in Elements : ~Admits(lo, key[m]) /\ ~Admits(hi, key[m])
           T == {m \in Elements : Admits(lo, key[m]) /\ Admits(hi, key[m])}
<1>1. TreeInv
  BY DEF IInv
<1>2. /\ Len(o) \in Nat /\ o \in Seq(Node)
      /\ \A i \in 1..Len(o) : o[i] \in Elements
      /\ \A x \in Elements : \E i \in 1..Len(o) : o[i] = x
  BY <1>1, IndexFacts DEF TreeInv
<1>3. PICK p : FirstAt(lo, p)
  BY <1>1, FirstFound
<1>4. PICK q : LastAt(hi, q)
  BY <1>1, LastFound
<1>5. /\ p \in 1..(Len(o) + 1) /\ first = p
      /\ \A i \in 1..Len(o) : Admits(lo, key[o[i]]) <=> i >= p
      /\ q \in 1..(Len(o) + 1) /\ last = q
      /\ \A i \in 1..Len(o) : Admits(hi, key[o[i]]) <=> i < q
  BY <1>3, <1>4 DEF FirstAt, LastAt
<1> HIDE DEF o, first, last
<1>6. crossed <=> q < p
  <2>1. ASSUME NEW m \in Elements, ~Admits(lo, key[m]), ~Admits(hi, key[m]) PROVE q < p
    <3>1. PICK i \in 1..Len(o) : o[i] = m
      BY <1>2
    <3>2. ~(i >= p) /\ ~(i < q)
      BY <1>5, <2>1, <3>1
    <3> QED
      BY <1>5, <3>2
  <2>2. ASSUME q < p PROVE crossed
    <3>1. q \in 1..Len(o) /\ ~(q >= p) /\ ~(q < q)
      BY <1>2, <1>5, <2>2
    <3>2. o[q] \in Elements /\ ~Admits(lo, key[o[q]]) /\ ~Admits(hi, key[o[q]])
      BY <1>2, <1>5, <3>1
    <3> QED
      BY <3>2
  <2> QED
    BY <2>1, <2>2
<1>7. ~(q < p) => SubSeq(o, p, q - 1) = Only(o, T)
  <2> SUFFICES ASSUME ~(q < p) PROVE SubSeq(o, p, q - 1) = Only(o, T)
    OBVIOUS
  <2>1. \A i \in 1..Len(o) : o[i] \in T <=> p <= i /\ i < q
    <3> SUFFICES ASSUME NEW i \in 1..Len(o)
                 PROVE  Admits(lo, key[o[i]]) /\ Admits(hi, key[o[i]]) <=> p <= i /\ i < q
      BY <1>2
    <3>1. i >= p <=> p <= i
      BY <1>5
    <3> QED
      BY <1>5, <3>1
  <2> HIDE DEF T
  <2>2. p \in 1..(Len(o) + 1) /\ q \in p..(Len(o) + 1)
    BY <1>2, <1>5
  <2>3. IsSlice(o, T, p, q)
    BY <2>1, <2>2 DEF IsSlice
  <2> QED
    BY <1>2, <2>3, OnlySlice
<1>8. IF crossed THEN last < first ELSE first <= last /\ SubSeq(o, first, last - 1) = Only(o, T)
  <2> HIDE DEF crossed, T
  <2>1. ~(q < p) => p <= q
    BY <1>5
  <2> QED
    BY <1>5, <1>6, <1>7, <2>1
<1> QED
  BY <1>8 DEF o, first, last

\* range(lo, hi) is the elements that both bounds admit, in order, unless an element is
\* admitted by neither: then its first iterator lies behind its last.
THEOREM IndexRangesExact == QSpec => []RangesExact
<1>1. IInv => RangesExact
  BY RangesThen
<1> QED
  BY <1>1, IndexInvariant, PTL

-----------------------------------------------------------------------------
(* The tree implements the sorted sequence.                                *)

\* What a step does to the order.
Reorders ==
  \/ \E m, p : Enters(m, p)
  \/ \E m, p : Leaves(m, p)
  \/ Stays \/ Empties

\* Every step adds one element, takes one out, empties the order or leaves it alone.
LEMMA StepReorders ==
  ASSUME IInv, QNext
  PROVE  Reorders
<1>1. TypeOK /\ TreeInv /\ (walking => cur \in Elements \cup {Nil})
  BY DEF IInv, WalkInv
<1>2. ASSUME Change PROVE Reorders
  BY <1>1, <1>2, EraseLeaves, InsertEnters, RekeyLeaves, ReturnEnters, GiveUpStays, ClearEmpties
     DEF Change, Reorders
<1>3. ASSUME UNCHANGED <<tree, key, moving>> PROVE Reorders
  BY <1>1, <1>3, UntouchedStays DEF Reorders
<1>4. CASE job = "none" /\ Next /\ UNCHANGED queries
  <2>1. CASE Change
    BY <1>2, <2>1
  <2>2. CASE StartWalk \/ StepWalk \/ EndWalk
    <3>1. UNCHANGED <<tree, key, moving>>
      BY <2>2 DEF StartWalk, StepWalk, EndWalk
    <3> QED
      BY <1>3, <3>1
  <2>3. CASE EraseAtCursor
    <3>1. cur \in Elements \cup {Nil}
      BY <1>1, <2>3 DEF EraseAtCursor
    <3> QED
      BY <1>1, <2>3, <3>1, CursorLeaves DEF Reorders
  <2> QED
    BY <1>4, <2>1, <2>2, <2>3 DEF Next, Walk
<1>5. CASE Meanwhile
  BY <1>2, <1>5 DEF Meanwhile
<1>6. CASE StartQuery("group", <<>>) \/ \E r \in Rights : StartQuery("match", r)
  <2>1. UNCHANGED <<tree, key, moving>>
    BY <1>6 DEF StartQuery
  <2> QED
    BY <1>3, <2>1
<1>7. CASE NextGroup \/ SkipLeft \/ NextLeft
  <2>1. UNCHANGED <<tree, key, moving>>
    BY <1>7 DEF NextGroup, SkipLeft, NextLeft
  <2> QED
    BY <1>3, <2>1
<1>8. CASE SkipRight \/ TakeGroup \/ Yield
  <2>1. UNCHANGED <<tree, key, moving>>
    BY <1>8 DEF SkipRight, TakeGroup, Yield, vars
  <2> QED
    BY <1>3, <2>1
<1>9. CASE EndGroups \/ EndJoin
  <2>1. UNCHANGED <<tree, key, moving>>
    BY <1>9 DEF EndGroups, EndJoin, EndQuery
  <2> QED
    BY <1>3, <2>1
<1> QED
  BY <1>4, <1>5, <1>6, <1>7, <1>8, <1>9 DEF QNext

\* An order with the keys of its elements.
FiledBy(o, ks) == [i \in DOMAIN o |-> [node |-> o[i], key |-> ks[o[i]]]]
\* What the specification's sequence consists of.
Entry == [node : Node, key : Key]

\* f is the order o with its keys.
IsFiled(f, o, ks) ==
  /\ f \in Seq(Entry) /\ Len(f) = Len(o) /\ DOMAIN f = 1..Len(o)
  /\ \A i \in 1..Len(o) : /\ f[i] = [node |-> o[i], key |-> ks[o[i]]]
                          /\ f[i].node = o[i] /\ f[i].key = ks[o[i]]

\* FiledBy is.
LEMMA FiledFacts ==
  ASSUME NEW t, NEW ks, NEW E, NEW o, InTree(t, ks, E, o)
  PROVE  IsFiled(FiledBy(o, ks), o, ks)
<1> DEFINE f == FiledBy(o, ks)
<1>1. /\ Len(o) \in Nat /\ DOMAIN o = 1..Len(o) /\ E \subseteq Node
      /\ \A i \in 1..Len(o) : o[i] \in E /\ ks[o[i]] \in Key
  BY InTreeFacts
<1>2. f = [i \in 1..Len(o) |-> [node |-> o[i], key |-> ks[o[i]]]]
  BY <1>1 DEF FiledBy
<1> HIDE DEF f
<1>3. \A i \in 1..Len(o) : [node |-> o[i], key |-> ks[o[i]]] \in Entry
  BY <1>1 DEF Entry
<1>4. f \in Seq(Entry) /\ Len(f) = Len(o) /\ DOMAIN f = 1..Len(o)
  BY <1>1, <1>2, <1>3, TableIsSequence
<1>5. \A i \in 1..Len(o) : f[i] = [node |-> o[i], key |-> ks[o[i]]]
  BY <1>2
<1>6. ASSUME NEW i \in 1..Len(o) PROVE f[i].node = o[i] /\ f[i].key = ks[o[i]]
  <2>1. f[i] = [node |-> o[i], key |-> ks[o[i]]]
    BY <1>5
  <2> QED
    BY <2>1
<1>7. IsFiled(f, o, ks)
  BY <1>4, <1>5, <1>6 DEF IsFiled
<1> QED
  BY <1>7 DEF f

\* The mapped sequence, as a function of the order.
LEMMA FiledIs == Filed = FiledBy(Order, key)
  BY DEF Filed, FiledBy

\* The same after the step.
LEMMA FiledIsNext == Filed' = FiledBy(Order', key')
  BY DEF Filed, FiledBy

\* An element that enters, with its key.
LEMMA FiledEntered ==
  ASSUME TreeInv, NEW m, NEW p, Enters(m, p)
  PROVE  Filed' = InsertAt(Filed, p, [node |-> m, key |-> key'[m]])
<1> DEFINE o == Order
           u == InsertAt(o, p, m)
           e == [node |-> m, key |-> key'[m]]
           f == FiledBy(o, key)
           g == FiledBy(u, key')
           w == InsertAt(f, p, e)
<1>1. /\ InTree(tree, key, Elements, o) /\ InTree(tree', key', Elements', u)
      /\ m \in Node /\ key'[m] \in Key /\ p \in 1..(Len(o) + 1) /\ Order' = u
      /\ \A x \in Elements : key'[x] = key[x]
  BY DEF TreeInv, Enters
<1> HIDE DEF o
<1>2. o \in Seq(Node) /\ Len(o) \in Nat /\ \A i \in 1..Len(o) : o[i] \in Elements
  BY <1>1, IndexFacts
<1>3. /\ Len(u) = Len(o) + 1
      /\ \A i \in 1..(Len(o) + 1) : u[i] = IF i < p THEN o[i] ELSE IF i = p THEN m ELSE o[i - 1]
  <2>1. m \in Node /\ o \in Seq(Node) /\ p \in 1..(Len(o) + 1)
    BY <1>1, <1>2
  <2> QED
    BY <2>1, InsertedAt
<1> HIDE DEF u
<1>4. /\ f \in Seq(Entry) /\ Len(f) = Len(o)
      /\ \A i \in 1..Len(o) : f[i] = [node |-> o[i], key |-> key[o[i]]]
  BY <1>1, FiledFacts DEF IsFiled
<1>5. /\ g \in Seq(Entry) /\ Len(g) = Len(u)
      /\ \A i \in 1..Len(u) : g[i] = [node |-> u[i], key |-> key'[u[i]]]
  BY <1>1, FiledFacts DEF IsFiled
<1> HIDE DEF f, g
<1>6. /\ w \in Seq(Entry) /\ Len(w) = Len(f) + 1
      /\ \A i \in 1..(Len(f) + 1) : w[i] = IF i < p THEN f[i] ELSE IF i = p THEN e ELSE f[i - 1]
  <2>1. e \in Entry /\ f \in Seq(Entry) /\ p \in 1..(Len(f) + 1)
    BY <1>1, <1>4 DEF Entry
  <2> HIDE DEF e
  <2>2. IsInserted(InsertAt(f, p, e), Entry, f, p, e)
    BY <2>1, InsertedIs
  <2> QED
    BY <2>2 DEF IsInserted
<1> HIDE DEF w
<1>7. ASSUME NEW i \in 1..Len(w) PROVE w[i] = g[i]
  <2>1. i \in 1..(Len(o) + 1) /\ i \in 1..Len(u) /\ i \in 1..(Len(f) + 1)
    BY <1>3, <1>4, <1>6
  <2>2. CASE i < p
    <3>1. i \in 1..Len(o) /\ w[i] = f[i] /\ u[i] = o[i]
      BY <1>1, <1>2, <1>3, <1>6, <2>1, <2>2
    <3>2. key'[o[i]] = key[o[i]]
      BY <1>1, <1>2, <3>1
    <3> QED
      BY <1>4, <1>5, <2>1, <3>1, <3>2
  <2>3. CASE i = p
    BY <1>3, <1>5, <1>6, <2>1, <2>3
  <2>4. CASE i > p
    <3>1. i - 1 \in 1..Len(o) /\ ~(i < p) /\ i # p
      BY <1>1, <1>2, <2>1, <2>4
    <3>2. w[i] = f[i - 1] /\ u[i] = o[i - 1]
      BY <1>3, <1>6, <2>1, <3>1
    <3>3. key'[o[i - 1]] = key[o[i - 1]]
      BY <1>1, <1>2, <3>1
    <3> QED
      BY <1>4, <1>5, <2>1, <3>1, <3>2, <3>3
  <2> QED
    BY <1>1, <1>2, <2>1, <2>2, <2>3, <2>4
<1>8. w = g
  BY <1>3, <1>4, <1>5, <1>6, <1>7, SeqEqual
<1> QED
  BY <1>1, <1>8, FiledIs, FiledIsNext DEF w, f, g, o

\* An element that leaves.
LEMMA FiledLeft ==
  ASSUME TreeInv, NEW m, NEW p, Leaves(m, p)
  PROVE  Filed' = RemoveAt(Filed, p)
<1> DEFINE o == Order
           u == RemoveAt(o, p)
           f == FiledBy(o, key)
           g == FiledBy(u, key')
           w == RemoveAt(f, p)
<1>1. /\ InTree(tree, key, Elements, o) /\ InTree(tree', key', Elements', u)
      /\ p \in 1..Len(o) /\ Order' = u
      /\ \A x \in Elements' : key'[x] = key[x]
  BY DEF TreeInv, Leaves
<1> HIDE DEF o
<1>2. o \in Seq(Node) /\ Len(o) \in Nat
  BY <1>1, IndexFacts
<1>3. /\ Len(u) = Len(o) - 1
      /\ \A i \in 1..(Len(o) - 1) : u[i] = IF i < p THEN o[i] ELSE o[i + 1]
  BY <1>1, <1>2, RemovedFrom
<1> HIDE DEF u
<1>4. \A i \in 1..Len(u) : u[i] \in Elements'
  BY <1>1, IndexFacts
<1>5. /\ f \in Seq(Entry) /\ Len(f) = Len(o)
      /\ \A i \in 1..Len(o) : f[i] = [node |-> o[i], key |-> key[o[i]]]
  BY <1>1, FiledFacts DEF IsFiled
<1>6. /\ g \in Seq(Entry) /\ Len(g) = Len(u)
      /\ \A i \in 1..Len(u) : g[i] = [node |-> u[i], key |-> key'[u[i]]]
  BY <1>1, FiledFacts DEF IsFiled
<1> HIDE DEF f, g
<1>7. /\ w \in Seq(Entry) /\ Len(w) = Len(f) - 1
      /\ \A i \in 1..(Len(f) - 1) : w[i] = IF i < p THEN f[i] ELSE f[i + 1]
  BY <1>1, <1>5, RemovedFrom
<1> HIDE DEF w
<1>8. ASSUME NEW i \in 1..Len(w) PROVE w[i] = g[i]
  <2> DEFINE j == IF i < p THEN i ELSE i + 1
  <2>1. i \in 1..(Len(o) - 1) /\ i \in 1..Len(u) /\ i \in 1..(Len(f) - 1)
    BY <1>3, <1>5, <1>7
  <2>2. j \in 1..Len(o) /\ w[i] = f[j] /\ u[i] = o[j]
    BY <1>1, <1>2, <1>3, <1>7, <2>1
  <2> HIDE DEF j
  <2>3. key'[u[i]] = key[u[i]]
    BY <1>1, <1>4, <2>1
  <2> QED
    BY <1>5, <1>6, <2>1, <2>2, <2>3
<1>9. w = g
  BY <1>3, <1>5, <1>6, <1>7, <1>8, SeqEqual
<1> QED
  BY <1>1, <1>9, FiledIs, FiledIsNext DEF w, f, g, o

\* The specification counts as this module does.
LEMMA SameCardinality ==
  ASSUME NEW X
  PROVE  Sorted!Cardinality(X) = Cardinality(X)
BY DEF Sorted!Cardinality, Cardinality

\* Adding an element to the tree is the specification's Add.
LEMMA EntersIsAdd ==
  ASSUME TreeInv, NEW m, NEW p, Enters(m, p)
  PROVE  Sorted!Next
<1> DEFINE o == Order
           f == Filed
           k == key'[m]
<1>1. /\ InTree(tree, key, Elements, o) /\ InTree(tree', key', Elements', Order')
      /\ m \in Node \ Elements /\ k \in Key /\ p \in 1..(Len(o) + 1)
      /\ Order' = InsertAt(o, p, m)
      /\ \A x \in Elements : key'[x] = key[x]
      /\ \A i \in 1..Len(o) : k < key[o[i]] <=> i >= p
  BY DEF TreeInv, Enters
<1>2. Filed' = InsertAt(f, p, [node |-> m, key |-> k])
  BY FiledEntered
<1>3. f = FiledBy(o, key)
  BY FiledIs
<1> HIDE DEF o, f
<1>4. /\ Len(o) \in Nat /\ o \in Seq(Node)
      /\ \A i \in 1..Len(o) : o[i] \in Elements /\ key[o[i]] \in Int
  BY <1>1, IndexFacts
<1>5. DOMAIN f = 1..Len(o) /\ \A i \in 1..Len(o) : f[i].node = o[i] /\ f[i].key = key[o[i]]
  <2>1. InTree(tree, key, Elements, o)
    BY <1>1
  <2>2. /\ DOMAIN FiledBy(o, key) = 1..Len(o)
        /\ \A i \in 1..Len(o) : /\ FiledBy(o, key)[i].node = o[i]
                                /\ FiledBy(o, key)[i].key = key[o[i]]
    <3>1. IsFiled(FiledBy(o, key), o, key)
      BY <2>1, FiledFacts
    <3> QED
      BY <3>1 DEF IsFiled
  <2> QED
    BY <1>3, <2>2
<1>6. m \notin {f[i].node : i \in DOMAIN f}
  BY <1>1, <1>4, <1>5
<1>7. k \in Int
  BY <1>1, OrderedAssumption
<1>8. Unique => k \notin {f[i].key : i \in DOMAIN f}
  <2> SUFFICES ASSUME Unique, NEW i \in 1..Len(o), key[o[i]] = k PROVE FALSE
    BY <1>5
  <2> DEFINE u == InsertAt(o, p, m)
  <2>1. /\ Len(u) = Len(o) + 1
        /\ \A j \in 1..(Len(o) + 1) : u[j] = IF j < p THEN o[j] ELSE IF j = p THEN m ELSE o[j - 1]
    <3>1. m \in Node /\ o \in Seq(Node) /\ p \in 1..(Len(o) + 1)
      BY <1>1, <1>4
    <3> QED
      BY <3>1, InsertedAt
  <2>2. Ascending(key', u)
    BY <1>1 DEF InTree
  <2> HIDE DEF u
  <2>3. i < p
    <3>1. ~(k < key[o[i]])
      BY <1>7
    <3> QED
      BY <1>1, <1>4, <3>1
  <2>4. i \in 1..Len(u) /\ p \in 1..Len(u) /\ u[i] = o[i] /\ u[p] = m
    BY <1>1, <1>4, <2>1, <2>3
  <2>5. key'[o[i]] < k
    BY <2>2, <2>3, <2>4 DEF Ascending
  <2>6. key'[o[i]] = k
    BY <1>1, <1>4
  <2> QED
    BY <1>7, <2>5, <2>6
<1>9. Cardinality({i \in DOMAIN f : f[i].key <= k}) = p - 1
  <2>1. ASSUME NEW i \in 1..Len(o) PROVE key[o[i]] <= k <=> i < p
    <3>1. (k < key[o[i]] <=> i >= p) /\ key[o[i]] \in Int
      BY <1>1, <1>4
    <3> QED
      BY <1>1, <1>4, <1>7, <3>1
  <2>2. {i \in DOMAIN f : f[i].key <= k} = {i \in 1..Len(o) : i < p}
    BY <1>5, <2>1
  <2>3. {i \in 1..Len(o) : i < p} = 1..(p - 1)
    BY <1>1, <1>4
  <2>4. p - 1 \in Nat
    BY <1>1, <1>4
  <2>5. Cardinality(1..(p - 1)) = p - 1
    BY <2>4, PlacesCount
  <2> QED
    BY <2>2, <2>3, <2>5
<1>10. Sorted!Add(m, k)
  <2>1. m \notin Sorted!Nodes /\ (Unique => k \notin Sorted!Keys)
    BY <1>6, <1>8 DEF Sorted!Nodes, Sorted!Keys, f
  <2>2. Filed' = SubSeq(Filed, 1, p - 1) \o <<[node |-> m, key |-> k]>>
                   \o SubSeq(Filed, p, Len(Filed))
    BY <1>2 DEF InsertAt, f
  <2>3. p - 1 + 1 = p
    BY <1>1, <1>4
  <2>4. Sorted!UpTo(k) = p - 1
    BY <1>9, SameCardinality DEF Sorted!UpTo, f
  <2> QED
    BY <2>1, <2>2, <2>3, <2>4 DEF Sorted!Add
<1> QED
  BY <1>1, <1>10 DEF Sorted!Next

\* Taking an element out of the tree is its Drop.
LEMMA LeavesIsDrop ==
  ASSUME TreeInv, NEW m, NEW p, Leaves(m, p)
  PROVE  Sorted!Next
<1> DEFINE o == Order
<1>1. InTree(tree, key, Elements, o) /\ p \in 1..Len(o) /\ m = o[p]
  BY DEF TreeInv, Leaves
<1>2. Filed' = RemoveAt(Filed, p) /\ Filed = FiledBy(o, key)
  BY FiledLeft, FiledIs
<1> HIDE DEF o
<1>3. p \in DOMAIN Filed /\ Filed[p].node = m
  <2>1. /\ DOMAIN FiledBy(o, key) = 1..Len(o)
        /\ \A i \in 1..Len(o) : FiledBy(o, key)[i].node = o[i]
    <3>1. IsFiled(FiledBy(o, key), o, key)
      BY <1>1, FiledFacts
    <3> QED
      BY <3>1 DEF IsFiled
  <2> QED
    BY <1>1, <1>2, <2>1
<1>4. m \in Node
  BY <1>1, IndexFacts
<1>5. Sorted!Drop(m)
  BY <1>2, <1>3 DEF Sorted!Drop, RemoveAt
<1> QED
  BY <1>4, <1>5 DEF Sorted!Next

\* A step that leaves the order alone is a stutter.
LEMMA StaysIsStutter ==
  ASSUME TreeInv, Stays
  PROVE  Filed' = Filed
<1>1. /\ Order' = Order /\ \A x \in Elements : key'[x] = key[x]
  BY DEF Stays
<1>2. DOMAIN Order = 1..Len(Order) /\ \A i \in 1..Len(Order) : Order[i] \in Elements
  BY InTreeFacts DEF TreeInv
<1>3. \A i \in DOMAIN Order : key'[Order[i]] = key[Order[i]]
  BY <1>1, <1>2
<1>4. FiledBy(Order', key') = FiledBy(Order, key)
  BY <1>1, <1>3 DEF FiledBy
<1> QED
  BY <1>4, FiledIs, FiledIsNext

\* The empty order maps to the empty sequence.
LEMMA NothingFiled ==
  ASSUME NEW ks
  PROVE  FiledBy(<<>>, ks) = <<>>
<1>1. DOMAIN <<>> = {}
  BY EmptySeq
<1> QED
  BY <1>1, EmptySeq DEF FiledBy

\* Emptying the tree is the specification's Clear.
LEMMA EmptiesIsClear ==
  ASSUME Empties
  PROVE  Sorted!Next
<1>1. Filed' = <<>>
  BY FiledIsNext, NothingFiled DEF Empties
<1> QED
  BY <1>1 DEF Sorted!Next, Sorted!Clear

\* Both begin empty.
LEMMA InitIsSorted ==
  ASSUME QInit
  PROVE  Sorted!Init
<1>1. tree = Empty
  BY DEF QInit, Init
<1>2. Empty \in Trees /\ Empty.root = Nil /\ Empty.n = 0
  BY DEF Empty, Trees, Link
<1>3. InTree(tree, key, {}, <<>>)
  BY <1>1, <1>2, NoTree
<1>4. InOrder(tree, tree.root) = <<>>
  BY <1>3, InTreeFacts
<1>5. Order = <<>>
  BY <1>4 DEF Order
<1>6. Filed = <<>>
  BY <1>5, FiledIs, NothingFiled
<1> QED
  BY <1>6 DEF Sorted!Init

\* The tree implements the sorted sequence: adding, erasing and rotating never reorder
\* other elements, an added element follows its equals, and no step of an iterator or a
\* query changes the sequence.
THEOREM TreeImplementsSequence == QSpec => Refines
<1>1. QInit => Sorted!Init
  BY InitIsSorted
<1>2. IInv /\ [QNext]_qvars => [Sorted!Next]_Filed
  <2> SUFFICES ASSUME IInv, [QNext]_qvars PROVE Sorted!Next \/ Filed' = Filed
    OBVIOUS
  <2>1. TreeInv
    BY DEF IInv
  <2>2. CASE QNext
    <3>1. Reorders
      BY <2>2, StepReorders
    <3> QED
      BY <2>1, <3>1, EntersIsAdd, LeavesIsDrop, StaysIsStutter, EmptiesIsClear DEF Reorders
  <2>3. CASE UNCHANGED qvars
    <3>1. UNCHANGED <<tree, key, moving>>
      BY <2>3 DEF qvars, vars
    <3> QED
      BY <2>1, <3>1, UntouchedStays, StaysIsStutter
  <2> QED
    BY <2>2, <2>3
<1> QED
  BY <1>1, <1>2, IndexInvariant, PTL DEF QSpec, Refines, Sorted!Spec

-----------------------------------------------------------------------------
(* equi_join.                                                              *)

\* What is known of the other index: while the two iterators look for a match, what lies
\* behind that index's iterator has no partner any more; while pairs are yielded, the
\* group is exactly the partners of the current element.
JoinInv ==
  /\ job \in {"none", "group", "match", "emit"}
  /\ job = "none" => out = <<>>
  /\ job \in {"match", "emit"} => right \in Rights /\ ib \in 1..(Len(right) + 1)
  /\ job = "match" => out = <<>> /\ (cur # Nil => \A j \in 1..(ib - 1) : right[j] < key[cur])
  /\ job = "emit" => \E b \in 1..(ib - 1) :
       /\ bgroup = SubSeq(Positions(right), b, ib - 1)
       /\ \A j \in 1..Len(right) : right[j] = key[cur] <=> b <= j /\ j < ib
       /\ jb \in 1..(Len(bgroup) + 1) /\ out = SubSeq(bgroup, 1, jb - 1)

\* The other index is sorted.
LEMMA RightFacts ==
  ASSUME NEW r \in Rights
  PROVE  /\ r \in Seq(Int) /\ Len(r) \in Nat /\ DOMAIN r = 1..Len(r)
         /\ \A i \in 1..Len(r) : r[i] \in Int
         /\ \A i, j \in 1..Len(r) : i < j => r[i] <= r[j]
         /\ Positions(r) \in Seq(Nat) /\ Len(Positions(r)) = Len(r)
         /\ \A i \in 1..Len(r) : Positions(r)[i] = i
<1>1. r \in Seq(Int) /\ \A i, j \in DOMAIN r : i < j => r[i] <= r[j]
  BY QueryAssumption
<1>2. Len(r) \in Nat /\ DOMAIN r = 1..Len(r) /\ \A i \in 1..Len(r) : r[i] \in Int
  BY <1>1, LenProperties
<1> DEFINE u == Positions(r)
<1>3. u = [i \in 1..Len(r) |-> i]
  BY <1>2 DEF Positions
<1> HIDE DEF u
<1>4. \A i \in 1..Len(r) : i \in Nat
  BY <1>2
<1>5. u \in [1..Len(r) -> Nat]
  BY <1>3, <1>4
<1>6. u \in Seq(Nat) /\ Len(u) = Len(r)
  BY <1>2, <1>5, TableIsSequence
<1>7. \A i \in 1..Len(r) : u[i] = i
  BY <1>3
<1> QED
  BY <1>1, <1>2, <1>6, <1>7 DEF u

\* The elements of T from position b to position e are those positions.
LEMMA PositionsFrom ==
  ASSUME NEW r \in Rights, NEW T, NEW b \in 1..(Len(r) + 1), NEW e \in b..(Len(r) + 1),
         \A j \in 1..Len(r) : j \in T <=> b <= j /\ j < e
  PROVE  /\ Only(Positions(r), T) = SubSeq(Positions(r), b, e - 1)
         /\ SubSeq(Positions(r), b, e - 1) \in Seq(Nat)
         /\ Len(SubSeq(Positions(r), b, e - 1)) = e - b
         /\ b < e => SubSeq(Positions(r), b, e - 1)[1] = b
<1> DEFINE u == Positions(r)
<1>1. /\ u \in Seq(Nat) /\ Len(u) = Len(r) /\ Len(r) \in Nat /\ \A i \in 1..Len(r) : u[i] = i
  BY RightFacts
<1> HIDE DEF u
<1>2. IsSlice(u, T, b, e)
  BY <1>1 DEF IsSlice
<1>3. Only(u, T) = SubSeq(u, b, e - 1)
  BY <1>1, <1>2, OnlySlice
<1> DEFINE v == SubSeq(u, b, e - 1)
<1>4. b \in 1..(Len(u) + 1) /\ e - 1 \in (b - 1)..Len(u) /\ (e - 1) - b + 1 = e - b
  BY <1>1
<1>5. /\ v \in Seq(Nat) /\ Len(v) = (e - 1) - b + 1
      /\ \A i \in 1..((e - 1) - b + 1) : v[i] = u[b + i - 1]
  BY <1>1, <1>4, SubSeqProperties
<1> HIDE DEF v
<1>6. b < e => v[1] = b
  <2> SUFFICES ASSUME b < e PROVE v[1] = b
    OBVIOUS
  <2>1. 1 \in 1..((e - 1) - b + 1) /\ b + 1 - 1 = b /\ b \in 1..Len(r)
    BY <1>1
  <2> QED
    BY <1>1, <1>5, <2>1
<1> QED
  BY <1>3, <1>4, <1>5, <1>6 DEF u, v

\* The partners of an element are a slice of the right side.
LEMMA PartnersAre ==
  ASSUME right \in Rights, NEW m, NEW b \in 1..(Len(right) + 1), NEW e \in b..(Len(right) + 1),
         \A j \in 1..Len(right) : right[j] = key[m] <=> b <= j /\ j < e
  PROVE  Partners(m) = SubSeq(Positions(right), b, e - 1)
<1> DEFINE T == {j \in DOMAIN right : right[j] = key[m]}
           r == right
<1>1. DOMAIN r = 1..Len(r)
  BY RightFacts
<1>2. \A j \in 1..Len(r) : j \in T <=> b <= j /\ j < e
  BY <1>1
<1>3. r \in Rights /\ b \in 1..(Len(r) + 1) /\ e \in b..(Len(r) + 1)
  OBVIOUS
<1> HIDE DEF T, r
<1>4. Only(Positions(r), T) = SubSeq(Positions(r), b, e - 1)
  BY <1>2, <1>3, PositionsFrom
<1> QED
  BY <1>4 DEF Partners, T, r

\* An element whose key the right side does not have has no partners.
LEMMA NoPartners ==
  ASSUME right \in Rights, NEW m, \A j \in 1..Len(right) : right[j] # key[m]
  PROVE  Partners(m) = <<>>
<1>1. Len(right) \in Nat /\ Positions(right) \in Seq(Nat)
  BY RightFacts
<1>2. 1 \in 1..(Len(right) + 1) /\ 1 \in 1..(Len(right) + 1)
      /\ \A j \in 1..Len(right) : right[j] = key[m] <=> 1 <= j /\ j < 1
  BY <1>1
<1>3. Partners(m) = SubSeq(Positions(right), 1, 1 - 1)
  BY <1>2, PartnersAre
<1>4. SubSeq(Positions(right), 1, 1 - 1) = <<>>
  <2> DEFINE v == SubSeq(Positions(right), 1, 1 - 1)
  <2>1. 1 \in 1..(Len(right) + 1) /\ 1 \in 1..(Len(right) + 1)
        /\ \A j \in 1..Len(right) : j \in {} <=> 1 <= j /\ j < 1
    BY <1>1
  <2>2. v \in Seq(Nat) /\ Len(v) = 1 - 1
    BY <2>1, PositionsFrom
  <2> HIDE DEF v
  <2>3. v = <<>>
    BY <2>2, EmptySeq
  <2> QED
    BY <2>3 DEF v
<1> QED
  BY <1>3, <1>4

\* While an iterator stays on an element, its key stays.
LEMMA CursorKeyStays ==
  ASSUME IInv, Meanwhile, walking', cur # Nil
  PROVE  cur' = cur /\ key'[cur] = key[cur]
<1>1. Keeps /\ Reorders
  <2>1. Keeps
    BY ChangeKeeps DEF IInv, Meanwhile
  <2>2. Reorders
    BY StepReorders DEF QNext
  <2> QED
    BY <2>1, <2>2
<1>2. cur' = cur /\ walking /\ WalkInv' /\ cur \in Elements
  BY <1>1 DEF Keeps, IInv, WalkInv
<1>3. cur \in Elements'
  BY <1>2 DEF WalkInv
<1>4. CASE \E m, p : Enters(m, p)
  BY <1>2, <1>4 DEF Enters
<1>5. CASE \E m, p : Leaves(m, p)
  BY <1>2, <1>3, <1>5 DEF Leaves
<1>6. CASE Stays
  BY <1>2, <1>6 DEF Stays
<1>7. CASE Empties
  BY <1>3, <1>7 DEF Empties
<1> QED
  BY <1>1, <1>2, <1>4, <1>5, <1>6, <1>7 DEF Reorders

\* The next element's key is no smaller.
LEMMA NextKey ==
  ASSUME TreeInv, cur \in Elements, cur' = Step(tree, cur, "r"), cur' # Nil
  PROVE  cur' \in Elements /\ key[cur'] \in Int /\ key[cur] \in Int /\ key[cur] <= key[cur']
<1> DEFINE o == Order
<1>1. InTree(tree, key, Elements, o)
  BY DEF TreeInv
<1>2. PICK p \in 1..(Len(o) + 1) : cur # Nil => p \in 1..Len(o) /\ o[p] = cur
  BY CursorAt
<1>3. \A i \in 1..Len(o) : Step(tree, o[i], "r") = At(o, i + 1)
  BY OrderIterates DEF Iterates
<1> HIDE DEF o
<1>4. Len(o) \in Nat /\ Nil \notin Elements /\ \A i \in 1..Len(o) : o[i] \in Elements /\ key[o[i]] \in Int
  BY <1>1, IndexFacts
<1>5. p \in 1..Len(o) /\ o[p] = cur
  BY <1>2, <1>4
<1>6. cur' = At(o, p + 1)
  BY <1>3, <1>5
<1>7. p + 1 \in 1..Len(o) /\ cur' = o[p + 1]
  BY <1>6 DEF At
<1>8. key[o[p]] <= key[o[p + 1]]
  <2>1. p < p + 1
    BY <1>5
  <2> QED
    BY <1>1, <1>5, <1>7, <2>1 DEF InTree, Ascending
<1> QED
  BY <1>4, <1>5, <1>7, <1>8

\* From match to emit: the group that is taken is all the partners.
LEMMA TakeGroupKeeps ==
  ASSUME IInv, JoinInv, TakeGroup
  PROVE  JoinInv'
<1> DEFINE r == right
           k == key[cur]
<1>1. /\ job = "match" /\ cur # Nil /\ r \in Rights /\ ib \in 1..Len(r) /\ k = r[ib]
      /\ \A j \in 1..(ib - 1) : r[j] < k
      /\ out = <<>> /\ job' = "emit" /\ jb' = 1
      /\ bgroup' = GroupFrom(r, ib) /\ ib' = ib + Len(bgroup')
      /\ UNCHANGED vars /\ right' = r /\ out' = out
  <2>1. /\ job = "match" /\ cur # Nil /\ ib <= Len(r)
    BY DEF TakeGroup, Joining
  <2>2. r \in Rights /\ ib \in 1..(Len(r) + 1) /\ out = <<>> /\ \A j \in 1..(ib - 1) : r[j] < k
    BY <2>1 DEF JoinInv
  <2>3. ib \in 1..Len(r)
    BY <2>1, <2>2, RightFacts
  <2> QED
    BY <2>1, <2>2, <2>3 DEF TakeGroup
<1>2. cur' = cur /\ key' = key
  BY <1>1 DEF vars, walk
<1> HIDE DEF r, k
<1>3. /\ r \in Seq(Int) /\ Len(r) \in Nat /\ DOMAIN r = 1..Len(r)
      /\ \A i \in 1..Len(r) : r[i] \in Int
      /\ \A i, j \in 1..Len(r) : i < j => r[i] <= r[j]
  BY <1>1, RightFacts
<1>4. PICK e \in 1..(Len(r) + 1) : \A i \in 1..Len(r) : r[i] > k <=> i >= e
  <2> DEFINE T == {v \in Int : v > k}
  <2>1. \A i \in 1..Len(r) : r[i] \in T <=> r[i] > k
    BY <1>3
  <2> HIDE DEF T
  <2>2. ASSUME NEW i \in 1..Len(r), NEW j \in 1..Len(r), i <= j, r[i] \in T PROVE r[j] \in T
    <3>1. i = j \/ r[i] <= r[j]
      BY <1>3, <2>2
    <3>2. r[i] > k /\ r[i] \in Int /\ r[j] \in Int /\ k \in Int
      BY <1>1, <1>3, <2>1, <2>2
    <3> QED
      BY <2>1, <2>2, <3>1, <3>2
  <2>3. PICK p : Cuts(r, T, p)
    BY <1>3, <2>2, CutExists
  <2> QED
    BY <2>1, <2>3 DEF Cuts
<1>5. k \in Int /\ ib < e /\ ib \in 1..(Len(r) + 1) /\ e \in ib..(Len(r) + 1)
  <2>1. ~(r[ib] > k) /\ k \in Int
    BY <1>1, <1>3
  <2>2. ~(ib >= e)
    BY <1>1, <1>4, <2>1
  <2> QED
    BY <1>1, <1>3, <1>4, <2>1, <2>2
<1>6. ASSUME NEW j \in 1..Len(r) PROVE r[j] = k <=> ib <= j /\ j < e
  <2>1. CASE j < ib
    <3>1. j \in 1..(ib - 1) /\ r[j] \in Int
      BY <1>1, <1>3, <2>1
    <3> QED
      BY <1>1, <1>5, <2>1, <3>1
  <2>2. CASE j >= ib
    <3>1. r[ib] <= r[j] /\ r[j] \in Int
      <4>1. ib = j \/ ib < j
        BY <1>1, <2>2
      <4>2. r[ib] \in Int /\ r[j] \in Int
        BY <1>1, <1>3
      <4> QED
        BY <1>1, <1>3, <4>1, <4>2
    <3>2. r[j] > k <=> j >= e
      BY <1>4
    <3> QED
      BY <1>1, <1>4, <1>5, <2>2, <3>1, <3>2
  <2> QED
    BY <1>1, <2>1, <2>2
<1> DEFINE T == {j \in DOMAIN r : j >= ib /\ r[j] = r[ib]}
           g == SubSeq(Positions(r), ib, e - 1)
<1>7. \A j \in 1..Len(r) : j \in T <=> ib <= j /\ j < e
  <2>1. \A j \in 1..Len(r) : j >= ib <=> ib <= j
    BY <1>1
  <2> QED
    BY <1>1, <1>3, <1>6, <2>1
<1>8. bgroup' = Only(Positions(r), T)
  BY <1>1 DEF GroupFrom
<1> HIDE DEF T
<1>9. Only(Positions(r), T) = g /\ Len(g) = e - ib /\ g \in Seq(Nat)
  BY <1>1, <1>5, <1>7, PositionsFrom
<1>10. bgroup' = g /\ ib' = e
  BY <1>1, <1>5, <1>8, <1>9
<1>11. out' = SubSeq(bgroup', 1, jb' - 1) /\ jb' \in 1..(Len(bgroup') + 1)
  <2>1. Len(bgroup') \in Nat /\ jb' - 1 = 0
    BY <1>1, <1>5, <1>9, <1>10
  <2>2. SubSeq(bgroup', 1, 0) = <<>>
    <3>1. bgroup' \in Seq(Nat)
      BY <1>9, <1>10
    <3>2. 1 \in 1..(Len(bgroup') + 1) /\ 0 \in (1 - 1)..Len(bgroup') /\ 0 - 1 + 1 = 0
      BY <2>1
    <3>3. SubSeq(bgroup', 1, 0) \in Seq(Nat) /\ Len(SubSeq(bgroup', 1, 0)) = 0 - 1 + 1
      BY <3>1, <3>2, SubSeqProperties
    <3> QED
      BY <3>2, <3>3, EmptySeq
  <2> QED
    BY <1>1, <2>1, <2>2
<1>12. ib \in 1..(ib' - 1) /\ ib' \in 1..(Len(r) + 1)
  BY <1>1, <1>3, <1>4, <1>5, <1>10
<1>13. /\ bgroup' = SubSeq(Positions(r), ib, ib' - 1)
       /\ \A j \in 1..Len(r) : r[j] = key'[cur'] <=> ib <= j /\ j < ib'
  BY <1>2, <1>6, <1>10 DEF k
<1> QED
  BY <1>1, <1>11, <1>12, <1>13 DEF JoinInv

\* Looking for a match: the element that is left behind has no partner.
LEMMA SkipLeftKeeps ==
  ASSUME IInv, JoinInv, SkipLeft
  PROVE  JoinInv' /\ out = Partners(cur)
<1> DEFINE r == right
           k == key[cur]
<1>1. /\ job = "match" /\ cur # Nil /\ r \in Rights /\ ib \in 1..Len(r) /\ k < r[ib]
      /\ \A j \in 1..(ib - 1) : r[j] < k
      /\ out = <<>> /\ job' = "match" /\ out' = <<>> /\ ib' = ib /\ right' = r
      /\ cur' = Step(tree, cur, "r") /\ key' = key
  <2>1. /\ job = "match" /\ cur # Nil /\ ib <= Len(r) /\ k < r[ib]
    BY DEF SkipLeft, Joining
  <2>2. r \in Rights /\ ib \in 1..(Len(r) + 1) /\ out = <<>> /\ \A j \in 1..(ib - 1) : r[j] < k
    BY <2>1 DEF JoinInv
  <2>3. ib \in 1..Len(r)
    BY <2>1, <2>2, RightFacts
  <2>4. UNCHANGED queries /\ cur' = Step(tree, cur, "r") /\ key' = key
    BY DEF SkipLeft, Advance
  <2> QED
    BY <2>1, <2>2, <2>3, <2>4 DEF queries
<1>2. TreeInv /\ cur \in Elements
  BY <1>1 DEF IInv, WalkInv, GroupInv
<1>3. cur' # Nil => key[cur'] \in Int /\ k \in Int /\ k <= key[cur']
  BY <1>1, <1>2, NextKey
<1>4. k \in Int
  BY <1>2, IndexFacts DEF TreeInv
<1> HIDE DEF r, k
<1>5. /\ Len(r) \in Nat /\ \A i \in 1..Len(r) : r[i] \in Int
      /\ \A i, j \in 1..Len(r) : i < j => r[i] <= r[j]
  BY <1>1, RightFacts
<1>6. ASSUME NEW j \in 1..Len(r) PROVE r[j] # k
  <2>1. CASE j < ib
    <3>1. j \in 1..(ib - 1) /\ r[j] \in Int
      BY <1>1, <1>5, <2>1
    <3> QED
      BY <1>1, <1>4, <3>1
  <2>2. CASE j >= ib
    <3>1. r[ib] <= r[j] /\ r[j] \in Int /\ r[ib] \in Int
      <4>1. ib = j \/ ib < j
        BY <1>1, <2>2
      <4>2. r[ib] \in Int /\ r[j] \in Int
        BY <1>1, <1>5
      <4> QED
        BY <1>1, <1>5, <4>1, <4>2
    <3> QED
      BY <1>1, <1>4, <3>1
  <2> QED
    BY <1>1, <2>1, <2>2
<1>7. Partners(cur) = <<>>
  BY <1>1, <1>6, NoPartners DEF r, k
<1>8. cur' # Nil => \A j \in 1..(ib - 1) : r[j] < key[cur']
  <2> SUFFICES ASSUME cur' # Nil, NEW j \in 1..(ib - 1) PROVE r[j] < key[cur']
    OBVIOUS
  <2>1. j \in 1..Len(r)
    BY <1>1, <1>5
  <2>2. r[j] < k /\ r[j] \in Int
    BY <1>1, <1>5, <2>1
  <2> QED
    BY <1>3, <1>4, <2>2
<1>9. ib \in 1..(Len(r) + 1)
  BY <1>1, <1>5
<1>10. JoinInv'
  BY <1>1, <1>8, <1>9 DEF JoinInv
<1> QED
  BY <1>1, <1>7, <1>10

\* Skipping an element of the right side loses no partner.
LEMMA SkipRightKeeps ==
  ASSUME IInv, JoinInv, SkipRight
  PROVE  JoinInv'
<1> DEFINE r == right
           k == key[cur]
<1>1. /\ job = "match" /\ cur # Nil /\ r \in Rights /\ ib \in 1..Len(r) /\ r[ib] < k
      /\ \A j \in 1..(ib - 1) : r[j] < k
      /\ out = <<>> /\ job' = "match" /\ out' = <<>> /\ ib' = ib + 1 /\ right' = r
      /\ UNCHANGED vars
  <2>1. /\ job = "match" /\ cur # Nil /\ ib <= Len(r) /\ r[ib] < k
    BY DEF SkipRight, Joining
  <2>2. r \in Rights /\ ib \in 1..(Len(r) + 1) /\ out = <<>> /\ \A j \in 1..(ib - 1) : r[j] < k
    BY <2>1 DEF JoinInv
  <2>3. ib \in 1..Len(r)
    BY <2>1, <2>2, RightFacts
  <2>4. ib' = ib + 1 /\ UNCHANGED <<job, right, out>> /\ UNCHANGED vars
    BY DEF SkipRight
  <2> QED
    BY <2>1, <2>2, <2>3, <2>4
<1>2. cur' = cur /\ key' = key
  BY <1>1 DEF vars, walk
<1>3. ib' \in 1..(Len(r) + 1)
  BY <1>1
<1>4. \A j \in 1..(ib' - 1) : r[j] < k
  <2>1. \A j \in 1..(ib' - 1) : j \in 1..(ib - 1) \/ j = ib
    BY <1>1
  <2> QED
    BY <1>1, <2>1
<1> QED
  BY <1>1, <1>2, <1>3, <1>4 DEF JoinInv

\* Yielding takes the next partner.
LEMMA YieldKeeps ==
  ASSUME IInv, JoinInv, Yield
  PROVE  JoinInv'
<1>1. /\ job = "emit" /\ jb <= Len(bgroup) /\ out' = Append(out, bgroup[jb]) /\ jb' = jb + 1
      /\ UNCHANGED vars /\ UNCHANGED <<job, right, ib, bgroup>>
      /\ right \in Rights /\ ib \in 1..(Len(right) + 1)
  BY DEF Yield, JoinInv
<1>2. cur' = cur /\ key' = key
  BY <1>1 DEF vars, walk
<1>3. PICK b \in 1..(ib - 1) :
        /\ bgroup = SubSeq(Positions(right), b, ib - 1)
        /\ \A j \in 1..Len(right) : right[j] = key[cur] <=> b <= j /\ j < ib
        /\ jb \in 1..(Len(bgroup) + 1) /\ out = SubSeq(bgroup, 1, jb - 1)
  BY <1>1 DEF JoinInv
<1>4. bgroup \in Seq(Nat) /\ Len(bgroup) \in Nat
  <2>1. b \in 1..(Len(right) + 1) /\ ib \in b..(Len(right) + 1)
    BY <1>1, <1>3, RightFacts
  <2> DEFINE T == {j \in 1..Len(right) : b <= j /\ j < ib}
  <2>2. \A j \in 1..Len(right) : j \in T <=> b <= j /\ j < ib
    OBVIOUS
  <2> HIDE DEF T
  <2>3. bgroup \in Seq(Nat)
    BY <1>1, <1>3, <2>1, <2>2, PositionsFrom
  <2> QED
    BY <2>3, LenProperties
<1>5. out' = SubSeq(bgroup, 1, jb' - 1) /\ jb' \in 1..(Len(bgroup) + 1)
  <2>1. 1 \in 1..(Len(bgroup) + 1) /\ jb - 1 \in (1 - 1)..(Len(bgroup) - 1) /\ (jb - 1) + 1 = jb
        /\ jb' - 1 = jb
    BY <1>1, <1>3, <1>4
  <2>2. Append(SubSeq(bgroup, 1, jb - 1), bgroup[(jb - 1) + 1]) = SubSeq(bgroup, 1, (jb - 1) + 1)
    BY <1>4, <2>1, SliceGrows
  <2> QED
    BY <1>1, <1>3, <1>4, <2>1, <2>2
<1> QED
  BY <1>1, <1>2, <1>3, <1>5 DEF JoinInv

\* The group that is being yielded is all the partners of the current element, and its
\* first position has that element's key.
LEMMA EmitFacts ==
  ASSUME IInv, JoinInv, job = "emit"
  PROVE  /\ right \in Rights /\ ib \in 1..(Len(right) + 1) /\ bgroup \in Seq(Nat)
         /\ bgroup = Partners(cur) /\ right[bgroup[1]] = key[cur]
         /\ jb \in 1..(Len(bgroup) + 1) /\ out = SubSeq(bgroup, 1, jb - 1)
         /\ \A j \in 1..(ib - 1) : right[j] <= key[cur]
<1>1. right \in Rights /\ ib \in 1..(Len(right) + 1)
  BY DEF JoinInv
<1>2. PICK b \in 1..(ib - 1) :
        /\ bgroup = SubSeq(Positions(right), b, ib - 1)
        /\ \A j \in 1..Len(right) : right[j] = key[cur] <=> b <= j /\ j < ib
        /\ jb \in 1..(Len(bgroup) + 1) /\ out = SubSeq(bgroup, 1, jb - 1)
  BY DEF JoinInv
<1>3. /\ Len(right) \in Nat /\ \A i \in 1..Len(right) : right[i] \in Int
      /\ \A i, j \in 1..Len(right) : i < j => right[i] <= right[j]
  BY <1>1, RightFacts
<1>4. b \in 1..(Len(right) + 1) /\ ib \in b..(Len(right) + 1) /\ b < ib /\ b \in 1..Len(right)
  BY <1>1, <1>2, <1>3
<1>5. bgroup \in Seq(Nat) /\ bgroup[1] = b
  <2> DEFINE T == {j \in 1..Len(right) : b <= j /\ j < ib}
  <2>1. \A j \in 1..Len(right) : j \in T <=> b <= j /\ j < ib
    OBVIOUS
  <2> HIDE DEF T
  <2> QED
    BY <1>1, <1>2, <1>4, <2>1, PositionsFrom
<1>6. bgroup = Partners(cur)
  BY <1>1, <1>2, <1>4, PartnersAre
<1>7. right[b] = key[cur]
  BY <1>2, <1>4
<1>8. ASSUME NEW j \in 1..(ib - 1) PROVE right[j] <= key[cur]
  <2>1. j \in 1..Len(right) /\ right[j] \in Int
    BY <1>1, <1>3
  <2>2. CASE j < b
    BY <1>3, <1>4, <1>7, <2>1, <2>2
  <2>3. CASE b <= j
    <3>1. right[j] = key[cur]
      BY <1>1, <1>2, <2>1, <2>3
    <3> QED
      BY <2>1, <3>1
  <2> QED
    BY <1>4, <2>2, <2>3
<1> QED
  BY <1>1, <1>2, <1>5, <1>6, <1>7, <1>8

\* When the join leaves an element, it has yielded its partners.
LEMMA NextLeftKeeps ==
  ASSUME IInv, JoinInv, NextLeft
  PROVE  JoinInv' /\ out = Partners(cur)
<1> DEFINE r == right
           k == key[cur]
<1>1. /\ job = "emit" /\ jb > Len(bgroup) /\ jb' = 1 /\ out' = <<>>
      /\ cur' = Step(tree, cur, "r") /\ key' = key /\ right' = r /\ ib' = ib /\ bgroup' = bgroup
      /\ job' = IF cur' # Nil /\ SameKey(r[bgroup[1]], cur') THEN "emit" ELSE "match"
  BY DEF NextLeft, Advance
<1>2. /\ r \in Rights /\ ib \in 1..(Len(r) + 1) /\ bgroup \in Seq(Nat)
      /\ bgroup = Partners(cur) /\ r[bgroup[1]] = k
      /\ jb \in 1..(Len(bgroup) + 1) /\ out = SubSeq(bgroup, 1, jb - 1)
      /\ \A j \in 1..(ib - 1) : r[j] <= k
  BY <1>1, EmitFacts
<1>3. PICK b \in 1..(ib - 1) :
        /\ bgroup = SubSeq(Positions(r), b, ib - 1)
        /\ \A j \in 1..Len(r) : r[j] = k <=> b <= j /\ j < ib
  BY <1>1 DEF JoinInv
<1>4. TreeInv /\ cur \in Elements
  BY <1>1 DEF IInv, WalkInv, GroupInv
<1>5. cur' # Nil => key[cur'] \in Int /\ k \in Int /\ k <= key[cur']
  BY <1>1, <1>4, NextKey
<1>6. k \in Int
  BY <1>4, IndexFacts DEF TreeInv
<1>7. cur' # Nil => (SameKey(k, cur') <=> key[cur'] = k)
  BY <1>5 DEF SameKey
<1> HIDE DEF r, k
<1>8. Len(r) \in Nat /\ \A i \in 1..Len(r) : r[i] \in Int
  BY <1>2, RightFacts
<1>9. Len(bgroup) \in Nat /\ out = bgroup
  <2>1. Len(bgroup) \in Nat
    BY <1>2, LenProperties
  <2>2. jb - 1 = Len(bgroup)
    BY <1>1, <1>2, <2>1
  <2> DEFINE u == SubSeq(bgroup, 1, Len(bgroup))
  <2>3. 1 \in 1..(Len(bgroup) + 1) /\ Len(bgroup) \in (1 - 1)..Len(bgroup)
        /\ Len(bgroup) - 1 + 1 = Len(bgroup)
    BY <2>1
  <2>4. u \in Seq(Nat) /\ Len(u) = Len(bgroup) /\ \A i \in 1..Len(bgroup) : u[i] = bgroup[1 + i - 1]
    BY <1>2, <2>3, SubSeqProperties
  <2> HIDE DEF u
  <2>5. \A i \in 1..Len(u) : u[i] = bgroup[i]
    <3>1. \A i \in 1..Len(u) : 1 + i - 1 = i
      BY <2>1, <2>4
    <3> QED
      BY <2>4, <3>1
  <2>6. u = bgroup
    BY <1>2, <2>4, <2>5, SeqEqual
  <2> QED
    BY <1>2, <2>1, <2>2, <2>6 DEF u
<1>10. CASE cur' # Nil /\ key[cur'] = k
  <2>1. job' = "emit"
    BY <1>1, <1>2, <1>7, <1>10
  <2>2. jb' \in 1..(Len(bgroup) + 1) /\ jb' - 1 = 0
    BY <1>1, <1>9
  <2>3. SubSeq(bgroup, 1, 0) = <<>>
    <3>1. 1 \in 1..(Len(bgroup) + 1) /\ 0 \in (1 - 1)..Len(bgroup) /\ 0 - 1 + 1 = 0
      BY <1>9
    <3>2. SubSeq(bgroup, 1, 0) \in Seq(Nat) /\ Len(SubSeq(bgroup, 1, 0)) = 0 - 1 + 1
      BY <1>2, <3>1, SubSeqProperties
    <3> QED
      BY <3>1, <3>2, EmptySeq
  <2>4. /\ bgroup' = SubSeq(Positions(r), b, ib - 1)
        /\ \A j \in 1..Len(r) : r[j] = key'[cur'] <=> b <= j /\ j < ib
        /\ jb' \in 1..(Len(bgroup') + 1) /\ out' = SubSeq(bgroup', 1, jb' - 1)
    BY <1>1, <1>3, <1>10, <2>2, <2>3
  <2> QED
    BY <1>1, <1>2, <1>9, <2>1, <2>4 DEF JoinInv
<1>11. CASE ~(cur' # Nil /\ key[cur'] = k)
  <2>1. job' = "match"
    BY <1>1, <1>2, <1>7, <1>11
  <2>2. cur' # Nil => \A j \in 1..(ib - 1) : r[j] < key'[cur']
    <3> SUFFICES ASSUME cur' # Nil, NEW j \in 1..(ib - 1) PROVE r[j] < key[cur']
      BY <1>1
    <3>1. r[j] <= k /\ r[j] \in Int
      BY <1>2, <1>8
    <3>2. k < key[cur'] /\ key[cur'] \in Int
      BY <1>5, <1>11
    <3> QED
      BY <1>6, <3>1, <3>2
  <2> QED
    BY <1>1, <1>2, <1>9, <2>1, <2>2 DEF JoinInv
<1> QED
  BY <1>2, <1>9, <1>10, <1>11

\* What the consumer does meanwhile loses none.
LEMMA MeanwhileJoins ==
  ASSUME IInv, JoinInv, Meanwhile
  PROVE  JoinInv' /\ (walking' => cur' = cur)
<1>1. walking' => cur' = cur
  BY ChangeKeeps DEF IInv, Meanwhile, Keeps
<1>2. CASE walking'
  <2>1. UNCHANGED <<job, right, ib, bgroup, jb, out>> /\ job # "match"
    BY <1>2 DEF Meanwhile, queries, Suspended
  <2>2. job = "emit" => cur' = cur /\ key'[cur] = key[cur]
    BY <1>2, CursorKeyStays DEF IInv, GroupInv
  <2> QED
    BY <1>1, <2>1, <2>2 DEF JoinInv
<1>3. CASE ~walking'
  <2>1. job' = "none" /\ out' = <<>>
    BY <1>3 DEF Meanwhile, Idle
  <2> QED
    BY <1>3, <2>1 DEF JoinInv
<1> QED
  BY <1>1, <1>2, <1>3

\* Every step keeps the invariant of a join.
LEMMA JoinInvStep ==
  ASSUME IInv, JoinInv, QNext
  PROVE  JoinInv'
<1>1. CASE job = "none" /\ Next /\ UNCHANGED queries
  BY <1>1 DEF queries, JoinInv
<1>2. CASE StartQuery("group", <<>>)
  BY <1>2 DEF StartQuery, JoinInv
<1>3. CASE \E r \in Rights : StartQuery("match", r)
  <2>1. PICK r \in Rights : StartQuery("match", r)
    BY <1>3
  <2>2. job = "none"
    BY <2>1 DEF StartQuery, IInv, GroupInv
  <2>3. job' = "match" /\ right' = r /\ ib' = 1 /\ out' = <<>>
    BY <2>1, <2>2 DEF StartQuery, JoinInv
  <2>4. ib' \in 1..(Len(right') + 1) /\ \A j \in 1..(ib' - 1) : FALSE
    BY <2>1, <2>3, RightFacts
  <2> QED
    BY <2>1, <2>3, <2>4 DEF JoinInv
<1>4. CASE NextGroup
  BY <1>4 DEF NextGroup, JoinInv
<1>5. CASE SkipLeft \/ SkipRight \/ TakeGroup \/ Yield \/ NextLeft
  BY <1>5, SkipLeftKeeps, SkipRightKeeps, TakeGroupKeeps, YieldKeeps, NextLeftKeeps
<1>6. CASE EndGroups \/ EndJoin
  BY <1>6 DEF EndGroups, EndJoin, EndQuery, Idle, JoinInv
<1>7. CASE Meanwhile
  BY <1>7, MeanwhileJoins
<1> QED
  BY <1>1, <1>2, <1>3, <1>4, <1>5, <1>6, <1>7 DEF QNext

\* A stutter keeps it.
LEMMA JoinInvStays ==
  ASSUME JoinInv, UNCHANGED qvars
  PROVE  JoinInv'
BY DEF JoinInv, qvars, queries, vars, walk

\* While the two iterators of equi_join look for a match, what lies behind either has no
\* partner any more; while pairs are yielded, the group is all the partners of the current
\* element, whatever the consumer does to the container in between.
THEOREM JoinInvariant == QSpec => [](IInv /\ JoinInv)
<1>1. QInit => JoinInv
  BY DEF QInit, JoinInv
<1>2. IInv /\ JoinInv /\ [QNext]_qvars => JoinInv'
  BY JoinInvStep, JoinInvStays
<1> QED
  BY <1>1, <1>2, IndexInvariant, PTL DEF QSpec

\* At its end, equi_join has left nothing behind.
LEMMA NothingLeft ==
  ASSUME IInv, JoinInv, EndJoin, NEW i \in Place(cur)..Len(Order)
  PROVE  Partners(Order[i]) = <<>>
<1> DEFINE o == Order
           r == right
           at == Place(cur)
<1>1. job = "match" /\ (cur = Nil \/ ib > Len(r))
  BY DEF EndJoin
<1>2. InTree(tree, key, Elements, o) /\ cur \in Elements \cup {Nil}
  BY <1>1 DEF IInv, TreeInv, WalkInv, GroupInv
<1>3. PICK p \in 1..(Len(o) + 1) : At(o, p) = cur
  BY <1>2, CursorAt DEF IInv
<1>4. at = p
  BY <1>3, PlaceFound DEF IInv
<1>5. i \in at..Len(o)
  OBVIOUS
<1>6. r \in Rights /\ ib \in 1..(Len(r) + 1)
      /\ (cur # Nil => \A j \in 1..(ib - 1) : r[j] < key[cur])
  BY <1>1 DEF JoinInv
<1>7. Len(r) \in Nat /\ \A j \in 1..Len(r) : r[j] \in Int
  BY <1>6, RightFacts
<1> HIDE DEF at, o
<1>8. Len(o) \in Nat /\ \A j \in 1..Len(o) : o[j] \in Elements /\ key[o[j]] \in Int
  BY <1>2, IndexFacts
<1>9. p \in 1..Len(o) /\ i \in 1..Len(o) /\ p <= i
  BY <1>3, <1>4, <1>5, <1>8
<1>10. cur = o[p] /\ cur # Nil
  <2>1. cur = o[p]
    BY <1>3, <1>9 DEF At
  <2> QED
    BY <1>2, <1>8, <1>9, <2>1, IndexFacts
<1>11. key[cur] <= key[o[i]]
  <2>1. CASE p = i
    BY <1>8, <1>9, <1>10, <2>1
  <2>2. CASE p < i
    BY <1>2, <1>9, <1>10, <2>2 DEF InTree, Ascending
  <2> QED
    BY <1>9, <2>1, <2>2
<1> HIDE DEF r
<1>12. ASSUME NEW j \in 1..Len(r) PROVE r[j] # key[o[i]]
  <2>1. j \in 1..(ib - 1)
    BY <1>1, <1>6, <1>7, <1>10
  <2>2. r[j] < key[cur]
    BY <1>6, <1>10, <2>1
  <2> QED
    BY <1>7, <1>8, <1>9, <1>10, <1>11, <2>2
<1> DEFINE m == o[i]
<1>13. right \in Rights /\ \A j \in 1..Len(right) : right[j] # key[m]
  BY <1>6, <1>12 DEF r
<1> HIDE DEF m
<1>14. Partners(m) = <<>>
  BY <1>13, NoPartners
<1> QED
  BY <1>14 DEF m, o

\* Each step of a query passes an element only when it has had all its partners.
LEMMA JoinStep ==
  ASSUME IInv, JoinInv, QNext
  PROVE  PassedCompletely /\ NoneLeft
<1>1. CASE job = "none" /\ Next /\ UNCHANGED queries
  BY <1>1 DEF PassedCompletely, NoneLeft
<1>2. CASE StartQuery("group", <<>>) \/ \E r \in Rights : StartQuery("match", r)
  <2>1. job \notin {"match", "emit"}
    BY <1>2 DEF StartQuery, IInv, GroupInv
  <2> QED
    BY <2>1 DEF PassedCompletely, NoneLeft
<1>3. CASE NextGroup \/ EndGroups
  BY <1>3 DEF NextGroup, EndGroups, PassedCompletely, NoneLeft
<1>4. CASE SkipLeft \/ NextLeft
  <2>1. out = Partners(cur)
    BY <1>4, SkipLeftKeeps, NextLeftKeeps
  <2>2. job' # "none"
    <3>1. CASE SkipLeft
      BY <3>1 DEF SkipLeft, Joining, queries
    <3>2. CASE NextLeft
      BY <3>2 DEF NextLeft
    <3> QED
      BY <1>4, <3>1, <3>2
  <2> QED
    BY <2>1, <2>2 DEF PassedCompletely, NoneLeft
<1>5. CASE SkipRight \/ TakeGroup \/ Yield
  <2>1. cur' = cur /\ (job = "match" => job' # "none")
    BY <1>5 DEF SkipRight, TakeGroup, Yield, Joining, vars, walk
  <2> QED
    BY <2>1 DEF PassedCompletely, NoneLeft
<1>6. CASE EndJoin
  <2>1. ~walking'
    BY <1>6 DEF EndJoin, EndQuery, StopWalk
  <2>2. \A i \in Place(cur)..Len(Order) : Partners(Order[i]) = <<>>
    BY <1>6, NothingLeft
  <2> QED
    BY <2>1, <2>2 DEF PassedCompletely, NoneLeft
<1>7. CASE Meanwhile
  <2>1. walking' => cur' = cur
    BY <1>7, MeanwhileJoins
  <2>2. job # "match"
    BY <1>7 DEF Meanwhile, Suspended
  <2> QED
    BY <2>1, <2>2 DEF PassedCompletely, NoneLeft
<1> QED
  BY <1>1, <1>2, <1>3, <1>4, <1>5, <1>6, <1>7 DEF QNext

\* equi_join leaves an element behind only when it has been paired with every equal element
\* of the other index, in order; at its end, none that is left has any.
THEOREM JoinsAreComplete == QSpec => JoinComplete
<1>1. IInv /\ JoinInv /\ [QNext]_qvars => [PassedCompletely /\ NoneLeft]_qvars
  BY JoinStep
<1> QED
  BY <1>1, JoinInvariant, PTL DEF QSpec, JoinComplete

-----------------------------------------------------------------------------
(* Composite keys and prefixes.                                            *)

\* composite_less is a strict order up to agreement on the shorter length.
LEMMA LessTrans ==
  ASSUME NEW a \in Seq(Int), NEW b \in Seq(Int), NEW c \in Seq(Int),
         CompositeLess(a, b), CompositeLess(b, c)
  PROVE  CompositeLess(a, c)
<1>1. PICK i \in DOMAIN a \cap DOMAIN b : a[i] < b[i] /\ \A j \in 1..(i - 1) : a[j] = b[j]
  BY DEF CompositeLess
<1>2. PICK h \in DOMAIN b \cap DOMAIN c : b[h] < c[h] /\ \A j \in 1..(h - 1) : b[j] = c[j]
  BY DEF CompositeLess
<1>3. /\ DOMAIN a = 1..Len(a) /\ DOMAIN b = 1..Len(b) /\ DOMAIN c = 1..Len(c)
      /\ Len(a) \in Nat /\ Len(b) \in Nat /\ Len(c) \in Nat
      /\ \A j \in 1..Len(a) : a[j] \in Int
      /\ \A j \in 1..Len(b) : b[j] \in Int
      /\ \A j \in 1..Len(c) : c[j] \in Int
  BY LenProperties
<1> DEFINE m == IF i < h THEN i ELSE h
<1>4. m \in 1..Len(a) /\ m \in 1..Len(b) /\ m \in 1..Len(c) /\ m <= i /\ m <= h
      /\ (m = i \/ m = h) /\ i \in Nat /\ h \in Nat
  BY <1>1, <1>2, <1>3
<1> HIDE DEF m
<1>5. a[m] < c[m]
  <2>1. CASE m = i /\ m = h
    BY <1>1, <1>2, <1>3, <1>4, <2>1
  <2>2. CASE m = i /\ m # h
    <3>1. m \in 1..(h - 1)
      BY <1>4, <2>2
    <3> QED
      BY <1>1, <1>2, <2>2, <3>1
  <2>3. CASE m # i /\ m = h
    <3>1. m \in 1..(i - 1)
      BY <1>4, <2>3
    <3> QED
      BY <1>1, <1>2, <2>3, <3>1
  <2> QED
    BY <1>4, <2>1, <2>2, <2>3
<1>6. ASSUME NEW j \in 1..(m - 1) PROVE a[j] = c[j]
  <2>1. j \in 1..(i - 1) /\ j \in 1..(h - 1)
    BY <1>4
  <2> QED
    BY <1>1, <1>2, <2>1
<1> QED
  BY <1>3, <1>4, <1>5, <1>6 DEF CompositeLess

\* CompositeLess is asymmetric.
LEMMA LessOneWay ==
  ASSUME NEW a \in Seq(Int), NEW b \in Seq(Int), CompositeLess(a, b)
  PROVE  ~CompositeLess(b, a)
<1>1. SUFFICES ASSUME CompositeLess(b, a) PROVE FALSE
  OBVIOUS
<1>2. CompositeLess(a, a)
  BY <1>1, LessTrans
<1>3. PICK i \in DOMAIN a : a[i] < a[i]
  BY <1>2 DEF CompositeLess
<1>4. a[i] \in Int
  BY <1>3, LenProperties
<1> QED
  BY <1>3, <1>4

\* A key no shorter than a prefix has that prefix, or compares less one way or the other.
LEMMA PrefixOrLess ==
  ASSUME NEW q \in Seq(Int), NEW c \in Seq(Int), Len(q) <= Len(c)
  PROVE  IsPrefix(q, c) <=> ~CompositeLess(c, q) /\ ~CompositeLess(q, c)
<1>1. /\ DOMAIN q = 1..Len(q) /\ DOMAIN c = 1..Len(c) /\ Len(q) \in Nat /\ Len(c) \in Nat
      /\ \A j \in 1..Len(q) : q[j] \in Int /\ c[j] \in Int
  BY LenProperties
<1>2. IsPrefix(q, c) <=> \A j \in 1..Len(q) : q[j] = c[j]
  <2> DEFINE u == SubSeq(q, 1, Len(q))
             v == SubSeq(c, 1, Len(q))
  <2>1. 1 \in 1..(Len(q) + 1) /\ 1 \in 1..(Len(c) + 1)
        /\ Len(q) \in (1 - 1)..Len(q) /\ Len(q) \in (1 - 1)..Len(c) /\ Len(q) - 1 + 1 = Len(q)
    BY <1>1
  <2>2. /\ u \in Seq(Int) /\ Len(u) = Len(q) /\ \A j \in 1..Len(q) : u[j] = q[1 + j - 1]
    BY <2>1, SubSeqProperties
  <2>3. /\ v \in Seq(Int) /\ Len(v) = Len(q) /\ \A j \in 1..Len(q) : v[j] = c[1 + j - 1]
    BY <2>1, SubSeqProperties
  <2>4. IsPrefix(q, c) <=> u = v
    BY DEF IsPrefix
  <2> HIDE DEF u, v
  <2>5. \A j \in 1..Len(q) : 1 + j - 1 = j
    BY <1>1
  <2>6. u = v <=> \A j \in 1..Len(q) : u[j] = v[j]
    BY <2>2, <2>3, SeqEqual
  <2> QED
    BY <2>2, <2>3, <2>4, <2>5, <2>6
<1>3. ASSUME \A j \in 1..Len(q) : q[j] = c[j]
      PROVE  ~CompositeLess(c, q) /\ ~CompositeLess(q, c)
  BY <1>1, <1>3 DEF CompositeLess
<1>4. ASSUME ~\A j \in 1..Len(q) : q[j] = c[j]
      PROVE  CompositeLess(c, q) \/ CompositeLess(q, c)
  <2> DEFINE M == {j \in 1..Len(q) : q[j] # c[j]}
  <2>1. M \in SUBSET Nat /\ M # {}
    BY <1>4
  <2>2. PICK i \in M : \A j \in M : i <= j
    <3> HIDE DEF M
    <3> QED
      BY <2>1, Smallest
  <2>3. i \in 1..Len(q) /\ i \in 1..Len(c) /\ q[i] # c[i] /\ q[i] \in Int /\ c[i] \in Int
    BY <1>1
  <2>4. ASSUME NEW j \in 1..(i - 1) PROVE q[j] = c[j]
    <3>1. j \in 1..Len(q) /\ ~(i <= j)
      BY <1>1, <2>3
    <3> QED
      BY <2>2, <3>1
  <2> HIDE DEF M
  <2>5. q[i] < c[i] \/ c[i] < q[i]
    BY <2>3
  <2>6. i \in DOMAIN q \cap DOMAIN c /\ i \in DOMAIN c \cap DOMAIN q
    BY <1>1, <2>3
  <2>7. CASE q[i] < c[i]
    BY <2>4, <2>6, <2>7 DEF CompositeLess
  <2>8. CASE c[i] < q[i]
    <3>1. \A j \in 1..(i - 1) : c[j] = q[j]
      BY <2>4
    <3> QED
      BY <2>6, <2>8, <3>1 DEF CompositeLess
  <2> QED
    BY <2>5, <2>7, <2>8
<1> QED
  BY <1>2, <1>3, <1>4

\* Keys are numbered in the order of their components.
LEMMA KeysCompare ==
  ASSUME NEW j \in Key, NEW k \in Key, j < k
  PROVE  CompositeLess(Component[j], Component[k])
<1>1. /\ Component[j] \in Seq(Int) /\ Component[k] \in Seq(Int)
      /\ Len(Component[j]) = Len(Component[k])
  BY QueryAssumption
<1>2. \E i \in DOMAIN Component[j] :
        Component[j][i] < Component[k][i] /\ \A h \in 1..(i - 1) : Component[j][h] = Component[k][h]
  BY QueryAssumption
<1>3. DOMAIN Component[j] = DOMAIN Component[k]
  BY <1>1, LenProperties
<1> QED
  BY <1>2, <1>3 DEF CompositeLess

\* Where the elements that do not compare less than q begin, and the ones q is less than.
NotLess(q) == {m \in Elements : ~CompositeLess(Component[key[m]], q)}
\* The elements whose keys come after every key that begins with q.
Greater(q) == {m \in Elements : CompositeLess(q, Component[key[m]])}

\* Both sets, once entered, are never left along the order.
LEMMA PrefixCuts ==
  ASSUME TreeInv, NEW q \in Seq(Int)
  PROVE  /\ \A i, j \in 1..Len(Order) : i <= j /\ Order[i] \in NotLess(q) => Order[j] \in NotLess(q)
         /\ \A i, j \in 1..Len(Order) : i <= j /\ Order[i] \in Greater(q) => Order[j] \in Greater(q)
<1> DEFINE o == Order
           C(i) == Component[key[o[i]]]
<1>1. InTree(tree, key, Elements, o)
  BY DEF TreeInv
<1> SUFFICES ASSUME NEW i \in 1..Len(o), NEW j \in 1..Len(o), i <= j
             PROVE  /\ o[i] \in NotLess(q) => o[j] \in NotLess(q)
                    /\ o[i] \in Greater(q) => o[j] \in Greater(q)
  OBVIOUS
<1> HIDE DEF o
<1>2. /\ o[i] \in Elements /\ o[j] \in Elements /\ key[o[i]] \in Key /\ key[o[j]] \in Key
      /\ key[o[i]] \in Int /\ key[o[j]] \in Int /\ Len(o) \in Nat
  BY <1>1, InTreeFacts
<1>3. C(i) \in Seq(Int) /\ C(j) \in Seq(Int)
  BY <1>2, QueryAssumption
<1>4. C(i) = C(j) \/ CompositeLess(C(i), C(j))
  <2>1. CASE key[o[i]] = key[o[j]]
    BY <2>1
  <2>2. CASE key[o[i]] # key[o[j]]
    <3>1. i < j
      BY <1>2, <2>2
    <3>2. key[o[i]] <= key[o[j]]
      BY <1>1, <3>1 DEF InTree, Ascending
    <3>3. key[o[i]] < key[o[j]]
      BY <1>2, <2>2, <3>2
    <3> QED
      BY <1>2, <3>3, KeysCompare
  <2> QED
    BY <2>1, <2>2
<1>5. (o[i] \in NotLess(q) <=> ~CompositeLess(C(i), q)) /\ (o[j] \in NotLess(q) <=> ~CompositeLess(C(j), q))
  BY <1>2 DEF NotLess
<1>6. (o[i] \in Greater(q) <=> CompositeLess(q, C(i))) /\ (o[j] \in Greater(q) <=> CompositeLess(q, C(j)))
  BY <1>2 DEF Greater
<1>7. CompositeLess(C(j), q) => CompositeLess(C(i), q)
  BY <1>3, <1>4, LessTrans
<1>8. CompositeLess(q, C(i)) => CompositeLess(q, C(j))
  BY <1>3, <1>4, LessTrans
<1> QED
  BY <1>5, <1>6, <1>7, <1>8

\* The search for the first element of T ends at the place where T begins.
LEMMA CutPlace ==
  ASSUME TreeInv, NEW T,
         \A i, j \in 1..Len(Order) : i <= j /\ Order[i] \in T => Order[j] \in T
  PROVE  \E p : Cuts(Order, T, p) /\ Place(Bound(tree, T)) = p
<1> DEFINE o == Order
<1>1. InTree(tree, key, Elements, o)
  BY DEF TreeInv
<1>2. \A p \in 1..(Len(o) + 1) : Place(At(o, p)) = p
  BY PlaceFound
<1>3. \A i, j \in 1..Len(o) : i <= j /\ o[i] \in T => o[j] \in T
  OBVIOUS
<1> HIDE DEF o
<1>4. PICK P, Q : Spans(tree, Elements, o, P, Q)
  BY <1>1 DEF InTree, Sound
<1>5. o \in Seq(Node)
  BY <1>1, IndexFacts
<1>6. PICK p : Cuts(o, T, p)
  BY <1>3, <1>5, CutExists
<1>7. Bound(tree, T) = At(o, p)
  BY <1>4, <1>6, BoundFound
<1>8. Place(Bound(tree, T)) = p
  BY <1>2, <1>6, <1>7 DEF Cuts
<1> QED
  BY <1>6, <1>8 DEF o

\* Prefix lookups are exact in every state that satisfies the invariant.
LEMMA PrefixesThen ==
  ASSUME IInv
  PROVE  PrefixesExact
<1> SUFFICES ASSUME NEW q \in Asked
             PROVE  LET r == PrefixRange(q)
                    IN  SubSeq(Order, Place(r[1]), Place(r[2]) - 1) =
                          Only(Order, {m \in Elements : IsPrefix(q, Component[key[m]])})
  BY DEF PrefixesExact
<1> DEFINE o == Order
           T == {m \in Elements : IsPrefix(q, Component[key[m]])}
           r == PrefixRange(q)
           A == NotLess(q)
           B == Greater(q)
<1>1. TreeInv /\ q \in Seq(Int)
  BY QueryAssumption DEF IInv
<1>2. r[1] = Bound(tree, A) /\ r[2] = Bound(tree, B)
  BY DEF PrefixRange, NotLess, Greater
<1>3. PICK p : Cuts(o, A, p) /\ Place(Bound(tree, A)) = p
  <2>1. \A i, j \in 1..Len(Order) : i <= j /\ Order[i] \in A => Order[j] \in A
    BY <1>1, PrefixCuts
  <2> HIDE DEF A
  <2> QED
    BY <1>1, <2>1, CutPlace
<1>4. PICK e : Cuts(o, B, e) /\ Place(Bound(tree, B)) = e
  <2>1. \A i, j \in 1..Len(Order) : i <= j /\ Order[i] \in B => Order[j] \in B
    BY <1>1, PrefixCuts
  <2> HIDE DEF B
  <2> QED
    BY <1>1, <2>1, CutPlace
<1>5. InTree(tree, key, Elements, o)
  BY <1>1 DEF TreeInv
<1>6. ASSUME NEW m \in Elements
      PROVE  (m \in T <=> m \in A /\ m \notin B) /\ (m \in B => m \in A)
  <2> DEFINE c == Component[key[m]]
  <2>1. key[m] \in Key
    BY <1>5 DEF InTree
  <2>2. c \in Seq(Int) /\ Len(q) <= Len(c)
    BY <2>1, QueryAssumption
  <2>3. /\ m \in T <=> IsPrefix(q, c)
        /\ m \in A <=> ~CompositeLess(c, q)
        /\ m \in B <=> CompositeLess(q, c)
    BY DEF NotLess, Greater
  <2> HIDE DEF c, T, A, B
  <2>4. IsPrefix(q, c) <=> ~CompositeLess(c, q) /\ ~CompositeLess(q, c)
    BY <1>1, <2>2, PrefixOrLess
  <2>5. CompositeLess(q, c) => ~CompositeLess(c, q)
    BY <1>1, <2>2, LessOneWay
  <2> QED
    BY <2>3, <2>4, <2>5
<1>7. Place(r[1]) = p /\ Place(r[2]) = e
  BY <1>2, <1>3, <1>4
<1> HIDE DEF o, r, T, A, B
<1>8. /\ Len(o) \in Nat /\ o \in Seq(Node) /\ \A i \in 1..Len(o) : o[i] \in Elements
  BY <1>5, IndexFacts
<1>9. /\ p \in 1..(Len(o) + 1) /\ \A i \in 1..Len(o) : o[i] \in A <=> i >= p
      /\ e \in 1..(Len(o) + 1) /\ \A i \in 1..Len(o) : o[i] \in B <=> i >= e
  BY <1>3, <1>4 DEF Cuts
<1>10. e \in p..(Len(o) + 1)
  <2>1. CASE e \in 1..Len(o)
    <3>1. e >= e
      BY <1>9
    <3>2. o[e] \in B /\ o[e] \in Elements
      BY <1>8, <1>9, <2>1, <3>1
    <3>3. o[e] \in A
      BY <1>6, <3>2
    <3> QED
      BY <1>8, <1>9, <2>1, <3>3
  <2>2. CASE e \notin 1..Len(o)
    BY <1>8, <1>9, <2>2
  <2> QED
    BY <2>1, <2>2
<1>11. ASSUME NEW i \in 1..Len(o) PROVE o[i] \in T <=> p <= i /\ i < e
  <2>1. (o[i] \in A <=> i >= p) /\ (o[i] \in B <=> i >= e)
    BY <1>9
  <2>2. o[i] \in T <=> o[i] \in A /\ o[i] \notin B
    BY <1>6, <1>8
  <2>3. (i >= p <=> p <= i) /\ (i >= e <=> ~(i < e))
    BY <1>8, <1>9
  <2> QED
    BY <2>1, <2>2, <2>3
<1>12. IsSlice(o, T, p, e)
  BY <1>9, <1>10, <1>11 DEF IsSlice
<1>13. SubSeq(o, p, e - 1) = Only(o, T)
  BY <1>8, <1>12, OnlySlice
<1> QED
  BY <1>7, <1>13 DEF o, r, T

\* equal_range(prefix(...)) on a composite index is exactly the elements whose key begins
\* with the prefix: they are adjacent, and the empty prefix yields them all.
THEOREM IndexPrefixesExact == QSpec => []PrefixesExact
<1>1. IInv => PrefixesExact
  BY PrefixesThen
<1> QED
  BY <1>1, IndexInvariant, PTL
=============================================================================
