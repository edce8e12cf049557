-------------------------- MODULE NodeTransferProofs --------------------------
(***************************************************************************)
(* Proofs about NodeTransfer, for every number of containers, nodes and    *)
(* resources: whatever is copied, moved, swapped, merged or handed over,   *)
(* also in parts, no node is lost, shared or freed in use but those of a   *)
(* copy construction that fails; a node goes back to the resource it came  *)
(* from unless it was taken between unequal allocators; merges lose and    *)
(* double nothing; and a mirror is right about all that it was told.       *)
(***************************************************************************)
EXTENDS NodeTransfer, SequenceLemmas, FiniteSetTheorems

Boxes == [registry : Seq(Node), list : Seq(Node), by_grp : Seq(Node)]

\* A container by itself, whose nodes have the values vs.
BoxOK(b, vs) ==
  /\ b \in Boxes
  /\ IsInjective(b.registry) /\ IsInjective(b.list) /\ IsInjective(b.by_grp)
  /\ ToSet(b.list) = ToSet(b.registry) /\ ToSet(b.by_grp) = ToSet(b.registry)
  /\ \A n \in ToSet(b.registry) : vs[n] \in Value
  /\ \A i, j \in DOMAIN b.by_grp : i < j => vs[b.by_grp[i]].grp <= vs[b.by_grp[j]].grp
  /\ \A m, n \in ToSet(b.registry) : vs[m].id = vs[n].id => m = n

-----------------------------------------------------------------------------
(* Linking and unlinking.                                                  *)

LEMMA ElementsAreNodes ==
  ASSUME NEW s \in Seq(Node)
  PROVE  ToSet(s) \subseteq Node
  BY LenProperties DEF ToSet

LEMMA EmptyBox ==
  ASSUME NEW vs
  PROVE  BoxOK(Empty, vs) /\ ToSet(Empty.registry) = {}
<1>1. <<>> \in Seq(Node) /\ DOMAIN <<>> = {}
  BY EmptySeq, LenProperties
<1> DEFINE e == <<>>
<1> HIDE DEF e
<1>2. e \in Seq(Node) /\ DOMAIN e = {} /\ Empty = [registry |-> e, list |-> e, by_grp |-> e]
  BY <1>1 DEF e, Empty
<1>3. ToSet(e) = {} /\ IsInjective(e)
  BY <1>2 DEF ToSet, IsInjective
<1> QED
  BY <1>2, <1>3 DEF BoxOK, Boxes

\* What a container does not own may change its value.
LEMMA FramedBox ==
  ASSUME NEW b, NEW vs, NEW ws, BoxOK(b, vs), \A n \in ToSet(b.registry) : ws[n] = vs[n]
  PROVE  BoxOK(b, ws)
<1>1. \A i \in DOMAIN b.by_grp : b.by_grp[i] \in ToSet(b.registry)
  BY DEF BoxOK, ToSet
<1> QED
  BY <1>1 DEF BoxOK

\* The place by_grp gives to n is behind everything that is not greater, in front of
\* everything that is.
LEMMA PlaceFound ==
  ASSUME NEW b, NEW vs, BoxOK(b, vs), NEW n, vs[n] \in Value
  PROVE  /\ PlaceInGroup(b, vs, n) \in 1..(Len(b.by_grp) + 1)
         /\ \A i \in 1..Len(b.by_grp) :
              IF i < PlaceInGroup(b, vs, n) THEN vs[b.by_grp[i]].grp <= vs[n].grp
                                            ELSE vs[n].grp < vs[b.by_grp[i]].grp
<1> DEFINE s == b.by_grp
           g == vs[n].grp
           I == {i \in 1..Len(s) : vs[s[i]].grp > g}
           p == PlaceInGroup(b, vs, n)
<1>1. s \in Seq(Node) /\ Len(s) \in Nat /\ DOMAIN s = 1..Len(s)
  BY LenProperties DEF BoxOK, Boxes
<1>2. g \in Int /\ \A i \in 1..Len(s) : vs[s[i]].grp \in Int
  <2>1. \A i \in 1..Len(s) : vs[s[i]] \in Value
    BY <1>1 DEF BoxOK, ToSet
  <2> QED
    BY <2>1, TransferAssumption DEF Value
<1>3. \A i, j \in 1..Len(s) : i < j => vs[s[i]].grp <= vs[s[j]].grp
  BY <1>1 DEF BoxOK
<1> HIDE DEF s, g
<1>4. p = IF I = {} THEN Len(s) + 1 ELSE Min(I)
  <2>1. CASE I = {}
    <3>1. SelectInSeq(s, LAMBDA m : vs[m].grp > g) = 0
      BY <2>1 DEF SelectInSeq
    <3> QED
      BY <2>1, <3>1 DEF PlaceInGroup, InFrontOf, s, g
  <2>2. CASE I # {}
    <3>1. SelectInSeq(s, LAMBDA m : vs[m].grp > g) = Min(I)
      BY <2>2 DEF SelectInSeq
    <3>2. I \in SUBSET Nat
      BY <1>1
    <3>3. Min(I) # 0
      <4>1. Min(I) \in I
        BY <2>2, <3>2, MinIsSmallest
      <4> QED
        BY <4>1
    <3> QED
      BY <2>2, <3>1, <3>3 DEF PlaceInGroup, InFrontOf, s, g
  <2> QED
    BY <2>1, <2>2
<1> HIDE DEF p
<1>5. CASE I = {}
  <2>1. p = Len(s) + 1
    BY <1>4, <1>5
  <2>2. \A i \in 1..Len(s) : i < p /\ vs[s[i]].grp <= g
    BY <1>1, <1>2, <1>5, <2>1
  <2> QED
    BY <1>1, <2>1, <2>2 DEF p, s, g
<1>6. CASE I # {}
  <2>0. I \in SUBSET Nat
    BY <1>1
  <2>1. p \in I /\ \A i \in I : p <= i
    BY <1>4, <1>6, <2>0, MinIsSmallest
  <2>2. ASSUME NEW i \in 1..Len(s)
        PROVE  IF i < p THEN vs[s[i]].grp <= g ELSE g < vs[s[i]].grp
    <3>1. CASE i < p
      BY <1>1, <1>2, <2>1, <3>1
    <3>2. CASE i = p
      BY <1>1, <1>2, <2>1, <3>2
    <3>3. CASE i > p
      <4>1. vs[s[p]].grp <= vs[s[i]].grp /\ g < vs[s[p]].grp
        BY <1>1, <1>3, <2>1, <3>3
      <4> QED
        BY <1>1, <1>2, <2>1, <3>3, <4>1
    <3> QED
      BY <1>1, <2>1, <3>1, <3>2, <3>3
  <2>3. p \in 1..(Len(s) + 1)
    BY <1>1, <2>1
  <2> QED
    BY <2>2, <2>3 DEF p, s, g
<1> QED
  BY <1>5, <1>6

\* A node whose id is new joins the other elements in all three indices.
LEMMA LinkedBox ==
  ASSUME NEW b, NEW vs, BoxOK(b, vs), NEW n \in Node, n \notin ToSet(b.registry),
         vs[n] \in Value, Fits(b, vs, n)
  PROVE  /\ BoxOK(LinkedIn(b, vs, n), vs)
         /\ ToSet(LinkedIn(b, vs, n).registry) = ToSet(b.registry) \cup {n}
         /\ LinkedIn(b, vs, n).registry = Append(b.registry, n)
<1> DEFINE t == LinkedIn(b, vs, n)
           p == PlaceInGroup(b, vs, n)
           s == b.by_grp
<1>1. t = [ registry |-> Append(b.registry, n), list |-> Append(b.list, n),
            by_grp |-> InsertAt(s, p, n) ]
  BY DEF LinkedIn
<1>2. /\ b.registry \in Seq(Node) /\ b.list \in Seq(Node) /\ s \in Seq(Node)
      /\ IsInjective(b.registry) /\ IsInjective(b.list) /\ IsInjective(s)
      /\ ToSet(b.list) = ToSet(b.registry) /\ ToSet(s) = ToSet(b.registry)
  BY DEF BoxOK, Boxes
<1>3. /\ Append(b.registry, n) \in Seq(Node) /\ IsInjective(Append(b.registry, n))
      /\ ToSet(Append(b.registry, n)) = ToSet(b.registry) \cup {n}
  BY <1>2, Appended
<1>4. /\ Append(b.list, n) \in Seq(Node) /\ IsInjective(Append(b.list, n))
      /\ ToSet(Append(b.list, n)) = ToSet(b.registry) \cup {n}
  BY <1>2, Appended
<1>5. /\ p \in 1..(Len(s) + 1)
      /\ \A i \in 1..Len(s) : IF i < p THEN vs[s[i]].grp <= vs[n].grp
                                       ELSE vs[n].grp < vs[s[i]].grp
  BY PlaceFound
<1> DEFINE u == InsertAt(s, p, n)
<1> HIDE DEF p, s
<1>6. u \in Seq(Node) /\ IsInjective(u) /\ ToSet(u) = ToSet(b.registry) \cup {n}
  <2>1. n \notin ToSet(s)
    BY <1>2
  <2> QED
    BY <1>2, <1>5, <2>1, Inserted
<1>7. /\ Len(u) = Len(s) + 1
      /\ \A i \in 1..(Len(s) + 1) : u[i] = IF i < p THEN s[i] ELSE IF i = p THEN n ELSE s[i - 1]
  BY <1>2, <1>5, InsertedAt
<1> HIDE DEF u
<1>8. ASSUME NEW i \in DOMAIN u, NEW j \in DOMAIN u, i < j
      PROVE  vs[u[i]].grp <= vs[u[j]].grp
  <2>1. /\ Len(s) \in Nat /\ DOMAIN u = 1..(Len(s) + 1) /\ DOMAIN s = 1..Len(s)
    BY <1>2, <1>6, <1>7, LenProperties
  <2>2. \A k, l \in 1..Len(s) : k < l => vs[s[k]].grp <= vs[s[l]].grp
    BY <2>1 DEF BoxOK, s
  <2>3. vs[n].grp \in Int /\ \A k \in 1..Len(s) : vs[s[k]].grp \in Int
    <3>1. \A k \in 1..Len(s) : vs[s[k]] \in Value
      BY <1>2, <2>1 DEF BoxOK, ToSet
    <3> QED
      BY <3>1, TransferAssumption DEF Value
  <2>4. CASE i < p /\ j < p
    BY <1>5, <1>7, <1>8, <2>1, <2>2, <2>4
  <2>5. CASE i < p /\ j = p
    BY <1>5, <1>7, <1>8, <2>1, <2>5
  <2>6. CASE i < p /\ j > p
    <3>1. j - 1 \in 1..Len(s) /\ i \in 1..Len(s) /\ i < j - 1 /\ ~(j < p) /\ j # p
      BY <1>5, <2>1, <2>6
    <3>2. vs[s[i]].grp <= vs[s[j - 1]].grp
      BY <2>2, <3>1
    <3> QED
      BY <1>7, <2>1, <2>6, <3>1, <3>2
  <2>7. CASE i = p /\ j > p
    <3>1. j - 1 \in 1..Len(s) /\ ~(j - 1 < p) /\ ~(j < p) /\ j # p
      BY <1>5, <2>1, <2>7
    <3>2. vs[n].grp < vs[s[j - 1]].grp
      BY <1>5, <3>1
    <3> QED
      BY <1>7, <2>1, <2>3, <2>7, <3>1, <3>2
  <2>8. CASE i > p
    <3>1. /\ i - 1 \in 1..Len(s) /\ ~(i < p) /\ i # p
          /\ j - 1 \in 1..Len(s) /\ ~(j < p) /\ j # p /\ i - 1 < j - 1
      BY <1>5, <1>8, <2>1, <2>8
    <3>2. vs[s[i - 1]].grp <= vs[s[j - 1]].grp
      BY <2>2, <3>1
    <3> QED
      BY <1>7, <2>1, <3>1, <3>2
  <2>9. (i < p \/ i = p \/ i > p) /\ (j < p \/ j = p \/ j > p)
    BY <1>5, <2>1
  <2> QED
    BY <1>5, <1>8, <2>1, <2>4, <2>5, <2>6, <2>7, <2>8, <2>9
<1>9. \A k, m \in ToSet(b.registry) \cup {n} : vs[k].id = vs[m].id => k = m
  BY DEF BoxOK, Fits
<1>10. \A m \in ToSet(b.registry) \cup {n} : vs[m] \in Value
  BY DEF BoxOK
<1>11. t.registry = Append(b.registry, n) /\ t.list = Append(b.list, n) /\ t.by_grp = u
       /\ t \in Boxes
  BY <1>1, <1>3, <1>4, <1>6 DEF Boxes, u
<1> QED
  BY <1>3, <1>4, <1>6, <1>8, <1>9, <1>10, <1>11 DEF BoxOK

\* An element leaves all three indices, and the others stay in their order.
LEMMA UnlinkedBox ==
  ASSUME NEW b, NEW vs, BoxOK(b, vs), NEW n \in ToSet(b.registry)
  PROVE  /\ BoxOK(Without(b, n), vs)
         /\ ToSet(Without(b, n).registry) = ToSet(b.registry) \ {n}
<1> DEFINE r == RemoveFirst(b.registry, n)
           l == RemoveFirst(b.list, n)
           g == RemoveFirst(b.by_grp, n)
<1>1. /\ b.registry \in Seq(Node) /\ b.list \in Seq(Node) /\ b.by_grp \in Seq(Node)
      /\ IsInjective(b.registry) /\ IsInjective(b.list) /\ IsInjective(b.by_grp)
      /\ ToSet(b.list) = ToSet(b.registry) /\ ToSet(b.by_grp) = ToSet(b.registry)
  BY DEF BoxOK, Boxes
<1>2. r \in Seq(Node) /\ IsInjective(r) /\ ToSet(r) = ToSet(b.registry) \ {n}
  BY <1>1, RemovedOnce
<1>3. l \in Seq(Node) /\ IsInjective(l) /\ ToSet(l) = ToSet(b.registry) \ {n}
  <2>1. n \in ToSet(b.list)
    BY <1>1
  <2> QED
    BY <1>1, <2>1, RemovedOnce
<1>4. /\ g \in Seq(Node) /\ IsInjective(g) /\ ToSet(g) = ToSet(b.registry) \ {n}
      /\ \A i, j \in DOMAIN g : i < j =>
           \E k, m \in DOMAIN b.by_grp : k < m /\ g[i] = b.by_grp[k] /\ g[j] = b.by_grp[m]
  <2> DEFINE s == b.by_grp
  <2>1. n \in ToSet(s) /\ s \in Seq(Node) /\ IsInjective(s) /\ ToSet(s) = ToSet(b.registry)
    BY <1>1
  <2> HIDE DEF s
  <2>2. /\ g \in Seq(Node) /\ IsInjective(g) /\ ToSet(g) = ToSet(s) \ {n}
        /\ \A i, j \in DOMAIN g : i < j =>
             \E k, m \in DOMAIN s : k < m /\ g[i] = s[k] /\ g[j] = s[m]
    BY SMTT(30), <2>1, RemovedOnce DEF s
  <2> QED
    BY <2>1, <2>2 DEF s
<1>5. Without(b, n) = [registry |-> r, list |-> l, by_grp |-> g]
  BY DEF Without
<1> HIDE DEF r, l, g
<1>6. \A i, j \in DOMAIN g : i < j => vs[g[i]].grp <= vs[g[j]].grp
  BY <1>4 DEF BoxOK
<1> DEFINE t == Without(b, n)
<1>7. t.registry = r /\ t.list = l /\ t.by_grp = g /\ t \in Boxes
  BY <1>2, <1>3, <1>4, <1>5 DEF Boxes
<1>8. \A k, m \in ToSet(b.registry) : vs[k].id = vs[m].id => k = m
  BY DEF BoxOK
<1>9. \A m \in ToSet(b.registry) : vs[m] \in Value
  BY DEF BoxOK
<1> HIDE DEF t
<1> QED
  BY <1>2, <1>3, <1>4, <1>6, <1>7, <1>8, <1>9 DEF BoxOK, t

-----------------------------------------------------------------------------
(* The invariant.                                                          *)

Boxed == \A c \in Container : BoxOK(box[c], value)

\* Every live node is in one container, in the handle or abandoned.
Owned ==
  /\ \A c, d \in Container : \A n \in Elements(c) : n \in Elements(d) => c = d
  /\ \A c \in Container : \A n \in Elements(c) : n # handle.node /\ n \notin abandoned
  /\ handle.node \notin abandoned
  /\ \A n \in Node :
       n \in Live <=> n = handle.node \/ n \in abandoned \/ \E c \in Container : n \in Elements(c)

\* A merge is between two containers.
MergeOK ==
  merging # NoMerge =>
    merging.from \in Container /\ merging.to \in Container /\ merging.from # merging.to

IInv ==
  /\ TypeOK /\ Boxed /\ Owned /\ FreedWhereMade /\ MirrorExact
  /\ MergeOK /\ MergeExact

-----------------------------------------------------------------------------
(* Facts the actions' proofs share.                                        *)

Mirrors == [watching : BOOLEAN, believes : SUBSET Value, untold : SUBSET Id]

\* A mirror of a container whose elements have the values S.
MirrorOK(mir, S) ==
  /\ mir \in Mirrors
  /\ mir.watching =>
       \A v \in Value : v.id \notin mir.untold => (v \in mir.believes <=> v \in S)

LEMMA NoMergeType ==
  /\ NoMerge \in [ rest : Seq(Node), all : SUBSET Node,
                   from : Container \cup {NoNode}, to : Container \cup {NoNode} ]
  /\ NoMerge.rest = <<>> /\ NoMerge.all = {}
  BY EmptySeq DEF NoMerge

\* The elements of a container are live nodes.
LEMMA ElementsLive ==
  ASSUME IInv, NEW c \in Container
  PROVE  /\ Elements(c) \subseteq Live /\ Live \subseteq Node
         /\ \A n \in Elements(c) : value[n] \in Value
<1>1. Elements(c) \subseteq Node
  BY ElementsAreNodes DEF IInv, TypeOK, Elements
<1>2. \A n \in Elements(c) : value[n] \in Value
  BY DEF IInv, Boxed, BoxOK, Elements
<1>3. NoValue \notin Value
  BY TransferAssumption DEF Value
<1> QED
  BY <1>1, <1>2, <1>3 DEF Live

\* A container that a step leaves alone, its nodes included, stays as it is.
LEMMA Unaffected ==
  ASSUME IInv, NEW c \in Container, box'[c] = box[c],
         \A n \in Elements(c) : value'[n] = value[n]
  PROVE  Elements(c)' = Elements(c) /\ Contents(c)' = Contents(c) /\ BoxOK(box'[c], value')
<1>1. Elements(c)' = Elements(c)
  BY DEF Elements
<1>2. Contents(c)' = Contents(c)
  BY <1>1 DEF Contents
<1>3. BoxOK(box[c], value) /\ \A n \in ToSet(box[c].registry) : value'[n] = value[n]
  BY DEF IInv, Boxed, Elements
<1>4. BoxOK(box[c], value')
  BY <1>3, FramedBox
<1> QED
  BY <1>1, <1>2, <1>4

\* The subscribers, as the invariant has them.
LEMMA MirrorNow ==
  ASSUME IInv, NEW c \in Container
  PROVE  MirrorOK(mirror[c], Contents(c)) /\ Contents(c) \in SUBSET Value
<1>1. Contents(c) \in SUBSET Value
  BY ElementsLive DEF Contents
<1>2. mirror[c] \in Mirrors /\ MirrorExact
  BY DEF IInv, TypeOK, Mirrors
<1> QED
  BY <1>1, <1>2 DEF MirrorOK, MirrorExact, Watching

LEMMA IdsTyped ==
  ASSUME NEW V \in SUBSET Value
  PROVE  IdsOf(V) \in SUBSET Id /\ \A v \in V : v.id \in IdsOf(V)
  BY DEF IdsOf, Value

LEMMA IdsOfOne ==
  ASSUME NEW v \in Value
  PROVE  {v} \in SUBSET Value /\ IdsOf({v}) = {v.id} /\ v.id \in Id
  BY DEF IdsOf, Value

\* A subscriber that is called with the new values has them in place of the old.
LEMMA HeardOK ==
  ASSUME NEW mir, NEW S, NEW T, NEW V \in SUBSET Value, MirrorOK(mir, S),
         \A w \in Value : w \in T <=> w \in V \/ (w \in S /\ w.id \notin IdsOf(V))
  PROVE  MirrorOK(Heard(mir, V), T)
<1>1. mir \in Mirrors /\ mir.watching \in BOOLEAN
  BY DEF MirrorOK, Mirrors
<1>2. IdsOf(V) \in SUBSET Id /\ \A v \in V : v.id \in IdsOf(V)
  BY IdsTyped
<1> DEFINE h == Heard(mir, V)
<1>3. CASE mir.watching
  <2>1. h = [mir EXCEPT !.believes = Others(mir, V) \cup V, !.untold = mir.untold \ IdsOf(V)]
    BY <1>3 DEF Heard
  <2>2. Others(mir, V) \in SUBSET Value
    BY <1>1 DEF Others, Mirrors
  <2> HIDE DEF h
  <2>3. h \in Mirrors /\ h.believes = Others(mir, V) \cup V /\ h.untold = mir.untold \ IdsOf(V)
    BY <1>1, <2>1, <2>2 DEF Mirrors
  <2>4. ASSUME NEW w \in Value, w.id \notin h.untold
        PROVE  w \in h.believes <=> w \in T
    <3>1. CASE w.id \in IdsOf(V)
      BY <2>3, <3>1 DEF Others
    <3>2. CASE w.id \notin IdsOf(V)
      <4>1. w.id \notin mir.untold /\ w \notin V
        BY <1>2, <2>3, <2>4, <3>2
      <4>2. w \in mir.believes <=> w \in S
        BY <1>3, <4>1 DEF MirrorOK
      <4> QED
        BY <2>3, <3>2, <4>1, <4>2 DEF Others
    <3> QED
      BY <3>1, <3>2
  <2> QED
    BY <2>3, <2>4 DEF MirrorOK, h
<1>4. CASE ~mir.watching
  BY <1>1, <1>4 DEF Heard, MirrorOK
<1> QED
  BY <1>1, <1>3, <1>4

LEMMA HeardEraseOK ==
  ASSUME NEW mir, NEW S, NEW T, NEW v \in Value, MirrorOK(mir, S),
         \A w \in Value : w \in T <=> w \in S /\ w.id # v.id
  PROVE  MirrorOK(HeardErase(mir, v), T)
<1>1. mir \in Mirrors /\ mir.watching \in BOOLEAN
  BY DEF MirrorOK, Mirrors
<1>2. IdsOf({v}) = {v.id}
  BY IdsOfOne
<1> DEFINE h == HeardErase(mir, v)
<1>3. CASE mir.watching
  <2>1. h = [mir EXCEPT !.believes = Others(mir, {v}), !.untold = mir.untold \ {v.id}]
    BY <1>3 DEF HeardErase
  <2>2. Others(mir, {v}) \in SUBSET Value /\ \A w \in Others(mir, {v}) : w.id # v.id
    BY <1>1, <1>2 DEF Others, Mirrors
  <2>3. \A w : w \in Others(mir, {v}) <=> w \in mir.believes /\ w.id # v.id
    BY <1>2 DEF Others
  <2> HIDE DEF h
  <2>4. h \in Mirrors /\ h.believes = Others(mir, {v}) /\ h.untold = mir.untold \ {v.id}
    BY <1>1, <2>1, <2>2 DEF Mirrors
  <2>5. ASSUME NEW w \in Value, w.id \notin h.untold
        PROVE  w \in h.believes <=> w \in T
    <3>1. CASE w.id = v.id
      BY <2>3, <2>4, <3>1
    <3>2. CASE w.id # v.id
      <4>1. w.id \notin mir.untold
        BY <2>4, <2>5, <3>2
      <4>2. w \in mir.believes <=> w \in S
        BY <1>3, <4>1 DEF MirrorOK
      <4> QED
        BY <2>3, <2>4, <3>2, <4>2
    <3> QED
      BY <3>1, <3>2
  <2> QED
    BY <2>4, <2>5 DEF MirrorOK, h
<1>4. CASE ~mir.watching
  BY <1>1, <1>4 DEF HeardErase, MirrorOK
<1> QED
  BY <1>1, <1>3, <1>4

\* A subscriber that is not called is right about the ids that did not come or go.
LEMMA MissedOK ==
  ASSUME NEW mir, NEW S, NEW T, NEW V \in SUBSET Value, MirrorOK(mir, S),
         \A w \in Value : w.id \notin IdsOf(V) => (w \in T <=> w \in S)
  PROVE  MirrorOK(Missed(mir, V), T)
<1>1. mir \in Mirrors /\ mir.watching \in BOOLEAN
  BY DEF MirrorOK, Mirrors
<1>2. IdsOf(V) \in SUBSET Id
  BY IdsTyped
<1> DEFINE h == Missed(mir, V)
<1>3. CASE mir.watching
  <2>1. h = [mir EXCEPT !.untold = mir.untold \cup IdsOf(V)]
    BY <1>3 DEF Missed
  <2> HIDE DEF h
  <2>2. h \in Mirrors /\ h.believes = mir.believes /\ h.untold = mir.untold \cup IdsOf(V)
    BY <1>1, <1>2, <2>1 DEF Mirrors
  <2>3. ASSUME NEW w \in Value, w.id \notin h.untold
        PROVE  w \in h.believes <=> w \in T
    <3>1. w.id \notin mir.untold /\ w.id \notin IdsOf(V)
      BY <2>2, <2>3
    <3> QED
      BY <1>3, <2>2, <3>1 DEF MirrorOK
  <2> QED
    BY <2>2, <2>3 DEF MirrorOK, h
<1>4. CASE ~mir.watching
  BY <1>1, <1>4 DEF Missed, MirrorOK
<1> QED
  BY <1>1, <1>3, <1>4

LEMMA UnwatchedOK ==
  ASSUME NEW S
  PROVE  MirrorOK(Unwatched, S)
  BY DEF Unwatched, MirrorOK, Mirrors

\* Outside of a merge there is nothing to say about one.
LEMMA QuietMerge ==
  ASSUME IInv, Quiet, UNCHANGED merging
  PROVE  MergeOK' /\ MergeExact'
<1>1. merging' = NoMerge
  BY DEF Quiet
<1>2. NoMerge' = NoMerge
  BY DEF NoMerge
<1> QED
  BY <1>1, <1>2 DEF MergeOK, MergeExact

\* Every subscriber is right about the container as it is after the step.
LEMMA MirrorKept ==
  ASSUME \A x \in Container : MirrorOK(mirror'[x], Contents(x)')
  PROVE  MirrorExact' /\ \A x \in Container : mirror'[x] \in Mirrors
  BY DEF MirrorExact, MirrorOK, Watching

\* One subscriber changes its beliefs, and no other container its elements.
LEMMA OneMirror ==
  ASSUME IInv, NEW c \in Container, NEW m, mirror' = [mirror EXCEPT ![c] = m],
         MirrorOK(m, Contents(c)'),
         \A x \in Container : x # c => Contents(x)' = Contents(x)
  PROVE  MirrorExact' /\ mirror' \in [Container -> Mirrors]
<1>1. mirror \in [Container -> Mirrors]
  BY DEF IInv, TypeOK, Mirrors
<1>2. mirror'[c] = m /\ \A x \in Container : x # c => mirror'[x] = mirror[x]
  BY <1>1
<1>3. ASSUME NEW x \in Container
      PROVE  MirrorOK(mirror'[x], Contents(x)')
  <2>1. CASE x = c
    BY <1>2, <2>1
  <2>2. CASE x # c
    <3>1. mirror'[x] = mirror[x] /\ Contents(x)' = Contents(x)
      BY <1>2, <2>2
    <3>2. MirrorOK(mirror[x], Contents(x))
      BY MirrorNow
    <3> QED
      BY <3>1, <3>2
  <2> QED
    BY <2>1, <2>2
<1>4. MirrorExact'
  BY <1>3, MirrorKept
<1>5. m \in Mirrors
  BY DEF MirrorOK
<1> QED
  BY <1>1, <1>4, <1>5

\* Two of them do.
LEMMA TwoMirrors ==
  ASSUME IInv, NEW c \in Container, NEW d \in Container, c # d, NEW m, NEW k,
         mirror' = [mirror EXCEPT ![d] = k, ![c] = m],
         MirrorOK(m, Contents(c)'), MirrorOK(k, Contents(d)'),
         \A x \in Container : x # c /\ x # d => Contents(x)' = Contents(x)
  PROVE  MirrorExact' /\ mirror' \in [Container -> Mirrors]
<1>1. mirror \in [Container -> Mirrors]
  BY DEF IInv, TypeOK, Mirrors
<1>2. /\ mirror'[c] = m /\ mirror'[d] = k
      /\ \A x \in Container : x # c /\ x # d => mirror'[x] = mirror[x]
  BY <1>1
<1>3. ASSUME NEW x \in Container
      PROVE  MirrorOK(mirror'[x], Contents(x)')
  <2>1. CASE x = c \/ x = d
    BY <1>2, <2>1
  <2>2. CASE x # c /\ x # d
    <3>1. mirror'[x] = mirror[x] /\ Contents(x)' = Contents(x)
      BY <1>2, <2>2
    <3>2. MirrorOK(mirror[x], Contents(x))
      BY MirrorNow
    <3> QED
      BY <3>1, <3>2
  <2> QED
    BY <2>1, <2>2
<1>4. MirrorExact'
  BY <1>3, MirrorKept
<1>5. m \in Mirrors /\ k \in Mirrors
  BY DEF MirrorOK
<1> QED
  BY <1>1, <1>4, <1>5

\* None does.
LEMMA MirrorsStay ==
  ASSUME IInv, mirror' = mirror, \A x \in Container : Contents(x)' = Contents(x)
  PROVE  MirrorExact'
<1>1. ASSUME NEW x \in Container
      PROVE  MirrorOK(mirror'[x], Contents(x)')
  <2>1. mirror'[x] = mirror[x] /\ Contents(x)' = Contents(x)
    OBVIOUS
  <2>2. MirrorOK(mirror[x], Contents(x))
    BY MirrorNow
  <2> QED
    BY <2>1, <2>2
<1> QED
  BY <1>1, MirrorKept

LEMMA InitIInv == Init => IInv
<1> SUFFICES ASSUME Init PROVE IInv
  OBVIOUS
<1>1. \A c \in Container : box[c] = Empty /\ Elements(c) = {} /\ BoxOK(box[c], value)
  BY EmptyBox DEF Init, Elements
<1>2. TypeOK
  <2>1. box \in [Container -> Boxes]
    BY <1>1 DEF Init, BoxOK
  <2>2. Unwatched \in Mirrors
    BY DEF Unwatched, Mirrors
  <2> QED
    BY <2>1, <2>2, NoMergeType DEF Init, TypeOK, Boxes, Mirrors
<1>3. Live = {} /\ handle.node = NoNode /\ abandoned = {}
  BY DEF Init, Live
<1>4. Owned
  BY <1>1, <1>3, TransferAssumption DEF Owned
<1>5. FreedWhereMade
  BY <1>1, <1>3 DEF FreedWhereMade, NoHandle
<1>6. MirrorExact
  BY DEF Init, MirrorExact, Watching, Unwatched
<1> QED
  BY <1>1, <1>2, <1>4, <1>5, <1>6 DEF Init, IInv, Boxed, MergeOK, MergeExact

-----------------------------------------------------------------------------
(* Subscribers.                                                            *)

LEMMA SubscribeStep ==
  ASSUME IInv, NEW c \in Container, Subscribe(c) \/ Unsubscribe(c)
  PROVE  IInv'
<1>1. PICK m : /\ UNCHANGED <<value, home, strayed, box, resource, handle, abandoned, merging>>
               /\ Quiet /\ mirror' = [mirror EXCEPT ![c] = m]
               /\ m = Knows(Contents(c)) \/ m = Unwatched
  BY DEF Subscribe, Unsubscribe
<1>2. \A x \in Container : Elements(x)' = Elements(x) /\ Contents(x)' = Contents(x)
  BY <1>1 DEF Elements, Contents
<1>3. MirrorOK(m, Contents(c)')
  <2>1. CASE m = Knows(Contents(c))
    <3>1. MirrorOK(m, Contents(c))
      BY <2>1, MirrorNow DEF Knows, MirrorOK, Mirrors
    <3> QED
      BY <1>2, <3>1
  <2>2. CASE m = Unwatched
    BY <2>2, UnwatchedOK
  <2> QED
    BY <1>1, <2>1, <2>2
<1>4. MirrorExact' /\ mirror' \in [Container -> Mirrors]
  BY <1>1, <1>2, <1>3, OneMirror
<1>5. TypeOK'
  BY <1>1, <1>4 DEF IInv, TypeOK, Mirrors
<1>6. Boxed' /\ Owned' /\ FreedWhereMade'
  BY <1>1 DEF IInv, Boxed, BoxOK, Owned, FreedWhereMade, Elements, Live, NoHandle
<1> QED
  BY <1>1, <1>4, <1>5, <1>6, QuietMerge DEF IInv

-----------------------------------------------------------------------------
(* A node joins a container or leaves it.                                  *)

\* The step may change the elements of c, but those of no other container.
OthersStay(c) ==
  \A x \in Container : x # c => Elements(x)' = Elements(x) /\ Contents(x)' = Contents(x)

\* The container c has taken the node n.
LEMMA NodeLinked ==
  ASSUME IInv, NEW c \in Container, NEW n \in Node,
         \A x \in Container : n \notin Elements(x),
         \A m \in Node : m # n => value'[m] = value[m],
         value'[n] \in Value, Fits(box[c], value', n),
         box' = [box EXCEPT ![c] = LinkedIn(box[c], value', n)]
  PROVE  /\ box' \in [Container -> Boxes] /\ Boxed'
         /\ Elements(c)' = Elements(c) \cup {n}
         /\ Contents(c)' = Contents(c) \cup {value'[n]}
         /\ OthersStay(c)
<1>0. box \in [Container -> Boxes] /\ \A x \in Container : Elements(x) \subseteq Node
  BY ElementsLive DEF IInv, TypeOK, Boxes
<1>1. ASSUME NEW x \in Container, x # c
      PROVE  /\ Elements(x)' = Elements(x) /\ Contents(x)' = Contents(x)
             /\ BoxOK(box'[x], value')
  <2>1. box'[x] = box[x] /\ \A m \in Elements(x) : value'[m] = value[m]
    BY <1>0, <1>1
  <2> QED
    BY <2>1, Unaffected
<1>2. BoxOK(box'[c], value') /\ Elements(c)' = Elements(c) \cup {n}
  <2>1. BoxOK(box[c], value')
    <3>1. BoxOK(box[c], value) /\ \A m \in ToSet(box[c].registry) : value'[m] = value[m]
      BY <1>0 DEF IInv, Boxed, Elements
    <3> QED
      BY <3>1, FramedBox
  <2>2. n \notin ToSet(box[c].registry)
    BY DEF Elements
  <2>3. box'[c] = LinkedIn(box[c], value', n)
    BY <1>0
  <2>4. /\ BoxOK(LinkedIn(box[c], value', n), value')
        /\ ToSet(LinkedIn(box[c], value', n).registry) = ToSet(box[c].registry) \cup {n}
    BY <2>1, <2>2, LinkedBox
  <2> QED
    BY <2>3, <2>4 DEF Elements
<1>3. Boxed'
  BY <1>1, <1>2 DEF Boxed
<1>4. Contents(c)' = Contents(c) \cup {value'[n]}
  BY <1>0, <1>2 DEF Contents
<1>5. box' \in [Container -> Boxes]
  BY <1>0, <1>3 DEF Boxed, BoxOK
<1> QED
  BY <1>1, <1>2, <1>3, <1>4, <1>5 DEF OthersStay

\* The container c has let go of the node n.
LEMMA NodeUnlinked ==
  ASSUME IInv, NEW c \in Container, NEW n \in Elements(c),
         \A m \in Node : m # n => value'[m] = value[m],
         box' = [box EXCEPT ![c] = Without(box[c], n)]
  PROVE  /\ box' \in [Container -> Boxes] /\ Boxed'
         /\ Elements(c)' = Elements(c) \ {n}
         /\ \A w : w \in Contents(c)' <=> w \in Contents(c) /\ w.id # value[n].id
         /\ OthersStay(c)
<1>0. /\ box \in [Container -> Boxes] /\ \A x \in Container : Elements(x) \subseteq Node
      /\ \A x \in Container : x # c => n \notin Elements(x)
  BY ElementsLive DEF IInv, TypeOK, Boxes, Owned
<1>1. ASSUME NEW x \in Container, x # c
      PROVE  /\ Elements(x)' = Elements(x) /\ Contents(x)' = Contents(x)
             /\ BoxOK(box'[x], value')
  <2>1. box'[x] = box[x] /\ \A m \in Elements(x) : value'[m] = value[m]
    BY <1>0, <1>1
  <2> QED
    BY <2>1, Unaffected
<1>2. BoxOK(box'[c], value') /\ Elements(c)' = Elements(c) \ {n}
  <2>1. BoxOK(box[c], value) /\ n \in ToSet(box[c].registry) /\ box'[c] = Without(box[c], n)
    BY <1>0 DEF IInv, Boxed, Elements
  <2>2. BoxOK(box'[c], value) /\ ToSet(box'[c].registry) = ToSet(box[c].registry) \ {n}
    BY <2>1, UnlinkedBox
  <2>3. \A m \in ToSet(box'[c].registry) : value'[m] = value[m]
    BY <1>0, <2>2 DEF Elements
  <2> QED
    BY <2>2, <2>3, FramedBox DEF Elements
<1>3. Boxed'
  BY <1>1, <1>2 DEF Boxed
<1>4. ASSUME NEW w
      PROVE  w \in Contents(c)' <=> w \in Contents(c) /\ w.id # value[n].id
  <2>1. \A m \in Elements(c) : value[m].id = value[n].id => m = n
    BY DEF IInv, Boxed, BoxOK, Elements
  <2>2. \A m \in Elements(c)' : value'[m] = value[m]
    BY <1>0, <1>2
  <2> QED
    BY <1>2, <2>1, <2>2 DEF Contents
<1>5. box' \in [Container -> Boxes]
  BY <1>0, <1>3 DEF Boxed, BoxOK
<1> QED
  BY <1>1, <1>2, <1>3, <1>4, <1>5 DEF OthersStay

-----------------------------------------------------------------------------
(* One element, one container.                                             *)

LEMMA InsertStep ==
  ASSUME IInv, NEW c \in Container, NEW n \in Node, NEW v \in Value, Insert(c, n, v)
  PROVE  IInv'
<1>0. TypeOK /\ Boxed /\ Owned
  BY DEF IInv
<1>1. /\ value' = [value EXCEPT ![n] = v] /\ home' = [home EXCEPT ![n] = resource[c]]
      /\ box' = [box EXCEPT ![c] = LinkedIn(box[c], value', n)]
      /\ mirror' = [mirror EXCEPT ![c] = Heard(mirror[c], {v})] /\ strayed' = strayed \ {n}
      /\ UNCHANGED <<resource, handle, abandoned, merging>> /\ Quiet
      /\ n \notin Live /\ \A m \in Elements(c) : value[m].id # v.id
  BY DEF Insert
<1>2. /\ value'[n] = v /\ \A m \in Node : m # n => value'[m] = value[m]
      /\ \A x \in Container : n \notin Elements(x) /\ Elements(x) \subseteq Node
  BY <1>0, <1>1, ElementsLive DEF TypeOK
<1>3. Fits(box[c], value', n)
  BY <1>1, <1>2 DEF Fits, Elements
<1>4. /\ box' \in [Container -> Boxes] /\ Boxed'
      /\ Elements(c)' = Elements(c) \cup {n} /\ Contents(c)' = Contents(c) \cup {v}
      /\ OthersStay(c)
  <2>1. value'[n] \in Value
    BY <1>2
  <2>2. box' = [box EXCEPT ![c] = LinkedIn(box[c], value', n)]
    BY <1>1
  <2>3. /\ box' \in [Container -> Boxes] /\ Boxed'
        /\ Elements(c)' = Elements(c) \cup {n}
        /\ Contents(c)' = Contents(c) \cup {value'[n]}
        /\ OthersStay(c)
    BY <1>2, <1>3, <2>1, <2>2, NodeLinked
  <2> QED
    BY <1>2, <2>3
<1>5. MirrorExact' /\ mirror' \in [Container -> Mirrors]
  <2>1. \A w \in Contents(c) : w.id # v.id
    BY <1>1 DEF Contents
  <2>2. \A w \in Value : w \in Contents(c)' <=>
                          w \in {v} \/ (w \in Contents(c) /\ w.id \notin IdsOf({v}))
    BY <1>4, <2>1, IdsOfOne
  <2>3. MirrorOK(Heard(mirror[c], {v}), Contents(c)')
    BY <2>2, MirrorNow, IdsOfOne, HeardOK
  <2> QED
    BY <1>1, <1>4, <2>3, OneMirror DEF OthersStay
<1>6. TypeOK'
  BY <1>0, <1>1, <1>4, <1>5 DEF TypeOK, Boxes, Mirrors
<1>8. Live' = Live \cup {n}
  <2>1. v # NoValue
    BY TransferAssumption DEF Value
  <2> QED
    BY <1>2, <2>1 DEF Live
<1>9. Owned'
  BY <1>0, <1>1, <1>2, <1>4, <1>8 DEF Owned, OthersStay
<1>10. FreedWhereMade'
  <2>1. ASSUME NEW x \in Container, NEW m \in Elements(x)', m \notin strayed'
        PROVE  home'[m] = resource'[x]
    <3>1. CASE m = n
      <4>1. x = c
        BY <1>2, <1>4, <3>1 DEF OthersStay
      <4> QED
        BY <1>0, <1>1, <3>1, <4>1 DEF TypeOK
    <3>2. CASE m # n
      <4>1. m \in Elements(x) /\ m \in Node /\ m \notin strayed
        BY <1>1, <1>2, <1>4, <2>1, <3>2 DEF OthersStay
      <4> QED
        BY <1>0, <1>1, <3>2, <4>1 DEF TypeOK, IInv, FreedWhereMade
    <3> QED
      BY <3>1, <3>2
  <2>2. ~NoHandle' /\ handle'.node \notin strayed' => home'[handle'.node] = handle'.resource
    BY <1>0, <1>1 DEF TypeOK, IInv, FreedWhereMade, NoHandle, Owned
  <2> QED
    BY <2>1, <2>2 DEF FreedWhereMade
<1> QED
  BY <1>1, <1>4, <1>5, <1>6, <1>9, <1>10, QuietMerge DEF IInv

LEMMA EraseStep ==
  ASSUME IInv, NEW c \in Container, NEW n \in Node, Erase(c, n)
  PROVE  IInv'
<1>0. TypeOK /\ Boxed /\ Owned
  BY DEF IInv
<1>1. /\ value' = Freed(value, {n})
      /\ box' = [box EXCEPT ![c] = Without(box[c], n)]
      /\ mirror' = [mirror EXCEPT ![c] = HeardErase(mirror[c], value[n])]
      /\ UNCHANGED <<home, strayed, resource, handle, abandoned, merging>> /\ Quiet
      /\ n \in Elements(c)
  BY DEF Erase
<1>2. value'[n] = NoValue /\ \A m \in Node : m # n => value'[m] = value[m]
  BY <1>1 DEF Freed
<1>3. /\ box' \in [Container -> Boxes] /\ Boxed' /\ Elements(c)' = Elements(c) \ {n}
      /\ \A w : w \in Contents(c)' <=> w \in Contents(c) /\ w.id # value[n].id
      /\ OthersStay(c)
  BY <1>1, <1>2, NodeUnlinked
<1>4. MirrorExact' /\ mirror' \in [Container -> Mirrors]
  <2>1. value[n] \in Value
    BY <1>1, ElementsLive
  <2>2. MirrorOK(HeardErase(mirror[c], value[n]), Contents(c)')
    BY <1>3, <2>1, MirrorNow, HeardEraseOK
  <2> QED
    BY <1>1, <1>3, <2>2, OneMirror DEF OthersStay
<1>5. TypeOK'
  <2>2. value' \in [Node -> Value \cup {NoValue}]
    BY <1>0, <1>1 DEF TypeOK, Freed
  <2> QED
    BY <1>0, <1>1, <1>3, <1>4, <2>2 DEF TypeOK, Boxes, Mirrors
<1>7. Live' = Live \ {n}
  BY <1>2 DEF Live
<1>8. Owned'
  BY <1>0, <1>1, <1>3, <1>7 DEF Owned, OthersStay
<1>9. FreedWhereMade'
  <2>1. \A x \in Container : Elements(x)' \subseteq Elements(x)
    BY <1>3 DEF OthersStay
  <2> QED
    BY <1>1, <2>1 DEF IInv, FreedWhereMade, NoHandle
<1> QED
  BY <1>1, <1>3, <1>4, <1>5, <1>8, <1>9, QuietMerge DEF IInv

LEMMA ClearStep ==
  ASSUME IInv, NEW c \in Container, Clear(c)
  PROVE  IInv'
<1>0. TypeOK /\ Boxed /\ Owned
  BY DEF IInv
<1>1. /\ value' = Freed(value, Elements(c)) /\ box' = [box EXCEPT ![c] = Empty]
      /\ mirror' = [mirror EXCEPT ![c] = Missed(mirror[c], Contents(c))]
      /\ UNCHANGED <<home, strayed, resource, handle, abandoned, merging>> /\ Quiet
  BY DEF Clear
<1>2. \A m \in Node : value'[m] = IF m \in Elements(c) THEN NoValue ELSE value[m]
  BY <1>1 DEF Freed
<1>3. box'[c] = Empty /\ BoxOK(box'[c], value') /\ Elements(c)' = {}
  <2>1. box'[c] = Empty
    BY <1>0, <1>1 DEF TypeOK
  <2> QED
    BY <2>1, EmptyBox DEF Elements
<1>4. ASSUME NEW x \in Container, x # c
      PROVE  /\ Elements(x)' = Elements(x) /\ Contents(x)' = Contents(x)
             /\ BoxOK(box'[x], value')
  <2>1. box'[x] = box[x] /\ \A m \in Elements(x) : value'[m] = value[m]
    BY <1>0, <1>1, <1>2, <1>4, ElementsLive DEF TypeOK, Owned
  <2> QED
    BY <2>1, Unaffected
<1>5. Boxed'
  BY <1>3, <1>4 DEF Boxed
<1>6. MirrorExact' /\ mirror' \in [Container -> Mirrors]
  <2>1. Contents(c)' = {}
    BY <1>3 DEF Contents
  <2>2. \A w \in Value : w.id \notin IdsOf(Contents(c)) =>
                         (w \in Contents(c)' <=> w \in Contents(c))
    BY <2>1, MirrorNow, IdsTyped
  <2>3. MirrorOK(Missed(mirror[c], Contents(c)), Contents(c)')
    BY <2>2, MirrorNow, MissedOK
  <2> QED
    BY <1>1, <1>4, <2>3, OneMirror
<1>7. TypeOK'
  <2>1. box' \in [Container -> Boxes]
    BY <1>0, <1>1, <1>5 DEF TypeOK, Boxed, BoxOK
  <2>3. value' \in [Node -> Value \cup {NoValue}]
    BY <1>0, <1>1 DEF TypeOK, Freed
  <2> QED
    BY <1>0, <1>1, <1>6, <2>1, <2>3 DEF TypeOK, Boxes, Mirrors
<1>8. Live' = Live \ Elements(c)
  BY <1>2 DEF Live
<1>9. Owned'
  BY <1>0, <1>1, <1>3, <1>4, <1>8 DEF Owned
<1>10. FreedWhereMade'
  <2>1. \A x \in Container : Elements(x)' \subseteq Elements(x)
    BY <1>3, <1>4
  <2> QED
    BY <1>1, <2>1 DEF IInv, FreedWhereMade, NoHandle
<1> QED
  BY <1>1, <1>5, <1>6, <1>7, <1>9, <1>10, QuietMerge DEF IInv

LEMMA RegroupStep ==
  ASSUME IInv, NEW c \in Container, NEW n \in Node, NEW g \in Group, Regroup(c, n, g)
  PROVE  IInv'
<1>0. TypeOK /\ Boxed /\ Owned
  BY DEF IInv
<1> DEFINE w == Without(box[c], n)
           t == LinkedIn(w, value', n)
<1>1. /\ value' = [value EXCEPT ![n].grp = g]
      /\ box' = [box EXCEPT ![c].by_grp = t.by_grp]
      /\ mirror' = [mirror EXCEPT ![c] = Heard(mirror[c], {value'[n]})]
      /\ UNCHANGED <<home, strayed, resource, handle, abandoned, merging>> /\ Quiet
      /\ n \in Elements(c)
  BY DEF Regroup
<1>2. /\ value[n] \in Value /\ value'[n] \in Value /\ value'[n].id = value[n].id
      /\ \A m \in Node : m # n => value'[m] = value[m]
      /\ \A x \in Container : x # c => n \notin Elements(x)
      /\ \A x \in Container : Elements(x) \subseteq Node
  <2>1. value[n] \in Value
    BY <1>1, ElementsLive
  <2>2. value'[n] = [value[n] EXCEPT !.grp = g]
    BY <1>0, <1>1 DEF TypeOK
  <2>3. value'[n] \in Value /\ value'[n].id = value[n].id
    BY <2>1, <2>2 DEF Value
  <2>4. \A m \in Node : m # n => value'[m] = value[m]
    BY <1>0, <1>1 DEF TypeOK
  <2> QED
    BY <1>0, <1>1, <2>1, <2>3, <2>4, ElementsLive DEF Owned
<1>3. BoxOK(t, value') /\ ToSet(t.registry) = Elements(c)
  <2>1. BoxOK(box[c], value) /\ n \in ToSet(box[c].registry)
    BY <1>0, <1>1 DEF Boxed, Elements
  <2>2. BoxOK(w, value) /\ ToSet(w.registry) = ToSet(box[c].registry) \ {n}
    BY <2>1, UnlinkedBox
  <2>3. \A m \in ToSet(w.registry) : value'[m] = value[m]
    BY <1>2, <2>2 DEF Elements
  <2>4. BoxOK(w, value')
    BY <2>2, <2>3, FramedBox
  <2>5. Fits(w, value', n)
    BY <1>2, <2>1, <2>2, <2>3 DEF Fits, BoxOK
  <2>6. n \notin ToSet(w.registry)
    BY <2>2
  <2>7. BoxOK(t, value') /\ ToSet(t.registry) = ToSet(w.registry) \cup {n}
    BY <1>2, <2>4, <2>5, <2>6, LinkedBox
  <2> QED
    BY <2>1, <2>2, <2>7 DEF Elements
<1> HIDE DEF t
<1>4. ASSUME NEW x \in Container, x # c
      PROVE  /\ Elements(x)' = Elements(x) /\ Contents(x)' = Contents(x)
             /\ BoxOK(box'[x], value')
  <2>1. box'[x] = box[x] /\ \A m \in Elements(x) : value'[m] = value[m]
    BY <1>0, <1>1, <1>2, <1>4 DEF TypeOK
  <2> QED
    BY <2>1, Unaffected
<1>5. BoxOK(box'[c], value') /\ Elements(c)' = Elements(c)
  <2>1. box'[c] = [box[c] EXCEPT !.by_grp = t.by_grp] /\ box[c] \in Boxes
    BY <1>0, <1>1 DEF TypeOK, Boxes
  <2>2. box'[c].registry = box[c].registry /\ box'[c].list = box[c].list /\ box'[c].by_grp = t.by_grp
    BY <2>1 DEF Boxes
  <2>3. Elements(c)' = Elements(c)
    BY <2>2 DEF Elements
  <2>4. BoxOK(box[c], value)
    BY <1>0 DEF Boxed
  <2>5. box'[c] \in Boxes
    BY <1>3, <2>1 DEF BoxOK, Boxes
  <2>6. /\ IsInjective(box[c].registry) /\ IsInjective(box[c].list) /\ IsInjective(t.by_grp)
        /\ ToSet(box[c].list) = Elements(c) /\ ToSet(t.by_grp) = Elements(c)
    BY <1>3, <2>4 DEF BoxOK, Elements
  <2>7. /\ \A m \in Elements(c) : value'[m] \in Value
        /\ \A i, j \in DOMAIN t.by_grp : i < j => value'[t.by_grp[i]].grp <= value'[t.by_grp[j]].grp
        /\ \A k, m \in Elements(c) : value'[k].id = value'[m].id => k = m
    BY <1>3 DEF BoxOK
  <2> QED
    BY <2>2, <2>3, <2>5, <2>6, <2>7 DEF BoxOK, Elements
<1>6. Boxed'
  BY <1>4, <1>5 DEF Boxed
<1> DEFINE nv == value'[n]
<1>7. MirrorExact' /\ mirror' \in [Container -> Mirrors]
  <2>1. \A m \in Elements(c) : value[m].id = value[n].id => m = n
    BY <1>0, <1>1 DEF Boxed, BoxOK, Elements
  <2>2. ASSUME NEW u
        PROVE  u \in Contents(c)' <=> u = nv \/ (u \in Contents(c) /\ u.id # nv.id)
    BY <1>1, <1>2, <1>5, <2>1 DEF Contents
  <2>3. nv \in Value /\ mirror' = [mirror EXCEPT ![c] = Heard(mirror[c], {nv})]
    BY <1>1, <1>2
  <2> HIDE DEF nv
  <2>4. \A v \in Value : v \in Contents(c)' <=>
                          v \in {nv} \/ (v \in Contents(c) /\ v.id \notin IdsOf({nv}))
    BY <2>2, <2>3, IdsOfOne
  <2>5. MirrorOK(Heard(mirror[c], {nv}), Contents(c)')
    BY <2>3, <2>4, MirrorNow, IdsOfOne, HeardOK
  <2> QED
    BY <1>4, <2>3, <2>5, OneMirror
<1>8. TypeOK'
  <2>2. box' \in [Container -> Boxes]
    BY <1>0, <1>1, <1>6 DEF TypeOK, Boxed, BoxOK
  <2>3. value' \in [Node -> Value \cup {NoValue}]
    <3>1. value' = [value EXCEPT ![n] = [value[n] EXCEPT !.grp = g]]
      BY <1>0, <1>1 DEF TypeOK
    <3>2. [value[n] EXCEPT !.grp = g] \in Value
      BY <1>2 DEF Value
    <3> QED
      BY <1>0, <3>1, <3>2 DEF TypeOK
  <2> QED
    BY <1>0, <1>1, <1>7, <2>2, <2>3 DEF TypeOK, Boxes, Mirrors
<1>10. Live' = Live
  <2>1. NoValue \notin Value
    BY TransferAssumption DEF Value
  <2> QED
    BY <1>2, <2>1 DEF Live
<1>11. \A x \in Container : Elements(x)' = Elements(x)
  BY <1>4, <1>5
<1>12. Owned'
  BY <1>0, <1>1, <1>10, <1>11 DEF Owned
<1>13. FreedWhereMade'
  BY <1>1, <1>11 DEF IInv, FreedWhereMade, NoHandle
<1> QED
  BY <1>1, <1>6, <1>7, <1>8, <1>12, <1>13, QuietMerge DEF IInv

LEMMA MoveToBackStep ==
  ASSUME IInv, NEW c \in Container, NEW n \in Node, MoveToBack(c, n)
  PROVE  IInv'
<1>0. TypeOK /\ Boxed /\ Owned
  BY DEF IInv
<1> DEFINE l == RemoveFirst(box[c].list, n)
           k == Append(l, n)
<1>1. /\ box' = [box EXCEPT ![c].list = k]
      /\ UNCHANGED <<value, home, strayed, resource, handle, abandoned, mirror, merging>> /\ Quiet
      /\ n \in Elements(c)
  BY DEF MoveToBack
<1>2. k \in Seq(Node) /\ IsInjective(k) /\ ToSet(k) = Elements(c)
  <2>1. /\ box[c].list \in Seq(Node) /\ IsInjective(box[c].list)
        /\ ToSet(box[c].list) = Elements(c)
    BY <1>0 DEF Boxed, BoxOK, Boxes, Elements
  <2>2. l \in Seq(Node) /\ IsInjective(l) /\ ToSet(l) = Elements(c) \ {n}
    BY <1>1, <2>1, RemovedOnce
  <2>3. n \in Node \ ToSet(l)
    BY <2>2
  <2>4. k \in Seq(Node) /\ IsInjective(k) /\ ToSet(k) = ToSet(l) \cup {n}
    BY <2>2, <2>3, Appended
  <2> QED
    BY <1>1, <2>2, <2>4
<1> HIDE DEF k
<1>3. /\ \A x \in Container : x # c => box'[x] = box[x]
      /\ box'[c] = [box[c] EXCEPT !.list = k] /\ box[c] \in Boxes
  BY <1>0, <1>1 DEF TypeOK, Boxes
<1>4. /\ box'[c].registry = box[c].registry /\ box'[c].list = k
      /\ box'[c].by_grp = box[c].by_grp /\ box'[c] \in Boxes
  BY <1>2, <1>3 DEF Boxes
<1>5. \A x \in Container : Elements(x)' = Elements(x) /\ Contents(x)' = Contents(x)
  BY <1>1, <1>3, <1>4 DEF Elements, Contents
<1>6. BoxOK(box'[c], value)
  BY <1>0, <1>2, <1>4 DEF Boxed, BoxOK, Elements
<1>7. Boxed'
  BY <1>0, <1>1, <1>3, <1>6 DEF Boxed
<1>8. TypeOK'
  <2>1. box' \in [Container -> Boxes]
    BY <1>0, <1>1, <1>7 DEF TypeOK, Boxed, BoxOK
  <2> QED
    BY <1>0, <1>1, <2>1 DEF TypeOK, Boxes
<1>9. MirrorExact'
  BY <1>1, <1>5, MirrorsStay
<1>10. Owned' /\ FreedWhereMade'
  BY <1>0, <1>1, <1>5 DEF IInv, Owned, FreedWhereMade, NoHandle, Live
<1> QED
  BY <1>1, <1>7, <1>8, <1>9, <1>10, QuietMerge DEF IInv

-----------------------------------------------------------------------------
(* Node handles.                                                           *)

LEMMA ExtractStep ==
  ASSUME IInv, NEW c \in Container, NEW n \in Node, Extract(c, n)
  PROVE  IInv'
<1>0. TypeOK /\ Boxed /\ Owned
  BY DEF IInv
<1>1. /\ handle' = [node |-> n, resource |-> resource[c]]
      /\ box' = [box EXCEPT ![c] = Without(box[c], n)]
      /\ mirror' = [mirror EXCEPT ![c] = Missed(mirror[c], {value[n]})]
      /\ UNCHANGED <<value, home, strayed, resource, abandoned, merging>> /\ Quiet
      /\ handle.node = NoNode /\ n \in Elements(c)
  BY DEF Extract, NoHandle
<1>2. /\ box' \in [Container -> Boxes] /\ Boxed' /\ Elements(c)' = Elements(c) \ {n}
      /\ \A w : w \in Contents(c)' <=> w \in Contents(c) /\ w.id # value[n].id
      /\ OthersStay(c)
  BY <1>1, NodeUnlinked
<1>3. MirrorExact' /\ mirror' \in [Container -> Mirrors]
  <2>1. value[n] \in Value
    BY <1>1, ElementsLive
  <2>2. \A w \in Value : w.id \notin IdsOf({value[n]}) =>
                         (w \in Contents(c)' <=> w \in Contents(c))
    BY <1>2, <2>1, IdsOfOne
  <2>3. MirrorOK(Missed(mirror[c], {value[n]}), Contents(c)')
    BY <2>1, <2>2, MirrorNow, IdsOfOne, MissedOK
  <2> QED
    BY <1>1, <1>2, <2>3, OneMirror DEF OthersStay
<1>4. TypeOK'
  <2>2. handle' \in [node : Node \cup {NoNode}, resource : Resource]
    BY <1>0, <1>1 DEF TypeOK
  <2> QED
    BY <1>0, <1>1, <1>2, <1>3, <2>2 DEF TypeOK, Boxes, Mirrors
<1>5. Live' = Live
  BY <1>1 DEF Live
<1>6. Owned'
  BY <1>0, <1>1, <1>2, <1>5, TransferAssumption DEF Owned, OthersStay
<1>7. FreedWhereMade'
  <2>1. \A x \in Container : Elements(x)' \subseteq Elements(x)
    BY <1>2 DEF OthersStay
  <2> QED
    BY <1>1, <2>1 DEF IInv, FreedWhereMade, NoHandle
<1> QED
  BY <1>1, <1>2, <1>3, <1>4, <1>6, <1>7, QuietMerge DEF IInv

LEMMA EditHandleStep ==
  ASSUME IInv, NEW v \in Value, EditHandle(v)
  PROVE  IInv'
<1>0. TypeOK /\ Boxed /\ Owned
  BY DEF IInv
<1>1. /\ value' = [value EXCEPT ![handle.node] = v]
      /\ UNCHANGED <<home, strayed, box, resource, handle, abandoned, mirror, merging>> /\ Quiet
      /\ handle.node # NoNode
  BY DEF EditHandle, NoHandle
<1>2. handle.node \in Node
  BY <1>0, <1>1 DEF TypeOK
<1>3. ASSUME NEW x \in Container
      PROVE  /\ Elements(x)' = Elements(x) /\ Contents(x)' = Contents(x)
             /\ BoxOK(box'[x], value')
  <2>1. box'[x] = box[x] /\ \A m \in Elements(x) : value'[m] = value[m]
    BY <1>0, <1>1, <1>2, ElementsLive DEF TypeOK, Owned
  <2> QED
    BY <2>1, Unaffected
<1>4. Boxed'
  BY <1>3 DEF Boxed
<1>5. TypeOK'
  BY <1>0, <1>1 DEF TypeOK
<1>6. MirrorExact'
  BY <1>1, <1>3, MirrorsStay
<1>7. Live' = Live
  <2>1. v # NoValue
    BY TransferAssumption DEF Value
  <2>2. handle.node \in Live
    BY <1>0, <1>2 DEF Owned
  <2> QED
    BY <1>0, <1>1, <2>1, <2>2 DEF Live, TypeOK
<1>8. Owned' /\ FreedWhereMade'
  BY <1>0, <1>1, <1>3, <1>7 DEF IInv, Owned, FreedWhereMade, NoHandle
<1> QED
  BY <1>1, <1>4, <1>5, <1>6, <1>8, QuietMerge DEF IInv

LEMMA InsertHandleStep ==
  ASSUME IInv, NEW c \in Container, InsertHandle(c)
  PROVE  IInv'
<1>0. TypeOK /\ Boxed /\ Owned
  BY DEF IInv
<1> DEFINE n == handle.node
<1>1. /\ n \in Node /\ n # NoNode /\ Fits(box[c], value, n)
      /\ Crosses(n, handle.resource, resource[c])
      /\ handle' = [handle EXCEPT !.node = NoNode]
      /\ box' = [box EXCEPT ![c] = LinkedIn(box[c], value, n)]
      /\ mirror' = [mirror EXCEPT ![c] = Heard(mirror[c], {value[n]})]
      /\ UNCHANGED <<value, home, resource, abandoned, merging>> /\ Quiet
  BY <1>0 DEF InsertHandle, NoHandle, TypeOK
<1>2. value[n] \in Value /\ \A x \in Container : n \notin Elements(x)
  BY <1>0, <1>1 DEF TypeOK, Owned, Live
<1>3. handle'.node = NoNode
  BY <1>0, <1>1 DEF TypeOK
<1> HIDE DEF n
<1>4. /\ box' \in [Container -> Boxes] /\ Boxed'
      /\ Elements(c)' = Elements(c) \cup {n} /\ Contents(c)' = Contents(c) \cup {value[n]}
      /\ OthersStay(c)
  <2>1. value' = value
    BY <1>1
  <2>2. /\ Fits(box[c], value', n) /\ box' = [box EXCEPT ![c] = LinkedIn(box[c], value', n)]
        /\ value'[n] \in Value /\ \A m \in Node : m # n => value'[m] = value[m]
    BY <1>1, <1>2, <2>1
  <2>3. /\ box' \in [Container -> Boxes] /\ Boxed'
        /\ Elements(c)' = Elements(c) \cup {n}
        /\ Contents(c)' = Contents(c) \cup {value'[n]}
        /\ OthersStay(c)
    BY <1>1, <1>2, <2>2, NodeLinked
  <2> QED
    BY <2>1, <2>3
<1> DEFINE nv == value[n]
<1>5. MirrorExact' /\ mirror' \in [Container -> Mirrors]
  <2>1. \A w \in Contents(c) : w.id # nv.id
    BY <1>1 DEF Contents, Fits, Elements
  <2>2. nv \in Value /\ Contents(c)' = Contents(c) \cup {nv}
        /\ mirror' = [mirror EXCEPT ![c] = Heard(mirror[c], {nv})]
    BY <1>1, <1>2, <1>4
  <2> HIDE DEF nv
  <2>3. \A w \in Value : w \in Contents(c)' <=>
                          w \in {nv} \/ (w \in Contents(c) /\ w.id \notin IdsOf({nv}))
    BY <2>1, <2>2, IdsOfOne
  <2>4. MirrorOK(mirror[c], Contents(c)) /\ {nv} \in SUBSET Value
    BY <2>2, MirrorNow
  <2>5. MirrorOK(Heard(mirror[c], {nv}), Contents(c)')
    BY <2>3, <2>4, HeardOK
  <2> QED
    BY <1>4, <2>2, <2>5, OneMirror DEF OthersStay
<1>6. strayed' \subseteq Node
  BY <1>0, <1>1 DEF Crosses, TypeOK
<1>7. TypeOK'
  <2>2. handle' \in [node : Node \cup {NoNode}, resource : Resource]
    BY <1>0, <1>1 DEF TypeOK
  <2> QED
    BY <1>0, <1>1, <1>4, <1>5, <1>6, <2>2 DEF TypeOK, Boxes, Mirrors
<1>8. Live' = Live
  BY <1>1 DEF Live
<1>9. \A m \in abandoned : m # NoNode
  BY <1>0, TransferAssumption DEF TypeOK
<1>10. Owned'
  <2>1. \A x \in Container : NoNode \notin Elements(x)'
    BY <1>1, <1>4, ElementsLive, TransferAssumption DEF OthersStay
  <2>2. n \notin abandoned
    BY <1>0 DEF Owned, n
  <2>3. \A m \in Node : m \in Live' <=> m \in abandoned \/ \E x \in Container : m \in Elements(x)'
    BY <1>0, <1>1, <1>4, <1>8 DEF Owned, OthersStay, n
  <2>4. \A x, y \in Container : \A m \in Elements(x)' : m \in Elements(y)' => x = y
    BY <1>0, <1>2, <1>4 DEF Owned, OthersStay
  <2>5. \A x \in Container : \A m \in Elements(x)' : m \notin abandoned
    BY <1>0, <1>4, <2>2 DEF Owned, OthersStay
  <2> QED
    BY <1>1, <1>3, <1>9, <2>1, <2>3, <2>4, <2>5, TransferAssumption DEF Owned
<1>11. FreedWhereMade'
  <2>1. /\ n \notin strayed' => home[n] = resource[c]
        /\ \A m \in Node : m # n /\ m \notin strayed' => m \notin strayed
    <3>1. CASE handle.resource = resource[c]
      <4>1. strayed' = strayed /\ (n \notin strayed => home[n] = resource[c])
        BY <1>1, <3>1 DEF Crosses, IInv, FreedWhereMade, NoHandle, n
      <4> QED
        BY <4>1
    <3>2. CASE handle.resource # resource[c]
      BY <1>1, <3>2 DEF Crosses
    <3> QED
      BY <3>1, <3>2
  <2>2. \A x \in Container : \A m \in Elements(x)' : m \notin strayed' => home[m] = resource[x]
    <3> SUFFICES ASSUME NEW x \in Container, NEW m \in Elements(x)', m \notin strayed'
                 PROVE  home[m] = resource[x]
      OBVIOUS
    <3>1. CASE m = n
      <4>1. x = c
        BY <1>2, <1>4, <3>1 DEF OthersStay
      <4> QED
        BY <2>1, <3>1, <4>1
    <3>2. CASE m # n
      <4>1. m \in Elements(x) /\ m \in Node
        BY <1>4, <3>2, ElementsLive DEF OthersStay
      <4> QED
        BY <2>1, <3>2, <4>1 DEF IInv, FreedWhereMade
    <3> QED
      BY <3>1, <3>2
  <2> QED
    BY <1>1, <1>3, <2>2 DEF FreedWhereMade, NoHandle
<1> QED
  BY <1>1, <1>4, <1>5, <1>7, <1>10, <1>11, QuietMerge DEF IInv

LEMMA ResetHandleStep ==
  ASSUME IInv, ResetHandle
  PROVE  IInv'
<1>0. TypeOK /\ Boxed /\ Owned
  BY DEF IInv
<1>1. /\ value' = Freed(value, {handle.node}) /\ handle' = [handle EXCEPT !.node = NoNode]
      /\ UNCHANGED <<home, strayed, box, resource, abandoned, mirror, merging>> /\ Quiet
      /\ handle.node # NoNode /\ handle.node \in Node
  BY <1>0 DEF ResetHandle, NoHandle, TypeOK
<1>2. \A m \in Node : value'[m] = IF m = handle.node THEN NoValue ELSE value[m]
  BY <1>1 DEF Freed
<1>3. ASSUME NEW x \in Container
      PROVE  /\ Elements(x)' = Elements(x) /\ Contents(x)' = Contents(x)
             /\ BoxOK(box'[x], value')
  <2>1. box'[x] = box[x] /\ \A m \in Elements(x) : value'[m] = value[m]
    BY <1>0, <1>1, <1>2, ElementsLive DEF Owned
  <2> QED
    BY <2>1, Unaffected
<1>4. Boxed'
  BY <1>3 DEF Boxed
<1>5. handle'.node = NoNode /\ handle' \in [node : Node \cup {NoNode}, resource : Resource]
  BY <1>0, <1>1 DEF TypeOK
<1>6. TypeOK'
  <2>1. value' \in [Node -> Value \cup {NoValue}]
    BY <1>0, <1>1 DEF TypeOK, Freed
  <2> QED
    BY <1>0, <1>1, <1>5, <2>1 DEF TypeOK
<1>7. MirrorExact'
  BY <1>1, <1>3, MirrorsStay
<1>8. Live' = Live \ {handle.node}
  BY <1>2 DEF Live
<1>9. Owned'
  <2>1. \A x \in Container : Elements(x) \subseteq Node
    BY ElementsLive
  <2>2. abandoned \subseteq Node
    BY <1>0 DEF TypeOK
  <2> QED
    BY <1>0, <1>1, <1>3, <1>5, <1>8, <2>1, <2>2, TransferAssumption DEF Owned
<1>10. FreedWhereMade'
  BY <1>1, <1>3, <1>5 DEF IInv, FreedWhereMade, NoHandle
<1> QED
  BY <1>1, <1>4, <1>6, <1>7, <1>9, <1>10, QuietMerge DEF IInv

-----------------------------------------------------------------------------
(* Merging.                                                                *)

LEMMA StartMergeStep ==
  ASSUME IInv, NEW c \in Container, NEW d \in Container, StartMerge(c, d)
  PROVE  IInv'
<1>0. TypeOK /\ Boxed /\ Owned
  BY DEF IInv
<1>1. /\ c # d
      /\ merging' = [ rest |-> box[d].registry, from |-> d, to |-> c,
                      all |-> Elements(c) \cup Elements(d) ]
      /\ UNCHANGED <<value, home, strayed, box, resource, handle, abandoned, mirror>>
  BY DEF StartMerge, Snapshot
<1>2. box[d].registry \in Seq(Node)
  BY <1>0 DEF Boxed, BoxOK, Boxes
<1>3. \A x \in Container : Elements(x)' = Elements(x) /\ Contents(x)' = Contents(x)
  BY <1>1 DEF Elements, Contents
<1>4. TypeOK'
  <2>1. Elements(c) \cup Elements(d) \subseteq Node
    BY ElementsLive
  <2> QED
    BY <1>0, <1>1, <1>2, <2>1 DEF TypeOK
<1>5. Boxed'
  BY <1>0, <1>1 DEF Boxed
<1>6. Owned' /\ FreedWhereMade'
  BY <1>0, <1>1, <1>3 DEF IInv, Owned, FreedWhereMade, NoHandle, Live
<1>7. MirrorExact'
  BY <1>1, <1>3, MirrorsStay
<1>8. MergeOK'
  BY <1>1 DEF MergeOK
<1>9. MergeExact'
  <2>1. IsPrefix(box[d].registry, box[d].registry)
    BY <1>2, PrefixByPlace, LenProperties
  <2>2. /\ merging'.rest = box[d].registry /\ merging'.from = d /\ merging'.to = c
        /\ merging'.all = Elements(c) \cup Elements(d) /\ box' = box
    BY <1>1
  <2> QED
    BY <1>3, <2>1, <2>2 DEF MergeExact, Elements
<1> QED
  BY <1>4, <1>5, <1>6, <1>7, <1>8, <1>9 DEF IInv

\* What a merge that runs says of its next node.
LEMMA NextNode ==
  ASSUME IInv, merging.rest # <<>>
  PROVE  /\ merging # NoMerge /\ merging.from \in Container /\ merging.to \in Container
         /\ merging.from # merging.to
         /\ Head(merging.rest) \in Elements(merging.from) /\ Head(merging.rest) \in Node
         /\ Tail(merging.rest) \in Seq(Node)
         /\ ToSet(merging.rest) \ {Head(merging.rest)} \subseteq ToSet(Tail(merging.rest))
         /\ LET n == Head(merging.rest)
                s == box[merging.from].registry
            IN  /\ IsPrefix(Tail(merging.rest), RemoveFirst(s, n))
                /\ IsPrefix(Tail(merging.rest), Append(RemoveFirst(s, n), n))
<1> DEFINE s == box[merging.from].registry
<1>1. merging # NoMerge
  BY NoMergeType
<1>2. merging.from \in Container /\ merging.to \in Container /\ merging.from # merging.to
  BY <1>1 DEF IInv, MergeOK
<1>3. s \in Seq(Node) /\ IsInjective(s)
  BY <1>2 DEF IInv, Boxed, BoxOK, Boxes
<1>4. merging.rest \in Seq(Node) /\ IsPrefix(merging.rest, s)
  BY <1>1 DEF IInv, TypeOK, MergeExact
<1> HIDE DEF s
<1>5. LET n == Head(merging.rest)
      IN  /\ n \in ToSet(s) /\ n \in Node /\ Tail(merging.rest) \in Seq(Node)
          /\ ToSet(merging.rest) \ {n} \subseteq ToSet(Tail(merging.rest))
          /\ IsPrefix(Tail(merging.rest), RemoveFirst(s, n))
          /\ IsPrefix(Tail(merging.rest), Append(RemoveFirst(s, n), n))
  BY <1>3, <1>4, PrefixPassed
<1> QED
  BY <1>1, <1>2, <1>5 DEF s, Elements

\* A merge that goes on has only its next node behind it, a merge that is given up nothing.
LEMMA MergeGoesOn ==
  ASSUME IInv, NEW x, GoOn(x), merging.rest # <<>>,
         NEW c \in Container, c = merging.to, NEW d \in Container, d = merging.from,
         Elements(d)' \cup Elements(c)' = merging.all,
         IsPrefix(Tail(merging.rest), box'[d].registry),
         \A m \in Elements(d)' \ ToSet(Tail(merging.rest)) :
           \E k \in Elements(c)' : value'[k].id = value'[m].id
  PROVE  /\ MergeOK' /\ MergeExact'
         /\ merging' \in [ rest : Seq(Node), all : SUBSET Node,
                           from : Container \cup {NoNode}, to : Container \cup {NoNode} ]
<1>1. merging # NoMerge /\ Tail(merging.rest) \in Seq(Node)
  BY NextNode
<1>2. /\ merging \in [ rest : Seq(Node), all : SUBSET Node,
                       from : Container \cup {NoNode}, to : Container \cup {NoNode} ]
  BY DEF IInv, TypeOK
<1>3. CASE merging' = NoMerge
  BY <1>3, NoMergeType DEF MergeOK, MergeExact, NoMerge
<1>4. CASE merging' = [merging EXCEPT !.rest = Tail(merging.rest)]
  <2>1. /\ merging'.rest = Tail(merging.rest) /\ merging'.from = merging.from
        /\ merging'.to = merging.to /\ merging'.all = merging.all
    BY <1>2, <1>4
  <2>2. MergeOK'
    <3>1. merging.from \in Container /\ merging.to \in Container /\ merging.from # merging.to
      BY <1>1 DEF IInv, MergeOK
    <3> QED
      BY <2>1, <3>1 DEF MergeOK
  <2>3. MergeExact'
    BY <2>1 DEF MergeExact, Elements
  <2> QED
    BY <1>1, <1>2, <1>4, <2>2, <2>3
<1> QED
  BY <1>3, <1>4 DEF GoOn

LEMMA MergeTakesStep ==
  ASSUME IInv, NEW c \in Container, c = merging.to, NEW d \in Container, d = merging.from,
         NEW n \in Node, n = Head(merging.rest),
         merging.rest # <<>>, MergeMoves(n, c, d),
         UNCHANGED <<home, resource, handle, abandoned>>
  PROVE  IInv'
<1>0. TypeOK /\ Boxed /\ Owned
  BY DEF IInv
<1> DEFINE h == Heard(mirror[c], {value[n]})
           g == Missed(mirror[d], {value[n]})
<1>1. /\ merging.rest # <<>> /\ Fits(box[c], value, n) /\ GoOn(c)
      /\ box' = [box EXCEPT ![d] = Without(box[d], n), ![c] = LinkedIn(box[c], value, n)]
      /\ mirror' = [mirror EXCEPT ![d] = g, ![c] = h]
      /\ Crosses(n, resource[d], resource[c])
      /\ UNCHANGED <<value, home, resource, handle, abandoned>>
  <2>1. c # d
    BY NextNode
  <2>2. /\ box' = [box EXCEPT ![d] = Without(box[d], n), ![c] = LinkedIn(box[c], value, n)]
        /\ mirror' = [mirror EXCEPT ![d] = g, ![c] = h]
    BY <2>1 DEF MergeMoves
  <2> QED
    BY <2>2 DEF MergeMoves
<1> HIDE DEF h, g
<1>2. /\ c \in Container /\ d \in Container /\ d # c
      /\ n \in Elements(d) /\ n \in Node /\ merging # NoMerge /\ value[n] \in Value
      /\ ToSet(merging.rest) \ {n} \subseteq ToSet(Tail(merging.rest))
      /\ IsPrefix(Tail(merging.rest), RemoveFirst(box[d].registry, n))
  BY <1>1, NextNode, ElementsLive
<1>3. /\ box'[d] = Without(box[d], n) /\ box'[c] = LinkedIn(box[c], value, n)
      /\ \A x \in Container : x # c /\ x # d => box'[x] = box[x]
  BY <1>0, <1>1, <1>2 DEF TypeOK
<1>4. /\ BoxOK(box'[d], value) /\ Elements(d)' = Elements(d) \ {n}
      /\ box'[d].registry = RemoveFirst(box[d].registry, n)
  <2>1. BoxOK(box[d], value) /\ n \in ToSet(box[d].registry)
    BY <1>0, <1>2 DEF Boxed, Elements
  <2>2. /\ BoxOK(Without(box[d], n), value)
        /\ ToSet(Without(box[d], n).registry) = ToSet(box[d].registry) \ {n}
    BY <2>1, UnlinkedBox
  <2> QED
    BY <1>3, <2>2 DEF Elements, Without
<1>5. BoxOK(box'[c], value) /\ Elements(c)' = Elements(c) \cup {n} /\ n \notin Elements(c)
  <2>1. BoxOK(box[c], value) /\ n \notin ToSet(box[c].registry)
    BY <1>0, <1>2 DEF Boxed, Elements, Owned
  <2>2. /\ BoxOK(LinkedIn(box[c], value, n), value)
        /\ ToSet(LinkedIn(box[c], value, n).registry) = ToSet(box[c].registry) \cup {n}
    BY SMTT(30), <1>1, <1>2, <2>1, LinkedBox
  <2> QED
    BY <1>3, <2>1, <2>2 DEF Elements
<1>6. \A x \in Container : x # c /\ x # d =>
        /\ Elements(x)' = Elements(x) /\ Contents(x)' = Contents(x) /\ BoxOK(box'[x], value)
  <2> SUFFICES ASSUME NEW x \in Container, x # c, x # d
               PROVE  /\ Elements(x)' = Elements(x) /\ Contents(x)' = Contents(x)
                      /\ BoxOK(box'[x], value)
    OBVIOUS
  <2>1. box'[x] = box[x] /\ value' = value
    BY <1>1, <1>3
  <2>2. Elements(x)' = Elements(x)
    BY <2>1 DEF Elements
  <2>3. Contents(x)' = Contents(x)
    BY <2>1, <2>2 DEF Contents
  <2>4. BoxOK(box[x], value)
    BY <1>0 DEF Boxed
  <2> QED
    BY <2>1, <2>2, <2>3, <2>4
<1>7. Boxed'
  BY <1>1, <1>4, <1>5, <1>6 DEF Boxed
<1>8. MirrorExact' /\ mirror' \in [Container -> Mirrors]
  <2> DEFINE nv == value[n]
  <2>1. \A w \in Contents(c) : w.id # nv.id
    BY <1>1 DEF Contents, Fits, Elements
  <2>2. Contents(c)' = Contents(c) \cup {nv}
    BY <1>1, <1>5 DEF Contents
  <2>3. \A w : w.id # nv.id => (w \in Contents(d)' <=> w \in Contents(d))
    BY <1>1, <1>4 DEF Contents
  <2>4. nv \in Value /\ h = Heard(mirror[c], {nv}) /\ g = Missed(mirror[d], {nv})
    BY <1>2 DEF h, g
  <2> HIDE DEF nv
  <2>5. MirrorOK(h, Contents(c)')
    <3>1. \A w \in Value : w \in Contents(c)' <=>
                            w \in {nv} \/ (w \in Contents(c) /\ w.id \notin IdsOf({nv}))
      BY <2>1, <2>2, <2>4, IdsOfOne
    <3> QED
      BY <2>4, <3>1, MirrorNow, IdsOfOne, HeardOK
  <2>6. MirrorOK(g, Contents(d)')
    <3>1. \A w \in Value : w.id \notin IdsOf({nv}) => (w \in Contents(d)' <=> w \in Contents(d))
      BY <2>3, <2>4, IdsOfOne
    <3> QED
      BY <2>4, <3>1, MirrorNow, IdsOfOne, MissedOK
  <2>7. mirror' = [mirror EXCEPT ![d] = g, ![c] = h] /\ c # d
    BY <1>1, <1>2
  <2>8. \A x \in Container : x # c /\ x # d => Contents(x)' = Contents(x)
    BY <1>6
  <2> QED
    BY <2>5, <2>6, <2>7, <2>8, TwoMirrors
<1>9. /\ Elements(d)' \cup Elements(c)' = merging.all
      /\ \A m \in Elements(d)' \ ToSet(Tail(merging.rest)) :
           \E k \in Elements(c)' : value'[k].id = value'[m].id
  <2>1. /\ Elements(d) \cup Elements(c) = merging.all
        /\ \A m \in Elements(d) \ ToSet(merging.rest) : \E k \in Elements(c) : value[k].id = value[m].id
    BY <1>2 DEF IInv, MergeExact, Elements
  <2> QED
    BY <1>1, <1>2, <1>4, <1>5, <2>1
<1>10. /\ MergeOK' /\ MergeExact'
       /\ merging' \in [ rest : Seq(Node), all : SUBSET Node,
                         from : Container \cup {NoNode}, to : Container \cup {NoNode} ]
  <2>2. IsPrefix(Tail(merging.rest), box'[d].registry)
    BY <1>2, <1>4
  <2> QED
    BY <1>1, <1>9, <2>2, MergeGoesOn
<1>11. strayed' \subseteq Node
  BY <1>0, <1>1 DEF Crosses, TypeOK
<1>12. TypeOK'
  <2>2. box' \in [Container -> Boxes]
    BY <1>0, <1>1, <1>7 DEF TypeOK, Boxed, BoxOK
  <2> QED
    BY <1>0, <1>1, <1>8, <1>10, <1>11, <2>2 DEF TypeOK, Boxes, Mirrors
<1>13. Owned'
  <2>1. Live' = Live
    BY <1>1 DEF Live
  <2> QED
    BY <1>0, <1>1, <1>2, <1>4, <1>5, <1>6, <2>1 DEF Owned
<1>14. FreedWhereMade'
  <2>1. /\ n \notin strayed' => home[n] = resource[c]
        /\ \A m \in Node : m # n /\ m \notin strayed' => m \notin strayed
    <3>1. CASE resource[d] = resource[c]
      <4>1. strayed' = strayed /\ (n \notin strayed => home[n] = resource[d])
        BY <1>1, <1>2, <3>1 DEF Crosses, IInv, FreedWhereMade
      <4> QED
        BY <3>1, <4>1
    <3>2. CASE resource[d] # resource[c]
      BY <1>1, <3>2 DEF Crosses
    <3> QED
      BY <3>1, <3>2
  <2>2. \A x \in Container : \A m \in Elements(x)' : m \notin strayed' => home[m] = resource[x]
    <3> SUFFICES ASSUME NEW x \in Container, NEW m \in Elements(x)', m \notin strayed'
                 PROVE  home[m] = resource[x]
      OBVIOUS
    <3>1. CASE m = n
      <4>1. x = c
        BY <1>0, <1>2, <1>4, <1>6, <3>1 DEF Owned
      <4> QED
        BY <2>1, <3>1, <4>1
    <3>2. CASE m # n
      <4>1. m \in Elements(x) /\ m \in Node
        BY <1>4, <1>5, <1>6, <3>2, ElementsLive
      <4> QED
        BY <2>1, <3>2, <4>1 DEF IInv, FreedWhereMade
    <3> QED
      BY <3>1, <3>2
  <2>3. ~NoHandle /\ handle.node \notin strayed' => home[handle.node] = handle.resource
    <3>1. ~NoHandle => handle.node \in Node /\ handle.node # n
      BY <1>0, <1>2 DEF TypeOK, NoHandle, Owned
    <3> QED
      BY <2>1, <3>1 DEF IInv, FreedWhereMade
  <2> QED
    BY <1>1, <2>2, <2>3 DEF FreedWhereMade, NoHandle
<1> QED
  BY <1>7, <1>8, <1>10, <1>12, <1>13, <1>14 DEF IInv

LEMMA MergeReturnsStep ==
  ASSUME IInv, NEW c \in Container, c = merging.to, NEW d \in Container, d = merging.from,
         NEW n \in Node, n = Head(merging.rest),
         merging.rest # <<>>, MergeReturns(n, c, d),
         UNCHANGED <<home, resource, handle, abandoned>>
  PROVE  IInv'
<1>0. TypeOK /\ Boxed /\ Owned
  BY DEF IInv
<1> DEFINE g == Missed(mirror[d], {value[n]})
           h == Heard(g, {value[n]})
           w == Without(box[d], n)
           t == LinkedIn(w, value, n)
<1>1. /\ merging.rest # <<>> /\ ~Fits(box[c], value, n) /\ GoOn(d)
      /\ box' = [box EXCEPT ![d] = t] /\ mirror' = [mirror EXCEPT ![d] = h]
      /\ UNCHANGED <<value, home, strayed, resource, handle, abandoned>>
  BY DEF MergeReturns, Returned
<1> HIDE DEF h, g
<1>2. /\ c \in Container /\ d \in Container /\ d # c
      /\ n \in Elements(d) /\ n \in Node /\ merging # NoMerge /\ value[n] \in Value
      /\ ToSet(merging.rest) \ {n} \subseteq ToSet(Tail(merging.rest))
      /\ IsPrefix(Tail(merging.rest), Append(RemoveFirst(box[d].registry, n), n))
  BY <1>1, NextNode, ElementsLive
<1>3. /\ BoxOK(t, value) /\ ToSet(t.registry) = Elements(d)
      /\ t.registry = Append(RemoveFirst(box[d].registry, n), n)
  <2>1. BoxOK(box[d], value) /\ n \in ToSet(box[d].registry)
    BY <1>0, <1>2 DEF Boxed, Elements
  <2>2. BoxOK(w, value) /\ ToSet(w.registry) = ToSet(box[d].registry) \ {n}
    BY <2>1, UnlinkedBox
  <2>3. Fits(w, value, n) /\ n \notin ToSet(w.registry)
    BY <2>1, <2>2 DEF Fits, BoxOK
  <2>4. w.registry = RemoveFirst(box[d].registry, n)
    BY DEF Without
  <2> HIDE DEF w
  <2>5. /\ BoxOK(t, value) /\ ToSet(t.registry) = ToSet(w.registry) \cup {n}
        /\ t.registry = Append(w.registry, n)
    BY <1>2, <2>2, <2>3, LinkedBox
  <2> QED
    BY <2>1, <2>2, <2>4, <2>5 DEF Elements
<1> HIDE DEF t
<1>4. box'[d] = t /\ \A x \in Container : x # d => box'[x] = box[x]
  BY <1>0, <1>1, <1>2 DEF TypeOK
<1>5. \A x \in Container : Elements(x)' = Elements(x) /\ Contents(x)' = Contents(x)
  <2>1. \A x \in Container : Elements(x)' = Elements(x)
    BY <1>3, <1>4 DEF Elements
  <2> QED
    BY <1>1, <2>1 DEF Contents
<1>6. Boxed'
  BY <1>0, <1>1, <1>3, <1>4 DEF Boxed
<1>7. MirrorExact' /\ mirror' \in [Container -> Mirrors]
  <2> DEFINE nv == value[n]
  <2>1. \A m \in Elements(d) : value[m].id = value[n].id => m = n
    BY <1>0, <1>2 DEF Boxed, BoxOK, Elements
  <2>2. nv \in Contents(d) /\ \A u \in Contents(d) : u.id = nv.id => u = nv
    BY <1>2, <2>1 DEF Contents
  <2>3. nv \in Value /\ h = Heard(g, {nv}) /\ g = Missed(mirror[d], {nv})
    BY <1>2 DEF h, g
  <2> HIDE DEF nv
  <2>4. MirrorOK(g, Contents(d))
    <3>1. {nv} \in SUBSET Value /\ MirrorOK(mirror[d], Contents(d))
      BY <2>3, MirrorNow, IdsOfOne
    <3> QED
      BY <2>3, <3>1, MissedOK
  <2>5. \A u \in Value : u \in Contents(d) <=>
                          u \in {nv} \/ (u \in Contents(d) /\ u.id \notin IdsOf({nv}))
    BY <2>2, <2>3, IdsOfOne
  <2>6. MirrorOK(h, Contents(d))
    BY <2>3, <2>4, <2>5, IdsOfOne, HeardOK
  <2>7. MirrorOK(h, Contents(d)') /\ \A x \in Container : x # d => Contents(x)' = Contents(x)
    BY <1>5, <2>6
  <2> QED
    BY <1>1, <2>7, OneMirror
<1>8. /\ Elements(d)' \cup Elements(c)' = merging.all
      /\ \A m \in Elements(d)' \ ToSet(Tail(merging.rest)) :
           \E k \in Elements(c)' : value'[k].id = value'[m].id
  <2>1. /\ Elements(d) \cup Elements(c) = merging.all
        /\ \A m \in Elements(d) \ ToSet(merging.rest) : \E k \in Elements(c) : value[k].id = value[m].id
    BY <1>2 DEF IInv, MergeExact, Elements
  <2>3. \E k \in Elements(c) : value[k].id = value[n].id
    BY <1>1 DEF Fits, Elements
  <2>4. \A m \in Elements(d) \ ToSet(Tail(merging.rest)) : m = n \/ m \notin ToSet(merging.rest)
    BY <1>2
  <2>5. Elements(c)' = Elements(c) /\ Elements(d)' = Elements(d) /\ value' = value
    BY <1>1, <1>2, <1>5
  <2> QED
    BY <2>1, <2>3, <2>4, <2>5
<1>9. /\ MergeOK' /\ MergeExact'
      /\ merging' \in [ rest : Seq(Node), all : SUBSET Node,
                        from : Container \cup {NoNode}, to : Container \cup {NoNode} ]
  <2>2. IsPrefix(Tail(merging.rest), box'[d].registry)
    BY <1>2, <1>3, <1>4
  <2> QED
    BY <1>1, <1>8, <2>2, MergeGoesOn
<1>10. TypeOK'
  <2>2. box' \in [Container -> Boxes]
    BY <1>0, <1>1, <1>6 DEF TypeOK, Boxed, BoxOK
  <2> QED
    BY <1>0, <1>1, <1>7, <1>9, <2>2 DEF TypeOK, Boxes, Mirrors
<1>11. Owned' /\ FreedWhereMade'
  BY <1>0, <1>1, <1>5 DEF IInv, Owned, FreedWhereMade, NoHandle, Live
<1> QED
  BY <1>6, <1>7, <1>9, <1>10, <1>11 DEF IInv

LEMMA MergeDropsStep ==
  ASSUME IInv, NEW c \in Container, NEW d \in Container, NEW n \in Elements(d),
         MergeDrops(n, c, d),
         UNCHANGED <<home, resource, handle, abandoned>>
  PROVE  IInv'
<1>0. TypeOK /\ Boxed /\ Owned
  BY DEF IInv
<1>1. /\ value' = Freed(value, {n}) /\ box' = [box EXCEPT ![d] = Without(box[d], n)]
      /\ mirror' = [mirror EXCEPT ![d] = Missed(mirror[d], {value[n]})]
      /\ merging' = NoMerge
      /\ UNCHANGED <<home, strayed, resource, handle, abandoned>>
  BY DEF MergeDrops
<1>2. n \in Elements(d) /\ n \in Node /\ value[n] \in Value
  BY ElementsLive
<1>3. value'[n] = NoValue /\ \A m \in Node : m # n => value'[m] = value[m]
  BY <1>1, <1>2 DEF Freed
<1>4. /\ box' \in [Container -> Boxes] /\ Boxed' /\ Elements(d)' = Elements(d) \ {n}
      /\ \A w : w \in Contents(d)' <=> w \in Contents(d) /\ w.id # value[n].id
      /\ OthersStay(d)
  BY <1>1, <1>2, <1>3, NodeUnlinked
<1>5. MirrorExact' /\ mirror' \in [Container -> Mirrors]
  <2>1. \A w \in Value : w.id \notin IdsOf({value[n]}) =>
                         (w \in Contents(d)' <=> w \in Contents(d))
    BY <1>2, <1>4, IdsOfOne
  <2>2. MirrorOK(Missed(mirror[d], {value[n]}), Contents(d)')
    BY <1>2, <2>1, MirrorNow, IdsOfOne, MissedOK
  <2> QED
    BY <1>1, <1>4, <2>2, OneMirror DEF OthersStay
<1>6. TypeOK'
  <2>1. value' \in [Node -> Value \cup {NoValue}]
    BY <1>0, <1>1 DEF TypeOK, Freed
  <2> QED
    BY <1>0, <1>1, <1>4, <1>5, <2>1, NoMergeType DEF TypeOK, Boxes, Mirrors
<1>7. Live' = Live \ {n}
  BY <1>3 DEF Live
<1>8. Owned'
  BY <1>0, <1>1, <1>2, <1>4, <1>7 DEF Owned, OthersStay
<1>9. FreedWhereMade'
  <2>1. \A x \in Container : Elements(x)' \subseteq Elements(x)
    BY <1>4 DEF OthersStay
  <2> QED
    BY <1>1, <2>1 DEF IInv, FreedWhereMade, NoHandle
<1>10. MergeOK' /\ MergeExact'
  <2>1. NoMerge' = NoMerge
    BY DEF NoMerge
  <2> QED
    BY <1>1, <2>1 DEF MergeOK, MergeExact
<1> QED
  BY <1>4, <1>5, <1>6, <1>8, <1>9, <1>10 DEF IInv

LEMMA EndMergeStep ==
  ASSUME IInv, EndMerge
  PROVE  IInv'
<1>1. /\ merging' = NoMerge
      /\ UNCHANGED <<value, home, strayed, box, resource, handle, abandoned, mirror>>
  BY DEF EndMerge
<1>2. \A x \in Container : Elements(x)' = Elements(x) /\ Contents(x)' = Contents(x)
  BY <1>1 DEF Elements, Contents
<1>3. TypeOK'
  BY <1>1, NoMergeType DEF IInv, TypeOK
<1>4. Boxed' /\ Owned' /\ FreedWhereMade'
  BY <1>1, <1>2 DEF IInv, Boxed, Owned, FreedWhereMade, NoHandle, Live
<1>5. MirrorExact'
  BY <1>1, <1>2, MirrorsStay
<1>6. MergeOK' /\ MergeExact'
  <2>1. NoMerge' = NoMerge
    BY DEF NoMerge
  <2> QED
    BY <1>1, <2>1 DEF MergeOK, MergeExact
<1> QED
  BY <1>3, <1>4, <1>5, <1>6 DEF IInv

-----------------------------------------------------------------------------
(* Moving and swapping.                                                    *)

LEMMA MoveStep ==
  ASSUME IInv, NEW c \in Container, NEW d \in Container,
         MoveAssign(c, d) \/ MoveConstruct(c, d)
  PROVE  IInv'
<1>0. TypeOK /\ Boxed /\ Owned
  BY DEF IInv
<1> DEFINE C == Contents(c)
           D == Contents(d)
<1>1. PICK mir : /\ c # d /\ value' = Freed(value, Elements(c))
                 /\ box' = [box EXCEPT ![c] = box[d], ![d] = Empty]
                 /\ resource' = [x \in Container |-> resource[IF x = c THEN d ELSE x]]
                 /\ mirror' = [mirror EXCEPT ![c] = mir, ![d] = Missed(mirror[d], D)]
                 /\ mir = Missed(mirror[c], C \cup D) \/ mir = Unwatched
                 /\ UNCHANGED <<home, strayed, handle, abandoned, merging>> /\ Quiet
  <2>1. PICK mir : /\ c # d /\ TakeOver(c, d)
                   /\ mirror' = [mirror EXCEPT ![c] = mir, ![d] = Missed(mirror[d], D)]
                   /\ mir = Missed(mirror[c], C \cup D) \/ mir = Unwatched
                   /\ UNCHANGED <<home, strayed, handle, abandoned, merging>> /\ Quiet
    <3>1. CASE MoveAssign(c, d)
      <4>1. /\ c # d /\ TakeOver(c, d)
            /\ mirror' = [mirror EXCEPT ![c] = Missed(mirror[c], C \cup D),
                                        ![d] = Missed(mirror[d], D)]
            /\ UNCHANGED <<home, strayed, handle, abandoned, merging>> /\ Quiet
        BY <3>1 DEF MoveAssign
      <4> QED
        BY <4>1
    <3>2. CASE MoveConstruct(c, d)
      <4>1. /\ c # d /\ TakeOver(c, d)
            /\ mirror' = [mirror EXCEPT ![c] = Unwatched, ![d] = Missed(mirror[d], D)]
            /\ UNCHANGED <<home, strayed, handle, abandoned, merging>> /\ Quiet
        BY <3>2 DEF MoveConstruct
      <4> QED
        BY <4>1
    <3> QED
      BY <3>1, <3>2
  <2> QED
    BY <2>1 DEF TakeOver, Allocators
<1> HIDE DEF C, D
<1>2. \A m \in Node : value'[m] = IF m \in Elements(c) THEN NoValue ELSE value[m]
  BY <1>1 DEF Freed
<1>3. /\ box'[c] = box[d] /\ box'[d] = Empty
      /\ \A x \in Container : x # c /\ x # d => box'[x] = box[x]
  BY <1>0, <1>1 DEF TypeOK
<1>4. Elements(c)' = Elements(d) /\ Elements(d)' = {} /\ BoxOK(box'[d], value')
  BY <1>3, EmptyBox DEF Elements
<1>5. BoxOK(box'[c], value')
  <2>1. BoxOK(box[d], value)
    BY <1>0 DEF Boxed
  <2>2. \A m \in ToSet(box[d].registry) : value'[m] = value[m]
    BY <1>0, <1>1, <1>2, ElementsLive DEF Owned, Elements
  <2> QED
    BY <1>3, <2>1, <2>2, FramedBox
<1>6. ASSUME NEW x \in Container, x # c, x # d
      PROVE  /\ Elements(x)' = Elements(x) /\ Contents(x)' = Contents(x)
             /\ BoxOK(box'[x], value')
  <2>1. box'[x] = box[x] /\ \A m \in Elements(x) : value'[m] = value[m]
    BY <1>0, <1>2, <1>3, <1>6, ElementsLive DEF Owned
  <2> QED
    BY <2>1, Unaffected
<1>7. Boxed'
  BY <1>4, <1>5, <1>6 DEF Boxed
<1>8. MirrorExact' /\ mirror' \in [Container -> Mirrors]
  <2>1. Contents(c)' = D /\ Contents(d)' = {}
    <3>1. \A n \in Elements(d) : value'[n] = value[n]
      BY <1>0, <1>1, <1>2, ElementsLive DEF Owned
    <3> QED
      BY <1>4, <3>1 DEF Contents, D
  <2>2. C \in SUBSET Value /\ D \in SUBSET Value /\ C \cup D \in SUBSET Value
    BY MirrorNow DEF C, D
  <2>3. MirrorOK(mirror[c], C) /\ MirrorOK(mirror[d], D)
    BY MirrorNow DEF C, D
  <2>4. MirrorOK(Missed(mirror[d], D), {})
    <3>1. \A w \in Value : w.id \notin IdsOf(D) => (w \in {} <=> w \in D)
      BY <2>2, IdsTyped
    <3> QED
      BY <2>2, <2>3, <3>1, MissedOK
  <2>5. MirrorOK(mir, D)
    <3>1. \A w \in Value : w.id \notin IdsOf(C \cup D) => (w \in D <=> w \in C)
      BY <2>2, IdsTyped
    <3>2. MirrorOK(Missed(mirror[c], C \cup D), D)
      BY <2>2, <2>3, <3>1, MissedOK
    <3> QED
      BY <1>1, <3>2, UnwatchedOK
  <2>6. MirrorOK(mir, Contents(c)') /\ MirrorOK(Missed(mirror[d], D), Contents(d)')
    BY <2>1, <2>4, <2>5
  <2> QED
    BY <1>1, <1>6, <2>6, TwoMirrors
<1>9. TypeOK'
  <2>1. box' \in [Container -> Boxes]
    BY <1>0, <1>1, <1>7 DEF TypeOK, Boxed, BoxOK
  <2>3. value' \in [Node -> Value \cup {NoValue}]
    BY <1>0, <1>1 DEF TypeOK, Freed
  <2>4. resource' \in [Container -> Resource]
    BY <1>0, <1>1 DEF TypeOK
  <2> QED
    BY <1>0, <1>1, <1>8, <2>1, <2>3, <2>4 DEF TypeOK, Boxes, Mirrors
<1>10. Live' = Live \ Elements(c)
  BY <1>2 DEF Live
<1>11. Owned'
  BY <1>0, <1>1, <1>4, <1>6, <1>10 DEF Owned
<1>12. FreedWhereMade'
  <2>1. /\ resource'[c] = resource[d] /\ \A x \in Container : x # c => resource'[x] = resource[x]
    BY <1>1
  <2>2. \A x \in Container : \A n \in Elements(x)' : n \notin strayed => home[n] = resource'[x]
    BY <1>4, <1>6, <2>1 DEF IInv, FreedWhereMade
  <2> QED
    BY <1>1, <2>2 DEF IInv, FreedWhereMade, NoHandle
<1> QED
  BY <1>1, <1>7, <1>8, <1>9, <1>11, <1>12, QuietMerge DEF IInv

LEMMA SwapStep ==
  ASSUME IInv, NEW c \in Container, NEW d \in Container, Swap(c, d)
  PROVE  IInv'
<1>0. TypeOK /\ Boxed /\ Owned
  BY DEF IInv
<1> DEFINE C == Contents(c)
           D == Contents(d)
<1>1. /\ c # d /\ box' = [box EXCEPT ![c] = box[d], ![d] = box[c]]
      /\ resource' = [x \in Container |-> resource[IF x = c THEN d ELSE IF x = d THEN c ELSE x]]
      /\ mirror' = [mirror EXCEPT ![d] = Missed(mirror[d], C \cup D),
                                  ![c] = Missed(mirror[c], C \cup D)]
      /\ UNCHANGED <<value, home, strayed, handle, abandoned, merging>> /\ Quiet
  <2>1. /\ c # d
        /\ mirror' = [x \in Container |-> IF x \in {c, d} THEN Missed(mirror[x], C \cup D)
                                         ELSE mirror[x]]
    BY DEF Swap
  <2> HIDE DEF C, D
  <2>2. mirror' = [mirror EXCEPT ![d] = Missed(mirror[d], C \cup D),
                                ![c] = Missed(mirror[c], C \cup D)]
    BY <1>0, <2>1 DEF TypeOK
  <2> QED
    BY <2>1, <2>2 DEF Swap, Allocators
<1> HIDE DEF C, D
<1>2. /\ box'[c] = box[d] /\ box'[d] = box[c]
      /\ \A x \in Container : x # c /\ x # d => box'[x] = box[x]
  BY <1>0, <1>1 DEF TypeOK
<1>3. /\ Elements(c)' = Elements(d) /\ Elements(d)' = Elements(c)
      /\ Contents(c)' = D /\ Contents(d)' = C
      /\ \A x \in Container : x # c /\ x # d =>
           Elements(x)' = Elements(x) /\ Contents(x)' = Contents(x)
  BY <1>1, <1>2 DEF Elements, Contents, C, D
<1>4. Boxed'
  BY <1>0, <1>1, <1>2 DEF Boxed
<1>5. MirrorExact' /\ mirror' \in [Container -> Mirrors]
  <2>1. C \cup D \in SUBSET Value /\ MirrorOK(mirror[c], C) /\ MirrorOK(mirror[d], D)
    BY MirrorNow DEF C, D
  <2>2. \A w \in Value : w.id \notin IdsOf(C \cup D) => w \notin C /\ w \notin D
    BY <2>1, IdsTyped
  <2>3. MirrorOK(Missed(mirror[c], C \cup D), D)
    BY <2>1, <2>2, MissedOK
  <2>4. MirrorOK(Missed(mirror[d], C \cup D), C)
    BY <2>1, <2>2, MissedOK
  <2>5. /\ MirrorOK(Missed(mirror[c], C \cup D), Contents(c)')
        /\ MirrorOK(Missed(mirror[d], C \cup D), Contents(d)')
    BY <1>3, <2>3, <2>4
  <2>6. /\ c # d
        /\ mirror' = [mirror EXCEPT ![d] = Missed(mirror[d], C \cup D),
                                    ![c] = Missed(mirror[c], C \cup D)]
    BY <1>1
  <2>7. \A x \in Container : x # c /\ x # d => Contents(x)' = Contents(x)
    BY <1>3
  <2> QED
    BY <2>5, <2>6, <2>7, TwoMirrors
<1>6. TypeOK'
  <2>1. box' \in [Container -> Boxes]
    BY <1>0, <1>1, <1>4 DEF TypeOK, Boxed, BoxOK
  <2>3. resource' \in [Container -> Resource]
    BY <1>0, <1>1 DEF TypeOK
  <2> QED
    BY <1>0, <1>1, <1>5, <2>1, <2>3 DEF TypeOK, Boxes, Mirrors
<1>7. Owned'
  <2>1. Live' = Live
    BY <1>1 DEF Live
  <2> QED
    BY <1>0, <1>1, <1>3, <2>1 DEF Owned
<1>8. FreedWhereMade'
  <2>1. /\ resource'[c] = resource[d] /\ resource'[d] = resource[c]
        /\ \A x \in Container : x # c /\ x # d => resource'[x] = resource[x]
    BY <1>1
  <2>2. \A x \in Container : \A n \in Elements(x)' : n \notin strayed => home[n] = resource'[x]
    BY <1>3, <2>1 DEF IInv, FreedWhereMade
  <2> QED
    BY <1>1, <2>2 DEF IInv, FreedWhereMade, NoHandle
<1> QED
  BY <1>1, <1>4, <1>5, <1>6, <1>7, <1>8, QuietMerge DEF IInv

-----------------------------------------------------------------------------
(* Copying.                                                                *)

\* A finite set of nodes can be listed.
LEMMA Listed ==
  ASSUME NEW F \in SUBSET Node
  PROVE  SetToSeq(F) \in Seq(Node) /\ IsInjective(SetToSeq(F)) /\ ToSet(SetToSeq(F)) \subseteq F
<1> DEFINE k == Cardinality(F)
<1>1. IsFiniteSet(F)
  BY TransferAssumption, FS_Subset
<1>2. k \in Nat /\ ExistsBijection(1..k, F)
  BY <1>1, FS_CardinalityType
<1> HIDE DEF k
<1>3. \E f \in [1..k -> F] : IsInjective(f)
  BY <1>2 DEF ExistsBijection, Bijection, Injection
<1> DEFINE f == SetToSeq(F)
<1>4. f \in [1..k -> F] /\ IsInjective(f)
  BY <1>3 DEF SetToSeq, k
<1> HIDE DEF f
<1>5. f \in Seq(Node)
  BY <1>2, <1>4, IsASeq
<1>6. ToSet(f) \subseteq F
  BY <1>4 DEF ToSet
<1> QED
  BY <1>4, <1>5, <1>6 DEF f

\* The boxes a copy goes through, one insertion after the other.
Stages(k, vs, ns) ==
  CHOOSE g : g = [i \in 0..k |-> IF i = 0 THEN Empty ELSE LinkedIn(g[i - 1], vs, ns[i])]

LEMMA StagesExist ==
  ASSUME NEW k \in Nat, NEW vs, NEW ns
  PROVE  Stages(k, vs, ns) = [i \in 0..k |-> IF i = 0 THEN Empty
                                             ELSE LinkedIn(Stages(k, vs, ns)[i - 1], vs, ns[i])]
<1> DEFINE Follows(g, j) ==
             g = [i \in 0..j |-> IF i = 0 THEN Empty ELSE LinkedIn(g[i - 1], vs, ns[i])]
           T == {j \in Nat : \E g : Follows(g, j)}
<1>1. 0 \in T
  <2> DEFINE g == [i \in 0..0 |-> Empty]
  <2>1. Follows(g, 0)
    OBVIOUS
  <2> QED
    BY <2>1
<1>2. ASSUME NEW j \in Nat, j \in T
      PROVE  j + 1 \in T
  <2>1. PICK g : Follows(g, j)
    BY <1>2
  <2> DEFINE h == [i \in 0..(j + 1) |-> IF i = j + 1 THEN LinkedIn(g[j], vs, ns[j + 1]) ELSE g[i]]
  <2>2. ASSUME NEW i \in 0..(j + 1)
        PROVE  h[i] = IF i = 0 THEN Empty ELSE LinkedIn(h[i - 1], vs, ns[i])
    <3>1. CASE i = 0
      BY <2>1, <3>1
    <3>2. CASE i # 0 /\ i # j + 1
      <4>1. i \in 0..j /\ i - 1 \in 0..(j + 1) /\ i - 1 # j + 1
        BY <3>2
      <4>2. h[i] = g[i] /\ h[i - 1] = g[i - 1]
        BY <3>2, <4>1
      <4> HIDE DEF h
      <4>3. g[i] = LinkedIn(g[i - 1], vs, ns[i])
        BY <2>1, <3>2, <4>1
      <4> QED
        BY <3>2, <4>2, <4>3
    <3>3. CASE i = j + 1
      <4>1. j \in 0..(j + 1) /\ j # j + 1 /\ i - 1 = j /\ i # 0
        BY <3>3
      <4>2. h[j] = g[j] /\ h[i] = LinkedIn(g[j], vs, ns[j + 1])
        BY <3>3, <4>1
      <4> QED
        BY <3>3, <4>1, <4>2
    <3> QED
      BY <3>1, <3>2, <3>3
  <2>3. Follows(h, j + 1)
    <3>1. DOMAIN h = 0..(j + 1) /\ h = [i \in 0..(j + 1) |-> h[i]]
      OBVIOUS
    <3> HIDE DEF h
    <3> QED
      BY <2>2, <3>1
  <2> HIDE DEF Follows
  <2> QED
    BY <2>3
<1> HIDE DEF T
<1>3. k \in T
  BY <1>1, <1>2, InductiveSet
<1>4. \E g : g = [i \in 0..k |-> IF i = 0 THEN Empty ELSE LinkedIn(g[i - 1], vs, ns[i])]
  BY <1>3 DEF T
<1> QED
  BY <1>4 DEF Stages

\* Every stage is a container with the nodes that have been inserted so far.
LEMMA StagesBuild ==
  ASSUME NEW ns \in Seq(Node), IsInjective(ns), NEW vs,
         \A i \in 1..Len(ns) : vs[ns[i]] \in Value,
         \A i, j \in 1..Len(ns) : vs[ns[i]].id = vs[ns[j]].id => i = j
  PROVE  /\ BoxOK(Stages(Len(ns), vs, ns)[Len(ns)], vs)
         /\ ToSet(Stages(Len(ns), vs, ns)[Len(ns)].registry) = ToSet(ns)
<1> DEFINE k == Len(ns)
           g == Stages(k, vs, ns)
           Until(j) == {ns[i] : i \in 1..j}
           T == {j \in Nat : j <= k => BoxOK(g[j], vs) /\ ToSet(g[j].registry) = Until(j)}
<1>1. k \in Nat /\ DOMAIN ns = 1..k
  BY LenProperties
<1>2. g = [i \in 0..k |-> IF i = 0 THEN Empty ELSE LinkedIn(g[i - 1], vs, ns[i])]
  BY <1>1, StagesExist
<1> HIDE DEF k, g
<1>3. 0 \in T
  <2>1. g[0] = Empty
    BY <1>1, <1>2
  <2>2. Until(0) = {}
    OBVIOUS
  <2> HIDE DEF Until
  <2> QED
    BY <2>1, <2>2, EmptyBox
<1>4. ASSUME NEW j \in Nat, j \in T
      PROVE  j + 1 \in T
  <2> SUFFICES ASSUME j + 1 <= k
               PROVE  BoxOK(g[j + 1], vs) /\ ToSet(g[j + 1].registry) = Until(j + 1)
    OBVIOUS
  <2> DEFINE n == ns[j + 1]
  <2>1. BoxOK(g[j], vs) /\ ToSet(g[j].registry) = Until(j)
    BY <1>1, <1>4
  <2>2. g[j + 1] = LinkedIn(g[j], vs, n)
    <3>1. j + 1 \in 0..k /\ j + 1 # 0 /\ (j + 1) - 1 = j
      BY <1>1
    <3> QED
      BY <1>2, <3>1
  <2>3. n \in Node /\ vs[n] \in Value
    BY <1>1 DEF k
  <2>4. \A m \in Until(j) : vs[m].id # vs[n].id
    BY <1>1 DEF k
  <2>5. n \notin Until(j)
    BY <2>4
  <2>6. Until(j + 1) = Until(j) \cup {n}
    <3>1. 1..(j + 1) = (1..j) \cup {j + 1}
      OBVIOUS
    <3> QED
      BY <3>1
  <2> HIDE DEF Until, n
  <2>7. Fits(g[j], vs, n) /\ n \notin ToSet(g[j].registry)
    BY <2>1, <2>4, <2>5 DEF Fits
  <2>8. /\ BoxOK(LinkedIn(g[j], vs, n), vs)
        /\ ToSet(LinkedIn(g[j], vs, n).registry) = ToSet(g[j].registry) \cup {n}
    <3> DEFINE b == g[j]
    <3>1. BoxOK(b, vs) /\ Fits(b, vs, n) /\ n \notin ToSet(b.registry)
      BY <2>1, <2>7
    <3> HIDE DEF b
    <3>2. /\ BoxOK(LinkedIn(b, vs, n), vs)
          /\ ToSet(LinkedIn(b, vs, n).registry) = ToSet(b.registry) \cup {n}
      BY SMTT(30), <2>3, <3>1, LinkedBox
    <3> QED
      BY <3>2 DEF b
  <2> QED
    BY <2>1, <2>2, <2>6, <2>8
<1>5. k \in T
  <2> HIDE DEF T
  <2> QED
    BY <1>1, <1>3, <1>4, InductiveSet
<1>6. BoxOK(g[k], vs) /\ ToSet(g[k].registry) = Until(k)
  BY <1>1, <1>5
<1>7. Until(k) = ToSet(ns)
  BY <1>1 DEF ToSet
<1> QED
  BY <1>6, <1>7 DEF k, g

\* Elements that may be replayed into another container.
Replayable(S) ==
  /\ S \in Seq(Node)
  /\ \A i \in 1..Len(S) : value[S[i]] \in Value
  /\ \A i, j \in 1..Len(S) : value[S[i]].id = value[S[j]].id => i = j

LEMMA ListReplayable ==
  ASSUME IInv, NEW d \in Container
  PROVE  Replayable(Replayed(d)) /\ Len(Replayed(d)) \in Nat
<1> DEFINE S == box[d].list
<1>1. /\ S \in Seq(Node) /\ IsInjective(S) /\ ToSet(S) = ToSet(box[d].registry)
      /\ \A m \in ToSet(box[d].registry) : value[m] \in Value
      /\ \A m, n \in ToSet(box[d].registry) : value[m].id = value[n].id => m = n
  BY DEF IInv, Boxed, BoxOK, Boxes
<1>2. Len(S) \in Nat /\ DOMAIN S = 1..Len(S)
  BY <1>1, LenProperties
<1>3. \A i \in 1..Len(S) : S[i] \in ToSet(box[d].registry)
  BY <1>1, <1>2 DEF ToSet
<1>4. Replayed(d) = S
  BY DEF Replayed
<1> HIDE DEF S
<1> QED
  BY <1>1, <1>2, <1>3, <1>4 DEF IsInjective, Replayable

\* So may the first k of them.
LEMMA PartReplayable ==
  ASSUME NEW S, Replayable(S), NEW k \in 0..Len(S)
  PROVE  Replayable(SubSeq(S, 1, k))
<1> DEFINE T == SubSeq(S, 1, k)
<1>1. S \in Seq(Node) /\ Len(S) \in Nat /\ \A i \in 1..Len(S) : S[i] \in Node
  BY LenProperties DEF Replayable
<1>2. k \in Nat /\ k <= Len(S)
  BY <1>1
<1>3. T \in Seq(Node) /\ Len(T) = k /\ \A i \in 1..k : T[i] = S[i]
  <2>1. \A i \in 1..k : S[i] \in Node
    BY <1>1, <1>2
  <2>2. /\ T \in Seq(Node) /\ Len(T) = IF 1 <= k THEN k - 1 + 1 ELSE 0
        /\ \A i \in 1..(k - 1 + 1) : T[i] = S[1 + i - 1]
    BY <1>2, <2>1, SubSeqProperties
  <2> HIDE DEF T
  <2> QED
    BY <1>2, <2>2
<1> HIDE DEF T
<1>4. 1..k \subseteq 1..Len(S)
  BY <1>1, <1>2
<1>5. Replayable(T)
  BY <1>3, <1>4 DEF Replayable
<1> QED
  BY <1>5 DEF T

\* A copy is a container of nodes that were free, or that c owned itself.
CopyOK(c, copy) ==
  /\ BoxOK(BoxOf(copy), copy.values) /\ ToSet(BoxOf(copy).registry) = copy.nodes
  /\ copy.nodes \subseteq (Node \ Live) \cup Elements(c)
  /\ copy.whole \in BOOLEAN

LEMMA CopyIsABox ==
  ASSUME IInv, NEW c \in Container, NEW S, Replayable(S)
  PROVE  CopyOK(c, CopyInto(S, Fresh(c)))
<1> DEFINE fresh == Fresh(c)
           F == (Node \ Live) \cup Elements(c)
           k == IF Len(S) < Len(fresh) THEN Len(S) ELSE Len(fresh)
           ns == SubSeq(fresh, 1, k)
           vs == [n \in Node |-> IF n \in ToSet(ns)
                                 THEN value[S[SelectInSeq(ns, LAMBDA m : m = n)]] ELSE NoValue]
           copy == CopyInto(S, Fresh(c))
<1>1. copy = [ order |-> ns, nodes |-> ToSet(ns), whole |-> k = Len(S), values |-> vs ]
  BY DEF CopyInto
<1>2. /\ S \in Seq(Node) /\ Len(S) \in Nat
      /\ \A i \in 1..Len(S) : value[S[i]] \in Value
      /\ \A i, j \in 1..Len(S) : value[S[i]].id = value[S[j]].id => i = j
  BY LenProperties DEF Replayable
<1>3. /\ fresh \in Seq(Node) /\ IsInjective(fresh) /\ ToSet(fresh) \subseteq F
      /\ Len(fresh) \in Nat /\ DOMAIN fresh = 1..Len(fresh)
  <2>1. F \in SUBSET Node
    BY ElementsLive
  <2>2. fresh = SetToSeq(F)
    BY DEF Fresh
  <2> HIDE DEF F, fresh
  <2>3. fresh \in Seq(Node) /\ IsInjective(fresh) /\ ToSet(fresh) \subseteq F
    BY <2>1, <2>2, Listed
  <2> QED
    BY <2>3, LenProperties
<1> HIDE DEF fresh, F
<1>4. k \in Nat /\ k <= Len(S) /\ k <= Len(fresh)
  BY <1>2, <1>3
<1> HIDE DEF k
<1>5. ns \in Seq(Node) /\ Len(ns) = k /\ \A i \in 1..k : ns[i] = fresh[i]
  <2>1. \A i \in 1..k : fresh[i] \in Node
    BY <1>3, <1>4
  <2>2. /\ ns \in Seq(Node) /\ Len(ns) = IF 1 <= k THEN k - 1 + 1 ELSE 0
        /\ \A i \in 1..(k - 1 + 1) : ns[i] = fresh[1 + i - 1]
    BY <1>4, <2>1, SubSeqProperties
  <2> QED
    BY <1>4, <2>2
<1> HIDE DEF ns
<1>6. IsInjective(ns) /\ ToSet(ns) \subseteq F /\ DOMAIN ns = 1..k
  <2>1. DOMAIN ns = 1..k
    BY <1>5, LenProperties
  <2>2. IsInjective(ns)
    BY <1>3, <1>4, <1>5, <2>1 DEF IsInjective
  <2>3. ToSet(ns) \subseteq F
    BY <1>3, <1>4, <1>5, <2>1 DEF ToSet
  <2> QED
    BY <2>1, <2>2, <2>3
<1>7. ASSUME NEW i \in 1..k
      PROVE  vs[ns[i]] = value[S[i]]
  <2> DEFINE n == ns[i]
  <2>1. SelectInSeq(ns, LAMBDA m : m = n) = i
    <3> DEFINE I == {j \in 1..Len(ns) : ns[j] = n}
    <3>1. I # {} /\ Min(I) = i
      BY <1>5, <1>6, OnlyPlace
    <3> QED
      BY <3>1 DEF SelectInSeq
  <2>2. n \in Node /\ n \in ToSet(ns)
    BY <1>5, <1>6 DEF ToSet
  <2> HIDE DEF n
  <2>3. vs[n] = value[S[SelectInSeq(ns, LAMBDA m : m = n)]]
    BY <2>2
  <2> QED
    BY <2>1, <2>3 DEF n
<1> HIDE DEF vs
<1>8. /\ \A i \in 1..Len(ns) : vs[ns[i]] \in Value
      /\ \A i, j \in 1..Len(ns) : vs[ns[i]].id = vs[ns[j]].id => i = j
  <2>1. Len(ns) = k /\ 1..k \subseteq 1..Len(S)
    BY <1>2, <1>4, <1>5
  <2>2. \A i \in 1..k : vs[ns[i]] \in Value
    BY <1>2, <1>7, <2>1
  <2>3. ASSUME NEW i \in 1..k, NEW j \in 1..k, vs[ns[i]].id = vs[ns[j]].id
        PROVE  i = j
    <3>1. i \in 1..Len(S) /\ j \in 1..Len(S)
      BY <2>1
    <3>2. value[S[i]].id = value[S[j]].id
      BY <1>7, <2>3
    <3> QED
      BY <1>2, <3>1, <3>2
  <2> QED
    BY <2>1, <2>2, <2>3
<1>9. BoxOK(Stages(k, vs, ns)[k], vs) /\ ToSet(Stages(k, vs, ns)[k].registry) = ToSet(ns)
  BY <1>5, <1>6, <1>8, StagesBuild
<1> HIDE DEF copy
<1>10. BoxOf(copy) = Stages(k, vs, ns)[k]
  <2>1. copy.order = ns /\ copy.values = vs /\ Len(ns) = k
    BY <1>1, <1>5
  <2>2. BoxOf(copy) = Stages(Len(copy.order), copy.values, copy.order)[Len(copy.order)]
    BY DEF BoxOf, Stages
  <2> QED
    BY <2>1, <2>2
<1>11. copy.values = vs /\ copy.nodes = ToSet(ns) /\ copy.whole \in BOOLEAN
  BY <1>1
<1>12. CopyOK(c, copy)
  BY <1>6, <1>9, <1>10, <1>11 DEF CopyOK, F
<1> QED
  BY <1>12 DEF copy

\* A container that becomes a copy, or is left empty because the copy stopped halfway.
LEMMA CopyTaken ==
  ASSUME IInv, NEW c \in Container, NEW copy, CopyOK(c, copy), NEW s \in Resource,
         NEW kept \in BOOLEAN, NEW m, Quiet, UNCHANGED <<handle, merging>>, Adopt(c, copy),
         home' = [n \in Node |-> IF n \in copy.nodes THEN s ELSE home[n]],
         strayed' = strayed \ copy.nodes,
         box' = [box EXCEPT ![c] = IF kept THEN BoxOf(copy) ELSE Empty],
         abandoned' = IF kept THEN abandoned ELSE abandoned \cup copy.nodes,
         resource' = [resource EXCEPT ![c] = s],
         mirror' = [mirror EXCEPT ![c] = m],
         MirrorOK(m, IF kept THEN {copy.values[n] : n \in copy.nodes} ELSE {})
  PROVE  IInv'
<1>0. TypeOK /\ Boxed /\ Owned
  BY DEF IInv
<1> DEFINE nodes == copy.nodes
           built == BoxOf(copy)
<1>1. /\ Quiet /\ UNCHANGED <<handle, merging>>
      /\ value' = [n \in Node |-> IF n \in nodes THEN copy.values[n]
                                  ELSE Freed(value, Elements(c))[n]]
      /\ home' = [n \in Node |-> IF n \in nodes THEN s ELSE home[n]]
      /\ strayed' = strayed \ nodes
      /\ box' = [box EXCEPT ![c] = IF kept THEN built ELSE Empty]
      /\ abandoned' = IF kept THEN abandoned ELSE abandoned \cup nodes
      /\ resource' = [resource EXCEPT ![c] = s]
      /\ mirror' = [mirror EXCEPT ![c] = m]
  BY DEF Adopt
<1>2. /\ BoxOK(built, copy.values) /\ ToSet(built.registry) = nodes
      /\ nodes \subseteq (Node \ Live) \cup Elements(c)
  BY DEF CopyOK
<1> HIDE DEF built
<1>3. nodes \subseteq Node /\ \A n \in nodes : copy.values[n] \in Value
  BY <1>2, ElementsLive DEF BoxOK
<1> HIDE DEF nodes
<1>4. \A n \in Node : value'[n] = IF n \in nodes THEN copy.values[n]
                                  ELSE IF n \in Elements(c) THEN NoValue ELSE value[n]
  BY <1>1 DEF Freed
<1>5. /\ box'[c] = (IF kept THEN built ELSE Empty)
      /\ \A x \in Container : x # c => box'[x] = box[x]
  BY <1>0, <1>1 DEF TypeOK
<1>6. BoxOK(box'[c], value') /\ Elements(c)' = IF kept THEN nodes ELSE {}
  <2>1. CASE kept
    <3>1. \A n \in ToSet(built.registry) : value'[n] = copy.values[n]
      BY <1>2, <1>3, <1>4 DEF nodes
    <3>2. BoxOK(built, value')
      BY <1>2, <3>1, FramedBox
    <3> QED
      BY <1>2, <1>5, <2>1, <3>2 DEF Elements
  <2>2. CASE ~kept
    <3>1. box'[c] = Empty
      BY <1>5, <2>2
    <3> QED
      BY <2>2, <3>1, EmptyBox DEF Elements
  <2> QED
    BY <2>1, <2>2
<1>7. ASSUME NEW x \in Container, x # c
      PROVE  /\ Elements(x)' = Elements(x) /\ Contents(x)' = Contents(x)
             /\ BoxOK(box'[x], value')
             /\ \A n \in Elements(x) : n \notin nodes /\ n \notin Elements(c)
  <2>1. \A n \in Elements(x) : n \in Node /\ n \notin nodes /\ n \notin Elements(c)
    BY <1>0, <1>2, <1>7, ElementsLive DEF Owned
  <2>2. box'[x] = box[x] /\ \A n \in Elements(x) : value'[n] = value[n]
    BY <1>4, <1>5, <1>7, <2>1
  <2> QED
    BY <2>1, <2>2, Unaffected
<1>8. Boxed'
  BY <1>6, <1>7 DEF Boxed
<1>9. MirrorExact' /\ mirror' \in [Container -> Mirrors]
  <2>1. Contents(c)' = IF kept THEN {copy.values[n] : n \in nodes} ELSE {}
    BY <1>3, <1>4, <1>6 DEF Contents
  <2>2. MirrorOK(m, Contents(c)')
    BY <2>1 DEF nodes
  <2> QED
    BY <1>1, <1>7, <2>2, OneMirror
<1>10. TypeOK'
  <2>1. box' \in [Container -> Boxes]
    BY <1>0, <1>1, <1>8 DEF TypeOK, Boxed, BoxOK
  <2>3. value' \in [Node -> Value \cup {NoValue}]
    BY <1>0, <1>1, <1>3 DEF TypeOK, Freed
  <2>4. home' \in [Node -> Resource] /\ resource' \in [Container -> Resource]
    BY <1>0, <1>1 DEF TypeOK
  <2>5. abandoned' \subseteq Node /\ strayed' \subseteq Node
    BY <1>0, <1>1, <1>3 DEF TypeOK
  <2> QED
    BY <1>0, <1>1, <1>9, <2>1, <2>3, <2>4, <2>5 DEF TypeOK, Boxes, Mirrors
<1>11. Live' = (Live \ Elements(c)) \cup nodes
  <2>1. NoValue \notin Value
    BY TransferAssumption DEF Value
  <2> QED
    BY <1>3, <1>4, <2>1 DEF Live
<1>12. \A n \in nodes : n \notin abandoned /\ n # handle.node
  BY <1>0, <1>2, <1>3 DEF Owned
<1>13. Owned'
  <2>1. \A x, y \in Container : \A n \in Elements(x)' : n \in Elements(y)' => x = y
    BY <1>0, <1>6, <1>7 DEF Owned
  <2>2. \A x \in Container : \A n \in Elements(x)' : n # handle'.node /\ n \notin abandoned'
    <3>1. CASE kept
      BY <1>0, <1>1, <1>6, <1>7, <1>12, <3>1 DEF Owned
    <3>2. CASE ~kept
      BY <1>0, <1>1, <1>6, <1>7, <1>12, <3>2 DEF Owned
    <3> QED
      BY <3>1, <3>2
  <2>3. handle'.node \notin abandoned'
    BY <1>0, <1>1, <1>12 DEF Owned
  <2>4. ASSUME NEW n \in Node
        PROVE  n \in Live' <=> \/ n = handle'.node \/ n \in abandoned'
                               \/ \E x \in Container : n \in Elements(x)'
    <3>1. CASE n \in nodes
      <4>1. n \in Live' /\ (n \in abandoned' \/ n \in Elements(c)')
        BY <1>1, <1>6, <1>11, <3>1
      <4> QED
        BY <4>1
    <3>2. CASE n \notin nodes
      <4>1. n \in Live' <=> n \in Live /\ n \notin Elements(c)
        BY <1>11, <3>2
      <4>2. n \in abandoned' <=> n \in abandoned
        BY <1>1, <3>2
      <4>3. n \notin Elements(c)'
        BY <1>6, <3>2
      <4> QED
        BY <1>0, <1>1, <1>7, <4>1, <4>2, <4>3 DEF Owned
    <3> QED
      BY <3>1, <3>2
  <2> QED
    BY <2>1, <2>2, <2>3, <2>4 DEF Owned
<1>14. FreedWhereMade'
  <2>1. \A n \in Elements(c)' : home'[n] = resource'[c]
    BY <1>0, <1>1, <1>3, <1>6 DEF TypeOK
  <2>2. ASSUME NEW x \in Container, x # c, NEW n \in Elements(x), n \notin strayed'
        PROVE  home'[n] = resource'[x]
    <3>1. n \in Node /\ n \notin nodes /\ n \notin strayed
      BY <1>1, <1>7, <2>2, ElementsLive
    <3> QED
      BY <1>0, <1>1, <2>2, <3>1 DEF TypeOK, IInv, FreedWhereMade
  <2>3. ~NoHandle' /\ handle'.node \notin strayed' => home'[handle'.node] = handle'.resource
    <3>1. handle.node # NoNode =>
            home'[handle.node] = home[handle.node]
            /\ (handle.node \notin strayed' => handle.node \notin strayed)
      BY <1>0, <1>1, <1>12 DEF TypeOK
    <3> QED
      BY <1>1, <3>1 DEF IInv, FreedWhereMade, NoHandle
  <2> QED
    BY <1>7, <2>1, <2>2, <2>3 DEF FreedWhereMade
<1> QED
  BY <1>1, <1>8, <1>9, <1>10, <1>13, <1>14, QuietMerge DEF IInv

\* The two ways to copy.
LEMMA CopyAssignStep ==
  ASSUME IInv, NEW c \in Container, NEW d \in Container, NEW k \in Attempts(c, d),
         CopyAssign(c, d, k)
  PROVE  IInv'
<1> DEFINE S == SubSeq(Replayed(d), 1, k)
           copy == CopyInto(S, Fresh(c))
           V == {copy.values[n] : n \in copy.nodes}
           m == Heard(Missed(mirror[c], Contents(c)), V)
<1>1. /\ Quiet /\ UNCHANGED <<resource, handle, abandoned, merging>> /\ Adopt(c, copy)
      /\ home' = [n \in Node |-> IF n \in copy.nodes THEN resource[c] ELSE home[n]]
      /\ strayed' = strayed \ copy.nodes
      /\ box' = [box EXCEPT ![c] = BoxOf(copy)]
      /\ mirror' = [mirror EXCEPT ![c] = m]
  BY DEF CopyAssign
<1>2. Replayable(S)
  <2>1. Replayed(d) = box[d].list
    BY DEF Replayed
  <2>2. k \in 0..Len(Replayed(d))
    BY <2>1, ListReplayable DEF Attempts
  <2> QED
    BY <2>2, ListReplayable, PartReplayable
<1> HIDE DEF S
<1>3. CopyOK(c, copy)
  BY <1>2, CopyIsABox
<1> HIDE DEF copy
<1>4. V \in SUBSET Value
  BY <1>3 DEF CopyOK, BoxOK
<1> HIDE DEF V
<1>5. MirrorOK(m, V)
  <2> DEFINE C == Contents(c)
  <2>1. C \in SUBSET Value /\ MirrorOK(mirror[c], C) /\ m = Heard(Missed(mirror[c], C), V)
    BY MirrorNow
  <2> HIDE DEF C, m
  <2>2. MirrorOK(Missed(mirror[c], C), {})
    <3>1. \A w \in Value : w.id \notin IdsOf(C) => (w \in {} <=> w \in C)
      BY <2>1, IdsTyped
    <3> QED
      BY <2>1, <3>1, MissedOK
  <2>3. MirrorOK(Heard(Missed(mirror[c], C), V), V)
    BY <1>4, <2>2, HeardOK
  <2> QED
    BY <2>1, <2>3
<1> HIDE DEF m
<1>6. resource[c] \in Resource /\ resource' = [resource EXCEPT ![c] = resource[c]]
  BY <1>1 DEF IInv, TypeOK
<1>7. /\ box' = [box EXCEPT ![c] = IF TRUE THEN BoxOf(copy) ELSE Empty]
      /\ abandoned' = IF TRUE THEN abandoned ELSE abandoned \cup copy.nodes
      /\ UNCHANGED <<handle, merging>>
      /\ MirrorOK(m, IF TRUE THEN {copy.values[n] : n \in copy.nodes} ELSE {})
  BY <1>1, <1>5 DEF V
<1> QED
  BY <1>1, <1>3, <1>6, <1>7, CopyTaken

LEMMA CopyConstructStep ==
  ASSUME IInv, NEW c \in Container, NEW d \in Container, NEW r \in Resource,
         CopyConstruct(c, d, r)
  PROVE  IInv'
<1> DEFINE S == Replayed(d)
           copy == CopyInto(S, Fresh(c))
<1>1. /\ Quiet /\ UNCHANGED <<handle, merging>> /\ Adopt(c, copy)
      /\ home' = [n \in Node |-> IF n \in copy.nodes THEN r ELSE home[n]]
      /\ strayed' = strayed \ copy.nodes
      /\ box' = [box EXCEPT ![c] = IF copy.whole THEN BoxOf(copy) ELSE Empty]
      /\ abandoned' = IF copy.whole THEN abandoned ELSE abandoned \cup copy.nodes
      /\ resource' = [resource EXCEPT ![c] = r]
      /\ mirror' = [mirror EXCEPT ![c] = Unwatched]
  BY DEF CopyConstruct
<1>2. CopyOK(c, copy)
  BY ListReplayable, CopyIsABox
<1> HIDE DEF copy
<1>3. MirrorOK(Unwatched, IF copy.whole THEN {copy.values[n] : n \in copy.nodes} ELSE {})
  BY UnwatchedOK
<1>4. copy.whole \in BOOLEAN
  BY <1>2 DEF CopyOK
<1> QED
  BY <1>1, <1>2, <1>3, <1>4, CopyTaken

-----------------------------------------------------------------------------
(* The theorems.                                                           *)

LEMMA NextIInv == IInv /\ [Next]_vars => IInv'
<1> SUFFICES ASSUME IInv, [Next]_vars PROVE IInv'
  OBVIOUS
<1>1. ASSUME NEW c \in Container,
             Subscribe(c) \/ Unsubscribe(c) \/ Clear(c) \/ InsertHandle(c)
      PROVE  IInv'
  BY <1>1, SubscribeStep, ClearStep, InsertHandleStep
<1>2. ASSUME NEW c \in Container, NEW n \in Node,
             \/ \E v \in Value : Insert(c, n, v)
             \/ \E g \in Group : Regroup(c, n, g)
             \/ Erase(c, n) \/ MoveToBack(c, n) \/ Extract(c, n)
      PROVE  IInv'
  BY <1>2, InsertStep, RegroupStep, EraseStep, MoveToBackStep, ExtractStep
<1>3. ASSUME NEW c \in Container, NEW d \in Container,
             \/ StartMerge(c, d) \/ MoveAssign(c, d) \/ MoveConstruct(c, d) \/ Swap(c, d)
             \/ \E k \in Attempts(c, d) : CopyAssign(c, d, k)
             \/ \E r \in Resource : CopyConstruct(c, d, r)
      PROVE  IInv'
  BY <1>3, StartMergeStep, CopyAssignStep, CopyConstructStep, MoveStep, SwapStep
<1>4. CASE \E v \in Value : EditHandle(v)
  BY <1>4, EditHandleStep
<1>5. CASE ResetHandle
  BY <1>5, ResetHandleStep
<1>6. CASE MergeNext
  <2>1. merging.rest # <<>>
    BY <1>6 DEF MergeNext
  <2>2. PICK c \in Container, d \in Container, n \in Node :
          c = merging.to /\ d = merging.from /\ n = Head(merging.rest)
    BY <2>1, NextNode
  <2>3. /\ MergeMoves(n, c, d) \/ MergeReturns(n, c, d) \/ MergeDrops(n, c, d)
        /\ UNCHANGED <<home, resource, handle, abandoned>>
    BY <1>6, <2>2 DEF MergeNext
  <2>4. n \in Elements(d)
    BY <2>1, <2>2, NextNode
  <2> QED
    BY <2>1, <2>2, <2>3, <2>4, MergeTakesStep, MergeReturnsStep, MergeDropsStep
<1>7. CASE EndMerge
  BY <1>7, EndMergeStep
<1>8. CASE UNCHANGED vars
  <2>1. UNCHANGED <<value, home, strayed, box, resource, handle, abandoned, mirror, merging>>
    BY <1>8 DEF vars
  <2>2. \A x \in Container : Elements(x)' = Elements(x) /\ Contents(x)' = Contents(x)
    BY <2>1 DEF Elements, Contents
  <2>3. TypeOK'
    BY <2>1 DEF IInv, TypeOK
  <2>4. Boxed' /\ Owned' /\ FreedWhereMade'
    BY <2>1, <2>2 DEF IInv, Boxed, Owned, FreedWhereMade, NoHandle, Live
  <2>5. MirrorExact'
    BY <2>1, <2>2, MirrorsStay
  <2>6. MergeOK' /\ MergeExact'
    BY <2>1, <2>2 DEF IInv, MergeOK, MergeExact, NoMerge, Elements
  <2> QED
    BY <2>3, <2>4, <2>5, <2>6 DEF IInv
<1> QED
  BY <1>1, <1>2, <1>3, <1>4, <1>5, <1>6, <1>7, <1>8 DEF Next

\* Every reachable state satisfies the inductive invariant.
THEOREM IInvHolds == Spec => []IInv
<1>1. Init => IInv
  BY InitIInv
<1>2. IInv /\ [Next]_vars => IInv'
  BY NextIInv
<1> QED
  BY <1>1, <1>2, PTL DEF Spec

LEMMA OwnedByOne ==
  ASSUME IInv
  PROVE  OneOwner
<1> SUFFICES ASSUME NEW n \in Node
             PROVE  Cardinality(Owners(n)) = IF n \in Live THEN 1 ELSE 0
  BY DEF OneOwner
<1> DEFINE O == Owners(n)
<1>0. Owned /\ "handle" \notin Container /\ "nobody" \notin Container
  BY TransferAssumption DEF IInv
<1>1. \A o : o \in O <=> \/ o \in Container /\ n \in Elements(o)
                         \/ o = "handle" /\ n = handle.node
                         \/ o = "nobody" /\ n \in abandoned
  BY DEF Owners
<1> HIDE DEF O
<1>2. CASE n \notin Live
  <2>1. \A o : o \notin O
    BY <1>0, <1>1, <1>2 DEF Owned
  <2>2. O = {}
    BY <2>1
  <2>3. Cardinality(O) = 0
    BY <2>2, FS_EmptySet
  <2> QED
    BY <1>2, <2>3 DEF O
<1>3. CASE n \in Live
  <2>1. \E o : o \in O
    BY <1>0, <1>1, <1>3 DEF Owned
  <2>2. \A o, p : o \in O /\ p \in O => o = p
    BY <1>0, <1>1 DEF Owned
  <2>3. PICK o : O = {o}
    BY <2>1, <2>2
  <2>4. Cardinality(O) = 1
    BY <2>3, FS_Singleton
  <2> QED
    BY <1>3, <2>4 DEF O
<1> QED
  BY <1>2, <1>3

LEMMA IndicesAlike ==
  ASSUME IInv
  PROVE  IndicesAgree
<1> SUFFICES ASSUME NEW c \in Container
             PROVE  /\ \A s \in {box[c].list, box[c].by_grp} :
                         IsInjective(s) /\ ToSet(s) = Elements(c)
                    /\ IsInjective(box[c].registry)
                    /\ \A i, j \in DOMAIN box[c].by_grp :
                         i < j => value[box[c].by_grp[i]].grp <= value[box[c].by_grp[j]].grp
                    /\ \A m, n \in Elements(c) : value[m].id = value[n].id => m = n
  BY DEF IndicesAgree
<1> QED
  BY DEF IInv, Boxed, BoxOK, Elements

\* Whatever is copied, moved, swapped, merged or handed over, by calls that may fail
\* halfway: every allocated node has one owner, but for the nodes of a copy construction
\* that failed, which nobody can free; and the indices of a container agree.
THEOREM NothingLostOrShared == Spec => []Intact
<1>1. IInv => Intact
  BY OwnedByOne, IndicesAlike DEF Intact, IInv
<1> QED
  BY <1>1, IInvHolds, PTL

\* A node goes back to the memory resource it was taken from, unless a merge or a handle
\* took it between containers with unequal allocators.
THEOREM NodesGoHome == Spec => []FreedWhereMade
<1>1. IInv => FreedWhereMade
  BY DEF IInv
<1> QED
  BY <1>1, IInvHolds, PTL

\* While a merge runs, between any two of its insertions, no element is lost or doubled,
\* one left behind has a rival, and those not reached are first and in their old order.
THEOREM MergesAreExact == Spec => []MergeExact
<1>1. IInv => MergeExact
  BY DEF IInv
<1> QED
  BY <1>1, IInvHolds, PTL

\* A subscriber that follows the callbacks is right about every id whose element did not
\* come or go silently since it last heard of it.
THEOREM MirrorsAreExact == Spec => []MirrorExact
<1>1. IInv => MirrorExact
  BY DEF IInv
<1> QED
  BY <1>1, IInvHolds, PTL
=============================================================================
