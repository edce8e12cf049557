---------------------------- MODULE NodeTransfer ----------------------------
(***************************************************************************)
(* Several containers side by side: copying, moving, swapping and merging  *)
(* them, and handing nodes from one to another.                            *)
(*                                                                         *)
(* Every container has three indices: by_id (ordered, unique), by_grp      *)
(* (ordered, non-unique: equal groups in the order in which the nodes were *)
(* linked) and a sequenced one, which callers rearrange.  Its nodes come   *)
(* from its memory resource and have to go back there, wherever they have  *)
(* been meanwhile; no call compares two allocators.  A subscriber keeps a  *)
(* mirror of a container from what the callbacks tell it, and any callback *)
(* may throw.                                                              *)
(***************************************************************************)
EXTENDS Integers, SequencesExt

CONSTANTS
  Node,         \* nodes that can be allocated at one time, from all resources
  Container,
  Id, Group,    \* an element is a record of the two
  Resource,     \* memory resources
  NoNode, NoValue

ASSUME TransferAssumption ==
  /\ IsFiniteSet(Node) /\ NoNode \notin Node
  /\ NoValue \notin [id : Id, grp : Group] /\ Group \subseteq Int
  /\ {"handle", "nobody"} \cap Container = {}    \* owners that are no containers

Value == [id : Id, grp : Group]

VARIABLES
  value,      \* node -> its value, NoValue when it is not allocated
  home,       \* node -> the resource it was allocated from
  strayed,    \* nodes taken between unequal allocators since they were allocated
  box,        \* container -> registry, list and by_grp, as sequences of nodes
  resource,   \* container -> the resource of its allocator
  handle,     \* the node a node_handle owns and the resource of its allocator
  abandoned,  \* nodes nobody can free any more
  mirror,     \* container -> what its subscriber believes, or Unwatched
  merging     \* the merge under way

vars == <<value, home, strayed, box, resource, handle, abandoned, mirror, merging>>

Live == {n \in Node : value[n] # NoValue}
Elements(c) == ToSet(box[c].registry)
NoHandle == handle.node = NoNode
NoMerge == [rest |-> <<>>, from |-> NoNode, to |-> NoNode, all |-> {}]
Quiet == merging = NoMerge

Empty == [registry |-> <<>>, list |-> <<>>, by_grp |-> <<>>]

-----------------------------------------------------------------------------
(* Linking a node into a container and taking it out again.                *)

\* No element of box b has the id of node n.
Fits(b, vs, n) == \A m \in ToSet(b.registry) : vs[m].id # vs[n].id

\* In front of position i, at the end when there is none.
InFrontOf(s, i) == IF i = 0 THEN Len(s) + 1 ELSE i

\* Where n goes in by_grp: after its equals.
PlaceInGroup(b, vs, n) ==
  InFrontOf(b.by_grp, SelectInSeq(b.by_grp, LAMBDA m : vs[m].grp > vs[n].grp))

LinkedIn(b, vs, n) ==
  [ registry |-> Append(b.registry, n), list |-> Append(b.list, n),
    by_grp |-> InsertAt(b.by_grp, PlaceInGroup(b, vs, n), n) ]

\* Mutant: the registry keeps the node.
KeptOnRegistry(b, n) ==
  [b EXCEPT !.list = RemoveFirst(@, n), !.by_grp = RemoveFirst(@, n)]

Without(b, n) ==
  [ registry |-> RemoveFirst(b.registry, n), list |-> RemoveFirst(b.list, n),
    by_grp |-> RemoveFirst(b.by_grp, n) ]

Freed(vs, S) == [n \in Node |-> IF n \in S THEN NoValue ELSE vs[n]]

-----------------------------------------------------------------------------
(* Subscribers.                                                            *)

\* What a subscriber believes the elements are, and of which ids the container has
\* told it nothing since their element came or went.
Unwatched == [watching |-> FALSE, believes |-> {}, untold |-> {}]
Knows(S) == [watching |-> TRUE, believes |-> S, untold |-> {}]

Watching(c) == mirror[c].watching
Contents(c) == {value[n] : n \in Elements(c)}
IdsOf(V) == {v.id : v \in V}

\* The beliefs of a mirror that are not about the ids of V.
Others(mir, V) == {w \in mir.believes : w.id \notin IdsOf(V)}

\* Mutant: on_insert and on_modify are not fired.
Unheard(mir, V) == mir

\* What a subscriber makes of on_insert and on_modify, fired for each value of V.
Heard(mir, V) ==
  IF mir.watching THEN [mir EXCEPT !.believes = Others(mir, V) \cup V, !.untold = @ \ IdsOf(V)]
  ELSE mir

\* What it makes of on_erase.
HeardErase(mir, v) ==
  IF mir.watching THEN [mir EXCEPT !.believes = Others(mir, {v}), !.untold = @ \ {v.id}] ELSE mir

\* The values V come or go, and nobody is called.
Missed(mir, V) == IF mir.watching THEN [mir EXCEPT !.untold = @ \cup IdsOf(V)] ELSE mir

Subscribe(c) ==
  /\ Quiet /\ ~Watching(c)
  /\ mirror' = [mirror EXCEPT ![c] = Knows(Contents(c))]
  /\ UNCHANGED <<value, home, strayed, box, resource, handle, abandoned, merging>>

\* The token is dropped.
Unsubscribe(c) ==
  /\ Quiet /\ Watching(c)
  /\ mirror' = [mirror EXCEPT ![c] = Unwatched]
  /\ UNCHANGED <<value, home, strayed, box, resource, handle, abandoned, merging>>

-----------------------------------------------------------------------------
(* One element, one container.                                             *)

Insert(c, n, v) ==
  /\ Quiet /\ n \notin Live
  /\ \A m \in Elements(c) : value[m].id # v.id
  /\ value' = [value EXCEPT ![n] = v]
  /\ home' = [home EXCEPT ![n] = resource[c]]
  /\ box' = [box EXCEPT ![c] = LinkedIn(@, value', n)]
  /\ strayed' = strayed \ {n}
  /\ mirror' = [mirror EXCEPT ![c] = Heard(@, {v})]
  /\ UNCHANGED <<resource, handle, abandoned, merging>>

Erase(c, n) ==
  /\ Quiet /\ n \in Elements(c)
  /\ value' = Freed(value, {n})
  /\ box' = [box EXCEPT ![c] = Without(@, n)]
  /\ mirror' = [mirror EXCEPT ![c] = HeardErase(@, value[n])]
  /\ UNCHANGED <<home, strayed, resource, handle, abandoned, merging>>

\* modify: the node keeps its places but in by_grp.
Regroup(c, n, g) ==
  /\ Quiet /\ n \in Elements(c) /\ value[n].grp # g
  /\ value' = [value EXCEPT ![n].grp = g]
  /\ box' = [box EXCEPT ![c].by_grp = LinkedIn(Without(box[c], n), value', n).by_grp]
  /\ mirror' = [mirror EXCEPT ![c] = Heard(@, {value'[n]})]
  /\ UNCHANGED <<home, strayed, resource, handle, abandoned, merging>>

\* relocate(end(), n); no callback, and nothing a mirror could see.
MoveToBack(c, n) ==
  /\ Quiet /\ n \in Elements(c)
  /\ box' = [box EXCEPT ![c].list = Append(RemoveFirst(@, n), n)]
  /\ UNCHANGED <<value, home, strayed, resource, handle, abandoned, mirror, merging>>

Clear(c) ==
  /\ Quiet /\ Elements(c) # {}
  /\ value' = Freed(value, Elements(c))
  /\ box' = [box EXCEPT ![c] = Empty]
  /\ mirror' = [mirror EXCEPT ![c] = Missed(@, Contents(c))]
  /\ UNCHANGED <<home, strayed, resource, handle, abandoned, merging>>

-----------------------------------------------------------------------------
(* Node handles.                                                           *)

Extract(c, n) ==
  /\ Quiet /\ NoHandle /\ n \in Elements(c)
  /\ handle' = [node |-> n, resource |-> resource[c]]
  /\ box' = [box EXCEPT ![c] = Without(@, n)]
  /\ mirror' = [mirror EXCEPT ![c] = Missed(@, {value[n]})]
  /\ UNCHANGED <<value, home, strayed, resource, abandoned, merging>>

EditHandle(v) ==
  /\ Quiet /\ ~NoHandle
  /\ value' = [value EXCEPT ![handle.node] = v]
  /\ UNCHANGED <<home, strayed, box, resource, handle, abandoned, mirror, merging>>

\* Node n goes from an owner with resource r to one with resource q, and nobody looks
\* whether they are the same: it goes astray, or comes home.
Crosses(n, r, q) ==
  strayed' = IF r = q THEN strayed ELSE IF home[n] = q THEN strayed \ {n} ELSE strayed \cup {n}

\* insert(node_handle&&).  A refused node stays with its handle.
InsertHandle(c) ==
  /\ Quiet /\ ~NoHandle
  /\ Fits(box[c], value, handle.node)
  /\ handle' = [handle EXCEPT !.node = NoNode]
  /\ box' = [box EXCEPT ![c] = LinkedIn(@, value, handle.node)]
  /\ Crosses(handle.node, handle.resource, resource[c])
  /\ mirror' = [mirror EXCEPT ![c] = Heard(@, {value[handle.node]})]
  /\ UNCHANGED <<value, home, resource, abandoned, merging>>

\* The handle frees its node with its own allocator, whatever became of the container.
ResetHandle ==
  /\ Quiet /\ ~NoHandle
  /\ value' = Freed(value, {handle.node})
  /\ handle' = [handle EXCEPT !.node = NoNode]
  /\ UNCHANGED <<home, strayed, box, resource, abandoned, mirror, merging>>

-----------------------------------------------------------------------------
(* merge: the nodes that were on the other registry at the start, one by   *)
(* one.  Observers run after every insertion, and one may throw; so may    *)
(* the comparator of by_id, while the node is in neither container.        *)

Snapshot(d) == box[d].registry

StartMerge(c, d) ==
  /\ Quiet /\ c # d /\ box[d].registry # <<>>
  /\ merging' = [ rest |-> Snapshot(d), from |-> d, to |-> c,
                  all |-> Elements(c) \cup Elements(d) ]
  /\ UNCHANGED <<value, home, strayed, box, resource, handle, abandoned, mirror>>

\* Mutant: a node that is refused is not returned.
KeptOut(b, vs, n) == Without(b, n)

\* The box d after a refused n was taken out and inserted again.
Returned(b, vs, n) == LinkedIn(Without(b, n), vs, n)

\* A subscriber of the container that has just taken the node may throw out of
\* on_insert; the rest then stays where it is.
GoOn(heard) ==
  \/ merging' = [merging EXCEPT !.rest = Tail(@)]
  \/ Watching(heard) /\ merging' = NoMerge

MergeMoves(n, c, d) ==
  /\ Fits(box[c], value, n)
  /\ box' = [box EXCEPT ![d] = Without(@, n), ![c] = LinkedIn(@, value, n)]
  /\ mirror' = [mirror EXCEPT ![d] = Missed(@, {value[n]}), ![c] = Heard(@, {value[n]})]
  /\ Crosses(n, resource[d], resource[c])
  /\ GoOn(c)
  /\ UNCHANGED value

MergeReturns(n, c, d) ==
  /\ ~Fits(box[c], value, n)
  /\ box' = [box EXCEPT ![d] = Returned(@, value, n)]
  /\ mirror' = [mirror EXCEPT ![d] = Heard(Missed(@, {value[n]}), {value[n]})]
  /\ GoOn(d)
  /\ UNCHANGED <<value, strayed>>

\* A comparison by id throws, in c or, when the node is put back, in d: the node_handle
\* on the stack frees the node with d's allocator.
MergeDrops(n, c, d) ==
  /\ Elements(c) # {}
  /\ value' = Freed(value, {n})
  /\ box' = [box EXCEPT ![d] = Without(@, n)]
  /\ mirror' = [mirror EXCEPT ![d] = Missed(@, {value[n]})]
  /\ merging' = NoMerge
  /\ UNCHANGED strayed

MergeNext ==
  /\ merging.rest # <<>>
  /\ LET n == Head(merging.rest)
         c == merging.to
         d == merging.from
     IN  MergeMoves(n, c, d) \/ MergeReturns(n, c, d) \/ MergeDrops(n, c, d)
  /\ UNCHANGED <<home, resource, handle, abandoned>>

EndMerge ==
  /\ merging.all # {} /\ merging.rest = <<>>
  /\ merging' = NoMerge
  /\ UNCHANGED <<value, home, strayed, box, resource, handle, abandoned, mirror>>

-----------------------------------------------------------------------------
(* Copying: the sequenced index of the source is replayed.                 *)

\* Mutant: the registry is replayed.
ReplayedRegistry(d) == box[d].registry

Replayed(d) == box[d].list

\* The nodes that receive the values of S, as far as fresh ones last, and their values.
CopyInto(S, fresh) ==
  LET k == IF Len(S) < Len(fresh) THEN Len(S) ELSE Len(fresh)
      ns == SubSeq(fresh, 1, k)
  IN  [ order |-> ns, nodes |-> ToSet(ns), whole |-> k = Len(S),
        values |-> [n \in Node |-> IF n \in ToSet(ns)
                                   THEN value[S[SelectInSeq(ns, LAMBDA m : m = n)]] ELSE NoValue] ]

\* They are linked one by one into an empty container.
BoxOf(copy) ==
  LET built[i \in 0 .. Len(copy.order)] ==
        IF i = 0 THEN Empty ELSE LinkedIn(built[i - 1], copy.values, copy.order[i])
  IN  built[Len(copy.order)]

\* The nodes that can be allocated once c has given its own back, in some order.
Fresh(c) == SetToSeq((Node \ Live) \cup Elements(c))

Adopt(c, copy) ==
  LET left == Freed(value, Elements(c))
  IN  value' = [n \in Node |-> IF n \in copy.nodes THEN copy.values[n] ELSE left[n]]

\* How many elements of d an assignment to c may insert, were there nodes enough:
\* c's subscriber may throw after each.
Attempts(c, d) ==
  {Len(box[d].list)} \cup (IF Watching(c) THEN 1 .. Len(box[d].list) ELSE {})

\* c = d: clear, which calls nobody, then insert one by one, which calls c's
\* subscriber every time.  An allocation that fails leaves a part as well.
CopyAssign(c, d, k) ==
  /\ Quiet /\ c # d
  /\ k \in Attempts(c, d)
  /\ UNCHANGED <<resource, handle, abandoned, merging>>
  /\ LET copy == CopyInto(SubSeq(Replayed(d), 1, k), Fresh(c))
     IN  /\ Adopt(c, copy)
         /\ home' = [n \in Node |-> IF n \in copy.nodes THEN resource[c] ELSE home[n]]
         /\ strayed' = strayed \ copy.nodes
         /\ box' = [box EXCEPT ![c] = BoxOf(copy)]
         /\ mirror' = [mirror EXCEPT ![c] = Heard(Missed(@, Contents(c)),
                                                {copy.values[n] : n \in copy.nodes})]

\* c is destroyed and constructed as a copy of d, with a resource of its own.  When an
\* allocation fails, no destructor runs for the half-built container: its nodes are
\* abandoned, and the model puts an empty one in its place.
CopyConstruct(c, d, r) ==
  /\ Quiet /\ c # d
  /\ resource' = [resource EXCEPT ![c] = r]
  /\ mirror' = [mirror EXCEPT ![c] = Unwatched]
  /\ UNCHANGED <<handle, merging>>
  /\ LET copy == CopyInto(Replayed(d), Fresh(c))
     IN  /\ Adopt(c, copy)
         /\ home' = [n \in Node |-> IF n \in copy.nodes THEN r ELSE home[n]]
         /\ strayed' = strayed \ copy.nodes
         /\ box' = [box EXCEPT ![c] = IF copy.whole THEN BoxOf(copy) ELSE Empty]
         /\ abandoned' = IF copy.whole THEN abandoned ELSE abandoned \cup copy.nodes

-----------------------------------------------------------------------------
(* Moving and swapping: whole cores and registries change hands, with the  *)
(* allocators, but the list of subscribers does not.                       *)

\* Mutant: every container keeps its allocator.
KeepingResources(f) == resource

\* The resources after container c has taken over the allocator of f[c].
Allocators(f) == [c \in Container |-> resource[f[c]]]

TakeOver(c, d) ==
  /\ value' = Freed(value, Elements(c))
  /\ box' = [box EXCEPT ![c] = box[d], ![d] = Empty]
  /\ resource' = Allocators([x \in Container |-> IF x = c THEN d ELSE x])

MoveAssign(c, d) ==
  /\ Quiet /\ c # d
  /\ TakeOver(c, d)
  /\ mirror' = [mirror EXCEPT ![c] = Missed(@, Contents(c) \cup Contents(d)),
                              ![d] = Missed(@, Contents(d))]
  /\ UNCHANGED <<home, strayed, handle, abandoned, merging>>

\* c is destroyed, with its subscribers, and constructed from d.
MoveConstruct(c, d) ==
  /\ Quiet /\ c # d
  /\ TakeOver(c, d)
  /\ mirror' = [mirror EXCEPT ![c] = Unwatched, ![d] = Missed(@, Contents(d))]
  /\ UNCHANGED <<home, strayed, handle, abandoned, merging>>

Swap(c, d) ==
  /\ Quiet /\ c # d
  /\ box' = [box EXCEPT ![c] = box[d], ![d] = box[c]]
  /\ resource' = Allocators([x \in Container |-> IF x = c THEN d ELSE IF x = d THEN c ELSE x])
  /\ mirror' = [x \in Container |->
                  IF x \in {c, d} THEN Missed(mirror[x], Contents(c) \cup Contents(d))
                  ELSE mirror[x]]
  /\ UNCHANGED <<value, home, strayed, handle, abandoned, merging>>

-----------------------------------------------------------------------------

Init ==
  /\ value = [n \in Node |-> NoValue]
  /\ resource \in [Container -> Resource]
  /\ \E r \in Resource : home = [n \in Node |-> r] /\ handle = [node |-> NoNode, resource |-> r]
  /\ box = [c \in Container |-> Empty]
  /\ strayed = {} /\ abandoned = {}
  /\ mirror = [c \in Container |-> Unwatched]
  /\ merging = NoMerge

Next ==
  \/ \E c \in Container :
       \/ Subscribe(c) \/ Unsubscribe(c) \/ Clear(c) \/ InsertHandle(c)
       \/ \E n \in Node :
            \/ \E v \in Value : Insert(c, n, v)
            \/ \E g \in Group : Regroup(c, n, g)
            \/ Erase(c, n) \/ MoveToBack(c, n) \/ Extract(c, n)
       \/ \E d \in Container :
            \/ StartMerge(c, d) \/ MoveAssign(c, d) \/ MoveConstruct(c, d) \/ Swap(c, d)
            \/ \E k \in Attempts(c, d) : CopyAssign(c, d, k)
            \/ \E r \in Resource : CopyConstruct(c, d, r)
  \/ \E v \in Value : EditHandle(v)
  \/ ResetHandle \/ MergeNext \/ EndMerge

Spec == Init /\ [][Next]_vars

-----------------------------------------------------------------------------

TypeOK ==
  /\ value \in [Node -> Value \cup {NoValue}] /\ home \in [Node -> Resource]
  /\ box \in [Container -> [registry : Seq(Node), list : Seq(Node), by_grp : Seq(Node)]]
  /\ resource \in [Container -> Resource]
  /\ handle \in [node : Node \cup {NoNode}, resource : Resource]
  /\ abandoned \subseteq Node /\ strayed \subseteq Node
  /\ mirror \in [Container -> [watching : BOOLEAN, believes : SUBSET Value, untold : SUBSET Id]]
  /\ merging \in [ rest : Seq(Node), all : SUBSET Node,
                   from : Container \cup {NoNode}, to : Container \cup {NoNode} ]

Owners(n) ==
  {c \in Container : n \in Elements(c)}
    \cup (IF n = handle.node THEN {"handle"} ELSE {})
    \cup (IF n \in abandoned THEN {"nobody"} ELSE {})

\* Through copies, moves, swaps and merges every allocated node has exactly one owner,
\* and no container or handle owns a freed one; only the nodes of a copy construction
\* that failed are left without an owner.
OneOwner == \A n \in Node : Cardinality(Owners(n)) = IF n \in Live THEN 1 ELSE 0

\* In every container the three indices have the same elements once each, by_grp is
\* in order, and no id occurs twice, also between two nodes of a merge.
IndicesAgree ==
  \A c \in Container :
    /\ \A s \in {box[c].list, box[c].by_grp} :
         IsInjective(s) /\ ToSet(s) = Elements(c)
    /\ IsInjective(box[c].registry)
    /\ \A i, j \in DOMAIN box[c].by_grp :
         i < j => value[box[c].by_grp[i]].grp <= value[box[c].by_grp[j]].grp
    /\ \A m, n \in Elements(c) : value[m].id = value[n].id => m = n

\* Whatever was copied, moved, swapped, merged or handed over, by calls that may fail
\* halfway, no node is lost, shared or freed in use, and no index misses one.
Intact == TypeOK /\ OneOwner /\ IndicesAgree

\* Whatever was copied, moved, swapped, extracted or dropped, the allocator that will
\* free a node is one that uses the resource it came from; only a merge and a handle
\* between unequal allocators lead a node astray.
FreedWhereMade ==
  /\ \A c \in Container : \A n \in Elements(c) \ strayed : home[n] = resource[c]
  /\ ~NoHandle /\ handle.node \notin strayed => home[handle.node] = handle.resource

\* While a merge runs no element is lost or doubled, what it has passed and left behind
\* has a rival of the same id in the other container, and what it has not reached yet
\* is still first on the registry, in its old order.
MergeExact ==
  merging # NoMerge =>
    LET from == box[merging.from].registry
        into == Elements(merging.to)
    IN  /\ ToSet(from) \cup into = merging.all
        /\ IsPrefix(merging.rest, from)
        /\ \A n \in ToSet(from) \ ToSet(merging.rest) :
             \E m \in into : value[m].id = value[n].id

ValuesOf(S) == [i \in DOMAIN S |-> value[S[i]]]

\* The values of S by group, equal ones in the order of S.
ByGroup(S) ==
  LET groups == SetToSortSeq(Group, LAMBDA g, h : g < h)
  IN  FlattenSeq([i \in DOMAIN groups |-> SelectSeq(S, LAMBDA v : v.grp = groups[i])])

\* c is an exact copy of the old d as far as it goes: the same values in the order of
\* the sequenced index.  Equal groups come out in that order too, not in d's.
Reproduces(c, d) ==
  LET copied == ValuesOf(box[c].list)'
  IN  /\ IsPrefix(copied, ValuesOf(box[d].list))
      /\ ValuesOf(box[c].by_grp)' = ByGroup(copied)

\* A copy has the values of the original in the order of its sequenced index.
CopyExact ==
  [][\A c, d \in Container :
       \/ \E k \in Attempts(c, d) : CopyAssign(c, d, k)
       \/ \E r \in Resource : CopyConstruct(c, d, r)
       => Reproduces(c, d)]_<<value, box>>

\* A subscriber that follows the callbacks is right about every id except those whose
\* element came or went silently since it last heard of them (clear, extract, being
\* merged from, move, swap, the clearing before an assignment), also when one of its
\* callbacks cut the call short.
MirrorExact ==
  \A c \in Container : Watching(c) =>
    \A v \in Value : v.id \notin mirror[c].untold =>
      (v \in mirror[c].believes <=> v \in Contents(c))
=============================================================================
