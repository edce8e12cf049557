---------------------------- MODULE OrderedQueries ----------------------------
(***************************************************************************)
(* What callers compute from an ordered index: range() with its bounds,    *)
(* equal_range() with a prefix of a composite key, and the two coroutines  *)
(* group_by() and equi_join().                                             *)
(*                                                                         *)
(* A coroutine is suspended in every co_yield with iterators in its frame, *)
(* and its consumer may change the container before it resumes.  The       *)
(* iterator into this index is cur; the other side of a join belongs to a  *)
(* container that is left alone.                                           *)
(***************************************************************************)
EXTENDS OrderedIndex

CONSTANTS
  Rights,      \* the key sequences that the other index of a join may have
  Component,   \* Component[k]: the components of the composite key k; keys are numbered in order
  Asked        \* the prefixes callers ask for, which have no more components than a key

ASSUME QueryAssumption ==
  /\ \A r \in Rights : r \in Seq(Int) /\ \A i, j \in DOMAIN r : i < j => r[i] <= r[j]
  /\ Component \in [Key -> Seq(Int)]
  /\ \A j, k \in Key :
       /\ Len(Component[j]) = Len(Component[k])
       /\ j < k => \E i \in DOMAIN Component[j] :
            Component[j][i] < Component[k][i] /\ \A h \in 1..(i - 1) : Component[j][h] = Component[k][h]
  /\ \A q \in Asked : q \in Seq(Int) /\ \A k \in Key : Len(q) <= Len(Component[k])

VARIABLES
  job,      \* "none", "group" (group_by), "match" or "emit" (equi_join)
  right,    \* the keys of the other index, in order
  ib,       \* the position of equi_join's iterator in it
  bgroup,   \* the positions of the elements to pair with the current key
  jb,       \* the next one of them
  out       \* group_by: the group just yielded; equi_join: the partners cur has had

queries == <<job, right, ib, bgroup, jb, out>>
qvars == <<vars, queries>>

-----------------------------------------------------------------------------
(* Ranges and prefixes.                                                    *)

Unbounded == [kind |-> "unbounded", key |-> NoKey]
LowerBounds == {Unbounded} \cup [kind : {"ge", "gt"}, key : Key]
UpperBounds == {Unbounded} \cup [kind : {"le", "lt"}, key : Key]

\* Mutant: an inclusive upper bound stops before the elements equal to it.
ResolveExclusive(b) ==
  IF b.kind \in {"ge", "lt", "le"} THEN LowerBound(tree, key, b.key)
  ELSE UpperBound(tree, key, b.key)

Resolve(b) ==
  IF b.kind \in {"ge", "lt"} THEN LowerBound(tree, key, b.key) ELSE UpperBound(tree, key, b.key)

RangeFirst(lo) == IF lo = Unbounded THEN Begin(tree) ELSE Resolve(lo)
RangeLast(hi) == IF hi = Unbounded THEN Nil ELSE Resolve(hi)

\* Mutant: a later component overrides an earlier one.
LastDecides(a, b) ==
  LET n == IF Len(a) < Len(b) THEN Len(a) ELSE Len(b)
  IN  n > 0 /\ a[n] < b[n]

\* composite_less: the first component that differs decides, over the shorter length.
CompositeLess(a, b) ==
  \E i \in DOMAIN a \cap DOMAIN b : a[i] < b[i] /\ \A j \in 1..(i - 1) : a[j] = b[j]

PrefixRange(q) ==
  << Bound(tree, {m \in Elements : ~CompositeLess(Component[key[m]], q)}),
     Bound(tree, {m \in Elements : CompositeLess(q, Component[key[m]])}) >>

-----------------------------------------------------------------------------
(* group_by                                                                *)

Idle == /\ job' = "none" /\ right' = <<>> /\ ib' = 0 /\ bgroup' = <<>> /\ jb' = 0 /\ out' = <<>>

StartQuery(j, r) ==
  /\ Walks /\ pc = "idle" /\ ~walking
  /\ walking' = TRUE /\ cur' = Begin(tree)
  /\ job' = j /\ right' = r /\ ib' = 1
  /\ UNCHANGED <<tree, key, pc, moving, old, seen, late, was, bgroup, jb, out>>

EndQuery == StopWalk /\ Idle /\ UNCHANGED <<tree, key, pc, moving, old, was>>

\* Mutant: only one of the two comparisons is made.
NotBelow(k, m) == ~(key[m] < k)

SameKey(k, m) == ~(k < key[m]) /\ ~(key[m] < k)

RunEnd(m, k) ==
  Loop([q \in Link |-> IF q # Nil /\ SameKey(k, q) THEN Step(tree, q, "r") ELSE q],
       Step(tree, m, "r"))

NextGroup ==
  /\ job = "group" /\ pc = "idle" /\ cur # Nil
  /\ cur' = RunEnd(cur, key[cur])
  /\ out' = Run(tree, cur, cur')
  /\ seen' = seen \cup ToSet(out')
  /\ UNCHANGED <<tree, key, pc, moving, old, walking, late, was, job, right, ib, bgroup, jb>>

EndGroups ==
  /\ job = "group" /\ pc = "idle" /\ cur = Nil
  /\ EndQuery

-----------------------------------------------------------------------------
(* equi_join                                                               *)

Joining == job = "match" /\ cur # Nil /\ ib <= Len(right)

Advance == cur' = Step(tree, cur, "r") /\ seen' = seen \cup {cur}

SkipLeft ==
  /\ Joining /\ key[cur] < right[ib]
  /\ Advance
  /\ UNCHANGED <<tree, key, pc, moving, old, walking, late, was, queries>>

SkipRight ==
  /\ Joining /\ right[ib] < key[cur]
  /\ ib' = ib + 1
  /\ UNCHANGED <<vars, job, right, bgroup, jb, out>>

\* Mutant: of the equal elements on the right only the first is taken.
FirstOfGroup(r, i) == <<i>>

Positions(r) == [j \in DOMAIN r |-> j]

\* The positions from i on that have the key of position i.
GroupFrom(r, i) == Only(Positions(r), {j \in DOMAIN r : j >= i /\ r[j] = r[i]})

TakeGroup ==
  /\ Joining /\ key[cur] = right[ib]
  /\ bgroup' = GroupFrom(right, ib)
  /\ ib' = ib + Len(bgroup') /\ jb' = 1
  /\ job' = "emit"
  /\ UNCHANGED <<vars, right, out>>

Yield ==
  /\ job = "emit" /\ pc = "idle" /\ jb <= Len(bgroup)
  /\ out' = Append(out, bgroup[jb]) /\ jb' = jb + 1
  /\ UNCHANGED <<vars, job, right, ib, bgroup>>

NextLeft ==
  /\ job = "emit" /\ pc = "idle" /\ jb > Len(bgroup)
  /\ Advance
  /\ jb' = 1 /\ out' = <<>>
  /\ job' = IF cur' # Nil /\ SameKey(right[bgroup[1]], cur') THEN "emit" ELSE "match"
  /\ UNCHANGED <<tree, key, pc, moving, old, walking, late, was, right, ib, bgroup>>

EndJoin ==
  /\ job = "match" /\ (cur = Nil \/ ib > Len(right))
  /\ EndQuery

-----------------------------------------------------------------------------

\* The consumer holds the value of the last co_yield, or has not resumed yet.
Suspended == job = "group" \/ (job = "emit" /\ out # <<>>)

\* It changes the container before it resumes.  If it erases or rekeys the element
\* on which the coroutine stands, the query is over.
Meanwhile ==
  /\ Suspended
  /\ Change
  /\ IF walking' THEN UNCHANGED queries ELSE Idle

QInit == Init /\ job = "none" /\ right = <<>> /\ ib = 0 /\ bgroup = <<>> /\ jb = 0 /\ out = <<>>

QNext ==
  \/ job = "none" /\ Next /\ UNCHANGED queries
  \/ StartQuery("group", <<>>) \/ NextGroup \/ EndGroups
  \/ \E r \in Rights : StartQuery("match", r)
  \/ SkipLeft \/ SkipRight \/ TakeGroup \/ Yield \/ NextLeft \/ EndJoin
  \/ Meanwhile

QSpec == QInit /\ [][QNext]_qvars

-----------------------------------------------------------------------------

Admits(b, k) ==
  \/ b = Unbounded
  \/ b.kind = "ge" /\ k >= b.key
  \/ b.kind = "gt" /\ k > b.key
  \/ b.kind = "le" /\ k <= b.key
  \/ b.kind = "lt" /\ k < b.key

Place(m) == IF m = Nil THEN Len(Order) + 1 ELSE SelectInSeq(Order, LAMBDA q : q = m)

\* range(lo, hi) is the elements that both bounds admit, in order, unless an element
\* is admitted by neither: then its first iterator lies behind its last, and a walk
\* from one to the other never ends.
RangesExact ==
  \A lo \in LowerBounds, hi \in UpperBounds :
    LET first == Place(RangeFirst(lo))
        last == Place(RangeLast(hi))
        crossed == \E m \in Elements : ~Admits(lo, key[m]) /\ ~Admits(hi, key[m])
    IN  IF crossed THEN last < first
        ELSE /\ first <= last
             /\ SubSeq(Order, first, last - 1) =
                  Only(Order, {m \in Elements : Admits(lo, key[m]) /\ Admits(hi, key[m])})

\* equal_range(prefix(...)) on a composite index is exactly the elements whose key
\* begins with the prefix: they are adjacent, and the empty prefix yields them all.
PrefixesExact ==
  \A q \in Asked :
    LET r == PrefixRange(q)
    IN  SubSeq(Order, Place(r[1]), Place(r[2]) - 1) =
          Only(Order, {m \in Elements : IsPrefix(q, Component[key[m]])})

\* Every group that group_by yields is complete and in order, whatever its consumer
\* has added, rekeyed and erased in groups yielded before.
GroupsExact ==
  [][job = "group" /\ out' \notin {<<>>, out} =>
       out' = Only(Order, {m \in Elements : key[m] = key[cur]})]_qvars

Partners(m) == Only(Positions(right), {j \in DOMAIN right : right[j] = key[m]})

PassedCompletely ==
  (job \in {"match", "emit"} /\ walking' /\ cur' # cur) => out = Partners(cur)

NoneLeft ==
  (job = "match" /\ job' = "none") => \A i \in Place(cur)..Len(Order) : Partners(Order[i]) = <<>>

\* equi_join leaves an element behind only when it has been paired with every equal
\* element of the other index, in order; at its end, none that is left has any.
JoinComplete == [][PassedCompletely /\ NoneLeft]_qvars
=============================================================================
