----------------------------- MODULE OrderedSpec -----------------------------
(***************************************************************************)
(* What an ordered index promises its container: the elements in ascending *)
(* order of their keys, equal keys in the order in which they were added.  *)
(***************************************************************************)
EXTENDS Integers, Sequences, FiniteSets

CONSTANTS
  Node, Key,    \* the keys are integers
  Unique        \* ordered_unique or ordered_non_unique

VARIABLE seq    \* the elements from begin() to end(), with their keys

Nodes == {seq[i].node : i \in DOMAIN seq}
Keys == {seq[i].key : i \in DOMAIN seq}

Init == seq = <<>>

\* How many elements come before upper_bound(k).
UpTo(k) == Cardinality({i \in DOMAIN seq : seq[i].key <= k})

Add(n, k) ==
  /\ n \notin Nodes
  /\ Unique => k \notin Keys
  /\ seq' = SubSeq(seq, 1, UpTo(k)) \o <<[node |-> n, key |-> k]>>
              \o SubSeq(seq, UpTo(k) + 1, Len(seq))

Drop(n) ==
  \E i \in DOMAIN seq :
    seq[i].node = n /\ seq' = SubSeq(seq, 1, i - 1) \o SubSeq(seq, i + 1, Len(seq))

Clear == seq' = <<>>

Next == (\E n \in Node : Drop(n) \/ \E k \in Key : Add(n, k)) \/ Clear

Spec == Init /\ [][Next]_seq
=============================================================================
