--------------------------- MODULE MCSequencedIndex ---------------------------
(* Instances of SequencedIndex and RandomAccessIndex small enough for TLC. *)
EXTENDS RandomAccessIndex, TLC

Symmetric == Permutations(Node)

\* All that can be read of a state: not the links left behind in unlinked nodes,
\* which push_back overwrites before they are used.
Readable ==
  LET links(l) == <<From(l.next, l.head), l.tail, From(l.prev, l.tail)>>
  IN  <<links(list), links(registry), fresh, walk, array, capacity, spot, met>>
=============================================================================
