---------------------------- MODULE MCOrderedIndex ----------------------------
(* Instances of OrderedIndex and OrderedQueries small enough for TLC. *)
EXTENDS OrderedQueries, TLC

Symmetric == IF Walks THEN Permutations(Node) ELSE {}

\* Every element may have every key.
Each == [m \in Node |-> Key]

\* The nodes are integers, each with a key of its own: all trees on the keys.
Own == [m \in Node |-> {m}]

\* Other sides of a join: one with a key below and duplicates of the largest key, one
\* with duplicates of the smallest and a key above.
OtherSides == {<<0, 2, 2>>, <<1, 1, 3>>}

\* A composite key of two components, three departments with four people each.
DeptAndPerson == [k \in Key |-> <<(k - 1) \div 4, (k - 1) % 4>>]
DeptPrefixes == {<<>>} \cup {<<d>> : d \in 0..3} \cup {<<1, e>> : e \in 0..4}

NoComponents == [k \in Key |-> <<k>>]

\* All that can be read of a state: not the links left behind in unlinked nodes,
\* which try_add initialises before it uses them.
Readable ==
  LET in == ToSet(Order)
      of(f) == [m \in in |-> f[m]]
  IN  << tree.root, tree.n, of(tree.kid["l"]), of(tree.kid["r"]), of(tree.up),
         of(tree.size), of(tree.height), key, pc, moving, old, walk, was, queries >>
=============================================================================
