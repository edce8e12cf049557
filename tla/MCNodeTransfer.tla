---------------------------- MODULE MCNodeTransfer ----------------------------
(* Instances of NodeTransfer small enough for TLC. *)
EXTENDS NodeTransfer, TLC

Symmetric ==
  Permutations(Node) \cup Permutations(Container) \cup Permutations(Resource) \cup Permutations(Id)

\* All that can be read of a state: not the values of abandoned nodes, where a freed
\* one came from, the allocator of an empty handle, or what a subscriber believes of
\* an element it was not told about.
Readable ==
  << [n \in Live \ abandoned |-> <<value[n], home[n], n \in strayed>>], box, resource, abandoned,
     [c \in Container |-> [mirror[c] EXCEPT !.believes = {v \in @ : v.id \notin mirror[c].untold}]],
     merging, IF NoHandle THEN <<>> ELSE <<handle>> >>

\* One container is watched at a time: what one subscriber believes and whether it
\* throws has no bearing on another.
OneSubscriber == Cardinality({c \in Container : Watching(c)}) <= 1
=============================================================================
