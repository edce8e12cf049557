----------------------------- MODULE MCHashIndex -----------------------------
(* Instances of HashIndex small enough for TLC. *)
EXTENDS HashIndex, TLC

Symmetric == Permutations(Node)

\* Keys a and b have the same hash; c shares their bucket while the table has
\* one or two buckets and leaves it when the table grows to four.
Colliding == [k \in Key |-> IF k = "c" THEN 3 ELSE 1]
=============================================================================
