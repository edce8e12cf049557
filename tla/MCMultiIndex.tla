---------------------------- MODULE MCMultiIndex ----------------------------
(* Instances of MultiIndex for TLC.                                        *)
EXTENDS MultiIndex, TLC

Symmetric == Permutations(Node)

\* A staff table, an element being <<id, dept, email>>: by_id ordered and unique,
\* by_dept hashed, by_email hashed and unique, and a random-access order.  A
\* non-unique index sits between the unique ones, so an unwinding has work to do.
Staff == (1..2) \X (1..2) \X (1..2)
StaffKeys == 0..2
StaffKind == <<"ordered", "hashed", "hashed", "random_access">>
StaffKeyOf == <<[v \in Staff |-> v[1]], [v \in Staff |-> v[2]], [v \in Staff |-> v[3]],
                [v \in Staff |-> 0]>>

\* An element <<id, email>> with two unique indices: by_id and by_email.
Pairs == (1..2) \X (1..2)
PairKind == <<"ordered", "ordered">>
PairKeyOf == <<[v \in Pairs |-> v[1]], [v \in Pairs |-> v[2]]>>

\* The same elements ordered by id, by email and by email again, of which only the
\* second is unique: a mutation changes one index, two, all or none.
MixedKind == <<"ordered", "ordered", "ordered">>
MixedKeyOf == <<[v \in Pairs |-> v[1]], [v \in Pairs |-> v[2]], [v \in Pairs |-> v[2]]>>
=============================================================================
