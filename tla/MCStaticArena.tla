---------------------------- MODULE MCStaticArena ----------------------------
(* Instances of StaticArena for TLC. *)
EXTENDS StaticArena, TLC

Ids == Permutations(Key)
=============================================================================
