---------------------------- MODULE SequenceSpec ----------------------------
(***************************************************************************)
(* What a sequenced index promises: a sequence of distinct elements that   *)
(* only its own operations reorder.                                        *)
(***************************************************************************)
EXTENDS Integers, SequencesExt

CONSTANT Node
VARIABLE seq

Init == seq = <<>>

PushBack(n) == n \notin ToSet(seq) /\ seq' = Append(seq, n)

Erase(n) == n \in ToSet(seq) /\ seq' = RemoveFirst(seq, n)

\* n goes just before b.
Relocate(b, n) ==
  /\ {b, n} \subseteq ToSet(seq) /\ n # b
  /\ LET rest == RemoveFirst(seq, n)
     IN  seq' = InsertAt(rest, SelectInSeq(rest, LAMBDA m : m = b), n)

MoveToBack(n) == n \in ToSet(seq) /\ seq' = Append(RemoveFirst(seq, n), n)

ReverseAll == seq' = Reverse(seq)

Clear == seq' = <<>>

Next ==
  \/ \E n \in Node : PushBack(n) \/ Erase(n) \/ MoveToBack(n)
  \/ \E n \in Node : \E b \in Node : Relocate(b, n)
  \/ ReverseAll \/ Clear

Spec == Init /\ [][Next]_seq
=============================================================================
