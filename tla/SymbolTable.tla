---------------------------- MODULE SymbolTable ----------------------------
(***************************************************************************)
(* The scoped symbol table of src/examples/symbol_table.cpp: one container *)
(* of all live declarations, ordered by name, by declaration number and by *)
(* scope.  Leaving a scope is one erase_key on the third index; a name is  *)
(* resolved by walking its range in the first.                             *)
(***************************************************************************)
EXTENDS Integers, SequencesExt

CONSTANTS
  Name, Type, NoType,
  MaxDepth, MaxDeclarations   \* bounds

VARIABLES
  symbols,   \* tab_
  depth,     \* depth_
  seq        \* seq_

scopes == <<symbols, depth, seq>>

Init == symbols = {} /\ depth = 0 /\ seq = 0

Enter ==
  /\ depth < MaxDepth
  /\ depth' = depth + 1
  /\ UNCHANGED <<symbols, seq>>

\* Mutant: the symbols of the scope stay.
LeaveKeepingSymbols ==
  /\ depth # 0
  /\ depth' = depth - 1
  /\ UNCHANGED <<symbols, seq>>

Leave ==
  /\ depth # 0
  /\ symbols' = {s \in symbols : s.scope # depth}
  /\ depth' = depth - 1
  /\ UNCHANGED seq

Declare(n, t) ==
  /\ seq < MaxDeclarations
  /\ symbols' = symbols \cup {[name |-> n, scope |-> depth, seq |-> seq, type |-> t]}
  /\ seq' = seq + 1
  /\ UNCHANGED depth

Next == Enter \/ Leave \/ \E n \in Name, t \in Type : Declare(n, t)

\* equal_range(n) of by_name: equal names in the order of their insertion.
ByName(n) == SetToSortSeq({s \in symbols : s.name = n}, LAMBDA s, t : s.seq < t.seq)

\* Mutant: a later declaration in the same scope wins.
AtLeastAsDeep(s, best) == s.scope >= best.scope

Deeper(s, best) == s.scope > best.scope

\* resolve: the walk that keeps the deepest one.
Resolved(n) ==
  FoldLeft(LAMBDA best, s : IF Deeper(s, best) THEN s ELSE best,
           [name |-> n, scope |-> -1, seq |-> -1, type |-> NoType], ByName(n)).type

-----------------------------------------------------------------------------

\* What scope number i has declared for n.
FirstIn(i, n) ==
  LET declared == SelectSeq(ByName(n), LAMBDA s : s.scope = i)
  IN  IF declared = <<>> THEN NoType ELSE declared[1].type

Stack == [i \in 1 .. (depth + 1) |-> [n \in Name |-> FirstIn(i - 1, n)]]

Scopes == INSTANCE ScopeStack WITH stack <- Stack

\* resolve() finds the declaration that the stack of scopes would.
ResolvesToInnermost == \A n \in Name : Resolved(n) = Scopes!Innermost(Stack, n)
=============================================================================
