----------------------------- MODULE ScopeStack -----------------------------
(* What a symbol table with lexical scopes promises: a stack of scopes,    *)
(* each of which knows the first declaration of every name in it.          *)
EXTENDS Naturals, Sequences

CONSTANTS Name, Type, NoType

VARIABLE stack

Nothing == [n \in Name |-> NoType]

Init == stack = <<Nothing>>

Enter == stack' = Append(stack, Nothing)

Leave == Len(stack) > 1 /\ stack' = SubSeq(stack, 1, Len(stack) - 1)

Declare(n, t) ==
  /\ stack[Len(stack)][n] = NoType
  /\ stack' = [stack EXCEPT ![Len(stack)][n] = t]

Next == Enter \/ Leave \/ \E n \in Name, t \in Type : Declare(n, t)

Spec == Init /\ [][Next]_stack

\* The type of n in the innermost scope that declares it.
Innermost(s, n) ==
  LET open == {i \in DOMAIN s : s[i][n] # NoType}
  IN  IF open = {} THEN NoType
      ELSE s[CHOOSE i \in open : \A j \in open : j <= i][n]
=============================================================================
