----------------------------- MODULE LinkedList -----------------------------
(***************************************************************************)
(* The doubly linked list that runs through the nodes, as a record of the  *)
(* first and the last node and the two links of every node: the container's *)
(* registry, and intrusive_list behind a sequenced index, which unlinks    *)
(* and appends with the same assignments.                                  *)
(***************************************************************************)

CONSTANT Nil

\* The code writes through head_ and tail_ where a neighbour is missing.
SetNext(l, m, n) == IF m = Nil THEN [l EXCEPT !.head = n] ELSE [l EXCEPT !.next[m] = n]
SetPrev(l, m, n) == IF m = Nil THEN [l EXCEPT !.tail = n] ELSE [l EXCEPT !.prev[m] = n]

\* Mutant: the node after n keeps n as its predecessor.
UnlinkedForward(l, n) == SetNext(l, l.prev[n], l.next[n])

Unlinked(l, n) == SetPrev(SetNext(l, l.prev[n], l.next[n]), l.next[n], l.prev[n])

\* n between a and b, either of which may be missing.
Linked(l, a, n, b) ==
  SetPrev(SetNext([l EXCEPT !.prev[n] = a, !.next[n] = b], a, n), b, n)

PushedBack(l, n) == Linked(l, l.tail, n, Nil)

NoLinks(nodes) ==
  [ head |-> Nil, tail |-> Nil,
    prev |-> [m \in nodes |-> Nil], next |-> [m \in nodes |-> Nil] ]
=============================================================================
