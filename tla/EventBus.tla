------------------------------ MODULE EventBus ------------------------------
(***************************************************************************)
(* The event bus of src/examples/observer_registry.cpp: subscribers in a   *)
(* container with an index by id and a sequenced one.  publish() walks the *)
(* sequenced index and calls each subscriber, and a callback may subscribe *)
(* others and unsubscribe any but the one that is running.                 *)
(***************************************************************************)
EXTENDS Integers, SequencesExt

CONSTANT MaxId     \* bound: subscriptions ever made

VARIABLES
  order,     \* by_order: the ids of the subscribers
  next_id,   \* next_id_
  current,   \* the subscriber whose callback runs in publish(), 0 outside of it
  called     \* those this publish(), or the last one, has called

bus == <<order, next_id, current, called>>

Init == order = <<>> /\ next_id = 1 /\ current = 0 /\ called = <<>>

Subscribe ==
  /\ next_id <= MaxId
  /\ order' = Append(order, next_id) /\ next_id' = next_id + 1
  /\ UNCHANGED <<current, called>>

Unsubscribe(id) ==
  /\ id \in ToSet(order) \ {current}
  /\ order' = Remove(order, id)
  /\ UNCHANGED <<next_id, current, called>>

StartPublish ==
  /\ current = 0
  /\ current' = IF order = <<>> THEN 0 ELSE order[1]
  /\ called' = SubSeq(order, 1, IF order = <<>> THEN 0 ELSE 1)
  /\ UNCHANGED <<order, next_id>>

\* Mutant: the walk counts positions.
FollowingByPosition ==
  IF Len(called) < Len(order) THEN order[Len(called) + 1] ELSE 0

\* ++ on the iterator, after the callback: its node's link as it is then.
Following ==
  LET at == SelectInSeq(order, LAMBDA id : id = current)
  IN  IF at < Len(order) THEN order[at + 1] ELSE 0

CallNext ==
  /\ current # 0
  /\ current' = Following
  /\ called' = IF current' = 0 THEN called ELSE Append(called, current')
  /\ UNCHANGED <<order, next_id>>

Next ==
  \/ Subscribe \/ StartPublish \/ CallNext
  \/ \E id \in 1 .. MaxId : Unsubscribe(id)

-----------------------------------------------------------------------------

\* A publish() that ends has called everyone who is subscribed then, and it has called
\* in the order of registration, nobody twice.
PublishReachesAll ==
  (current # 0 /\ current' = 0) =>
    /\ ToSet(order) \subseteq ToSet(called)
    /\ \A i, j \in DOMAIN called : i < j => called[i] < called[j]
=============================================================================
