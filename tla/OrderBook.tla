----------------------------- MODULE OrderBook -----------------------------
(***************************************************************************)
(* The order book of src/examples/order_book.cpp: resting bids in a        *)
(* container with an index by id (hashed, unique) and one by (price, ts)   *)
(* (ordered, not unique), which best_bid() queries.                        *)
(***************************************************************************)
EXTENDS Integers, SequencesExt

CONSTANTS OrderId, MaxPrice, MaxStamp, MaxQty

VARIABLE book    \* by_px_time: the orders in the order of that index

Order == [id : OrderId, price : 1..MaxPrice, ts : 0..MaxStamp, qty : 1..MaxQty]
Resting == {o.id : o \in ToSet(book)}

\* composite_less on (price, ts)
Before(a, b) == a.price < b.price \/ (a.price = b.price /\ a.ts < b.ts)

Init == book = <<>>

\* Mutant: a new order goes in front of its equals.
BeforeEquals(o) == Len(SelectSeq(book, LAMBDA p : Before(p, o))) + 1

\* An ordered non-unique index puts a new element behind its equals.
PlaceOf(o) == Len(SelectSeq(book, LAMBDA p : ~Before(o, p))) + 1

\* insert(); a second order with an id is rejected by by_id.
Rest(o) == o.id \notin Resting /\ book' = InsertAt(book, PlaceOf(o), o)

\* erase_key() or find() and erase().
Cancel(id) == id \in Resting /\ book' = SelectSeq(book, LAMBDA o : o.id # id)

\* A fill of n: the whole order goes, or its quantity is modified in place.
Fill(id, n) ==
  \E i \in DOMAIN book :
    /\ book[i].id = id
    /\ book' = IF book[i].qty <= n THEN RemoveAt(book, i)
               ELSE [book EXCEPT ![i].qty = @ - n]

Next ==
  \/ \E o \in Order : Rest(o)
  \/ \E id \in OrderId : Cancel(id) \/ \E n \in 1..MaxQty : Fill(id, n)

\* lower_bound((top, 0)): the first order that is not before it.
FirstOfLevel(top) == SelectInSeq(book, LAMBDA o : ~Before(o, [price |-> top, ts |-> 0]))

best_bid == book[FirstOfLevel(book[Len(book)].price)]

-----------------------------------------------------------------------------

\* o is ahead of p: a higher price, or the same and an earlier stamp.
Ahead(o, p) == o.price > p.price \/ (o.price = p.price /\ o.ts < p.ts)

\* No order is ahead of the best bid, and as long as it rests only one that is replaces it.
NoQueueJumping ==
  /\ \A o \in ToSet(book) : ~Ahead(o, best_bid)
  /\ (book # <<>> /\ book' # <<>> /\ best_bid.id \in Resting' /\ best_bid'.id # best_bid.id)
       => Ahead(best_bid', best_bid)
=============================================================================
