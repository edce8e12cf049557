------------------------------ MODULE LruCache ------------------------------
(***************************************************************************)
(* The LRU cache of src/examples/lru_cache.cpp: a container with two       *)
(* indices over [key, val], `by_recency' (sequenced, the most recently     *)
(* used element in front) and `by_key' (hashed, unique), whose user        *)
(* splices an element to the front at every use and erases from the back   *)
(* when size() exceeds the capacity.                                       *)
(*                                                                         *)
(* Both indices link the same nodes at all times: recency is the order of  *)
(* the one, its members are the content of the other.  What is not the     *)
(* same at all times is the number the cache counts with: an insertion     *)
(* whose bucket array cannot grow leaves its node linked in both indices,  *)
(* at the back of the recency list, and outside of size_.                  *)
(***************************************************************************)
EXTENDS Integers, FiniteSets, Sequences, SequencesExt

CONSTANTS
  Key, Val,
  Node,            \* the addresses the allocator hands out
  NoNode,          \* nullptr
  Cap,             \* cap_
  InitialBuckets,  \* of the hashed index
  MaxFailures      \* bound: insertions that end in std::bad_alloc

ASSUME LruAssumption ==
  /\ NoNode \notin Node
  /\ Cap \in Nat \ {0}      \* asserted by the constructor
  /\ InitialBuckets \in Nat \ {0} /\ MaxFailures \in Nat

VARIABLES
  recency,  \* the nodes of by_recency, the most recently used one first
  entry,    \* the [key, val] of each node
  size,     \* store_.size()
  buckets,  \* the size of the hashed index' bucket array
  held,     \* a pointer returned by get() that the caller kept, or NoNode
  heldFor,  \* the key it asked for
  failures, \* ghost: insertions that threw
  uses,     \* ghost: every key ever put, the most recently used one first
  latest,   \* ghost: the last value given to each key
  others    \* ghost: the other keys used since held was returned

store == <<recency, entry, size, buckets>>
caller == <<held, heldFor>>
history == <<uses, latest, others>>
vars == <<store, caller, failures, history>>

Entries == [key : Key, val : Val]
Freed == [key |-> NoNode, val |-> NoNode]

-----------------------------------------------------------------------------
\* by_key.find(k), which contains(k) compares with end()
Holding(k) == {n \in ToSet(recency) : entry[n].key = k}
Cached(k) == Holding(k) # {}

\* Mutant: a use leaves the element where it is.
Untouched(s, n) == s

\* relocate(begin(), it)
Promoted(s, n) == Cons(n, RemoveFirst(s, n))

\* Mutant: the most recently used elements go.
EvictFromFront(s, n) == SubSeq(s, n + 1, Len(s))

\* The loop of put: erase the back n times.
Evict(s, n) == SubSeq(s, 1, Len(s) - n)

Excess(n) == IF n > Cap THEN n - Cap ELSE 0

\* The bucket array grows when an insertion has linked its node.
Crowded == Len(recency) + 1 > buckets

Used(k) ==
  /\ uses' = Cons(k, RemoveFirst(uses, k))
  /\ others' = IF k = heldFor THEN others ELSE others \cup {k}

-----------------------------------------------------------------------------
Init ==
  /\ recency = << >> /\ size = 0 /\ buckets = InitialBuckets
  /\ entry = [n \in Node |-> Freed]
  /\ held = NoNode /\ heldFor = NoNode
  /\ failures = 0 /\ uses = << >> /\ others = {}
  /\ latest = [k \in Key |-> NoNode]

\* get on a hit; the caller keeps the pointer instead of an earlier one.
Get(k) ==
  \E n \in Holding(k) :
    /\ recency' = Promoted(recency, n)
    /\ held' = n /\ heldFor' = k /\ others' = {}
    /\ uses' = Cons(k, RemoveFirst(uses, k))
    /\ latest' = [latest EXCEPT ![k] = entry[n].val]
    /\ UNCHANGED <<entry, size, buckets, failures>>

\* put of a key that is cached: modify(), then get() whose result is dropped.
PutExisting(k, v) ==
  \E n \in Holding(k) :
    /\ entry' = [entry EXCEPT ![n].val = v]
    /\ recency' = Promoted(recency, n)
    /\ latest' = [latest EXCEPT ![k] = v]
    /\ Used(k)
    /\ UNCHANGED <<size, buckets, caller, failures>>

\* put of a new key: push_front, then evict.
PutNew(k, v) ==
  /\ ~Cached(k)
  /\ \E n \in Node \ ToSet(recency) :
       LET kept == Evict(Cons(n, recency), Excess(size + 1))
       IN  /\ recency' = kept
           /\ entry' = [m \in Node |-> IF m \notin ToSet(kept) THEN Freed
                                      ELSE IF m = n THEN [key |-> k, val |-> v]
                                      ELSE entry[m]]
  /\ size' = size + 1 - Excess(size + 1)
  /\ buckets' = IF Crowded THEN 2 * buckets ELSE buckets
  /\ latest' = [latest EXCEPT ![k] = v]
  /\ Used(k)
  /\ UNCHANGED <<caller, failures>>

\* push_front throws while the bucket array grows: the node is linked in both
\* indices, at the back, and neither counted nor moved to the front.
PutFails(k, v) ==
  /\ failures < MaxFailures
  /\ ~Cached(k) /\ Crowded
  /\ \E n \in Node \ ToSet(recency) :
       /\ entry' = [entry EXCEPT ![n] = [key |-> k, val |-> v]]
       /\ recency' = Append(recency, n)
  /\ failures' = failures + 1
  /\ UNCHANGED <<size, buckets, caller, history>>

\* The caller writes through the pointer, as long as its element cannot have
\* been evicted.
Write(v) ==
  /\ held # NoNode /\ Cardinality(others) < Cap
  /\ entry' = [entry EXCEPT ![held].val = v]
  /\ latest' = [latest EXCEPT ![heldFor] = v]
  /\ UNCHANGED <<recency, size, buckets, caller, failures, uses, others>>

Next ==
  \/ \E k \in Key : Get(k)
  \/ \E k \in Key, v \in Val : PutExisting(k, v) \/ PutNew(k, v) \/ PutFails(k, v)
  \/ \E v \in Val : Write(v)

Spec == Init /\ [][Next]_vars

-----------------------------------------------------------------------------
(* Properties.                                                             *)

\* The state is well-typed, no node is linked twice, and size() differs from
\* the number of elements by the insertions that threw.
TypeOK ==
  /\ recency \in Seq(Node) /\ IsInjective(recency)
  /\ \A n \in Node : entry[n] \in IF n \in ToSet(recency) THEN Entries ELSE {Freed}
  /\ size \in 0 .. Cap /\ Len(recency) = size + failures
  /\ buckets \in Nat \ {0}
  /\ held \in Node \cup {NoNode} /\ heldFor \in Key \cup {NoNode}

Recent == SubSeq(uses, 1, IF Len(uses) < Cap THEN Len(uses) ELSE Cap)

\* The Cap most recently used keys are always cached, foremost in the recency
\* list, in order and with their last values: evictions, updates, writes
\* through get()'s pointer and insertions that threw never cost one of them, and
\* the elements beyond Cap are those that insertions that threw left behind.
HoldsMostRecent ==
  /\ TypeOK
  /\ Len(recency) >= Len(Recent)
  /\ \A i \in DOMAIN Recent :
       entry[recency[i]] = [key |-> Recent[i], val |-> latest[Recent[i]]]

\* The pointer get() returned addresses its key's element until Cap other keys
\* have been used, whatever was evicted, updated or refused meanwhile.
PointerLive ==
  (held # NoNode /\ Cardinality(others) < Cap) => Holding(heldFor) = {held}
=============================================================================
