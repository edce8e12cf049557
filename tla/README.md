# A TLA+ model of MultiIndexContainer

`mic::multi_index_container` (`src/include/mic/multi_index.hpp`) is a header-only C++23 container
whose elements live in one node each, linked by several indices at once: ordered (an AVL tree with
subtree sizes), hashed, sequenced (a linked list) and random-access (an array of pointers). This
directory holds TLA+ modules that model it and four programs that use it, the configurations that
check them with TLC, and proofs that TLAPS checks about the container's calls, all four kinds of
index, ranges and coroutines over them, transfers of nodes between containers, the static arena and
the LRU cache.

## The system

Everything is in one header and runs on the caller's thread. What makes it hard is not threads but
*calls that stop halfway*: each modification touches up to N indices in turn, a unique index may
refuse it after others have accepted, and user code (extractors, comparators, hashers, mutators,
observers) and the allocator run between any two of these steps and may throw or look at the
container.

| component | state | operations | module |
|---|---|---|---|
| `multi_index_container` | the indices, the registry list `rhead_/rtail_`, `size_` | `insert` `emplace` `try_insert` `modify` `modify_key` `replace` `try_modify` `try_replace` `erase` `erase_key` `extract` `insert(node_handle&&)` `clear` | `MultiIndex`, promise: `MultiIndexSpec` |
| `node_handle` | the node it owns | `value`, `reset`, destruction, move | `MultiIndex`, `NodeTransfer` |
| `intrusive_tree` / `tree_core` | `root_`, `n_`; children, parent, size, height in the nodes | `try_add` `erase_node` `find` `lower_bound` `upper_bound` `equal_range` `count` `nth` `rank` `clear`, `++` `--` | `OrderedIndex`, promise: `OrderedSpec` |
| `intrusive_hash` / `hash_core` | the bucket array, `n_`; chain link and cached hash in the nodes | `try_add` `erase_node` `find` `equal_range` `count` `clear`, growth, `++`, being moved from | `HashIndex`, promise: `MultiIndexSpec` with one index |
| `intrusive_list` / `seq_core`, and the registry | `head_`, `tail_`; links in the nodes | `push_back` `push_front` `erase` `pop` `relocate` `reverse` `clear`, `++` `--` | `LinkedList`, `SequencedIndex`, promise: `SequenceSpec` |
| `rand_core` | a vector of node pointers | insertion, removal, `nth`, `index_of`, `reserve`, `clear`, `++` and `erase` on positions | `RandomAccessIndex` |
| observers | a list of callback sets, shared with the subscriptions | `subscribe`, `unsubscribe`, `fire_*` | when they fire and what a throw does: `MultiIndex`, `SequencedIndex`; what they hear of transfers: `NodeTransfer` |
| copy, move, `swap`, `merge` | two containers, their allocators | constructors, assignments, `swap`, `merge`, handles across containers | `NodeTransfer` |
| `range`, composite-key prefixes, `equi_join`, `group_by` | the frame of a coroutine | bounds, prefix lookups, resumption | `OrderedQueries` |
| static arena | a cursor in a buffer | allocation of nodes, bucket and pointer arrays; deallocation is a no-op; `try_insert`, `audit` | `StaticArena` |
| LRU cache | a container with a sequenced and a hashed index | `get` `put` `contains` | `LruCache` |
| symbol table | a container with three ordered indices | `enter` `leave` `declare` `resolve` | `SymbolTable`, promise: `ScopeStack` |
| event bus | a container with a sequenced index | `subscribe` `unsubscribe` `publish` | `EventBus` |
| order book | a container ordered by price and stamp | `rest` `cancel` `fill` `best_bid` | `OrderBook` |
| `stats`, `dump`, formatters, benchmarks, playground, the other examples | none of their own | | not modelled |

**How the parts interact.** An operation of the container calls `try_insert` or `remove` on every
index in declaration order, recursively, so an index that refuses makes the frames above it remove
the node again (`insert_all`, `insert_changed`). The indices never call each other; they share the
node, in which each has its own hook, and the element's value, from which each extracts its key on
every comparison. The container changes that value *while some indices link the node*. Callbacks run
inside the call: `on_insert` after the node is registered, `on_erase` before it leaves, `on_modify`
after the last index has it again. Containers meet in `merge`, `swap` and node handles, which pass
nodes from one registry to another without allocating. A coroutine keeps iterators while its
consumer changes the container. All tables of a static container draw on one arena.

**What makes each part correct.** The container: whenever user code can look, all indices link
exactly the registered elements under their current keys; unique keys are unique at all times; a
refused call changes nothing; every node has one owner and is freed by an allocator like the one that
made it. An index: its links are consistent in both directions, its lookups are exact, and an iterator in use
survives what happens around it. The arena: it lasts for the N elements it was sized for. The
examples: what their users assume of them (most recently used entries, innermost scope, registration
order, price-time priority).

The hazards, each with its line and the properties aimed at it, are in `PROJECT.json`.

## The modules and the code

### MultiIndex: one call, index by index

State: `value` (the node pool), `index[i][n]` (the key under which index *i* files node *n*, or
`NotLinked`), `registry` and `size`, `held` (nodes in node handles), and the frame of the call in
progress: `pc`, the operation `op`, its node `p`, the index `at` which it has reached, the array
`changed` (`ch` in the code), the `before` value (`snapshot`), the out-parameters `failed` and
`conflict`, and `victims` for `erase_key`.

`index[i][n]` is the key *at the time of linking*, so an index that was not repositioned when its
element changed shows up as a difference between `index` and `value`. That is the mistake the real
structures suffer from: a node filed where its value no longer leads.

| action | code |
|---|---|
| `Insert`, `InsertHandle` | `make_node`, then `insert_all<0>` begins |
| `TryInsert`, `SkipUnchanged`, `Refuse`, `Unwind` | one frame of `insert_all` / `insert_changed`: descend, skip an unchanged index, be refused, remove on the way back |
| `CommitInsert`, `RejectInsert` | `reg_push_back`, `++size_` and `fire_insert`; or `destroy_node`, or the handle handed back |
| `Mutate` | `capture_keys`, the mutator, `compute_changed`, `erase_changed` |
| `CommitMutation`, `RollBack`, `RolledBack`, `DropAfterFailedRollback` | the four ways out of `reposition`; the last frees the node without `remove_all` |
| `Erase`, `EraseKey`, `NextVictim`, `EraseNodeFull`, `Extract`, `Clear` | the same names |
| `AssignThroughHandle`, `ResetHandle` | what a caller does with a node handle |
| `Fired` | the observers return |
| `MutatorThrows`, `ObserverThrows`, `CompareThrows`, `TryInsertThrows`, `GrowThrows` | foreign code throws there |

A key of a keyless index is a constant, so `sequenced` and `random_access` indices are non-unique
indices that never change and never refuse. `modify_key` is `modify` with a mutator that touches one
key. `try_` twins differ in what they return only.

After an exception that the code does not catch (`pc = "thrown"`), and after a drop that leaves the
freed node linked in an index whose key did not change (`pc = "dangling"`; the next comparison there
would read freed memory), the model stops: the state it stops in is what `DamageIsLocal` speaks of.
What happens *after* such an exception is in `StaticArena`
and `LruCache`, where it is an ordinary event.

`MultiIndexSpec` is the promise: a function from elements to values and one from handles to values;
a rejected call does nothing. `Refines` maps the detailed state to it: `Elems` shows the `before`
value as long as a mutation is undecided.

### HashIndex, OrderedIndex, SequencedIndex, RandomAccessIndex: the index structures

Each models the links themselves and the calls its container makes on them: insertion, erasure, the
two halves of a reposition (`Rekey`, then `Relink`, or a refusal, then `RollBack`), `clear`, and a
caller who holds an iterator meanwhile (`StartWalk`, `StepWalk`, `EraseAtCursor`, `EndWalk`).

* `HashIndex`: chains as sequences, the hash cached in each node, `n_`. `Added` splices a node after
  the first one with its key and then doubles the table; `Grown` reverses every chain as the
  prepending loop of `rehash_to` does; `Unlinked` trusts the cached hash alone. `reposition` swaps
  the old value back while it unlinks; the model leaves the new value in place, which is what a
  pointer-like element looks like to the table and is the harder case. `Veto` is a later index
  refusing what this one took. `MoveAway` is the table being moved from. Whether the index is unique
  is a variable that never changes, so one run covers both kinds.
* `OrderedIndex`: `root_`, the children, parent, size and height of each node. `Rotate`, `Rebalance`,
  `Fixup`, `Added` and `Erased` are the pointer algorithms, with both mirror images as one operator
  over a side. A `while` of the code that follows links is `Loop(f, x)`, which applies the loop's body
  `f` until it changes nothing, `Rounds` times at most; no path through the links is longer, so the
  bound is never what ends it. `OrderedSpec` is the sorted sequence in which an added element follows
  its equals.
* `LinkedList`: the four links of a doubly linked list; `SequencedIndex` and the registry (in
  `RandomAccessIndex` and `StaticArena`) are lists of this kind. `push_front` is three steps as in
  the code: the element is pushed to the back, observers run (and may throw), and it is moved to the
  front. `SequenceSpec` is the sequence.
* `RandomAccessIndex` extends `SequencedIndex` by an index of the other keyless kind over the same
  elements, as a container with both has them: the pointer array and its capacity, the registry, and
  an iterator that is a position (`spot`). `InsertRefused` is an element that another index refuses
  when this one may have grown its array for it. The iterator stays in use only as long as the rules
  of a vector allow; `EraseAtSpot` is `erase(it)`, which looks its successor up again.

A reposition in one index, the other indices being arbitrary, is what composes these modules with
`MultiIndex`: `MultiIndex` decides when an index is asked, refused or vetoed, and each index module
allows all of it at any time (`Refuse`, `Veto`, `GiveUp`).

### OrderedQueries: what is computed from an ordered index

Extends `OrderedIndex`. `Resolve` is how `range()` turns a bound into an iterator;
`CompositeLess` compares a prefix with a composite key component by component. A composite key is a
number here as any other key is, and `Component` lists what it consists of: `QueryAssumption` says
that keys are numbered in their composite order, as the index compares them, that all have the same
number of components, and that no prefix asked for has more of them than a key. The coroutines are
steps: `StartQuery`, `NextGroup` and `EndGroups` for `group_by`; `SkipLeft`, `SkipRight`,
`TakeGroup`, `Yield`, `NextLeft` and `EndJoin` for `equi_join`, with the iterator `cur` of
`OrderedIndex` as the one in the coroutine's frame. While a coroutine is suspended in `co_yield`
(`Suspended`), any action of `OrderedIndex` may happen (`Meanwhile`) that does not erase or
reposition the element its iterator stands on. The other side of a join is a fixed sequence of keys.

### NodeTransfer: several containers

State per container: the registry, the list of a sequenced index and an ordered non-unique index as
sequences of nodes, and the resource of its allocator; besides, where each node was allocated
(`home`) and whether a merge or a handle took it between unequal allocators since (`strayed`), a node
handle with its allocator, the nodes nobody can free any more (`abandoned`), what a subscriber has
concluded from its callbacks and which ids it was told nothing about (`mirror`), and the merge under
way. Single operations are atomic here; `MultiIndex` takes them apart.

| action | code |
|---|---|
| `Insert` `Erase` `Regroup` `MoveToBack` `Clear` `Extract` `EditHandle` `InsertHandle` `ResetHandle` | the container's and the handle's operations |
| `StartMerge`, `MergeNext`, `EndMerge` | `merge`: the snapshot of the other registry; one element moved (`MergeMoves`), put back (`MergeReturns`) or, when a comparison throws while it is in neither container, freed by the `node_handle` of the loop (`MergeDrops`); the end, by exhaustion or by an observer that throws |
| `CopyAssign` | `clear`, which calls nobody, then `copy_from`, whose insertions call `on_insert` on the assigned container's own subscribers; it ends early when one throws or an allocation fails |
| `CopyConstruct` | `copy_from` into a new container, which nobody watches; without a sequenced index it would follow the registry |
| `MoveConstruct`, `MoveAssign`, `Swap` | cores, registry, size and allocator change places, observers do not |
| `Subscribe`, `Unsubscribe` | a subscription |

No call of the code compares two allocators, and no action does: `InsertHandle` and `MergeMoves` take
a node whatever resource it came from, and `Crosses` notes that it strayed, or came home. `Missed` is
every event a subscriber is not told of: `clear`, `extract`, being merged from, `swap`, both sides of a
move, and the clearing before an assignment. A subscriber notes what a callback tells it and may
then throw; an exception out of `on_erase`, before anything has changed, is in `MultiIndex`. One
subscriber per container is enough for what `mirror` says, since subscribers share nothing; for the
same reason `transfer` (`CONSTRAINT OneSubscriber`) goes on only from states in which at most one
container is watched. The proofs have no such bound.

### StaticArena: a container in a fixed buffer

Words of eight bytes from one cursor (`used`): the node, a doubled bucket array once the hashed index
has linked it, a doubled pointer array. `InsertNoNode`, `InsertNoBuckets` and `InsertNoArray` are
the three ways `std::bad_alloc` can leave `try_insert`; the last two leave a node `halfway`, linked
but unregistered. `Erase` finds such a node by its key as well and then unlinks it from a registry it
was never on, and decrements `size_`, which is modulo `SizeRange` (`trampled` marks it). `Audit` is
the comparison of counts in `audit_into`. `NodeWords` and `ElementWords` are constants with the
inequality that `arena_bytes` guarantees: eight words beyond the node per element, and the first
bucket array on top.

### LruCache, SymbolTable, EventBus, OrderBook: clients

Each of the four programs is a state machine over the indices its code uses, with the container's
operations atomic. `LruCache` includes insertions that throw out of the growth of the hashed index
(`PutFails`): they leave a node linked in both indices that `size()` does not count, and eviction
goes by `size()`. `SymbolTable` keeps the declarations as a set and computes the ranges the code
walks; `ScopeStack` is a stack of scopes and `Stack` the mapping. `EventBus` takes `publish()` apart
at the callbacks, which subscribe and unsubscribe. `OrderBook` keeps the order of the index, ties
included, and looks the best bid up as the code does.

## The runs

| run | instance | shows |
|---|---|---|
| `core` | 3 nodes; a staff table with by_id (ordered, unique), by_dept (hashed), by_email (hashed, unique) and a random-access order; mutators, observers and growth throw | the inductive invariant of the proofs and the properties below; `CallReturns`; `Refines`: the calls implement the all-or-nothing container |
| `pointer` | 4 nodes, pointer elements <<id, email>>, ordered by id, by email (unique) and by email; extractors, comparators and observers throw | all indices agree whenever user code can look; a drop, which leaves the freed node linked where its key did not change, or an exception damages one node at most |
| `hash` | 5 nodes, 3 keys, two of them colliding, 2 buckets at first; unique and not | buckets, groups of equal keys, walks with erasures, growth; the abstract container with one index is implemented |
| `tree_shape` | 12 nodes with 12 keys, also read as composite keys of 3 departments with 4 people | links, sizes, heights, balance, every lookup and every prefix, on every AVL tree of up to twelve nodes |
| `tree_walk` | 4 nodes, 2 keys, an iterator, `group_by`, `equi_join` with two other sides | the order of equal keys, walks and coroutines during rotations, all ranges |
| `list` | 4 nodes in a sequenced and a random-access index | both directions, relocation, reversal, positions, iterators of both kinds |
| `transfer` | 3 nodes, 2 containers, 2 ids × 2 groups, 2 resources, a subscriber of one container at a time, who may throw | copy, move, swap, merge, handles, between equal and unequal allocators; what a subscriber may conclude |
| `arena` | 5 ids, capacity 4, nodes of 5 words, 13 words per element, 3 buckets at first, 4 words of slack | the capacity, and what failed insertions leave behind |
| `examples` | LRU: capacity 2, 4 keys, 5 nodes, 2 failures; symbol table: depth 2, 4 declarations; event bus: 5 subscriptions; order book: 3 orders, 2 prices, 2 stamps, quantity 2 | the four clients |
| `pointer_rollback`, `tree_refused`, `arena_full` | 2, 3 and 5 nodes | disagreements between code and documents, below |

**Why the bounds are enough.** Two elements are needed for a clash and a third one to be the
bystander that a clash must not damage. Two unique indices with a non-unique one between them give
an unwinding something to undo and something to skip. The hash tables start with two buckets instead
of eight so that five nodes make them grow twice (from one bucket, after a move: three times); the
growth rule is the same. Twelve is the smallest number of nodes with which erasing one rebalances
two levels. With four nodes and two keys rotations happen to runs of equal keys, and a group has an
element before it, in it and after it. In `pointer` a mutation changes one index, two, all or none, so
a drop finds unchanged indices before and behind the one that refuses. In `transfer` a merge has an
element to take or to refuse and one not reached yet, or a rival; taken, refused and unreached ones
together would need a third id, and are left to the proof. Copies fall short of nodes with the third
one in the other container, in the handle or abandoned. The arena of five ids
and capacity four is exhausted in each of its three ways, and a leftover is found and erased. The
LRU cache needs two slots to have an order, two more keys to evict both, and a second failure to
evict a leftover of the first; each failure doubles nothing, so growth is due at every later
insertion. The bounds `MaxFailures`, `MaxDepth`, `MaxDeclarations`, `MaxId`, `MaxPrice`, `MaxStamp`
and `MaxQty` only cut off counters.

`VIEW Readable` identifies states that differ in what cannot be read any more: links left behind in
unlinked nodes, which `try_add` and `push_back` overwrite before they are read, values of freed or
abandoned nodes, and what a subscriber believes of an element it was not told about. Nodes are interchangeable, and so are containers, resources and keys without an order, so
`SYMMETRY` over them is sound; it is used with safety properties only.

**Deadlock** is checked in every run but `core` and `pointer`, in which an uncaught exception, or the
drop of an element that an index goes on linking, ends the model.

**Fairness.** `FairSpec` adds `WF_vars(Continue)`: the thread that made a call runs it to its end.
It says nothing of users making calls. `CallReturns` fails as soon as an unwinding or a rollback
does not progress.

**What each property is for.**

* `Consistent`, `UniqueKeys`, `Ownership`: the three sides of "one element, N indices".
  `Consistent` is stated for the moments user code can look, including observers and the gaps
  between the erasures of one `erase_key`; `UniqueKeys` for every moment; `Ownership` until an
  exception cuts a call short. In `core` `IInv` implies all three. With pointer elements `Consistent`
  holds until the model stops (`pointer`), `Ownership` does not (`pointer_rollback`).
* `RollbackSucceeds`: `reposition` has a branch that *frees* the element when the old keys are
  refused too; nobody can have taken them, so with elements stored by value it is dead code.
* `ClashReport`: the index and the element named in an error are the first clash in declaration
  order and a live element.
* `DamageIsLocal`: what does survive an uncaught exception and a drop: every node but one is in all
  indices under its keys, and no index links a freed node but the dropped one.
* `BucketsConsistent`, `WellFormed`, `BothWays`, `PositionsByAge`: each structure's own links, after
  any history; `LookupsExact`: what lookups make of them.
* `WalkComplete`, `WalkInOrder`, `VisitExact`, `GroupsExact`, `JoinComplete`: readers that hold
  iterators while the structure changes. `RangesExact`, `PrefixesExact`: bounds, also crossed ones.
* `Intact`, `FreedWhereMade`, `MergeExact`, `CopyExact`, `MirrorExact`: nodes between containers,
  what is copied, and what a subscriber may conclude. `Intact` admits the nodes of a failed copy
  construction, which nobody owns, and `FreedWhereMade` those that strayed; each shows that there
  are no others. `MirrorExact` says for which ids a subscriber is right: all but those it was told
  nothing about.
* `FullOnlyPastCapacity`, `InsertedAreKept`, `AuditFindsLeftovers`: the first N insertions never fail
  for want of memory (refused and erased elements count among the N, since the arena takes nothing
  back); a failed insertion leaves garbage, but garbage that harms no element until it is erased by
  its key, and that the audit reports, naming the two indices that hold it until then and something
  until the next `clear()`. What an erased leftover does to the registry is not excused by any
  property: `InsertedAreKept` ends there.
* `HoldsMostRecent`, `PointerLive`, `ResolvesToInnermost`, `ScopesNest`, `PublishReachesAll`,
  `NoQueueJumping`: what each example is an example of.

## Where code and documents disagree

`README.md`, `EXAMPLES.md` and `PROMPT.md` are the documents in `src/`. Shown by a run:

1. `pointer_rollback`: with pointer elements the snapshot shares the pointee, so a refused `modify`
   restores nothing and drops the element, with ordered indices too (`EXAMPLES.md:112` says it stays,
   `README.md:311` calls a hashed key the one unsupported combination). Line 1253 of the header takes
   the node off the registry and frees it, but removes it from no index: the changed ones have given
   it up before, an unchanged one goes on linking it (the comment at `multi_index.hpp:1251` says
   "fully consistent again").
2. `tree_refused`: a refused `modify` or `replace` puts the element behind its equals in every
   non-unique index whose key it would have changed (`EXAMPLES.md:112`, `:123` say it stays put).
3. `arena_full`: an insertion that reports `capacity_exceeded` because an index cannot grow leaves
   its node linked in the indices before (`PROMPT.md:82` promises the strong guarantee,
   `README.md:223` goes on as if nothing had happened). The same holds of any exception out of a
   later index of any container, and `modify` compares keys after the mutator has run and outside
   its `try`, so an extractor or comparator that throws leaves an element filed under keys it does
   not have: `TryInsertThrows`, `GrowThrows` and `CompareThrows` in `MultiIndex`.

Met while modelling and built into the models as the code has it:

4. `copy_from` reproduces the order of a sequenced index, and with it neither the registry nor the
   order of equal keys in a non-unique index that a `modify` has repositioned; without one, insertion
   order does not bring back the latter either (the comment at `multi_index.hpp:1276` says every
   keyed index). `CopyExact` states what does hold.
5. A copy construction that throws destroys no node it has made: the constructor's members are
   destroyed, `clear()` is in the destructor of the container, which does not run. They are the
   `abandoned` nodes of `NodeTransfer`, which `Intact` admits as nobody's.
6. Iterators of a random-access index are positions: an insertion that reallocates and an erasure
   before them invalidate them (`PROMPT.md:84` and `README.md:325` say nothing but erasing the element
   does). `RandomAccessIndex` ends the walk of an iterator there.
7. What a merge refuses is taken out of the other container and inserted again: it stays there
   (`EXAMPLES.md:312`), but behind those the merge has not reached yet, and the observers of the
   other container hear of an insertion. `MergeExact` and `MirrorExact` allow for it.
8. `swap` calls no observer, and subscriptions stay with the object, so a subscriber's picture is of
   the other elements from then on; the same holds of a move, `clear`, `extract` and being merged from
   (`MirrorExact` leaves these ids out).
9. `PROMPT.md:68` promises that a handle's insertion "cross-allocator falls back to move-construct +
   insert with a clear diagnostic". `insert(node_handle&&)` and `merge` (`multi_index.hpp:1755-1777`)
   compare no allocators: the node is linked as it is, and later freed through an allocator it did not
   come from. `FreedWhereMade` holds of every node that did not cross in this way.
10. In a merge a comparison that throws frees the element, which is in neither container by then
   (`MergeDrops`), although `PROMPT.md:82` promises the strong guarantee for the insertion of a handle.

## The proofs

`MultiIndexProofs` proves, for every number of nodes, indices, values and keys and every assignment
of kinds and extractors that satisfies the assumptions of `MultiIndex`:

| theorem | states | needs |
|---|---|---|
| `Invariance` | `[]IInv` | elements stored by value |
| `TypeCorrect`, `KeysStayUnique`, `ThrowDamagesOneNode` | `TypeOK`, `UniqueKeys`, `DamageIsLocal` | the same |
| `IndicesAgree`, `RollbackAlwaysSucceeds`, `NodesOwnedOnce`, `ClashesNamedRight` | `Consistent`, `RollbackSucceeds`, `Ownership`, `ClashReport` | the same |
| `Refinement` | `Abstract!Spec` | the same, and extractors, comparators and hashers that do not throw |

The condition on exceptions in `Refinement` is not a convenience: `CompareThrows` does leave a
changed element behind (disagreement 3), which no operation of the promise allows. Storage by value
is needed because with pointers `RollbackSucceeds` and `Ownership` are false (disagreement 1).

**The argument.** None of the properties is inductive. `Consistent` says nothing while a call is
halfway, and a step to the end of a call needs to know what has been linked so far: `Placement`
states it, for the node at hand through `Attached` (unchanged indices, and those before `at` on the
way down, up to `at` on the way back), for all others through the registry. `FrameFits` ties the
frame to it (what `changed` is, whether `p` is registered, held or new). That a rollback succeeds
needs `OldKeysFree`: while a mutation is undecided no other element has the old keys, because
`UniqueKeys` held before, and no other element moves. `UniqueKeys` and `DamageIsLocal` hold after an
uncaught exception too, all else before it; hence the shape of `IInv`. `size` needs `Counting`, with
the finiteness of the registry, so that adding and removing one node changes the cardinality by one.
TLC checks `IInv` itself in run `core`; the same formula is what is proved.

`StaticArenaProofs` proves, for every set of ids, capacity, size of a node and initial number of
buckets, under the budget of `BudgetAssumption` (per element the node and eight words, in addition
the first bucket array and one word):

| theorem | states |
|---|---|
| `Inductive` | `[]IInv`, the invariant of that module |
| `TypeCorrect` | `TypeOK`: the arena never hands out more than it has, `size_` is in range |
| `HoldsItsCapacity` | `FullOnlyPastCapacity`: the first N insertions, refused and erased elements counted, never fail for want of memory |
| `ElementsSurviveFailures` | `InsertedAreKept`: failed insertions never lose, double or reorder an element |
| `AuditIsExact` | `AuditFindsLeftovers`: the audit is empty exactly when nothing was left behind since the last `clear()`; until a leftover is erased it names exactly `by_id` and `by_hash` |

**The argument.** `FullOnlyPastCapacity` is about sums. `Accounts` says where every word went: nodes,
bucket arrays that double from the first one (all of them together less than twice the last), and
pointer arrays that double from one. `TablesFit` bounds the last ones: a table is never larger than
twice the number of nodes ever made, leftovers included. So with `made < Capacity` a node, a bucket
array and a pointer array together stay within eight words per element. `InsertedAreKept` goes
through the links of the registry: `Erase` of a leftover unlinks a node whose own links are null,
which writes `head` and `tail`; before that (`~trampled`) the registry is the list of the elements,
and pushing at the back or unlinking keeps it so. That `size_` does not wrap needs `SizeRange >
ArenaWords`: an element costs at least a word; the audit is exact for the same reason, because the
difference it looks at could only vanish by wrapping. The proof of arithmetic with products
(`made * NodeWords`) is in the lemmas `Multiples` and `Budget`, the rest is linear.

`HashIndexProofs` proves, for every number of nodes, keys and initial buckets and every hasher, for
unique and non-unique tables:

| theorem | states |
|---|---|
| `ConsistentBuckets` | `BucketsConsistent`: each element in the bucket of its current key, once, and counted |
| `ExactLookups` | `LookupsExact`: `find`, `count`, `equal_range` against a scan of all elements |
| `CompleteWalks` | `WalkComplete`: an iterator meets every element that survives the walk once |
| `RefinesContainer` | `Refines`: the abstract container with one index |

**The argument.** The inductive part is `TableOK`: chains without repetitions, every node in the bucket
of its cached hash, the cached hash that of its key, and *equal keys next to each other* (`Grouped`),
which no property mentions but `equal_range`, `count` and the splice of `try_add` live on. The elements
it speaks of leave out the node being repositioned, whose cached hash and key may disagree. `Grouped`
must survive a rehash, which reverses what it moves: `Flattened` says where each place of the
concatenated chains comes from, `RefiledUpTo` is the invariant of the prepending loop (later in the
old order is earlier in the new chain), and `RehashedOK` combines them. For the iterator,
`Before` is the order of `++` in terms of buckets and places; `IsWalk` says that what has been passed
is what comes before the iterator. Unlinking another node keeps `Before` (`SameOrder`), and the
successor of the node under the iterator takes over its predecessors (`WalkErases`). `Refines` needs
that `find` is exact, since it decides what `try_add` refuses.

`SequencedIndexProofs` proves, for every finite set of nodes (`NilAssumption`), about `SequencedIndex`
and, with the pointer array and the registry, `RandomAccessIndex`:

| theorem | states |
|---|---|
| `ReadsBothWays`, `WalksInOrder` | `BothWays`, `WalkInOrder` |
| `RefinesSequence` | `Refines`: the assignments to links implement the operations on a sequence |
| `PositionsFollowAge`, `VisitsAreExact` | `PositionsByAge`, `VisitExact` |

**The argument.** `IsList(l, s)` says by places that the links `l` are those of the sequence `s`. Every
operation on links is shown to lead from the list of a sequence to the list of the changed sequence
(`PushedBackList`, `UnlinkedList`, `RelocatedList`, `ReversedList` and so on), and `ListIsRead` that following the
links, as `Order` does, reads that sequence. What the iterator has passed is a prefix of it, less what
has moved since (`Walking`). `RInv` adds that the registry is the list of the array.

`NodeTransferProofs` proves, for every number of containers, nodes, ids, groups and resources:

| theorem | states |
|---|---|
| `NothingLostOrShared` | `Intact`: no node with two owners or, but for those of a failed copy construction, none; the indices of a container agree |
| `NodesGoHome` | `FreedWhereMade`: a node that no merge or handle took between unequal allocators is freed where it was made |
| `MergesAreExact` | `MergeExact`: what a merge has passed and left has a rival, what it has not reached is first and in its old order |
| `MirrorsAreExact` | `MirrorExact`: a subscriber is right about every id whose element did not come or go silently |

**The argument.** A container by itself is `BoxOK`: its three sequences hold the same nodes once, groups
ascend, ids differ. Linking and unlinking preserve it (`LinkedBox` needs `PlaceFound`, where a new node
goes among its equals). The invariant adds that no node is in two boxes, in a box and in the handle,
and how the state of a merge relates to the snapshot it took; a copy is a loop (`built`) whose
invariant is proved by `InductiveSet`.

`LruCacheProofs` proves `RecentAreCached` (`HoldsMostRecent`) and `PointersStayLive` (`PointerLive`) for
every capacity and any number of keys, values and failed insertions. `FrontHolds` carries them: the
keys used last, as many as fit, are foremost and in order, whatever leftovers of failed insertions lie
among the rest, because `get` and `put` bring what they use to the front and eviction takes from the
back and only as many as `size()` counts above the capacity. `Counted` relates the pointer that is held
to the keys used since.

`OrderedIndexProofs` proves, for every finite set of nodes, every set of keys and prefixes and every
side a join may have, about `OrderedIndex` and the coroutines that walk it:

| theorem | states |
|---|---|
| `IndexInvariant`, `IndexTypeOK` | `[]IInv`, the invariant of that module; `TypeOK` of the tree, the keys and the iterator (not of the coroutines) |
| `IndexWellFormed` | `WellFormed`: order, links, heights, sizes and balance of the AVL tree |
| `IndexLookupsExact` | `LookupsExact`: every lookup against a scan of the order |
| `IndexWalkInOrder` | `WalkInOrder`: an iterator while the tree rotates, grows and shrinks |
| `TreeImplementsSequence` | `Refines`: the tree is the sorted sequence of `OrderedSpec` |
| `IndexRangesExact` | `RangesExact`: a range is what both bounds admit; with an element between crossed bounds, `last` lies in front of `first`, and a walk from one to the other does not meet its end |
| `IndexPrefixesExact` | `PrefixesExact`: composite-key prefixes |
| `GroupsAreExact`, `JoinsAreComplete` | `GroupsExact`, `JoinComplete`: each group newly yielded, and the pairs of each element passed, with a consumer that changes the container |

They need `OrderedAssumption` (nodes are finitely many, keys are integers, `Nil` is no node) and
`QueryAssumption`. Uniqueness is a constant, and the proofs cover both kinds of index.

**The argument.** No induction over a tree is available, so nothing is said about subtrees by
recursion. Instead `Spans(t, E, o, P, Q)` gives the shape of the links by *positions*: the order `o` of
the elements, the position `P[a]` of each, and the first and last position `Q["l"][a]`, `Q["r"][a]` of
the subtree under it; a left child spans what lies before its parent's position within the parent's
span, a right child what lies behind it. All of it is local, so a rotation only changes the spans of
the two nodes it turns (`QTurned`, `TurnedSpans`), an insertion shifts positions (`PInserted`,
`QInserted`), an erasure of a node with one child removes a position (`PRemoved`, `QRemoved`), and an
erasure of a node with two is one of its successor followed by a renaming (`SuccessorMovesUp`,
`IsRenamed`). `Counted` adds what is stored in the nodes: that sizes are widths of spans, heights
exact, and siblings at most one apart.

Between the change of the links and the end of `fixup` these are wrong on the path up to the root.
`Fixing` says how: `H` gives the heights the subtrees have, every element off the path (`Trail`)
stores its height and size (`Clean`), every element but the current one is balanced in terms of `H`
(`Level`), and the current one was until the height of one child changed by one (`Nearly`). A round of `fixup` takes the node off
the path, by no rotation, one, or two (`FixWithoutTurn`, `FixWithOneTurn`, `FixWithTwoTurns`; which of them is
decided as in `rebalance`), and moves the difference one node up. `Widths` bounds the rounds: spans
get strictly wider on the way up.

Everything that follows links, `leftmost`, `succ`, the bounds, `nth`, `rank`, the insertion's descent
and `Order` itself, is a `Loop` with a measure in spans or positions; each yields the place it should
in `o` (`MostFound`, `BoundFound`, `InOrderIsSlice` and so on). From there on proofs are about `o`, a sequence
ascending by key (`InTree`): a step inserts a position, removes one, empties it or leaves it alone
(`Reorders`), which is `Refines`; an iterator has passed what is in front of it, less what moved
(`WalkInv`); a group or the partners of a key are a slice of it. `IInv` is `TypeOK`, `TreeInv`, `WalkInv`
and `GroupInv`; `JoinInv` adds to it what a join has yielded. For prefixes, the keys that begin with
one are those neither below nor above it, and both sets are cut off at one place (`PrefixOrLess`,
`PrefixCuts`).

`SequenceLemmas` holds what these proofs share: what `InsertAt`, `RemoveFirst`, `Cons`, `Reverse`,
`FlattenSeq` and prefixes do to places, elements and distinctness. The library's induction theorems
take an operator as a parameter, which the provers cannot instantiate; the induction that is needed,
over the number of steps of a recursive *function*, is done with sets instead: `InductiveSet` from
the well-foundedness of `Nat`, and `Iterated`, that a function defined step by step exists.

**Only model-checked:** liveness (`CallReturns`), which needs fairness; `CopyExact`, which compares
orders with `SelectSeq`, an operator the provers know nothing about; the properties of `pointer` for
elements stored by pointer; and the symbol table, the event bus and the order book (`ResolvesToInnermost`,
`ScopesNest`, `PublishReachesAll`, `NoQueueJumping`). The documents' claims that do not hold are
counterexamples of TLC.

## Not modelled

* `max_load_factor`: no index exposes the setter, so it is 1. Vectors grow by doubling in
  `StaticArena` (libstdc++, libc++), where MSVC grows by half; `RandomAccessIndex` allows any growth.
  Padding for alignment in the arena: all its blocks are multiples of eight bytes.
* Callbacks that subscribe, unsubscribe or change the container that called them, and a subscriber of
  the event bus that unsubscribes itself: undefined behaviour, with no outcome of the code to state.
* What a memory resource does with a node it did not allocate: undefined behaviour. `NodeTransfer`
  says which nodes this can happen to.
* An exception out of an index behind the first one inside `merge` or `insert(node_handle&&)`, by a
  growth that fails: the node is freed by its handle while the indices in front of that one link it,
  which is the damage `DamageIsLocal` describes for one container, with a freed node as in
  disagreement 1. `NodeTransfer` does not continue from there.
* The LRU cache after it has evicted a leftover: the registry it unlinks from is not part of
  `LruCache`; what becomes of it is `trampled` in `StaticArena`.
* `stats`, `dump`, trace and formatters are output; the part of the audit that compares adjacent keys
  looks at what `WellFormed` and `LookupsExact` state. Key extractors are composed at compile time and
  are the constant function `KeyOf`. `leaderboard`, `insert_diagnostics`, `static_table`, `observed_table`
  and the remaining examples, the playground and the benchmarks keep no state of their own.

## What could come next

1. Pointer storage in the proofs: `Consistent` and `DamageIsLocal` without `RollbackSucceeds`.
2. `ResolvesToInnermost` and `ScopesNest` for any depth and number of declarations.
3. `NodeTransfer` with two handles, and with the steps of an insertion taken apart as in `MultiIndex`.

## Running

    tlc -config MultiIndex_core.cfg MCMultiIndex     # and so on for each .cfg
    tlapm MultiIndexProofs.tla                       # and so on for each *Proofs module
    tlapm SequenceLemmas.tla

| configuration | module |
|---|---|
| `MultiIndex_core`, `MultiIndex_pointer`, `MultiIndex_pointer_rollback` | `MCMultiIndex` |
| `HashIndex` | `MCHashIndex` |
| `OrderedIndex_shape`, `OrderedIndex_walk`, `OrderedIndex_refused` | `MCOrderedIndex` |
| `SequencedIndex` | `MCSequencedIndex` |
| `NodeTransfer` | `MCNodeTransfer` |
| `StaticArena`, `StaticArena_full` | `MCStaticArena` |
| `Examples` | `MCExamples` |

The violations take seconds, every other run between a few seconds and three minutes.
