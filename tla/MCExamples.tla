----------------------------- MODULE MCExamples -----------------------------
(* Four of the example programs, one of which runs.                        *)
EXTENDS LruCache, TLC

CONSTANTS Name, Type, NoType, MaxDepth, MaxDeclarations, MaxId,
          OrderId, MaxPrice, MaxStamp, MaxQty

VARIABLES program, symbols, depth, seq, order, next_id, current, called, book

Table == INSTANCE SymbolTable
Bus == INSTANCE EventBus
Book == INSTANCE OrderBook

lru == vars
table == <<symbols, depth, seq>>
bus == <<order, next_id, current, called>>

\* Only permutations of the cache's own sets; the other programs use none of them.
Symmetry == Permutations(Node) \cup Permutations(Key)

ExamplesInit ==
  /\ program \in {"lru_cache", "symbol_table", "observer_registry", "order_book"}
  /\ Init /\ Table!Init /\ Bus!Init /\ Book!Init

ExamplesNext ==
  /\ \/ program = "lru_cache" /\ Next /\ UNCHANGED <<table, bus, book>>
     \/ program = "symbol_table" /\ Table!Next /\ UNCHANGED <<lru, bus, book>>
     \/ program = "observer_registry" /\ Bus!Next /\ UNCHANGED <<lru, table, book>>
     \/ program = "order_book" /\ Book!Next /\ UNCHANGED <<lru, table, bus>>
  /\ UNCHANGED program

ExamplesSpec == ExamplesInit /\ [][ExamplesNext]_<<program, lru, table, bus, book>>

\* The symbol table implements a stack of scopes: leaving one drops its declarations
\* and no others, and a scope entered at the same depth later finds none of them.
ScopesNest == Table!Scopes!Spec

\* A name resolves to its declaration in the innermost open scope, the first one there.
ResolvesToInnermost == Table!ResolvesToInnermost

\* When publish() returns, everyone who is subscribed then has been called, in the order
\* of registration and once, whatever the callbacks subscribed and unsubscribed.
PublishReachesAll == [][Bus!PublishReachesAll]_bus

\* The best bid is an order of the highest price with the earliest stamp, and as long as
\* it rests only one with a better price or an earlier stamp takes its place: partial
\* fills, cancellations and equal orders do not.
NoQueueJumping == [][Book!NoQueueJumping]_book
=============================================================================
