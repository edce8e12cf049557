--------------------------- MODULE HashIndexProofs ---------------------------
(***************************************************************************)
(* Proofs about HashIndex, for every number of nodes, keys and buckets and *)
(* every hasher: the table finds what it holds, whatever was spliced,      *)
(* rehashed, rekeyed or rolled back, an iterator survives the erasures     *)
(* around it, and the table is the abstract container with one index.      *)
(***************************************************************************)
EXTENDS HashIndex, SequenceLemmas

-----------------------------------------------------------------------------
(* What a table with the elements E under the keys ks looks like.          *)

\* The bucket, among nb, that a node's cached hash leads to.
Home(h, n, nb) == (h[n] % nb) + 1

\* Equal keys are neighbours.
Grouped(s, ks) ==
  \A i, j, l \in 1..Len(s) :
    i < j /\ j < l /\ ks[s[i]] = ks[s[l]] => ks[s[j]] = ks[s[i]]

ChainsOK(cs, h, ks, E) ==
  /\ cs \in Seq(Seq(Node)) /\ Len(cs) > 0 /\ h \in [Node -> Nat]
  /\ E \subseteq Node
  /\ \A b \in 1..Len(cs) : IsInjective(cs[b]) /\ Grouped(cs[b], ks)
  /\ \A b \in 1..Len(cs) : \A n \in ToSet(cs[b]) : n \in E /\ Home(h, n, Len(cs)) = b
  /\ \A n \in E : ks[n] \in Key /\ h[n] = HashOf[ks[n]] /\ n \in ToSet(cs[Home(h, n, Len(cs))])

TableOK(t, ks, E) ==
  /\ t \in [chain : Seq(Seq(Node)), hash : [Node -> Nat], n : Nat]
  /\ ChainsOK(t.chain, t.hash, ks, E)
  /\ IsFiniteSet(E) /\ t.n = Cardinality(E)

LEMMA Modulo ==
  ASSUME NEW h \in Nat, NEW nb \in Nat \ {0}
  PROVE  (h % nb) + 1 \in 1..nb
OBVIOUS

LEMMA ChainFacts ==
  ASSUME NEW cs, NEW h, NEW ks, NEW E, ChainsOK(cs, h, ks, E)
  PROVE  /\ Len(cs) \in Nat \ {0} /\ DOMAIN cs = 1..Len(cs)
         /\ \A b \in 1..Len(cs) :
              cs[b] \in Seq(Node) /\ Len(cs[b]) \in Nat /\ DOMAIN cs[b] = 1..Len(cs[b])
         /\ \A b \in 1..Len(cs) : \A i \in 1..Len(cs[b]) : cs[b][i] \in ToSet(cs[b])
         /\ \A n \in Node : Home(h, n, Len(cs)) \in 1..Len(cs)
<1>1. Len(cs) \in Nat \ {0} /\ DOMAIN cs = 1..Len(cs)
      /\ \A b \in 1..Len(cs) : cs[b] \in Seq(Node)
  BY LenProperties DEF ChainsOK
<1>2. ASSUME NEW b \in 1..Len(cs)
      PROVE  /\ cs[b] \in Seq(Node) /\ Len(cs[b]) \in Nat /\ DOMAIN cs[b] = 1..Len(cs[b])
             /\ \A i \in 1..Len(cs[b]) : cs[b][i] \in ToSet(cs[b])
  <2>1. cs[b] \in Seq(Node)
    BY <1>1
  <2>2. Len(cs[b]) \in Nat /\ DOMAIN cs[b] = 1..Len(cs[b])
    BY <2>1, LenProperties
  <2> QED
    BY <2>1, <2>2 DEF ToSet
<1>3. ASSUME NEW n \in Node
      PROVE  Home(h, n, Len(cs)) \in 1..Len(cs)
  <2>1. h[n] \in Nat
    BY DEF ChainsOK
  <2> QED
    BY <1>1, <2>1, Modulo DEF Home
<1> QED
  BY <1>1, <1>2, <1>3

-----------------------------------------------------------------------------
(* One chain changes.                                                      *)

LEMMA GroupedInsert ==
  ASSUME NEW ks, NEW s \in Seq(Node), Grouped(s, ks), NEW n \in Node, NEW at \in 0..Len(s),
         IF at = 0 THEN \A j \in 1..Len(s) : ks[s[j]] # ks[n] ELSE ks[s[at]] = ks[n]
  PROVE  Grouped(InsertAt(s, at + 1, n), ks)
<1> DEFINE t == InsertAt(s, at + 1, n)
<1>1. Len(s) \in Nat /\ at + 1 \in 1..(Len(s) + 1)
  BY LenProperties
<1>2. /\ Len(t) = Len(s) + 1
      /\ \A i \in 1..(Len(s) + 1) :
           t[i] = IF i < at + 1 THEN s[i] ELSE IF i = at + 1 THEN n ELSE s[i - 1]
  <2> DEFINE p == at + 1
  <2>1. p \in 1..(Len(s) + 1)
    BY <1>1
  <2> HIDE DEF p
  <2> DEFINE u == InsertAt(s, p, n)
  <2>2. /\ Len(u) = Len(s) + 1
        /\ \A i \in 1..(Len(s) + 1) :
             u[i] = IF i < p THEN s[i] ELSE IF i = p THEN n ELSE s[i - 1]
    BY <2>1, InsertedAt
  <2> HIDE DEF u
  <2>3. t = u
    BY DEF u, p
  <2> HIDE DEF t
  <2> QED
    BY <2>2, <2>3 DEF p
<1> SUFFICES Grouped(t, ks)
  OBVIOUS
<1> HIDE DEF t
<1>3. /\ \A i \in 1..(Len(s) + 1) : i <= at => t[i] = s[i] /\ i \in 1..Len(s)
      /\ t[at + 1] = n
      /\ \A i \in 1..(Len(s) + 1) : i > at + 1 => t[i] = s[i - 1] /\ i - 1 \in 1..Len(s)
  BY <1>1, <1>2
<1> SUFFICES ASSUME NEW i \in 1..(Len(s) + 1), NEW j \in 1..(Len(s) + 1),
                    NEW l \in 1..(Len(s) + 1), i < j, j < l, ks[t[i]] = ks[t[l]]
             PROVE  ks[t[j]] = ks[t[i]]
  BY <1>2 DEF Grouped
<1>4. \A x, y, z \in 1..Len(s) :
        x < y /\ y < z /\ ks[s[x]] = ks[s[z]] => ks[s[y]] = ks[s[x]]
  BY DEF Grouped
<1>5. CASE at = 0
  <2>1. \A x \in 1..Len(s) : ks[s[x]] # ks[n]
    BY <1>5
  <2>2. i # at + 1
    BY SMTT(30), <1>1, <1>3, <1>5, <2>1
  <2>3. i > at + 1 /\ j > at + 1 /\ l > at + 1 /\ i - 1 < j - 1 /\ j - 1 < l - 1
    BY <1>1, <1>5, <2>2
  <2> QED
    BY SMTT(30), <1>3, <1>4, <2>3
<1>6. CASE at # 0
  <2>1. at \in 1..Len(s) /\ ks[s[at]] = ks[n]
    BY <1>1, <1>6
  <2>2. CASE l <= at
    <3>1. i <= at /\ j <= at
      BY <1>1, <2>2
    <3> QED
      BY <1>3, <1>4, <2>2, <3>1
  <2>3. CASE l = at + 1
    <3>1. i <= at /\ j <= at /\ t[l] = n
      BY <1>1, <1>3, <2>3
    <3>2. t[i] = s[i] /\ t[j] = s[j] /\ i \in 1..Len(s) /\ j \in 1..Len(s)
      BY <1>3, <3>1
    <3>3. j = at \/ j < at
      BY <1>1, <3>1
    <3> QED
      BY <1>4, <2>1, <3>1, <3>2, <3>3
  <2>4. CASE l > at + 1
    <3>1. t[l] = s[l - 1] /\ l - 1 \in 1..Len(s) /\ at < l - 1
      BY <1>1, <1>3, <2>4
    <3>2. CASE j <= at
      <4>1. i <= at
        BY <1>1, <3>2
      <4>2. t[i] = s[i] /\ t[j] = s[j] /\ i \in 1..Len(s) /\ j \in 1..Len(s) /\ j < l - 1
        BY <1>1, <1>3, <3>1, <3>2, <4>1
      <4> QED
        BY <1>4, <3>1, <4>2
    <3>3. CASE j = at + 1
      <4>1. i <= at /\ t[j] = n
        BY <1>1, <1>3, <3>3
      <4>2. t[i] = s[i] /\ i \in 1..Len(s) /\ (i = at \/ i < at)
        BY <1>1, <1>3, <4>1
      <4> QED
        BY <1>4, <2>1, <3>1, <4>1, <4>2
    <3>4. CASE j > at + 1
      <4>1. t[j] = s[j - 1] /\ j - 1 \in 1..Len(s) /\ j - 1 < l - 1 /\ at < j - 1
        BY <1>1, <1>3, <3>4
      <4>2. CASE i <= at
        <5>1. t[i] = s[i] /\ i \in 1..Len(s) /\ i < j - 1
          BY <1>1, <1>3, <4>1, <4>2
        <5> QED
          BY <1>4, <3>1, <4>1, <5>1
      <4>3. CASE i = at + 1
        <5>1. t[i] = n
          BY <1>3, <4>3
        <5> QED
          BY <1>4, <2>1, <3>1, <4>1, <5>1
      <4>4. CASE i > at + 1
        <5>1. t[i] = s[i - 1] /\ i - 1 \in 1..Len(s) /\ i - 1 < j - 1
          BY <1>1, <1>3, <4>4
        <5> QED
          BY <1>4, <3>1, <4>1, <5>1
      <4> QED
        BY <1>1, <4>2, <4>3, <4>4
    <3> QED
      BY <1>1, <3>2, <3>3, <3>4
  <2> QED
    BY <1>1, <2>2, <2>3, <2>4
<1> QED
  BY <1>5, <1>6

LEMMA GroupedRemove ==
  ASSUME NEW ks, NEW s \in Seq(Node), IsInjective(s), Grouped(s, ks), NEW n \in ToSet(s)
  PROVE  Grouped(RemoveFirst(s, n), ks)
<1>1. Len(s) \in Nat /\ DOMAIN s = 1..Len(s)
  BY LenProperties
<1>2. PICK at \in 1..Len(s) : s[at] = n
  BY <1>1 DEF ToSet
<1> DEFINE t == RemoveFirst(s, n)
<1>3. /\ Len(t) = Len(s) - 1
      /\ \A i \in 1..(Len(s) - 1) : t[i] = IF i < at THEN s[i] ELSE s[i + 1]
  BY <1>2, RemovedAt
<1> SUFFICES Grouped(t, ks)
  OBVIOUS
<1> HIDE DEF t
<1> DEFINE up(i) == IF i < at THEN i ELSE i + 1
<1>4. /\ \A i \in 1..(Len(s) - 1) : up(i) \in 1..Len(s) /\ t[i] = s[up(i)]
      /\ \A i, j \in 1..(Len(s) - 1) : i < j => up(i) < up(j)
  BY <1>1, <1>3
<1> HIDE DEF up
<1> SUFFICES ASSUME NEW i \in 1..(Len(s) - 1), NEW j \in 1..(Len(s) - 1),
                    NEW l \in 1..(Len(s) - 1), i < j, j < l, ks[t[i]] = ks[t[l]]
             PROVE  ks[t[j]] = ks[t[i]]
  BY <1>3 DEF Grouped
<1>5. /\ up(i) \in 1..Len(s) /\ up(j) \in 1..Len(s) /\ up(l) \in 1..Len(s)
      /\ up(i) < up(j) /\ up(j) < up(l) /\ ks[s[up(i)]] = ks[s[up(l)]]
  BY <1>4
<1>6. ks[s[up(j)]] = ks[s[up(i)]]
  BY <1>5 DEF Grouped
<1> QED
  BY <1>4, <1>6

LEMMA ChainWithNode ==
  ASSUME NEW cs, NEW h, NEW ks, NEW E, ChainsOK(cs, h, ks, E),
         NEW n \in Node \ E, ks[n] \in Key,
         NEW b, b = (HashOf[ks[n]] % Len(cs)) + 1,
         NEW c \in Seq(Node), IsInjective(c), Grouped(c, ks), ToSet(c) = ToSet(cs[b]) \cup {n}
  PROVE  ChainsOK([cs EXCEPT ![b] = c], [h EXCEPT ![n] = HashOf[ks[n]]], ks, E \cup {n})
<1> DEFINE cs2 == [cs EXCEPT ![b] = c]
           h2 == [h EXCEPT ![n] = HashOf[ks[n]]]
<1>1. Len(cs) \in Nat \ {0} /\ cs \in Seq(Seq(Node)) /\ Len(cs) > 0 /\ h \in [Node -> Nat]
  BY ChainFacts DEF ChainsOK
<1>2. HashOf[ks[n]] \in Nat
  BY HashAssumption
<1>3. b \in 1..Len(cs)
  BY <1>1, <1>2, Modulo
<1>4. /\ cs2 \in Seq(Seq(Node)) /\ Len(cs2) = Len(cs)
      /\ \A j \in 1..Len(cs) : cs2[j] = IF j = b THEN c ELSE cs[j]
  BY <1>1, <1>3, ExceptSeq
<1>5. /\ h2 \in [Node -> Nat] /\ h2[n] = HashOf[ks[n]]
      /\ \A m \in Node : m # n => h2[m] = h[m]
  BY <1>1, <1>2
<1> HIDE DEF cs2, h2
<1>6. /\ Home(h2, n, Len(cs)) = b
      /\ \A m \in E : Home(h2, m, Len(cs)) = Home(h, m, Len(cs)) /\ h2[m] = h[m]
  BY <1>5 DEF Home, ChainsOK
<1>7. \A j \in 1..Len(cs) : IsInjective(cs2[j]) /\ Grouped(cs2[j], ks)
  BY <1>4 DEF ChainsOK
<1>8. \A j \in 1..Len(cs) : ToSet(cs2[j]) = IF j = b THEN ToSet(cs[j]) \cup {n} ELSE ToSet(cs[j])
  BY <1>4
<1>9. \A j \in 1..Len(cs) : \A m \in ToSet(cs2[j]) :
        m \in E \cup {n} /\ Home(h2, m, Len(cs)) = j
  BY <1>6, <1>8 DEF ChainsOK
<1>10. \A m \in E \cup {n} :
         ks[m] \in Key /\ h2[m] = HashOf[ks[m]] /\ m \in ToSet(cs2[Home(h2, m, Len(cs))])
  <2>1. \A m \in E : /\ ks[m] \in Key /\ h[m] = HashOf[ks[m]]
                     /\ Home(h, m, Len(cs)) \in 1..Len(cs)
                     /\ m \in ToSet(cs[Home(h, m, Len(cs))])
    BY ChainFacts DEF ChainsOK
  <2>2. \A m \in E : m \in ToSet(cs2[Home(h, m, Len(cs))])
    BY <1>8, <2>1
  <2>3. n \in ToSet(cs2[b])
    BY <1>3, <1>8
  <2> QED
    BY <1>5, <1>6, <2>1, <2>2, <2>3
<1>11. E \cup {n} \subseteq Node
  BY DEF ChainsOK
<1>12. ChainsOK(cs2, h2, ks, E \cup {n})
  BY <1>1, <1>4, <1>5, <1>7, <1>9, <1>10, <1>11 DEF ChainsOK
<1> QED
  BY <1>12 DEF cs2, h2

LEMMA ChainWithoutNode ==
  ASSUME NEW cs, NEW h, NEW ks, NEW E, ChainsOK(cs, h, ks, E), NEW n \in E,
         NEW b, b = Home(h, n, Len(cs)),
         NEW c \in Seq(Node), IsInjective(c), Grouped(c, ks), ToSet(c) = ToSet(cs[b]) \ {n}
  PROVE  ChainsOK([cs EXCEPT ![b] = c], h, ks, E \ {n})
<1> DEFINE cs2 == [cs EXCEPT ![b] = c]
<1>1. /\ Len(cs) \in Nat \ {0} /\ cs \in Seq(Seq(Node)) /\ Len(cs) > 0 /\ h \in [Node -> Nat]
      /\ \A m \in E : Home(h, m, Len(cs)) \in 1..Len(cs)
  BY ChainFacts DEF ChainsOK
<1>2. b \in 1..Len(cs)
  BY <1>1
<1>4. /\ cs2 \in Seq(Seq(Node)) /\ Len(cs2) = Len(cs)
      /\ \A j \in 1..Len(cs) : cs2[j] = IF j = b THEN c ELSE cs[j]
  BY <1>1, <1>2, ExceptSeq
<1> HIDE DEF cs2
<1>7. \A j \in 1..Len(cs) : IsInjective(cs2[j]) /\ Grouped(cs2[j], ks)
  BY <1>4 DEF ChainsOK
<1>8. \A j \in 1..Len(cs) : ToSet(cs2[j]) = IF j = b THEN ToSet(cs[j]) \ {n} ELSE ToSet(cs[j])
  BY <1>4
<1>9. \A j \in 1..Len(cs) : \A m \in ToSet(cs2[j]) : m \in E \ {n} /\ Home(h, m, Len(cs)) = j
  <2>1. \A j \in 1..Len(cs) : \A m \in ToSet(cs[j]) : m \in E /\ Home(h, m, Len(cs)) = j
    BY DEF ChainsOK
  <2> QED
    BY <1>8, <2>1
<1>10. \A m \in E \ {n} :
         ks[m] \in Key /\ h[m] = HashOf[ks[m]] /\ m \in ToSet(cs2[Home(h, m, Len(cs))])
  BY <1>1, <1>8 DEF ChainsOK
<1>11. E \ {n} \subseteq Node
  BY DEF ChainsOK
<1>12. ChainsOK(cs2, h, ks, E \ {n})
  BY <1>1, <1>4, <1>7, <1>9, <1>10, <1>11 DEF ChainsOK
<1> QED
  BY <1>12 DEF cs2

-----------------------------------------------------------------------------
(* The order in which an iterator meets the elements.                      *)

\* m's bucket comes before n's, or m is in front of n in the bucket of both.
Before(cs, h, m, n) ==
  \/ Home(h, m, Len(cs)) < Home(h, n, Len(cs))
  \/ /\ Home(h, m, Len(cs)) = Home(h, n, Len(cs))
     /\ \E i, j \in 1..Len(cs[Home(h, n, Len(cs))]) :
          /\ i < j
          /\ cs[Home(h, n, Len(cs))][i] = m
          /\ cs[Home(h, n, Len(cs))][j] = n

\* FlattenSeq puts all elements in that order, equal keys next to each other.
LEMMA OrderFacts ==
  ASSUME NEW cs, NEW h, NEW ks, NEW E, ChainsOK(cs, h, ks, E)
  PROVE  LET f == FlattenSeq(cs)
         IN  /\ f \in Seq(Node) /\ IsInjective(f) /\ ToSet(f) = E /\ Grouped(f, ks)
             /\ \A i, j \in 1..Len(f) : i < j => Before(cs, h, f[i], f[j])
<1> DEFINE f == FlattenSeq(cs)
           L == Len(cs)
<1>1. f \in Seq(Node) /\ IsFlat(f, cs, L)
  BY Flattened DEF ChainsOK
<1> HIDE DEF f
<1>2. Len(f) \in Nat /\ DOMAIN f = 1..Len(f)
  BY <1>1, LenProperties
<1>3. PICK p, q : ComesFrom(f, cs, L, p, q)
  BY <1>1 DEF IsFlat
<1>4. /\ p \in [1..Len(f) -> 1..L] /\ q \in [1..Len(f) -> Nat]
      /\ \A j \in 1..Len(f) : q[j] \in 1..Len(cs[p[j]]) /\ f[j] = cs[p[j]][q[j]]
      /\ \A i, j \in 1..Len(f) : i < j => p[i] < p[j] \/ (p[i] = p[j] /\ q[i] < q[j])
      /\ \A b \in 1..L : \A i \in 1..Len(cs[b]) : \E j \in 1..Len(f) : p[j] = b /\ q[j] = i
  BY <1>3 DEF ComesFrom
<1>5. ASSUME NEW j \in 1..Len(f)
      PROVE  /\ p[j] \in 1..L /\ f[j] \in ToSet(cs[p[j]]) /\ f[j] \in E
             /\ Home(h, f[j], L) = p[j]
  <2>1. p[j] \in 1..L /\ q[j] \in 1..Len(cs[p[j]]) /\ f[j] = cs[p[j]][q[j]]
    BY <1>4
  <2>2. f[j] \in ToSet(cs[p[j]])
    BY <2>1, ChainFacts
  <2> QED
    BY <2>1, <2>2 DEF ChainsOK
<1>6. \A i, j \in 1..Len(f) : i < j => Before(cs, h, f[i], f[j])
  <2> SUFFICES ASSUME NEW i \in 1..Len(f), NEW j \in 1..Len(f), i < j
               PROVE  Before(cs, h, f[i], f[j])
    OBVIOUS
  <2>1. Home(h, f[i], L) = p[i] /\ Home(h, f[j], L) = p[j]
    BY <1>5
  <2>2. CASE p[i] < p[j]
    BY <2>1, <2>2 DEF Before
  <2>3. CASE p[i] = p[j] /\ q[i] < q[j]
    <3>1. /\ q[i] \in 1..Len(cs[p[j]]) /\ q[j] \in 1..Len(cs[p[j]])
          /\ f[i] = cs[p[j]][q[i]] /\ f[j] = cs[p[j]][q[j]]
      BY <1>4, <2>3
    <3> QED
      BY <2>1, <2>3, <3>1 DEF Before
  <2> QED
    BY <1>4, <2>2, <2>3
<1>7. ASSUME NEW i \in 1..Len(f), NEW j \in 1..Len(f), i < j PROVE f[i] # f[j]
  <2> SUFFICES ASSUME f[i] = f[j] PROVE FALSE
    OBVIOUS
  <2>1. p[i] = p[j] /\ p[j] \in 1..L
    BY <1>5
  <2>2. q[i] < q[j]
    <3>1. p[i] < p[j] \/ (p[i] = p[j] /\ q[i] < q[j])
      BY <1>4, <1>7
    <3>2. p[j] \in Nat
      BY <2>1, ChainFacts
    <3> QED
      BY <2>1, <3>1, <3>2
  <2>3. /\ q[i] \in 1..Len(cs[p[j]]) /\ q[j] \in 1..Len(cs[p[j]])
        /\ cs[p[j]][q[i]] = cs[p[j]][q[j]]
    BY <1>4, <2>1
  <2>4. IsInjective(cs[p[j]]) /\ DOMAIN cs[p[j]] = 1..Len(cs[p[j]]) /\ Len(cs[p[j]]) \in Nat
    BY <2>1, ChainFacts DEF ChainsOK
  <2>5. q[i] = q[j]
    BY <2>3, <2>4 DEF IsInjective
  <2> QED
    BY <2>2, <2>3, <2>4, <2>5
<1>8. IsInjective(f)
  <2>1. ASSUME NEW i \in 1..Len(f), NEW j \in 1..Len(f), f[i] = f[j] PROVE i = j
    <3>1. ~(i < j) /\ ~(j < i)
      BY <1>7, <2>1
    <3> QED
      BY <1>2, <3>1
  <2> QED
    BY <1>2, <2>1 DEF IsInjective
<1>9. ToSet(f) = E
  <2>1. ToSet(f) \subseteq E
    BY <1>2, <1>5 DEF ToSet
  <2>2. ASSUME NEW n \in E PROVE n \in ToSet(f)
    <3>1. Home(h, n, L) \in 1..L /\ n \in ToSet(cs[Home(h, n, L)])
      BY ChainFacts DEF ChainsOK
    <3>2. PICK i \in 1..Len(cs[Home(h, n, L)]) : cs[Home(h, n, L)][i] = n
      BY <3>1, ChainFacts DEF ToSet
    <3>3. PICK j \in 1..Len(f) : p[j] = Home(h, n, L) /\ q[j] = i
      BY <1>4, <3>1, <3>2
    <3>4. f[j] = n
      BY <1>4, <3>2, <3>3
    <3> QED
      BY <1>2, <3>4 DEF ToSet
  <2> QED
    BY <2>1, <2>2
<1>10. Grouped(f, ks)
  <2> SUFFICES ASSUME NEW i \in 1..Len(f), NEW j \in 1..Len(f), NEW l \in 1..Len(f),
                      i < j, j < l, ks[f[i]] = ks[f[l]]
               PROVE  ks[f[j]] = ks[f[i]]
    BY DEF Grouped
  <2>1. p[i] = p[l]
    <3>1. f[i] \in E /\ f[l] \in E /\ Home(h, f[i], L) = p[i] /\ Home(h, f[l], L) = p[l]
      BY <1>5
    <3>2. h[f[i]] = h[f[l]]
      BY <3>1 DEF ChainsOK
    <3> QED
      BY <3>1, <3>2 DEF Home
  <2>2. p[i] \in Nat /\ p[j] \in Nat /\ p[l] \in Nat /\ p[i] \in 1..L
    BY <1>5, ChainFacts
  <2>3. p[i] < p[j] \/ (p[i] = p[j] /\ q[i] < q[j])
    BY <1>4
  <2>4. p[j] < p[l] \/ (p[j] = p[l] /\ q[j] < q[l])
    BY <1>4
  <2>5. p[i] = p[j] /\ p[l] = p[j] /\ q[i] < q[j] /\ q[j] < q[l]
    BY <2>1, <2>2, <2>3, <2>4
  <2>6. /\ q[i] \in 1..Len(cs[p[j]]) /\ q[j] \in 1..Len(cs[p[j]]) /\ q[l] \in 1..Len(cs[p[j]])
        /\ f[i] = cs[p[j]][q[i]] /\ f[j] = cs[p[j]][q[j]] /\ f[l] = cs[p[j]][q[l]]
    BY <1>4, <2>5
  <2>7. Grouped(cs[p[j]], ks)
    BY <2>2, <2>5 DEF ChainsOK
  <2> DEFINE s == cs[p[j]]
  <2>8. ASSUME NEW x \in 1..Len(s), NEW y \in 1..Len(s), NEW z \in 1..Len(s),
               x < y, y < z, ks[s[x]] = ks[s[z]]
        PROVE  ks[s[y]] = ks[s[x]]
    BY <2>7, <2>8 DEF Grouped
  <2>9. /\ q[i] \in 1..Len(s) /\ q[j] \in 1..Len(s) /\ q[l] \in 1..Len(s)
        /\ f[i] = s[q[i]] /\ f[j] = s[q[j]] /\ f[l] = s[q[l]]
    BY <2>6
  <2> HIDE DEF s
  <2>10. ks[s[q[i]]] = ks[s[q[l]]]
    BY <2>9
  <2>11. ks[s[q[j]]] = ks[s[q[i]]]
    BY <2>5, <2>8, <2>9, <2>10
  <2> QED
    BY <2>9, <2>11
<1> QED
  BY <1>1, <1>6, <1>8, <1>9, <1>10 DEF f

-----------------------------------------------------------------------------
(* Rehashing.                                                              *)

\* The first k nodes of the order have been refiled, each in front of the earlier ones.
RefiledUpTo(cs, order, h, nb, k) ==
  /\ cs \in [1..nb -> Seq(Node)]
  /\ \A b \in 1..nb : \A x \in 1..Len(cs[b]) :
       \E u \in 1..k : order[u] = cs[b][x] /\ Home(h, order[u], nb) = b
  /\ \A u \in 1..k : order[u] \in ToSet(cs[Home(h, order[u], nb)])
  /\ \A b \in 1..nb : \A x, y \in 1..Len(cs[b]) : \A u, v \in 1..k :
       x < y /\ order[u] = cs[b][x] /\ order[v] = cs[b][y] => v < u

LEMMA OneMoreRefiled ==
  ASSUME NEW order \in Seq(Node), IsInjective(order), NEW h \in [Node -> Nat],
         NEW nb \in Nat \ {0}, NEW k \in 1..Len(order),
         NEW cs, RefiledUpTo(cs, order, h, nb, k - 1)
  PROVE  LET b == Home(h, order[k], nb)
         IN  RefiledUpTo([cs EXCEPT ![b] = Cons(order[k], cs[b])], order, h, nb, k)
<1> DEFINE n == order[k]
           b == Home(h, n, nb)
           c == Cons(n, cs[b])
           cs2 == [cs EXCEPT ![b] = c]
<1>1. /\ Len(order) \in Nat /\ k \in Nat /\ k >= 1 /\ k - 1 \in Nat
      /\ \A u \in 1..k : order[u] \in Node
      /\ \A u, v \in 1..k : order[u] = order[v] => u = v
      /\ \A u \in 1..k : u = k \/ u \in 1..(k - 1)
      /\ \A u \in 1..(k - 1) : u \in 1..k /\ u < k
  <2>1. Len(order) \in Nat /\ DOMAIN order = 1..Len(order) /\ \A u \in 1..Len(order) : order[u] \in Node
    BY LenProperties
  <2>2. k \in Nat /\ k >= 1 /\ k - 1 \in Nat /\ 1..k \subseteq 1..Len(order)
    BY <2>1
  <2>3. \A u \in 1..k : u = k \/ u \in 1..(k - 1)
    BY <2>2
  <2>4. \A u \in 1..(k - 1) : u \in 1..k /\ u < k
    BY <2>2
  <2> QED
    BY <2>1, <2>2, <2>3, <2>4 DEF IsInjective
<1>2. n \in Node /\ h[n] \in Nat /\ b \in 1..nb
  <2>1. n \in Node /\ h[n] \in Nat
    BY <1>1
  <2> QED
    BY <2>1, Modulo DEF Home
<1> HIDE DEF b, n
<1>3. /\ cs \in [1..nb -> Seq(Node)]
      /\ \A a \in 1..nb : \A x \in 1..Len(cs[a]) :
           \E u \in 1..(k - 1) : order[u] = cs[a][x] /\ Home(h, order[u], nb) = a
      /\ \A u \in 1..(k - 1) : order[u] \in ToSet(cs[Home(h, order[u], nb)])
      /\ \A a \in 1..nb : \A x, y \in 1..Len(cs[a]) : \A u, v \in 1..(k - 1) :
           x < y /\ order[u] = cs[a][x] /\ order[v] = cs[a][y] => v < u
  BY DEF RefiledUpTo
<1>4. /\ c \in Seq(Node) /\ Len(c) = Len(cs[b]) + 1 /\ c[1] = n
      /\ \A i \in 2..(Len(cs[b]) + 1) : c[i] = cs[b][i - 1]
      /\ ToSet(c) = ToSet(cs[b]) \cup {n} /\ Len(cs[b]) \in Nat
  <2>1. cs[b] \in Seq(Node)
    BY <1>2, <1>3
  <2>2. Len(cs[b]) \in Nat
    BY <2>1, LenProperties
  <2> DEFINE s == cs[b]
  <2>3. s \in Seq(Node)
    BY <2>1
  <2> HIDE DEF s
  <2> DEFINE t == Cons(n, s)
  <2>4. /\ t \in Seq(Node) /\ Len(t) = Len(s) + 1 /\ t[1] = n
        /\ \A i \in 2..(Len(s) + 1) : t[i] = s[i - 1]
        /\ ToSet(t) = ToSet(s) \cup {n}
        /\ IsInjective(s) /\ n \notin ToSet(s) => IsInjective(t)
    BY <1>2, <2>3, Consed
  <2> HIDE DEF t
  <2>5. c = t
    BY DEF t, s
  <2> QED
    BY <2>2, <2>4, <2>5 DEF s
<1> HIDE DEF c
<1>5. /\ cs2 \in [1..nb -> Seq(Node)]
      /\ \A a \in 1..nb : cs2[a] = IF a = b THEN c ELSE cs[a]
  BY <1>2, <1>3, <1>4
<1> HIDE DEF cs2
<1>6. ASSUME NEW a \in 1..nb, NEW x \in 1..Len(cs2[a])
      PROVE  \E u \in 1..k : order[u] = cs2[a][x] /\ Home(h, order[u], nb) = a
  <2>1. CASE a # b
    <3>1. x \in 1..Len(cs[a]) /\ cs2[a][x] = cs[a][x]
      BY <1>5, <2>1
    <3>2. PICK u \in 1..(k - 1) : order[u] = cs[a][x] /\ Home(h, order[u], nb) = a
      BY <1>3, <3>1
    <3> QED
      BY <1>1, <3>1, <3>2
  <2>2. CASE a = b /\ x = 1
    <3>1. k \in 1..k /\ order[k] = cs2[a][x] /\ Home(h, order[k], nb) = a
      BY SMTT(30), <1>1, <1>4, <1>5, <2>2 DEF n, b
    <3> QED
      BY <3>1
  <2>3. CASE a = b /\ x # 1
    <3>1. x \in 2..(Len(cs[b]) + 1) /\ x - 1 \in 1..Len(cs[b]) /\ cs2[a] = c
      <4>1. cs2[a] = c /\ x \in 1..(Len(cs[b]) + 1) /\ Len(cs[b]) \in Nat
        BY <1>4, <1>5, <2>3
      <4> QED
        BY <2>3, <4>1
    <3>2. cs2[a][x] = cs[b][x - 1]
      BY <1>4, <3>1
    <3>3. PICK u \in 1..(k - 1) : order[u] = cs[b][x - 1] /\ Home(h, order[u], nb) = b
      BY <1>2, <1>3, <3>1
    <3> QED
      BY <1>1, <2>3, <3>2, <3>3
  <2> QED
    BY <2>1, <2>2, <2>3
<1>7. ASSUME NEW u \in 1..k
      PROVE  order[u] \in ToSet(cs2[Home(h, order[u], nb)])
  <2>1. CASE u = k
    BY <1>2, <1>4, <1>5, <2>1 DEF n, b
  <2>2. CASE u \in 1..(k - 1)
    <3>1. order[u] \in Node /\ h[order[u]] \in Nat
      BY <1>1
    <3>2. Home(h, order[u], nb) \in 1..nb
      BY <3>1, Modulo DEF Home
    <3> QED
      BY <1>3, <1>4, <1>5, <2>2, <3>2
  <2> QED
    BY <1>1, <2>1, <2>2
<1>8. ASSUME NEW a \in 1..nb, NEW x \in 1..Len(cs2[a]), NEW y \in 1..Len(cs2[a]),
             NEW u \in 1..k, NEW v \in 1..k,
             x < y, order[u] = cs2[a][x], order[v] = cs2[a][y]
      PROVE  v < u
  <2>1. \A z \in 1..Len(cs[a]) : \A w \in 1..k : order[w] = cs[a][z] => w \in 1..(k - 1)
    <3> SUFFICES ASSUME NEW z \in 1..Len(cs[a]), NEW w \in 1..k, order[w] = cs[a][z]
                 PROVE  w \in 1..(k - 1)
      OBVIOUS
    <3>1. PICK w2 \in 1..(k - 1) : order[w2] = cs[a][z]
      BY <1>3
    <3> QED
      BY <1>1, <3>1
  <2>2. CASE a # b
    <3>1. x \in 1..Len(cs[a]) /\ y \in 1..Len(cs[a]) /\ order[u] = cs[a][x] /\ order[v] = cs[a][y]
      BY <1>5, <1>8, <2>2
    <3>2. u \in 1..(k - 1) /\ v \in 1..(k - 1)
      BY <2>1, <3>1
    <3> QED
      BY <1>3, <1>8, <3>1, <3>2
  <2>3. CASE a = b
    <3>0. /\ cs2[a] = c /\ Len(cs[b]) \in Nat
          /\ x \in 1..(Len(cs[b]) + 1) /\ y \in 1..(Len(cs[b]) + 1) /\ x < y
      BY <1>4, <1>5, <1>8, <2>3
    <3>1. y \in 2..(Len(cs[b]) + 1) /\ y - 1 \in 1..Len(cs[a]) /\ order[v] = cs[a][y - 1]
      <4>1. y \in 2..(Len(cs[b]) + 1) /\ y - 1 \in 1..Len(cs[b]) /\ cs2[a] = c
        BY <3>0
      <4>2. c[y] = cs[b][y - 1]
        BY <1>4, <4>1
      <4> QED
        BY <1>8, <2>3, <4>1, <4>2
    <3>2. v \in 1..(k - 1)
      BY <2>1, <3>1
    <3>3. CASE x = 1
      <4>1. order[u] = n
        BY <1>4, <1>5, <1>8, <2>3, <3>3
      <4>2. u = k
        BY <1>1, <4>1 DEF n
      <4> QED
        BY <1>1, <3>2, <4>2
    <3>4. CASE x # 1
      <4>1. x \in 2..(Len(cs[b]) + 1) /\ x - 1 \in 1..Len(cs[a]) /\ cs2[a] = c /\ x - 1 < y - 1
        BY <2>3, <3>0, <3>4
      <4>2. order[u] = cs[a][x - 1]
        BY <1>4, <1>8, <2>3, <4>1
      <4>3. u \in 1..(k - 1)
        BY <2>1, <4>1, <4>2
      <4>4. ASSUME NEW x2 \in 1..Len(cs[a]), NEW y2 \in 1..Len(cs[a]), x2 < y2,
                   order[u] = cs[a][x2], order[v] = cs[a][y2]
            PROVE  v < u
        BY <1>3, <3>2, <4>3, <4>4
      <4> QED
        BY <3>1, <4>1, <4>2, <4>4
    <3> QED
      BY <3>3, <3>4
  <2> QED
    BY <2>2, <2>3
<1>9. RefiledUpTo(cs2, order, h, nb, k)
  BY <1>5, <1>6, <1>7, <1>8 DEF RefiledUpTo
<1> QED
  BY <1>9 DEF cs2, c, b, n

LEMMA RefiledAll ==
  ASSUME NEW order \in Seq(Node), IsInjective(order), NEW h \in [Node -> Nat],
         NEW nb \in Nat \ {0}
  PROVE  RefiledUpTo(Refiled(order, h, nb), order, h, nb, Len(order))
<1> DEFINE L == Len(order)
           X == [1..nb -> Seq(Node)]
           none == [b \in 1..nb |-> <<>>]
           Put(i, cs) == [cs EXCEPT ![(h[order[i]] % nb) + 1] = Cons(order[i], @)]
           f == [z \in Nat \X X |-> IF z[1] \in 1..L THEN Put(z[1], z[2]) ELSE z[2]]
<1>1. L \in Nat /\ \A i \in 1..L : order[i] \in Node
  BY LenProperties
<1>2. none \in X
  BY EmptySeq
<1>3. ASSUME NEW i \in 1..L, NEW cs \in X
      PROVE  Put(i, cs) \in X
  <2> DEFINE b == (h[order[i]] % nb) + 1
             s == cs[b]
             n == order[i]
  <2>1. n \in Node /\ h[n] \in Nat /\ b \in 1..nb
    <3>1. n \in Node /\ h[n] \in Nat
      BY <1>1
    <3> QED
      BY <3>1, Modulo
  <2> HIDE DEF b, n
  <2>2. s \in Seq(Node)
    BY <2>1
  <2> DEFINE t == Cons(n, s)
  <2> HIDE DEF s
  <2>3. /\ t \in Seq(Node) /\ Len(t) = Len(s) + 1 /\ t[1] = n
        /\ \A j \in 2..(Len(s) + 1) : t[j] = s[j - 1]
        /\ ToSet(t) = ToSet(s) \cup {n}
        /\ IsInjective(s) /\ n \notin ToSet(s) => IsInjective(t)
    BY <2>1, <2>2, Consed
  <2> HIDE DEF t
  <2>4. [cs EXCEPT ![b] = t] \in X
    BY <2>3
  <2> QED
    BY <2>4 DEF t, s, b, n
<1> HIDE DEF Put
<1>4. f \in [Nat \X X -> X]
  <2>1. ASSUME NEW i \in Nat, NEW cs \in X
        PROVE  (IF i \in 1..L THEN Put(i, cs) ELSE cs) \in X
    BY <1>3
  <2> HIDE DEF L, X
  <2> QED
    BY <2>1
<1>5. \A i \in 1..L, cs \in X : f[<<i, cs>>] = Put(i, cs)
  <2>1. \A i \in 1..L : i \in Nat
    BY <1>1
  <2> HIDE DEF L, X
  <2> QED
    BY <2>1
<1> HIDE DEF f, X, L, none
<1>6. PICK g : IsIteration(g, X, none, 0, L, f)
  BY <1>1, <1>2, <1>4, Iterated
<1>7. /\ g \in [0..L -> X]
      /\ \A i \in 0..L : g[i] = IF i = 0 THEN none ELSE f[<<i, g[i - 1]>>]
  <2>1. 0..(0 + L) = 0..L
    BY <1>1
  <2> QED
    BY <1>6, <2>1 DEF IsIteration
<1>8. g = [i \in 0..L |-> IF i = 0 THEN none ELSE Put(i, g[i - 1])]
  <2>1. ASSUME NEW i \in 0..L
        PROVE  g[i] = IF i = 0 THEN none ELSE Put(i, g[i - 1])
    <3>1. CASE i = 0
      BY <1>7, <3>1
    <3>2. CASE i # 0
      <4>1. i \in 1..L /\ i - 1 \in 0..L
        BY <1>1, <3>2
      <4>2. g[i - 1] \in X
        BY <1>7, <4>1
      <4>3. g[i] = f[<<i, g[i - 1]>>]
        BY <1>7, <3>2
      <4> QED
        BY <1>5, <3>2, <4>1, <4>2, <4>3
    <3> QED
      BY <3>1, <3>2
  <2> QED
    BY <1>7, <2>1
<1> DEFINE filed == CHOOSE filed : filed = [i \in 0..L |-> IF i = 0 THEN none ELSE Put(i, filed[i - 1])]
<1>9. filed = [i \in 0..L |-> IF i = 0 THEN none ELSE Put(i, filed[i - 1])]
  BY <1>8
<1>10. Refiled(order, h, nb) = filed[L]
  BY DEF Refiled, Put, L, none
<1> HIDE DEF filed
<1> DEFINE T == {j \in Nat : j <= L => RefiledUpTo(filed[j], order, h, nb, j)}
<1>11. 0 \in T
  <2>1. filed[0] = none
    BY <1>1, <1>9
  <2>2. RefiledUpTo(none, order, h, nb, 0)
    <3>1. \A b \in 1..nb : none[b] = <<>> /\ Len(<<>>) = 0
      BY EmptySeq DEF none
    <3>2. none \in [1..nb -> Seq(Node)]
      BY <1>2 DEF X
    <3>3. 1..0 = {}
      OBVIOUS
    <3> QED
      BY <3>1, <3>2, <3>3 DEF RefiledUpTo
  <2> QED
    BY <2>1, <2>2
<1>12. ASSUME NEW j \in Nat, j \in T PROVE j + 1 \in T
  <2> SUFFICES ASSUME j + 1 <= L PROVE RefiledUpTo(filed[j + 1], order, h, nb, j + 1)
    OBVIOUS
  <2> DEFINE k == j + 1
             b == Home(h, order[k], nb)
  <2>1. k \in 1..L /\ k - 1 = j /\ k \in 0..L /\ k # 0 /\ j \in 0..L
    BY <1>1
  <2>2. RefiledUpTo(filed[k - 1], order, h, nb, k - 1)
    BY <1>12, <2>1, <1>1
  <2> HIDE DEF k
  <2>3. filed[k] = Put(k, filed[k - 1])
    BY <1>9, <2>1
  <2>4. filed[k] = [filed[k - 1] EXCEPT ![b] = Cons(order[k], filed[k - 1][b])]
    BY <2>3 DEF Put, Home
  <2>5. RefiledUpTo([filed[k - 1] EXCEPT ![b] = Cons(order[k], filed[k - 1][b])], order, h, nb, k)
    <3>1. k \in 1..Len(order)
      BY <2>1 DEF L
    <3> DEFINE cs == filed[k - 1]
    <3>2. RefiledUpTo(cs, order, h, nb, k - 1)
      BY <2>2
    <3> HIDE DEF cs
    <3>3. RefiledUpTo([cs EXCEPT ![b] = Cons(order[k], cs[b])], order, h, nb, k)
      BY <3>1, <3>2, OneMoreRefiled
    <3> QED
      BY <3>3 DEF cs
  <2> QED
    BY <2>4, <2>5 DEF k
<1>13. L \in T
  <2> HIDE DEF T
  <2> QED
    BY <1>1, <1>11, <1>12, InductiveSet
<1> QED
  BY <1>1, <1>10, <1>13 DEF L

\* Rehashing moves every node to its new bucket and keeps equal keys together.
LEMMA RehashedOK ==
  ASSUME NEW cs, NEW h, NEW ks, NEW E, ChainsOK(cs, h, ks, E), NEW nb \in Nat \ {0}
  PROVE  ChainsOK(Refiled(FlattenSeq(cs), h, nb), h, ks, E)
<1> DEFINE order == FlattenSeq(cs)
           new == Refiled(order, h, nb)
<1>1. order \in Seq(Node) /\ IsInjective(order) /\ ToSet(order) = E /\ Grouped(order, ks)
  BY OrderFacts
<1>2. h \in [Node -> Nat] /\ E \subseteq Node
  BY DEF ChainsOK
<1> HIDE DEF order
<1>3. RefiledUpTo(new, order, h, nb, Len(order))
  BY <1>1, <1>2, RefiledAll
<1> HIDE DEF new
<1>4. Len(order) \in Nat /\ DOMAIN order = 1..Len(order)
  BY <1>1, LenProperties
<1>5. /\ new \in [1..nb -> Seq(Node)]
      /\ \A b \in 1..nb : \A x \in 1..Len(new[b]) :
           \E u \in 1..Len(order) : order[u] = new[b][x] /\ Home(h, order[u], nb) = b
      /\ \A u \in 1..Len(order) : order[u] \in ToSet(new[Home(h, order[u], nb)])
      /\ \A b \in 1..nb : \A x, y \in 1..Len(new[b]) : \A u, v \in 1..Len(order) :
           x < y /\ order[u] = new[b][x] /\ order[v] = new[b][y] => v < u
  BY <1>3 DEF RefiledUpTo
<1>5a. \A b \in 1..nb : \A x \in 1..Len(new[b]) : \E u \in 1..Len(order) : order[u] = new[b][x]
  <2> HIDE DEF new, order
  <2> QED
    BY <1>5
<1>6. new \in Seq(Seq(Node)) /\ Len(new) = nb /\ nb > 0
  <2>1. new \in Seq(Seq(Node))
    BY <1>5, SeqDef
  <2>2. Len(new) \in Nat /\ DOMAIN new = 1..Len(new) /\ DOMAIN new = 1..nb
    BY <1>5, <2>1, LenProperties
  <2> DEFINE m == Len(new)
  <2>3. m \in Nat /\ 1..m = 1..nb
    BY <2>2
  <2> HIDE DEF m
  <2>4. nb \in 1..nb
    OBVIOUS
  <2>5. nb \in 1..m
    BY <2>3, <2>4
  <2>6. m \in 1..m
    BY <2>3, <2>5
  <2>7. m \in 1..nb
    BY <2>3, <2>6
  <2>8. m = nb
    BY <2>3, <2>5, <2>7
  <2> QED
    BY <2>1, <2>8 DEF m
<1>7. ASSUME NEW b \in 1..nb
      PROVE  /\ new[b] \in Seq(Node) /\ Len(new[b]) \in Nat /\ DOMAIN new[b] = 1..Len(new[b])
  BY <1>5, LenProperties
<1>8. ASSUME NEW b \in 1..nb PROVE IsInjective(new[b])
  <2>1. ASSUME NEW x \in 1..Len(new[b]), NEW y \in 1..Len(new[b]), x < y
        PROVE  new[b][x] # new[b][y]
    <3>1. PICK u \in 1..Len(order) : order[u] = new[b][x]
      BY <1>5a
    <3>2. new[b][y] = new[b][x] => u < u
      BY <1>5, <2>1, <3>1
    <3> QED
      BY <1>4, <3>2
  <2>2. \A x, y \in 1..Len(new[b]) : x < y \/ y < x \/ x = y
    BY <1>7
  <2> QED
    BY <1>7, <2>1, <2>2 DEF IsInjective
<1>9. ASSUME NEW b \in 1..nb PROVE Grouped(new[b], ks)
  <2> SUFFICES ASSUME NEW i \in 1..Len(new[b]), NEW j \in 1..Len(new[b]), NEW l \in 1..Len(new[b]),
                      i < j, j < l, ks[new[b][i]] = ks[new[b][l]]
               PROVE  ks[new[b][j]] = ks[new[b][i]]
    BY DEF Grouped
  <2>1. PICK u \in 1..Len(order) : order[u] = new[b][i]
    BY <1>5a
  <2>2. PICK v \in 1..Len(order) : order[v] = new[b][j]
    BY <1>5a
  <2>3. PICK w \in 1..Len(order) : order[w] = new[b][l]
    BY <1>5a
  <2>4. v < u /\ w < v
    BY <1>5, <2>1, <2>2, <2>3
  <2>5. ks[order[w]] = ks[order[u]]
    BY <2>1, <2>3
  <2>6. ks[order[v]] = ks[order[w]]
    BY <1>1, <2>4, <2>5 DEF Grouped
  <2> QED
    BY <2>1, <2>2, <2>5, <2>6
<1>10. ASSUME NEW b \in 1..nb, NEW n \in ToSet(new[b]) PROVE n \in E /\ Home(h, n, nb) = b
  <2>1. PICK x \in 1..Len(new[b]) : new[b][x] = n
    BY <1>7 DEF ToSet
  <2>2. PICK u \in 1..Len(order) : order[u] = new[b][x] /\ Home(h, order[u], nb) = b
    BY <1>5
  <2> QED
    BY <1>1, <1>4, <2>1, <2>2 DEF ToSet
<1>11. ASSUME NEW n \in E PROVE n \in ToSet(new[Home(h, n, nb)])
  <2>1. PICK u \in 1..Len(order) : order[u] = n
    BY <1>1, <1>4 DEF ToSet
  <2> QED
    BY <1>5, <2>1
<1>12. \A n \in E : ks[n] \in Key /\ h[n] = HashOf[ks[n]]
  BY DEF ChainsOK
<1>13. ChainsOK(new, h, ks, E)
  BY <1>2, <1>6, <1>8, <1>9, <1>10, <1>11, <1>12 DEF ChainsOK
<1> QED
  BY <1>13 DEF new, order

-----------------------------------------------------------------------------
(* The operations on the table.                                            *)

LEMMA TableFacts ==
  ASSUME NEW t, NEW ks, NEW E, TableOK(t, ks, E)
  PROVE  /\ t = [chain |-> t.chain, hash |-> t.hash, n |-> t.n]
         /\ t.chain \in Seq(Seq(Node)) /\ t.hash \in [Node -> Nat] /\ t.n \in Nat
         /\ Buckets(t) = Len(t.chain) /\ Buckets(t) \in Nat \ {0}
         /\ \A n \in E : Bucket(t, t.hash[n]) = Home(t.hash, n, Len(t.chain))
<1>1. t \in [chain : Seq(Seq(Node)), hash : [Node -> Nat], n : Nat]
  BY DEF TableOK
<1>2. Len(t.chain) \in Nat \ {0}
  BY ChainFacts DEF TableOK
<1> QED
  BY <1>1, <1>2 DEF Buckets, Bucket, Home

LEMMA NoChains ==
  ASSUME NEW nb \in Nat \ {0}, NEW h \in [Node -> Nat], NEW ks
  PROVE  TableOK([chain |-> [b \in 1..nb |-> <<>>], hash |-> h, n |-> 0], ks, {})
<1> DEFINE cs == [b \in 1..nb |-> <<>>]
<1>1. cs \in Seq(Seq(Node)) /\ Len(cs) = nb
  <2>1. <<>> \in Seq(Node)
    BY EmptySeq
  <2>2. cs \in [1..nb -> Seq(Node)] /\ DOMAIN cs = 1..nb
    BY <2>1
  <2> HIDE DEF cs
  <2>3. cs \in Seq(Seq(Node))
    BY <2>2, SeqDef
  <2> DEFINE m == Len(cs)
  <2>4. m \in Nat /\ 1..m = 1..nb
    BY <2>2, <2>3, LenProperties
  <2> HIDE DEF m
  <2>5. nb \in 1..nb
    OBVIOUS
  <2>6. nb \in 1..m
    BY <2>4, <2>5
  <2>7. m \in 1..m
    BY <2>4, <2>6
  <2>8. m = nb
    BY <2>4, <2>6, <2>7
  <2> QED
    BY <2>3, <2>8 DEF m
<1>2. \A b \in 1..nb : cs[b] = <<>> /\ DOMAIN <<>> = {} /\ ToSet(<<>>) = {} /\ Len(<<>>) = 0
  BY DEF ToSet
<1> HIDE DEF cs
<1>3. ChainsOK(cs, h, ks, {})
  BY <1>1, <1>2 DEF ChainsOK, IsInjective, Grouped
<1> DEFINE t == [chain |-> cs, hash |-> h, n |-> 0]
<1>4. t \in [chain : Seq(Seq(Node)), hash : [Node -> Nat], n : Nat] /\ t.chain = cs /\ t.hash = h
      /\ t.n = 0
  BY <1>1
<1> HIDE DEF t
<1>5. TableOK(t, ks, {})
  BY <1>3, <1>4, FS_EmptySet DEF TableOK
<1> QED
  BY <1>5 DEF t, cs

LEMMA EmptyOK ==
  ASSUME NEW nb \in Nat \ {0}, NEW ks
  PROVE  TableOK(Empty(nb), ks, {})
<1>1. [n \in Node |-> 0] \in [Node -> Nat]
  OBVIOUS
<1> QED
  BY <1>1, NoChains DEF Empty

LEMMA GrownOK ==
  ASSUME NEW t, NEW ks, NEW E, TableOK(t, ks, E)
  PROVE  TableOK(Grown(t), ks, E)
<1>1. CASE t.n <= Buckets(t)
  BY <1>1 DEF Grown
<1>2. CASE ~(t.n <= Buckets(t))
  <2> DEFINE cs == Refiled(FlattenSeq(t.chain), t.hash, 2 * Buckets(t))
             u == [chain |-> cs, hash |-> t.hash, n |-> t.n]
  <2>1. 2 * Buckets(t) \in Nat \ {0}
    BY TableFacts
  <2>2. ChainsOK(t.chain, t.hash, ks, E) /\ IsFiniteSet(E) /\ t.n = Cardinality(E)
    BY DEF TableOK
  <2>3. ChainsOK(cs, t.hash, ks, E)
    BY <2>1, <2>2, RehashedOK
  <2>4. Grown(t) = u
    <3>1. Grown(t) = [t EXCEPT !.chain = cs]
      BY <1>2 DEF Grown, Order
    <3> HIDE DEF cs
    <3> QED
      BY <3>1, TableFacts
  <2> HIDE DEF cs
  <2>5. u \in [chain : Seq(Seq(Node)), hash : [Node -> Nat], n : Nat]
        /\ u.chain = cs /\ u.hash = t.hash /\ u.n = t.n
    BY <2>3, TableFacts DEF ChainsOK
  <2> HIDE DEF u
  <2>6. TableOK(u, ks, E)
    BY <2>2, <2>3, <2>5 DEF TableOK
  <2> QED
    BY <2>4, <2>6
<1> QED
  BY <1>1, <1>2

LEMMA AddedOK ==
  ASSUME NEW t, NEW ks, NEW E, TableOK(t, ks, E), NEW n \in Node \ E, ks[n] \in Key
  PROVE  TableOK(Added(t, ks, n), ks, E \cup {n})
<1> DEFINE cs == t.chain
           b == Bucket(t, HashOf[ks[n]])
           I == {j \in 1..Len(cs[b]) : ks[cs[b][j]] = ks[n]}
           at == IF I # {} THEN Min(I) ELSE 0
           c == InsertAt(cs[b], at + 1, n)
           h == [t.hash EXCEPT ![n] = HashOf[ks[n]]]
           u == [chain |-> [cs EXCEPT ![b] = c], hash |-> h, n |-> t.n + 1]
<1>1. ChainsOK(cs, t.hash, ks, E)
  BY DEF TableOK
<1>2. b = (HashOf[ks[n]] % Len(cs)) + 1 /\ b \in 1..Len(cs)
  <2>1. HashOf[ks[n]] \in Nat /\ Buckets(t) \in Nat \ {0} /\ Buckets(t) = Len(cs)
    BY HashAssumption, TableFacts
  <2> QED
    BY <2>1, Modulo DEF Bucket
<1>3. Added(t, ks, n) = Grown(u)
  BY DEF Added, SelectInSeq
<1> DEFINE s == cs[b]
<1>4. s \in Seq(Node) /\ Len(s) \in Nat /\ IsInjective(s) /\ Grouped(s, ks) /\ n \notin ToSet(s)
  BY <1>1, <1>2, ChainFacts DEF ChainsOK
<1>5. /\ at \in 0..Len(s)
      /\ IF at = 0 THEN \A j \in 1..Len(s) : ks[s[j]] # ks[n] ELSE ks[s[at]] = ks[n]
  <2>1. I = {j \in 1..Len(s) : ks[s[j]] = ks[n]} /\ I \in SUBSET Nat
    BY <1>4
  <2>2. CASE I = {}
    <3>1. at = 0 /\ \A j \in 1..Len(s) : ks[s[j]] # ks[n]
      BY <2>2
    <3> HIDE DEF at, s
    <3> QED
      BY <1>4, <3>1
  <2>3. CASE I # {}
    <3> HIDE DEF I
    <3>1. Min(I) \in I
      BY <2>1, <2>3, MinIsSmallest
    <3>2. at \in I
      BY <2>3, <3>1
    <3> HIDE DEF at, s
    <3>3. at \in 1..Len(s) /\ ks[s[at]] = ks[n]
      BY <2>1, <3>2
    <3> QED
      BY <1>4, <3>3
  <2> QED
    BY <2>2, <2>3
<1>6. c \in Seq(Node) /\ IsInjective(c) /\ ToSet(c) = ToSet(s) \cup {n} /\ Grouped(c, ks)
  <2> DEFINE p == at + 1
  <2>1. p \in 1..(Len(s) + 1) /\ n \in Node \ ToSet(s)
    <3> HIDE DEF s, at
    <3> QED
      BY <1>4, <1>5
  <2>2. c = InsertAt(s, p, n)
    OBVIOUS
  <2> HIDE DEF p, s, at, c
  <2>3. Grouped(InsertAt(s, at + 1, n), ks)
    BY <1>4, <1>5, GroupedInsert
  <2> DEFINE d == InsertAt(s, p, n)
  <2>4. d \in Seq(Node) /\ IsInjective(d) /\ ToSet(d) = ToSet(s) \cup {n}
    BY <1>4, <2>1, Inserted
  <2> QED
    BY <2>2, <2>3, <2>4 DEF p
<1> HIDE DEF c, b, cs
<1>7. ChainsOK([cs EXCEPT ![b] = c], h, ks, E \cup {n})
  BY <1>1, <1>2, <1>6, ChainWithNode DEF cs
<1>8. IsFiniteSet(E \cup {n}) /\ t.n + 1 = Cardinality(E \cup {n})
  BY FS_AddElement DEF TableOK
<1> HIDE DEF h
<1>9. u \in [chain : Seq(Seq(Node)), hash : [Node -> Nat], n : Nat]
      /\ u.chain = [cs EXCEPT ![b] = c] /\ u.hash = h /\ u.n = t.n + 1
  BY <1>7, TableFacts DEF ChainsOK
<1> HIDE DEF u
<1>10. TableOK(u, ks, E \cup {n})
  BY <1>7, <1>8, <1>9 DEF TableOK
<1> QED
  BY <1>3, <1>10, GrownOK

\* A node is found through its cached hash, whatever its key is by now.
LEMMA UnlinkedIs ==
  ASSUME NEW t, NEW ks, NEW E, TableOK(t, ks, E), NEW n \in E
  PROVE  LET b == Home(t.hash, n, Len(t.chain))
         IN  /\ b \in 1..Len(t.chain) /\ n \in ToSet(t.chain[b])
             /\ Unlinked(t, n) = [chain |-> [t.chain EXCEPT ![b] = RemoveFirst(t.chain[b], n)],
                                  hash |-> t.hash, n |-> t.n - 1]
<1> DEFINE b == Home(t.hash, n, Len(t.chain))
<1>1. b \in 1..Len(t.chain) /\ n \in ToSet(t.chain[b]) /\ n \in Node
  BY ChainFacts DEF TableOK, ChainsOK
<1>2. Bucket(t, t.hash[n]) = b
  BY TableFacts
<1> HIDE DEF b
<1>3. Contains(t.chain[b], n)
  <2> DEFINE s == t.chain[b]
  <2>1. n \in ToSet(s)
    BY <1>1
  <2> HIDE DEF s
  <2>2. Contains(s, n)
    BY <2>1 DEF Contains, ToSet
  <2> QED
    BY <2>2 DEF s
<1>4. Unlinked(t, n) = [t EXCEPT !.chain[b] = RemoveFirst(@, n), !.n = @ - 1]
  BY <1>2, <1>3 DEF Unlinked
<1>5. Unlinked(t, n) = [chain |-> [t.chain EXCEPT ![b] = RemoveFirst(t.chain[b], n)],
                        hash |-> t.hash, n |-> t.n - 1]
  <2>1. t \in [chain : Seq(Seq(Node)), hash : [Node -> Nat], n : Nat]
    BY DEF TableOK
  <2> QED
    BY <1>4, <2>1
<1> QED
  BY <1>1, <1>5 DEF b

LEMMA UnlinkedOK ==
  ASSUME NEW t, NEW ks, NEW E, TableOK(t, ks, E), NEW n \in E
  PROVE  TableOK(Unlinked(t, n), ks, E \ {n})
<1> DEFINE cs == t.chain
           b == Home(t.hash, n, Len(cs))
           c == RemoveFirst(cs[b], n)
           u == [chain |-> [cs EXCEPT ![b] = c], hash |-> t.hash, n |-> t.n - 1]
<1>1. ChainsOK(cs, t.hash, ks, E)
  BY DEF TableOK
<1>2. b \in 1..Len(cs) /\ n \in ToSet(cs[b]) /\ Unlinked(t, n) = u
  BY UnlinkedIs
<1> DEFINE s == cs[b]
<1>3. s \in Seq(Node) /\ IsInjective(s) /\ Grouped(s, ks) /\ n \in ToSet(s)
  BY <1>1, <1>2, ChainFacts DEF ChainsOK
<1>4. c \in Seq(Node) /\ IsInjective(c) /\ Grouped(c, ks) /\ ToSet(c) = ToSet(s) \ {n}
  <2>1. c = RemoveFirst(s, n)
    OBVIOUS
  <2> HIDE DEF s, c
  <2>2. Grouped(RemoveFirst(s, n), ks)
    BY <1>3, GroupedRemove
  <2> DEFINE d == RemoveFirst(s, n)
  <2>3. /\ d \in Seq(Node) /\ IsInjective(d) /\ ToSet(d) = ToSet(s) \ {n}
        /\ Len(d) = Len(s) - 1
        /\ \A i, j \in DOMAIN d : i < j =>
             \E k, l \in DOMAIN s : k < l /\ d[i] = s[k] /\ d[j] = s[l]
    BY <1>3, RemovedOnce
  <2> QED
    BY <2>1, <2>2, <2>3
<1> HIDE DEF c
<1>5. ChainsOK([cs EXCEPT ![b] = c], t.hash, ks, E \ {n})
  <2> DEFINE h == t.hash
  <2>1. ChainsOK(cs, h, ks, E) /\ b = Home(h, n, Len(cs))
    BY <1>1
  <2> HIDE DEF h, b, cs
  <2>2. ToSet(c) = ToSet(cs[b]) \ {n}
    BY <1>4
  <2> QED
    BY <1>4, <2>1, <2>2, ChainWithoutNode DEF h
<1>6. IsFiniteSet(E \ {n}) /\ t.n - 1 = Cardinality(E \ {n}) /\ t.n - 1 \in Nat
  <2>1. IsFiniteSet(E) /\ t.n = Cardinality(E)
    BY DEF TableOK
  <2>2. IsFiniteSet(E \ {n}) /\ Cardinality(E \ {n}) = Cardinality(E) - 1
    BY <2>1, FS_RemoveElement
  <2>3. Cardinality(E \ {n}) \in Nat
    BY <2>2, FS_CardinalityType
  <2> QED
    BY <2>1, <2>2, <2>3
<1> HIDE DEF cs, b
<1>7. u \in [chain : Seq(Seq(Node)), hash : [Node -> Nat], n : Nat]
      /\ u.chain = [cs EXCEPT ![b] = c] /\ u.hash = t.hash /\ u.n = t.n - 1
  BY <1>5, <1>6, TableFacts DEF ChainsOK
<1> HIDE DEF u
<1>8. TableOK(u, ks, E \ {n})
  BY <1>5, <1>6, <1>7 DEF TableOK
<1> QED
  BY <1>2, <1>8

\* The keys of other nodes do not matter.
LEMMA SameKeysOK ==
  ASSUME NEW t, NEW ks, NEW ks2, NEW E, TableOK(t, ks, E), \A n \in E : ks2[n] = ks[n]
  PROVE  TableOK(t, ks2, E)
<1>1. ChainsOK(t.chain, t.hash, ks, E)
  BY DEF TableOK
<1>2. ASSUME NEW b \in 1..Len(t.chain) PROVE Grouped(t.chain[b], ks2)
  <2> DEFINE s == t.chain[b]
  <2>1. Grouped(s, ks) /\ \A i \in 1..Len(s) : s[i] \in E
    BY <1>1, ChainFacts DEF ChainsOK
  <2> HIDE DEF s
  <2>2. \A i \in 1..Len(s) : ks2[s[i]] = ks[s[i]]
    BY <2>1
  <2>3. Grouped(s, ks2)
    BY <2>1, <2>2 DEF Grouped
  <2> QED
    BY <2>3 DEF s
<1>3. ChainsOK(t.chain, t.hash, ks2, E)
  BY <1>1, <1>2 DEF ChainsOK
<1> QED
  BY <1>3 DEF TableOK

-----------------------------------------------------------------------------
(* The lookups.                                                            *)

\* I are k's places in chain s, first is the smallest, and last the one before the first
\* place J of another key behind it.
GroupEnds(s, ks, k, I, first, J, last) ==
  /\ I = {j \in 1..Len(s) : ks[s[j]] = k} /\ I # {} /\ first = Min(I)
  /\ J = {j \in first..Len(s) : ks[s[j]] # k}
  /\ last = IF J = {} THEN Len(s) ELSE Min(J) - 1

LEMMA RangeOfGroup ==
  ASSUME NEW ks, NEW s \in Seq(Node), IsInjective(s), Grouped(s, ks), NEW k,
         NEW I, NEW first, NEW J, NEW last, GroupEnds(s, ks, k, I, first, J, last)
  PROVE  /\ first \in 1..Len(s) /\ last \in first..Len(s) /\ I = first..last
         /\ SubSeq(s, first, last) \in Seq(Node) /\ IsInjective(SubSeq(s, first, last))
         /\ ToSet(SubSeq(s, first, last)) = {n \in ToSet(s) : ks[n] = k}
<1>1. Len(s) \in Nat /\ DOMAIN s = 1..Len(s) /\ \A j \in 1..Len(s) : s[j] \in Node
  BY LenProperties
<1>0. /\ I = {j \in 1..Len(s) : ks[s[j]] = k} /\ I # {} /\ first = Min(I)
      /\ J = {j \in first..Len(s) : ks[s[j]] # k}
      /\ last = IF J = {} THEN Len(s) ELSE Min(J) - 1
  BY DEF GroupEnds
<1>2. first \in I /\ first \in Nat /\ first \in 1..Len(s) /\ ks[s[first]] = k
      /\ \A j \in I : first <= j
  <2>1. I \in SUBSET Nat
    BY <1>0, <1>1
  <2>2. first \in I /\ \A j \in I : first <= j
    BY <1>0, <2>1, MinIsSmallest
  <2> QED
    BY <1>0, <1>1, <2>2
<1>3. last \in first..Len(s) /\ I = first..last
  <2>1. CASE J = {}
    <3>1. last = Len(s) /\ \A j \in first..Len(s) : ks[s[j]] = k
      BY <1>0, <2>1
    <3>0. \A j \in 1..Len(s) : j \in I <=> ks[s[j]] = k
      BY <1>0
    <3>3. I \subseteq 1..Len(s)
      BY <1>0
    <3>2. I = first..last
      <4>1. ASSUME NEW j \in I PROVE j \in first..last
        BY <1>1, <1>2, <3>1, <3>3
      <4>2. ASSUME NEW j \in first..last PROVE j \in I
        <5>1. j \in first..Len(s) /\ j \in 1..Len(s)
          BY <1>1, <1>2, <3>1
        <5> QED
          BY <3>0, <3>1, <5>1
      <4> QED
        BY <4>1, <4>2
    <3> QED
      BY <1>1, <1>2, <3>1, <3>2
  <2>2. CASE J # {}
    <3>1. J \in SUBSET Nat
      BY <1>0, <1>1, <1>2
    <3>2. Min(J) \in J /\ \A j \in J : Min(J) <= j
      BY <2>2, <3>1, MinIsSmallest
    <3> DEFINE stop == Min(J)
    <3>3. last = stop - 1
      BY <1>0, <2>2
    <3> HIDE DEF stop
    <3>4. stop \in first..Len(s) /\ ks[s[stop]] # k /\ \A j \in J : stop <= j
      BY <1>0, <3>2 DEF stop
    <3>5. first < stop
      <4>1. first # stop
        BY <1>2, <3>4
      <4> QED
        BY <1>1, <1>2, <3>4, <4>1
    <3>6. ASSUME NEW j \in I PROVE j \in first..last
      <4>1. j \in 1..Len(s) /\ first <= j /\ ks[s[j]] = k /\ j # stop
        BY <1>0, <1>2, <3>4
      <4>2. CASE stop < j
        <5>1. stop \in 1..Len(s)
          BY <1>1, <1>2, <3>4
        <5>2. ks[s[stop]] = ks[s[first]]
          BY <1>2, <3>5, <4>1, <4>2, <5>1 DEF Grouped
        <5> QED
          BY <1>2, <3>4, <5>2
      <4>3. CASE j < stop
        BY <1>1, <1>2, <3>3, <3>4, <4>1, <4>3
      <4> QED
        BY <1>1, <1>2, <3>4, <4>1, <4>2, <4>3
    <3>7. ASSUME NEW j \in first..last PROVE j \in I
      <4>1. j \in first..Len(s) /\ j \in 1..Len(s) /\ j < stop
        BY <1>1, <1>2, <3>3, <3>4
      <4>2. j \notin J
        BY <1>1, <1>2, <3>4, <4>1
      <4> QED
        BY <1>0, <4>1, <4>2
    <3>8. last \in first..Len(s)
      BY <1>1, <1>2, <3>3, <3>4, <3>5
    <3> QED
      BY <3>6, <3>7, <3>8
  <2> QED
    BY <2>1, <2>2
<1> DEFINE r == SubSeq(s, first, last)
<1>4. first \in Nat /\ last \in Nat /\ first <= last /\ first >= 1 /\ last <= Len(s)
  BY <1>1, <1>2, <1>3
<1>5. /\ r \in Seq(Node) /\ Len(r) = last - first + 1
      /\ \A i \in 1..(last - first + 1) : r[i] = s[first + i - 1]
  <2>1. \A i \in first..last : s[i] \in Node
    BY <1>1, <1>4
  <2> QED
    BY <1>4, <2>1, SubSeqProperties
<1> HIDE DEF r
<1>6. DOMAIN r = 1..Len(r) /\ Len(r) \in Nat
  BY <1>5, LenProperties
<1>7. \A i \in 1..Len(r) : first + i - 1 \in first..last /\ first + i - 1 \in 1..Len(s)
                           /\ r[i] = s[first + i - 1]
  BY <1>1, <1>4, <1>5, <1>6
<1>8. IsInjective(r)
  <2>1. ASSUME NEW i \in 1..Len(r), NEW j \in 1..Len(r), r[i] = r[j] PROVE i = j
    <3>1. first + i - 1 = first + j - 1
      BY <1>1, <1>7, <2>1 DEF IsInjective
    <3> QED
      BY <1>4, <1>6, <3>1
  <2> QED
    BY <1>6, <2>1 DEF IsInjective
<1>9. ToSet(r) = {n \in ToSet(s) : ks[n] = k}
  <2>1. ASSUME NEW n \in ToSet(r) PROVE n \in ToSet(s) /\ ks[n] = k
    <3>1. PICK i \in 1..Len(r) : r[i] = n
      BY <1>6 DEF ToSet
    <3>2. first + i - 1 \in I /\ first + i - 1 \in 1..Len(s) /\ n = s[first + i - 1]
      BY <1>3, <1>7, <3>1
    <3> QED
      BY <1>0, <1>1, <3>2 DEF ToSet
  <2>2. ASSUME NEW n \in ToSet(s), ks[n] = k PROVE n \in ToSet(r)
    <3>1. PICK j \in 1..Len(s) : s[j] = n
      BY <1>1 DEF ToSet
    <3>2. j \in first..last
      BY <1>0, <1>3, <2>2, <3>1
    <3>3. j - first + 1 \in 1..Len(r) /\ first + (j - first + 1) - 1 = j
      BY <1>4, <1>5, <3>2
    <3>4. r[j - first + 1] = s[first + (j - first + 1) - 1]
      BY <1>7, <3>3
    <3>5. r[j - first + 1] = n
      BY <3>1, <3>3, <3>4
    <3> QED
      BY <1>6, <3>3, <3>5 DEF ToSet
  <2> QED
    BY <2>1, <2>2
<1> QED
  BY <1>2, <1>3, <1>5, <1>8, <1>9 DEF r

\* The elements with a key are those with that key in the bucket it selects.
LEMMA InOneBucket ==
  ASSUME NEW t, NEW ks, NEW E, TableOK(t, ks, E), NEW k \in Key
  PROVE  LET c == t.chain[Bucket(t, HashOf[k])]
         IN  /\ c \in Seq(Node) /\ IsInjective(c) /\ Grouped(c, ks)
             /\ {n \in E : ks[n] = k} = {n \in ToSet(c) : ks[n] = k}
<1> DEFINE b == Bucket(t, HashOf[k])
           c == t.chain[b]
<1>1. ChainsOK(t.chain, t.hash, ks, E)
  BY DEF TableOK
<1>2. b = (HashOf[k] % Len(t.chain)) + 1 /\ b \in 1..Len(t.chain)
  <2>1. HashOf[k] \in Nat /\ Buckets(t) \in Nat \ {0} /\ Buckets(t) = Len(t.chain)
    BY HashAssumption, TableFacts
  <2> QED
    BY <2>1, Modulo DEF Bucket
<1> HIDE DEF b
<1>3. c \in Seq(Node) /\ IsInjective(c) /\ Grouped(c, ks) /\ ToSet(c) \subseteq E
  BY <1>1, <1>2, ChainFacts DEF ChainsOK
<1>4. ASSUME NEW n \in E, ks[n] = k PROVE n \in ToSet(c)
  <2>1. t.hash[n] = HashOf[k] /\ n \in ToSet(t.chain[Home(t.hash, n, Len(t.chain))])
    BY <1>1, <1>4 DEF ChainsOK
  <2>2. Home(t.hash, n, Len(t.chain)) = b
    BY <1>2, <2>1 DEF Home
  <2> QED
    BY <2>1, <2>2
<1>5. {n \in E : ks[n] = k} = {n \in ToSet(c) : ks[n] = k}
  BY <1>3, <1>4
<1> QED
  BY <1>3, <1>5 DEF b

LEMMA Found ==
  ASSUME NEW t, NEW ks, NEW E, TableOK(t, ks, E), NEW k \in Key
  PROVE  LET matches == {n \in E : ks[n] = k}
         IN  IF matches = {} THEN FindNode(t, ks, k) = NoNode ELSE FindNode(t, ks, k) \in matches
<1> DEFINE c == t.chain[Bucket(t, HashOf[k])]
           I == {i \in 1..Len(c) : ks[c[i]] = k}
           matches == {n \in E : ks[n] = k}
           i == IF I # {} THEN Min(I) ELSE 0
<1>1. c \in Seq(Node) /\ matches = {n \in ToSet(c) : ks[n] = k}
  BY InOneBucket
<1>2. FindNode(t, ks, k) = IF i = 0 THEN NoNode ELSE c[i]
  BY DEF FindNode, SelectInSeq
<1> HIDE DEF c, matches
<1>3. Len(c) \in Nat /\ DOMAIN c = 1..Len(c)
  BY <1>1, LenProperties
<1>4. CASE I = {}
  <2>1. matches = {}
    BY <1>1, <1>3, <1>4 DEF ToSet
  <2>2. i = 0
    BY <1>4
  <2> QED
    BY <1>2, <2>1, <2>2 DEF matches
<1>5. CASE I # {}
  <2>1. I \in SUBSET Nat
    BY <1>3
  <2>2. i \in I
    BY <1>5, <2>1, MinIsSmallest
  <2> HIDE DEF i
  <2>3. i \in 1..Len(c) /\ ks[c[i]] = k /\ i # 0
    BY <1>3, <2>2
  <2>4. c[i] \in matches
    BY <1>1, <1>3, <2>3 DEF ToSet
  <2> QED
    BY <1>2, <2>3, <2>4 DEF matches
<1> QED
  BY <1>4, <1>5

\* What a scan of the elements would find.
Matches(E, ks, k) == {n \in E : ks[n] = k}

LEMMA RangeAndCount ==
  ASSUME NEW t, NEW ks, NEW E, TableOK(t, ks, E), NEW k \in Key
  PROVE  /\ ToSet(EqualRange(t, ks, k)) = Matches(E, ks, k)
         /\ Len(EqualRange(t, ks, k)) = Cardinality(Matches(E, ks, k))
         /\ Count(t, ks, k) = Cardinality(Matches(E, ks, k))
<1> DEFINE c == t.chain[Bucket(t, HashOf[k])]
           I == {i \in 1..Len(c) : ks[c[i]] = k}
           first == IF I # {} THEN Min(I) ELSE 0
           J == {j \in first..Len(c) : ks[c[j]] # k}
           stop == IF J # {} THEN Min(J) ELSE 0
           matches == Matches(E, ks, k)
<1>1. /\ c \in Seq(Node) /\ IsInjective(c) /\ Grouped(c, ks)
      /\ matches = {n \in ToSet(c) : ks[n] = k}
  BY InOneBucket DEF Matches
<1>2. EqualRange(t, ks, k) = IF first = 0 THEN <<>>
                             ELSE SubSeq(c, first, IF stop = 0 THEN Len(c) ELSE stop - 1)
  BY DEF EqualRange, SelectInSeq, SelectInSubSeq
<1>3. Count(t, ks, k) = Cardinality({i \in DOMAIN c : ks[c[i]] = k})
  BY DEF Count
<1> HIDE DEF c, matches
<1>4. Len(c) \in Nat /\ DOMAIN c = 1..Len(c)
  BY <1>1, LenProperties
<1>5. Count(t, ks, k) = Cardinality(I)
  BY <1>3, <1>4
<1>6. CASE I = {}
  <2>1. matches = {}
    BY <1>1, <1>4, <1>6 DEF ToSet
  <2>2. first = 0
    BY <1>6
  <2>3. EqualRange(t, ks, k) = <<>>
    BY <1>2, <2>2
  <2>4. ToSet(<<>>) = {} /\ Len(<<>>) = 0
    BY DEF ToSet
  <2>5. Cardinality(matches) = 0 /\ Cardinality(I) = 0
    BY <1>6, <2>1, FS_EmptySet
  <2> QED
    BY <1>5, <2>1, <2>3, <2>4, <2>5 DEF matches
<1>7. CASE I # {}
  <2> DEFINE last == IF J = {} THEN Len(c) ELSE Min(J) - 1
             f == Min(I)
             G == {j \in f..Len(c) : ks[c[j]] # k}
             r == SubSeq(c, f, last)
  <2>1. first = f /\ J = G
    BY <1>7
  <2>2. last = IF G = {} THEN Len(c) ELSE Min(G) - 1
    BY <2>1
  <2>3. f \in 1..Len(c) /\ last \in f..Len(c) /\ I = f..last /\ r \in Seq(Node) /\ IsInjective(r)
        /\ ToSet(r) = matches
    <3> HIDE DEF I, J, f, G, last, r
    <3>1. I = {j \in 1..Len(c) : ks[c[j]] = k} /\ f = Min(I) /\ r = SubSeq(c, f, last)
          /\ G = {j \in f..Len(c) : ks[c[j]] # k}
      BY DEF I, f, r, G
    <3>2. GroupEnds(c, ks, k, I, f, G, last)
      BY <1>7, <2>2, <3>1 DEF GroupEnds
    <3>3. /\ f \in 1..Len(c) /\ last \in f..Len(c) /\ I = f..last
          /\ SubSeq(c, f, last) \in Seq(Node) /\ IsInjective(SubSeq(c, f, last))
          /\ ToSet(SubSeq(c, f, last)) = {n \in ToSet(c) : ks[n] = k}
      BY <1>1, <3>2, RangeOfGroup
    <3> QED
      BY <1>1, <3>1, <3>3
  <2>4. stop = IF J = {} THEN 0 ELSE last + 1
    <3>1. CASE J = {}
      BY <3>1
    <3>2. CASE J # {}
      <4> HIDE DEF J, f
      <4>1. last = Min(J) - 1 /\ stop = Min(J)
        BY <3>2
      <4>2. J \in SUBSET Nat
        BY <1>4, <2>1, <2>3
      <4>3. Min(J) \in Nat
        BY <3>2, <4>2, MinIsSmallest
      <4> HIDE DEF stop, last
      <4> QED
        BY <3>2, <4>1, <4>3
    <3> QED
      BY <3>1, <3>2
  <2>5. EqualRange(t, ks, k) = r
    <3>1. (IF stop = 0 THEN Len(c) ELSE stop - 1) = last
      <4>1. CASE J = {}
        <5>1. stop = 0 /\ last = Len(c)
          BY <4>1
        <5> QED
          BY <5>1
      <4>2. CASE J # {}
        <5>1. stop = last + 1
          BY <2>4, <4>2
        <5> HIDE DEF stop, last, f
        <5>2. last \in Nat
          BY <1>4, <2>3
        <5> QED
          BY <5>1, <5>2
      <4> QED
        BY <4>1, <4>2
    <3>2. first # 0
      <4> HIDE DEF first, f, last, I
      <4> QED
        BY <1>4, <2>1, <2>3
    <3> HIDE DEF stop, last, first, I
    <3> QED
      BY <1>2, <2>1, <3>1, <3>2
  <2> HIDE DEF I, J, f, G, last, r
  <2>6. IsFiniteSet(matches) /\ Cardinality(matches) = Len(r)
    BY <2>3, DistinctCount
  <2>7. Cardinality(I) = Cardinality(matches)
    <3>1. I \subseteq 1..Len(c) /\ \A j \in 1..Len(c) : j \in I <=> ks[c[j]] = k
      BY DEF I
    <3>2. [j \in I |-> c[j]] \in Bijection(I, matches)
      <4> DEFINE g == [j \in I |-> c[j]]
      <4>1. g \in [I -> matches]
        BY <1>1, <1>4, <3>1 DEF ToSet
      <4>2. \A i, j \in I : g[i] = g[j] => i = j
        BY <1>1, <1>4, <3>1 DEF IsInjective
      <4>3. \A n \in matches : \E j \in I : g[j] = n
        BY <1>1, <1>4, <3>1 DEF ToSet
      <4> HIDE DEF g
      <4>4. DOMAIN g = I
        BY <4>1
      <4>5. g \in Bijection(I, matches)
        BY <4>1, <4>2, <4>3, <4>4 DEF Bijection, Injection, Surjection, IsInjective
      <4> QED
        BY <4>5 DEF g
    <3>3. IsFiniteSet(I)
      <4>1. f \in Nat /\ last \in Nat
        BY <1>4, <2>3
      <4> QED
        BY <2>3, <4>1, FS_Interval
    <3>4. ExistsBijection(I, matches)
      BY <3>2 DEF ExistsBijection
    <3> QED
      BY <3>3, <3>4, FS_Bijection
  <2> QED
    BY <1>5, <2>3, <2>5, <2>6, <2>7 DEF matches
<1> QED
  BY <1>6, <1>7

\* A unique table refuses a node exactly when an element has its key.
LEMMA RefusedIff ==
  ASSUME NEW t, NEW ks, NEW E, TableOK(t, ks, E), NEW n, ks[n] \in Key
  PROVE  Refuses(t, ks, n) <=> unique /\ \E m \in E : ks[m] = ks[n]
<1> DEFINE k == ks[n]
           matches == {m \in E : ks[m] = k}
<1>1. IF matches = {} THEN FindNode(t, ks, k) = NoNode ELSE FindNode(t, ks, k) \in matches
  BY Found
<1>2. matches \subseteq Node
  BY DEF TableOK, ChainsOK
<1>3. FindNode(t, ks, k) # NoNode <=> matches # {}
  BY <1>1, <1>2, HashAssumption
<1> QED
  BY <1>3 DEF Refuses

-----------------------------------------------------------------------------
(* The iterator.                                                           *)

\* Who is before the node at a place of a chain.
LEMMA BeforePlace ==
  ASSUME NEW cs, NEW h, NEW ks, NEW E, ChainsOK(cs, h, ks, E),
         NEW b \in 1..Len(cs), NEW at \in 1..Len(cs[b]), NEW n, n = cs[b][at],
         NEW m \in E
  PROVE  /\ n \in E /\ Home(h, n, Len(cs)) = b /\ n \in Node
         /\ Before(cs, h, m, n) <=> \/ Home(h, m, Len(cs)) < b
                                    \/ \E i \in 1..Len(cs[b]) : i < at /\ cs[b][i] = m
<1>1. n \in ToSet(cs[b])
  BY ChainFacts
<1>2. n \in E /\ Home(h, n, Len(cs)) = b /\ n \in Node
  BY <1>1 DEF ChainsOK
<1>3. IsInjective(cs[b]) /\ DOMAIN cs[b] = 1..Len(cs[b]) /\ Len(cs[b]) \in Nat
  BY ChainFacts DEF ChainsOK
<1>4. \A i \in 1..Len(cs[b]) : cs[b][i] = n => i = at
  BY <1>3 DEF IsInjective
<1>5. \A i \in 1..Len(cs[b]) : cs[b][i] = m => Home(h, m, Len(cs)) = b
  <2> SUFFICES ASSUME NEW i \in 1..Len(cs[b]), cs[b][i] = m PROVE Home(h, m, Len(cs)) = b
    OBVIOUS
  <2>1. m \in ToSet(cs[b])
    BY ChainFacts
  <2> QED
    BY <2>1 DEF ChainsOK
<1>6. Before(cs, h, m, n) <=>
        \/ Home(h, m, Len(cs)) < b
        \/ Home(h, m, Len(cs)) = b /\ \E i, j \in 1..Len(cs[b]) : i < j /\ cs[b][i] = m /\ cs[b][j] = n
  BY <1>2 DEF Before
<1>7. (\E i \in 1..Len(cs[b]) : i < at /\ cs[b][i] = m)
      => \E i, j \in 1..Len(cs[b]) : i < j /\ cs[b][i] = m /\ cs[b][j] = n
  OBVIOUS
<1>8. (\E i, j \in 1..Len(cs[b]) : i < j /\ cs[b][i] = m /\ cs[b][j] = n)
      => \E i \in 1..Len(cs[b]) : i < at /\ cs[b][i] = m
  BY <1>4
<1> QED
  BY <1>2, <1>5, <1>6, <1>7, <1>8

LEMMA PlaceOf ==
  ASSUME NEW cs, NEW h, NEW ks, NEW E, ChainsOK(cs, h, ks, E), NEW n \in E
  PROVE  LET b == Home(h, n, Len(cs))
         IN  b \in 1..Len(cs) /\ \E at \in 1..Len(cs[b]) : n = cs[b][at]
<1> DEFINE b == Home(h, n, Len(cs))
<1>1. n \in Node /\ n \in ToSet(cs[b])
  BY DEF ChainsOK
<1>2. b \in 1..Len(cs)
  BY <1>1, ChainFacts
<1> HIDE DEF b
<1>3. DOMAIN cs[b] = 1..Len(cs[b])
  BY <1>2, ChainFacts
<1>4. \E at \in 1..Len(cs[b]) : n = cs[b][at]
  BY <1>1, <1>3 DEF ToSet
<1> QED
  BY <1>2, <1>4 DEF b

LEMMA NeverBothBefore ==
  ASSUME NEW cs, NEW h, NEW ks, NEW E, ChainsOK(cs, h, ks, E), NEW m \in E, NEW n \in E,
         Before(cs, h, m, n)
  PROVE  ~Before(cs, h, n, m)
<1> DEFINE b == Home(h, n, Len(cs))
           a == Home(h, m, Len(cs))
<1>1. a \in 1..Len(cs) /\ b \in 1..Len(cs)
  BY PlaceOf
<1>2. PICK i \in 1..Len(cs[a]) : m = cs[a][i]
  BY PlaceOf
<1>3. PICK j \in 1..Len(cs[b]) : n = cs[b][j]
  BY PlaceOf
<1>4. a < b \/ \E x \in 1..Len(cs[b]) : x < j /\ cs[b][x] = m
  BY <1>1, <1>3, BeforePlace
<1>5. Before(cs, h, n, m) => b < a \/ \E x \in 1..Len(cs[a]) : x < i /\ cs[a][x] = n
  BY <1>1, <1>2, BeforePlace
<1>6. ASSUME NEW d \in 1..Len(cs), NEW x \in 1..Len(cs[d])
      PROVE  Home(h, cs[d][x], Len(cs)) = d
  <2>1. cs[d][x] \in ToSet(cs[d])
    BY ChainFacts
  <2> QED
    BY <2>1 DEF ChainsOK
<1>7. (\E x \in 1..Len(cs[b]) : x < j /\ cs[b][x] = m) => a = b
  BY <1>1, <1>6
<1>8. (\E x \in 1..Len(cs[a]) : x < i /\ cs[a][x] = n) => a = b
  BY <1>1, <1>6
<1> HIDE DEF a, b
<1>9. a \in Int /\ b \in Int
  BY <1>1, ChainFacts
<1>10. CASE a = b
  <2>1. IsInjective(cs[b]) /\ DOMAIN cs[b] = 1..Len(cs[b]) /\ Len(cs[b]) \in Nat
    BY <1>1, ChainFacts DEF ChainsOK
  <2>2. \A x \in 1..Len(cs[b]) : (cs[b][x] = m => x = i) /\ (cs[b][x] = n => x = j)
    BY <1>2, <1>3, <1>10, <2>1 DEF IsInjective
  <2>3. i \in Int /\ j \in Int
    BY <1>2, <1>3, <1>10, <2>1
  <2>4. i < j
    BY <1>4, <1>9, <1>10, <2>2
  <2>5. Before(cs, h, n, m) => j < i
    BY <1>5, <1>9, <1>10, <2>2
  <2> QED
    BY <2>3, <2>4, <2>5
<1>11. CASE a # b
  BY <1>4, <1>5, <1>7, <1>8, <1>9, <1>11
<1> QED
  BY <1>10, <1>11

\* The iterator is at c, and the elements it has passed are those before c.
IsWalk(t, E, c, passed) ==
  IF c = NoNode THEN passed = E
  ELSE c \in E /\ passed = {m \in E : Before(t.chain, t.hash, m, c)}

LEMMA FirstFromIs ==
  ASSUME NEW t, NEW ks, NEW E, TableOK(t, ks, E), NEW b \in 1..(Len(t.chain) + 1)
  PROVE  IsWalk(t, E, FirstFrom(t, b), {m \in E : Home(t.hash, m, Len(t.chain)) < b})
<1> DEFINE cs == t.chain
           h == t.hash
           I == {j \in b..Len(cs) : cs[j] # <<>>}
           i == IF I # {} THEN Min(I) ELSE 0
           passed == {m \in E : Home(h, m, Len(cs)) < b}
<1>1. ChainsOK(cs, h, ks, E) /\ Buckets(t) = Len(cs) /\ E \subseteq Node
  BY DEF TableOK, ChainsOK, Buckets
<1>2. FirstFrom(t, b) = IF i = 0 THEN NoNode ELSE cs[i][1]
  BY <1>1 DEF FirstFrom, SelectInSubSeq
<1> HIDE DEF cs, h
<1>3. Len(cs) \in Nat /\ b \in Nat /\ b >= 1 /\ b \in 1..(Len(cs) + 1)
  BY <1>1, ChainFacts DEF cs
<1>4. ASSUME NEW m \in E
      PROVE  Home(h, m, Len(cs)) \in 1..Len(cs) /\ cs[Home(h, m, Len(cs))] # <<>>
  <2> DEFINE d == Home(h, m, Len(cs))
  <2>1. d \in 1..Len(cs) /\ \E at \in 1..Len(cs[d]) : m = cs[d][at]
    BY <1>1, PlaceOf
  <2> HIDE DEF d
  <2>2. cs[d] # <<>>
    BY <2>1
  <2> QED
    BY <2>1, <2>2 DEF d
<1>5. CASE I = {}
  <2>1. \A j \in b..Len(cs) : cs[j] = <<>>
    BY <1>5
  <2>2. \A m \in E : Home(h, m, Len(cs)) < b
    BY <1>3, <1>4, <2>1
  <2>3. passed = E
    BY <2>2
  <2>4. FirstFrom(t, b) = NoNode
    BY <1>2, <1>5
  <2> QED
    BY <2>3, <2>4 DEF IsWalk, cs, h
<1>6. CASE I # {}
  <2>1. I \in SUBSET Nat
    BY <1>3
  <2>2. i \in I /\ \A j \in I : i <= j
    BY <1>6, <2>1, MinIsSmallest
  <2> DEFINE s == cs[i]
             c == s[1]
  <2> HIDE DEF i
  <2>3. i \in 1..Len(cs) /\ b <= i /\ i # 0 /\ s # <<>> /\ \A j \in b..Len(cs) : cs[j] # <<>> => i <= j
    BY <1>3, <2>2
  <2>4. 1 \in 1..Len(cs[i])
    <3>1. s \in Seq(Node) /\ Len(s) \in Nat
      BY <1>1, <2>3, ChainFacts
    <3>2. Len(s) # 0
      BY <2>3, <3>1, EmptySeq
    <3> QED
      BY <3>1, <3>2
  <2>5. FirstFrom(t, b) = c
    BY <1>2, <2>3
  <2> HIDE DEF I, passed
  <2>6. ASSUME NEW m \in E
        PROVE  /\ c \in E /\ c \in Node
               /\ Before(cs, h, m, c) <=> Home(h, m, Len(cs)) < i
    <3>1. /\ c \in E /\ c \in Node
          /\ Before(cs, h, m, c) <=> \/ Home(h, m, Len(cs)) < i
                                     \/ \E x \in 1..Len(cs[i]) : x < 1 /\ cs[i][x] = m
      BY <1>1, <2>3, <2>4, BeforePlace
    <3>2. ~\E x \in 1..Len(cs[i]) : x < 1 /\ cs[i][x] = m
      BY <1>1, <2>3, ChainFacts
    <3> QED
      BY <3>1, <3>2
  <2>7. c \in E /\ c # NoNode
    <3>1. c \in ToSet(cs[i])
      BY <1>1, <2>3, <2>4, ChainFacts
    <3>2. c \in E
      BY <1>1, <2>3, <3>1 DEF ChainsOK
    <3> QED
      BY <1>1, <3>2, HashAssumption
  <2>8. ASSUME NEW m \in E PROVE Home(h, m, Len(cs)) < i <=> Home(h, m, Len(cs)) < b
    <3> DEFINE d == Home(h, m, Len(cs))
    <3>1. d \in 1..Len(cs) /\ cs[d] # <<>>
      BY <1>4
    <3> HIDE DEF d
    <3>2. b <= d => i <= d
      BY <1>3, <2>3, <3>1
    <3> QED
      BY <1>3, <2>3, <3>1, <3>2 DEF d
  <2>9. passed = {m \in E : Before(cs, h, m, c)}
    BY <2>6, <2>8 DEF passed
  <2> QED
    BY <2>5, <2>7, <2>9 DEF IsWalk, cs, h, passed
<1> QED
  BY <1>5, <1>6

LEMMA SuccIs ==
  ASSUME NEW t, NEW ks, NEW E, TableOK(t, ks, E), NEW n \in E
  PROVE  IsWalk(t, E, Succ(t, n), {m \in E : Before(t.chain, t.hash, m, n)} \cup {n})
<1> DEFINE cs == t.chain
           h == t.hash
           b == Home(h, n, Len(cs))
           s == cs[b]
           passed == {m \in E : Before(cs, h, m, n)} \cup {n}
<1>1. ChainsOK(cs, h, ks, E) /\ Bucket(t, h[n]) = b /\ E \subseteq Node
  BY TableFacts DEF TableOK, ChainsOK
<1>2. b \in 1..Len(cs)
  BY <1>1, PlaceOf
<1>3. PICK at \in 1..Len(s) : n = s[at]
  BY <1>1, PlaceOf
<1>4. Len(cs) \in Nat /\ s \in Seq(Node) /\ IsInjective(s) /\ Len(s) \in Nat /\ DOMAIN s = 1..Len(s)
  BY <1>1, <1>2, ChainFacts DEF ChainsOK
<1>5. Succ(t, n) = IF at < Len(s) THEN s[at + 1] ELSE FirstFrom(t, b + 1)
  <2> DEFINE I == {j \in 1..Len(s) : s[j] = n}
             i == IF I # {} THEN Min(I) ELSE 0
  <2>1. Succ(t, n) = IF i < Len(s) THEN s[i + 1] ELSE FirstFrom(t, b + 1)
    BY <1>1 DEF Succ, SelectInSeq
  <2> HIDE DEF s
  <2>2. I # {} /\ Min(I) = at
    BY <1>3, <1>4, OnlyPlace
  <2>3. i = at
    BY <2>2
  <2> HIDE DEF i
  <2> QED
    BY <2>1, <2>3
<1>6. ASSUME NEW j \in 1..Len(s)
      PROVE s[j] \in E /\ s[j] \in Node /\ Home(h, s[j], Len(cs)) = b
  <2>1. s[j] \in ToSet(s)
    BY <1>4 DEF ToSet
  <2> QED
    BY <1>1, <1>2, <2>1 DEF ChainsOK
<1>7. ASSUME NEW m \in E
      PROVE  Before(cs, h, m, n) <=> \/ Home(h, m, Len(cs)) < b
                                     \/ \E x \in 1..Len(s) : x < at /\ s[x] = m
  BY <1>1, <1>2, <1>3, BeforePlace
<1>8. CASE at < Len(s)
  <2> DEFINE c == s[at + 1]
  <2>1. at + 1 \in 1..Len(s)
    BY <1>4, <1>8
  <2>2. c \in E /\ c # NoNode
    BY <1>1, <1>6, <2>1, HashAssumption
  <2>3. ASSUME NEW m \in E
        PROVE  Before(cs, h, m, c) <=> \/ Home(h, m, Len(cs)) < b
                                       \/ \E x \in 1..Len(s) : x < at + 1 /\ s[x] = m
    BY <1>1, <1>2, <2>1, BeforePlace
  <2>4. \A x \in 1..Len(s) : x < at + 1 <=> x < at \/ x = at
    BY <1>4
  <2> HIDE DEF s
  <2>5. ASSUME NEW m \in E
        PROVE  Before(cs, h, m, c) <=> Before(cs, h, m, n) \/ m = n
    <3>1. (\E x \in 1..Len(s) : x < at + 1 /\ s[x] = m)
          <=> (\E x \in 1..Len(s) : x < at /\ s[x] = m) \/ m = n
      BY <1>3, <2>4
    <3> QED
      BY <1>7, <2>3, <3>1
  <2>6. passed = {m \in E : Before(cs, h, m, c)}
    BY <2>5
  <2>7. Succ(t, n) = c
    BY <1>5, <1>8
  <2> QED
    BY <2>2, <2>6, <2>7 DEF IsWalk
<1>9. CASE ~(at < Len(s))
  <2>1. at = Len(s)
    BY <1>3, <1>4, <1>9
  <2>2. ASSUME NEW m \in E
        PROVE  Home(h, m, Len(cs)) < b + 1 <=> Before(cs, h, m, n) \/ m = n
    <3> DEFINE d == Home(h, m, Len(cs))
    <3>1. d \in 1..Len(cs)
      BY <1>1, PlaceOf
    <3>2. PICK y \in 1..Len(cs[d]) : m = cs[d][y]
      BY <1>1, PlaceOf
    <3>3. (\E x \in 1..Len(s) : x < at /\ s[x] = m) => d = b
      BY <1>6
    <3>4. d = b => (\E x \in 1..Len(s) : x < at /\ s[x] = m) \/ m = n
      <4> SUFFICES ASSUME d = b
                   PROVE  (\E x \in 1..Len(s) : x < at /\ s[x] = m) \/ m = n
        OBVIOUS
      <4>1. y \in 1..Len(s) /\ m = s[y]
        BY <3>2
      <4> DEFINE l == Len(s)
      <4>2. y \in 1..l /\ l \in Nat /\ at = l
        BY <1>4, <2>1, <4>1
      <4> HIDE DEF l
      <4>3. y < at \/ y = at
        BY <4>2
      <4> HIDE DEF s
      <4> QED
        BY <1>3, <4>1, <4>3
    <3>5. m = n => d = b
      OBVIOUS
    <3> HIDE DEF d, b
    <3>6. d < b + 1 <=> d < b \/ d = b
      BY <1>2, <1>4, <3>1
    <3> HIDE DEF s
    <3> QED
      BY <1>7, <3>3, <3>4, <3>5, <3>6 DEF d
  <2>3. passed = {m \in E : Home(h, m, Len(cs)) < b + 1}
    <3> HIDE DEF b, cs, h
    <3> QED
      BY <2>2
  <2>4. b + 1 \in 1..(Len(cs) + 1)
    <3> HIDE DEF b, cs
    <3> QED
      BY <1>2, <1>4
  <2>5. IsWalk(t, E, FirstFrom(t, b + 1), {m \in E : Home(h, m, Len(cs)) < b + 1})
    <3> DEFINE d == b + 1
    <3>1. d \in 1..(Len(t.chain) + 1)
      BY <2>4
    <3> HIDE DEF d
    <3>2. IsWalk(t, E, FirstFrom(t, d), {m \in E : Home(t.hash, m, Len(t.chain)) < d})
      BY <3>1, FirstFromIs
    <3> QED
      BY <3>2 DEF d
  <2> QED
    BY <1>5, <1>9, <2>3, <2>5
<1> QED
  BY <1>8, <1>9

\* The other elements keep their order when one is unlinked.
LEMMA SameOrder ==
  ASSUME NEW t, NEW ks, NEW E, TableOK(t, ks, E), NEW n \in E, NEW m \in E \ {n}, NEW c \in E \ {n}
  PROVE  Before(Unlinked(t, n).chain, Unlinked(t, n).hash, m, c) <=> Before(t.chain, t.hash, m, c)
<1> DEFINE cs == t.chain
           h == t.hash
           b == Home(h, n, Len(cs))
           s == cs[b]
           r == RemoveFirst(s, n)
           cs2 == [cs EXCEPT ![b] = r]
<1>1. ChainsOK(cs, h, ks, E)
  BY DEF TableOK
<1>2. b \in 1..Len(cs) /\ \E at \in 1..Len(s) : n = s[at]
  BY <1>1, PlaceOf
<1>3. Unlinked(t, n).chain = cs2 /\ Unlinked(t, n).hash = h
  <2>1. Unlinked(t, n) = [chain |-> cs2, hash |-> h, n |-> t.n - 1]
    BY UnlinkedIs
  <2> HIDE DEF cs2, h
  <2> QED
    BY <2>1
<1>4. PICK at \in 1..Len(s) : n = s[at]
  BY <1>2
<1>5. s \in Seq(Node) /\ IsInjective(s) /\ Len(s) \in Nat /\ cs \in Seq(Seq(Node))
  BY <1>1, <1>2, ChainFacts DEF ChainsOK
<1>6. /\ r \in Seq(Node) /\ Len(r) = Len(s) - 1
      /\ \A i \in 1..(Len(s) - 1) : r[i] = IF i < at THEN s[i] ELSE s[i + 1]
  <2> HIDE DEF s
  <2> DEFINE q == RemoveFirst(s, s[at])
  <2>1. /\ q \in Seq(Node) /\ Len(q) = Len(s) - 1
        /\ \A i \in 1..(Len(s) - 1) : q[i] = IF i < at THEN s[i] ELSE s[i + 1]
    BY <1>4, <1>5, RemovedAt
  <2> HIDE DEF q
  <2>2. r = q
    BY <1>4 DEF q
  <2> QED
    BY <2>1, <2>2
<1> HIDE DEF r, b, s
<1>7. /\ cs2 \in Seq(Seq(Node)) /\ Len(cs2) = Len(cs)
      /\ \A j \in 1..Len(cs) : cs2[j] = IF j = b THEN r ELSE cs[j]
  BY <1>2, <1>5, <1>6, ExceptSeq
<1> DEFINE d == Home(h, c, Len(cs))
<1>8. d \in 1..Len(cs)
  BY <1>1, PlaceOf
<1> HIDE DEF d, cs2, cs, h
<1>9. (\E i, j \in 1..Len(cs2[d]) : i < j /\ cs2[d][i] = m /\ cs2[d][j] = c)
      <=> (\E i, j \in 1..Len(cs[d]) : i < j /\ cs[d][i] = m /\ cs[d][j] = c)
  <2>1. CASE d # b
    BY <1>7, <1>8, <2>1
  <2>2. CASE d = b
    <3>1. cs2[d] = r /\ cs[d] = s
      BY <1>7, <1>8, <2>2 DEF s
    <3>2. \A i \in 1..(Len(s) - 1) :
            LET up == IF i < at THEN i ELSE i + 1
            IN  up \in 1..Len(s) /\ up # at /\ r[i] = s[up]
      BY <1>4, <1>5, <1>6
    <3>3. ASSUME NEW i \in 1..Len(r), NEW j \in 1..Len(r), i < j, r[i] = m, r[j] = c
          PROVE  \E x, y \in 1..Len(s) : x < y /\ s[x] = m /\ s[y] = c
      <4> DEFINE x == IF i < at THEN i ELSE i + 1
                 y == IF j < at THEN j ELSE j + 1
      <4>1. i \in 1..(Len(s) - 1) /\ j \in 1..(Len(s) - 1)
        BY <1>6
      <4>2. x \in 1..Len(s) /\ y \in 1..Len(s) /\ s[x] = m /\ s[y] = c
        BY <3>2, <3>3, <4>1
      <4>3. x < y
        BY <1>4, <1>5, <3>3, <4>1
      <4> HIDE DEF x, y
      <4> QED
        BY <4>2, <4>3
    <3>4. ASSUME NEW x \in 1..Len(s), NEW y \in 1..Len(s), x < y, s[x] = m, s[y] = c
          PROVE  \E i, j \in 1..Len(r) : i < j /\ r[i] = m /\ r[j] = c
      <4> DEFINE i == IF x < at THEN x ELSE x - 1
                 j == IF y < at THEN y ELSE y - 1
      <4>1. x # at /\ y # at
        BY <1>4, <3>4
      <4>2. ASSUME NEW z \in 1..Len(s), z # at
            PROVE  LET k == IF z < at THEN z ELSE z - 1
                   IN  /\ k \in 1..(Len(s) - 1) /\ k \in Int
                       /\ (k < at <=> z < at) /\ (~(k < at) => k + 1 = z)
        BY <1>4, <1>5, <4>2
      <4>3. /\ i \in 1..(Len(s) - 1) /\ i \in Int /\ (i < at <=> x < at) /\ (~(i < at) => i + 1 = x)
            /\ j \in 1..(Len(s) - 1) /\ j \in Int /\ (j < at <=> y < at) /\ (~(j < at) => j + 1 = y)
        BY <4>1, <4>2
      <4>4. i < j
        BY <1>4, <1>5, <3>4, <4>1
      <4>5. r[i] = s[x]
        <5>1. r[i] = IF i < at THEN s[i] ELSE s[i + 1]
          BY <1>6, <4>3
        <5>2. CASE x < at
          <6>1. i = x
            BY <5>2
          <6> HIDE DEF i
          <6> QED
            BY <4>3, <5>1, <5>2, <6>1
        <5>3. CASE ~(x < at)
          <6> HIDE DEF i
          <6> QED
            BY <4>3, <5>1, <5>3
        <5> QED
          BY <5>2, <5>3
      <4>6. r[j] = s[y]
        <5>1. r[j] = IF j < at THEN s[j] ELSE s[j + 1]
          BY <1>6, <4>3
        <5>2. CASE y < at
          <6>1. j = y
            BY <5>2
          <6> HIDE DEF j
          <6> QED
            BY <4>3, <5>1, <5>2, <6>1
        <5>3. CASE ~(y < at)
          <6> HIDE DEF j
          <6> QED
            BY <4>3, <5>1, <5>3
        <5> QED
          BY <5>2, <5>3
      <4> HIDE DEF i, j
      <4>7. i \in 1..Len(r) /\ j \in 1..Len(r)
        BY <1>6, <4>3
      <4> QED
        BY <3>4, <4>4, <4>5, <4>6, <4>7
    <3> QED
      BY <3>1, <3>3, <3>4
  <2> QED
    BY <2>1, <2>2
<1>10. Before(cs2, h, m, c) <=> Before(cs, h, m, c)
  BY <1>7, <1>9 DEF Before, d
<1> QED
  BY <1>3, <1>10 DEF cs2, cs, h

\* An iterator at another element goes on as before when one is erased.
LEMMA WalkGoesOn ==
  ASSUME NEW t, NEW ks, NEW E, TableOK(t, ks, E), NEW n \in E, NEW c, c # n,
         NEW passed, IsWalk(t, E, c, passed)
  PROVE  IsWalk(Unlinked(t, n), E \ {n}, c, passed \ {n})
<1>1. CASE c = NoNode
  BY <1>1 DEF IsWalk
<1>2. CASE c # NoNode
  <2>1. c \in E \ {n} /\ passed = {m \in E : Before(t.chain, t.hash, m, c)}
    BY <1>2 DEF IsWalk
  <2>2. \A m \in E \ {n} :
          Before(Unlinked(t, n).chain, Unlinked(t, n).hash, m, c) <=> Before(t.chain, t.hash, m, c)
    BY <2>1, SameOrder
  <2>3. passed \ {n} = {m \in E \ {n} : Before(Unlinked(t, n).chain, Unlinked(t, n).hash, m, c)}
    BY <2>1, <2>2
  <2> QED
    BY <1>2, <2>1, <2>3 DEF IsWalk
<1> QED
  BY <1>1, <1>2

\* The successor of the element that is erased under the iterator is the place to go on.
LEMMA WalkErases ==
  ASSUME NEW t, NEW ks, NEW E, TableOK(t, ks, E), NEW n \in E,
         NEW passed, IsWalk(t, E, n, passed)
  PROVE  IsWalk(Unlinked(t, n), E \ {n}, Succ(t, n), passed)
<1> DEFINE c == Succ(t, n)
<1>1. ChainsOK(t.chain, t.hash, ks, E) /\ n # NoNode
  BY HashAssumption DEF TableOK, ChainsOK
<1>2. passed = {m \in E : Before(t.chain, t.hash, m, n)}
  BY <1>1 DEF IsWalk
<1>3. ~Before(t.chain, t.hash, n, n)
  BY <1>1, NeverBothBefore
<1>4. IsWalk(t, E, c, passed \cup {n})
  BY <1>2, SuccIs
<1> HIDE DEF c
<1>5. c # n
  <2>1. CASE c = n
    <3>1. passed \cup {n} = {m \in E : Before(t.chain, t.hash, m, n)}
      BY <1>1, <1>4, <2>1 DEF IsWalk
    <3> QED
      BY <1>3, <3>1
  <2> QED
    BY <2>1
<1>6. (passed \cup {n}) \ {n} = passed
  BY <1>2, <1>3
<1> DEFINE p == passed \cup {n}
<1>7. IsWalk(Unlinked(t, n), E \ {n}, c, p \ {n})
  <2>1. IsWalk(t, E, c, p)
    BY <1>4
  <2> HIDE DEF p
  <2> QED
    BY <1>5, <2>1, WalkGoesOn
<1> QED
  BY <1>6, <1>7 DEF c

\* What is ahead of the iterator in the order of the table.
LEMMA WalkIsComplete ==
  ASSUME NEW t, NEW ks, NEW E, TableOK(t, ks, E), NEW c, NEW passed, IsWalk(t, E, c, passed)
  PROVE  LET f == Order(t)
             I == {j \in 1..Len(f) : f[j] = c}
             at == IF I # {} THEN Min(I) ELSE 0
             ahead == IF c = NoNode THEN {} ELSE ToSet(SubSeq(f, at, Len(f)))
         IN  /\ c # NoNode => at # 0
             /\ passed \cap ahead = {} /\ passed \cup ahead = E
<1> DEFINE f == Order(t)
           I == {j \in 1..Len(f) : f[j] = c}
           at == IF I # {} THEN Min(I) ELSE 0
           ahead == IF c = NoNode THEN {} ELSE ToSet(SubSeq(f, at, Len(f)))
<1>2. ChainsOK(t.chain, t.hash, ks, E)
  BY DEF TableOK
<1>3. /\ f \in Seq(Node) /\ IsInjective(f) /\ ToSet(f) = E
      /\ \A i, j \in 1..Len(f) : i < j => Before(t.chain, t.hash, f[i], f[j])
  BY <1>2, OrderFacts DEF Order
<1>4. Len(f) \in Nat /\ DOMAIN f = 1..Len(f)
  BY <1>3, LenProperties
<1> HIDE DEF f
<1>5. CASE c = NoNode
  BY <1>5 DEF IsWalk, f
<1>6. CASE c # NoNode
  <2>1. c \in E /\ passed = {m \in E : Before(t.chain, t.hash, m, c)}
    BY <1>6 DEF IsWalk
  <2>2. PICK p \in 1..Len(f) : f[p] = c
    BY <1>3, <1>4, <2>1 DEF ToSet
  <2>3. at = p /\ at # 0
    <3>1. I # {} /\ Min(I) = p
      BY <1>3, <2>2, OnlyPlace
    <3>2. at = p
      BY <3>1
    <3> HIDE DEF at
    <3> QED
      BY <1>4, <3>2
  <2> HIDE DEF at
  <2> DEFINE r == SubSeq(f, p, Len(f))
  <2>4. p \in Nat /\ p >= 1 /\ p <= Len(f)
    BY <1>4, <2>2
  <2>5. r \in Seq(Node) /\ Len(r) = Len(f) - p + 1 /\ \A i \in 1..(Len(f) - p + 1) : r[i] = f[p + i - 1]
    <3>1. \A i \in p..Len(f) : f[i] \in Node
      BY <1>3, <1>4, <2>4, LenProperties
    <3> QED
      BY <1>4, <2>4, <3>1, SubSeqProperties
  <2> HIDE DEF r
  <2>6. DOMAIN r = 1..Len(r)
    BY <2>5, LenProperties
  <2>7. ToSet(r) = {n \in E : \E j \in 1..Len(f) : p <= j /\ f[j] = n}
    <3>1. ASSUME NEW n \in ToSet(r) PROVE n \in E /\ \E j \in 1..Len(f) : p <= j /\ f[j] = n
      <4>1. PICK i \in 1..Len(r) : r[i] = n
        BY <2>6 DEF ToSet
      <4>2. p + i - 1 \in 1..Len(f) /\ p <= p + i - 1 /\ f[p + i - 1] = n
        BY <1>4, <2>4, <2>5, <4>1
      <4>3. n \in E
        BY <1>3, <1>4, <4>2 DEF ToSet
      <4> QED
        BY <4>2, <4>3
    <3>2. ASSUME NEW j \in 1..Len(f), p <= j PROVE f[j] \in ToSet(r)
      <4>1. j - p + 1 \in 1..(Len(f) - p + 1) /\ p + (j - p + 1) - 1 = j
        BY <1>4, <2>4, <3>2
      <4>2. r[j - p + 1] = f[p + (j - p + 1) - 1] /\ j - p + 1 \in DOMAIN r
        BY <2>5, <2>6, <4>1
      <4>3. r[j - p + 1] = f[j]
        BY <4>1, <4>2
      <4> QED
        BY <4>2, <4>3 DEF ToSet
    <3> QED
      BY <3>1, <3>2
  <2>8. ASSUME NEW n \in E
        PROVE  Before(t.chain, t.hash, n, c) <=> ~\E j \in 1..Len(f) : p <= j /\ f[j] = n
    <3>1. PICK x \in 1..Len(f) : f[x] = n
      BY <1>3, <1>4 DEF ToSet
    <3>2. \A j \in 1..Len(f) : f[j] = n => j = x
      BY <1>3, <1>4, <3>1 DEF IsInjective
    <3>3. CASE x < p
      <4>1. Before(t.chain, t.hash, n, c)
        BY <1>3, <2>2, <3>1, <3>3
      <4>2. ~\E j \in 1..Len(f) : p <= j /\ f[j] = n
        BY <1>4, <2>4, <3>2, <3>3
      <4> QED
        BY <4>1, <4>2
    <3>4. CASE x = p
      <4>1. ~Before(t.chain, t.hash, n, c)
        BY <1>2, <2>1, <2>2, <3>1, <3>4, NeverBothBefore
      <4> QED
        BY <2>4, <3>1, <3>4, <4>1
    <3>5. CASE p < x
      <4>1. Before(t.chain, t.hash, c, n)
        BY <1>3, <2>2, <3>1, <3>5
      <4>2. ~Before(t.chain, t.hash, n, c)
        BY <1>2, <2>1, <4>1, NeverBothBefore
      <4> QED
        BY <1>4, <2>4, <3>1, <3>5, <4>2
    <3> QED
      BY <1>4, <2>4, <3>3, <3>4, <3>5
  <2>9. ahead = ToSet(r)
    BY <1>6, <2>3 DEF r
  <2>10. passed \cap ahead = {} /\ passed \cup ahead = E
    BY <2>1, <2>7, <2>8, <2>9
  <2> QED
    BY <2>3, <2>10 DEF f, at
<1> QED
  BY <1>5, <1>6

-----------------------------------------------------------------------------
(* The inductive invariant.                                                *)

\* A reposition concerns one element, which keeps its old key at hand.
Phases ==
  /\ pc = "idle" => moving = NoNode /\ old = NoKey
  /\ pc # "idle" => moving \in Node /\ key[moving] \in Key /\ old \in Key /\ ~walking
  /\ pc = "back" => key[moving] = old

IInv ==
  /\ TypeOK
  /\ TableOK(table, key, Elements)
  /\ Phases
  /\ walking => IsWalk(table, Elements, cur, seen)

LEMMA IdleElements ==
  ASSUME IInv, pc = "idle"
  PROVE  Elements = {n \in Node : key[n] # NoKey} /\ moving = NoNode /\ old = NoKey
BY HashAssumption DEF IInv, Phases, Elements

\* The parts of the invariant that are about the types, from the others.
LEMMA TypesFollow ==
  ASSUME NEW t, NEW ks, NEW E, TableOK(t, ks, E)
  PROVE  /\ Buckets(t) > 0 /\ t.chain \in Seq(Seq(Node))
         /\ t.hash \in [Node -> Nat] /\ t.n \in Nat
<1>1. Buckets(t) \in Nat \ {0}
  BY TableFacts
<1> QED
  BY <1>1, TableFacts

\* A step that leaves no walk, or one under which the iterator is right.
LEMMA InvByParts ==
  ASSUME unique' \in BOOLEAN,
         key' \in [Node -> Key \cup {NoKey}], pc' \in {"idle", "out", "back"},
         moving' \in Node \cup {NoNode}, old' \in Key \cup {NoKey}, walking' \in BOOLEAN,
         NEW E, E = Elements', TableOK(table', key', E), Phases',
         \/ StopWalk
         \/ ~walking' /\ cur' \in Node \cup {NoNode} /\ seen' \subseteq Node
         \/ IsWalk(table', E, cur', seen')
  PROVE  IInv'
<1>1. E \subseteq Node
  BY DEF TableOK, ChainsOK
<1>2. /\ cur' \in Node \cup {NoNode} /\ seen' \subseteq Node
      /\ walking' => IsWalk(table', E, cur', seen')
  BY <1>1 DEF StopWalk, IsWalk
<1>3. /\ Buckets(table') > 0 /\ table'.chain \in Seq(Seq(Node))
      /\ table'.hash \in [Node -> Nat] /\ table'.n \in Nat
  BY TypesFollow
<1>4. TypeOK'
  BY <1>2, <1>3 DEF TypeOK, Buckets
<1> QED
  BY <1>2, <1>4 DEF IInv

LEMMA Initial == Init => IInv
<1> SUFFICES ASSUME Init PROVE IInv
  OBVIOUS
<1>1. Elements = {}
  BY DEF Init, Elements
<1>2. TableOK(table, key, Elements)
  <2>1. InitialBuckets \in Nat \ {0}
    BY HashAssumption
  <2>2. TableOK(Empty(InitialBuckets), key, {})
    BY <2>1, EmptyOK
  <2> QED
    BY <1>1, <2>2 DEF Init
<1>3. /\ Buckets(table) > 0 /\ table.chain \in Seq(Seq(Node))
      /\ table.hash \in [Node -> Nat] /\ table.n \in Nat
  BY <1>2, TypesFollow
<1>4. TypeOK
  BY <1>3 DEF TypeOK, Init
<1> QED
  BY <1>2, <1>4 DEF IInv, Phases, Init

-----------------------------------------------------------------------------
(* One lemma per operation of the container on the table.                  *)

LEMMA InsertKeeps ==
  ASSUME IInv, NEW n \in Node, NEW k \in Key, Insert(n, k), UNCHANGED unique
  PROVE  /\ IInv'
         /\ \/ table' = table /\ key' = key
            \/ Elements' = Elements \cup {n} /\ key' = [key EXCEPT ![n] = k]
<1> DEFINE ks == [key EXCEPT ![n] = k]
           E == Elements
<1>1. E = {m \in Node : key[m] # NoKey} /\ moving = NoNode /\ old = NoKey /\ n \notin E
      /\ key \in [Node -> Key \cup {NoKey}] /\ TableOK(table, key, E) /\ unique \in BOOLEAN
  BY IdleElements DEF Insert, IInv, TypeOK
<1>2. k # NoKey /\ NoNode \notin Node
  BY HashAssumption
<1>3. pc' = "idle" /\ moving' = NoNode /\ old' = NoKey /\ StopWalk /\ walking' \in BOOLEAN
  BY <1>1 DEF Insert, StopWalk
<1>4. Phases'
  BY <1>3 DEF Phases
<1>5. CASE Refuses(table, ks, n)
  <2>1. UNCHANGED <<table, key>>
    BY <1>5 DEF Insert
  <2>2. Elements' = E
    BY <1>1, <1>3, <2>1 DEF Elements
  <2> HIDE DEF E
  <2>3. TableOK(table', key', E) /\ key' \in [Node -> Key \cup {NoKey}]
    BY <1>1, <2>1
  <2>4. IInv'
    BY <1>1, <1>3, <1>4, <2>2, <2>3, InvByParts
  <2> QED
    BY <2>1, <2>4
<1>6. CASE ~Refuses(table, ks, n)
  <2>1. table' = Added(table, ks, n) /\ key' = ks
    BY <1>6 DEF Insert
  <2> HIDE DEF E
  <2>2. \A m \in E : ks[m] = key[m]
    BY <1>1
  <2>3. TableOK(table, ks, E)
    BY <1>1, <2>2, SameKeysOK
  <2>4. n \in Node \ E /\ ks[n] \in Key
    BY <1>1
  <2> HIDE DEF ks
  <2>5. TableOK(Added(table, ks, n), ks, E \cup {n})
    BY <2>3, <2>4, AddedOK
  <2>6. Elements' = E \cup {n}
    BY <1>1, <1>2, <1>3, <2>1 DEF Elements, ks
  <2>7. key' \in [Node -> Key \cup {NoKey}]
    BY <1>1, <2>1 DEF ks
  <2>8. IInv'
    BY <1>1, <1>3, <1>4, <2>1, <2>5, <2>6, <2>7, InvByParts
  <2> QED
    BY <2>1, <2>6, <2>8 DEF ks, E
<1> QED
  BY <1>5, <1>6

LEMMA EraseKeeps ==
  ASSUME IInv, NEW n \in Node, Erase(n), UNCHANGED unique
  PROVE  IInv'
<1> DEFINE E == Elements
<1>1. E = {m \in Node : key[m] # NoKey} /\ moving = NoNode /\ old = NoKey /\ n \in E
      /\ key \in [Node -> Key \cup {NoKey}] /\ TableOK(table, key, E) /\ unique \in BOOLEAN
      /\ walking \in BOOLEAN /\ cur \in Node \cup {NoNode} /\ seen \subseteq Node
      /\ (walking => IsWalk(table, E, cur, seen))
  BY IdleElements DEF Erase, IInv, TypeOK
<1>2. NoNode \notin Node
  BY HashAssumption
<1>3. pc' = "idle" /\ moving' = NoNode /\ old' = NoKey
  BY <1>1 DEF Erase
<1>4. Phases'
  BY <1>3 DEF Phases
<1>5. table' = Unlinked(table, n) /\ key' = [key EXCEPT ![n] = NoKey]
  BY DEF Erase
<1>6. Elements' = E \ {n} /\ key' \in [Node -> Key \cup {NoKey}]
  BY <1>1, <1>2, <1>3, <1>5 DEF Elements
<1> HIDE DEF E
<1>7. \A m \in E \ {n} : key'[m] = key[m]
  BY <1>1, <1>5
<1>8. TableOK(Unlinked(table, n), key, E \ {n})
  BY <1>1, UnlinkedOK
<1>9. TableOK(table', key', E \ {n})
  BY <1>5, <1>7, <1>8, SameKeysOK
<1>10. CASE cur = n
  <2>1. StopWalk /\ walking' \in BOOLEAN
    BY <1>10 DEF Erase, StopWalk
  <2> QED
    BY <1>1, <1>3, <1>4, <1>6, <1>9, <2>1, InvByParts
<1>11. CASE cur # n
  <2>1. seen' = seen \ {n} /\ walking' = walking /\ cur' = cur
    BY <1>11 DEF Erase
  <2>2. CASE walking
    <3>1. IsWalk(Unlinked(table, n), E \ {n}, cur, seen \ {n})
      BY <1>1, <1>11, <2>2, WalkGoesOn
    <3>2. IsWalk(table', E \ {n}, cur', seen')
      BY <1>5, <2>1, <3>1
    <3> QED
      BY <1>1, <1>3, <1>4, <1>6, <1>9, <2>1, <3>2, InvByParts
  <2>3. CASE ~walking
    <3>1. ~walking' /\ cur' \in Node \cup {NoNode} /\ seen' \subseteq Node
      BY <1>1, <2>1, <2>3
    <3> QED
      BY <1>1, <1>3, <1>4, <1>6, <1>9, <2>1, <3>1, InvByParts
  <2> QED
    BY <2>2, <2>3
<1> QED
  BY <1>10, <1>11

LEMMA RekeyKeeps ==
  ASSUME IInv, NEW n \in Node, NEW k \in Key, Rekey(n, k), UNCHANGED unique
  PROVE  IInv'
<1> DEFINE E == Elements
<1>1. E = {m \in Node : key[m] # NoKey} /\ n \in E /\ key[n] \in Key
      /\ key \in [Node -> Key \cup {NoKey}] /\ TableOK(table, key, E) /\ unique \in BOOLEAN
  BY IdleElements DEF Rekey, IInv, TypeOK
<1>2. NoNode \notin Node /\ k # NoKey
  BY HashAssumption
<1>3. /\ pc' = "out" /\ moving' = n /\ old' = key[n] /\ StopWalk /\ walking' = FALSE
      /\ table' = Unlinked(table, n) /\ key' = [key EXCEPT ![n] = k]
  BY DEF Rekey, StopWalk
<1>4. key'[n] = k /\ key' \in [Node -> Key \cup {NoKey}]
  BY <1>1, <1>3
<1>5. Phases'
  BY <1>1, <1>3, <1>4 DEF Phases
<1>6. Elements' = E \ {n}
  BY <1>1, <1>2, <1>3 DEF Elements
<1> HIDE DEF E
<1>7. \A m \in E \ {n} : key'[m] = key[m]
  BY <1>1, <1>3
<1>8. TableOK(Unlinked(table, n), key, E \ {n})
  BY <1>1, UnlinkedOK
<1>9. TableOK(table', key', E \ {n})
  BY <1>3, <1>7, <1>8, SameKeysOK
<1> QED
  BY <1>1, <1>3, <1>4, <1>5, <1>6, <1>9, InvByParts

\* What is known while a reposition is under way.
LEMMA Underway ==
  ASSUME IInv, pc # "idle"
  PROVE  /\ moving \in Node \ Elements /\ key[moving] \in Key /\ old \in Key /\ walking = FALSE
         /\ key \in [Node -> Key \cup {NoKey}] /\ TableOK(table, key, Elements)
         /\ Elements = {m \in Node : key[m] # NoKey} \ {moving} /\ unique \in BOOLEAN
         /\ cur \in Node \cup {NoNode} /\ seen \subseteq Node
BY DEF IInv, TypeOK, Phases, Elements

\* Relink and RollBack: the node is back among the elements.
LEMMA AddingKeeps ==
  ASSUME IInv, pc # "idle", table' = Added(table, key, moving), Settle, UNCHANGED <<key, walk, unique>>
  PROVE  IInv' /\ Elements' = Elements \cup {moving}
<1> DEFINE E == Elements
           n == moving
<1>1. /\ n \in Node \ E /\ key[n] \in Key /\ key \in [Node -> Key \cup {NoKey}]
      /\ TableOK(table, key, E) /\ E = {m \in Node : key[m] # NoKey} \ {n} /\ unique \in BOOLEAN
      /\ walking = FALSE /\ cur \in Node \cup {NoNode} /\ seen \subseteq Node
  BY Underway
<1>2. NoNode \notin Node /\ NoKey \notin Key
  BY HashAssumption
<1>3. /\ pc' = "idle" /\ moving' = NoNode /\ old' = NoKey /\ key' = key /\ walking' = walking
      /\ cur' = cur /\ seen' = seen /\ unique' = unique
  BY DEF Settle, walk
<1>4. Phases'
  BY <1>3 DEF Phases
<1>5. Elements' = E \cup {n}
  BY <1>1, <1>2, <1>3 DEF Elements
<1> HIDE DEF E, n
<1>6. TableOK(Added(table, key, n), key, E \cup {n})
  BY <1>1, AddedOK
<1>7. TableOK(table', key', E \cup {n})
  BY <1>3, <1>6 DEF n
<1>8. /\ unique' \in BOOLEAN /\ key' \in [Node -> Key \cup {NoKey}]
      /\ pc' \in {"idle", "out", "back"} /\ moving' \in Node \cup {NoNode}
      /\ old' \in Key \cup {NoKey} /\ walking' \in BOOLEAN
      /\ ~walking' /\ cur' \in Node \cup {NoNode} /\ seen' \subseteq Node
  BY <1>1, <1>3
<1> DEFINE F == E \cup {n}
<1>9. TableOK(table', key', F) /\ F = Elements'
  BY <1>5, <1>7
<1> HIDE DEF F
<1>10. IInv'
  BY <1>4, <1>8, <1>9, InvByParts
<1> QED
  BY <1>5, <1>10 DEF E, n

\* RefuseRelink and Veto: the table is as it was, and so is the key.
LEMMA RestoringKeeps ==
  ASSUME IInv, pc = "out", TableOK(table', key, Elements), RestoreKey,
         UNCHANGED <<moving, old, walk, unique>>
  PROVE  IInv' /\ Elements' = Elements
<1> DEFINE E == Elements
           n == moving
<1>1. /\ n \in Node \ E /\ key[n] \in Key /\ key \in [Node -> Key \cup {NoKey}]
      /\ E = {m \in Node : key[m] # NoKey} \ {n} /\ unique \in BOOLEAN /\ old \in Key
      /\ walking = FALSE /\ cur \in Node \cup {NoNode} /\ seen \subseteq Node
  BY Underway
<1>2. NoNode \notin Node /\ NoKey \notin Key
  BY HashAssumption
<1>3. /\ pc' = "back" /\ moving' = n /\ old' = old /\ key' = [key EXCEPT ![n] = old]
      /\ walking' = walking /\ cur' = cur /\ seen' = seen /\ unique' = unique
  BY DEF RestoreKey, walk
<1>4. Phases' /\ key' \in [Node -> Key \cup {NoKey}]
  BY <1>1, <1>3 DEF Phases
<1>5. Elements' = E
  BY <1>1, <1>2, <1>3 DEF Elements
<1>6. \A m \in E : key'[m] = key[m]
  BY <1>1, <1>3
<1>7. TableOK(table', key', E)
  BY <1>6, SameKeysOK
<1>8. IInv'
  <2> HIDE DEF E, n
  <2>1. /\ unique' \in BOOLEAN /\ key' \in [Node -> Key \cup {NoKey}]
        /\ pc' \in {"idle", "out", "back"} /\ moving' \in Node \cup {NoNode}
        /\ old' \in Key \cup {NoKey} /\ walking' \in BOOLEAN
        /\ ~walking' /\ cur' \in Node \cup {NoNode} /\ seen' \subseteq Node
    BY <1>1, <1>3, <1>4
  <2> QED
    BY <1>4, <1>5, <1>7, <2>1, InvByParts
<1> QED
  BY <1>5, <1>8

LEMMA RefuseRelinkKeeps ==
  ASSUME IInv, RefuseRelink, UNCHANGED unique
  PROVE  IInv' /\ Elements' = Elements
<1>1. TableOK(table', key, Elements) /\ RestoreKey /\ UNCHANGED <<moving, old, walk, unique>>
      /\ pc = "out"
  BY DEF RefuseRelink, IInv
<1> QED
  BY <1>1, RestoringKeeps

LEMMA VetoKeeps ==
  ASSUME IInv, Veto, UNCHANGED unique
  PROVE  IInv' /\ Elements' = Elements
<1> DEFINE E == Elements
           n == moving
           u == Added(table, key, n)
<1>1. n \in Node \ E /\ key[n] \in Key /\ TableOK(table, key, E)
  BY Underway DEF Veto
<1>2. TableOK(u, key, E \cup {n})
  BY <1>1, AddedOK
<1>3. table' = Unlinked(u, n) /\ RestoreKey /\ UNCHANGED <<moving, old, walk, unique>> /\ pc = "out"
  BY DEF Veto
<1> HIDE DEF u, E, n
<1>4. TableOK(Unlinked(u, n), key, (E \cup {n}) \ {n})
  <2> DEFINE F == E \cup {n}
  <2>1. TableOK(u, key, F) /\ n \in F
    BY <1>2
  <2> HIDE DEF F
  <2>2. TableOK(Unlinked(u, n), key, F \ {n})
    BY <2>1, UnlinkedOK
  <2> QED
    BY <2>2 DEF F
<1>5. (E \cup {n}) \ {n} = E
  BY <1>1
<1>6. TableOK(table', key, E)
  BY <1>3, <1>4, <1>5
<1> QED
  BY <1>3, <1>6, RestoringKeeps DEF E

\* Clear and MoveAway leave nothing.
LEMMA EmptyingKeeps ==
  ASSUME IInv, pc = "idle", TableOK(table', key', {}), key' = [n \in Node |-> NoKey],
         StopWalk, UNCHANGED <<pc, moving, old, unique>>
  PROVE  IInv'
<1>1. moving = NoNode /\ old = NoKey /\ unique \in BOOLEAN
  BY IdleElements DEF IInv, TypeOK
<1>2. Elements' = {} /\ key' \in [Node -> Key \cup {NoKey}]
  BY DEF Elements
<1>3. Phases' /\ walking' \in BOOLEAN
  BY <1>1 DEF Phases, StopWalk
<1> QED
  BY <1>1, <1>2, <1>3, InvByParts

LEMMA ClearKeeps ==
  ASSUME IInv, Clear, UNCHANGED unique
  PROVE  IInv'
<1> DEFINE nb == Buckets(table)
           h == table.hash
           cs == [b \in 1..nb |-> <<>>]
<1>1. nb \in Nat \ {0} /\ h \in [Node -> Nat]
  BY TableFacts DEF IInv
<1>2. TableOK([chain |-> cs, hash |-> h, n |-> 0], key', {})
  <2> HIDE DEF nb, h
  <2> QED
    BY <1>1, NoChains
<1>3. table' = [chain |-> cs, hash |-> h, n |-> 0]
  <2>1. table' = [table EXCEPT !.chain = cs, !.n = 0]
    BY DEF Clear
  <2>2. table \in [chain : Seq(Seq(Node)), hash : [Node -> Nat], n : Nat]
    BY DEF IInv, TableOK
  <2> HIDE DEF cs
  <2> QED
    BY <2>1, <2>2
<1> QED
  BY <1>2, <1>3, EmptyingKeeps DEF Clear

LEMMA MoveAwayKeeps ==
  ASSUME IInv, MoveAway, UNCHANGED unique
  PROVE  IInv'
<1>1. TableOK(Empty(1), key', {})
  BY EmptyOK
<1> QED
  BY <1>1, EmptyingKeeps DEF MoveAway

\* The iterator starts, advances, or its element is erased under it, or it is dropped.
LEMMA WalkingKeeps ==
  ASSUME IInv, StartWalk \/ StepWalk \/ EraseAtCursor \/ EndWalk, UNCHANGED unique
  PROVE  IInv'
<1> DEFINE E == Elements
<1>0. pc = "idle" /\ UNCHANGED <<pc, moving, old>>
  BY DEF StartWalk, StepWalk, EraseAtCursor, EndWalk
<1>1. /\ E = {m \in Node : key[m] # NoKey} /\ moving = NoNode /\ old = NoKey
      /\ key \in [Node -> Key \cup {NoKey}] /\ TableOK(table, key, E) /\ unique \in BOOLEAN
      /\ walking \in BOOLEAN /\ cur \in Node \cup {NoNode} /\ seen \subseteq Node
      /\ (walking => IsWalk(table, E, cur, seen))
  BY <1>0, IdleElements DEF IInv, TypeOK
<1>2. Phases'
  BY <1>0, <1>1 DEF Phases
<1>3. UNCHANGED <<moving, key>> => Elements' = E
  BY DEF Elements
<1>4. CASE EndWalk
  <2>1. StopWalk /\ UNCHANGED <<table, key>> /\ walking' \in BOOLEAN
    BY <1>4 DEF EndWalk, StopWalk
  <2> QED
    BY <1>0, <1>1, <1>2, <1>3, <2>1, InvByParts
<1> HIDE DEF E
<1>5. CASE StartWalk
  <2>1. UNCHANGED <<table, key>> /\ walking' = TRUE /\ cur' = FirstFrom(table, 1) /\ seen' = {}
    BY <1>5 DEF StartWalk
  <2>2. ChainsOK(table.chain, table.hash, key, E) /\ Len(table.chain) \in Nat
    BY <1>1, ChainFacts DEF TableOK
  <2>3. 1 \in 1..(Len(table.chain) + 1)
    BY <2>2
  <2>4. IsWalk(table, E, FirstFrom(table, 1), {m \in E : Home(table.hash, m, Len(table.chain)) < 1})
    BY <1>1, <2>3, FirstFromIs
  <2>5. {m \in E : Home(table.hash, m, Len(table.chain)) < 1} = {}
    <3>1. ASSUME NEW m \in E PROVE ~(Home(table.hash, m, Len(table.chain)) < 1)
      <4> DEFINE d == Home(table.hash, m, Len(table.chain))
      <4>1. d \in 1..Len(table.chain)
        BY <2>2, PlaceOf
      <4> HIDE DEF d
      <4>2. ~(d < 1)
        BY <2>2, <4>1
      <4> QED
        BY <4>2 DEF d
    <3> QED
      BY <3>1
  <2>6. IsWalk(table', E, cur', seen')
    BY <2>1, <2>4, <2>5
  <2> QED
    BY <1>0, <1>1, <1>2, <1>3, <2>1, <2>6, InvByParts
<1>6. CASE StepWalk
  <2>1. /\ UNCHANGED <<table, key, walking>> /\ walking /\ cur # NoNode
        /\ cur' = Succ(table, cur) /\ seen' = seen \cup {cur}
    BY <1>6 DEF StepWalk
  <2>2. cur \in E /\ seen = {m \in E : Before(table.chain, table.hash, m, cur)}
    BY <1>1, <2>1 DEF IsWalk
  <2>3. IsWalk(table, E, Succ(table, cur),
               {m \in E : Before(table.chain, table.hash, m, cur)} \cup {cur})
    BY <1>1, <2>2, SuccIs
  <2>4. IsWalk(table', E, cur', seen')
    BY <2>1, <2>2, <2>3
  <2> QED
    BY <1>0, <1>1, <1>2, <1>3, <2>1, <2>4, InvByParts
<1>7. CASE EraseAtCursor
  <2>1. /\ walking /\ cur # NoNode /\ UNCHANGED <<walking, seen>>
        /\ cur' = Succ(table, cur) /\ table' = Unlinked(table, cur)
        /\ key' = [key EXCEPT ![cur] = NoKey]
    BY <1>7 DEF EraseAtCursor
  <2>2. cur \in E
    BY <1>1, <2>1 DEF IsWalk
  <2>3. Elements' = E \ {cur} /\ key' \in [Node -> Key \cup {NoKey}]
    BY <1>0, <1>1, <2>1, <2>2, HashAssumption DEF Elements
  <2>4. \A m \in E \ {cur} : key'[m] = key[m]
    BY <1>1, <2>1
  <2>5. TableOK(Unlinked(table, cur), key, E \ {cur})
    BY <1>1, <2>2, UnlinkedOK
  <2>6. TableOK(table', key', E \ {cur})
    BY <2>1, <2>4, <2>5, SameKeysOK
  <2>7. IsWalk(Unlinked(table, cur), E \ {cur}, Succ(table, cur), seen)
    BY <1>1, <2>1, <2>2, WalkErases
  <2>8. IsWalk(table', E \ {cur}, cur', seen')
    BY <2>1, <2>7
  <2> QED
    BY <1>0, <1>1, <1>2, <2>1, <2>3, <2>6, <2>8, InvByParts
<1> QED
  BY <1>4, <1>5, <1>6, <1>7

-----------------------------------------------------------------------------
(* The safety properties.                                                  *)

LEMMA Inductive == IInv /\ [Next]_vars => IInv'
<1> SUFFICES ASSUME IInv, [Next]_vars PROVE IInv'
  OBVIOUS
<1>1. CASE UNCHANGED vars
  BY <1>1 DEF vars, walk, IInv, TypeOK, Phases, Elements
<1>2. CASE Next
  <2> USE <1>2
  <2>1. CASE \E n \in Node, k \in Key : Insert(n, k) \/ Rekey(n, k)
    BY <2>1, InsertKeeps, RekeyKeeps DEF Next
  <2>2. CASE \E n \in Node : Erase(n)
    BY <2>2, EraseKeeps DEF Next
  <2>3. CASE Relink \/ RollBack
    BY <2>3, AddingKeeps DEF Next, Relink, RollBack
  <2>4. CASE RefuseRelink \/ Veto
    BY <2>4, RefuseRelinkKeeps, VetoKeeps DEF Next
  <2>5. CASE Clear \/ MoveAway
    BY <2>5, ClearKeeps, MoveAwayKeeps DEF Next
  <2>6. CASE StartWalk \/ StepWalk \/ EraseAtCursor \/ EndWalk
    BY <2>6, WalkingKeeps DEF Next
  <2> QED
    BY <2>1, <2>2, <2>3, <2>4, <2>5, <2>6 DEF Next, Operation
<1> QED
  BY <1>1, <1>2

\* The inductive invariant: the table is right for the elements whose place is not in
\* question, and the iterator has passed what comes before it.
THEOREM IInvHolds == Spec => []IInv
  BY Initial, Inductive, PTL DEF Spec

\* Every element is in the bucket its key selects, once, and n_ counts them: after any
\* history of splices, rehashes, repositions, vetoes and roll-backs.
THEOREM ConsistentBuckets == Spec => []BucketsConsistent
<1>1. IInv => BucketsConsistent
  <2> SUFFICES ASSUME IInv PROVE BucketsConsistent
    OBVIOUS
  <2> DEFINE f == Order(table)
             E == Elements
  <2>1. ChainsOK(table.chain, table.hash, key, E) /\ table.n = Cardinality(E)
    BY DEF IInv, TableOK
  <2>2. f \in Seq(Node) /\ IsInjective(f) /\ ToSet(f) = E
    BY <2>1, OrderFacts DEF Order
  <2>3. Len(f) = Cardinality(E)
    BY <2>2, DistinctCount
  <2>4. ASSUME NEW b \in 1..Buckets(table), NEW n \in ToSet(table.chain[b])
        PROVE  table.hash[n] = HashOf[key[n]] /\ Bucket(table, HashOf[key[n]]) = b
    <3>1. n \in E /\ Home(table.hash, n, Len(table.chain)) = b
      BY <2>1 DEF ChainsOK, Buckets
    <3>2. table.hash[n] = HashOf[key[n]]
      BY <2>1, <3>1 DEF ChainsOK
    <3> QED
      BY <3>1, <3>2 DEF Home, Bucket, Buckets
  <2> QED
    BY <2>1, <2>2, <2>3, <2>4 DEF BucketsConsistent, Linked, IInv
<1> QED
  BY <1>1, IInvHolds, PTL

\* find, count and equal_range answer as a scan of all elements would, for every key.
THEOREM ExactLookups == Spec => []LookupsExact
<1>1. IInv => LookupsExact
  <2> SUFFICES ASSUME IInv PROVE LookupsExact
    OBVIOUS
  <2>1. TableOK(table, key, Elements)
    BY DEF IInv
  <2>2. ASSUME NEW k \in Key
        PROVE  LET matches == {n \in Elements : key[n] = k}
                   range == EqualRange(table, key, k)
               IN  /\ ToSet(range) = matches /\ Len(range) = Cardinality(matches)
                   /\ Count(table, key, k) = Cardinality(matches)
                   /\ IF matches = {} THEN FindNode(table, key, k) = NoNode
                      ELSE FindNode(table, key, k) \in matches
    <3>1. LET matches == {n \in Elements : key[n] = k}
          IN  IF matches = {} THEN FindNode(table, key, k) = NoNode
              ELSE FindNode(table, key, k) \in matches
      BY <2>1, Found
    <3>2. /\ ToSet(EqualRange(table, key, k)) = Matches(Elements, key, k)
          /\ Len(EqualRange(table, key, k)) = Cardinality(Matches(Elements, key, k))
          /\ Count(table, key, k) = Cardinality(Matches(Elements, key, k))
      BY <2>1, RangeAndCount
    <3> QED
      BY <3>1, <3>2 DEF Matches
  <2> QED
    BY <2>2 DEF LookupsExact
<1> QED
  BY <1>1, IInvHolds, PTL

\* An iterator meets every element that outlives the walk once, whatever is erased at it,
\* behind it and ahead of it.
THEOREM CompleteWalks == Spec => []WalkComplete
<1>1. IInv => WalkComplete
  <2> SUFFICES ASSUME IInv, walking PROVE WalkComplete
    BY DEF WalkComplete
  <2> DEFINE f == Order(table)
             I == {j \in 1..Len(f) : f[j] = cur}
             at == IF I # {} THEN Min(I) ELSE 0
             ahead == IF cur = NoNode THEN {} ELSE ToSet(SubSeq(f, at, Len(f)))
  <2>1. TableOK(table, key, Elements) /\ IsWalk(table, Elements, cur, seen)
    BY DEF IInv
  <2>2. (cur # NoNode => at # 0) /\ seen \cap ahead = {} /\ seen \cup ahead = Elements
    BY <2>1, WalkIsComplete
  <2> QED
    BY <2>2 DEF WalkComplete, SelectInSeq
<1> QED
  BY <1>1, IInvHolds, PTL

-----------------------------------------------------------------------------
(* The table implements a container with one index.                        *)

Step == IF unique THEN UniqueContainer!Next ELSE MultiContainer!Next

\* A node that is not refused fits.
LEMMA NotRefusedFits ==
  ASSUME NEW ks, TableOK(table, ks, Elements), NEW n \in Node, NEW k \in Key, ks[n] = k,
         ~Refuses(table, ks, n), \A m \in DOMAIN Keys \ {n} : m \in Elements /\ Keys[m] = ks[m]
  PROVE  IF unique THEN UniqueContainer!Fits(n, k) ELSE MultiContainer!Fits(n, k)
<1>1. ~(unique /\ \E m \in Elements : ks[m] = k)
  BY RefusedIff
<1>2. CASE unique
  <2>1. \A m \in DOMAIN Keys \ {n} : Keys[m] # k /\ Keys[m] \in Key
    BY <1>1, <1>2 DEF TableOK, ChainsOK
  <2>2. \A m \in DOMAIN Keys \ {n} : KeyOf[1][Keys[m]] # KeyOf[1][k]
    BY <2>1 DEF KeyOf
  <2>3. UniqueContainer!Fits(n, k)
    BY <2>2 DEF UniqueContainer!Fits
  <2> QED
    BY <1>2, <2>3
<1>3. CASE ~unique
  BY <1>3 DEF MultiContainer!Fits
<1> QED
  BY <1>2, <1>3

LEMMA InsertRefines ==
  ASSUME IInv, NEW n \in Node, NEW k \in Key, Insert(n, k), UNCHANGED unique
  PROVE  Keys' = Keys \/ Step
<1> DEFINE ks == [key EXCEPT ![n] = k]
<1>1. Elements = {m \in Node : key[m] # NoKey} /\ moving = NoNode /\ moving' = NoNode
      /\ TableOK(table, key, Elements) /\ n \notin Elements
      /\ key \in [Node -> Key \cup {NoKey}] /\ NoNode \notin Node /\ k # NoKey
  BY IdleElements, HashAssumption DEF Insert, IInv, TypeOK
<1>2. CASE Refuses(table, ks, n)
  BY <1>1, <1>2 DEF Insert, Keys
<1>3. CASE ~Refuses(table, ks, n)
  <2>1. key' = ks
    BY <1>3 DEF Insert
  <2>2. Keys = [m \in Elements |-> key[m]]
    BY <1>1 DEF Keys
  <2>3. Keys' = [m \in Elements \cup {n} |-> IF m = n THEN k ELSE Keys[m]]
    BY <1>1, <2>1, <2>2 DEF Keys
  <2>4. TableOK(table, ks, Elements)
    BY <1>1, SameKeysOK
  <2>5. ks[n] = k /\ \A m \in DOMAIN Keys \ {n} : m \in Elements /\ Keys[m] = ks[m]
    BY <1>1, <2>2
  <2> HIDE DEF ks
  <2>6. IF unique THEN UniqueContainer!Fits(n, k) ELSE MultiContainer!Fits(n, k)
    BY <1>3, <2>4, <2>5, NotRefusedFits
  <2>7. DOMAIN Keys = Elements
    BY <2>2
  <2>8. CASE unique
    <3>1. UniqueContainer!Insert(n, k)
      BY <1>1, <2>3, <2>6, <2>7, <2>8 DEF UniqueContainer!Insert, UniqueContainer!Put
    <3> QED
      BY <2>8, <3>1 DEF Step, UniqueContainer!Next
  <2>9. CASE ~unique
    <3>1. MultiContainer!Insert(n, k)
      BY <1>1, <2>3, <2>6, <2>7, <2>9 DEF MultiContainer!Insert, MultiContainer!Put
    <3> QED
      BY <2>9, <3>1 DEF Step, MultiContainer!Next
  <2> QED
    BY <2>8, <2>9
<1> QED
  BY <1>2, <1>3

\* Erase, also through an iterator.
LEMMA EraseRefines ==
  ASSUME IInv, NEW n \in Elements, pc = "idle", key' = [key EXCEPT ![n] = NoKey],
         UNCHANGED <<moving, old>>
  PROVE  Step
<1>1. Elements = {m \in Node : key[m] # NoKey} /\ moving = NoNode /\ moving' = NoNode
      /\ key \in [Node -> Key \cup {NoKey}] /\ NoNode \notin Node /\ n \in Node
  BY IdleElements, HashAssumption DEF IInv, TypeOK
<1>2. Keys = [m \in Elements |-> key[m]]
  BY <1>1 DEF Keys
<1>3. Keys' = [m \in Elements \ {n} |-> Keys[m]]
  BY <1>1, <1>2 DEF Keys
<1>4. DOMAIN Keys = Elements
  BY <1>2
<1>5. UniqueContainer!Erase(n) /\ MultiContainer!Erase(n)
  BY <1>3, <1>4 DEF UniqueContainer!Erase, UniqueContainer!Without, MultiContainer!Erase,
     MultiContainer!Without
<1> QED
  BY <1>1, <1>5 DEF Step, UniqueContainer!Next, MultiContainer!Next

\* Clear and MoveAway.
LEMMA EmptyingRefines ==
  ASSUME key' = [n \in Node |-> NoKey]
  PROVE  Step
<1>1. Keys' = [m \in {} |-> Keys[m]]
  BY DEF Keys
<1>2. UniqueContainer!Clear /\ MultiContainer!Clear
  BY <1>1 DEF UniqueContainer!Clear, UniqueContainer!Without, MultiContainer!Clear,
     MultiContainer!Without
<1> QED
  BY <1>2 DEF Step, UniqueContainer!Next, MultiContainer!Next

\* A reposition takes effect, abstractly, when the table has taken the node.
LEMMA RelinkRefines ==
  ASSUME IInv, Relink, UNCHANGED unique
  PROVE  Step
<1> DEFINE n == moving
           k == key[moving]
<1>1. /\ n \in Node \ Elements /\ k \in Key /\ old \in Key /\ TableOK(table, key, Elements)
      /\ Elements = {m \in Node : key[m] # NoKey} \ {n}
      /\ NoNode \notin Node /\ k # NoKey
  BY Underway, HashAssumption DEF Relink
<1>2. key' = key /\ moving' = NoNode /\ ~Refuses(table, key, n)
  BY DEF Relink, Settle
<1>3. Keys = [m \in Elements \cup {n} |-> IF m = n THEN old ELSE key[m]]
  BY <1>1 DEF Keys
<1>4. Keys' = [m \in Elements \cup {n} |-> IF m = n THEN k ELSE Keys[m]]
  BY <1>1, <1>2, <1>3 DEF Keys
<1>5. \A m \in DOMAIN Keys \ {n} : m \in Elements /\ Keys[m] = key[m]
  BY <1>3
<1>6. IF unique THEN UniqueContainer!Fits(n, k) ELSE MultiContainer!Fits(n, k)
  BY <1>1, <1>2, <1>5, NotRefusedFits
<1>7. DOMAIN Keys = Elements \cup {n} /\ DOMAIN Keys \cup {n} = Elements \cup {n}
  BY <1>3
<1> HIDE DEF n, k
<1>8. CASE unique
  <2>1. UniqueContainer!Change(n, k)
    BY <1>4, <1>6, <1>7, <1>8 DEF UniqueContainer!Change, UniqueContainer!Put
  <2> QED
    BY <1>1, <1>8, <2>1 DEF Step, UniqueContainer!Next
<1>9. CASE ~unique
  <2>1. MultiContainer!Change(n, k)
    BY <1>4, <1>6, <1>7, <1>9 DEF MultiContainer!Change, MultiContainer!Put
  <2> QED
    BY <1>1, <1>9, <2>1 DEF Step, MultiContainer!Next
<1> QED
  BY <1>8, <1>9

\* Until then, and when it is rolled back, the element has its old key.
LEMMA RepositionStutters ==
  ASSUME IInv, \/ \E n \in Node, k \in Key : Rekey(n, k)
               \/ RefuseRelink \/ Veto \/ RollBack
  PROVE  Keys' = Keys
<1>1. CASE \E n \in Node, k \in Key : Rekey(n, k)
  <2>1. PICK n \in Node, k \in Key : Rekey(n, k)
    BY <1>1
  <2>2. moving = NoNode /\ NoNode \notin Node /\ k # NoKey /\ key \in [Node -> Key \cup {NoKey}]
    BY <2>1, IdleElements, HashAssumption DEF Rekey, IInv, TypeOK
  <2>3. key' = [key EXCEPT ![n] = k] /\ moving' = n /\ old' = key[n] /\ key[n] # NoKey
    BY <2>1 DEF Rekey
  <2> QED
    BY <2>2, <2>3 DEF Keys
<1>2. CASE RefuseRelink \/ Veto
  <2>1. /\ moving \in Node /\ key[moving] \in Key /\ old \in Key /\ NoKey \notin Key
        /\ key \in [Node -> Key \cup {NoKey}]
    BY <1>2, Underway, HashAssumption DEF RefuseRelink, Veto
  <2>2. key' = [key EXCEPT ![moving] = old] /\ moving' = moving /\ old' = old
    BY <1>2 DEF RefuseRelink, Veto, RestoreKey
  <2> QED
    BY <2>1, <2>2 DEF Keys
<1>3. CASE RollBack
  <2>1. key' = key /\ moving' = NoNode /\ NoNode \notin Node /\ key[moving] = old
    BY <1>3, HashAssumption DEF RollBack, Settle, IInv, Phases
  <2> QED
    BY <2>1 DEF Keys
<1> QED
  BY <1>1, <1>2, <1>3

LEMMA EveryStepRefines == IInv /\ [Next]_vars => [Step]_Keys
<1> SUFFICES ASSUME IInv, [Next]_vars PROVE Keys' = Keys \/ Step
  OBVIOUS
<1>1. CASE UNCHANGED vars
  BY <1>1 DEF vars, Keys
<1>2. CASE Next
  <2> USE <1>2
  <2>1. CASE \E n \in Node, k \in Key : Insert(n, k)
    BY <2>1, InsertRefines DEF Next
  <2>2. CASE \E n \in Node : Erase(n)
    <3>1. PICK n \in Node : Erase(n)
      BY <2>2
    <3>2. n \in Elements /\ pc = "idle" /\ key' = [key EXCEPT ![n] = NoKey]
          /\ UNCHANGED <<moving, old>>
      BY <3>1, IdleElements DEF Erase
    <3> QED
      BY <3>2, EraseRefines
  <2>3. CASE EraseAtCursor
    <3>1. cur \in Elements
      BY <2>3 DEF EraseAtCursor, IInv, IsWalk
    <3>2. pc = "idle" /\ key' = [key EXCEPT ![cur] = NoKey] /\ UNCHANGED <<moving, old>>
      BY <2>3 DEF EraseAtCursor
    <3> QED
      BY <3>1, <3>2, EraseRefines
  <2>4. CASE Relink
    BY <2>4, RelinkRefines DEF Next
  <2>5. CASE (\E n \in Node, k \in Key : Rekey(n, k)) \/ RefuseRelink \/ Veto \/ RollBack
    BY <2>5, RepositionStutters
  <2>6. CASE Clear \/ MoveAway
    BY <2>6, EmptyingRefines DEF Clear, MoveAway
  <2>7. CASE StartWalk \/ StepWalk \/ EndWalk
    BY <2>7 DEF StartWalk, StepWalk, EndWalk, Keys
  <2> QED
    BY <2>1, <2>2, <2>3, <2>4, <2>5, <2>6, <2>7 DEF Next, Operation
<1> QED
  BY <1>1, <1>2

\* The table with its repositions is the container with one index on the key: unique ones
\* admit no duplicate, the others refuse nothing, and a change is all or nothing.
THEOREM RefinesContainer == Spec => Refines
<1>1. Init => UniqueContainer!Init
  <2> SUFFICES ASSUME Init PROVE UniqueContainer!Init
    OBVIOUS
  <2>1. {m \in Node : key[m] # NoKey} = {}
    BY DEF Init
  <2>2. Keys = <<>>
    BY <2>1 DEF Keys
  <2> QED
    BY <2>2 DEF UniqueContainer!Init
<1>2. IInv /\ [Next]_vars => [IF unique THEN UniqueContainer!Next ELSE MultiContainer!Next]_Keys
  BY EveryStepRefines DEF Step
<1> QED
  BY <1>1, <1>2, IInvHolds, PTL DEF Spec, Refines
=============================================================================
