-------------------------- MODULE MultiIndexProofs --------------------------
(***************************************************************************)
(* Proofs about MultiIndex, for every number of nodes, indices, values and *)
(* keys, of containers that store their elements by value.                 *)
(*                                                                         *)
(* IInv is inductive: Placement says of each index which nodes it links,   *)
(* the node of the current call according to how far the call has got, and *)
(* OldKeysFree that nobody else takes the old keys of an element while its *)
(* mutation is undecided.  From these follow uniqueness, the success of    *)
(* every rollback, and the refinement of MultiIndexSpec.                   *)
(***************************************************************************)
EXTENDS MultiIndex, FiniteSetTheorems, TLAPS

\* An empty container, before any call, satisfies the invariant.
LEMMA InitIInv == Init => IInv
<1> SUFFICES ASSUME Init PROVE IInv
  OBVIOUS
<1> USE IndexAssumption, AbsentAssumption DEF Init
<1>1. TypeOK
  BY DEF TypeOK, Index
<1>2. UniqueKeys
  BY DEF UniqueKeys, Linked, Keyed
<1>3. Placement
  BY DEF Placement, Attached
<1>4. Counting
  BY FS_EmptySet DEF Counting
<1>5. Owned
  BY DEF Owned, Live, Linked
<1>6. FrameFits
  BY DEF FrameFits, Inserting, Uncommitted, Mutations
<1>7. OldKeysFree /\ RollbackSucceeds /\ ClashReport /\ DamageIsLocal
  BY DEF OldKeysFree, Uncommitted, RollbackSucceeds, ClashReport, DamageIsLocal
<1> QED
  BY <1>1, <1>2, <1>3, <1>4, <1>5, <1>6, <1>7 DEF IInv, Sound

\* The node a call works on has a value.
LEMMA PInValue ==
  ASSUME IInv, pc \in {"link", "unwind", "relink"}
  PROVE  p \in Node /\ value[p] \in Value
  BY IndexAssumption, AbsentAssumption
     DEF IInv, Sound, TypeOK, FrameFits, Owned, Live, Inserting, Uncommitted, Mutations

\* Every element of the container has a value, hence a key in every index.
LEMMA ElementsHaveValues ==
  ASSUME IInv, pc # "thrown"
  PROVE  \A n \in registry \cup held : n \in Node /\ value[n] \in Value
  BY DEF IInv, Sound, TypeOK, Owned, Live

\* Between two calls the frame is empty and every index is the registry.
LEMMA AtRest ==
  ASSUME IInv, pc = "idle"
  PROVE  /\ p = NoNode /\ victims = {}
         /\ \A i \in Index, n \in Node :
              index[i][n] = IF n \in registry THEN KeyOf[i][value[n]] ELSE NotLinked
         /\ Live = registry \cup held
<1> USE IndexAssumption, AbsentAssumption
<1>1. p = NoNode /\ victims = {}
  BY DEF IInv, Sound, FrameFits
<1>2. \A i \in Index, n \in Node :
        index[i][n] = IF n \in registry THEN KeyOf[i][value[n]] ELSE NotLinked
  BY <1>1 DEF IInv, Sound, Placement
<1>3. Live = registry \cup held
  BY DEF IInv, Sound, Owned
<1> QED
  BY <1>1, <1>2, <1>3

\* No element has p's key in a unique index that p is linked in.
LEMMA AttachedKeysFree ==
  ASSUME IInv, pc # "thrown", p \in Node, value[p] \in Value,
         NEW i \in Unique \cap Attached, NEW m \in registry \ {p}
  PROVE  KeyOf[i][value[m]] # KeyOf[i][value[p]]
<1> USE IndexAssumption, AbsentAssumption
<1>1. i \in Index /\ m \in Node /\ value[m] \in Value
  BY ElementsHaveValues DEF Keyed
<1>2. index[i][p] = KeyOf[i][value[p]] /\ index[i][m] = KeyOf[i][value[m]]
  BY <1>1 DEF IInv, Sound, Placement
<1>3. p \in Linked(i) /\ m \in Linked(i)
  BY <1>1, <1>2 DEF Linked
<1> QED
  BY <1>2, <1>3 DEF IInv, UniqueKeys

\* Whatever refuses p is an element of the container, other than p, with p's key.
LEMMA ClashingIsElement ==
  ASSUME IInv, Linking, at \in changed, NEW q \in Clashing(at)
  PROVE  /\ at \in Unique /\ q \in registry \ {p}
         /\ KeyOf[at][value[q]] = KeyOf[at][value[p]]
<1> USE IndexAssumption, AbsentAssumption
<1>1. at \in Unique /\ q \in Node /\ index[at][q] # NotLinked /\ index[at][q] = KeyOf[at][value[p]]
  BY DEF Clashing, Linked
<1>2. at \in Index /\ pc \in {"link", "relink"} /\ ~(at < at)
  BY DEF Linking, Index
<1>3. at \notin Attached
  BY <1>2 DEF Attached
<1>4. q \in registry \ {p} /\ index[at][q] = KeyOf[at][value[q]]
  BY <1>1, <1>2, <1>3 DEF IInv, Sound, Placement
<1> QED
  BY <1>1, <1>4

\* Unlinking nodes cannot make two keys of a unique index equal.
LEMMA UnlinkingKeepsUniqueKeys ==
  ASSUME UniqueKeys,
         \A i \in Index, n \in Node : index'[i][n] \in {index[i][n], NotLinked}
  PROVE  UniqueKeys'
  BY IndexAssumption DEF UniqueKeys, Linked, Keyed

\* Index `at` links p: no other node there has its key.
LEMMA TryInsertPreserves ==
  ASSUME IInv, ~PointerStored, TryInsert
  PROVE  IInv'
<1> USE IndexAssumption, AbsentAssumption DEF TryInsert, Linking, LinkInto, store, frame, report
<1>0. /\ TypeOK /\ UniqueKeys /\ Placement /\ Counting /\ Owned /\ FrameFits
      /\ OldKeysFree /\ RollbackSucceeds /\ ClashReport
  BY DEF IInv, Sound
<1>b. pc \in {"link", "unwind", "relink"} => p \in Node /\ value[p] \in Value
  BY PInValue
<1>1. TypeOK'
  BY <1>0, <1>b DEF TypeOK, Index, Keyed, Mutations
<1>2. UniqueKeys'
  BY <1>0, <1>b DEF UniqueKeys, Linked, Keyed, Clashing, TypeOK
<1>3. Placement'
  BY <1>0, <1>b DEF Placement, Attached, TypeOK, FrameFits, Uncommitted, Inserting, Mutations, Index
<1>4. Counting'
  BY <1>0 DEF Counting
<1>5. Owned'
  BY <1>0, <1>b DEF Owned, Live, Linked, TypeOK, FrameFits, Inserting, Uncommitted
<1>6. FrameFits'
  BY <1>0, <1>b DEF FrameFits, Inserting, Uncommitted, Mutations, Index, TypeOK
<1>7. OldKeysFree' /\ RollbackSucceeds' /\ ClashReport' /\ DamageIsLocal'
  BY <1>0, <1>b DEF OldKeysFree, Uncommitted, RollbackSucceeds, ClashReport, DamageIsLocal,
                    FrameFits, TypeOK, Inserting, Mutations
<1> QED
  BY <1>1, <1>2, <1>3, <1>4, <1>5, <1>6, <1>7 DEF IInv, Sound

\* insert_changed passes over an index whose key did not change.
LEMMA SkipUnchangedPreserves ==
  ASSUME IInv, ~PointerStored, SkipUnchanged
  PROVE  IInv'
<1> USE IndexAssumption, AbsentAssumption DEF SkipUnchanged, Linking, store, frame, report
<1>0. /\ TypeOK /\ UniqueKeys /\ Placement /\ Counting /\ Owned /\ FrameFits
      /\ OldKeysFree /\ RollbackSucceeds /\ ClashReport
  BY DEF IInv, Sound
<1>b. pc \in {"link", "unwind", "relink"} => p \in Node /\ value[p] \in Value
  BY PInValue
<1>1. TypeOK'
  BY <1>0, <1>b DEF TypeOK, Index, Keyed, Mutations
<1>2. UniqueKeys'
  BY <1>0, <1>b DEF UniqueKeys, Linked, Keyed, Clashing, TypeOK
<1>3. Placement'
  BY <1>0, <1>b DEF Placement, Attached, TypeOK, FrameFits, Uncommitted, Inserting, Mutations, Index
<1>4. Counting'
  BY <1>0 DEF Counting
<1>5. Owned'
  BY <1>0, <1>b DEF Owned, Live, Linked, TypeOK, FrameFits, Inserting, Uncommitted
<1>6. FrameFits'
  BY <1>0, <1>b DEF FrameFits, Inserting, Uncommitted, Mutations, Index, TypeOK
<1>7. OldKeysFree' /\ RollbackSucceeds' /\ ClashReport' /\ DamageIsLocal'
  BY <1>0, <1>b DEF OldKeysFree, Uncommitted, RollbackSucceeds, ClashReport, DamageIsLocal,
                    FrameFits, TypeOK, Inserting, Mutations
<1> QED
  BY <1>1, <1>2, <1>3, <1>4, <1>5, <1>6, <1>7 DEF IInv, Sound

\* The second attempt, under the old keys, is not refused.
LEMMA OnlyFirstAttemptRefused ==
  ASSUME IInv, Refuse
  PROVE  pc = "link"
<1>1. PICK q \in Clashing(at) : TRUE
  BY DEF Refuse
<1>2. /\ at \in Unique /\ q \in registry \ {p}
      /\ KeyOf[at][value[q]] = KeyOf[at][value[p]]
  BY ClashingIsElement DEF Refuse
<1> QED
  BY <1>2 DEF IInv, Sound, FrameFits, OldKeysFree, Uncommitted, Refuse, Linking

\* The report of a refusal: the first index in order, and an element with p's key.
LEMMA RefusePreserves ==
  ASSUME IInv, ~PointerStored, Refuse
  PROVE  IInv'
<1> USE IndexAssumption, AbsentAssumption DEF Refuse, Linking, Clashing, store, frame, report
<1>0. /\ TypeOK /\ UniqueKeys /\ Placement /\ Counting /\ Owned /\ FrameFits
      /\ OldKeysFree /\ RollbackSucceeds /\ ClashReport
  BY DEF IInv, Sound
<1>a. PICK q \in Clashing(at) :
        IF pc = "link" THEN failed' = at /\ conflict' = q ELSE UNCHANGED report
  OBVIOUS
<1>b. /\ at \in Unique /\ q \in registry \ {p}
      /\ KeyOf[at][value[q]] = KeyOf[at][value[p]]
  BY ClashingIsElement
<1>c. pc = "link"
  BY OnlyFirstAttemptRefused
<1>d. p \in Node /\ value[p] \in Value
  BY <1>c, PInValue
<1>1. TypeOK'
  BY <1>0, <1>a, <1>b, <1>c DEF TypeOK, Index
<1>2. UniqueKeys'
  BY <1>0 DEF UniqueKeys, Linked
<1>3. Placement'
  BY <1>0, <1>c DEF Placement, Attached, Index
<1>4. Counting'
  BY <1>0 DEF Counting
<1>5. Owned'
  BY <1>0, <1>c DEF Owned, Live, Linked
<1>6. FrameFits'
  BY <1>0, <1>c DEF FrameFits, Inserting, Uncommitted, Mutations, Index
<1>7. OldKeysFree' /\ RollbackSucceeds' /\ DamageIsLocal'
  BY <1>0, <1>c DEF OldKeysFree, Uncommitted, RollbackSucceeds, DamageIsLocal
<1>8. ClashReport'
  <2>1. \A i \in Unique, m \in registry \ {p} :
          i < at => KeyOf[i][value[m]] # KeyOf[i][value[p]]
    BY <1>c, <1>d, AttachedKeysFree DEF Attached, Keyed
  <2> QED
    BY <1>a, <1>b, <1>c, <2>1 DEF ClashReport
<1> QED
  BY <1>1, <1>2, <1>3, <1>4, <1>5, <1>6, <1>7, <1>8 DEF IInv, Sound

\* core.remove on the way back out of insert_all and insert_changed.
LEMMA UnwindPreserves ==
  ASSUME IInv, ~PointerStored, Unwind
  PROVE  IInv'
<1> USE IndexAssumption, AbsentAssumption DEF Unwind, UnlinkFrom, store, frame, report
<1>0. /\ TypeOK /\ UniqueKeys /\ Placement /\ Counting /\ Owned /\ FrameFits
      /\ OldKeysFree /\ RollbackSucceeds /\ ClashReport
  BY DEF IInv, Sound
<1>b. pc = "unwind" /\ p \in Node /\ value[p] \in Value
  BY <1>0, PInValue DEF RollbackSucceeds
<1>c. index' = IF at \in changed THEN [index EXCEPT ![at][p] = NotLinked] ELSE index
  OBVIOUS
<1>d. at \in 1 .. N /\ at' \in 0 .. N
  BY DEF Index
<1>1. TypeOK'
  <2>1. index' \in [Index -> [Node -> Key \cup {NotLinked}]]
    BY <1>0, <1>c DEF TypeOK
  <2> QED
    BY <1>0, <1>d, <2>1 DEF TypeOK
<1>2. UniqueKeys'
  BY <1>0, <1>b DEF UniqueKeys, Linked, Keyed, Clashing, TypeOK
<1>3. Placement'
  <2>1. Attached' = Attached \ (IF at \in changed THEN {at} ELSE {})
    BY <1>b, <1>d DEF Attached, Index
  <2> QED
    BY <1>0, <1>b, <1>c, <2>1 DEF Placement, TypeOK
<1>4. Counting'
  BY <1>0 DEF Counting
<1>5. Owned'
  BY <1>0, <1>b DEF Owned, Live, Linked, TypeOK, FrameFits, Inserting, Uncommitted
<1>6. FrameFits'
  BY <1>0, <1>b DEF FrameFits, Inserting, Uncommitted, Mutations, Index, TypeOK
<1>7. OldKeysFree' /\ RollbackSucceeds' /\ ClashReport' /\ DamageIsLocal'
  BY <1>0, <1>b DEF OldKeysFree, Uncommitted, RollbackSucceeds, ClashReport, DamageIsLocal,
                    FrameFits, TypeOK, Inserting, Mutations
<1> QED
  BY <1>1, <1>2, <1>3, <1>4, <1>5, <1>6, <1>7 DEF IInv, Sound

\* make_node and the start of insert_all.
LEMMA InsertPreserves ==
  ASSUME IInv, ~PointerStored, NEW n \in Node, NEW v \in Value, Insert(n, v)
  PROVE  IInv'
<1> USE IndexAssumption, AbsentAssumption DEF Insert, Begin, NoReport, store, frame, report
<1>0. /\ TypeOK /\ UniqueKeys /\ Placement /\ Counting /\ Owned /\ FrameFits
      /\ OldKeysFree /\ RollbackSucceeds /\ ClashReport
  BY DEF IInv, Sound
<1>b. /\ p = NoNode /\ victims = {} /\ n \notin registry \cup held
      /\ \A i \in Index, m \in Node :
           index[i][m] = IF m \in registry THEN KeyOf[i][value[m]] ELSE NotLinked
  BY AtRest, ElementsHaveValues
<1>c. Attached' = {}
  BY DEF Attached, Index
<1>1. TypeOK'
  BY <1>0, <1>b DEF TypeOK, Index, Keyed, Mutations
<1>2. UniqueKeys'
  BY <1>0, <1>b DEF UniqueKeys, Linked, Keyed, Clashing, TypeOK
<1>3. Placement'
  BY <1>0, <1>b, <1>c DEF Placement, TypeOK
<1>4. Counting'
  BY <1>0 DEF Counting
<1>5. Owned'
  BY <1>0, <1>b DEF Owned, Live, Linked, TypeOK, FrameFits, Inserting, Uncommitted
<1>6. FrameFits'
  BY <1>0, <1>b DEF FrameFits, Inserting, Uncommitted, Mutations, Index, TypeOK
<1>7. OldKeysFree' /\ RollbackSucceeds' /\ ClashReport' /\ DamageIsLocal'
  BY <1>0, <1>b DEF OldKeysFree, Uncommitted, RollbackSucceeds, ClashReport, DamageIsLocal,
                    FrameFits, TypeOK, Inserting, Mutations
<1> QED
  BY <1>1, <1>2, <1>3, <1>4, <1>5, <1>6, <1>7 DEF IInv, Sound

\* The start of insert(node_handle&&).
LEMMA InsertHandlePreserves ==
  ASSUME IInv, ~PointerStored, NEW n \in Node, InsertHandle(n)
  PROVE  IInv'
<1> USE IndexAssumption, AbsentAssumption DEF InsertHandle, Begin, NoReport, store, frame, report
<1>0. /\ TypeOK /\ UniqueKeys /\ Placement /\ Counting /\ Owned /\ FrameFits
      /\ OldKeysFree /\ RollbackSucceeds /\ ClashReport
  BY DEF IInv, Sound
<1>b. /\ p = NoNode /\ victims = {} /\ n \notin registry /\ value[n] \in Value
      /\ \A i \in Index, m \in Node :
           index[i][m] = IF m \in registry THEN KeyOf[i][value[m]] ELSE NotLinked
  BY <1>0, AtRest, ElementsHaveValues DEF Owned
<1>c. Attached' = {}
  BY DEF Attached, Index
<1>1. TypeOK'
  BY <1>0, <1>b DEF TypeOK, Index, Keyed, Mutations
<1>2. UniqueKeys'
  BY <1>0, <1>b DEF UniqueKeys, Linked, Keyed, Clashing, TypeOK
<1>3. Placement'
  BY <1>0, <1>b, <1>c DEF Placement, TypeOK
<1>4. Counting'
  BY <1>0 DEF Counting
<1>5. Owned'
  BY <1>0, <1>b DEF Owned, Live, Linked, TypeOK, FrameFits, Inserting, Uncommitted
<1>6. FrameFits'
  BY <1>0, <1>b DEF FrameFits, Inserting, Uncommitted, Mutations, Index, TypeOK
<1>7. OldKeysFree' /\ RollbackSucceeds' /\ ClashReport' /\ DamageIsLocal'
  BY <1>0, <1>b DEF OldKeysFree, Uncommitted, RollbackSucceeds, ClashReport, DamageIsLocal,
                    FrameFits, TypeOK, Inserting, Mutations
<1> QED
  BY <1>1, <1>2, <1>3, <1>4, <1>5, <1>6, <1>7 DEF IInv, Sound

\* All indices have linked p: it becomes an element and leaves its handle.
LEMMA CommitInsertPreserves ==
  ASSUME IInv, ~PointerStored, CommitInsert
  PROVE  IInv'
<1> USE IndexAssumption, AbsentAssumption DEF CommitInsert, Goto, store, frame, report
<1>0. /\ TypeOK /\ UniqueKeys /\ Placement /\ Counting /\ Owned /\ FrameFits
      /\ OldKeysFree /\ RollbackSucceeds /\ ClashReport
  BY DEF IInv, Sound
<1>b. pc \in {"link", "unwind", "relink"} => p \in Node /\ value[p] \in Value
  BY PInValue
<1>1. TypeOK'
  BY <1>0, <1>b DEF TypeOK, Index, Keyed, Mutations
<1>2. UniqueKeys'
  BY <1>0, <1>b DEF UniqueKeys, Linked, Keyed, Clashing, TypeOK
<1>3. Placement'
  BY <1>0, <1>b DEF Placement, Attached, TypeOK, FrameFits, Uncommitted, Inserting, Mutations, Index
<1>4. Counting'
  BY <1>0, FS_AddElement DEF Counting, FrameFits, Inserting
<1>5. Owned'
  BY <1>0, <1>b DEF Owned, Live, Linked, TypeOK, FrameFits, Inserting, Uncommitted
<1>6. FrameFits'
  BY <1>0, <1>b DEF FrameFits, Inserting, Uncommitted, Mutations, Index, TypeOK
<1>7. OldKeysFree' /\ RollbackSucceeds' /\ ClashReport' /\ DamageIsLocal'
  BY <1>0, <1>b DEF OldKeysFree, Uncommitted, RollbackSucceeds, ClashReport, DamageIsLocal,
                    FrameFits, TypeOK, Inserting, Mutations
<1> QED
  BY <1>1, <1>2, <1>3, <1>4, <1>5, <1>6, <1>7 DEF IInv, Sound

\* p is out of every index again: freed, or left to its handle.
LEMMA RejectInsertPreserves ==
  ASSUME IInv, ~PointerStored, RejectInsert
  PROVE  IInv'
<1> USE IndexAssumption, AbsentAssumption DEF RejectInsert, Leave, store, frame, report
<1>0. /\ TypeOK /\ UniqueKeys /\ Placement /\ Counting /\ Owned /\ FrameFits
      /\ OldKeysFree /\ RollbackSucceeds /\ ClashReport
  BY DEF IInv, Sound
<1>b. pc \in {"link", "unwind", "relink"} => p \in Node /\ value[p] \in Value
  BY PInValue
<1>1. TypeOK'
  BY <1>0, <1>b DEF TypeOK, Index, Keyed, Mutations
<1>2. UniqueKeys'
  BY <1>0, <1>b DEF UniqueKeys, Linked, Keyed, Clashing, TypeOK
<1>3. Placement'
  BY SMTT(30), <1>0, <1>b DEF Placement, Attached, TypeOK, FrameFits, Uncommitted, Inserting, Mutations, Index
<1>4. Counting'
  BY <1>0 DEF Counting
<1>5. Owned'
  <2>1. /\ Inserting /\ pc = "unwind" /\ p \in Node \ registry
        /\ op = "insert" => p \notin held
        /\ op = "reinsert" => p \in held
    BY <1>0, <1>b DEF FrameFits, Inserting
  <2>2. Attached = {}
    BY <1>0, <2>1 DEF Attached, FrameFits, Index
  <2>3. \A i \in Index : index[i][p] = NotLinked
    BY <1>0, <2>1, <2>2 DEF Placement
  <2>4. Live' = IF op = "insert" THEN Live \ {p} ELSE Live
    BY <1>0 DEF Live, TypeOK
  <2>5. \A i \in Index : Linked(i)' = Linked(i) /\ p \notin Linked(i)
    BY <2>3 DEF Linked
  <2> QED
    BY <1>0, <2>1, <2>4, <2>5 DEF Owned
<1>6. FrameFits'
  BY <1>0, <1>b DEF FrameFits, Inserting, Uncommitted, Mutations, Index, TypeOK
<1>7. OldKeysFree' /\ RollbackSucceeds' /\ ClashReport' /\ DamageIsLocal'
  BY <1>0, <1>b DEF OldKeysFree, Uncommitted, RollbackSucceeds, ClashReport, DamageIsLocal,
                    FrameFits, TypeOK, Inserting, Mutations
<1> QED
  BY <1>1, <1>2, <1>3, <1>4, <1>5, <1>6, <1>7 DEF IInv, Sound

\* The value changes and the node leaves the indices whose key changed.
LEMMA MutatePreserves ==
  ASSUME IInv, ~PointerStored, NEW o \in Mutations, NEW n \in Node, NEW v \in Value, Mutate(o, n, v)
  PROVE  IInv'
<1> USE IndexAssumption, AbsentAssumption DEF Mutate, Begin, NoReport, store, frame, report
<1>0. /\ TypeOK /\ UniqueKeys /\ Placement /\ Counting /\ Owned /\ FrameFits
      /\ OldKeysFree /\ RollbackSucceeds /\ ClashReport
  BY DEF IInv, Sound
<1>a. PICK ch : /\ ch = {i \in Index : KeyOf[i][value[n]] # KeyOf[i][v]}
                /\ index' = [i \in Index |->
                     IF i \in ch THEN [index[i] EXCEPT ![n] = NotLinked] ELSE index[i]]
                /\ changed' = ch
  OBVIOUS
<1>b. /\ pc = "idle" /\ n \in registry
      /\ p = NoNode /\ victims = {} /\ n \notin held
      /\ value[n] \in Value /\ value' = [value EXCEPT ![n] = v]
      /\ pc' = "link" /\ at' = 1 /\ op' = o /\ p' = n /\ before' = value[n] /\ victims' = {}
      /\ conflict' = NoNode /\ UNCHANGED <<registry, size, held>>
      /\ \A i \in Index, m \in Node :
           index[i][m] = IF m \in registry THEN KeyOf[i][value[m]] ELSE NotLinked
      /\ Live = registry \cup held
  BY <1>0, AtRest, ElementsHaveValues DEF Owned
<1> HIDE DEF Mutate, Begin
<1>1. TypeOK'
  BY <1>0, <1>a, <1>b DEF TypeOK, Mutate, Begin, Mutations
<1>2. UniqueKeys'
  BY <1>0, <1>a, UnlinkingKeepsUniqueKeys DEF TypeOK
<1>3. Placement'
  <2>1. Attached' = Index \ changed'
    BY <1>a, <1>b DEF Attached, Index
  <2> QED
    BY <1>0, <1>a, <1>b, <2>1 DEF Placement, TypeOK
<1>4. Counting'
  BY <1>0, <1>b DEF Counting
<1>5. Owned'
  <2>1. Live' = Live
    BY <1>0, <1>b DEF Live, TypeOK
  <2>2. \A i \in Index : Linked(i)' \subseteq Linked(i)
    BY <1>0, <1>a DEF Linked, TypeOK
  <2> QED
    BY <1>0, <1>b, <2>1, <2>2 DEF Owned, Mutations
<1>6. FrameFits'
  BY <1>0, <1>a, <1>b DEF FrameFits, Inserting, Uncommitted, Mutations, TypeOK
<1>7. OldKeysFree'
  <2>1. \A i \in Unique, m \in registry \ {n} : KeyOf[i][value[m]] # KeyOf[i][value[n]]
    <3> SUFFICES ASSUME NEW i \in Unique, NEW m \in registry \ {n}
                 PROVE  KeyOf[i][value[m]] # KeyOf[i][value[n]]
      OBVIOUS
    <3>1. i \in Index /\ m \in Node /\ value[m] \in Value
      BY <1>b, ElementsHaveValues DEF Keyed
    <3>2. m \in Linked(i) /\ n \in Linked(i)
      BY <1>b, <3>1 DEF Linked
    <3> QED
      BY <1>0, <1>b, <3>1, <3>2 DEF UniqueKeys
  <2> QED
    BY <1>b, <2>1 DEF OldKeysFree
<1>8. RollbackSucceeds' /\ ClashReport' /\ DamageIsLocal'
  BY <1>b DEF RollbackSucceeds, ClashReport, DamageIsLocal
<1> QED
  BY <1>1, <1>2, <1>3, <1>4, <1>5, <1>6, <1>7, <1>8 DEF IInv, Sound

\* A mutation that every index has accepted.
LEMMA CommitMutationPreserves ==
  ASSUME IInv, ~PointerStored, CommitMutation
  PROVE  IInv'
<1> USE IndexAssumption, AbsentAssumption DEF CommitMutation, Goto, store, frame, report
<1>0. /\ TypeOK /\ UniqueKeys /\ Placement /\ Counting /\ Owned /\ FrameFits
      /\ OldKeysFree /\ RollbackSucceeds /\ ClashReport
  BY DEF IInv, Sound
<1>b. pc \in {"link", "unwind", "relink"} => p \in Node /\ value[p] \in Value
  BY PInValue
<1>1. TypeOK'
  BY <1>0, <1>b DEF TypeOK, Index, Keyed, Mutations
<1>2. UniqueKeys'
  BY <1>0, <1>b DEF UniqueKeys, Linked, Keyed, Clashing, TypeOK
<1>3. Placement'
  BY <1>0, <1>b DEF Placement, Attached, TypeOK, FrameFits, Uncommitted, Inserting, Mutations, Index
<1>4. Counting'
  BY <1>0 DEF Counting
<1>5. Owned'
  BY <1>0, <1>b DEF Owned, Live, Linked, TypeOK, FrameFits, Inserting, Uncommitted
<1>6. FrameFits'
  BY <1>0, <1>b DEF FrameFits, Inserting, Uncommitted, Mutations, Index, TypeOK
<1>7. OldKeysFree' /\ RollbackSucceeds' /\ ClashReport' /\ DamageIsLocal'
  BY <1>0, <1>b DEF OldKeysFree, Uncommitted, RollbackSucceeds, ClashReport, DamageIsLocal,
                    FrameFits, TypeOK, Inserting, Mutations
<1> QED
  BY <1>1, <1>2, <1>3, <1>4, <1>5, <1>6, <1>7 DEF IInv, Sound

\* The old value is restored: its keys are free in all changed indices.
LEMMA RollBackPreserves ==
  ASSUME IInv, ~PointerStored, RollBack
  PROVE  IInv'
<1> USE IndexAssumption, AbsentAssumption DEF RollBack, Restored, store, frame, report
<1>0. /\ TypeOK /\ UniqueKeys /\ Placement /\ Counting /\ Owned /\ FrameFits
      /\ OldKeysFree /\ RollbackSucceeds /\ ClashReport
  BY DEF IInv, Sound
<1>b. pc \in {"link", "unwind", "relink"} => p \in Node /\ value[p] \in Value
  BY PInValue
<1>1. TypeOK'
  BY <1>0, <1>b DEF TypeOK, Index, Keyed, Mutations
<1>2. UniqueKeys'
  BY <1>0, <1>b DEF UniqueKeys, Linked, Keyed, Clashing, TypeOK
<1>3. Placement'
  BY <1>0, <1>b DEF Placement, Attached, TypeOK, FrameFits, Uncommitted, Inserting, Mutations, Index
<1>4. Counting'
  BY <1>0 DEF Counting
<1>5. Owned'
  BY <1>0, <1>b DEF Owned, Live, Linked, TypeOK, FrameFits, Inserting, Uncommitted
<1>6. FrameFits'
  BY <1>0, <1>b DEF FrameFits, Inserting, Uncommitted, Mutations, Index, TypeOK
<1>7. OldKeysFree' /\ RollbackSucceeds' /\ ClashReport' /\ DamageIsLocal'
  BY <1>0, <1>b DEF OldKeysFree, Uncommitted, RollbackSucceeds, ClashReport, DamageIsLocal,
                    FrameFits, TypeOK, Inserting, Mutations
<1> QED
  BY <1>1, <1>2, <1>3, <1>4, <1>5, <1>6, <1>7 DEF IInv, Sound

\* The element is back under its old keys.
LEMMA RolledBackPreserves ==
  ASSUME IInv, ~PointerStored, RolledBack
  PROVE  IInv'
<1> USE IndexAssumption, AbsentAssumption DEF RolledBack, Goto, Leave, store, frame, report
<1>0. /\ TypeOK /\ UniqueKeys /\ Placement /\ Counting /\ Owned /\ FrameFits
      /\ OldKeysFree /\ RollbackSucceeds /\ ClashReport
  BY DEF IInv, Sound
<1>b. pc \in {"link", "unwind", "relink"} => p \in Node /\ value[p] \in Value
  BY PInValue
<1>1. TypeOK'
  <2>1. CASE op = "modify_or_erase"
    BY <1>0, <2>1 DEF TypeOK
  <2>2. CASE op # "modify_or_erase"
    BY <1>0, <2>2 DEF TypeOK
  <2> QED
    BY <2>1, <2>2
<1>2. UniqueKeys'
  BY <1>0, <1>b DEF UniqueKeys, Linked, Keyed, Clashing, TypeOK
<1>3. Placement'
  BY <1>0, <1>b DEF Placement, Attached, TypeOK, FrameFits, Uncommitted, Inserting, Mutations, Index
<1>4. Counting'
  BY <1>0 DEF Counting
<1>5. Owned'
  BY <1>0, <1>b DEF Owned, Live, Linked, TypeOK, FrameFits, Inserting, Uncommitted
<1>6. FrameFits'
  BY <1>0, <1>b DEF FrameFits, Inserting, Uncommitted, Mutations, Index, TypeOK
<1>7. OldKeysFree' /\ RollbackSucceeds' /\ ClashReport' /\ DamageIsLocal'
  <2>1. CASE op = "modify_or_erase"
    BY <1>0, <2>1 DEF OldKeysFree, Uncommitted, RollbackSucceeds, ClashReport, DamageIsLocal
  <2>2. CASE op # "modify_or_erase"
    BY <1>0, <2>2, AbsentAssumption DEF OldKeysFree, Uncommitted, RollbackSucceeds, ClashReport, DamageIsLocal, TypeOK, Mutations
  <2> QED
    BY <2>1, <2>2
<1> QED
  BY <1>1, <1>2, <1>3, <1>4, <1>5, <1>6, <1>7 DEF IInv, Sound

\* This branch of reposition is never taken: the rollback is not refused.
LEMMA DropAfterFailedRollbackPreserves ==
  ASSUME IInv, ~PointerStored, DropAfterFailedRollback
  PROVE  IInv'
  BY DEF IInv, Sound, RollbackSucceeds, DropAfterFailedRollback

\* erase calls the observers before it touches an index.
LEMMA ErasePreserves ==
  ASSUME IInv, ~PointerStored, NEW n \in Node, Erase(n)
  PROVE  IInv'
<1> USE IndexAssumption, AbsentAssumption DEF Erase, NoReport, store, frame, report
<1>0. /\ TypeOK /\ UniqueKeys /\ Placement /\ Counting /\ Owned /\ FrameFits
      /\ OldKeysFree /\ RollbackSucceeds /\ ClashReport
  BY DEF IInv, Sound
<1>b. pc \in {"link", "unwind", "relink"} => p \in Node /\ value[p] \in Value
  BY PInValue
<1>1. TypeOK'
  BY <1>0, <1>b DEF TypeOK, Index, Keyed, Mutations
<1>2. UniqueKeys'
  BY <1>0, <1>b DEF UniqueKeys, Linked, Keyed, Clashing, TypeOK
<1>3. Placement'
  BY <1>0, <1>b DEF Placement, Attached, TypeOK, FrameFits, Uncommitted, Inserting, Mutations, Index
<1>4. Counting'
  BY <1>0 DEF Counting
<1>5. Owned'
  BY <1>0, <1>b DEF Owned, Live, Linked, TypeOK, FrameFits, Inserting, Uncommitted
<1>6. FrameFits'
  BY <1>0, <1>b DEF FrameFits, Inserting, Uncommitted, Mutations, Index, TypeOK
<1>7. OldKeysFree' /\ RollbackSucceeds' /\ ClashReport' /\ DamageIsLocal'
  BY <1>0, <1>b DEF OldKeysFree, Uncommitted, RollbackSucceeds, ClashReport, DamageIsLocal,
                    FrameFits, TypeOK, Inserting, Mutations
<1> QED
  BY <1>1, <1>2, <1>3, <1>4, <1>5, <1>6, <1>7 DEF IInv, Sound

\* erase_key collects the equal range.
LEMMA EraseKeyPreserves ==
  ASSUME IInv, ~PointerStored, NEW i \in Keyed, NEW k \in Key, EraseKey(i, k)
  PROVE  IInv'
<1> USE IndexAssumption, AbsentAssumption DEF EraseKey, NoReport, store, frame, report
<1>0. /\ TypeOK /\ UniqueKeys /\ Placement /\ Counting /\ Owned /\ FrameFits
      /\ OldKeysFree /\ RollbackSucceeds /\ ClashReport
  BY DEF IInv, Sound
<1>b. /\ p = NoNode
      /\ \A j \in Index, m \in Node :
           index[j][m] = IF m \in registry THEN KeyOf[j][value[m]] ELSE NotLinked
      /\ victims' \subseteq registry
  <2>1. /\ p = NoNode
        /\ \A j \in Index, m \in Node :
             index[j][m] = IF m \in registry THEN KeyOf[j][value[m]] ELSE NotLinked
    BY AtRest
  <2> QED
    BY <2>1 DEF Linked, Keyed
<1>1. TypeOK'
  BY <1>0, <1>b DEF TypeOK, Mutations
<1>2. UniqueKeys'
  BY <1>0, <1>b DEF UniqueKeys, Linked, Keyed, Clashing, TypeOK
<1>3. Placement'
  BY <1>0, <1>b DEF Placement, Attached, TypeOK, FrameFits, Uncommitted, Inserting, Mutations, Index
<1>4. Counting'
  BY <1>0 DEF Counting
<1>5. Owned'
  BY <1>0, <1>b DEF Owned, Live, Linked, TypeOK, FrameFits, Inserting, Uncommitted
<1>6. FrameFits'
  BY <1>0, <1>b DEF FrameFits, Inserting, Uncommitted, Mutations, TypeOK
<1>7. OldKeysFree' /\ RollbackSucceeds' /\ ClashReport' /\ DamageIsLocal'
  BY <1>0, <1>b DEF OldKeysFree, Uncommitted, RollbackSucceeds, ClashReport, DamageIsLocal,
                    FrameFits, TypeOK, Inserting, Mutations
<1> QED
  BY <1>1, <1>2, <1>3, <1>4, <1>5, <1>6, <1>7 DEF IInv, Sound

\* The next element in erase_key's loop.
LEMMA NextVictimPreserves ==
  ASSUME IInv, ~PointerStored, NextVictim
  PROVE  IInv'
<1> USE IndexAssumption, AbsentAssumption DEF NextVictim, store, frame, report
<1>0. /\ TypeOK /\ UniqueKeys /\ Placement /\ Counting /\ Owned /\ FrameFits
      /\ OldKeysFree /\ RollbackSucceeds /\ ClashReport
  BY DEF IInv, Sound
<1>b. pc \in {"link", "unwind", "relink"} => p \in Node /\ value[p] \in Value
  BY PInValue
<1>1. TypeOK'
  BY <1>0, <1>b DEF TypeOK, Index, Keyed, Mutations
<1>2. UniqueKeys'
  BY <1>0, <1>b DEF UniqueKeys, Linked, Keyed, Clashing, TypeOK
<1>3. Placement'
  BY <1>0, <1>b DEF Placement, Attached, TypeOK, FrameFits, Uncommitted, Inserting, Mutations, Index
<1>4. Counting'
  BY <1>0 DEF Counting
<1>5. Owned'
  BY <1>0, <1>b DEF Owned, Live, Linked, TypeOK, FrameFits, Inserting, Uncommitted
<1>6. FrameFits'
  BY <1>0, <1>b DEF FrameFits, Inserting, Uncommitted, Mutations, Index, TypeOK
<1>7. OldKeysFree' /\ RollbackSucceeds' /\ ClashReport' /\ DamageIsLocal'
  BY <1>0, <1>b DEF OldKeysFree, Uncommitted, RollbackSucceeds, ClashReport, DamageIsLocal,
                    FrameFits, TypeOK, Inserting, Mutations
<1> QED
  BY <1>1, <1>2, <1>3, <1>4, <1>5, <1>6, <1>7 DEF IInv, Sound

\* erase_node_full: out of all indices, off the registry, freed.
LEMMA EraseNodeFullPreserves ==
  ASSUME IInv, ~PointerStored, EraseNodeFull
  PROVE  IInv'
<1> USE IndexAssumption, AbsentAssumption DEF EraseNodeFull, Detach, Return, Leave, store, frame, report
<1>0. /\ TypeOK /\ UniqueKeys /\ Placement /\ Counting /\ Owned /\ FrameFits
      /\ OldKeysFree /\ RollbackSucceeds /\ ClashReport
  BY DEF IInv, Sound
<1>b. pc \in {"link", "unwind", "relink"} => p \in Node /\ value[p] \in Value
  BY PInValue
<1>4. Counting' /\ size' \in Nat
  <2>1. p \in registry /\ IsFiniteSet(registry) /\ size = Cardinality(registry)
    BY <1>0 DEF Counting, FrameFits
  <2>2. /\ IsFiniteSet(registry \ {p})
        /\ Cardinality(registry \ {p}) = Cardinality(registry) - 1
    BY <2>1, FS_RemoveElement
  <2>3. Cardinality(registry \ {p}) \in Nat
    BY <2>2, FS_CardinalityType
  <2> QED
    BY <2>1, <2>2, <2>3 DEF Counting
<1>1. TypeOK'
  <2>1. /\ value' \in [Node -> Value \cup {NoValue}]
        /\ index' \in [Index -> [Node -> Key \cup {NotLinked}]]
        /\ registry' \subseteq Node
    BY <1>0 DEF TypeOK
  <2>2. CASE victims = {}
    BY <1>0, <1>4, <2>1, <2>2 DEF TypeOK
  <2>3. CASE victims # {}
    BY <1>0, <1>4, <2>1, <2>3 DEF TypeOK
  <2> QED
    BY <2>2, <2>3
<1>2. UniqueKeys'
  BY <1>0, <1>b DEF UniqueKeys, Linked, Keyed, Clashing, TypeOK
<1>3. Placement'
  BY <1>0, <1>b DEF Placement, Attached, TypeOK, FrameFits, Uncommitted, Inserting, Mutations, Index
<1>5. Owned'
  BY <1>0, <1>b DEF Owned, Live, Linked, TypeOK, FrameFits, Inserting, Uncommitted
<1>6. FrameFits'
  BY <1>0, <1>b DEF FrameFits, Inserting, Uncommitted, Mutations, Index, TypeOK
<1>7. OldKeysFree' /\ RollbackSucceeds' /\ ClashReport' /\ DamageIsLocal'
  BY <1>0, <1>b DEF OldKeysFree, Uncommitted, RollbackSucceeds, ClashReport, DamageIsLocal, FrameFits, TypeOK, Inserting
<1> QED
  BY <1>1, <1>2, <1>3, <1>4, <1>5, <1>6, <1>7 DEF IInv, Sound

\* The observers return.
LEMMA FiredPreserves ==
  ASSUME IInv, ~PointerStored, Fired
  PROVE  IInv'
<1> USE IndexAssumption, AbsentAssumption DEF Fired, Leave, store, frame, report
<1>0. /\ TypeOK /\ UniqueKeys /\ Placement /\ Counting /\ Owned /\ FrameFits
      /\ OldKeysFree /\ RollbackSucceeds /\ ClashReport
  BY DEF IInv, Sound
<1>b. pc \in {"link", "unwind", "relink"} => p \in Node /\ value[p] \in Value
  BY PInValue
<1>1. TypeOK'
  BY <1>0, <1>b DEF TypeOK, Index, Keyed, Mutations
<1>2. UniqueKeys'
  BY <1>0, <1>b DEF UniqueKeys, Linked, Keyed, Clashing, TypeOK
<1>3. Placement'
  BY <1>0, <1>b DEF Placement, Attached, TypeOK, FrameFits, Uncommitted, Inserting, Mutations, Index
<1>4. Counting'
  BY <1>0 DEF Counting
<1>5. Owned'
  BY <1>0, <1>b DEF Owned, Live, Linked, TypeOK, FrameFits, Inserting, Uncommitted
<1>6. FrameFits'
  BY <1>0, <1>b DEF FrameFits, Inserting, Uncommitted, Mutations, Index, TypeOK
<1>7. OldKeysFree' /\ RollbackSucceeds' /\ ClashReport' /\ DamageIsLocal'
  BY <1>0, <1>b DEF OldKeysFree, Uncommitted, RollbackSucceeds, ClashReport, DamageIsLocal,
                    FrameFits, TypeOK, Inserting, Mutations
<1> QED
  BY <1>1, <1>2, <1>3, <1>4, <1>5, <1>6, <1>7 DEF IInv, Sound

\* The node moves from the registry to a handle.
LEMMA ExtractPreserves ==
  ASSUME IInv, ~PointerStored, NEW n \in Node, Extract(n)
  PROVE  IInv'
<1> USE IndexAssumption, AbsentAssumption DEF Extract, Detach, NoReport, store, frame, report
<1>0. /\ TypeOK /\ UniqueKeys /\ Placement /\ Counting /\ Owned /\ FrameFits
      /\ OldKeysFree /\ RollbackSucceeds /\ ClashReport
  BY DEF IInv, Sound
<1>b. /\ p = NoNode /\ victims = {} /\ n \notin registry \cap held
      /\ \A i \in Index, m \in Node :
           index[i][m] = IF m \in registry THEN KeyOf[i][value[m]] ELSE NotLinked
      /\ Live = registry \cup held
  BY <1>0, AtRest DEF Owned
<1>4. Counting' /\ size' \in Nat
  <2>1. n \in registry /\ IsFiniteSet(registry) /\ size = Cardinality(registry)
    BY <1>0 DEF Counting, FrameFits
  <2>2. /\ IsFiniteSet(registry \ {n})
        /\ Cardinality(registry \ {n}) = Cardinality(registry) - 1
    BY <2>1, FS_RemoveElement
  <2>3. Cardinality(registry \ {n}) \in Nat
    BY <2>2, FS_CardinalityType
  <2> QED
    BY <2>1, <2>2, <2>3 DEF Counting
<1>1. TypeOK'
  BY <1>0, <1>b, <1>4 DEF TypeOK, Index, Keyed, Mutations
<1>2. UniqueKeys'
  BY <1>0, <1>b DEF UniqueKeys, Linked, Keyed, Clashing, TypeOK
<1>3. Placement'
  BY <1>0, <1>b DEF Placement, Attached, TypeOK, FrameFits, Uncommitted, Inserting, Mutations, Index
<1>5. Owned'
  BY <1>0, <1>b DEF Owned, Live, Linked, TypeOK, FrameFits, Inserting, Uncommitted
<1>6. FrameFits'
  BY <1>0, <1>b DEF FrameFits, Inserting, Uncommitted, Mutations, Index, TypeOK
<1>7. OldKeysFree' /\ RollbackSucceeds' /\ ClashReport' /\ DamageIsLocal'
  BY <1>0, <1>b DEF OldKeysFree, Uncommitted, RollbackSucceeds, ClashReport, DamageIsLocal,
                    FrameFits, TypeOK, Inserting, Mutations
<1> QED
  BY <1>1, <1>2, <1>3, <1>4, <1>5, <1>6, <1>7 DEF IInv, Sound

\* The value of a node in a handle may change: no index links it.
LEMMA AssignThroughHandlePreserves ==
  ASSUME IInv, ~PointerStored, NEW n \in Node, NEW v \in Value, AssignThroughHandle(n, v)
  PROVE  IInv'
<1> USE IndexAssumption, AbsentAssumption DEF AssignThroughHandle, store, frame, report
<1>0. /\ TypeOK /\ UniqueKeys /\ Placement /\ Counting /\ Owned /\ FrameFits
      /\ OldKeysFree /\ RollbackSucceeds /\ ClashReport
  BY DEF IInv, Sound
<1>b. /\ p = NoNode /\ victims = {} /\ n \notin registry \cap held
      /\ \A i \in Index, m \in Node :
           index[i][m] = IF m \in registry THEN KeyOf[i][value[m]] ELSE NotLinked
      /\ Live = registry \cup held
  BY <1>0, AtRest DEF Owned
<1>1. TypeOK'
  BY <1>0, <1>b DEF TypeOK, Index, Keyed, Mutations
<1>2. UniqueKeys'
  BY <1>0, <1>b DEF UniqueKeys, Linked, Keyed, Clashing, TypeOK
<1>3. Placement'
  BY <1>0, <1>b DEF Placement, Attached, TypeOK
<1>4. Counting'
  BY <1>0 DEF Counting
<1>5. Owned'
  BY <1>0, <1>b DEF Owned, Live, Linked, TypeOK
<1>6. FrameFits'
  BY <1>0, <1>b DEF FrameFits, Inserting, Uncommitted, Mutations, Index, TypeOK
<1>7. OldKeysFree' /\ RollbackSucceeds' /\ ClashReport' /\ DamageIsLocal'
  BY <1>0, <1>b DEF OldKeysFree, Uncommitted, RollbackSucceeds, ClashReport, DamageIsLocal,
                    FrameFits, TypeOK, Inserting, Mutations
<1> QED
  BY <1>1, <1>2, <1>3, <1>4, <1>5, <1>6, <1>7 DEF IInv, Sound

\* A handle frees its node.
LEMMA ResetHandlePreserves ==
  ASSUME IInv, ~PointerStored, NEW n \in Node, ResetHandle(n)
  PROVE  IInv'
<1> USE IndexAssumption, AbsentAssumption DEF ResetHandle, store, frame, report
<1>0. /\ TypeOK /\ UniqueKeys /\ Placement /\ Counting /\ Owned /\ FrameFits
      /\ OldKeysFree /\ RollbackSucceeds /\ ClashReport
  BY DEF IInv, Sound
<1>b. /\ p = NoNode /\ victims = {} /\ n \notin registry \cap held
      /\ \A i \in Index, m \in Node :
           index[i][m] = IF m \in registry THEN KeyOf[i][value[m]] ELSE NotLinked
      /\ Live = registry \cup held
  BY <1>0, AtRest DEF Owned
<1>1. TypeOK'
  BY <1>0, <1>b DEF TypeOK, Index, Keyed, Mutations
<1>2. UniqueKeys'
  BY <1>0, <1>b DEF UniqueKeys, Linked, Keyed, Clashing, TypeOK
<1>3. Placement'
  BY <1>0, <1>b DEF Placement, Attached, TypeOK
<1>4. Counting'
  BY <1>0 DEF Counting
<1>5. Owned'
  BY <1>0, <1>b DEF Owned, Live, Linked, TypeOK
<1>6. FrameFits'
  BY <1>0, <1>b DEF FrameFits, Inserting, Uncommitted, Mutations, Index, TypeOK
<1>7. OldKeysFree' /\ RollbackSucceeds' /\ ClashReport' /\ DamageIsLocal'
  BY <1>0, <1>b DEF OldKeysFree, Uncommitted, RollbackSucceeds, ClashReport, DamageIsLocal,
                    FrameFits, TypeOK, Inserting, Mutations
<1> QED
  BY <1>1, <1>2, <1>3, <1>4, <1>5, <1>6, <1>7 DEF IInv, Sound

\* clear frees all elements and empties all indices, but not the handles.
LEMMA ClearPreserves ==
  ASSUME IInv, ~PointerStored, Clear
  PROVE  IInv'
<1> USE IndexAssumption, AbsentAssumption DEF Clear, NoReport, store, frame, report
<1>0. /\ TypeOK /\ UniqueKeys /\ Placement /\ Counting /\ Owned /\ FrameFits
      /\ OldKeysFree /\ RollbackSucceeds /\ ClashReport
  BY DEF IInv, Sound
<1>b. pc \in {"link", "unwind", "relink"} => p \in Node /\ value[p] \in Value
  BY PInValue
<1>1. TypeOK'
  BY <1>0, <1>b DEF TypeOK, Index, Keyed, Mutations
<1>2. UniqueKeys'
  BY <1>0, <1>b DEF UniqueKeys, Linked, Keyed, Clashing, TypeOK
<1>3. Placement'
  BY <1>0, <1>b DEF Placement, Attached, TypeOK, FrameFits, Uncommitted, Inserting, Mutations, Index
<1>4. Counting'
  BY FS_EmptySet DEF Counting
<1>5. Owned'
  BY <1>0, <1>b DEF Owned, Live, Linked, TypeOK, FrameFits, Inserting, Uncommitted
<1>6. FrameFits'
  BY <1>0, <1>b DEF FrameFits, Inserting, Uncommitted, Mutations, Index, TypeOK
<1>7. OldKeysFree' /\ RollbackSucceeds' /\ ClashReport' /\ DamageIsLocal'
  BY <1>0, <1>b DEF OldKeysFree, Uncommitted, RollbackSucceeds, ClashReport, DamageIsLocal,
                    FrameFits, TypeOK, Inserting, Mutations
<1> QED
  BY <1>1, <1>2, <1>3, <1>4, <1>5, <1>6, <1>7 DEF IInv, Sound

\* A mutator that throws: the snapshot undoes it, since elements are values.
LEMMA MutatorThrowsPreserves ==
  ASSUME IInv, ~PointerStored, NEW n \in Node, NEW v \in Value, MutatorThrows(n, v)
  PROVE  IInv'
<1> USE IndexAssumption, AbsentAssumption DEF MutatorThrows, NoReport, store, frame, report
<1>0. /\ TypeOK /\ UniqueKeys /\ Placement /\ Counting /\ Owned /\ FrameFits
      /\ OldKeysFree /\ RollbackSucceeds /\ ClashReport
  BY DEF IInv, Sound
<1>b. pc \in {"link", "unwind", "relink"} => p \in Node /\ value[p] \in Value
  BY PInValue
<1>1. TypeOK'
  BY <1>0, <1>b DEF TypeOK, Index, Keyed, Mutations
<1>2. UniqueKeys'
  BY <1>0, <1>b DEF UniqueKeys, Linked, Keyed, Clashing, TypeOK
<1>3. Placement'
  BY <1>0, <1>b DEF Placement, Attached, TypeOK, FrameFits, Uncommitted, Inserting, Mutations, Index
<1>4. Counting'
  BY <1>0 DEF Counting
<1>5. Owned'
  BY <1>0, <1>b DEF Owned, Live, Linked, TypeOK, FrameFits, Inserting, Uncommitted
<1>6. FrameFits'
  BY <1>0, <1>b DEF FrameFits, Inserting, Uncommitted, Mutations, Index, TypeOK
<1>7. OldKeysFree' /\ RollbackSucceeds' /\ ClashReport' /\ DamageIsLocal'
  BY <1>0, <1>b DEF OldKeysFree, Uncommitted, RollbackSucceeds, ClashReport, DamageIsLocal,
                    FrameFits, TypeOK, Inserting, Mutations
<1> QED
  BY <1>1, <1>2, <1>3, <1>4, <1>5, <1>6, <1>7 DEF IInv, Sound

\* An observer that throws ends the call where it is, in a consistent state.
LEMMA ObserverThrowsPreserves ==
  ASSUME IInv, ~PointerStored, ObserverThrows
  PROVE  IInv'
<1> USE IndexAssumption, AbsentAssumption DEF ObserverThrows, Leave, store, frame, report
<1>0. /\ TypeOK /\ UniqueKeys /\ Placement /\ Counting /\ Owned /\ FrameFits
      /\ OldKeysFree /\ RollbackSucceeds /\ ClashReport
  BY DEF IInv, Sound
<1>b. pc \in {"link", "unwind", "relink"} => p \in Node /\ value[p] \in Value
  BY PInValue
<1>1. TypeOK'
  BY <1>0, <1>b DEF TypeOK, Index, Keyed, Mutations
<1>2. UniqueKeys'
  BY <1>0, <1>b DEF UniqueKeys, Linked, Keyed, Clashing, TypeOK
<1>3. Placement'
  BY <1>0, <1>b DEF Placement, Attached, TypeOK, FrameFits, Uncommitted, Inserting, Mutations, Index
<1>4. Counting'
  BY <1>0 DEF Counting
<1>5. Owned'
  BY <1>0, <1>b DEF Owned, Live, Linked, TypeOK, FrameFits, Inserting, Uncommitted
<1>6. FrameFits'
  BY <1>0, <1>b DEF FrameFits, Inserting, Uncommitted, Mutations, Index, TypeOK
<1>7. OldKeysFree' /\ RollbackSucceeds' /\ ClashReport' /\ DamageIsLocal'
  BY <1>0, <1>b DEF OldKeysFree, Uncommitted, RollbackSucceeds, ClashReport, DamageIsLocal,
                    FrameFits, TypeOK, Inserting, Mutations
<1> QED
  BY <1>1, <1>2, <1>3, <1>4, <1>5, <1>6, <1>7 DEF IInv, Sound

\* An exception from the middle of a call: only p may be out of step.
LEMMA TryInsertThrowsPreserves ==
  ASSUME IInv, ~PointerStored, TryInsertThrows
  PROVE  IInv'
<1> USE IndexAssumption, AbsentAssumption DEF TryInsertThrows, Leave, Linking, store, report
<1>0. /\ TypeOK /\ UniqueKeys /\ Placement /\ Counting /\ Owned /\ FrameFits
  BY DEF IInv, Sound
<1>1. TypeOK'
  BY <1>0 DEF TypeOK
<1>2. UniqueKeys'
  BY <1>0 DEF UniqueKeys, Linked
<1>3. DamageIsLocal'
  <2>1. p \in Node
    BY PInValue
  <2>2. \A n \in Node \ {p} : Agrees(n)'
    BY <1>0 DEF Agrees, Placement
  <2> QED
    BY <1>0, <2>1, <2>2 DEF DamageIsLocal, Counting, Owned, Live, Linked
<1> QED
  BY <1>1, <1>2, <1>3 DEF IInv

\* An array that cannot grow: only the node being inserted is half linked.
LEMMA GrowThrowsPreserves ==
  ASSUME IInv, ~PointerStored, GrowThrows
  PROVE  IInv'
<1> USE IndexAssumption, AbsentAssumption DEF GrowThrows, Leave, Linking, LinkInto, report
<1>0. /\ TypeOK /\ UniqueKeys /\ Placement /\ Counting /\ Owned /\ FrameFits
  BY DEF IInv, Sound
<1>b. p \in Node /\ value[p] \in Value
  BY PInValue
<1>c. KeyOf[at][value[p]] \in Key
  BY <1>b
<1>1. TypeOK'
  BY <1>0, <1>b, <1>c DEF TypeOK
<1>2. UniqueKeys'
  BY <1>0, <1>b DEF UniqueKeys, Linked, Keyed, Clashing, TypeOK
<1>3. DamageIsLocal'
  <2>1. \A n \in Node \ {p} : Agrees(n)'
    BY <1>0, <1>b DEF Agrees, Placement, TypeOK
  <2>2. \A i \in Index : Linked(i)' \subseteq Linked(i) \cup {p}
    BY <1>0, <1>b DEF Linked, TypeOK
  <2>3. registry \cup held \cup {p} \subseteq Live /\ Live' = Live
    BY <1>0, <1>b DEF Owned, Live, TypeOK
  <2> QED
    BY <1>0, <1>b, <2>1, <2>2, <2>3 DEF DamageIsLocal, Counting, Owned
<1> QED
  BY <1>1, <1>2, <1>3 DEF IInv

\* A key function that throws after the mutation: only that element is affected.
LEMMA CompareThrowsPreserves ==
  ASSUME IInv, ~PointerStored, NEW n \in Node, NEW v \in Value, CompareThrows(n, v)
  PROVE  IInv'
<1> USE IndexAssumption, AbsentAssumption DEF CompareThrows, Leave, report
<1>0. /\ TypeOK /\ UniqueKeys /\ Placement /\ Counting /\ Owned /\ FrameFits
  BY DEF IInv, Sound
<1>1. TypeOK'
  BY <1>0 DEF TypeOK
<1>2. UniqueKeys'
  BY <1>0 DEF UniqueKeys, Linked
<1>3. DamageIsLocal'
  <2>1. \A m \in Node \ {n} : Agrees(m)'
    BY <1>0, AtRest DEF Agrees, TypeOK
  <2>2. Live' = Live
    BY <1>0 DEF Live, TypeOK, Owned
  <2> QED
    BY <1>0, <2>1, <2>2 DEF DamageIsLocal, Counting, Owned, Linked
<1> QED
  BY <1>1, <1>2, <1>3 DEF IInv

-----------------------------------------------------------------------------
(* The invariant holds, and the properties follow from it.                 *)

\* Every step preserves the invariant.
LEMMA NextPreserves ==
  ASSUME IInv, ~PointerStored, [Next]_vars
  PROVE  IInv'
<1>1. CASE Call
  BY <1>1, InsertPreserves, MutatePreserves, AssignThroughHandlePreserves,
     MutatorThrowsPreserves, CompareThrowsPreserves, InsertHandlePreserves,
     ErasePreserves, ExtractPreserves, ResetHandlePreserves, EraseKeyPreserves,
     ClearPreserves DEF Call
<1>2. CASE Continue
  BY <1>2, TryInsertPreserves, SkipUnchangedPreserves, RefusePreserves, UnwindPreserves,
     CommitInsertPreserves, RejectInsertPreserves, CommitMutationPreserves,
     RollBackPreserves, RolledBackPreserves, DropAfterFailedRollbackPreserves,
     NextVictimPreserves, EraseNodeFullPreserves, FiredPreserves DEF Continue
<1>3. CASE Throw
  BY <1>3, ObserverThrowsPreserves, TryInsertThrowsPreserves, GrowThrowsPreserves DEF Throw
<1>4. CASE UNCHANGED vars
  BY <1>4 DEF vars, store, frame, report, IInv, Sound, TypeOK, UniqueKeys, Linked,
     DamageIsLocal, Agrees, Live, Placement, Attached, Counting, Owned, FrameFits,
     Inserting, Uncommitted, OldKeysFree, RollbackSucceeds, ClashReport
<1> QED
  BY <1>1, <1>2, <1>3, <1>4 DEF Next

\* Whatever its indices, keys and values are, and whatever user code throws, a
\* container of values keeps the inductive invariant.
THEOREM Invariance == ASSUME ~PointerStored PROVE Spec => []IInv
<1>1. Init => IInv
  BY InitIInv
<1>2. IInv /\ [Next]_vars => IInv'
  BY NextPreserves
<1> QED
  BY <1>1, <1>2, PTL DEF Spec

\* Every variable keeps its type.
THEOREM TypeCorrect == ASSUME ~PointerStored PROVE Spec => []TypeOK
<1>1. IInv => TypeOK
  BY DEF IInv
<1> QED
  BY <1>1, Invariance, PTL

\* No unique index links two nodes under one key, in any state of any call.
THEOREM KeysStayUnique == ASSUME ~PointerStored PROVE Spec => []UniqueKeys
<1>1. IInv => UniqueKeys
  BY DEF IInv
<1> QED
  BY <1>1, Invariance, PTL

\* Whenever user code can look, all indices agree with the registry and size().
THEOREM IndicesAgree == ASSUME ~PointerStored PROVE Spec => []Consistent
<1>1. IInv => Consistent
  <2> SUFFICES ASSUME IInv, Visible PROVE size = Cardinality(registry) /\ \A n \in Node : Agrees(n)
    BY DEF Consistent
  <2>1. Sound /\ Attached = Index
    BY DEF IInv, Visible, Attached
  <2>2. p \in registry \/ p = NoNode
    BY <2>1 DEF Visible, Sound, FrameFits
  <2> QED
    BY <2>1, <2>2, AbsentAssumption DEF Sound, Placement, Counting, Agrees
<1> QED
  BY <1>1, Invariance, PTL

\* No node is lost, freed twice or owned twice, and no index links a freed node,
\* as long as no exception cuts a call short.
THEOREM NodesOwnedOnce == ASSUME ~PointerStored PROVE Spec => []Ownership
<1>1. IInv => Ownership
  BY DEF IInv, Sound, Ownership
<1> QED
  BY <1>1, Invariance, PTL

\* A rejected modification is always undone: the old keys are never refused.
THEOREM RollbackAlwaysSucceeds == ASSUME ~PointerStored PROVE Spec => []RollbackSucceeds
<1>1. IInv => RollbackSucceeds
  BY DEF IInv, Sound, RollbackSucceeds
<1> QED
  BY <1>1, Invariance, PTL

\* Only the three uncaught exceptions end in "thrown", and they leave the report alone.
LEMMA ThrownReport ==
  ASSUME [Next]_vars, pc' = "thrown"
  PROVE  registry' = registry /\ conflict' = conflict /\ p' \in {p, NoNode}
<1>1. CASE \E n \in Node, v \in Value : CompareThrows(n, v)
  BY <1>1 DEF CompareThrows, Leave, report
<1>2. CASE Call /\ ~ \E n \in Node, v \in Value : CompareThrows(n, v)
  BY <1>2 DEF Call, Insert, Mutate, AssignThroughHandle, MutatorThrows, InsertHandle, Erase,
     Extract, ResetHandle, EraseKey, Clear, Begin, Goto, Leave, frame
<1>3. CASE Continue
  <2>1. pc' # "thrown"
    BY <1>3 DEF Continue, TryInsert, SkipUnchanged, Refuse, Unwind, CommitInsert,
       RejectInsert, CommitMutation, RollBack, RolledBack, DropAfterFailedRollback, AfterDrop,
       NextVictim, EraseNodeFull, Fired, Return, Linking, Begin, Goto, Leave, frame
  <2> QED
    BY <2>1
<1>4. CASE Throw
  BY <1>4 DEF Throw, ObserverThrows, TryInsertThrows, GrowThrows, Leave, store, report
<1>5. CASE UNCHANGED vars
  BY <1>5 DEF vars, store, frame, report
<1> QED
  BY <1>1, <1>2, <1>3, <1>4, <1>5 DEF Next

\* A rejection names the first index that refuses the value and a live element it
\* clashes with there, whatever is unwound or rolled back before it is returned.
THEOREM ClashesNamedRight == ASSUME ~PointerStored PROVE Spec => []ClashReport
<1>1. Init => ClashReport
  BY DEF Init, ClashReport
<1>2. IInv /\ IInv' /\ ClashReport /\ [Next]_vars => ClashReport'
  <2> SUFFICES ASSUME IInv, IInv', ClashReport, [Next]_vars PROVE ClashReport'
    OBVIOUS
  <2>1. CASE pc' # "thrown"
    BY <2>1 DEF IInv, Sound, ClashReport
  <2>2. CASE pc' = "thrown"
    BY <2>2, ThrownReport, AbsentAssumption DEF ClashReport, IInv, TypeOK
  <2> QED
    BY <2>1, <2>2
<1> QED
  BY <1>1, <1>2, Invariance, PTL DEF Spec

\* A throw that nothing catches damages at most the node of the current call.
THEOREM ThrowDamagesOneNode == ASSUME ~PointerStored PROVE Spec => []DamageIsLocal
<1>1. IInv => DamageIsLocal
  BY DEF IInv
<1> QED
  BY <1>1, Invariance, PTL

-----------------------------------------------------------------------------
(* A call implements one step of the abstract container.                   *)

\* The empty container maps to the empty abstract one.
LEMMA InitRefines == Init => Abstract!Init
  BY DEF Init, Elems, Detached, Abstract!Init

\* Registering a node is the abstract Insert or Reinsert.
LEMMA CommitInsertRefines ==
  ASSUME IInv, CommitInsert
  PROVE  Abstract!Next
<1> USE IndexAssumption, AbsentAssumption DEF CommitInsert, Goto
<1>0. /\ p \in Node \ registry /\ value[p] \in Value /\ Attached = Index
      /\ Inserting /\ (op = "reinsert" <=> p \in held) /\ Index = 1 .. N
  BY PInValue DEF IInv, Sound, FrameFits, Attached, Inserting, Index
<1>1. Elems' = Abstract!Put(Elems, p, value[p])
  BY <1>0 DEF Elems, Uncommitted, Mutations, Abstract!Put, Inserting
<1>2. Abstract!Fits(p, value[p])
  BY <1>0, AttachedKeysFree DEF Abstract!Fits, Elems, Uncommitted, Keyed
<1>3. CASE op = "insert"
  <2>1. Detached' = Detached /\ p \notin DOMAIN Elems \cup DOMAIN Detached
    BY <1>0, <1>3 DEF Detached, Elems
  <2>2. Abstract!Insert(p, value[p])
    BY <1>1, <1>2, <2>1 DEF Abstract!Insert
  <2> QED
    BY <1>0, <2>2 DEF Abstract!Next
<1>4. CASE op = "reinsert"
  <2>1. /\ p \in DOMAIN Detached /\ Detached[p] = value[p]
        /\ Detached' = Abstract!Without(Detached, {p})
    BY <1>0, <1>4 DEF Detached, Abstract!Without
  <2>2. Abstract!Reinsert(p)
    BY <1>1, <1>2, <2>1 DEF Abstract!Reinsert
  <2> QED
    BY <1>0, <2>2 DEF Abstract!Next
<1> QED
  BY <1>3, <1>4

\* A mutation takes effect, abstractly, when the last index has accepted it.
LEMMA CommitMutationRefines ==
  ASSUME IInv, CommitMutation
  PROVE  Abstract!Next
<1> USE IndexAssumption, AbsentAssumption DEF CommitMutation, Goto, store
<1>0. /\ p \in registry /\ p \in Node /\ value[p] \in Value /\ Attached = Index
  BY PInValue DEF IInv, Sound, FrameFits, Attached, Uncommitted, Index
<1>1. Elems' = Abstract!Put(Elems, p, value[p])
  BY <1>0 DEF Elems, Uncommitted, Abstract!Put
<1>2. Abstract!Fits(p, value[p])
  BY <1>0, AttachedKeysFree DEF Abstract!Fits, Elems, Keyed
<1>3. Abstract!Change(p, value[p])
  BY <1>0, <1>1, <1>2 DEF Abstract!Change, Elems, Detached
<1> QED
  BY <1>0, <1>3 DEF Abstract!Next

\* erase_node_full is the abstract Erase.
LEMMA EraseNodeFullRefines ==
  ASSUME IInv, EraseNodeFull
  PROVE  Abstract!Next
<1> USE DEF EraseNodeFull, Detach
<1>0. p \in registry /\ p \in Node /\ p \notin held /\ ~Uncommitted /\ ~Uncommitted'
  BY DEF IInv, Sound, FrameFits, TypeOK, Owned, Uncommitted, Return, Leave
<1>1. Elems' = Abstract!Without(Elems, {p}) /\ Detached' = Detached
  BY <1>0 DEF Elems, Detached, Abstract!Without, IInv, TypeOK
<1>2. Abstract!Erase(p)
  BY <1>0, <1>1 DEF Abstract!Erase, Elems
<1> QED
  BY <1>0, <1>2 DEF Abstract!Next

\* extract is the abstract Extract.
LEMMA ExtractRefines ==
  ASSUME IInv, NEW n \in Node, Extract(n)
  PROVE  Abstract!Next
<1> USE DEF Extract, Detach, frame
<1>1. ~Uncommitted /\ ~Uncommitted'
  BY DEF Uncommitted
<1>2. /\ Elems' = Abstract!Without(Elems, {n})
      /\ Detached' = Abstract!Put(Detached, n, Elems[n])
  BY <1>1 DEF Elems, Detached, Abstract!Without, Abstract!Put
<1>3. Abstract!Extract(n)
  BY <1>2 DEF Abstract!Extract, Elems
<1> QED
  BY <1>3 DEF Abstract!Next

\* Assigning through a handle is the abstract Edit.
LEMMA AssignThroughHandleRefines ==
  ASSUME IInv, NEW n \in Node, NEW v \in Value, AssignThroughHandle(n, v)
  PROVE  Abstract!Next
<1> USE DEF AssignThroughHandle, frame
<1>1. n \notin registry /\ ~Uncommitted /\ ~Uncommitted'
  BY DEF IInv, Sound, Owned, Uncommitted
<1>2. Elems' = Elems /\ Detached' = Abstract!Put(Detached, n, v)
  BY <1>1 DEF Elems, Detached, Abstract!Put, IInv, TypeOK
<1>3. Abstract!Edit(n, v)
  BY <1>2 DEF Abstract!Edit, Detached
<1> QED
  BY <1>3 DEF Abstract!Next

\* Resetting a handle is the abstract Discard.
LEMMA ResetHandleRefines ==
  ASSUME IInv, NEW n \in Node, ResetHandle(n)
  PROVE  Abstract!Next
<1> USE DEF ResetHandle, frame
<1>1. n \notin registry /\ ~Uncommitted /\ ~Uncommitted'
  BY DEF IInv, Sound, Owned, Uncommitted
<1>2. Elems' = Elems /\ Detached' = Abstract!Without(Detached, {n})
  BY <1>1 DEF Elems, Detached, Abstract!Without, IInv, TypeOK
<1>3. Abstract!Discard(n)
  BY <1>2 DEF Abstract!Discard, Detached
<1> QED
  BY <1>3 DEF Abstract!Next

\* clear is the abstract Clear.
LEMMA ClearRefines ==
  ASSUME IInv, Clear
  PROVE  Abstract!Next
<1> USE DEF Clear, frame
<1>1. Detached' = Detached
  BY DEF Detached, IInv, Sound, Owned, TypeOK
<1>2. Elems' = Abstract!Without(Elems, DOMAIN Elems)
  BY DEF Elems, Abstract!Without
<1> QED
  BY <1>1, <1>2 DEF Abstract!Next, Abstract!Clear

\* The steps before a commitment, those of an undone call and those after an
\* erasure change no element.
LEMMA LinkingStutters ==
  ASSUME IInv, TryInsert \/ SkipUnchanged \/ Refuse \/ Unwind
  PROVE  UNCHANGED <<Elems, Detached>>
<1>1. UNCHANGED <<value, registry, held, op, p, before>>
  BY DEF TryInsert, SkipUnchanged, Refuse, Unwind, store
<1>2. pc # "undo_relink" /\ pc # "thrown"
  BY DEF IInv, Sound, RollbackSucceeds, TryInsert, SkipUnchanged, Refuse, Unwind, Linking
<1>3. pc' # "undo_relink"
  BY <1>2, OnlyFirstAttemptRefused DEF TryInsert, SkipUnchanged, Refuse, Unwind, Linking
<1>4. Uncommitted' <=> Uncommitted
  BY <1>1, <1>2, <1>3 DEF Uncommitted, TryInsert, SkipUnchanged, Refuse, Unwind, Linking
<1> QED
  BY <1>1, <1>4 DEF Elems, Detached

\* A node that is being inserted is not an element yet.
LEMMA InsertStutters ==
  ASSUME IInv, NEW n \in Node, NEW v \in Value, Insert(n, v)
  PROVE  UNCHANGED <<Elems, Detached>>
<1>1. \A m \in registry \cup held : m \in Node /\ value[m] # NoValue
  BY ElementsHaveValues, AbsentAssumption DEF Insert
<1>2. \A m \in registry \cup held : value'[m] = value[m]
  BY <1>1 DEF Insert, IInv, TypeOK
<1>3. ~Uncommitted /\ ~Uncommitted' /\ registry' = registry /\ held' = held
  BY DEF Insert, Begin, Uncommitted, Mutations
<1> QED
  BY <1>2, <1>3 DEF Elems, Detached

\* A mutated element counts with its old value until the mutation commits.
LEMMA MutateStutters ==
  ASSUME IInv, NEW o \in Mutations, NEW n \in Node, NEW v \in Value, Mutate(o, n, v)
  PROVE  UNCHANGED <<Elems, Detached>>
<1>1. /\ ~Uncommitted /\ Uncommitted' /\ p' = n /\ before' = value[n]
      /\ registry' = registry /\ held' = held
  BY DEF Mutate, Begin, Uncommitted
<1>2. \A m \in Node \ {n} : value'[m] = value[m]
  BY DEF Mutate, IInv, TypeOK
<1>3. n \notin held /\ registry \subseteq Node /\ held \subseteq Node
  BY DEF Mutate, IInv, Sound, Owned, TypeOK
<1> QED
  BY <1>1, <1>2, <1>3 DEF Elems, Detached

\* Beginning any other call changes nothing that the abstract container shows.
LEMMA OtherCallsStutter ==
  ASSUME ~PointerStored,
         \/ \E n \in Node : InsertHandle(n) \/ Erase(n)
         \/ \E n \in Node, v \in Value : MutatorThrows(n, v)
         \/ \E i \in Keyed, k \in Key : EraseKey(i, k)
  PROVE  UNCHANGED <<Elems, Detached>>
<1>1. ~Uncommitted /\ ~Uncommitted' /\ UNCHANGED <<value, registry, held>>
  BY DEF InsertHandle, Begin, Erase, MutatorThrows, EraseKey, Uncommitted, Mutations, store, frame
<1> QED
  BY <1>1 DEF Elems, Detached

\* So does the rest of a call: linking, unwinding, rolling back, returning.
LEMMA EndingStutters ==
  ASSUME IInv, ~PointerStored,
         \/ RejectInsert \/ RollBack \/ RolledBack \/ NextVictim \/ Fired
         \/ ObserverThrows \/ GrowThrows
  PROVE  UNCHANGED <<Elems, Detached>>
<1>0. TypeOK /\ Owned /\ FrameFits
  BY DEF IInv, Sound, RejectInsert, RollBack, RolledBack, NextVictim, Fired, ObserverThrows,
     GrowThrows, Linking
<1>1. registry' = registry /\ held' = held
  BY DEF RejectInsert, RollBack, RolledBack, NextVictim, Fired, ObserverThrows, GrowThrows, store
<1>2. CASE RejectInsert
  <2>1. ~Uncommitted /\ ~Uncommitted'
    BY <1>2 DEF RejectInsert, Leave, Uncommitted, Mutations
  <2>2. \A m \in registry \cup held : value'[m] = value[m]
    BY <1>0, <1>2 DEF RejectInsert, FrameFits, Inserting, TypeOK
  <2> QED
    BY <1>1, <2>1, <2>2 DEF Elems, Detached
<1>3. CASE RollBack
  <2>1. /\ Uncommitted /\ Uncommitted' /\ p' = p /\ before' = before
        /\ \A m \in Node \ {p} : value'[m] = value[m]
        /\ p \notin held
    BY <1>0, <1>3 DEF RollBack, Restored, Uncommitted, FrameFits, Owned, TypeOK
  <2> QED
    BY <1>0, <1>1, <2>1 DEF Elems, Detached, TypeOK
<1>4. CASE RolledBack
  <2>1. value' = value /\ value[p] = before /\ ~Uncommitted'
    BY <1>0, <1>4 DEF RolledBack, Goto, Leave, Uncommitted, FrameFits, store
  <2> QED
    BY <1>1, <2>1 DEF Elems, Detached
<1>5. CASE NextVictim \/ Fired \/ ObserverThrows
  <2>1. value' = value /\ ~Uncommitted /\ ~Uncommitted'
    BY <1>5 DEF NextVictim, Fired, ObserverThrows, Leave, Uncommitted, store
  <2> QED
    BY <1>1, <2>1 DEF Elems, Detached
<1>6. CASE GrowThrows
  <2>1. value' = value /\ ~Uncommitted /\ ~Uncommitted'
    BY <1>6 DEF GrowThrows, Leave, Uncommitted, Mutations
  <2> QED
    BY <1>1, <2>1 DEF Elems, Detached
<1> QED
  BY <1>2, <1>3, <1>4, <1>5, <1>6

\* Every step maps to a step of the abstract container or to a stutter.
LEMMA NextRefines ==
  ASSUME IInv, ~PointerStored, "key" \notin MayThrow, [Next]_vars
  PROVE  [Abstract!Next]_<<Elems, Detached>>
<1>1. CASE Call
  BY <1>1, InsertStutters, MutateStutters, OtherCallsStutter, AssignThroughHandleRefines,
     ExtractRefines, ResetHandleRefines, ClearRefines DEF Call, CompareThrows
<1>2. CASE Continue
  BY <1>2, LinkingStutters, EndingStutters, CommitInsertRefines, CommitMutationRefines,
     EraseNodeFullRefines, DropAfterFailedRollbackPreserves
     DEF Continue, IInv, Sound, RollbackSucceeds, DropAfterFailedRollback
<1>3. CASE Throw
  BY <1>3, EndingStutters DEF Throw, TryInsertThrows
<1>4. CASE UNCHANGED vars
  BY <1>4 DEF vars, store, frame, Elems, Detached, Uncommitted
<1> QED
  BY <1>1, <1>2, <1>3, <1>4 DEF Next

\* Unless an extractor, a comparator or a hasher throws, the container implements
\* the all-or-nothing operations of MultiIndexSpec: a call that is rejected, or
\* whose mutator, observer or allocator throws, changes no element.
THEOREM Refinement ==
  ASSUME ~PointerStored, "key" \notin MayThrow
  PROVE  Spec => Refines
<1>1. Init => Abstract!Init
  BY InitRefines
<1>2. IInv /\ [Next]_vars => [Abstract!Next]_(Abstract!vars)
  BY NextRefines DEF Abstract!vars
<1> QED
  BY <1>1, <1>2, Invariance, PTL DEF Spec, Refines, Abstract!Spec
=============================================================================
