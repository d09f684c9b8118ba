------------------------------ MODULE Purger_proofs ------------------------------
(***************************************************************************)
(* Proofs about the purge, for any number of purgers, any batch and any    *)
(* faults: its types, that only old rows go and none is counted twice, and *)
(* that a short page leaves nothing behind.                                *)
(***************************************************************************)
EXTENDS Purger, FiniteSetTheorems, TLAPS

\* A page was picked among old rows, and a row leaves "old" only by going; a short
\* page was everything there was.
PageInv ==
    \A p \in Purgers :
        /\ \A i \in page[p] : row[i] \in {"old", "gone"}
        /\ pc[p] = "deleting" /\ Cardinality(page[p]) < Batch => page[p] = eligible[p]

Inv == TypeOK /\ PageInv

LEMMA InitInv == Init => Inv
  BY SizeAssumption DEF Init, Inv, TypeOK, PageInv

\* Rows only move along Moves, none of which leaves "old" or "gone".
LEMMA RowMovesStep ==
    ASSUME Inv, NEW i \in Ids, RowMoves(i)
    PROVE  Inv'
<1> USE DEF Inv
<1>1. /\ row' \in [Ids -> {"pending", "young", "failed", "old", "gone"}]
      /\ \A j \in Ids : row[j] \in {"old", "gone"} => row'[j] = row[j]
      /\ UNCHANGED <<ctx, loopVars, faults>>
  BY DEF TypeOK, RowMoves, Moves
<1> QED
  BY <1>1 DEF TypeOK, PageInv, loopVars

LEMMA PickStep ==
    ASSUME Inv, NEW p \in Purgers, NEW S \in SUBSET Ids, PickPage(p, S)
    PROVE  Inv'
<1> USE DEF Inv
<1>1. TypeOK'
  BY DEF TypeOK, PickPage, Old
<1>2. S \subseteq Old /\ (Cardinality(S) < Batch => S = Old)
  BY DEF PickPage, IsPage
<1>3. PageInv'
  BY <1>2 DEF TypeOK, PageInv, PickPage, Old
<1> QED
  BY <1>1, <1>3

\* A DELETE erases what is left of its own page.
LEMMA ErasedWereOld ==
    ASSUME Inv, NEW p \in Purgers, Erase(Present(p)) \/ UNCHANGED row
    PROVE  /\ row' \in [Ids -> {"pending", "young", "failed", "old", "gone"}]
           /\ \A i \in Ids : row'[i] # row[i] => row[i] = "old" /\ row'[i] = "gone"
  BY DEF Inv, TypeOK, PageInv, Erase, Present

\* Sets of rows are finite: there are MaxRows at most.
LEMMA RowsFinite ==
    ASSUME NEW S \in SUBSET Ids
    PROVE  IsFiniteSet(S) /\ Cardinality(S) \in Nat
<1>1. IsFiniteSet(Ids)
  BY SizeAssumption, FS_Interval DEF Ids
<1> QED
  BY <1>1, FS_Subset, FS_CardinalityType

LEMMA PresentCounts ==
    ASSUME Inv, NEW p \in Purgers
    PROVE  Present(p) \in SUBSET Ids /\ Cardinality(Present(p)) \in Nat
<1>1. Present(p) \in SUBSET Ids
  BY DEF Inv, TypeOK, Present
<1> QED
  BY <1>1, RowsFinite

LEMMA DeleteStep ==
    ASSUME Inv, NEW p \in Purgers, DeletePage(p) \/ PageFails(p)
    PROVE  Inv'
<1> USE DEF Inv
<1>1. /\ row' \in [Ids -> {"pending", "young", "failed", "old", "gone"}]
      /\ \A i \in Ids : row'[i] # row[i] => row[i] = "old" /\ row'[i] = "gone"
  BY ErasedWereOld DEF DeletePage, PageFails
<1>2. /\ page' = [page EXCEPT ![p] = {}] /\ eligible' = [eligible EXCEPT ![p] = {}]
      /\ pc' \in {[pc EXCEPT ![p] = "waiting"], [pc EXCEPT ![p] = "page"]}
  BY DEF DeletePage, PageFails, EndRun
<1>3. deleted' \in Nat
  <2>1. CASE PageFails(p)
    BY <2>1 DEF TypeOK, PageFails
  <2>2. CASE DeletePage(p)
    BY <2>2, PresentCounts DEF TypeOK, DeletePage
  <2> QED
    BY <2>1, <2>2
<1>4. UNCHANGED <<ctx, tick>> /\ faults' \in 0 .. MaxFaults
  BY SizeAssumption DEF TypeOK, DeletePage, PageFails, Fault
<1>5. page' \in [Purgers -> SUBSET Ids] /\ eligible' \in [Purgers -> SUBSET Ids]
  BY <1>2 DEF TypeOK
<1>6. pc' \in [Purgers -> {"page", "deleting", "waiting", "stopped"}]
  BY <1>2 DEF TypeOK
<1>7. TypeOK'
  BY <1>1, <1>3, <1>4, <1>5, <1>6 DEF TypeOK
<1>8. PageInv'
  BY <1>1, <1>2 DEF TypeOK, PageInv
<1> QED
  BY <1>7, <1>8

LEMMA LoopStep ==
    ASSUME Inv, NEW p \in Purgers, Interrupted(p) \/ NextRun(p) \/ Stop(p) \/ Tick(p)
    PROVE  Inv'
<1> USE DEF Inv
<1>1. TypeOK'
  BY DEF TypeOK, Interrupted, EndRun, NextRun, Stop, Tick
<1>2. PageInv'
  BY DEF TypeOK, PageInv, Interrupted, EndRun, NextRun, Stop, Tick
<1> QED
  BY <1>1, <1>2

LEMMA NextInv == Inv /\ [Next]_vars => Inv'
<1> SUFFICES ASSUME Inv, [Next]_vars
             PROVE  Inv'
  OBVIOUS
<1>1. CASE UNCHANGED vars \/ Cancel
  BY <1>1 DEF vars, loopVars, Cancel, Inv, TypeOK, PageInv
<1>2. ASSUME NEW p \in Purgers, RunStep(p) \/ PageFails(p) \/ Stop(p) \/ Tick(p)
      PROVE  Inv'
  BY <1>2, PickStep, DeleteStep, LoopStep DEF RunStep
<1>3. ASSUME NEW i \in Ids, RowMoves(i)
      PROVE  Inv'
  BY <1>3, RowMovesStep
<1> QED
  BY <1>1, <1>2, <1>3 DEF Next

LEMMA Invariance == Spec => []Inv
  BY InitInv, NextInv, PTL DEF Spec

-----------------------------------------------------------------------------

\* The purger's variables keep their types.
THEOREM TypeCorrect == Spec => []TypeOK
<1>1. Inv => TypeOK
  BY DEF Inv
<1> QED
  BY <1>1, Invariance, PTL

\* Only rows past their retention are deleted, however long a DELETE waits for the
\* locks of another.
LEMMA OnlyOldStep ==
    ASSUME Inv, [Next]_vars
    PROVE  [\A i \in Ids : row[i] # "gone" /\ row'[i] = "gone" => row[i] = "old"]_vars
<1>1. CASE UNCHANGED vars \/ Cancel
  BY <1>1 DEF vars, Cancel
<1>2. ASSUME NEW p \in Purgers, RunStep(p) \/ PageFails(p) \/ Stop(p) \/ Tick(p)
      PROVE  \A i \in Ids : row[i] # "gone" /\ row'[i] = "gone" => row[i] = "old"
  <2>1. Erase(Present(p)) \/ UNCHANGED row
    BY <1>2 DEF RunStep, PickPage, Interrupted, DeletePage, NextRun, PageFails, Stop, Tick
  <2> QED
    BY <2>1, ErasedWereOld
<1>3. ASSUME NEW i \in Ids, RowMoves(i)
      PROVE  \A j \in Ids : row[j] # "gone" /\ row'[j] = "gone" => row[j] = "old"
  BY <1>3 DEF Inv, TypeOK, RowMoves, Moves
<1> QED
  BY <1>1, <1>2, <1>3 DEF Next

THEOREM OnlyOldRowsGo == Spec => OnlyOldGo
  BY Invariance, OnlyOldStep, PTL DEF Spec, OnlyOldGo

\* A run reports what its DELETE removed, rows that were there until then; the
\* other steps delete at most rows nobody reports.
LEMMA CountStep ==
    ASSUME Inv, NothingCountedTwice, [Next]_vars
    PROVE  NothingCountedTwice'
<1>0. /\ deleted \in Nat /\ deleted <= Cardinality(Gone)
      /\ Gone \in SUBSET Ids /\ Gone' \in SUBSET Ids
      /\ Cardinality(Gone) \in Nat /\ Cardinality(Gone') \in Nat
      /\ IsFiniteSet(Gone) /\ IsFiniteSet(Gone')
  BY RowsFinite DEF Inv, TypeOK, NothingCountedTwice, Gone
<1>1. ASSUME deleted' = deleted, Gone \subseteq Gone'
      PROVE  NothingCountedTwice'
  BY <1>0, <1>1, FS_Subset DEF NothingCountedTwice
<1>2. ASSUME NEW p \in Purgers, DeletePage(p)
      PROVE  NothingCountedTwice'
  <2>1. /\ Gone' = Gone \cup Present(p) /\ Gone \cap Present(p) = {}
        /\ deleted' = deleted + Cardinality(Present(p))
    BY <1>2 DEF Inv, TypeOK, DeletePage, Erase, Present, Gone
  <2>2. IsFiniteSet(Present(p)) /\ Cardinality(Present(p)) \in Nat
    BY PresentCounts, RowsFinite
  <2>3. Cardinality(Gone \cap Present(p)) = 0
    BY <2>1, FS_EmptySet
  <2>4. Cardinality(Gone') = Cardinality(Gone) + Cardinality(Present(p)) - Cardinality(Gone \cap Present(p))
    BY <1>0, <2>1, <2>2, FS_Union
  <2> QED
    BY <1>0, <2>1, <2>2, <2>3, <2>4 DEF NothingCountedTwice
<1>3. CASE UNCHANGED vars \/ Cancel
  BY <1>1, <1>3 DEF vars, loopVars, Cancel, Gone
<1>4. ASSUME NEW i \in Ids, RowMoves(i)
      PROVE  NothingCountedTwice'
  BY <1>1, <1>4 DEF Inv, TypeOK, RowMoves, Moves, Gone, loopVars
<1>5. ASSUME NEW p \in Purgers, RunStep(p) \/ PageFails(p) \/ Stop(p) \/ Tick(p), ~DeletePage(p)
      PROVE  NothingCountedTwice'
  <2>1. deleted' = deleted /\ (Erase(Present(p)) \/ UNCHANGED row)
    BY <1>5 DEF RunStep, PickPage, Interrupted, NextRun, PageFails, Stop, Tick
  <2> QED
    BY <1>1, <2>1 DEF Erase, Present, Gone
<1> QED
  BY <1>2, <1>3, <1>4, <1>5 DEF Next

\* No row is reported deleted twice, and none that is still there, however many
\* purgers pick the same page and whichever of their runs fail.
THEOREM CountsAreTrue == Spec => []NothingCountedTwice
<1>1. Init => NothingCountedTwice
  BY RowsFinite DEF Init, NothingCountedTwice, Gone
<1>2. Inv /\ NothingCountedTwice /\ [Next]_vars => NothingCountedTwice'
  BY CountStep
<1> QED
  BY <1>1, <1>2, Invariance, PTL DEF Spec

\* A short page that nobody else was deleting of has left nothing eligible behind.
LEMMA ExhaustedStep ==
    ASSUME Inv, NEW p \in Purgers, EndsExhausted(p), page[p] \cap Gone = {}
    PROVE  eligible[p] \subseteq Gone'
<1>1. page[p] \subseteq Ids /\ Present(p) = page[p]
  BY DEF Inv, TypeOK, Present, Gone
<1>2. pc[p] = "deleting" /\ Cardinality(page[p]) < Batch
  BY <1>1 DEF Inv, TypeOK, EndsExhausted, DeletePage
<1>3. eligible[p] = page[p]
  BY <1>2 DEF Inv, PageInv
<1>4. page[p] \subseteq Gone'
  BY <1>1 DEF EndsExhausted, DeletePage, Erase, Gone
<1> QED
  BY <1>3, <1>4

\* "Fewer rows than asked for means the eligible set is exhausted".
THEOREM ShortPageExhausts == Spec => ExhaustedMeansNoneLeft
<1>1. ASSUME Inv
      PROVE  \A p \in Purgers :
                 EndsExhausted(p) /\ page[p] \cap Gone = {} => eligible[p] \subseteq Gone'
  BY <1>1, ExhaustedStep
<1> QED
  BY <1>1, Invariance, PTL DEF ExhaustedMeansNoneLeft

=============================================================================
