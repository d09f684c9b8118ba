---------------------------- MODULE RelayLoop_proofs ----------------------------
(***************************************************************************)
(* Proofs about RelayLoop, for every ladder, batch size and bound.         *)
(*                                                                         *)
(* LoopInv is inductive as it stands.  It is preserved part by part: the   *)
(* types, then what concerns shutdown, then what concerns waiting.         *)
(***************************************************************************)
EXTENDS RelayLoop, TLAPS

\* The smaller of two naturals is a natural no larger than either.
LEMMA SmallerFact ==
    ASSUME NEW a \in Nat, NEW b \in Nat
    PROVE  Smaller(a, b) \in Nat /\ Smaller(a, b) <= a /\ Smaller(a, b) <= b
  BY DEF Smaller

\* nextWait: a wait is zero exactly after a full batch, and otherwise on the
\* ladder's range; the new idle backoff is in the range too.
LEMMA NextWaitFact ==
    ASSUME PositiveIdleMax, LadderInRange, last \in [claimed : 0 .. BatchSize, transient : BOOLEAN]
    PROVE  /\ Full <=> NextSleep = 0
           /\ NextSleep > 0 => NextSleep \in IdleMin .. IdleMax
           /\ NextSleep \in Nat
           /\ NextIdle \in IdleMin .. IdleMax
           /\ ~Full /\ ~last.transient /\ last.claimed > 0 => NextSleep = IdleMin
  BY IdleAssumption, LoopAssumption
     DEF PositiveIdleMax, LadderInRange, NextSleep, NextIdle, Full, Smaller

LEMMA TypeInit == Init => TypeOK
<1>1. NoResult \in [claimed : 0 .. BatchSize, transient : BOOLEAN]
  BY LoopAssumption DEF NoResult
<1>2. Init => cut \in BOOLEAN /\ slept \in BOOLEAN
  BY DEF Init
<1> QED
  BY <1>1, <1>2, IdleAssumption, LoopBounds DEF Init, TypeOK

\* Every step keeps the types; the counters of rows stay natural because a pass
\* takes no more rows than are due.
LEMMA TypeStep == TypeOK /\ [Next]_vars => TypeOK'
<1> SUFFICES ASSUME TypeOK, [Next]_vars PROVE TypeOK'
  OBVIOUS
<1> USE IdleAssumption, LoopAssumption, LoopBounds
<1>a. Smaller(due, BatchSize) \in Nat /\ Smaller(due, BatchSize) <= due
      /\ Smaller(due, BatchSize) <= BatchSize
  BY SmallerFact DEF TypeOK
<1>1. CASE PassDone
  BY <1>1, <1>a DEF PassDone, TypeOK, stopVars, wakeVars
<1>2. CASE \E decided \in 0 .. BatchSize - 1 : PassBroken(decided)
  BY <1>2, <1>a DEF PassBroken, Failure, TypeOK, stopVars, wakeVars
<1>3. CASE PassFails
  BY <1>3, <1>a DEF PassFails, Failure, NoResult, TypeOK, stopVars, wakeVars
<1>4. CASE Report
  <2>1. NextSleep \in Nat /\ NextIdle \in Nat
    BY DEF TypeOK, NextSleep, NextIdle, Full, Smaller
  <2> QED
    BY <1>4, <2>1 DEF Report, Usage, Wait, TypeOK, stopVars, tableVars
<1>5. CASE WaitAfterFailure
  BY <1>5 DEF WaitAfterFailure, Wait, TypeOK, stopVars, wakeVars, tableVars
<1>6. CASE StopAtTop \/ StopAfterFailure
  BY <1>6 DEF StopAtTop, StopAfterFailure, Stop, TypeOK, wakeVars, tableVars
<1>7. CASE StartPass
  BY <1>7 DEF StartPass, TypeOK, stopVars, wakeVars, tableVars
<1>8. CASE Listen \/ ListenFails \/ DropConn
  BY <1>8 DEF Listen, ListenFails, DropConn, Degrade, Failure, TypeOK, loopVars, stopVars, wakeVars, tableVars
<1>9. CASE Notified \/ TimesOut \/ CutShort
  <2>1. ASSUME NEW d \in Nat, Wake(d) PROVE
          /\ at' = "top" /\ slept' = TRUE /\ idle' = d
          /\ UNCHANGED <<sleep, last, report, cut, ctx, pass, grace, due, delayed, arrivals, failures>>
    BY <2>1 DEF Wake, stopVars, tableVars
  <2>2. IdleMin \in Nat /\ idle \in Nat /\ TRUE \in BOOLEAN
    BY DEF TypeOK
  <2>3. CASE Notified
    <3>1. notes' \in Nat /\ conn' = conn /\ Wake(IdleMin)
      BY <2>3 DEF Notified, TypeOK
    <3>2. slept' \in BOOLEAN
      BY <2>1, <3>1
    <3> QED
      BY <2>1, <2>2, <3>1, <3>2 DEF TypeOK
  <2>4. CASE TimesOut \/ CutShort
    BY <2>1, <2>2, <2>4 DEF TimesOut, CutShort, TypeOK, wakeVars
  <2> QED
    BY <1>9, <2>3, <2>4
<1>10. CASE (\E notified \in BOOLEAN : Arrive(notified)) \/ BackoffEnds
  BY <1>10 DEF Arrive, BackoffEnds, TypeOK, loopVars, stopVars, wakeVars
<1>11. CASE SigTerm \/ GraceExpires \/ ConnLost
  BY <1>11 DEF SigTerm, GraceExpires, ConnLost, Failure, TypeOK, loopVars, stopVars, wakeVars, tableVars
<1>12. CASE UNCHANGED vars
  BY <1>12 DEF vars, TypeOK, loopVars, stopVars, wakeVars, tableVars
<1> QED
  BY <1>1, <1>2, <1>3, <1>4, <1>5, <1>6, <1>7, <1>8, <1>9, <1>10, <1>11, <1>12
     DEF Next, LoopStep, PassEnds

\* What shutdown relies on: the contexts, the grace, the cut and the report.
Shutdown ==
    /\ SignalFirst /\ EndedByGrace /\ CutStaysEnded /\ ReportIsLast
    /\ CutOnlyAfterGrace /\ CleanMeansNothingCut

\* Only the grace cancels the pass of a running loop, and stopping reports on a
\* pass context that no step has touched since the pass was cut.
LEMMA ShutdownStep == TypeOK /\ Shutdown /\ [Next]_vars => Shutdown'
<1> SUFFICES ASSUME TypeOK, Shutdown, [Next]_vars PROVE Shutdown'
  OBVIOUS
<1> USE DEF Shutdown, SignalFirst, EndedByGrace, CutStaysEnded, ReportIsLast, CutOnlyAfterGrace, CleanMeansNothingCut
<1>1. CASE PassEnds
  BY <1>1 DEF PassEnds, PassDone, PassBroken, PassFails, stopVars, TypeOK
<1>2. CASE StopAtTop \/ StopAfterFailure
  BY <1>2 DEF StopAtTop, StopAfterFailure, Stop, TypeOK
<1>3. CASE SigTerm \/ GraceExpires \/ ConnLost
  <2>1. CASE SigTerm
    BY <2>1 DEF SigTerm, loopVars, TypeOK
  <2>2. CASE GraceExpires
    BY <2>2 DEF GraceExpires, loopVars, TypeOK
  <2>3. CASE ConnLost
    BY <2>3 DEF ConnLost, loopVars, stopVars
  <2> QED
    BY <1>3, <2>1, <2>2, <2>3
<1>4. CASE Report \/ WaitAfterFailure
  BY <1>4 DEF Report, Usage, WaitAfterFailure, stopVars
<1>5. CASE StartPass
  BY <1>5 DEF StartPass, stopVars
<1>6. CASE Listen \/ ListenFails \/ DropConn \/ Notified \/ TimesOut \/ CutShort
  BY <1>6 DEF Listen, ListenFails, DropConn, Degrade, Notified, TimesOut, CutShort, Blocked, Wake, loopVars, stopVars
<1>7. CASE (\E notified \in BOOLEAN : Arrive(notified)) \/ BackoffEnds
  BY <1>7 DEF Arrive, BackoffEnds, loopVars, stopVars
<1>8. CASE UNCHANGED vars
  BY <1>8 DEF vars, loopVars, stopVars
<1> QED
  BY <1>1, <1>2, <1>3, <1>4, <1>5, <1>6, <1>7, <1>8 DEF Next, LoopStep

\* What waiting relies on: the ladder, the last result and the way to the top.
Waiting ==
    /\ FailedIsEmpty
    /\ PositiveIdleMax => LadderInRange /\ TopIsEntitled /\ WaitsInBounds

\* A step enters a wait with a length nextWait chose, and comes back to the top
\* from a wait or from a full batch only.
LEMMA WaitingStep == TypeOK /\ Waiting /\ [Next]_vars => Waiting'
<1> SUFFICES ASSUME TypeOK, Waiting, [Next]_vars PROVE Waiting'
  OBVIOUS
<1>0. FailedIsEmpty'
  BY DEF Waiting, FailedIsEmpty, TypeOK, Next, LoopStep, PassEnds, StopAtTop, StopAfterFailure, Stop,
         StartPass, WaitAfterFailure, Wait, Report, Usage, Listen, ListenFails, DropConn, Degrade, Notified,
         TimesOut, CutShort, Wake, PassDone, PassBroken, PassFails, Arrive, BackoffEnds, SigTerm,
         GraceExpires, ConnLost, loopVars, vars
<1> SUFFICES ASSUME PositiveIdleMax PROVE (LadderInRange /\ TopIsEntitled /\ WaitsInBounds)'
  BY <1>0 DEF Waiting, PositiveIdleMax
<1> USE IdleAssumption, LoopAssumption
<1> USE DEF Waiting, PositiveIdleMax, LadderInRange, FailedIsEmpty, TopIsEntitled, WaitsInBounds
<1>1. CASE PassEnds
  BY <1>1 DEF PassEnds, PassDone, PassBroken, PassFails
<1>2. CASE Report
  <2>1. /\ Full <=> NextSleep = 0
        /\ NextSleep > 0 => NextSleep \in IdleMin .. IdleMax
        /\ NextIdle \in IdleMin .. IdleMax
        /\ ~Full /\ ~last.transient /\ last.claimed > 0 => NextSleep = IdleMin
        /\ NextSleep \in Nat
    BY NextWaitFact DEF TypeOK
  <2> QED
    BY <1>2, <2>1 DEF Report, Usage, Wait, Full
<1>3. CASE WaitAfterFailure
  BY <1>3 DEF WaitAfterFailure, Wait, NoResult, Full
<1>4. CASE StopAtTop \/ StopAfterFailure
  BY <1>4 DEF StopAtTop, StopAfterFailure, Stop
<1>5. CASE StartPass
  BY <1>5 DEF StartPass
<1>6. CASE Listen \/ ListenFails \/ DropConn
  BY <1>6 DEF Listen, ListenFails, DropConn, Degrade, Full, loopVars
<1>7. CASE Notified \/ TimesOut \/ CutShort
  BY <1>7 DEF Notified, TimesOut, CutShort, Wake
<1>8. CASE SigTerm \/ GraceExpires \/ ConnLost
  BY <1>8 DEF SigTerm, GraceExpires, ConnLost, loopVars, Full
<1>9. CASE (\E notified \in BOOLEAN : Arrive(notified)) \/ BackoffEnds
  BY <1>9 DEF Arrive, BackoffEnds, loopVars, Full
<1>10. CASE UNCHANGED vars
  BY <1>10 DEF vars, loopVars, Full
<1> QED
  BY <1>1, <1>2, <1>3, <1>4, <1>5, <1>6, <1>7, <1>8, <1>9, <1>10 DEF Next, LoopStep

LEMMA InvInit == Init => LoopInv
<1> SUFFICES ASSUME Init PROVE LoopInv
  OBVIOUS
<1>1. TypeOK
  BY TypeInit
<1> QED
  BY <1>1, IdleAssumption
     DEF PositiveIdleMax, Init, LoopInv, LadderInRange, SignalFirst, EndedByGrace, CutStaysEnded, ReportIsLast, FailedIsEmpty,
         TopIsEntitled, CutOnlyAfterGrace, CleanMeansNothingCut, WaitsInBounds

LEMMA InvStep == LoopInv /\ [Next]_vars => LoopInv'
<1> SUFFICES ASSUME LoopInv, [Next]_vars PROVE LoopInv'
  OBVIOUS
<1>1. TypeOK'
  BY TypeStep DEF LoopInv
<1>2. Shutdown'
  BY ShutdownStep DEF LoopInv, Shutdown
<1>3. Waiting'
  BY WaitingStep DEF LoopInv, Waiting
<1> QED
  BY <1>1, <1>2, <1>3 DEF LoopInv, Shutdown, Waiting

\* The inductive invariant of the loop holds throughout.
THEOREM LoopInvariance == Spec => []LoopInv
  BY InvInit, InvStep, PTL DEF Spec

\* The loop's variables keep their types.
THEOREM TypeCorrect == Spec => []TypeOK
<1>1. LoopInv => TypeOK
  BY DEF LoopInv
<1> QED
  BY <1>1, LoopInvariance, PTL

\* draining: no pass is rolled back by a shutdown before its grace has expired.
THEOREM GraceIsGiven == Spec => []CutOnlyAfterGrace
<1>1. LoopInv => CutOnlyAfterGrace
  BY DEF LoopInv
<1> QED
  BY <1>1, LoopInvariance, PTL

\* stopping: a relay that reports a clean stop has cut no pass short.
THEOREM CleanStopIsClean == Spec => []CleanMeansNothingCut
<1>1. LoopInv => CleanMeansNothingCut
  BY DEF LoopInv
<1> QED
  BY <1>1, LoopInvariance, PTL

\* nextWait: every wait is between RELAY_IDLE_MIN and RELAY_IDLE_MAX, if only the
\* latter is positive.
THEOREM WaitsAreBounded == ASSUME IdleMax > 0 PROVE Spec => []WaitsInBounds
<1>1. LoopInv => WaitsInBounds
  BY DEF LoopInv, PositiveIdleMax
<1> QED
  BY <1>1, LoopInvariance, PTL

\* wait: no failure of the wakeup, of a pass or of both in any order turns the
\* loop into a spin, if only RELAY_IDLE_MAX is positive.
THEOREM NeverSpins == ASSUME IdleMax > 0 PROVE Spec => NoSpin
<1>1. LoopInv /\ [Next]_vars => [at # "passing" /\ at' = "passing" => slept \/ Full]_vars
  <2> SUFFICES ASSUME LoopInv, Next, at # "passing", at' = "passing" PROVE slept \/ Full
    OBVIOUS
  <2>1. at = "top"
    BY DEF Next, LoopStep, PassEnds, StopAtTop, StopAfterFailure, Stop, StartPass, WaitAfterFailure, Wait,
           Report, Listen, ListenFails, DropConn, Degrade, Notified, TimesOut, CutShort, Wake, PassDone,
           PassBroken, PassFails, Arrive, BackoffEnds, SigTerm, GraceExpires, ConnLost, loopVars, vars
  <2> QED
    BY <2>1 DEF LoopInv, PositiveIdleMax, TopIsEntitled
<1> QED
  BY <1>1, LoopInvariance, PTL DEF Spec, NoSpin

=============================================================================
