---------------------------- MODULE OutboxClock_proofs ----------------------------
(***************************************************************************)
(* Proofs about the outbox in time, for any rows and aggregates, any       *)
(* schedule, clocks, waits and batch, any rows that never get through, and *)
(* any crashes and outages.                                                *)
(***************************************************************************)
EXTENDS OutboxClock, FiniteSetTheorems, TLAPS

\* Every variable has its type.
TypeOK ==
    /\ status \in [Ids -> {"absent", "pending", "published", "failed"}]
    /\ attempts \in [Ids -> 0 .. AttemptLimit] /\ wait \in [Ids -> Nat]
    /\ delivered \in SUBSET Ids
    /\ at \in {"sleeping", "working", "reporting", "down"}
    /\ sleep \in Nat /\ spent \in 0 .. PassTime
    /\ todo \in SUBSET Ids /\ claimed \in Nat
    /\ marks \in [Ids -> {"none", "published", "failed"}] /\ broke \in BOOLEAN
    /\ stats \in [failed : Nat, stuck : Nat] /\ troubles \in 0 .. MaxTroubles

\* i is older than j in the same aggregate.
Before(i, j) == i < j /\ AggregateOf[i] = AggregateOf[j]

\* i is a row that nothing has gone wrong with and that has not been produced.
Fresh(i) ==
    /\ status[i] = "pending" /\ i \notin delivered
    /\ attempts[i] = 0 /\ i \notin Poison

\* What a pass relies on.  A row that has not failed is due at once, so that a
\* batch holding a row of an aggregate holds the fresh rows before it, and holds
\* them until they are handled; rows of an aggregate appear in their order.
QueueInv ==
    /\ \A i \in Ids : attempts[i] = 0 => wait[i] = 0
    /\ \A j \in delivered : status[j] # "absent"
    /\ \A j \in Ids : j \in todo \/ marks[j] # "none" => status[j] = "pending"
    /\ \A i, j \in Ids : Before(i, j) /\ status[i] = "absent" => status[j] = "absent"
    /\ \A i \in Ids, j \in todo : Before(i, j) /\ Fresh(i) => i \in todo

\* Nothing delivered has a fresh row before it.
InTurn == \A i \in Ids, j \in delivered : Before(i, j) => ~Fresh(i)

Inv == TypeOK /\ QueueInv /\ InTurn

LEMMA IdsFinite ==
    ASSUME NEW S \in SUBSET Ids
    PROVE  IsFiniteSet(S) /\ Cardinality(S) \in Nat
<1>1. IsFiniteSet(Ids)
  BY RowsAssumption, FS_Interval DEF Ids
<1> QED
  BY <1>1, FS_Subset, FS_CardinalityType

LEMMA Limits == MaxAttempts \in Nat \ {0} /\ AttemptLimit \in Nat \ {0}
<1>1. MaxAttempts \in Nat \ {0} /\ AttemptLimit \in Nat /\ MaxAttempts <= AttemptLimit
  BY LimitAssumption
<1> QED
  BY <1>1

\* What a backoff leaves to wait is a number of time units, on either clock.
LEMMA BackoffsAreTimes ==
    ASSUME NEW n
    PROVE  Backoffs(n) \subseteq Nat
<1>1. ASSUME NEW d \in Jittered(n)
      PROVE  Remaining(d) \subseteq Nat
  <2>1. d \in Nat /\ Skew \in Nat
    BY TimeAssumption DEF Jittered
  <2> QED
    BY <2>1 DEF Remaining, Less
<1> QED
  BY <1>1 DEF Backoffs

LEMMA InitInv == Init => Inv
<1> SUFFICES ASSUME Init
             PROVE  Inv
  OBVIOUS
<1>1. 0 \in 0 .. AttemptLimit /\ 0 \in 0 .. PassTime /\ 0 \in 0 .. MaxTroubles
  BY Limits, TimeAssumption, RowsAssumption
<1>2. /\ status \in [Ids -> {"absent", "pending", "published", "failed"}]
      /\ attempts \in [Ids -> 0 .. AttemptLimit] /\ wait \in [Ids -> Nat]
      /\ marks \in [Ids -> {"none", "published", "failed"}]
      /\ stats \in [failed : Nat, stuck : Nat]
  BY <1>1 DEF Init, NoMarks
<1>3. TypeOK
  BY <1>1, <1>2 DEF Init, TypeOK
<1>4. QueueInv /\ InTurn
  BY DEF Init, QueueInv, InTurn, Fresh, NoMarks
<1> QED
  BY <1>3, <1>4 DEF Inv

\* Time passes: a wait that is over stays over.
LEMMA TickStep ==
    ASSUME Inv, Tick
    PROVE  Inv'
<1>1. wait' \in [Ids -> Nat] /\ \A i \in Ids : wait[i] = 0 => wait'[i] = 0
  BY DEF Inv, TypeOK, Tick, Less
<1>2. sleep' \in Nat /\ spent' \in 0 .. PassTime
  BY TimeAssumption DEF Inv, TypeOK, Tick, Less
<1>3. TypeOK'
  BY <1>1, <1>2 DEF Inv, TypeOK, Tick, passVars
<1>4. QueueInv' /\ InTurn'
  BY <1>1 DEF Inv, TypeOK, QueueInv, InTurn, Before, Fresh, Tick, passVars
<1> QED
  BY <1>3, <1>4 DEF Inv

\* A row that appears has none of its aggregate after it, at work or delivered.
LEMMA AppearStep ==
    ASSUME Inv, NEW i \in Ids, NEW notified \in BOOLEAN, Appear(i, notified)
    PROVE  Inv'
<1>1. TypeOK'
  BY DEF Inv, TypeOK, Appear, passVars
<1>2. /\ status[i] = "absent" /\ status'[i] = "pending"
      /\ \A j \in Ids \ {i} : status'[j] = status[j]
      /\ \A j \in Ids : Before(j, i) => status[j] # "absent"
      /\ UNCHANGED <<attempts, wait, delivered, todo, marks>>
  BY DEF Inv, TypeOK, Appear, passVars, Before
<1>3. \A j \in todo \cup delivered : ~Before(i, j)
  BY <1>2 DEF Inv, TypeOK, QueueInv
<1>4. QueueInv'
  <2>1. \A j \in delivered' : status'[j] # "absent"
    BY <1>2 DEF Inv, TypeOK, QueueInv
  <2>2. \A j, k \in Ids : Before(j, k) /\ status'[j] = "absent" => status'[k] = "absent"
    BY <1>2 DEF Inv, QueueInv, Before
  <2>3. \A k \in Ids, j \in todo' : Before(k, j) /\ Fresh(k)' => k \in todo'
    BY <1>2, <1>3 DEF Inv, QueueInv, Fresh
  <2>4. /\ \A k \in Ids : attempts'[k] = 0 => wait'[k] = 0
        /\ \A j \in Ids : j \in todo' \/ marks'[j] # "none" => status'[j] = "pending"
    BY <1>2 DEF Inv, QueueInv
  <2> QED
    BY <2>1, <2>2, <2>3, <2>4 DEF QueueInv, Before
<1>5. InTurn'
  BY <1>2, <1>3 DEF Inv, InTurn, Before, Fresh
<1> QED
  BY <1>1, <1>4, <1>5 DEF Inv

\* A batch holds the oldest rows that are due, hence the fresh rows before each.
LEMMA StartStep ==
    ASSUME Inv, StartPass
    PROVE  Inv'
<1>1. PICK S \in Batch : todo' = S /\ claimed' = Cardinality(S)
  BY DEF StartPass
<1>2. S \in SUBSET Due /\ \A i \in S, j \in Due \ S : i < j
  BY <1>1 DEF Batch
<1>3. Due \in SUBSET Ids /\ S \in SUBSET Ids
  BY <1>2 DEF Due
<1>4. TypeOK'
  <2>1. claimed' \in Nat /\ 0 \in 0 .. PassTime
    BY <1>1, <1>3, IdsFinite, TimeAssumption
  <2> QED
    BY <1>1, <1>3, <2>1 DEF Inv, TypeOK, StartPass, tableVars, NoMarks
<1>5. UNCHANGED <<status, attempts, wait, delivered>> /\ marks' = NoMarks
  BY DEF StartPass, tableVars
<1>6. ASSUME NEW i \in Ids, NEW j \in S, Before(i, j), Fresh(i)
      PROVE  i \in S
  <2>1. i \in Due
    BY <1>6 DEF Inv, QueueInv, Fresh, Due
  <2>2. ~(j < i)
    BY <1>3, <1>6 DEF Before, Ids
  <2> QED
    BY <1>2, <2>1, <2>2
<1>7. QueueInv'
  BY <1>1, <1>2, <1>3, <1>5, <1>6 DEF Inv, QueueInv, Before, Fresh, Due, NoMarks
<1>8. InTurn'
  BY <1>5 DEF Inv, InTurn, Before, Fresh
<1> QED
  BY <1>4, <1>7, <1>8 DEF Inv

\* Rows are handled in the order of their ids, so the one produced has no fresh row
\* before it.
LEMMA HandleStep ==
    ASSUME Inv, NEW i \in Ids, Publish(i) \/ Park(i)
    PROVE  Inv'
<1>1. /\ i \in todo /\ (\A j \in todo : i <= j)
      /\ todo' = todo \ {i} /\ UNCHANGED <<status, attempts, wait, at, sleep, spent, claimed,
                                           broke, stats, troubles>>
      /\ \E mark \in {"published", "failed"} : marks' = [marks EXCEPT ![i] = mark]
      /\ i \in Poison \/ i \in delivered'
      /\ delivered' \in {delivered, delivered \cup {i}}
  BY DEF Publish, Park, IsNext, Handled, tableVars
<1>2. TypeOK'
  BY <1>1 DEF Inv, TypeOK
<1>3. status[i] = "pending"
  BY <1>1 DEF Inv, TypeOK, QueueInv
<1>4. QueueInv'
  BY <1>1, <1>3 DEF Inv, TypeOK, QueueInv, Before, Fresh
<1>5. ASSUME NEW k \in Ids, Before(k, i)
      PROVE  ~Fresh(k)
  BY <1>1, <1>5 DEF Inv, TypeOK, QueueInv, Before, Ids
<1>6. InTurn'
  BY <1>1, <1>5 DEF Inv, InTurn, Before, Fresh
<1> QED
  BY <1>2, <1>4, <1>6 DEF Inv

\* The marks of a pass land on rows still pending, and a row that failed is not
\* fresh any more: what is fresh after the commit was so before.
LEMMA CommitStep ==
    ASSUME Inv, Commit, delivered' = delivered,
           wait' \in [Ids -> Nat], attempts' \in [Ids -> 0 .. AttemptLimit],
           \A k \in Ids : attempts[k] > 0 => attempts'[k] > 0,
           \A k \in Ids : attempts'[k] = 0 => wait'[k] = 0
    PROVE  /\ status' \in [Ids -> {"absent", "pending", "published", "failed"}]
           /\ QueueInv' /\ InTurn'
<1>1. /\ status' \in [Ids -> {"absent", "pending", "published", "failed"}]
      /\ \A k \in Ids : /\ status'[k] = "pending" => status[k] = "pending"
                        /\ status'[k] = "absent" <=> status[k] = "absent"
  BY DEF Inv, TypeOK, QueueInv, Commit
<1>2. \A k \in Ids : Fresh(k)' => Fresh(k)
  BY <1>1 DEF Inv, TypeOK, Fresh
<1>3. QueueInv'
  BY <1>1 DEF Inv, TypeOK, QueueInv, Commit, NoMarks, Before
<1>4. InTurn'
  BY <1>2 DEF Inv, InTurn, Before
<1> QED
  BY <1>1, <1>3, <1>4

LEMMA BreakStep ==
    ASSUME Inv, NEW i \in Ids, Break(i)
    PROVE  Inv'
<1>1. PICK d \in Backoffs(attempts[i]) : wait' = [wait EXCEPT ![i] = d]
  BY DEF Break
<1>2. d \in Nat
  BY <1>1, BackoffsAreTimes
<1>3. Smaller(attempts[i] + 1, AttemptLimit) \in 1 .. AttemptLimit
  BY Limits DEF Inv, TypeOK, Smaller
<1>4. attempts' = [attempts EXCEPT ![i] = Smaller(attempts[i] + 1, AttemptLimit)]
  BY DEF Break
<1>5. /\ wait' \in [Ids -> Nat] /\ attempts' \in [Ids -> 0 .. AttemptLimit]
      /\ \A k \in Ids : attempts[k] > 0 => attempts'[k] > 0
      /\ \A k \in Ids : attempts'[k] = 0 => wait'[k] = 0
  <2>1. wait' \in [Ids -> Nat]
    BY <1>1, <1>2 DEF Inv, TypeOK
  <2>2. attempts' \in [Ids -> 0 .. AttemptLimit] /\ attempts'[i] > 0
        /\ \A k \in Ids \ {i} : attempts'[k] = attempts[k]
    BY <1>3, <1>4, Limits DEF Inv, TypeOK
  <2>3. \A k \in Ids \ {i} : wait'[k] = wait[k]
    BY <1>1 DEF Inv, TypeOK
  <2> QED
    BY <2>1, <2>2, <2>3 DEF Inv, QueueInv
<1>6. /\ status' \in [Ids -> {"absent", "pending", "published", "failed"}]
      /\ QueueInv' /\ InTurn'
  BY <1>5, CommitStep DEF Break
<1>7. troubles' \in 0 .. MaxTroubles
  BY RowsAssumption DEF Inv, TypeOK, Break, Trouble
<1>8. TypeOK'
  BY <1>5, <1>6, <1>7 DEF Inv, TypeOK, Break, Commit, NoMarks
<1> QED
  BY <1>6, <1>8 DEF Inv

LEMMA FinishStep ==
    ASSUME Inv, Finish
    PROVE  Inv'
<1>1. /\ wait' \in [Ids -> Nat] /\ attempts' \in [Ids -> 0 .. AttemptLimit]
      /\ UNCHANGED <<attempts, wait, delivered>>
  BY DEF Inv, TypeOK, Finish
<1>2. /\ status' \in [Ids -> {"absent", "pending", "published", "failed"}]
      /\ QueueInv' /\ InTurn'
  BY <1>1, CommitStep DEF Finish, Inv, QueueInv
<1>3. TypeOK'
  BY <1>1, <1>2 DEF Inv, TypeOK, Finish, Commit, NoMarks
<1> QED
  BY <1>2, <1>3 DEF Inv

\* Nothing of the queue changes but what a dead pass held.
LEMMA OtherStep ==
    ASSUME Inv, Report \/ Crash \/ Restart \/ UNCHANGED vars
    PROVE  Inv'
<1>1. /\ UNCHANGED <<status, attempts, wait, delivered>>
      /\ \/ todo' = {} /\ marks' = NoMarks
         \/ UNCHANGED <<todo, marks>>
  BY DEF Report, Crash, Restart, vars, tableVars, passVars
<1>2. QueueInv' /\ InTurn'
  BY <1>1 DEF Inv, QueueInv, InTurn, Before, Fresh, NoMarks
<1>3. CASE Report
  <2>1. Cardinality(FailedRows) \in Nat /\ Cardinality(StuckRows) \in Nat
    BY IdsFinite DEF FailedRows, StuckRows
  <2>2. stats' \in [failed : Nat, stuck : Nat]
    BY <1>3, <2>1 DEF Report
  <2>3. Waits \subseteq Nat
    BY WaitsAssumption DEF Waits
  <2>4. sleep' \in Nat /\ spent' \in 0 .. PassTime /\ claimed' \in Nat
    BY <1>3, <2>3, TimeAssumption DEF Report
  <2> QED
    BY <1>2, <1>3, <2>2, <2>4 DEF Inv, TypeOK, Report, tableVars
<1>4. CASE Crash \/ Restart \/ UNCHANGED vars
  <2>1. /\ troubles' \in 0 .. MaxTroubles /\ spent' \in 0 .. PassTime
        /\ sleep' \in Nat /\ claimed' \in Nat
    BY <1>4, TimeAssumption, RowsAssumption
    DEF Inv, TypeOK, Crash, Trouble, Restart, vars, passVars
  <2>2. marks' \in [Ids -> {"none", "published", "failed"}] /\ todo' \in SUBSET Ids
    BY <1>1 DEF Inv, TypeOK, NoMarks
  <2> QED
    BY <1>1, <1>2, <1>4, <2>1, <2>2 DEF Inv, TypeOK, Crash, Restart, vars, passVars
<1> QED
  BY <1>3, <1>4

LEMMA NextInv == Inv /\ [Next]_vars => Inv'
  BY TickStep, AppearStep, StartStep, HandleStep, BreakStep, FinishStep, OtherStep
  DEF Next, RelayStep

LEMMA Invariance == Spec => []Inv
  BY InitInv, NextInv, PTL DEF Spec

\* The variables of the outbox in time keep their types.
THEOREM TypeCorrect == Spec => []TypeOK
<1>1. Inv => TypeOK
  BY DEF Inv
<1> QED
  BY <1>1, Invariance, PTL

\* With one active relay an event is published before an older one of its aggregate
\* only if that one has failed or is refused for good: whatever the batches, clocks,
\* crashes, outages and rows that never get through.
THEOREM OrderKept == Spec => []OvertakenOnlyAfterFailure
<1>1. Inv => OvertakenOnlyAfterFailure
  BY DEF Inv, TypeOK, InTurn, Before, Fresh, OvertakenOnlyAfterFailure
<1> QED
  BY <1>1, Invariance, PTL

=============================================================================
