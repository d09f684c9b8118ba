------------------------------ MODULE OutboxClock ------------------------------
(***************************************************************************)
(* The relay and its table in time: what OutboxRelay leaves open by letting*)
(* a row become due at any moment.  available_at is written from the       *)
(* relay's clock and compared with the database's; a row that keeps        *)
(* failing comes back after a backoff and, with the lowest id, is first in *)
(* line; passes follow each other at the waits of the relay loop.          *)
(*                                                                         *)
(* A value of time is what is left of it, so nothing grows without bound.  *)
(* One relay is active.  A transient failure is its pass's last act, so    *)
(* the mark it stages and the commit are one step; a crash just before is  *)
(* a crash of the pass.                                                    *)
(***************************************************************************)
EXTENDS Naturals, FiniteSets

CONSTANTS
    MaxRows, BatchSize,
    AggregateOf,        \* the aggregate_id of each row
    Stuck,              \* rows whose produce fails transiently every time
    Poison,             \* rows whose produce fails permanently
    Base, Cap,          \* the schedule: RELAY_BACKOFF_BASE, RELAY_BACKOFF_CAP
    IdleMin, IdleMax,   \* the loop's waits
    PassTime,           \* the longest a pass takes: a produce request's timeout
    Skew,               \* the relay's clock and the database's differ by this at most
    MaxAttempts,        \* RELAY_MAX_ATTEMPTS, the alert threshold
    AttemptLimit,       \* bound: attempts are counted up to here
    MaxTroubles         \* bound: crashes, and outages met by a row that is not stuck

Ids == 1 .. MaxRows

ASSUME RowsAssumption  == MaxRows \in Nat /\ BatchSize \in Nat \ {0} /\ MaxTroubles \in Nat
ASSUME WaitsAssumption == IdleMin \in Nat \ {0} /\ IdleMax \in Nat /\ IdleMin <= IdleMax
ASSUME TimeAssumption  == /\ PassTime \in Nat /\ Skew \in Nat
                          /\ Base \in Nat \ {0} /\ Cap \in Nat /\ Base <= Cap
\* Counting further would change neither the schedule nor the alert.
ASSUME LimitAssumption == /\ MaxAttempts \in Nat \ {0} /\ AttemptLimit \in Nat
                          /\ MaxAttempts <= AttemptLimit /\ Base * 2^AttemptLimit >= Cap

VARIABLES
    status, attempts,   \* the columns
    wait,               \* available_at, as the time left on the database's clock
    delivered,          \* the rows whose record the broker has
    at,                 \* "sleeping", "working", "reporting" or "down"
    sleep,              \* what is left of the loop's wait
    spent,              \* how long the pass has run
    todo,               \* the rows of the batch not handled yet
    claimed,            \* how many the pass claimed
    marks,              \* rows the open transaction has marked
    broke,              \* the pass ended at a transient failure
    stats,              \* the outbox statistics last read
    troubles

tableVars == <<status, attempts, wait>>
passVars  == <<todo, claimed, marks, broke>>
vars == <<tableVars, delivered, at, sleep, spent, passVars, stats, troubles>>

Smaller(a, b) == IF a <= b THEN a ELSE b
Less(a, b)    == IF a >= b THEN a - b ELSE 0

NoMarks == [i \in Ids |-> "none"]

Init ==
    /\ status = [i \in Ids |-> "absent"]
    /\ attempts = [i \in Ids |-> 0]
    /\ wait = [i \in Ids |-> 0]
    /\ delivered = {}
    /\ at = "sleeping" /\ sleep = 0 /\ spent = 0
    /\ todo = {} /\ claimed = 0 /\ marks = NoMarks /\ broke = FALSE
    /\ stats = [failed |-> 0, stuck |-> 0]
    /\ troubles = 0

Trouble == troubles < MaxTroubles /\ troubles' = troubles + 1

-----------------------------------------------------------------------------
(* Time and the producers.                                                 *)

\* A unit of time passes, unless something is due before: a wait that is over, or
\* a produce whose timeout has come.
Tick ==
    /\ at = "sleeping" => sleep > 0
    /\ at = "working" => spent < PassTime
    /\ at # "reporting"
    /\ wait' = [i \in Ids |-> Less(wait[i], 1)]
    /\ sleep' = Less(sleep, 1)
    /\ spent' = IF at = "working" THEN spent + 1 ELSE spent
    /\ UNCHANGED <<status, attempts, delivered, at, passVars, stats, troubles>>

\* A row appears, due at once, after the older rows of its aggregate; its
\* notification, unless it is lost, ends the loop's wait.
Appear(i, notified) ==
    /\ status[i] = "absent"
    /\ \A j \in Ids : j < i /\ AggregateOf[j] = AggregateOf[i] => status[j] # "absent"
    /\ status' = [status EXCEPT ![i] = "pending"]
    /\ sleep' = IF notified THEN 0 ELSE sleep
    /\ UNCHANGED <<attempts, wait, delivered, at, spent, passVars, stats, troubles>>

-----------------------------------------------------------------------------
(* One pass.                                                               *)

Due == {i \in Ids : status[i] = "pending" /\ wait[i] = 0}

\* Mutant: the rows that waited longest, whatever their id.
Batch_AnyOrder == IF Cardinality(Due) <= BatchSize THEN {Due}
                  ELSE {S \in SUBSET Due : Cardinality(S) = BatchSize}

\* The oldest rows that are due, BatchSize of them at most.
Batch == IF Cardinality(Due) <= BatchSize THEN {Due}
         ELSE {S \in SUBSET Due : /\ Cardinality(S) = BatchSize
                                  /\ \A i \in S, j \in Due \ S : i < j}

StartPass ==
    /\ at = "sleeping" /\ sleep = 0
    /\ at' = "working" /\ spent' = 0
    /\ \E S \in Batch : todo' = S /\ claimed' = Cardinality(S)
    /\ marks' = NoMarks /\ broke' = FALSE
    /\ UNCHANGED <<tableVars, delivered, sleep, stats, troubles>>

IsNext(i) == at = "working" /\ i \in todo /\ \A j \in todo : i <= j

\* The marks of the pass reach the table.
Commit ==
    /\ status' = [i \in Ids |-> IF marks[i] = "none" THEN status[i] ELSE marks[i]]
    /\ at' = "reporting" /\ todo' = {} /\ marks' = NoMarks

Handled(i, mark) ==
    /\ marks' = [marks EXCEPT ![i] = mark]
    /\ todo' = todo \ {i}
    /\ UNCHANGED <<tableVars, at, sleep, spent, claimed, broke, stats, troubles>>

Publish(i) ==
    /\ IsNext(i) /\ i \notin Stuck \cup Poison
    /\ delivered' = delivered \cup {i}
    /\ Handled(i, "published")

Park(i) == IsNext(i) /\ i \in Poison /\ Handled(i, "failed") /\ UNCHANGED delivered

\* The schedule before jitter, and the numbers of time units its jittered value
\* may be: half of it or more, and less than one and a half.
Delay(n)    == Smaller(Base * 2^n, Cap)
Jittered(n) == {d \in 0 .. 2 * Cap : 2 * d >= Delay(n) /\ 2 * d < 3 * Delay(n)}

\* The relay's clock is off by Skew at most, either way: what is left of the
\* backoff on the database's clock.
Remaining(d) == {Less(d, Skew), d, d + Skew}

\* Mutant: every backoff is the first.
Backoffs_NoLadder(n) == UNION {Remaining(d) : d \in Jittered(0)}

Backoffs(n) == UNION {Remaining(d) : d \in Jittered(n)}

\* Mutant: a row past the threshold is parked.
Break_GivesUp(i) ==
    /\ IsNext(i)
    /\ i \in Stuck /\ UNCHANGED troubles
    /\ IF attempts[i] + 1 >= MaxAttempts
       THEN /\ status' = [status EXCEPT ![i] = "failed"]
            /\ UNCHANGED <<attempts, wait>>
       ELSE /\ attempts' = [attempts EXCEPT ![i] = Smaller(@ + 1, AttemptLimit)]
            /\ \E d \in Backoffs(attempts[i]) : wait' = [wait EXCEPT ![i] = d]
            /\ UNCHANGED status
    /\ at' = "reporting" /\ todo' = {} /\ marks' = NoMarks
    /\ broke' = TRUE
    /\ UNCHANGED <<delivered, sleep, spent, claimed, stats>>

\* A transient failure: Reschedule, and the batch is over.
Break(i) ==
    /\ IsNext(i)
    /\ \/ i \in Stuck /\ UNCHANGED troubles
       \/ i \notin Stuck \cup Poison /\ Trouble
    /\ attempts' = [attempts EXCEPT ![i] = Smaller(@ + 1, AttemptLimit)]
    /\ \E d \in Backoffs(attempts[i]) : wait' = [wait EXCEPT ![i] = d]
    /\ Commit
    /\ broke' = TRUE
    /\ UNCHANGED <<delivered, sleep, spent, claimed, stats>>

\* Every row of the batch has been handled.
Finish ==
    /\ at = "working" /\ todo = {}
    /\ Commit
    /\ UNCHANGED <<attempts, wait, delivered, sleep, spent, claimed, broke, stats, troubles>>

-----------------------------------------------------------------------------
(* After the pass.                                                         *)

StuckRows  == {i \in Ids : status[i] = "pending" /\ attempts[i] >= MaxAttempts}
FailedRows == {i \in Ids : status[i] = "failed"}

\* nextWait: none after a full batch, the long one after a transient failure, the
\* short one after other work, and anything up to the long one after an idle pass.
Waits == CASE claimed >= BatchSize -> {0}
           [] claimed < BatchSize /\ broke -> {IdleMax}
           [] claimed < BatchSize /\ ~broke /\ claimed > 0 -> {IdleMin}
           [] OTHER -> IdleMin .. IdleMax

\* The statistics are read after the commit.  (A read that fails is RelayLoop's.)
Report ==
    /\ at = "reporting"
    /\ stats' = [failed |-> Cardinality(FailedRows), stuck |-> Cardinality(StuckRows)]
    /\ at' = "sleeping"
    /\ sleep' \in Waits
    /\ spent' = 0 /\ claimed' = 0 /\ broke' = FALSE
    /\ UNCHANGED <<tableVars, delivered, todo, marks, troubles>>

\* The process dies with its transaction; what it produced stays produced.
Crash ==
    /\ Trouble
    /\ at # "down"
    /\ at' = "down" /\ sleep' = 0 /\ spent' = 0
    /\ todo' = {} /\ claimed' = 0 /\ marks' = NoMarks /\ broke' = FALSE
    /\ UNCHANGED <<tableVars, delivered, stats>>

Restart ==
    /\ at = "down" /\ at' = "sleeping"
    /\ UNCHANGED <<tableVars, delivered, sleep, spent, passVars, stats, troubles>>

-----------------------------------------------------------------------------

RelayStep ==
    \/ StartPass \/ Finish \/ Report \/ Restart
    \/ \E i \in Ids : Publish(i) \/ Park(i) \/ (i \in Stuck /\ Break(i))

Next ==
    \/ Tick \/ RelayStep \/ Crash
    \/ \E i \in Ids : Break(i)
    \/ \E i \in Ids, notified \in BOOLEAN : Appear(i, notified)

\* Time passes and the relay runs; nothing is assumed of producers and failures.
Spec == Init /\ [][Next]_vars /\ WF_vars(Tick) /\ WF_vars(RelayStep)

-----------------------------------------------------------------------------
(* Properties.                                                             *)

\* claimPending: id is the ordering authority.  With one active relay an event
\* overtakes an older one of its aggregate only when that one has failed before,
\* whatever the clocks, the crashes and the failures of other rows.
OvertakenOnlyAfterFailure ==
    \A i, j \in Ids :
        /\ i < j /\ AggregateOf[i] = AggregateOf[j]
        /\ j \in delivered /\ i \notin delivered /\ status[i] = "pending"
        => attempts[i] > 0 \/ i \in Poison

\* The stuck rows take a pass each, with the long wait after it, and must all be
\* behind their backoffs at once for a younger row to be reached.
StuckTurn    == Cardinality(Stuck) * IdleMax + Less(Cardinality(Stuck), 1) * PassTime
LeavesRoom   == StuckTurn + Skew < Cap \div 2

\* Breaking the batch at a transient failure does not starve the rows behind one
\* that always fails: every other row is published, or parked if it is poison,
\* provided the cap outlasts the stuck rows' turns and the clocks' difference.
OthersGetThrough ==
    LeavesRoom =>
        \A i \in Ids \ Stuck : status[i] = "pending" ~> status[i] \in {"published", "failed"}

\* "attempts" decides nothing, so a row that never gets through must be seen: the
\* pass line counts it as stuck in the end, and goes on counting it.
StuckIsReported ==
    \A i \in Stuck : status[i] = "pending" ~> [](stats.stuck > 0 /\ status[i] = "pending")

=============================================================================
