------------------------------- MODULE RelayLoop -------------------------------
(***************************************************************************)
(* One relay process around its passes: worker.Relay.Run with its two      *)
(* contexts, the drain grace, the choice and the carrying out of the next  *)
(* wait, and the LISTEN connection that may cut a wait short.              *)
(*                                                                         *)
(* A pass is abstracted to what the loop sees of it, PublishResult: how    *)
(* many rows it claimed, whether one failed transiently, whether it rolled *)
(* back.  OutboxRelay models what happens inside.  Durations are numbers   *)
(* before jitter; when a timer fires relative to everything else is open.  *)
(***************************************************************************)
EXTENDS Naturals

CONSTANTS
    IdleMin, IdleMax,   \* RELAY_IDLE_MIN, RELAY_IDLE_MAX
    BatchSize,          \* RELAY_BATCH_SIZE
    UseNotify,          \* RELAY_USE_NOTIFY: is there a Waiter
    MaxArrivals,        \* bound: rows the api commits
    MaxFailures         \* bound: failed passes, transient failures, lost connections

\* What LoadRelay lets through: it compares the two only when both are positive,
\* and asks that of RELAY_IDLE_MIN alone.  A negative RELAY_IDLE_MAX acts like 0.
ASSUME IdleAssumption   == /\ IdleMin \in Nat \ {0} /\ IdleMax \in Nat
                           /\ IdleMax > 0 => IdleMin <= IdleMax
ASSUME LoopAssumption   == BatchSize \in Nat \ {0} /\ UseNotify \in BOOLEAN
ASSUME LoopBounds       == MaxArrivals \in Nat /\ MaxFailures \in Nat

VARIABLES
    at,         \* where Run is
    ctx,        \* the signal context: stop taking new work
    pass,       \* the pass context: abandon the work in hand
    grace,      \* the drain-grace timer
    idle,       \* Relay.idle
    sleep,      \* the wait in progress
    last,       \* the last pass's result
    conn,       \* Listener.conn; "broken" while the listener does not know
    notes,      \* notifications buffered on it
    due, delayed,   \* pending rows: to be claimed, behind a backoff
    report,     \* what stopping said
    \* history and bounds
    cut,        \* a pass was rolled back because its context ended
    slept,      \* the loop has blocked since its last pass
    arrivals, failures

loopVars  == <<at, idle, sleep, last, report, cut, slept>>
stopVars  == <<ctx, pass, grace>>
wakeVars  == <<conn, notes>>
tableVars == <<due, delayed, arrivals>>
vars == <<loopVars, stopVars, wakeVars, tableVars, failures>>

Smaller(a, b) == IF a <= b THEN a ELSE b

NoResult == [claimed |-> 0, transient |-> FALSE]

Init ==
    /\ at = "top" /\ idle = IdleMin /\ sleep = 0 /\ last = NoResult
    /\ report = "none" /\ cut = FALSE /\ slept = TRUE
    /\ ctx = "live" /\ pass = "live" /\ grace = "unset"
    /\ conn = "none" /\ notes = 0
    /\ due = 0 /\ delayed = 0 /\ arrivals = 0
    /\ failures = 0

Failure == failures < MaxFailures /\ failures' = failures + 1

-----------------------------------------------------------------------------
(* The surroundings.                                                       *)

\* The api commits a row and, after the commit, notifies: best effort, and
\* lost unless somebody listens.
Arrive(notified) ==
    /\ arrivals < MaxArrivals
    /\ arrivals' = arrivals + 1
    /\ due' = due + 1
    /\ notes' = IF notified /\ conn = "listening" THEN notes + 1 ELSE notes
    /\ UNCHANGED <<loopVars, stopVars, conn, delayed, failures>>

BackoffEnds ==
    /\ delayed > 0
    /\ delayed' = delayed - 1 /\ due' = due + 1
    /\ UNCHANGED <<loopVars, stopVars, wakeVars, arrivals, failures>>

\* Mutants of SigTerm: the pass context inherits the signal; no grace timer.
SigTerm_CancelsPass ==
    /\ ctx = "live" /\ ctx' = "cancelled"
    /\ pass' = "cancelled"
    /\ UNCHANGED <<loopVars, grace, wakeVars, tableVars, failures>>
SigTerm_NoGrace ==
    /\ ctx = "live" /\ ctx' = "cancelled"
    /\ UNCHANGED <<loopVars, pass, grace, wakeVars, tableVars, failures>>

\* SIGTERM, or another member of the errgroup failing: draining's AfterFunc
\* starts the grace and leaves the pass alone.
SigTerm ==
    /\ ctx = "live"
    /\ ctx' = "cancelled"
    /\ grace' = "running"
    /\ UNCHANGED <<loopVars, pass, wakeVars, tableVars, failures>>

GraceExpires ==
    /\ grace = "running" /\ at # "stopped"
    /\ grace' = "expired"
    /\ pass' = "cancelled"
    /\ UNCHANGED <<loopVars, ctx, wakeVars, tableVars, failures>>

ConnLost ==
    /\ Failure
    /\ conn = "listening"
    /\ conn' = "broken" /\ notes' = 0
    /\ UNCHANGED <<loopVars, stopVars, tableVars>>

-----------------------------------------------------------------------------
(* Run.                                                                    *)

\* Mutant: the report does not look at the pass context.
Stop_AlwaysClean ==
    /\ at' = "stopped" /\ report' = "clean"
    /\ pass' = "cancelled"
    /\ grace' = IF grace = "running" THEN "stopped" ELSE grace
    /\ UNCHANGED <<idle, sleep, last, cut, slept, ctx, wakeVars, tableVars, failures>>

\* stopping, then Run's deferred abandon: the grace timer is dropped.
Stop ==
    /\ at' = "stopped"
    /\ report' = IF pass = "cancelled" THEN "expired" ELSE "clean"
    /\ pass' = "cancelled"
    /\ grace' = IF grace = "running" THEN "stopped" ELSE grace
    /\ UNCHANGED <<idle, sleep, last, cut, slept, ctx, wakeVars, tableVars, failures>>

StopAtTop == at = "top" /\ ctx = "cancelled" /\ Stop

StartPass ==
    /\ at = "top" /\ ctx = "live"
    /\ at' = "passing"
    /\ slept' = FALSE
    /\ UNCHANGED <<idle, sleep, last, report, cut, stopVars, wakeVars, tableVars, failures>>

\* The pass commits: everything it claimed is decided.
PassDone ==
    /\ at = "passing" /\ pass = "live"
    /\ at' = "reporting"
    /\ last' = [claimed |-> Smaller(due, BatchSize), transient |-> FALSE]
    /\ due' = due - Smaller(due, BatchSize)
    /\ UNCHANGED <<idle, sleep, report, cut, slept, stopVars, wakeVars, delayed, arrivals, failures>>

\* The pass commits after a transient failure: the rows before it are decided,
\* the failing one waits for its backoff, the rest are still due.
PassBroken(decided) ==
    /\ Failure
    /\ at = "passing" /\ pass = "live" /\ decided < Smaller(due, BatchSize)
    /\ at' = "reporting"
    /\ last' = [claimed |-> Smaller(due, BatchSize), transient |-> TRUE]
    /\ due' = due - decided - 1 /\ delayed' = delayed + 1
    /\ UNCHANGED <<idle, sleep, report, cut, slept, stopVars, wakeVars, arrivals>>

\* The pass returns an error: the database failed it, or its context ended.  It
\* has rolled back, unless the answer to its commit is what was lost.
PassFails ==
    /\ at = "passing"
    /\ \/ pass = "live" /\ Failure
       \/ pass = "cancelled" /\ UNCHANGED failures
    /\ at' = "failed"
    /\ cut' = (cut \/ pass = "cancelled")
    /\ last' = NoResult
    /\ due' \in {due, due - Smaller(due, BatchSize)}
    /\ UNCHANGED <<idle, sleep, report, slept, stopVars, wakeVars, delayed, arrivals>>

Wait(d) ==
    /\ sleep' = d
    /\ at' = CASE d = 0 -> "top" [] d > 0 /\ UseNotify -> "waiting" [] OTHER -> "sleeping"

\* After a failed pass: stop if asked to, else the long wait.
StopAfterFailure == at = "failed" /\ ctx = "cancelled" /\ Stop

WaitAfterFailure ==
    /\ at = "failed" /\ ctx = "live"
    /\ Wait(IdleMax)
    /\ UNCHANGED <<idle, last, report, cut, slept, stopVars, wakeVars, tableVars, failures>>

\* nextWait: the next sleep and the new idle backoff, from the pass's result.
Full == last.claimed >= BatchSize
NextSleep == CASE Full -> 0
               [] ~Full /\ last.transient -> IdleMax
               [] ~Full /\ ~last.transient /\ last.claimed > 0 -> IdleMin
               [] OTHER -> idle
\* Mutant: the doubling has no cap.
NextIdle_Uncapped ==
    IF Full \/ last.transient \/ last.claimed > 0 THEN IdleMin ELSE 2 * idle
NextIdle == IF Full \/ last.transient \/ last.claimed > 0
            THEN IdleMin ELSE Smaller(2 * idle, IdleMax)

\* A query on the listening connection: all the loop keeps of it is that a lost
\* connection is now known to be closed.
Usage == conn' = IF conn = "broken" THEN "none" ELSE conn

\* observe and logPass read the stats and the notify queue usage, both under the
\* pass context and whatever becomes of them.  Then the loop waits.
Report ==
    /\ at = "reporting"
    /\ Usage
    /\ idle' = NextIdle
    /\ Wait(NextSleep)
    /\ UNCHANGED <<last, report, cut, slept, stopVars, notes, tableVars, failures>>

-----------------------------------------------------------------------------
(* wait and Listener.Wait.                                                 *)

Wake(newIdle) ==
    /\ at' = "top" /\ slept' = TRUE /\ idle' = newIdle
    /\ UNCHANGED <<sleep, last, report, cut, stopVars, tableVars, failures>>

\* listen: connect and subscribe when there is no live connection.
Listen ==
    /\ at = "waiting" /\ conn = "none" /\ ctx = "live"
    /\ conn' = "listening" /\ notes' = 0
    /\ UNCHANGED <<loopVars, stopVars, tableVars, failures>>

\* Mutant: a failed wakeup returns to the loop at once.
Degrade_NoSleep ==
    /\ at' = "top"
    /\ UNCHANGED <<idle, sleep, last, report, cut, slept, stopVars, tableVars>>

\* The wakeup is not to be had: fall through to the plain sleep.
Degrade ==
    /\ at' = "sleeping"
    /\ UNCHANGED <<idle, sleep, last, report, cut, slept, stopVars, tableVars>>

ListenFails ==
    /\ at = "waiting" /\ conn = "none"
    /\ \/ ctx = "live" /\ Failure
       \/ ctx = "cancelled" /\ UNCHANGED failures
    /\ Degrade
    /\ UNCHANGED wakeVars

\* WaitForNotification fails on a connection that is gone: drop it.
DropConn ==
    /\ at = "waiting" /\ conn = "broken" /\ ctx = "live"
    /\ conn' = "none"
    /\ Degrade
    /\ UNCHANGED <<notes, failures>>

Notified ==
    /\ at = "waiting" /\ conn = "listening" /\ notes > 0
    /\ notes' = notes - 1
    /\ Wake(IdleMin)
    /\ UNCHANGED conn

\* The timeout, or the end of ctx, ends a wait on the connection or a sleep.
Blocked == at \in {"waiting", "sleeping"} /\ (at = "waiting" => conn # "none")

\* Mutant: the wait on the connection has no timeout.
TimesOut_NoDeadline == at = "sleeping" /\ Wake(idle) /\ UNCHANGED wakeVars

TimesOut ==
    /\ Blocked /\ (at = "waiting" => conn = "listening")
    /\ Wake(idle)
    /\ UNCHANGED wakeVars

CutShort == Blocked /\ ctx = "cancelled" /\ Wake(idle) /\ UNCHANGED wakeVars

-----------------------------------------------------------------------------
(* The process.                                                            *)

\* Steps of Run's own goroutine that wait for nothing outside it.
LoopStep ==
    \/ StopAtTop \/ StartPass \/ StopAfterFailure \/ WaitAfterFailure
    \/ Listen \/ ListenFails \/ DropConn \/ Notified \/ CutShort

PassEnds == PassDone \/ PassFails \/ \E decided \in 0 .. BatchSize - 1 : PassBroken(decided)

Next ==
    \/ LoopStep \/ TimesOut \/ PassEnds \/ Report
    \/ \E notified \in BOOLEAN : Arrive(notified)
    \/ BackoffEnds \/ SigTerm \/ GraceExpires \/ ConnLost
    \/ at = "stopped" /\ UNCHANGED vars

Spec == Init /\ [][Next]_vars

\* For stopping nothing is assumed of the database or the broker: only timers
\* fire, the goroutine runs, and a call whose context has ended returns.
GivesUp == pass = "cancelled" /\ (PassEnds \/ Report)
StopFairness == WF_vars(LoopStep) /\ WF_vars(GraceExpires) /\ WF_vars(GivesUp)

\* For draining, passes and the reads after them come back as well, a sleep
\* ends, and a backoff ends.
DrainFairness ==
    WF_vars(PassEnds) /\ WF_vars(Report) /\ WF_vars(TimesOut) /\ WF_vars(BackoffEnds)

StopSpec == Spec /\ StopFairness

-----------------------------------------------------------------------------
(* Properties.                                                             *)

\* The loop's variables have their types.
TypeOK ==
    /\ at \in {"top", "passing", "failed", "reporting", "waiting", "sleeping", "stopped"}
    /\ ctx \in {"live", "cancelled"} /\ pass \in {"live", "cancelled"}
    /\ grace \in {"unset", "running", "expired", "stopped"}
    /\ idle \in Nat /\ sleep \in Nat
    /\ last \in [claimed : 0 .. BatchSize, transient : BOOLEAN]
    /\ conn \in {"none", "listening", "broken"} /\ notes \in Nat
    /\ due \in Nat /\ delayed \in Nat /\ arrivals \in 0 .. MaxArrivals
    /\ report \in {"none", "clean", "expired"}
    /\ cut \in BOOLEAN /\ slept \in BOOLEAN
    /\ failures \in 0 .. MaxFailures

\* draining: a pass in flight when the signal arrives is left alone until the
\* grace has run out; shutdown never rolls one back before that.
CutOnlyAfterGrace == cut => grace = "expired"

\* stopping: a relay that says it stopped cleanly has left no pass rolled back
\* behind it.  The operator reads this line to know whether to expect duplicates.
CleanMeansNothingCut == report = "clean" => ~cut

\* wait: "keeps a broken listener from turning the pass loop into a spin against
\* the database".  Two passes in a row have a wait between them that ended by a
\* timer, a notification or a stop, unless the first pass filled its batch.  It
\* takes a positive RELAY_IDLE_MAX.
NoSpin == [][at # "passing" /\ at' = "passing" => slept \/ Full]_vars

\* nextWait: every wait is positive and within IdleMax whatever the ladder of
\* idle passes, wakeups and failures before it, and work without failure keeps
\* the loop at its most responsive.
WaitsInBounds ==
    at \in {"waiting", "sleeping"} =>
        /\ sleep \in IdleMin .. IdleMax
        /\ last.claimed > 0 /\ ~last.transient => sleep = IdleMin

\* What the three properties above need to be inductive: the ladder's range, that
\* only the grace ends the pass context of a running loop and that it stays ended,
\* and what the loop knows when it is back at the top.
PositiveIdleMax == IdleMax > 0
LadderInRange   == idle \in IdleMin .. IdleMax
SignalFirst     == ctx = "live" => pass = "live" /\ grace = "unset"
EndedByGrace    == pass = "cancelled" /\ at # "stopped" => grace = "expired"
CutStaysEnded   == cut => pass = "cancelled"
ReportIsLast    == report # "none" => at = "stopped"
FailedIsEmpty   == at = "failed" => last = NoResult
TopIsEntitled   == at = "top" => slept \/ Full

LoopInv ==
    /\ TypeOK
    /\ SignalFirst /\ EndedByGrace /\ CutStaysEnded /\ ReportIsLast
    /\ CutOnlyAfterGrace /\ CleanMeansNothingCut /\ FailedIsEmpty
    /\ PositiveIdleMax => LadderInRange /\ TopIsEntitled /\ WaitsInBounds

\* Run: asked to stop, it stops, wherever it was: in a pass the broker or the
\* database never answers, in a wait, or behind a connection that never comes.
StopsWhenAsked == ctx = "cancelled" ~> at = "stopped"

\* wait: the poll loop is the source of truth.  Whatever notifications are lost,
\* a due row is worked off unless the relay is asked to stop, provided the
\* database and the broker answer.
BacklogDrained == DrainFairness => (due > 0 ~> (due = 0 \/ ctx = "cancelled"))

\* nextWait's comment: "a pass that published four rows and then hit a broker
\* error should back off, not speed up".
TransientBacksOff == [][at # "passing" /\ at' = "passing" /\ last.transient => slept]_vars

=============================================================================
