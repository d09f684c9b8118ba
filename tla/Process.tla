--------------------------------- MODULE Process ---------------------------------
(***************************************************************************)
(* One api or relay process from its environment to its exit code: the     *)
(* configuration, the pool, the members of the errgroup that run over it,  *)
(* the admin surface with its readiness probe, and the way down, while the *)
(* jobs of Migrations bring the schema up beside it.                       *)
(*                                                                         *)
(* What the members do is abstracted to the connections they hold: a pass  *)
(* or a purge of the relay, requests of the api, a probe of either.        *)
(* RelayLoop, Purger and WritePath model what happens inside.  An api that *)
(* is asked to stop drains its public listener first, and both drains      *)
(* share one timeout.                                                      *)
(***************************************************************************)
EXTENDS Migrations, Configuration, FiniteSets

CONSTANTS
    MaxConns,           \* maxDBConns
    StartEnvs,          \* the environments a process may be started in
    RepairValues,       \* what an operator may set a variable to
    MaxFaults           \* bound: failed pings, listeners and probes

ASSUME PoolAssumption == MaxConns \in Nat \ {0} /\ MaxFaults \in Nat
ASSUME EnvAssumption  == StartEnvs \subseteq Environments /\ RepairValues \subseteq Values

VARIABLES
    kind, release,      \* which binary
    env,                \* its environment, until the values are in use
    stage,              \* where run is
    ctx,                \* the errgroup's context: live until the first reason to stop
    live,               \* the members that have not returned
    busy,               \* the connections of the pool each sort of work holds
    drain,              \* how far the shutdown member is
    timer,              \* its timeout
    err,                \* has a member returned an error
    probed,             \* the last answer of /readyz, unready before the first
    exit,               \* the exit code
    wrong,              \* what went wrong so far, the cut drains among it
    faults

procVars == <<kind, release, env, stage, ctx, live, busy, drain, timer, err, probed, exit, wrong, faults>>
vars == <<procVars, migVars>>

Members == [relay |-> {"loop", "purger", "admin", "shutdown"},
            api   |-> {"public", "admin", "shutdown"}]
Work  == {"pass", "purge", "request", "probe"}
Owner == [pass |-> "loop", purge |-> "purger", request |-> "public", probe |-> "admin"]

InUse == busy["pass"] + busy["purge"] + busy["request"] + busy["probe"]

NoEnv == [v \in Variables |-> Unset]

Init ==
    /\ MigInit
    /\ kind \in {"relay", "api"} /\ release \in Releases
    /\ env = NoEnv /\ stage = "start" /\ ctx = "live" /\ live = {}
    /\ busy = [w \in Work |-> 0]
    /\ drain = "no" /\ timer = "unset" /\ err = FALSE /\ probed = "unready"
    /\ exit = "none" /\ wrong = {} /\ faults = 0

Fault == faults < MaxFaults /\ faults' = faults + 1

\* errgroup keeps the error and cancels the context for everyone.
Failing(what) ==
    /\ err' = TRUE
    /\ wrong' = wrong \cup {what}
    /\ ctx' = "cancelled"

-----------------------------------------------------------------------------
(* Up.                                                                     *)

\* LoadRelay or LoadAPI: a refusal is printed, and the process exits with 1.
ReadConfig ==
    /\ stage = "start"
    /\ env' \in StartEnvs
    /\ IF Load(kind, env') = {}
       THEN stage' = "connect" /\ exit' = exit
       ELSE stage' = "refused" /\ exit' = "error"
    /\ UNCHANGED <<kind, release, ctx, live, busy, drain, timer, err, probed, wrong, faults>>

\* NewPool pings; NewProducer does not connect.  All members start.
Connect ==
    /\ stage = "connect" /\ ctx = "live"
    /\ env["ACCOUNTS_DATABASE_URL"] # Garbage
    /\ stage' = "running"
    /\ live' = Members[kind]
    /\ env' = NoEnv
    /\ UNCHANGED <<kind, release, ctx, busy, drain, timer, err, probed, exit, wrong, faults>>

\* The URL does not parse, the database is away, or a signal has ended the ping.
ConnectFails ==
    /\ stage = "connect"
    /\ \/ env["ACCOUNTS_DATABASE_URL"] = Garbage /\ faults' = faults
       \/ ctx = "cancelled" /\ faults' = faults
       \/ Fault
    /\ stage' = "exited" /\ exit' = "error"
    /\ wrong' = wrong \cup {"ping"}
    /\ env' = NoEnv
    /\ UNCHANGED <<kind, release, ctx, live, busy, drain, timer, err, probed>>

-----------------------------------------------------------------------------
(* Running.                                                                *)

\* Mutant: the pool's limit is off by one.
Take_Overbooks(w) ==
    /\ stage = "running" /\ Owner[w] \in live /\ InUse <= MaxConns
    /\ w \in {"pass", "purge"} => ctx = "live"
    /\ w # "request" => busy[w] = 0
    /\ busy' = [busy EXCEPT ![w] = @ + 1]
    /\ UNCHANGED <<kind, release, env, stage, ctx, live, drain, timer, err, probed, exit, wrong, faults>>

\* A member takes a connection: the loops only while nothing asks them to stop
\* and one at a time, the listeners for as long as they accept.
Take(w) ==
    /\ stage = "running" /\ Owner[w] \in live /\ InUse < MaxConns
    /\ w \in {"pass", "purge"} => ctx = "live"
    /\ w # "request" => busy[w] = 0
    /\ busy' = [busy EXCEPT ![w] = @ + 1]
    /\ UNCHANGED <<kind, release, env, stage, ctx, live, drain, timer, err, probed, exit, wrong, faults>>

Return(w) == busy[w] > 0 /\ busy' = [busy EXCEPT ![w] = @ - 1]

\* A pass, a purge or a request ends, whatever came of it.
EndWork(w) ==
    /\ w # "probe" /\ Return(w)
    /\ UNCHANGED <<kind, release, env, stage, ctx, live, drain, timer, err, probed, exit, wrong, faults>>

\* Mutants: a version has been read, whichever it is; exactly the expected one.
Ready_AnyVersion == recorded["accounts"] # {}
Ready_Exact == Newest(recorded["accounts"]) = Latest[release]["accounts"]

\* migrations.Ready, for the accounts database of both processes.
Ready == Newest(recorded["accounts"]) >= Latest[release]["accounts"]

\* /readyz answers 200 or 503.
EndProbe ==
    /\ Return("probe")
    /\ probed' = IF Ready THEN "ready" ELSE "unready"
    /\ UNCHANGED <<kind, release, env, stage, ctx, live, drain, timer, err, exit, wrong, faults>>

\* The query fails, or takes more than readyTimeout.
ProbeFails ==
    /\ Fault
    /\ Return("probe")
    /\ probed' = "unready"
    /\ UNCHANGED <<kind, release, env, stage, ctx, live, drain, timer, err, exit, wrong>>

\* Every connection is taken until readyTimeout.
ProbeStarves ==
    /\ stage = "running" /\ "admin" \in live /\ busy["probe"] = 0 /\ InUse = MaxConns
    /\ probed' = "unready"
    /\ UNCHANGED <<kind, release, env, stage, ctx, live, busy, drain, timer, err, exit, wrong, faults>>

-----------------------------------------------------------------------------
(* Down.                                                                   *)

\* SIGINT or SIGTERM.
Signal ==
    /\ stage \in {"connect", "running"} /\ ctx = "live"
    /\ ctx' = "cancelled"
    /\ UNCHANGED <<kind, release, env, stage, live, busy, drain, timer, err, probed, exit, wrong, faults>>

\* Mutant: a listener that dies takes nobody along.
ListenerFails_Alone(l) ==
    /\ Fault
    /\ l \in {"public", "admin"} /\ l \in live
    /\ live' = live \ {l}
    /\ err' = TRUE
    /\ wrong' = wrong \cup {"listener"}
    /\ UNCHANGED <<ctx, kind, release, env, stage, busy, drain, timer, probed, exit>>

\* A listener cannot bind its address, or breaks.
ListenerFails(l) ==
    /\ Fault
    /\ l \in {"public", "admin"} /\ l \in live
    /\ live' = live \ {l}
    /\ Failing("listener")
    /\ UNCHANGED <<kind, release, env, stage, busy, drain, timer, probed, exit>>

LoopReturns(m, w) ==
    /\ m \in live /\ ctx = "cancelled" /\ busy[w] = 0
    /\ live' = live \ {m}
    /\ UNCHANGED <<kind, release, env, stage, ctx, busy, drain, timer, err, probed, exit, wrong, faults>>

\* Shutdown closes the listener, which returns at once, and then waits for its
\* requests; the timer starts with the first of them.
CloseListener(l) ==
    /\ "shutdown" \in live /\ ctx = "cancelled"
    /\ drain' = l
    /\ live' = live \ {l}
    /\ timer' = IF timer = "unset" THEN "running" ELSE timer
    /\ UNCHANGED <<kind, release, env, stage, ctx, busy, probed, exit, faults>>

\* The wait for requests of that sort is over: they are, or the timer is.
Drained(w) == busy[w] = 0
TimedOut(w) == busy[w] > 0 /\ timer = "expired"

ClosePublic ==
    /\ kind = "api" /\ drain = "no"
    /\ CloseListener("public") /\ UNCHANGED <<err, wrong>>

\* errors.Join evaluates both Shutdowns, whatever the first returned.
CloseAdmin ==
    /\ IF kind = "api"
       THEN drain = "public" /\ (Drained("request") \/ TimedOut("request"))
       ELSE drain = "no"
    /\ CloseListener("admin")
    /\ wrong' = IF TimedOut("request") THEN wrong \cup {"timeout"} ELSE wrong
    /\ UNCHANGED err

\* Mutant: a timeout of the drain is dropped.
ShutdownReturns_Silently ==
    /\ "shutdown" \in live /\ drain = "admin" /\ (Drained("probe") \/ TimedOut("probe"))
    /\ live' = live \ {"shutdown"}
    /\ wrong' = IF TimedOut("probe") THEN wrong \cup {"timeout"} ELSE wrong
    /\ UNCHANGED <<err, kind, release, env, stage, ctx, busy, drain, timer, probed, exit, faults>>

\* The shutdown member returns what the two Shutdowns said.
ShutdownReturns ==
    /\ "shutdown" \in live /\ drain = "admin" /\ (Drained("probe") \/ TimedOut("probe"))
    /\ live' = live \ {"shutdown"}
    /\ IF "timeout" \in wrong \/ TimedOut("probe")
       THEN Failing("timeout")
       ELSE UNCHANGED <<err, wrong, ctx>>
    /\ UNCHANGED <<kind, release, env, stage, busy, drain, timer, probed, exit, faults>>

TimerExpires ==
    /\ timer = "running" /\ "shutdown" \in live
    /\ timer' = "expired"
    /\ UNCHANGED <<kind, release, env, stage, ctx, live, busy, drain, err, probed, exit, wrong, faults>>

\* Mutant: run returns when the context ends.
WaitReturns_OnSignal ==
    /\ stage = "running" /\ ctx = "cancelled"
    /\ stage' = "closing"
    /\ UNCHANGED <<kind, release, env, ctx, live, busy, drain, timer, err, probed, exit, wrong, faults>>

\* g.Wait: every member has returned.  The deferred calls begin.
WaitReturns ==
    /\ stage = "running" /\ live = {}
    /\ stage' = "closing"
    /\ UNCHANGED <<kind, release, env, ctx, live, busy, drain, timer, err, probed, exit, wrong, faults>>

\* pool.Close waits, without a limit, until every connection is back.
Exit ==
    /\ stage = "closing" /\ InUse = 0
    /\ stage' = "exited"
    /\ exit' = IF err THEN "error" ELSE "ok"
    /\ UNCHANGED <<kind, release, env, ctx, live, busy, drain, timer, err, probed, wrong, faults>>

-----------------------------------------------------------------------------

StartUp == ReadConfig \/ Connect
GoDown ==
    \/ LoopReturns("loop", "pass") \/ LoopReturns("purger", "purge")
    \/ ClosePublic \/ CloseAdmin \/ ShutdownReturns \/ TimerExpires \/ WaitReturns \/ Exit
ProcNext ==
    \/ StartUp \/ ConnectFails \/ GoDown
    \/ \E w \in Work : Take(w) \/ EndWork(w)
    \/ EndProbe \/ ProbeFails \/ ProbeStarves
    \/ Signal \/ \E l \in {"public", "admin"} : ListenerFails(l)

Finished == stage \in {"exited", "refused"} /\ \A j \in Jobs : job[j] = "done"

Next ==
    \/ ProcNext /\ UNCHANGED migVars
    \/ MigNext /\ UNCHANGED procVars
    \/ Finished /\ UNCHANGED vars

\* Members run, statements come back, and the orchestrator probes again and
\* again: the pool serves those who wait in turn, so a probe gets its turn.
Spec ==
    /\ Init /\ [][Next]_vars
    /\ MigFairness
    /\ WF_procVars(StartUp) /\ WF_procVars(GoDown)
    /\ \A w \in Work : WF_procVars(EndWork(w))
    /\ SF_procVars(Take("probe")) /\ SF_procVars(EndProbe)

-----------------------------------------------------------------------------
(* Properties.                                                             *)

\* The process and the schema keep their types.
TypeOK ==
    /\ MigTypeOK
    /\ kind \in {"relay", "api"} /\ release \in Releases
    /\ env \in StartEnvs \cup {NoEnv}
    /\ stage \in {"start", "refused", "connect", "running", "closing", "exited"}
    /\ ctx \in {"live", "cancelled"} /\ live \subseteq Members[kind]
    /\ busy \in [Work -> 0 .. MaxConns] /\ InUse <= MaxConns
    /\ drain \in {"no", "public", "admin"} /\ timer \in {"unset", "running", "expired"}
    /\ err \in BOOLEAN
    /\ probed \in {"ready", "unready"} /\ exit \in {"none", "ok", "error"}
    /\ wrong \subseteq {"ping", "listener", "timeout"}
    /\ faults \in 0 .. MaxFaults

\* run's deferred calls come after g.Wait: the pool is not closed under a pass or
\* a purge, and a request that outlived the drain still ends before the process.
PoolOutlivesWork ==
    /\ stage \in {"closing", "exited"} => busy["pass"] = 0 /\ busy["purge"] = 0
    /\ stage = "exited" => InUse = 0

\* The exit code is 0 exactly after a stop in which nothing was amiss: no failed
\* start, no listener that died, no drain cut short, in whatever order.
ExitTellsTheTruth == stage = "exited" => (exit = "ok" <=> wrong = {})

\* migrations.Ready asks for one number: a process that says it is ready has every
\* migration of its release underneath, although jobs of two releases race and
\* fail beside it.
ReadyMeansMigrated ==
    probed = "ready" => 1 .. Latest[release]["accounts"] \subseteq applied["accounts"]

\* What starts satisfies the assumptions the other models make of their settings.
RunsOnUsableValues == kind = "relay" /\ stage = "connect" => Usable(env)

\* LoadRelay's collected report: setting the variables it names can make the next
\* start succeed, however many of them are wrong at once.
OneRestartIsEnough ==
    kind = "relay" /\ stage = "refused" => Repairable(env, LoadRelay(env), RepairValues)

\* The errgroup: whether a signal or the loss of any one member starts it, the
\* whole process goes, never left running with a member missing, and nothing in it
\* waits for something already gone.
GoesDownWhole ==
    stage = "running" /\ (ctx = "cancelled" \/ live # Members[kind]) ~> stage = "exited"

\* A process that stays up says it is ready in the end, even one started before
\* the jobs had run, between failures of theirs and under full load of its own.
ReadyInTheEnd == stage = "running" ~> probed = "ready" \/ ctx = "cancelled"

=============================================================================
