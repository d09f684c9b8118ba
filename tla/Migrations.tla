------------------------------- MODULE Migrations -------------------------------
(***************************************************************************)
(* cmd/migrate: jobs that bring the databases of the bounded contexts up   *)
(* to the versions embedded in their own release, started again when they  *)
(* fail, and never kept apart: two may run at once, of one release or two. *)
(*                                                                         *)
(* goose runs each migration in a transaction of its own together with its *)
(* row of goose_db_version.  The migrations create schemas, tables and     *)
(* indexes without IF NOT EXISTS, so running one a second time fails.      *)
(* Versions are numbered from 1 without gaps.  -action version writes      *)
(* nothing and is left out.                                                *)
(***************************************************************************)
EXTENDS Naturals, Sequences

CONSTANTS
    Jobs,
    Releases,
    ReleaseOf,          \* the release each job was built from
    Latest,             \* the last version a release embeds, per context
    PlanOf,             \* -context: the contexts a job brings up, in order
    MaxJobFaults        \* bound: failed or unanswered statements

Contexts == {"accounts", "notifications"}

ASSUME ReleaseAssumption == /\ ReleaseOf \in [Jobs -> Releases]
                            /\ Latest \in [Releases -> [Contexts -> Nat]]
\* selected: -context all, or one of them.
Selections == {<<"accounts", "notifications">>, <<"accounts">>, <<"notifications">>}
ASSUME PlanAssumption == PlanOf \in [Jobs -> Selections]
ASSUME JobBounds == MaxJobFaults \in Nat

VARIABLES
    applied,    \* the versions whose statements have taken effect
    recorded,   \* goose_db_version
    job,        \* where each job is
    pos,        \* how far in its contexts it is
    next,       \* the version it is about to run
    jobFaults

migVars == <<applied, recorded, job, pos, next, jobFaults>>

MigInit ==
    /\ applied = [c \in Contexts |-> {}] /\ recorded = [c \in Contexts |-> {}]
    /\ job = [j \in Jobs |-> "idle"] /\ pos = [j \in Jobs |-> 1] /\ next = [j \in Jobs |-> 0]
    /\ jobFaults = 0

JobFault == jobFaults < MaxJobFaults /\ jobFaults' = jobFaults + 1

\* coalesce(max(version_id), 0)
Newest(versions) == CHOOSE v \in versions \cup {0} : \A w \in versions : w <= v

Move(j, where) == job' = [job EXCEPT ![j] = where]

\* The migration at hand is over, whatever came of it.
Leave(j, where) == Move(j, where) /\ next' = [next EXCEPT ![j] = 0]

\* The job starts, or starts again after a failure, from the first context on.
Invoke(j) ==
    /\ job[j] \in {"idle", "failed"}
    /\ Move(j, "reading")
    /\ pos' = [pos EXCEPT ![j] = 1]
    /\ UNCHANGED <<applied, recorded, next, jobFaults>>

Over(j)   == pos[j] > Len(PlanOf[j])
Target(j) == PlanOf[j][pos[j]]
Embedded(j) == Latest[ReleaseOf[j]][Target(j)]

\* Mutant: straight to the last version embedded.
ReadVersion_Jumps(j) ==
    /\ job[j] = "reading" /\ ~Over(j)
    /\ Newest(recorded[Target(j)]) < Embedded(j)
    /\ Move(j, "running")
    /\ next' = [next EXCEPT ![j] = Embedded(j)]
    /\ UNCHANGED <<applied, recorded, pos, jobFaults>>

\* goose.Up reads the version and takes the next file, of those it embeds.
ReadVersion(j) ==
    /\ job[j] = "reading" /\ ~Over(j)
    /\ Newest(recorded[Target(j)]) < Embedded(j)
    /\ Move(j, "running")
    /\ next' = [next EXCEPT ![j] = Newest(recorded[Target(j)]) + 1]
    /\ UNCHANGED <<applied, recorded, pos, jobFaults>>

\* Mutant: the contexts are brought up in one go and only the first is checked.
UpToDate_SkipsRest(j) ==
    /\ job[j] = "reading" /\ ~Over(j)
    /\ Newest(recorded[Target(j)]) >= Embedded(j)
    /\ pos' = [pos EXCEPT ![j] = Len(PlanOf[j]) + 1]
    /\ UNCHANGED <<applied, recorded, job, next, jobFaults>>

\* Nothing left in this context: on to the next one.
UpToDate(j) ==
    /\ job[j] = "reading" /\ ~Over(j)
    /\ Newest(recorded[Target(j)]) >= Embedded(j)
    /\ pos' = [pos EXCEPT ![j] = @ + 1]
    /\ UNCHANGED <<applied, recorded, job, next, jobFaults>>

Finish(j) ==
    /\ job[j] = "reading" /\ Over(j)
    /\ Move(j, "done")
    /\ UNCHANGED <<applied, recorded, pos, next, jobFaults>>

\* The migration and its row become visible together.
Apply(j) ==
    /\ next[j] \notin applied[Target(j)]
    /\ applied' = [applied EXCEPT ![Target(j)] = @ \cup {next[j]}]
    /\ recorded' = [recorded EXCEPT ![Target(j)] = @ \cup {next[j]}]

RunMigration(j) ==
    /\ job[j] = "running"
    /\ Apply(j)
    /\ Leave(j, "reading")
    /\ UNCHANGED <<pos, jobFaults>>

\* Another job has run it since: "already exists", and run stops there.
AlreadyThere(j) ==
    /\ job[j] = "running" /\ next[j] \in applied[Target(j)]
    /\ Leave(j, "failed")
    /\ UNCHANGED <<applied, recorded, pos, jobFaults>>

\* Mutant: the statements are not in the transaction of the row.
JobFails_HalfDone(j) ==
    /\ JobFault
    /\ job[j] \in {"reading", "running"}
    /\ applied' = IF next[j] = 0 THEN applied
                  ELSE [applied EXCEPT ![Target(j)] = @ \cup {next[j]}]
    /\ Leave(j, "failed")
    /\ UNCHANGED <<recorded, pos>>

\* LoadMigrate or the flags are refused, a statement fails, the connection is
\* lost, or the job dies: the server rolls an open transaction back.
JobFails(j) ==
    /\ JobFault
    /\ job[j] \in {"reading", "running"}
    /\ Leave(j, "failed")
    /\ UNCHANGED <<applied, recorded, pos>>

\* The commit takes effect and the job does not learn it.
Unanswered(j) ==
    /\ JobFault
    /\ job[j] = "running"
    /\ Apply(j)
    /\ Leave(j, "failed")
    /\ UNCHANGED <<pos>>

JobStep(j) ==
    Invoke(j) \/ ReadVersion(j) \/ UpToDate(j) \/ Finish(j) \/ RunMigration(j) \/ AlreadyThere(j)

MigNext == \E j \in Jobs : JobStep(j) \/ JobFails(j) \/ Unanswered(j)

\* Jobs run, and whoever deploys starts a failed one again.
MigFairness == \A j \in Jobs : WF_migVars(JobStep(j))

-----------------------------------------------------------------------------
(* Properties.                                                             *)

MigTypeOK ==
    /\ applied \in [Contexts -> SUBSET Nat] /\ recorded \in [Contexts -> SUBSET Nat]
    /\ job \in [Jobs -> {"idle", "reading", "running", "failed", "done"}]
    /\ pos \in [Jobs -> 1 .. 3]
    /\ next \in [Jobs -> Nat]
    /\ jobFaults \in 0 .. MaxJobFaults

\* Up under races, failures and lost answers: a context holds exactly the
\* migrations its table lists, and they are all versions up to the newest, so
\* the greatest version says everything about the schema.
SchemaIsWhole ==
    \A c \in Contexts : /\ applied[c] = recorded[c]
                        /\ recorded[c] = 1 .. Newest(recorded[c])

\* A job that exits with 0 has every context it was given at its own release's
\* version or a later one, whichever other job did the work.
DoneMeansMigrated ==
    \A j \in Jobs : job[j] = "done" =>
        \A i \in 1 .. Len(PlanOf[j]) :
            1 .. Latest[ReleaseOf[j]][PlanOf[j][i]] \subseteq applied[PlanOf[j][i]]

\* Every job ends well at last: a race costs a restart and never leaves behind
\* something that makes all further runs fail.
MigrationsFinish == <>(\A j \in Jobs : job[j] = "done")

=============================================================================
