--------------------------------- MODULE Purger ---------------------------------
(***************************************************************************)
(* The purge of published rows: worker.Purger's ticker loop, the paging    *)
(* loop of PurgePublished.Execute, and the bounded DELETE, in as many      *)
(* processes as run a relay.  OutboxRelay has the purge as one atomic page *)
(* beside the passes; here are its steps, its count and its end.           *)
(*                                                                         *)
(* A DELETE picks its page from a snapshot and then waits for the locks of *)
(* any other DELETE: by the time it has them, rows of its page may be gone.*)
(***************************************************************************)
EXTENDS Naturals, FiniteSets

CONSTANTS
    MaxRows,    \* ids are 1 .. MaxRows
    Purgers,
    Batch,      \* PURGE_BATCH
    MaxFaults   \* bound: failed or unanswered pages

Ids == 1 .. MaxRows

ASSUME BatchAssumption == Batch \in Nat \ {0}
ASSUME SizeAssumption  == MaxRows \in Nat /\ MaxFaults \in Nat

VARIABLES
    row,        \* each row: published rows are "young" until the retention is over
    ctx,        \* the signal context
    pc,         \* where each purger is
    tick,       \* a tick waiting in its ticker's channel
    page,       \* the rows its DELETE has picked
    eligible,   \* the rows that were old when it picked them
    deleted,    \* history: the rows all runs of all purgers have reported deleted
    faults

loopVars == <<pc, tick, page, eligible, deleted>>
vars == <<row, ctx, loopVars, faults>>

Init ==
    /\ row = [i \in Ids |-> "pending"]
    /\ ctx = "live"
    /\ pc = [p \in Purgers |-> "page"]
    /\ tick = [p \in Purgers |-> FALSE]
    /\ page = [p \in Purgers |-> {}]
    /\ eligible = [p \in Purgers |-> {}]
    /\ deleted = 0
    /\ faults = 0

Fault == faults < MaxFaults /\ faults' = faults + 1

Old == {i \in Ids : row[i] = "old"}

-----------------------------------------------------------------------------
(* The rest of the system.                                                 *)

\* A relay decides a row, the retention passes, a human replays a parked row.
Moves == {<<"pending", "young">>, <<"pending", "failed">>, <<"young", "old">>, <<"failed", "pending">>}

RowMoves(i) ==
    /\ \E to \in {m[2] : m \in {n \in Moves : n[1] = row[i]}} : row' = [row EXCEPT ![i] = to]
    /\ UNCHANGED <<ctx, loopVars, faults>>

Cancel ==
    /\ ctx = "live" /\ ctx' = "cancelled"
    /\ UNCHANGED <<row, loopVars, faults>>

\* The ticker's channel holds one tick; others are dropped.
Tick(p) ==
    /\ pc[p] # "stopped" /\ ~tick[p]
    /\ tick' = [tick EXCEPT ![p] = TRUE]
    /\ UNCHANGED <<row, ctx, pc, page, eligible, deleted, faults>>

-----------------------------------------------------------------------------
(* Execute: page after page until one comes back short.                    *)

\* Mutant: the loop ends with its first run.
EndRun_Returns(p) ==
    /\ pc' = [pc EXCEPT ![p] = "stopped"]
    /\ page' = [page EXCEPT ![p] = {}]
    /\ eligible' = [eligible EXCEPT ![p] = {}]

\* The run is over and Run waits in its select.
EndRun(p) ==
    /\ pc' = [pc EXCEPT ![p] = "waiting"]
    /\ page' = [page EXCEPT ![p] = {}]
    /\ eligible' = [eligible EXCEPT ![p] = {}]

\* Mutant: any row that is not pending, whatever its age.
IsPage_AnyDecided(S) ==
    LET Decided == {i \in Ids : row[i] \in {"young", "failed", "old"}} IN
    /\ S \subseteq Decided /\ Cardinality(S) <= Batch
    /\ \A i \in S, j \in Decided \ S : i < j
    /\ Cardinality(S) < Batch => S = Decided

\* ORDER BY id LIMIT batch over the published rows past the retention.
IsPage(S) ==
    /\ S \subseteq Old /\ Cardinality(S) <= Batch
    /\ \A i \in S, j \in Old \ S : i < j
    /\ Cardinality(S) < Batch => S = Old

PickPage(p, S) ==
    /\ pc[p] = "page" /\ ctx = "live" /\ IsPage(S)
    /\ pc' = [pc EXCEPT ![p] = "deleting"]
    /\ page' = [page EXCEPT ![p] = S]
    /\ eligible' = [eligible EXCEPT ![p] = Old]
    /\ UNCHANGED <<row, ctx, tick, deleted, faults>>

\* Checked between pages, not just at the top.
Interrupted(p) ==
    /\ pc[p] = "page" /\ ctx = "cancelled"
    /\ EndRun(p)
    /\ UNCHANGED <<row, ctx, tick, deleted, faults>>

Present(p) == {i \in page[p] : row[i] # "gone"}
Erase(S) == row' = [i \in Ids |-> IF i \in S THEN "gone" ELSE row[i]]

\* Mutants: the page is counted and not what was deleted of it; a full page is
\* taken for the last.
DeletePage_CountsPage(p) ==
    /\ pc[p] = "deleting"
    /\ Erase(Present(p))
    /\ deleted' = deleted + Cardinality(page[p])
    /\ EndRun(p)
    /\ UNCHANGED <<ctx, tick, faults>>
DeletePage_OnePage(p) ==
    /\ pc[p] = "deleting"
    /\ Erase(Present(p))
    /\ deleted' = deleted + Cardinality(Present(p))
    /\ EndRun(p)
    /\ UNCHANGED <<ctx, tick, faults>>

\* The DELETE removes what is left of its page; RowsAffected counts only that,
\* and a short count ends the run.
DeletePage(p) ==
    /\ pc[p] = "deleting"
    /\ Erase(Present(p))
    /\ deleted' = deleted + Cardinality(Present(p))
    /\ \/ /\ Cardinality(Present(p)) < Batch
          /\ EndRun(p)
       \/ /\ Cardinality(Present(p)) >= Batch
          /\ pc' = [pc EXCEPT ![p] = "page"]
          /\ page' = [page EXCEPT ![p] = {}]
          /\ eligible' = [eligible EXCEPT ![p] = {}]
    /\ UNCHANGED <<ctx, tick, faults>>

\* The DELETE fails, or ctx ends it; either way it may have taken effect.
PageFails(p) ==
    /\ pc[p] = "deleting"
    /\ \/ ctx = "live" /\ Fault
       \/ ctx = "cancelled" /\ UNCHANGED faults
    /\ Erase(Present(p)) \/ UNCHANGED row
    /\ EndRun(p)
    /\ UNCHANGED <<ctx, tick, deleted>>

-----------------------------------------------------------------------------
(* Run's select.  With both channels ready Go picks either.                *)

NextRun(p) ==
    /\ pc[p] = "waiting" /\ tick[p]
    /\ pc' = [pc EXCEPT ![p] = "page"]
    /\ tick' = [tick EXCEPT ![p] = FALSE]
    /\ UNCHANGED <<row, ctx, page, eligible, deleted, faults>>

\* Mutant: a waiting tick comes first.
Stop_TickFirst(p) ==
    /\ pc[p] = "waiting" /\ ctx = "cancelled" /\ ~tick[p]
    /\ pc' = [pc EXCEPT ![p] = "stopped"]
    /\ UNCHANGED <<row, ctx, tick, page, eligible, deleted, faults>>

Stop(p) ==
    /\ pc[p] = "waiting" /\ ctx = "cancelled"
    /\ pc' = [pc EXCEPT ![p] = "stopped"]
    /\ UNCHANGED <<row, ctx, tick, page, eligible, deleted, faults>>

-----------------------------------------------------------------------------

RunStep(p) ==
    \/ \E S \in SUBSET Ids : PickPage(p, S)
    \/ Interrupted(p) \/ DeletePage(p) \/ NextRun(p)

Next ==
    \/ \E p \in Purgers : RunStep(p) \/ PageFails(p) \/ Stop(p) \/ Tick(p)
    \/ \E i \in Ids : RowMoves(i)
    \/ Cancel
    \/ (\A p \in Purgers : pc[p] = "stopped") /\ UNCHANGED vars

Spec == Init /\ [][Next]_vars

\* A DELETE comes back, the ticker ticks, and a select with two ready channels
\* picks each of them now and then (Go picks uniformly): strong fairness of Stop.
FairSpec ==
    /\ Spec
    /\ \A p \in Purgers : WF_vars(RunStep(p)) /\ WF_vars(Tick(p)) /\ SF_vars(Stop(p))

-----------------------------------------------------------------------------
(* Properties.                                                             *)

Gone == {i \in Ids : row[i] = "gone"}

\* The purger's variables have their types.
TypeOK ==
    /\ row \in [Ids -> {"pending", "young", "failed", "old", "gone"}]
    /\ ctx \in {"live", "cancelled"}
    /\ pc \in [Purgers -> {"page", "deleting", "waiting", "stopped"}]
    /\ tick \in [Purgers -> BOOLEAN]
    /\ page \in [Purgers -> SUBSET Ids] /\ eligible \in [Purgers -> SUBSET Ids]
    /\ deleted \in Nat
    /\ faults \in 0 .. MaxFaults

\* "failed rows are never purged automatically", and neither is a row that is
\* still owed or still within its retention, however long a DELETE waits between
\* picking its page and having it.
OnlyOldGo == [][\A i \in Ids : row[i] # "gone" /\ row'[i] = "gone" => row[i] = "old"]_vars

\* "res carries what was already deleted": across purgers on one page and runs
\* that fail in the middle, no row is reported deleted twice, and none that is
\* still there.
NothingCountedTwice == deleted <= Cardinality(Gone)

\* Execute: "fewer rows than asked for means the eligible set is exhausted".  A
\* run that ends by a short page has left nothing of what was eligible when it
\* picked that page, or another purger was deleting rows of it meanwhile.
EndsExhausted(p) == DeletePage(p) /\ pc'[p] = "waiting"
ExhaustedMeansNoneLeft ==
    [][ \A p \in Purgers :
            EndsExhausted(p) /\ page[p] \cap Gone = {} => eligible[p] \subseteq Gone' ]_vars

\* A row past its retention is deleted in the end, whatever runs failed, unless
\* the processes are stopped.
OldRowsGo == \A i \in Ids : row[i] = "old" ~> (row[i] = "gone" \/ ctx = "cancelled")

\* Asked to stop, every purger stops, in a run of many pages or in its select.
PurgersStop == ctx = "cancelled" ~> \A p \in Purgers : pc[p] = "stopped"

=============================================================================
