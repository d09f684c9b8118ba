------------------------------ MODULE OutboxSystem ------------------------------
(***************************************************************************)
(* The api and the relays over one table: the composition of WritePath and *)
(* OutboxRelay, from the request of a client to the record in the broker.  *)
(*                                                                         *)
(* The two meet in accounts.outbox.  AppendOutbox of a request is an       *)
(* Insert of a row, and the end of its transaction is that row's           *)
(* EndInsert; everything else is a step of one of the two alone.  When the *)
(* api dies its sessions end one by one, each when the server notices.     *)
(***************************************************************************)
EXTENDS OutboxRelay

CONSTANTS
    Requests, EmailOf, MaxConns,    \* as in WritePath
    MaxApiFaults,                   \* bound: WritePath's MaxFaults
    MaxArrivals                     \* bound: requests that arrive

VARIABLES
    handler,                        \* WritePath's pc
    event, tx, users, rows, notified, answer,
    apiFaults,                      \* WritePath's faults
    rowOf                           \* the outbox id the request's INSERT drew

apiVars == <<handler, event, tx, users, rows, notified, answer, apiFaults>>
sysVars == <<vars, apiVars, rowOf>>

Api == INSTANCE WritePath WITH
           pc <- handler, faults <- apiFaults, MaxFaults <- MaxApiFaults

SysInit == Init /\ Api!Init /\ rowOf = [q \in Requests |-> NoRow]

-----------------------------------------------------------------------------
(* Where the two meet.                                                     *)

\* The envelope of a tracked aggregate becomes a row, which draws its id.
AppendRow(q) ==
    /\ Api!AppendOutbox(q)
    /\ IF Api!Envelopes(q) = {}
       THEN UNCHANGED <<vars, rowOf>>
       ELSE Insert /\ rowOf' = [rowOf EXCEPT ![q] = nextId]

\* The transaction's row, if it wrote one, ends as the transaction does.
EndRow(q, outcome) ==
    IF "row" \in tx[q] THEN EndInsert(rowOf[q], outcome) ELSE UNCHANGED vars

CommitRow(q) ==
    /\ Api!Commit(q) \/ Api!CommitUnanswered(q)
    /\ EndRow(q, "pending")
    /\ UNCHANGED rowOf

\* Mutant: the row survives its business transaction.
FailRow_RowKept(q) == Api!Fail(q) /\ EndRow(q, "pending") /\ UNCHANGED rowOf

FailRow(q) == Api!Fail(q) /\ EndRow(q, "aborted") /\ UNCHANGED rowOf

\* The server notices that the session of a dead api is gone.
SessionEnds(q) ==
    /\ rowOf[q] # NoRow /\ handler[q] = "done"
    /\ EndInsert(rowOf[q], "aborted")
    /\ UNCHANGED <<apiVars, rowOf>>

-----------------------------------------------------------------------------
(* Steps of one side.                                                      *)

ApiStep(q) ==
    \/ AppendRow(q) \/ CommitRow(q)
    \/ /\ Api!Begin(q) \/ Api!Save(q) \/ Api!SaveTaken(q) \/ Api!Notify(q)
       /\ UNCHANGED <<vars, rowOf>>

Room(q) == handler[q] = "new" => Cardinality({p \in Requests : handler[p] # "new"}) < MaxArrivals

ApiOther ==
    \/ \E q \in Requests : Room(q) /\ FailRow(q)
    \/ /\ \/ \E q \in Requests : Room(q) /\ (Api!Arrive(q) \/ Api!NotifyFails(q))
          \/ Api!Crash
       /\ UNCHANGED <<vars, rowOf>>

OneRelay(r) == RelayStep(r) /\ UNCHANGED <<apiVars, rowOf>>

RelaySide ==
    /\ \/ \E r \in Relays : EmptyPass(r) \/ Trouble(r)
       \/ \E i \in Ids : LateAppend(i) \/ ReplayFailed(i)
       \/ \E S \in SUBSET Ids : PurgePublished(S)
    /\ UNCHANGED <<apiVars, rowOf>>

BackoffEnds(i) == BecomeDue(i) /\ UNCHANGED <<apiVars, rowOf>>

SysNext ==
    \/ \E q \in Requests : ApiStep(q) \/ SessionEnds(q)
    \/ ApiOther
    \/ \E r \in Relays : OneRelay(r)
    \/ \E i \in Ids : BackoffEnds(i)
    \/ RelaySide

\* Running relays keep polling, the orchestrator restarts a dead one, a backoff
\* ends, handlers run, and the server ends the session of a dead api.  Nothing is
\* assumed of clients, purge, operator or failures.
SysSpec ==
    /\ SysInit /\ [][SysNext]_sysVars
    /\ \A r \in Relays : WF_sysVars(OneRelay(r))
    /\ \A i \in Ids : WF_sysVars(BackoffEnds(i))
    /\ \A q \in Requests : WF_sysVars(ApiStep(q)) /\ WF_sysVars(SessionEnds(q))

-----------------------------------------------------------------------------
(* Properties.                                                             *)

\* UnitOfWork.Do and claimPending together: the relays see a row exactly when
\* the user it announces exists, whatever became of the request, the api or the
\* sessions in between.
RowsAndUsersAgree ==
    \A q \in Requests : q \in users <=> rowOf[q] # NoRow /\ rowOf[q] \in Visible

Announced == {q \in Requests : rowOf[q] \in Delivered}

\* The promise runs from the user to the broker: the abstract outbox with the
\* registered users as its events.
UserFate == [q \in Requests |-> IF q \in users THEN FateOf(rowOf[q]) ELSE "none"]
UserPromise == INSTANCE AtLeastOnce WITH
                   Events <- Requests, fate <- UserFate, delivered <- Announced
KeepsUserPromise == UserPromise!Spec

\* Every registered user's event is delivered or parked in the end, even when the
\* answer, the wakeup, the api or a relay is lost on the way, and whatever order
\* ids were drawn and transactions committed in.
EveryUserDecided ==
    \A q \in Requests : q \in users ~> UserFate[q] \in {"settled", "parked"}

=============================================================================
