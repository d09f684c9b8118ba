------------------------------- MODULE WritePath -------------------------------
(***************************************************************************)
(* POST /users from the request to the answer: Handler.RegisterUser, the   *)
(* use case, the unit of work that drains the aggregate's event into the   *)
(* outbox inside the business transaction, the commit and the wakeup, for  *)
(* any number of concurrent requests over one connection pool.             *)
(*                                                                         *)
(* Every request mints a user of its own, so a user is named by its        *)
(* request; a client's retry is another request with the same address.     *)
(* What the rows say is left out, and so is the outbox id: the relay       *)
(* claims by state, and OutboxRelay models ids.                            *)
(***************************************************************************)
EXTENDS Naturals, FiniteSets

CONSTANTS
    Requests,
    EmailOf,    \* the address each request asks for
    MaxConns,   \* the pool's limit
    MaxFaults   \* bound: failed or unanswered statements, crashes

ASSUME PoolAssumption   == MaxConns \in Nat \ {0}
ASSUME FaultAssumption  == MaxFaults \in Nat

VARIABLES
    pc,         \* where the request's handler is
    event,      \* its UserRegistered: recorded, tracked, drained
    tx,         \* what its open transaction has written
    users,      \* accounts.users, as committed
    rows,       \* accounts.outbox, as committed: the users announced
    notified,   \* the users for whom pg_notify was sent
    answer,     \* what the client was told
    faults

vars == <<pc, event, tx, users, rows, notified, answer, faults>>

Init ==
    /\ pc = [r \in Requests |-> "new"]
    /\ event = [r \in Requests |-> "none"]
    /\ tx = [r \in Requests |-> {}]
    /\ users = {} /\ rows = {} /\ notified = {}
    /\ answer = [r \in Requests |-> "none"]
    /\ faults = 0

Fault == faults < MaxFaults /\ faults' = faults + 1

\* The pool's connections in use: one for each open transaction.
InTx == {r \in Requests : pc[r] \in {"save", "append", "commit"}}
FreeConn == Cardinality(InTx) < MaxConns

\* The handler answers and is done; a transaction still open has been rolled
\* back by WithTx's deferred Rollback.
Answer(r, a) ==
    /\ pc' = [pc EXCEPT ![r] = "done"]
    /\ tx' = [tx EXCEPT ![r] = {}]
    /\ answer' = [answer EXCEPT ![r] = a]

-----------------------------------------------------------------------------

\* Mutant: a refused request records an event all the same.
Refuse_Records(r) ==
    /\ pc[r] = "new"
    /\ Answer(r, "invalid")
    /\ event' = [event EXCEPT ![r] = "refused"]
    /\ UNCHANGED <<users, rows, notified, faults>>

\* The body does not decode, or domain.Register refuses the address or the
\* name: no I/O has happened yet.
Refuse(r) ==
    /\ pc[r] = "new"
    /\ Answer(r, "invalid")
    /\ UNCHANGED <<event, users, rows, notified, faults>>

\* The aggregate's event is recorded, the aggregate tracked, the event drained.
Record(r) == event' = [event EXCEPT ![r] = "recorded"]
Track(r)  == event' = [event EXCEPT ![r] = "tracked"]
Drain(r)  == event' = [event EXCEPT ![r] = "drained"]

\* domain.Register accepts, and records the event.
Accept(r) ==
    /\ pc[r] = "new"
    /\ pc' = [pc EXCEPT ![r] = "begin"]
    /\ Record(r)
    /\ UNCHANGED <<tx, users, rows, notified, answer, faults>>

\* WithTx: Begin waits for a connection.
Begin(r) ==
    /\ pc[r] = "begin" /\ FreeConn
    /\ pc' = [pc EXCEPT ![r] = "save"]
    /\ UNCHANGED <<event, tx, users, rows, notified, answer, faults>>

\* An uncommitted insert of the same address: users_email_key makes the INSERT
\* wait for that transaction to end.
EmailHeld(r) ==
    \E q \in Requests \ {r} : "user" \in tx[q] /\ EmailOf[q] = EmailOf[r]
EmailTaken(r) == \E u \in users : EmailOf[u] = EmailOf[r]

\* Mutant: the aggregate is not tracked.
Save_Untracked(r) ==
    /\ pc[r] = "save" /\ ~EmailHeld(r) /\ ~EmailTaken(r)
    /\ pc' = [pc EXCEPT ![r] = "append"]
    /\ tx' = [tx EXCEPT ![r] = @ \cup {"user"}]
    /\ UNCHANGED <<event, users, rows, notified, answer, faults>>

\* Save: the INSERT, and only after it the aggregate is tracked.
Save(r) ==
    /\ pc[r] = "save" /\ ~EmailHeld(r) /\ ~EmailTaken(r)
    /\ pc' = [pc EXCEPT ![r] = "append"]
    /\ tx' = [tx EXCEPT ![r] = @ \cup {"user"}]
    /\ Track(r)
    /\ UNCHANGED <<users, rows, notified, answer, faults>>

\* Mutant: a 409 because somebody is about to take the address.
SaveTaken_ByUncommitted(r) ==
    /\ pc[r] = "save" /\ (EmailHeld(r) \/ EmailTaken(r))
    /\ Answer(r, "taken")
    /\ UNCHANGED <<event, users, rows, notified, faults>>

\* The unique violation is ErrEmailTaken, through WithTx unwrapped.
SaveTaken(r) ==
    /\ pc[r] = "save" /\ EmailTaken(r)
    /\ Answer(r, "taken")
    /\ UNCHANGED <<event, users, rows, notified, faults>>

\* From: one envelope for each event of a tracked aggregate.
Envelopes(r) == IF event[r] = "tracked" THEN {"row"} ELSE {}

\* drain, From and Append: the tracked aggregate's event becomes a row of the
\* same transaction, and the aggregate forgets it.
AppendOutbox(r) ==
    /\ pc[r] = "append"
    /\ pc' = [pc EXCEPT ![r] = "commit"]
    /\ tx' = [tx EXCEPT ![r] = @ \cup Envelopes(r)]
    /\ Drain(r)
    /\ UNCHANGED <<users, rows, notified, answer, faults>>

\* What the transaction wrote becomes visible.
MakeVisible(r) ==
    /\ users' = IF "user" \in tx[r] THEN users \cup {r} ELSE users
    /\ rows' = IF "row" \in tx[r] THEN rows \cup {r} ELSE rows

\* Mutant: the wakeup is sent on a second connection before the first is back.
Commit_NotifiesInside(r) ==
    /\ pc[r] = "commit" /\ FreeConn
    /\ MakeVisible(r)
    /\ pc' = [pc EXCEPT ![r] = "notify"]
    /\ tx' = [tx EXCEPT ![r] = {}]
    /\ UNCHANGED <<event, notified, answer, faults>>

Commit(r) ==
    /\ pc[r] = "commit"
    /\ MakeVisible(r)
    /\ pc' = [pc EXCEPT ![r] = "notify"]
    /\ tx' = [tx EXCEPT ![r] = {}]
    /\ UNCHANGED <<event, notified, answer, faults>>

\* The commit takes effect and its answer is lost: the client gets a 500.
CommitUnanswered(r) ==
    /\ Fault
    /\ pc[r] = "commit"
    /\ MakeVisible(r)
    /\ Answer(r, "error")
    /\ UNCHANGED <<event, notified>>

\* The id generator, Begin, a statement or the COMMIT fails, the envelope cannot
\* be built, or the client has gone and its context with it.
Fail(r) ==
    /\ Fault
    /\ pc[r] \in {"new", "begin", "save", "append", "commit"}
    /\ Answer(r, "error")
    /\ UNCHANGED <<event, users, rows, notified>>

\* After the commit, on a connection of the pool, and best effort.
Notify(r) ==
    /\ pc[r] = "notify" /\ FreeConn
    /\ notified' = notified \cup {r}
    /\ Answer(r, "created")
    /\ UNCHANGED <<event, users, rows, faults>>

NotifyFails(r) ==
    /\ Fault
    /\ pc[r] = "notify"
    /\ Answer(r, "created")
    /\ UNCHANGED <<event, users, rows, notified>>

\* The process dies, or its shutdown timeout passes with requests in flight:
\* open transactions are rolled back by the server and nobody is answered.
Crash ==
    /\ Fault
    /\ \E r \in Requests : pc[r] \notin {"new", "done"}
    /\ pc' = [r \in Requests |-> IF pc[r] = "new" THEN "new" ELSE "done"]
    /\ tx' = [r \in Requests |-> {}]
    /\ answer' = [r \in Requests |-> IF pc[r] \in {"new", "done"} THEN answer[r] ELSE "lost"]
    /\ UNCHANGED <<event, users, rows, notified>>

-----------------------------------------------------------------------------

Arrive(r) == Refuse(r) \/ Accept(r)
Step(r) ==
    \/ Begin(r) \/ Save(r) \/ SaveTaken(r) \/ AppendOutbox(r) \/ Commit(r) \/ Notify(r)

Next ==
    \/ \E r \in Requests :
          Arrive(r) \/ Step(r) \/ Fail(r) \/ CommitUnanswered(r) \/ NotifyFails(r)
    \/ Crash
    \/ (\A r \in Requests : pc[r] = "done") /\ UNCHANGED vars

Spec == Init /\ [][Next]_vars

\* Handlers run and statements that nobody blocks come back.
FairSpec == Spec /\ \A r \in Requests : WF_vars(Step(r))

-----------------------------------------------------------------------------
(* Properties.                                                             *)

\* The write path's variables have their types.
TypeOK ==
    /\ pc \in [Requests -> {"new", "begin", "save", "append", "commit", "notify", "done"}]
    /\ event \in [Requests -> {"none", "recorded", "tracked", "drained"}]
    /\ tx \in [Requests -> SUBSET {"user", "row"}]
    /\ users \subseteq Requests /\ rows \subseteq Requests /\ notified \subseteq Requests
    /\ answer \in [Requests -> {"none", "created", "invalid", "taken", "error", "lost"}]
    /\ faults \in 0 .. MaxFaults

\* UnitOfWork.Do: every registration is announced in the step that makes it
\* visible, whatever fails around it: the refinement of Registration.
R == INSTANCE Registration WITH
         Users <- Requests, Email <- EmailOf,
         registered <- users, announced <- rows, told <- notified
Atomically == R!Spec

\* failFor: the answer tells the truth about the table.  A 201 stands for a
\* committed user with its event, a 409 for a committed user with that address
\* who is somebody else, a 400 for nothing written.
AnswersTellTheTruth ==
    \A r \in Requests :
        /\ answer[r] = "created" => r \in users /\ r \in rows
        /\ answer[r] = "taken" => r \notin users /\ EmailTaken(r)
        /\ answer[r] = "invalid" => r \notin users /\ r \notin rows

\* users_email_key under concurrency: however many requests race for an address,
\* one user at most has it, and at most one event announces it.
OneUserPerEmail ==
    \A u, v \in users \cup rows : EmailOf[u] = EmailOf[v] => u = v

\* Nobody waits on everybody: with the pool full of requests blocked on each
\* other's addresses, and each needing the pool again for its wakeup, every
\* request is still answered.
EveryRequestAnswered == \A r \in Requests : pc[r] = "begin" ~> pc[r] = "done"

=============================================================================
