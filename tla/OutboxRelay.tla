------------------------------ MODULE OutboxRelay ------------------------------
(***************************************************************************)
(* The relay passes of the accounts context over the table accounts.outbox *)
(* and the broker: the claiming transaction of PublishPendingBatch.Execute, *)
(* the three marks it stages, its commit and every way it can fail, run by *)
(* any number of relay processes, beside the producers that insert rows,   *)
(* the purge and the operator's replay.                                    *)
(*                                                                         *)
(* A row is its id; ids are handed out by the BIGSERIAL at INSERT and the  *)
(* row becomes visible at COMMIT, so the two orders may differ.  Time is   *)
(* abstracted to "due" (available_at <= now()).  The payload, the headers  *)
(* and the text of an error do not change control and are left out.        *)
(***************************************************************************)
EXTENDS Naturals, Sequences, FiniteSets

CONSTANTS
    MaxRows,        \* ids handed out are 1 .. MaxRows
    Relays,         \* the relay processes, active and standby
    BatchSize,      \* PublishPolicy.BatchSize
    PurgeBatch,     \* PurgePublished.batch
    Aggregates,     \* values of aggregate_id
    AggregateOf,    \* the aggregate_id of each row
    MaxFaults,      \* bound: crashes, lost sessions and unanswered statements
    MaxRejections   \* bound: produces that return an error

Ids   == 1 .. MaxRows
NoRow == 0

ASSUME MaxRowsAssumption   == MaxRows \in Nat
ASSUME BatchSizeAssumption == BatchSize \in Nat \ {0}
ASSUME PurgeAssumption     == PurgeBatch \in Nat \ {0}
ASSUME AggregateAssumption == AggregateOf \in [Ids -> Aggregates]
ASSUME BoundsAssumption    == MaxFaults \in Nat /\ MaxRejections \in Nat

Status  == {"absent", "inserting", "aborted", "pending", "published", "failed", "purged"}
Mark    == {"none", "published", "retry", "failed"}
Reason  == {"none", "transient", "permanent"}
InPass  == {"work", "producing", "acked", "permanent", "transient"}
Control == {"down", "idle", "rolledback"} \cup InPass

VARIABLES
    \* accounts.outbox, as committed ("absent" .. "aborted": not visible)
    status, attempts, due, lastError,
    nextId,         \* the sequence behind id
    \* one relay process
    pc,             \* "rolledback": Execute returned an error
    session,        \* its transaction's session; "lost" while the relay does not know
    claim,          \* the rows ClaimPending returned, locked while the session is open
    todo,           \* the rows of the batch the loop has not finished
    cur,            \* the row in the loop's hands
    marks,          \* UPDATEs staged in the open transaction
    \* the broker
    log,            \* the appended records, in order
    orphan,         \* produce requests whose sender no longer waits for an answer
    \* bounds
    faults, rejections

tableVars  == <<status, attempts, due, lastError>>
passVars   == <<session, claim, todo, cur, marks>>
brokerVars == <<log, orphan>>
boundVars  == <<faults, rejections>>
vars == <<tableVars, nextId, pc, passVars, brokerVars, boundVars>>

-----------------------------------------------------------------------------

NoMarks == [i \in Ids |-> "none"]

Init ==
    /\ status = [i \in Ids |-> "absent"]
    /\ attempts = [i \in Ids |-> 0]
    /\ due = [i \in Ids |-> TRUE]
    /\ lastError = [i \in Ids |-> "none"]
    /\ nextId = 1
    /\ pc = [r \in Relays |-> "idle"]
    /\ session = [r \in Relays |-> "none"]
    /\ claim = [r \in Relays |-> {}]
    /\ todo = [r \in Relays |-> {}]
    /\ cur = [r \in Relays |-> NoRow]
    /\ marks = [r \in Relays |-> NoMarks]
    /\ log = <<>>
    /\ orphan = [i \in Ids |-> 0]
    /\ faults = 0
    /\ rejections = 0

Fault     == faults < MaxFaults /\ faults' = faults + 1 /\ UNCHANGED rejections
Rejection == rejections < MaxRejections /\ rejections' = rejections + 1 /\ UNCHANGED faults

-----------------------------------------------------------------------------
(* Producers: one outbox row in a business transaction.                    *)

\* INSERT draws the id from the sequence.  Two transactions on one aggregate
\* do not overlap: the aggregate's own row is written first.
Insert ==
    /\ nextId <= MaxRows
    /\ \A i \in Ids : status[i] = "inserting" => AggregateOf[i] # AggregateOf[nextId]
    /\ status' = [status EXCEPT ![nextId] = "inserting"]
    /\ nextId' = nextId + 1
    /\ UNCHANGED <<attempts, due, lastError, pc, passVars, brokerVars, boundVars>>

\* The transaction ends: the row appears with its column defaults, or never
\* (the id it drew stays a gap).
EndInsert(i, outcome) ==
    /\ status[i] = "inserting"
    /\ outcome \in {"pending", "aborted"}
    /\ status' = [status EXCEPT ![i] = outcome]
    /\ UNCHANGED <<attempts, due, lastError, nextId, pc, passVars, brokerVars, boundVars>>

\* available_at is reached.
BecomeDue(i) ==
    /\ status[i] = "pending" /\ ~due[i]
    /\ due' = [due EXCEPT ![i] = TRUE]
    /\ UNCHANGED <<status, attempts, lastError, nextId, pc, passVars, brokerVars, boundVars>>

-----------------------------------------------------------------------------
(* One relay pass.                                                         *)

Locked    == UNION {claim[r] : r \in {q \in Relays : session[q] = "open"}}
\* Mutants: a claim without FOR UPDATE SKIP LOCKED, and one that takes
\* RELAY_MAX_ATTEMPTS for a state.
Claimable_IgnoresLocks == {i \in Ids : status[i] = "pending" /\ due[i]}
Claimable_GivesUp == {i \in Ids : status[i] = "pending" /\ due[i] /\ i \notin Locked /\ attempts[i] = 0}
Claimable == {i \in Ids : status[i] = "pending" /\ due[i] /\ i \notin Locked}

\* Mutant: no ORDER BY id.
IsBatch_Unordered(S) == S # {} /\ S \subseteq Claimable /\ Cardinality(S) <= BatchSize

\* What the claiming SELECT may return: a run of the claimable rows in id
\* order, cut at LIMIT.  It may stop short of LIMIT only when it skipped rows
\* another session holds.
IsBatch(S) ==
    /\ S # {} /\ S \subseteq Claimable
    /\ Cardinality(S) <= BatchSize
    /\ \A i \in S, j \in Claimable \ S : i < j
    /\ Cardinality(S) < BatchSize => S = Claimable \/ Locked # {}

Between(r) == pc[r] \in {"idle", "rolledback"}

\* BEGIN and ClaimPending, with rows to publish.
ClaimPending(r, S) ==
    /\ Between(r)
    /\ IsBatch(S)
    /\ pc' = [pc EXCEPT ![r] = "work"]
    /\ session' = [session EXCEPT ![r] = "open"]
    /\ claim' = [claim EXCEPT ![r] = S]
    /\ todo' = [todo EXCEPT ![r] = S]
    /\ UNCHANGED <<tableVars, nextId, cur, marks, brokerVars, boundVars>>

\* A pass that finds nothing commits an empty transaction.
EmptyPass(r) ==
    /\ Between(r)
    /\ Claimable = {} \/ Locked # {}
    /\ pc' = [pc EXCEPT ![r] = "idle"]
    /\ UNCHANGED <<tableVars, nextId, passVars, brokerVars, boundVars>>

\* Begin or the SELECT fails: nothing was claimed.
ClaimFails(r) ==
    /\ Fault
    /\ Between(r)
    /\ pc' = [pc EXCEPT ![r] = "rolledback"]
    /\ UNCHANGED <<tableVars, nextId, passVars, brokerVars>>

IsNext(r, i) == i \in todo[r] /\ \A j \in todo[r] : i <= j

\* The loop takes the next row of the batch and hands it to the broker, or,
\* when its aggregate type has no topic, gives it up before the produce.
Produce(r, i) ==
    /\ pc[r] = "work" /\ IsNext(r, i)
    /\ pc' = [pc EXCEPT ![r] = "producing"]
    /\ cur' = [cur EXCEPT ![r] = i]
    /\ UNCHANGED <<tableVars, nextId, session, claim, todo, marks, brokerVars, boundVars>>

Unroutable(r, i) ==
    /\ Rejection
    /\ pc[r] = "work" /\ IsNext(r, i)
    /\ pc' = [pc EXCEPT ![r] = "permanent"]
    /\ cur' = [cur EXCEPT ![r] = i]
    /\ UNCHANGED <<tableVars, nextId, session, claim, todo, marks, brokerVars>>

\* Mutant: acks=0, the produce returns before the broker has the record.
Acked_FireAndForget(r) ==
    /\ pc[r] = "producing"
    /\ orphan' = [orphan EXCEPT ![cur[r]] = @ + 1]
    /\ pc' = [pc EXCEPT ![r] = "acked"]
    /\ UNCHANGED <<tableVars, nextId, passVars, log, boundVars>>

\* The broker appends the record and answers (acks=all).
Acked(r) ==
    /\ pc[r] = "producing"
    /\ log' = Append(log, cur[r])
    /\ pc' = [pc EXCEPT ![r] = "acked"]
    /\ UNCHANGED <<tableVars, nextId, passVars, orphan, boundVars>>

\* The broker refuses the record for good; it is not in the log.
PermanentError(r) ==
    /\ Rejection
    /\ pc[r] = "producing"
    /\ pc' = [pc EXCEPT ![r] = "permanent"]
    /\ UNCHANGED <<tableVars, nextId, passVars, brokerVars>>

\* Every other error.  The request may already have reached the leader.
TransientError(r) ==
    /\ Rejection
    /\ pc[r] = "producing"
    /\ orphan' = [orphan EXCEPT ![cur[r]] = @ + 1]
    /\ pc' = [pc EXCEPT ![r] = "transient"]
    /\ UNCHANGED <<tableVars, nextId, passVars, log>>

\* A request nobody waits for any more is appended after all.
LateAppend(i) ==
    /\ orphan[i] > 0
    /\ orphan' = [orphan EXCEPT ![i] = @ - 1]
    /\ log' = Append(log, i)
    /\ UNCHANGED <<tableVars, nextId, pc, passVars, boundVars>>

\* The transaction is over for relay r, however it ended.
EndPass(r, control) ==
    /\ pc' = [pc EXCEPT ![r] = control]
    /\ session' = [session EXCEPT ![r] = "none"]
    /\ claim' = [claim EXCEPT ![r] = {}]
    /\ todo' = [todo EXCEPT ![r] = {}]
    /\ cur' = [cur EXCEPT ![r] = NoRow]
    /\ marks' = [marks EXCEPT ![r] = NoMarks]

\* One UPDATE staged in the open transaction; the loop goes on with rest.
StageMark(r, mark, rest) ==
    /\ session[r] = "open"
    /\ marks' = [marks EXCEPT ![r] = [@ EXCEPT ![cur[r]] = mark]]
    /\ todo' = [todo EXCEPT ![r] = rest]
    /\ cur' = [cur EXCEPT ![r] = NoRow]
    /\ pc' = [pc EXCEPT ![r] = "work"]
    /\ UNCHANGED <<tableVars, nextId, session, claim, brokerVars, boundVars>>

\* Mutants: mark before the ack; a status outside outbox_status_check; after a
\* transient error go on with the batch, abandon the pass, or take it for an ack.
MarkPublished_BeforeAck(r) == pc[r] = "producing" /\ StageMark(r, "published", todo[r] \ {cur[r]})
MarkFailed_UnknownStatus(r) == pc[r] = "permanent" /\ StageMark(r, "parked", todo[r] \ {cur[r]})
Reschedule_ContinuesBatch(r) == pc[r] = "transient" /\ StageMark(r, "retry", todo[r] \ {cur[r]})
Reschedule_AbandonsPass(r) ==
    /\ pc[r] = "transient" /\ EndPass(r, "rolledback")
    /\ UNCHANGED <<tableVars, nextId, brokerVars, boundVars>>
Reschedule_AsPublished(r) == pc[r] = "transient" /\ StageMark(r, "published", {})

MarkPublished(r) == pc[r] = "acked"     /\ StageMark(r, "published", todo[r] \ {cur[r]})
MarkFailed(r)    == pc[r] = "permanent" /\ StageMark(r, "failed", todo[r] \ {cur[r]})

\* A transient failure ends the batch: the rows after it are not tried.
Reschedule(r)    == pc[r] = "transient" /\ StageMark(r, "retry", {})

\* The staged UPDATEs as they reach the table.
ApplyMarks(m) ==
    /\ status' = [i \in Ids |-> IF m[i] \in {"published", "failed"} THEN m[i] ELSE status[i]]
    /\ attempts' = [i \in Ids |-> IF m[i] = "retry" THEN attempts[i] + 1 ELSE attempts[i]]
    /\ due' = [i \in Ids |-> due[i] /\ m[i] # "retry"]
    /\ lastError' = [i \in Ids |-> CASE m[i] = "none" -> lastError[i]
                                     [] m[i] = "published" -> "none"
                                     [] m[i] = "retry" -> "transient"
                                     [] m[i] = "failed" -> "permanent"]

BatchDone(r) == pc[r] = "work" /\ todo[r] = {}

Commit(r) ==
    /\ BatchDone(r) /\ session[r] = "open"
    /\ ApplyMarks(marks[r])
    /\ EndPass(r, "idle")
    /\ UNCHANGED <<nextId, brokerVars, boundVars>>

\* COMMIT takes effect and its answer is lost: WithTx returns an error.
CommitUnanswered(r) ==
    /\ Fault
    /\ BatchDone(r) /\ session[r] = "open"
    /\ ApplyMarks(marks[r])
    /\ EndPass(r, "rolledback")
    /\ UNCHANGED <<nextId, brokerVars>>

\* The server ends the session (or aborts the transaction on a failed
\* statement): locks and staged marks are gone, the relay learns of it at its
\* next statement and goes on publishing until then.
SessionLost(r) ==
    /\ Fault
    /\ session[r] = "open"
    /\ session' = [session EXCEPT ![r] = "lost"]
    /\ marks' = [marks EXCEPT ![r] = NoMarks]
    /\ UNCHANGED <<tableVars, nextId, pc, claim, todo, cur, brokerVars>>

\* The next statement, a mark or the COMMIT, fails: Execute returns an error.
RollBack(r) ==
    /\ session[r] = "lost"
    /\ pc[r] \in {"acked", "permanent", "transient"} \/ BatchDone(r)
    /\ EndPass(r, "rolledback")
    /\ UNCHANGED <<tableVars, nextId, brokerVars, boundVars>>

\* The process dies, or its drain grace expires and the pass is cancelled.  A
\* produce in flight may still be appended.
Crash(r) ==
    /\ Fault
    /\ pc[r] # "down"
    /\ orphan' = [i \in Ids |-> IF pc[r] = "producing" /\ i = cur[r]
                                THEN orphan[i] + 1 ELSE orphan[i]]
    /\ EndPass(r, "down")
    /\ UNCHANGED <<tableVars, nextId, log>>

Restart(r) ==
    /\ pc[r] = "down"
    /\ pc' = [pc EXCEPT ![r] = "idle"]
    /\ UNCHANGED <<tableVars, nextId, passVars, brokerVars, boundVars>>

-----------------------------------------------------------------------------
(* The purger and the operator.                                            *)

\* Mutant: everything decided is old enough to go.
PurgePublished_FailedToo(S) ==
    /\ S # {} /\ Cardinality(S) <= PurgeBatch
    /\ \A i \in S : status[i] \in {"published", "failed"}
    /\ status' = [i \in Ids |-> IF i \in S THEN "purged" ELSE status[i]]
    /\ UNCHANGED <<attempts, due, lastError, nextId, pc, passVars, brokerVars, boundVars>>

\* One page of the purge: published rows past the retention.
PurgePublished(S) ==
    /\ S # {} /\ Cardinality(S) <= PurgeBatch
    /\ \A i \in S : status[i] = "published"
    /\ status' = [i \in Ids |-> IF i \in S THEN "purged" ELSE status[i]]
    /\ UNCHANGED <<attempts, due, lastError, nextId, pc, passVars, brokerVars, boundVars>>

\* The documented UPDATE that gets a parked row moving again.
ReplayFailed(i) ==
    /\ status[i] = "failed"
    /\ status' = [status EXCEPT ![i] = "pending"]
    /\ attempts' = [attempts EXCEPT ![i] = 0]
    /\ due' = [due EXCEPT ![i] = TRUE]
    /\ lastError' = [lastError EXCEPT ![i] = "none"]
    /\ UNCHANGED <<nextId, pc, passVars, brokerVars, boundVars>>

-----------------------------------------------------------------------------

\* What a relay does on its own, errors of others aside.
RelayStep(r) ==
    \/ \E S \in SUBSET Ids : ClaimPending(r, S)
    \/ \E i \in Ids : Produce(r, i)
    \/ Acked(r) \/ MarkPublished(r) \/ MarkFailed(r) \/ Reschedule(r)
    \/ Commit(r) \/ RollBack(r) \/ Restart(r)

Trouble(r) ==
    \/ \E i \in Ids : Unroutable(r, i)
    \/ PermanentError(r) \/ TransientError(r)
    \/ ClaimFails(r) \/ SessionLost(r) \/ CommitUnanswered(r) \/ Crash(r)

Surroundings ==
    \/ Insert
    \/ \E i \in Ids, outcome \in {"pending", "aborted"} : EndInsert(i, outcome)
    \/ \E i \in Ids : BecomeDue(i) \/ LateAppend(i) \/ ReplayFailed(i)
    \/ \E S \in SUBSET Ids : PurgePublished(S)

Next ==
    \/ \E r \in Relays : RelayStep(r) \/ EmptyPass(r) \/ Trouble(r)
    \/ Surroundings

Spec == Init /\ [][Next]_vars

-----------------------------------------------------------------------------
(* Properties.                                                             *)

Delivered == {log[k] : k \in DOMAIN log}
Visible   == {i \in Ids : status[i] \in {"pending", "published", "failed", "purged"}}

\* Every variable keeps its type: the columns of 0001_init.sql and the local
\* state of Execute.
TypeOK ==
    /\ status \in [Ids -> Status]
    /\ attempts \in [Ids -> Nat]
    /\ due \in [Ids -> BOOLEAN]
    /\ lastError \in [Ids -> Reason]
    /\ nextId \in 1 .. MaxRows + 1
    /\ pc \in [Relays -> Control]
    /\ session \in [Relays -> {"none", "open", "lost"}]
    /\ claim \in [Relays -> SUBSET Ids]
    /\ todo \in [Relays -> SUBSET Ids]
    /\ cur \in [Relays -> Ids \cup {NoRow}]
    /\ marks \in [Relays -> [Ids -> Mark]]
    /\ log \in Seq(Ids)
    /\ orphan \in [Ids -> Nat]
    /\ faults \in Nat /\ rejections \in Nat

\* A row is marked published, and later purged, only when the broker has its
\* record: "mark only after a durable ack", across crashes and lost sessions.
NoLostEvent == \A i \in Ids : status[i] \in {"published", "purged"} => i \in Delivered

\* No event of a transaction that rolled back or has not committed reaches the
\* broker, late appends included: rows are claimed by committed state.
NoPhantom == Delivered \subseteq Visible

\* Two transactions that hold their locks never hold the same row: SKIP LOCKED.
\* What they hold is still pending, so no mark can meet a decided row.
ClaimsDisjoint ==
    \A r1, r2 \in Relays :
        session[r1] = "open" /\ session[r2] = "open" =>
            /\ r1 # r2 => claim[r1] \cap claim[r2] = {}
            /\ \A i \in claim[r1] : status[i] = "pending"

\* The blast radius: one failure of a pass costs at most a batch of duplicates,
\* one error on a produce at most one.
DuplicatesBounded ==
    Len(log) <= Cardinality(Delivered) + BatchSize * faults + rejections

\* Per-aggregate ordering: an event is never delivered while an older event of
\* the same aggregate is still waiting for its first delivery.
PerAggregateOrder ==
    \A i, j \in Ids :
        i < j /\ AggregateOf[i] = AggregateOf[j] /\ j \in Delivered
            => ~(status[i] = "pending" /\ i \notin Delivered)

\* A decided row stays decided: published rows only leave by the purge, and a
\* parked row only by the operator's replay, which starts its attempts over.
KeepsDecisions ==
    \A i \in Ids :
        /\ status[i] = "published" => status'[i] \in {"published", "purged"}
        /\ status[i] = "failed" => \/ status'[i] = "failed"
                                   \/ status'[i] = "pending" /\ attempts'[i] = 0
        /\ status[i] = "purged" => status'[i] = "purged"
DecisionsStand == [][KeepsDecisions]_vars

\* One pass charges one attempt at most: an outage must not burn the attempts
\* of a whole batch.
OneAttemptPerPass ==
    [][ \A i, j \in Ids :
            attempts'[i] > attempts[i] /\ attempts'[j] > attempts[j] => i = j ]_vars

\* No row is published by two relays at the same time.
NoConcurrentPublish ==
    \A r1, r2 \in Relays :
        r1 # r2 /\ pc[r1] = "producing" /\ pc[r2] = "producing" => cur[r1] # cur[r2]

-----------------------------------------------------------------------------
(* The inductive invariant behind the theorems: why the properties hold.   *)

\* Between passes a relay holds nothing, and only an open session has marks.
PassOwnsState ==
    \A r \in Relays :
        /\ pc[r] \notin InPass => session[r] = "none" /\ claim[r] = {}
        /\ session[r] # "open" => marks[r] = NoMarks

\* The loop works through the rows it claimed, and marks only those.
WorksOnClaim ==
    \A r \in Relays :
        /\ todo[r] \subseteq claim[r]
        /\ pc[r] \in InPass \ {"work"} => cur[r] \in todo[r]
        /\ \A i \in Ids : marks[r][i] # "none" => i \in claim[r]

\* A mark "published", staged or about to be, has its record in the log.
MarkAfterAck ==
    \A r \in Relays :
        /\ pc[r] = "acked" => cur[r] \in Delivered
        /\ \A i \in Ids : marks[r][i] = "published" => i \in Delivered

\* What a relay or the network holds is the id of a committed row, even when
\* the session is gone.
HeldRowsVisible ==
    /\ \A r \in Relays : claim[r] \subseteq Visible
    /\ \A i \in Ids : orphan[i] > 0 => i \in Visible

\* The sequence never hands out an id twice.
FreshIds == \A i \in Ids : i >= nextId => status[i] = "absent"

\* Together with the types and the properties above this is preserved by every
\* step of the code, whatever the number of rows, relays and failures.
IndInv ==
    /\ TypeOK
    /\ PassOwnsState /\ WorksOnClaim /\ MarkAfterAck /\ HeldRowsVisible /\ FreshIds
    /\ NoLostEvent /\ NoPhantom /\ ClaimsDisjoint
-----------------------------------------------------------------------------
(* The promise these passes keep: the abstract outbox of AtLeastOnce.      *)

FateOf(i) == CASE status[i] \in {"absent", "inserting", "aborted"} -> "none"
               [] status[i] = "pending" -> "owed"
               [] status[i] \in {"published", "purged"} -> "settled"
               [] status[i] = "failed" -> "parked"

Fate == [i \in Ids |-> FateOf(i)]

Promise == INSTANCE AtLeastOnce WITH
               Events <- Ids,
               fate <- Fate,
               delivered <- Delivered

\* Every step of the relays, the purge and the operator is a step of the
\* abstract outbox or changes nothing it can see.
KeepsPromise == Promise!Spec
=============================================================================
