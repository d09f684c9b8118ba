--------------------------- MODULE OutboxRelay_proofs ---------------------------
(***************************************************************************)
(* Proofs about the relay passes, for any number of rows, relays, batch    *)
(* sizes and failures.                                                     *)
(***************************************************************************)
EXTENDS OutboxRelay, FiniteSetTheorems, TLAPS

\* A record appended to the log is delivered, and so is all that was before:
\* what Acked and LateAppend do to the broker.
LEMMA AppendDelivers ==
    ASSUME NEW s \in Seq(Ids), NEW e \in Ids
    PROVE  /\ Append(s, e) \in Seq(Ids)
           /\ {Append(s, e)[k] : k \in DOMAIN Append(s, e)}
                = {s[k] : k \in DOMAIN s} \cup {e}
<1>1. Append(s, e) \in Seq(Ids)
  OBVIOUS
<1>2. /\ Len(Append(s, e)) = Len(s) + 1
      /\ \A k \in 1 .. Len(s) : Append(s, e)[k] = s[k]
      /\ Append(s, e)[Len(s) + 1] = e
  OBVIOUS
<1>3. DOMAIN s = 1 .. Len(s) /\ DOMAIN Append(s, e) = 1 .. Len(s) + 1 /\ Len(s) \in Nat
  BY <1>1, <1>2
<1>4. 1 .. Len(s) + 1 = (1 .. Len(s)) \cup {Len(s) + 1}
  BY <1>3
<1> QED
  BY <1>1, <1>2, <1>3, <1>4

-----------------------------------------------------------------------------
(* Types.                                                                  *)

LEMMA TypeInit == Init => TypeOK
  BY MaxRowsAssumption, BoundsAssumption
  DEF Init, TypeOK, Ids, NoRow, NoMarks, Status, Mark, Reason, InPass, Control

LEMMA TypeStep ==
    ASSUME TypeOK, WorksOnClaim, [Next]_vars
    PROVE  TypeOK'
<1> USE MaxRowsAssumption, BoundsAssumption
    DEF TypeOK, Status, Mark, Reason, InPass, Control, tableVars, passVars, brokerVars, boundVars
<1>0. ASSUME NEW r \in Relays, pc[r] \in InPass \ {"work"}
      PROVE  cur[r] \in Ids
  BY <1>0 DEF WorksOnClaim
<1>1. CASE Insert
  BY <1>1 DEF Insert, Ids
<1>2. ASSUME NEW i \in Ids, NEW outcome \in {"pending", "aborted"}, EndInsert(i, outcome)
      PROVE  TypeOK'
  BY <1>2 DEF EndInsert
<1>3. ASSUME NEW i \in Ids, BecomeDue(i)
      PROVE  TypeOK'
  BY <1>3 DEF BecomeDue
<1>4. ASSUME NEW r \in Relays, NEW S \in SUBSET Ids, ClaimPending(r, S)
      PROVE  TypeOK'
  BY <1>4 DEF ClaimPending
<1>5. ASSUME NEW r \in Relays, EmptyPass(r)
      PROVE  TypeOK'
  BY <1>5 DEF EmptyPass
<1>6. ASSUME NEW r \in Relays, ClaimFails(r)
      PROVE  TypeOK'
  BY <1>6 DEF ClaimFails, Fault
<1>7. ASSUME NEW r \in Relays, NEW i \in Ids, Produce(r, i)
      PROVE  TypeOK'
  BY <1>7 DEF Produce
<1>8. ASSUME NEW r \in Relays, NEW i \in Ids, Unroutable(r, i)
      PROVE  TypeOK'
  BY <1>8 DEF Unroutable, Rejection
<1>9. ASSUME NEW r \in Relays, PermanentError(r)
      PROVE  TypeOK'
  BY <1>9 DEF PermanentError, Rejection
<1>10. ASSUME NEW r \in Relays, TransientError(r)
      PROVE  TypeOK'
  BY <1>0, <1>10 DEF TransientError, Rejection
<1>11. ASSUME NEW i \in Ids, LateAppend(i)
      PROVE  TypeOK'
  BY <1>11, AppendDelivers DEF LateAppend
<1>12. ASSUME NEW r \in Relays, MarkPublished(r) \/ MarkFailed(r) \/ Reschedule(r)
      PROVE  TypeOK'
  <2>1. ASSUME NEW mark \in Mark, NEW rest \in SUBSET Ids, StageMark(r, mark, rest)
        PROVE  TypeOK'
    BY <2>1 DEF StageMark
  <2>2. todo[r] \ {cur[r]} \in SUBSET Ids /\ {} \in SUBSET Ids
    OBVIOUS
  <2> QED
    BY <1>12, <2>1, <2>2 DEF MarkPublished, MarkFailed, Reschedule
<1>13. ASSUME NEW r \in Relays, NEW control \in Control, EndPass(r, control)
       PROVE  /\ pc' \in [Relays -> Control]
              /\ session' \in [Relays -> {"none", "open", "lost"}]
              /\ claim' \in [Relays -> SUBSET Ids]
              /\ todo' \in [Relays -> SUBSET Ids]
              /\ cur' \in [Relays -> Ids \cup {NoRow}]
              /\ marks' \in [Relays -> [Ids -> Mark]]
  BY <1>13 DEF EndPass, NoMarks
<1>14. ASSUME NEW m \in [Ids -> Mark], ApplyMarks(m)
       PROVE  /\ status' \in [Ids -> Status]
              /\ attempts' \in [Ids -> Nat]
              /\ due' \in [Ids -> BOOLEAN]
              /\ lastError' \in [Ids -> Reason]
  BY <1>14 DEF ApplyMarks
<1>15. ASSUME NEW r \in Relays, Commit(r)
       PROVE  TypeOK'
  BY <1>13, <1>14, <1>15 DEF Commit
<1>16. ASSUME NEW r \in Relays, CommitUnanswered(r)
       PROVE  TypeOK'
  BY <1>13, <1>14, <1>16 DEF CommitUnanswered, Fault
<1>17. ASSUME NEW r \in Relays, SessionLost(r)
       PROVE  TypeOK'
  BY <1>17 DEF SessionLost, Fault, NoMarks
<1>18. ASSUME NEW r \in Relays, RollBack(r)
       PROVE  TypeOK'
  BY <1>13, <1>18 DEF RollBack
<1>19. ASSUME NEW r \in Relays, Crash(r)
       PROVE  TypeOK'
  BY <1>13, <1>19 DEF Crash, Fault
<1>20. ASSUME NEW r \in Relays, Restart(r)
       PROVE  TypeOK'
  BY <1>20 DEF Restart
<1>21. ASSUME NEW S \in SUBSET Ids, PurgePublished(S)
       PROVE  TypeOK'
  BY <1>21 DEF PurgePublished
<1>22. ASSUME NEW i \in Ids, ReplayFailed(i)
       PROVE  TypeOK'
  BY <1>22 DEF ReplayFailed
<1>23. CASE UNCHANGED vars
  BY <1>23 DEF vars
<1>24. ASSUME NEW r \in Relays, Acked(r)
       PROVE  TypeOK'
  <2>1. cur[r] \in Ids
    BY <1>0, <1>24 DEF Acked
  <2> QED
    BY <1>24, <2>1, AppendDelivers DEF Acked
<1> QED
  BY <1>1, <1>2, <1>3, <1>4, <1>5, <1>6, <1>7, <1>8, <1>9, <1>10, <1>11, <1>12,
     <1>15, <1>16, <1>17, <1>18, <1>19, <1>20, <1>21, <1>22, <1>23, <1>24
  DEF Next, RelayStep, Trouble, Surroundings

-----------------------------------------------------------------------------
(* What a step can do to a row and to the log.                             *)

\* A mark the transaction of r commits meets a row that is still pending: the
\* lock kept everybody else away from it.
LEMMA MarksMeetPending ==
    ASSUME IndInv, NEW r \in Relays, NEW i \in Ids, marks[r][i] # "none"
    PROVE  session[r] = "open" /\ i \in claim[r] /\ status[i] = "pending"
  BY DEF IndInv, PassOwnsState, WorksOnClaim, ClaimsDisjoint, NoMarks

\* The life of a row: these are the only moves a step makes with it.
LifeOfRow(i) ==
    \/ status'[i] = status[i] /\ attempts'[i] >= attempts[i]
    \/ status[i] = "absent" /\ status'[i] = "inserting" /\ i = nextId /\ nextId' = nextId + 1
    \/ status[i] = "inserting" /\ status'[i] \in {"pending", "aborted"}
    \/ /\ status[i] = "pending" /\ status'[i] \in {"published", "failed"}
       /\ \E r \in Relays : marks[r][i] = status'[i] /\ session'[r] = "none"
    \/ status[i] = "published" /\ status'[i] = "purged"
    \/ status[i] = "failed" /\ status'[i] = "pending" /\ attempts'[i] = 0

LEMMA RowStep ==
    ASSUME IndInv, [Next]_vars, NEW i \in Ids
    PROVE  LifeOfRow(i)
<1> USE DEF LifeOfRow, tableVars
<1>0. /\ status \in [Ids -> Status] /\ attempts \in [Ids -> Nat] /\ nextId \in Nat
      /\ marks \in [Relays -> [Ids -> Mark]]
      /\ session \in [Relays -> {"none", "open", "lost"}]
  BY MaxRowsAssumption DEF IndInv, TypeOK
<1>1. CASE Insert
  <2>1. nextId \in Ids /\ status[nextId] = "absent"
    BY <1>0, <1>1, MaxRowsAssumption DEF Insert, Ids, IndInv, TypeOK, FreshIds
  <2> QED
    BY <1>0, <1>1, <2>1 DEF Insert
<1>2. CASE \E j \in Ids, outcome \in {"pending", "aborted"} : EndInsert(j, outcome)
  BY <1>0, <1>2 DEF EndInsert
<1>3. CASE \E S \in SUBSET Ids : PurgePublished(S)
  BY <1>0, <1>3 DEF PurgePublished
<1>4. CASE \E j \in Ids : ReplayFailed(j)
  BY <1>0, <1>4 DEF ReplayFailed
<1>5. ASSUME NEW r \in Relays, ApplyMarks(marks[r]), session'[r] = "none"
      PROVE  LifeOfRow(i)
  <2>1. CASE marks[r][i] = "none"
    BY <1>0, <1>5, <2>1 DEF ApplyMarks
  <2>2. CASE marks[r][i] # "none"
    <3>1. status[i] = "pending" /\ marks[r][i] \in {"published", "retry", "failed"}
      BY <1>0, <2>2, MarksMeetPending DEF Mark
    <3> QED
      BY <1>0, <1>5, <3>1 DEF ApplyMarks
  <2> QED
    BY <2>1, <2>2
<1>6. CASE status' = status /\ attempts' = attempts
  BY <1>0, <1>6
<1>7. ASSUME NEW r \in Relays, RelayStep(r) \/ EmptyPass(r) \/ Trouble(r)
      PROVE  \/ ApplyMarks(marks[r]) /\ session'[r] = "none"
             \/ status' = status /\ attempts' = attempts
  <2>1. CASE Commit(r) \/ CommitUnanswered(r)
    BY <1>0, <2>1 DEF Commit, CommitUnanswered, EndPass
  <2>2. CASE EmptyPass(r) \/ (Trouble(r) /\ ~CommitUnanswered(r))
    BY <2>2 DEF EmptyPass, Trouble, Unroutable, PermanentError, TransientError, ClaimFails,
       SessionLost, Crash
  <2>3. CASE RelayStep(r) /\ ~Commit(r)
    BY <2>3 DEF RelayStep, ClaimPending, Produce, Acked, MarkPublished, MarkFailed, Reschedule,
       StageMark, RollBack, Restart
  <2> QED
    BY <1>7, <2>1, <2>2, <2>3
<1>8. ASSUME NEW j \in Ids, BecomeDue(j) \/ LateAppend(j)
      PROVE  status' = status /\ attempts' = attempts
  BY <1>8 DEF BecomeDue, LateAppend
<1>9. CASE UNCHANGED vars
  BY <1>6, <1>9 DEF vars
<1> QED
  BY <1>1, <1>2, <1>3, <1>4, <1>5, <1>6, <1>7, <1>8, <1>9 DEF Next, Surroundings

\* A committed row never becomes invisible again.
LEMMA VisibleGrows ==
    ASSUME IndInv, [Next]_vars
    PROVE  Visible \subseteq Visible'
  BY RowStep DEF LifeOfRow, Visible

\* The log only grows, and only by rows that are committed: the one in the
\* hands of a relay, or one of a request still under way.
LEMMA LogStep ==
    ASSUME IndInv, [Next]_vars
    PROVE  /\ Delivered \subseteq Delivered'
           /\ Delivered' \subseteq Delivered \cup Visible
           /\ \A r \in Relays : Acked(r) => cur[r] \in Delivered'
<1>0. log \in Seq(Ids)
  BY DEF IndInv, TypeOK
<1>1. ASSUME NEW r \in Relays, Acked(r)
      PROVE  /\ Delivered \subseteq Delivered'
             /\ Delivered' \subseteq Delivered \cup Visible
             /\ cur[r] \in Delivered'
  <2>1. cur[r] \in Ids /\ cur[r] \in Visible
    BY <1>1 DEF Acked, InPass, IndInv, WorksOnClaim, HeldRowsVisible, Visible
  <2>2. Delivered' = Delivered \cup {cur[r]}
    BY <1>0, <1>1, <2>1, AppendDelivers DEF Acked, Delivered
  <2> QED
    BY <2>1, <2>2
<1>2. ASSUME NEW i \in Ids, LateAppend(i)
      PROVE  /\ Delivered \subseteq Delivered'
             /\ Delivered' \subseteq Delivered \cup Visible
  <2>1. i \in Visible
    BY <1>2 DEF LateAppend, IndInv, HeldRowsVisible
  <2>2. Delivered' = Delivered \cup {i}
    BY <1>0, <1>2, AppendDelivers DEF LateAppend, Delivered
  <2> QED
    BY <2>1, <2>2
<1>3. CASE log' = log
  <2>1. Delivered' = Delivered
    BY <1>3 DEF Delivered
  <2> QED
    BY <1>1, <2>1
<1>4. ASSUME NEW r \in Relays, RelayStep(r) \/ EmptyPass(r) \/ Trouble(r)
      PROVE  Acked(r) \/ log' = log
  BY <1>4 DEF RelayStep, ClaimPending, Produce, MarkPublished, MarkFailed, Reschedule,
     StageMark, Commit, RollBack, Restart, EmptyPass, Trouble, Unroutable, PermanentError,
     TransientError, ClaimFails, SessionLost, CommitUnanswered, Crash, brokerVars
<1>5. CASE Surroundings
  <2>1. (\E i \in Ids : LateAppend(i)) \/ log' = log
    BY <1>5 DEF Surroundings, Insert, EndInsert, BecomeDue, ReplayFailed, PurgePublished, brokerVars
  <2> QED
    BY <1>1, <1>2, <1>3, <2>1
<1>6. CASE UNCHANGED vars
  BY <1>3, <1>6 DEF vars, brokerVars
<1> QED
  BY <1>1, <1>3, <1>4, <1>5, <1>6 DEF Next

-----------------------------------------------------------------------------
(* The inductive invariant, a conjunct at a time.                          *)

\* The steps that touch what relays hold, by what they do to it.
LEMMA PassCases ==
    ASSUME [Next]_vars
    PROVE  \/ UNCHANGED <<pc, passVars>>
           \/ \E r \in Relays :
                \/ \E S \in SUBSET Ids : ClaimPending(r, S)
                \/ EmptyPass(r) \/ ClaimFails(r) \/ Restart(r)
                \/ \E i \in Ids : Produce(r, i) \/ Unroutable(r, i)
                \/ Acked(r) \/ PermanentError(r) \/ TransientError(r)
                \/ MarkPublished(r) \/ MarkFailed(r) \/ Reschedule(r)
                \/ SessionLost(r)
                \/ Commit(r) \/ CommitUnanswered(r) \/ RollBack(r) \/ Crash(r)
<1>1. CASE Surroundings
  BY <1>1 DEF Surroundings, Insert, EndInsert, BecomeDue, LateAppend, ReplayFailed, PurgePublished
<1>2. CASE UNCHANGED vars
  BY <1>2 DEF vars
<1> QED
  BY <1>1, <1>2 DEF Next, RelayStep, Trouble

\* A pass starts from nothing, marks only rows it claimed and is working on,
\* and leaves nothing behind, however it ends.
LEMMA PassStep ==
    ASSUME IndInv, [Next]_vars
    PROVE  PassOwnsState' /\ WorksOnClaim'
<1> USE DEF PassOwnsState, WorksOnClaim, InPass, passVars
<1>0. /\ PassOwnsState /\ WorksOnClaim
      /\ pc \in [Relays -> Control] /\ session \in [Relays -> {"none", "open", "lost"}]
      /\ claim \in [Relays -> SUBSET Ids] /\ todo \in [Relays -> SUBSET Ids]
      /\ cur \in [Relays -> Ids \cup {NoRow}] /\ marks \in [Relays -> [Ids -> Mark]]
  BY DEF IndInv, TypeOK
<1>1. CASE UNCHANGED <<pc, passVars>>
  BY <1>0, <1>1
<1>2. ASSUME NEW r \in Relays, NEW S \in SUBSET Ids, ClaimPending(r, S)
      PROVE  PassOwnsState' /\ WorksOnClaim'
  BY <1>0, <1>2 DEF ClaimPending, Between, NoMarks
<1>3. ASSUME NEW r \in Relays, EmptyPass(r) \/ ClaimFails(r) \/ Restart(r)
      PROVE  PassOwnsState' /\ WorksOnClaim'
  <2>1. PassOwnsState'
    BY <1>0, <1>3 DEF EmptyPass, ClaimFails, Restart, Between
  <2>2. WorksOnClaim'
    BY <1>0, <1>3 DEF EmptyPass, ClaimFails, Restart, Between
  <2> QED
    BY <2>1, <2>2
<1>4. ASSUME NEW r \in Relays, NEW i \in Ids, Produce(r, i) \/ Unroutable(r, i)
      PROVE  PassOwnsState' /\ WorksOnClaim'
  <2>1. PassOwnsState'
    BY <1>0, <1>4 DEF Produce, Unroutable, IsNext
  <2>2. WorksOnClaim'
    BY <1>0, <1>4 DEF Produce, Unroutable, IsNext
  <2> QED
    BY <2>1, <2>2
<1>5. ASSUME NEW r \in Relays, Acked(r) \/ PermanentError(r) \/ TransientError(r)
      PROVE  PassOwnsState' /\ WorksOnClaim'
  <2>1. PassOwnsState'
    BY <1>0, <1>5 DEF Acked, PermanentError, TransientError
  <2>2. WorksOnClaim'
    BY <1>0, <1>5 DEF Acked, PermanentError, TransientError
  <2> QED
    BY <2>1, <2>2
<1>6. ASSUME NEW r \in Relays, MarkPublished(r) \/ MarkFailed(r) \/ Reschedule(r)
      PROVE  PassOwnsState' /\ WorksOnClaim'
  <2>1. PassOwnsState'
    BY <1>0, <1>6 DEF MarkPublished, MarkFailed, Reschedule, StageMark
  <2>2. WorksOnClaim'
    BY <1>0, <1>6 DEF MarkPublished, MarkFailed, Reschedule, StageMark
  <2> QED
    BY <2>1, <2>2
<1>7. ASSUME NEW r \in Relays, SessionLost(r)
      PROVE  PassOwnsState' /\ WorksOnClaim'
  BY <1>0, <1>7 DEF SessionLost, NoMarks
<1>8. ASSUME NEW r \in Relays, Commit(r) \/ CommitUnanswered(r) \/ RollBack(r) \/ Crash(r)
      PROVE  PassOwnsState' /\ WorksOnClaim'
  <2>1. PICK control \in {"idle", "rolledback", "down"} : EndPass(r, control)
    BY <1>8 DEF Commit, CommitUnanswered, RollBack, Crash
  <2>2. PassOwnsState'
    BY <1>0, <2>1 DEF EndPass, NoMarks
  <2>3. WorksOnClaim'
    BY <1>0, <2>1 DEF EndPass, NoMarks
  <2> QED
    BY <2>2, <2>3
<1> QED
  BY <1>1, <1>2, <1>3, <1>4, <1>5, <1>6, <1>7, <1>8, PassCases

\* A row is marked published only after its ack: the ack puts the row in the
\* log, which never shrinks.
LEMMA AckStep ==
    ASSUME IndInv, [Next]_vars
    PROVE  MarkAfterAck'
<1> USE DEF MarkAfterAck, passVars
<1>0. /\ MarkAfterAck /\ Delivered \subseteq Delivered'
      /\ pc \in [Relays -> Control] /\ cur \in [Relays -> Ids \cup {NoRow}]
      /\ marks \in [Relays -> [Ids -> Mark]]
  BY LogStep DEF IndInv, TypeOK
<1>1. CASE UNCHANGED <<pc, passVars>>
  BY <1>0, <1>1
<1>2. ASSUME NEW r \in Relays, NEW S \in SUBSET Ids, ClaimPending(r, S)
      PROVE  MarkAfterAck'
  BY <1>0, <1>2 DEF ClaimPending
<1>3. ASSUME NEW r \in Relays, EmptyPass(r) \/ ClaimFails(r) \/ Restart(r)
      PROVE  MarkAfterAck'
  BY <1>0, <1>3 DEF EmptyPass, ClaimFails, Restart
<1>4. ASSUME NEW r \in Relays, NEW i \in Ids, Produce(r, i) \/ Unroutable(r, i)
      PROVE  MarkAfterAck'
  BY <1>0, <1>4 DEF Produce, Unroutable
<1>5. ASSUME NEW r \in Relays, Acked(r) \/ PermanentError(r) \/ TransientError(r)
      PROVE  MarkAfterAck'
  <2>1. Acked(r) => cur[r] \in Delivered'
    BY LogStep
  <2> QED
    BY <1>0, <1>5, <2>1 DEF Acked, PermanentError, TransientError
<1>6. ASSUME NEW r \in Relays, MarkPublished(r) \/ MarkFailed(r) \/ Reschedule(r)
      PROVE  MarkAfterAck'
  BY <1>0, <1>6 DEF MarkPublished, MarkFailed, Reschedule, StageMark
<1>7. ASSUME NEW r \in Relays, SessionLost(r)
      PROVE  MarkAfterAck'
  BY <1>0, <1>7 DEF SessionLost, NoMarks
<1>8. ASSUME NEW r \in Relays, Commit(r) \/ CommitUnanswered(r) \/ RollBack(r) \/ Crash(r)
      PROVE  MarkAfterAck'
  BY <1>0, <1>8 DEF Commit, CommitUnanswered, RollBack, Crash, EndPass, NoMarks
<1> QED
  BY <1>1, <1>2, <1>3, <1>4, <1>5, <1>6, <1>7, <1>8, PassCases

\* What is held names committed rows: claims are taken from pending rows, an
\* abandoned request is for a claimed one, and visible rows stay visible.
LEMMA HeldStep ==
    ASSUME IndInv, [Next]_vars
    PROVE  HeldRowsVisible'
<1> USE DEF HeldRowsVisible, passVars, brokerVars
<1>0. /\ HeldRowsVisible /\ WorksOnClaim /\ Visible \subseteq Visible'
      /\ claim \in [Relays -> SUBSET Ids] /\ orphan \in [Ids -> Nat]
      /\ pc \in [Relays -> Control]
  BY VisibleGrows DEF IndInv, TypeOK
<1>1. \A r \in Relays : claim'[r] \subseteq Visible'
  <2>1. CASE UNCHANGED <<pc, passVars>>
    BY <1>0, <2>1
  <2>2. ASSUME NEW r \in Relays, NEW S \in SUBSET Ids, ClaimPending(r, S)
        PROVE  \A q \in Relays : claim'[q] \subseteq Visible'
    <3>1. S \subseteq Visible
      BY <2>2 DEF ClaimPending, IsBatch, Claimable, Visible
    <3> QED
      BY <1>0, <2>2, <3>1 DEF ClaimPending
  <2>3. ASSUME NEW r \in Relays,
               \/ EmptyPass(r) \/ ClaimFails(r) \/ Restart(r)
               \/ \E i \in Ids : Produce(r, i) \/ Unroutable(r, i)
               \/ Acked(r) \/ PermanentError(r) \/ TransientError(r)
               \/ MarkPublished(r) \/ MarkFailed(r) \/ Reschedule(r)
               \/ SessionLost(r)
        PROVE  claim' = claim
    BY <2>3 DEF EmptyPass, ClaimFails, Restart, Produce, Unroutable, Acked, PermanentError,
       TransientError, MarkPublished, MarkFailed, Reschedule, StageMark, SessionLost
  <2>4. ASSUME NEW r \in Relays,
               Commit(r) \/ CommitUnanswered(r) \/ RollBack(r) \/ Crash(r)
        PROVE  claim' = [claim EXCEPT ![r] = {}]
    BY <2>4 DEF Commit, CommitUnanswered, RollBack, Crash, EndPass
  <2>5. CASE claim' = claim \/ \E r \in Relays : claim' = [claim EXCEPT ![r] = {}]
    BY <1>0, <2>5
  <2> QED
    BY <2>1, <2>2, <2>3, <2>4, <2>5, PassCases
<1>2. \A i \in Ids : orphan'[i] > 0 => i \in Visible'
  <2>1. ASSUME NEW r \in Relays, TransientError(r) \/ Crash(r)
        PROVE  \A i \in Ids : orphan'[i] > 0 => i \in Visible'
    <3>1. pc[r] = "producing" => cur[r] \in Visible
      BY <1>0 DEF WorksOnClaim, InPass
    <3>2. \A i \in Ids : orphan'[i] = orphan[i] \/ (i = cur[r] /\ pc[r] = "producing")
      BY <1>0, <2>1 DEF TransientError, Crash
    <3> QED
      BY <1>0, <3>1, <3>2
  <2>2. ASSUME NEW i \in Ids, LateAppend(i)
        PROVE  \A j \in Ids : orphan'[j] > 0 => j \in Visible'
    BY <1>0, <2>2 DEF LateAppend
  <2>3. CASE orphan' = orphan
    BY <1>0, <2>3
  <2>4. ASSUME NEW r \in Relays, RelayStep(r) \/ EmptyPass(r) \/ Trouble(r)
        PROVE  TransientError(r) \/ Crash(r) \/ orphan' = orphan
    BY <2>4 DEF RelayStep, ClaimPending, Produce, Acked, MarkPublished, MarkFailed, Reschedule,
       StageMark, Commit, RollBack, Restart, EmptyPass, Trouble, Unroutable, PermanentError,
       ClaimFails, SessionLost, CommitUnanswered
  <2>5. CASE Surroundings
    BY <2>2, <2>3, <2>5
    DEF Surroundings, Insert, EndInsert, BecomeDue, ReplayFailed, PurgePublished
  <2>6. CASE UNCHANGED vars
    BY <2>3, <2>6 DEF vars
  <2> QED
    BY <2>1, <2>3, <2>4, <2>5, <2>6 DEF Next
<1> QED
  BY <1>1, <1>2

\* Ids at and above the sequence are unused.
LEMMA FreshStep ==
    ASSUME IndInv, [Next]_vars
    PROVE  FreshIds'
<1>0. FreshIds /\ nextId \in Nat /\ Ids \subseteq Nat
  BY MaxRowsAssumption DEF IndInv, TypeOK, Ids
<1>1. nextId' \in {nextId, nextId + 1}
  <2>1. CASE Surroundings
    BY <2>1 DEF Surroundings, Insert, EndInsert, BecomeDue, LateAppend, ReplayFailed, PurgePublished
  <2>2. ASSUME NEW r \in Relays, RelayStep(r) \/ EmptyPass(r) \/ Trouble(r)
        PROVE  nextId' = nextId
    BY <2>2 DEF RelayStep, ClaimPending, Produce, Acked, MarkPublished, MarkFailed, Reschedule,
       StageMark, Commit, RollBack, Restart, EmptyPass, Trouble, Unroutable, PermanentError,
       TransientError, ClaimFails, SessionLost, CommitUnanswered, Crash
  <2> QED
    BY <2>1, <2>2 DEF Next, vars
<1>2. ASSUME NEW i \in Ids, i >= nextId'
      PROVE  status'[i] = "absent"
  <2>1. i >= nextId /\ ~(i = nextId /\ nextId' = nextId + 1)
    BY <1>0, <1>1, <1>2
  <2>2. status[i] = "absent"
    BY <1>0, <2>1 DEF FreshIds
  <2> QED
    BY <2>1, <2>2, RowStep DEF LifeOfRow
<1> QED
  BY <1>2 DEF FreshIds

\* A row becomes published only by a mark that followed its ack.
LEMMA NoLossStep ==
    ASSUME IndInv, [Next]_vars
    PROVE  NoLostEvent'
<1>0. /\ NoLostEvent /\ MarkAfterAck /\ Delivered \subseteq Delivered'
      /\ status \in [Ids -> Status]
  BY LogStep DEF IndInv, TypeOK
<1>1. ASSUME NEW i \in Ids, status'[i] \in {"published", "purged"}
      PROVE  i \in Delivered
  <2>1. \/ status[i] \in {"published", "purged"}
        \/ \E r \in Relays : marks[r][i] = "published"
    BY <1>1, RowStep DEF LifeOfRow
  <2> QED
    BY <1>0, <2>1 DEF NoLostEvent, MarkAfterAck
<1> QED
  BY <1>0, <1>1 DEF NoLostEvent

\* What reaches the log is committed.
LEMMA NoPhantomStep ==
    ASSUME IndInv, [Next]_vars
    PROVE  NoPhantom'
  BY LogStep, VisibleGrows DEF IndInv, NoPhantom

\* Open claims stay disjoint and pending: a new one takes unlocked rows only,
\* and a row in one is decided by the commit that gives it up.
LEMMA LockStep ==
    ASSUME IndInv, [Next]_vars
    PROVE  ClaimsDisjoint'
<1> DEFINE Kept(r)  == session[r] = "open" /\ claim'[r] = claim[r]
           Taken(r) == \E S \in SUBSET Ids : ClaimPending(r, S)
<1>0. /\ ClaimsDisjoint /\ session \in [Relays -> {"none", "open", "lost"}]
      /\ claim \in [Relays -> SUBSET Ids]
  BY DEF IndInv, TypeOK
<1>1. ASSUME NEW r \in Relays, session'[r] = "open"
      PROVE  Kept(r) \/ Taken(r)
  <2>1. CASE UNCHANGED <<pc, passVars>>
    BY <1>1, <2>1 DEF passVars
  <2>2. ASSUME NEW q \in Relays, NEW S \in SUBSET Ids, ClaimPending(q, S)
        PROVE  Kept(r) \/ Taken(r)
    BY <1>0, <1>1, <2>2 DEF ClaimPending
  <2>3. ASSUME NEW q \in Relays,
               \/ EmptyPass(q) \/ ClaimFails(q) \/ Restart(q)
               \/ \E i \in Ids : Produce(q, i) \/ Unroutable(q, i)
               \/ Acked(q) \/ PermanentError(q) \/ TransientError(q)
               \/ MarkPublished(q) \/ MarkFailed(q) \/ Reschedule(q)
        PROVE  session' = session /\ claim' = claim
    BY <2>3 DEF EmptyPass, ClaimFails, Restart, Produce, Unroutable, Acked, PermanentError,
       TransientError, MarkPublished, MarkFailed, Reschedule, StageMark, passVars
  <2>4. ASSUME NEW q \in Relays, SessionLost(q)
        PROVE  Kept(r)
    BY <1>0, <1>1, <2>4 DEF SessionLost
  <2>5. ASSUME NEW q \in Relays,
               Commit(q) \/ CommitUnanswered(q) \/ RollBack(q) \/ Crash(q)
        PROVE  Kept(r)
    <3>1. PICK control \in {"idle", "rolledback", "down"} : EndPass(q, control)
      BY <2>5 DEF Commit, CommitUnanswered, RollBack, Crash
    <3> QED
      BY <1>0, <1>1, <3>1 DEF EndPass
  <2> QED
    BY <1>1, <2>1, <2>2, <2>3, <2>4, <2>5, PassCases
<1>2. ASSUME NEW r \in Relays, session'[r] = "open", NEW i \in claim'[r]
      PROVE  status'[i] = "pending"
  <2>1. CASE Taken(r)
    BY <1>0, <1>2, <2>1 DEF ClaimPending, IsBatch, Claimable, tableVars
  <2>2. CASE Kept(r)
    <3>1. i \in Ids /\ status[i] = "pending"
      BY <1>0, <1>2, <2>2 DEF ClaimsDisjoint
    <3>2. ASSUME NEW q \in Relays, marks[q][i] # "none", session'[q] = "none"
          PROVE  FALSE
      <4>1. session[q] = "open" /\ i \in claim[q]
        BY <3>1, <3>2, MarksMeetPending
      <4>2. q = r
        BY <1>0, <1>2, <2>2, <4>1 DEF ClaimsDisjoint
      <4> QED
        BY <1>2, <3>2, <4>2
    <3> QED
      BY <3>1, <3>2, RowStep DEF LifeOfRow
  <2> QED
    BY <1>1, <1>2, <2>1, <2>2
<1>3. ASSUME NEW r \in Relays, NEW q \in Relays, r # q,
             session'[r] = "open", session'[q] = "open"
      PROVE  claim'[r] \cap claim'[q] = {}
  <2>1. CASE Kept(r) /\ Kept(q)
    BY <1>0, <1>3, <2>1 DEF ClaimsDisjoint
  <2>2. ASSUME NEW p \in Relays, NEW o \in Relays, p # o, Taken(p), session'[o] = "open"
        PROVE  claim'[p] \cap claim'[o] = {}
    <3>1. PICK S \in SUBSET Ids : ClaimPending(p, S)
      BY <2>2
    <3>2. session[o] = "open" /\ claim'[o] = claim[o] /\ claim'[p] = S
      BY <1>0, <2>2, <3>1 DEF ClaimPending
    <3>3. S \cap claim[o] = {}
      BY <3>1, <3>2 DEF ClaimPending, IsBatch, Claimable, Locked
    <3> QED
      BY <3>2, <3>3
  <2> QED
    BY <1>1, <1>3, <2>1, <2>2
<1> QED
  BY <1>2, <1>3 DEF ClaimsDisjoint

-----------------------------------------------------------------------------
(* The theorems.                                                           *)

LEMMA InvInit == Init => IndInv
<1> SUFFICES ASSUME Init
             PROVE  IndInv
  OBVIOUS
<1>1. TypeOK
  BY TypeInit
<1>2. Delivered = {}
  BY DEF Init, Delivered
<1>3. PassOwnsState /\ WorksOnClaim /\ MarkAfterAck /\ ClaimsDisjoint
  BY DEF Init, PassOwnsState, WorksOnClaim, MarkAfterAck, ClaimsDisjoint, InPass, NoMarks
<1>4. HeldRowsVisible /\ FreshIds /\ NoLostEvent /\ NoPhantom
  BY <1>2 DEF Init, HeldRowsVisible, FreshIds, NoLostEvent, NoPhantom
<1> QED
  BY <1>1, <1>3, <1>4 DEF IndInv

LEMMA InvStep ==
    ASSUME IndInv, [Next]_vars
    PROVE  IndInv'
<1>1. TypeOK'
  BY TypeStep DEF IndInv
<1> QED
  BY <1>1, PassStep, AckStep, HeldStep, FreshStep, NoLossStep, NoPhantomStep, LockStep DEF IndInv

\* The inductive invariant holds in every reachable state, with every number
\* of rows, relays and failures.
THEOREM Invariance == Spec => []IndInv
  BY InvInit, InvStep, PTL DEF Spec

\* Every reachable state has the types of the schema and of Execute's locals.
THEOREM TypeCorrect == Spec => []TypeOK
<1>1. IndInv => TypeOK
  BY DEF IndInv
<1> QED
  BY <1>1, Invariance, PTL

\* "Mark only after a durable ack": no row is published or purged whose record
\* the broker does not have.
THEOREM NothingLost == Spec => []NoLostEvent
<1>1. IndInv => NoLostEvent
  BY DEF IndInv
<1> QED
  BY <1>1, Invariance, PTL

\* No event of an uncommitted or rolled back transaction is ever in the log.
THEOREM NothingInvented == Spec => []NoPhantom
<1>1. IndInv => NoPhantom
  BY DEF IndInv
<1> QED
  BY <1>1, Invariance, PTL

\* FOR UPDATE SKIP LOCKED keeps open claims apart, and their rows pending.
THEOREM MutualExclusion == Spec => []ClaimsDisjoint
<1>1. IndInv => ClaimsDisjoint
  BY DEF IndInv
<1> QED
  BY <1>1, Invariance, PTL

\* What a transaction decided is never undone, by a relay that lost its session
\* least of all.
THEOREM DecisionsStandAlways == Spec => DecisionsStand
<1>1. IndInv /\ [Next]_vars => [KeepsDecisions]_vars
  <2> SUFFICES ASSUME IndInv, [Next]_vars
               PROVE  KeepsDecisions
    OBVIOUS
  <2>1. \A i \in Ids : LifeOfRow(i)
    BY RowStep
  <2> QED
    BY <2>1 DEF LifeOfRow, KeepsDecisions
<1> QED
  BY <1>1, Invariance, PTL DEF Spec, DecisionsStand

-----------------------------------------------------------------------------
(* The blast radius of an outage.                                          *)

\* A reschedule is the last thing a pass does: no claimed row is left to try,
\* and so no second row is charged.
RetryEndsBatch ==
    \A r \in Relays : \A i \in Ids :
        marks[r][i] = "retry" =>
            todo[r] = {} /\ \A j \in Ids : marks[r][j] = "retry" => i = j

LEMMA RetryStep ==
    ASSUME IndInv, RetryEndsBatch, [Next]_vars
    PROVE  RetryEndsBatch'
<1> USE DEF RetryEndsBatch, passVars
<1>0. /\ PassOwnsState /\ WorksOnClaim
      /\ pc \in [Relays -> Control]
      /\ todo \in [Relays -> SUBSET Ids] /\ marks \in [Relays -> [Ids -> Mark]]
  BY DEF IndInv, TypeOK
<1>1. ASSUME UNCHANGED <<todo, marks>>
      PROVE  RetryEndsBatch'
  BY <1>1
<1>2. ASSUME NEW r \in Relays, marks'[r] = NoMarks,
             \A q \in Relays \ {r} : marks'[q] = marks[q] /\ todo'[q] = todo[q]
      PROVE  RetryEndsBatch'
  BY <1>2 DEF NoMarks
<1>3. ASSUME NEW r \in Relays, NEW S \in SUBSET Ids, ClaimPending(r, S)
      PROVE  RetryEndsBatch'
  <2>1. marks[r] = NoMarks
    BY <1>0, <1>3 DEF ClaimPending, Between, PassOwnsState, InPass
  <2> QED
    BY <1>0, <1>2, <1>3, <2>1 DEF ClaimPending
<1>4. ASSUME NEW r \in Relays, MarkPublished(r) \/ MarkFailed(r) \/ Reschedule(r)
      PROVE  RetryEndsBatch'
  <2>1. cur[r] \in todo[r] /\ \A i \in Ids : marks[r][i] # "retry"
    BY <1>0, <1>4 DEF MarkPublished, MarkFailed, Reschedule, WorksOnClaim, InPass
  <2>2. CASE MarkPublished(r) \/ MarkFailed(r)
    <3>1. \A i \in Ids : marks'[r][i] # "retry"
      BY <1>0, <2>1, <2>2 DEF MarkPublished, MarkFailed, StageMark
    <3>2. \A q \in Relays \ {r} : marks'[q] = marks[q] /\ todo'[q] = todo[q]
      BY <1>0, <2>2 DEF MarkPublished, MarkFailed, StageMark
    <3> QED
      BY <3>1, <3>2
  <2>3. CASE Reschedule(r)
    BY <1>0, <2>1, <2>3 DEF Reschedule, StageMark
  <2> QED
    BY <1>4, <2>2, <2>3
<1>5. ASSUME NEW r \in Relays, Commit(r) \/ CommitUnanswered(r) \/ RollBack(r) \/ Crash(r)
      PROVE  RetryEndsBatch'
  <2>1. PICK control \in {"idle", "rolledback", "down"} : EndPass(r, control)
    BY <1>5 DEF Commit, CommitUnanswered, RollBack, Crash
  <2> QED
    BY <1>0, <1>2, <2>1 DEF EndPass
<1>6. ASSUME NEW r \in Relays, SessionLost(r)
      PROVE  RetryEndsBatch'
  BY <1>0, <1>2, <1>6 DEF SessionLost
<1>7. ASSUME NEW r \in Relays, \/ EmptyPass(r) \/ ClaimFails(r) \/ Restart(r)
                               \/ \E i \in Ids : Produce(r, i) \/ Unroutable(r, i)
                               \/ Acked(r) \/ PermanentError(r) \/ TransientError(r)
      PROVE  RetryEndsBatch'
  BY <1>1, <1>7 DEF EmptyPass, ClaimFails, Restart, Produce, Unroutable, Acked,
     PermanentError, TransientError
<1> QED
  BY <1>1, <1>3, <1>4, <1>5, <1>6, <1>7, PassCases

\* An outage charges one attempt per pass, not one per row of the batch: the
\* reschedule ends the batch, whatever its size.
THEOREM OutagesChargeOnce == Spec => OneAttemptPerPass
<1> DEFINE Charged(i) == attempts'[i] > attempts[i]
<1>1. Init => RetryEndsBatch
  BY DEF Init, RetryEndsBatch, NoMarks
<1>2. ASSUME IndInv, RetryEndsBatch, [Next]_vars
      PROVE  [\A i, j \in Ids : Charged(i) /\ Charged(j) => i = j]_vars
  <2>0. attempts \in [Ids -> Nat] /\ marks \in [Relays -> [Ids -> Mark]]
    BY <1>2 DEF IndInv, TypeOK
  <2>1. ASSUME NEW r \in Relays, ApplyMarks(marks[r])
        PROVE  \A i, j \in Ids : Charged(i) /\ Charged(j) => i = j
    <3>1. \A i \in Ids : Charged(i) => marks[r][i] = "retry"
      BY <2>0, <2>1 DEF ApplyMarks
    <3> QED
      BY <1>2, <3>1 DEF RetryEndsBatch
  <2>2. ASSUME \A i \in Ids : ~Charged(i)
        PROVE  \A i, j \in Ids : Charged(i) /\ Charged(j) => i = j
    BY <2>2
  <2>3. ASSUME \/ attempts' = attempts
               \/ \E j \in Ids : attempts' = [attempts EXCEPT ![j] = 0]
        PROVE  \A i \in Ids : ~Charged(i)
    BY <2>0, <2>3
  <2>4. ASSUME NEW r \in Relays, RelayStep(r) \/ EmptyPass(r) \/ Trouble(r)
        PROVE  ApplyMarks(marks[r]) \/ attempts' = attempts
    BY <2>4 DEF RelayStep, Trouble, ClaimPending, Produce, Acked, MarkPublished, MarkFailed,
       Reschedule, StageMark, Commit, RollBack, Restart, EmptyPass, Unroutable, PermanentError,
       TransientError, ClaimFails, SessionLost, CommitUnanswered, Crash, tableVars
  <2>5. ASSUME Surroundings
        PROVE  \/ attempts' = attempts
               \/ \E j \in Ids : attempts' = [attempts EXCEPT ![j] = 0]
    BY <2>5 DEF Surroundings, Insert, EndInsert, BecomeDue, LateAppend, ReplayFailed,
       PurgePublished, tableVars
  <2>6. CASE UNCHANGED vars
    BY <2>6
  <2> QED
    BY <1>2, <2>1, <2>2, <2>3, <2>4, <2>5, <2>6 DEF Next
<1>3. IndInv /\ RetryEndsBatch /\ [Next]_vars => RetryEndsBatch'
  BY RetryStep
<1> QED
  BY <1>1, <1>2, <1>3, Invariance, PTL DEF Spec, OneAttemptPerPass

-----------------------------------------------------------------------------
(* The price of a failure, counted in duplicates.                          *)

\* Every way a record may still be appended once more than it should: requests
\* whose sender has gone, rows a relay works on without its session, and rows the
\* broker has that will be claimed again, no open transaction being about to mark
\* them published.
InFlight == {p \in Ids \X Nat : p[2] < orphan[p[1]]}
Tries(r) == {i \in todo[r] : i = cur[r] => pc[r] \notin {"acked", "permanent", "transient"}}
Blind    == {p \in Relays \X Ids : session[p[1]] = "lost" /\ p[2] \in Tries(p[1])}
Fences(r, i) ==
    session[r] = "open" /\ (marks[r][i] = "published" \/ (pc[r] = "acked" /\ cur[r] = i))
Again == {i \in Delivered : status[i] \in {"pending", "failed"} /\ \A r \in Relays : ~Fences(r, i)}

\* A pass holds a session and at most a batch, and a row it marked is behind it.
ClaimsFit ==
    \A r \in Relays :
        /\ Cardinality(claim[r]) <= BatchSize
        /\ session[r] = "none" => pc[r] \notin InPass
        /\ \A i \in Ids : marks[r][i] # "none" => i \notin todo[r]

\* What the failures so far may cost.
Allowance == BatchSize * faults + rejections

\* What may still be appended is paid for by the failures so far.
Paid   == Len(log) + Cardinality(InFlight) + Cardinality(Blind) + Cardinality(Again)
            <= Cardinality(Delivered) + Allowance
Budget == IsFiniteSet(InFlight) /\ IsFiniteSet(Blind) /\ Paid

LEMMA ClaimsFitStep ==
    ASSUME IndInv, ClaimsFit, [Next]_vars
    PROVE  ClaimsFit'
<1> USE DEF passVars
<1>0. /\ PassOwnsState /\ WorksOnClaim
      /\ pc \in [Relays -> Control] /\ session \in [Relays -> {"none", "open", "lost"}]
      /\ claim \in [Relays -> SUBSET Ids] /\ todo \in [Relays -> SUBSET Ids]
      /\ cur \in [Relays -> Ids \cup {NoRow}] /\ marks \in [Relays -> [Ids -> Mark]]
  BY DEF IndInv, TypeOK
<1>1. CASE UNCHANGED <<pc, passVars>>
  BY <1>1 DEF ClaimsFit
<1>2. ASSUME NEW r \in Relays,
             \A q \in Relays \ {r} : /\ claim'[q] = claim[q] /\ session'[q] = session[q]
                                     /\ pc'[q] = pc[q] /\ marks'[q] = marks[q] /\ todo'[q] = todo[q],
             Cardinality(claim'[r]) <= BatchSize,
             session'[r] = "none" => pc'[r] \notin InPass,
             \A i \in Ids : marks'[r][i] # "none" => i \notin todo'[r]
      PROVE  ClaimsFit'
  BY <1>2 DEF ClaimsFit
<1>3. ASSUME NEW r \in Relays, NEW S \in SUBSET Ids, ClaimPending(r, S)
      PROVE  ClaimsFit'
  <2>1. marks[r] = NoMarks /\ Cardinality(S) <= BatchSize
    BY <1>0, <1>3 DEF ClaimPending, Between, PassOwnsState, InPass, IsBatch
  <2> QED
    BY <1>0, <1>2, <1>3, <2>1 DEF ClaimPending, NoMarks
<1>4. ASSUME NEW r \in Relays, EmptyPass(r) \/ ClaimFails(r) \/ Restart(r)
      PROVE  ClaimsFit'
  <2>1. UNCHANGED passVars /\ pc'[r] \notin InPass /\ \A q \in Relays \ {r} : pc'[q] = pc[q]
    BY <1>0, <1>4 DEF EmptyPass, ClaimFails, Restart, InPass
  <2> QED
    BY <2>1 DEF ClaimsFit
<1>5. ASSUME NEW r \in Relays, \/ \E i \in Ids : Produce(r, i) \/ Unroutable(r, i)
                               \/ Acked(r) \/ PermanentError(r) \/ TransientError(r)
      PROVE  ClaimsFit'
  <2>1. UNCHANGED <<session, claim, todo, marks>> /\ pc[r] \in InPass
        /\ \A q \in Relays \ {r} : pc'[q] = pc[q]
    BY <1>0, <1>5 DEF Produce, Unroutable, Acked, PermanentError, TransientError, InPass
  <2> QED
    BY <2>1 DEF ClaimsFit
<1>6. ASSUME NEW r \in Relays, MarkPublished(r) \/ MarkFailed(r) \/ Reschedule(r)
      PROVE  ClaimsFit'
  <2>1. PICK mark \in Mark, rest \in SUBSET (todo[r] \ {cur[r]}) : StageMark(r, mark, rest)
    BY <1>6 DEF MarkPublished, MarkFailed, Reschedule, Mark
  <2>2. /\ UNCHANGED <<session, claim>> /\ session[r] = "open" /\ todo'[r] = rest
        /\ \A q \in Relays \ {r} : pc'[q] = pc[q] /\ marks'[q] = marks[q] /\ todo'[q] = todo[q]
        /\ \A i \in Ids \ {cur[r]} : marks'[r][i] = marks[r][i]
    BY <1>0, <2>1 DEF StageMark
  <2> QED
    BY <2>1, <2>2 DEF ClaimsFit
<1>7. ASSUME NEW r \in Relays, SessionLost(r)
      PROVE  ClaimsFit'
  BY <1>0, <1>2, <1>7 DEF SessionLost, NoMarks, ClaimsFit
<1>8. ASSUME NEW r \in Relays, Commit(r) \/ CommitUnanswered(r) \/ RollBack(r) \/ Crash(r)
      PROVE  ClaimsFit'
  <2>1. PICK control \in {"idle", "rolledback", "down"} : EndPass(r, control)
    BY <1>8 DEF Commit, CommitUnanswered, RollBack, Crash
  <2>2. Cardinality({}) <= BatchSize
    BY FS_EmptySet, BatchSizeAssumption
  <2>3. /\ claim'[r] = {} /\ pc'[r] \notin InPass /\ todo'[r] = {}
        /\ \A q \in Relays \ {r} : /\ claim'[q] = claim[q] /\ session'[q] = session[q]
                                     /\ pc'[q] = pc[q] /\ marks'[q] = marks[q] /\ todo'[q] = todo[q]
    BY <1>0, <2>1 DEF EndPass, InPass
  <2> QED
    BY <1>2, <2>2, <2>3
<1> QED
  BY <1>1, <1>3, <1>4, <1>5, <1>6, <1>7, <1>8, PassCases

\* A row leaves Again or stays out of it, and a try is used up or given up, in
\* every step that loses no fence and adds no record.
LEMMA NothingMore ==
    ASSUME IndInv, [Next]_vars, NEW X \in SUBSET Ids,
           log' = log,
           \A r \in Relays : \A i \in Ids \ X :
               Fences(r, i) => Fences(r, i)' \/ status'[i] = "published"
    PROVE  Delivered' = Delivered /\ Again' \subseteq Again \cup X
<1>1. Delivered' = Delivered
  BY DEF Delivered
<1>2. ASSUME NEW i \in Delivered, status'[i] \in {"pending", "failed"}
      PROVE  i \in Ids /\ status[i] \in {"pending", "failed"}
  <2>1. i \in Ids /\ status[i] \in {"pending", "published", "failed", "purged"}
    BY DEF IndInv, NoPhantom, Visible
  <2>2. LifeOfRow(i)
    BY <2>1, RowStep
  <2> QED
    BY <1>2, <2>1, <2>2 DEF LifeOfRow
<1> QED
  BY <1>1, <1>2 DEF Again

\* Such steps of a pass of r are all but those that append, leave a request behind
\* or lose the session.
LEMMA PassKeeps ==
    ASSUME IndInv, ClaimsFit, [Next]_vars, NEW r \in Relays,
           \/ \E S \in SUBSET Ids : ClaimPending(r, S)
           \/ EmptyPass(r) \/ ClaimFails(r) \/ Restart(r)
           \/ \E i \in Ids : Produce(r, i) \/ Unroutable(r, i)
           \/ PermanentError(r) \/ TransientError(r)
           \/ MarkPublished(r) \/ MarkFailed(r) \/ Reschedule(r)
           \/ Commit(r) \/ CommitUnanswered(r) \/ RollBack(r)
    PROVE  Delivered' = Delivered /\ Blind' \subseteq Blind /\ Again' \subseteq Again
<1> USE DEF passVars
<1>0. /\ PassOwnsState /\ WorksOnClaim /\ ClaimsFit
      /\ status \in [Ids -> Status]
      /\ pc \in [Relays -> Control] /\ session \in [Relays -> {"none", "open", "lost"}]
      /\ claim \in [Relays -> SUBSET Ids] /\ todo \in [Relays -> SUBSET Ids]
      /\ cur \in [Relays -> Ids \cup {NoRow}] /\ marks \in [Relays -> [Ids -> Mark]]
  BY DEF IndInv, TypeOK
<1>1. SUFFICES /\ log' = log
               /\ \A q \in Relays \ {r} : /\ session'[q] = session[q] /\ pc'[q] = pc[q]
                                          /\ todo'[q] = todo[q] /\ cur'[q] = cur[q]
                                          /\ marks'[q] = marks[q]
               /\ session'[r] = "lost" => session[r] = "lost" /\ Tries(r)' \subseteq Tries(r)
               /\ \A i \in Ids : Fences(r, i) => Fences(r, i)' \/ status'[i] = "published"
  <2>1. \A q \in Relays \ {r} : Tries(q)' = Tries(q) /\ \A i \in Ids : Fences(q, i)' = Fences(q, i)
    BY <1>1 DEF Tries, Fences
  <2>2. Blind' \subseteq Blind
    BY <1>1, <2>1 DEF Blind
  <2>3. Delivered' = Delivered /\ Again' \subseteq Again \cup {}
    BY <1>1, <2>1, NothingMore
  <2> QED
    BY <2>2, <2>3
<1>2. CASE \E S \in SUBSET Ids : ClaimPending(r, S)
  <2>1. session[r] = "none" /\ session'[r] = "open"
    BY <1>0, <1>2 DEF ClaimPending, Between, PassOwnsState, InPass
  <2> QED
    BY <1>0, <1>2, <2>1 DEF ClaimPending, Fences, brokerVars
<1>3. CASE EmptyPass(r) \/ ClaimFails(r) \/ Restart(r)
  <2>1. session[r] = "none"
    BY <1>0, <1>3 DEF EmptyPass, ClaimFails, Restart, Between, PassOwnsState, InPass
  <2> QED
    BY <1>0, <1>3, <2>1 DEF EmptyPass, ClaimFails, Restart, Fences, brokerVars
<1>4. CASE \E i \in Ids : Produce(r, i) \/ Unroutable(r, i)
  <2>1. /\ UNCHANGED <<session, claim, todo, marks, log>> /\ pc[r] = "work"
        /\ \A q \in Relays \ {r} : pc'[q] = pc[q] /\ cur'[q] = cur[q]
    BY <1>0, <1>4 DEF Produce, Unroutable, brokerVars
  <2> QED
    BY <2>1 DEF Tries, Fences
<1>5. CASE PermanentError(r) \/ TransientError(r)
  <2>1. /\ UNCHANGED <<session, claim, todo, cur, marks, log>> /\ pc[r] = "producing"
        /\ \A q \in Relays \ {r} : pc'[q] = pc[q]
    BY <1>0, <1>5 DEF PermanentError, TransientError, brokerVars
  <2> QED
    BY <2>1 DEF Tries, Fences
<1>6. CASE MarkPublished(r) \/ MarkFailed(r) \/ Reschedule(r)
  <2>1. /\ UNCHANGED <<session, log>> /\ session[r] = "open"
        /\ cur[r] \in todo[r] /\ marks[r][cur[r]] = "none"
        /\ \A q \in Relays \ {r} : pc'[q] = pc[q] /\ cur'[q] = cur[q] /\ todo'[q] = todo[q]
                                     /\ marks'[q] = marks[q]
        /\ \A i \in Ids \ {cur[r]} : marks'[r][i] = marks[r][i]
        /\ pc[r] = "acked" => marks'[r][cur[r]] = "published"
    <3>1. cur[r] \in todo[r] /\ cur[r] \in Ids
      BY <1>0, <1>6 DEF MarkPublished, MarkFailed, Reschedule, WorksOnClaim, InPass
    <3>2. PICK mark \in Mark, rest \in SUBSET (todo[r] \ {cur[r]}) :
             StageMark(r, mark, rest) /\ (pc[r] = "acked" => mark = "published")
      BY <1>6 DEF MarkPublished, MarkFailed, Reschedule, Mark
    <3> QED
      BY <1>0, <3>1, <3>2 DEF StageMark, ClaimsFit, brokerVars
  <2> QED
    BY <1>0, <2>1 DEF Fences
<1>7. CASE Commit(r) \/ CommitUnanswered(r)
  <2>1. PICK control \in {"idle", "rolledback"} : EndPass(r, control)
    BY <1>7 DEF Commit, CommitUnanswered
  <2>2. log' = log /\ pc[r] = "work" /\ \A i \in Ids : marks[r][i] = "published" => status'[i] = "published"
    BY <1>0, <1>7 DEF Commit, CommitUnanswered, BatchDone, ApplyMarks, brokerVars
  <2> QED
    BY <1>0, <2>1, <2>2 DEF EndPass, Fences
<1>8. CASE RollBack(r)
  BY <1>0, <1>8 DEF RollBack, EndPass, Fences, brokerVars
<1> QED
  BY <1>2, <1>3, <1>4, <1>5, <1>6, <1>7, <1>8

\* The quantities of Budget are numbers.
Counts ==
    /\ Len(log) \in Nat /\ Cardinality(InFlight) \in Nat /\ Cardinality(Blind) \in Nat
    /\ Cardinality(Again) \in Nat /\ Cardinality(Delivered) \in Nat
    /\ Allowance \in Nat /\ BatchSize \in Nat \ {0}

LEMMA Numbers ==
    ASSUME TypeOK, Budget
    PROVE  Counts /\ IsFiniteSet(Delivered) /\ IsFiniteSet(Again)
<1>1. IsFiniteSet(Ids)
  BY MaxRowsAssumption, FS_Interval DEF Ids
<1>2. Delivered \subseteq Ids
  BY DEF TypeOK, Delivered
<1>3. IsFiniteSet(Delivered) /\ Cardinality(Delivered) \in Nat
  BY <1>1, <1>2, FS_Subset, FS_CardinalityType
<1>4. IsFiniteSet(Again) /\ Cardinality(Again) \in Nat
  BY <1>3, FS_Subset, FS_CardinalityType DEF Again
<1>5. Cardinality(InFlight) \in Nat /\ Cardinality(Blind) \in Nat
  BY FS_CardinalityType DEF Budget
<1>6. faults \in Nat /\ BatchSize \in Nat \ {0} /\ rejections \in Nat /\ Len(log) \in Nat
  BY BatchSizeAssumption DEF TypeOK
<1>7. Allowance \in Nat
  BY <1>6 DEF Allowance
<1> QED
  BY <1>3, <1>4, <1>5, <1>6, <1>7 DEF Counts

\* A failure of a pass allows a batch of duplicates, an error on a produce one.
LEMMA AllowanceGrows ==
    ASSUME TypeOK
    PROVE  /\ UNCHANGED <<faults, rejections>> => Allowance' = Allowance
           /\ Fault => Allowance' = Allowance + BatchSize
           /\ Rejection => Allowance' = Allowance + 1
<1>1. faults \in Nat /\ rejections \in Nat /\ BatchSize \in Nat
  BY BatchSizeAssumption DEF TypeOK
<1>2. BatchSize * faults \in Nat /\ BatchSize * (faults + 1) = BatchSize * faults + BatchSize
  BY <1>1
<1> QED
  BY <1>1, <1>2 DEF Allowance, Fault, Rejection

\* A set that grows by one element at most.
LEMMA OneMore ==
    ASSUME NEW S, NEW T, NEW x, IsFiniteSet(S), T \subseteq S \cup {x}
    PROVE  IsFiniteSet(T) /\ Cardinality(T) \in Nat /\ Cardinality(T) <= Cardinality(S) + 1
<1>1. IsFiniteSet(S \cup {x}) /\ Cardinality(S \cup {x}) <= Cardinality(S) + 1
      /\ Cardinality(S) \in Nat
  BY FS_AddElement, FS_CardinalityType
<1>2. IsFiniteSet(T) /\ Cardinality(T) <= Cardinality(S \cup {x}) /\ Cardinality(T) \in Nat
      /\ Cardinality(S \cup {x}) \in Nat
  BY <1>1, FS_Subset, FS_CardinalityType
<1> QED
  BY <1>1, <1>2

\* A set that loses one element at least.
LEMMA OneLess ==
    ASSUME NEW S, NEW T, NEW x \in S, IsFiniteSet(S), T \subseteq S \ {x}
    PROVE  IsFiniteSet(T) /\ Cardinality(T) \in Nat /\ Cardinality(T) + 1 <= Cardinality(S)
<1>1. IsFiniteSet(S \ {x}) /\ Cardinality(S \ {x}) = Cardinality(S) - 1 /\ Cardinality(S) \in Nat
  BY FS_RemoveElement, FS_CardinalityType
<1>2. IsFiniteSet(T) /\ Cardinality(T) <= Cardinality(S \ {x}) /\ Cardinality(T) \in Nat
  BY <1>1, FS_Subset, FS_CardinalityType
<1> QED
  BY <1>1, <1>2

\* What an append changes: the rows the broker has grow by one, or already had it.
LEMMA DeliveredGrows ==
    ASSUME TypeOK, Budget, NEW e \in Ids, log' = Append(log, e)
    PROVE  /\ Len(log') = Len(log) + 1 /\ Delivered' = Delivered \cup {e}
           /\ Cardinality(Delivered') = IF e \in Delivered THEN Cardinality(Delivered)
                                        ELSE Cardinality(Delivered) + 1
<1>1. log \in Seq(Ids)
  BY DEF TypeOK
<1>2. Len(log') = Len(log) + 1
  BY <1>1
<1>3. Delivered' = Delivered \cup {e}
  BY <1>1, AppendDelivers DEF Delivered
<1> QED
  BY <1>2, <1>3, Numbers, FS_AddElement

\* A step that appends nothing new and charges nobody.
LEMMA QuietBudget ==
    ASSUME TypeOK, Budget, UNCHANGED <<log, orphan>>, Delivered' = Delivered,
           Blind' \subseteq Blind, Again' \subseteq Again,
           UNCHANGED boundVars \/ Fault \/ Rejection
    PROVE  Budget'
<1>1. InFlight' = InFlight
  BY DEF InFlight
<1>2. /\ IsFiniteSet(Blind') /\ Cardinality(Blind') \in Nat
      /\ Cardinality(Blind') <= Cardinality(Blind)
  BY FS_Subset, FS_CardinalityType DEF Budget
<1>3. Cardinality(Again') \in Nat /\ Cardinality(Again') <= Cardinality(Again)
  BY Numbers, FS_Subset, FS_CardinalityType
<1>4. Counts
  BY Numbers
<1>5. Allowance' \in Nat /\ Allowance' >= Allowance
  BY <1>4, AllowanceGrows DEF Counts, boundVars
<1> QED
  BY <1>1, <1>2, <1>3, <1>4, <1>5 DEF Budget, Paid, Counts

\* A failure that charges k records may add to what is to come as many appends.
LEMMA ChargePays ==
    ASSUME Counts, Paid, NEW k \in Nat, NEW x \in Nat, NEW y \in Nat, x + y <= k,
           Len(log') = Len(log), Allowance' = Allowance + k,
           Cardinality(Delivered') = Cardinality(Delivered),
           Cardinality(InFlight') \in Nat, Cardinality(Blind') \in Nat, Cardinality(Again') \in Nat,
           Cardinality(InFlight') + Cardinality(Blind') <= Cardinality(InFlight) + Cardinality(Blind) + x,
           Cardinality(Again') <= Cardinality(Again) + y
    PROVE  Paid'
<1>1. PICK l \in Nat, d \in Nat, w \in Nat :
         l = Len(log) /\ d = Cardinality(Delivered) /\ w = Allowance
  BY DEF Counts
<1>2. PICK f \in Nat, b \in Nat, a \in Nat :
         f = Cardinality(InFlight) /\ b = Cardinality(Blind) /\ a = Cardinality(Again)
  BY DEF Counts
<1>3. PICK f1 \in Nat, b1 \in Nat, a1 \in Nat :
         f1 = Cardinality(InFlight') /\ b1 = Cardinality(Blind') /\ a1 = Cardinality(Again')
  OBVIOUS
<1>4. l + f + b + a <= d + w /\ f1 + b1 <= f + b + x /\ a1 <= a + y
  BY <1>1, <1>2, <1>3 DEF Paid
<1>5. l + f1 + b1 + a1 <= d + (w + k)
  BY <1>4
<1> QED
  BY <1>1, <1>3, <1>5 DEF Paid

\* An append nobody is charged for is the first record of its row, or uses up a
\* request, a try or a row to be claimed again.
LEMMA AppendPays ==
    ASSUME Counts, Paid, Len(log') = Len(log) + 1, Allowance' = Allowance,
           Cardinality(InFlight') \in Nat, Cardinality(Blind') \in Nat, Cardinality(Again') \in Nat,
           Cardinality(Delivered') \in Nat,
           Cardinality(InFlight') <= Cardinality(InFlight), Cardinality(Blind') <= Cardinality(Blind),
           Cardinality(Again') + Cardinality(Delivered) <= Cardinality(Again) + Cardinality(Delivered'),
           \/ Cardinality(InFlight') + 1 <= Cardinality(InFlight)
           \/ Cardinality(Blind') + 1 <= Cardinality(Blind)
           \/ Cardinality(Again') + Cardinality(Delivered) + 1
                <= Cardinality(Again) + Cardinality(Delivered')
    PROVE  Paid'
<1>1. PICK l \in Nat, d \in Nat, w \in Nat :
         l = Len(log) /\ d = Cardinality(Delivered) /\ w = Allowance
  BY DEF Counts
<1>2. PICK f \in Nat, b \in Nat, a \in Nat :
         f = Cardinality(InFlight) /\ b = Cardinality(Blind) /\ a = Cardinality(Again)
  BY DEF Counts
<1>3. PICK f1 \in Nat, b1 \in Nat, a1 \in Nat, d1 \in Nat :
         /\ f1 = Cardinality(InFlight') /\ b1 = Cardinality(Blind') /\ a1 = Cardinality(Again')
         /\ d1 = Cardinality(Delivered')
  OBVIOUS
<1>4. /\ l + f + b + a <= d + w /\ f1 <= f /\ b1 <= b /\ a1 + d <= a + d1
      /\ f1 + 1 <= f \/ b1 + 1 <= b \/ a1 + d + 1 <= a + d1
  BY <1>1, <1>2, <1>3 DEF Paid
<1>5. l + 1 + f1 + b1 + a1 <= d1 + w
  BY <1>4
<1> QED
  BY <1>1, <1>3, <1>5 DEF Paid

\* One request more is on its way.
LEMMA InFlightGrows ==
    ASSUME TypeOK, NEW e \in Ids, orphan' = [orphan EXCEPT ![e] = @ + 1]
    PROVE  InFlight' \subseteq InFlight \cup {<<e, orphan[e]>>}
<1>1. orphan \in [Ids -> Nat]
  BY DEF TypeOK
<1>2. ASSUME NEW p \in InFlight', p \notin InFlight
      PROVE  p = <<e, orphan[e]>>
  <2>1. p \in Ids \X Nat /\ p[2] < orphan'[p[1]] /\ ~(p[2] < orphan[p[1]])
    BY <1>2 DEF InFlight
  <2>2. p[1] = e
    BY <1>1, <2>1
  <2>3. p[2] = orphan[e]
    BY <1>1, <2>1, <2>2
  <2> QED
    BY <2>1, <2>2, <2>3
<1> QED
  BY <1>2

\* A transient error leaves a request behind, and is charged to the rejections.
LEMMA TransientBudget ==
    ASSUME IndInv, ClaimsFit, Budget, [Next]_vars, NEW r \in Relays, TransientError(r)
    PROVE  Budget'
<1>1. TypeOK /\ cur[r] \in Ids
  BY DEF TransientError, IndInv, WorksOnClaim, InPass, TypeOK
<1>2. /\ log' = log /\ Allowance' = Allowance + 1
      /\ orphan' = [orphan EXCEPT ![cur[r]] = @ + 1]
  BY <1>1, AllowanceGrows DEF TransientError
<1>3. IsFiniteSet(InFlight') /\ Cardinality(InFlight') \in Nat
      /\ Cardinality(InFlight') <= Cardinality(InFlight) + 1
  BY <1>1, <1>2, InFlightGrows, OneMore DEF Budget
<1>4. Delivered' = Delivered /\ Blind' \subseteq Blind /\ Again' \subseteq Again
  BY PassKeeps
<1>5. /\ IsFiniteSet(Blind') /\ Cardinality(Blind') \in Nat
      /\ Cardinality(Blind') <= Cardinality(Blind)
  BY <1>4, FS_Subset, FS_CardinalityType DEF Budget
<1>6. Cardinality(Again') \in Nat /\ Cardinality(Again') <= Cardinality(Again)
  BY <1>1, <1>4, Numbers, FS_Subset, FS_CardinalityType
<1>7. Counts
  BY <1>1, Numbers
<1>8. Paid'
  <2>1. Cardinality(InFlight') + Cardinality(Blind') <= Cardinality(InFlight) + Cardinality(Blind) + 1
    BY <1>3, <1>5, <1>7 DEF Counts
  <2>2. Cardinality(Again') <= Cardinality(Again) + 0 /\ 1 + 0 <= 1
    BY <1>6, <1>7 DEF Counts
  <2> QED
    BY <1>2, <1>3, <1>4, <1>5, <1>6, <1>7, <2>1, <2>2, ChargePays DEF Budget
<1> QED
  BY <1>3, <1>5, <1>8 DEF Budget

\* A request nobody waits for is appended: it was paid for when it was left.
LEMMA LateBudget ==
    ASSUME IndInv, Budget, [Next]_vars, NEW e \in Ids, LateAppend(e)
    PROVE  Budget'
<1>1. TypeOK /\ orphan \in [Ids -> Nat] /\ orphan[e] \in Nat \ {0}
  BY DEF LateAppend, IndInv, TypeOK
<1>2. /\ UNCHANGED <<status, pc, passVars>> /\ Allowance' = Allowance
      /\ log' = Append(log, e) /\ orphan' = [orphan EXCEPT ![e] = @ - 1]
  BY <1>1, AllowanceGrows DEF LateAppend, tableVars, boundVars
<1>3. InFlight' \subseteq InFlight \ {<<e, orphan[e] - 1>>} /\ <<e, orphan[e] - 1>> \in InFlight
  <2>1. <<e, orphan[e] - 1>> \in InFlight
    BY <1>1 DEF InFlight
  <2>2. ASSUME NEW p \in InFlight'
        PROVE  p \in InFlight /\ p # <<e, orphan[e] - 1>>
    <3>1. p \in Ids \X Nat /\ p[2] < orphan'[p[1]]
      BY <2>2 DEF InFlight
    <3>2. CASE p[1] = e
      BY <1>1, <1>2, <3>1, <3>2 DEF InFlight
    <3>3. CASE p[1] # e
      BY <1>1, <1>2, <3>1, <3>3 DEF InFlight
    <3> QED
      BY <3>2, <3>3
  <2> QED
    BY <2>1, <2>2
<1>4. IsFiniteSet(InFlight') /\ Cardinality(InFlight') \in Nat
      /\ Cardinality(InFlight') + 1 <= Cardinality(InFlight)
  BY <1>3, OneLess DEF Budget
<1>5. Blind' = Blind /\ \A r \in Relays, i \in Ids : Fences(r, i)' = Fences(r, i)
  BY <1>2 DEF Blind, Tries, Fences, passVars
<1>6. /\ Len(log') = Len(log) + 1 /\ Delivered' = Delivered \cup {e}
      /\ Cardinality(Delivered') = IF e \in Delivered THEN Cardinality(Delivered)
                                   ELSE Cardinality(Delivered) + 1
  BY <1>1, <1>2, DeliveredGrows
<1>7. Delivered \subseteq Ids
  BY <1>1 DEF TypeOK, Delivered
<1>8. IF e \in Delivered THEN Again' \subseteq Again ELSE Again' \subseteq Again \cup {e}
  BY <1>2, <1>5, <1>6, <1>7 DEF Again
<1>9. Cardinality(Again') \in Nat
      /\ Cardinality(Again') <= IF e \in Delivered THEN Cardinality(Again) ELSE Cardinality(Again) + 1
  BY <1>1, <1>8, Numbers, OneMore, FS_Subset, FS_CardinalityType
<1>10. Counts
  BY <1>1, Numbers
<1>11. Len(log') = Len(log) + 1 /\ Allowance' = Allowance
  BY <1>2, <1>6
<1>12. Cardinality(Again') + Cardinality(Delivered) <= Cardinality(Again) + Cardinality(Delivered')
       /\ Cardinality(Delivered') \in Nat
  BY <1>6, <1>9, <1>10 DEF Counts
<1>13. Cardinality(InFlight') <= Cardinality(InFlight)
       /\ Cardinality(Blind') \in Nat /\ Cardinality(Blind') <= Cardinality(Blind)
  BY <1>4, <1>5, <1>10 DEF Counts
<1>14. Paid'
  BY <1>4, <1>9, <1>10, <1>11, <1>12, <1>13, AppendPays DEF Budget
<1> QED
  BY <1>4, <1>5, <1>14 DEF Budget

\* An answered produce: the first record of its row, or one that was allowed for.
\* With the session open the row is fenced from then on; without it the try is
\* used up.
LEMMA AckedBudget ==
    ASSUME IndInv, ClaimsFit, Budget, [Next]_vars, NEW r \in Relays, Acked(r)
    PROVE  Budget'
<1> DEFINE e == cur[r]
<1>0. /\ TypeOK /\ WorksOnClaim /\ ClaimsDisjoint
      /\ status \in [Ids -> Status] /\ Delivered \subseteq Ids
      /\ pc \in [Relays -> Control] /\ session \in [Relays -> {"none", "open", "lost"}]
      /\ claim \in [Relays -> SUBSET Ids] /\ todo \in [Relays -> SUBSET Ids]
      /\ marks \in [Relays -> [Ids -> Mark]]
  BY DEF IndInv, TypeOK, Delivered
<1>1. /\ pc[r] = "producing" /\ e \in todo[r] /\ e \in claim[r] /\ e \in Ids
      /\ session[r] \in {"open", "lost"} /\ marks[r][e] = "none"
  BY <1>0 DEF Acked, WorksOnClaim, ClaimsFit, InPass
<1>2. /\ UNCHANGED <<status, passVars, orphan>> /\ Allowance' = Allowance
      /\ log' = Append(log, e) /\ pc' = [pc EXCEPT ![r] = "acked"]
  BY <1>0, AllowanceGrows DEF Acked, tableVars, boundVars
<1>3. /\ Len(log') = Len(log) + 1 /\ Delivered' = Delivered \cup {e}
      /\ Cardinality(Delivered') = IF e \in Delivered THEN Cardinality(Delivered)
                                   ELSE Cardinality(Delivered) + 1
  BY <1>0, <1>1, <1>2, DeliveredGrows
<1>4. InFlight' = InFlight
  BY <1>2 DEF InFlight
<1>5. \A q \in Relays, i \in Ids : Fences(q, i) => Fences(q, i)'
  BY <1>0, <1>1, <1>2 DEF Fences, passVars
<1>6. Counts /\ IsFiniteSet(Again)
  BY <1>0, Numbers
<1>7. Cardinality(Delivered') = IF e \in Delivered THEN Cardinality(Delivered)
                                 ELSE Cardinality(Delivered) + 1
  BY <1>3
<1>8. Len(log') = Len(log) + 1 /\ Allowance' = Allowance
  BY <1>2, <1>3
<1>9. /\ IsFiniteSet(InFlight') /\ Cardinality(InFlight') \in Nat
      /\ Cardinality(InFlight') <= Cardinality(InFlight)
      /\ Cardinality(Delivered') \in Nat
  BY <1>4, <1>6, <1>7 DEF Budget, Counts
<1>10. CASE session[r] = "open"
  <2>1. Blind' = Blind
    BY <1>0, <1>2, <1>10 DEF Blind, Tries, passVars
  <2>2. Again' \subseteq Again \ {e}
    BY <1>0, <1>1, <1>2, <1>3, <1>5, <1>10 DEF Again, Fences, passVars
  <2>3. e \in Delivered => e \in Again
    <3>1. status[e] = "pending"
      BY <1>0, <1>1, <1>10 DEF ClaimsDisjoint
    <3>2. \A q \in Relays : ~Fences(q, e)
      BY <1>0, <1>1, <1>10 DEF Fences, ClaimsDisjoint, WorksOnClaim, InPass
    <3> QED
      BY <3>1, <3>2 DEF Again
  <2>4. Cardinality(Again') \in Nat /\ Cardinality(Again') <= Cardinality(Again)
    BY <1>6, <2>2, FS_Subset, FS_CardinalityType
  <2>5. e \in Delivered => Cardinality(Again') + 1 <= Cardinality(Again)
    BY <1>6, <2>2, <2>3, OneLess
  <2>6. /\ IsFiniteSet(Blind') /\ Cardinality(Blind') \in Nat
        /\ Cardinality(Blind') <= Cardinality(Blind)
    BY <1>6, <2>1 DEF Budget, Counts
  <2>7. Cardinality(Again') + Cardinality(Delivered) + 1 <= Cardinality(Again) + Cardinality(Delivered')
    BY <1>6, <1>7, <2>4, <2>5 DEF Counts
  <2>8. Cardinality(Again') + Cardinality(Delivered) <= Cardinality(Again) + Cardinality(Delivered')
    BY <1>6, <1>9, <2>4, <2>7 DEF Counts
  <2>9. Paid'
    BY <1>6, <1>8, <1>9, <2>4, <2>6, <2>7, <2>8, AppendPays DEF Budget
  <2> QED
    BY <1>9, <2>6, <2>9 DEF Budget
<1>11. CASE session[r] = "lost"
  <2>1. <<r, e>> \in Blind /\ Blind' \subseteq Blind \ {<<r, e>>}
    <3>1. <<r, e>> \in Blind
      BY <1>1, <1>11 DEF Blind, Tries
    <3>2. \A q \in Relays : Tries(q)' \subseteq Tries(q) /\ e \notin Tries(r)'
      BY <1>0, <1>1, <1>2 DEF Tries, passVars
    <3>3. session' = session
      BY <1>2 DEF passVars
    <3> QED
      BY <3>1, <3>2, <3>3 DEF Blind
  <2>2. IsFiniteSet(Blind') /\ Cardinality(Blind') \in Nat
        /\ Cardinality(Blind') + 1 <= Cardinality(Blind)
    BY <2>1, OneLess DEF Budget
  <2>3. IF e \in Delivered THEN Again' \subseteq Again ELSE Again' \subseteq Again \cup {e}
    BY <1>0, <1>2, <1>3, <1>5 DEF Again
  <2>4. Cardinality(Again') \in Nat
        /\ Cardinality(Again') <= IF e \in Delivered THEN Cardinality(Again) ELSE Cardinality(Again) + 1
    BY <1>6, <2>3, OneMore, FS_Subset, FS_CardinalityType
  <2>5. Cardinality(Again') + Cardinality(Delivered) <= Cardinality(Again) + Cardinality(Delivered')
    BY <1>6, <1>7, <2>4 DEF Counts
  <2>6. Cardinality(Blind') <= Cardinality(Blind)
    BY <1>6, <2>2 DEF Counts
  <2>7. Paid'
    BY <1>6, <1>8, <1>9, <2>2, <2>4, <2>5, <2>6, AppendPays DEF Budget
  <2> QED
    BY <1>9, <2>2, <2>7 DEF Budget
<1> QED
  BY <1>1, <1>10, <1>11

\* Two parts of a claim that do not meet are no larger than a batch together.
LEMMA PartsOfClaim ==
    ASSUME TypeOK, ClaimsFit, NEW r \in Relays,
           NEW A \in SUBSET claim[r], NEW Z \in SUBSET claim[r], A \cap Z = {}
    PROVE  /\ IsFiniteSet(A) /\ IsFiniteSet(Z)
           /\ Cardinality(A) \in Nat /\ Cardinality(Z) \in Nat
           /\ Cardinality(A) + Cardinality(Z) <= BatchSize
<1>1. IsFiniteSet(Ids)
  BY MaxRowsAssumption, FS_Interval DEF Ids
<1>2. IsFiniteSet(claim[r]) /\ Cardinality(claim[r]) \in Nat
  BY <1>1, FS_Subset, FS_CardinalityType DEF TypeOK
<1>3. IsFiniteSet(A) /\ IsFiniteSet(Z) /\ Cardinality(A) \in Nat /\ Cardinality(Z) \in Nat
  BY <1>2, FS_Subset, FS_CardinalityType
<1>4. IsFiniteSet(A \cup Z) /\ Cardinality(A \cup Z) = Cardinality(A) + Cardinality(Z)
  <2>1. Cardinality(A \cap Z) = 0
    BY FS_EmptySet
  <2>2. IsFiniteSet(A \cup Z)
        /\ Cardinality(A \cup Z) = Cardinality(A) + Cardinality(Z) - Cardinality(A \cap Z)
    BY <1>3, FS_Union
  <2> QED
    BY <1>3, <2>1, <2>2
<1>5. A \cup Z \subseteq claim[r]
  OBVIOUS
<1>6. Cardinality(A \cup Z) <= Cardinality(claim[r])
  BY <1>2, <1>5, FS_Subset
<1> QED
  BY <1>2, <1>3, <1>4, <1>6, BatchSizeAssumption DEF ClaimsFit

\* The rows of r whose fence falls with its session.
Fenced(r) == {i \in claim[r] : Fences(r, i)}

LEMMA FallenFences ==
    ASSUME IndInv, ClaimsFit, [Next]_vars, NEW r \in Relays, log' = log,
           \A q \in Relays \ {r} : /\ session'[q] = session[q] /\ pc'[q] = pc[q]
                                   /\ cur'[q] = cur[q] /\ marks'[q] = marks[q]
    PROVE  Delivered' = Delivered /\ Again' \subseteq Again \cup Fenced(r)
<1>1. \A i \in Ids : Fences(r, i) => i \in Fenced(r)
  BY DEF Fenced, Fences, IndInv, WorksOnClaim, InPass
<1>2. \A q \in Relays \ {r}, i \in Ids : Fences(q, i) => Fences(q, i)'
  BY DEF Fences
<1>3. Fenced(r) \in SUBSET Ids
  BY DEF Fenced, IndInv, TypeOK
<1> QED
  BY <1>1, <1>2, <1>3, NothingMore

LEMMA TwoParts ==
    ASSUME NEW S, NEW T, NEW U, IsFiniteSet(S), IsFiniteSet(T), U \subseteq S \cup T
    PROVE  IsFiniteSet(U) /\ Cardinality(U) \in Nat
           /\ Cardinality(U) <= Cardinality(S) + Cardinality(T)
<1>1. /\ IsFiniteSet(S \cup T) /\ IsFiniteSet(S \cap T)
      /\ Cardinality(S \cup T) = Cardinality(S) + Cardinality(T) - Cardinality(S \cap T)
  BY FS_Union, FS_Subset
<1>2. /\ Cardinality(S) \in Nat /\ Cardinality(T) \in Nat /\ Cardinality(S \cap T) \in Nat
      /\ Cardinality(S \cup T) \in Nat
  BY <1>1, FS_CardinalityType
<1>3. IsFiniteSet(U) /\ Cardinality(U) \in Nat /\ Cardinality(U) <= Cardinality(S \cup T)
  BY <1>1, FS_Subset, FS_CardinalityType
<1> QED
  BY <1>1, <1>2, <1>3

LEMMA LostBudget ==
    ASSUME IndInv, ClaimsFit, Budget, [Next]_vars, NEW r \in Relays, SessionLost(r)
    PROVE  Budget'
<1> DEFINE more == {<<r, i>> : i \in Tries(r)}
<1>0. /\ TypeOK /\ WorksOnClaim
      /\ pc \in [Relays -> Control] /\ session \in [Relays -> {"none", "open", "lost"}]
      /\ claim \in [Relays -> SUBSET Ids] /\ todo \in [Relays -> SUBSET Ids]
      /\ marks \in [Relays -> [Ids -> Mark]]
  BY DEF IndInv, TypeOK
<1>1. /\ UNCHANGED <<pc, claim, todo, cur, log, orphan>> /\ session[r] = "open"
      /\ session' = [session EXCEPT ![r] = "lost"] /\ Allowance' = Allowance + BatchSize
      /\ \A q \in Relays \ {r} : marks'[q] = marks[q]
  BY <1>0, AllowanceGrows DEF SessionLost, brokerVars
<1>2. Fenced(r) \in SUBSET claim[r] /\ Tries(r) \in SUBSET claim[r] /\ Fenced(r) \cap Tries(r) = {}
  BY <1>0 DEF Fenced, Fences, Tries, WorksOnClaim, ClaimsFit
<1>3. /\ IsFiniteSet(Fenced(r)) /\ IsFiniteSet(Tries(r))
      /\ Cardinality(Fenced(r)) \in Nat /\ Cardinality(Tries(r)) \in Nat
      /\ Cardinality(Fenced(r)) + Cardinality(Tries(r)) <= BatchSize
  BY <1>0, <1>2, PartsOfClaim
<1>4. IsFiniteSet(more) /\ Cardinality(more) \in Nat /\ Cardinality(more) <= Cardinality(Tries(r))
  <2> DEFINE f == [i \in Tries(r) |-> <<r, i>>]
  <2>1. f \in [Tries(r) -> more] /\ \A p \in more : \E i \in Tries(r) : f[i] = p
    OBVIOUS
  <2> HIDE DEF f, more
  <2> QED
    BY <1>3, <2>1, FS_Surjection, FS_CardinalityType DEF Surjection
<1>5. Blind' \subseteq Blind \cup more
  <2>1. \A q \in Relays : Tries(q)' = Tries(q)
    BY <1>1 DEF Tries
  <2>2. ASSUME NEW p \in Blind'
        PROVE  p \in Blind \/ p \in more
    <3>1. p \in Relays \X Ids /\ session'[p[1]] = "lost" /\ p[2] \in Tries(p[1])
      BY <2>1, <2>2 DEF Blind
    <3>2. CASE p[1] = r
      BY <3>1, <3>2
    <3>3. CASE p[1] # r
      BY <1>0, <1>1, <3>1, <3>3 DEF Blind
    <3> QED
      BY <3>2, <3>3
  <2> QED
    BY <2>2
<1>6. IsFiniteSet(Blind') /\ Cardinality(Blind') \in Nat
      /\ Cardinality(Blind') <= Cardinality(Blind) + Cardinality(Tries(r))
  <2> HIDE DEF more
  <2>1. IsFiniteSet(Blind') /\ Cardinality(Blind') \in Nat
        /\ Cardinality(Blind') <= Cardinality(Blind) + Cardinality(more)
    BY <1>4, <1>5, TwoParts DEF Budget
  <2>2. Cardinality(Blind) \in Nat
    BY FS_CardinalityType DEF Budget
  <2> QED
    BY <1>3, <1>4, <2>1, <2>2
<1>7. Delivered' = Delivered /\ Again' \subseteq Again \cup Fenced(r)
  BY <1>0, <1>1, FallenFences
<1>8. Counts /\ IsFiniteSet(Again)
  BY <1>0, Numbers
<1>9. Cardinality(Again') \in Nat /\ Cardinality(Again') <= Cardinality(Again) + Cardinality(Fenced(r))
  BY <1>3, <1>7, <1>8, TwoParts
<1>10. InFlight' = InFlight
  BY <1>1 DEF InFlight
<1>11. Len(log') = Len(log) /\ Allowance' = Allowance + BatchSize
  BY <1>1
<1> HIDE DEF more
<1>12. /\ Cardinality(InFlight') \in Nat /\ Cardinality(Delivered') = Cardinality(Delivered)
       /\ Cardinality(InFlight') + Cardinality(Blind')
            <= Cardinality(InFlight) + Cardinality(Blind) + Cardinality(Tries(r))
  BY <1>3, <1>6, <1>7, <1>8, <1>10 DEF Counts
<1>13. Cardinality(Tries(r)) + Cardinality(Fenced(r)) <= BatchSize /\ BatchSize \in Nat
  BY <1>3, <1>8 DEF Counts
<1>14. Paid'
  BY <1>3, <1>6, <1>8, <1>9, <1>11, <1>12, <1>13, ChargePays DEF Budget
<1> QED
  BY <1>6, <1>10, <1>14 DEF Budget

LEMMA CrashBudget ==
    ASSUME IndInv, ClaimsFit, Budget, [Next]_vars, NEW r \in Relays, Crash(r)
    PROVE  Budget'
<1> DEFINE sent == IF pc[r] = "producing" THEN {cur[r]} ELSE {}
<1>0. /\ TypeOK /\ WorksOnClaim
      /\ pc \in [Relays -> Control] /\ session \in [Relays -> {"none", "open", "lost"}]
      /\ claim \in [Relays -> SUBSET Ids] /\ todo \in [Relays -> SUBSET Ids]
      /\ cur \in [Relays -> Ids \cup {NoRow}] /\ marks \in [Relays -> [Ids -> Mark]]
      /\ orphan \in [Ids -> Nat]
  BY DEF IndInv, TypeOK
<1>1. /\ log' = log /\ Allowance' = Allowance + BatchSize
      /\ orphan' = [i \in Ids |-> IF pc[r] = "producing" /\ i = cur[r] THEN orphan[i] + 1 ELSE orphan[i]]
      /\ session'[r] = "none"
      /\ \A q \in Relays \ {r} : /\ session'[q] = session[q] /\ pc'[q] = pc[q]
                                   /\ todo'[q] = todo[q] /\ cur'[q] = cur[q] /\ marks'[q] = marks[q]
  BY <1>0, AllowanceGrows DEF Crash, EndPass
<1>2. Fenced(r) \in SUBSET claim[r] /\ sent \in SUBSET claim[r] /\ Fenced(r) \cap sent = {}
  BY <1>0 DEF Fenced, Fences, WorksOnClaim, ClaimsFit, InPass
<1>3. /\ IsFiniteSet(Fenced(r))
      /\ Cardinality(Fenced(r)) \in Nat /\ Cardinality(sent) \in Nat
      /\ Cardinality(Fenced(r)) + Cardinality(sent) <= BatchSize
  BY <1>0, <1>2, PartsOfClaim
<1>4. IsFiniteSet(InFlight') /\ Cardinality(InFlight') \in Nat
      /\ Cardinality(InFlight') <= Cardinality(InFlight) + Cardinality(sent)
  <2>1. CASE pc[r] = "producing"
    <3>1. cur[r] \in Ids /\ orphan' = [orphan EXCEPT ![cur[r]] = @ + 1]
      BY <1>0, <1>1, <2>1 DEF WorksOnClaim, InPass
    <3>2. InFlight' \subseteq InFlight \cup {<<cur[r], orphan[cur[r]]>>}
      BY <1>0, <3>1, InFlightGrows
    <3>3. Cardinality(sent) = 1
      BY <2>1, FS_Singleton
    <3> QED
      BY <3>2, <3>3, OneMore DEF Budget
  <2>2. CASE pc[r] # "producing"
    <3>1. orphan' = orphan
      BY <1>0, <1>1, <2>2
    <3>2. InFlight' = InFlight /\ Cardinality(InFlight) \in Nat
      BY <3>1, FS_CardinalityType DEF InFlight, Budget
    <3> HIDE DEF sent
    <3> QED
      BY <1>3, <3>2 DEF Budget
  <2> QED
    BY <2>1, <2>2
<1> HIDE DEF sent
<1>5. Blind' \subseteq Blind
  <2>1. \A q \in Relays \ {r} : Tries(q)' = Tries(q)
    BY <1>1 DEF Tries
  <2> QED
    BY <1>1, <2>1 DEF Blind
<1>6. /\ IsFiniteSet(Blind') /\ Cardinality(Blind') \in Nat
      /\ Cardinality(Blind') <= Cardinality(Blind)
  BY <1>5, FS_Subset, FS_CardinalityType DEF Budget
<1>7. Delivered' = Delivered /\ Again' \subseteq Again \cup Fenced(r)
  BY <1>1, FallenFences
<1>8. Counts /\ IsFiniteSet(Again)
  BY <1>0, Numbers
<1>9. Cardinality(Again') \in Nat /\ Cardinality(Again') <= Cardinality(Again) + Cardinality(Fenced(r))
  BY <1>3, <1>7, <1>8, TwoParts
<1>10. Len(log') = Len(log) /\ Allowance' = Allowance + BatchSize
  BY <1>1
<1>11. /\ Cardinality(Delivered') = Cardinality(Delivered)
       /\ Cardinality(InFlight') + Cardinality(Blind')
            <= Cardinality(InFlight) + Cardinality(Blind) + Cardinality(sent)
  BY <1>3, <1>4, <1>6, <1>7, <1>8 DEF Counts
<1>12. Cardinality(sent) + Cardinality(Fenced(r)) <= BatchSize /\ BatchSize \in Nat
  BY <1>3, <1>8 DEF Counts
<1>13. Paid'
  BY <1>3, <1>4, <1>6, <1>8, <1>9, <1>10, <1>11, <1>12, ChargePays DEF Budget
<1> QED
  BY <1>4, <1>6, <1>13 DEF Budget

LEMMA BudgetStep ==
    ASSUME IndInv, ClaimsFit, Budget, [Next]_vars
    PROVE  Budget'
<1>0. TypeOK
  BY DEF IndInv
<1>1. ASSUME NEW r \in Relays,
             \/ \E S \in SUBSET Ids : ClaimPending(r, S)
             \/ EmptyPass(r) \/ ClaimFails(r) \/ Restart(r)
             \/ \E i \in Ids : Produce(r, i) \/ Unroutable(r, i)
             \/ PermanentError(r)
             \/ MarkPublished(r) \/ MarkFailed(r) \/ Reschedule(r)
             \/ Commit(r) \/ CommitUnanswered(r) \/ RollBack(r)
      PROVE  Budget'
  <2>1. Delivered' = Delivered /\ Blind' \subseteq Blind /\ Again' \subseteq Again
    BY <1>1, PassKeeps
  <2>2. UNCHANGED <<log, orphan>> /\ (UNCHANGED boundVars \/ Fault \/ Rejection)
    BY <1>1 DEF ClaimPending, EmptyPass, ClaimFails, Restart, Produce, Unroutable,
       PermanentError, MarkPublished, MarkFailed, Reschedule, StageMark, Commit,
       CommitUnanswered, RollBack, brokerVars
  <2> QED
    BY <1>0, <2>1, <2>2, QuietBudget
<1>2. ASSUME UNCHANGED <<pc, passVars, log, orphan, boundVars>>
      PROVE  Budget'
  <2>1. Blind' = Blind /\ \A r \in Relays, i \in Ids : Fences(r, i) => Fences(r, i)'
    BY <1>2 DEF Blind, Tries, Fences, passVars
  <2>2. Delivered' = Delivered /\ Again' \subseteq Again \cup {}
    BY <1>2, <2>1, NothingMore
  <2> QED
    BY <1>0, <1>2, <2>1, <2>2, QuietBudget
<1>3. CASE Surroundings
  <2>1. ASSUME NEW i \in Ids, LateAppend(i)
        PROVE  Budget'
    BY <2>1, LateBudget
  <2>2. CASE Insert \/ (\E i \in Ids, outcome \in {"pending", "aborted"} : EndInsert(i, outcome))
             \/ (\E i \in Ids : BecomeDue(i) \/ ReplayFailed(i))
             \/ (\E S \in SUBSET Ids : PurgePublished(S))
    BY <1>2, <2>2 DEF Insert, EndInsert, BecomeDue, ReplayFailed, PurgePublished, brokerVars
  <2> QED
    BY <1>3, <2>1, <2>2 DEF Surroundings
<1>4. CASE UNCHANGED vars
  BY <1>2, <1>4 DEF vars, brokerVars
<1>5. ASSUME NEW r \in Relays, RelayStep(r) \/ EmptyPass(r) \/ Trouble(r)
      PROVE  Budget'
  BY <1>1, <1>5, TransientBudget, AckedBudget, LostBudget, CrashBudget DEF RelayStep, Trouble
<1> QED
  BY <1>3, <1>4, <1>5 DEF Next

LEMMA BudgetInit == Init => ClaimsFit /\ Budget
<1> SUFFICES ASSUME Init
             PROVE  ClaimsFit /\ Budget
  OBVIOUS
<1>1. InFlight = {} /\ Blind = {} /\ Delivered = {} /\ Again = {}
  BY DEF Init, InFlight, Blind, Delivered, Again
<1>2. Cardinality({}) = 0 /\ IsFiniteSet({})
  BY FS_EmptySet
<1>3. ClaimsFit
  BY <1>2, BatchSizeAssumption DEF Init, ClaimsFit, InPass, NoMarks
<1>4. Allowance = 0 /\ Len(log) = 0
  BY BatchSizeAssumption DEF Init, Allowance
<1> QED
  BY <1>1, <1>2, <1>3, <1>4 DEF Budget, Paid

\* The blast radius of a crash is a batch of duplicates, that of an error on a
\* produce one record, however many passes, relays, purges and replays there are.
THEOREM BlastRadius == Spec => []DuplicatesBounded
<1>1. IndInv /\ ClaimsFit /\ Budget /\ [Next]_vars => ClaimsFit' /\ Budget'
  BY ClaimsFitStep, BudgetStep
<1>2. IndInv /\ Budget => DuplicatesBounded
  <2> SUFFICES ASSUME IndInv, Budget
               PROVE  DuplicatesBounded
    OBVIOUS
  <2>1. Counts
    BY Numbers DEF IndInv
  <2>2. Len(log) <= Cardinality(Delivered) + Allowance
    BY <2>1 DEF Counts, Budget, Paid
  <2>3. BatchSize * faults \in Nat /\ rejections \in Nat
    BY BatchSizeAssumption DEF IndInv, TypeOK
  <2> QED
    BY <2>1, <2>2, <2>3 DEF Counts, Allowance, DuplicatesBounded
<1> QED
  BY <1>1, <1>2, BudgetInit, Invariance, PTL DEF Spec

-----------------------------------------------------------------------------
(* The passes implement the abstract outbox.                               *)

\* One step of the system is one step of the promise, or invisible to it: an
\* append delivers, the end of a producer's transaction accepts, a commit of a
\* pass decides its marks, the replay readmits.
LEMMA PromiseStep ==
    ASSUME IndInv, [Next]_vars
    PROVE  [Promise!Next]_<<Fate, Delivered>>
<1> DEFINE goal == [Promise!Next]_<<Fate, Delivered>>
<1>0. /\ status \in [Ids -> Status] /\ status' \in [Ids -> Status]
      /\ log \in Seq(Ids) /\ marks \in [Relays -> [Ids -> Mark]]
  BY TypeStep DEF IndInv, TypeOK
<1>20. \A i \in Ids : Fate[i] = FateOf(i) /\ Fate'[i] = FateOf(i)'
  BY DEF Fate
<1>21. \A i \in Ids :
        /\ status'[i] = status[i] => FateOf(i)' = FateOf(i)
        /\ status[i] \in {"absent", "inserting", "aborted"} => FateOf(i) = "none"
        /\ status[i] = "pending" => FateOf(i) = "owed"
        /\ status[i] \in {"published", "purged"} => FateOf(i) = "settled"
        /\ status[i] = "failed" => FateOf(i) = "parked"
  BY <1>0 DEF FateOf, Status
<1>22. \A i \in Ids :
        /\ status'[i] \in {"absent", "inserting", "aborted"} => FateOf(i)' = "none"
        /\ status'[i] = "pending" => FateOf(i)' = "owed"
        /\ status'[i] \in {"published", "purged"} => FateOf(i)' = "settled"
        /\ status'[i] = "failed" => FateOf(i)' = "parked"
  BY <1>0 DEF FateOf, Status
<1>23. Fate = [i \in Ids |-> Fate[i]] /\ Fate' = [i \in Ids |-> Fate'[i]]
  BY DEF Fate
<1>1. CASE status' = status /\ log' = log
  <2>1. Fate' = Fate /\ Delivered' = Delivered
    BY <1>1 DEF Fate, FateOf, Delivered
  <2> QED
    BY <2>1
<1>2. ASSUME NEW i \in Visible, log' = Append(log, i), status' = status
      PROVE  goal
  <2>1. i \in Ids /\ Fate[i] # "none" /\ Fate' = Fate
    BY <1>2, <1>20, <1>21, <1>23 DEF Visible
  <2>2. Append(log, i) \in Seq(Ids)
        /\ {Append(log, i)[k] : k \in DOMAIN Append(log, i)} = {log[k] : k \in DOMAIN log} \cup {i}
    BY <1>0, <2>1, AppendDelivers
  <2>3. Delivered' = Delivered \cup {i}
    BY <1>2, <2>2 DEF Delivered
  <2>4. Promise!Deliver(i)
    BY <2>1, <2>3 DEF Promise!Deliver
  <2> QED
    BY <2>1, <2>4 DEF Promise!Next
<1>3. ASSUME log' = log
      PROVE  Delivered' = Delivered
  BY <1>3 DEF Delivered
<1>4. CASE Insert
  <2>1. nextId \in Ids /\ status[nextId] = "absent"
    BY <1>4, MaxRowsAssumption DEF Insert, Ids, IndInv, TypeOK, FreshIds
  <2>2. \A j \in Ids : Fate'[j] = Fate[j]
    <3>1. status'[nextId] = "inserting" /\ \A j \in Ids \ {nextId} : status'[j] = status[j]
      BY <1>0, <1>4, <2>1 DEF Insert
    <3> QED
      BY <2>1, <3>1, <1>20, <1>21, <1>22
  <2>3. Fate' = Fate
    BY <2>2, <1>23
  <2> QED
    BY <1>3, <1>4, <2>3 DEF Insert, brokerVars
<1>5. ASSUME NEW i \in Ids, NEW outcome \in {"pending", "aborted"}, EndInsert(i, outcome)
      PROVE  goal
  <2>1. Delivered' = Delivered
    BY <1>3, <1>5 DEF EndInsert, brokerVars
  <2>2. status[i] = "inserting" /\ status'[i] = outcome /\ \A j \in Ids \ {i} : status'[j] = status[j]
    BY <1>0, <1>5 DEF EndInsert
  <2>3. CASE outcome = "aborted"
    <3>1. \A j \in Ids : Fate'[j] = Fate[j]
      BY <2>3, <2>2, <1>20, <1>21, <1>22
    <3>2. Fate' = Fate
      BY <3>1, <1>23
    <3> QED
      BY <2>1, <3>2
  <2>4. CASE outcome = "pending"
    <3>1. /\ Fate[i] = "none" /\ Fate'[i] = "owed"
          /\ \A j \in Ids \ {i} : Fate'[j] = Fate[j]
      BY <2>4, <2>2, <1>20, <1>21, <1>22
    <3>2. Fate' = [Fate EXCEPT ![i] = "owed"]
      BY <3>1, <1>23
    <3> QED
      BY <2>1, <3>1, <3>2 DEF Promise!Next, Promise!Accept
  <2> QED
    BY <2>3, <2>4
<1>6. ASSUME NEW i \in Ids, ReplayFailed(i)
      PROVE  goal
  <2>1. Delivered' = Delivered
    BY <1>3, <1>6 DEF ReplayFailed, brokerVars
  <2>2. /\ Fate[i] = "parked" /\ Fate'[i] = "owed"
        /\ \A j \in Ids \ {i} : Fate'[j] = Fate[j]
    <3>1. status[i] = "failed" /\ status'[i] = "pending" /\ \A j \in Ids \ {i} : status'[j] = status[j]
      BY <1>0, <1>6 DEF ReplayFailed
    <3> QED
      BY <3>1, <1>20, <1>21, <1>22
  <2>3. Fate' = [Fate EXCEPT ![i] = "owed"]
    BY <2>2, <1>23
  <2> QED
    BY <2>1, <2>2, <2>3 DEF Promise!Next, Promise!Readmit
<1>7. ASSUME NEW S \in SUBSET Ids, PurgePublished(S)
      PROVE  goal
  <2>1. Fate' = Fate
    BY <1>0, <1>7, <1>20, <1>21, <1>22, <1>23 DEF PurgePublished
  <2> QED
    BY <1>3, <1>7, <2>1 DEF PurgePublished, brokerVars
<1>8. ASSUME NEW r \in Relays, ApplyMarks(marks[r]), log' = log
      PROVE  goal
  <2> DEFINE settled == {i \in Ids : marks[r][i] = "published"}
             parked  == {i \in Ids : marks[r][i] = "failed"}
  <2>1. \A i \in settled \cup parked : Fate[i] = "owed"
    BY MarksMeetPending, <1>20, <1>21
  <2>2. settled \subseteq Delivered
    BY DEF IndInv, MarkAfterAck
  <2>3. Fate' = [i \in Ids |-> IF i \in settled THEN "settled"
                               ELSE IF i \in parked THEN "parked" ELSE Fate[i]]
    <3>1. \A i \in Ids : /\ i \in settled => status'[i] = "published"
                         /\ i \in parked => status'[i] = "failed"
                         /\ i \notin settled \cup parked => status'[i] = status[i]
      BY <1>0, <1>8 DEF ApplyMarks
    <3>2. \A i \in Ids : Fate'[i] = IF i \in settled THEN "settled"
                                    ELSE IF i \in parked THEN "parked" ELSE Fate[i]
      BY <3>1, <1>20, <1>21, <1>22
    <3> QED
      BY <3>2, <1>23
  <2>4. Promise!Decide(settled, parked)
    BY <1>3, <1>8, <2>1, <2>2, <2>3 DEF Promise!Decide
  <2>5. settled \in SUBSET Ids /\ parked \in SUBSET Ids
    OBVIOUS
  <2> QED
    BY <2>4, <2>5 DEF Promise!Next
<1>9. ASSUME NEW r \in Relays, RelayStep(r) \/ EmptyPass(r) \/ Trouble(r)
      PROVE  goal
  <2>1. CASE Acked(r)
    <3>1. cur[r] \in Visible /\ log' = Append(log, cur[r]) /\ status' = status
      BY <2>1 DEF Acked, InPass, IndInv, WorksOnClaim, HeldRowsVisible, tableVars
    <3> QED
      BY <1>2, <3>1
  <2>2. CASE Commit(r) \/ CommitUnanswered(r)
    BY <1>8, <2>2 DEF Commit, CommitUnanswered, brokerVars
  <2>3. CASE EmptyPass(r) \/ (Trouble(r) /\ ~CommitUnanswered(r))
    <3>1. status' = status /\ log' = log
      BY <2>3 DEF EmptyPass, Trouble, Unroutable, PermanentError, TransientError, ClaimFails,
         SessionLost, Crash, tableVars, brokerVars
    <3> QED
      BY <1>1, <3>1
  <2>4. CASE RelayStep(r) /\ ~Commit(r) /\ ~Acked(r)
    <3>1. status' = status /\ log' = log
      BY <2>4 DEF RelayStep, ClaimPending, Produce, MarkPublished, MarkFailed, Reschedule,
         StageMark, RollBack, Restart, tableVars, brokerVars
    <3> QED
      BY <1>1, <3>1
  <2> QED
    BY <1>9, <2>1, <2>2, <2>3, <2>4
<1>10. ASSUME NEW i \in Ids, LateAppend(i)
       PROVE  goal
  <2>1. i \in Visible /\ log' = Append(log, i) /\ status' = status
    BY <1>10 DEF LateAppend, IndInv, HeldRowsVisible, tableVars
  <2> QED
    BY <1>2, <2>1
<1>11. ASSUME NEW i \in Ids, BecomeDue(i)
       PROVE  goal
  BY <1>1, <1>11 DEF BecomeDue, brokerVars
<1>12. CASE UNCHANGED vars
  BY <1>1, <1>12 DEF vars, tableVars, brokerVars
<1> QED
  BY <1>4, <1>5, <1>6, <1>7, <1>9, <1>10, <1>11, <1>12 DEF Next, Surroundings

\* The outbox as built keeps the promise of AtLeastOnce: whatever relays,
\* crashes, purges and replays do, an event is settled only once delivered, and
\* only accepted events are delivered.
THEOREM Refinement == Spec => KeepsPromise
<1>1. Init => Promise!Init
  BY DEF Init, Promise!Init, Fate, FateOf, Delivered
<1>2. IndInv /\ [Next]_vars => [Promise!Next]_<<Fate, Delivered>>
  BY PromiseStep
<1> QED
  BY <1>1, <1>2, Invariance, PTL DEF Spec, KeepsPromise, Promise!Spec
=============================================================================
