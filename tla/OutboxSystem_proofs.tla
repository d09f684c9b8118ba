---------------------------- MODULE OutboxSystem_proofs ----------------------------
(***************************************************************************)
(* Proofs about the system, for any requests, relays, rows and failures on *)
(* either side: the composition is a behaviour of each of its parts, users *)
(* and rows agree, and the promise of the outbox is kept to the users.     *)
(***************************************************************************)
EXTENDS OutboxSystem, OutboxRelay_proofs

\* Where a handler is says what its transaction has written (as in WritePath_proofs;
\* only what the rows depend on).
ApiInv ==
    /\ handler \in [Requests -> {"new", "begin", "save", "append", "commit", "notify", "done"}]
    /\ event \in [Requests -> {"none", "recorded", "tracked", "drained"}]
    /\ tx \in [Requests -> SUBSET {"user", "row"}]
    /\ users \in SUBSET Requests
    /\ \A q \in Requests :
        /\ handler[q] = "append" => tx[q] = {"user"} /\ event[q] = "tracked"
        /\ handler[q] = "commit" => tx[q] = {"user", "row"}
        /\ handler[q] \notin {"append", "commit"} => tx[q] = {}
    /\ \A q \in users : handler[q] \in {"notify", "done"}

\* A request has a row of its own from its INSERT on, which is open while the
\* transaction is, and visible exactly when the user is.
BeforeRow == {"new", "begin", "save", "append"}
JoinInv ==
    /\ rowOf \in [Requests -> Ids \cup {NoRow}]
    /\ \A q \in Requests :
        /\ rowOf[q] # NoRow => status[rowOf[q]] # "absent"
        /\ handler[q] \in BeforeRow => rowOf[q] = NoRow
        /\ handler[q] = "commit" => rowOf[q] # NoRow /\ status[rowOf[q]] = "inserting"
        /\ q \in users <=> rowOf[q] \in Visible
    /\ \A p, q \in Requests : rowOf[p] = rowOf[q] /\ rowOf[p] # NoRow => p = q

SysInv == IndInv /\ ApiInv /\ JoinInv

-----------------------------------------------------------------------------
(* The steps of the system, by which part they are of.                     *)

\* A step of the relays, the broker, the purger, the operator or the clock.
TableSide ==
    \/ \E r \in Relays : RelayStep(r) \/ EmptyPass(r) \/ Trouble(r)
    \/ \E i \in Ids : BecomeDue(i) \/ LateAppend(i) \/ ReplayFailed(i)
    \/ \E S \in SUBSET Ids : PurgePublished(S)

\* A step of one request that writes no row and ends no transaction with one.
Alone(q) ==
    \/ Api!Begin(q) \/ Api!Save(q) \/ Api!SaveTaken(q) \/ Api!Notify(q)
    \/ Api!Arrive(q) \/ Api!NotifyFails(q)

LEMMA SysCases ==
    ASSUME [SysNext]_sysVars
    PROVE  \/ \E q \in Requests : AppendRow(q) \/ CommitRow(q) \/ FailRow(q) \/ SessionEnds(q)
           \/ UNCHANGED <<vars, rowOf>> /\ (Api!Crash \/ \E q \in Requests : Alone(q))
           \/ UNCHANGED <<apiVars, rowOf>> /\ TableSide
           \/ UNCHANGED sysVars
  BY DEF SysNext, ApiStep, ApiOther, OneRelay, BackoffEnds, RelaySide, Alone, TableSide

LEMMA TableSideSteps == TableSide => Next
  BY DEF TableSide, Next, Surroundings

\* Neither side but the producers touches a row before it is committed.
LEMMA UncommittedRowsKeep ==
    ASSUME IndInv, TableSide, NEW i \in Ids, status[i] \in {"absent", "inserting", "aborted"}
    PROVE  status'[i] = status[i]
<1>1. status \in [Ids -> Status]
  BY DEF IndInv, TypeOK
<1>2. ASSUME NEW r \in Relays, Commit(r) \/ CommitUnanswered(r)
      PROVE  status'[i] = status[i]
  <2>1. marks[r][i] = "none"
    BY MarksMeetPending
  <2> QED
    BY <1>2, <2>1 DEF Commit, CommitUnanswered, ApplyMarks
<1>3. ASSUME NEW r \in Relays, RelayStep(r) \/ EmptyPass(r) \/ Trouble(r),
             ~Commit(r), ~CommitUnanswered(r)
      PROVE  status' = status
  BY <1>3 DEF RelayStep, ClaimPending, Produce, Acked, MarkPublished, MarkFailed, Reschedule,
     StageMark, RollBack, Restart, EmptyPass, Trouble, Unroutable, PermanentError,
     TransientError, ClaimFails, SessionLost, Crash, tableVars
<1>4. ASSUME NEW j \in Ids, BecomeDue(j) \/ LateAppend(j) \/ ReplayFailed(j)
      PROVE  status'[i] = status[i]
  BY <1>1, <1>4 DEF BecomeDue, LateAppend, ReplayFailed, tableVars
<1>5. ASSUME NEW S \in SUBSET Ids, PurgePublished(S)
      PROVE  status'[i] = status[i]
  BY <1>1, <1>5 DEF PurgePublished
<1> QED
  BY <1>2, <1>3, <1>4, <1>5 DEF TableSide

\* What the end of a request's transaction is for the table.
LEMMA RowEnds ==
    ASSUME SysInv, NEW q \in Requests, NEW outcome \in {"pending", "aborted"}, EndRow(q, outcome)
    PROVE  \/ handler[q] # "commit" /\ UNCHANGED vars
           \/ /\ handler[q] = "commit" /\ rowOf[q] \in Ids
              /\ EndInsert(rowOf[q], outcome)
  BY DEF SysInv, ApiInv, JoinInv, EndRow

\* The insert draws the next id, which no request has.
LEMMA RowStarts ==
    ASSUME SysInv, NEW q \in Requests, AppendRow(q)
    PROVE  Insert /\ nextId \in Ids /\ status[nextId] = "absent"
           /\ rowOf' = [rowOf EXCEPT ![q] = nextId]
<1>1. Api!Envelopes(q) = {"row"}
  BY DEF SysInv, ApiInv, AppendRow, Api!AppendOutbox, Api!Envelopes
<1>2. Insert /\ rowOf' = [rowOf EXCEPT ![q] = nextId]
  BY <1>1 DEF AppendRow
<1>3. nextId \in Ids /\ status[nextId] = "absent"
  BY <1>2, MaxRowsAssumption DEF Insert, Ids, SysInv, IndInv, TypeOK, FreshIds
<1> QED
  BY <1>2, <1>3

\* Every step of the system is a step of the outbox, or none.
LEMMA OutboxSteps ==
    ASSUME SysInv, [SysNext]_sysVars
    PROVE  [Next]_vars
<1>1. ASSUME NEW q \in Requests, AppendRow(q) \/ CommitRow(q) \/ FailRow(q) \/ SessionEnds(q)
      PROVE  [Next]_vars
  <2>1. CASE AppendRow(q)
    BY <2>1, RowStarts DEF Next, Surroundings
  <2>2. CASE CommitRow(q) \/ FailRow(q)
    BY <2>2, RowEnds DEF CommitRow, FailRow, Next, Surroundings
  <2>3. CASE SessionEnds(q)
    BY <2>3 DEF SessionEnds, SysInv, JoinInv, Next, Surroundings
  <2> QED
    BY <1>1, <2>1, <2>2, <2>3
<1> QED
  BY <1>1, SysCases, TableSideSteps DEF sysVars

\* Every step of the system is a step of the write path, or none.
LEMMA WritePathSteps ==
    ASSUME [SysNext]_sysVars
    PROVE  [Api!Next]_apiVars
<1>1. ASSUME NEW q \in Requests, AppendRow(q) \/ CommitRow(q) \/ FailRow(q) \/ SessionEnds(q)
      PROVE  [Api!Next]_apiVars
  BY <1>1 DEF AppendRow, CommitRow, FailRow, SessionEnds, Api!Next, Api!Step
<1>2. ASSUME NEW q \in Requests, Alone(q)
      PROVE  Api!Next
  BY <1>2 DEF Alone, Api!Next, Api!Step
<1>3. Api!Crash => Api!Next
  BY DEF Api!Next
<1> QED
  BY <1>1, <1>2, <1>3, SysCases DEF sysVars

-----------------------------------------------------------------------------
(* The invariant.                                                          *)

LEMMA SysInvInit == SysInit => SysInv
<1> SUFFICES ASSUME SysInit
             PROVE  SysInv
  OBVIOUS
<1>1. IndInv
  BY InvInit DEF SysInit
<1>2. ApiInv
  BY DEF SysInit, Api!Init, ApiInv
<1>3. JoinInv
  BY DEF SysInit, Api!Init, JoinInv, Visible, NoRow, Ids
<1> QED
  BY <1>1, <1>2, <1>3 DEF SysInv

\* The handlers, by what each step does to its own and to nobody else's.
LEMMA HandlersStep ==
    ASSUME SysInv, [SysNext]_sysVars
    PROVE  ApiInv'
<1> USE DEF ApiInv
<1>0. ApiInv
  BY DEF SysInv
<1>1. ASSUME NEW q \in Requests, AppendRow(q)
      PROVE  ApiInv'
  BY <1>0, <1>1 DEF AppendRow, Api!AppendOutbox, Api!Envelopes, Api!Drain
<1>2. ASSUME NEW q \in Requests, CommitRow(q)
      PROVE  ApiInv'
  BY <1>0, <1>2
  DEF CommitRow, Api!Commit, Api!CommitUnanswered, Api!MakeVisible, Api!Answer
<1>3. ASSUME NEW q \in Requests, FailRow(q)
      PROVE  ApiInv'
  BY <1>0, <1>3 DEF FailRow, Api!Fail, Api!Answer
<1>4. ASSUME NEW q \in Requests, Api!Begin(q) \/ Api!Save(q) \/ Api!SaveTaken(q)
      PROVE  ApiInv'
  BY <1>0, <1>4 DEF Api!Begin, Api!Save, Api!SaveTaken, Api!Track, Api!Answer
<1>5. ASSUME NEW q \in Requests, Api!Notify(q) \/ Api!NotifyFails(q) \/ Api!Arrive(q)
      PROVE  ApiInv'
  BY <1>0, <1>5
  DEF Api!Notify, Api!NotifyFails, Api!Arrive, Api!Refuse, Api!Accept, Api!Record, Api!Answer
<1>6. CASE Api!Crash
  BY <1>0, <1>6 DEF Api!Crash
<1>7. CASE UNCHANGED apiVars
  BY <1>0, <1>7 DEF apiVars
<1>8. ASSUME NEW q \in Requests, SessionEnds(q)
      PROVE  UNCHANGED apiVars
  BY <1>8 DEF SessionEnds
<1> QED
  BY <1>1, <1>2, <1>3, <1>4, <1>5, <1>6, <1>7, <1>8, SysCases DEF Alone, sysVars

\* Rows and requests, after a step of a handler that touches no row.
LEMMA AloneKeepsJoin ==
    ASSUME SysInv, UNCHANGED <<vars, rowOf>>,
           Api!Crash \/ \E q \in Requests : Alone(q) \/ (FailRow(q) /\ handler[q] # "commit")
    PROVE  JoinInv'
<1>1. /\ users' = users
      /\ \A q \in Requests : /\ handler'[q] = "commit" => handler[q] = "commit"
                             /\ handler'[q] \in BeforeRow => handler[q] \in BeforeRow
  <2>1. CASE Api!Crash
    BY <2>1 DEF SysInv, ApiInv, Api!Crash, BeforeRow
  <2>2. ASSUME NEW q \in Requests, Api!Begin(q) \/ Api!Save(q) \/ Api!SaveTaken(q)
        PROVE  <1>1!:
    BY <2>2 DEF SysInv, ApiInv, Api!Begin, Api!Save, Api!SaveTaken, Api!Answer, BeforeRow
  <2>3. ASSUME NEW q \in Requests, Api!Notify(q) \/ Api!NotifyFails(q) \/ Api!Arrive(q)
               \/ FailRow(q)
        PROVE  <1>1!:
    BY <2>3 DEF SysInv, ApiInv, Api!Notify, Api!NotifyFails, Api!Arrive, Api!Refuse, Api!Accept,
       FailRow, Api!Fail, Api!Answer, BeforeRow
  <2> QED
    BY <2>1, <2>2, <2>3 DEF Alone
<1>2. status' = status /\ Visible' = Visible /\ rowOf' = rowOf
  BY DEF vars, tableVars, Visible
<1> QED
  BY <1>1, <1>2 DEF SysInv, JoinInv

LEMMA AppendKeepsJoin ==
    ASSUME SysInv, NEW q \in Requests, AppendRow(q)
    PROVE  JoinInv'
<1>0. rowOf \in [Requests -> Ids \cup {NoRow}] /\ status \in [Ids -> Status]
  BY DEF SysInv, IndInv, TypeOK, JoinInv
<1>1. /\ nextId \in Ids /\ nextId # NoRow /\ status[nextId] = "absent"
      /\ rowOf' = [rowOf EXCEPT ![q] = nextId]
      /\ status' = [status EXCEPT ![nextId] = "inserting"]
  BY RowStarts DEF Insert, NoRow, Ids
<1>2. /\ handler[q] = "append" /\ handler'[q] = "commit" /\ users' = users
      /\ \A p \in Requests \ {q} : handler'[p] = handler[p]
  BY DEF SysInv, ApiInv, AppendRow, Api!AppendOutbox
<1>3. Visible' = Visible
  BY <1>0, <1>1 DEF Visible
<1>4. \A p \in Requests : rowOf[p] # nextId
  BY <1>1 DEF SysInv, JoinInv
<1>5. /\ rowOf'[q] = nextId /\ status'[nextId] = "inserting" /\ nextId \notin Visible
      /\ \A p \in Requests \ {q} :
            rowOf'[p] = rowOf[p] /\ (rowOf[p] # NoRow => status'[rowOf[p]] = status[rowOf[p]])
  BY <1>0, <1>1, <1>4 DEF Visible
<1>6. q \notin users
  BY <1>2 DEF SysInv, ApiInv
<1>7. rowOf' \in [Requests -> Ids \cup {NoRow}]
  BY <1>0, <1>1
<1>8. ASSUME NEW p \in Requests
      PROVE  /\ rowOf'[p] # NoRow => status'[rowOf'[p]] # "absent"
             /\ handler'[p] \in BeforeRow => rowOf'[p] = NoRow
             /\ handler'[p] = "commit" => rowOf'[p] # NoRow /\ status'[rowOf'[p]] = "inserting"
             /\ p \in users' <=> rowOf'[p] \in Visible'
  <2>1. CASE p = q
    BY <1>1, <1>2, <1>3, <1>5, <1>6, <2>1 DEF BeforeRow
  <2>2. CASE p # q
    BY <1>2, <1>3, <1>5, <2>2 DEF SysInv, JoinInv
  <2> QED
    BY <2>1, <2>2
<1>9. \A p, w \in Requests : rowOf'[p] = rowOf'[w] /\ rowOf'[p] # NoRow => p = w
  BY <1>4, <1>5 DEF SysInv, JoinInv
<1> QED
  BY <1>7, <1>8, <1>9 DEF JoinInv

\* The row of q ends, as its transaction does or as the server finds.
LEMMA EndKeepsJoin ==
    ASSUME SysInv, NEW q \in Requests, NEW outcome \in {"pending", "aborted"},
           EndInsert(rowOf[q], outcome), rowOf[q] \in Ids, rowOf' = rowOf,
           handler'[q] \in {"notify", "done"},
           \A p \in Requests \ {q} : handler'[p] = handler[p],
           users' = IF outcome = "pending" THEN users \cup {q} ELSE users
    PROVE  JoinInv'
<1>0. /\ rowOf \in [Requests -> Ids \cup {NoRow}] /\ status \in [Ids -> Status]
      /\ NoRow \notin Ids
  BY DEF SysInv, IndInv, TypeOK, JoinInv, NoRow, Ids
<1>1. /\ status[rowOf[q]] = "inserting" /\ status'[rowOf[q]] = outcome
      /\ \A i \in Ids \ {rowOf[q]} : status'[i] = status[i]
  BY <1>0 DEF EndInsert
<1>2. Visible' = IF outcome = "pending" THEN Visible \cup {rowOf[q]} ELSE Visible
  BY <1>1 DEF Visible
<1>3. \A p \in Requests \ {q} : rowOf[p] # rowOf[q]
  BY <1>0 DEF SysInv, JoinInv
<1>4. rowOf[q] \notin Visible
  BY <1>1 DEF Visible
<1>5. ASSUME NEW p \in Requests
      PROVE  /\ rowOf'[p] # NoRow => status'[rowOf'[p]] # "absent"
             /\ handler'[p] \in BeforeRow => rowOf'[p] = NoRow
             /\ handler'[p] = "commit" => rowOf'[p] # NoRow /\ status'[rowOf'[p]] = "inserting"
             /\ p \in users' <=> rowOf'[p] \in Visible'
  <2>1. CASE p = q
    BY <1>0, <1>1, <1>2, <1>4, <2>1 DEF BeforeRow, SysInv, JoinInv
  <2>2. CASE p # q
    BY <1>0, <1>1, <1>2, <1>3, <2>2 DEF SysInv, JoinInv
  <2> QED
    BY <2>1, <2>2
<1> QED
  BY <1>0, <1>5 DEF SysInv, JoinInv

LEMMA TableKeepsJoin ==
    ASSUME SysInv, UNCHANGED <<handler, users, rowOf>>, TableSide
    PROVE  JoinInv'
<1>1. status \in [Ids -> Status] /\ status' \in [Ids -> Status]
  BY TableSideSteps, TypeStep DEF SysInv, IndInv, TypeOK
<1>2. \A i \in Ids : status[i] \in {"absent", "inserting", "aborted"} => status'[i] = status[i]
  BY UncommittedRowsKeep DEF SysInv
<1>3. Visible \subseteq Visible'
  BY TableSideSteps, VisibleGrows DEF SysInv
<1>4. Visible' = Visible
  BY <1>1, <1>2, <1>3 DEF Visible, Status
<1>5. \A i \in Ids : status[i] # "absent" => status'[i] # "absent"
  BY <1>1, <1>2, <1>3 DEF Visible, Status
<1> QED
  BY <1>2, <1>4, <1>5 DEF SysInv, JoinInv

LEMMA JoinStep ==
    ASSUME SysInv, [SysNext]_sysVars
    PROVE  JoinInv'
<1>1. ASSUME NEW q \in Requests, CommitRow(q)
      PROVE  JoinInv'
  <2>1. /\ handler[q] = "commit" /\ handler'[q] \in {"notify", "done"} /\ rowOf' = rowOf
        /\ \A p \in Requests \ {q} : handler'[p] = handler[p]
        /\ users' = users \cup {q}
    BY <1>1 DEF SysInv, ApiInv, CommitRow, Api!Commit, Api!CommitUnanswered, Api!MakeVisible,
       Api!Answer
  <2>2. rowOf[q] \in Ids /\ EndInsert(rowOf[q], "pending")
    BY <1>1, <2>1, RowEnds DEF CommitRow
  <2> QED
    BY <2>1, <2>2, EndKeepsJoin
<1>2. ASSUME NEW q \in Requests, FailRow(q)
      PROVE  JoinInv'
  <2>1. /\ handler'[q] = "done" /\ rowOf' = rowOf /\ users' = users
        /\ \A p \in Requests \ {q} : handler'[p] = handler[p]
    BY <1>2 DEF SysInv, ApiInv, FailRow, Api!Fail, Api!Answer
  <2>2. CASE handler[q] = "commit"
    <3>1. rowOf[q] \in Ids /\ EndInsert(rowOf[q], "aborted")
      BY <1>2, <2>2, RowEnds DEF FailRow
    <3> QED
      BY <2>1, <3>1, EndKeepsJoin
  <2>3. CASE handler[q] # "commit"
    <3>1. UNCHANGED <<vars, rowOf>>
      BY <1>2, <2>1, <2>3, RowEnds DEF FailRow
    <3> QED
      BY <1>2, <2>3, <3>1, AloneKeepsJoin
  <2> QED
    BY <2>2, <2>3
<1>3. ASSUME NEW q \in Requests, SessionEnds(q)
      PROVE  JoinInv'
  <2>1. /\ rowOf[q] \in Ids /\ EndInsert(rowOf[q], "aborted") /\ rowOf' = rowOf
        /\ handler' = handler /\ handler[q] = "done" /\ users' = users
    BY <1>3 DEF SessionEnds, SysInv, JoinInv, apiVars
  <2> QED
    BY <2>1, EndKeepsJoin
<1>4. CASE UNCHANGED sysVars
  BY <1>4 DEF sysVars, vars, tableVars, apiVars, SysInv, JoinInv, Visible
<1>5. ASSUME UNCHANGED <<apiVars, rowOf>>, TableSide
      PROVE  JoinInv'
  BY <1>5, TableKeepsJoin DEF apiVars
<1> QED
  BY <1>1, <1>2, <1>3, <1>4, <1>5, AppendKeepsJoin, AloneKeepsJoin, SysCases

LEMMA SysInvStep == SysInv /\ [SysNext]_sysVars => SysInv'
<1> SUFFICES ASSUME SysInv, [SysNext]_sysVars
             PROVE  SysInv'
  OBVIOUS
<1>1. IndInv'
  BY OutboxSteps, InvStep DEF SysInv
<1> QED
  BY <1>1, HandlersStep, JoinStep DEF SysInv

LEMMA SysInvariance == SysSpec => []SysInv
  BY SysInvInit, SysInvStep, PTL DEF SysSpec

-----------------------------------------------------------------------------

\* The relays see a row exactly when the user it announces exists.
THEOREM UsersHaveRows == SysSpec => []RowsAndUsersAgree
<1>1. SysInv => RowsAndUsersAgree
  BY DEF SysInv, JoinInv, RowsAndUsersAgree, Visible, Ids, NoRow
<1> QED
  BY <1>1, SysInvariance, PTL

\* The composition is the outbox to the relays: every theorem about OutboxRelay
\* holds of the system.
THEOREM ComposesOutbox == SysSpec => Spec
<1>1. SysInit => Init
  BY DEF SysInit
<1>2. SysInv /\ [SysNext]_sysVars => [Next]_vars
  BY OutboxSteps
<1> QED
  BY <1>1, <1>2, SysInvariance, PTL DEF SysSpec, Spec

\* And the write path to the clients.
THEOREM ComposesWritePath == SysSpec => Api!Spec
<1>1. SysInit => Api!Init
  BY DEF SysInit
<1>2. [SysNext]_sysVars => [Api!Next]_apiVars
  BY WritePathSteps
<1> QED
  BY <1>1, <1>2, PTL DEF SysSpec, Api!Spec, Api!vars, apiVars

-----------------------------------------------------------------------------
(* The promise to the users, from the promise of the table.                *)

\* What has become of a user's event is what has become of its row.
RowFate(q) == IF rowOf[q] = NoRow THEN "none" ELSE Fate[rowOf[q]]

FateFollowsRow == UserFate = [q \in Requests |-> RowFate(q)]

LEMMA FateOfUser == SysInv => FateFollowsRow
<1> SUFFICES ASSUME SysInv
             PROVE  FateFollowsRow
  OBVIOUS
<1>1. rowOf \in [Requests -> Ids \cup {NoRow}] /\ status \in [Ids -> Status] /\ NoRow \notin Ids
  BY DEF SysInv, IndInv, TypeOK, JoinInv, NoRow, Ids
<1>2. ASSUME NEW q \in Requests
      PROVE  (IF q \in users THEN FateOf(rowOf[q]) ELSE "none") = RowFate(q)
  <2>1. CASE rowOf[q] \in Visible
    BY <1>1, <2>1 DEF SysInv, JoinInv, RowFate, Fate, Visible
  <2>2. CASE rowOf[q] \notin Visible
    <3>1. q \notin users
      BY <2>2 DEF SysInv, JoinInv
    <3>2. rowOf[q] # NoRow => FateOf(rowOf[q]) = "none"
      BY <1>1, <2>2 DEF Visible, Status, FateOf
    <3> QED
      BY <1>1, <3>1, <3>2 DEF RowFate, Fate
  <2> QED
    BY <2>1, <2>2
<1> QED
  BY <1>2 DEF UserFate, FateFollowsRow

LEMMA FateOfUserNext == SysInv' => FateFollowsRow'
  BY FateOfUser, PTL

\* A step of the outbox that moves no row from one request to another is a step of
\* the promise to the users: rows without a user are none of their business.
LEMMA PromiseCarriesOver ==
    ASSUME SysInv, SysInv', rowOf' = rowOf, [Promise!Next]_<<Fate, Delivered>>
    PROVE  [UserPromise!Next]_<<UserFate, Announced>>
<1> DEFINE goal == [UserPromise!Next]_<<UserFate, Announced>>
<1>1. /\ UserFate = [q \in Requests |-> RowFate(q)] /\ UserFate' = [q \in Requests |-> RowFate(q)']
      /\ \A q \in Requests : rowOf[q] \in Ids \cup {NoRow}
      /\ NoRow \notin Ids /\ Delivered \subseteq Ids /\ Delivered' \subseteq Ids
  <2>1. UserFate = [q \in Requests |-> RowFate(q)] /\ UserFate' = [q \in Requests |-> RowFate(q)']
    BY FateOfUser, FateOfUserNext DEF FateFollowsRow
  <2>2. (\A q \in Requests : rowOf[q] \in Ids \cup {NoRow}) /\ NoRow \notin Ids
    BY DEF SysInv, JoinInv, NoRow, Ids
  <2>3. Delivered \subseteq Ids /\ Delivered' \subseteq Ids
    BY DEF SysInv, IndInv, NoPhantom, Visible
  <2> QED
    BY <2>1, <2>2, <2>3
<1>2. \A p, q \in Requests : rowOf[p] = rowOf[q] /\ rowOf[p] # NoRow => p = q
  BY DEF SysInv, JoinInv
<1>3. CASE UNCHANGED <<Fate, Delivered>>
  BY <1>1, <1>3 DEF RowFate, Announced
<1>4. ASSUME NEW i \in Ids, Promise!Accept(i) \/ Promise!Readmit(i)
      PROVE  goal
  <2>1. /\ Fate[i] \in {"none", "parked"} /\ Fate' = [Fate EXCEPT ![i] = "owed"]
        /\ Delivered' = Delivered
    BY <1>4 DEF Promise!Accept, Promise!Readmit
  <2>2. Announced' = Announced
    BY <2>1 DEF Announced
  <2>3. Fate'[i] = "owed" /\ \A j \in Ids \ {i} : Fate'[j] = Fate[j]
    BY <2>1 DEF Fate
  <2>4. CASE \E q \in Requests : rowOf[q] = i
    <3>1. PICK q \in Requests : rowOf[q] = i
      BY <2>4
    <3>2. RowFate(q) = Fate[i] /\ RowFate(q)' = "owed"
      BY <1>1, <2>3, <3>1 DEF RowFate
    <3>3. \A p \in Requests \ {q} : RowFate(p)' = RowFate(p)
      BY <1>1, <1>2, <2>3, <3>1 DEF RowFate
    <3>4. UserFate[q] = Fate[i] /\ UserFate' = [UserFate EXCEPT ![q] = "owed"]
      BY <1>1, <3>2, <3>3
    <3>5. UserPromise!Accept(q) \/ UserPromise!Readmit(q)
      BY <1>4, <2>2, <3>4
      DEF Promise!Accept, Promise!Readmit, UserPromise!Accept, UserPromise!Readmit
    <3> QED
      BY <3>5 DEF UserPromise!Next
  <2>5. CASE \A q \in Requests : rowOf[q] # i
    <3>1. \A q \in Requests : RowFate(q)' = RowFate(q)
      BY <1>1, <2>3, <2>5 DEF RowFate
    <3> QED
      BY <1>1, <2>2, <3>1
  <2> QED
    BY <2>4, <2>5
<1>5. ASSUME NEW i \in Ids, Promise!Deliver(i)
      PROVE  goal
  <2>1. Fate[i] # "none" /\ Fate' = Fate /\ Delivered' = Delivered \cup {i}
    BY <1>5 DEF Promise!Deliver
  <2>2. UserFate' = UserFate
    BY <1>1, <2>1 DEF RowFate
  <2>3. CASE \E q \in Requests : rowOf[q] = i
    <3>1. PICK q \in Requests : rowOf[q] = i
      BY <2>3
    <3>2. Announced' = Announced \cup {q}
      BY <1>1, <1>2, <2>1, <3>1 DEF Announced
    <3>3. UserFate[q] # "none"
      BY <1>1, <2>1, <3>1 DEF RowFate
    <3>4. UserPromise!Deliver(q)
      BY <2>2, <3>2, <3>3 DEF UserPromise!Deliver
    <3> QED
      BY <3>4 DEF UserPromise!Next
  <2>4. CASE \A q \in Requests : rowOf[q] # i
    BY <2>1, <2>2, <2>4 DEF Announced
  <2> QED
    BY <2>3, <2>4
<1>6. ASSUME NEW S \in SUBSET Ids, NEW P \in SUBSET Ids, Promise!Decide(S, P)
      PROVE  goal
  <2> DEFINE settled == {q \in Requests : rowOf[q] \in S}
             parked  == {q \in Requests : rowOf[q] \in P}
  <2>1. /\ S \cap P = {} /\ \A i \in S \cup P : Fate[i] = "owed"
        /\ S \subseteq Delivered /\ Delivered' = Delivered
        /\ \A i \in Ids : Fate'[i] = IF i \in S THEN "settled" ELSE IF i \in P THEN "parked" ELSE Fate[i]
    BY <1>6 DEF Promise!Decide
  <2>2. Announced' = Announced /\ settled \subseteq Announced /\ settled \cap parked = {}
    BY <2>1 DEF Announced
  <2>3. \A q \in settled \cup parked : UserFate[q] = "owed"
    BY <1>1, <2>1 DEF RowFate
  <2>4. \A q \in Requests : RowFate(q)' = IF q \in settled THEN "settled"
                                          ELSE IF q \in parked THEN "parked" ELSE RowFate(q)
    BY <1>1, <2>1 DEF RowFate
  <2>5. UserFate' = [q \in Requests |-> IF q \in settled THEN "settled"
                                        ELSE IF q \in parked THEN "parked" ELSE UserFate[q]]
    BY <1>1, <2>4
  <2>6. UserPromise!Decide(settled, parked)
    BY <2>2, <2>3, <2>5 DEF UserPromise!Decide
  <2>7. settled \in SUBSET Requests /\ parked \in SUBSET Requests
    OBVIOUS
  <2> QED
    BY <2>6, <2>7 DEF UserPromise!Next
<1> QED
  BY <1>3, <1>4, <1>5, <1>6 DEF Promise!Next

\* A row that is drawn is not visible yet, and its request had none before.
LEMMA AppendHidden ==
    ASSUME SysInv, SysInv', NEW q \in Requests, AppendRow(q)
    PROVE  UNCHANGED <<UserFate, Announced>>
<1>1. /\ rowOf' = [rowOf EXCEPT ![q] = nextId] /\ nextId \in Ids /\ status[nextId] = "absent"
      /\ status' = [status EXCEPT ![nextId] = "inserting"] /\ log' = log
  BY RowStarts DEF Insert, brokerVars
<1>2. rowOf \in [Requests -> Ids \cup {NoRow}] /\ status \in [Ids -> Status] /\ NoRow \notin Ids
  BY DEF SysInv, IndInv, TypeOK, JoinInv, NoRow, Ids
<1>3. rowOf[q] = NoRow /\ \A p \in Requests : rowOf[p] # nextId
  BY <1>1 DEF SysInv, JoinInv, ApiInv, AppendRow, Api!AppendOutbox, BeforeRow
<1>4. Delivered' = Delivered /\ nextId \notin Delivered /\ NoRow \notin Delivered
  BY <1>1, <1>2 DEF SysInv, IndInv, NoPhantom, Visible, Delivered
<1>5. Announced' = Announced
  BY <1>1, <1>2, <1>3, <1>4 DEF Announced
<1>6. users' = users /\ q \notin users
  BY DEF SysInv, ApiInv, AppendRow, Api!AppendOutbox
<1>7. \A p \in users : FateOf(rowOf[p])' = FateOf(rowOf[p])
  <2>1. \A p \in users : p \in Requests /\ p # q
    BY <1>6 DEF SysInv, ApiInv
  <2>2. \A p \in users : rowOf'[p] = rowOf[p] /\ rowOf[p] \in Ids \ {nextId}
    BY <1>1, <1>2, <1>3, <2>1 DEF SysInv, JoinInv, Visible
  <2>3. \A p \in users : status'[rowOf'[p]] = status[rowOf[p]]
    BY <1>1, <1>2, <2>2
  <2> QED
    BY <2>3 DEF FateOf
<1>8. UserFate' = UserFate
  BY <1>6, <1>7 DEF UserFate
<1> QED
  BY <1>5, <1>8

LEMMA UserPromiseStep ==
    ASSUME SysInv, SysInv', [SysNext]_sysVars
    PROVE  [UserPromise!Next]_<<UserFate, Announced>>
<1>1. (\E q \in Requests : AppendRow(q)) \/ rowOf' = rowOf
  BY SysCases DEF CommitRow, FailRow, SessionEnds, sysVars
<1>2. CASE rowOf' = rowOf
  <2>1. [Promise!Next]_<<Fate, Delivered>>
    BY OutboxSteps, PromiseStep DEF SysInv
  <2> QED
    BY <1>2, <2>1, PromiseCarriesOver
<1> QED
  BY <1>1, <1>2, AppendHidden

\* From the registration to the broker: a user's event is owed once the user exists,
\* settled only once delivered, and delivered only for a user that exists.
THEOREM UsersArePromised == SysSpec => KeepsUserPromise
<1>1. SysInit => UserPromise!Init
  BY DEF SysInit, Api!Init, Init, UserPromise!Init, UserFate, Announced, Delivered
<1>2. SysInv /\ SysInv' /\ [SysNext]_sysVars => [UserPromise!Next]_<<UserFate, Announced>>
  BY UserPromiseStep
<1> QED
  BY <1>1, <1>2, SysInvariance, PTL DEF SysSpec, KeepsUserPromise, UserPromise!Spec

=============================================================================
