----------------------------- MODULE WritePath_proofs -----------------------------
(***************************************************************************)
(* Proofs about the write path, for any number of requests, any addresses, *)
(* any pool and any faults: what the answers mean, that an address is      *)
(* registered once, and that WritePath implements Registration.            *)
(***************************************************************************)
EXTENDS WritePath, TLAPS

\* What a request's transaction has written follows from where its handler is.
TxInv ==
    \A r \in Requests :
        /\ pc[r] = "append" => tx[r] = {"user"} /\ event[r] = "tracked"
        /\ pc[r] = "commit" => tx[r] = {"user", "row"}
        /\ pc[r] \notin {"append", "commit"} => tx[r] = {}

\* A user and its event are visible together, once the handler is past its commit.
CommitInv ==
    /\ users = rows
    /\ \A r \in users : pc[r] \in {"notify", "done"}
    /\ \A r \in Requests : pc[r] = "notify" => r \in users

\* An address has one holder: a committed user, or one open transaction.
Holders == users \cup {r \in Requests : "user" \in tx[r]}
EmailInv == \A u, v \in Holders : EmailOf[u] = EmailOf[v] => u = v

AnswerInv ==
    \A r \in Requests :
        /\ answer[r] # "none" => pc[r] = "done"
        /\ answer[r] = "created" => r \in users
        /\ answer[r] = "taken" => r \notin users /\ EmailTaken(r)
        /\ answer[r] = "invalid" => r \notin users

Inv == TypeOK /\ TxInv /\ CommitInv /\ EmailInv /\ AnswerInv

-----------------------------------------------------------------------------

LEMMA InitInv == Init => Inv
<1> SUFFICES ASSUME Init
             PROVE  Inv
  OBVIOUS
<1>1. TypeOK
  BY FaultAssumption DEF Init, TypeOK
<1>2. TxInv /\ CommitInv /\ AnswerInv
  BY DEF Init, TxInv, CommitInv, AnswerInv
<1>3. EmailInv
  BY DEF Init, EmailInv, Holders
<1> QED
  BY <1>1, <1>2, <1>3 DEF Inv

\* The steps after which the request is where it says and nothing is committed.
LEMMA QuietStep ==
    ASSUME Inv, NEW r \in Requests,
           Refuse(r) \/ Accept(r) \/ Begin(r) \/ SaveTaken(r) \/ Fail(r)
    PROVE  Inv'
<1> USE DEF Inv
<1>1. TypeOK'
  BY FaultAssumption
     DEF TypeOK, Refuse, Accept, Record, Begin, SaveTaken, Fail, Fault, Answer
<1>2. /\ UNCHANGED <<users, rows, notified>>
      /\ pc'[r] \in {"begin", "save", "done"} /\ tx'[r] = {} /\ pc[r] \notin {"notify", "done"}
      /\ \A q \in Requests \ {r} : pc'[q] = pc[q] /\ tx'[q] = tx[q] /\ event'[q] = event[q]
                                     /\ answer'[q] = answer[q]
  BY DEF TypeOK, TxInv, Refuse, Accept, Record, Begin, SaveTaken, Fail, Answer
<1>3. r \notin users
  BY <1>2 DEF CommitInv
<1>4. TxInv'
  BY <1>2 DEF TxInv
<1>5. CommitInv'
  BY <1>2, <1>3 DEF CommitInv, TypeOK
<1>6. EmailInv'
  BY <1>2 DEF EmailInv, Holders
<1>7. \/ answer'[r] = answer[r] /\ answer[r] = "none"
      \/ answer'[r] \in {"invalid", "error"} /\ pc'[r] = "done"
      \/ answer'[r] = "taken" /\ pc'[r] = "done" /\ EmailTaken(r)
  BY <1>2 DEF TypeOK, AnswerInv, Refuse, Accept, Begin, SaveTaken, Fail, Answer
<1>8. AnswerInv'
  BY <1>2, <1>3, <1>7 DEF AnswerInv, EmailTaken
<1> QED
  BY <1>1, <1>4, <1>5, <1>6, <1>8

LEMMA SaveStep ==
    ASSUME Inv, NEW r \in Requests, Save(r)
    PROVE  Inv'
<1> USE DEF Inv
<1>1. TypeOK'
  BY DEF TypeOK, Save, Track
<1>2. /\ UNCHANGED <<users, rows, notified, answer>>
      /\ pc[r] = "save" /\ pc'[r] = "append" /\ tx'[r] = {"user"} /\ event'[r] = "tracked"
      /\ \A q \in Requests \ {r} : pc'[q] = pc[q] /\ tx'[q] = tx[q] /\ event'[q] = event[q]
      /\ ~EmailHeld(r) /\ ~EmailTaken(r)
  BY DEF TypeOK, TxInv, Save, Track
<1>3. TxInv' /\ CommitInv' /\ AnswerInv'
  BY <1>2 DEF TypeOK, TxInv, CommitInv, AnswerInv, EmailTaken
<1>4. Holders' = Holders \cup {r}
  BY <1>2 DEF Holders
<1>5. \A u \in Holders \ {r} : EmailOf[u] # EmailOf[r]
  BY <1>2 DEF Holders, EmailHeld, EmailTaken
<1>6. EmailInv'
  BY <1>4, <1>5 DEF EmailInv
<1> QED
  BY <1>1, <1>3, <1>6

LEMMA AppendStep ==
    ASSUME Inv, NEW r \in Requests, AppendOutbox(r)
    PROVE  Inv'
<1> USE DEF Inv
<1>1. TypeOK'
  BY DEF TypeOK, AppendOutbox, Drain, Envelopes
<1>2. /\ UNCHANGED <<users, rows, notified, answer>>
      /\ pc[r] = "append" /\ pc'[r] = "commit" /\ tx[r] = {"user"} /\ tx'[r] = {"user", "row"}
      /\ \A q \in Requests \ {r} : pc'[q] = pc[q] /\ tx'[q] = tx[q] /\ event'[q] = event[q]
  BY DEF TypeOK, TxInv, AppendOutbox, Drain, Envelopes
<1>3. TxInv' /\ CommitInv' /\ AnswerInv'
  BY <1>2 DEF TypeOK, TxInv, CommitInv, AnswerInv, EmailTaken
<1>4. Holders' = Holders
  BY <1>2 DEF Holders
<1>5. EmailInv'
  BY <1>4 DEF EmailInv
<1> QED
  BY <1>1, <1>3, <1>5

\* What a commit makes visible: the user and its event.
LEMMA CommitShows ==
    ASSUME Inv, NEW r \in Requests, pc[r] = "commit", MakeVisible(r)
    PROVE  users' = users \cup {r} /\ rows' = rows \cup {r} /\ r \notin users
           /\ \A v \in users : EmailOf[v] # EmailOf[r]
  BY DEF Inv, TxInv, CommitInv, EmailInv, Holders, MakeVisible

LEMMA CommitStep ==
    ASSUME Inv, NEW r \in Requests, Commit(r) \/ CommitUnanswered(r)
    PROVE  Inv'
<1> USE DEF Inv
<1>1. /\ users' = users \cup {r} /\ rows' = rows \cup {r} /\ r \notin users
      /\ \A v \in users : EmailOf[v] # EmailOf[r]
  BY CommitShows DEF Commit, CommitUnanswered
<1>2. TypeOK'
  BY <1>1, FaultAssumption DEF TypeOK, Commit, CommitUnanswered, Answer, Fault
<1>3. /\ UNCHANGED notified
      /\ pc[r] = "commit" /\ pc'[r] \in {"notify", "done"} /\ tx'[r] = {}
      /\ \A q \in Requests \ {r} : pc'[q] = pc[q] /\ tx'[q] = tx[q] /\ event'[q] = event[q]
                                     /\ answer'[q] = answer[q]
      /\ answer'[r] = answer[r] \/ (answer'[r] = "error" /\ pc'[r] = "done")
  BY DEF TypeOK, Commit, CommitUnanswered, Answer
<1>4. TxInv' /\ CommitInv'
  BY <1>1, <1>3 DEF TypeOK, TxInv, CommitInv
<1>5. Holders' \subseteq Holders \cup {r} /\ r \in Holders
  BY <1>1, <1>3 DEF Holders, TxInv
<1>6. EmailInv'
  BY <1>5 DEF EmailInv
<1>7. AnswerInv'
  BY <1>1, <1>3 DEF TypeOK, AnswerInv, EmailTaken
<1> QED
  BY <1>2, <1>4, <1>6, <1>7

LEMMA NotifyStep ==
    ASSUME Inv, NEW r \in Requests, Notify(r) \/ NotifyFails(r)
    PROVE  Inv'
<1> USE DEF Inv
<1>1. TypeOK'
  BY FaultAssumption DEF TypeOK, Notify, NotifyFails, Answer, Fault
<1>2. /\ UNCHANGED <<users, rows, event>>
      /\ pc[r] = "notify" /\ pc'[r] = "done" /\ tx'[r] = {} /\ answer'[r] = "created"
      /\ \A q \in Requests \ {r} : pc'[q] = pc[q] /\ tx'[q] = tx[q] /\ answer'[q] = answer[q]
  BY DEF TypeOK, Notify, NotifyFails, Answer
<1>3. TxInv' /\ CommitInv' /\ AnswerInv'
  BY <1>2 DEF TypeOK, TxInv, CommitInv, AnswerInv, EmailTaken
<1>4. EmailInv'
  BY <1>2 DEF EmailInv, Holders
<1> QED
  BY <1>1, <1>3, <1>4

LEMMA CrashStep ==
    ASSUME Inv, Crash
    PROVE  Inv'
<1> USE DEF Inv
<1>1. TypeOK'
  BY FaultAssumption DEF TypeOK, Crash, Fault
<1>2. /\ UNCHANGED <<users, rows, event>>
      /\ \A r \in Requests : /\ pc'[r] = IF pc[r] = "new" THEN "new" ELSE "done"
                             /\ tx'[r] = {}
                             /\ answer'[r] \in {answer[r], "lost"}
                             /\ pc[r] = "new" => answer'[r] = answer[r]
  BY DEF Crash
<1>3. TxInv' /\ CommitInv' /\ AnswerInv'
  BY <1>2 DEF TypeOK, TxInv, CommitInv, AnswerInv, EmailTaken
<1>4. EmailInv'
  BY <1>2 DEF EmailInv, Holders
<1> QED
  BY <1>1, <1>3, <1>4

LEMMA NextInv == Inv /\ [Next]_vars => Inv'
<1> SUFFICES ASSUME Inv, [Next]_vars
             PROVE  Inv'
  OBVIOUS
<1>1. CASE UNCHANGED vars
  BY <1>1 DEF vars, Inv, TypeOK, TxInv, CommitInv, EmailInv, Holders, AnswerInv, EmailTaken
<1>2. CASE Crash
  BY <1>2, CrashStep
<1>3. ASSUME NEW r \in Requests,
             Arrive(r) \/ Step(r) \/ Fail(r) \/ CommitUnanswered(r) \/ NotifyFails(r)
      PROVE  Inv'
  BY <1>3, QuietStep, SaveStep, AppendStep, CommitStep, NotifyStep DEF Arrive, Step
<1> QED
  BY <1>1, <1>2, <1>3 DEF Next

LEMMA Invariance == Spec => []Inv
  BY InitInv, NextInv, PTL DEF Spec

-----------------------------------------------------------------------------

\* The write path's variables keep their types.
THEOREM TypeCorrect == Spec => []TypeOK
<1>1. Inv => TypeOK
  BY DEF Inv
<1> QED
  BY <1>1, Invariance, PTL

\* Whatever fails or is lost around it, an answer says what the table says.
THEOREM AnswersAreTrue == Spec => []AnswersTellTheTruth
<1>1. Inv => AnswersTellTheTruth
  BY DEF Inv, AnswerInv, CommitInv, AnswersTellTheTruth
<1> QED
  BY <1>1, Invariance, PTL

\* However many requests race for an address, one user has it and one event
\* announces it.
THEOREM AddressIsRegisteredOnce == Spec => []OneUserPerEmail
<1>1. Inv => OneUserPerEmail
  BY DEF Inv, EmailInv, Holders, CommitInv, OneUserPerEmail
<1> QED
  BY <1>1, Invariance, PTL

\* Every step of the write path is a step of Registration or none: a user becomes
\* visible in the step that makes its event visible.
LEMMA StepRefines == Inv /\ [Next]_vars => [R!Next]_<<users, rows, notified>>
<1> SUFFICES ASSUME Inv, [Next]_vars
             PROVE  R!Next \/ UNCHANGED <<users, rows, notified>>
  OBVIOUS
<1>1. CASE UNCHANGED vars
  BY <1>1 DEF vars
<1>2. CASE Crash
  BY <1>2 DEF Crash
<1>3. ASSUME NEW r \in Requests,
             Arrive(r) \/ Step(r) \/ Fail(r) \/ CommitUnanswered(r) \/ NotifyFails(r)
      PROVE  R!Next \/ UNCHANGED <<users, rows, notified>>
  <2>1. CASE Commit(r) \/ CommitUnanswered(r)
    <3>1. /\ users' = users \cup {r} /\ rows' = rows \cup {r} /\ notified' = notified
          /\ \A v \in users : EmailOf[v] # EmailOf[r]
      BY <2>1, CommitShows DEF Commit, CommitUnanswered
    <3>2. R!Register(r)
      BY <3>1 DEF R!Register
    <3> QED
      BY <3>2 DEF R!Next
  <2>2. CASE Notify(r)
    <3>1. r \in rows /\ notified' = notified \cup {r} /\ UNCHANGED <<users, rows>>
      BY <2>2 DEF Notify, Inv, CommitInv
    <3>2. R!Tell(r)
      BY <3>1 DEF R!Tell
    <3> QED
      BY <3>2 DEF R!Next
  <2>3. CASE Arrive(r) \/ Begin(r) \/ Save(r) \/ SaveTaken(r) \/ AppendOutbox(r) \/ Fail(r)
             \/ NotifyFails(r)
    BY <2>3 DEF Arrive, Refuse, Accept, Begin, Save, SaveTaken, AppendOutbox, Fail, NotifyFails
  <2> QED
    BY <1>3, <2>1, <2>2, <2>3 DEF Step
<1> QED
  BY <1>1, <1>2, <1>3 DEF Next

\* The write path implements Registration.
THEOREM WritePathImplementsRegistration == Spec => Atomically
<1>1. Init => R!Init
  BY DEF Init, R!Init
<1> QED
  BY <1>1, StepRefines, Invariance, PTL DEF Spec, Atomically, R!Spec

=============================================================================
