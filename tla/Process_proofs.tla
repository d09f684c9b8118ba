----------------------------- MODULE Process_proofs -----------------------------
(***************************************************************************)
(* Proofs about the rollout: the schema under any number of racing jobs,   *)
(* the readiness and the way down of a process over it, and what LoadRelay *)
(* accepts, for every environment.                                         *)
(***************************************************************************)
EXTENDS Process, TLAPS

-----------------------------------------------------------------------------
(* The schema.                                                             *)

\* The greatest of the versions up to n is n.
LEMMA NewestOfPrefix ==
    ASSUME NEW n \in Nat
    PROVE  Newest(1 .. n) = n
<1>1. n \in (1 .. n) \cup {0} /\ \A w \in 1 .. n : w <= n
  OBVIOUS
<1>2. \A v \in (1 .. n) \cup {0} : (\A w \in 1 .. n : w <= v) => v = n
  OBVIOUS
<1> QED
  BY <1>1, <1>2 DEF Newest

\* SchemaIsWhole without the CHOOSE, which makes it inductive.
SchemaIsPrefix ==
    \A c \in Contexts : \E n \in Nat : applied[c] = 1 .. n /\ recorded[c] = 1 .. n

\* A job that runs a migration has read a version the schema has reached since.
NextIsReachable ==
    \A j \in Jobs : job[j] = "running" =>
        ~Over(j) /\ next[j] \in 1 .. Newest(recorded[Target(j)]) + 1

MigInv == MigTypeOK /\ SchemaIsPrefix /\ NextIsReachable

LEMMA TargetIsContext ==
    ASSUME MigTypeOK, NEW j \in Jobs, ~Over(j)
    PROVE  Target(j) \in Contexts /\ pos[j] + 1 \in 1 .. 3
<1>1. PlanOf[j] \in Selections /\ pos[j] \in 1 .. 3
  BY PlanAssumption DEF MigTypeOK
<1>2. pos[j] <= Len(PlanOf[j]) /\ Len(PlanOf[j]) \in {1, 2}
  BY <1>1 DEF Over, Selections
<1> QED
  BY <1>1, <1>2 DEF Target, Selections, Contexts

LEMMA PrefixIsWhole == SchemaIsPrefix => SchemaIsWhole
  BY NewestOfPrefix DEF SchemaIsPrefix, SchemaIsWhole

\* The one step that writes: the version after the newest, applied and recorded
\* together.
LEMMA ApplyStep ==
    ASSUME MigInv, NEW j \in Jobs, job[j] = "running", Apply(j)
    PROVE  /\ SchemaIsPrefix'
           /\ \A c \in Contexts : Newest(recorded'[c]) >= Newest(recorded[c])
           /\ applied' \in [Contexts -> SUBSET Nat] /\ recorded' \in [Contexts -> SUBSET Nat]
<1> DEFINE t == Target(j)
<1>0. /\ applied \in [Contexts -> SUBSET Nat] /\ recorded \in [Contexts -> SUBSET Nat]
      /\ SchemaIsPrefix
  BY DEF MigInv, MigTypeOK
<1>1. t \in Contexts /\ next[j] \in 1 .. Newest(recorded[t]) + 1
  BY TargetIsContext DEF MigInv, NextIsReachable
<1>2. PICK n \in Nat : applied[t] = 1 .. n /\ recorded[t] = 1 .. n
  BY <1>1 DEF MigInv, SchemaIsPrefix
<1>3. Newest(recorded[t]) = n
  BY <1>2, NewestOfPrefix
<1>4. next[j] = n + 1
  BY <1>1, <1>2, <1>3 DEF Apply
<1>5. applied'[t] = 1 .. (n + 1) /\ recorded'[t] = 1 .. (n + 1)
  BY <1>0, <1>1, <1>2, <1>4 DEF Apply
<1>6. \A c \in Contexts \ {t} : applied'[c] = applied[c] /\ recorded'[c] = recorded[c]
  BY <1>0, <1>1 DEF Apply
<1>7. SchemaIsPrefix'
  <2>1. \A c \in Contexts \ {t} : \E k \in Nat : applied'[c] = 1 .. k /\ recorded'[c] = 1 .. k
    BY <1>0, <1>6 DEF SchemaIsPrefix
  <2>2. n + 1 \in Nat
    OBVIOUS
  <2> QED
    BY <1>5, <2>1, <2>2 DEF SchemaIsPrefix
<1>8. Newest(recorded'[t]) = n + 1
  BY <1>5, NewestOfPrefix
<1>9. \A c \in Contexts : Newest(recorded[c]) \in Nat
  BY <1>0, NewestOfPrefix DEF SchemaIsPrefix
<1>10. applied' \in [Contexts -> SUBSET Nat] /\ recorded' \in [Contexts -> SUBSET Nat]
  BY <1>0, <1>1, <1>4 DEF Apply
<1> QED
  BY <1>3, <1>6, <1>7, <1>8, <1>9, <1>10

LEMMA MigStep ==
    ASSUME MigInv, MigNext
    PROVE  MigInv'
<1> USE DEF MigInv
<1>0. /\ MigTypeOK /\ SchemaIsPrefix /\ NextIsReachable
      /\ \A c \in Contexts : Newest(recorded[c]) \in Nat
  BY NewestOfPrefix DEF SchemaIsPrefix
<1>1. PICK j \in Jobs : JobStep(j) \/ JobFails(j) \/ Unanswered(j)
  BY DEF MigNext
<1>2. CASE RunMigration(j) \/ Unanswered(j)
  <2>1. job[j] = "running" /\ Apply(j)
    BY <1>2 DEF RunMigration, Unanswered
  <2>2. /\ SchemaIsPrefix'
        /\ \A c \in Contexts : Newest(recorded'[c]) >= Newest(recorded[c])
        /\ applied' \in [Contexts -> SUBSET Nat] /\ recorded' \in [Contexts -> SUBSET Nat]
    BY <2>1, ApplyStep
  <2>3. /\ job' \in [Jobs -> {"idle", "reading", "running", "failed", "done"}]
        /\ job'[j] # "running" /\ \A k \in Jobs \ {j} : job'[k] = job[k] /\ next'[k] = next[k]
        /\ next' \in [Jobs -> Nat] /\ pos' = pos
    BY <1>0, <1>2 DEF RunMigration, Unanswered, Leave, Move, MigTypeOK
  <2>4. MigTypeOK'
    BY <1>0, <1>2, <2>2, <2>3, JobBounds DEF MigTypeOK, RunMigration, Unanswered, JobFault
  <2>5. NextIsReachable'
    <3> SUFFICES ASSUME NEW k \in Jobs, job'[k] = "running"
                 PROVE  ~Over(k)' /\ next'[k] \in 1 .. Newest(recorded'[Target(k)']) + 1
      BY DEF NextIsReachable
    <3>1. k # j /\ job[k] = "running" /\ next'[k] = next[k]
      BY <2>3
    <3>2. ~Over(k) /\ next[k] \in 1 .. Newest(recorded[Target(k)]) + 1
      BY <1>0, <3>1 DEF NextIsReachable
    <3>3. Target(k)' = Target(k) /\ Over(k)' = Over(k) /\ Target(k) \in Contexts
      BY <1>0, <2>3, <3>2, TargetIsContext DEF Target, Over
    <3>4. Newest(recorded[Target(k)]) \in Nat /\ Newest(recorded'[Target(k)]) \in Nat
      BY <1>0, <2>2, <3>3, NewestOfPrefix DEF SchemaIsPrefix
    <3> QED
      BY <2>2, <3>1, <3>2, <3>3, <3>4
  <2> QED
    BY <2>2, <2>4, <2>5
<1>3. CASE Invoke(j) \/ ReadVersion(j) \/ UpToDate(j) \/ Finish(j) \/ AlreadyThere(j) \/ JobFails(j)
  <2>1. applied' = applied /\ recorded' = recorded
    BY <1>3 DEF Invoke, ReadVersion, UpToDate, Finish, AlreadyThere, JobFails
  <2>2. SchemaIsPrefix'
    BY <1>0, <2>1 DEF SchemaIsPrefix
  <2>3. ~Over(j) => Target(j) \in Contexts /\ pos[j] + 1 \in 1 .. 3
    BY <1>0, TargetIsContext
  <2>4. MigTypeOK'
    <3>1. job' \in [Jobs -> {"idle", "reading", "running", "failed", "done"}]
      BY <1>0, <1>3 DEF MigTypeOK, Invoke, ReadVersion, UpToDate, Finish, AlreadyThere, JobFails,
         Move, Leave
    <3>2. pos' \in [Jobs -> 1 .. 3]
      BY <1>0, <1>3, <2>3 DEF MigTypeOK, Invoke, ReadVersion, UpToDate, Finish, AlreadyThere, JobFails
    <3>3. next' \in [Jobs -> Nat]
      BY <1>0, <1>3, <2>3 DEF MigTypeOK, Invoke, ReadVersion, UpToDate, Finish, AlreadyThere,
         JobFails, Leave
    <3>4. jobFaults' \in 0 .. MaxJobFaults
      BY <1>0, <1>3, JobBounds DEF MigTypeOK, Invoke, ReadVersion, UpToDate, Finish, AlreadyThere,
         JobFails, JobFault
    <3> QED
      BY <1>0, <2>1, <3>1, <3>2, <3>3, <3>4 DEF MigTypeOK
  <2>5. NextIsReachable'
    <3> SUFFICES ASSUME NEW k \in Jobs, job'[k] = "running"
                 PROVE  ~Over(k)' /\ next'[k] \in 1 .. Newest(recorded'[Target(k)']) + 1
      BY DEF NextIsReachable
    <3>1. CASE k = j
      <4>1. ReadVersion(j)
        BY <1>0, <1>3, <3>1 DEF MigTypeOK, Invoke, UpToDate, Finish, AlreadyThere, JobFails, Move, Leave
      <4>2. Target(k)' = Target(k) /\ Over(k)' = Over(k)
        BY <4>1 DEF ReadVersion, Target, Over
      <4>3. next'[k] = Newest(recorded[Target(k)]) + 1 /\ ~Over(k)
        BY <1>0, <3>1, <4>1 DEF ReadVersion, MigTypeOK
      <4> QED
        BY <1>0, <2>1, <2>3, <3>1, <4>2, <4>3
    <3>2. CASE k # j
      <4>1. job[k] = "running" /\ next'[k] = next[k] /\ pos'[k] = pos[k]
        BY <1>0, <1>3, <3>2 DEF MigTypeOK, Invoke, ReadVersion, UpToDate, Finish, AlreadyThere,
           JobFails, Move, Leave
      <4> QED
        BY <1>0, <2>1, <4>1 DEF NextIsReachable, Target, Over
    <3> QED
      BY <3>1, <3>2
  <2> QED
    BY <2>2, <2>4, <2>5
<1> QED
  BY <1>1, <1>2, <1>3 DEF JobStep

LEMMA MigInit_Inv == MigInit => MigInv
<1> SUFFICES ASSUME MigInit
             PROVE  MigInv
  OBVIOUS
<1>1. MigTypeOK
  BY JobBounds DEF MigInit, MigTypeOK
<1>2. 0 \in Nat /\ 1 .. 0 = {}
  OBVIOUS
<1>3. SchemaIsPrefix
  BY <1>2 DEF MigInit, SchemaIsPrefix
<1>4. NextIsReachable
  BY DEF MigInit, NextIsReachable
<1> QED
  BY <1>1, <1>3, <1>4 DEF MigInv

LEMMA MigStutter ==
    ASSUME MigInv, UNCHANGED migVars
    PROVE  MigInv'
  BY DEF MigInv, MigTypeOK, SchemaIsPrefix, NextIsReachable, migVars, Over, Target

\* The contexts a job has behind it are at its release's version or a later one.
Behind(j) == {i \in 1 .. Len(PlanOf[j]) : i < pos[j]}
IsUp(j, c) == 1 .. Latest[ReleaseOf[j]][c] \subseteq applied[c]
DoneInv ==
    \A j \in Jobs : /\ job[j] = "done" => Over(j)
                    /\ \A i \in Behind(j) : IsUp(j, PlanOf[j][i])

LEMMA AppliedGrows ==
    ASSUME MigInv, MigNext
    PROVE  \A c \in Contexts : applied[c] \subseteq applied'[c]
  BY DEF MigInv, MigTypeOK, MigNext, JobStep, Invoke, ReadVersion, UpToDate, Finish, RunMigration,
     AlreadyThere, JobFails, Unanswered, Apply

LEMMA PlansNameContexts ==
    ASSUME NEW j \in Jobs, NEW i \in 1 .. Len(PlanOf[j])
    PROVE  PlanOf[j][i] \in Contexts
<1>1. PlanOf[j] \in Selections
  BY PlanAssumption
<1> QED
  BY <1>1 DEF Selections, Contexts

LEMMA DoneStep ==
    ASSUME MigInv, DoneInv, MigNext
    PROVE  DoneInv'
<1> SUFFICES ASSUME NEW k \in Jobs
             PROVE  /\ job'[k] = "done" => Over(k)'
                    /\ \A i \in Behind(k)' : IsUp(k, PlanOf[k][i])'
  BY DEF DoneInv
<1>1. PICK j \in Jobs : JobStep(j) \/ JobFails(j) \/ Unanswered(j)
  BY DEF MigNext
<1>2. pos[k] \in Nat /\ job[k] \in {"idle", "reading", "running", "failed", "done"} /\ MigTypeOK
  BY DEF MigInv, MigTypeOK
<1>3. ASSUME NEW i \in Behind(k)
      PROVE  IsUp(k, PlanOf[k][i])'
  BY <1>3, AppliedGrows, PlansNameContexts DEF DoneInv, IsUp, Behind
<1>4. CASE Behind(k)' \subseteq Behind(k) /\ (job'[k] = "done" => Over(k)')
  BY <1>3, <1>4
<1>5. CASE UpToDate(j) /\ j = k
  <2>1. pos'[k] = pos[k] + 1 /\ job'[k] = job[k] /\ job[k] = "reading" /\ applied' = applied
    BY <1>2, <1>5 DEF UpToDate, MigTypeOK
  <2>2. Target(k) \in Contexts /\ Latest[ReleaseOf[k]][Target(k)] \in Nat
    BY <1>2, <1>5, TargetIsContext, ReleaseAssumption DEF UpToDate
  <2>3. PICK n \in Nat : applied[Target(k)] = 1 .. n /\ recorded[Target(k)] = 1 .. n
    BY <2>2 DEF MigInv, SchemaIsPrefix
  <2>4. Latest[ReleaseOf[k]][Target(k)] <= n
    BY <1>5, <2>3, NewestOfPrefix DEF UpToDate, Embedded
  <2>5. 1 .. Latest[ReleaseOf[k]][Target(k)] \subseteq applied'[Target(k)]
    BY <2>1, <2>2, <2>3, <2>4
  <2>6. \A i \in Behind(k)' : i \in Behind(k) \/ i = pos[k]
    BY <1>2, <2>1 DEF Behind
  <2>7. ASSUME NEW i \in Behind(k)'
        PROVE  IsUp(k, PlanOf[k][i])'
    BY <1>3, <2>5, <2>6, <2>7 DEF IsUp, Target
  <2> QED
    BY <2>1, <2>7
<1>6. CASE ~(UpToDate(j) /\ j = k)
  <2>1. pos'[k] \in {pos[k], 1}
    BY <1>1, <1>2, <1>6 DEF MigTypeOK, JobStep, Invoke, ReadVersion, UpToDate, Finish,
       RunMigration, AlreadyThere, JobFails, Unanswered
  <2>2. Behind(k)' \subseteq Behind(k)
    <3>1. pos[k] >= 1
      BY <1>2 DEF MigTypeOK
    <3> QED
      BY <1>2, <2>1, <3>1 DEF Behind
  <2>3. job'[k] = "done" => (Over(k) \/ job[k] = "done") /\ pos'[k] = pos[k]
    BY <1>1, <1>2, <1>6 DEF MigTypeOK, JobStep, Invoke, ReadVersion, UpToDate, Finish,
       RunMigration, AlreadyThere, JobFails, Unanswered, Move, Leave
  <2>4. job'[k] = "done" => Over(k)'
    BY <2>3 DEF DoneInv, Over
  <2> QED
    BY <1>4, <2>2, <2>4
<1> QED
  BY <1>5, <1>6

-----------------------------------------------------------------------------
(* Readiness.                                                              *)

ReadyInv ==
    /\ MigInv
    /\ release \in Releases
    /\ ReadyMeansMigrated

LEMMA ReadyStep ==
    ASSUME ReadyInv, [Next]_vars
    PROVE  ReadyInv'
<1> USE DEF ReadyInv
<1>0. Latest[release]["accounts"] \in Nat /\ "accounts" \in Contexts
  BY ReleaseAssumption DEF Contexts
<1>1. CASE MigNext /\ UNCHANGED procVars
  <2>1. MigInv'
    BY <1>1, MigStep
  <2>2. applied["accounts"] \subseteq applied'["accounts"]
    BY <1>0, <1>1 DEF MigInv, MigTypeOK, MigNext, JobStep, Invoke, ReadVersion, UpToDate, Finish,
       RunMigration, AlreadyThere, JobFails, Unanswered, Apply
  <2> QED
    BY <1>1, <2>1, <2>2 DEF procVars, ReadyMeansMigrated
<1>2. CASE ProcNext /\ UNCHANGED migVars
  <2>1. MigInv' /\ applied' = applied
    BY <1>2, MigStutter DEF migVars
  <2>2. release' = release
    BY <1>2 DEF ProcNext, StartUp, ReadConfig, Connect, ConnectFails, GoDown, LoopReturns,
       ClosePublic, CloseAdmin, CloseListener, ShutdownReturns, TimerExpires, WaitReturns, Exit,
       Take, EndWork, EndProbe, ProbeFails, ProbeStarves, Signal, ListenerFails
  <2>3. probed' \in {probed, "unready"} \/ (probed' = "ready" /\ Ready)
    BY <1>2 DEF ProcNext, StartUp, ReadConfig, Connect, ConnectFails, GoDown, LoopReturns,
       ClosePublic, CloseAdmin, CloseListener, ShutdownReturns, TimerExpires, WaitReturns, Exit,
       Take, EndWork, EndProbe, ProbeFails, ProbeStarves, Signal, ListenerFails
  <2>4. Ready => 1 .. Latest[release]["accounts"] \subseteq applied["accounts"]
    <3>1. PICK n \in Nat : applied["accounts"] = 1 .. n /\ recorded["accounts"] = 1 .. n
      BY <1>0 DEF MigInv, SchemaIsPrefix
    <3>2. Newest(recorded["accounts"]) = n
      BY <3>1, NewestOfPrefix
    <3> QED
      BY <1>0, <3>1, <3>2 DEF Ready
  <2> QED
    BY <2>1, <2>2, <2>3, <2>4 DEF ReadyMeansMigrated
<1>3. CASE UNCHANGED vars
  <2>1. MigInv'
    BY <1>3, MigStutter DEF vars
  <2> QED
    BY <1>3, <2>1 DEF vars, procVars, migVars, ReadyMeansMigrated
<1> QED
  BY <1>1, <1>2, <1>3 DEF Next

LEMMA ReadyInvariant == Spec => []ReadyInv
<1>1. Init => ReadyInv
  BY MigInit_Inv DEF Init, ReadyInv, ReadyMeansMigrated
<1> QED
  BY <1>1, ReadyStep, PTL DEF Spec

\* However jobs race, fail and go unanswered, a context's schema is exactly the
\* migrations its table lists, without a gap.
THEOREM SchemaStaysWhole == Spec => []SchemaIsWhole
<1>1. ReadyInv => SchemaIsWhole
  BY PrefixIsWhole DEF ReadyInv, MigInv
<1> QED
  BY <1>1, ReadyInvariant, PTL

\* A job that ends well has brought up everything it was given, itself or not.
THEOREM DoneJobsAreDone == Spec => []DoneMeansMigrated
<1>1. Init => DoneInv
  <2> SUFFICES ASSUME MigInit
               PROVE  DoneInv
    BY DEF Init
  <2>1. \A j \in Jobs : job[j] = "idle" /\ pos[j] = 1
    BY DEF MigInit
  <2>2. \A j \in Jobs : \A i \in 1 .. Len(PlanOf[j]) : ~(i < 1)
    OBVIOUS
  <2>3. \A j \in Jobs : Behind(j) = {}
    BY <2>1, <2>2 DEF Behind
  <2> QED
    BY <2>1, <2>3 DEF DoneInv
<1>2. MigInv /\ DoneInv /\ [Next]_vars => DoneInv'
  <2>1. ASSUME DoneInv, UNCHANGED migVars
        PROVE  DoneInv'
    BY <2>1 DEF DoneInv, Over, Behind, IsUp, migVars
  <2> QED
    BY <2>1, DoneStep DEF Next, vars
<1>3. MigInv /\ DoneInv => DoneMeansMigrated
  <2> SUFFICES ASSUME MigInv, DoneInv, NEW j \in Jobs, job[j] = "done",
                      NEW i \in 1 .. Len(PlanOf[j])
               PROVE  1 .. Latest[ReleaseOf[j]][PlanOf[j][i]] \subseteq applied[PlanOf[j][i]]
    BY DEF DoneMeansMigrated
  <2>1. pos[j] \in Nat /\ Len(PlanOf[j]) \in Nat /\ pos[j] > Len(PlanOf[j])
    BY PlanAssumption DEF MigInv, MigTypeOK, DoneInv, Over, Selections
  <2>2. i \in Behind(j)
    BY <2>1 DEF Behind
  <2> QED
    BY <2>2 DEF DoneInv, IsUp
<1>4. ReadyInv => MigInv
  BY DEF ReadyInv
<1> QED
  BY <1>1, <1>2, <1>3, <1>4, ReadyInvariant, PTL DEF Spec

\* One number is enough for a readiness probe: a ready process has every
\* migration of its release, for any releases and any number of jobs.
THEOREM ReadinessIsTrue == Spec => []ReadyMeansMigrated
<1>1. ReadyInv => ReadyMeansMigrated
  BY DEF ReadyInv
<1> QED
  BY <1>1, ReadyInvariant, PTL

-----------------------------------------------------------------------------
(* Types, and the limit of the pool.                                       *)

\* Every member takes its connections under the limit, and gives back what it took.
PoolTypeOK == busy \in [Work -> 0 .. MaxConns] /\ InUse <= MaxConns

ProcTypeOK ==
    /\ kind \in {"relay", "api"} /\ release \in Releases
    /\ env \in StartEnvs \cup {NoEnv}
    /\ stage \in {"start", "refused", "connect", "running", "closing", "exited"}
    /\ ctx \in {"live", "cancelled"} /\ live \subseteq Members[kind]
    /\ drain \in {"no", "public", "admin"} /\ timer \in {"unset", "running", "expired"}
    /\ err \in BOOLEAN
    /\ probed \in {"ready", "unready"} /\ exit \in {"none", "ok", "error"}
    /\ wrong \subseteq {"ping", "listener", "timeout"}
    /\ faults \in 0 .. MaxFaults

TypeInv == MigInv /\ ProcTypeOK /\ PoolTypeOK

LEMMA PoolStep ==
    ASSUME PoolTypeOK, NEW w \in Work,
           \/ InUse < MaxConns /\ busy' = [busy EXCEPT ![w] = @ + 1]
           \/ Return(w)
    PROVE  PoolTypeOK'
<1>1. \A v \in Work : busy[v] \in 0 .. MaxConns
  BY DEF PoolTypeOK
<1>2. MaxConns \in Nat
  BY PoolAssumption
<1>3. CASE InUse < MaxConns /\ busy' = [busy EXCEPT ![w] = @ + 1]
  <2>1. busy[w] <= InUse
    BY <1>1 DEF InUse, Work
  <2>2. busy' \in [Work -> 0 .. MaxConns]
    BY <1>1, <1>2, <1>3, <2>1 DEF PoolTypeOK, InUse, Work
  <2>3. InUse' = InUse + 1
    BY <1>1, <1>3 DEF PoolTypeOK, InUse, Work
  <2> QED
    BY <1>1, <1>2, <1>3, <2>2, <2>3 DEF PoolTypeOK, InUse, Work
<1>4. CASE Return(w)
  <2>1. busy' \in [Work -> 0 .. MaxConns]
    BY <1>1, <1>2, <1>4 DEF PoolTypeOK, Return
  <2>2. InUse' = InUse - 1
    BY <1>1, <1>4 DEF PoolTypeOK, Return, InUse, Work
  <2> QED
    BY <1>1, <1>2, <2>1, <2>2 DEF PoolTypeOK, InUse, Work
<1> QED
  BY <1>3, <1>4

\* The variables of the process that a step of its members may touch are few.
Settled == <<kind, release, env, stage, ctx, exit, err, faults>>

LEMMA ProcTypeStep ==
    ASSUME ProcTypeOK, ProcNext
    PROVE  ProcTypeOK'
<1>1. CASE ReadConfig
  BY <1>1 DEF ReadConfig, ProcTypeOK
<1>2. CASE Connect
  BY <1>2 DEF Connect, ProcTypeOK
<1>3. CASE ConnectFails
  BY <1>3, PoolAssumption DEF ConnectFails, Fault, ProcTypeOK
<1>4. ASSUME NEW w \in Work, Take(w) \/ EndWork(w)
      PROVE  ProcTypeOK'
  <2>1. UNCHANGED <<Settled, live, drain, timer, probed, wrong>>
    BY <1>4 DEF Take, EndWork, Settled
  <2> QED
    BY <2>1 DEF ProcTypeOK, Settled
<1>5. CASE EndProbe \/ ProbeStarves
  <2>1. UNCHANGED <<Settled, live, drain, timer, wrong>> /\ probed' \in {"ready", "unready"}
    BY <1>5 DEF EndProbe, ProbeStarves, Settled
  <2> QED
    BY <2>1 DEF ProcTypeOK, Settled
<1>6. CASE Signal
  BY <1>6 DEF Signal, ProcTypeOK
<1>7. CASE TimerExpires
  BY <1>7 DEF TimerExpires, ProcTypeOK
<1>8. CASE WaitReturns
  BY <1>8 DEF WaitReturns, ProcTypeOK
<1>9. CASE Exit
  BY <1>9 DEF Exit, ProcTypeOK
<1>10. CASE ProbeFails
  BY <1>10, PoolAssumption DEF ProbeFails, Fault, ProcTypeOK
<1>11. ASSUME NEW l \in {"public", "admin"}, ListenerFails(l)
       PROVE  ProcTypeOK'
  BY <1>11, PoolAssumption DEF ListenerFails, Failing, Fault, ProcTypeOK
<1>12. CASE LoopReturns("loop", "pass") \/ LoopReturns("purger", "purge")
  <2>1. UNCHANGED <<Settled, drain, timer, probed, wrong>> /\ live' \subseteq live
    BY <1>12 DEF LoopReturns, Settled
  <2> QED
    BY <2>1 DEF ProcTypeOK, Settled
<1>13. CASE ClosePublic \/ CloseAdmin
  <2>1. /\ UNCHANGED <<Settled, probed>> /\ live' \subseteq live
        /\ drain' \in {"public", "admin"} /\ timer' \in {"running", timer}
        /\ wrong' \subseteq wrong \cup {"timeout"}
    <3>1. CASE ClosePublic
      BY <3>1 DEF ClosePublic, CloseListener, Settled
    <3>2. CASE CloseAdmin
      BY <3>2 DEF CloseAdmin, CloseListener, Settled
    <3> QED
      BY <1>13, <3>1, <3>2
  <2> QED
    BY <2>1 DEF ProcTypeOK, Settled
<1>14. CASE ShutdownReturns
  BY <1>14 DEF ShutdownReturns, Failing, ProcTypeOK
<1> QED
  BY <1>1, <1>2, <1>3, <1>4, <1>5, <1>6, <1>7, <1>8, <1>9, <1>10, <1>11, <1>12, <1>13, <1>14
  DEF ProcNext, StartUp, GoDown

LEMMA PoolTypeStep ==
    ASSUME PoolTypeOK, ProcNext
    PROVE  PoolTypeOK'
<1>1. \/ UNCHANGED busy
      \/ \E w \in Work : InUse < MaxConns /\ busy' = [busy EXCEPT ![w] = @ + 1]
      \/ \E w \in Work : Return(w)
  BY DEF ProcNext, StartUp, ReadConfig, Connect, ConnectFails, GoDown, LoopReturns, ClosePublic,
     CloseAdmin, CloseListener, ShutdownReturns, TimerExpires, WaitReturns, Exit, Take, EndWork,
     EndProbe, ProbeFails, ProbeStarves, Signal, ListenerFails, Work
<1>2. CASE UNCHANGED busy
  BY <1>2 DEF PoolTypeOK, InUse
<1> QED
  BY <1>1, <1>2, PoolStep

LEMMA TypeInvariant == Spec => []TypeInv
<1>1. ASSUME Init
      PROVE  TypeInv
  <2>1. ProcTypeOK
    <3>1. 0 \in 0 .. MaxFaults
      BY PoolAssumption
    <3>2. env = NoEnv /\ live = {} /\ wrong = {} /\ faults = 0 /\ err = FALSE
      BY <1>1 DEF Init
    <3>3. /\ kind \in {"relay", "api"} /\ release \in Releases
          /\ stage = "start" /\ ctx = "live" /\ drain = "no" /\ timer = "unset"
          /\ probed = "unready" /\ exit = "none"
      BY <1>1 DEF Init
    <3> QED
      BY <3>1, <3>2, <3>3 DEF ProcTypeOK
  <2>2. busy \in [Work -> 0 .. MaxConns] /\ \A w \in Work : busy[w] = 0
    BY <1>1, PoolAssumption DEF Init
  <2>3. PoolTypeOK
    BY <2>2, PoolAssumption DEF PoolTypeOK, InUse, Work
  <2> QED
    BY <1>1, <2>1, <2>3, MigInit_Inv DEF TypeInv, Init
<1>2. ASSUME TypeInv, [Next]_vars
      PROVE  TypeInv'
  <2>1. MigInv'
    BY <1>2, MigStep, MigStutter DEF TypeInv, Next, vars
  <2>2. CASE UNCHANGED procVars
    BY <1>2, <2>1, <2>2 DEF TypeInv, ProcTypeOK, PoolTypeOK, InUse, procVars
  <2>3. CASE ProcNext
    BY <1>2, <2>1, <2>3, ProcTypeStep, PoolTypeStep DEF TypeInv
  <2> QED
    BY <1>2, <2>2, <2>3 DEF Next, vars
<1> QED
  BY <1>1, <1>2, PTL DEF Spec

\* The process keeps its types and never holds more connections than its pool has.
THEOREM TypeCorrect == Spec => []TypeOK
<1>1. TypeInv => TypeOK
  BY DEF TypeInv, MigInv, ProcTypeOK, PoolTypeOK, TypeOK
<1> QED
  BY <1>1, TypeInvariant, PTL

-----------------------------------------------------------------------------
(* The way down.                                                           *)

\* A member that has returned holds no connection of a pass or a purge, whatever
\* runs, runs under run, and the exit code goes by the members' errors.
LifeInv ==
    /\ kind \in {"relay", "api"}
    /\ stage \in {"start", "refused", "connect", "running", "closing", "exited"}
    /\ busy \in [Work -> Nat]
    /\ err \in BOOLEAN
    /\ live # {} => stage = "running"
    /\ "loop" \notin live => busy["pass"] = 0
    /\ "purger" \notin live => busy["purge"] = 0
    /\ stage \in {"start", "refused", "connect"} => InUse = 0 /\ ~err /\ wrong = {}
    /\ stage = "exited" => InUse = 0
    \* each thing that went wrong is an error of a member, or still to become one
    /\ wrong \subseteq {"ping", "listener", "timeout"}
    /\ err => wrong # {}
    /\ "ping" \in wrong => stage = "exited" /\ exit = "error"
    /\ "listener" \in wrong => err
    /\ "timeout" \in wrong => err \/ "shutdown" \in live
    /\ stage = "exited" => (exit = "ok" <=> wrong = {})

LEMMA LifeStep ==
    ASSUME LifeInv, [Next]_vars
    PROVE  LifeInv'
<1> USE DEF LifeInv, Work, InUse
<1>0. /\ \A w \in Work : busy[w] \in Nat
      /\ InUse = 0 => \A w \in Work : busy[w] = 0
  BY DEF LifeInv
<1>1. CASE UNCHANGED procVars
  BY <1>1 DEF procVars
<1>2. CASE ReadConfig \/ Connect
  <2>1. CASE ReadConfig
    BY <2>1 DEF ReadConfig
  <2>2. CASE Connect
    <3>1. /\ stage = "connect" /\ stage' = "running"
          /\ UNCHANGED <<kind, busy, err, exit, wrong>>
      BY <2>2 DEF Connect
    <3>2. busy'["pass"] = 0 /\ busy'["purge"] = 0
      BY <1>0, <3>1
    <3> QED
      BY <3>1, <3>2
  <2> QED
    BY <1>2, <2>1, <2>2
<1>3. CASE ConnectFails
  BY <1>3 DEF ConnectFails, Fault
<1>4. ASSUME NEW w \in Work, Take(w) \/ EndWork(w)
      PROVE  LifeInv'
  <2>1. /\ busy' \in [Work -> Nat]
        /\ \A v \in Work \ {w} : busy'[v] = busy[v]
    BY <1>0, <1>4 DEF Take, EndWork, Return
  <2>2. /\ "loop" \notin live => busy'["pass"] = 0
        /\ "purger" \notin live => busy'["purge"] = 0
    BY <1>4, <2>1 DEF Take, EndWork, Return, Owner
  <2>3. UNCHANGED <<kind, stage, live, err, exit, wrong>>
    BY <1>4 DEF Take, EndWork
  <2>4. stage \notin {"start", "refused", "connect", "exited"}
    BY <1>0, <1>4 DEF Take, EndWork, Return
  <2> QED
    BY <2>1, <2>2, <2>3, <2>4
<1>5. CASE EndProbe \/ ProbeFails
  <2>1. /\ busy["probe"] > 0 /\ busy' = [busy EXCEPT !["probe"] = @ - 1]
        /\ UNCHANGED <<kind, stage, live, err, exit, wrong>>
    BY <1>5 DEF EndProbe, ProbeFails, Return
  <2> QED
    BY <2>1
<1>6. CASE ProbeStarves \/ Signal \/ TimerExpires
  <2>1. UNCHANGED <<kind, stage, live, busy, err, exit, wrong>>
    BY <1>6 DEF ProbeStarves, Signal, TimerExpires
  <2> QED
    BY <2>1
<1>7. ASSUME NEW l \in {"public", "admin"}, ListenerFails(l)
      PROVE  LifeInv'
  BY <1>7 DEF ListenerFails, Failing
<1>8. CASE LoopReturns("loop", "pass") \/ LoopReturns("purger", "purge")
  <2>1. /\ live' \subseteq live /\ live # {}
        /\ "loop" \in live /\ "loop" \notin live' => busy["pass"] = 0
        /\ "purger" \in live /\ "purger" \notin live' => busy["purge"] = 0
        /\ "shutdown" \in live => "shutdown" \in live'
        /\ UNCHANGED <<kind, stage, busy, err, exit, wrong>>
    BY <1>8 DEF LoopReturns
  <2> QED
    BY <2>1
<1>9. CASE ClosePublic \/ CloseAdmin
  <2>1. /\ "shutdown" \in live /\ "shutdown" \in live' /\ live' \subseteq live
        /\ "loop" \in live <=> "loop" \in live'
        /\ "purger" \in live <=> "purger" \in live'
        /\ UNCHANGED <<kind, stage, busy, err, exit>>
        /\ wrong' \in {wrong, wrong \cup {"timeout"}}
    BY <1>9 DEF ClosePublic, CloseAdmin, CloseListener
  <2> QED
    BY <2>1
<1>10. CASE ShutdownReturns
  <2>1. /\ "shutdown" \in live /\ live' = live \ {"shutdown"}
        /\ UNCHANGED <<kind, stage, busy, exit>>
    BY <1>10 DEF ShutdownReturns
  <2>2. stage = "running" /\ "ping" \notin wrong
    BY <2>1
  <2>3. CASE err' = TRUE /\ wrong' = wrong \cup {"timeout"}
    BY <2>1, <2>2, <2>3
  <2>4. CASE err' = err /\ wrong' = wrong /\ "timeout" \notin wrong
    BY <2>1, <2>2, <2>4
  <2> QED
    BY <1>10, <2>3, <2>4 DEF ShutdownReturns, Failing
<1>11. CASE WaitReturns
  BY <1>11 DEF WaitReturns
<1>12. CASE Exit
  <2>1. stage = "closing" /\ live = {}
    BY <1>12 DEF Exit
  <2>2. err <=> wrong # {}
    BY <2>1
  <2>3. /\ stage' = "exited" /\ exit' = IF err THEN "error" ELSE "ok"
        /\ InUse = 0 /\ UNCHANGED <<kind, live, busy, err, wrong>>
    BY <1>12 DEF Exit
  <2> QED
    BY <2>1, <2>2, <2>3
<1> QED
  BY <1>1, <1>2, <1>3, <1>4, <1>5, <1>6, <1>7, <1>8, <1>9, <1>10, <1>11, <1>12
     DEF Next, vars, ProcNext, StartUp, GoDown

LEMMA LifeInvariant == Spec => []LifeInv
<1>1. ASSUME Init
      PROVE  LifeInv
  <2>1. /\ kind \in {"relay", "api"} /\ stage = "start" /\ live = {} /\ err = FALSE /\ wrong = {}
        /\ busy = [w \in Work |-> 0]
    BY <1>1 DEF Init
  <2>2. busy \in [Work -> Nat] /\ \A w \in Work : busy[w] = 0
    BY <2>1
  <2>3. InUse = 0
    BY <2>2 DEF Work, InUse
  <2>4. busy["pass"] = 0 /\ busy["purge"] = 0
    BY <2>2 DEF Work
  <2> QED
    BY <2>1, <2>2, <2>3, <2>4 DEF LifeInv
<1> QED
  BY <1>1, LifeStep, PTL DEF Spec

\* The pool is closed under nobody: with any pool size and any faults, the deferred
\* calls find no pass and no purge, and the process leaves no connection in use.
THEOREM PoolIsClosedLast == Spec => []PoolOutlivesWork
<1>1. LifeInv => PoolOutlivesWork
  BY DEF LifeInv, PoolOutlivesWork
<1> QED
  BY <1>1, LifeInvariant, PTL

\* The exit code is an error exactly when something went wrong on the way.
THEOREM ExitCodeIsTrue == Spec => []ExitTellsTheTruth
<1>1. LifeInv => ExitTellsTheTruth
  BY DEF LifeInv, ExitTellsTheTruth
<1> QED
  BY <1>1, LifeInvariant, PTL

-----------------------------------------------------------------------------
(* The configuration.                                                      *)

LEMMA ReadIsInteger ==
    ASSUME NEW e \in Environments, NEW v \in Numbers
    PROVE  Read(e, v) \in Int
<1>1. e[v] \in Values /\ Default[v] \in Int
  BY DEF Environments, Variables, Parsed, Numbers, Default
<1> QED
  BY <1>1 DEF Read, Values

\* What LoadRelay lets through meets what the relay's parts assume of their settings.
LEMMA AcceptedIsUsable ==
    ASSUME NEW e \in Environments, LoadRelay(e) = {}
    PROVE  Usable(e)
<1>1. \A v \in Numbers : Read(e, v) \in Int
  BY ReadIsInteger
<1>2. {"RELAY_IDLE_MIN", "RELAY_IDLE_MAX", "RELAY_BACKOFF_BASE", "RELAY_BACKOFF_CAP"} \subseteq Numbers
      /\ {"RELAY_IDLE_MIN", "RELAY_BACKOFF_BASE"} \subseteq MustBePositive
      /\ MustBePositive \subseteq Numbers
  BY DEF Numbers, MustBePositive, Default
<1>3. NotPositive(e) = {} /\ Reversed(e) = {}
  BY DEF LoadRelay
<1>4. \A v \in MustBePositive : Read(e, v) \in Nat \ {0}
  BY <1>1, <1>2, <1>3 DEF NotPositive
<1>5. ASSUME NEW lo \in Numbers, NEW hi \in Numbers, Read(e, lo) > 0, Read(e, hi) > 0,
             Below(e, lo, hi) = {}
      PROVE  Read(e, lo) <= Read(e, hi)
  BY <1>1, <1>5 DEF Below
<1>6. /\ Below(e, "RELAY_IDLE_MIN", "RELAY_IDLE_MAX") = {}
      /\ Below(e, "RELAY_BACKOFF_BASE", "RELAY_BACKOFF_CAP") = {}
  BY <1>3 DEF Reversed
<1> QED
  BY <1>2, <1>4, <1>5, <1>6 DEF Usable

ConfigInv == kind = "relay" /\ stage = "connect" => env \in StartEnvs /\ LoadRelay(env) = {}

LEMMA ConfigStep ==
    ASSUME ConfigInv, [Next]_vars
    PROVE  ConfigInv'
<1>1. CASE UNCHANGED procVars
  BY <1>1 DEF procVars, ConfigInv, LoadRelay
<1>2. CASE ReadConfig
  BY <1>2 DEF ReadConfig, ConfigInv, Load
<1>3. CASE ProcNext /\ ~ReadConfig
  <2>1. kind' = kind /\ (stage' = "connect" => stage = "connect" /\ env' = env)
    BY <1>3 DEF ProcNext, StartUp, Connect, ConnectFails, GoDown, LoopReturns, ClosePublic,
       CloseAdmin, CloseListener, ShutdownReturns, TimerExpires, WaitReturns, Exit, Take,
       EndWork, EndProbe, ProbeFails, ProbeStarves, Signal, ListenerFails
  <2> QED
    BY <2>1 DEF ConfigInv
<1> QED
  BY <1>1, <1>2, <1>3 DEF Next, vars

\* No environment, however wrong, starts a relay on values its parts cannot use.
THEOREM AcceptedValuesAreUsable == Spec => []RunsOnUsableValues
<1>1. Init => ConfigInv
  BY DEF Init, ConfigInv
<1>2. ConfigInv => RunsOnUsableValues
  BY AcceptedIsUsable, EnvAssumption DEF ConfigInv, RunsOnUsableValues
<1> QED
  BY <1>1, <1>2, ConfigStep, PTL DEF Spec

\* A value that repairs v beside e: 1, or for an upper bound whose lower bound is not
\* complained of, that lower bound.
Remedy(e, v) ==
    CASE v = "RELAY_IDLE_MAX" /\ "RELAY_IDLE_MIN" \notin LoadRelay(e) -> Read(e, "RELAY_IDLE_MIN")
      [] v = "RELAY_BACKOFF_CAP" /\ "RELAY_BACKOFF_BASE" \notin LoadRelay(e) ->
             Read(e, "RELAY_BACKOFF_BASE")
      [] OTHER -> 1

Repaired(e) == [v \in Variables |-> IF v \in LoadRelay(e) THEN Remedy(e, v) ELSE e[v]]

LEMMA RemedyIsPositive ==
    ASSUME NEW e \in Environments, NEW v \in Variables
    PROVE  Remedy(e, v) \in Nat \ {0}
<1>1. \A w \in MustBePositive \ LoadRelay(e) : Read(e, w) \in Nat \ {0}
  BY ReadIsInteger DEF LoadRelay, NotPositive, MustBePositive
<1>2. {"RELAY_IDLE_MIN", "RELAY_BACKOFF_BASE"} \subseteq MustBePositive
  BY DEF MustBePositive, Numbers, Default
<1> QED
  BY <1>1, <1>2 DEF Remedy

LEMMA RepairedIsAccepted ==
    ASSUME NEW e \in Environments
    PROVE  LoadRelay(Repaired(e)) = {}
<1> DEFINE r == LoadRelay(e)
           f == Repaired(e)
<1>1. \A v \in Variables : f[v] = IF v \in r THEN Remedy(e, v) ELSE e[v]
  BY DEF Repaired
<1>2. \A v \in Variables \cap r : f[v] \in Nat \ {0} /\ f[v] # Unset /\ f[v] # Garbage
  BY <1>1, RemedyIsPositive, ValueAssumption
<1>3. /\ Unparsed(e) \subseteq r /\ Missing(e) \subseteq r
      /\ NotPositive(e) \subseteq r /\ Reversed(e) \subseteq r
  BY DEF LoadRelay
<1>4. Numbers \subseteq Variables /\ Parsed \subseteq Variables /\ MustBePositive \subseteq Numbers
      /\ {"ACCOUNTS_DATABASE_URL", "KAFKA_BROKERS"} \subseteq Variables
  BY DEF Variables, Parsed, MustBePositive
<1>5. \A v \in Numbers : Read(f, v) = IF v \in r THEN Remedy(e, v) ELSE Read(e, v)
  BY <1>1, <1>2, <1>4 DEF Read
<1>6. Unparsed(f) = {}
  BY <1>1, <1>2, <1>3, <1>4 DEF Unparsed
<1>7. Missing(f) = {}
  BY <1>1, <1>2, <1>3, <1>4 DEF Missing
<1>8. NotPositive(f) = {}
  <2> SUFFICES ASSUME NEW v \in MustBePositive
               PROVE  ~(Read(f, v) <= 0)
    BY DEF NotPositive
  <2>1. CASE v \in r
    BY <1>4, <1>5, <2>1, RemedyIsPositive
  <2>2. CASE v \notin r
    BY <1>3, <1>4, <1>5, <2>2 DEF NotPositive
  <2> QED
    BY <2>1, <2>2
<1>9. ASSUME NEW lo \in Numbers, NEW hi \in Numbers, Below(e, lo, hi) \subseteq r,
             Remedy(e, lo) = 1, lo \notin r => Remedy(e, hi) = Read(e, lo)
      PROVE  Below(f, lo, hi) = {}
  <2>1. Read(e, lo) \in Int /\ Read(e, hi) \in Int /\ Remedy(e, hi) \in Nat \ {0}
    BY <1>4, ReadIsInteger, RemedyIsPositive
  <2>2. CASE lo \in r
    <3>1. Read(f, lo) = 1 /\ Read(f, hi) \in Int
      BY <1>5, <1>9, <2>1, <2>2
    <3> QED
      BY <3>1 DEF Below
  <2>3. CASE lo \notin r /\ hi \in r
    BY <1>5, <1>9, <2>1, <2>3 DEF Below
  <2>4. CASE lo \notin r /\ hi \notin r
    BY <1>5, <1>9, <2>1, <2>4 DEF Below
  <2> QED
    BY <2>2, <2>3, <2>4
<1>10. Reversed(f) = {}
  <2>1. {"RELAY_IDLE_MIN", "RELAY_IDLE_MAX", "RELAY_BACKOFF_BASE", "RELAY_BACKOFF_CAP"} \subseteq Numbers
    BY DEF Numbers, Default
  <2>2. /\ Remedy(e, "RELAY_IDLE_MIN") = 1 /\ Remedy(e, "RELAY_BACKOFF_BASE") = 1
        /\ "RELAY_IDLE_MIN" \notin r => Remedy(e, "RELAY_IDLE_MAX") = Read(e, "RELAY_IDLE_MIN")
        /\ "RELAY_BACKOFF_BASE" \notin r =>
               Remedy(e, "RELAY_BACKOFF_CAP") = Read(e, "RELAY_BACKOFF_BASE")
    BY DEF Remedy
  <2>3. /\ Below(e, "RELAY_IDLE_MIN", "RELAY_IDLE_MAX") \subseteq r
        /\ Below(e, "RELAY_BACKOFF_BASE", "RELAY_BACKOFF_CAP") \subseteq r
    BY <1>3 DEF Reversed
  <2> QED
    BY <1>9, <2>1, <2>2, <2>3 DEF Reversed
<1> QED
  BY <1>6, <1>7, <1>8, <1>10 DEF LoadRelay

\* However many variables are wrong, the operator can repair them all from one report,
\* with positive numbers: the checks the code skips hide nothing from him.
THEOREM EveryReportIsRepairable ==
    ASSUME Nat \ {0} \subseteq RepairValues
    PROVE  Spec => []OneRestartIsEnough
<1> DEFINE Inv == kind = "relay" /\ stage = "refused" => env \in Environments
<1>1. ASSUME NEW e \in Environments
      PROVE  Repairable(e, LoadRelay(e), RepairValues)
  <2> DEFINE fix == [v \in LoadRelay(e) |-> Remedy(e, v)]
  <2>1. LoadRelay(e) \subseteq Variables
    BY DEF LoadRelay, Unparsed, Missing, NotPositive, Reversed, Below, Variables, Parsed,
       MustBePositive, Numbers, Default
  <2>2. fix \in [LoadRelay(e) -> RepairValues]
    BY <2>1, RemedyIsPositive
  <2>3. [v \in Variables |-> IF v \in LoadRelay(e) THEN fix[v] ELSE e[v]] = Repaired(e)
    BY DEF Repaired
  <2>4. LoadRelay([v \in Variables |-> IF v \in LoadRelay(e) THEN fix[v] ELSE e[v]]) = {}
    BY <2>3, RepairedIsAccepted
  <2> QED
    BY <2>2, <2>4 DEF Repairable
<1>2. Init => Inv
  BY DEF Init
<1>3. Inv /\ [Next]_vars => Inv'
  <2> SUFFICES ASSUME Inv, [Next]_vars
               PROVE  Inv'
    OBVIOUS
  <2>1. CASE UNCHANGED procVars
    BY <2>1 DEF procVars
  <2>2. CASE ReadConfig
    BY <2>2, EnvAssumption DEF ReadConfig
  <2>3. CASE ProcNext /\ ~ReadConfig
    BY <2>3 DEF ProcNext, StartUp, Connect, ConnectFails, GoDown, LoopReturns, ClosePublic,
       CloseAdmin, CloseListener, ShutdownReturns, TimerExpires, WaitReturns, Exit, Take,
       EndWork, EndProbe, ProbeFails, ProbeStarves, Signal, ListenerFails
  <2> QED
    BY <2>1, <2>2, <2>3 DEF Next, vars
<1>4. Inv => OneRestartIsEnough
  BY <1>1 DEF OneRestartIsEnough
<1> QED
  BY <1>2, <1>3, <1>4, PTL DEF Spec

=============================================================================
