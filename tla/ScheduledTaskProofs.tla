-------------------------- MODULE ScheduledTaskProofs --------------------------
(***************************************************************************)
(* Proofs about scheduled tasks, for any number of replicas, requests and  *)
(* expressions, however near their instants, any clock, and any lag that   *)
(* is shorter than the cap.                                                *)
(***************************************************************************)
EXTENDS ScheduledTask, WellFoundedInduction, TLAPS

-----------------------------------------------------------------------------
(* The inductive invariant.  Whatever is enabled has an expression. *)
Enabled == row.task.status = "enabled"
Stopped(task) == task.status # "enabled"

HasCron ==
    /\ Exists => row.task.cron \in Crons
    /\ \A r \in Replicas : ~Stopped(job[r].task) => job[r].task.cron \in Crons

(* Once a handler has taken the lock for an instant, every other of that    *)
(* instant will find it taken, be it as late as it can,                     *)
LockOutlives ==
    \A a \in 0 .. Lag : granted[a] <= 1 /\ (granted[a] = 1 => lock + a > Lag + 1)

(* and the lock ends before the next instant of its expression, unless that *)
(* was on the brink.                                                        *)
LockEnds ==
    kept # None /\ lock > 0 => lock <= NextTickIn(kept, now)

(* At an instant that is due, nothing disturbs the handlers until one has   *)
(* taken the lock, which is free for it.                                    *)
DueIsServed ==
    due =>
        /\ Calm /\ Enabled
        /\ \A r \in Replicas : job[r].at = "found" => job[r].task = row.task
        /\ ~ran => lock = 0 /\ \E r \in Replicas : Early(r)

(* Whoever may still run, has been running while the task was enabled. *)
RunsSaw ==
    \A r \in Replicas :
        /\ job[r].at = "dispatching" => r \in saw
        /\ job[r].at = "found" /\ ~Stopped(job[r].task) => r \in saw
        /\ Enabled /\ Early(r) => r \in saw

IInv == HasCron /\ LockOutlives /\ LockEnds /\ DueIsServed /\ RunsSaw

-----------------------------------------------------------------------------
(* The clock. *)
USE DEF Clock

LEMMA AfterIs ==
    ASSUME NEW t \in Clock, NEW d \in 0 .. Horizon
    PROVE  /\ After(t, d) = IF t + d < Horizon THEN t + d ELSE t + d - Horizon
           /\ After(t, d) \in Clock
  <1>1. Horizon \in Nat \ {0}
    BY TimingAssumption
  <1>2. After(t, d) = IF t + d < Horizon THEN t + d ELSE t + d - Horizon
    BY <1>1, SMTT(30) DEF After
  <1> QED BY <1>1, <1>2

LEMMA AfterAfter ==
    ASSUME NEW t \in Clock, NEW a \in 0 .. Horizon, NEW d \in 0 .. Horizon
    PROVE  After(After(t, a), d) = IF a + d <= Horizon THEN After(t, a + d)
                                   ELSE After(t, a + d - Horizon)
  <1> PICK u \in Clock : u = After(t, a)
    BY AfterIs
  <1>1. Horizon \in Nat \ {0}
    BY TimingAssumption
  <1>2. u = IF t + a < Horizon THEN t + a ELSE t + a - Horizon
    BY AfterIs
  <1>3. After(u, d) = IF u + d < Horizon THEN u + d ELSE u + d - Horizon
    BY AfterIs
  <1>4. CASE a + d <= Horizon
    <2> PICK e \in 0 .. Horizon : e = a + d
      BY <1>1, <1>4
    <2>1. After(t, e) = IF t + e < Horizon THEN t + e ELSE t + e - Horizon
      BY AfterIs
    <2> QED BY <1>1, <1>2, <1>3, <1>4, <2>1
  <1>5. CASE a + d > Horizon
    <2> PICK e \in 0 .. Horizon : e = a + d - Horizon
      BY <1>1, <1>5
    <2>1. After(t, e) = IF t + e < Horizon THEN t + e ELSE t + e - Horizon
      BY AfterIs
    <2> QED BY <1>1, <1>2, <1>3, <1>5, <2>1
  <1> QED BY <1>1, <1>4, <1>5

(* A set of natural numbers that is not empty has a least member. *)
LEMMA MinIs ==
    ASSUME NEW S, S \subseteq Nat, S # {}
    PROVE  Min(S) \in S /\ \A x \in S : Min(S) <= x
  <1>1. PICK m \in S : \A x \in S : ~ (<<x, m>> \in OpToRel(<, Nat))
    BY NatLessThanWellFounded, WFMin
  <1>2. ASSUME NEW x \in S PROVE m <= x
    <2>1. <<x, m>> \in OpToRel(<, Nat) <=> x < m
      BY DEF OpToRel
    <2>2. ~ (x < m)
      BY <1>1, <2>1
    <2> QED BY <2>2
  <1> QED BY <1>2 DEF Min

LEMMA NextTick ==
    ASSUME NEW c \in Crons, NEW t \in Clock
    PROVE  /\ NextTickIn(c, t) \in 1 .. Horizon
           /\ After(t, NextTickIn(c, t)) \in Instants[c]
           /\ \A d \in 1 .. Horizon : After(t, d) \in Instants[c] => NextTickIn(c, t) <= d
  <1> DEFINE S == {d \in 1 .. Horizon : After(t, d) \in Instants[c]}
  <1>1. Horizon \in Nat \ {0}
    BY TimingAssumption
  <1>2. PICK i \in Clock : i \in Instants[c]
    BY TimingAssumption
  <1>3. S # {}
    <2>1. CASE i > t
      <3>1. After(t, i - t) = i /\ i - t \in 1 .. Horizon
        BY <1>1, <2>1, AfterIs
      <3> QED BY <1>2, <3>1
    <2>2. CASE i <= t
      <3>1. After(t, i - t + Horizon) = i /\ i - t + Horizon \in 1 .. Horizon
        BY <1>1, <2>2, AfterIs
      <3> QED BY <1>2, <3>1
    <2> QED BY <1>1, <2>1, <2>2
  <1>4. S \subseteq Nat
    OBVIOUS
  <1>5. Min(S) \in S /\ \A x \in S : Min(S) <= x
    <2> HIDE DEF S
    <2> QED BY <1>3, <1>4, MinIs
  <1>6. NextTickIn(c, t) = Min(S)
    BY DEF NextTickIn
  <1> HIDE DEF S
  <1>7. NextTickIn(c, t) \in S /\ \A x \in S : NextTickIn(c, t) <= x
    BY <1>5, <1>6
  <1> QED BY <1>7 DEF S

(* With each unit the next instant gets nearer, until it is there. *)
LEMMA Nearer ==
    ASSUME NEW c \in Crons, NEW t \in Clock, After(t, 1) \notin Instants[c]
    PROVE  NextTickIn(c, t) <= NextTickIn(c, After(t, 1)) + 1
  <1> PICK u \in Clock : u = After(t, 1)
    BY TimingAssumption, AfterIs
  <1>1. Horizon \in Nat \ {0}
    BY TimingAssumption
  <1> PICK d \in 1 .. Horizon : d = NextTickIn(c, u)
    BY NextTick
  <1>2. After(u, d) \in Instants[c]
    BY NextTick
  <1>3. CASE d + 1 <= Horizon
    <2>1. After(t, 1 + d) \in Instants[c]
      BY <1>1, <1>2, <1>3, AfterAfter
    <2> QED BY <1>1, <1>3, <2>1, NextTick
  <1>4. CASE d = Horizon
    BY <1>1, <1>4, NextTick
  <1> QED BY <1>1, <1>3, <1>4

(* The time to live of the tick lock: within its cap, and as near to the    *)
(* next instant as that and the floor allow.                                *)
LEMMA TtlIs ==
    ASSUME NEW c \in Crons, now \in Clock
    PROVE  /\ TickTtl(c) \in 1 .. Cap
           /\ NextTickIn(c, now) \in 1 .. Horizon
           /\ TickTtl(c) = 1 \/ TickTtl(c) + 2 <= NextTickIn(c, now)
           /\ TickTtl(c) = Cap \/ NextTickIn(c, now) <= TickTtl(c) + 2
  <1> PICK n \in 1 .. Horizon : n = NextTickIn(c, now)
    BY NextTick
  <1>1. Cap \in Nat /\ 1 <= Cap /\ Horizon \in Nat
    BY TimingAssumption
  <1> PICK m : m = Min({Cap, n - 2})
    OBVIOUS
  <1>2. m = IF Cap <= n - 2 THEN Cap ELSE n - 2
    BY <1>1 DEF Min
  <1>3. Max({1, m}) = IF m <= 1 THEN 1 ELSE m
    BY <1>1, <1>2 DEF Max
  <1> QED BY <1>1, <1>2, <1>3 DEF TickTtl

-----------------------------------------------------------------------------
(* What a step does to the handlers and to the row. *)
Jobs == [at : Stages, task : Tasks, age : 0 .. Lag]
Reqs == [at : Steps, on : Replicas \cup {None}, task : Tasks]

LEMMA EmptyTypes ==
    /\ NoTask \in Tasks /\ NoJob \in Jobs /\ NoRequest \in Reqs
    /\ NoJob.at = "none" /\ NoJob.task = NoTask /\ NoJob.age = 0 /\ Stopped(NoTask)
    /\ [NoJob EXCEPT !.at = "fired"] = [at |-> "fired", task |-> NoTask, age |-> 0]
  <1>1. NoTask \in Tasks /\ Stopped(NoTask)
    BY DEF NoTask, Tasks, Statuses, Stopped
  <1>2. Lag \in Nat
    BY TimingAssumption
  <1>3. NoJob \in Jobs /\ NoJob.at = "none" /\ NoJob.task = NoTask /\ NoJob.age = 0
    BY <1>1, <1>2 DEF NoJob, Jobs, Stages
  <1>4. NoRequest \in Reqs
    BY <1>1 DEF NoRequest, Reqs, Steps
  <1>5. [NoJob EXCEPT !.at = "fired"] = [at |-> "fired", task |-> NoTask, age |-> 0]
    BY DEF NoJob
  <1> QED BY <1>1, <1>3, <1>4, <1>5

LEMMA JobMoved ==
    ASSUME TypeOK, NEW r \in Replicas, NEW e \in Jobs, job' = [job EXCEPT ![r] = e]
    PROVE  /\ job' \in [Replicas -> Jobs]
           /\ job'[r] = e
           /\ \A x \in Replicas \ {r} : job'[x] = job[x]
  <1>1. job \in [Replicas -> Jobs]
    BY DEF TypeOK, Jobs
  <1> QED BY <1>1, Zenon

LEMMA JobEnds ==
    ASSUME TypeOK, NEW r \in Replicas, job' = [job EXCEPT ![r] = NoJob]
    PROVE  /\ job' \in [Replicas -> Jobs]
           /\ job'[r].at = "none" /\ Stopped(job'[r].task)
           /\ \A x \in Replicas \ {r} : job'[x] = job[x]
  BY EmptyTypes, JobMoved

LEMMA JobFinds ==
    ASSUME TypeOK, NEW r \in Replicas, Find(r)
    PROVE  /\ job' \in [Replicas -> Jobs]
           /\ job[r].at = "fired" /\ job'[r].at = "found"
           /\ job'[r].task = row.task /\ job'[r].age = job[r].age
           /\ \A x \in Replicas \ {r} : job'[x] = job[x]
  <1> DEFINE e == [job[r] EXCEPT !.at = "found", !.task = row.task]
  <1>1. job[r] \in Jobs /\ row.task \in Tasks
    BY DEF TypeOK, Jobs
  <1>2. e \in Jobs
    BY <1>1, Zenon DEF Jobs, Stages
  <1>3. e.at = "found" /\ e.task = row.task /\ e.age = job[r].age
    BY <1>1 DEF Jobs
  <1>4. job' = [job EXCEPT ![r] = e]
    BY DEF Find
  <1> HIDE DEF e
  <1>5. /\ job' \in [Replicas -> Jobs] /\ job'[r] = e
        /\ \A x \in Replicas \ {r} : job'[x] = job[x]
    BY <1>2, <1>4, JobMoved
  <1> QED BY <1>3, <1>5 DEF Find

LEMMA JobClaims ==
    ASSUME TypeOK, NEW r \in Replicas,
           job' = [job EXCEPT ![r].at = "dispatching", ![r].age = 0]
    PROVE  /\ job' \in [Replicas -> Jobs]
           /\ job'[r].at = "dispatching" /\ job'[r].task = job[r].task
           /\ \A x \in Replicas \ {r} : job'[x] = job[x]
  <1> DEFINE e == [job[r] EXCEPT !.at = "dispatching", !.age = 0]
  <1>1. job[r] \in Jobs /\ 0 \in 0 .. Lag
    BY TimingAssumption DEF TypeOK, Jobs
  <1>2. e \in Jobs
    BY <1>1, Zenon DEF Jobs, Stages
  <1>3. e.at = "dispatching" /\ e.task = job[r].task
    BY <1>1 DEF Jobs
  <1>4. job' = [job EXCEPT ![r] = e]
    OBVIOUS
  <1> HIDE DEF e
  <1> QED BY <1>2, <1>3, <1>4, JobMoved

LEMMA PassJobs ==
    ASSUME TypeOK, NEW F \in SUBSET Replicas, Pass(F)
    PROVE  /\ job' \in [Replicas -> Jobs]
           /\ \A r \in F : /\ job[r].at = "none" /\ cronAt[r] \in Crons
                           /\ now' \in Instants[cronAt[r]]
                           /\ job'[r].at = "fired" /\ job'[r].age = 0
                           /\ job'[r].task = NoTask
           /\ \A r \in Replicas \ F :
                 /\ job'[r].at = job[r].at /\ job'[r].task = job[r].task
                 /\ Early(r) => job[r].age < Lag /\ job'[r].age = job[r].age + 1
  <1>1. job \in [Replicas -> Jobs]
    BY DEF TypeOK, Jobs
  <1>2. \A r \in F : job[r].at = "none" /\ cronAt[r] \in Crons /\ now' \in Instants[cronAt[r]]
    BY DEF Pass, Due, TypeOK
  <1>3. \A r \in Replicas : Early(r) => job[r].age < Lag
    BY DEF Pass
  <1> DEFINE new == [at |-> "fired", task |-> NoTask, age |-> 0]
             older(r) == [job[r] EXCEPT !.age = @ + 1]
             f(r) == IF r \in F THEN new ELSE IF Early(r) THEN older(r) ELSE job[r]
  <1>4. job' = [r \in Replicas |-> f(r)]
    BY EmptyTypes DEF Pass
  <1>5. new \in Jobs /\ new.at = "fired" /\ new.task = NoTask /\ new.age = 0
    BY EmptyTypes, TimingAssumption DEF Jobs, Stages
  <1>6. ASSUME NEW r \in Replicas, Early(r)
        PROVE  /\ older(r) \in Jobs
               /\ older(r).at = job[r].at /\ older(r).task = job[r].task
               /\ older(r).age = job[r].age + 1
    <2>1. job[r].age + 1 \in 0 .. Lag
      BY <1>1, <1>3, <1>6, TimingAssumption DEF Jobs
    <2> QED BY <1>1, <2>1 DEF Jobs
  <1> HIDE DEF new, older
  <1>7. \A r \in Replicas : f(r) \in Jobs
    BY <1>1, <1>5, <1>6
  <1>8. job' \in [Replicas -> Jobs] /\ \A r \in Replicas : job'[r] = f(r)
    <2> HIDE DEF f
    <2> QED BY <1>4, <1>7
  <1>9. \A r \in F : job'[r].at = "fired" /\ job'[r].age = 0 /\ job'[r].task = NoTask
    BY <1>5, <1>8
  <1>10. \A r \in Replicas \ F :
             /\ job'[r].at = job[r].at /\ job'[r].task = job[r].task
             /\ Early(r) => job'[r].age = job[r].age + 1
    BY <1>6, <1>8
  <1> QED BY <1>2, <1>3, <1>8, <1>9, <1>10

LEMMA WriteIs ==
    ASSUME TypeOK, NEW task \in Tasks, Write(task)
    PROVE  /\ row' \in [task : Tasks, next : BOOLEAN] /\ row'.task = task
           /\ saw' \subseteq Replicas
           /\ saw' = IF task.status = "enabled" THEN Replicas ELSE saw
  <1>1. HasNextRun(task) \in BOOLEAN
    BY DEF HasNextRun
  <1>2. row' \in [task : Tasks, next : BOOLEAN] /\ row'.task = task
    BY <1>1, Zenon DEF Write
  <1> QED BY <1>2 DEF Write, TypeOK

LEMMA RecordIs ==
    ASSUME TypeOK, NEW task, Record(task)
    PROVE  row' \in [task : Tasks, next : BOOLEAN] /\ row'.task = row.task
  <1> DEFINE e == [row EXCEPT !.next = HasNextRun(task)]
  <1>1. HasNextRun(task) \in BOOLEAN
    BY DEF HasNextRun
  <1>2. row \in [task : Tasks, next : BOOLEAN]
    BY DEF TypeOK
  <1>3. e \in [task : Tasks, next : BOOLEAN] /\ e.task = row.task
    BY <1>1, <1>2, Zenon
  <1>4. row' = e \/ row' = row
    BY DEF Record
  <1> HIDE DEF e
  <1> QED BY <1>2, <1>3, <1>4

LEMMA TaskType ==
    ASSUME NEW status \in {"enabled", "disabled"}, NEW c \in Crons
    PROVE  /\ Task(status, c) \in Tasks
           /\ Task(status, c).status = status /\ Task(status, c).cron = c
  BY DEF Task, Tasks, Statuses

-----------------------------------------------------------------------------
(* Type correctness. *)

LEMMA TypeInit == Init => TypeOK
  <1> SUFFICES ASSUME Init PROVE TypeOK
    OBVIOUS
  <1>1. /\ job \in [Replicas -> Jobs] /\ req \in [Requests -> Reqs]
        /\ booted \in [Replicas -> Tasks]
    BY EmptyTypes DEF Init
  <1>2. row \in [task : Tasks, next : BOOLEAN]
    BY EmptyTypes, Zenon DEF Init
  <1>3. now \in Clock /\ lock \in 0 .. Cap + 1 /\ granted \in [0 .. Lag -> Nat]
    BY TimingAssumption DEF Init
  <1>4. due \in BOOLEAN /\ ran \in BOOLEAN
    BY Zenon DEF Init
  <1>5. /\ cronAt \in [Replicas -> Crons \cup {None}]
        /\ up \in [Replicas -> {"up", "down", "read", "written"}]
    BY DEF Init
  <1>6. faults \in 0 .. MaxFaults /\ kept \in Crons \cup {None} /\ saw \subseteq Replicas
    BY MaxFaultsAssumption DEF Init
  <1> QED BY <1>1, <1>2, <1>3, <1>4, <1>5, <1>6 DEF TypeOK, Jobs, Reqs

LEMMA CutShortType == ASSUME NEW r \in Replicas, CutShort(r) PROVE due' \in BOOLEAN
  BY Zenon DEF CutShort

LEMMA FaultType == TypeOK /\ Fault => faults' \in 0 .. MaxFaults
  BY MaxFaultsAssumption DEF TypeOK, Fault

LEMMA PassType == ASSUME TypeOK, NEW F \in SUBSET Replicas, Pass(F) PROVE TypeOK'
  <1>1. job' \in [Replicas -> [at : Stages, task : Tasks, age : 0 .. Lag]]
    BY PassJobs DEF Jobs
  <1>2. now' \in Clock
    BY AfterIs, TimingAssumption DEF Pass, TypeOK
  <1>3. lock' \in 0 .. Cap + 1
    <2>1. Cap \in Nat /\ lock \in 0 .. Cap + 1
      BY TimingAssumption DEF TypeOK
    <2>2. lock' = IF lock = 0 THEN 0 ELSE lock - 1
      BY DEF Pass
    <2> QED BY <2>1, <2>2
  <1>4. due' \in BOOLEAN /\ ran' \in BOOLEAN
    <2>1. CASE F = {}
      BY <2>1, Zenon DEF Pass, TypeOK
    <2>2. CASE F # {}
      <3>1. ran' \in BOOLEAN
        BY <2>2, Zenon DEF Pass
      <3>2. due' \in BOOLEAN
        BY <2>2, Zenon DEF Pass
      <3> QED BY <3>1, <3>2
    <2> QED BY <2>1, <2>2
  <1>5. granted' \in [0 .. Lag -> Nat]
    BY TimingAssumption DEF Pass, TypeOK
  <1>6. saw' \subseteq Replicas
    BY DEF Pass, TypeOK
  <1>7. UNCHANGED <<row, cronAt, req, up, booted, kept, faults>>
    BY DEF Pass
  <1> QED BY <1>1, <1>2, <1>3, <1>4, <1>5, <1>6, <1>7 DEF TypeOK

LEMMA ExpireType == TypeOK /\ Expire => TypeOK'
  BY TimingAssumption DEF TypeOK, Expire

LEMMA TakeType ==
    ASSUME TypeOK, NEW c \in Crons, TakeLock(c)
    PROVE  lock' \in 0 .. Cap + 1 /\ kept' \in Crons \cup {None}
  <1>1. TickTtl(c) \in 1 .. Cap
    BY TtlIs DEF TypeOK
  <1> QED BY <1>1, TimingAssumption DEF TakeLock

(* One more run is counted for the instant of its handler, at the most. *)
LEMMA GrantIs ==
    ASSUME TypeOK, NEW r \in Replicas, Grant(r)
    PROVE  /\ granted' \in [0 .. Lag -> Nat]
           /\ job[r].age \in 0 .. Lag
           /\ \A a \in 0 .. Lag : a # job[r].age => granted'[a] = granted[a]
           /\ granted'[job[r].age] =
                 IF Lag + 2 < NextTickIn(job[r].task.cron, now) + job[r].age
                 THEN granted[job[r].age] + 1 ELSE granted[job[r].age]
  <1> PICK b : b = job[r].age
    OBVIOUS
  <1> PICK n : n = IF Lag + 2 < NextTickIn(job[r].task.cron, now) + b
                   THEN granted[b] + 1 ELSE granted[b]
    OBVIOUS
  <1>1. granted \in [0 .. Lag -> Nat] /\ b \in 0 .. Lag
    BY DEF TypeOK
  <1>2. n \in Nat
    BY <1>1
  <1>3. granted' = [granted EXCEPT ![b] = n]
    BY DEF Grant
  <1> QED BY <1>1, <1>2, <1>3

(* What a handler reads when it asks for the lock is an expression. *)
LEMMA ClaimCron ==
    ASSUME HasCron, NEW r \in Replicas, Claim(r) \/ ClaimFailsOpen(r)
    PROVE  job[r].task.cron \in Crons
  BY DEF Claim, ClaimFailsOpen, HasCron, Stopped

LEMMA JobType ==
    ASSUME TypeOK, HasCron, NEW r \in Replicas, JobStep(r) \/ ClaimFailsOpen(r) \/ JobFails(r)
    PROVE  TypeOK'
  <1>1. CASE Find(r)
    BY <1>1, JobFinds DEF Find, TypeOK, Jobs, tickVars
  <1>2. CASE GiveUp(r)
    BY <1>2, JobEnds DEF GiveUp, TypeOK, Jobs, tickVars
  <1>3. CASE Claim(r)
    <2>1. CASE TakeLock(job[r].task.cron) /\ Grant(r) /\ GoAhead(r)
      <3>1. job' \in [Replicas -> Jobs]
        BY <2>1, JobClaims DEF GoAhead
      <3>2. lock' \in 0 .. Cap + 1 /\ kept' \in Crons \cup {None}
        BY <1>3, <2>1, ClaimCron, TakeType
      <3>3. granted' \in [0 .. Lag -> Nat]
        BY <2>1, GrantIs
      <3>4. ran' \in BOOLEAN
        BY <2>1, Zenon DEF GoAhead
      <3>5. UNCHANGED <<now, row, cronAt, req, up, booted, faults, due, saw>>
        BY <1>3 DEF Claim
      <3> QED BY <3>1, <3>2, <3>3, <3>4, <3>5 DEF TypeOK, Jobs
    <2>2. CASE job' = [job EXCEPT ![r] = NoJob] /\ UNCHANGED tickVars
      <3>1. UNCHANGED <<now, row, cronAt, req, up, booted, faults, due, saw>>
        BY <1>3 DEF Claim
      <3> QED BY <2>2, <3>1, JobEnds DEF TypeOK, Jobs, tickVars
    <2> QED BY <1>3, <2>1, <2>2 DEF Claim
  <1>4. CASE ClaimFailsOpen(r)
    <2>1. job' \in [Replicas -> Jobs]
      BY <1>4, JobClaims DEF ClaimFailsOpen, GoAhead
    <2>2. lock' \in 0 .. Cap + 1 /\ kept' \in Crons \cup {None}
      BY <1>4, ClaimCron, TakeType DEF ClaimFailsOpen, TypeOK
    <2>3. ran' \in BOOLEAN
      BY <1>4, Zenon DEF ClaimFailsOpen, GoAhead
    <2>4. faults' \in 0 .. MaxFaults
      BY <1>4, FaultType DEF ClaimFailsOpen
    <2>5. UNCHANGED <<now, row, cronAt, req, up, booted, granted, due, saw>>
      BY <1>4 DEF ClaimFailsOpen
    <2> QED BY <2>1, <2>2, <2>3, <2>4, <2>5 DEF TypeOK, Jobs
  <1>5. CASE Dispatch(r)
    BY <1>5, JobEnds, RecordIs DEF Dispatch, TypeOK, Jobs, tickVars
  <1>6. CASE JobFails(r)
    <2>1. due' \in BOOLEAN
      BY <1>6, CutShortType DEF JobFails
    <2>2. job' \in [Replicas -> Jobs]
      BY <1>6, JobEnds DEF JobFails
    <2>3. faults' \in 0 .. MaxFaults
      BY <1>6, FaultType DEF JobFails
    <2>4. UNCHANGED <<now, row, cronAt, req, up, booted, tickVars, saw>>
      BY <1>6 DEF JobFails
    <2> QED BY <2>1, <2>2, <2>3, <2>4 DEF TypeOK, Jobs, tickVars
  <1> QED BY <1>1, <1>2, <1>3, <1>4, <1>5, <1>6 DEF JobStep

LEMMA BootType ==
    ASSUME TypeOK, NEW r \in Replicas, BootStep(r) \/ Crash(r)
    PROVE  TypeOK'
  <1>1. CASE BootRead(r)
    <2>1. booted' \in [Replicas -> Tasks]
      BY <1>1, EmptyTypes DEF BootRead, TypeOK
    <2>2. up' \in [Replicas -> {"up", "down", "read", "written"}]
      BY <1>1 DEF BootRead, TypeOK
    <2> QED BY <1>1, <2>1, <2>2 DEF BootRead, TypeOK, tickVars
  <1>2. CASE BootWrite(r)
    BY <1>2, RecordIs DEF BootWrite, TypeOK, tickVars
  <1>3. CASE BootSync(r)
    <2>1. cronAt' \in [Replicas -> Crons \cup {None}]
      BY <1>3 DEF BootSync, TypeOK, Tasks
    <2>2. booted' \in [Replicas -> Tasks]
      BY <1>3, EmptyTypes DEF BootSync, TypeOK
    <2> QED BY <1>3, <2>1, <2>2 DEF BootSync, TypeOK, tickVars
  <1>4. CASE Crash(r)
    <2>1. booted' \in [Replicas -> Tasks] /\ job' \in [Replicas -> Jobs]
      BY <1>4, EmptyTypes, JobEnds DEF Crash, TypeOK
    <2>2. req' \in [Requests -> Reqs]
      BY <1>4, EmptyTypes DEF Crash, TypeOK, Reqs
    <2>3. due' \in BOOLEAN
      BY <1>4, CutShortType DEF Crash
    <2>4. faults' \in 0 .. MaxFaults
      BY <1>4, FaultType DEF Crash
    <2>5. /\ up' \in [Replicas -> {"up", "down", "read", "written"}]
          /\ cronAt' \in [Replicas -> Crons \cup {None}]
      BY <1>4 DEF Crash, TypeOK
    <2>6. UNCHANGED <<now, row, tickVars, saw>>
      BY <1>4 DEF Crash
    <2> QED BY <2>1, <2>2, <2>3, <2>4, <2>5, <2>6 DEF TypeOK, Jobs, Reqs, tickVars
  <1>5. CASE BootFails(r)
    <2>1. booted' \in [Replicas -> Tasks]
      BY <1>5, EmptyTypes DEF BootFails, TypeOK
    <2>2. up' \in [Replicas -> {"up", "down", "read", "written"}]
      BY <1>5 DEF BootFails, TypeOK
    <2>3. faults' \in 0 .. MaxFaults
      BY <1>5, FaultType DEF BootFails
    <2>4. UNCHANGED <<now, row, cronAt, job, req, tickVars, due, saw>>
      BY <1>5 DEF BootFails
    <2> QED BY <2>1, <2>2, <2>3, <2>4 DEF TypeOK, tickVars
  <1> QED BY <1>1, <1>2, <1>3, <1>4, <1>5 DEF BootStep

LEMMA RequestType ==
    ASSUME TypeOK, NEW q \in Requests,
           \/ \E r \in Replicas : Read(q, r)
           \/ \E r \in Replicas, s \in {"enabled", "disabled"}, c \in Crons : Create(q, r, s, c)
           \/ RequestStep(q)
    PROVE  TypeOK'
  <1>0. /\ req \in [Requests -> Reqs] /\ req[q] \in Reqs
        /\ req[q].task \in Tasks /\ req[q].on \in Replicas \cup {None}
    BY DEF TypeOK, Reqs
  <1>c. Close(q) => req' \in [Requests -> Reqs]
    BY <1>0, EmptyTypes DEF Close
  <1>1. ASSUME NEW r \in Replicas, Read(q, r) PROVE TypeOK'
    <2>1. [at |-> "read", on |-> r, task |-> row.task] \in Reqs
      BY DEF Reqs, Steps, TypeOK
    <2>2. req' \in [Requests -> Reqs]
      BY <1>0, <1>1, <2>1 DEF Read
    <2>3. due' \in BOOLEAN
      BY <1>1, Zenon DEF Read
    <2>4. UNCHANGED <<now, row, cronAt, job, up, booted, tickVars, faults, saw>>
      BY <1>1 DEF Read
    <2> QED BY <2>2, <2>3, <2>4 DEF TypeOK, Reqs, tickVars
  <1>2. ASSUME NEW r \in Replicas, NEW s \in {"enabled", "disabled"}, NEW c \in Crons,
               Create(q, r, s, c)
        PROVE  TypeOK'
    <2>1. [at |-> "saved", on |-> r, task |-> Task(s, c)] \in Reqs
      BY TaskType DEF Reqs, Steps
    <2>2. req' \in [Requests -> Reqs]
      BY <1>0, <1>2, <2>1 DEF Create
    <2>3. row' \in [task : Tasks, next : BOOLEAN] /\ saw' \subseteq Replicas
      BY <1>2, TaskType, WriteIs DEF Create
    <2> QED BY <1>2, <2>2, <2>3 DEF Create, TypeOK, Reqs, tickVars
  <1>3. ASSUME NEW s \in {"enabled", "disabled"}, NEW c \in Crons, Save(q, s, c) PROVE TypeOK'
    <2> DEFINE e == [req[q] EXCEPT !.at = "saved", !.task = Task(s, c)]
    <2>1. e \in Reqs
      BY <1>0, TaskType, Zenon DEF Reqs, Steps
    <2>2. req' = [req EXCEPT ![q] = e]
      BY <1>3 DEF Save
    <2> HIDE DEF e
    <2>3. req' \in [Requests -> Reqs]
      BY <1>0, <2>1, <2>2
    <2>4. row' \in [task : Tasks, next : BOOLEAN] /\ saw' \subseteq Replicas
      BY <1>3, TaskType, WriteIs DEF Save
    <2> QED BY <1>3, <2>3, <2>4 DEF Save, TypeOK, Reqs, tickVars
  <1>4. CASE Sync(q)
    <2>1. cronAt' \in [Replicas -> Crons \cup {None}]
      <3>1. req[q].task.cron \in Crons \cup {None}
        BY <1>0 DEF Tasks
      <3> QED BY <1>4, <3>1 DEF Sync, TypeOK
    <2> QED BY <1>4, <1>c, <2>1 DEF Sync, TypeOK, Reqs, tickVars
  <1>e. ASSUME NEW p \in Steps, req' = [req EXCEPT ![q].at = p]
        PROVE  req' \in [Requests -> Reqs]
    <2> DEFINE e == [req[q] EXCEPT !.at = p]
    <2>1. e \in Reqs
      BY <1>0, Zenon DEF Reqs
    <2>2. req' = [req EXCEPT ![q] = e]
      BY <1>e
    <2> HIDE DEF e
    <2> QED BY <1>0, <2>1, <2>2
  <1>5. CASE DeleteCancel(q)
    <2>1. req' \in [Requests -> Reqs]
      BY <1>5, <1>e DEF DeleteCancel, Steps
    <2>2. cronAt' \in [Replicas -> Crons \cup {None}]
      BY <1>5 DEF DeleteCancel, TypeOK
    <2> QED BY <1>5, <2>1, <2>2 DEF DeleteCancel, TypeOK, Reqs, tickVars
  <1>6. CASE Remove(q)
    <2>1. row' \in [task : Tasks, next : BOOLEAN]
      <3>1. [task |-> Task("deleted", None), next |-> FALSE] \in [task : Tasks, next : BOOLEAN]
        BY Zenon DEF Task, Tasks, Statuses
      <3> QED BY <1>6, <3>1 DEF Remove, TypeOK
    <2> QED BY <1>6, <1>c, <2>1 DEF Remove, TypeOK, Reqs, tickVars
  <1>7. CASE TriggerNow(q)
    <2>1. req' \in [Requests -> Reqs]
      BY <1>7, <1>c, <1>e DEF TriggerNow, Steps
    <2>2. row' \in [task : Tasks, next : BOOLEAN]
      BY <1>7, RecordIs DEF TriggerNow, TypeOK
    <2> QED BY <1>7, <2>1, <2>2 DEF TriggerNow, TypeOK, Reqs, tickVars
  <1> QED BY <1>1, <1>2, <1>3, <1>4, <1>5, <1>6, <1>7 DEF RequestStep

LEMMA TypeStep == TypeOK /\ HasCron /\ [Next]_vars => TypeOK'
  <1>1. ASSUME TypeOK, UNCHANGED vars PROVE TypeOK'
    BY <1>1 DEF vars, tickVars, TypeOK
  <1> QED BY <1>1, PassType, ExpireType, JobType, BootType, RequestType DEF Next

-----------------------------------------------------------------------------
(* The invariant. *)
USE DEF Early, Enabled, Stopped

LEMMA InvInit == Init => IInv
  <1> SUFFICES ASSUME Init PROVE IInv
    OBVIOUS
  <1>1. /\ row.task.status = "absent" /\ kept = None
        /\ \A r \in Replicas : job[r].at = "none" /\ Stopped(job[r].task)
        /\ \A a \in 0 .. Lag : granted[a] = 0
    BY EmptyTypes DEF Init, NoTask
  <1>2. ~due
    BY DEF Init
  <1> QED BY <1>1, <1>2 DEF IInv, HasCron, LockOutlives, LockEnds, DueIsServed, RunsSaw, Exists

(* Steps that neither pass time, nor touch the lock, nor the row's task. *)
LEMMA QuietStep ==
    ASSUME TypeOK, IInv, row'.task = row.task,
           UNCHANGED <<now, lock, kept, granted, ran, saw>>,
           \A x \in Replicas : \/ job'[x] = job[x]
                               \/ job'[x].at = "none" /\ Stopped(job'[x].task),
           due' => /\ due /\ Calm'
                   /\ ran \/ \A x \in Replicas : ~Early(x)
                          \/ \E y \in Replicas : Early(y) /\ job'[y] = job[y]
    PROVE  IInv'
  <1> USE DEF IInv
  <1>1. HasCron'
    BY DEF HasCron, Exists
  <1>2. LockOutlives'
    BY DEF LockOutlives
  <1>3. LockEnds'
    BY DEF LockEnds
  <1>4. DueIsServed'
    BY DEF DueIsServed
  <1>5. RunsSaw'
    BY DEF RunsSaw
  <1> QED BY <1>1, <1>2, <1>3, <1>4, <1>5

LEMMA FindInv ==
    ASSUME TypeOK, IInv, NEW r \in Replicas, Find(r)
    PROVE  IInv'
  <1>1. /\ job[r].at = "fired" /\ job'[r].at = "found"
        /\ job'[r].task = row.task /\ job'[r].age = job[r].age
        /\ \A x \in Replicas \ {r} : job'[x] = job[x]
        /\ UNCHANGED <<now, row, req, lock, kept, granted, ran, due, saw>>
    BY JobFinds DEF Find, tickVars
  <1> USE DEF IInv
  <1>2. HasCron'
    BY <1>1 DEF HasCron, Exists
  <1>3. LockOutlives'
    BY <1>1 DEF LockOutlives
  <1>4. LockEnds'
    BY <1>1 DEF LockEnds
  <1>5. DueIsServed'
    BY <1>1 DEF DueIsServed, Calm
  <1>6. RunsSaw'
    BY <1>1 DEF RunsSaw
  <1> QED BY <1>2, <1>3, <1>4, <1>5, <1>6

(* A lock that is taken now ends in time, *)
LEMMA TakeEnds ==
    ASSUME TypeOK, NEW c \in Crons, TakeLock(c), now' = now
    PROVE  LockEnds'
  <1> SUFFICES ASSUME kept' # None PROVE lock' <= NextTickIn(kept', now')
    BY DEF LockEnds
  <1>1. now' = now /\ kept' = c /\ NextTickIn(c, now) # 1 /\ lock' = TickTtl(c) + 1
    BY DEF TakeLock
  <1>2. /\ TickTtl(c) \in 1 .. Cap /\ NextTickIn(c, now) \in 1 .. Horizon
        /\ TickTtl(c) = 1 \/ TickTtl(c) + 2 <= NextTickIn(c, now)
    BY TtlIs DEF TypeOK
  <1> QED BY <1>1, <1>2, TimingAssumption

(* and outlives the others of its instant. *)
LEMMA GrantOutlives ==
    ASSUME TypeOK, IInv, NEW r \in Replicas, job[r].task.cron \in Crons,
           TakeLock(job[r].task.cron), Grant(r)
    PROVE  LockOutlives'
  <1>1. /\ job[r].age \in 0 .. Lag
        /\ \A a \in 0 .. Lag : a # job[r].age => granted'[a] = granted[a]
        /\ granted'[job[r].age] =
              IF Lag + 2 < NextTickIn(job[r].task.cron, now) + job[r].age
              THEN granted[job[r].age] + 1 ELSE granted[job[r].age]
    BY GrantIs
  <1>2. Lag \in Nat /\ Cap \in Nat /\ Horizon \in Nat /\ Lag < Cap
    BY TimingAssumption
  <1>3. \A a \in 0 .. Lag : granted[a] = 0
    <2> SUFFICES ASSUME NEW a \in 0 .. Lag PROVE granted[a] = 0
      OBVIOUS
    <2>1. granted[a] \in Nat /\ granted[a] <= 1 /\ (granted[a] = 1 => lock + a > Lag + 1)
      BY DEF TypeOK, IInv, LockOutlives
    <2>2. lock = 0
      BY DEF TakeLock
    <2> QED BY <1>2, <2>1, <2>2
  <1> PICK t \in 1 .. Cap : t = TickTtl(job[r].task.cron)
    BY TtlIs DEF TypeOK
  <1> PICK n \in 1 .. Horizon : n = NextTickIn(job[r].task.cron, now)
    BY TtlIs DEF TypeOK
  <1>4. t = Cap \/ n <= t + 2
    BY TtlIs DEF TypeOK
  <1>5. lock' = t + 1
    BY DEF TakeLock
  <1> SUFFICES ASSUME NEW a \in 0 .. Lag
               PROVE  granted'[a] <= 1 /\ (granted'[a] = 1 => lock' + a > Lag + 1)
    BY DEF LockOutlives
  <1>6. CASE a # job[r].age
    BY <1>1, <1>3, <1>6
  <1>7. CASE a = job[r].age
    <2>1. granted'[a] = IF Lag + 2 < n + a THEN 1 ELSE 0
      BY <1>1, <1>3, <1>7
    <2> QED BY <1>2, <1>4, <1>5, <2>1
  <1> QED BY <1>6, <1>7

(* A handler goes ahead. *)
LEMMA GoAheadInv ==
    ASSUME TypeOK, IInv, NEW r \in Replicas, job[r].at = "found", job[r].task.status = "enabled",
           GoAhead(r), UNCHANGED <<now, row, req, due, saw>>, LockOutlives', LockEnds'
    PROVE  IInv'
  <1>1. /\ job'[r].at = "dispatching" /\ job'[r].task = job[r].task
        /\ \A x \in Replicas \ {r} : job'[x] = job[x]
    BY JobClaims DEF GoAhead
  <1>2. ran'
    BY DEF GoAhead
  <1> USE DEF IInv
  <1>3. HasCron'
    BY <1>1 DEF HasCron, Exists
  <1>4. DueIsServed'
    BY <1>1, <1>2 DEF DueIsServed, Calm
  <1>5. RunsSaw'
    BY <1>1 DEF RunsSaw
  <1> QED BY <1>3, <1>4, <1>5

LEMMA ClaimInv ==
    ASSUME TypeOK, IInv, NEW r \in Replicas, Claim(r)
    PROVE  IInv'
  <1>1. /\ job[r].at = "found" /\ job[r].task.status = "enabled"
        /\ UNCHANGED <<now, row, req, due, saw>>
    BY DEF Claim
  <1>2. job[r].task.cron \in Crons
    BY ClaimCron DEF IInv
  <1>3. CASE TakeLock(job[r].task.cron) /\ Grant(r) /\ GoAhead(r)
    BY <1>1, <1>2, <1>3, TakeEnds, GrantOutlives, GoAheadInv
  <1>4. CASE job' = [job EXCEPT ![r] = NoJob] /\ lock > 0 /\ UNCHANGED tickVars
    <2>1. /\ job'[r].at = "none" /\ Stopped(job'[r].task)
          /\ \A x \in Replicas \ {r} : job'[x] = job[x]
      BY <1>4, JobEnds
    <2>2. UNCHANGED <<now, lock, kept, granted, ran, saw>>
      BY <1>1, <1>4 DEF tickVars
    <2>3. due => ran
      BY <1>4 DEF IInv, DueIsServed, TypeOK
    <2>4. due' => due /\ Calm'
      BY <1>1 DEF IInv, DueIsServed, Calm
    <2> QED BY <1>1, <2>1, <2>2, <2>3, <2>4, QuietStep
  <1> QED BY <1>3, <1>4 DEF Claim

LEMMA FailsOpenInv ==
    ASSUME TypeOK, IInv, NEW r \in Replicas, ClaimFailsOpen(r)
    PROVE  IInv'
  <1>1. /\ job[r].at = "found" /\ job[r].task.status = "enabled" /\ GoAhead(r)
        /\ UNCHANGED <<now, row, req, due, saw, granted>>
    BY DEF ClaimFailsOpen
  <1>2. CASE UNCHANGED <<lock, kept>>
    BY <1>1, <1>2, GoAheadInv DEF IInv, LockOutlives, LockEnds
  <1>3. CASE TakeLock(job[r].task.cron)
    <2>1. job[r].task.cron \in Crons
      BY ClaimCron DEF IInv
    <2>2. LockEnds'
      BY <1>1, <1>3, <2>1, TakeEnds
    <2>3. LockOutlives'
      <3>1. lock = 0 /\ granted' = granted /\ Lag \in Nat
        BY <1>1, <1>3, TimingAssumption DEF TakeLock
      <3>2. \A a \in 0 .. Lag : granted[a] # 1 /\ granted[a] <= 1
        BY <3>1 DEF IInv, LockOutlives
      <3> QED BY <3>1, <3>2 DEF LockOutlives
    <2> QED BY <1>1, <2>2, <2>3, GoAheadInv
  <1> QED BY <1>2, <1>3 DEF ClaimFailsOpen

LEMMA ExpireInv ==
    ASSUME TypeOK, IInv, Expire
    PROVE  IInv'
  <1>1. /\ lock = 1 /\ lock' = 0
        /\ UNCHANGED <<now, row, job, req, kept, granted, ran, due, saw>>
    BY DEF Expire
  <1> USE DEF IInv
  <1>2. HasCron' /\ RunsSaw'
    BY <1>1 DEF HasCron, RunsSaw, Exists
  <1>3. LockOutlives'
    <2>1. Lag \in Nat
      BY TimingAssumption
    <2>2. \A a \in 0 .. Lag : granted[a] # 1 /\ granted[a] <= 1
      BY <1>1, <2>1 DEF LockOutlives
    <2> QED BY <1>1, <2>2 DEF LockOutlives
  <1>4. LockEnds'
    BY <1>1 DEF LockEnds
  <1>5. DueIsServed'
    BY <1>1 DEF DueIsServed, Calm
  <1> QED BY <1>2, <1>3, <1>4, <1>5

LEMMA PassInv ==
    ASSUME TypeOK, IInv, NEW F \in SUBSET Replicas, Pass(F)
    PROVE  IInv'
  <1>1. /\ \A r \in F : /\ job[r].at = "none" /\ job'[r].at = "fired" /\ job'[r].task = NoTask
        /\ \A r \in Replicas \ F : job'[r].at = job[r].at /\ job'[r].task = job[r].task
    BY PassJobs
  <1>2. /\ now' = After(now, 1) /\ UNCHANGED <<row, req, kept>>
        /\ lock' = IF lock = 0 THEN 0 ELSE lock - 1
        /\ granted' = [a \in 0 .. Lag |-> IF a = 0 THEN 0 ELSE granted[a - 1]]
        /\ saw' = IF Enabled THEN saw \cup F ELSE saw \ F
    BY DEF Pass
  <1>3. /\ now \in Clock /\ now' \in Clock /\ lock \in Nat /\ Lag \in Nat
        /\ Horizon \in Nat \ {0} /\ 1 \in 0 .. Horizon /\ 1 \in 1 .. Horizon
    <2>1. /\ now \in Clock /\ lock \in Nat /\ Lag \in Nat
          /\ Horizon \in Nat \ {0} /\ 1 \in 0 .. Horizon /\ 1 \in 1 .. Horizon
      BY TimingAssumption DEF TypeOK
    <2> QED BY <1>2, <2>1, AfterIs
  <1>4. ASSUME NEW c \in Crons, now' \in Instants[c] PROVE NextTickIn(c, now) = 1
    <2>1. NextTickIn(c, now) <= 1 /\ NextTickIn(c, now) \in 1 .. Horizon
      BY <1>2, <1>3, <1>4, NextTick
    <2> QED BY <2>1
  <1> USE DEF IInv
  <1>5. HasCron'
    BY <1>1, <1>2, EmptyTypes DEF HasCron, Exists
  <1>6. LockOutlives'
    <2> SUFFICES ASSUME NEW a \in 0 .. Lag
                 PROVE  granted'[a] <= 1 /\ (granted'[a] = 1 => lock' + a > Lag + 1)
      BY DEF LockOutlives
    <2>1. CASE a = 0
      <3>1. granted'[a] = 0
        BY <1>2, <2>1
      <3> QED BY <3>1
    <2>2. CASE a # 0
      <3> PICK b \in 0 .. Lag : b = a - 1
        BY <1>3, <2>2
      <3>1. granted'[a] = granted[b]
        BY <1>2, <2>2
      <3>2. granted[b] <= 1 /\ (granted[b] = 1 => lock + b > Lag + 1)
        BY DEF LockOutlives
      <3> QED BY <1>2, <1>3, <3>1, <3>2
    <2> QED BY <2>1, <2>2
  <1>7. ASSUME kept # None, lock' # 0
        PROVE  /\ kept \in Crons /\ lock' = lock - 1 /\ lock <= NextTickIn(kept, now)
               /\ now' \notin Instants[kept]
    <2>1. kept \in Crons
      BY <1>7 DEF TypeOK
    <2>2. lock' = lock - 1 /\ lock > 1 /\ lock <= NextTickIn(kept, now)
      BY <1>2, <1>3, <1>7 DEF LockEnds
    <2>3. NextTickIn(kept, now) \in 1 .. Horizon
      BY <1>3, <2>1, NextTick
    <2> QED BY <1>3, <1>4, <2>1, <2>2, <2>3
  <1>8. LockEnds'
    <2> SUFFICES ASSUME kept # None, lock' # 0 PROVE lock' <= NextTickIn(kept, now')
      BY <1>2 DEF LockEnds
    <2>1. kept \in Crons
      BY <1>7
    <2> PICK n \in 1 .. Horizon : n = NextTickIn(kept, now)
      BY <1>3, <2>1, NextTick
    <2> PICK m \in 1 .. Horizon : m = NextTickIn(kept, now')
      BY <1>3, <2>1, NextTick
    <2>2. n <= m + 1
      BY <1>2, <1>3, <1>7, <2>1, Nearer
    <2> QED BY <1>3, <1>7, <2>2
  <1>9. DueIsServed'
    <2> SUFFICES ASSUME due' PROVE DueIsServed'
      BY DEF DueIsServed
    <2>1. CASE F # {}
      <3>1. /\ Calm /\ Enabled /\ now' \in Instants[row.task.cron]
            /\ ~ \E r \in Replicas : Early(r)
            /\ lock' = 0 \/ kept = row.task.cron
        BY <2>1, <1>2 DEF Pass
      <3>2. row.task.cron \in Crons /\ row.task.cron # None
        BY <3>1, TimingAssumption DEF HasCron, Exists
      <3>3. lock' = 0
        BY <1>7, <3>1, <3>2
      <3>4. \A r \in Replicas : job'[r].at # "found"
        BY <1>1, <3>1
      <3>5. \E r \in Replicas : Early(r)'
        BY <1>1, <2>1
      <3>6. Calm' /\ Enabled'
        BY <1>2, <3>1 DEF Calm
      <3> QED BY <3>3, <3>4, <3>5, <3>6 DEF DueIsServed
    <2>2. CASE F = {}
      <3>1. due /\ ran' = ran
        BY <2>2 DEF Pass
      <3>2. Calm' /\ Enabled'
        BY <1>2, <3>1 DEF DueIsServed, Calm
      <3>3. \A r \in Replicas : job'[r].at = "found" => job'[r].task = row'.task
        BY <1>1, <1>2, <2>2, <3>1 DEF DueIsServed
      <3>4. ~ran' => lock' = 0 /\ \E r \in Replicas : Early(r)'
        BY <1>1, <1>2, <2>2, <3>1 DEF DueIsServed
      <3> QED BY <3>2, <3>3, <3>4 DEF DueIsServed
    <2> QED BY <2>1, <2>2
  <1>10. RunsSaw'
    BY <1>1, <1>2 DEF RunsSaw
  <1> QED BY <1>5, <1>6, <1>8, <1>9, <1>10

(* Whoever writes the row's task does it when no instant is due. *)
LEMMA WriteInv ==
    ASSUME TypeOK, IInv, ~due, NEW s \in {"enabled", "disabled"}, NEW c \in Crons,
           Write(Task(s, c)),
           UNCHANGED <<now, job, tickVars, due>>
    PROVE  IInv'
  <1>1. /\ row'.task.status = s /\ row'.task.cron = c
        /\ saw' = IF s = "enabled" THEN Replicas ELSE saw
    BY TaskType, WriteIs
  <1>2. UNCHANGED <<lock, kept, granted, ran>> /\ ~due'
    BY DEF tickVars
  <1> USE DEF IInv
  <1>3. HasCron'
    BY <1>1 DEF HasCron, Exists
  <1>4. LockOutlives' /\ LockEnds'
    BY <1>2 DEF LockOutlives, LockEnds
  <1>5. DueIsServed'
    BY <1>2 DEF DueIsServed
  <1>6. RunsSaw'
    BY <1>1 DEF RunsSaw
  <1> QED BY <1>3, <1>4, <1>5, <1>6

LEMMA RemoveInv ==
    ASSUME TypeOK, IInv, NEW q \in Requests, Remove(q)
    PROVE  IInv'
  <1>1. /\ Exists => row'.task.status = "deleted"
        /\ ~Exists => row' = row
        /\ UNCHANGED <<now, job, lock, kept, granted, ran, due, saw>>
    BY DEF Remove, Task, tickVars
  <1>2. ~Calm
    BY DEF Remove, Calm
  <1>3. ~due
    BY <1>2 DEF IInv, DueIsServed
  <1> USE DEF IInv
  <1>4. HasCron'
    BY <1>1 DEF HasCron, Exists
  <1>5. LockOutlives' /\ LockEnds'
    BY <1>1 DEF LockOutlives, LockEnds
  <1>6. DueIsServed'
    BY <1>1, <1>3 DEF DueIsServed
  <1>7. RunsSaw'
    BY <1>1 DEF RunsSaw, Exists
  <1> QED BY <1>4, <1>5, <1>6, <1>7

LEMMA InvStep == TypeOK /\ IInv /\ [Next]_vars => IInv'
  <1> SUFFICES ASSUME TypeOK, IInv, [Next]_vars PROVE IInv'
    OBVIOUS
  <1> USE DEF tickVars
  <1>0. due => Calm
    BY DEF IInv, DueIsServed
  <1>1. ASSUME NEW r \in Replicas, GiveUp(r) PROVE IInv'
    <2>1. ~due
      BY <1>1 DEF GiveUp, IInv, DueIsServed
    <2>2. UNCHANGED <<now, row, lock, kept, granted, ran, due, saw>>
      BY <1>1 DEF GiveUp
    <2>3. ~due'
      BY <2>1, <2>2
    <2>4. /\ job'[r].at = "none" /\ Stopped(job'[r].task)
          /\ \A x \in Replicas \ {r} : job'[x] = job[x]
      <3>1. job' = [job EXCEPT ![r] = NoJob]
        BY <1>1 DEF GiveUp
      <3> QED BY <3>1, JobEnds
    <2> QED BY <2>2, <2>3, <2>4, QuietStep
  <1>2. ASSUME NEW r \in Replicas, Dispatch(r) PROVE IInv'
    <2>1. UNCHANGED <<now, req, lock, kept, granted, ran, due, saw>> /\ row'.task = row.task
      BY <1>2, RecordIs DEF Dispatch
    <2>2. due' => due /\ Calm'
      BY <1>0, <2>1 DEF Calm
    <2>3. ~Early(r) /\ \A x \in Replicas \ {r} : job'[x] = job[x]
      BY <1>2, JobEnds DEF Dispatch
    <2>4. job'[r].at = "none" /\ Stopped(job'[r].task)
      BY <1>2, JobEnds DEF Dispatch
    <2> QED BY <2>1, <2>2, <2>3, <2>4, QuietStep
  <1>3. ASSUME NEW r \in Replicas, JobFails(r) \/ Crash(r) PROVE IInv'
    <2>1. UNCHANGED <<now, row, lock, kept, granted, ran, saw>> /\ CutShort(r)
      BY <1>3 DEF JobFails, Crash
    <2>2. /\ job'[r].at = "none" /\ Stopped(job'[r].task)
          /\ \A x \in Replicas \ {r} : job'[x] = job[x]
      BY <1>3, JobEnds DEF JobFails, Crash
    <2>3. Calm => Calm'
      BY <1>3 DEF JobFails, Crash, Calm, NoRequest
    <2>4. due' => /\ due
                  /\ ran \/ ~Early(r) \/ \E x \in Replicas \ {r} : Early(x)
      BY <2>1 DEF CutShort
    <2> QED BY <1>0, <2>1, <2>2, <2>3, <2>4, QuietStep
  <1>4. ASSUME NEW r \in Replicas, BootStep(r) PROVE IInv'
    <2>1. UNCHANGED <<now, job, req, lock, kept, granted, ran, due, saw>> /\ row'.task = row.task
      BY <1>4, RecordIs DEF BootStep, BootRead, BootWrite, BootSync, BootFails
    <2>2. due' => due /\ Calm'
      BY <1>0, <2>1 DEF Calm
    <2> QED BY <2>1, <2>2, QuietStep
  <1>5. ASSUME NEW q \in Requests, NEW r \in Replicas, Read(q, r) PROVE IInv'
    <2>1. UNCHANGED <<now, row, job, lock, kept, granted, ran, saw>> /\ ~due'
      BY <1>5 DEF Read
    <2> QED BY <2>1, QuietStep
  <1>6. ASSUME NEW q \in Requests, Sync(q) \/ DeleteCancel(q) \/ TriggerNow(q) PROVE IInv'
    <2>1. UNCHANGED <<now, job, lock, kept, granted, ran, due, saw>> /\ row'.task = row.task
      BY <1>6, RecordIs DEF Sync, DeleteCancel, TriggerNow
    <2>2. ~due
      BY <1>0, <1>6 DEF Sync, DeleteCancel, TriggerNow, Calm
    <2> QED BY <2>1, <2>2, QuietStep
  <1>7. ASSUME NEW q \in Requests, NEW r \in Replicas, NEW s \in {"enabled", "disabled"},
               NEW c \in Crons, Create(q, r, s, c)
        PROVE  IInv'
    <2>1. ~due
      BY <1>7 DEF Create, IInv, DueIsServed
    <2> QED BY <1>7, <2>1, WriteInv DEF Create
  <1>8. ASSUME NEW q \in Requests, NEW s \in {"enabled", "disabled"}, NEW c \in Crons,
               Save(q, s, c)
        PROVE  IInv'
    <2>1. ~due
      BY <1>0, <1>8 DEF Save, Calm
    <2> QED BY <1>8, <2>1, WriteInv DEF Save
  <1>9. CASE UNCHANGED vars
    <2>1. UNCHANGED <<now, row, job, req, lock, kept, granted, ran, due, saw>>
      BY <1>9 DEF vars
    <2>2. due' => due /\ Calm'
      BY <1>0, <2>1 DEF Calm
    <2> QED BY <2>1, <2>2, QuietStep
  <1> QED BY <1>1, <1>2, <1>3, <1>4, <1>5, <1>6, <1>7, <1>8, <1>9,
             FindInv, ClaimInv, FailsOpenInv, ExpireInv, PassInv, RemoveInv
          DEF Next, JobStep, RequestStep

LEMMA Invariant == Spec => [](TypeOK /\ IInv)
  <1>1. TypeOK /\ IInv /\ [Next]_vars => (TypeOK /\ IInv)'
    BY TypeStep, InvStep DEF IInv
  <1> QED BY <1>1, TypeInit, InvInit, PTL DEF Spec

-----------------------------------------------------------------------------
(* The lock's time to live stays within its cap, and tasks, handlers and    *)
(* requests within their ranges.                                            *)
THEOREM TypeCorrect == Spec => []TypeOK
  BY Invariant, PTL

(* Of any number of handlers that fire at an instant, at most one takes the *)
(* lock and runs the task: the lock outlives the latest of them, whatever   *)
(* the expressions, unless the next instant is within Lag + 2 seconds.      *)
THEOREM OneRun == Spec => []OneRunPerTick
  <1>1. IInv => OneRunPerTick
    BY DEF IInv, LockOutlives, OneRunPerTick
  <1> QED BY <1>1, Invariant, PTL

(* And at least one runs, also when others of them fail or crash: the lock  *)
(* of an earlier instant of the same expression has ended, unless it was    *)
(* taken in the second before, however near the two instants are.           *)
THEOREM EveryRun == Spec => []EveryTickRuns
  <1>1. IInv => EveryTickRuns
    BY DEF IInv, DueIsServed, EveryTickRuns
  <1> QED BY <1>1, Invariant, PTL

(* A handler that runs the task has seen a time at which it was enabled.    *)
THEOREM NoRun == Spec => []NoRunOfStoppedTask
  <1>1. IInv => NoRunOfStoppedTask
    BY DEF IInv, RunsSaw, NoRunOfStoppedTask
  <1> QED BY <1>1, Invariant, PTL

================================================================================
