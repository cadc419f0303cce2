----------------------------- MODULE ScheduledTask -----------------------------
(***************************************************************************)
(* One scheduled task (scheduled-task.service.ts) on several API replicas. *)
(* Its row is shared; each replica holds a cron closure of its own for it  *)
(* (local-scheduler.ts, activeTasks).  Replicas whose closures fire at the *)
(* same instant contend for a tick lock in Redis, a key with a TTL; the    *)
(* winner dispatches an execution and records it in the row.               *)
(*                                                                         *)
(* Time is a clock of seconds that goes round 0 .. Horizon-1; a cron       *)
(* expression, of five fields or of six, is the set of the seconds at whose *)
(* start it fires.  All replicas read this clock.  A step is taken at some *)
(* time of the second that the clock shows.  A closure that fires reaches  *)
(* the tick lock within the next Lag seconds, or is counted as lost; what  *)
(* follows the lock may take any time.                                     *)
(***************************************************************************)
EXTENDS Naturals, FiniteSets, FiniteSetsExt

CONSTANTS Replicas,     \* API processes
          Requests,     \* requests that may be in flight at once
          Crons,        \* cron expressions, with their timezone
          None,         \* no expression: no closure; no replica
          Horizon,      \* length of the clock's round
          Instants,     \* the instants of each expression
          Cap,          \* the longest time to live of the tick lock (55 s)
          Lag,          \* the second after its instant in which a handler may
                        \* still reach the tick lock
          MaxFaults     \* bound on crashes, failed calls and Redis outages

Clock == 0 .. Horizon - 1

After(t, d) == (t + d) % Horizon

(* computeNextTick: the seconds from t to the next one that is an instant. *)
NextTickIn(c, t) == Min({d \in 1 .. Horizon : After(t, d) \in Instants[c]})

(* A lock of the longest life outlives the handlers it is there for.  How   *)
(* near an expression's instants are is not restricted: they may be a       *)
(* second apart.                                                            *)
ASSUME TimingAssumption ==
    /\ Horizon \in Nat \ {0} /\ Lag \in Nat /\ Cap \in Nat
    /\ Instants \in [Crons -> (SUBSET Clock) \ {{}}]
    /\ None \notin Crons \cup Replicas
    /\ Lag < Cap

ASSUME MaxFaultsAssumption == MaxFaults \in Nat

VARIABLES
    now,        \* the clock
    row,        \* the database row: status, cronExpression, and whether
                \* nextRunAt is set
    cronAt,     \* activeTasks: the expression registered on each replica
    job,        \* the tick handler that runs on each replica
    req,        \* the request in each slot
    up,         \* the replica is "up", "down" or in reRegisterEnabledSchedules
    booted,     \* the row as the boot of a replica read it
    lock,       \* the seconds, this one included, in which the tick lock's key
                \* still exists, the last of them in part; 0: no key
    faults,     \* faults so far
    kept,       \* history: the expression whose next instant the key's time to
                \* live was computed from; None if that instant was the next
                \* second, which a time to live of a second cannot stay out of
    granted,    \* history: granted[a]: how many runs took the lock for the
                \* instant a seconds ago, if their expression's next instant
                \* after it was further away than handlers are late
    due,        \* history: a handler fired, as the row asked for; none of
                \* an earlier instant was still under way, the lock was
                \* not one taken for another expression or on the brink of
                \* the instant, and nothing disturbed it since
    ran,        \* history: a run went ahead since handlers last fired
    saw         \* history: replicas whose handler has been running at a time
                \* when the task was enabled

tickVars == <<lock, kept, granted, ran>>
vars == <<now, row, cronAt, job, req, up, booted, tickVars, faults, due, saw>>

Statuses == {"absent", "enabled", "disabled", "deleted"}
Tasks == [status : Statuses, cron : Crons \cup {None}]
Stages == {"none", "fired", "found", "dispatching"}
Steps == {"idle", "read", "saved", "cancelled", "dispatching"}

NoTask == [status |-> "absent", cron |-> None]
NoJob == [at |-> "none", task |-> NoTask, age |-> 0]
NoRequest == [at |-> "idle", on |-> None, task |-> NoTask]
Task(status, c) == [status |-> status, cron |-> c]

Exists == row.task.status \in {"enabled", "disabled"}
Calm == \A q \in Requests : req[q].at = "idle"
Early(r) == job[r].at \in {"fired", "found"}

(* create, update and dispatchExecution compute a nextRunAt for a task that *)
(* is enabled, and null otherwise.                                          *)
HasNextRun(task) == task.status = "enabled"

Init ==
    /\ now = 0
    /\ row = [task |-> NoTask, next |-> FALSE]
    /\ cronAt = [r \in Replicas |-> None]
    /\ job = [r \in Replicas |-> NoJob]
    /\ req = [q \in Requests |-> NoRequest]
    /\ up = [r \in Replicas |-> "up"]
    /\ booted = [r \in Replicas |-> NoTask]
    /\ lock = 0
    /\ faults = 0
    /\ kept = None
    /\ granted = [a \in 0 .. Lag |-> 0]
    /\ due = FALSE
    /\ ran = FALSE
    /\ saw = {}

TypeOK ==
    /\ now \in Clock
    /\ row \in [task : Tasks, next : BOOLEAN]
    /\ cronAt \in [Replicas -> Crons \cup {None}]
    /\ job \in [Replicas -> [at : Stages, task : Tasks, age : 0 .. Lag]]
    /\ req \in [Requests -> [at : Steps, on : Replicas \cup {None}, task : Tasks]]
    /\ up \in [Replicas -> {"up", "down", "read", "written"}]
    /\ booted \in [Replicas -> Tasks]
    /\ lock \in 0 .. Cap + 1
    /\ faults \in 0 .. MaxFaults
    /\ kept \in Crons \cup {None}
    /\ granted \in [0 .. Lag -> Nat]
    /\ due \in BOOLEAN
    /\ ran \in BOOLEAN
    /\ saw \subseteq Replicas

-----------------------------------------------------------------------------
(* Writing the row. *)
Write(task) ==
    /\ row' = [task |-> task, next |-> HasNextRun(task)]
    /\ saw' = IF task.status = "enabled" THEN Replicas ELSE saw

(* UPDATE ... SET nextRunAt WHERE id: nothing if the row is gone. *)
Record(task) ==
    row' = IF Exists THEN [row EXCEPT !.next = HasNextRun(task)] ELSE row

Fault == faults < MaxFaults /\ faults' = faults + 1

(* The handler of r comes to nothing: that matters if it was the last one. *)
CutShort(r) ==
    due' = (due /\ (ran \/ ~Early(r) \/ \E x \in Replicas \ {r} : Early(x)))

-----------------------------------------------------------------------------
(* Time and the closures.  At an instant, closures registered for it fire,  *)
(* on replicas whose event loop is in time for it; a replica runs one tick  *)
(* handler at a time (a bound of the model).                                *)
Due(t) == {r \in Replicas : /\ cronAt[r] # None /\ job[r].at = "none"
                            /\ t \in Instants[cronAt[r]]}

Pass(F) ==
    LET t == After(now, 1)
    IN  /\ \A r \in Replicas : Early(r) => job[r].age < Lag
        /\ F \subseteq Due(t)
        /\ now' = t
        /\ lock' = IF lock = 0 THEN 0 ELSE lock - 1
        /\ job' = [r \in Replicas |->
                      IF r \in F THEN [NoJob EXCEPT !.at = "fired"]
                      ELSE IF Early(r) THEN [job[r] EXCEPT !.age = @ + 1]
                      ELSE job[r]]
        /\ granted' = [a \in 0 .. Lag |-> IF a = 0 THEN 0 ELSE granted[a - 1]]
        /\ IF F = {} THEN UNCHANGED <<due, ran>>
           ELSE /\ ran' = FALSE
                /\ due' = (/\ Calm /\ row.task.status = "enabled"
                           /\ t \in Instants[row.task.cron]
                           /\ ~ \E r \in Replicas : Early(r)
                           /\ lock' = 0 \/ kept = row.task.cron)
        /\ saw' = IF row.task.status = "enabled" THEN saw \cup F ELSE saw \ F
        /\ UNCHANGED <<row, cronAt, req, up, booted, kept, faults>>

(* The key expires in the last of its seconds. *)
Expire ==
    /\ lock = 1
    /\ lock' = 0
    /\ UNCHANGED <<now, row, cronAt, job, req, up, booted, kept, granted, ran, faults, due, saw>>

(* The tick handler reads the row. *)
Find(r) ==
    /\ job[r].at = "fired"
    /\ job' = [job EXCEPT ![r].at = "found", ![r].task = row.task]
    /\ UNCHANGED <<now, row, cronAt, req, up, booted, tickVars, faults, due, saw>>

(* Mutant: a handler that finds the task stopped leaves its closure. *)
GiveUpQuietly(r) ==
    /\ job[r].at = "found"
    /\ job[r].task.status # "enabled"
    /\ job' = [job EXCEPT ![r] = NoJob]
    /\ UNCHANGED <<now, row, cronAt, req, up, booted, tickVars, faults, due, saw>>

(* The row it read is gone or disabled: the closure of that name is cancelled. *)
GiveUp(r) ==
    /\ job[r].at = "found"
    /\ job[r].task.status # "enabled"
    /\ cronAt' = [cronAt EXCEPT ![r] = None]
    /\ job' = [job EXCEPT ![r] = NoJob]
    /\ UNCHANGED <<now, row, req, up, booted, tickVars, faults, due, saw>>

(* Mutants: the cap alone; the floor alone; no cap. *)
TtlFixed(c) == Cap
TtlShort(c) == 1
TtlUncapped(c) == Max({1, NextTickIn(c, now) - 2})

(* claimTaskTick: of the time to the next instant, the whole seconds less   *)
(* one, but no more than the cap and no less than a second.                 *)
TickTtl(c) == Max({1, Min({Cap, NextTickIn(c, now) - 2})})

(* SET key NX EX ttl, in this second. *)
TakeLock(c) ==
    /\ lock = 0
    /\ lock' = TickTtl(c) + 1
    /\ kept' = IF NextTickIn(c, now) = 1 THEN None ELSE c

(* The run that r starts took the lock for the instant at which r fired. *)
Grant(r) ==
    LET task == job[r].task
        a == job[r].age
    IN  granted' = [granted EXCEPT ![a] =
                       IF Lag + 2 < NextTickIn(task.cron, now) + a THEN @ + 1 ELSE @]

GoAhead(r) ==
    /\ job' = [job EXCEPT ![r].at = "dispatching", ![r].age = 0]
    /\ ran' = TRUE

(* Mutant: the handler forgets to look at the status it read. *)
ClaimAnything(r) ==
    /\ job[r].at = "found"
    /\ job[r].task.cron # None
    /\ TakeLock(job[r].task.cron) /\ Grant(r) /\ GoAhead(r)
    /\ UNCHANGED <<now, row, cronAt, req, up, booted, faults, due, saw>>

(* A handler whose task is enabled goes ahead if it gets the lock. *)
Claim(r) ==
    /\ job[r].at = "found"
    /\ job[r].task.status = "enabled"
    /\ \/ TakeLock(job[r].task.cron) /\ Grant(r) /\ GoAhead(r)
       \/ /\ lock > 0
          /\ job' = [job EXCEPT ![r] = NoJob]
          /\ UNCHANGED tickVars
    /\ UNCHANGED <<now, row, cronAt, req, up, booted, faults, due, saw>>

(* Redis fails, before or after it set the key: the run goes ahead. *)
ClaimFailsOpen(r) ==
    /\ job[r].at = "found"
    /\ job[r].task.status = "enabled"
    /\ Fault
    /\ TakeLock(job[r].task.cron) \/ UNCHANGED <<lock, kept>>
    /\ GoAhead(r)
    /\ UNCHANGED <<now, row, cronAt, req, up, booted, granted, due, saw>>

(* dispatchExecution: executionService.create and the UPDATE of the row,    *)
(* whose nextRunAt comes from the task as it was read.                      *)
Dispatch(r) ==
    /\ job[r].at = "dispatching"
    /\ Record(job[r].task)
    /\ job' = [job EXCEPT ![r] = NoJob]
    /\ UNCHANGED <<now, cronAt, req, up, booted, tickVars, faults, due, saw>>

(* A call of the handler to the database fails: the error is only logged. *)
JobFails(r) ==
    /\ job[r].at # "none"
    /\ Fault
    /\ job' = [job EXCEPT ![r] = NoJob]
    /\ CutShort(r)
    /\ UNCHANGED <<now, row, cronAt, req, up, booted, tickVars, saw>>

-----------------------------------------------------------------------------
(* The requests. *)
Close(q) == req' = [req EXCEPT ![q] = NoRequest]

(* create: the row is inserted; the replica registers it if it is enabled. *)
Create(q, r, status, c) ==
    /\ req[q].at = "idle" /\ up[r] = "up"
    /\ row.task.status = "absent"
    /\ Write(Task(status, c))
    /\ req' = [req EXCEPT ![q] = [at |-> "saved", on |-> r, task |-> Task(status, c)]]
    /\ UNCHANGED <<now, cronAt, job, up, booted, tickVars, faults, due>>

(* update, delete and triggerNow: getOneOrThrow. *)
Read(q, r) ==
    /\ req[q].at = "idle" /\ up[r] = "up"
    /\ Exists
    /\ req' = [req EXCEPT ![q] = [at |-> "read", on |-> r, task |-> row.task]]
    /\ due' = FALSE
    /\ UNCHANGED <<now, row, cronAt, job, up, booted, tickVars, faults, saw>>

(* update: save writes every column, and inserts a row deleted meanwhile.   *)
(* What the request does not give is taken from the row it read.            *)
Save(q, status, c) ==
    /\ req[q].at = "read"
    /\ Write(Task(status, c))
    /\ req' = [req EXCEPT ![q].at = "saved", ![q].task = Task(status, c)]
    /\ UNCHANGED <<now, cronAt, job, up, booted, tickVars, faults, due>>

(* syncSchedule or cancel, on the replica that serves the request. *)
Sync(q) ==
    /\ req[q].at = "saved"
    /\ cronAt' = [cronAt EXCEPT ![req[q].on] =
                    IF req[q].task.status = "enabled" THEN req[q].task.cron ELSE None]
    /\ Close(q)
    /\ UNCHANGED <<now, row, job, up, booted, tickVars, faults, due, saw>>

(* delete: cancel on this replica, then the row goes. *)
DeleteCancel(q) ==
    /\ req[q].at = "read"
    /\ cronAt' = [cronAt EXCEPT ![req[q].on] = None]
    /\ req' = [req EXCEPT ![q].at = "cancelled"]
    /\ UNCHANGED <<now, row, job, up, booted, tickVars, faults, due, saw>>

Remove(q) ==
    /\ req[q].at = "cancelled"
    /\ row' = IF Exists THEN [task |-> Task("deleted", None), next |-> FALSE] ELSE row
    /\ Close(q)
    /\ UNCHANGED <<now, cronAt, job, up, booted, tickVars, faults, due, saw>>

(* triggerNow: dispatchExecution without the tick lock. *)
TriggerNow(q) ==
    \/ /\ req[q].at = "read"
       /\ req' = [req EXCEPT ![q].at = "dispatching"]
       /\ UNCHANGED <<now, row, cronAt, job, up, booted, tickVars, faults, due, saw>>
    \/ /\ req[q].at = "dispatching"
       /\ Record(req[q].task)
       /\ Close(q)
       /\ UNCHANGED <<now, cronAt, job, up, booted, tickVars, faults, due, saw>>

-----------------------------------------------------------------------------
(* Restarts.  reRegisterEnabledSchedules runs before the replica listens. *)
Crash(r) ==
    /\ up[r] # "down"
    /\ Fault
    /\ up' = [up EXCEPT ![r] = "down"]
    /\ booted' = [booted EXCEPT ![r] = NoTask]
    /\ cronAt' = [cronAt EXCEPT ![r] = None]
    /\ job' = [job EXCEPT ![r] = NoJob]
    /\ req' = [q \in Requests |->
                  IF req[q].on = r THEN NoRequest ELSE req[q]]
    /\ CutShort(r)
    /\ UNCHANGED <<now, row, tickVars, saw>>

BootRead(r) ==
    /\ up[r] = "down"
    /\ up' = [up EXCEPT ![r] = IF row.task.status = "enabled" THEN "read" ELSE "up"]
    /\ booted' = [booted EXCEPT ![r] = IF row.task.status = "enabled" THEN row.task ELSE NoTask]
    /\ UNCHANGED <<now, row, cronAt, job, req, tickVars, faults, due, saw>>

BootWrite(r) ==
    /\ up[r] = "read"
    /\ Record(booted[r])
    /\ up' = [up EXCEPT ![r] = "written"]
    /\ UNCHANGED <<now, cronAt, job, req, booted, tickVars, faults, due, saw>>

BootSync(r) ==
    /\ up[r] = "written"
    /\ cronAt' = [cronAt EXCEPT ![r] = booted[r].cron]
    /\ up' = [up EXCEPT ![r] = "up"]
    /\ booted' = [booted EXCEPT ![r] = NoTask]
    /\ UNCHANGED <<now, row, job, req, tickVars, faults, due, saw>>

(* The query fails, or the UPDATE: nothing is registered for the task. *)
BootFails(r) ==
    /\ up[r] \in {"down", "read"}
    /\ Fault
    /\ up' = [up EXCEPT ![r] = "up"]
    /\ booted' = [booted EXCEPT ![r] = NoTask]
    /\ UNCHANGED <<now, row, cronAt, job, req, tickVars, due, saw>>

-----------------------------------------------------------------------------
JobStep(r) == Find(r) \/ GiveUp(r) \/ Claim(r) \/ Dispatch(r)

RequestStep(q) ==
    \/ \E s \in {"enabled", "disabled"}, c \in Crons : Save(q, s, c)
    \/ Sync(q) \/ DeleteCancel(q) \/ Remove(q) \/ TriggerNow(q)

BootStep(r) == BootRead(r) \/ BootWrite(r) \/ BootSync(r) \/ BootFails(r)

Next ==
    \/ \E F \in SUBSET Replicas : Pass(F)
    \/ Expire
    \/ \E r \in Replicas : JobStep(r) \/ ClaimFailsOpen(r) \/ JobFails(r)
                           \/ Crash(r) \/ BootStep(r)
    \/ \E q \in Requests, r \in Replicas : Read(q, r)
    \/ \E q \in Requests, r \in Replicas, s \in {"enabled", "disabled"}, c \in Crons :
          Create(q, r, s, c)
    \/ \E q \in Requests : RequestStep(q)

Spec == Init /\ [][Next]_vars

(* Time passes, a closure is not late for ever, and handlers, requests and  *)
(* boots get through.  No request need ever come.                           *)
FairSpec ==
    /\ Spec
    /\ WF_vars(\E F \in SUBSET Replicas : Pass(F))
    /\ \A r \in Replicas : /\ SF_vars(\E F \in SUBSET Replicas : r \in F /\ Pass(F))
                           /\ WF_vars(JobStep(r)) /\ WF_vars(BootStep(r))
    /\ \A q \in Requests : WF_vars(RequestStep(q))

-----------------------------------------------------------------------------
(* The tick lock: of the handlers that fire at one instant, at most one     *)
(* takes it and runs the task.  Not counted are the runs whose expression   *)
(* has its next instant within Lag + 2 seconds of that one: there the lock  *)
(* has to end before the late ones have come.                               *)
OneRunPerTick == \A a \in 0 .. Lag : granted[a] <= 1

(* And at least one runs, also if others fail or crash: the lock of an      *)
(* earlier tick, a late one's too, does not swallow it, if it was taken for *)
(* the same expression and not in the very second before the instant.       *)
EveryTickRuns == (due /\ \A r \in Replicas : ~Early(r)) => ran

(* A task that is disabled or deleted before an instant does not run at it, *)
(* whichever replica still holds a closure for it.                          *)
NoRunOfStoppedTask ==
    \A r \in Replicas : job[r].at = "dispatching" => r \in saw

(* After a task is stopped, every replica forgets it, also those that did   *)
(* not serve the request, or registered it from what they read at boot.     *)
StoppedTaskIsForgotten ==
    row.task.status \in {"disabled", "deleted"}
        ~> (row.task.status = "enabled" \/ \A r \in Replicas : cronAt[r] = None)
===============================================================================
