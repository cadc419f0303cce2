---------------------------- MODULE TriggerBinding ----------------------------
(***************************************************************************)
(* One trigger binding (trigger-binding.service.ts) on several API         *)
(* replicas: its row, the subscription its piece holds at the provider     *)
(* (made and dropped by the hooks ON_ENABLE and ON_DISABLE, which an       *)
(* engine runs), and on each replica the closures that the local scheduler *)
(* holds for its run and its renew expression.                             *)
(*                                                                         *)
(* Settings stand for the expressions in them.  A closure may fire at any  *)
(* time.  Whether a replica wins the tick lock is left open: ScheduledTask *)
(* models that lock, which has the same form here, with a key per closure. *)
(* The replica's schedules change in one go: cron and cancel of the local  *)
(* scheduler do not wait for anything.                                     *)
(***************************************************************************)
EXTENDS Naturals, FiniteSets

CONSTANTS Replicas,    \* API processes
          Requests,    \* requests that may be in flight at once
          Settings,    \* settings of a binding
          Run, Renew,  \* their two expressions: "none", "valid" or "invalid"
          None,        \* no settings, no replica
          MaxFaults    \* bound on crashes and on hooks that fail

ASSUME SettingsAssumption ==
    /\ Run \in [Settings -> {"none", "valid", "invalid"}]
    /\ Renew \in [Settings -> {"none", "valid", "invalid"}]
    /\ None \notin Settings \cup Replicas
    /\ MaxFaults \in Nat

VARIABLES
    row,         \* status and settings in the database
    subscribed,  \* the provider sends events
    closures,    \* the settings each replica's closures were registered with
    job,         \* the tick handler that runs on each replica
    req,         \* the request in each slot
    up, booted,  \* whether a replica is up, and the row as its boot read it
    faults,
    saw,         \* history: replicas whose handler has been running at a time
                 \* when the binding was enabled
    muddled      \* history: requests overlapped, a hook failed, a replica died
                 \* in a request, a late handler took the closures of a binding
                 \* enabled again, a boot made those of one that had changed or
                 \* could not read it, or settings changed that were enabled

vars == <<row, subscribed, closures, job, req, up, booted, faults, saw, muddled>>

Closures == {"run", "renew"}
Statuses == {"absent", "enabled", "disabled", "deleted"}
Bindings == [status : Statuses, settings : Settings \cup {None}]
Binding(status, s) == [status |-> status, settings |-> s]

NoBinding == Binding("absent", None)
NoClosures == [k \in Closures |-> None]
NoJob == [at |-> "none", kind |-> "run", seen |-> "absent"]
NoRequest == [at |-> "idle", on |-> None, binding |-> NoBinding]

Exists == row.status \in {"enabled", "disabled"}
Enabled == row.status = "enabled"

Init ==
    /\ row = NoBinding
    /\ subscribed = FALSE
    /\ closures = [r \in Replicas |-> NoClosures]
    /\ job = [r \in Replicas |-> NoJob]
    /\ req = [q \in Requests |-> NoRequest]
    /\ up = [r \in Replicas |-> "up"]
    /\ booted = [r \in Replicas |-> NoBinding]
    /\ faults = 0
    /\ saw = {}
    /\ muddled = FALSE

TypeOK ==
    /\ row \in Bindings
    /\ subscribed \in BOOLEAN /\ muddled \in BOOLEAN
    /\ closures \in [Replicas -> [Closures -> Settings \cup {None}]]
    /\ job \in [Replicas -> [at : {"none", "fired", "found", "claimed", "hook"},
                             kind : Closures, seen : Statuses]]
    /\ req \in [Requests -> [at : {"idle", "read", "hook", "sync", "unsynced", "unhooked"},
                             on : Replicas \cup {None}, binding : Bindings]]
    /\ up \in [Replicas -> {"up", "down", "booting"}]
    /\ booted \in [Replicas -> Bindings]
    /\ faults \in 0 .. MaxFaults
    /\ saw \subseteq Replicas

-----------------------------------------------------------------------------
Fault == faults < MaxFaults /\ faults' = faults + 1

Write(b) ==
    /\ row' = b
    /\ saw' = IF b.status = "enabled" THEN Replicas ELSE saw

(* Mutant: an invalid renew expression leaves the run closure that was      *)
(* registered before it.                                                    *)
SyncKeepingRun(c, s) ==
    IF Run[s] = "invalid" THEN c
    ELSE [k \in Closures |-> IF k = "run" THEN IF Run[s] = "valid" THEN s ELSE c[k]
                             ELSE IF Renew[s] = "valid" THEN s ELSE c[k]]

(* syncTriggerSchedule: a closure for each expression there is; those of    *)
(* settings without that expression stay.  An invalid run expression throws *)
(* before anything is registered, the renewal included; an invalid renew    *)
(* expression takes the run closure with it.                                *)
Sync(c, s) ==
    IF Run[s] = "invalid" THEN c
    ELSE [k \in Closures |->
             CASE k = "run" -> IF Renew[s] = "invalid" THEN None
                               ELSE IF Run[s] = "valid" THEN s ELSE c[k]
               [] k = "renew" -> IF Renew[s] = "valid" THEN s ELSE c[k]]

-----------------------------------------------------------------------------
(* The tick handlers; one at a time on a replica (a bound of the model).    *)
Fire(r, k) ==
    /\ up[r] # "down" /\ job[r].at = "none"
    /\ closures[r][k] # None
    /\ job' = [job EXCEPT ![r] = [NoJob EXCEPT !.at = "fired", !.kind = k]]
    /\ saw' = IF Enabled THEN saw \cup {r} ELSE saw \ {r}
    /\ UNCHANGED <<row, subscribed, closures, req, up, booted, faults, muddled>>

(* Mutant: a row that is gone is taken for a value. *)
FindNothing(r) ==
    /\ job[r].at = "fired"
    /\ job' = [job EXCEPT ![r].at = "found", ![r].seen = IF Exists THEN row.status ELSE None]
    /\ UNCHANGED <<row, subscribed, closures, req, up, booted, faults, saw, muddled>>

(* The handler reads the row; only its status matters. *)
Find(r) ==
    /\ job[r].at = "fired"
    /\ job' = [job EXCEPT ![r].at = "found", ![r].seen = row.status]
    /\ UNCHANGED <<row, subscribed, closures, req, up, booted, faults, saw, muddled>>

(* Mutant: the handler leaves its closures when it finds the binding gone. *)
GiveUpQuietly(r) ==
    /\ job[r].at = "found" /\ job[r].seen # "enabled"
    /\ job' = [job EXCEPT ![r] = NoJob]
    /\ UNCHANGED <<row, subscribed, closures, req, up, booted, faults, saw, muddled>>

(* Stopped as it was read: both closures of that name go. *)
GiveUp(r) ==
    /\ job[r].at = "found" /\ job[r].seen # "enabled"
    /\ closures' = [closures EXCEPT ![r] = NoClosures]
    /\ job' = [job EXCEPT ![r] = NoJob]
    /\ muddled' = (muddled \/ Enabled)
    /\ UNCHANGED <<row, subscribed, req, up, booted, faults, saw>>

(* claimTriggerTick, won or lost. *)
Claim(r) ==
    /\ job[r].at = "found" /\ job[r].seen = "enabled"
    /\ \/ job' = [job EXCEPT ![r].at = "claimed", ![r].seen = "absent"]
       \/ job' = [job EXCEPT ![r] = NoJob]
    /\ UNCHANGED <<row, subscribed, closures, req, up, booted, faults, saw, muddled>>

(* Mutant: the handler does not look at the status it read, nor does the    *)
(* run it starts.                                                           *)
StartAnyway(r) ==
    /\ job[r].at \in {"found", "claimed"}
    /\ job' = [job EXCEPT ![r] = IF Exists THEN [@ EXCEPT !.at = "hook"] ELSE NoJob]
    /\ UNCHANGED <<row, subscribed, closures, req, up, booted, faults, saw, muddled>>

(* executeRun reads the row again and throws unless it is enabled; renew    *)
(* reads it again too, and throws only when it is gone.                     *)
StartHook(r) ==
    /\ job[r].at = "claimed"
    /\ LET starts == IF job[r].kind = "run" THEN Enabled ELSE Exists
       IN  job' = [job EXCEPT ![r] = IF starts THEN [NoJob EXCEPT !.at = "hook"] ELSE NoJob]
    /\ UNCHANGED <<row, subscribed, closures, req, up, booted, faults, saw, muddled>>

(* The hook RUN or RENEW ends, well or not. *)
EndHook(r) ==
    /\ job[r].at = "hook"
    /\ job' = [job EXCEPT ![r] = NoJob]
    /\ UNCHANGED <<row, subscribed, closures, req, up, booted, faults, saw, muddled>>

-----------------------------------------------------------------------------
(* The requests. *)
Busy(q) == \E p \in Requests \ {q} : req[p].at # "idle"

Close(q) == req' = [req EXCEPT ![q] = NoRequest]
Goes(q, at) == req' = [req EXCEPT ![q].at = at]

Create(q, r, status, s) ==
    /\ req[q].at = "idle" /\ up[r] = "up"
    /\ row.status = "absent"
    /\ Write(Binding(status, s))
    /\ IF status = "enabled"
       THEN req' = [req EXCEPT ![q] = [at |-> "hook", on |-> r, binding |-> Binding(status, s)]]
       ELSE UNCHANGED req
    /\ UNCHANGED <<subscribed, closures, job, up, booted, faults, muddled>>

(* update and delete: getOneOrThrow. *)
Read(q, r) ==
    /\ req[q].at = "idle" /\ up[r] = "up"
    /\ Exists
    /\ req' = [req EXCEPT ![q] = [at |-> "read", on |-> r, binding |-> row]]
    /\ muddled' = (muddled \/ Busy(q))
    /\ UNCHANGED <<row, subscribed, closures, job, up, booted, faults, saw>>

(* Mutant: a binding is saved as disabled without a word to its piece. *)
SaveOnly(q, status, s) ==
    /\ req[q].at = "read"
    /\ Write(Binding(status, s))
    /\ IF req[q].binding.status = "disabled" /\ status = "enabled"
       THEN req' = [req EXCEPT ![q].at = "hook", ![q].binding = Binding(status, s)]
       ELSE Close(q)
    /\ muddled' = (muddled \/ (status = "enabled" /\ s # req[q].binding.settings))
    /\ UNCHANGED <<subscribed, closures, job, up, booted, faults>>

(* update: save writes every column, also of a row deleted meanwhile.  The  *)
(* hook and the schedule follow only if the status differs from the one     *)
(* read: settings that change under an enabled binding reach no closure.    *)
Save(q, status, s) ==
    /\ req[q].at = "read"
    /\ Write(Binding(status, s))
    /\ IF status # req[q].binding.status
       THEN /\ req' = [req EXCEPT ![q].at = "hook", ![q].binding = Binding(status, s)]
            /\ UNCHANGED muddled
       ELSE /\ Close(q)
            /\ muddled' = (muddled \/ (status = "enabled" /\ s # req[q].binding.settings))
    /\ UNCHANGED <<subscribed, closures, job, up, booted, faults>>

(* ON_ENABLE or ON_DISABLE; when it fails the request ends with the error,  *)
(* whether or not the provider heard of it.                                 *)
Hook(q) ==
    /\ req[q].at = "hook"
    /\ subscribed' = (req[q].binding.status = "enabled")
    /\ Goes(q, "sync")
    /\ UNCHANGED <<row, closures, job, up, booted, faults, saw, muddled>>

HookFails(q) ==
    /\ req[q].at \in {"hook", "unsynced"}
    /\ Fault
    /\ subscribed' \in {subscribed, req[q].at = "hook" /\ req[q].binding.status = "enabled"}
    /\ IF req[q].at = "hook" THEN Close(q) ELSE Goes(q, "unhooked")
    /\ muddled' = TRUE
    /\ UNCHANGED <<row, closures, job, up, booted, saw>>

(* syncTriggerSchedule or unsyncTriggerSchedule on the replica of the       *)
(* request.                                                                 *)
Schedule(q) ==
    /\ req[q].at = "sync"
    /\ LET b == req[q].binding
       IN  closures' = [closures EXCEPT ![req[q].on] =
                           IF b.status = "enabled" THEN Sync(@, b.settings) ELSE NoClosures]
    /\ Close(q)
    /\ UNCHANGED <<row, subscribed, job, up, booted, faults, saw, muddled>>

(* delete: the schedule, the hook if the binding was enabled as read, whose *)
(* failure is swallowed, and the row.                                       *)
DeleteUnsync(q) ==
    /\ req[q].at = "read"
    /\ closures' = [closures EXCEPT ![req[q].on] = NoClosures]
    /\ Goes(q, IF req[q].binding.status = "enabled" THEN "unsynced" ELSE "unhooked")
    /\ UNCHANGED <<row, subscribed, job, up, booted, faults, saw, muddled>>

DeleteHook(q) ==
    /\ req[q].at = "unsynced"
    /\ subscribed' = FALSE
    /\ Goes(q, "unhooked")
    /\ UNCHANGED <<row, closures, job, up, booted, faults, saw, muddled>>

Remove(q) ==
    /\ req[q].at = "unhooked"
    /\ row' = IF Exists THEN Binding("deleted", None) ELSE row
    /\ Close(q)
    /\ UNCHANGED <<subscribed, closures, job, up, booted, faults, saw, muddled>>

-----------------------------------------------------------------------------
(* A replica dies and comes back; reRegisterEnabledSchedules registers what *)
(* it read as enabled, and passes over what it cannot register.             *)
Crash(r) ==
    /\ up[r] # "down"
    /\ Fault
    /\ up' = [up EXCEPT ![r] = "down"]
    /\ booted' = [booted EXCEPT ![r] = NoBinding]
    /\ closures' = [closures EXCEPT ![r] = NoClosures]
    /\ job' = [job EXCEPT ![r] = NoJob]
    /\ req' = [q \in Requests |-> IF req[q].on = r THEN NoRequest ELSE req[q]]
    /\ muddled' = (muddled \/ \E q \in Requests : req[q].on = r)
    /\ UNCHANGED <<row, subscribed, saw>>

BootRead(r) ==
    /\ up[r] = "down"
    /\ up' = [up EXCEPT ![r] = IF Enabled THEN "booting" ELSE "up"]
    /\ booted' = [booted EXCEPT ![r] = IF Enabled THEN row ELSE NoBinding]
    /\ UNCHANGED <<row, subscribed, closures, job, req, faults, saw, muddled>>

(* The query fails: the replica is up, with no closures.  Every crash may   *)
(* be followed by this.                                                     *)
BootFails(r) ==
    /\ up[r] = "down"
    /\ up' = [up EXCEPT ![r] = "up"]
    /\ muddled' = (muddled \/ Enabled)
    /\ UNCHANGED <<row, subscribed, closures, job, req, booted, faults, saw>>

BootSync(r) ==
    /\ up[r] = "booting"
    /\ closures' = [closures EXCEPT ![r] = Sync(@, booted[r].settings)]
    /\ up' = [up EXCEPT ![r] = "up"]
    /\ booted' = [booted EXCEPT ![r] = NoBinding]
    /\ muddled' = (muddled \/ row # booted[r])
    /\ UNCHANGED <<row, subscribed, job, req, faults, saw>>

-----------------------------------------------------------------------------
JobStep(r) == Find(r) \/ GiveUp(r) \/ Claim(r) \/ StartHook(r) \/ EndHook(r)

RequestStep(q) ==
    \/ \E status \in {"enabled", "disabled"}, s \in Settings : Save(q, status, s)
    \/ Hook(q) \/ Schedule(q) \/ DeleteUnsync(q) \/ DeleteHook(q) \/ Remove(q)

BootStep(r) == BootRead(r) \/ BootFails(r) \/ BootSync(r)

Next ==
    \/ \E r \in Replicas : \/ \E k \in Closures : Fire(r, k)
                           \/ JobStep(r) \/ Crash(r) \/ BootStep(r)
    \/ \E q \in Requests, r \in Replicas : Read(q, r)
    \/ \E q \in Requests, r \in Replicas, status \in {"enabled", "disabled"}, s \in Settings :
          Create(q, r, status, s)
    \/ \E q \in Requests : RequestStep(q) \/ HookFails(q)

Spec == Init /\ [][Next]_vars

(* Closures keep firing, and handlers, requests and boots get through.  No  *)
(* request need ever come.                                                  *)
FairSpec ==
    /\ Spec
    /\ \A r \in Replicas : /\ SF_vars(\E k \in Closures : Fire(r, k))
                           /\ WF_vars(JobStep(r)) /\ WF_vars(BootStep(r))
    /\ \A q \in Requests : WF_vars(RequestStep(q))

-----------------------------------------------------------------------------
(* A run or a renewal that a closure starts is of a binding that was        *)
(* enabled at some time since the closure fired, whatever replica still     *)
(* holds closures of a binding that was stopped.                            *)
NoTickOfStoppedBinding ==
    \A r \in Replicas : job[r].at = "hook" => r \in saw

Quiet ==
    /\ \A q \in Requests : req[q].at = "idle"
    /\ \A r \in Replicas : up[r] = "up" /\ job[r].at = "none"

(* Settings whose expressions can be registered. *)
Sound(s) == Run[s] # "invalid" /\ Renew[s] # "invalid"

(* When nothing is under way and nothing went wrong, the provider sends     *)
(* events exactly if the binding is enabled, and an enabled binding has on  *)
(* some replica every closure that its settings ask for.  Of settings with  *)
(* an expression that is not valid only the first holds: create and update  *)
(* end with an error, and leave the binding enabled and subscribed.         *)
SettledBindingWorks ==
    (Quiet /\ ~muddled) =>
        /\ subscribed = Enabled
        /\ Enabled /\ Sound(row.settings) => \E r \in Replicas :
              /\ Run[row.settings] = "valid" => closures[r]["run"] # None
              /\ Renew[row.settings] = "valid" => closures[r]["renew"] # None

(* A run closure never stands without the renewal its settings ask for: a   *)
(* renew expression that cannot be registered takes the run down with it.   *)
NoRunWithoutRenewal ==
    \A r \in Replicas : LET s == closures[r]["run"]
                        IN  (s # None /\ Renew[s] # "none") => closures[r]["renew"] # None

(* After a binding is stopped, every replica forgets its closures.          *)
StoppedBindingIsForgotten ==
    row.status \in {"disabled", "deleted"}
        ~> (Enabled \/ \A r \in Replicas : closures[r] = NoClosures)
===============================================================================
