-------------------------- MODULE TriggerBindingProofs --------------------------
(***************************************************************************)
(* Proofs about trigger bindings, for any number of replicas, requests and *)
(* settings.                                                               *)
(***************************************************************************)
EXTENDS TriggerBinding, TLAPS

USE SettingsAssumption DEF SettingsAssumption

-----------------------------------------------------------------------------
(* Type correctness. *)

LEMMA WriteType ==
    ASSUME TypeOK, NEW b \in Bindings, Write(b)
    PROVE  row' \in Bindings /\ saw' \subseteq Replicas
  BY DEF Write, TypeOK

LEMMA SyncType ==
    ASSUME NEW c \in [Closures -> Settings \cup {None}], NEW s \in Settings \cup {None}
    PROVE  Sync(c, s) \in [Closures -> Settings \cup {None}]
  <1> DEFINE f(k) == CASE k = "run" -> IF Renew[s] = "invalid" THEN None
                                       ELSE IF Run[s] = "valid" THEN s ELSE c[k]
                       [] k = "renew" -> IF Renew[s] = "valid" THEN s ELSE c[k]
  <1>1. ASSUME NEW k \in Closures PROVE f(k) \in Settings \cup {None}
    <2>1. CASE k = "run"
      BY <2>1, c[k] \in Settings \cup {None}
    <2>2. CASE k = "renew"
      BY <2>2, c[k] \in Settings \cup {None}
    <2> QED BY <2>1, <2>2 DEF Closures
  <1>2. Sync(c, s) = IF Run[s] = "invalid" THEN c ELSE [k \in Closures |-> f(k)]
    BY DEF Sync
  <1> HIDE DEF f
  <1> QED BY <1>1, <1>2

LEMMA EmptyTypes ==
    /\ NoBinding \in Bindings
    /\ NoClosures \in [Closures -> Settings \cup {None}]
    /\ NoJob \in [at : {"none", "fired", "found", "claimed", "hook"},
                  kind : Closures, seen : Statuses]
    /\ NoRequest \in [at : {"idle", "read", "hook", "sync", "unsynced", "unhooked"},
                      on : Replicas \cup {None}, binding : Bindings]
  BY DEF NoBinding, NoClosures, NoJob, NoRequest, Bindings, Binding, Closures, Statuses

LEMMA TypeInit == Init => TypeOK
  <1> SUFFICES ASSUME Init PROVE TypeOK
    OBVIOUS
  <1>1. closures \in [Replicas -> [Closures -> Settings \cup {None}]]
    BY EmptyTypes DEF Init
  <1>2. /\ row \in Bindings
        /\ booted \in [Replicas -> Bindings]
    BY EmptyTypes DEF Init
  <1>3. job \in [Replicas -> [at : {"none", "fired", "found", "claimed", "hook"},
                              kind : Closures, seen : Statuses]]
    BY EmptyTypes DEF Init
  <1>4. req \in [Requests -> [at : {"idle", "read", "hook", "sync", "unsynced", "unhooked"},
                              on : Replicas \cup {None}, binding : Bindings]]
    BY EmptyTypes DEF Init
  <1>5. subscribed \in BOOLEAN /\ muddled \in BOOLEAN
    BY Zenon DEF Init
  <1>6. /\ up \in [Replicas -> {"up", "down", "booting"}]
        /\ faults \in 0 .. MaxFaults
        /\ saw \subseteq Replicas
    BY DEF Init
  <1> QED BY <1>1, <1>2, <1>3, <1>4, <1>5, <1>6 DEF TypeOK

LEMMA JobType ==
    ASSUME TypeOK, NEW r \in Replicas,
           (\E k \in Closures : Fire(r, k)) \/ JobStep(r)
    PROVE  TypeOK'
  <1> USE EmptyTypes DEF TypeOK
  <1>1. ASSUME NEW k \in Closures, Fire(r, k) PROVE TypeOK'
    BY <1>1, ZenonT(40) DEF Fire, NoJob, Statuses
  <1>2. CASE Find(r)
    <2>1. row.status \in Statuses
      BY DEF Bindings
    <2> QED BY <1>2, <2>1, ZenonT(40) DEF Find
  <1>3. CASE GiveUp(r)
    <2>1. muddled' \in BOOLEAN
      BY <1>3 DEF GiveUp
    <2> QED BY <1>3, <2>1 DEF GiveUp
  <1>4. CASE Claim(r)
    <2>1. CASE job' = [job EXCEPT ![r].at = "claimed", ![r].seen = "absent"]
      BY <1>4, <2>1, ZenonT(80) DEF Claim, Statuses
    <2>2. CASE job' = [job EXCEPT ![r] = NoJob]
      BY <1>4, <2>2 DEF Claim
    <2> QED BY <1>4, <2>1, <2>2 DEF Claim
  <1>5. CASE StartHook(r)
    BY <1>5, ZenonT(40) DEF StartHook
  <1>6. CASE EndHook(r)
    BY <1>6 DEF EndHook
  <1> QED BY <1>1, <1>2, <1>3, <1>4, <1>5, <1>6 DEF JobStep

LEMMA RequestType ==
    ASSUME TypeOK, NEW q \in Requests,
           \/ \E r \in Replicas : Read(q, r)
           \/ \E r \in Replicas, status \in {"enabled", "disabled"}, s \in Settings :
                 Create(q, r, status, s)
           \/ RequestStep(q) \/ HookFails(q)
    PROVE  TypeOK'
  <1> USE EmptyTypes DEF TypeOK
  <1>1. ASSUME NEW r \in Replicas, Read(q, r) PROVE TypeOK'
    BY <1>1 DEF Read
  <1>2. ASSUME NEW r \in Replicas, NEW status \in {"enabled", "disabled"},
               NEW s \in Settings, Create(q, r, status, s)
        PROVE  TypeOK'
    <2>1. Binding(status, s) \in Bindings
      BY DEF Binding, Bindings, Statuses
    <2>2. row' \in Bindings /\ saw' \subseteq Replicas
      BY <1>2, <2>1, WriteType DEF Create
    <2>3. CASE status = "enabled"
      BY <1>2, <2>1, <2>2, <2>3 DEF Create
    <2>4. CASE status # "enabled"
      BY <1>2, <2>2, <2>4 DEF Create
    <2> QED BY <2>3, <2>4
  <1>3. ASSUME NEW status \in {"enabled", "disabled"}, NEW s \in Settings, Save(q, status, s)
        PROVE  TypeOK'
    <2>1. Binding(status, s) \in Bindings
      BY DEF Binding, Bindings, Statuses
    <2>2. row' \in Bindings /\ saw' \subseteq Replicas
      BY <1>3, <2>1, WriteType DEF Save
    <2>3. muddled' \in BOOLEAN
      BY <1>3 DEF Save
    <2>4. CASE status # req[q].binding.status
      <3>1. req' = [req EXCEPT ![q].at = "hook", ![q].binding = Binding(status, s)]
        BY <1>3, <2>4 DEF Save
      <3> DEFINE R == [at : {"idle", "read", "hook", "sync", "unsynced", "unhooked"},
                       on : Replicas \cup {None}, binding : Bindings]
                 e == [req[q] EXCEPT !.at = "hook", !.binding = Binding(status, s)]
      <3>e. req \in [Requests -> R] /\ e \in R
        BY <2>1, ZenonT(40)
      <3>f. req' = [req EXCEPT ![q] = e]
        BY <3>1
      <3>2. req' \in [Requests -> R]
        <4> HIDE DEF R, e
        <4> QED BY <3>e, <3>f
      <3> QED BY <1>3, <2>2, <2>3, <3>2 DEF Save
    <2>5. CASE status = req[q].binding.status
      <3>1. req' = [req EXCEPT ![q] = NoRequest]
        BY <1>3, <2>5 DEF Save, Close
      <3> QED BY <1>3, <2>2, <2>3, <3>1 DEF Save
    <2> QED BY <2>4, <2>5
  <1>4. CASE Hook(q)
    BY <1>4, ZenonT(40) DEF Hook, Goes
  <1>5. CASE Schedule(q)
    <2>1. PICK b \in Bindings : b = req[q].binding
      OBVIOUS
    <2>2. PICK r : r = req[q].on
      OBVIOUS
    <2>3. closures' \in [Replicas -> [Closures -> Settings \cup {None}]]
      <3>1. b.settings \in Settings \cup {None}
        BY DEF Bindings
      <3>2. ASSUME NEW x \in Replicas
            PROVE  Sync(closures[x], b.settings) \in [Closures -> Settings \cup {None}]
        BY <3>1, SyncType
      <3> QED BY <1>5, <2>1, <3>2 DEF Schedule
    <2> QED BY <1>5, <2>3 DEF Schedule, Close
  <1>6. CASE DeleteUnsync(q)
    BY <1>6, ZenonT(80) DEF DeleteUnsync, Goes
  <1>7. CASE DeleteHook(q)
    BY <1>7, ZenonT(40) DEF DeleteHook, Goes
  <1>8. CASE Remove(q)
    BY <1>8 DEF Remove, Close, Binding, Bindings, Statuses
  <1>9. CASE HookFails(q)
    <2>1. subscribed' \in BOOLEAN /\ muddled' \in BOOLEAN
      BY <1>9, Zenon DEF HookFails
    <2>2. faults' \in 0 .. MaxFaults
      BY <1>9 DEF HookFails, Fault
    <2>3. CASE req[q].at = "hook"
      <3>1. req' = [req EXCEPT ![q] = NoRequest]
        BY <1>9, <2>3 DEF HookFails, Close
      <3> QED BY <1>9, <2>1, <2>2, <3>1 DEF HookFails
    <2>4. CASE req[q].at # "hook"
      <3>1. req' = [req EXCEPT ![q].at = "unhooked"]
        BY <1>9, <2>4 DEF HookFails, Goes
      <3> QED BY <1>9, <2>1, <2>2, <3>1, ZenonT(40) DEF HookFails
    <2> QED BY <2>3, <2>4
  <1> QED BY <1>1, <1>2, <1>3, <1>4, <1>5, <1>6, <1>7, <1>8, <1>9 DEF RequestStep

LEMMA ReplicaType ==
    ASSUME TypeOK, NEW r \in Replicas, Crash(r) \/ BootStep(r)
    PROVE  TypeOK'
  <1> USE EmptyTypes DEF TypeOK
  <1>1. CASE Crash(r)
    BY <1>1 DEF Crash, Fault
  <1>2. CASE BootRead(r)
    BY <1>2 DEF BootRead
  <1>3. CASE BootFails(r)
    BY <1>3 DEF BootFails
  <1>4. CASE BootSync(r)
    <2>1. Sync(closures[r], booted[r].settings) \in [Closures -> Settings \cup {None}]
      BY SyncType DEF Bindings
    <2> QED BY <1>4, <2>1 DEF BootSync
  <1> QED BY <1>1, <1>2, <1>3, <1>4 DEF BootStep

LEMMA TypeStep == TypeOK /\ [Next]_vars => TypeOK'
  <1> SUFFICES ASSUME TypeOK, [Next]_vars PROVE TypeOK'
    OBVIOUS
  <1>1. CASE UNCHANGED vars
    BY <1>1 DEF TypeOK, vars
  <1>2. CASE Next
    BY <1>2, JobType, RequestType, ReplicaType DEF Next
  <1> QED BY <1>1, <1>2

(* Every variable keeps its type. *)
THEOREM TypeCorrect == Spec => []TypeOK
  BY TypeInit, TypeStep, PTL DEF Spec

-----------------------------------------------------------------------------
(* No tick of a stopped binding.  A handler that runs while the binding is  *)
(* enabled has seen it so; one that read it as enabled read it after the    *)
(* closure fired; only such a handler claims the tick and starts a hook.    *)
TickInvariant ==
    \A r \in Replicas :
        /\ (job[r].at # "none" /\ Enabled) => r \in saw
        /\ (job[r].at = "found" /\ job[r].seen = "enabled") => r \in saw
        /\ job[r].at \in {"claimed", "hook"} => r \in saw

LEMMA TickInit == Init => TickInvariant
  BY DEF Init, TickInvariant, NoJob

(* Writing a row keeps it: an enabled row is seen by every handler. *)
LEMMA TickWrite ==
    ASSUME TickInvariant, NEW b, Write(b), UNCHANGED job
    PROVE  TickInvariant'
  <1>1. CASE b.status = "enabled"
    BY <1>1 DEF Write, TickInvariant
  <1>2. CASE b.status # "enabled"
    BY <1>2 DEF Write, TickInvariant, Enabled
  <1> QED BY <1>1, <1>2

(* So does a step that leaves the row, or does not enable it, and ends a    *)
(* handler or leaves them all.                                              *)
LEMMA TickKept ==
    ASSUME TypeOK, TickInvariant, UNCHANGED saw, Enabled' => Enabled,
           \/ UNCHANGED job
           \/ \E r \in Replicas : job' = [job EXCEPT ![r] = NoJob]
    PROVE  TickInvariant'
  <1>1. CASE UNCHANGED job
    BY <1>1 DEF TickInvariant
  <1>2. ASSUME NEW r \in Replicas, job' = [job EXCEPT ![r] = NoJob] PROVE TickInvariant'
    BY <1>2 DEF TypeOK, TickInvariant, NoJob
  <1> QED BY <1>1, <1>2

LEMMA TickStep == TypeOK /\ TickInvariant /\ [Next]_vars => TickInvariant'
  <1> SUFFICES ASSUME TypeOK, TickInvariant, [Next]_vars PROVE TickInvariant'
    OBVIOUS
  <1>1. ASSUME NEW r \in Replicas, NEW k \in Closures, Fire(r, k) PROVE TickInvariant'
    BY <1>1 DEF Fire, TypeOK, TickInvariant, NoJob, Enabled
  <1>2. ASSUME NEW r \in Replicas, Find(r) PROVE TickInvariant'
    BY <1>2 DEF Find, TypeOK, TickInvariant, Enabled
  <1>3. ASSUME NEW r \in Replicas, GiveUp(r) PROVE TickInvariant'
    BY <1>3, TickKept DEF GiveUp, Enabled
  <1>4. ASSUME NEW r \in Replicas, Claim(r) PROVE TickInvariant'
    <2>1. CASE job' = [job EXCEPT ![r].at = "claimed", ![r].seen = "absent"]
      BY <1>4, <2>1 DEF Claim, TypeOK, TickInvariant, Enabled
    <2>2. CASE job' = [job EXCEPT ![r] = NoJob]
      BY <1>4, <2>2, TickKept DEF Claim, Enabled
    <2> QED BY <1>4, <2>1, <2>2 DEF Claim
  <1>5. ASSUME NEW r \in Replicas, StartHook(r) PROVE TickInvariant'
    <2>1. CASE job' = [job EXCEPT ![r] = [NoJob EXCEPT !.at = "hook"]]
      BY <1>5, <2>1 DEF StartHook, TypeOK, TickInvariant, NoJob, Enabled
    <2>2. CASE job' = [job EXCEPT ![r] = NoJob]
      BY <1>5, <2>2, TickKept DEF StartHook, Enabled
    <2> QED BY <1>5, <2>1, <2>2 DEF StartHook
  <1>6. ASSUME NEW r \in Replicas, EndHook(r) PROVE TickInvariant'
    BY <1>6, TickKept DEF EndHook, Enabled
  <1>7. ASSUME NEW r \in Replicas, Crash(r) PROVE TickInvariant'
    BY <1>7, TickKept DEF Crash, Enabled
  <1>8. ASSUME NEW r \in Replicas, BootStep(r) PROVE TickInvariant'
    BY <1>8, TickKept DEF BootStep, BootRead, BootFails, BootSync, Enabled
  <1>9. ASSUME NEW q \in Requests, NEW r \in Replicas, Read(q, r) PROVE TickInvariant'
    BY <1>9, TickKept DEF Read, Enabled
  <1>10. ASSUME NEW q \in Requests, NEW r \in Replicas,
                NEW status \in {"enabled", "disabled"}, NEW s \in Settings,
                Create(q, r, status, s)
         PROVE  TickInvariant'
    BY <1>10, TickWrite DEF Create
  <1>11. ASSUME NEW q \in Requests, NEW status \in {"enabled", "disabled"},
                NEW s \in Settings, Save(q, status, s)
         PROVE  TickInvariant'
    BY <1>11, TickWrite DEF Save
  <1>12. ASSUME NEW q \in Requests, Remove(q) PROVE TickInvariant'
    <2>1. Enabled' => Enabled
      BY <1>12 DEF Remove, Enabled, Binding
    <2> QED BY <1>12, <2>1, TickKept DEF Remove
  <1>13. ASSUME NEW q \in Requests,
                \/ Hook(q) \/ Schedule(q) \/ DeleteUnsync(q) \/ DeleteHook(q) \/ HookFails(q)
         PROVE  TickInvariant'
    BY <1>13, TickKept DEF Hook, Schedule, DeleteUnsync, DeleteHook, HookFails, Enabled
  <1>14. CASE UNCHANGED vars
    BY <1>14, TickKept DEF vars, Enabled
  <1> QED BY <1>1, <1>2, <1>3, <1>4, <1>5, <1>6, <1>7, <1>8, <1>9, <1>10, <1>11, <1>12,
             <1>13, <1>14 DEF Next, JobStep, RequestStep

(* A hook that a closure starts is of a binding that was enabled at some    *)
(* time since the closure fired.                                            *)
THEOREM NoTick == Spec => []NoTickOfStoppedBinding
  <1>1. Init => TypeOK /\ TickInvariant
    BY TypeInit, TickInit
  <1>2. TypeOK /\ TickInvariant /\ [Next]_vars => (TypeOK /\ TickInvariant)'
    BY TypeStep, TickStep
  <1>3. TickInvariant => NoTickOfStoppedBinding
    BY DEF TickInvariant, NoTickOfStoppedBinding
  <1> QED BY <1>1, <1>2, <1>3, PTL DEF Spec

-----------------------------------------------------------------------------
(* No run without its renewal.  Whatever is to be scheduled has settings.   *)
HasSettings ==
    /\ Exists => row.settings \in Settings
    /\ \A q \in Requests : req[q].at \in {"hook", "sync"} => req[q].binding.settings \in Settings
    /\ \A r \in Replicas : up[r] = "booting" => booted[r].settings \in Settings

Renewed(c) == (c["run"] # None /\ Renew[c["run"]] # "none") => c["renew"] # None

LEMMA SyncRenews ==
    ASSUME NEW c \in [Closures -> Settings \cup {None}], NEW s \in Settings, Renewed(c)
    PROVE  Renewed(Sync(c, s))
  <1>1. CASE Run[s] = "invalid"
    BY <1>1 DEF Sync
  <1>2. CASE Run[s] # "invalid"
    <2>1. /\ Sync(c, s)["run"] = IF Renew[s] = "invalid" THEN None
                                  ELSE IF Run[s] = "valid" THEN s ELSE c["run"]
          /\ Sync(c, s)["renew"] = IF Renew[s] = "valid" THEN s ELSE c["renew"]
      BY <1>2 DEF Sync, Closures
    <2>2. Renew[s] \in {"none", "valid", "invalid"} /\ s # None
      OBVIOUS
    <2> QED BY <2>1, <2>2 DEF Renewed
  <1> QED BY <1>1, <1>2

LEMMA EmptyRenewed == Renewed(NoClosures)
  BY DEF Renewed, NoClosures, Closures

LEMMA SettingsInit == Init => HasSettings
  BY DEF Init, HasSettings, Exists, NoBinding, NoRequest, Binding

LEMMA SettingsStep == TypeOK /\ HasSettings /\ [Next]_vars => HasSettings'
  <1> SUFFICES ASSUME TypeOK, HasSettings, [Next]_vars PROVE HasSettings'
    OBVIOUS
  <1> USE DEF HasSettings, Exists, TypeOK
  <1>1. ASSUME NEW r \in Replicas, (\E k \in Closures : Fire(r, k)) \/ JobStep(r)
        PROVE  HasSettings'
    BY <1>1 DEF Fire, JobStep, Find, GiveUp, Claim, StartHook, EndHook
  <1>2. ASSUME NEW r \in Replicas, Crash(r) PROVE HasSettings'
    <2>1. \A q \in Requests : req'[q] = req[q] \/ req'[q].at = "idle"
      BY <1>2 DEF Crash, NoRequest
    <2> QED BY <1>2, <2>1 DEF Crash
  <1>3. ASSUME NEW r \in Replicas, BootStep(r) PROVE HasSettings'
    BY <1>3 DEF BootStep, BootRead, BootFails, BootSync, Enabled
  <1>4. ASSUME NEW q \in Requests, NEW r \in Replicas, Read(q, r) PROVE HasSettings'
    BY <1>4 DEF Read
  <1>5. ASSUME NEW q \in Requests, NEW r \in Replicas,
               NEW status \in {"enabled", "disabled"}, NEW s \in Settings,
               Create(q, r, status, s)
        PROVE  HasSettings'
    <2>1. row'.settings = s
      BY <1>5 DEF Create, Write, Binding
    <2>2. CASE status = "enabled"
      <3>1. req' = [req EXCEPT ![q] = [at |-> "hook", on |-> r, binding |-> Binding(status, s)]]
        BY <1>5, <2>2 DEF Create
      <3>2. UNCHANGED <<up, booted>>
        BY <1>5 DEF Create
      <3> QED BY <2>1, <3>1, <3>2 DEF Binding
    <2>3. CASE status # "enabled"
      BY <1>5, <2>1, <2>3 DEF Create
    <2> QED BY <2>2, <2>3
  <1>6. ASSUME NEW q \in Requests, NEW status \in {"enabled", "disabled"},
               NEW s \in Settings, Save(q, status, s)
        PROVE  HasSettings'
    <2>1. row'.settings = s /\ UNCHANGED <<up, booted>>
      BY <1>6 DEF Save, Write, Binding
    <2>2. CASE status # req[q].binding.status
      <3>1. req' = [req EXCEPT ![q].at = "hook", ![q].binding = Binding(status, s)]
        BY <1>6, <2>2 DEF Save
      <3> QED BY <2>1, <3>1 DEF Binding
    <2>3. CASE status = req[q].binding.status
      <3>1. req' = [req EXCEPT ![q] = NoRequest]
        BY <1>6, <2>3 DEF Save, Close
      <3> QED BY <2>1, <3>1 DEF NoRequest
    <2> QED BY <2>2, <2>3
  <1>7. ASSUME NEW q \in Requests,
               \/ Hook(q) \/ Schedule(q) \/ DeleteUnsync(q) \/ DeleteHook(q)
        PROVE  HasSettings'
    <2>1. \/ req' = [req EXCEPT ![q] = NoRequest]
          \/ req[q].at = "hook" /\ req' = [req EXCEPT ![q].at = "sync"]
          \/ req' = [req EXCEPT ![q].at = "unsynced"]
          \/ req' = [req EXCEPT ![q].at = "unhooked"]
      BY <1>7 DEF Hook, Schedule, DeleteUnsync, DeleteHook, Goes, Close
    <2>2. UNCHANGED <<row, up, booted>>
      BY <1>7 DEF Hook, Schedule, DeleteUnsync, DeleteHook
    <2>3. \A p \in Requests : req'[p].at \in {"hook", "sync"}
             => req[p].at \in {"hook", "sync"} /\ req'[p].binding = req[p].binding
      <3>1. \A p \in Requests \ {q} : req'[p] = req[p]
        BY <2>1
      <3>2. CASE req' = [req EXCEPT ![q] = NoRequest]
        BY <3>1, <3>2 DEF NoRequest
      <3>3. CASE req[q].at = "hook" /\ req' = [req EXCEPT ![q].at = "sync"]
        BY <3>1, <3>3
      <3>4. CASE \/ req' = [req EXCEPT ![q].at = "unsynced"]
                 \/ req' = [req EXCEPT ![q].at = "unhooked"]
        BY <3>1, <3>4
      <3> QED BY <2>1, <3>2, <3>3, <3>4
    <2> QED BY <2>2, <2>3
  <1>8. ASSUME NEW q \in Requests, Remove(q) PROVE HasSettings'
    <2>1. Exists' => row' = row
      BY <1>8 DEF Remove, Binding
    <2>2. req' = [req EXCEPT ![q] = NoRequest] /\ UNCHANGED <<up, booted>>
      BY <1>8 DEF Remove, Close
    <2> QED BY <2>1, <2>2 DEF NoRequest
  <1>9. ASSUME NEW q \in Requests, HookFails(q) PROVE HasSettings'
    <2>1. req' = [req EXCEPT ![q] = NoRequest] \/ req' = [req EXCEPT ![q].at = "unhooked"]
      BY <1>9 DEF HookFails, Close, Goes
    <2>2. UNCHANGED <<row, up, booted>>
      BY <1>9 DEF HookFails
    <2> QED BY <2>1, <2>2 DEF NoRequest
  <1>10. CASE UNCHANGED vars
    BY <1>10 DEF vars
  <1> QED BY <1>1, <1>2, <1>3, <1>4, <1>5, <1>6, <1>7, <1>8, <1>9, <1>10
          DEF Next, RequestStep

LEMMA RenewedStep ==
    TypeOK /\ HasSettings /\ NoRunWithoutRenewal /\ [Next]_vars => NoRunWithoutRenewal'
  <1> SUFFICES ASSUME TypeOK, HasSettings, NoRunWithoutRenewal, [Next]_vars
               PROVE  NoRunWithoutRenewal'
    OBVIOUS
  <1>1. \A r \in Replicas : Renewed(closures[r])
    BY DEF NoRunWithoutRenewal, Renewed
  <1>2. \A r \in Replicas, s \in Settings : Renewed(Sync(closures[r], s))
    BY <1>1, SyncRenews DEF TypeOK
  <1> SUFFICES \A r \in Replicas : Renewed(closures'[r])
    BY DEF NoRunWithoutRenewal, Renewed
  <1> HIDE DEF NoRunWithoutRenewal
  <1>3. CASE UNCHANGED closures
    BY <1>1, <1>3
  <1>4. ASSUME NEW r \in Replicas, GiveUp(r) \/ Crash(r)
        PROVE  \A x \in Replicas : Renewed(closures'[x])
    BY <1>1, <1>4, EmptyRenewed DEF GiveUp, Crash, TypeOK
  <1>5. ASSUME NEW r \in Replicas, BootSync(r)
        PROVE  \A x \in Replicas : Renewed(closures'[x])
    <2>1. booted[r].settings \in Settings
      BY <1>5 DEF BootSync, HasSettings
    <2> QED BY <1>1, <1>2, <1>5, <2>1 DEF BootSync, TypeOK
  <1>6. ASSUME NEW q \in Requests, Schedule(q)
        PROVE  \A x \in Replicas : Renewed(closures'[x])
    <2>1. req[q].binding.settings \in Settings
      BY <1>6 DEF Schedule, HasSettings
    <2>2. \A x \in Replicas : \/ closures'[x] = closures[x]
                              \/ closures'[x] = Sync(closures[x], req[q].binding.settings)
                              \/ closures'[x] = NoClosures
      BY <1>6 DEF Schedule, TypeOK
    <2> QED BY <1>1, <1>2, <2>1, <2>2, EmptyRenewed
  <1>7. ASSUME NEW q \in Requests, DeleteUnsync(q)
        PROVE  \A x \in Replicas : Renewed(closures'[x])
    <2>1. \A x \in Replicas : closures'[x] = closures[x] \/ closures'[x] = NoClosures
      BY <1>7 DEF DeleteUnsync, TypeOK
    <2> QED BY <1>1, <2>1, EmptyRenewed
  <1>8. \/ UNCHANGED closures
        \/ \E r \in Replicas : GiveUp(r) \/ Crash(r) \/ BootSync(r)
        \/ \E q \in Requests : Schedule(q) \/ DeleteUnsync(q)
    BY DEF Next, JobStep, RequestStep, BootStep, vars, Fire, Find, Claim, StartHook, EndHook,
           Read, Create, Save, Hook, HookFails, DeleteHook, Remove, BootRead, BootFails
  <1> QED BY <1>3, <1>4, <1>5, <1>6, <1>7, <1>8

(* A run closure never stands without the renewal its settings ask for.     *)
THEOREM RunsAreRenewed == Spec => []NoRunWithoutRenewal
  <1>1. Init => TypeOK /\ HasSettings /\ NoRunWithoutRenewal
    BY TypeInit, SettingsInit DEF Init, NoRunWithoutRenewal, NoClosures, Closures
  <1>2. TypeOK /\ HasSettings /\ NoRunWithoutRenewal /\ [Next]_vars
        => (TypeOK /\ HasSettings /\ NoRunWithoutRenewal)'
    BY TypeStep, SettingsStep, RenewedStep
  <1> QED BY <1>1, <1>2, PTL DEF Spec

-----------------------------------------------------------------------------
(* A settled binding works.  Unless something went wrong, requests come one *)
(* at a time and know the row as it is; once no request is past its read,   *)
(* the provider and the schedule agree with the row: an enabled binding has *)
(* a replica with its closures, or one that is coming back to make them.    *)
Has(c, s) == /\ Run[s] = "valid" => c["run"] # None
             /\ Renew[s] = "valid" => c["renew"] # None

Covers(r) == up[r] \in {"down", "booting"} \/ Has(closures[r], row.settings)

OneRequest ==
    /\ \A p, q \in Requests : (req[p].at # "idle" /\ req[q].at # "idle") => p = q
    /\ \A q \in Requests : req[q].at # "idle" =>
          Exists /\ req[q].binding = row /\ req[q].on \in Replicas

ProviderKnows ==
    \A q \in Requests : /\ req[q].at = "sync" => (subscribed <=> Enabled)
                        /\ req[q].at = "unhooked" => ~subscribed

AtRest == \A q \in Requests : req[q].at \in {"idle", "read"}

Agrees ==
    /\ subscribed <=> Enabled
    /\ Enabled /\ Sound(row.settings) => \E r \in Replicas : Covers(r)

SettledInv == ~muddled => OneRequest /\ ProviderKnows /\ (AtRest => Agrees)

LEMMA SyncHas ==
    ASSUME NEW c \in [Closures -> Settings \cup {None}], NEW s \in Settings, Sound(s)
    PROVE  Has(Sync(c, s), s)
  <1>1. /\ Sync(c, s)["run"] = IF Run[s] = "valid" THEN s ELSE c["run"]
        /\ Sync(c, s)["renew"] = IF Renew[s] = "valid" THEN s ELSE c["renew"]
    BY DEF Sync, Closures, Sound
  <1> QED BY <1>1 DEF Has

LEMMA SettledInit == Init => SettledInv
  BY DEF Init, SettledInv, OneRequest, ProviderKnows, AtRest, Agrees, Enabled, NoBinding,
         NoRequest, Binding

(* Replicas step, requests stand still. *)
LEMMA ReplicaSettled ==
    ASSUME TypeOK, HasSettings, SettledInv, UNCHANGED <<row, subscribed>>,
           ~muddled' => ~muddled /\ UNCHANGED req,
           ~muddled' => (Enabled /\ Sound(row.settings) =>
                            \A r \in Replicas : Covers(r) => Covers(r)')
    PROVE  SettledInv'
  <1> SUFFICES ASSUME ~muddled' PROVE OneRequest' /\ ProviderKnows' /\ (AtRest' => Agrees')
    BY DEF SettledInv
  <1>1. UNCHANGED req /\ OneRequest /\ ProviderKnows /\ (AtRest => Agrees)
    BY DEF SettledInv
  <1>2. OneRequest' /\ ProviderKnows'
    BY <1>1 DEF OneRequest, ProviderKnows, Exists, Enabled
  <1>3. AtRest' => Agrees'
    BY <1>1 DEF AtRest, Agrees, Enabled
  <1> QED BY <1>2, <1>3

LEMMA ReplicaStepSettled ==
    ASSUME TypeOK, HasSettings, SettledInv, NEW r \in Replicas,
           (\E k \in Closures : Fire(r, k)) \/ JobStep(r) \/ Crash(r) \/ BootStep(r)
    PROVE  SettledInv'
  <1>1. CASE (\E k \in Closures : Fire(r, k)) \/ Find(r) \/ Claim(r) \/ StartHook(r) \/ EndHook(r)
    <2>1. UNCHANGED <<row, subscribed, muddled, req, closures, up>>
      BY <1>1 DEF Fire, Find, Claim, StartHook, EndHook
    <2> QED BY <2>1, ReplicaSettled DEF Covers
  <1>2. CASE GiveUp(r)
    <2>1. UNCHANGED <<row, subscribed, req, up>> /\ (~muddled' => ~muddled /\ ~Enabled)
      BY <1>2 DEF GiveUp, Enabled
    <2> QED BY <2>1, ReplicaSettled
  <1>3. CASE Crash(r)
    <2>1. UNCHANGED <<row, subscribed>> /\ (~muddled' => ~muddled)
      BY <1>3 DEF Crash
    <2>2. ~muddled' => UNCHANGED req
      BY <1>3 DEF Crash, TypeOK
    <2>3. \A x \in Replicas : Covers(x) => Covers(x)'
      <3> SUFFICES ASSUME NEW x \in Replicas, Covers(x) PROVE Covers(x)'
        OBVIOUS
      <3>1. CASE x = r
        <4>1. up'[x] = "down"
          BY <1>3, <3>1 DEF Crash, TypeOK
        <4> QED BY <4>1 DEF Covers
      <3>2. CASE x # r
        <4>1. up'[x] = up[x] /\ closures'[x] = closures[x]
          BY <1>3, <3>2 DEF Crash, TypeOK
        <4> QED BY <2>1, <4>1 DEF Covers
      <3> QED BY <3>1, <3>2
    <2> QED BY <2>1, <2>2, <2>3, ReplicaSettled
  <1>4. CASE BootRead(r)
    <2>1. UNCHANGED <<row, subscribed, muddled, req, closures>>
      BY <1>4 DEF BootRead
    <2>2. Enabled => \A x \in Replicas : up'[x] = up[x] \/ up'[x] = "booting"
      BY <1>4 DEF BootRead, TypeOK
    <2> QED BY <2>1, <2>2, ReplicaSettled DEF Covers
  <1>5. CASE BootSync(r)
    <2>1. UNCHANGED <<row, subscribed, req>> /\ (~muddled' => ~muddled /\ row = booted[r])
      BY <1>5 DEF BootSync
    <2> SUFFICES ASSUME ~muddled' PROVE SettledInv'
      BY DEF SettledInv
    <2>2. row.settings \in Settings /\ closures[r] \in [Closures -> Settings \cup {None}]
      BY <1>5, <2>1 DEF BootSync, HasSettings, TypeOK
    <2>3. /\ closures'[r] = Sync(closures[r], row.settings)
          /\ \A x \in Replicas \ {r} : closures'[x] = closures[x] /\ up'[x] = up[x]
      BY <1>5, <2>1 DEF BootSync, TypeOK
    <2>4. ASSUME Sound(row.settings) PROVE \A x \in Replicas : Covers(x) => Covers(x)'
      <3>1. Has(closures'[r], row.settings)
        BY <2>2, <2>3, <2>4, SyncHas
      <3> QED BY <2>1, <2>3, <3>1 DEF Covers
    <2> QED BY <2>1, <2>4, ReplicaSettled
  <1>6. CASE BootFails(r)
    <2>1. UNCHANGED <<row, subscribed, req>> /\ (~muddled' => ~muddled /\ ~Enabled)
      BY <1>6 DEF BootFails, Enabled
    <2> QED BY <2>1, ReplicaSettled
  <1> QED BY <1>1, <1>2, <1>3, <1>4, <1>5, <1>6 DEF JobStep, BootStep

(* A request begins. *)
LEMMA CreateSettled ==
    ASSUME TypeOK, SettledInv, NEW q \in Requests, NEW r \in Replicas,
           NEW status \in {"enabled", "disabled"}, NEW s \in Settings, Create(q, r, status, s)
    PROVE  SettledInv'
  <1> SUFFICES ASSUME ~muddled' PROVE OneRequest' /\ ProviderKnows' /\ (AtRest' => Agrees')
    BY DEF SettledInv
  <1>1. /\ row.status = "absent" /\ row' = Binding(status, s) /\ OneRequest /\ (AtRest => Agrees)
        /\ UNCHANGED subscribed
    BY DEF Create, Write, SettledInv
  <1>2. \A p \in Requests : req[p].at = "idle"
    BY <1>1 DEF OneRequest, Exists
  <1>3. ~subscribed
    BY <1>1, <1>2 DEF AtRest, Agrees, Enabled
  <1>4. row'.status = status
    BY <1>1 DEF Binding
  <1>5. CASE status = "enabled"
    <2>1. req' = [req EXCEPT ![q] = [at |-> "hook", on |-> r, binding |-> Binding(status, s)]]
      BY <1>5 DEF Create
    <2>2. /\ req'[q].at = "hook" /\ req'[q].on = r /\ req'[q].binding = row'
          /\ \A p \in Requests \ {q} : req'[p].at = "idle"
      BY <1>1, <1>2, <2>1 DEF TypeOK
    <2> QED BY <1>4, <1>5, <2>2 DEF OneRequest, ProviderKnows, AtRest, Exists
  <1>6. CASE status = "disabled"
    <2>1. \A p \in Requests : req'[p].at = "idle"
      BY <1>2, <1>6 DEF Create
    <2> QED BY <1>1, <1>3, <1>4, <1>6, <2>1 DEF OneRequest, ProviderKnows, Agrees, Enabled
  <1> QED BY <1>5, <1>6

LEMMA ReadSettled ==
    ASSUME TypeOK, SettledInv, NEW q \in Requests, NEW r \in Replicas, Read(q, r)
    PROVE  SettledInv'
  <1> SUFFICES ASSUME ~muddled' PROVE OneRequest' /\ ProviderKnows' /\ (AtRest' => Agrees')
    BY DEF SettledInv
  <1>1. /\ Exists /\ ~Busy(q) /\ req[q].at = "idle" /\ (AtRest => Agrees)
        /\ req' = [req EXCEPT ![q] = [at |-> "read", on |-> r, binding |-> row]]
        /\ UNCHANGED <<row, subscribed, closures, up>>
    BY DEF Read, SettledInv
  <1>2. \A p \in Requests : req[p].at = "idle"
    BY <1>1 DEF Busy
  <1>3. /\ req'[q].at = "read" /\ req'[q].on = r /\ req'[q].binding = row
        /\ \A p \in Requests \ {q} : req'[p].at = "idle"
    BY <1>1, <1>2 DEF TypeOK
  <1>4. Agrees'
    BY <1>1, <1>2 DEF AtRest, Agrees, Enabled, Covers
  <1> QED BY <1>1, <1>3, <1>4 DEF OneRequest, ProviderKnows, Exists

(* A request steps, alone. *)
LEMMA RequestStepSettled ==
    ASSUME TypeOK, HasSettings, SettledInv, NEW q \in Requests, RequestStep(q) \/ HookFails(q)
    PROVE  SettledInv'
  <1> SUFFICES ASSUME ~muddled' PROVE OneRequest' /\ ProviderKnows' /\ (AtRest' => Agrees')
    BY DEF SettledInv
  <1>1. ~muddled /\ ~HookFails(q)
    BY DEF RequestStep, Save, Hook, Schedule, DeleteUnsync, DeleteHook, Remove, HookFails
  <1>2. req[q].at # "idle"
    BY <1>1 DEF RequestStep, Save, Hook, Schedule, DeleteUnsync, DeleteHook, Remove
  <1>3. OneRequest /\ ProviderKnows /\ (AtRest => Agrees)
    BY <1>1 DEF SettledInv
  <1>4. /\ Exists /\ req[q].binding = row /\ req[q].on \in Replicas /\ row.settings \in Settings
        /\ \A p \in Requests \ {q} : req[p].at = "idle"
    BY <1>2, <1>3 DEF OneRequest, HasSettings
  <1>5. req[q].at = "read" => AtRest
    BY <1>4 DEF AtRest
  (* The request goes on. *)
  <1>6. ASSUME NEW at, at \notin {"idle", "read"}, req'[q].at = at, req'[q].on = req[q].on,
               req'[q].binding = row', Exists', \A p \in Requests \ {q} : req'[p] = req[p],
               at = "sync" => (subscribed' <=> Enabled'), at = "unhooked" => ~subscribed'
        PROVE  OneRequest' /\ ProviderKnows' /\ (AtRest' => Agrees')
    <2>1. OneRequest' /\ ~AtRest'
      BY <1>4, <1>6 DEF OneRequest, AtRest
    <2>2. ProviderKnows'
      BY <1>4, <1>6 DEF ProviderKnows
    <2> QED BY <2>1, <2>2
  (* Or it ends. *)
  <1>7. ASSUME req' = [req EXCEPT ![q] = NoRequest], Agrees'
        PROVE  OneRequest' /\ ProviderKnows' /\ (AtRest' => Agrees')
    <2>1. \A p \in Requests : req'[p].at = "idle"
      BY <1>4, <1>7 DEF TypeOK, NoRequest
    <2> QED BY <1>7, <2>1 DEF OneRequest, ProviderKnows
  <1>8. ASSUME NEW status \in {"enabled", "disabled"}, NEW s \in Settings, Save(q, status, s)
        PROVE  OneRequest' /\ ProviderKnows' /\ (AtRest' => Agrees')
    <2>1. /\ req[q].at = "read" /\ row' = Binding(status, s) /\ UNCHANGED <<subscribed, closures, up>>
      BY <1>8 DEF Save, Write
    <2>2. row'.status = status /\ row'.settings = s
      BY <2>1 DEF Binding
    <2>3. CASE status # row.status
      <3>1. req' = [req EXCEPT ![q].at = "hook", ![q].binding = Binding(status, s)]
        BY <1>4, <1>8, <2>3 DEF Save
      <3>2. /\ req'[q].at = "hook" /\ req'[q].on = req[q].on /\ req'[q].binding = row'
            /\ \A p \in Requests \ {q} : req'[p] = req[p]
        BY <2>1, <3>1 DEF TypeOK
      <3> QED BY <1>6, <2>2, <3>2 DEF Exists
    <2>4. CASE status = row.status
      <3>1. req' = [req EXCEPT ![q] = NoRequest] /\ ~(status = "enabled" /\ s # row.settings)
        BY <1>4, <1>8, <2>4 DEF Save, Close
      <3>2. Agrees
        BY <1>3, <1>5, <2>1
      <3>3. Enabled' <=> Enabled
        BY <2>2, <2>4 DEF Enabled
      <3>4. Enabled => row'.settings = row.settings
        BY <2>2, <2>4, <3>1 DEF Enabled
      <3>5. Agrees'
        BY <2>1, <3>2, <3>3, <3>4 DEF Agrees, Covers
      <3> QED BY <1>7, <3>1, <3>5
    <2> QED BY <2>3, <2>4
  <1>9. CASE Hook(q)
    <2>1. /\ req' = [req EXCEPT ![q].at = "sync"] /\ UNCHANGED row /\ (subscribed' <=> Enabled)
      BY <1>4, <1>9 DEF Hook, Goes, Enabled
    <2>2. /\ req'[q].at = "sync" /\ req'[q].on = req[q].on /\ req'[q].binding = req[q].binding
          /\ \A p \in Requests \ {q} : req'[p] = req[p]
      BY <2>1 DEF TypeOK
    <2> QED BY <1>4, <1>6, <2>1, <2>2 DEF Exists, Enabled
  <1>10. CASE Schedule(q)
    <2>1. /\ req[q].at = "sync" /\ req' = [req EXCEPT ![q] = NoRequest] /\ UNCHANGED <<row, subscribed, up>>
          /\ closures' = [closures EXCEPT ![req[q].on] =
                             IF Enabled THEN Sync(closures[req[q].on], row.settings) ELSE NoClosures]
      BY <1>4, <1>10 DEF Schedule, Close, Enabled
    <2>2. PICK r \in Replicas : r = req[q].on
      BY <1>4
    <2>3. closures[r] \in [Closures -> Settings \cup {None}]
      BY DEF TypeOK
    <2>4. Enabled /\ Sound(row.settings) => Has(closures'[r], row.settings)
      BY <1>4, <2>1, <2>2, <2>3, SyncHas DEF TypeOK
    <2>5. subscribed <=> Enabled
      BY <1>3, <2>1 DEF ProviderKnows
    <2>6. Agrees'
      BY <2>1, <2>4, <2>5 DEF Agrees, Covers, Enabled
    <2> QED BY <1>7, <2>1, <2>6
  <1>11. CASE DeleteUnsync(q) \/ DeleteHook(q)
    <2>1. PICK at \in {"unsynced", "unhooked"} : req' = [req EXCEPT ![q].at = at]
                                               /\ (at = "unhooked" => ~subscribed')
      <3>1. CASE DeleteUnsync(q)
        <4>1. Agrees /\ UNCHANGED subscribed
          BY <1>3, <1>5, <3>1 DEF DeleteUnsync
        <4>2. CASE row.status = "enabled"
          BY <1>4, <3>1, <4>2 DEF DeleteUnsync, Goes
        <4>3. CASE row.status # "enabled"
          BY <1>4, <3>1, <4>1, <4>3 DEF DeleteUnsync, Goes, Agrees, Enabled
        <4> QED BY <4>2, <4>3
      <3>2. CASE DeleteHook(q)
        BY <3>2 DEF DeleteHook, Goes
      <3> QED BY <1>11, <3>1, <3>2
    <2>2. UNCHANGED row
      BY <1>11 DEF DeleteUnsync, DeleteHook
    <2>3. /\ req'[q].at = at /\ req'[q].on = req[q].on /\ req'[q].binding = req[q].binding
          /\ \A p \in Requests \ {q} : req'[p] = req[p]
      BY <2>1 DEF TypeOK
    <2> QED BY <1>4, <1>6, <2>1, <2>2, <2>3 DEF Exists
  <1>12. CASE Remove(q)
    <2>1. req' = [req EXCEPT ![q] = NoRequest] /\ ~subscribed' /\ row' = Binding("deleted", None)
      BY <1>3, <1>4, <1>12 DEF Remove, Close, ProviderKnows
    <2>2. Agrees'
      BY <2>1 DEF Agrees, Enabled, Binding
    <2> QED BY <1>7, <2>1, <2>2
  <1> QED BY <1>1, <1>8, <1>9, <1>10, <1>11, <1>12 DEF RequestStep

LEMMA SettledStep == TypeOK /\ HasSettings /\ SettledInv /\ [Next]_vars => SettledInv'
  <1> SUFFICES ASSUME TypeOK, HasSettings, SettledInv, [Next]_vars PROVE SettledInv'
    OBVIOUS
  <1>1. CASE UNCHANGED vars
    BY <1>1, ReplicaSettled DEF vars, Covers
  <1> QED BY <1>1, ReplicaStepSettled, CreateSettled, ReadSettled, RequestStepSettled DEF Next

(* When nothing is under way and nothing went wrong, the provider sends     *)
(* events exactly if the binding is enabled, and an enabled binding whose   *)
(* expressions are valid has its closures on some replica, whatever         *)
(* replicas died and came back.                                             *)
THEOREM SettledWorks == Spec => []SettledBindingWorks
  <1>1. Init => TypeOK /\ HasSettings /\ SettledInv
    BY TypeInit, SettingsInit, SettledInit
  <1>2. TypeOK /\ HasSettings /\ SettledInv /\ [Next]_vars => (TypeOK /\ HasSettings /\ SettledInv)'
    BY TypeStep, SettingsStep, SettledStep
  <1>3. TypeOK /\ SettledInv => SettledBindingWorks
    <2> SUFFICES ASSUME TypeOK, SettledInv, Quiet, ~muddled
                 PROVE  /\ subscribed = Enabled
                        /\ Enabled /\ Sound(row.settings) =>
                              \E r \in Replicas : Has(closures[r], row.settings)
      BY DEF SettledBindingWorks, Has
    <2>1. Agrees
      BY DEF Quiet, SettledInv, AtRest
    <2>2. subscribed = Enabled
      BY <2>1, Zenon DEF Agrees, TypeOK, Enabled
    <2>3. \A r \in Replicas : Covers(r) => Has(closures[r], row.settings)
      BY DEF Quiet, Covers
    <2> QED BY <2>1, <2>2, <2>3 DEF Agrees
  <1> QED BY <1>1, <1>2, <1>3, PTL DEF Spec

===============================================================================
