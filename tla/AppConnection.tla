----------------------------- MODULE AppConnection -----------------------------
(***************************************************************************)
(* One app connection (app-connection-service.ts, app-connection.handler.ts)*)
(* used by several requests: getOne and testConnection refresh its OAuth2  *)
(* token when it is about to expire, under a RedLock; upsert replaces its  *)
(* credentials under another one; delete takes none.                       *)
(*                                                                         *)
(* The provider is external.  An authorisation is a number, the later the  *)
(* greater; the provider rotates its refresh token: each generation can be *)
(* used once, and is answered with the next.                               *)
(***************************************************************************)
EXTENDS Naturals, FiniteSets

CONSTANTS Callers,      \* requests in flight, over all API processes
          None,         \* no caller
          Gone,         \* a caller that crashed while it held a lock
          MaxGrants,    \* bound on authorisations
          MaxGen,       \* bound on refreshes of one authorisation
          MaxFaults     \* bound on crashes, lost locks and lost answers

ASSUME ConstantsAssumption ==
    /\ None \notin Callers /\ Gone \notin Callers \cup {None}
    /\ MaxGrants \in Nat /\ MaxGen \in Nat /\ MaxFaults \in Nat

VARIABLES
    rows,       \* the rows of app_connection for this externalId, by id
    call,       \* the request of each caller
    refreshLock, upsertLock,    \* who holds the two locks
    issued,     \* provider: authorisations so far
    latest,     \* provider: the refresh token of each that is valid
    aged,       \* provider: authorisations whose latest access token is
                \* within the refresh threshold of its end
    revoked,    \* provider: authorisations the user has withdrawn
    deleted,    \* history: the connection has been deleted
    faults      \* faults so far

locks == <<refreshLock, upsertLock>>
provider == <<issued, latest, aged, revoked>>
vars == <<rows, call, locks, provider, deleted, faults>>

Grants == 1 .. MaxGrants

(* A new row's id is fresh: the number of the authorisation it is made for. *)
Ids == Grants

Statuses == {"absent", "active", "error", "missing"}
Values == [status : Statuses, grant : 0 .. MaxGrants, gen : 0 .. MaxGen]
Absent == [status |-> "absent", grant |-> 0, gen |-> 0]

Calls == [pc : {"idle", "waiting", "holding", "asking", "refreshed", "rejected", "marking",
                "queued", "looking", "writing"},
          kind : {"get", "test", "upsert", "placeholder"},
          id : 0 .. MaxGrants,      \* the row it tests
          row : 0 .. MaxGrants,     \* the row it read, and will write
          value : Values,           \* what it read, or will write
          verdict : {"active", "error"}]
Idle == [pc |-> "idle", kind |-> "get", id |-> 0, row |-> 0, value |-> Absent, verdict |-> "active"]

Init ==
    /\ rows = [i \in Ids |-> Absent]
    /\ call = [c \in Callers |-> Idle]
    /\ refreshLock = None
    /\ upsertLock = None
    /\ issued = 0
    /\ latest = [g \in Grants |-> 0]
    /\ aged = {}
    /\ revoked = {}
    /\ deleted = FALSE
    /\ faults = 0

TypeOK ==
    /\ rows \in [Ids -> Values]
    /\ call \in [Callers -> Calls]
    /\ refreshLock \in Callers \cup {None, Gone}
    /\ upsertLock \in Callers \cup {None, Gone}
    /\ issued \in 0 .. MaxGrants
    /\ latest \in [Grants -> 0 .. MaxGen]
    /\ aged \subseteq Grants
    /\ revoked \subseteq Grants
    /\ deleted \in BOOLEAN
    /\ faults \in 0 .. MaxFaults

Present == {i \in Ids : rows[i].status # "absent"}

(* needRefresh: never for a connection in error; a token older than the     *)
(* provider's latest was about to expire when that was issued.              *)
NeedsRefresh(v) ==
    /\ v.status = "active"
    /\ v.grant \in aged \/ v.gen < latest[v.grant]

Fault == faults < MaxFaults /\ faults' = faults + 1

-----------------------------------------------------------------------------
(* The locks.  A holder goes on when Redis loses its lock: the callback is  *)
(* never told.  The lock of a crashed process ends by its time to live.     *)

(* Mutant: the lock is not released. *)
UnlockNever(c) == refreshLock' = refreshLock

Unlock(c) == refreshLock' = IF refreshLock = c THEN None ELSE refreshLock

LoseLock ==
    /\ Fault
    /\ \/ refreshLock \in Callers /\ refreshLock' = None /\ UNCHANGED upsertLock
       \/ upsertLock \in Callers /\ upsertLock' = None /\ UNCHANGED refreshLock
    /\ UNCHANGED <<rows, call, provider, deleted>>

LockExpires ==
    /\ Gone \in {refreshLock, upsertLock}
    /\ refreshLock' = IF refreshLock = Gone THEN None ELSE refreshLock
    /\ upsertLock' = IF upsertLock = Gone THEN None ELSE upsertLock
    /\ UNCHANGED <<rows, call, provider, faults, deleted>>

Crash(c) ==
    /\ call[c].pc # "idle"
    /\ Fault
    /\ call' = [call EXCEPT ![c] = Idle]
    /\ refreshLock' = IF refreshLock = c THEN Gone ELSE refreshLock
    /\ upsertLock' = IF upsertLock = c THEN Gone ELSE upsertLock
    /\ UNCHANGED <<rows, provider, deleted>>

-----------------------------------------------------------------------------
(* decryptAndRefreshConnection, for getOne and for testConnection. *)

(* The request ends; a test still records its verdict. *)
Return(c, verdict) ==
    call' = [call EXCEPT ![c] =
                IF call[c].kind = "test"
                THEN [Idle EXCEPT !.pc = "marking", !.kind = "test",
                                  !.id = call[c].id, !.verdict = verdict]
                ELSE Idle]

(* The row is read; a token that is not about to expire is handed out.      *)
Get(c) ==
    /\ call[c].pc = "idle"
    /\ \E i \in Present :
          /\ NeedsRefresh(rows[i])
          /\ call' = [call EXCEPT ![c].pc = "waiting", ![c].kind = "get"]
    /\ UNCHANGED <<rows, locks, provider, faults, deleted>>

Test(c) ==
    /\ call[c].pc = "idle"
    /\ \E i \in Present :
          call' = [call EXCEPT ![c].pc = IF NeedsRefresh(rows[i]) THEN "waiting" ELSE "marking",
                               ![c].kind = "test", ![c].id = i]
    /\ UNCHANGED <<rows, locks, provider, faults, deleted>>

(* Mutant: RedLock does not exclude. *)
LockRefreshShared(c) ==
    /\ call[c].pc = "waiting"
    /\ call' = [call EXCEPT ![c].pc = "holding"]
    /\ UNCHANGED <<rows, locks, provider, faults, deleted>>

LockRefresh(c) ==
    /\ call[c].pc = "waiting"
    /\ refreshLock = None
    /\ refreshLock' = c
    /\ call' = [call EXCEPT ![c].pc = "holding"]
    /\ UNCHANGED <<rows, upsertLock, provider, faults, deleted>>

(* The lock was held for a minute: runExclusive throws. *)
LockTimesOut(c) ==
    /\ call[c].pc = "waiting"
    /\ refreshLock # None
    /\ Fault
    /\ Return(c, "error")
    /\ UNCHANGED <<rows, locks, provider, deleted>>

(* Under the lock the row is read again, by externalId: it may be gone, or  *)
(* another caller may have refreshed it.                                    *)
Reread(c) ==
    /\ call[c].pc = "holding"
    /\ \/ /\ Present = {}
          /\ Return(c, "error")
          /\ Unlock(c)
       \/ \E i \in Present :
             /\ ~NeedsRefresh(rows[i])
             /\ Return(c, "active")
             /\ Unlock(c)
       \/ \E i \in Present :
             /\ NeedsRefresh(rows[i])
             /\ call' = [call EXCEPT ![c].pc = "asking", ![c].row = i, ![c].value = rows[i]]
             /\ UNCHANGED refreshLock
    /\ UNCHANGED <<rows, upsertLock, provider, faults, deleted>>

(* The token endpoint. *)
Accepts(v) == v.grant \notin revoked /\ v.gen = latest[v.grant]

Rotate(g) ==
    /\ latest' = [latest EXCEPT ![g] = @ + 1]
    /\ aged' = aged \ {g}
    /\ UNCHANGED <<issued, revoked>>

Ask(c) ==
    /\ call[c].pc = "asking"
    /\ \/ /\ Accepts(call[c].value)
          /\ latest[call[c].value.grant] < MaxGen
          /\ Rotate(call[c].value.grant)
          /\ call' = [call EXCEPT ![c].pc = "refreshed", ![c].value.gen = @ + 1]
       \/ /\ ~Accepts(call[c].value)
          /\ call' = [call EXCEPT ![c].pc = "rejected"]
          /\ UNCHANGED provider
    /\ UNCHANGED <<rows, locks, faults, deleted>>

(* No answer, whatever the provider did: not a user error, so the row stays *)
(* as it is and the old token is handed out.                                *)
AskFails(c) ==
    /\ call[c].pc = "asking"
    /\ Fault
    /\ \/ UNCHANGED provider
       \/ /\ Accepts(call[c].value)
          /\ latest[call[c].value.grant] < MaxGen
          /\ Rotate(call[c].value.grant)
    /\ Return(c, "active")
    /\ Unlock(c)
    /\ UNCHANGED <<rows, upsertLock, deleted>>

(* Mutant: only the status is written. *)
SaveStatusOnly(c) ==
    /\ call[c].pc = "refreshed"
    /\ rows' = [rows EXCEPT ![call[c].row].status = IF @ = "absent" THEN @ ELSE "active"]
    /\ Return(c, "active")
    /\ Unlock(c)
    /\ UNCHANGED <<upsertLock, provider, faults, deleted>>

(* The row it read is updated by id, if it is still there. *)
SaveRefreshed(c) ==
    /\ call[c].pc = "refreshed"
    /\ rows' = [rows EXCEPT ![call[c].row] =
                   IF @.status = "absent" THEN @ ELSE [call[c].value EXCEPT !.status = "active"]]
    /\ Return(c, "active")
    /\ Unlock(c)
    /\ UNCHANGED <<upsertLock, provider, faults, deleted>>

(* invalid_grant: the status becomes ERROR, and the connection is returned. *)
SaveRejected(c) ==
    /\ call[c].pc = "rejected"
    /\ rows' = [rows EXCEPT ![call[c].row].status = IF @ = "absent" THEN @ ELSE "error"]
    /\ Return(c, "active")
    /\ Unlock(c)
    /\ UNCHANGED <<upsertLock, provider, faults, deleted>>

(* Mutant: the flag of the reply is written for the status. *)
MarkTestedFlag(c) ==
    /\ call[c].pc = "marking"
    /\ rows' = [rows EXCEPT ![call[c].id].status = IF @ = "absent" THEN @ ELSE "ok"]
    /\ call' = [call EXCEPT ![c] = Idle]
    /\ UNCHANGED <<locks, provider, faults, deleted>>

(* markConnectionTested: an unconditional write of the verdict. *)
MarkTested(c) ==
    /\ call[c].pc = "marking"
    /\ rows' = [rows EXCEPT ![call[c].id].status = IF @ = "absent" THEN @ ELSE call[c].verdict]
    /\ call' = [call EXCEPT ![c] = Idle]
    /\ UNCHANGED <<locks, provider, faults, deleted>>

-----------------------------------------------------------------------------
(* upsert.  A placeholder is skipped if a connection exists that is not one *)
(* itself; this is looked up before the lock.                               *)
Upsert(c) ==
    /\ call[c].pc = "idle"
    /\ issued < MaxGrants
    /\ \E k \in {"upsert", "placeholder"} :
          /\ k = "placeholder" => \A i \in Present : rows[i].status = "missing"
          /\ call' = [call EXCEPT
                         ![c].pc = "queued", ![c].kind = k, ![c].row = issued + 1,
                         ![c].value = [status |-> IF k = "upsert" THEN "active" ELSE "missing",
                                       grant |-> issued + 1, gen |-> 0]]
    /\ issued' = issued + 1
    /\ UNCHANGED <<rows, locks, latest, aged, revoked, faults, deleted>>

(* Mutant: the look-up and the write are not serialised. *)
LockUpsertShared(c) ==
    /\ call[c].pc = "queued"
    /\ call' = [call EXCEPT ![c].pc = "looking"]
    /\ UNCHANGED <<rows, locks, provider, faults, deleted>>

LockUpsert(c) ==
    /\ call[c].pc = "queued"
    /\ upsertLock = None
    /\ upsertLock' = c
    /\ call' = [call EXCEPT ![c].pc = "looking"]
    /\ UNCHANGED <<rows, refreshLock, provider, faults, deleted>>

(* The lock is unavailable: the upsert goes ahead without it. *)
UpsertFailsOpen(c) ==
    /\ call[c].pc = "queued"
    /\ Fault
    /\ call' = [call EXCEPT ![c].pc = "looking"]
    /\ UNCHANGED <<rows, locks, provider, deleted>>

(* The existing row's id is kept, if there is a row. *)
LookUp(c) ==
    /\ call[c].pc = "looking"
    /\ \E i \in IF Present = {} THEN {call[c].row} ELSE Present :
          call' = [call EXCEPT ![c].pc = "writing", ![c].row = i]
    /\ UNCHANGED <<rows, locks, provider, faults, deleted>>

WriteUpsert(c) ==
    /\ call[c].pc = "writing"
    /\ rows' = [rows EXCEPT ![call[c].row] = call[c].value]
    /\ call' = [call EXCEPT ![c] = Idle]
    /\ upsertLock' = IF upsertLock = c THEN None ELSE upsertLock
    /\ UNCHANGED <<refreshLock, provider, faults, deleted>>

(* delete: one statement, no lock. *)
Delete ==
    /\ \E i \in Present : rows' = [rows EXCEPT ![i] = Absent]
    /\ deleted' = TRUE
    /\ UNCHANGED <<call, locks, provider, faults>>

-----------------------------------------------------------------------------
(* The provider, and time. *)
Age(g) ==
    /\ g <= issued /\ g \notin aged
    /\ latest[g] < MaxGen
    /\ aged' = aged \cup {g}
    /\ UNCHANGED <<rows, call, locks, issued, latest, revoked, faults, deleted>>

Revoke(g) ==
    /\ g <= issued /\ g \notin revoked
    /\ revoked' = revoked \cup {g}
    /\ UNCHANGED <<rows, call, locks, issued, latest, aged, faults, deleted>>

-----------------------------------------------------------------------------
RefreshStep(c) ==
    LockRefresh(c) \/ Reread(c) \/ Ask(c) \/ SaveRefreshed(c) \/ SaveRejected(c) \/ MarkTested(c)

UpsertStep(c) == LockUpsert(c) \/ LookUp(c) \/ WriteUpsert(c)

Next ==
    \/ \E c \in Callers :
          \/ Get(c) \/ Test(c) \/ RefreshStep(c) \/ LockTimesOut(c) \/ AskFails(c)
          \/ Upsert(c) \/ UpsertStep(c) \/ UpsertFailsOpen(c)
          \/ Crash(c)
    \/ Delete \/ LoseLock \/ LockExpires
    \/ \E g \in Grants : Age(g) \/ Revoke(g)

Spec == Init /\ [][Next]_vars

(* Calls to the database and the provider end, the provider answering or    *)
(* not; locks of crashed processes expire; RedLock's retries let a waiting  *)
(* caller in if the lock is free again and again.                           *)
FairSpec ==
    /\ Spec
    /\ WF_vars(LockExpires)
    /\ \A c \in Callers :
          /\ SF_vars(LockRefresh(c)) /\ SF_vars(LockUpsert(c))
          /\ WF_vars(Reread(c)) /\ WF_vars(Ask(c)) /\ WF_vars(SaveRefreshed(c))
          /\ WF_vars(SaveRejected(c)) /\ WF_vars(MarkTested(c))
          /\ WF_vars(LookUp(c)) /\ WF_vars(WriteUpsert(c))

-----------------------------------------------------------------------------
(* Overlapping upserts leave one row: the table has no unique index for it. *)
(* Only if the lock was unavailable or lost can there be two.               *)
OneRowPerConnection == faults = 0 => Cardinality(Present) <= 1

(* Whenever no refresh is under way, the refresh token in the row is the    *)
(* one the provider accepts next.  An answer that never reached the row, in *)
(* a crash or on the way, is the only way to lose it.                       *)
StoredTokenIsCurrent ==
    (faults = 0 /\ refreshLock = None)
    => \A i \in Present : rows[i].gen = latest[rows[i].grant]

(* A connection is in error only after the user withdrew an authorisation,  *)
(* something failed, or it was deleted under a test: two refreshes at once  *)
(* never spend each other's token.                                          *)
ErrorIsEarned ==
    (\E i \in Present : rows[i].status = "error") => revoked # {} \/ deleted \/ faults > 0

(* Every request is answered, although crashed ones held its lock. *)
EveryCallReturns == \A c \in Callers : call[c].pc # "idle" ~> call[c].pc = "idle"

(* The handler's comment has the lock keep a refresh from saving incorrect  *)
(* data: the credentials of a row are replaced by an upsert only, so once a *)
(* user has authorised again, an older authorisation never comes back.      *)
ReauthorizationKept ==
    [][\A i \in Ids :
          (rows[i].status = "active" /\ rows'[i].status = "active"
             /\ rows'[i].grant # rows[i].grant)
          => \E c \in Callers : call[c].pc = "writing" /\ call'[c].pc = "idle"]_vars
===============================================================================
