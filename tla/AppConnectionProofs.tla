-------------------------- MODULE AppConnectionProofs --------------------------
(***************************************************************************)
(* Proofs about app connections, for any number of callers, authorisations,*)
(* refreshes and faults.                                                   *)
(***************************************************************************)
EXTENDS AppConnection, FiniteSetTheorems, TLAPS

USE ConstantsAssumption DEF ConstantsAssumption

-----------------------------------------------------------------------------
(* The inductive invariant.  The stages of a call: with the refresh lock,   *)
(* having read a row to refresh it, and on the way to an upsert.            *)
Asked == {"asking", "refreshed", "rejected"}
Locked == {"holding"} \cup Asked
Upserting == {"queued", "looking", "writing"}

(* Rows and calls are about authorisations that were issued. *)
Grounded ==
    /\ \A i \in Present : rows[i].grant \in 1 .. issued
    /\ \A c \in Callers : call[c].pc \in Asked \cup Upserting =>
          call[c].row \in Ids /\ call[c].value.grant \in 1 .. issued
    /\ \A c \in Callers : call[c].pc \in Upserting =>
          call[c].value.status \in {"active", "missing"} /\ call[c].value.gen = 0
    /\ \A c \in Callers : call[c].pc \in Asked => call[c].value.status = "active"

(* The authorisation of an upsert that is under way is its own: no row, no  *)
(* refresh and no other upsert has it, and it was never refreshed.          *)
Fresh ==
    /\ \A g \in Grants : g > issued => latest[g] = 0
    /\ \A c \in Callers : call[c].pc \in Upserting =>
          /\ latest[call[c].value.grant] = 0
          /\ \A i \in Present : rows[i].grant # call[c].value.grant
          /\ \A d \in Callers \ {c} : call[d].pc \in Asked \cup Upserting =>
                call[d].value.grant # call[c].value.grant

(* Without a fault the locks exclude, *)
LocksHeld ==
    faults = 0 => \A c \in Callers :
        /\ call[c].pc \in Locked => refreshLock = c
        /\ call[c].pc \in {"looking", "writing"} => upsertLock = c

(* so that there is one row, which whoever writes has found, *)
OneRow ==
    faults = 0 =>
        /\ \A i, j \in Present : i = j
        /\ \A c \in Callers : call[c].pc = "writing" => Present \subseteq {call[c].row}

(* and a refresh is of that row, unless an upsert has replaced it; it has   *)
(* the token that the provider accepts next, and the row has it when there  *)
(* is no refresh that has been answered and not saved.                      *)
TokensCurrent ==
    faults = 0 =>
        /\ \A c \in Callers : call[c].pc \in Asked =>
              /\ call[c].value.gen = latest[call[c].value.grant]
              /\ \A i \in Present : rows[i].grant = call[c].value.grant => call[c].row = i
        /\ \A i \in Present :
              \/ rows[i].gen = latest[rows[i].grant]
              \/ \E c \in Callers : /\ call[c].pc = "refreshed"
                                    /\ call[c].row = i /\ call[c].value.grant = rows[i].grant

(* While nothing is withdrawn, deleted or wrong, there is no error anywhere,*)
(* and a request that found the row will find it again.                     *)
NoError ==
    (faults = 0 /\ revoked = {} /\ ~deleted) =>
        /\ \A i \in Present : rows[i].status # "error"
        /\ \A c \in Callers :
              /\ call[c].pc # "rejected"
              /\ call[c].pc \in {"idle", "marking"} => call[c].verdict = "active"
              /\ call[c].pc \in {"waiting", "holding"} => Present # {}

IInv == Grounded /\ Fresh /\ LocksHeld /\ OneRow /\ TokensCurrent /\ NoError

-----------------------------------------------------------------------------
(* What a step does to the calls. *)

LEMMA Moved ==
    ASSUME TypeOK, NEW c \in Callers, NEW e \in Calls, call' = [call EXCEPT ![c] = e]
    PROVE  /\ call' \in [Callers -> Calls]
           /\ call'[c] = e
           /\ \A d \in Callers \ {c} : call'[d] = call[d]
  <1>1. call \in [Callers -> Calls]
    BY DEF TypeOK
  <1> QED BY <1>1, Zenon

LEMMA IdleType == Idle \in Calls /\ Absent \in Values
  <1>1. Absent \in Values
    BY DEF Absent, Values, Statuses
  <1> QED BY <1>1 DEF Idle, Calls

LEMMA ReturnEntry ==
    ASSUME TypeOK, NEW c \in Callers, NEW verdict \in {"active", "error"}, Return(c, verdict)
    PROVE  /\ call' \in [Callers -> Calls]
           /\ call'[c].pc \in {"idle", "marking"}
           /\ call'[c].pc = "marking" => call'[c].verdict = verdict
           /\ call'[c].pc = "idle" => call'[c].verdict = "active"
           /\ \A d \in Callers \ {c} : call'[d] = call[d]
  <1> DEFINE t == [Idle EXCEPT !.pc = "marking", !.kind = "test",
                               !.id = call[c].id, !.verdict = verdict]
             e == IF call[c].kind = "test" THEN t ELSE Idle
  <1>1. call[c].id \in 0 .. MaxGrants
    BY DEF TypeOK, Calls
  <1>2. t \in Calls
    BY <1>1, IdleType, Zenon DEF Calls
  <1>3. t.pc = "marking" /\ t.verdict = verdict
    BY IdleType DEF Calls
  <1>4. Idle.pc = "idle" /\ Idle.verdict = "active"
    BY DEF Idle
  <1>5. call' = [call EXCEPT ![c] = e]
    BY DEF Return
  <1> HIDE DEF t
  <1>6. /\ e \in Calls /\ e.pc \in {"idle", "marking"}
        /\ e.pc = "marking" => e.verdict = verdict
        /\ e.pc = "idle" => e.verdict = "active"
    BY <1>2, <1>3, <1>4, IdleType
  <1> HIDE DEF e
  <1> QED BY <1>5, <1>6, Moved

LEMMA PcEntry ==
    ASSUME TypeOK, NEW c \in Callers,
           NEW p \in {"idle", "waiting", "holding", "asking", "refreshed", "rejected", "marking",
                      "queued", "looking", "writing"},
           call' = [call EXCEPT ![c].pc = p]
    PROVE  /\ call' \in [Callers -> Calls]
           /\ call'[c].pc = p
           /\ call'[c].row = call[c].row /\ call'[c].value = call[c].value
           /\ call'[c].verdict = call[c].verdict
           /\ \A d \in Callers \ {c} : call'[d] = call[d]
  <1> DEFINE e == [call[c] EXCEPT !.pc = p]
  <1>1. call[c] \in Calls
    BY DEF TypeOK
  <1>2. e \in Calls
    BY <1>1, Zenon DEF Calls
  <1>3. /\ e.pc = p /\ e.row = call[c].row /\ e.value = call[c].value
        /\ e.verdict = call[c].verdict
    BY <1>1 DEF Calls
  <1>4. call' = [call EXCEPT ![c] = e]
    OBVIOUS
  <1> HIDE DEF e
  <1> QED BY <1>2, <1>3, <1>4, Moved

LEMMA RowEntry ==
    ASSUME TypeOK, NEW c \in Callers, NEW i \in 0 .. MaxGrants,
           call' = [call EXCEPT ![c].pc = "writing", ![c].row = i]
    PROVE  /\ call' \in [Callers -> Calls]
           /\ call'[c].pc = "writing"
           /\ call'[c].row = i /\ call'[c].value = call[c].value
           /\ \A d \in Callers \ {c} : call'[d] = call[d]
  <1> DEFINE e == [call[c] EXCEPT !.pc = "writing", !.row = i]
  <1>1. call[c] \in Calls
    BY DEF TypeOK
  <1>2. e \in Calls
    <2>1. call[c].value \in Values
      BY <1>1 DEF Calls
    <2> QED BY <1>1, <2>1, Zenon DEF Calls
  <1>3. e.pc = "writing" /\ e.row = i /\ e.value = call[c].value
    BY <1>1 DEF Calls
  <1>4. call' = [call EXCEPT ![c] = e]
    OBVIOUS
  <1> HIDE DEF e
  <1> QED BY <1>2, <1>3, <1>4, Moved

(* A request to use the connection: it has found a row. *)
LEMMA UseEntry ==
    ASSUME TypeOK, NEW c \in Callers, Get(c) \/ Test(c)
    PROVE  /\ call' \in [Callers -> Calls]
           /\ call[c].pc = "idle" /\ call'[c].pc \in {"waiting", "marking"}
           /\ call'[c].verdict = call[c].verdict
           /\ \A d \in Callers \ {c} : call'[d] = call[d]
           /\ Present # {}
           /\ UNCHANGED <<rows, locks, provider, faults, deleted>>
  <1>1. call[c] \in Calls
    BY DEF TypeOK
  <1>2. call[c].value \in Values
    BY <1>1 DEF Calls
  <1>3. CASE Get(c)
    <2> DEFINE e == [call[c] EXCEPT !.pc = "waiting", !.kind = "get"]
    <2>1. e \in Calls
      <3>1. call[c].id \in 0 .. MaxGrants
        BY <1>1 DEF Calls
      <3> QED BY <1>1, <1>2, <3>1, Zenon DEF Calls
    <2>2. e.pc = "waiting" /\ e.verdict = call[c].verdict
      BY <1>1 DEF Calls
    <2>3. call' = [call EXCEPT ![c] = e]
      BY <1>3 DEF Get
    <2> HIDE DEF e
    <2>4. /\ call' \in [Callers -> Calls] /\ call'[c] = e
          /\ \A d \in Callers \ {c} : call'[d] = call[d]
      BY <2>1, <2>3, Moved
    <2> QED BY <1>3, <2>2, <2>4 DEF Get
  <1>4. CASE Test(c)
    <2>1. PICK i \in Present :
              call' = [call EXCEPT ![c].pc = IF NeedsRefresh(rows[i]) THEN "waiting" ELSE "marking",
                                   ![c].kind = "test", ![c].id = i]
      BY <1>4 DEF Test
    <2>2. PICK p \in {"waiting", "marking"} :
              p = IF NeedsRefresh(rows[i]) THEN "waiting" ELSE "marking"
      OBVIOUS
    <2> DEFINE e == [call[c] EXCEPT !.pc = p, !.kind = "test", !.id = i]
    <2>3. e \in Calls
      <3>1. i \in 0 .. MaxGrants
        BY DEF Present, Ids, Grants
      <3> QED BY <1>1, <1>2, <3>1, Zenon DEF Calls
    <2>4. e.pc = p /\ e.verdict = call[c].verdict
      BY <1>1 DEF Calls
    <2>5. call' = [call EXCEPT ![c] = e]
      BY <2>1, <2>2
    <2> HIDE DEF e
    <2>6. /\ call' \in [Callers -> Calls] /\ call'[c] = e
          /\ \A d \in Callers \ {c} : call'[d] = call[d]
      BY <2>3, <2>5, Moved
    <2> QED BY <1>4, <2>1, <2>2, <2>4, <2>6 DEF Test
  <1> QED BY <1>3, <1>4

(* A refresh: it has read a row whose token is to be refreshed. *)
LEMMA ReadEntry ==
    ASSUME TypeOK, NEW c \in Callers, NEW i \in Present,
           call' = [call EXCEPT ![c].pc = "asking", ![c].row = i, ![c].value = rows[i]]
    PROVE  /\ call' \in [Callers -> Calls]
           /\ call'[c].pc = "asking" /\ call'[c].row = i /\ call'[c].value = rows[i]
           /\ \A d \in Callers \ {c} : call'[d] = call[d]
  <1> DEFINE e == [call[c] EXCEPT !.pc = "asking", !.row = i, !.value = rows[i]]
  <1>1. call[c] \in Calls /\ i \in 0 .. MaxGrants /\ rows[i] \in Values
    BY DEF TypeOK, Present, Ids, Grants
  <1>2. e \in Calls
    BY <1>1, Zenon DEF Calls
  <1>3. e.pc = "asking" /\ e.row = i /\ e.value = rows[i]
    BY <1>1 DEF Calls
  <1>4. call' = [call EXCEPT ![c] = e]
    OBVIOUS
  <1> HIDE DEF e
  <1> QED BY <1>2, <1>3, <1>4, Moved

(* A refresh that was answered: it has the next token. *)
LEMMA AnswerEntry ==
    ASSUME TypeOK, NEW c \in Callers,
           Accepts(call[c].value), latest[call[c].value.grant] < MaxGen,
           call' = [call EXCEPT ![c].pc = "refreshed", ![c].value.gen = @ + 1]
    PROVE  /\ call' \in [Callers -> Calls]
           /\ call'[c].pc = "refreshed" /\ call'[c].row = call[c].row
           /\ call'[c].value.status = call[c].value.status
           /\ call'[c].value.grant = call[c].value.grant
           /\ call'[c].value.gen = call[c].value.gen + 1
           /\ \A d \in Callers \ {c} : call'[d] = call[d]
  <1> DEFINE v == [call[c].value EXCEPT !.gen = @ + 1]
             e == [call[c] EXCEPT !.pc = "refreshed", !.value = v]
  <1>1. call[c] \in Calls /\ call[c].value \in Values /\ call[c].id \in 0 .. MaxGrants
    BY DEF TypeOK, Calls
  <1>2. call[c].value.gen + 1 \in 0 .. MaxGen
    BY <1>1 DEF Accepts, Values
  <1>3. v \in Values
    BY <1>1, <1>2 DEF Values
  <1>4. /\ v.status = call[c].value.status /\ v.grant = call[c].value.grant
        /\ v.gen = call[c].value.gen + 1
    BY <1>1 DEF Values
  <1>5. call' = [call EXCEPT ![c] = e]
    BY <1>1, Zenon DEF Calls
  <1> HIDE DEF v
  <1>6. e \in Calls
    BY <1>1, <1>3, Zenon DEF Calls
  <1>7. e.pc = "refreshed" /\ e.row = call[c].row /\ e.value = v
    BY <1>1 DEF Calls
  <1> HIDE DEF e
  <1> QED BY <1>4, <1>5, <1>6, <1>7, Moved

(* An upsert: its authorisation is a new one. *)
LEMMA UpsertEntry ==
    ASSUME TypeOK, NEW c \in Callers, Upsert(c)
    PROVE  /\ call' \in [Callers -> Calls]
           /\ call'[c].pc = "queued" /\ call'[c].row = issued + 1
           /\ call'[c].value.status \in {"active", "missing"}
           /\ call'[c].value.grant = issued + 1 /\ call'[c].value.gen = 0
           /\ \A d \in Callers \ {c} : call'[d] = call[d]
           /\ issued' = issued + 1 /\ issued < MaxGrants
  <1>1. PICK k \in {"upsert", "placeholder"} :
            call' = [call EXCEPT
                         ![c].pc = "queued", ![c].kind = k, ![c].row = issued + 1,
                         ![c].value = [status |-> IF k = "upsert" THEN "active" ELSE "missing",
                                       grant |-> issued + 1, gen |-> 0]]
    BY DEF Upsert
  <1> DEFINE v == [status |-> IF k = "upsert" THEN "active" ELSE "missing",
                   grant |-> issued + 1, gen |-> 0]
             e == [call[c] EXCEPT !.pc = "queued", !.kind = k, !.row = issued + 1, !.value = v]
  <1>2. issued' = issued + 1 /\ issued < MaxGrants /\ issued + 1 \in 0 .. MaxGrants
    BY DEF Upsert, TypeOK
  <1>3. /\ v \in Values
        /\ v.status \in {"active", "missing"} /\ v.grant = issued + 1 /\ v.gen = 0
    BY <1>2 DEF Values, Statuses
  <1>4. call' = [call EXCEPT ![c] = e]
    BY <1>1
  <1>5. call[c] \in Calls
    BY DEF TypeOK
  <1> HIDE DEF v
  <1>6. e \in Calls
    BY <1>2, <1>3, <1>5, ZenonT(30) DEF Calls
  <1>7. e.pc = "queued" /\ e.row = issued + 1 /\ e.value = v
    BY <1>5 DEF Calls
  <1> HIDE DEF e
  <1> QED BY <1>2, <1>3, <1>4, <1>6, <1>7, Moved

-----------------------------------------------------------------------------
(* What a step does to the rows. *)

(* An update of the row k, if there is one. *)
LEMMA RowsUpdated ==
    ASSUME TypeOK, NEW k, NEW v \in Values, v.status # "absent",
           rows' = [rows EXCEPT ![k] = IF @.status = "absent" THEN @ ELSE v]
    PROVE  /\ rows' \in [Ids -> Values]
           /\ Present' = Present
           /\ \A i \in Present : /\ i = k => rows'[i] = v
                                 /\ i # k => rows'[i] = rows[i]
  <1>1. rows \in [Ids -> Values]
    BY DEF TypeOK
  <1>2. rows' = [i \in Ids |-> IF i = k /\ rows[i].status # "absent" THEN v ELSE rows[i]]
    BY <1>1, Zenon
  <1>3. rows' \in [Ids -> Values]
    BY <1>1, <1>2
  <1>4. \A i \in Ids : rows'[i].status = "absent" <=> rows[i].status = "absent"
    BY <1>2
  <1> QED BY <1>2, <1>3, <1>4 DEF Present

LEMMA StatusUpdated ==
    ASSUME TypeOK, NEW k, NEW status \in {"active", "error"},
           rows' = [rows EXCEPT ![k].status = IF @ = "absent" THEN @ ELSE status]
    PROVE  /\ rows' \in [Ids -> Values]
           /\ Present' = Present
           /\ \A i \in Present : /\ rows'[i].grant = rows[i].grant
                                 /\ rows'[i].gen = rows[i].gen
                                 /\ rows'[i].status \in {rows[i].status, status}
  <1> DEFINE f(i) == [rows[i] EXCEPT !.status = status]
  <1>1. rows \in [Ids -> Values]
    BY DEF TypeOK
  <1>2. ASSUME NEW i \in Ids
        PROVE  /\ f(i) \in Values /\ f(i).status = status
               /\ f(i).grant = rows[i].grant /\ f(i).gen = rows[i].gen
    BY <1>1 DEF Values, Statuses
  <1>3. ASSUME NEW i \in Ids
        PROVE  rows'[i] = IF i = k /\ rows[i].status # "absent" THEN f(i) ELSE rows[i]
    <2>1. rows[i] = [rows[i] EXCEPT !.status = rows[i].status]
      BY <1>1, Zenon DEF Values
    <2> QED BY <1>1, <2>1, Zenon
  <1>4. DOMAIN rows' = Ids /\ rows' = [i \in Ids |-> rows'[i]]
    BY <1>1, Zenon
  <1> HIDE DEF f
  <1>5. rows' \in [Ids -> Values]
    <2>1. \A i \in Ids : rows'[i] \in Values
      BY <1>1, <1>2, <1>3
    <2> QED BY <1>4, <2>1
  <1>6. \A i \in Ids : rows'[i].status = "absent" <=> rows[i].status = "absent"
    BY <1>2, <1>3
  <1> QED BY <1>2, <1>3, <1>5, <1>6 DEF Present

-----------------------------------------------------------------------------
(* Type correctness. *)

LEMMA TypeInit == Init => TypeOK
  <1> SUFFICES ASSUME Init PROVE TypeOK
    OBVIOUS
  <1>1. rows \in [Ids -> Values] /\ call \in [Callers -> Calls]
    BY IdleType DEF Init
  <1>2. latest \in [Grants -> 0 .. MaxGen]
    BY DEF Init
  <1>3. deleted \in BOOLEAN
    BY Zenon DEF Init
  <1>4. /\ refreshLock \in {None} /\ upsertLock \in {None}
        /\ issued \in 0 .. MaxGrants /\ faults \in 0 .. MaxFaults
        /\ aged \subseteq Grants /\ revoked \subseteq Grants
    BY DEF Init
  <1> QED BY <1>1, <1>2, <1>3, <1>4 DEF TypeOK

LEMMA RefreshType ==
    ASSUME TypeOK, NEW c \in Callers,
           Get(c) \/ Test(c) \/ RefreshStep(c) \/ LockTimesOut(c) \/ AskFails(c)
    PROVE  TypeOK'
  <1>0. call[c] \in Calls /\ call[c].value \in Values /\ call[c].verdict \in {"active", "error"}
    BY DEF TypeOK, Calls
  <1>1. CASE Get(c) \/ Test(c)
    BY <1>1, UseEntry DEF TypeOK, locks, provider
  <1>2. CASE LockRefresh(c)
    BY <1>2, PcEntry DEF LockRefresh, TypeOK, provider
  <1>3. CASE Reread(c)
    <2>1. call' \in [Callers -> Calls]
      BY <1>3, ReturnEntry, ReadEntry DEF Reread
    <2>2. refreshLock' \in Callers \cup {None, Gone}
      BY <1>3 DEF Reread, Unlock, TypeOK
    <2> QED BY <1>3, <2>1, <2>2 DEF Reread, TypeOK, provider
  <1>4. ASSUME Accepts(call[c].value), latest[call[c].value.grant] < MaxGen,
               Rotate(call[c].value.grant)
        PROVE  /\ latest' \in [Grants -> 0 .. MaxGen]
               /\ aged' \subseteq Grants /\ revoked' = revoked /\ issued' = issued
    <2>1. latest' = [latest EXCEPT ![call[c].value.grant] = @ + 1]
      BY <1>4 DEF Rotate
    <2>2. latest \in [Grants -> 0 .. MaxGen]
      BY DEF TypeOK
    <2>3. call[c].value.grant \in Grants =>
              latest[call[c].value.grant] + 1 \in 0 .. MaxGen
      BY <1>4, <2>2
    <2>4. latest' \in [Grants -> 0 .. MaxGen]
      BY <2>1, <2>2, <2>3
    <2> QED BY <1>4, <2>4 DEF Rotate, TypeOK
  <1>5. CASE Ask(c)
    <2>1. call' \in [Callers -> Calls]
      BY <1>5, AnswerEntry, PcEntry DEF Ask
    <2>2. /\ latest' \in [Grants -> 0 .. MaxGen]
          /\ aged' \subseteq Grants /\ revoked' = revoked /\ issued' = issued
      BY <1>4, <1>5 DEF Ask, TypeOK, provider
    <2> QED BY <1>5, <2>1, <2>2 DEF Ask, TypeOK, locks
  <1>6. CASE AskFails(c)
    <2>1. call' \in [Callers -> Calls]
      BY <1>6, ReturnEntry DEF AskFails
    <2>2. /\ latest' \in [Grants -> 0 .. MaxGen]
          /\ aged' \subseteq Grants /\ revoked' = revoked /\ issued' = issued
      BY <1>4, <1>6 DEF AskFails, TypeOK, provider
    <2>3. refreshLock' \in Callers \cup {None, Gone} /\ faults' \in 0 .. MaxFaults
      BY <1>6 DEF AskFails, Unlock, Fault, TypeOK
    <2> QED BY <1>6, <2>1, <2>2, <2>3 DEF AskFails, TypeOK
  <1>7. CASE SaveRefreshed(c)
    <2> DEFINE v == [call[c].value EXCEPT !.status = "active"]
    <2>1. v \in Values /\ v.status # "absent"
      BY <1>0 DEF Values, Statuses
    <2>2. rows' = [rows EXCEPT ![call[c].row] = IF @.status = "absent" THEN @ ELSE v]
      BY <1>7 DEF SaveRefreshed
    <2> HIDE DEF v
    <2>3. rows' \in [Ids -> Values]
      BY <2>1, <2>2, RowsUpdated
    <2>4. call' \in [Callers -> Calls]
      BY <1>7, ReturnEntry DEF SaveRefreshed
    <2>5. refreshLock' \in Callers \cup {None, Gone}
      BY <1>7 DEF SaveRefreshed, Unlock, TypeOK
    <2> QED BY <1>7, <2>3, <2>4, <2>5 DEF SaveRefreshed, TypeOK, provider
  <1>8. CASE SaveRejected(c)
    <2>1. rows' \in [Ids -> Values]
      BY <1>8, StatusUpdated DEF SaveRejected
    <2>2. call' \in [Callers -> Calls]
      BY <1>8, ReturnEntry DEF SaveRejected
    <2>3. refreshLock' \in Callers \cup {None, Gone}
      BY <1>8 DEF SaveRejected, Unlock, TypeOK
    <2> QED BY <1>8, <2>1, <2>2, <2>3 DEF SaveRejected, TypeOK, provider
  <1>9. CASE MarkTested(c)
    <2>1. rows' \in [Ids -> Values]
      BY <1>0, <1>9, StatusUpdated DEF MarkTested
    <2>2. call' \in [Callers -> Calls]
      BY <1>9, IdleType, Moved DEF MarkTested
    <2> QED BY <1>9, <2>1, <2>2 DEF MarkTested, TypeOK, provider, locks
  <1>10. CASE LockTimesOut(c)
    <2>1. call' \in [Callers -> Calls]
      BY <1>10, ReturnEntry DEF LockTimesOut
    <2> QED BY <1>10, <2>1 DEF LockTimesOut, Fault, TypeOK, provider, locks
  <1> QED BY <1>1, <1>2, <1>3, <1>5, <1>6, <1>7, <1>8, <1>9, <1>10 DEF RefreshStep

LEMMA UpsertType ==
    ASSUME TypeOK, NEW c \in Callers, Upsert(c) \/ UpsertStep(c) \/ UpsertFailsOpen(c) \/ Crash(c)
    PROVE  TypeOK'
  <1>1. CASE Upsert(c)
    <2>1. call' \in [Callers -> Calls] /\ issued' \in 0 .. MaxGrants
      BY <1>1, UpsertEntry DEF TypeOK
    <2> QED BY <1>1, <2>1 DEF Upsert, TypeOK, locks
  <1>2. CASE LockUpsert(c)
    BY <1>2, PcEntry DEF LockUpsert, TypeOK, provider
  <1>3. CASE UpsertFailsOpen(c)
    <2>1. call' \in [Callers -> Calls]
      BY <1>3, PcEntry DEF UpsertFailsOpen
    <2> QED BY <1>3, <2>1 DEF UpsertFailsOpen, Fault, TypeOK, provider, locks
  <1>4. CASE LookUp(c)
    <2>1. PICK i \in IF Present = {} THEN {call[c].row} ELSE Present :
              call' = [call EXCEPT ![c].pc = "writing", ![c].row = i]
      BY <1>4 DEF LookUp
    <2>2. i \in 0 .. MaxGrants
      BY DEF TypeOK, Calls, Present, Ids, Grants
    <2> QED BY <1>4, <2>1, <2>2, RowEntry DEF LookUp, TypeOK, provider, locks
  <1>5. CASE WriteUpsert(c)
    <2>1. rows' \in [Ids -> Values]
      BY <1>5 DEF WriteUpsert, TypeOK, Calls
    <2>2. call' \in [Callers -> Calls]
      BY <1>5, IdleType, Moved DEF WriteUpsert
    <2> QED BY <1>5, <2>1, <2>2 DEF WriteUpsert, TypeOK, provider
  <1>6. CASE Crash(c)
    <2>1. call' \in [Callers -> Calls]
      BY <1>6, IdleType, Moved DEF Crash
    <2> QED BY <1>6, <2>1 DEF Crash, Fault, TypeOK, provider
  <1> QED BY <1>1, <1>2, <1>3, <1>4, <1>5, <1>6 DEF UpsertStep

LEMMA TypeStep == TypeOK /\ [Next]_vars => TypeOK'
  <1> SUFFICES ASSUME TypeOK, [Next]_vars PROVE TypeOK'
    OBVIOUS
  <1>1. ASSUME NEW c \in Callers,
               \/ Get(c) \/ Test(c) \/ RefreshStep(c) \/ LockTimesOut(c) \/ AskFails(c)
               \/ Upsert(c) \/ UpsertStep(c) \/ UpsertFailsOpen(c) \/ Crash(c)
        PROVE  TypeOK'
    BY <1>1, RefreshType, UpsertType
  <1>2. CASE Delete
    <2>1. rows' \in [Ids -> Values]
      BY <1>2, IdleType DEF Delete, TypeOK
    <2> QED BY <1>2, <2>1 DEF Delete, TypeOK, provider, locks
  <1>3. CASE LoseLock
    BY <1>3 DEF LoseLock, Fault, TypeOK, provider
  <1>4. CASE LockExpires
    BY <1>4 DEF LockExpires, TypeOK, provider
  <1>5. ASSUME NEW g \in Grants, Age(g) \/ Revoke(g) PROVE TypeOK'
    BY <1>5 DEF Age, Revoke, TypeOK, locks
  <1>6. CASE UNCHANGED vars
    BY <1>6 DEF vars, TypeOK, locks, provider
  <1> QED BY <1>1, <1>2, <1>3, <1>4, <1>5, <1>6 DEF Next

(* Whatever the requests, the faults and the provider do, rows, requests,  *)
(* locks and tokens stay within their ranges.                               *)
THEOREM TypeCorrect == Spec => []TypeOK
  BY TypeInit, TypeStep, PTL DEF Spec

-----------------------------------------------------------------------------
(* The invariant, action by action.  In each proof the first steps say what *)
(* the action does.                                                         *)

LEMMA InvInit == Init => IInv
  <1> SUFFICES ASSUME Init PROVE IInv
    OBVIOUS
  <1>1. Present = {}
    BY DEF Init, Present, Absent
  <1>2. \A c \in Callers : call[c].pc = "idle" /\ call[c].verdict = "active"
    BY DEF Init, Idle
  <1>3. \A g \in Grants : latest[g] = 0
    BY DEF Init
  <1> QED BY <1>1, <1>2, <1>3 DEF IInv, Grounded, Fresh, LocksHeld, OneRow, TokensCurrent, NoError,
             Asked, Locked, Upserting

LEMMA Kept == UNCHANGED rows => Present' = Present
  BY DEF Present

LEMMA UseInv ==
    ASSUME TypeOK, IInv, NEW c \in Callers, Get(c) \/ Test(c)
    PROVE  IInv'
  <1>1. /\ call[c].pc = "idle" /\ call'[c].pc \in {"waiting", "marking"}
        /\ call'[c].verdict = call[c].verdict
        /\ \A d \in Callers \ {c} : call'[d] = call[d]
        /\ Present # {} /\ Present' = Present
        /\ UNCHANGED <<rows, refreshLock, upsertLock, issued, latest, revoked, faults, deleted>>
    BY UseEntry, Kept DEF locks, provider
  <1> USE DEF IInv, Asked, Locked, Upserting
  <1>2. Grounded'
    BY <1>1 DEF Grounded
  <1>3. Fresh'
    BY <1>1 DEF Fresh
  <1>4. LocksHeld'
    BY <1>1 DEF LocksHeld
  <1>5. OneRow'
    BY <1>1 DEF OneRow
  <1>6. TokensCurrent'
    BY <1>1 DEF TokensCurrent
  <1>7. NoError'
    BY <1>1 DEF NoError
  <1> QED BY <1>2, <1>3, <1>4, <1>5, <1>6, <1>7

LEMMA LockRefreshInv ==
    ASSUME TypeOK, IInv, NEW c \in Callers, LockRefresh(c)
    PROVE  IInv'
  <1>1. /\ call[c].pc = "waiting" /\ call'[c].pc = "holding"
        /\ \A d \in Callers \ {c} : call'[d] = call[d]
        /\ Present' = Present
        /\ refreshLock = None /\ refreshLock' = c
        /\ UNCHANGED <<rows, upsertLock, issued, latest, revoked, faults, deleted>>
    BY PcEntry, Kept DEF LockRefresh, provider
  <1> USE DEF IInv, Asked, Locked, Upserting
  <1>2. Grounded'
    BY <1>1 DEF Grounded
  <1>3. Fresh'
    BY <1>1 DEF Fresh
  <1>4. LocksHeld'
    BY <1>1 DEF LocksHeld
  <1>5. OneRow'
    BY <1>1 DEF OneRow
  <1>6. TokensCurrent'
    BY <1>1 DEF TokensCurrent
  <1>7. NoError'
    BY <1>1 DEF NoError
  <1> QED BY <1>2, <1>3, <1>4, <1>5, <1>6, <1>7

(* A call under the refresh lock ends, with the rows as they were. *)
LEMMA ReleaseInv ==
    ASSUME TypeOK, IInv, NEW c \in Callers, NEW verdict \in {"active", "error"},
           call[c].pc = "holding", Return(c, verdict), Unlock(c),
           verdict = "error" => Present = {},
           UNCHANGED <<rows, upsertLock, provider, faults, deleted>>
    PROVE  IInv'
  <1>1. /\ call'[c].pc \in {"idle", "marking"}
        /\ call'[c].pc = "marking" => call'[c].verdict = verdict
        /\ call'[c].pc = "idle" => call'[c].verdict = "active"
        /\ \A d \in Callers \ {c} : call'[d] = call[d]
        /\ Present' = Present
        /\ refreshLock' = IF refreshLock = c THEN None ELSE refreshLock
        /\ UNCHANGED <<rows, upsertLock, issued, latest, revoked, faults, deleted>>
    BY ReturnEntry, Kept DEF Unlock, provider
  <1> USE DEF IInv, Asked, Locked, Upserting
  <1>2. Grounded'
    BY <1>1 DEF Grounded
  <1>3. Fresh'
    BY <1>1 DEF Fresh
  <1>4. LocksHeld'
    BY <1>1 DEF LocksHeld
  <1>5. OneRow'
    BY <1>1 DEF OneRow
  <1>6. TokensCurrent'
    BY <1>1 DEF TokensCurrent
  <1>7. NoError'
    BY <1>1 DEF NoError
  <1> QED BY <1>2, <1>3, <1>4, <1>5, <1>6, <1>7

LEMMA RereadInv ==
    ASSUME TypeOK, IInv, NEW c \in Callers, Reread(c)
    PROVE  IInv'
  <1>1. CASE Return(c, "error") /\ Present = {} /\ Unlock(c)
    BY <1>1, ReleaseInv DEF Reread
  <1>2. CASE Return(c, "active") /\ Unlock(c)
    BY <1>2, ReleaseInv DEF Reread
  <1>3. ASSUME NEW i \in Present, NeedsRefresh(rows[i]), UNCHANGED refreshLock,
               call' = [call EXCEPT ![c].pc = "asking", ![c].row = i, ![c].value = rows[i]]
        PROVE  IInv'
    <2>1. /\ call[c].pc = "holding" /\ call'[c].pc = "asking"
          /\ call'[c].row = i /\ call'[c].value = rows[i] /\ rows[i].status = "active"
          /\ \A d \in Callers \ {c} : call'[d] = call[d]
          /\ Present' = Present /\ i \in Ids
          /\ UNCHANGED <<rows, refreshLock, upsertLock, issued, latest, revoked, faults, deleted>>
      BY <1>3, ReadEntry, Kept DEF Reread, provider, Present, NeedsRefresh
    <2> USE DEF IInv, Asked, Locked, Upserting
    <2>2. Grounded'
      BY <2>1 DEF Grounded
    <2>3. Fresh'
      BY <2>1 DEF Fresh
    <2>4. LocksHeld'
      BY <2>1 DEF LocksHeld
    <2>5. OneRow'
      BY <2>1 DEF OneRow
    <2>6. TokensCurrent'
      <3> SUFFICES ASSUME faults = 0 PROVE TokensCurrent'
        BY <2>1 DEF TokensCurrent
      <3>1. \A d \in Callers \ {c} : call[d].pc \notin Asked
        BY <2>1 DEF LocksHeld
      <3>2. rows[i].gen = latest[rows[i].grant] /\ \A j \in Present : j = i
        BY <2>1, <3>1 DEF TokensCurrent, OneRow
      <3> QED BY <2>1, <3>1, <3>2 DEF TokensCurrent
    <2>7. NoError'
      BY <2>1 DEF NoError
    <2> QED BY <2>2, <2>3, <2>4, <2>5, <2>6, <2>7
  <1> QED BY <1>1, <1>2, <1>3 DEF Reread

(* The token endpoint gives out the next token of the authorisation g. *)
LEMMA Rotated ==
    ASSUME TypeOK, NEW g \in Grants, Rotate(g)
    PROVE  /\ latest'[g] = latest[g] + 1
           /\ \A h \in Grants \ {g} : latest'[h] = latest[h]
           /\ UNCHANGED <<issued, revoked>>
  BY DEF Rotate, TypeOK

LEMMA AskInv ==
    ASSUME TypeOK, IInv, NEW c \in Callers, Ask(c)
    PROVE  IInv'
  <1>g. call[c].pc = "asking" /\ call[c].value.grant \in 1 .. issued /\ issued \in 0 .. MaxGrants
    BY DEF Ask, IInv, Grounded, Asked, TypeOK
  <1>p. Present' = Present /\ UNCHANGED <<rows, refreshLock, upsertLock, faults, deleted>>
    BY Kept DEF Ask, locks
  <1>o. faults = 0 => \A d \in Callers \ {c} : call[d].pc \notin Locked
    BY <1>g DEF IInv, LocksHeld, Locked, Asked
  <1>1. ASSUME Accepts(call[c].value), latest[call[c].value.grant] < MaxGen,
               Rotate(call[c].value.grant),
               call' = [call EXCEPT ![c].pc = "refreshed", ![c].value.gen = @ + 1]
        PROVE  IInv'
    <2>1. /\ call'[c].pc = "refreshed" /\ call'[c].row = call[c].row
          /\ call'[c].value.status = call[c].value.status
          /\ call'[c].value.grant = call[c].value.grant
          /\ call'[c].value.gen = call[c].value.gen + 1
          /\ \A d \in Callers \ {c} : call'[d] = call[d]
      BY <1>1, AnswerEntry
    <2>a. /\ latest'[call[c].value.grant] = latest[call[c].value.grant] + 1
          /\ \A h \in Grants : h # call[c].value.grant => latest'[h] = latest[h]
          /\ UNCHANGED <<issued, revoked>>
      BY <1>1, <1>g, Rotated DEF Grants
    <2> USE DEF IInv, Asked, Locked, Upserting
    <2>2. Grounded'
      BY <1>g, <1>p, <2>1, <2>a DEF Grounded
    <2>3. Fresh'
      <3>1. \A g \in Grants : g > issued' => latest'[g] = 0
        BY <1>g, <2>a DEF Fresh
      <3>2. ASSUME NEW d \in Callers, call'[d].pc \in Upserting
            PROVE  /\ d # c /\ call'[d] = call[d] /\ call[d].value.grant \in Grants
                   /\ call[d].value.grant # call[c].value.grant
        BY <1>g, <2>1, <3>2 DEF Fresh, Grounded, Grants
      <3> QED BY <1>p, <2>1, <2>a, <3>1, <3>2 DEF Fresh
    <2>4. LocksHeld'
      BY <1>g, <1>p, <2>1 DEF LocksHeld
    <2>5. OneRow'
      BY <1>g, <1>p, <2>1 DEF OneRow
    <2>6. TokensCurrent'
      <3> SUFFICES ASSUME faults = 0 PROVE TokensCurrent'
        BY <1>p DEF TokensCurrent
      <3>1. call'[c].value.gen = latest'[call'[c].value.grant]
        BY <1>1, <2>1, <2>a DEF Accepts
      <3>2. ASSUME NEW i \in Present
            PROVE  \/ rows[i].gen = latest'[rows[i].grant]
                   \/ call[c].row = i /\ call[c].value.grant = rows[i].grant
        BY <1>g, <1>o, <2>a, <3>2 DEF TokensCurrent, Grounded, Grants
      <3> QED BY <1>g, <1>o, <1>p, <2>1, <3>1, <3>2 DEF TokensCurrent
    <2>7. NoError'
      BY <1>g, <1>p, <2>1, <2>a DEF NoError
    <2> QED BY <2>2, <2>3, <2>4, <2>5, <2>6, <2>7
  <1>2. ASSUME ~Accepts(call[c].value), UNCHANGED provider,
               call' = [call EXCEPT ![c].pc = "rejected"]
        PROVE  IInv'
    <2>1. /\ call'[c].pc = "rejected" /\ call'[c].row = call[c].row
          /\ call'[c].value = call[c].value
          /\ \A d \in Callers \ {c} : call'[d] = call[d]
          /\ UNCHANGED <<issued, latest, revoked>>
      BY <1>2, PcEntry DEF provider
    <2> USE DEF IInv, Asked, Locked, Upserting
    <2>2. Grounded'
      BY <1>g, <1>p, <2>1 DEF Grounded
    <2>3. Fresh'
      BY <1>g, <1>p, <2>1 DEF Fresh
    <2>4. LocksHeld'
      BY <1>g, <1>p, <2>1 DEF LocksHeld
    <2>5. OneRow'
      BY <1>g, <1>p, <2>1 DEF OneRow
    <2>6. TokensCurrent'
      BY <1>g, <1>o, <1>p, <2>1 DEF TokensCurrent
    <2>7. NoError'
      <3>1. faults = 0 => call[c].value.gen = latest[call[c].value.grant]
        BY <1>g DEF TokensCurrent
      <3>2. ~(faults = 0 /\ revoked = {})
        BY <1>2, <3>1 DEF Accepts
      <3> QED BY <1>p, <2>1, <3>2 DEF NoError
    <2> QED BY <2>2, <2>3, <2>4, <2>5, <2>6, <2>7
  <1> QED BY <1>1, <1>2 DEF Ask

(* A fault: only what holds of the faulty executions too is left to show. *)
LEMMA Faulty ==
    ASSUME TypeOK, Fault, Grounded', Fresh'
    PROVE  IInv'
  BY DEF Fault, TypeOK, IInv, LocksHeld, OneRow, TokensCurrent, NoError

LEMMA AskFailsInv ==
    ASSUME TypeOK, IInv, NEW c \in Callers, AskFails(c)
    PROVE  IInv'
  <1>g. call[c].pc = "asking" /\ call[c].value.grant \in 1 .. issued /\ issued \in 0 .. MaxGrants
    BY DEF AskFails, IInv, Grounded, Asked, TypeOK
  <1>1. /\ Present' = Present /\ UNCHANGED rows
        /\ call'[c].pc \in {"idle", "marking"}
        /\ \A d \in Callers \ {c} : call'[d] = call[d]
    BY ReturnEntry, Kept DEF AskFails
  <1>2. /\ issued' = issued
        /\ \A h \in Grants : h # call[c].value.grant => latest'[h] = latest[h]
    <2>1. CASE UNCHANGED provider
      BY <2>1 DEF provider
    <2>2. CASE Rotate(call[c].value.grant)
      BY <1>g, <2>2, Rotated DEF Grants
    <2> QED BY <2>1, <2>2 DEF AskFails
  <1> USE DEF IInv, Asked, Locked, Upserting
  <1>3. Grounded'
    BY <1>1, <1>2 DEF Grounded
  <1>4. Fresh'
    <2>1. \A g \in Grants : g > issued' => latest'[g] = 0
      BY <1>g, <1>2 DEF Fresh
    <2>2. ASSUME NEW d \in Callers, call'[d].pc \in Upserting
          PROVE  /\ d # c /\ call'[d] = call[d] /\ call[d].value.grant \in Grants
                 /\ call[d].value.grant # call[c].value.grant
      BY <1>g, <1>1, <2>2 DEF Fresh, Grounded, Grants
    <2> QED BY <1>1, <1>2, <2>1, <2>2 DEF Fresh
  <1> QED BY <1>3, <1>4, Faulty DEF AskFails

LEMMA SaveRefreshedInv ==
    ASSUME TypeOK, IInv, NEW c \in Callers, SaveRefreshed(c)
    PROVE  IInv'
  <1> DEFINE v == [call[c].value EXCEPT !.status = "active"]
  <1>v. call[c].value \in Values
    BY DEF TypeOK, Calls
  <1>e. /\ v \in Values /\ v.status = "active"
        /\ v.grant = call[c].value.grant /\ v.gen = call[c].value.gen
    BY <1>v DEF Values, Statuses
  <1>u. rows' = [rows EXCEPT ![call[c].row] = IF @.status = "absent" THEN @ ELSE v]
    BY DEF SaveRefreshed
  <1> HIDE DEF v
  <1>1. /\ call[c].pc = "refreshed" /\ call'[c].pc \in {"idle", "marking"}
        /\ call'[c].verdict = "active"
        /\ \A d \in Callers \ {c} : call'[d] = call[d]
        /\ refreshLock' = IF refreshLock = c THEN None ELSE refreshLock
        /\ UNCHANGED <<upsertLock, issued, latest, revoked, faults, deleted>>
    BY ReturnEntry DEF SaveRefreshed, Unlock, provider
  <1>r. /\ Present' = Present
        /\ \A i \in Present :
              \/ i # call[c].row /\ rows'[i] = rows[i]
              \/ /\ i = call[c].row /\ rows'[i].status = "active"
                 /\ rows'[i].grant = call[c].value.grant /\ rows'[i].gen = call[c].value.gen
    <2>1. v.status # "absent"
      BY <1>e
    <2>2. /\ Present' = Present
          /\ \A i \in Present : /\ i = call[c].row => rows'[i] = v
                                /\ i # call[c].row => rows'[i] = rows[i]
      <3>1. v \in Values /\ v.status # "absent"
        BY <1>e
      <3>2. PICK k : k = call[c].row
        OBVIOUS
      <3>3. rows' = [rows EXCEPT ![k] = IF @.status = "absent" THEN @ ELSE v]
        BY <1>u, <3>2
      <3>4. /\ Present' = Present
            /\ \A i \in Present : /\ i = k => rows'[i] = v
                                  /\ i # k => rows'[i] = rows[i]
        BY <3>1, <3>3, RowsUpdated
      <3> QED BY <3>2, <3>4
    <2> QED BY <1>e, <2>2
  <1>o. faults = 0 => \A d \in Callers \ {c} : call[d].pc \notin Locked
    BY <1>1 DEF IInv, LocksHeld, Locked, Asked
  <1> USE DEF IInv, Asked, Locked, Upserting
  <1>2. Grounded'
    BY <1>1, <1>r DEF Grounded
  <1>3. Fresh'
    BY <1>1, <1>r DEF Fresh
  <1>4. LocksHeld'
    BY <1>1, <1>r DEF LocksHeld
  <1>5. OneRow'
    BY <1>1, <1>r DEF OneRow
  <1>6. TokensCurrent'
    <2> SUFFICES ASSUME faults = 0 PROVE TokensCurrent'
      BY <1>1 DEF TokensCurrent
    <2>1. call[c].value.gen = latest[call[c].value.grant]
      BY <1>1 DEF TokensCurrent
    <2>2. ASSUME NEW i \in Present, i # call[c].row PROVE rows[i].gen = latest[rows[i].grant]
      BY <1>1, <1>o, <2>2 DEF TokensCurrent
    <2> QED BY <1>1, <1>o, <1>r, <2>1, <2>2 DEF TokensCurrent
  <1>7. NoError'
    BY <1>1, <1>r DEF NoError
  <1> QED BY <1>2, <1>3, <1>4, <1>5, <1>6, <1>7

LEMMA SaveRejectedInv ==
    ASSUME TypeOK, IInv, NEW c \in Callers, SaveRejected(c)
    PROVE  IInv'
  <1>1. /\ call[c].pc = "rejected" /\ call'[c].pc \in {"idle", "marking"}
        /\ \A d \in Callers \ {c} : call'[d] = call[d]
        /\ refreshLock' = IF refreshLock = c THEN None ELSE refreshLock
        /\ UNCHANGED <<upsertLock, issued, latest, revoked, faults, deleted>>
    BY ReturnEntry DEF SaveRejected, Unlock, provider
  <1>r. /\ Present' = Present
        /\ \A i \in Present : rows'[i].grant = rows[i].grant /\ rows'[i].gen = rows[i].gen
    BY StatusUpdated DEF SaveRejected
  <1> USE DEF IInv, Asked, Locked, Upserting
  <1>2. Grounded'
    BY <1>1, <1>r DEF Grounded
  <1>3. Fresh'
    BY <1>1, <1>r DEF Fresh
  <1>4. LocksHeld'
    BY <1>1, <1>r DEF LocksHeld
  <1>5. OneRow'
    BY <1>1, <1>r DEF OneRow
  <1>6. TokensCurrent'
    BY <1>1, <1>r DEF TokensCurrent
  <1>7. NoError'
    BY <1>1, <1>r DEF NoError
  <1> QED BY <1>2, <1>3, <1>4, <1>5, <1>6, <1>7

LEMMA MarkTestedInv ==
    ASSUME TypeOK, IInv, NEW c \in Callers, MarkTested(c)
    PROVE  IInv'
  <1>v. call[c].verdict \in {"active", "error"}
    BY DEF TypeOK, Calls
  <1>1. /\ call[c].pc = "marking" /\ call'[c].pc = "idle" /\ call'[c].verdict = "active"
        /\ \A d \in Callers \ {c} : call'[d] = call[d]
        /\ UNCHANGED <<refreshLock, upsertLock, issued, latest, revoked, faults, deleted>>
    BY IdleType, Moved DEF MarkTested, locks, provider, Idle
  <1>r. /\ Present' = Present
        /\ \A i \in Present : /\ rows'[i].grant = rows[i].grant /\ rows'[i].gen = rows[i].gen
                              /\ rows'[i].status \in {rows[i].status, call[c].verdict}
    BY <1>v, StatusUpdated DEF MarkTested
  <1> USE DEF IInv, Asked, Locked, Upserting
  <1>2. Grounded'
    BY <1>1, <1>r DEF Grounded
  <1>3. Fresh'
    BY <1>1, <1>r DEF Fresh
  <1>4. LocksHeld'
    BY <1>1, <1>r DEF LocksHeld
  <1>5. OneRow'
    BY <1>1, <1>r DEF OneRow
  <1>6. TokensCurrent'
    BY <1>1, <1>r DEF TokensCurrent
  <1>7. NoError'
    BY <1>1, <1>r DEF NoError
  <1> QED BY <1>2, <1>3, <1>4, <1>5, <1>6, <1>7

LEMMA LockTimesOutInv ==
    ASSUME TypeOK, IInv, NEW c \in Callers, LockTimesOut(c)
    PROVE  IInv'
  <1>1. /\ call'[c].pc \in {"idle", "marking"}
        /\ \A d \in Callers \ {c} : call'[d] = call[d]
        /\ Present' = Present /\ UNCHANGED <<rows, issued, latest>>
    BY ReturnEntry, Kept DEF LockTimesOut, provider
  <1> USE DEF IInv, Asked, Locked, Upserting
  <1>2. Grounded'
    BY <1>1 DEF Grounded
  <1>3. Fresh'
    BY <1>1 DEF Fresh
  <1> QED BY <1>2, <1>3, Faulty DEF LockTimesOut

LEMMA CrashInv ==
    ASSUME TypeOK, IInv, NEW c \in Callers, Crash(c)
    PROVE  IInv'
  <1>1. /\ call'[c].pc = "idle"
        /\ \A d \in Callers \ {c} : call'[d] = call[d]
        /\ Present' = Present /\ UNCHANGED <<rows, issued, latest>>
    BY IdleType, Moved, Kept DEF Crash, provider, Idle
  <1> USE DEF IInv, Asked, Locked, Upserting
  <1>2. Grounded'
    BY <1>1 DEF Grounded
  <1>3. Fresh'
    BY <1>1 DEF Fresh
  <1> QED BY <1>2, <1>3, Faulty DEF Crash

LEMMA UpsertInv ==
    ASSUME TypeOK, IInv, NEW c \in Callers, Upsert(c)
    PROVE  IInv'
  <1>1. /\ call[c].pc = "idle" /\ call'[c].pc = "queued" /\ call'[c].row = issued + 1
        /\ call'[c].value.status \in {"active", "missing"}
        /\ call'[c].value.grant = issued + 1 /\ call'[c].value.gen = 0
        /\ \A d \in Callers \ {c} : call'[d] = call[d]
        /\ issued' = issued + 1 /\ issued \in 0 .. MaxGrants /\ issued + 1 \in Grants
        /\ Present' = Present
        /\ UNCHANGED <<rows, refreshLock, upsertLock, latest, revoked, faults, deleted>>
    <2>1. issued \in 0 .. MaxGrants /\ issued < MaxGrants
      BY DEF Upsert, TypeOK
    <2>2. issued + 1 \in Grants
      BY <2>1 DEF Grants
    <2>3. /\ call[c].pc = "idle" /\ Present' = Present
          /\ UNCHANGED <<rows, refreshLock, upsertLock, latest, revoked, faults, deleted>>
      BY Kept DEF Upsert, locks
    <2> QED BY <2>1, <2>2, <2>3, UpsertEntry
  <1> USE DEF IInv, Asked, Locked, Upserting
  <1>2. Grounded'
    BY <1>1 DEF Grounded, Ids, Grants
  <1>3. Fresh'
    <2>1. \A g \in Grants : g > issued' => latest'[g] = 0
      BY <1>1 DEF Fresh, Grants
    <2>2. /\ latest'[issued + 1] = 0
          /\ \A i \in Present : rows[i].grant # issued + 1
          /\ \A d \in Callers : call[d].pc \in Asked \cup Upserting =>
                call[d].value.grant # issued + 1
      BY <1>1 DEF Fresh, Grounded, Grants
    <2> QED BY <1>1, <2>1, <2>2 DEF Fresh
  <1>4. LocksHeld'
    BY <1>1 DEF LocksHeld
  <1>5. OneRow'
    BY <1>1 DEF OneRow
  <1>6. TokensCurrent'
    BY <1>1 DEF TokensCurrent
  <1>7. NoError'
    BY <1>1 DEF NoError
  <1> QED BY <1>2, <1>3, <1>4, <1>5, <1>6, <1>7

LEMMA LockUpsertInv ==
    ASSUME TypeOK, IInv, NEW c \in Callers, LockUpsert(c)
    PROVE  IInv'
  <1>1. /\ call[c].pc = "queued" /\ call'[c].pc = "looking"
        /\ call'[c].row = call[c].row /\ call'[c].value = call[c].value
        /\ \A d \in Callers \ {c} : call'[d] = call[d]
        /\ Present' = Present
        /\ upsertLock = None /\ upsertLock' = c
        /\ UNCHANGED <<rows, refreshLock, issued, latest, revoked, faults, deleted>>
    BY PcEntry, Kept DEF LockUpsert, provider
  <1> USE DEF IInv, Asked, Locked, Upserting
  <1>2. Grounded'
    BY <1>1 DEF Grounded
  <1>3. Fresh'
    BY <1>1 DEF Fresh
  <1>4. LocksHeld'
    BY <1>1 DEF LocksHeld
  <1>5. OneRow'
    BY <1>1 DEF OneRow
  <1>6. TokensCurrent'
    BY <1>1 DEF TokensCurrent
  <1>7. NoError'
    BY <1>1 DEF NoError
  <1> QED BY <1>2, <1>3, <1>4, <1>5, <1>6, <1>7

LEMMA UpsertFailsOpenInv ==
    ASSUME TypeOK, IInv, NEW c \in Callers, UpsertFailsOpen(c)
    PROVE  IInv'
  <1>1. /\ call[c].pc = "queued" /\ call'[c].pc = "looking"
        /\ call'[c].row = call[c].row /\ call'[c].value = call[c].value
        /\ \A d \in Callers \ {c} : call'[d] = call[d]
        /\ Present' = Present /\ UNCHANGED <<rows, issued, latest>>
    BY PcEntry, Kept DEF UpsertFailsOpen, provider
  <1> USE DEF IInv, Asked, Locked, Upserting
  <1>2. Grounded'
    BY <1>1 DEF Grounded
  <1>3. Fresh'
    BY <1>1 DEF Fresh
  <1> QED BY <1>2, <1>3, Faulty DEF UpsertFailsOpen

LEMMA LookUpInv ==
    ASSUME TypeOK, IInv, NEW c \in Callers, LookUp(c)
    PROVE  IInv'
  <1>i. PICK i \in IF Present = {} THEN {call[c].row} ELSE Present :
            call' = [call EXCEPT ![c].pc = "writing", ![c].row = i]
    BY DEF LookUp
  <1>d. i \in Ids /\ i \in 0 .. MaxGrants /\ (Present = {} \/ i \in Present)
    BY DEF LookUp, IInv, Grounded, Upserting, Present, Ids, Grants
  <1>1. /\ call[c].pc = "looking" /\ call'[c].pc = "writing"
        /\ call'[c].row = i /\ call'[c].value = call[c].value
        /\ \A d \in Callers \ {c} : call'[d] = call[d]
        /\ Present' = Present
        /\ UNCHANGED <<rows, refreshLock, upsertLock, issued, latest, revoked, faults, deleted>>
    BY <1>i, <1>d, RowEntry, Kept DEF LookUp, locks, provider
  <1> USE DEF IInv, Asked, Locked, Upserting
  <1>2. Grounded'
    BY <1>1, <1>d DEF Grounded
  <1>3. Fresh'
    BY <1>1, <1>d DEF Fresh
  <1>4. LocksHeld'
    BY <1>1, <1>d DEF LocksHeld
  <1>5. OneRow'
    BY <1>1, <1>d DEF OneRow
  <1>6. TokensCurrent'
    BY <1>1, <1>d DEF TokensCurrent
  <1>7. NoError'
    BY <1>1, <1>d DEF NoError
  <1> QED BY <1>2, <1>3, <1>4, <1>5, <1>6, <1>7

LEMMA WriteUpsertInv ==
    ASSUME TypeOK, IInv, NEW c \in Callers, WriteUpsert(c)
    PROVE  IInv'
  <1> DEFINE k == call[c].row
  <1>1. /\ call[c].pc = "writing" /\ call'[c].pc = "idle" /\ call'[c].verdict = "active"
        /\ \A d \in Callers \ {c} : call'[d] = call[d]
        /\ upsertLock' = IF upsertLock = c THEN None ELSE upsertLock
        /\ UNCHANGED <<refreshLock, issued, latest, revoked, faults, deleted>>
    BY IdleType, Moved DEF WriteUpsert, provider, Idle
  <1>v. /\ k \in Ids /\ call[c].value.grant \in 1 .. issued
        /\ call[c].value.status \in {"active", "missing"} /\ call[c].value.gen = 0
    BY <1>1 DEF IInv, Grounded, Upserting
  <1>r. /\ Present' = Present \cup {k}
        /\ rows'[k] = call[c].value
        /\ \A i \in Present \ {k} : rows'[i] = rows[i]
    BY <1>v DEF WriteUpsert, TypeOK, Present
  <1>f. /\ latest[call[c].value.grant] = 0
        /\ \A d \in Callers \ {c} : call[d].pc \in Asked \cup Upserting =>
              call[d].value.grant # call[c].value.grant
    BY <1>1 DEF IInv, Fresh, Upserting
  <1>o. faults = 0 =>
            /\ \A d \in Callers \ {c} : call[d].pc # "writing"
            /\ Present \subseteq {k}
    BY <1>1 DEF IInv, LocksHeld, OneRow
  <1> HIDE DEF k
  <1> USE DEF IInv, Asked, Locked, Upserting
  <1>2. Grounded'
    BY <1>1, <1>v, <1>r, <1>f, <1>o DEF Grounded
  <1>3. Fresh'
    BY <1>1, <1>v, <1>r, <1>f, <1>o DEF Fresh
  <1>4. LocksHeld'
    BY <1>1, <1>v, <1>r, <1>f, <1>o DEF LocksHeld
  <1>5. OneRow'
    BY <1>1, <1>v, <1>r, <1>f, <1>o DEF OneRow
  <1>6. TokensCurrent'
    BY <1>1, <1>v, <1>r, <1>f, <1>o DEF TokensCurrent
  <1>7. NoError'
    BY <1>1, <1>v, <1>r, <1>f, <1>o DEF NoError
  <1> QED BY <1>2, <1>3, <1>4, <1>5, <1>6, <1>7

LEMMA DeleteInv ==
    ASSUME TypeOK, IInv, Delete
    PROVE  IInv'
  <1>i. PICK i \in Present : rows' = [rows EXCEPT ![i] = Absent]
    BY DEF Delete
  <1>1. /\ Present' = Present \ {i}
        /\ \A j \in Present \ {i} : rows'[j] = rows[j]
        /\ UNCHANGED <<call, refreshLock, upsertLock, issued, latest, revoked, faults>>
        /\ deleted'
    BY <1>i DEF Delete, TypeOK, Present, Absent, locks, provider
  <1> USE DEF IInv, Asked, Locked, Upserting
  <1>2. Grounded'
    BY <1>1 DEF Grounded
  <1>3. Fresh'
    BY <1>1 DEF Fresh
  <1>4. LocksHeld'
    BY <1>1 DEF LocksHeld
  <1>5. OneRow'
    BY <1>1 DEF OneRow
  <1>6. TokensCurrent'
    BY <1>1 DEF TokensCurrent
  <1>7. NoError'
    BY <1>1 DEF NoError
  <1> QED BY <1>2, <1>3, <1>4, <1>5, <1>6, <1>7

LEMMA OtherInv ==
    ASSUME TypeOK, IInv,
           \/ LoseLock \/ LockExpires \/ UNCHANGED vars
           \/ \E g \in Grants : Age(g) \/ Revoke(g)
    PROVE  IInv'
  <1>1. Present' = Present /\ UNCHANGED <<rows, call, issued, latest, deleted>>
    BY Kept DEF LoseLock, LockExpires, vars, Age, Revoke, locks, provider
  <1> USE DEF IInv, Asked, Locked, Upserting
  <1>2. Grounded'
    BY <1>1 DEF Grounded
  <1>3. Fresh'
    BY <1>1 DEF Fresh
  <1>4. CASE LoseLock
    BY <1>2, <1>3, <1>4, Faulty DEF LoseLock
  <1>5. CASE ~LoseLock
    <2>1. /\ faults' = faults /\ revoked \subseteq revoked'
          /\ \A c \in Callers : /\ refreshLock = c => refreshLock' = c
                                /\ upsertLock = c => upsertLock' = c
      BY <1>5 DEF LockExpires, vars, Age, Revoke, locks, provider
    <2>2. LocksHeld'
      BY <1>1, <2>1 DEF LocksHeld
    <2>3. OneRow'
      BY <1>1, <2>1 DEF OneRow
    <2>4. TokensCurrent'
      BY <1>1, <2>1 DEF TokensCurrent
    <2>5. NoError'
      BY <1>1, <2>1 DEF NoError
    <2> QED BY <1>2, <1>3, <2>2, <2>3, <2>4, <2>5
  <1> QED BY <1>4, <1>5

LEMMA InvStep == TypeOK /\ IInv /\ [Next]_vars => IInv'
  BY UseInv, LockRefreshInv, RereadInv, AskInv, AskFailsInv, SaveRefreshedInv, SaveRejectedInv,
     MarkTestedInv, LockTimesOutInv, CrashInv, UpsertInv, LockUpsertInv, UpsertFailsOpenInv,
     LookUpInv, WriteUpsertInv, DeleteInv, OtherInv
  DEF Next, RefreshStep, UpsertStep

LEMMA Invariant == Spec => [](TypeOK /\ IInv)
  BY TypeInit, TypeStep, InvInit, InvStep, PTL DEF Spec

-----------------------------------------------------------------------------
(* As long as nothing fails, overlapping upserts and refreshes of any number *)
(* of callers leave at most one row: the lock makes each upsert's look-up   *)
(* and write one step to the others.                                        *)
THEOREM OneRowAlways == Spec => []OneRowPerConnection
  <1>1. IInv => OneRowPerConnection
    <2> SUFFICES ASSUME IInv, faults = 0 PROVE Cardinality(Present) <= 1
      BY DEF OneRowPerConnection
    <2>1. CASE Present = {}
      BY <2>1, FS_EmptySet
    <2>2. ASSUME NEW i \in Present PROVE Cardinality(Present) <= 1
      <3>1. Present = {i}
        BY DEF IInv, OneRow
      <3> QED BY <3>1, FS_Singleton
    <2> QED BY <2>1, <2>2
  <1> QED BY <1>1, Invariant, PTL

(* As long as nothing fails and no refresh is under way, the token in the   *)
(* row is the one that the provider accepts next, whoever refreshed last,   *)
(* and whatever upserts replaced the row meanwhile.                         *)
THEOREM TokenIsCurrent == Spec => []StoredTokenIsCurrent
  <1>1. TypeOK /\ IInv => StoredTokenIsCurrent
    <2> SUFFICES ASSUME IInv, faults = 0, refreshLock = None, NEW i \in Present
                 PROVE  rows[i].gen = latest[rows[i].grant]
      BY DEF StoredTokenIsCurrent
    <2>1. \A c \in Callers : call[c].pc # "refreshed"
      BY DEF IInv, LocksHeld, Locked, Asked
    <2> QED BY <2>1 DEF IInv, TokensCurrent
  <1> QED BY <1>1, Invariant, PTL

(* While no user withdraws an authorisation, nothing is deleted and nothing *)
(* fails, no connection gets into error: no refresh spends the token of     *)
(* another, and no test fails for the lack of a row.                        *)
THEOREM ErrorsAreEarned == Spec => []ErrorIsEarned
  <1>1. TypeOK /\ IInv => ErrorIsEarned
    BY DEF IInv, NoError, ErrorIsEarned, TypeOK
  <1> QED BY <1>1, Invariant, PTL

===============================================================================
