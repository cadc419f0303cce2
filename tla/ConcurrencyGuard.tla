--------------------------- MODULE ConcurrencyGuard ---------------------------
(***************************************************************************)
(* The per-project execution guard                                         *)
(* (execution/concurrency/project-execution-concurrency-guard.ts).         *)
(*                                                                         *)
(* One Redis counter per project counts the RUN hooks inside the sandbox   *)
(* pool.  acquire is INCR, then EXPIRE, then a local comparison; release   *)
(* is DECR, then a separate DEL when the reply is not positive.  Every     *)
(* Redis call is one step here, so the calls of different requests         *)
(* interleave as they do on the server.  Projects have distinct keys, so   *)
(* one project is modelled.                                                *)
(***************************************************************************)
EXTENDS Integers, FiniteSets

CONSTANTS
    Callers,        \* requests that may run a trigger of the project
    Replicas,       \* API server processes
    Host,           \* Host[c]: the process that serves caller c
    Limit,          \* the pool's limit, or the system default
    MaxFailures,    \* bound on crashes and failed Redis calls
    TtlOutlivesCalls   \* TRUE: no call lives as long as the TTL it set

ASSUME GuardAssumption ==
    /\ IsFiniteSet(Callers)
    /\ Host \in [Callers -> Replicas]
    /\ Limit \in Nat \ {0}
    /\ MaxFailures \in Nat
    /\ TtlOutlivesCalls \in BOOLEAN

VARIABLES
    count,      \* the integer stored under the key; 0 when there is no key
    key,        \* "absent", "noTtl" or "ttl"
    pc,         \* where each caller is in acquire / execute / release
    failures,   \* crashes and Redis failures so far
    leaked,     \* history: INCRs in the counter whose caller is gone
    abandoned   \* history: how callers were lost since the key was last absent

vars == <<count, key, pc, failures, leaked, abandoned>>

(* "admitted" and "refused" are callers whose INCR has answered, within the *)
(* limit or above it, and whose EXPIRE is still to come.                    *)
Incremented == {"admitted", "refused"}
Steps == Incremented \cup {"idle", "executing", "rejecting", "deleting"}

(* The callers whose INCR has not been matched by a DECR. *)
Counted == {c \in Callers : pc[c] \in Incremented \cup {"executing", "rejecting"}}

TypeOK ==
    /\ count \in Int
    /\ key \in {"absent", "noTtl", "ttl"}
    /\ pc \in [Callers -> Steps]
    /\ failures \in 0 .. MaxFailures
    /\ leaked \in Nat
    /\ abandoned \in SUBSET Steps

Init ==
    /\ count = 0
    /\ key = "absent"
    /\ pc = [c \in Callers |-> "idle"]
    /\ failures = 0
    /\ leaked = 0
    /\ abandoned = {}

-----------------------------------------------------------------------------
(* INCR and DECR create a missing key at 0, without a TTL. *)
Touched == IF key = "absent" THEN "noTtl" ELSE key

(* The key goes away, and with it every count it held. *)
Wipe ==
    /\ count' = 0
    /\ key' = "absent"
    /\ leaked' = 0
    /\ abandoned' = {}

(* Mutant: the caller that takes the last slot is turned away. *)
IncrOffByOne(c) ==
    /\ pc[c] = "idle"
    /\ count' = count + 1
    /\ key' = Touched
    /\ pc' = [pc EXCEPT ![c] = IF count + 1 >= Limit THEN "refused" ELSE "admitted"]
    /\ UNCHANGED <<failures, leaked, abandoned>>

(* acquire: redis.incr(key); activeCount, the reply, decides the caller's *)
(* fate, whatever the counter holds by the time it acts on it.            *)
Incr(c) ==
    /\ pc[c] = "idle"
    /\ count' = count + 1
    /\ key' = Touched
    /\ pc' = [pc EXCEPT ![c] = IF count + 1 > Limit THEN "refused" ELSE "admitted"]
    /\ UNCHANGED <<failures, leaked, abandoned>>

(* Mutants: a refused caller waits for a slot; it leaves without giving its *)
(* slot back; only the first INCR of a key is followed by EXPIRE.           *)
SetExpiryAndQueue(c) ==
    /\ pc[c] \in Incremented
    /\ key' = IF key = "absent" THEN "absent" ELSE "ttl"
    /\ pc' = [pc EXCEPT ![c] = IF pc[c] = "refused" THEN "queued" ELSE "executing"]
    /\ UNCHANGED <<count, failures, leaked, abandoned>>

SetExpiryAndForget(c) ==
    /\ pc[c] \in Incremented
    /\ key' = IF key = "absent" THEN "absent" ELSE "ttl"
    /\ pc' = [pc EXCEPT ![c] = IF pc[c] = "refused" THEN "idle" ELSE "executing"]
    /\ UNCHANGED <<count, failures, leaked, abandoned>>

SetExpiryOfFirst(c) ==
    /\ pc[c] \in Incremented
    /\ key' = IF count = 1 /\ key # "absent" THEN "ttl" ELSE key
    /\ pc' = [pc EXCEPT ![c] = IF pc[c] = "refused" THEN "rejecting" ELSE "executing"]
    /\ UNCHANGED <<count, failures, leaked, abandoned>>

(* acquire: redis.expire(key, slotTtlSeconds), which does nothing to a     *)
(* missing key, before a refused caller gives its slot back.               *)
SetExpiry(c) ==
    /\ pc[c] \in Incremented
    /\ key' = IF key = "absent" THEN "absent" ELSE "ttl"
    /\ pc' = [pc EXCEPT ![c] = IF pc[c] = "refused" THEN "rejecting" ELSE "executing"]
    /\ UNCHANGED <<count, failures, leaked, abandoned>>

(* Mutant: an empty pool is not cleaned up, only a negative one. *)
DecrOffByOne(c) ==
    /\ pc[c] \in {"rejecting", "executing"}
    /\ count' = count - 1
    /\ key' = Touched
    /\ pc' = [pc EXCEPT ![c] = IF count - 1 < 0 THEN "deleting" ELSE "idle"]
    /\ UNCHANGED <<failures, leaked, abandoned>>

(* releaseSlot: redis.decr(key), by a rejected caller or, from the finally *)
(* block of executeEngineHook, by one whose execution has ended.           *)
Decr(c) ==
    /\ pc[c] \in {"rejecting", "executing"}
    /\ count' = count - 1
    /\ key' = Touched
    /\ pc' = [pc EXCEPT ![c] = IF count - 1 <= 0 THEN "deleting" ELSE "idle"]
    /\ UNCHANGED <<failures, leaked, abandoned>>

(* releaseSlot: redis.del(key), once remaining <= 0. *)
Del(c) ==
    /\ pc[c] = "deleting"
    /\ Wipe
    /\ pc' = [pc EXCEPT ![c] = "idle"]
    /\ UNCHANGED failures

(* The TTL fires. *)
Expire ==
    /\ key = "ttl"
    /\ TtlOutlivesCalls => \A c \in Callers : pc[c] \in Incremented \cup {"idle"}
    /\ Wipe
    /\ UNCHANGED <<pc, failures>>

(* The callers in S vanish wherever they are. *)
Abandon(S) ==
    /\ failures < MaxFailures
    /\ failures' = failures + 1
    /\ IF key = "absent"
       THEN UNCHANGED <<leaked, abandoned>>
       ELSE /\ leaked' = leaked + Cardinality(S \cap Counted)
            /\ abandoned' = abandoned \cup {pc[c] : c \in S}
    /\ pc' = [c \in Callers |-> IF c \in S THEN "idle" ELSE pc[c]]
    /\ UNCHANGED <<count, key>>

(* The Redis call that caller c is about to make throws: nothing in acquire *)
(* or release catches it, and released was already set.                     *)
RedisFails(c) ==
    /\ pc[c] # "idle"
    /\ Abandon({c})

(* A process dies with every call it was serving. *)
Crash(r) ==
    /\ \E c \in Callers : Host[c] = r /\ pc[c] # "idle"
    /\ Abandon({c \in Callers : Host[c] = r})

Next ==
    \/ \E c \in Callers : Incr(c) \/ SetExpiry(c) \/ Decr(c) \/ Del(c) \/ RedisFails(c)
    \/ \E r \in Replicas : Crash(r)
    \/ Expire

Spec == Init /\ [][Next]_vars

-----------------------------------------------------------------------------
(* The counter never overstates the load: what it holds is at most the     *)
(* callers between INCR and DECR plus the slots that lost callers leaked.  *)
(* DECRs that race with DEL or with the TTL may only make it understate.   *)
NeverOverstates == count <= Cardinality(Counted) + leaked

(* A caller is turned away only when Limit other slots are taken, counting *)
(* the slots that lost callers leaked.                                     *)
RejectionJustified ==
    [][\A c \in Callers :
          (pc[c] = "idle" /\ pc'[c] = "refused")
             => Cardinality(Counted) + leaked >= Limit]_vars

(* "deleting it resets the counter to a clean baseline" (lines 83-86): once *)
(* the last caller has returned, and none was lost, no key is left, neither *)
(* negative nor positive, whatever the DECRs and DELs did to one another.   *)
IdleMeansClean ==
    ((\A c \in Callers : pc[c] = "idle") /\ abandoned = {}) => key = "absent"

(* The TTL is a backstop for every leak: a positive count is without a TTL *)
(* only while some caller is between its INCR and its EXPIRE, or was lost  *)
(* there.                                                                  *)
PositiveCountExpires ==
    (count > 0 /\ key = "noTtl")
       => \/ \E c \in Callers : pc[c] \in Incremented
          \/ abandoned \cap Incremented # {}

(* At most Limit executions of the project run at once.  The guard does    *)
(* not ensure it: the DEL of one release can fall after the INCR of the    *)
(* next acquire and erase it.                                              *)
ActiveWithinLimit ==
    Cardinality({c \in Callers : pc[c] = "executing"}) <= Limit
===============================================================================
