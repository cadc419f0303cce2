---------------------------- MODULE HeadlessRuntime ----------------------------
(***************************************************************************)
(* HeadlessRuntime (packages/runtime): a sandbox runtime with one box,     *)
(* whose calls are chained on executionTail.  Each call starts when the    *)
(* promise of the one before it has settled, whether it succeeded or not.  *)
(***************************************************************************)
EXTENDS SandboxRuntime, Sequences

VARIABLE chain  \* the calls that wait on executionTail or run, oldest first

vars == <<runtimeVars, chain>>

Init ==
    /\ RuntimeInit
    /\ chain = <<>>

TypeOK ==
    /\ RuntimeTypeOK
    /\ chain \in Seq(Callers)

(* executeSandbox: the call is appended to the chain. *)
Submit(c) ==
    /\ pc[c] = "idle"
    /\ pc' = [pc EXCEPT ![c] = "queued"]
    /\ chain' = Append(chain, c)
    /\ UNCHANGED <<reusable, sandboxVars, box, using, timedOut, result, diedOf>>

(* Mutants: calls are not chained; the box is exclusive, but any waiting    *)
(* call may take it.                                                        *)
BeginUnchained(c) ==
    /\ pc[c] = "queued"
    /\ Acquire(c)
    /\ UNCHANGED chain

BeginUnordered(c) ==
    /\ pc[c] = "queued"
    /\ \A d \in Callers : pc[d] \notin Holding
    /\ Acquire(c)
    /\ UNCHANGED chain

(* The call at the head of the chain begins. *)
Begin(c) ==
    /\ pc[c] = "queued"
    /\ c = Head(chain)
    /\ Acquire(c)
    /\ UNCHANGED chain

(* Mutant: the tail is the promise itself, so a failure breaks the chain. *)
ReturnIfAnswered(c) ==
    /\ Finish(c)
    /\ chain' = IF result[c] = "answered" THEN Tail(chain) ELSE chain

(* The call is over; the tail settles either way and lets the next begin. *)
Return(c) ==
    /\ Finish(c)
    /\ chain' = Tail(chain)

Next ==
    \/ \E c \in Callers : \/ Submit(c) \/ Begin(c) \/ Return(c)
                          \/ CallStep(c) /\ UNCHANGED chain
    \/ \E s \in Sandboxes : ProcessStep(s) /\ UNCHANGED chain

Spec == Init /\ [][Next]_vars

(* Timers fire, SIGKILL takes effect, an engine without its socket exits,   *)
(* and provisioning ends one way or the other.  Neither an answer nor a     *)
(* connection is assumed.                                                   *)
Fairness ==
    /\ \A c \in Callers :
          /\ WF_vars(Begin(c))
          /\ WF_vars((ProvisionFails(c) \/ StartReady(c) \/ StartCold(c)) /\ UNCHANGED chain)
          /\ WF_vars((Fork(c) \/ StartFails(c)) /\ UNCHANGED chain)
          /\ WF_vars(TimerFires(c) /\ UNCHANGED chain)
          /\ WF_vars(RpcTimesOut(c) /\ UNCHANGED chain)
          /\ WF_vars(Return(c))
    /\ \A s \in Sandboxes : WF_vars(proc[s] \in {"killed", "exiting"} /\ ProcessStep(s)
                                      /\ UNCHANGED chain)

FairSpec == Spec /\ Fairness

-----------------------------------------------------------------------------
(* No engine is leaked: a live process is the current sandbox of its box,   *)
(* or has been sent SIGKILL, or is exiting by itself.                       *)
NoOrphanedEngine ==
    /\ orphans = 0
    /\ \A s \in Sandboxes :
          proc[s] \in {"booting", "up"} => \E b \in Boxes : current[b] = s

(* The sandbox a call runs in is not shut down under it: whatever ends the  *)
(* process, it is not the shutdown of another call.                         *)
NotShutDownWhileRunning ==
    \A c \in Callers : pc[c] = "running" => ~shut[using[c]]

(* Once the timer of an operation has killed its process, the operation can *)
(* still be told: it listens for the 'close' of that process, or the        *)
(* process is gone and it was told already.                                 *)
TimeoutIsHeard ==
    \A c \in Callers :
        (pc[c] = "running" /\ proc[using[c]] \in Live) => c \in closing[using[c]]

(* An operation is blamed on memory only if its process ran out of memory;  *)
(* in a reused sandbox also if it began after the timer of an earlier       *)
(* operation, whose answer came first, had killed the process.              *)
MemoryVerdictExplained ==
    \A c \in Callers :
        result[c] = "memory" => diedOf[c] = "oom" \/ (reusable /\ diedOf[c] = "sigkill")

(* Every call that is submitted settles, whatever its predecessors did. *)
EveryCallSettles == \A c \in Callers : pc[c] = "queued" ~> pc[c] = "idle"

-----------------------------------------------------------------------------
(* The promise chain implements an exclusive first-come first-served box. *)
Box == INSTANCE ExclusiveBox WITH
           queue <- chain,
           serving <- {c \in Callers : pc[c] \in Holding}

ServesInOrder == Box!Spec
===============================================================================
