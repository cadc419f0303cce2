------------------------ MODULE UserInteractionWatcher ------------------------
(***************************************************************************)
(* userInteractionWatcher.submitAndWaitForResponse: the API server's calls *)
(* to the engine, spread round-robin over the boxes of one sandbox runtime *)
(* (10 of them in the code).  Nothing waits for a box to be free.          *)
(***************************************************************************)
EXTENDS SandboxRuntime

VARIABLE nextWorkerIndex    \* modulo the number of boxes, which are 0, 1, ...

vars == <<runtimeVars, nextWorkerIndex>>

Init ==
    /\ RuntimeInit
    /\ nextWorkerIndex = 0

(* (nextWorkerIndex++) % 10, before the awaits that resolve the URLs and    *)
(* the engine token.                                                        *)
Submit(c) ==
    /\ pc[c] = "idle"
    /\ pc' = [pc EXCEPT ![c] = "queued"]
    /\ box' = [box EXCEPT ![c] = nextWorkerIndex]
    /\ nextWorkerIndex' = (nextWorkerIndex + 1) % Cardinality(Boxes)
    /\ UNCHANGED <<reusable, sandboxVars, using, timedOut, result, diedOf>>

(* sandboxRuntime.execute is called, whoever else is in that box. *)
Begin(c) ==
    /\ pc[c] = "queued"
    /\ Acquire(c)

Next ==
    \/ \E c \in Callers : Submit(c)
    \/ /\ \/ \E c \in Callers : Begin(c) \/ CallStep(c) \/ Finish(c)
          \/ \E s \in Sandboxes : ProcessStep(s)
       /\ UNCHANGED nextWorkerIndex

Spec == Init /\ [][Next]_vars
===============================================================================
