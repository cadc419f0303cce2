----------------------------- MODULE MCEventStream -----------------------------
(* One emitter, two requests on either of two replicas, two events and a    *)
(* history of one: the second event may be dropped from it.                 *)
EXTENDS EventStream, TLC

CONSTANTS r1, r2, e1, c1, c2

Symmetry == Permutations({c1, c2})

MCHome == [e \in {e1} |-> r1]

Away == {c \in Connections : phase[c] = "away"}

(* Listeners leak on one replica.  A leak and a fault meet only away from   *)
(* the emitter's process, and then one request is served at a time.  There  *)
(* is one fault; a second one only together with a history that could not   *)
(* be read on a replica that has events in memory, which takes two.         *)
Bounds ==
    /\ \E r \in Replicas : ~leaked[r]
    /\ faults > 0 => ~leaked[r1] /\ (leaked[r2] => Away # {})
    /\ faults = 2 => \E c \in Connections :
          unread[c] # {} /\ memory[where[c]] # <<>> /\ Connections \ {c} = Away
===============================================================================
