-------------------------- MODULE MCConcurrencyGuard --------------------------
(* Three callers on two processes: enough for two releases and two acquires *)
(* of one project to overlap, and for one process to take two callers down. *)
EXTENDS ConcurrencyGuard, TLC

CONSTANTS c1, c2, c3, r1, r2

MCCallers == {c1, c2, c3}
MCReplicas == {r1, r2}
MCHost == c1 :> r1 @@ c2 :> r1 @@ c3 :> r2
===============================================================================
