---------------------------- MODULE MCScheduledTask ----------------------------
(***************************************************************************)
(* Two cron expressions on a round of eight seconds.  One is sparse at 0   *)
(* and not at 5; the other has instants one, three and four seconds apart. *)
(* So the time to live of the lock is its floor, its cap or what remains   *)
(* to the next instant, and handlers of two instants overlap.              *)
(***************************************************************************)
EXTENDS ScheduledTask, TLC

CONSTANTS r1, r2, q1, often, seldom

MCInstants == (often :> {0, 1, 4}) @@ (seldom :> {0, 5})
MCEveryRound == often :> {0}

Symmetry == Permutations({r1, r2})
===============================================================================
