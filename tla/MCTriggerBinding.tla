--------------------------- MODULE MCTriggerBinding ---------------------------
(***************************************************************************)
(* Two replicas and one request at a time: what it meets are tick handlers,*)
(* boots and crashes.  Settings with both expressions, with a renew        *)
(* expression that is not valid, and with such a run expression.           *)
(***************************************************************************)
EXTENDS TriggerBinding, TLC

CONSTANTS r1, r2, q1, both, broken, mute

MCRun == (both :> "valid") @@ (broken :> "valid") @@ (mute :> "invalid")
MCRenew == (both :> "valid") @@ (broken :> "invalid") @@ (mute :> "valid")
===============================================================================
