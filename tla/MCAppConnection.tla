---------------------------- MODULE MCAppConnection ----------------------------
(***************************************************************************)
(* Two requests, two authorisations, each refreshed once: the requests are *)
(* any two of get, test and upsert, as often as the bounds let them, with  *)
(* deletions, withdrawn authorisations and one fault.                      *)
(***************************************************************************)
EXTENDS AppConnection

CONSTANTS c1, c2
===============================================================================
