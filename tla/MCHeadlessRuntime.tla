--------------------------- MODULE MCHeadlessRuntime ---------------------------
(* Three callers on the one box of HeadlessRuntime, in both reuse modes.    *)
(* Two sandboxes are alive when a shutdown runs in the background of the    *)
(* next call; a third name lets a second shutdown still be under way.       *)
EXTENDS HeadlessRuntime
===============================================================================
