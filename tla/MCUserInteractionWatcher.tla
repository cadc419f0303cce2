----------------------- MODULE MCUserInteractionWatcher -----------------------
(* Two requests at a time over two boxes: never more requests in flight     *)
(* than there are boxes.                                                    *)
EXTENDS UserInteractionWatcher
===============================================================================
