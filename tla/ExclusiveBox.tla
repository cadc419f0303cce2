------------------------------ MODULE ExclusiveBox ------------------------------
(***************************************************************************)
(* What a box promises its callers: it serves one operation at a time, in  *)
(* the order in which they were submitted, and an operation leaves the box *)
(* before the next one enters, however it ended.                           *)
(***************************************************************************)
EXTENDS Naturals, Sequences

CONSTANT Callers

VARIABLES
    queue,      \* the operations submitted and not yet finished, oldest first
    serving     \* those that are in the box

boxVars == <<queue, serving>>

Init == queue = <<>> /\ serving = {}

Submit(c) ==
    /\ \A i \in 1 .. Len(queue) : queue[i] # c
    /\ queue' = Append(queue, c)
    /\ UNCHANGED serving

Enter(c) ==
    /\ queue # <<>>
    /\ c = Head(queue)
    /\ serving = {}
    /\ serving' = {c}
    /\ UNCHANGED queue

Leave(c) ==
    /\ serving = {c}
    /\ c = Head(queue)
    /\ serving' = {}
    /\ queue' = Tail(queue)

Next == \E c \in Callers : Submit(c) \/ Enter(c) \/ Leave(c)

Spec == Init /\ [][Next]_boxVars
===============================================================================
