------------------------- MODULE HeadlessRuntimeProofs -------------------------
(***************************************************************************)
(* Proofs about the headless runtime, for any number of callers, boxes and *)
(* sandboxes.                                                              *)
(***************************************************************************)
EXTENDS HeadlessRuntime, TLAPS

USE SandboxAssumption DEF SandboxAssumption

-----------------------------------------------------------------------------
(* Type correctness. *)

LEMMA ConcludeType ==
    ASSUME RuntimeTypeOK,
           NEW C \in SUBSET Callers,
           NEW v \in [C -> Verdicts],
           NEW p \in [Sandboxes -> ProcessStates],
           Conclude(C, v, p)
    PROVE  /\ result' \in [Callers -> Verdicts]
           /\ pc' \in [Callers -> CallStates]
           /\ using' \in [Callers -> Sandboxes \cup {NoSandbox}]
           /\ current' \in [Boxes -> Sandboxes \cup {NoSandbox}]
           /\ proc' \in [Sandboxes -> ProcessStates]
           /\ sock' \in [Sandboxes -> BOOLEAN]
           /\ shut' \in [Sandboxes -> BOOLEAN]
           /\ reusable' = reusable /\ orphans' = orphans
           /\ box' = box /\ timedOut' = timedOut
  <1> USE DEF RuntimeTypeOK
  <1>1. result' \in [Callers -> Verdicts]
    BY DEF Conclude
  <1>2. pc' \in [Callers -> CallStates]
    BY DEF Conclude, CallStates, Holding
  <1>3. /\ using' \in [Callers -> Sandboxes \cup {NoSandbox}]
        /\ current' \in [Boxes -> Sandboxes \cup {NoSandbox}]
    BY DEF Conclude
  <1>4. proc' \in [Sandboxes -> ProcessStates]
    BY DEF Conclude, Killed, ProcessStates
  <1>5. sock' \in [Sandboxes -> BOOLEAN] /\ shut' \in [Sandboxes -> BOOLEAN]
    BY Zenon DEF Conclude
  <1>6. QED
    BY <1>1, <1>2, <1>3, <1>4, <1>5 DEF Conclude

(* A call whose start fails, or that settles, on its own. *)
LEMMA ConcludeOneType ==
    ASSUME RuntimeTypeOK, NEW c \in Callers, NEW verdict \in Verdicts,
           Conclude({c}, [d \in {c} |-> verdict], proc),
           closing' \in [Sandboxes -> SUBSET Callers],
           UNCHANGED diedOf
    PROVE  RuntimeTypeOK'
  <1>1. [d \in {c} |-> verdict] \in [{c} -> Verdicts]
    OBVIOUS
  <1>2. proc \in [Sandboxes -> ProcessStates]
    BY DEF RuntimeTypeOK
  <1>3. QED
    BY <1>1, <1>2, ConcludeType DEF RuntimeTypeOK
LEMMA ExitType ==
    ASSUME RuntimeTypeOK, NEW s \in Sandboxes, NEW cause \in Causes, ProcessExits(s, cause)
    PROVE  RuntimeTypeOK'
  <1> DEFINE starting == {c \in Callers : pc[c] = "booting" /\ using[c] = s}
             hit == starting \cup closing[s]
             verdicts == [c \in hit |-> IF c \in starting THEN "failed"
                                        ELSE ExitVerdict(c, s, cause)]
             after == [proc EXCEPT ![s] = "dead"]
  <1>1. hit \in SUBSET Callers
    BY DEF RuntimeTypeOK
  <1>2. verdicts \in [hit -> Verdicts]
    BY DEF ExitVerdict, Verdicts
  <1>3. after \in [Sandboxes -> ProcessStates]
    BY DEF RuntimeTypeOK, ProcessStates
  <1>4. Conclude(hit, verdicts, after)
    BY DEF ProcessExits
  <1>5. closing' \in [Sandboxes -> SUBSET Callers] /\ diedOf' \in [Callers -> Causes]
    BY DEF ProcessExits, RuntimeTypeOK
  <1> HIDE DEF hit, verdicts, after
  <1>6. QED
    BY <1>1, <1>2, <1>3, <1>4, <1>5, ConcludeType DEF RuntimeTypeOK

LEMMA AcquireType ==
    ASSUME RuntimeTypeOK, NEW c \in Callers, Acquire(c)
    PROVE  RuntimeTypeOK'
  <1> USE DEF RuntimeTypeOK
  <1>1. pc' \in [Callers -> CallStates]
    BY DEF Acquire, CallStates, Holding
  <1>2. UNCHANGED <<reusable, orphans, box, timedOut, result, diedOf>>
    BY DEF Acquire, sandboxVars
  <1>3. CASE /\ reusable /\ current[box[c]] # NoSandbox
             /\ using' = [using EXCEPT ![c] = current[box[c]]]
             /\ UNCHANGED sandboxVars
    BY <1>1, <1>2, <1>3 DEF sandboxVars
  <1>4. ASSUME NEW s \in Sandboxes,
               using' = [using EXCEPT ![c] = s],
               current' = [current EXCEPT ![box[c]] = s],
               proc' = [x \in Sandboxes |->
                          IF x = s THEN "none"
                          ELSE IF x = current[box[c]] THEN Killed(proc[x]) ELSE proc[x]],
               sock' = [x \in Sandboxes |-> sock[x] /\ x \notin {s, current[box[c]]}],
               shut' = [x \in Sandboxes |->
                          x # s /\ (shut[x] \/ (x = current[box[c]] /\ proc[x] # "none"))],
               closing' = [closing EXCEPT ![s] = {}]
        PROVE  RuntimeTypeOK'
    <2>1. /\ using' \in [Callers -> Sandboxes \cup {NoSandbox}]
          /\ current' \in [Boxes -> Sandboxes \cup {NoSandbox}]
          /\ closing' \in [Sandboxes -> SUBSET Callers]
      BY <1>4
    <2>2. proc' \in [Sandboxes -> ProcessStates]
      BY <1>4 DEF Killed, ProcessStates
    <2>3. sock' \in [Sandboxes -> BOOLEAN] /\ shut' \in [Sandboxes -> BOOLEAN]
      BY <1>4, Zenon
    <2>4. QED
      BY <1>1, <1>2, <2>1, <2>2, <2>3
  <1>5. QED
    BY <1>3, <1>4 DEF Acquire

LEMMA CallStepType ==
    ASSUME RuntimeTypeOK, NEW c \in Callers, CallStep(c)
    PROVE  RuntimeTypeOK'
  <1>1. CASE ProvisionFails(c) \/ StartFails(c)
    <2>1. closing' \in [Sandboxes -> SUBSET Callers]
      BY <1>1 DEF ProvisionFails, StartFails, RuntimeTypeOK
    <2>2. QED
      BY <1>1, <2>1, ConcludeOneType DEF ProvisionFails, StartFails, Verdicts
  <1>2. CASE StartReady(c)
    BY <1>2 DEF StartReady, Execute, RuntimeTypeOK, CallStates, Holding
  <1>3. CASE StartCold(c)
    BY <1>3 DEF StartCold, sandboxVars, RuntimeTypeOK, CallStates, Holding
  <1>4. CASE Fork(c)
    <2>1. orphans' \in Nat
      BY <1>4 DEF Fork, RuntimeTypeOK
    <2>2. proc' \in [Sandboxes -> ProcessStates] /\ pc' \in [Callers -> CallStates]
      BY <1>4 DEF Fork, RuntimeTypeOK, CallStates, Holding, ProcessStates
    <2>3. closing' \in [Sandboxes -> SUBSET Callers] /\ sock' \in [Sandboxes -> BOOLEAN]
      BY <1>4 DEF Fork, RuntimeTypeOK
    <2>4. QED
      BY <1>4, <2>1, <2>2, <2>3 DEF Fork, RuntimeTypeOK
  <1>5. CASE Connect(c)
    BY <1>5 DEF Connect, Execute, RuntimeTypeOK, CallStates, Holding, ProcessStates
  <1>6. CASE EngineAnswers(c) \/ RpcTimesOut(c)
    <2>1. PICK verdict \in Verdicts : Settle(c, verdict)
      BY <1>6 DEF EngineAnswers, RpcTimesOut, Verdicts
    <2>2. closing' \in [Sandboxes -> SUBSET Callers]
      BY <2>1 DEF Settle, RuntimeTypeOK
    <2>3. QED
      BY <2>1, <2>2, ConcludeOneType DEF Settle
  <1>7. CASE TimerFires(c)
    BY <1>7 DEF TimerFires, Killed, RuntimeTypeOK, ProcessStates
  <1>8. QED
    BY <1>1, <1>2, <1>3, <1>4, <1>5, <1>6, <1>7 DEF CallStep

LEMMA ProcessStepType ==
    ASSUME RuntimeTypeOK, NEW s \in Sandboxes, ProcessStep(s)
    PROVE  RuntimeTypeOK'
  <1>1. CASE SocketDrops(s)
    BY <1>1 DEF SocketDrops, callVars, RuntimeTypeOK, ProcessStates
  <1>2. QED
    BY <1>1, ExitType DEF ProcessStep

LEMMA FinishType ==
    ASSUME RuntimeTypeOK, NEW c \in Callers, Finish(c)
    PROVE  RuntimeTypeOK'
  BY DEF Finish, sandboxVars, RuntimeTypeOK, CallStates, Verdicts, Causes
-----------------------------------------------------------------------------
(* The promise chain.  It holds exactly the calls that wait or run, each    *)
(* once, and only the first of them can be in the box.  A listener for the  *)
(* 'close' of a process belongs to a call that runs in that sandbox: without *)
(* this, a process that exits could settle a call that is not in the box.   *)
ChainHoldsCalls ==
    \A c \in Callers : pc[c] # "idle" <=> \E i \in 1 .. Len(chain) : chain[i] = c

ChainHasNoRepeats ==
    \A i, j \in 1 .. Len(chain) : chain[i] = chain[j] => i = j

HeadIsInBox == \A c \in Callers : pc[c] \in Holding => c = chain[1]

ListenersRun ==
    \A s \in Sandboxes : \A c \in closing[s] : pc[c] = "running" /\ using[c] = s

ChainInv ==
    /\ TypeOK
    /\ ChainHoldsCalls
    /\ ChainHasNoRepeats
    /\ HeadIsInBox
    /\ ListenersRun

(* Nobody enters or leaves the box. *)
BoxSteady ==
    \A c \in Callers : \/ pc'[c] = pc[c]
                       \/ pc[c] \in Holding /\ pc'[c] \in Holding

(* What a call does in the box keeps it there. *)
LEMMA CallStepSteady ==
    ASSUME ChainInv, NEW c \in Callers, CallStep(c)
    PROVE  BoxSteady /\ ListenersRun'
  <1> USE DEF ChainInv, TypeOK, RuntimeTypeOK, ListenersRun, BoxSteady, Holding
  <1>1. CASE ProvisionFails(c) \/ StartFails(c)
    BY <1>1 DEF ProvisionFails, StartFails, Conclude
  <1>2. CASE StartReady(c)
    BY <1>2 DEF StartReady, Execute, IsReady
  <1>3. CASE StartCold(c)
    BY <1>3 DEF StartCold, sandboxVars
  <1>4. CASE Fork(c)
    BY <1>4 DEF Fork
  <1>5. CASE Connect(c)
    BY <1>5 DEF Connect, Execute
  <1>6. CASE EngineAnswers(c) \/ RpcTimesOut(c)
    <2>1. PICK verdict : Settle(c, verdict)
      BY <1>6 DEF EngineAnswers, RpcTimesOut
    <2>2. /\ pc[c] = "running" /\ closing' = [closing EXCEPT ![using[c]] = {}]
          /\ pc' = [d \in Callers |-> IF d = c THEN "returning" ELSE pc[d]]
          /\ using' = [d \in Callers |-> IF d = c THEN NoSandbox ELSE using[d]]
      BY <2>1 DEF Settle, Conclude
    <2>3. QED
      BY <2>2
  <1>7. CASE TimerFires(c)
    BY <1>7 DEF TimerFires
  <1>8. QED
    BY <1>1, <1>2, <1>3, <1>4, <1>5, <1>6, <1>7 DEF CallStep

(* A process that exits settles only calls that are in the box. *)
LEMMA ProcessStepSteady ==
    ASSUME ChainInv, NEW s \in Sandboxes, ProcessStep(s)
    PROVE  BoxSteady /\ ListenersRun'
  <1> USE DEF ChainInv, TypeOK, RuntimeTypeOK, ListenersRun, BoxSteady, Holding
  <1>1. ASSUME NEW cause \in Causes, ProcessExits(s, cause)
        PROVE  BoxSteady /\ ListenersRun'
    BY <1>1 DEF ProcessExits, Conclude
  <1>2. CASE SocketDrops(s)
    BY <1>2 DEF SocketDrops, callVars
  <1>3. QED
    BY <1>1, <1>2 DEF ProcessStep

(* A step inside the box leaves the chain invariant alone. *)
LEMMA SteadyKeepsChain ==
    ASSUME ChainInv, RuntimeTypeOK', BoxSteady, ListenersRun', UNCHANGED chain
    PROVE  ChainInv'
  <1>1. \A c \in Callers : pc'[c] # "idle" <=> pc[c] # "idle"
    BY DEF BoxSteady, Holding
  <1>2. \A c \in Callers : pc'[c] \in Holding => pc[c] \in Holding
    BY DEF BoxSteady
  <1>3. QED
    BY <1>1, <1>2 DEF ChainInv, TypeOK, ChainHoldsCalls, ChainHasNoRepeats, HeadIsInBox

LEMMA SubmitKeepsChain ==
    ASSUME ChainInv, NEW c \in Callers, Submit(c)
    PROVE  ChainInv'
  <1> USE DEF ChainInv, TypeOK
  <1>1. RuntimeTypeOK'
    BY DEF Submit, sandboxVars, RuntimeTypeOK, CallStates
  <1>2. /\ chain' \in Seq(Callers)
        /\ Len(chain') = Len(chain) + 1
        /\ Len(chain) \in Nat
        /\ chain'[Len(chain) + 1] = c
        /\ \A i \in 1 .. Len(chain) : chain'[i] = chain[i]
    BY DEF Submit
  <1>3. \A i \in 1 .. Len(chain) : chain[i] # c
    BY DEF Submit, ChainHoldsCalls
  <1>4. pc' = [pc EXCEPT ![c] = "queued"] /\ pc \in [Callers -> CallStates]
    BY DEF Submit, RuntimeTypeOK
  <1>5. ChainHoldsCalls'
    BY <1>2, <1>4 DEF ChainHoldsCalls
  <1>6. ChainHasNoRepeats'
    BY <1>2, <1>3 DEF ChainHasNoRepeats
  <1>7. HeadIsInBox'
    <2>1. SUFFICES ASSUME NEW d \in Callers, pc'[d] \in Holding PROVE d = chain'[1]
      BY DEF HeadIsInBox
    <2>2. pc[d] \in Holding
      BY <1>4, <2>1 DEF Holding
    <2>3. d = chain[1] /\ Len(chain) # 0
      BY <1>2, <2>2 DEF HeadIsInBox, ChainHoldsCalls, Holding
    <2>4. QED
      BY <1>2, <2>3
  <1>8. ListenersRun'
    BY DEF Submit, sandboxVars, ListenersRun, RuntimeTypeOK
  <1>9. QED
    BY <1>1, <1>2, <1>5, <1>6, <1>7, <1>8

LEMMA BeginKeepsChain ==
    ASSUME ChainInv, NEW c \in Callers, Begin(c)
    PROVE  /\ ChainInv'
           /\ Len(chain) # 0 /\ c = chain[1] /\ UNCHANGED chain
           /\ pc' = [pc EXCEPT ![c] = "provisioning"]
           /\ \A d \in Callers : pc[d] \notin Holding
  <1> USE DEF ChainInv, TypeOK
  <1>1. RuntimeTypeOK'
    BY AcquireType DEF Begin
  <1>2. /\ pc[c] = "queued" /\ c = Head(chain) /\ UNCHANGED chain
        /\ pc' = [pc EXCEPT ![c] = "provisioning"]
        /\ pc \in [Callers -> CallStates]
    BY DEF Begin, Acquire, RuntimeTypeOK
  <1>3. Len(chain) # 0 /\ c = chain[1]
    BY <1>2 DEF ChainHoldsCalls
  <1>4. \A d \in Callers : pc[d] \notin Holding
    BY <1>2, <1>3 DEF HeadIsInBox, Holding
  <1>5. ChainHoldsCalls' /\ ChainHasNoRepeats'
    BY <1>2 DEF ChainHoldsCalls, ChainHasNoRepeats
  <1>6. HeadIsInBox'
    BY <1>2, <1>3, <1>4 DEF HeadIsInBox
  <1>7. ListenersRun'
    BY <1>4 DEF Begin, Acquire, sandboxVars, ListenersRun, RuntimeTypeOK, Holding
  <1>8. QED
    BY <1>1, <1>2, <1>3, <1>4, <1>5, <1>6, <1>7

LEMMA ReturnKeepsChain ==
    ASSUME ChainInv, NEW c \in Callers, Return(c)
    PROVE  /\ ChainInv'
           /\ Len(chain) # 0 /\ c = chain[1]
           /\ pc[c] \in Holding /\ pc' = [pc EXCEPT ![c] = "idle"]
  <1> USE DEF ChainInv, TypeOK
  <1>1. RuntimeTypeOK'
    BY FinishType DEF Return
  <1>2. /\ pc[c] = "returning" /\ pc[c] \in Holding
        /\ pc' = [pc EXCEPT ![c] = "idle"]
        /\ pc \in [Callers -> CallStates]
        /\ chain' = Tail(chain)
    BY DEF Return, Finish, RuntimeTypeOK, Holding
  <1>3. Len(chain) # 0 /\ c = chain[1]
    BY <1>2 DEF HeadIsInBox, ChainHoldsCalls
  <1>4. /\ chain' \in Seq(Callers)
        /\ Len(chain') = Len(chain) - 1 /\ Len(chain) \in Nat
        /\ \A i \in 1 .. Len(chain) - 1 : chain'[i] = chain[i + 1]
    BY <1>2, <1>3
  <1>5. ChainHoldsCalls'
    <2>1. ASSUME NEW d \in Callers, NEW i \in 1 .. Len(chain'), chain'[i] = d
          PROVE  pc'[d] # "idle"
      <3>1. chain[i + 1] = d /\ i + 1 \in 1 .. Len(chain) /\ i + 1 # 1
        BY <1>4, <2>1
      <3>2. pc[d] # "idle" /\ d # c
        BY <1>3, <1>4, <3>1 DEF ChainHoldsCalls, ChainHasNoRepeats
      <3>3. QED
        BY <1>2, <3>2
    <2>2. ASSUME NEW d \in Callers, pc'[d] # "idle"
          PROVE  \E i \in 1 .. Len(chain') : chain'[i] = d
      <3>1. d # c /\ pc[d] # "idle"
        BY <1>2, <2>2
      <3>2. PICK i \in 1 .. Len(chain) : chain[i] = d
        BY <3>1 DEF ChainHoldsCalls
      <3>3. i - 1 \in 1 .. Len(chain') /\ chain'[i - 1] = d
        BY <1>3, <1>4, <3>1, <3>2
      <3>4. QED
        BY <3>3
    <2>3. QED
      BY <2>1, <2>2 DEF ChainHoldsCalls
  <1>6. ChainHasNoRepeats'
    BY <1>4 DEF ChainHasNoRepeats
  <1>7. HeadIsInBox'
    <2>1. ASSUME NEW d \in Callers PROVE pc'[d] \notin Holding
      <3>1. CASE d = c
        BY <1>2, <3>1 DEF Holding
      <3>2. CASE d # c
        BY <1>2, <1>3, <3>2 DEF HeadIsInBox
      <3>3. QED
        BY <3>1, <3>2
    <2>2. QED
      BY <2>1 DEF HeadIsInBox
  <1>8. ListenersRun'
    BY <1>2 DEF Return, Finish, sandboxVars, ListenersRun, RuntimeTypeOK
  <1>9. QED
    BY <1>1, <1>2, <1>3, <1>4, <1>5, <1>6, <1>7, <1>8
LEMMA ChainInvInit == Init => ChainInv
  <1> SUFFICES ASSUME Init PROVE ChainInv
    OBVIOUS
  <1> USE DEF Init, RuntimeInit
  <1>1. TypeOK
    BY DEF TypeOK, RuntimeTypeOK, ProcessStates, CallStates, Verdicts, Causes
  <1>2. ChainHoldsCalls /\ ChainHasNoRepeats
    BY DEF ChainHoldsCalls, ChainHasNoRepeats
  <1>3. HeadIsInBox /\ ListenersRun
    BY DEF HeadIsInBox, ListenersRun, Holding
  <1>4. QED
    BY <1>1, <1>2, <1>3 DEF ChainInv

LEMMA SteadyStep ==
    ASSUME ChainInv,
           \/ \E c \in Callers : CallStep(c) /\ UNCHANGED chain
           \/ \E s \in Sandboxes : ProcessStep(s) /\ UNCHANGED chain
           \/ UNCHANGED vars
    PROVE  ChainInv' /\ BoxSteady /\ UNCHANGED chain
  <1>1. RuntimeTypeOK
    BY DEF ChainInv, TypeOK
  <1>2. ASSUME NEW c \in Callers, CallStep(c), UNCHANGED chain
        PROVE  ChainInv' /\ BoxSteady
    BY <1>1, <1>2, CallStepType, CallStepSteady, SteadyKeepsChain
  <1>3. ASSUME NEW s \in Sandboxes, ProcessStep(s), UNCHANGED chain
        PROVE  ChainInv' /\ BoxSteady
    BY <1>1, <1>3, ProcessStepType, ProcessStepSteady, SteadyKeepsChain
  <1>4. CASE UNCHANGED vars
    <2>1. UNCHANGED <<runtimeVars, sandboxVars, callVars, chain>>
      BY <1>4 DEF vars, runtimeVars, sandboxVars, callVars
    <2>2. BoxSteady
      BY <2>1 DEF callVars, BoxSteady
    <2>3. ListenersRun'
      BY <2>1 DEF sandboxVars, callVars, ChainInv, ListenersRun
    <2>4. RuntimeTypeOK'
      BY <1>1, <2>1 DEF runtimeVars, sandboxVars, callVars, RuntimeTypeOK
    <2>5. QED
      BY <2>1, <2>2, <2>3, <2>4, SteadyKeepsChain
  <1>5. QED
    BY <1>2, <1>3, <1>4 DEF vars

LEMMA ChainInvStep == ChainInv /\ [Next]_vars => ChainInv'
  <1> SUFFICES ASSUME ChainInv, [Next]_vars PROVE ChainInv'
    OBVIOUS
  <1>1. ASSUME NEW c \in Callers, Submit(c) \/ Begin(c) \/ Return(c) PROVE ChainInv'
    BY <1>1, SubmitKeepsChain, BeginKeepsChain, ReturnKeepsChain
  <1>2. CASE \/ \E c \in Callers : CallStep(c) /\ UNCHANGED chain
             \/ \E s \in Sandboxes : ProcessStep(s) /\ UNCHANGED chain
             \/ UNCHANGED vars
    BY <1>2, SteadyStep
  <1>3. QED
    BY <1>1, <1>2 DEF Next

THEOREM ChainInvariant == Spec => []ChainInv
  BY ChainInvInit, ChainInvStep, PTL DEF Spec

(* Type correctness. *)
THEOREM TypeCorrect == Spec => []TypeOK
  <1>1. ChainInv => TypeOK
    BY DEF ChainInv
  <1>2. QED
    BY <1>1, ChainInvariant, PTL

(* One operation at a time: execute's callers keep the promise that each    *)
(* box holds one in-flight operation.                                       *)
THEOREM OneAtATime == Spec => []OneOperationPerBox
  <1>1. ChainInv => OneOperationPerBox
    BY DEF ChainInv, HeadIsInBox, OneOperationPerBox
  <1>2. QED
    BY <1>1, ChainInvariant, PTL

-----------------------------------------------------------------------------
(* The promise chain implements the exclusive first-come first-served box. *)

Serving == {c \in Callers : pc[c] \in Holding}

LEMMA BoxInit == Init => Box!Init
  BY DEF Init, RuntimeInit, Box!Init, Holding

LEMMA BoxStep == ChainInv /\ [Next]_vars => [Box!Next]_(Box!boxVars)
  <1> SUFFICES ASSUME ChainInv, [Next]_vars PROVE [Box!Next]_(Box!boxVars)
    OBVIOUS
  <1> USE DEF Box!boxVars
  <1>0. pc \in [Callers -> CallStates] /\ chain \in Seq(Callers)
    BY DEF ChainInv, TypeOK, RuntimeTypeOK
  <1>1. ASSUME NEW c \in Callers, Submit(c) PROVE Box!Submit(c)
    <2>1. \A i \in 1 .. Len(chain) : chain[i] # c
      BY <1>1 DEF Submit, ChainInv, ChainHoldsCalls
    <2>2. Serving' = Serving
      BY <1>0, <1>1 DEF Submit, Serving, Holding
    <2>3. QED
      BY <1>1, <2>1, <2>2 DEF Submit, Box!Submit, Serving
  <1>2. ASSUME NEW c \in Callers, Begin(c) PROVE Box!Enter(c)
    <2>1. /\ Len(chain) # 0 /\ c = chain[1] /\ UNCHANGED chain
          /\ pc' = [pc EXCEPT ![c] = "provisioning"]
          /\ \A d \in Callers : pc[d] \notin Holding
      BY <1>2, BeginKeepsChain
    <2>2. Serving = {} /\ Serving' = {c}
      BY <1>0, <2>1 DEF Serving, Holding
    <2>3. QED
      BY <1>0, <2>1, <2>2 DEF Box!Enter, Serving
  <1>3. ASSUME NEW c \in Callers, Return(c) PROVE Box!Leave(c)
    <2>1. /\ Len(chain) # 0 /\ c = chain[1]
          /\ pc[c] \in Holding /\ pc' = [pc EXCEPT ![c] = "idle"]
      BY <1>3, ReturnKeepsChain
    <2>2. \A d \in Callers : pc[d] \in Holding => d = c
      BY <2>1 DEF ChainInv, HeadIsInBox
    <2>3. Serving = {c} /\ Serving' = {}
      BY <1>0, <2>1, <2>2 DEF Serving, Holding
    <2>4. QED
      BY <1>0, <1>3, <2>1, <2>3 DEF Return, Box!Leave, Serving
  <1>4. ASSUME BoxSteady, UNCHANGED chain PROVE UNCHANGED <<chain, Serving>>
    BY <1>4 DEF BoxSteady, Serving
  <1>5. CASE \/ \E c \in Callers : CallStep(c) /\ UNCHANGED chain
             \/ \E s \in Sandboxes : ProcessStep(s) /\ UNCHANGED chain
             \/ UNCHANGED vars
    BY <1>4, <1>5, SteadyStep DEF Serving
  <1>6. QED
    BY <1>1, <1>2, <1>3, <1>5 DEF Next, Box!Next

(* The runtime implements ExclusiveBox: operations enter the box one at a   *)
(* time, in the order in which they were submitted, and leave before the    *)
(* next one enters, however they end.                                       *)
THEOREM ImplementsBox == Spec => ServesInOrder
  BY BoxInit, BoxStep, ChainInvariant, PTL DEF Spec, ServesInOrder, Box!Spec

-----------------------------------------------------------------------------
(* The engines.  A call that is over or has not begun has no sandbox; one   *)
(* that is in the box has the sandbox that is current there.                *)
Active == {"provisioning", "binding", "booting", "running"}

HasSandbox ==
    \A c \in Callers :
        IF pc[c] \in Active
        THEN using[c] \in Sandboxes /\ current[box[c]] = using[c]
        ELSE using[c] = NoSandbox

(* A sandbox is current in one box at most, and not shut down there. *)
OneBoxEach ==
    \A a, b \in Boxes : (current[a] = current[b] /\ current[a] # NoSandbox) => a = b

CurrentNotShut ==
    \A b \in Boxes : current[b] # NoSandbox => ~shut[current[b]]

(* An engine that runs has its socket, one that boots has a call that waits *)
(* for it, and where a call is about to fork there is none.                 *)
EnginesHaveCalls ==
    /\ \A s \in Sandboxes :
          /\ proc[s] = "up" => sock[s]
          /\ proc[s] = "booting" => \E c \in Callers : pc[c] = "booting" /\ using[c] = s
    /\ \A c \in Callers : pc[c] = "binding" => proc[using[c]] \notin {"booting", "up"}

(* Unless sandboxes are reused, only its own timer kills a call's process. *)
KilledByTimer ==
    \A c \in Callers :
        (~reusable /\ pc[c] \in Active /\ proc[using[c]] = "killed") => timedOut[c]

EngineInv ==
    /\ HasSandbox /\ OneBoxEach /\ CurrentNotShut /\ EnginesHaveCalls /\ KilledByTimer
    /\ NoOrphanedEngine /\ TimeoutIsHeard /\ MemoryVerdictExplained

(* Only c is in the box. *)
Alone(c) == \A d \in Callers : d # c => pc[d] \notin Holding

LEMMA ActiveHolds == Active \subseteq Holding /\ "returning" \notin Active
  BY DEF Active, Holding

(* The call c has settled with a verdict, when the processes were as p says. *)
Settled(c, verdict, p) ==
    /\ pc' = [pc EXCEPT ![c] = "returning"] /\ using' = [using EXCEPT ![c] = NoSandbox]
    /\ result' = [result EXCEPT ![c] = verdict]
    /\ UNCHANGED <<reusable, orphans, box, timedOut>>
    /\ IF ~reusable \/ verdict # "answered"
       THEN /\ current' = [current EXCEPT ![box[c]] = NoSandbox]
            /\ \A s \in Sandboxes :
                  IF s = using[c]
                  THEN proc'[s] = Killed(p[s]) /\ ~sock'[s]
                  ELSE proc'[s] = p[s] /\ (sock'[s] <=> sock[s] /\ p[s] \in Live) /\ (shut'[s] <=> shut[s])
       ELSE /\ current' = current
            /\ \A s \in Sandboxes :
                  proc'[s] = p[s] /\ (sock'[s] <=> sock[s] /\ p[s] \in Live) /\ (shut'[s] <=> shut[s])

LEMMA ConcludeOne ==
    ASSUME RuntimeTypeOK, NEW c \in Callers, pc[c] \in Active, HasSandbox,
           NEW C, C = {c}, NEW v, NEW verdict, v[c] = verdict, NEW p, Conclude(C, v, p)
    PROVE  Settled(c, verdict, p)
  <1> DEFINE invalidated == {box[d] : d \in {x \in C : ~reusable \/ v[x] # "answered"}}
             doomed == {current[b] : b \in invalidated} \ {NoSandbox}
  <1>0. /\ pc \in [Callers -> CallStates] /\ using \in [Callers -> Sandboxes \cup {NoSandbox}]
        /\ result \in [Callers -> Verdicts] /\ current \in [Boxes -> Sandboxes \cup {NoSandbox}]
        /\ box[c] \in Boxes
    BY DEF RuntimeTypeOK
  <1>1. /\ result' = [d \in Callers |-> IF d \in C THEN v[d] ELSE result[d]]
        /\ pc' = [d \in Callers |-> IF d \in C THEN "returning" ELSE pc[d]]
        /\ using' = [d \in Callers |-> IF d \in C THEN NoSandbox ELSE using[d]]
        /\ current' = [b \in Boxes |-> IF b \in invalidated THEN NoSandbox ELSE current[b]]
        /\ proc' = [s \in Sandboxes |-> IF s \in doomed THEN Killed(p[s]) ELSE p[s]]
        /\ sock' = [s \in Sandboxes |-> sock[s] /\ s \notin doomed /\ p[s] \in Live]
        /\ shut' = [s \in Sandboxes |-> shut[s] \/ (s \in doomed /\ p[s] # "none")]
        /\ UNCHANGED <<reusable, orphans, box, timedOut>>
    BY DEF Conclude
  <1>2. current[box[c]] = using[c] /\ using[c] # NoSandbox
    BY DEF HasSandbox
  <1>3. (~reusable \/ verdict # "answered") => invalidated = {box[c]}
    OBVIOUS
  <1>4. ~(~reusable \/ verdict # "answered") => invalidated = {}
    OBVIOUS
  <1>5. (~reusable \/ verdict # "answered") => doomed = {using[c]}
    BY <1>2, <1>3
  <1>6. ~(~reusable \/ verdict # "answered") => doomed = {}
    BY <1>4
  <1> HIDE DEF invalidated, doomed
  <1>7. pc' = [pc EXCEPT ![c] = "returning"]
    BY <1>0, <1>1
  <1>8. using' = [using EXCEPT ![c] = NoSandbox]
    BY <1>0, <1>1
  <1>9. result' = [result EXCEPT ![c] = verdict]
    BY <1>0, <1>1
  <1>10. CASE ~reusable \/ verdict # "answered"
    <2>1. current' = [current EXCEPT ![box[c]] = NoSandbox]
      BY <1>0, <1>1, <1>3, <1>10
    <2>2. ASSUME NEW s \in Sandboxes
          PROVE  IF s = using[c]
                 THEN proc'[s] = Killed(p[s]) /\ ~sock'[s]
                 ELSE proc'[s] = p[s] /\ (sock'[s] <=> sock[s] /\ p[s] \in Live) /\ (shut'[s] <=> shut[s])
      <3>1. s = using[c] => proc'[s] = Killed(p[s]) /\ ~sock'[s]
        BY <1>1, <1>5, <1>10
      <3>2. s # using[c] => proc'[s] = p[s] /\ (sock'[s] <=> sock[s] /\ p[s] \in Live) /\ (shut'[s] <=> shut[s])
        BY <1>1, <1>5, <1>10, Zenon
      <3> QED BY <3>1, <3>2
    <2> QED BY <1>1, <1>7, <1>8, <1>9, <1>10, <2>1, <2>2 DEF Settled
  <1>11. CASE ~(~reusable \/ verdict # "answered")
    <2>1. current' = current
      BY <1>0, <1>1, <1>4, <1>11
    <2>2. ASSUME NEW s \in Sandboxes
          PROVE  proc'[s] = p[s] /\ (sock'[s] <=> sock[s] /\ p[s] \in Live) /\ (shut'[s] <=> shut[s])
      BY <1>1, <1>6, <1>11, Zenon
    <2> QED BY <1>1, <1>7, <1>8, <1>9, <1>11, <2>1, <2>2 DEF Settled
  <1> QED BY <1>10, <1>11

LEMMA SettleEngines ==
    ASSUME RuntimeTypeOK, RuntimeTypeOK', EngineInv, NEW c \in Callers, pc[c] \in Active, Alone(c),
           NEW verdict, NEW p, Settled(c, verdict, p),
           \A s \in Sandboxes : p[s] = proc[s] \/ p[s] = "dead",
           verdict = "answered" => pc[c] = "running",
           \A d \in Callers : d # c => diedOf'[d] = diedOf[d],
           verdict = "memory" => diedOf'[c] = "oom" \/ (reusable /\ diedOf'[c] = "sigkill")
    PROVE  EngineInv'
  <1> USE DEF EngineInv
  <1>1. /\ pc' = [pc EXCEPT ![c] = "returning"] /\ using' = [using EXCEPT ![c] = NoSandbox]
        /\ result' = [result EXCEPT ![c] = verdict]
        /\ UNCHANGED <<reusable, orphans, box, timedOut>>
    BY DEF Settled
  <1>2. current' = [current EXCEPT ![box[c]] = NoSandbox] \/ current' = current
    BY DEF Settled
  <1>3. \A s \in Sandboxes : s # using[c] =>
           proc'[s] = p[s] /\ (sock'[s] <=> sock[s] /\ p[s] \in Live) /\ (shut'[s] <=> shut[s])
    BY DEF Settled
  <1>4. IF current' = current
        THEN proc'[using[c]] = p[using[c]]
             /\ (sock'[using[c]] <=> sock[using[c]] /\ p[using[c]] \in Live)
             /\ (shut'[using[c]] <=> shut[using[c]])
             /\ verdict = "answered"
        ELSE proc'[using[c]] = Killed(p[using[c]]) /\ ~sock'[using[c]]
    <2>1. using[c] \in Sandboxes /\ current[box[c]] = using[c] /\ box[c] \in Boxes
      BY DEF HasSandbox, RuntimeTypeOK
    <2>2. CASE ~reusable \/ verdict # "answered"
      <3>1. current' = [current EXCEPT ![box[c]] = NoSandbox]
        BY <2>2 DEF Settled
      <3>2. current' # current
        BY <2>1, <3>1 DEF RuntimeTypeOK
      <3> QED BY <2>1, <2>2, <3>2 DEF Settled
    <2>3. CASE ~(~reusable \/ verdict # "answered")
      BY <2>1, <2>3 DEF Settled
    <2> QED BY <2>2, <2>3
  <1>5. pc'[c] = "returning" /\ using'[c] = NoSandbox /\ result'[c] = verdict
    BY <1>1 DEF RuntimeTypeOK
  <1>6. \A d \in Callers : d # c => /\ pc'[d] = pc[d] /\ using'[d] = using[d] /\ result'[d] = result[d]
                                    /\ pc[d] \notin Holding
    BY <1>1 DEF RuntimeTypeOK, Alone
  <1>7. \A d \in Callers : pc'[d] \notin Active /\ using'[d] = NoSandbox
    BY <1>5, <1>6, ActiveHolds DEF HasSandbox
  <1>8. HasSandbox' /\ KilledByTimer' /\ TimeoutIsHeard'
    BY <1>7 DEF HasSandbox, KilledByTimer, TimeoutIsHeard, Active
  <1>9. MemoryVerdictExplained'
    BY <1>1, <1>5, <1>6 DEF MemoryVerdictExplained
  <1>10. OneBoxEach'
    BY <1>2 DEF OneBoxEach, RuntimeTypeOK
  <1>11. using[c] \in Sandboxes /\ current[box[c]] = using[c] /\ box[c] \in Boxes
    BY DEF HasSandbox, RuntimeTypeOK
  <1>12. \A b \in Boxes : current'[b] = NoSandbox \/ current'[b] = current[b]
    BY <1>2 DEF RuntimeTypeOK
  <1>13. \A b \in Boxes : current'[b] = using[c] => current' = current
    BY <1>2, <1>11 DEF OneBoxEach, RuntimeTypeOK
  <1>14. CurrentNotShut'
    <2> SUFFICES ASSUME NEW b \in Boxes, current'[b] # NoSandbox PROVE ~shut'[current'[b]]
      BY DEF CurrentNotShut
    <2>1. current'[b] = current[b] /\ current[b] \in Sandboxes /\ ~shut[current[b]]
      BY <1>12 DEF CurrentNotShut, RuntimeTypeOK
    <2>2. CASE current[b] = using[c]
      BY <1>4, <1>13, <2>1, <2>2
    <2>3. CASE current[b] # using[c]
      BY <1>3, <2>1, <2>3
    <2> QED BY <2>2, <2>3
  <1>15. ASSUME NEW s \in Sandboxes, proc'[s] \in {"booting", "up"}
         PROVE  /\ p[s] = proc[s] /\ proc'[s] = proc[s] /\ (s = using[c] => current' = current)
    <2>1. CASE s = using[c]
      BY <1>4, <1>15, <2>1 DEF Killed, Live
    <2>2. CASE s # using[c]
      BY <1>3, <1>15, <2>2
    <2> QED BY <2>1, <2>2
  <1>16. NoOrphanedEngine'
    <2>1. ASSUME NEW s \in Sandboxes, proc'[s] \in {"booting", "up"}
          PROVE  \E b \in Boxes : current'[b] = s
      <3>1. PICK b \in Boxes : current[b] = s
        BY <1>15, <2>1 DEF NoOrphanedEngine
      <3>2. current'[b] = s
        BY <1>2, <1>11, <1>15, <2>1, <3>1 DEF RuntimeTypeOK
      <3> QED BY <3>2
    <2> QED BY <1>1, <2>1 DEF NoOrphanedEngine
  <1>17. ASSUME NEW s \in Sandboxes
         PROVE  (proc'[s] = "up" => sock'[s]) /\ proc'[s] # "booting"
    <2>1. ASSUME proc'[s] = "up" PROVE sock'[s]
      <3>1. p[s] \in Live /\ sock[s] /\ (s = using[c] => current' = current)
        BY <1>15, <2>1 DEF EnginesHaveCalls, Live
      <3> QED BY <1>3, <1>4, <3>1
    <2>2. ASSUME proc'[s] = "booting" PROVE FALSE
      <3>1. PICK d \in Callers : pc[d] = "booting" /\ using[d] = s
        BY <1>15, <2>2 DEF EnginesHaveCalls
      <3>2. d = c
        BY <1>6, <3>1 DEF Holding
      <3>3. verdict = "answered"
        BY <1>4, <1>15, <2>2, <3>1, <3>2
      <3> QED BY <3>1, <3>2, <3>3
    <2> QED BY <2>1, <2>2
  <1>18. EnginesHaveCalls'
    BY <1>7, <1>17 DEF EnginesHaveCalls, Active
  <1> QED BY <1>8, <1>9, <1>10, <1>14, <1>16, <1>18

LEMMA AloneInBox ==
    ASSUME ChainInv, NEW c \in Callers, pc[c] \in Holding
    PROVE  Alone(c)
  BY DEF ChainInv, HeadIsInBox, Alone

(* A call that is not in the box moves. *)
LEMMA OutsideEngines ==
    ASSUME RuntimeTypeOK, EngineInv, NEW c \in Callers, NEW at,
           pc[c] \notin Active, at \notin Active, pc' = [pc EXCEPT ![c] = at],
           UNCHANGED <<reusable, sandboxVars, box, using>>,
           \A d \in Callers : d # c => /\ timedOut'[d] = timedOut[d]
                                       /\ result'[d] = result[d] /\ diedOf'[d] = diedOf[d],
           result'[c] # "memory" \/ (result'[c] = result[c] /\ diedOf'[c] = diedOf[c])
    PROVE  EngineInv'
  <1> USE DEF EngineInv, sandboxVars
  <1>1. pc'[c] = at /\ \A d \in Callers : d # c => pc'[d] = pc[d]
    BY DEF RuntimeTypeOK
  <1>2. \A d \in Callers : pc'[d] \in Active => d # c /\ pc[d] = pc'[d]
    BY <1>1
  <1>3. HasSandbox'
    <2> SUFFICES ASSUME NEW d \in Callers
                 PROVE  IF pc'[d] \in Active THEN using[d] \in Sandboxes /\ current[box[d]] = using[d]
                                            ELSE using[d] = NoSandbox
      BY DEF HasSandbox
    <2>1. CASE d = c
      BY <1>1, <2>1 DEF HasSandbox
    <2>2. CASE d # c
      BY <1>1, <2>2 DEF HasSandbox
    <2> QED BY <2>1, <2>2
  <1>4. OneBoxEach' /\ CurrentNotShut' /\ NoOrphanedEngine'
    BY DEF OneBoxEach, CurrentNotShut, NoOrphanedEngine
  <1>5. EnginesHaveCalls'
    <2>1. \A d \in Callers : pc[d] = "booting" => pc'[d] = "booting"
      BY <1>1 DEF Active
    <2>2. \A d \in Callers : pc'[d] = "binding" => pc[d] = "binding"
      BY <1>2 DEF Active
    <2> QED BY <2>1, <2>2 DEF EnginesHaveCalls
  <1>6. KilledByTimer' /\ TimeoutIsHeard'
    BY <1>2 DEF KilledByTimer, TimeoutIsHeard, Active
  <1>7. MemoryVerdictExplained'
    BY DEF MemoryVerdictExplained
  <1> QED BY <1>3, <1>4, <1>5, <1>6, <1>7

LEMMA ReuseEngines ==
    ASSUME RuntimeTypeOK, EngineInv, NEW c \in Callers, \A d \in Callers : pc[d] \notin Holding,
           reusable, current[box[c]] # NoSandbox, IsReady(current[box[c]]),
           pc' = [pc EXCEPT ![c] = "provisioning"], using' = [using EXCEPT ![c] = current[box[c]]],
           UNCHANGED <<sandboxVars, reusable, box, timedOut, result, diedOf>>
    PROVE  EngineInv'
  <1> USE DEF EngineInv, sandboxVars
  <1>1. /\ pc'[c] = "provisioning" /\ using'[c] = current[box[c]] /\ current[box[c]] \in Sandboxes
        /\ \A d \in Callers : d # c => pc'[d] = pc[d] /\ using'[d] = using[d] /\ pc[d] \notin Active
    BY ActiveHolds DEF RuntimeTypeOK
  <1>2. HasSandbox'
    BY <1>1 DEF HasSandbox, Active
  <1>3. OneBoxEach' /\ CurrentNotShut' /\ NoOrphanedEngine' /\ MemoryVerdictExplained'
    BY DEF OneBoxEach, CurrentNotShut, NoOrphanedEngine, MemoryVerdictExplained
  <1>4. EnginesHaveCalls'
    <2>1. \A d \in Callers : pc[d] # "booting" /\ pc'[d] # "binding"
      BY <1>1 DEF Holding, Active
    <2> QED BY <2>1 DEF EnginesHaveCalls
  <1>5. KilledByTimer' /\ TimeoutIsHeard'
    BY <1>1 DEF KilledByTimer, TimeoutIsHeard, Active
  <1> QED BY <1>2, <1>3, <1>4, <1>5

LEMMA FreshEngines ==
    ASSUME RuntimeTypeOK, EngineInv, NEW c \in Callers, \A d \in Callers : pc[d] \notin Holding,
           NEW s \in Sandboxes, Unused(s), NEW b \in Boxes, b = box[c], NEW cur, cur = current[b],
           pc' = [pc EXCEPT ![c] = "provisioning"], using' = [using EXCEPT ![c] = s],
           current' = [current EXCEPT ![b] = s],
           proc' = [x \in Sandboxes |->
                      IF x = s THEN "none" ELSE IF x = cur THEN Killed(proc[x]) ELSE proc[x]],
           sock' = [x \in Sandboxes |-> sock[x] /\ x \notin {s, cur}],
           shut' = [x \in Sandboxes |-> x # s /\ (shut[x] \/ (x = cur /\ proc[x] # "none"))],
           UNCHANGED <<orphans, reusable, box, timedOut, result, diedOf>>
    PROVE  EngineInv'
  <1> USE DEF EngineInv
  <1>1. /\ pc'[c] = "provisioning" /\ using'[c] = s
        /\ \A d \in Callers : d # c => pc'[d] = pc[d] /\ using'[d] = using[d] /\ pc[d] \notin Active
    BY ActiveHolds DEF RuntimeTypeOK
  <1>2. /\ current'[b] = s /\ \A a \in Boxes : a # b => current'[a] = current[a]
        /\ \A a \in Boxes : current[a] # s
    BY DEF RuntimeTypeOK, Unused
  <1>3. /\ proc'[s] = "none" /\ ~shut'[s]
        /\ \A x \in Sandboxes : x # s /\ x # cur =>
              proc'[x] = proc[x] /\ (sock[x] => sock'[x]) /\ (shut'[x] => shut[x])
    BY Zenon
  <1>4. \A x \in Sandboxes : proc'[x] \in {"booting", "up"} => x # s /\ x # cur
    BY <1>3 DEF Killed, Live
  <1>5. HasSandbox'
    BY <1>1, <1>2 DEF HasSandbox, Active
  <1>6. OneBoxEach'
    BY <1>2 DEF OneBoxEach
  <1>7. CurrentNotShut'
    <2> SUFFICES ASSUME NEW a \in Boxes, current'[a] # NoSandbox PROVE ~shut'[current'[a]]
      BY DEF CurrentNotShut
    <2>1. CASE a = b
      BY <1>2, <1>3, <2>1
    <2>2. CASE a # b
      <3>1. current'[a] = current[a] /\ current[a] \in Sandboxes /\ current[a] # s /\ current[a] # cur
        BY <1>2, <2>2 DEF OneBoxEach, RuntimeTypeOK
      <3> QED BY <1>3, <3>1 DEF CurrentNotShut
    <2> QED BY <2>1, <2>2
  <1>8. NoOrphanedEngine'
    <2>1. ASSUME NEW x \in Sandboxes, proc'[x] \in {"booting", "up"}
          PROVE  \E a \in Boxes : current'[a] = x
      <3>1. x # s /\ x # cur /\ proc'[x] = proc[x]
        BY <1>3, <1>4, <2>1
      <3>2. PICK a \in Boxes : current[a] = x
        BY <2>1, <3>1 DEF NoOrphanedEngine
      <3> QED BY <1>2, <3>1, <3>2
    <2> QED BY <2>1 DEF NoOrphanedEngine
  <1>9. EnginesHaveCalls'
    <2>1. ASSUME NEW x \in Sandboxes
          PROVE  (proc'[x] = "up" => sock'[x]) /\ proc'[x] # "booting"
      <3>1. \A d \in Callers : pc[d] # "booting"
        BY DEF Holding
      <3> QED BY <1>3, <1>4, <3>1 DEF EnginesHaveCalls
    <2>2. \A d \in Callers : pc'[d] # "binding"
      BY <1>1 DEF Active
    <2> QED BY <2>1, <2>2 DEF EnginesHaveCalls
  <1>10. KilledByTimer' /\ TimeoutIsHeard' /\ MemoryVerdictExplained'
    BY <1>1, <1>3 DEF KilledByTimer, TimeoutIsHeard, MemoryVerdictExplained, Active
  <1> QED BY <1>5, <1>6, <1>7, <1>8, <1>9, <1>10

LEMMA CallEngines ==
    ASSUME ChainInv, RuntimeTypeOK', EngineInv, NEW c \in Callers, CallStep(c)
    PROVE  EngineInv'
  <1> USE DEF EngineInv
  <1>0. RuntimeTypeOK /\ pc[c] \in Active /\ Alone(c)
    <2>1. RuntimeTypeOK /\ pc[c] \in Active
      BY DEF ChainInv, TypeOK, CallStep, ProvisionFails, StartReady, StartCold, Fork, StartFails,
         Connect, EngineAnswers, TimerFires, RpcTimesOut, Settle, Active
    <2> QED BY <2>1, ActiveHolds, AloneInBox
  <1>1. PICK s \in Sandboxes : s = using[c] /\ current[box[c]] = s
    BY <1>0 DEF HasSandbox
  <1>2. \A d \in Callers : d # c => pc[d] \notin Active
    BY <1>0, ActiveHolds DEF Alone
  <1>3. ASSUME NEW verdict \in Verdicts, Conclude({c}, [d \in {c} |-> verdict], proc),
               verdict # "memory", verdict = "answered" => pc[c] = "running", diedOf' = diedOf
        PROVE  EngineInv'
    <2>1. Settled(c, verdict, proc)
      BY <1>0, <1>3, ConcludeOne
    <2> QED BY <1>0, <1>3, <2>1, SettleEngines
  <1>4. CASE ProvisionFails(c) \/ StartFails(c)
    BY <1>3, <1>4 DEF ProvisionFails, StartFails, Verdicts
  <1>5. CASE EngineAnswers(c) \/ RpcTimesOut(c)
    BY <1>3, <1>5 DEF EngineAnswers, RpcTimesOut, Settle, Verdicts
  (* The others leave the call with its sandbox, at p. *)
  <1>6. ASSUME NEW at \in Active, pc' = [pc EXCEPT ![c] = at],
               UNCHANGED <<reusable, current, shut, orphans, box, using, result, diedOf>>,
               \A x \in Sandboxes : x # s => proc'[x] = proc[x] /\ (sock[x] => sock'[x]),
               proc'[s] = "up" => proc[s] \in {"booting", "up"} /\ sock'[s],
               proc'[s] = "booting" => at = "booting",
               at = "binding" => proc'[s] \notin {"booting", "up"},
               (at = "running" /\ proc'[s] \in Live) => c \in closing'[s],
               (~reusable /\ proc'[s] = "killed") => timedOut'[c]
        PROVE  EngineInv'
    <2>1. pc'[c] = at /\ \A d \in Callers : d # c => pc'[d] = pc[d] /\ pc'[d] \notin Active
      BY <1>0, <1>2, <1>6 DEF RuntimeTypeOK
    <2>2. HasSandbox'
      BY <1>0, <1>6, <2>1 DEF HasSandbox
    <2>3. OneBoxEach' /\ CurrentNotShut' /\ MemoryVerdictExplained'
      BY <1>6 DEF OneBoxEach, CurrentNotShut, MemoryVerdictExplained
    <2>4. box[c] \in Boxes
      BY <1>0 DEF RuntimeTypeOK
    <2>5. NoOrphanedEngine'
      BY <1>1, <1>6, <2>4 DEF NoOrphanedEngine
    <2>6. EnginesHaveCalls'
      <3>1. ASSUME NEW x \in Sandboxes
            PROVE  /\ proc'[x] = "up" => sock'[x]
                   /\ proc'[x] = "booting" => \E d \in Callers : pc'[d] = "booting" /\ using'[d] = x
        <4>1. CASE x = s
          BY <1>1, <1>6, <2>1, <4>1
        <4>2. CASE x # s
          BY <1>1, <1>6, <2>1, <4>2 DEF EnginesHaveCalls
        <4> QED BY <4>1, <4>2
      <3>2. \A d \in Callers : pc'[d] = "binding" => proc'[using'[d]] \notin {"booting", "up"}
        BY <1>1, <1>6, <2>1 DEF Active
      <3> QED BY <3>1, <3>2 DEF EnginesHaveCalls
    <2>7. KilledByTimer' /\ TimeoutIsHeard'
      BY <1>1, <1>6, <2>1 DEF KilledByTimer, TimeoutIsHeard, Active
    <2> QED BY <2>2, <2>3, <2>5, <2>6, <2>7
  <1>7. CASE StartReady(c)
    <2>1. /\ pc' = [pc EXCEPT ![c] = "running"] /\ c \in closing'[s]
          /\ UNCHANGED <<reusable, current, proc, sock, shut, orphans, box, using, timedOut, result, diedOf>>
      BY <1>0, <1>1, <1>7 DEF StartReady, Execute, RuntimeTypeOK
    <2>2. proc[s] # "booting"
      BY <1>1, <1>2, <1>7 DEF EnginesHaveCalls, StartReady, Active
    <2>3. ~reusable /\ proc[s] = "killed" => timedOut[c]
      BY <1>0, <1>1 DEF KilledByTimer
    <2>4. proc[s] = "up" => sock[s]
      BY DEF EnginesHaveCalls
    <2> QED BY <1>6, <2>1, <2>2, <2>3, <2>4 DEF Active
  <1>8. CASE StartCold(c)
    <2>1. /\ pc' = [pc EXCEPT ![c] = "binding"]
          /\ UNCHANGED <<reusable, current, proc, sock, shut, orphans, closing, box, using, timedOut, result, diedOf>>
      BY <1>8 DEF StartCold, sandboxVars
    <2>2. proc[s] \notin {"booting", "up"}
      BY <1>1, <1>2, <1>8 DEF EnginesHaveCalls, StartCold, Active, IsReady, Live
    <2>3. ~reusable /\ proc[s] = "killed" => timedOut[c]
      BY <1>0, <1>1 DEF KilledByTimer
    <2> QED BY <1>6, <2>1, <2>2, <2>3 DEF Active
  <1>9. CASE Fork(c)
    <2>1. proc[s] \notin {"booting", "up"}
      BY <1>1, <1>9 DEF Fork, EnginesHaveCalls
    <2>2. /\ pc' = [pc EXCEPT ![c] = "booting"]
          /\ UNCHANGED <<reusable, current, shut, orphans, box, using, timedOut, result, diedOf>>
      BY <1>1, <1>9, <2>1 DEF Fork
    <2>3. proc'[s] = "booting" /\ \A x \in Sandboxes : x # s => proc'[x] = proc[x] /\ sock'[x] = sock[x]
      BY <1>0, <1>1, <1>9 DEF Fork, RuntimeTypeOK
    <2> QED BY <1>6, <2>2, <2>3 DEF Active
  <1>10. CASE Connect(c)
    <2>1. /\ pc' = [pc EXCEPT ![c] = "running"] /\ c \in closing'[s] /\ proc[s] = "booting"
          /\ UNCHANGED <<reusable, current, shut, orphans, box, using, timedOut, result, diedOf>>
      BY <1>0, <1>1, <1>10 DEF Connect, Execute, RuntimeTypeOK
    <2>2. /\ proc'[s] = "up" /\ sock'[s]
          /\ \A x \in Sandboxes : x # s => proc'[x] = proc[x] /\ sock'[x] = sock[x]
      BY <1>0, <1>1, <1>10 DEF Connect, RuntimeTypeOK
    <2> QED BY <1>6, <2>1, <2>2 DEF Active
  <1>11. CASE TimerFires(c)
    <2>1. /\ pc[c] = "running" /\ timedOut'[c]
          /\ UNCHANGED <<reusable, current, sock, shut, closing, orphans, pc, box, using, result, diedOf>>
      BY <1>0, <1>11 DEF TimerFires, RuntimeTypeOK
    <2>2. pc' = [pc EXCEPT ![c] = "running"]
      BY <1>0, <2>1 DEF RuntimeTypeOK
    <2>3. /\ proc'[s] = Killed(proc[s])
          /\ \A x \in Sandboxes : x # s => proc'[x] = proc[x]
      BY <1>0, <1>1, <1>11 DEF TimerFires, RuntimeTypeOK
    <2>4. proc'[s] \notin {"booting", "up"} /\ (proc'[s] \in Live => proc[s] \in Live)
      BY <2>3 DEF Killed, Live
    <2>5. proc[s] \in Live => c \in closing[s]
      BY <1>1, <2>1 DEF TimeoutIsHeard
    <2> QED BY <1>6, <2>1, <2>2, <2>3, <2>4, <2>5 DEF Active
  <1> QED BY <1>4, <1>5, <1>7, <1>8, <1>9, <1>10, <1>11 DEF CallStep

(* A process that exits ends the one call that waits for it, if there is one. *)
LEMMA ExitEngines ==
    ASSUME ChainInv, RuntimeTypeOK', EngineInv,
           NEW s \in Sandboxes, NEW cause \in Causes, ProcessExits(s, cause)
    PROVE  EngineInv'
  <1> DEFINE starting == {c \in Callers : pc[c] = "booting" /\ using[c] = s}
             hit == starting \cup closing[s]
             verdicts == [c \in hit |-> IF c \in starting THEN "failed"
                                        ELSE ExitVerdict(c, s, cause)]
             after == [proc EXCEPT ![s] = "dead"]
  <1> USE DEF EngineInv
  <1>1. RuntimeTypeOK /\ ListenersRun
    BY DEF ChainInv, TypeOK
  <1>2. /\ Conclude(hit, verdicts, after)
        /\ closing' = [closing EXCEPT ![s] = {}]
        /\ diedOf' = [c \in Callers |-> IF c \in hit THEN cause ELSE diedOf[c]]
        /\ cause = "sigkill" => proc[s] = "killed"
    BY DEF ProcessExits
  <1>3. /\ after[s] = "dead" /\ \A x \in Sandboxes : x # s => after[x] = proc[x]
    BY <1>1 DEF RuntimeTypeOK
  <1>4. \A c \in hit : c \in Callers /\ pc[c] \in Active /\ using[c] = s
    BY <1>1 DEF ListenersRun, RuntimeTypeOK, Active
  <1>5. ASSUME NEW c \in Callers, c \in hit PROVE EngineInv'
    <2>1. pc[c] \in Active /\ using[c] = s /\ Alone(c)
      BY <1>4, <1>5, ActiveHolds, AloneInBox
    <2>2. hit = {c}
      BY <1>4, <1>5, <2>1, ActiveHolds DEF Alone
    <2>3. PICK verdict : verdict = verdicts[c]
      OBVIOUS
    <2>4. verdict = IF c \in starting THEN "failed" ELSE ExitVerdict(c, s, cause)
      BY <1>5, <2>3
    <2>5. verdict # "answered"
      BY <2>4 DEF ExitVerdict
    <2>6. diedOf'[c] = cause /\ \A d \in Callers : d # c => diedOf'[d] = diedOf[d]
      BY <1>2, <2>2
    <2>7. verdict = "memory" => cause = "oom" \/ (reusable /\ cause = "sigkill")
      <3> SUFFICES ASSUME verdict = "memory", cause # "oom" PROVE reusable /\ cause = "sigkill"
        OBVIOUS
      <3>1. ~timedOut[c] /\ cause = "sigkill"
        BY <2>4 DEF ExitVerdict
      <3> QED BY <1>2, <2>1, <3>1 DEF KilledByTimer
    <2> HIDE DEF starting, hit, verdicts, after
    <2>8. Settled(c, verdict, after)
      BY <1>1, <1>2, <2>1, <2>2, <2>3, ConcludeOne
    <2>9. \A x \in Sandboxes : after[x] = proc[x] \/ after[x] = "dead"
      BY <1>3
    <2>10. verdict = "memory" => diedOf'[c] = "oom" \/ (reusable /\ diedOf'[c] = "sigkill")
      BY <2>6, <2>7
    <2> QED BY <1>1, <2>1, <2>5, <2>6, <2>8, <2>9, <2>10, SettleEngines
  <1>6. ASSUME hit = {} PROVE EngineInv'
    <2> HIDE DEF starting, hit, verdicts, after
    <2>1. UNCHANGED <<reusable, orphans, box, timedOut, pc, using, result, current, diedOf>>
      BY <1>1, <1>2, <1>6 DEF Conclude, RuntimeTypeOK
    <2>2. /\ proc' = [x \in Sandboxes |-> after[x]]
          /\ sock' = [x \in Sandboxes |-> sock[x] /\ after[x] \in Live]
          /\ \A x \in Sandboxes : shut'[x] <=> shut[x]
      <3>1. /\ proc' = [x \in Sandboxes |-> IF x \in {} THEN Killed(after[x]) ELSE after[x]]
            /\ sock' = [x \in Sandboxes |-> sock[x] /\ x \notin {} /\ after[x] \in Live]
            /\ shut' = [x \in Sandboxes |-> shut[x] \/ (x \in {} /\ after[x] # "none")]
        BY <1>2, <1>6, Zenon DEF Conclude
      <3> QED BY <3>1, Zenon
    <2>3. /\ proc'[s] = "dead"
          /\ \A x \in Sandboxes : x # s => /\ proc'[x] = proc[x] /\ closing'[x] = closing[x]
                                           /\ (proc[x] \in Live /\ sock[x]) => sock'[x]
      BY <1>1, <1>2, <1>3, <2>2 DEF RuntimeTypeOK
    <2>4. HasSandbox' /\ OneBoxEach' /\ MemoryVerdictExplained'
      BY <2>1 DEF HasSandbox, OneBoxEach, MemoryVerdictExplained
    <2>5. CurrentNotShut'
      BY <1>1, <2>1, <2>2 DEF CurrentNotShut, RuntimeTypeOK
    <2>6. NoOrphanedEngine'
      BY <2>1, <2>3 DEF NoOrphanedEngine
    <2>7. \A c \in Callers : pc'[c] \in Active => using'[c] \in Sandboxes
      BY <2>1 DEF HasSandbox
    <2>8. EnginesHaveCalls'
      <3>1. \A x \in Sandboxes : proc'[x] = "up" => sock'[x]
        BY <2>3 DEF EnginesHaveCalls, Live
      <3>2. \A x \in Sandboxes : proc'[x] = "booting" => \E d \in Callers : pc'[d] = "booting" /\ using'[d] = x
        BY <2>1, <2>3 DEF EnginesHaveCalls
      <3>3. \A d \in Callers : pc'[d] = "binding" => proc'[using'[d]] \notin {"booting", "up"}
        BY <2>1, <2>3, <2>7 DEF EnginesHaveCalls, Active
      <3> QED BY <3>1, <3>2, <3>3 DEF EnginesHaveCalls
    <2>9. KilledByTimer' /\ TimeoutIsHeard'
      BY <2>1, <2>3, <2>7 DEF KilledByTimer, TimeoutIsHeard, Active, Live
    <2> QED BY <2>4, <2>5, <2>6, <2>8, <2>9
  <1>7. hit \subseteq Callers
    BY <1>4
  <1> HIDE DEF hit
  <1> QED BY <1>5, <1>6, <1>7

LEMMA DropEngines ==
    ASSUME RuntimeTypeOK, EngineInv, NEW s \in Sandboxes, SocketDrops(s)
    PROVE  EngineInv'
  <1> USE DEF EngineInv
  <1>1. UNCHANGED <<reusable, current, shut, closing, orphans, pc, box, using, timedOut, result, diedOf>>
    BY DEF SocketDrops, callVars
  <1>2. /\ proc[s] = "up" /\ proc'[s] = "exiting"
        /\ \A x \in Sandboxes : x # s => proc'[x] = proc[x] /\ sock'[x] = sock[x]
    BY DEF SocketDrops, RuntimeTypeOK
  <1>3. HasSandbox' /\ OneBoxEach' /\ CurrentNotShut' /\ MemoryVerdictExplained'
    BY <1>1 DEF HasSandbox, OneBoxEach, CurrentNotShut, MemoryVerdictExplained
  <1>4. NoOrphanedEngine'
    BY <1>1, <1>2 DEF NoOrphanedEngine
  <1>5. \A c \in Callers : pc'[c] \in Active => using'[c] \in Sandboxes
    BY <1>1 DEF HasSandbox
  <1>6. EnginesHaveCalls'
    BY <1>1, <1>2, <1>5 DEF EnginesHaveCalls, Active
  <1>7. KilledByTimer' /\ TimeoutIsHeard'
    BY <1>1, <1>2, <1>5 DEF KilledByTimer, TimeoutIsHeard, Active, Live
  <1> QED BY <1>3, <1>4, <1>6, <1>7

(* A call gets a sandbox. *)
LEMMA BeginEngines ==
    ASSUME ChainInv, EngineInv, NEW c \in Callers, Begin(c)
    PROVE  EngineInv'
  <1>1. RuntimeTypeOK /\ Acquire(c) /\ \A d \in Callers : pc[d] \notin Holding
    BY BeginKeepsChain DEF ChainInv, TypeOK, Begin
  <1>2. PICK b \in Boxes : b = box[c]
    BY <1>1 DEF RuntimeTypeOK
  <1>3. PICK cur : cur = current[b]
    OBVIOUS
  <1>4. /\ pc' = [pc EXCEPT ![c] = "provisioning"]
        /\ UNCHANGED <<reusable, box, timedOut, result, diedOf>>
    BY <1>1 DEF Acquire
  <1>5. CASE /\ reusable /\ cur # NoSandbox /\ IsReady(cur)
             /\ using' = [using EXCEPT ![c] = cur] /\ UNCHANGED sandboxVars
    BY <1>1, <1>2, <1>3, <1>4, <1>5, ReuseEngines
  <1>6. ASSUME NEW s \in Sandboxes, Unused(s),
               using' = [using EXCEPT ![c] = s],
               current' = [current EXCEPT ![b] = s],
               proc' = [x \in Sandboxes |->
                          IF x = s THEN "none" ELSE IF x = cur THEN Killed(proc[x]) ELSE proc[x]],
               sock' = [x \in Sandboxes |-> sock[x] /\ x \notin {s, cur}],
               shut' = [x \in Sandboxes |-> x # s /\ (shut[x] \/ (x = cur /\ proc[x] # "none"))],
               UNCHANGED orphans
        PROVE  EngineInv'
    BY <1>1, <1>2, <1>3, <1>4, <1>6, FreshEngines
  <1> QED BY <1>1, <1>2, <1>3, <1>5, <1>6 DEF Acquire

LEMMA EngineInvInit == Init => EngineInv
  <1> SUFFICES ASSUME Init PROVE EngineInv
    OBVIOUS
  <1> USE DEF Init, RuntimeInit
  <1>1. HasSandbox /\ OneBoxEach /\ CurrentNotShut /\ KilledByTimer
    BY DEF HasSandbox, OneBoxEach, CurrentNotShut, KilledByTimer, Active
  <1>2. EnginesHaveCalls /\ NoOrphanedEngine
    BY DEF EnginesHaveCalls, NoOrphanedEngine
  <1>3. TimeoutIsHeard /\ MemoryVerdictExplained
    BY DEF TimeoutIsHeard, MemoryVerdictExplained
  <1> QED BY <1>1, <1>2, <1>3 DEF EngineInv

LEMMA EngineInvStep == ChainInv /\ EngineInv /\ [Next]_vars => EngineInv'
  <1> SUFFICES ASSUME ChainInv, EngineInv, [Next]_vars PROVE EngineInv'
    OBVIOUS
  <1>1. RuntimeTypeOK /\ RuntimeTypeOK'
    BY ChainInvStep DEF ChainInv, TypeOK
  <1>2. ASSUME NEW c \in Callers, Submit(c) PROVE EngineInv'
    BY <1>1, <1>2, OutsideEngines DEF Submit, Active
  <1>3. ASSUME NEW c \in Callers, Begin(c) PROVE EngineInv'
    BY <1>3, BeginEngines
  <1>4. ASSUME NEW c \in Callers, Return(c) PROVE EngineInv'
    <2>1. /\ pc[c] \notin Active /\ "idle" \notin Active /\ pc' = [pc EXCEPT ![c] = "idle"]
          /\ UNCHANGED <<reusable, sandboxVars, box, using>> /\ result'[c] # "memory"
          /\ \A d \in Callers : d # c => /\ timedOut'[d] = timedOut[d]
                                         /\ result'[d] = result[d] /\ diedOf'[d] = diedOf[d]
      BY <1>1, <1>4 DEF Return, Finish, RuntimeTypeOK, Active
    <2> QED BY <1>1, <2>1, OutsideEngines
  <1>5. ASSUME NEW c \in Callers, CallStep(c) PROVE EngineInv'
    BY <1>1, <1>5, CallEngines
  <1>6. ASSUME NEW s \in Sandboxes, ProcessStep(s) PROVE EngineInv'
    BY <1>1, <1>6, ExitEngines, DropEngines DEF ProcessStep
  <1>7. CASE UNCHANGED vars
    BY <1>7 DEF vars, runtimeVars, sandboxVars, callVars, EngineInv, HasSandbox, OneBoxEach,
       CurrentNotShut, EnginesHaveCalls, KilledByTimer, NoOrphanedEngine, TimeoutIsHeard,
       MemoryVerdictExplained
  <1> QED BY <1>2, <1>3, <1>4, <1>5, <1>6, <1>7 DEF Next

LEMMA EngineInvariant == Spec => []EngineInv
  BY EngineInvInit, EngineInvStep, ChainInvariant, PTL DEF Spec

(* No engine is leaked, for any number of calls: whichever way a call ends, *)
(* acquire, release and invalidate leave no live process that is not the    *)
(* current sandbox of a box and was not told to stop.                       *)
THEOREM NoEngineIsOrphaned == Spec => []NoOrphanedEngine
  BY EngineInvariant, PTL DEF EngineInv

(* The finally block of one call and the background shutdown in acquire     *)
(* never shut down the sandbox that another call runs in.                   *)
THEOREM NoShutdownUnderACall == Spec => []NotShutDownWhileRunning
  <1>1. ChainInv /\ EngineInv => NotShutDownWhileRunning
    <2> SUFFICES ASSUME ChainInv, EngineInv, NEW c \in Callers, pc[c] = "running"
                 PROVE  ~shut[using[c]]
      BY DEF NotShutDownWhileRunning
    <2>1. using[c] \in Sandboxes /\ current[box[c]] = using[c] /\ box[c] \in Boxes
      BY DEF EngineInv, HasSandbox, Active, ChainInv, TypeOK, RuntimeTypeOK
    <2> QED BY <2>1 DEF EngineInv, CurrentNotShut
  <1> QED BY <1>1, ChainInvariant, EngineInvariant, PTL

(* A call whose process is still there hears it close, so the timer that    *)
(* kills the process ends the call, although a call that settles removes    *)
(* every 'close' listener of its process.                                   *)
THEOREM TimeoutsAreHeard == Spec => []TimeoutIsHeard
  BY EngineInvariant, PTL DEF EngineInv

(* handleProcessExit blames the memory only when the process ran out of it, *)
(* or when sandboxes are reused and an earlier call's timer killed it.      *)
THEOREM MemoryIsExplained == Spec => []MemoryVerdictExplained
  BY EngineInvariant, PTL DEF EngineInv

===============================================================================
