---------------------------- MODULE SandboxRuntime ----------------------------
(***************************************************************************)
(* The sandbox runtime (packages/server/sandbox): createSandboxRuntime's   *)
(* execute over one SandboxManager per box, and the Sandbox objects those  *)
(* managers hand out, each with its engine process and its control socket. *)
(*                                                                         *)
(* What is asynchronous in the code is a step of its own here: the         *)
(* provisioning of the caches, binding the socket server and forking the   *)
(* engine, the engine's connection, its answer, the operation's timer, the *)
(* RPC client's timer, a SIGKILL taking effect.  What the code does within *)
(* one turn of the event loop is one step: in particular an operation that *)
(* settles runs sandbox.execute's finally block and the synchronous part   *)
(* of manager.release or manager.invalidate at once.                       *)
(*                                                                         *)
(* Who may call execute, and when, is for the modules that extend this one *)
(* (HeadlessRuntime, UserInteractionWatcher): they define Next.            *)
(***************************************************************************)
EXTENDS Naturals, FiniteSets

CONSTANTS
    Callers,    \* concurrent callers of execute
    Boxes,      \* worker indexes: one SandboxManager each
    Sandboxes,  \* names for Sandbox objects; a name is reused once its object is garbage
    NoSandbox   \* the value null

ASSUME SandboxAssumption == NoSandbox \notin Sandboxes

VARIABLES
    reusable,   \* canReuseSandbox(getSettings): fixed while the server runs
    current,    \* current[b]: currentSandbox of the manager of box b
    proc,       \* proc[s]: the engine process of sandbox s
    sock,       \* sock[s]: connectedSocket is there and connected
    shut,       \* shut[s]: killedByShutdown
    closing,    \* closing[s]: callers with a 'close' listener on the process
    orphans,    \* processes overwritten in childProcess with nothing to end them
    pc,         \* pc[c]: where the call of c is
    box,        \* box[c]: the box the call was routed to
    using,      \* using[c]: the sandbox that acquire returned to c
    timedOut,   \* timedOut[c]: killedByTimeout of c's operation
    result,     \* result[c]: how the last operation of c settled
    diedOf      \* history: why the process of that operation exited, if it did

sandboxVars == <<current, proc, sock, shut, closing, orphans>>
callVars == <<pc, box, using, timedOut, result, diedOf>>
runtimeVars == <<reusable, sandboxVars, callVars>>

(* "killed" is a process that was sent SIGKILL, "exiting" one that has lost *)
(* its socket and so exits by itself.                                       *)
ProcessStates == {"none", "booting", "up", "killed", "exiting", "dead"}
Live == {"booting", "up", "killed", "exiting"}

Holding == {"provisioning", "binding", "booting", "running", "returning"}
CallStates == Holding \cup {"idle", "queued"}

Verdicts == {"none", "answered", "timeout", "memory", "internal", "rpc", "failed"}
Causes == {"none", "oom", "crash", "sigkill"}

RuntimeTypeOK ==
    /\ reusable \in BOOLEAN
    /\ current \in [Boxes -> Sandboxes \cup {NoSandbox}]
    /\ proc \in [Sandboxes -> ProcessStates]
    /\ sock \in [Sandboxes -> BOOLEAN]
    /\ shut \in [Sandboxes -> BOOLEAN]
    /\ closing \in [Sandboxes -> SUBSET Callers]
    /\ orphans \in Nat
    /\ pc \in [Callers -> CallStates]
    /\ box \in [Callers -> Boxes]
    /\ using \in [Callers -> Sandboxes \cup {NoSandbox}]
    /\ timedOut \in [Callers -> BOOLEAN]
    /\ result \in [Callers -> Verdicts]
    /\ diedOf \in [Callers -> Causes]

RuntimeInit ==
    /\ reusable \in BOOLEAN
    /\ current = [b \in Boxes |-> NoSandbox]
    /\ proc = [s \in Sandboxes |-> "none"]
    /\ sock = [s \in Sandboxes |-> FALSE]
    /\ shut = [s \in Sandboxes |-> FALSE]
    /\ closing = [s \in Sandboxes |-> {}]
    /\ orphans = 0
    /\ pc = [c \in Callers |-> "idle"]
    /\ box \in [Callers -> Boxes]
    /\ using = [c \in Callers |-> NoSandbox]
    /\ timedOut = [c \in Callers |-> FALSE]
    /\ result = [c \in Callers |-> "none"]
    /\ diedOf = [c \in Callers |-> "none"]

-----------------------------------------------------------------------------
(* Sandbox.isReady: the socket is connected and the process has not exited. *)
IsReady(s) == sock[s] /\ proc[s] \in Live

(* A name no object uses: nothing refers to it and its process is gone. *)
Unused(s) ==
    /\ proc[s] \in {"none", "dead"}
    /\ \A b \in Boxes : current[b] # s
    /\ \A c \in Callers : using[c] # s

(* SIGKILL is sent to a process that is there. *)
Killed(state) == IF state \in Live THEN "killed" ELSE state

(* Mutants: the sandbox that is not ready is shut down and then started     *)
(* again; a new one takes its place, and it is not shut down.               *)
AcquireRestarts(c) ==
    LET cur == current[box[c]]
        old == cur # NoSandbox
    IN  \E s \in Sandboxes :
            /\ IF old THEN s = cur ELSE Unused(s)
            /\ pc' = [pc EXCEPT ![c] = "provisioning"]
            /\ using' = [using EXCEPT ![c] = s]
            /\ current' = [current EXCEPT ![box[c]] = s]
            /\ IF old /\ ~(reusable /\ IsReady(s))
               THEN /\ proc' = [proc EXCEPT ![s] = Killed(proc[s])]
                    /\ sock' = [sock EXCEPT ![s] = FALSE]
                    /\ shut' = [shut EXCEPT ![s] = TRUE]
               ELSE UNCHANGED <<proc, sock, shut>>
            /\ UNCHANGED <<reusable, closing, orphans, box, timedOut, result, diedOf>>

AcquireForgets(c) ==
    \E s \in Sandboxes :
        /\ Unused(s)
        /\ pc' = [pc EXCEPT ![c] = "provisioning"]
        /\ using' = [using EXCEPT ![c] = s]
        /\ current' = [current EXCEPT ![box[c]] = s]
        /\ proc' = [proc EXCEPT ![s] = "none"]
        /\ shut' = [shut EXCEPT ![s] = FALSE]
        /\ UNCHANGED <<reusable, sock, closing, orphans, box, timedOut, result, diedOf>>

(* SandboxManager.acquire: the current sandbox if it may be reused and is   *)
(* ready; otherwise a new one, the previous one being shut down in the      *)
(* background.                                                              *)
Acquire(c) ==
    LET b == box[c]
        cur == current[b]
    IN  /\ pc' = [pc EXCEPT ![c] = "provisioning"]
        /\ \/ /\ reusable /\ cur # NoSandbox /\ IsReady(cur)
              /\ using' = [using EXCEPT ![c] = cur]
              /\ UNCHANGED sandboxVars
           \/ /\ ~(reusable /\ cur # NoSandbox /\ IsReady(cur))
              /\ \E s \in Sandboxes :
                    /\ Unused(s)
                    /\ using' = [using EXCEPT ![c] = s]
                    /\ current' = [current EXCEPT ![b] = s]
                    /\ proc' = [x \in Sandboxes |->
                                  IF x = s THEN "none"
                                  ELSE IF x = cur THEN Killed(proc[x]) ELSE proc[x]]
                    /\ sock' = [x \in Sandboxes |-> sock[x] /\ x \notin {s, cur}]
                    /\ shut' = [x \in Sandboxes |->
                                  x # s /\ (shut[x] \/ (x = cur /\ proc[x] # "none"))]
                    /\ closing' = [closing EXCEPT ![s] = {}]
              /\ UNCHANGED orphans
        /\ UNCHANGED <<reusable, box, timedOut, result, diedOf>>

(* The calls in C settle, with verdicts v, when the processes are as p says. *)
(* An answer is followed by manager.release, which invalidates unless       *)
(* sandboxes are reused; anything else by manager.invalidate.  Invalidating *)
(* shuts down whatever sandbox is current in the box by now.                *)
Conclude(C, v, p) ==
    LET invalidated == {box[c] : c \in {d \in C : ~reusable \/ v[d] # "answered"}}
        doomed == {current[b] : b \in invalidated} \ {NoSandbox}
    IN  /\ result' = [c \in Callers |-> IF c \in C THEN v[c] ELSE result[c]]
        /\ pc' = [c \in Callers |-> IF c \in C THEN "returning" ELSE pc[c]]
        /\ using' = [c \in Callers |-> IF c \in C THEN NoSandbox ELSE using[c]]
        /\ current' = [b \in Boxes |-> IF b \in invalidated THEN NoSandbox ELSE current[b]]
        /\ proc' = [s \in Sandboxes |-> IF s \in doomed THEN Killed(p[s]) ELSE p[s]]
        /\ sock' = [s \in Sandboxes |-> sock[s] /\ s \notin doomed /\ p[s] \in Live]
        /\ shut' = [s \in Sandboxes |-> shut[s] \/ (s \in doomed /\ p[s] # "none")]
        /\ UNCHANGED <<reusable, orphans, box, timedOut>>

(* localExecutionCache.provision fails. *)
ProvisionFails(c) ==
    /\ pc[c] = "provisioning"
    /\ Conclude({c}, [d \in {c} |-> "failed"], proc)
    /\ UNCHANGED <<closing, diedOf>>

(* Mutant: nothing listens for the process to close. *)
ExecuteDeaf(c) ==
    /\ pc' = [pc EXCEPT ![c] = "running"]
    /\ UNCHANGED closing

(* sandbox.execute, up to the RPC: it listens for the process to close and  *)
(* asserts that the process and the socket are there.                       *)
Execute(c) ==
    LET s == using[c]
    IN  /\ pc' = [pc EXCEPT ![c] = "running"]
        /\ closing' = [closing EXCEPT ![s] = @ \cup {c}]

(* Provisioning succeeds and sandbox.start finds the sandbox ready. *)
StartReady(c) ==
    /\ pc[c] = "provisioning"
    /\ IsReady(using[c])
    /\ Execute(c)
    /\ UNCHANGED <<reusable, current, proc, sock, shut, orphans,
                   box, using, timedOut, result, diedOf>>

(* Provisioning succeeds and sandbox.start has to bind a server and fork. *)
StartCold(c) ==
    /\ pc[c] = "provisioning"
    /\ ~IsReady(using[c])
    /\ pc' = [pc EXCEPT ![c] = "binding"]
    /\ UNCHANGED <<reusable, sandboxVars, box, using, timedOut, result, diedOf>>

(* The engine is forked.  childProcess is overwritten, whatever it was. *)
Fork(c) ==
    LET s == using[c]
    IN  /\ pc[c] = "binding"
        /\ pc' = [pc EXCEPT ![c] = "booting"]
        /\ proc' = [proc EXCEPT ![s] = "booting"]
        /\ sock' = [sock EXCEPT ![s] = FALSE]
        /\ closing' = [closing EXCEPT ![s] = {}]
        /\ orphans' = IF proc[s] \in {"booting", "up"} THEN orphans + 1 ELSE orphans
        /\ UNCHANGED <<reusable, current, shut, box, using, timedOut, result, diedOf>>

(* The port cannot be bound or the fork throws; or the engine does not      *)
(* connect within 30 seconds.                                               *)
StartFails(c) ==
    /\ pc[c] \in {"binding", "booting"}
    /\ Conclude({c}, [d \in {c} |-> "failed"], proc)
    /\ UNCHANGED <<closing, diedOf>>

(* The engine connects, start returns and execute begins. *)
Connect(c) ==
    LET s == using[c]
    IN  /\ pc[c] = "booting"
        /\ proc[s] = "booting"
        /\ proc' = [proc EXCEPT ![s] = "up"]
        /\ sock' = [sock EXCEPT ![s] = TRUE]
        /\ Execute(c)
        /\ UNCHANGED <<reusable, current, shut, orphans, box, using, timedOut, result, diedOf>>

-----------------------------------------------------------------------------
(* What sandbox.execute does when its promise settles: the finally block    *)
(* removes every 'close' listener of the process, not only its own.         *)
Settle(c, verdict) ==
    /\ pc[c] = "running"
    /\ closing' = [closing EXCEPT ![using[c]] = {}]
    /\ Conclude({c}, [d \in {c} |-> verdict], proc)
    /\ UNCHANGED diedOf

(* The engine's answer arrives; it may have been sent before a SIGKILL. *)
EngineAnswers(c) ==
    /\ pc[c] = "running"
    /\ sock[using[c]]
    /\ Settle(c, "answered")

(* The operation's timer kills the process. *)
TimerFires(c) ==
    LET s == using[c]
    IN  /\ pc[c] = "running"
        /\ ~timedOut[c]
        /\ timedOut' = [timedOut EXCEPT ![c] = TRUE]
        /\ proc' = [proc EXCEPT ![s] = Killed(proc[s])]
        /\ UNCHANGED <<reusable, current, sock, shut, closing, orphans,
                       pc, box, using, result, diedOf>>

(* The RPC client gives up, five seconds after the operation's timer. *)
RpcTimesOut(c) ==
    /\ timedOut[c]
    /\ Settle(c, "rpc")

(* Mutants: a verdict no handler knows; SIGKILL means memory even when the  *)
(* timer sent it.                                                           *)
ExitVerdictUnknown(c, s, cause) == IF timedOut[c] THEN "timeout" ELSE "killed"

ExitVerdictMemoryFirst(c, s, cause) ==
    IF cause = "oom" \/ (cause = "sigkill" /\ ~shut[s]) THEN "memory"
    ELSE IF timedOut[c] THEN "timeout" ELSE "internal"

(* handleProcessExit. *)
ExitVerdict(c, s, cause) ==
    IF timedOut[c] THEN "timeout"
    ELSE IF cause = "oom" \/ (cause = "sigkill" /\ ~shut[s]) THEN "memory"
    ELSE "internal"

(* The process is gone.  Starts that wait for its connection and operations *)
(* that listen for its 'close' fail.                                        *)
ProcessExits(s, cause) ==
    LET starting == {c \in Callers : pc[c] = "booting" /\ using[c] = s}
        hit == starting \cup closing[s]
    IN  /\ \/ proc[s] \in {"booting", "up"} /\ cause \in {"oom", "crash"}
           \/ proc[s] = "exiting" /\ cause = "crash"
           \/ proc[s] = "killed" /\ cause = "sigkill"
        /\ closing' = [closing EXCEPT ![s] = {}]
        /\ diedOf' = [c \in Callers |-> IF c \in hit THEN cause ELSE diedOf[c]]
        /\ Conclude(hit,
                    [c \in hit |-> IF c \in starting THEN "failed" ELSE ExitVerdict(c, s, cause)],
                    [proc EXCEPT ![s] = "dead"])

(* The control socket drops; the engine exits when it notices. *)
SocketDrops(s) ==
    /\ proc[s] = "up"
    /\ proc' = [proc EXCEPT ![s] = "exiting"]
    /\ sock' = [sock EXCEPT ![s] = FALSE]
    /\ UNCHANGED <<reusable, current, shut, closing, orphans, callVars>>

(* execute returns or throws to its caller, once the sandbox it shut down   *)
(* has been sent SIGKILL; the call's local state is gone.                   *)
Finish(c) ==
    /\ pc[c] = "returning"
    /\ pc' = [pc EXCEPT ![c] = "idle"]
    /\ timedOut' = [timedOut EXCEPT ![c] = FALSE]
    /\ result' = [result EXCEPT ![c] = "none"]
    /\ diedOf' = [diedOf EXCEPT ![c] = "none"]
    /\ UNCHANGED <<reusable, sandboxVars, box, using>>

(* What happens to a call once it holds a sandbox, until it settles. *)
CallStep(c) ==
    \/ ProvisionFails(c) \/ StartReady(c) \/ StartCold(c) \/ Fork(c)
    \/ StartFails(c) \/ Connect(c) \/ EngineAnswers(c) \/ TimerFires(c) \/ RpcTimesOut(c)

ProcessStep(s) ==
    \/ \E cause \in Causes : ProcessExits(s, cause)
    \/ SocketDrops(s)

-----------------------------------------------------------------------------
(* "Each box is its own manager, holding one in-flight operation at a time" *)
(* (sandbox.ts, lines 18-19): execute relies on its callers for this.       *)
OneOperationPerBox ==
    \A c, d \in Callers :
        (pc[c] \in Holding /\ pc[d] \in Holding /\ box[c] = box[d]) => c = d
===============================================================================
