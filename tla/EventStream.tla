------------------------------ MODULE EventStream ------------------------------
(***************************************************************************)
(* The event stream of one execution: executionEventService numbers,       *)
(* stores, notifies and publishes each event; a replica relays the Redis   *)
(* channel to the connections that listen there; a connection first        *)
(* replays the stored history and then follows the live events.            *)
(*                                                                         *)
(* An event is its sequence number.  Redis is present, but any call of it  *)
(* may fail; nextSequence, storeEventHistory and readEventHistory then fall *)
(* back to the memory of their process.  Nothing is so old that it expires.*)
(* An emitter awaits each emit and stays in one process; emitters of their *)
(* own may overlap.                                                        *)
(***************************************************************************)
EXTENDS Naturals, Sequences

CONSTANTS
    Replicas,       \* server processes
    Emitters,       \* what reports on the execution, one emit at a time each
    Connections,    \* SSE requests; a name is reused when its request is over
    None,           \* nobody holds a mutex
    HistoryCap,     \* MAX_HISTORY_EVENTS
    MaxEvents,      \* bound: events of the execution
    MaxFaults,      \* bound: crashes and failed Redis calls
    home            \* home[e]: the process of an emitter

ASSUME EventStreamAssumption ==
    /\ None \notin Connections \cup Replicas
    /\ home \in [Emitters -> Replicas]
    /\ HistoryCap \in Nat \ {0} /\ MaxEvents \in Nat /\ MaxFaults \in Nat

VARIABLES
    counter,    \* execution:<id>:seq
    history,    \* execution:<id>:events, in the order of the RPUSHes
    sequences,  \* sequences[r]: memorySequences, the numbers r has given itself
    memory,     \* memory[r]: memoryHistory
    step,       \* step[e]: where its emit is
    number,     \* number[e]: nextSequence's result
    channel,    \* channel[r]: whether r's subscriber has the Redis channel
    inbox,      \* inbox[r]: published by another replica, not yet received
    mutex,      \* mutex[r]: holder of the execution's subscription mutex
    leaked,     \* leaked[r]: a listener is registered that nothing will remove
    phase,      \* phase[c]: where the request is
    where,      \* where[c]: the replica that serves it, if any
    closed,     \* closed[c]: the socket closed before the 'close' handler was set
    start,      \* start[c]: the sequence of its Last-Event-ID, while it is served
    high,       \* high[c]: highWaterSeq
    snapshot,   \* snapshot[c]: the list it has read
    buffer,     \* buffer[c]: bufferedLiveEvents
    unread,     \* history: unread[c]: the stored events, if c could not read them
    received,   \* history: what was written to the connection, while it is open
    lost,       \* history: numbers of events that were not stored, relayed or
                \* finished, or that do not stand for one event of the execution
    faults

emitVars == <<counter, history, sequences, memory, step, number>>
relayVars == <<channel, inbox, mutex, leaked>>
writeVars == <<high, received, buffer>>
connectionVars == <<phase, where, closed, start, snapshot, unread>>
vars == <<emitVars, relayVars, writeVars, connectionVars, lost, faults>>

Events == 1 .. MaxEvents

Buffering == {"subscribing", "reading", "replaying"}
Phases == Buffering \cup {"away", "joining", "live", "leaving", "unsubscribing"}

TypeOK ==
    /\ counter \in 0 .. MaxEvents
    /\ history \in Seq(Events)
    /\ sequences \in [Replicas -> 0 .. MaxEvents]
    /\ memory \in [Replicas -> Seq(Events)]
    /\ step \in [Emitters -> {"idle", "numbered", "stored", "notified"}]
    /\ number \in [Emitters -> 0 .. MaxEvents]
    /\ channel \in [Replicas -> {"off", "on", "failed"}]
    /\ inbox \in [Replicas -> Seq(Events)]
    /\ mutex \in [Replicas -> Connections \cup {None}]
    /\ leaked \in [Replicas -> BOOLEAN]
    /\ phase \in [Connections -> Phases]
    /\ where \in [Connections -> Replicas \cup {None}]
    /\ closed \in [Connections -> BOOLEAN]
    /\ start \in [Connections -> 0 .. MaxEvents]
    /\ high \in [Connections -> 0 .. MaxEvents]
    /\ snapshot \in [Connections -> Seq(Events)]
    /\ unread \in [Connections -> SUBSET Events]
    /\ buffer \in [Connections -> SUBSET Events]
    /\ received \in [Connections -> SUBSET Events]
    /\ lost \in SUBSET Events
    /\ faults \in 0 .. MaxFaults

Init ==
    /\ counter = 0 /\ history = <<>>
    /\ sequences = [r \in Replicas |-> 0]
    /\ memory = [r \in Replicas |-> <<>>]
    /\ step = [e \in Emitters |-> "idle"]
    /\ number = [e \in Emitters |-> 0]
    /\ channel = [r \in Replicas |-> "off"]
    /\ inbox = [r \in Replicas |-> <<>>]
    /\ mutex = [r \in Replicas |-> None]
    /\ leaked = [r \in Replicas |-> FALSE]
    /\ phase = [c \in Connections |-> "away"]
    /\ where = [c \in Connections |-> None]
    /\ closed = [c \in Connections |-> FALSE]
    /\ start = [c \in Connections |-> 0]
    /\ high = [c \in Connections |-> 0]
    /\ snapshot = [c \in Connections |-> <<>>]
    /\ unread = [c \in Connections |-> {}]
    /\ buffer = [c \in Connections |-> {}]
    /\ received = [c \in Connections |-> {}]
    /\ lost = {} /\ faults = 0

Fault == faults < MaxFaults /\ faults' = faults + 1

(* memoryListeners of a replica; a leaked listener is one more. *)
Listeners(r) ==
    {c \in Connections : where[c] = r /\ phase[c] \in Buffering \cup {"live", "leaving"}}

Unheard(r) == Listeners(r) = {} /\ ~leaked[r]

(* Every listener of r is called with n: before the replay is over it keeps *)
(* the event, afterwards writeEvent writes it unless it is not a new one.   *)
(* A closed connection's listener does nothing.                             *)
Hear(r, n) ==
    LET writing == {c \in Listeners(r) : phase[c] = "live" /\ n > high[c]}
    IN  /\ buffer' = [c \in Connections |->
                        IF c \in Listeners(r) /\ phase[c] \in Buffering
                        THEN buffer[c] \cup {n} ELSE buffer[c]]
        /\ high' = [c \in Connections |-> IF c \in writing THEN n ELSE high[c]]
        /\ received' = [c \in Connections |->
                          IF c \in writing THEN received[c] \cup {n} ELSE received[c]]

-----------------------------------------------------------------------------
(* emit *)

(* Mutant: the counter is read before it is incremented. *)
NumberBefore(e) ==
    /\ step[e] = "idle"
    /\ counter < MaxEvents
    /\ counter' = counter + 1
    /\ step' = [step EXCEPT ![e] = "numbered"]
    /\ number' = [number EXCEPT ![e] = counter]
    /\ UNCHANGED <<history, sequences, memory, relayVars, writeVars, connectionVars, lost,
                   faults>>

(* nextSequence: INCR and EXPIRE. *)
Number(e) ==
    /\ step[e] = "idle"
    /\ counter < MaxEvents
    /\ counter' = counter + 1
    /\ step' = [step EXCEPT ![e] = "numbered"]
    /\ number' = [number EXCEPT ![e] = counter + 1]
    /\ UNCHANGED <<history, sequences, memory, relayVars, writeVars, connectionVars, lost,
                   faults>>

(* One of them fails: this process counts for itself, from 1, and what it   *)
(* gets is the number of another event too, or will be.  When it is EXPIRE, *)
(* the number that INCR gave belongs to no event.                           *)
NumberFails(e) ==
    LET n == sequences[home[e]] + 1
    IN  /\ step[e] = "idle"
        /\ n \in Events
        /\ Fault
        /\ sequences' = [sequences EXCEPT ![home[e]] = n]
        /\ step' = [step EXCEPT ![e] = "numbered"]
        /\ number' = [number EXCEPT ![e] = n]
        /\ \/ /\ lost' = lost \cup {n}
              /\ UNCHANGED counter
           \/ /\ counter < MaxEvents
              /\ counter' = counter + 1
              /\ lost' = lost \cup {n, counter + 1}
        /\ UNCHANGED <<history, memory, relayVars, writeVars, connectionVars>>

(* storeEventHistory: past the cap, only critical events are stored. *)
Store(e) ==
    /\ step[e] = "numbered"
    /\ step' = [step EXCEPT ![e] = "stored"]
    /\ \/ history' = Append(history, number[e]) /\ UNCHANGED lost
       \/ /\ Len(history) >= HistoryCap
          /\ lost' = lost \cup {number[e]}
          /\ UNCHANGED history
    /\ UNCHANGED <<counter, sequences, memory, number, relayVars, writeVars, connectionVars,
                   faults>>

Without(list, i) == [j \in 1 .. Len(list) - 1 |-> list[IF j < i THEN j ELSE j + 1]]

(* This process's list with n: at the cap, a critical event takes the place *)
(* of another, and one that is not critical is left out.                    *)
Remembered(list, n) ==
    IF Len(list) < HistoryCap THEN {Append(list, n)}
    ELSE {list} \cup {Append(Without(list, i), n) : i \in 1 .. Len(list)}

(* A Redis call fails, the last of them (EXPIRE) or one before it: the      *)
(* event goes to this process's memory.                                     *)
StoreFails(e) ==
    /\ step[e] = "numbered"
    /\ Fault
    /\ step' = [step EXCEPT ![e] = "stored"]
    /\ \E list \in Remembered(memory[home[e]], number[e]) :
          memory' = [memory EXCEPT ![home[e]] = list]
    /\ \/ history' = Append(history, number[e]) /\ UNCHANGED lost
       \/ lost' = lost \cup {number[e]} /\ UNCHANGED history
    /\ UNCHANGED <<counter, sequences, number, relayVars, writeVars, connectionVars>>

(* The listeners of this process are called. *)
Notify(e) ==
    /\ step[e] = "stored"
    /\ step' = [step EXCEPT ![e] = "notified"]
    /\ Hear(home[e], number[e])
    /\ UNCHANGED <<counter, history, sequences, memory, number, relayVars, connectionVars,
                   lost, faults>>

(* pubsub.publish; a failure is swallowed.  The emitter's own replica drops *)
(* what it receives from itself, so nothing is put in its inbox.            *)
Publish(e) ==
    /\ step[e] = "notified"
    /\ step' = [step EXCEPT ![e] = "idle"]
    /\ \/ /\ inbox' = [r \in Replicas |->
                          IF channel[r] = "on" /\ r # home[e]
                          THEN Append(inbox[r], number[e]) ELSE inbox[r]]
          /\ UNCHANGED <<lost, faults>>
       \/ Fault /\ lost' = lost \cup {number[e]} /\ UNCHANGED inbox
    /\ UNCHANGED <<counter, history, sequences, memory, number, channel, mutex, leaked, writeVars,
                   connectionVars>>

(* The subscriber's 'message' handler. *)
Receive(r) ==
    /\ inbox[r] # <<>>
    /\ inbox' = [inbox EXCEPT ![r] = Tail(@)]
    /\ Hear(r, Head(inbox[r]))
    /\ UNCHANGED <<emitVars, channel, mutex, leaked, connectionVars, lost, faults>>
-----------------------------------------------------------------------------
(* GET /executions/:id/events *)

(* A request arrives, with the id of an event its client has received, or   *)
(* without one.  Events written to a socket may not have reached the client. *)
Request(c) ==
    /\ phase[c] = "away"
    /\ phase' = [phase EXCEPT ![c] = "joining"]
    /\ \E r \in Replicas : where' = [where EXCEPT ![c] = r]
    /\ \E n \in 0 .. high[c] :
          /\ start' = [start EXCEPT ![c] = n]
          /\ high' = [high EXCEPT ![c] = n]
    /\ UNCHANGED <<emitVars, relayVars, received, buffer, closed, snapshot, unread,
                   lost, faults>>

(* subscribe, once the mutex is free: the listener is added, and the first  *)
(* one of the replica subscribes to the Redis channel, under the mutex.     *)
Subscribe(c) ==
    LET r == where[c]
    IN  /\ phase[c] = "joining"
        /\ mutex[r] = None
        /\ IF Unheard(r)
           THEN /\ phase' = [phase EXCEPT ![c] = "subscribing"]
                /\ mutex' = [mutex EXCEPT ![r] = c]
           ELSE /\ phase' = [phase EXCEPT ![c] = "reading"]
                /\ UNCHANGED mutex
        /\ UNCHANGED <<emitVars, channel, inbox, leaked, writeVars,
                       where, closed, start, snapshot, unread, lost, faults>>

(* Redis answers; when it fails, nothing subscribes again while the replica *)
(* has a listener.                                                          *)
Subscribed(c) ==
    LET r == where[c]
    IN  /\ phase[c] = "subscribing"
        /\ phase' = [phase EXCEPT ![c] = "reading"]
        /\ mutex' = [mutex EXCEPT ![r] = None]
        /\ \/ channel' = [channel EXCEPT ![r] = "on"] /\ UNCHANGED faults
           \/ channel' = [channel EXCEPT ![r] = "failed"] /\ Fault
        /\ UNCHANGED <<emitVars, inbox, leaked, writeVars, where, closed, start, snapshot,
                       unread, lost>>

(* getEventsSince reads the whole list ... *)
ReadHistory(c) ==
    /\ phase[c] = "reading"
    /\ phase' = [phase EXCEPT ![c] = "replaying"]
    /\ snapshot' = [snapshot EXCEPT ![c] = history]
    /\ UNCHANGED <<emitVars, relayVars, writeVars, where, closed, start, unread, lost, faults>>

(* (LRANGE fails: it takes what this process has in memory) *)
ReadFails(c) ==
    /\ phase[c] = "reading"
    /\ Fault
    /\ phase' = [phase EXCEPT ![c] = "replaying"]
    /\ snapshot' = [snapshot EXCEPT ![c] = memory[where[c]]]
    /\ unread' = [unread EXCEPT ![c] = {history[i] : i \in 1 .. Len(history)}]
    /\ UNCHANGED <<emitVars, relayVars, writeVars, where, closed, start, lost>>

(* Mutant: off by one. *)
AfterNext(c) == {i \in 1 .. Len(snapshot[c]) : snapshot[c][i] > start[c] + 1}

(* ... and keeps the places of the events after the Last-Event-ID. *)
Since(c) == {i \in 1 .. Len(snapshot[c]) : snapshot[c][i] > start[c]}

Highest(S) == CHOOSE n \in S : \A m \in S : m <= n

(* What writeEvent lets through of them, in the order they are stored. *)
Replayed(c) ==
    {snapshot[c][i] : i \in {j \in Since(c) :
        /\ snapshot[c][j] > high[c]
        /\ \A k \in Since(c) : k < j => snapshot[c][k] < snapshot[c][j]}}

(* Mutant: what arrived during the replay is not written. *)
ReplayDiscards(c) ==
    LET replayed == Replayed(c)
    IN  /\ phase[c] = "replaying"
        /\ ~closed[c]
        /\ phase' = [phase EXCEPT ![c] = "live"]
        /\ high' = [high EXCEPT ![c] = Highest(replayed \cup {high[c]})]
        /\ received' = [received EXCEPT ![c] = @ \cup replayed]
        /\ buffer' = [buffer EXCEPT ![c] = {}]
        /\ snapshot' = [snapshot EXCEPT ![c] = <<>>]
        /\ UNCHANGED <<emitVars, relayVars, where, closed, start, unread, lost, faults>>

(* The history is written, then the buffered events in order; from now on   *)
(* events are written as they come, and the 'close' handler is set.         *)
Replay(c) ==
    LET replayed == Replayed(c)
        mark == Highest(replayed \cup {high[c]})
        flushed == {n \in buffer[c] : n > mark}
    IN  /\ phase[c] = "replaying"
        /\ ~closed[c]
        /\ phase' = [phase EXCEPT ![c] = "live"]
        /\ high' = [high EXCEPT ![c] = Highest(flushed \cup {mark})]
        /\ received' = [received EXCEPT ![c] = @ \cup replayed \cup flushed]
        /\ buffer' = [buffer EXCEPT ![c] = {}]
        /\ snapshot' = [snapshot EXCEPT ![c] = <<>>]
        /\ UNCHANGED <<emitVars, relayVars, where, closed, start, unread, lost, faults>>

(* The socket had closed: nothing is written, and the handler that is set   *)
(* too late never runs.                                                     *)
ReplayToNobody(c) ==
    /\ phase[c] = "replaying"
    /\ closed[c]
    /\ phase' = [phase EXCEPT ![c] = "away"]
    /\ where' = [where EXCEPT ![c] = None]
    /\ start' = [start EXCEPT ![c] = 0]
    /\ closed' = [closed EXCEPT ![c] = FALSE]
    /\ leaked' = [leaked EXCEPT ![where[c]] = TRUE]
    /\ buffer' = [buffer EXCEPT ![c] = {}]
    /\ snapshot' = [snapshot EXCEPT ![c] = <<>>]
    /\ unread' = [unread EXCEPT ![c] = {}]
    /\ UNCHANGED <<emitVars, channel, inbox, mutex, high, received, lost, faults>>

(* The client goes away. *)
Close(c) ==
    /\ ~closed[c]
    /\ \/ /\ phase[c] = "live"
          /\ phase' = [phase EXCEPT ![c] = "leaving"]
          /\ start' = [start EXCEPT ![c] = 0]
          /\ received' = [received EXCEPT ![c] = {}]
          /\ unread' = [unread EXCEPT ![c] = {}]
          /\ UNCHANGED closed
       \/ /\ phase[c] \in Buffering \cup {"joining"}
          /\ closed' = [closed EXCEPT ![c] = TRUE]
          /\ UNCHANGED <<phase, start, received, unread>>
    /\ UNCHANGED <<emitVars, relayVars, high, buffer, where, snapshot, lost, faults>>

(* Mutant: any listener that leaves unsubscribes the channel. *)
UnsubscribeAny(c) ==
    LET r == where[c]
    IN  /\ phase[c] = "leaving"
        /\ mutex[r] = None
        /\ phase' = [phase EXCEPT ![c] = "unsubscribing"]
        /\ mutex' = [mutex EXCEPT ![r] = c]
        /\ UNCHANGED <<emitVars, channel, inbox, leaked, writeVars,
                       where, closed, start, snapshot, unread, lost, faults>>

(* unsubscribe, once the mutex is free: the listener is removed, and after  *)
(* the last one of the replica the Redis channel, under the mutex.          *)
Unsubscribe(c) ==
    LET r == where[c]
    IN  /\ phase[c] = "leaving"
        /\ mutex[r] = None
        /\ IF Listeners(r) = {c} /\ ~leaked[r]
           THEN /\ phase' = [phase EXCEPT ![c] = "unsubscribing"]
                /\ mutex' = [mutex EXCEPT ![r] = c]
                /\ UNCHANGED where
           ELSE /\ phase' = [phase EXCEPT ![c] = "away"]
                /\ where' = [where EXCEPT ![c] = None]
                /\ UNCHANGED mutex
        /\ UNCHANGED <<emitVars, channel, inbox, leaked, writeVars,
                       closed, start, snapshot, unread, lost, faults>>

(* Redis answers; what it sent before was received by nobody. *)
Unsubscribed(c) ==
    LET r == where[c]
    IN  /\ phase[c] = "unsubscribing"
        /\ phase' = [phase EXCEPT ![c] = "away"]
        /\ where' = [where EXCEPT ![c] = None]
        /\ mutex' = [mutex EXCEPT ![r] = None]
        /\ channel' = [channel EXCEPT ![r] = "off"]
        /\ inbox' = [inbox EXCEPT ![r] = <<>>]
        /\ UNCHANGED <<emitVars, leaked, writeVars, closed, start, snapshot, unread, lost, faults>>

(* A replica restarts: its requests and emits are cut off, and its memory   *)
(* is gone.                                                                 *)
Crash(r) ==
    LET cut == {c \in Connections : where[c] = r}
        unfinished == {e \in Emitters : home[e] = r /\ step[e] # "idle"}
    IN  /\ Fault
        /\ channel' = [channel EXCEPT ![r] = "off"]
        /\ inbox' = [inbox EXCEPT ![r] = <<>>]
        /\ mutex' = [mutex EXCEPT ![r] = None]
        /\ leaked' = [leaked EXCEPT ![r] = FALSE]
        /\ phase' = [c \in Connections |-> IF c \in cut THEN "away" ELSE phase[c]]
        /\ closed' = [c \in Connections |-> closed[c] /\ c \notin cut]
        /\ where' = [c \in Connections |-> IF c \in cut THEN None ELSE where[c]]
        /\ start' = [c \in Connections |-> IF c \in cut THEN 0 ELSE start[c]]
        /\ received' = [c \in Connections |-> IF c \in cut THEN {} ELSE received[c]]
        /\ buffer' = [c \in Connections |-> IF c \in cut THEN {} ELSE buffer[c]]
        /\ snapshot' = [c \in Connections |-> IF c \in cut THEN <<>> ELSE snapshot[c]]
        /\ unread' = [c \in Connections |-> IF c \in cut THEN {} ELSE unread[c]]
        /\ sequences' = [sequences EXCEPT ![r] = 0]
        /\ memory' = [memory EXCEPT ![r] = <<>>]
        /\ step' = [e \in Emitters |-> IF e \in unfinished THEN "idle" ELSE step[e]]
        /\ lost' = lost \cup {number[e] : e \in unfinished}
        /\ UNCHANGED <<counter, history, number, high>>

EmitStep(e) ==
    \/ Number(e) \/ NumberFails(e) \/ Store(e) \/ StoreFails(e) \/ Notify(e) \/ Publish(e)

RequestStep(c) ==
    \/ Request(c) \/ Subscribe(c) \/ Subscribed(c) \/ ReadHistory(c) \/ ReadFails(c)
    \/ Replay(c) \/ ReplayToNobody(c) \/ Close(c) \/ Unsubscribe(c) \/ Unsubscribed(c)

Next ==
    \/ \E e \in Emitters : EmitStep(e)
    \/ \E c \in Connections : RequestStep(c)
    \/ \E r \in Replicas : Receive(r) \/ Crash(r)

Spec == Init /\ [][Next]_vars

-----------------------------------------------------------------------------
(* "Every event still reaches the client exactly once, in order"            *)
(* (execution.controller.ts, lines 95-102), in two parts.                   *)

(* Nothing is skipped: what lies between the Last-Event-ID of a request and *)
(* its high-water mark was written to it, unless it was lost on the way or  *)
(* stored where the request could not read it.                              *)
NoGap ==
    \A c \in Connections : phase[c] = "live" =>
        \A n \in start[c] + 1 .. high[c] : n \in received[c] \cup lost \cup unread[c]

(* Nothing is missed: a live request has every such event, once no emit and *)
(* no message is under way, unless its replica could not subscribe.         *)
CaughtUp ==
    \A c \in Connections :
        (/\ phase[c] = "live"
         /\ channel[where[c]] # "failed"
         /\ inbox[where[c]] = <<>>
         /\ \A e \in Emitters : step[e] = "idle")
        => \A n \in start[c] + 1 .. counter : n \in received[c] \cup lost \cup unread[c]

(* A replica has the Redis channel exactly while it has a listener, however *)
(* requests come and go, and a request that holds the mutex is about to     *)
(* release it.  Only a closed request's leaked listener keeps the channel   *)
(* for nobody.                                                              *)
ChannelFollowsListeners ==
    \A r \in Replicas :
        IF mutex[r] = None
        THEN channel[r] = "off" <=> Unheard(r)
        ELSE where[mutex[r]] = r /\ phase[mutex[r]] \in {"subscribing", "unsubscribing"}
===============================================================================
