--------------------------- MODULE EventStreamProofs ---------------------------
(***************************************************************************)
(* Proofs about the event stream, for any number of replicas, connections  *)
(* and events, any cap of the history and any number of faults.            *)
(***************************************************************************)
EXTENDS EventStream, SequenceTheorems, WellFoundedInduction, TLAPS

-----------------------------------------------------------------------------
(* What every step keeps, however many emitters there are.  A request that *)
(* is served is served by a replica, and an emit under way has its number. *)
Placed == \A c \in Connections : phase[c] # "away" => where[c] \in Replicas

Numbered == \A e \in Emitters : step[e] # "idle" => number[e] \in Events

(* A mutex is held by the request that Redis owes an answer, from before    *)
(* the first listener until the channel is there, and from after the last   *)
(* one until it is gone.                                                    *)
Subscriber(c, r) ==
    /\ where[c] = r /\ phase[c] = "subscribing"
    /\ Listeners(r) = {c} /\ ~leaked[r] /\ channel[r] = "off"

Unsubscriber(c, r) ==
    where[c] = r /\ phase[c] = "unsubscribing" /\ Unheard(r)

Mutexes ==
    /\ \A r \in Replicas :
          IF mutex[r] = None
          THEN channel[r] = "off" <=> Unheard(r)
          ELSE Subscriber(mutex[r], r) \/ Unsubscriber(mutex[r], r)
    /\ \A c \in Connections :
          phase[c] \in {"subscribing", "unsubscribing"} => mutex[where[c]] = c

Relayed == \A r \in Replicas : inbox[r] # <<>> => channel[r] = "on"

BaseInv == Placed /\ Numbered /\ Mutexes /\ Relayed

-----------------------------------------------------------------------------
(* A set of numbers of events that is not empty has a highest one. *)
LEMMA HighestIs ==
    ASSUME NEW S, S \subseteq 0 .. MaxEvents, S # {}
    PROVE  Highest(S) \in S /\ \A m \in S : m <= Highest(S)
  <1> DEFINE T == {MaxEvents - n : n \in S}
  <1>1. MaxEvents \in Nat
    BY EventStreamAssumption
  <1>2. T \subseteq Nat /\ T # {}
    <2>1. ASSUME NEW n \in S PROVE MaxEvents - n \in Nat
      <3>1. n \in 0 .. MaxEvents
        OBVIOUS
      <3> QED BY <1>1, <3>1
    <2> QED BY <2>1
  <1>3. PICK d \in T : \A x \in T : ~ (<<x, d>> \in OpToRel(<, Nat))
    BY <1>2, NatLessThanWellFounded, WFMin, Zenon
  <1>4. \A x \in T : ~ (x < d)
    <2> TAKE x \in T
    <2>1. x \in Nat /\ d \in Nat
      BY <1>2, <1>3
    <2>2. <<x, d>> \in OpToRel(<, Nat) <=> x < d
      BY <2>1 DEF OpToRel
    <2> QED BY <1>3, <2>2
  <1>5. PICK n \in S : d = MaxEvents - n
    BY <1>3
  <1>6. \A m \in S : m <= n
    <2> TAKE m \in S
    <2>1. ~ (MaxEvents - m < d)
      BY <1>4
    <2>2. m \in 0 .. MaxEvents /\ n \in 0 .. MaxEvents
      OBVIOUS
    <2> QED BY <1>1, <1>5, <2>1, <2>2
  <1>7. \E h \in S : \A m \in S : m <= h
    BY <1>6
  <1> HIDE DEF T
  <1> QED BY <1>7 DEF Highest

LEMMA HearTypes ==
    ASSUME TypeOK, NEW r \in Replicas, NEW n \in Events, Hear(r, n)
    PROVE  /\ buffer' \in [Connections -> SUBSET Events]
           /\ high' \in [Connections -> 0 .. MaxEvents]
           /\ received' \in [Connections -> SUBSET Events]
  <1>1. n \in 0 .. MaxEvents
    BY DEF Events
  <1> QED BY <1>1, Zenon DEF Hear, TypeOK

(* What a request replays. *)
LEMMA ReplayTypes ==
    ASSUME TypeOK, NEW c \in Connections
    PROVE  /\ Replayed(c) \subseteq Events
           /\ Highest(Replayed(c) \cup {high[c]}) \in 0 .. MaxEvents
           /\ \A flushed \in SUBSET buffer[c] :
                 Highest(flushed \cup {Highest(Replayed(c) \cup {high[c]})}) \in 0 .. MaxEvents
  <1>1. snapshot[c] \in Seq(Events) /\ high[c] \in 0 .. MaxEvents /\ buffer[c] \subseteq Events
    BY DEF TypeOK
  <1>2. Replayed(c) \subseteq Events
    BY <1>1 DEF Replayed, Since
  <1>3. Events \subseteq 0 .. MaxEvents
    BY EventStreamAssumption DEF Events
  <1> DEFINE mark == Highest(Replayed(c) \cup {high[c]})
  <1>4. mark \in 0 .. MaxEvents
    <2> DEFINE S == Replayed(c) \cup {high[c]}
    <2>1. S \subseteq 0 .. MaxEvents /\ S # {}
      BY <1>1, <1>2, <1>3
    <2> HIDE DEF S
    <2>2. Highest(S) \in S
      BY <2>1, HighestIs
    <2> QED BY <2>1, <2>2 DEF S
  <1> HIDE DEF mark
  <1>5. ASSUME NEW flushed \in SUBSET buffer[c]
        PROVE  Highest(flushed \cup {mark}) \in 0 .. MaxEvents
    <2> DEFINE S == flushed \cup {mark}
    <2>1. S \subseteq 0 .. MaxEvents /\ S # {}
      BY <1>1, <1>3, <1>4
    <2> HIDE DEF S
    <2>2. Highest(S) \in S
      BY <2>1, HighestIs
    <2> QED BY <2>1, <2>2 DEF S
  <1> QED BY <1>2, <1>4, <1>5 DEF mark

(* A list without one of its events, and with a new one at the end. *)
LEMMA WithoutIs ==
    ASSUME NEW s \in Seq(Events), NEW i \in 1 .. Len(s)
    PROVE  /\ Without(s, i) \in Seq(Events) /\ Len(Without(s, i)) = Len(s) - 1
           /\ \A j \in 1 .. Len(s) - 1 :
                 Without(s, i)[j] = IF j < i THEN s[j] ELSE s[j + 1]
  <1>1. Len(s) \in Nat /\ Len(s) - 1 \in Nat
    OBVIOUS
  <1> DEFINE n == Len(s) - 1
             f(j) == s[IF j < i THEN j ELSE j + 1]
  <1>2. ASSUME NEW j \in 1 .. n PROVE f(j) \in Events
    <2>1. (IF j < i THEN j ELSE j + 1) \in 1 .. Len(s)
      BY <1>1
    <2> QED BY <2>1
  <1>3. Without(s, i) = [j \in 1 .. n |-> f(j)]
    BY DEF Without
  <1>4. n \in Nat
    BY <1>1
  <1>5. \A j \in 1 .. n : f(j) = IF j < i THEN s[j] ELSE s[j + 1]
    OBVIOUS
  <1> HIDE DEF f, n
  <1>6. Without(s, i) \in Seq(Events) /\ Len(Without(s, i)) = n
    BY <1>2, <1>3, <1>4
  <1> QED BY <1>3, <1>5, <1>6 DEF n

LEMMA RememberedIs ==
    ASSUME NEW s \in Seq(Events), NEW n \in Events, NEW list \in Remembered(s, n)
    PROVE  list \in Seq(Events)
  <1>1. CASE list = s \/ list = Append(s, n)
    BY <1>1
  <1>2. ASSUME NEW i \in 1 .. Len(s), list = Append(Without(s, i), n)
        PROVE  list \in Seq(Events)
    <2>1. PICK t \in Seq(Events) : t = Without(s, i)
      BY WithoutIs
    <2> QED BY <1>2, <2>1
  <1> QED BY <1>1, <1>2 DEF Remembered

-----------------------------------------------------------------------------
(* The types. *)
LEMMA InitTypes == Init => TypeOK /\ Placed /\ Numbered
  <1> SUFFICES ASSUME Init PROVE TypeOK /\ Placed /\ Numbered
    OBVIOUS
  <1>1. MaxEvents \in Nat /\ MaxFaults \in Nat
    BY EventStreamAssumption
  <1>2. 0 \in 0 .. MaxEvents /\ 0 \in 0 .. MaxFaults
    BY <1>1
  <1>3. <<>> \in Seq(Events)
    OBVIOUS
  <1>4. TypeOK
    BY <1>2, <1>3 DEF Init, TypeOK, Phases
  <1> QED BY <1>4 DEF Init, Placed, Numbered

LEMMA EmitTypes ==
    ASSUME TypeOK, Placed, Numbered, NEW e \in Emitters, EmitStep(e)
    PROVE  TypeOK' /\ Placed' /\ Numbered'
  <1>0. MaxEvents \in Nat /\ MaxFaults \in Nat /\ home[e] \in Replicas /\ counter \in Nat
    BY EventStreamAssumption DEF TypeOK
  <1>1. CASE Number(e) \/ NumberFails(e)
    <2>1. counter' \in 0 .. MaxEvents /\ number'[e] \in Events /\ lost' \in SUBSET Events
      <3>1. CASE Number(e)
        BY <1>0, <3>1 DEF Number, TypeOK, Events
      <3>2. CASE NumberFails(e)
        <4>1. counter' \in 0 .. MaxEvents /\ number'[e] \in Events
          BY <1>0, <3>2 DEF NumberFails, TypeOK
        <4>2. \/ lost' = lost \cup {number'[e]}
              \/ counter < MaxEvents /\ lost' = lost \cup {number'[e], counter + 1}
          BY <3>2 DEF NumberFails, TypeOK
        <4>3. counter < MaxEvents => counter + 1 \in Events
          BY <1>0 DEF Events
        <4> QED BY <4>1, <4>2, <4>3 DEF TypeOK
      <3> QED BY <1>1, <3>1, <3>2
    <2>2. \A f \in Emitters : f # e => number'[f] = number[f] /\ step'[f] = step[f]
      BY <1>1 DEF Number, NumberFails, TypeOK
    <2>3. number' \in [Emitters -> 0 .. MaxEvents]
      <3>1. PICK n \in Events : number' = [number EXCEPT ![e] = n]
        BY <1>1, <2>1 DEF Number, NumberFails, TypeOK
      <3>2. n \in 0 .. MaxEvents
        BY <1>0 DEF Events
      <3> QED BY <3>1, <3>2 DEF TypeOK
    <2>6. sequences' \in [Replicas -> 0 .. MaxEvents] /\ faults' \in 0 .. MaxFaults
      <3>1. CASE Number(e)
        BY <3>1 DEF Number, TypeOK
      <3>2. CASE NumberFails(e)
        <4>1. PICK n \in Events : sequences' = [sequences EXCEPT ![home[e]] = n]
          BY <3>2 DEF NumberFails
        <4>2. n \in 0 .. MaxEvents
          BY <1>0 DEF Events
        <4>3. faults' \in 0 .. MaxFaults
          BY <1>0, <3>2 DEF NumberFails, Fault, TypeOK
        <4> QED BY <4>1, <4>2, <4>3 DEF TypeOK
      <3> QED BY <1>1, <3>1, <3>2
    <2>7. step' \in [Emitters -> {"idle", "numbered", "stored", "notified"}]
      BY <1>1 DEF Number, NumberFails, TypeOK
    <2>8. UNCHANGED <<history, memory, relayVars, writeVars, connectionVars>>
      BY <1>1 DEF Number, NumberFails
    <2>4. TypeOK'
      BY <2>1, <2>3, <2>6, <2>7, <2>8 DEF TypeOK, relayVars, writeVars, connectionVars
    <2>5. Numbered'
      BY <2>1, <2>2 DEF Numbered
    <2> QED BY <2>4, <2>5, <2>8 DEF Placed, connectionVars
  <1>2. ASSUME step[e] # "idle" PROVE number[e] \in Events
    BY <1>2 DEF Numbered
  <1>3. CASE Store(e) \/ StoreFails(e)
    <2>1. number[e] \in Events
      BY <1>2, <1>3 DEF Store, StoreFails
    <2>2. history' \in Seq(Events)
      <3>1. history \in Seq(Events)
        BY DEF TypeOK
      <3>2. Append(history, number[e]) \in Seq(Events)
        BY <2>1, <3>1
      <3>3. history' = Append(history, number[e]) \/ history' = history
        BY <1>3 DEF Store, StoreFails
      <3> QED BY <3>1, <3>2, <3>3
    <2>3. lost' \in SUBSET Events /\ faults' \in 0 .. MaxFaults
      BY <1>0, <1>3, <2>1 DEF Store, StoreFails, Fault, TypeOK
    <2>4. step' \in [Emitters -> {"idle", "numbered", "stored", "notified"}]
      BY <1>3 DEF Store, StoreFails, TypeOK
    <2>6. memory' \in [Replicas -> Seq(Events)]
      <3>1. CASE Store(e)
        BY <3>1 DEF Store, TypeOK
      <3>2. CASE StoreFails(e)
        <4>1. PICK list \in Remembered(memory[home[e]], number[e]) :
                      memory' = [memory EXCEPT ![home[e]] = list]
          BY <3>2 DEF StoreFails
        <4>2. memory[home[e]] \in Seq(Events)
          BY <1>0 DEF TypeOK
        <4>3. list \in Seq(Events)
          BY <2>1, <4>1, <4>2, RememberedIs
        <4> QED BY <4>1, <4>3 DEF TypeOK
      <3> QED BY <1>3, <3>1, <3>2
    <2>7. UNCHANGED <<counter, sequences, number, relayVars, writeVars, connectionVars>>
      BY <1>3 DEF Store, StoreFails
    <2>5. TypeOK'
      BY <2>2, <2>3, <2>4, <2>6, <2>7 DEF TypeOK, relayVars, writeVars, connectionVars
    <2>8. Numbered'
      BY <1>3, <2>1, <2>7 DEF Store, StoreFails, Numbered, TypeOK
    <2> QED BY <2>5, <2>7, <2>8 DEF Placed, connectionVars
  <1>4. CASE Notify(e)
    <2>1. number[e] \in Events /\ Hear(home[e], number[e])
      BY <1>2, <1>4 DEF Notify
    <2>2. /\ buffer' \in [Connections -> SUBSET Events]
          /\ high' \in [Connections -> 0 .. MaxEvents]
          /\ received' \in [Connections -> SUBSET Events]
      BY <1>0, <2>1, HearTypes
    <2>3. step' \in [Emitters -> {"idle", "numbered", "stored", "notified"}]
      BY <1>4 DEF Notify, TypeOK
    <2>4. TypeOK'
      BY <1>4, <2>2, <2>3 DEF Notify, TypeOK, relayVars, connectionVars
    <2> QED BY <1>4, <2>4 DEF Notify, Placed, Numbered, TypeOK, connectionVars
  <1>5. CASE Publish(e)
    <2>1. number[e] \in Events
      BY <1>2, <1>5 DEF Publish
    <2>2. inbox' \in [Replicas -> Seq(Events)]
      <3>1. \A r \in Replicas : Append(inbox[r], number[e]) \in Seq(Events)
        BY <2>1 DEF TypeOK
      <3> QED BY <1>5, <3>1 DEF Publish, TypeOK
    <2>3. lost' \in SUBSET Events /\ faults' \in 0 .. MaxFaults
      BY <1>0, <1>5, <2>1 DEF Publish, Fault, TypeOK
    <2>4. step' \in [Emitters -> {"idle", "numbered", "stored", "notified"}]
      BY <1>5 DEF Publish, TypeOK
    <2>5. TypeOK'
      BY <1>5, <2>2, <2>3, <2>4 DEF Publish, TypeOK, writeVars, connectionVars
    <2> QED BY <1>5, <2>5 DEF Publish, Placed, Numbered, TypeOK, connectionVars
  <1> QED BY <1>1, <1>3, <1>4, <1>5 DEF EmitStep

LEMMA ReplicaTypes ==
    ASSUME TypeOK, Placed, Numbered, NEW r \in Replicas, Receive(r) \/ Crash(r)
    PROVE  TypeOK' /\ Placed' /\ Numbered'
  <1>0. MaxEvents \in Nat /\ MaxFaults \in Nat
    BY EventStreamAssumption
  <1>1. CASE Receive(r)
    <2>1. inbox[r] \in Seq(Events) /\ inbox[r] # <<>>
      BY <1>1 DEF Receive, TypeOK
    <2>2. Head(inbox[r]) \in Events /\ Tail(inbox[r]) \in Seq(Events)
      BY <2>1
    <2>3. /\ buffer' \in [Connections -> SUBSET Events]
          /\ high' \in [Connections -> 0 .. MaxEvents]
          /\ received' \in [Connections -> SUBSET Events]
      BY <1>1, <2>2, HearTypes DEF Receive
    <2>4. inbox' \in [Replicas -> Seq(Events)]
      BY <1>1, <2>2 DEF Receive, TypeOK
    <2>5. TypeOK'
      BY <1>1, <2>3, <2>4 DEF Receive, TypeOK, emitVars, connectionVars
    <2> QED BY <1>1, <2>5 DEF Receive, Placed, Numbered, emitVars, connectionVars
  <1>2. CASE Crash(r)
    <2>1. /\ step' \in [Emitters -> {"idle", "numbered", "stored", "notified"}]
          /\ \A e \in Emitters : step'[e] # "idle" => step[e] # "idle"
      BY <1>2 DEF Crash, TypeOK
    <2>2. \A e \in Emitters : step[e] # "idle" => number[e] \in Events
      BY DEF Numbered
    <2>3. lost' \in SUBSET Events /\ faults' \in 0 .. MaxFaults
      BY <1>0, <1>2, <2>2 DEF Crash, Fault, TypeOK
    <2>4. /\ channel' \in [Replicas -> {"off", "on", "failed"}]
          /\ inbox' \in [Replicas -> Seq(Events)]
          /\ mutex' \in [Replicas -> Connections \cup {None}]
          /\ leaked' \in [Replicas -> BOOLEAN]
      BY <1>2 DEF Crash, TypeOK
    <2>5. /\ phase' \in [Connections -> Phases]
          /\ closed' \in [Connections -> BOOLEAN]
          /\ where' \in [Connections -> Replicas \cup {None}]
      BY <1>2 DEF Crash, TypeOK, Phases
    <2>6. /\ start' \in [Connections -> 0 .. MaxEvents]
          /\ snapshot' \in [Connections -> Seq(Events)]
          /\ buffer' \in [Connections -> SUBSET Events]
          /\ received' \in [Connections -> SUBSET Events]
          /\ unread' \in [Connections -> SUBSET Events]
      BY <1>0, <1>2 DEF Crash, TypeOK
    <2>9. /\ sequences' \in [Replicas -> 0 .. MaxEvents]
          /\ memory' \in [Replicas -> Seq(Events)]
      BY <1>0, <1>2 DEF Crash, TypeOK
    <2>7. TypeOK'
      BY <1>2, <2>1, <2>3, <2>4, <2>5, <2>6, <2>9 DEF Crash, TypeOK
    <2>8. Placed'
      BY <1>2 DEF Crash, Placed
    <2> QED BY <1>2, <2>1, <2>7, <2>8 DEF Crash, Numbered
  <1> QED BY <1>1, <1>2

LEMMA RequestTypes ==
    ASSUME TypeOK, Placed, Numbered, NEW c \in Connections, RequestStep(c)
    PROVE  TypeOK' /\ Placed' /\ Numbered'
  <1>0. MaxEvents \in Nat /\ MaxFaults \in Nat
    BY EventStreamAssumption
  <1>1. CASE Request(c)
    <2>1. PICK n \in 0 .. high[c] : start' = [start EXCEPT ![c] = n] /\ high' = [high EXCEPT ![c] = n]
      BY <1>1 DEF Request
    <2>2. n \in 0 .. MaxEvents
      BY <1>0, <2>1 DEF TypeOK
    <2>3. start' \in [Connections -> 0 .. MaxEvents] /\ high' \in [Connections -> 0 .. MaxEvents]
      BY <2>1, <2>2 DEF TypeOK
    <2>4. PICK r \in Replicas : where' = [where EXCEPT ![c] = r]
      BY <1>1 DEF Request
    <2>5. phase' \in [Connections -> Phases] /\ where' \in [Connections -> Replicas \cup {None}]
      BY <1>1, <2>4 DEF Request, TypeOK, Phases
    <2>6. TypeOK'
      BY <1>1, <2>3, <2>5 DEF Request, TypeOK, emitVars, relayVars
    <2>7. Placed'
      BY <1>1, <2>4 DEF Request, Placed, TypeOK
    <2> QED BY <1>1, <2>6, <2>7 DEF Request, Numbered, emitVars
  <1>2. CASE Subscribe(c)
    <2>1. phase' \in [Connections -> Phases]
      <3>1. \/ phase' = [phase EXCEPT ![c] = "subscribing"]
            \/ phase' = [phase EXCEPT ![c] = "reading"]
        BY <1>2 DEF Subscribe
      <3> QED BY <3>1, Zenon DEF TypeOK, Phases, Buffering
    <2>2. mutex' \in [Replicas -> Connections \cup {None}]
      <3>1. mutex' = [mutex EXCEPT ![where[c]] = c] \/ mutex' = mutex
        BY <1>2 DEF Subscribe
      <3> QED BY <3>1, Zenon DEF TypeOK
    <2>3. TypeOK'
      BY <1>2, <2>1, <2>2 DEF Subscribe, TypeOK, emitVars, writeVars
    <2>4. Placed'
      BY <1>2 DEF Subscribe, Placed, TypeOK
    <2> QED BY <1>2, <2>3, <2>4 DEF Subscribe, Numbered, emitVars
  <1>3. CASE Subscribed(c)
    <2>1. phase' \in [Connections -> Phases] /\ mutex' \in [Replicas -> Connections \cup {None}]
      BY <1>3 DEF Subscribed, TypeOK, Phases, Buffering
    <2>2. channel' \in [Replicas -> {"off", "on", "failed"}]
      <3>1. \/ channel' = [channel EXCEPT ![where[c]] = "on"]
            \/ channel' = [channel EXCEPT ![where[c]] = "failed"]
        BY <1>3 DEF Subscribed
      <3> QED BY <3>1, Zenon DEF TypeOK
    <2>5. faults' \in 0 .. MaxFaults
      BY <1>0, <1>3 DEF Subscribed, TypeOK, Fault
    <2>3. TypeOK'
      BY <1>3, <2>1, <2>2, <2>5 DEF Subscribed, TypeOK, emitVars, writeVars
    <2>4. Placed'
      BY <1>3 DEF Subscribed, Placed, TypeOK
    <2> QED BY <1>3, <2>3, <2>4 DEF Subscribed, Numbered, emitVars
  <1>4. CASE ReadHistory(c)
    <2>1. phase' \in [Connections -> Phases] /\ snapshot' \in [Connections -> Seq(Events)]
      BY <1>4 DEF ReadHistory, TypeOK, Phases, Buffering
    <2>2. TypeOK'
      BY <1>4, <2>1 DEF ReadHistory, TypeOK, emitVars, relayVars, writeVars
    <2>3. Placed'
      BY <1>4 DEF ReadHistory, Placed, TypeOK
    <2> QED BY <1>4, <2>2, <2>3 DEF ReadHistory, Numbered, emitVars
  <1>10. CASE ReadFails(c)
    <2>1. /\ phase' \in [Connections -> Phases]
          /\ snapshot' = [snapshot EXCEPT ![c] = memory[where[c]]]
          /\ unread' = [unread EXCEPT ![c] = {history[i] : i \in 1 .. Len(history)}]
      BY <1>10 DEF ReadFails, TypeOK, Phases, Buffering
    <2>2. memory[where[c]] \in Seq(Events)
      BY <1>10 DEF ReadFails, Placed, TypeOK
    <2>3. {history[i] : i \in 1 .. Len(history)} \subseteq Events
      <3>1. history \in Seq(Events)
        BY DEF TypeOK
      <3> QED BY <3>1
    <2>4. snapshot' \in [Connections -> Seq(Events)] /\ unread' \in [Connections -> SUBSET Events]
      BY <2>1, <2>2, <2>3 DEF TypeOK
    <2>5. faults' \in 0 .. MaxFaults
      BY <1>0, <1>10 DEF ReadFails, Fault, TypeOK
    <2>6. TypeOK'
      BY <1>10, <2>1, <2>4, <2>5 DEF ReadFails, TypeOK, emitVars, relayVars, writeVars
    <2>7. Placed'
      BY <1>10 DEF ReadFails, Placed, TypeOK
    <2> QED BY <1>10, <2>6, <2>7 DEF ReadFails, Numbered, emitVars
  <1>5. CASE Replay(c)
    <2> DEFINE mark == Highest(Replayed(c) \cup {high[c]})
               flushed == {n \in buffer[c] : n > mark}
               top == Highest(flushed \cup {mark})
    <2>1. flushed \in SUBSET buffer[c] /\ buffer[c] \subseteq Events
      BY DEF TypeOK
    <2>2. top \in 0 .. MaxEvents /\ Replayed(c) \cup flushed \subseteq Events
      BY <2>1, ReplayTypes
    <2>3. /\ high' = [high EXCEPT ![c] = top]
          /\ received' = [received EXCEPT ![c] = @ \cup Replayed(c) \cup flushed]
      BY <1>5 DEF Replay
    <2> HIDE DEF top, flushed, mark
    <2>4. high' \in [Connections -> 0 .. MaxEvents] /\ received' \in [Connections -> SUBSET Events]
      BY <2>2, <2>3 DEF TypeOK
    <2>5. /\ buffer' \in [Connections -> SUBSET Events]
          /\ snapshot' \in [Connections -> Seq(Events)]
          /\ phase' \in [Connections -> Phases]
      BY <1>5 DEF Replay, TypeOK, Phases
    <2>6. TypeOK'
      BY <1>5, <2>4, <2>5 DEF Replay, TypeOK, emitVars, relayVars
    <2>7. Placed'
      BY <1>5 DEF Replay, Placed, TypeOK
    <2> QED BY <1>5, <2>6, <2>7 DEF Replay, Numbered, emitVars
  <1>6. CASE ReplayToNobody(c)
    <2>1. where[c] \in Replicas
      BY <1>6 DEF ReplayToNobody, Placed
    <2>2. /\ phase' \in [Connections -> Phases]
          /\ where' \in [Connections -> Replicas \cup {None}]
          /\ closed' \in [Connections -> BOOLEAN]
          /\ leaked' \in [Replicas -> BOOLEAN]
      BY <1>6, Zenon DEF ReplayToNobody, TypeOK, Phases
    <2>6. start' \in [Connections -> 0 .. MaxEvents]
      BY <1>0, <1>6 DEF ReplayToNobody, TypeOK
    <2>3. /\ buffer' \in [Connections -> SUBSET Events]
          /\ unread' \in [Connections -> SUBSET Events]
          /\ snapshot' \in [Connections -> Seq(Events)]
      BY <1>6 DEF ReplayToNobody, TypeOK
    <2>4. TypeOK'
      BY <1>6, <2>2, <2>3, <2>6 DEF ReplayToNobody, TypeOK, emitVars
    <2>5. Placed'
      BY <1>6 DEF ReplayToNobody, Placed, TypeOK
    <2> QED BY <1>6, <2>4, <2>5 DEF ReplayToNobody, Numbered, emitVars
  <1>7. CASE Close(c)
    <2>1. /\ phase' \in [Connections -> Phases]
          /\ start' \in [Connections -> 0 .. MaxEvents]
          /\ closed' \in [Connections -> BOOLEAN]
          /\ received' \in [Connections -> SUBSET Events]
          /\ unread' \in [Connections -> SUBSET Events]
      <3>1. start' = [start EXCEPT ![c] = 0] \/ start' = start
        BY <1>7 DEF Close
      <3>2. start' \in [Connections -> 0 .. MaxEvents]
        <4>1. 0 \in 0 .. MaxEvents
          BY <1>0
        <4> QED BY <3>1, <4>1, Zenon DEF TypeOK
      <3>3. phase' = [phase EXCEPT ![c] = "leaving"] \/ phase' = phase
        BY <1>7 DEF Close
      <3>4. received' = [received EXCEPT ![c] = {}] \/ received' = received
        BY <1>7 DEF Close
      <3>5. closed' = [closed EXCEPT ![c] = TRUE] \/ closed' = closed
        BY <1>7 DEF Close
      <3>6. phase' \in [Connections -> Phases] /\ closed' \in [Connections -> BOOLEAN]
        BY <3>3, <3>5, Zenon DEF TypeOK, Phases
      <3>7. received' \in [Connections -> SUBSET Events]
        BY <3>4 DEF TypeOK
      <3>8. unread' = [unread EXCEPT ![c] = {}] \/ unread' = unread
        BY <1>7 DEF Close
      <3>9. unread' \in [Connections -> SUBSET Events]
        BY <3>8 DEF TypeOK
      <3> QED BY <3>2, <3>6, <3>7, <3>9
    <2>2. TypeOK'
      BY <1>7, <2>1 DEF Close, TypeOK, emitVars, relayVars
    <2>3. Placed'
      BY <1>7 DEF Close, Placed, TypeOK
    <2> QED BY <1>7, <2>2, <2>3 DEF Close, Numbered, emitVars
  <1>8. CASE Unsubscribe(c)
    <2>1. /\ phase' \in [Connections -> Phases]
          /\ where' \in [Connections -> Replicas \cup {None}]
          /\ mutex' \in [Replicas -> Connections \cup {None}]
      <3>1. phase' = [phase EXCEPT ![c] = "away"] \/ phase' = [phase EXCEPT ![c] = "unsubscribing"]
        BY <1>8 DEF Unsubscribe
      <3>2. where' = [where EXCEPT ![c] = None] \/ where' = where
        BY <1>8 DEF Unsubscribe
      <3>3. mutex' = [mutex EXCEPT ![where[c]] = c] \/ mutex' = mutex
        BY <1>8 DEF Unsubscribe
      <3> QED BY <3>1, <3>2, <3>3, Zenon DEF TypeOK, Phases
    <2>2. TypeOK'
      BY <1>8, <2>1 DEF Unsubscribe, TypeOK, emitVars, writeVars
    <2>3. Placed'
      BY <1>8 DEF Unsubscribe, Placed, TypeOK
    <2> QED BY <1>8, <2>2, <2>3 DEF Unsubscribe, Numbered, emitVars
  <1>9. CASE Unsubscribed(c)
    <2>1. /\ phase' \in [Connections -> Phases]
          /\ where' \in [Connections -> Replicas \cup {None}]
          /\ mutex' \in [Replicas -> Connections \cup {None}]
      BY <1>9 DEF Unsubscribed, TypeOK, Phases
    <2>2. channel' \in [Replicas -> {"off", "on", "failed"}] /\ inbox' \in [Replicas -> Seq(Events)]
      <3>1. /\ channel' = [channel EXCEPT ![where[c]] = "off"]
            /\ inbox' = [inbox EXCEPT ![where[c]] = <<>>]
        BY <1>9 DEF Unsubscribed
      <3>2. channel' \in [Replicas -> {"off", "on", "failed"}]
        BY <3>1, Zenon DEF TypeOK
      <3> QED BY <3>1, <3>2 DEF TypeOK
    <2>3. TypeOK'
      BY <1>9, <2>1, <2>2 DEF Unsubscribed, TypeOK, emitVars, writeVars
    <2>4. Placed'
      BY <1>9 DEF Unsubscribed, Placed, TypeOK
    <2> QED BY <1>9, <2>3, <2>4 DEF Unsubscribed, Numbered, emitVars
  <1> QED BY <1>1, <1>2, <1>3, <1>4, <1>5, <1>6, <1>7, <1>8, <1>9, <1>10 DEF RequestStep

LEMMA NextTypes ==
    TypeOK /\ Placed /\ Numbered /\ [Next]_vars => TypeOK' /\ Placed' /\ Numbered'
  <1> SUFFICES ASSUME TypeOK, Placed, Numbered, [Next]_vars
               PROVE  TypeOK' /\ Placed' /\ Numbered'
    OBVIOUS
  <1>1. CASE Next
    BY <1>1, EmitTypes, ReplicaTypes, RequestTypes DEF Next
  <1>2. CASE UNCHANGED vars
    BY <1>2 DEF vars, emitVars, relayVars, writeVars, connectionVars, TypeOK, Placed, Numbered
  <1> QED BY <1>1, <1>2

-----------------------------------------------------------------------------
(* The channel and the mutexes. *)
Listening == Buffering \cup {"live", "leaving"}

LEMMA ListenersAre ==
    ASSUME NEW r
    PROVE  Listeners(r) = {c \in Connections : where[c] = r /\ phase[c] \in Listening}
  BY DEF Listeners, Listening

(* A step that neither adds nor removes a listener of r, ... *)
LEMMA SameListeners ==
    ASSUME NEW r,
           \A c \in Connections : (where[c] = r /\ phase[c] \in Listening)
                                  <=> (where'[c] = r /\ phase'[c] \in Listening)
    PROVE  Listeners(r)' = Listeners(r)
  BY DEF Listeners, Listening

(* ... and leaves its mutex with the holder it had, and its holder alone.   *)
MutexOf(r) ==
    IF mutex[r] = None
    THEN channel[r] = "off" <=> Unheard(r)
    ELSE Subscriber(mutex[r], r) \/ Unsubscriber(mutex[r], r)

LEMMA MutexKept ==
    ASSUME NEW r \in Replicas, MutexOf(r), Listeners(r)' = Listeners(r),
           mutex'[r] = mutex[r], channel'[r] = channel[r], leaked'[r] = leaked[r],
           mutex[r] # None => /\ phase'[mutex[r]] = phase[mutex[r]]
                              /\ where'[mutex[r]] = where[mutex[r]]
    PROVE  MutexOf(r)'
  BY DEF MutexOf, Subscriber, Unsubscriber, Unheard

Held(c) == phase[c] \in {"subscribing", "unsubscribing"} => mutex[where[c]] = c

LEMMA MutexesAre ==
    /\ Mutexes <=> (\A r \in Replicas : MutexOf(r)) /\ (\A c \in Connections : Held(c))
    /\ Mutexes' <=> (\A r \in Replicas : MutexOf(r)') /\ (\A c \in Connections : Held(c)')
  BY DEF Mutexes, MutexOf, Held

(* Nobody comes, goes or takes a mutex. *)
LEMMA Unmoved ==
    ASSUME Mutexes, phase' = phase, where' = where,
           mutex' = mutex, channel' = channel, leaked' = leaked
    PROVE  Mutexes'
  BY DEF Mutexes, Subscriber, Unsubscriber, Unheard, Listeners

(* A request moves that neither becomes nor stops being a listener. *)
LEMMA Bystander ==
    ASSUME TypeOK, Mutexes, NEW c \in Connections, NEW p, NEW w,
           phase' = [phase EXCEPT ![c] = p], where' = [where EXCEPT ![c] = w],
           mutex' = mutex, channel' = channel, leaked' = leaked,
           phase[c] \in Listening <=> p \in Listening,
           phase[c] \in Listening => w = where[c],
           phase[c] \notin {"subscribing", "unsubscribing"},
           p \notin {"subscribing", "unsubscribing"}
    PROVE  Mutexes'
  <1>1. \A x \in Connections : x # c => phase'[x] = phase[x] /\ where'[x] = where[x]
    BY DEF TypeOK
  <1>2. phase'[c] = p /\ where'[c] = w
    BY DEF TypeOK
  <1>3. ASSUME NEW r \in Replicas PROVE MutexOf(r)'
    <2>1. Listeners(r)' = Listeners(r)
      <3>1. \A x \in Connections : (where[x] = r /\ phase[x] \in Listening)
                                  <=> (where'[x] = r /\ phase'[x] \in Listening)
        BY <1>1, <1>2
      <3> QED BY <3>1, SameListeners
    <2>2. MutexOf(r)
      BY MutexesAre
    <2>3. mutex[r] # None => mutex[r] \in Connections /\ mutex[r] # c
      BY <2>2 DEF MutexOf, Subscriber, Unsubscriber, TypeOK
    <2> QED BY <1>1, <2>1, <2>2, <2>3, MutexKept
  <1>4. ASSUME NEW x \in Connections PROVE Held(x)'
    <2>1. Held(x)
      BY MutexesAre
    <2> QED BY <1>1, <1>2, <2>1 DEF Held
  <1> QED BY <1>3, <1>4, MutexesAre

(* A request's step at its replica leaves the others alone. *)
LEMMA Elsewhere ==
    ASSUME TypeOK, Mutexes, NEW c \in Connections, NEW p, NEW w, NEW q \in Replicas,
           where[c] # q, w # q,
           phase' = [phase EXCEPT ![c] = p], where' = [where EXCEPT ![c] = w],
           mutex'[q] = mutex[q], channel'[q] = channel[q], leaked'[q] = leaked[q]
    PROVE  MutexOf(q)'
  <1>1. \A x \in Connections : x # c => phase'[x] = phase[x] /\ where'[x] = where[x]
    BY DEF TypeOK
  <1>2. where'[c] = w
    BY DEF TypeOK
  <1>3. Listeners(q)' = Listeners(q)
    <2>1. \A x \in Connections : (where[x] = q /\ phase[x] \in Listening)
                                <=> (where'[x] = q /\ phase'[x] \in Listening)
      BY <1>1, <1>2
    <2> QED BY <2>1, SameListeners
  <1>4. MutexOf(q)
    BY MutexesAre
  <1>5. mutex[q] # None => mutex[q] \in Connections /\ mutex[q] # c
    BY <1>4 DEF MutexOf, Subscriber, Unsubscriber, TypeOK
  <1> QED BY <1>1, <1>3, <1>4, <1>5, MutexKept

LEMMA SubscribeMutexes ==
    ASSUME TypeOK, Placed, Mutexes, NEW c \in Connections, Subscribe(c)
    PROVE  Mutexes'
  <1>0. PICK r \in Replicas : r = where[c] /\ phase[c] = "joining" /\ mutex[r] = None
    BY DEF Subscribe, Placed
  <1>1. PICK p \in {"subscribing", "reading"} : phase' = [phase EXCEPT ![c] = p]
    BY DEF Subscribe
  <1>2. where' = where /\ channel' = channel /\ leaked' = leaked
    BY DEF Subscribe
  <1>3. where' = [where EXCEPT ![c] = where[c]]
    BY <1>2, Zenon DEF TypeOK
  <1>4. \A x \in Connections : x # c => phase'[x] = phase[x]
    BY <1>1 DEF TypeOK
  <1>5. phase'[c] = p
    BY <1>1 DEF TypeOK
  <1>6. \A q \in Replicas : q # r => mutex'[q] = mutex[q]
    BY <1>0 DEF Subscribe, TypeOK
  <1>7. Listeners(r)' = Listeners(r) \cup {c}
    BY <1>0, <1>2, <1>4, <1>5 DEF Listeners, Buffering
  <1>8. MutexOf(r)
    BY <1>0, MutexesAre
  <1>9. MutexOf(r)'
    <2>1. CASE Unheard(r)
      <3>1. p = "subscribing" /\ mutex'[r] = c
        BY <1>0, <1>5, <2>1 DEF Subscribe, TypeOK
      <3>2. Subscriber(c, r)'
        BY <1>0, <1>2, <1>5, <1>7, <1>8, <2>1, <3>1 DEF MutexOf, Unheard, Subscriber
      <3>3. c # None
        BY EventStreamAssumption
      <3> QED BY <3>1, <3>2, <3>3 DEF MutexOf
    <2>2. CASE ~Unheard(r)
      <3>1. mutex' = mutex
        BY <1>0, <2>2 DEF Subscribe
      <3>2. ~Unheard(r)'
        BY <1>2, <1>7 DEF Unheard
      <3> QED BY <1>0, <1>2, <1>8, <2>2, <3>1, <3>2 DEF MutexOf
    <2> QED BY <2>1, <2>2
  <1>10. \A q \in Replicas : q # r => MutexOf(q)'
    BY <1>0, <1>1, <1>2, <1>3, <1>6, Elsewhere
  <1>11. ASSUME NEW x \in Connections PROVE Held(x)'
    <2>1. CASE x = c
      <3>1. p = "subscribing" => mutex'[r] = c
        BY <1>0, <1>5 DEF Subscribe, TypeOK
      <3> QED BY <1>0, <1>2, <1>5, <2>1, <3>1 DEF Held
    <2>2. CASE x # c
      <3>1. Held(x) /\ x # None
        BY MutexesAre, EventStreamAssumption
      <3>2. phase[x] \in {"subscribing", "unsubscribing"} => where[x] # r /\ where[x] \in Replicas
        BY <1>0, <3>1 DEF Held, Placed
      <3> QED BY <1>2, <1>4, <1>6, <2>2, <3>1, <3>2 DEF Held
    <2> QED BY <2>1, <2>2
  <1> QED BY <1>9, <1>10, <1>11, MutexesAre

(* The holder of a mutex releases it. *)
LEMMA ReleaseMutexes ==
    ASSUME TypeOK, Placed, Mutexes, NEW c \in Connections, Subscribed(c) \/ Unsubscribed(c)
    PROVE  Mutexes'
  <1>0. PICK r \in Replicas : r = where[c] /\ phase[c] \in {"subscribing", "unsubscribing"}
    BY DEF Subscribed, Unsubscribed, Placed
  <1>1. c # None /\ r # None
    BY <1>0, EventStreamAssumption
  <1>2. Held(c) /\ MutexOf(r)
    BY <1>0, MutexesAre
  <1>3. mutex[r] = c
    BY <1>0, <1>2 DEF Held
  <1>4. /\ leaked' = leaked
        /\ mutex' = [mutex EXCEPT ![r] = None]
        /\ \A q \in Replicas : q # r => channel'[q] = channel[q]
    BY <1>0 DEF Subscribed, Unsubscribed, TypeOK
  <1>5. PICK p \in {"reading", "away"}, w \in {r, None} :
           /\ phase' = [phase EXCEPT ![c] = p] /\ where' = [where EXCEPT ![c] = w]
           /\ p = "reading" => w = r
    <2>1. CASE Subscribed(c)
      <3>1. where' = [where EXCEPT ![c] = r]
        BY <1>0, <2>1, Zenon DEF Subscribed, TypeOK
      <3> QED BY <2>1, <3>1 DEF Subscribed
    <2>2. CASE Unsubscribed(c)
      BY <1>0, <2>2 DEF Unsubscribed
    <2> QED BY <2>1, <2>2
  <1>6. mutex'[r] = None /\ \A q \in Replicas : q # r => mutex'[q] = mutex[q]
    BY <1>0, <1>4 DEF TypeOK
  <1>7. \A x \in Connections : x # c => phase'[x] = phase[x] /\ where'[x] = where[x]
    BY <1>5 DEF TypeOK
  <1>8. phase'[c] = p /\ where'[c] = w
    BY <1>5 DEF TypeOK
  <1>9. MutexOf(r)'
    <2>1. CASE Subscribed(c)
      <3>1. Listeners(r) = {c} /\ phase[c] = "subscribing"
        BY <1>1, <1>2, <1>3, <2>1 DEF Subscribed, MutexOf, Subscriber, Unsubscriber
      <3>2. where'[c] = r /\ phase'[c] = "reading"
        BY <1>0, <1>8, <2>1 DEF Subscribed, TypeOK
      <3>3. c \in Listeners(r)'
        BY <3>2 DEF Listeners, Buffering
      <3>4. channel'[r] # "off"
        BY <1>0, <2>1 DEF Subscribed, TypeOK
      <3> QED BY <1>6, <3>3, <3>4 DEF MutexOf, Unheard
    <2>2. CASE Unsubscribed(c)
      <3>1. Unheard(r)
        BY <1>1, <1>2, <1>3, <2>2 DEF Unsubscribed, MutexOf, Subscriber, Unsubscriber
      <3>2. phase'[c] = "away"
        BY <2>2 DEF Unsubscribed, TypeOK
      <3>3. Unheard(r)'
        BY <1>4, <1>7, <3>1, <3>2 DEF Unheard, Listeners, Buffering
      <3>4. channel'[r] = "off"
        BY <1>0, <2>2 DEF Unsubscribed, TypeOK
      <3> QED BY <1>6, <3>3, <3>4 DEF MutexOf
    <2> QED BY <2>1, <2>2
  <1>10. \A q \in Replicas : q # r => MutexOf(q)'
    <2> TAKE q \in Replicas
    <2> HAVE q # r
    <2>1. w # q /\ mutex'[q] = mutex[q] /\ channel'[q] = channel[q] /\ leaked'[q] = leaked[q]
      BY <1>4, <1>6, EventStreamAssumption
    <2> QED BY <1>0, <1>5, <2>1, Elsewhere
  <1>11. ASSUME NEW x \in Connections PROVE Held(x)'
    <2>1. CASE x = c
      BY <1>8, <2>1 DEF Held
    <2>2. CASE x # c
      <3>1. Held(x)
        BY MutexesAre
      <3>2. phase[x] \in {"subscribing", "unsubscribing"} => where[x] # r /\ where[x] \in Replicas
        BY <1>0, <1>3, <2>2, <3>1 DEF Held, Placed
      <3> QED BY <1>6, <1>7, <2>2, <3>1, <3>2 DEF Held
    <2> QED BY <2>1, <2>2
  <1> QED BY <1>9, <1>10, <1>11, MutexesAre

(* A listener is left behind, or goes. *)
LEMMA LeaveMutexes ==
    ASSUME TypeOK, Placed, Mutexes, NEW c \in Connections, ReplayToNobody(c) \/ Unsubscribe(c)
    PROVE  Mutexes'
  <1>0. PICK r \in Replicas : r = where[c] /\ phase[c] \in {"replaying", "leaving"}
    BY DEF ReplayToNobody, Unsubscribe, Placed
  <1>1. c # None /\ r # None
    BY EventStreamAssumption
  <1>2. c \in Listeners(r) /\ MutexOf(r)
    BY <1>0, MutexesAre DEF Listeners, Buffering
  <1>3. mutex[r] = None /\ channel[r] # "off"
    <2>1. CASE ReplayToNobody(c)
      BY <1>0, <1>2, <2>1 DEF ReplayToNobody, MutexOf, Subscriber, Unsubscriber, Unheard
    <2>2. CASE Unsubscribe(c)
      BY <1>0, <1>2, <2>2 DEF Unsubscribe, MutexOf, Unheard
    <2> QED BY <2>1, <2>2
  <1>4. channel' = channel /\ \A q \in Replicas : q # r => mutex'[q] = mutex[q] /\ leaked'[q] = leaked[q]
    BY <1>0 DEF ReplayToNobody, Unsubscribe, TypeOK
  <1>5. PICK p \in {"unsubscribing", "away"}, w \in {r, None} :
           phase' = [phase EXCEPT ![c] = p] /\ where' = [where EXCEPT ![c] = w]
    <2>1. CASE ReplayToNobody(c)
      BY <2>1 DEF ReplayToNobody
    <2>2. CASE Unsubscribe(c)
      <3>1. where = [where EXCEPT ![c] = r]
        BY <1>0, Zenon DEF TypeOK
      <3> QED BY <1>0, <2>2, <3>1 DEF Unsubscribe
    <2> QED BY <2>1, <2>2
  <1>6. \A x \in Connections : x # c => phase'[x] = phase[x] /\ where'[x] = where[x]
    BY <1>5 DEF TypeOK
  <1>7. phase'[c] = p /\ where'[c] = w
    BY <1>5 DEF TypeOK
  <1>8. Listeners(r)' = Listeners(r) \ {c}
    BY <1>6, <1>7 DEF Listeners, Buffering
  <1>9. MutexOf(r)' /\ (p = "unsubscribing" => mutex'[r] = c /\ w = r)
    <2>1. CASE ReplayToNobody(c)
      <3>1. mutex'[r] = None /\ leaked'[r] /\ p = "away"
        BY <1>0, <1>3, <1>7, <2>1 DEF ReplayToNobody, TypeOK
      <3> QED BY <1>3, <1>4, <3>1 DEF MutexOf, Unheard
    <2>2. CASE Unsubscribe(c) /\ Listeners(r) = {c} /\ ~leaked[r]
      <3>1. mutex'[r] = c /\ phase'[c] = "unsubscribing" /\ where' = where /\ leaked' = leaked
        BY <1>0, <2>2 DEF Unsubscribe, TypeOK
      <3>2. Unsubscriber(c, r)'
        BY <1>0, <1>8, <2>2, <3>1 DEF Unsubscriber, Unheard
      <3> QED BY <1>0, <1>1, <1>7, <3>1, <3>2 DEF MutexOf
    <2>3. CASE Unsubscribe(c) /\ ~(Listeners(r) = {c} /\ ~leaked[r])
      <3>1. mutex' = mutex /\ leaked' = leaked /\ phase'[c] = "away"
        BY <1>0, <2>3 DEF Unsubscribe, TypeOK
      <3>2. ~Unheard(r)'
        BY <1>2, <1>8, <2>3, <3>1 DEF Unheard
      <3> QED BY <1>3, <1>4, <1>7, <3>1, <3>2 DEF MutexOf
    <2> QED BY <2>1, <2>2, <2>3
  <1>10. \A q \in Replicas : q # r => MutexOf(q)'
    <2> TAKE q \in Replicas
    <2> HAVE q # r
    <2>1. w # q /\ mutex'[q] = mutex[q] /\ channel'[q] = channel[q] /\ leaked'[q] = leaked[q]
      BY <1>4, EventStreamAssumption
    <2> QED BY <1>0, <1>5, <2>1, Elsewhere
  <1>11. ASSUME NEW x \in Connections PROVE Held(x)'
    <2>1. CASE x = c
      BY <1>7, <1>9, <2>1 DEF Held
    <2>2. CASE x # c
      <3>1. Held(x) /\ x # None
        BY MutexesAre, EventStreamAssumption
      <3>2. phase[x] \in {"subscribing", "unsubscribing"} => where[x] # r /\ where[x] \in Replicas
        BY <1>3, <3>1 DEF Held, Placed
      <3> QED BY <1>4, <1>6, <2>2, <3>1, <3>2 DEF Held
    <2> QED BY <2>1, <2>2
  <1> QED BY <1>9, <1>10, <1>11, MutexesAre

LEMMA CrashMutexes ==
    ASSUME TypeOK, Placed, Mutexes, NEW r \in Replicas, Crash(r)
    PROVE  Mutexes'
  <1>0. None \notin Connections \cup Replicas
    BY EventStreamAssumption
  <1>1. \A c \in Connections :
           IF where[c] = r THEN phase'[c] = "away" /\ where'[c] = None
                           ELSE phase'[c] = phase[c] /\ where'[c] = where[c]
    BY DEF Crash
  <1>2. MutexOf(r)'
    <2>1. mutex'[r] = None /\ channel'[r] = "off" /\ ~leaked'[r]
      BY DEF Crash, TypeOK
    <2>2. Listeners(r)' = {}
      BY <1>0, <1>1 DEF Listeners
    <2> QED BY <2>1, <2>2 DEF MutexOf, Unheard
  <1>3. ASSUME NEW q \in Replicas, q # r PROVE MutexOf(q)'
    <2>1. mutex'[q] = mutex[q] /\ channel'[q] = channel[q] /\ leaked'[q] = leaked[q]
      BY <1>3 DEF Crash, TypeOK
    <2>2. Listeners(q)' = Listeners(q)
      <3>1. \A x \in Connections : (where[x] = q /\ phase[x] \in Listening)
                                  <=> (where'[x] = q /\ phase'[x] \in Listening)
        BY <1>0, <1>1, <1>3
      <3> QED BY <3>1, SameListeners
    <2>3. MutexOf(q)
      BY MutexesAre
    <2>4. mutex[q] # None => mutex[q] \in Connections /\ where[mutex[q]] = q
      BY <2>3 DEF MutexOf, Subscriber, Unsubscriber, TypeOK
    <2> QED BY <1>1, <1>3, <2>1, <2>2, <2>3, <2>4, MutexKept
  <1>4. ASSUME NEW x \in Connections PROVE Held(x)'
    <2>1. Held(x)
      BY MutexesAre
    <2>2. CASE where[x] = r
      BY <1>1, <2>2 DEF Held
    <2>3. CASE where[x] # r
      BY <1>1, <2>1, <2>3 DEF Held, Crash, Placed, TypeOK
    <2> QED BY <2>2, <2>3
  <1> QED BY <1>2, <1>3, <1>4, MutexesAre

LEMMA NextMutexes ==
    TypeOK /\ Placed /\ Mutexes /\ [Next]_vars => Mutexes'
  <1> SUFFICES ASSUME TypeOK, Placed, Mutexes, [Next]_vars
               PROVE  Mutexes'
    OBVIOUS
  <1>1. ASSUME NEW e \in Emitters, EmitStep(e) PROVE Mutexes'
    <2>1. /\ phase' = phase /\ where' = where
          /\ mutex' = mutex /\ channel' = channel /\ leaked' = leaked
      BY <1>1 DEF EmitStep, Number, NumberFails, Store, StoreFails, Notify, Publish,
         relayVars, connectionVars
    <2> QED BY <2>1, Unmoved
  <1>2. ASSUME NEW r \in Replicas, Receive(r) PROVE Mutexes'
    <2>1. /\ phase' = phase /\ where' = where
          /\ mutex' = mutex /\ channel' = channel /\ leaked' = leaked
      BY <1>2 DEF Receive, connectionVars
    <2> QED BY <2>1, Unmoved
  <1>3. ASSUME NEW c \in Connections, Request(c) PROVE Mutexes'
    <2>1. /\ phase[c] = "away" /\ phase' = [phase EXCEPT ![c] = "joining"]
          /\ mutex' = mutex /\ channel' = channel /\ leaked' = leaked
      BY <1>3 DEF Request, relayVars
    <2>2. PICK w \in Replicas : where' = [where EXCEPT ![c] = w]
      BY <1>3 DEF Request
    <2>3. "away" \notin Listening /\ "joining" \notin Listening
      BY DEF Listening, Buffering
    <2>4. \A v \in {"subscribing", "unsubscribing"} : v # "away" /\ v # "joining"
      OBVIOUS
    <2> QED BY <2>1, <2>2, <2>3, <2>4, Bystander
  <1>4. ASSUME NEW c \in Connections, ReadHistory(c) \/ ReadFails(c) \/ Replay(c)
        PROVE  Mutexes'
    <2>1. where' = where /\ mutex' = mutex /\ channel' = channel /\ leaked' = leaked
      BY <1>4 DEF ReadHistory, ReadFails, Replay, relayVars
    <2>2. where' = [where EXCEPT ![c] = where[c]]
      BY <2>1, Zenon DEF TypeOK
    <2>3. PICK p \in {"replaying", "live"} :
             phase[c] \in {"reading", "replaying"} /\ phase' = [phase EXCEPT ![c] = p]
      BY <1>4 DEF ReadHistory, ReadFails, Replay
    <2>4. phase[c] \in Listening /\ p \in Listening
      BY <2>3 DEF Listening, Buffering
    <2>5. /\ phase[c] \notin {"subscribing", "unsubscribing"}
          /\ p \notin {"subscribing", "unsubscribing"}
      BY <2>3
    <2> QED BY <2>1, <2>2, <2>3, <2>4, <2>5, Bystander
  <1>5. ASSUME NEW c \in Connections, Close(c) PROVE Mutexes'
    <2>1. where' = where /\ mutex' = mutex /\ channel' = channel /\ leaked' = leaked
      BY <1>5 DEF Close, relayVars
    <2>2. CASE phase[c] = "live" /\ phase' = [phase EXCEPT ![c] = "leaving"]
      <3>1. where' = [where EXCEPT ![c] = where[c]]
        BY <2>1, Zenon DEF TypeOK
      <3>2. "live" \in Listening /\ "leaving" \in Listening
        BY DEF Listening
      <3>3. \A v \in {"subscribing", "unsubscribing"} : v # "live" /\ v # "leaving"
        OBVIOUS
      <3> QED BY <2>1, <2>2, <3>1, <3>2, <3>3, Bystander
    <2>3. CASE phase' = phase
      BY <2>1, <2>3, Unmoved
    <2> QED BY <1>5, <2>2, <2>3 DEF Close
  <1>6. CASE UNCHANGED vars
    BY <1>6, Unmoved DEF vars, relayVars, connectionVars
  <1>7. CASE \E c \in Connections : RequestStep(c)
    BY <1>3, <1>4, <1>5, <1>7, SubscribeMutexes, ReleaseMutexes, LeaveMutexes DEF RequestStep
  <1> QED BY <1>1, <1>2, <1>6, <1>7, CrashMutexes DEF Next

LEMMA NextRelayed ==
    TypeOK /\ Placed /\ Mutexes /\ Relayed /\ [Next]_vars => Relayed'
  <1> SUFFICES ASSUME TypeOK, Placed, Mutexes, Relayed, [Next]_vars, NEW r \in Replicas, inbox'[r] # <<>>
               PROVE  channel'[r] = "on"
    BY DEF Relayed
  <1>1. inbox[r] # <<>> => channel[r] = "on"
    BY DEF Relayed
  <1>2. ASSUME NEW e \in Emitters, EmitStep(e) PROVE channel'[r] = "on"
    <2>1. CASE Publish(e)
      BY <1>1, <2>1 DEF Publish
    <2>2. CASE Number(e) \/ NumberFails(e) \/ Store(e) \/ StoreFails(e) \/ Notify(e)
      BY <1>1, <2>2 DEF Number, NumberFails, Store, StoreFails, Notify, relayVars
    <2> QED BY <1>2, <2>1, <2>2 DEF EmitStep
  <1>3. ASSUME NEW q \in Replicas, Receive(q) PROVE channel'[r] = "on"
    BY <1>1, <1>3 DEF Receive, TypeOK
  <1>4. ASSUME NEW q \in Replicas, Crash(q) PROVE channel'[r] = "on"
    BY <1>1, <1>4 DEF Crash, TypeOK
  <1>5. ASSUME NEW c \in Connections, Unsubscribed(c) PROVE channel'[r] = "on"
    BY <1>1, <1>5 DEF Unsubscribed, TypeOK
  <1>6. ASSUME NEW c \in Connections, Subscribed(c) PROVE channel'[r] = "on"
    <2>1. where[c] \in Replicas /\ phase[c] = "subscribing" /\ c # None
      BY <1>6, EventStreamAssumption DEF Subscribed, Placed
    <2>2. Held(c) /\ MutexOf(where[c])
      BY <2>1, MutexesAre
    <2>3. channel[where[c]] = "off"
      BY <2>1, <2>2 DEF Held, MutexOf, Subscriber, Unsubscriber
    <2>4. inbox[where[c]] = <<>>
      BY <2>1, <2>3 DEF Relayed
    <2>5. inbox' = inbox /\ (r # where[c] => channel'[r] = channel[r])
      BY <1>6 DEF Subscribed, TypeOK
    <2> QED BY <1>1, <2>4, <2>5
  <1>7. ASSUME NEW c \in Connections, RequestStep(c) PROVE channel'[r] = "on"
    <2>1. CASE inbox' = inbox /\ channel' = channel
      BY <1>1, <2>1
    <2> QED BY <1>5, <1>6, <1>7, <2>1 DEF RequestStep, Request, Subscribe, ReadHistory, ReadFails,
            Replay, ReplayToNobody, Close, Unsubscribe, relayVars
  <1>8. CASE UNCHANGED vars
    BY <1>1, <1>8 DEF vars, relayVars
  <1> QED BY <1>2, <1>3, <1>4, <1>7, <1>8 DEF Next

THEOREM BaseInvariant == Spec => [](TypeOK /\ BaseInv)
  <1>1. Init => TypeOK /\ BaseInv
    <2> SUFFICES ASSUME Init PROVE TypeOK /\ BaseInv
      OBVIOUS
    <2>1. Mutexes
      BY DEF Init, Mutexes, Unheard, Listeners, Buffering
    <2>2. Relayed
      BY DEF Init, Relayed
    <2> QED BY <2>1, <2>2, InitTypes DEF BaseInv
  <1>2. TypeOK /\ BaseInv /\ [Next]_vars => (TypeOK /\ BaseInv)'
    BY NextTypes, NextMutexes, NextRelayed DEF BaseInv
  <1> QED BY <1>1, <1>2, PTL DEF Spec

(* Type correctness. *)
THEOREM TypeCorrect == Spec => []TypeOK
  BY BaseInvariant, PTL

(* A replica has the Redis channel exactly while something listens there,  *)
(* however requests come, go and crash between the awaits of subscribe and *)
(* unsubscribe.                                                            *)
THEOREM ChannelFollows == Spec => []ChannelFollowsListeners
  <1>1. TypeOK /\ BaseInv => ChannelFollowsListeners
    BY DEF BaseInv, Mutexes, Subscriber, Unsubscriber, ChannelFollowsListeners
  <1> QED BY <1>1, BaseInvariant, PTL

-----------------------------------------------------------------------------
(* The execution has one emitter, e.  Its events are stored, sent and heard *)
(* in the order of their numbers, but for those numbers that the fallback   *)
(* of nextSequence gives: up to such a number, every one is lost.           *)
Values(s) == {s[i] : i \in 1 .. Len(s)}
Void(n, L) == \A m \in 1 .. n : m \in L
InOrder(s, L) == \A i, j \in 1 .. Len(s) : i < j => s[i] < s[j] \/ Void(s[j], L)

(* The events that storeEventHistory is done with, *)
Past(e) ==
    {n \in Events : Void(n, lost) \/ (n <= counter /\ (step[e] = "numbered" => n # number[e]))}

(* those that the channel is done with, *)
Sent(e) ==
    {n \in Events : Void(n, lost) \/ (n <= counter /\ (step[e] # "idle" => n # number[e]))}

(* those that a listener of r will yet be called with, *)
OnTheWay(e, r) ==
    Values(inbox[r]) \cup
    {n \in {number[e]} : \/ step[e] \in {"numbered", "stored"}
                         \/ step[e] = "notified" /\ r # home[e]}

(* unless r hears nothing of the emitter, *)
Audible(e, r) == r = home[e] \/ channel[r] = "on"

(* those that a request has written, or will write when it replays, *)
Known(c) ==
    IF phase[c] = "live" THEN received[c] ELSE Values(snapshot[c]) \cup buffer[c]

(* and those that it need not have. *)
Excused(c) == lost \cup unread[c]

Emitting(e) ==
    /\ \A r \in Replicas : Void(sequences[r], lost)
    /\ step[e] # "idle" => number[e] = counter \/ Void(number[e], lost)
    /\ InOrder(history, lost) /\ Values(history) \subseteq Past(e)
    /\ \A n \in Past(e) : n \in Values(history) \cup lost
    /\ \A r \in Replicas : InOrder(memory[r], lost) /\ Values(memory[r]) \subseteq Past(e)
    /\ inbox[home[e]] = <<>>
    /\ \A r \in Replicas : InOrder(inbox[r], lost) /\ Values(inbox[r]) \subseteq Sent(e)

(* What a request knows has no hole, and what it does not know yet is lost, *)
(* was not there to be read or is on the way to it.                         *)
Follows(e, c) ==
    /\ buffer[c] \subseteq Past(e)
    /\ phase[c] \in Buffering \cup {"joining"} => high[c] = start[c]
    /\ phase[c] = "replaying" =>
          /\ InOrder(snapshot[c], lost)
          /\ \A n \in Values(snapshot[c]) : \A m \in 1 .. n :
                m \in Values(snapshot[c]) \cup Excused(c)
          /\ \A n \in buffer[c] : \A m \in start[c] + 1 .. n : m \in Known(c) \cup Excused(c)
    /\ phase[c] = "live" => \A m \in start[c] + 1 .. high[c] : m \in received[c] \cup Excused(c)
    /\ (phase[c] \in {"replaying", "live"} /\ Audible(e, where[c])) =>
          \A m \in start[c] + 1 .. counter :
             m \in Known(c) \cup Excused(c) \cup OnTheWay(e, where[c])

(* What is lost stays lost. *)
LEMMA OrderKept ==
    ASSUME NEW L, NEW M, L \subseteq M
    PROVE  /\ \A n : Void(n, L) => Void(n, M)
           /\ \A s : InOrder(s, L) => InOrder(s, M)
  <1>1. \A n : Void(n, L) => Void(n, M)
    BY DEF Void
  <1> QED BY <1>1 DEF InOrder

LEMMA AppendValues ==
    ASSUME NEW s \in Seq(Events), NEW x \in Events, NEW L
    PROVE  /\ Values(Append(s, x)) = Values(s) \cup {x}
           /\ (InOrder(s, L) /\ \A n \in Values(s) : n < x \/ Void(x, L))
                 => InOrder(Append(s, x), L)
  <1> DEFINE t == Append(s, x)
  <1>1. Len(t) = Len(s) + 1 /\ Len(s) \in Nat
    OBVIOUS
  <1>2. \A i \in 1 .. Len(s) : t[i] = s[i]
    OBVIOUS
  <1>3. t[Len(s) + 1] = x
    OBVIOUS
  <1> HIDE DEF t
  <1>4. \A i \in 1 .. Len(t) : i \in 1 .. Len(s) \/ i = Len(s) + 1
    BY <1>1
  <1>5. Values(t) = Values(s) \cup {x}
    <2>1. \A n \in Values(t) : n \in Values(s) \cup {x}
      BY <1>2, <1>3, <1>4 DEF Values
    <2>2. \A n \in Values(s) : n \in Values(t)
      <3>1. \A i \in 1 .. Len(s) : i \in 1 .. Len(t)
        BY <1>1
      <3> QED BY <1>2, <3>1 DEF Values
    <2>3. x \in Values(t)
      <3>1. Len(t) \in 1 .. Len(t) /\ t[Len(t)] = x
        BY <1>1, <1>3
      <3> QED BY <3>1 DEF Values
    <2> QED BY <2>1, <2>2, <2>3
  <1>6. ASSUME InOrder(s, L), \A n \in Values(s) : n < x \/ Void(x, L) PROVE InOrder(t, L)
    <2> SUFFICES ASSUME NEW i \in 1 .. Len(t), NEW j \in 1 .. Len(t), i < j
                 PROVE  t[i] < t[j] \/ Void(t[j], L)
      BY DEF InOrder
    <2>1. i \in 1 .. Len(s)
      BY <1>1
    <2>2. t[i] = s[i] /\ s[i] \in Values(s)
      BY <1>2, <2>1 DEF Values
    <2>3. CASE j \in 1 .. Len(s)
      BY <1>2, <1>6, <2>1, <2>3 DEF InOrder
    <2>4. CASE j = Len(s) + 1
      BY <1>3, <1>6, <2>2, <2>4
    <2> QED BY <1>4, <2>3, <2>4
  <1> QED BY <1>5, <1>6 DEF t

LEMMA TailValues ==
    ASSUME NEW s \in Seq(Events), s # <<>>, NEW L, InOrder(s, L)
    PROVE  /\ Head(s) \in Values(s) /\ Head(s) \in Events
           /\ \A n \in Values(s) : Head(s) <= n \/ Void(n, L)
           /\ \A n \in Values(s) : n = Head(s) \/ n \in Values(Tail(s))
           /\ Values(Tail(s)) \subseteq Values(s)
           /\ InOrder(Tail(s), L)
  <1>1. Len(s) \in Nat /\ Len(s) >= 1
    OBVIOUS
  <1> DEFINE t == Tail(s)
  <1>2. Len(t) = Len(s) - 1 /\ \A i \in 1 .. Len(t) : t[i] = s[i + 1]
    OBVIOUS
  <1>3. Head(s) = s[1] /\ \A i \in 1 .. Len(s) : s[i] \in Events
    OBVIOUS
  <1> HIDE DEF t
  <1>4. 1 \in 1 .. Len(s) /\ \A i \in 1 .. Len(t) : i + 1 \in 1 .. Len(s)
    BY <1>1, <1>2
  <1>5. \A i \in 1 .. Len(s) : i = 1 \/ (i - 1 \in 1 .. Len(t) /\ t[i - 1] = s[i])
    BY <1>1, <1>2
  <1>6. Head(s) \in Values(s) /\ Head(s) \in Events
    BY <1>3, <1>4 DEF Values
  <1>7. ASSUME NEW n \in Values(s) PROVE Head(s) <= n \/ Void(n, L)
    <2>1. PICK i \in 1 .. Len(s) : n = s[i]
      BY DEF Values
    <2>2. s[1] \in Nat /\ s[i] \in Nat
      BY <1>3, <1>4 DEF Events
    <2>3. CASE i = 1
      BY <1>3, <2>1, <2>2, <2>3
    <2>4. CASE i # 1
      <3>1. s[1] < s[i] \/ Void(s[i], L)
        BY <1>4, <2>4 DEF InOrder
      <3> QED BY <1>3, <2>1, <2>2, <3>1
    <2> QED BY <2>3, <2>4
  <1>8. \A n \in Values(s) : n = Head(s) \/ n \in Values(t)
    BY <1>3, <1>5 DEF Values
  <1>9. Values(t) \subseteq Values(s)
    BY <1>2, <1>4 DEF Values
  <1>10. InOrder(t, L)
    <2> SUFFICES ASSUME NEW i \in 1 .. Len(t), NEW j \in 1 .. Len(t), i < j
                 PROVE  t[i] < t[j] \/ Void(t[j], L)
      BY DEF InOrder
    <2>1. s[i + 1] < s[j + 1] \/ Void(s[j + 1], L)
      BY <1>4 DEF InOrder
    <2> QED BY <1>2, <2>1
  <1> QED BY <1>6, <1>7, <1>8, <1>9, <1>10 DEF t

LEMMA WithoutValues ==
    ASSUME NEW s \in Seq(Events), NEW i \in 1 .. Len(s), NEW L, InOrder(s, L)
    PROVE  Values(Without(s, i)) \subseteq Values(s) /\ InOrder(Without(s, i), L)
  <1> DEFINE t == Without(s, i)
             at(j) == IF j < i THEN j ELSE j + 1
  <1>1. Len(t) = Len(s) - 1 /\ Len(s) \in Nat
    BY WithoutIs
  <1>2. \A j \in 1 .. Len(t) : t[j] = s[at(j)]
    BY <1>1, WithoutIs
  <1>3. \A j \in 1 .. Len(t) : at(j) \in 1 .. Len(s)
    BY <1>1
  <1>4. \A j, k \in 1 .. Len(t) : j < k => at(j) < at(k)
    BY <1>1
  <1> HIDE DEF t, at
  <1>5. Values(t) \subseteq Values(s)
    BY <1>2, <1>3 DEF Values
  <1>6. InOrder(t, L)
    BY <1>2, <1>3, <1>4 DEF InOrder
  <1> QED BY <1>5, <1>6 DEF t

LEMMA RememberedValues ==
    ASSUME NEW s \in Seq(Events), NEW x \in Events, NEW list \in Remembered(s, x),
           NEW L, InOrder(s, L), \A n \in Values(s) : n < x \/ Void(x, L)
    PROVE  Values(list) \subseteq Values(s) \cup {x} /\ InOrder(list, L)
  <1>1. CASE list = s
    BY <1>1
  <1>2. CASE list = Append(s, x)
    BY <1>2, AppendValues
  <1>3. ASSUME NEW i \in 1 .. Len(s), list = Append(Without(s, i), x)
        PROVE  Values(list) \subseteq Values(s) \cup {x} /\ InOrder(list, L)
    <2>1. PICK t \in Seq(Events) : t = Without(s, i)
      BY WithoutIs
    <2>2. Values(t) \subseteq Values(s) /\ InOrder(t, L)
      BY <2>1, WithoutValues
    <2>3. \A n \in Values(t) : n < x \/ Void(x, L)
      BY <2>2
    <2> QED BY <1>3, <2>1, <2>2, <2>3, AppendValues
  <1> QED BY <1>1, <1>2, <1>3 DEF Remembered

LEMMA EmptyValues == Values(<<>>) = {} /\ \A L : InOrder(<<>>, L)
  BY DEF Values, InOrder

-----------------------------------------------------------------------------
(* What the emitter does. *)
LEMMA CurrentIsLast ==
    ASSUME TypeOK, Numbered, NEW e \in Emitters, Emitting(e), step[e] # "idle",
           NEW n \in Events, Void(n, lost) \/ (n <= counter /\ n # number[e])
    PROVE  n < number[e] \/ Void(number[e], lost)
  <1>1. number[e] \in Nat /\ n \in Nat /\ counter \in Nat
    BY DEF Numbered, Events, TypeOK
  <1>2. number[e] = counter \/ Void(number[e], lost)
    BY DEF Emitting
  <1>3. ASSUME Void(n, lost), ~(n < number[e]) PROVE Void(number[e], lost)
    BY <1>1, <1>3 DEF Void
  <1> QED BY <1>1, <1>2, <1>3

(* No event that is stored, or sent, is forgotten by what the emitter does  *)
(* next.                                                                    *)
LEMMA PastKept ==
    ASSUME TypeOK, Numbered, NEW e \in Emitters, Emitting(e),
           EmitStep(e) \/ UNCHANGED <<counter, step, number, lost>>
    PROVE  /\ lost \subseteq lost'
           /\ Past(e) \subseteq Past(e)'
           /\ ~Publish(e) => Sent(e) \subseteq Sent(e)'
  <1>0. counter \in Nat
    BY DEF TypeOK
  <1>1. lost \subseteq lost'
    BY DEF EmitStep, Number, NumberFails, Store, StoreFails, Notify, Publish
  <1>2. \A n : Void(n, lost) => Void(n, lost')
    BY <1>1, OrderKept
  <1>3. CASE Number(e)
    <2>1. /\ step[e] = "idle" /\ step'[e] = "numbered"
          /\ counter' = counter + 1 /\ number'[e] = counter + 1
      BY <1>3 DEF Number, TypeOK
    <2>2. \A n \in Events : n <= counter => n <= counter' /\ n # number'[e]
      BY <1>0, <2>1 DEF Events
    <2> QED BY <1>1, <1>2, <2>1, <2>2 DEF Past, Sent
  <1>4. CASE NumberFails(e)
    <2>1. /\ step[e] = "idle" /\ step'[e] = "numbered"
          /\ counter' \in {counter, counter + 1}
          /\ Void(number'[e], lost')
      <3>1. /\ step[e] = "idle" /\ step'[e] = "numbered"
            /\ counter' \in {counter, counter + 1}
            /\ number'[e] = sequences[home[e]] + 1 /\ number'[e] \in lost'
        BY <1>4 DEF NumberFails, TypeOK
      <3>2. home[e] \in Replicas /\ sequences[home[e]] \in Nat
        BY EventStreamAssumption DEF TypeOK
      <3>3. Void(sequences[home[e]], lost')
        BY <1>2, <3>2 DEF Emitting
      <3>4. \A m \in 1 .. number'[e] : m \in 1 .. sequences[home[e]] \/ m = number'[e]
        BY <3>1, <3>2
      <3> QED BY <3>1, <3>3, <3>4 DEF Void
    <2>2. \A n \in Events : n <= counter => n <= counter' /\ (n # number'[e] \/ Void(n, lost'))
      BY <1>0, <2>1 DEF Events
    <2> QED BY <1>1, <1>2, <2>1, <2>2 DEF Past, Sent
  <1>5. CASE Store(e) \/ StoreFails(e) \/ Notify(e) \/ Publish(e)
    <2>1. /\ counter' = counter /\ number' = number
          /\ step'[e] = "numbered" => step[e] = "numbered"
          /\ ~Publish(e) => step[e] # "idle"
      BY <1>5 DEF Store, StoreFails, Notify, Publish, TypeOK
    <2> QED BY <1>1, <1>2, <2>1 DEF Past, Sent
  <1>6. CASE UNCHANGED <<counter, step, number, lost>>
    BY <1>6 DEF Past, Sent
  <1> QED BY <1>3, <1>4, <1>5, <1>6 DEF EmitStep

LEMMA NumberEmits ==
    ASSUME TypeOK, Numbered, NEW e \in Emitters, Emitting(e), Number(e) \/ NumberFails(e)
    PROVE  Emitting(e)'
  <1>0. counter \in Nat /\ home[e] \in Replicas /\ sequences[home[e]] \in Nat
    BY EventStreamAssumption DEF TypeOK
  <1>1. /\ step[e] = "idle" /\ step'[e] = "numbered"
        /\ UNCHANGED <<history, memory, inbox>>
    BY DEF Number, NumberFails, relayVars, TypeOK
  <1>2. lost \subseteq lost' /\ Past(e) \subseteq Past(e)' /\ Sent(e) \subseteq Sent(e)'
    BY PastKept, <1>1 DEF EmitStep, Publish
  <1>3. /\ \A n : Void(n, lost) => Void(n, lost')
        /\ \A s : InOrder(s, lost) => InOrder(s, lost')
    BY <1>2, OrderKept
  <1>4. /\ number'[e] = counter' \/ Void(number'[e], lost')
        /\ \A r \in Replicas : Void(sequences'[r], lost')
        /\ counter' = counter \/ (counter' = counter + 1 /\ counter' \in lost' \cup {number'[e]})
    <2>1. CASE Number(e)
      BY <1>3, <2>1 DEF Number, Emitting, TypeOK
    <2>2. CASE NumberFails(e)
      <3>1. /\ number'[e] = sequences[home[e]] + 1 /\ number'[e] \in lost'
            /\ sequences' = [sequences EXCEPT ![home[e]] = sequences[home[e]] + 1]
            /\ counter' = counter \/ (counter' = counter + 1 /\ counter' \in lost')
        BY <2>2 DEF NumberFails, TypeOK
      <3>2. Void(sequences[home[e]], lost')
        BY <1>0, <1>3 DEF Emitting
      <3>3. \A m \in 1 .. number'[e] : m \in 1 .. sequences[home[e]] \/ m = number'[e]
        BY <1>0, <3>1
      <3>4. Void(number'[e], lost')
        BY <3>1, <3>2, <3>3 DEF Void
      <3>5. \A r \in Replicas : sequences'[r] = number'[e] \/ sequences'[r] = sequences[r]
        BY <1>0, <3>1 DEF TypeOK
      <3> QED BY <1>3, <3>1, <3>4, <3>5 DEF Emitting
    <2> QED BY <2>1, <2>2
  <1>5. \A n \in Past(e)' : n \in Past(e) \/ n \in lost'
    <2> TAKE n \in Past(e)'
    <2>1. n \in Events /\ n \in Nat /\ n >= 1
      BY DEF Past, Events
    <2>2. CASE Void(n, lost')
      BY <2>1, <2>2 DEF Void
    <2>3. CASE n <= counter' /\ n # number'[e]
      <3>1. n <= counter \/ n \in lost'
        BY <1>0, <1>4, <2>1, <2>3
      <3> QED BY <1>1, <2>1, <3>1 DEF Past
    <2> QED BY <1>1, <2>2, <2>3 DEF Past
  <1>6. \A n \in Past(e)' : n \in Values(history) \cup lost'
    BY <1>2, <1>5 DEF Emitting
  <1>7. InOrder(history, lost') /\ Values(history) \subseteq Past(e)'
    BY <1>2, <1>3 DEF Emitting
  <1>8. \A r \in Replicas : /\ InOrder(memory[r], lost') /\ Values(memory[r]) \subseteq Past(e)'
                            /\ InOrder(inbox[r], lost') /\ Values(inbox[r]) \subseteq Sent(e)'
    BY <1>2, <1>3 DEF Emitting
  <1>9. inbox[home[e]] = <<>>
    BY DEF Emitting
  <1> QED BY <1>1, <1>4, <1>6, <1>7, <1>8, <1>9 DEF Emitting

LEMMA StoreEmits ==
    ASSUME TypeOK, Numbered, NEW e \in Emitters, Emitting(e), Store(e) \/ StoreFails(e)
    PROVE  Emitting(e)'
  <1>0. /\ counter \in Nat /\ history \in Seq(Events) /\ home[e] \in Replicas
        /\ \A r \in Replicas : memory[r] \in Seq(Events)
    BY EventStreamAssumption DEF TypeOK
  <1>1. /\ step[e] = "numbered" /\ step'[e] = "stored"
        /\ UNCHANGED <<counter, number, sequences, inbox>>
    BY DEF Store, StoreFails, relayVars, TypeOK
  <1>2. lost \subseteq lost' /\ Past(e) \subseteq Past(e)' /\ Sent(e) \subseteq Sent(e)'
    BY PastKept, <1>1 DEF EmitStep, Publish
  <1>3. /\ \A n : Void(n, lost) => Void(n, lost')
        /\ \A s : InOrder(s, lost) => InOrder(s, lost')
    BY <1>2, OrderKept
  <1>4. number[e] \in Events
    BY <1>1 DEF Numbered
  <1>5. \A n \in Past(e) : n < number[e] \/ Void(number[e], lost)
    BY <1>1, CurrentIsLast DEF Past
  <1>6. \A n \in Past(e)' : n \in Past(e) \/ n = number[e] \/ n \in lost'
    <2> TAKE n \in Past(e)'
    <2>1. n \in Events /\ n \in Nat /\ n >= 1
      BY DEF Past, Events
    <2>2. CASE Void(n, lost')
      BY <2>1, <2>2 DEF Void
    <2>3. CASE n <= counter
      BY <2>1, <2>3 DEF Past
    <2> QED BY <1>1, <2>2, <2>3 DEF Past
  <1>7. number[e] \in Past(e)'
    <2>1. number[e] = counter \/ Void(number[e], lost')
      BY <1>1, <1>3 DEF Emitting
    <2>2. number[e] = counter => number[e] <= counter'
      BY <1>0, <1>1
    <2> QED BY <1>1, <1>4, <2>1, <2>2 DEF Past
  <1>8. /\ InOrder(history', lost') /\ Values(history') \subseteq Past(e)'
        /\ \A n \in Past(e)' : n \in Values(history') \cup lost'
    <2>1. InOrder(history, lost) /\ Values(history) \subseteq Past(e)
          /\ \A n \in Past(e) : n \in Values(history) \cup lost
      BY DEF Emitting
    <2>2. CASE history' = Append(history, number[e])
      <3>1. Values(history') = Values(history) \cup {number[e]} /\ InOrder(history', lost)
        BY <1>0, <1>4, <1>5, <2>1, <2>2, AppendValues
      <3> QED BY <1>2, <1>3, <1>6, <1>7, <2>1, <3>1
    <2>3. CASE history' = history /\ number[e] \in lost'
      BY <1>2, <1>3, <1>6, <2>1, <2>3
    <2> QED BY <2>2, <2>3 DEF Store, StoreFails
  <1>9. ASSUME NEW r \in Replicas
        PROVE  InOrder(memory'[r], lost') /\ Values(memory'[r]) \subseteq Past(e)'
    <2>1. InOrder(memory[r], lost) /\ Values(memory[r]) \subseteq Past(e)
      BY DEF Emitting
    <2>2. CASE memory'[r] = memory[r]
      BY <1>2, <1>3, <2>1, <2>2
    <2>3. CASE StoreFails(e) /\ r = home[e]
      <3>1. PICK list \in Remembered(memory[r], number[e]) : memory'[r] = list
        BY <2>3 DEF StoreFails, TypeOK
      <3>2. Values(list) \subseteq Values(memory[r]) \cup {number[e]} /\ InOrder(list, lost)
        BY <1>0, <1>4, <1>5, <2>1, RememberedValues
      <3> QED BY <1>2, <1>3, <1>7, <2>1, <3>1, <3>2
    <2> QED BY <2>2, <2>3 DEF Store, StoreFails, TypeOK
  <1>10. /\ \A r \in Replicas : Void(sequences[r], lost')
         /\ number[e] = counter \/ Void(number[e], lost')
         /\ inbox[home[e]] = <<>>
         /\ \A r \in Replicas : InOrder(inbox[r], lost') /\ Values(inbox[r]) \subseteq Sent(e)'
    BY <1>1, <1>2, <1>3 DEF Emitting
  <1> QED BY <1>1, <1>8, <1>9, <1>10 DEF Emitting

LEMMA NotifyEmits ==
    ASSUME TypeOK, Numbered, NEW e \in Emitters, Emitting(e), Notify(e)
    PROVE  Emitting(e)'
  <1>1. /\ step[e] = "stored" /\ step'[e] = "notified"
        /\ UNCHANGED <<counter, number, sequences, memory, inbox, history, lost>>
    BY DEF Notify, relayVars, TypeOK
  <1>2. Past(e)' = Past(e) /\ Sent(e)' = Sent(e)
    BY <1>1 DEF Past, Sent
  <1> QED BY <1>1, <1>2 DEF Emitting

LEMMA PublishEmits ==
    ASSUME TypeOK, Numbered, NEW e \in Emitters, Emitting(e), Publish(e)
    PROVE  Emitting(e)'
  <1>0. /\ counter \in Nat /\ home[e] \in Replicas
        /\ \A r \in Replicas : inbox[r] \in Seq(Events)
    BY EventStreamAssumption DEF TypeOK
  <1>1. /\ step[e] = "notified" /\ step'[e] = "idle"
        /\ UNCHANGED <<counter, number, sequences, memory, history>>
    BY DEF Publish, TypeOK
  <1>2. lost \subseteq lost' /\ Past(e) \subseteq Past(e)'
    BY PastKept DEF EmitStep
  <1>3. /\ \A n : Void(n, lost) => Void(n, lost')
        /\ \A s : InOrder(s, lost) => InOrder(s, lost')
    BY <1>2, OrderKept
  <1>4. number[e] \in Events
    BY <1>1 DEF Numbered
  <1>5. number[e] \in Sent(e)'
    <2>1. number[e] = counter \/ Void(number[e], lost')
      BY <1>1, <1>3 DEF Emitting
    <2>2. number[e] = counter => number[e] <= counter'
      BY <1>0, <1>1
    <2> QED BY <1>1, <1>4, <2>1, <2>2 DEF Sent
  <1>6. Sent(e) \subseteq Sent(e)'
    BY <1>1, <1>3 DEF Sent
  <1>7. ASSUME NEW r \in Replicas
        PROVE  InOrder(inbox'[r], lost') /\ Values(inbox'[r]) \subseteq Sent(e)'
    <2>1. InOrder(inbox[r], lost) /\ Values(inbox[r]) \subseteq Sent(e)
      BY DEF Emitting
    <2>2. CASE inbox'[r] = Append(inbox[r], number[e])
      <3>1. \A n \in Values(inbox[r]) : n < number[e] \/ Void(number[e], lost)
        BY <1>1, <2>1, CurrentIsLast DEF Sent
      <3>2. Values(inbox'[r]) = Values(inbox[r]) \cup {number[e]} /\ InOrder(inbox'[r], lost)
        BY <1>0, <1>4, <2>1, <2>2, <3>1, AppendValues
      <3> QED BY <1>3, <1>5, <1>6, <2>1, <3>2
    <2>3. CASE inbox'[r] = inbox[r]
      BY <1>3, <1>6, <2>1, <2>3
    <2> QED BY <2>2, <2>3 DEF Publish
  <1>8. inbox'[home[e]] = <<>>
    BY <1>0 DEF Publish, TypeOK, Emitting
  <1>9. \A n \in Past(e)' : n \in Past(e) \/ n \in lost'
    <2> TAKE n \in Past(e)'
    <2>1. n \in Events /\ n \in Nat /\ n >= 1
      BY DEF Past, Events
    <2>2. CASE Void(n, lost')
      BY <2>1, <2>2 DEF Void
    <2>3. CASE n <= counter
      BY <1>1, <2>1, <2>3 DEF Past
    <2> QED BY <1>1, <2>2, <2>3 DEF Past
  <1>10. \A n \in Past(e)' : n \in Values(history) \cup lost'
    BY <1>2, <1>9 DEF Emitting
  <1>11. /\ InOrder(history, lost') /\ Values(history) \subseteq Past(e)'
         /\ \A r \in Replicas : Void(sequences[r], lost')
         /\ \A r \in Replicas : InOrder(memory[r], lost') /\ Values(memory[r]) \subseteq Past(e)'
    BY <1>2, <1>3 DEF Emitting
  <1> QED BY <1>1, <1>7, <1>8, <1>10, <1>11 DEF Emitting

LEMMA EmitStepEmits ==
    ASSUME TypeOK, Numbered, NEW e \in Emitters, Emitting(e), EmitStep(e)
    PROVE  Emitting(e)'
  BY NumberEmits, StoreEmits, NotifyEmits, PublishEmits DEF EmitStep

(* What happens to the messages on their way. *)
LEMMA OthersEmit ==
    ASSUME TypeOK, Numbered, NEW e \in Emitters, Emitting(e),
           \/ \E r \in Replicas : Receive(r) \/ Crash(r)
           \/ \E c \in Connections : RequestStep(c)
           \/ UNCHANGED vars
    PROVE  Emitting(e)'
  <1>0. counter \in Nat /\ home[e] \in Replicas /\ \A r \in Replicas : inbox[r] \in Seq(Events)
    BY EventStreamAssumption DEF TypeOK
  <1>1. ASSUME UNCHANGED <<emitVars, lost>>,
               \A r \in Replicas : \/ inbox'[r] \in {inbox[r], <<>>}
                                   \/ inbox[r] # <<>> /\ inbox'[r] = Tail(inbox[r])
        PROVE  Emitting(e)'
    <2>1. Past(e)' = Past(e) /\ Sent(e)' = Sent(e)
      BY <1>1 DEF Past, Sent, emitVars
    <2>2. ASSUME NEW r \in Replicas
          PROVE  InOrder(inbox'[r], lost) /\ Values(inbox'[r]) \subseteq Values(inbox[r])
      BY <1>0, <1>1, TailValues, EmptyValues DEF Emitting
    <2>3. inbox'[home[e]] = <<>>
      BY <1>0, <1>1 DEF Emitting
    <2> QED BY <1>1, <2>1, <2>2, <2>3 DEF Emitting, emitVars
  <1>2. ASSUME NEW r \in Replicas, Receive(r) PROVE Emitting(e)'
    <2>1. \A q \in Replicas : \/ inbox'[q] = inbox[q]
                              \/ inbox[q] # <<>> /\ inbox'[q] = Tail(inbox[q])
      BY <1>2 DEF Receive, TypeOK
    <2> QED BY <1>1, <1>2, <2>1 DEF Receive
  <1>3. ASSUME NEW r \in Replicas, Crash(r) PROVE Emitting(e)'
    <2>1. /\ \A q \in Replicas : inbox'[q] \in {inbox[q], <<>>}
          /\ \A q \in Replicas : sequences'[q] \in {sequences[q], 0}
          /\ \A q \in Replicas : memory'[q] \in {memory[q], <<>>}
      BY <1>3 DEF Crash, TypeOK
    <2>2. /\ UNCHANGED <<counter, history, number>> /\ lost \subseteq lost'
          /\ \/ step'[e] = step[e]
             \/ step'[e] = "idle" /\ step[e] # "idle" /\ number[e] \in lost'
      BY <1>3 DEF Crash, TypeOK
    <2>3. /\ \A n : Void(n, lost) => Void(n, lost')
          /\ \A s : InOrder(s, lost) => InOrder(s, lost')
          /\ Void(0, lost')
      BY <2>2, OrderKept DEF Void
    <2>4. Past(e) \subseteq Past(e)' /\ Sent(e) \subseteq Sent(e)'
      BY <2>2, <2>3 DEF Past, Sent
    <2>5. \A n \in Past(e)' : n \in Past(e) \/ n \in lost'
      <3> TAKE n \in Past(e)'
      <3>1. n \in Events /\ n \in Nat /\ n >= 1
        BY DEF Past, Events
      <3>2. CASE Void(n, lost')
        BY <3>1, <3>2 DEF Void
      <3>3. CASE n <= counter /\ (step'[e] = "numbered" => n # number[e])
        BY <2>2, <3>1, <3>3 DEF Past
      <3> QED BY <2>2, <3>2, <3>3 DEF Past
    <2>6. /\ \A n \in Past(e)' : n \in Values(history) \cup lost'
          /\ InOrder(history, lost') /\ Values(history) \subseteq Past(e)'
          /\ step'[e] # "idle" => number[e] = counter \/ Void(number[e], lost')
      BY <2>2, <2>3, <2>4, <2>5 DEF Emitting
    <2>7. /\ \A q \in Replicas : Void(sequences'[q], lost')
          /\ \A q \in Replicas : InOrder(memory'[q], lost') /\ Values(memory'[q]) \subseteq Past(e)'
          /\ \A q \in Replicas : InOrder(inbox'[q], lost') /\ Values(inbox'[q]) \subseteq Sent(e)'
          /\ inbox'[home[e]] = <<>>
      BY <1>0, <2>1, <2>3, <2>4, EmptyValues DEF Emitting
    <2> QED BY <2>2, <2>6, <2>7 DEF Emitting
  <1>4. ASSUME NEW c \in Connections, RequestStep(c) PROVE Emitting(e)'
    <2>1. UNCHANGED <<emitVars, lost>>
      BY <1>4 DEF RequestStep, Request, Subscribe, Subscribed, ReadHistory, ReadFails, Replay,
         ReplayToNobody, Close, Unsubscribe, Unsubscribed
    <2>2. \A q \in Replicas : inbox'[q] \in {inbox[q], <<>>}
      <3>1. CASE Unsubscribed(c)
        BY <3>1 DEF Unsubscribed, TypeOK
      <3>2. CASE inbox' = inbox
        BY <3>2
      <3> QED BY <1>4, <3>1, <3>2 DEF RequestStep, Request, Subscribe, Subscribed, ReadHistory,
              ReadFails, Replay, ReplayToNobody, Close, Unsubscribe, relayVars
    <2> QED BY <1>1, <2>1, <2>2
  <1>5. CASE UNCHANGED vars
    BY <1>1, <1>5 DEF vars, relayVars
  <1> QED BY <1>2, <1>3, <1>4, <1>5

-----------------------------------------------------------------------------
(* What a request knows, when others act, ... *)
LEMMA Undisturbed ==
    ASSUME NEW e \in Emitters, NEW c \in Connections, Follows(e, c), TypeOK,
           phase'[c] = phase[c], where'[c] = where[c], start'[c] = start[c], high'[c] = high[c],
           snapshot'[c] = snapshot[c], buffer'[c] = buffer[c], received'[c] = received[c],
           unread'[c] = unread[c], lost \subseteq lost', Past(e) \subseteq Past(e)',
           ASSUME NEW w, w = where[c], phase[c] \in {"replaying", "live"}, Audible(e, w)'
           PROVE  /\ Audible(e, w)
                  /\ \A m \in 1 .. counter' :
                        \/ m \in OnTheWay(e, w)' \cup lost'
                        \/ m \in 1 .. counter /\ m \notin OnTheWay(e, w)
    PROVE  Follows(e, c)'
  <1>0. start[c] \in Nat
    BY DEF TypeOK
  <1>1. Known(c)' = Known(c) /\ Excused(c) \subseteq Excused(c)'
    BY DEF Known, Excused
  <1>3. InOrder(snapshot[c], lost) => InOrder(snapshot[c], lost')
    BY OrderKept
  <1>2. ASSUME phase[c] \in {"replaying", "live"}, Audible(e, where[c])',
               NEW m \in start[c] + 1 .. counter'
        PROVE  m \in Known(c) \cup Excused(c)' \cup OnTheWay(e, where[c])'
    <2>1. PICK w : w = where[c] /\ w = where'[c]
      OBVIOUS
    <2>2. Audible(e, w)' /\ OnTheWay(e, where[c])' = OnTheWay(e, w)'
      BY <1>2, <2>1 DEF Audible, OnTheWay
    <2>3. /\ Audible(e, w)
          /\ \A k \in 1 .. counter' :
                \/ k \in OnTheWay(e, w)' \cup lost'
                \/ k \in 1 .. counter /\ k \notin OnTheWay(e, w)
      BY <1>2, <2>1, <2>2
    <2>4. m \in 1 .. counter'
      BY <1>0
    <2>5. m \in 1 .. counter => m \in start[c] + 1 .. counter
      BY <1>0
    <2>6. m \in 1 .. counter => m \in Known(c) \cup Excused(c) \cup OnTheWay(e, w)
      BY <1>2, <2>1, <2>3, <2>5 DEF Follows
    <2>7. lost' \subseteq Excused(c)'
      BY DEF Excused
    <2> QED BY <1>1, <2>2, <2>3, <2>4, <2>6, <2>7
  <1> QED BY <1>1, <1>2, <1>3 DEF Follows

(* ... when the next event on its way reaches it, ... *)
LEMMA Hears ==
    ASSUME NEW e \in Emitters, NEW c \in Connections, NEW w \in Replicas, NEW n \in Events,
           TypeOK, Follows(e, c), where[c] = w, phase[c] \in Listening, Hear(w, n),
           phase' = phase, where' = where, start' = start, snapshot' = snapshot,
           unread' = unread, channel' = channel, counter' = counter, lost' = lost,
           n \in Past(e), Past(e) \subseteq Past(e)', Audible(e, w),
           \A m \in OnTheWay(e, w) : n <= m \/ Void(m, lost),
           OnTheWay(e, w) \subseteq OnTheWay(e, w)' \cup {n}
    PROVE  Follows(e, c)'
  <1>0. /\ start[c] \in Nat /\ high[c] \in Nat /\ n \in Nat /\ counter \in Nat
        /\ n <= counter \/ Void(n, lost)
        /\ buffer \in [Connections -> SUBSET Events] /\ received \in [Connections -> SUBSET Events]
        /\ high \in [Connections -> 0 .. MaxEvents]
    BY DEF TypeOK, Events, Past
  <1>1. c \in Listeners(w)
    BY ListenersAre
  <1>2. OnTheWay(e, where[c])' = OnTheWay(e, w)' /\ (Audible(e, where[c])' => Audible(e, w))
    BY DEF OnTheWay, Audible
  <1>7. Excused(c)' = Excused(c) /\ lost \subseteq Excused(c)
    BY DEF Excused
  (* Before n, it knows of everything that is not excused. *)
  <1>3. ASSUME phase[c] \in {"replaying", "live"}, NEW m \in start[c] + 1 .. n, m # n
        PROVE  m \in Known(c) \cup Excused(c)
    <2>1. m \in Nat /\ m < n /\ m \in 1 .. m /\ m \in 1 .. n
      BY <1>0, <1>3
    <2>2. CASE Void(n, lost) \/ Void(m, lost)
      BY <1>7, <2>1, <2>2 DEF Void
    <2>3. CASE ~Void(n, lost) /\ ~Void(m, lost)
      <3>1. m \in start[c] + 1 .. counter
        BY <1>0, <1>3, <2>1, <2>3
      <3>2. m \in Known(c) \cup Excused(c) \cup OnTheWay(e, w)
        BY <1>3, <3>1 DEF Follows
      <3>3. m \notin OnTheWay(e, w)
        BY <1>0, <2>1, <2>3
      <3> QED BY <3>2, <3>3
    <2> QED BY <2>2, <2>3
  <1>4. CASE phase[c] \in Buffering
    <2>1. buffer'[c] = buffer[c] \cup {n} /\ high'[c] = high[c] /\ received'[c] = received[c]
      BY <1>0, <1>1, <1>4 DEF Hear, Buffering
    <2>2. buffer'[c] \subseteq Past(e)'
      BY <2>1 DEF Follows
    <2>3. CASE phase[c] = "replaying"
      <3>1. Known(c)' = Known(c) \cup {n}
        BY <2>1, <2>3 DEF Known
      <3>2. \A k \in buffer'[c] : \A m \in start[c] + 1 .. k : m \in Known(c)' \cup Excused(c)
        <4> TAKE k \in buffer'[c]
        <4> TAKE m \in start[c] + 1 .. k
        <4>1. CASE k \in buffer[c]
          BY <2>3, <3>1, <4>1 DEF Follows
        <4>2. CASE k = n
          BY <1>3, <2>3, <3>1, <4>2
        <4> QED BY <2>1, <4>1, <4>2
      <3>3. \A m \in start[c] + 1 .. counter : m \in Known(c)' \cup Excused(c) \cup OnTheWay(e, w)'
        BY <2>3, <3>1 DEF Follows
      <3> QED BY <1>2, <1>7, <2>1, <2>2, <2>3, <3>2, <3>3 DEF Follows, Buffering
    <2>4. CASE phase[c] \in {"subscribing", "reading"}
      BY <2>1, <2>2, <2>4 DEF Follows, Buffering
    <2> QED BY <1>4, <2>3, <2>4 DEF Buffering
  <1>5. CASE phase[c] = "live"
    <2>1. buffer'[c] = buffer[c] /\ buffer'[c] \subseteq Past(e)'
      BY <1>0, <1>5 DEF Hear, Buffering, Follows
    <2>2. \A m \in start[c] + 1 .. high[c] : m \in received[c] \cup Excused(c)
      BY <1>5 DEF Follows
    <2>3. CASE n > high[c]
      <3>1. high'[c] = n /\ received'[c] = received[c] \cup {n}
        BY <1>0, <1>1, <1>5, <2>3 DEF Hear
      <3>2. Known(c) = received[c] /\ Known(c)' = received[c] \cup {n}
        BY <1>5, <3>1 DEF Known
      <3>3. \A m \in start[c] + 1 .. n : m \in received'[c] \cup Excused(c)
        BY <1>3, <1>5, <3>1, <3>2
      <3>4. \A m \in start[c] + 1 .. counter : m \in Known(c)' \cup Excused(c) \cup OnTheWay(e, w)'
        BY <1>5, <3>2 DEF Follows
      <3> QED BY <1>2, <1>5, <1>7, <2>1, <3>1, <3>3, <3>4 DEF Follows, Buffering
    <2>4. CASE ~(n > high[c])
      <3>1. high'[c] = high[c] /\ received'[c] = received[c]
        BY <1>0, <2>4 DEF Hear
      <3>2. Known(c) = received[c] /\ Known(c)' = received[c]
        BY <1>5, <3>1 DEF Known
      <3>3. n \in start[c] + 1 .. counter => n \in received[c] \cup Excused(c)
        BY <1>0, <2>2, <2>4
      <3>4. \A m \in start[c] + 1 .. counter : m \in Known(c)' \cup Excused(c) \cup OnTheWay(e, w)'
        BY <1>5, <3>2, <3>3 DEF Follows
      <3> QED BY <1>2, <1>5, <1>7, <2>1, <2>2, <3>1, <3>4 DEF Follows, Buffering
    <2> QED BY <2>3, <2>4
  <1>6. CASE phase[c] = "leaving"
    <2>1. buffer'[c] = buffer[c]
      BY <1>0, <1>6 DEF Hear, Buffering
    <2> QED BY <1>6, <2>1 DEF Follows, Buffering
  <1> QED BY <1>4, <1>5, <1>6 DEF Listening

(* ... and when it reads the history and replays it. *)
LEMMA Reads ==
    ASSUME NEW e \in Emitters, NEW c \in Connections, TypeOK, Placed, Numbered,
           Emitting(e), Follows(e, c), ReadHistory(c) \/ ReadFails(c)
    PROVE  Follows(e, c)'
  <1>0. start[c] \in Nat /\ counter \in Nat
    BY DEF TypeOK
  <1>1. /\ phase[c] = "reading" /\ phase'[c] = "replaying"
        /\ UNCHANGED <<buffer, high, received, where, start, lost, counter, step, number, inbox,
                       channel>>
    BY DEF ReadHistory, ReadFails, TypeOK, emitVars, relayVars, writeVars
  <1>2. Past(e)' = Past(e) /\ Known(c)' = Values(snapshot'[c]) \cup buffer[c]
    BY <1>1 DEF Past, Known
  <1>3. \A n \in Past(e) : n \in Values(history) \cup lost
    BY DEF Emitting
  (* It takes the list in Redis, or is excused from it. *)
  <1>4. /\ InOrder(snapshot'[c], lost) /\ Values(snapshot'[c]) \subseteq Past(e)
        /\ Values(history) \subseteq Values(snapshot'[c]) \cup Excused(c)'
    <2>1. CASE ReadHistory(c)
      <3>1. snapshot'[c] = history
        BY <2>1 DEF ReadHistory, TypeOK
      <3> QED BY <3>1 DEF Emitting
    <2>2. CASE ReadFails(c)
      <3>1. PICK w \in Replicas : w = where[c]
        BY <1>1 DEF Placed
      <3>2. snapshot'[c] = memory[w] /\ unread'[c] = Values(history)
        BY <2>2, <3>1 DEF ReadFails, TypeOK, Values
      <3>3. InOrder(memory[w], lost) /\ Values(memory[w]) \subseteq Past(e)
        BY DEF Emitting
      <3> QED BY <3>2, <3>3 DEF Excused
    <2> QED BY <2>1, <2>2
  <1>5. ASSUME NEW n \in Past(e), NEW m \in 1 .. n
        PROVE  m \in Values(snapshot'[c]) \cup Excused(c)'
    <2>1. n \in Nat /\ m \in Nat /\ m >= 1 /\ m <= n /\ m \in Events
      BY EventStreamAssumption DEF Past, Events
    <2>2. CASE Void(n, lost)
      BY <1>1, <2>2 DEF Void, Excused
    <2>3. CASE m = n
      BY <1>1, <1>3, <1>4, <2>3 DEF Excused
    <2>4. CASE ~Void(n, lost) /\ m # n
      <3>1. n <= counter /\ m <= counter /\ m < counter
        BY <1>0, <2>1, <2>4 DEF Past
      <3>2. step[e] = "numbered" /\ m = number[e] => Void(m, lost)
        BY <1>0, <3>1 DEF Emitting
      <3>3. m \in Past(e)
        BY <2>1, <3>1, <3>2 DEF Past
      <3> QED BY <1>1, <1>3, <1>4, <3>3 DEF Excused
    <2> QED BY <2>2, <2>3, <2>4
  <1>6. buffer[c] \subseteq Past(e) /\ high[c] = start[c]
    BY <1>1 DEF Follows, Buffering
  <1>7. ASSUME NEW n \in buffer[c], NEW m \in start[c] + 1 .. n PROVE m \in Known(c)' \cup Excused(c)'
    <2>1. n \in Past(e) /\ m \in 1 .. n
      BY <1>0, <1>6
    <2> QED BY <1>2, <1>5, <2>1
  <1>8. ASSUME NEW m \in start[c] + 1 .. counter
        PROVE  m \in Known(c)' \cup Excused(c)' \cup OnTheWay(e, where[c])'
    <2>1. m \in Events /\ m <= counter
      BY <1>0, EventStreamAssumption DEF Events, TypeOK
    <2>2. m \in Past(e) \/ (m = number[e] /\ step[e] = "numbered")
      BY <2>1 DEF Past
    <2>3. m \in Past(e) => m \in 1 .. m
      BY <2>1 DEF Events
    <2> QED BY <1>1, <1>2, <1>5, <2>2, <2>3 DEF OnTheWay
  <1>9. \A n \in Values(snapshot'[c]) : \A m \in 1 .. n : m \in Values(snapshot'[c]) \cup Excused(c)'
    BY <1>4, <1>5
  <1> QED BY <1>1, <1>2, <1>4, <1>6, <1>7, <1>8, <1>9 DEF Follows

LEMMA Replays ==
    ASSUME NEW e \in Emitters, NEW c \in Connections,
           TypeOK, Follows(e, c), Replay(c)
    PROVE  Follows(e, c)'
  <1> DEFINE mark == Highest(Replayed(c) \cup {high[c]})
             flushed == {n \in buffer[c] : n > mark}
             top == Highest(flushed \cup {mark})
  <1>1. /\ phase[c] = "replaying" /\ phase'[c] = "live"
        /\ high'[c] = top /\ received'[c] = received[c] \cup Replayed(c) \cup flushed
        /\ buffer'[c] = {}
        /\ UNCHANGED <<where, start, lost, unread, counter, step, number, inbox, channel>>
    BY DEF Replay, TypeOK, emitVars, relayVars
  <1>2. /\ high[c] = start[c] /\ start[c] \in Nat /\ buffer[c] \subseteq Events
        /\ snapshot[c] \in Seq(Events) /\ InOrder(snapshot[c], lost)
        /\ \A n \in Values(snapshot[c]) : \A m \in 1 .. n :
              m \in Values(snapshot[c]) \cup Excused(c)
        /\ \A n \in buffer[c] : \A m \in start[c] + 1 .. n : m \in Known(c) \cup Excused(c)
        /\ Known(c) = Values(snapshot[c]) \cup buffer[c]
    BY <1>1 DEF Follows, Buffering, TypeOK, Known
  <1>3. /\ Replayed(c) \subseteq Values(snapshot[c])
        /\ \A n \in Values(snapshot[c]) : n > start[c] => n \in Replayed(c) \/ Void(n, lost)
    BY <1>2 DEF Replayed, Since, InOrder, Values
  <1>16. \A n \in Values(snapshot[c]) : n > start[c] => n \in Replayed(c) \cup Excused(c)
    <2> TAKE n \in Values(snapshot[c])
    <2>1. n \in Nat /\ n >= 1
      <3>1. PICK i \in 1 .. Len(snapshot[c]) : n = snapshot[c][i]
        BY DEF Values
      <3>2. n \in Events
        BY <1>2, <3>1
      <3> QED BY <3>2, EventStreamAssumption DEF Events
    <2>2. Void(n, lost) => n \in Excused(c)
      BY <2>1 DEF Void, Excused
    <2> QED BY <1>3, <2>2
  <1>4. mark \in Nat /\ top \in Nat /\ high[c] \in 0 .. MaxEvents
    <2>1. mark \in 0 .. MaxEvents
      BY ReplayTypes
    <2>2. flushed \in SUBSET buffer[c]
      OBVIOUS
    <2>3. top \in 0 .. MaxEvents
      BY <2>2, ReplayTypes
    <2>4. \A n \in 0 .. MaxEvents : n \in Nat
      OBVIOUS
    <2>5. high[c] \in 0 .. MaxEvents
      BY DEF TypeOK
    <2> HIDE DEF top, flushed, mark
    <2> QED BY <2>1, <2>3, <2>4, <2>5
  <1>5. /\ Replayed(c) \subseteq Events /\ \A n \in Events : n \in Nat /\ n >= 1
        /\ Events \subseteq 0 .. MaxEvents
    <2>1. Replayed(c) \subseteq Events
      BY ReplayTypes
    <2>2. \A n \in Events : n \in Nat /\ n >= 1 /\ n \in 0 .. MaxEvents
      BY EventStreamAssumption DEF Events
    <2> QED BY <2>1, <2>2
  <1>6. (mark = start[c] \/ mark \in Replayed(c)) /\ \A m \in Replayed(c) : m <= mark
    <2> DEFINE S == Replayed(c) \cup {high[c]}
    <2>1. S \subseteq 0 .. MaxEvents /\ S # {}
      BY <1>4, <1>5
    <2> HIDE DEF S
    <2>2. Highest(S) \in S /\ \A m \in S : m <= Highest(S)
      BY <2>1, HighestIs
    <2> QED BY <1>2, <2>2 DEF S
  <1>7. top = mark \/ top \in flushed
    <2> DEFINE S == flushed \cup {mark}
    <2>1. mark \in 0 .. MaxEvents
      BY ReplayTypes
    <2>2. S \subseteq 0 .. MaxEvents /\ S # {}
      BY <1>2, <1>5, <2>1
    <2> HIDE DEF S
    <2>3. Highest(S) \in S
      BY <2>2, HighestIs
    <2> QED BY <2>3 DEF S
  <1> DEFINE written == Replayed(c) \cup flushed
  (* Up to the mark, the history has everything, ... *)
  <1>8. ASSUME NEW m \in start[c] + 1 .. mark PROVE m \in Replayed(c) \cup Excused(c)
    <2>1. m \in Nat /\ m > start[c] /\ m <= mark /\ mark # start[c]
      BY <1>2, <1>4
    <2>2. mark \in Values(snapshot[c])
      BY <1>3, <1>6, <2>1
    <2>3. m \in 1 .. mark
      BY <1>2, <1>4, <2>1
    <2> QED BY <1>2, <1>16, <2>1, <2>2, <2>3
  (* ... and beyond, all it knows is written. *)
  <1>9. ASSUME NEW m \in Known(c), m \in Nat, m > start[c] PROVE m \in written \cup Excused(c)
    <2>1. CASE m \in Values(snapshot[c])
      BY <1>16, <1>9, <2>1
    <2>2. CASE m \in buffer[c] /\ m > mark
      BY <2>2
    <2>3. CASE ~(m > mark)
      <3>1. m \in start[c] + 1 .. mark
        BY <1>2, <1>4, <1>9, <2>3
      <3> QED BY <1>8, <3>1
    <2> QED BY <1>2, <2>1, <2>2, <2>3
  <1>10. ASSUME NEW m \in start[c] + 1 .. top PROVE m \in written \cup Excused(c)
    <2>1. CASE top = mark
      BY <1>8, <2>1
    <2>2. CASE top \in flushed
      <3>1. m \in Known(c) \cup Excused(c) /\ m \in Nat /\ m > start[c]
        BY <1>2, <1>4, <2>2
      <3> QED BY <1>9, <3>1
    <2> QED BY <1>7, <2>1, <2>2
  <1>11. ASSUME Audible(e, where[c]), NEW m \in start[c] + 1 .. counter
         PROVE  m \in written \cup Excused(c) \cup OnTheWay(e, where[c])
    <2>1. m \in Known(c) \cup Excused(c) \cup OnTheWay(e, where[c]) /\ m \in Nat /\ m > start[c]
      BY <1>1, <1>2, <1>11 DEF Follows
    <2> QED BY <1>9, <2>1
  <1>12. OnTheWay(e, where[c])' = OnTheWay(e, where[c]) /\ (Audible(e, where[c])' <=> Audible(e, where[c]))
    BY <1>1 DEF OnTheWay, Audible
  <1>13. written \subseteq received'[c] /\ Known(c)' = received'[c] /\ Excused(c)' = Excused(c)
    BY <1>1 DEF Known, Excused
  <1> HIDE DEF written, top, flushed, mark
  <1>14. \A m \in start'[c] + 1 .. high'[c] : m \in received'[c] \cup Excused(c)'
    BY <1>1, <1>10, <1>13
  <1>15. Audible(e, where[c])' => \A m \in start'[c] + 1 .. counter' :
             m \in Known(c)' \cup Excused(c)' \cup OnTheWay(e, where[c])'
    BY <1>1, <1>11, <1>12, <1>13
  <1> QED BY <1>1, <1>14, <1>15 DEF Follows, Buffering

-----------------------------------------------------------------------------
(* Every step keeps what the requests know. *)
LEMMA EmitFollows ==
    ASSUME TypeOK, BaseInv, NEW e \in Emitters, Emitting(e), EmitStep(e),
           NEW c \in Connections, Follows(e, c)
    PROVE  Follows(e, c)'
  <1>0. /\ counter \in Nat /\ home[e] \in Replicas
        /\ \A r \in Replicas : inbox[r] \in Seq(Events)
    BY EventStreamAssumption DEF TypeOK
  <1>1. phase[c] \in {"replaying", "live"} => where[c] \in Replicas
    BY DEF BaseInv, Placed
  <1>2. step[e] # "idle" => number[e] \in Events
    BY DEF BaseInv, Numbered
  <1>7. lost \subseteq lost' /\ Past(e) \subseteq Past(e)'
    BY PastKept DEF BaseInv
  <1>3. CASE Number(e) \/ NumberFails(e)
    <2>1. /\ step[e] = "idle" /\ step'[e] = "numbered"
          /\ UNCHANGED <<relayVars, writeVars, connectionVars>>
      BY <1>3 DEF Number, NumberFails, TypeOK
    <2>3. ASSUME NEW w
          PROVE  (Audible(e, w)' <=> Audible(e, w)) /\ OnTheWay(e, w)' = OnTheWay(e, w) \cup {number'[e]}
      BY <2>1 DEF Audible, OnTheWay, relayVars
    <2>4. \A m \in 1 .. counter' : m \in 1 .. counter \/ m \in {number'[e]} \cup lost'
      BY <1>0, <1>3 DEF Number, NumberFails, TypeOK
    <2> QED BY <1>7, <2>1, <2>3, <2>4, Undisturbed DEF writeVars, connectionVars
  <1>4. CASE Store(e) \/ StoreFails(e)
    <2>1. /\ step[e] = "numbered" /\ step'[e] = "stored" /\ counter' = counter /\ number' = number
          /\ UNCHANGED <<relayVars, writeVars, connectionVars>>
      BY <1>4 DEF Store, StoreFails, TypeOK
    <2>3. ASSUME NEW w PROVE (Audible(e, w)' <=> Audible(e, w)) /\ OnTheWay(e, w)' = OnTheWay(e, w)
      BY <2>1 DEF Audible, OnTheWay, relayVars
    <2> QED BY <1>7, <2>1, <2>3, Undisturbed DEF writeVars, connectionVars
  <1>5. CASE Notify(e)
    <2>1. /\ step[e] = "stored" /\ step'[e] = "notified" /\ counter' = counter /\ lost' = lost
          /\ number' = number /\ UNCHANGED <<relayVars, connectionVars>>
      BY <1>5 DEF Notify, TypeOK
    <2>5. PICK n \in Events : n = number[e] /\ Hear(home[e], n)
      BY <1>2, <1>5 DEF Notify
    <2>2. n \in Past(e)
      <3>1. n <= counter \/ Void(n, lost)
        BY <1>0, <2>1, <2>5 DEF Emitting
      <3> QED BY <2>1, <3>1 DEF Past
    <2>3. CASE c \in Listeners(home[e])
      <3>1. where[c] = home[e] /\ phase[c] \in Listening
        BY <2>3, ListenersAre
      <3>2. Values(inbox[home[e]]) = {}
        BY EmptyValues DEF Emitting
      <3>3. \A m \in OnTheWay(e, home[e]) : n <= m
        BY <2>5, <3>2 DEF OnTheWay, Events
      <3>4. OnTheWay(e, home[e]) \subseteq OnTheWay(e, home[e])' \cup {n}
        BY <2>5, <3>2 DEF OnTheWay
      <3>5. Audible(e, home[e])
        BY DEF Audible
      <3>6. /\ phase' = phase /\ where' = where /\ start' = start /\ snapshot' = snapshot
            /\ unread' = unread /\ channel' = channel
        BY <2>1 DEF relayVars, connectionVars
      <3> QED BY <1>0, <1>7, <2>1, <2>2, <2>5, <3>1, <3>3, <3>4, <3>5, <3>6, Hears
    <2>4. CASE c \notin Listeners(home[e])
      <3>1. buffer'[c] = buffer[c] /\ high'[c] = high[c] /\ received'[c] = received[c]
        BY <2>4, <2>5 DEF Hear, TypeOK
      <3>2. phase[c] \in {"replaying", "live"} => where[c] # home[e]
        BY <2>4 DEF Listeners, Buffering
      <3>3. ASSUME NEW w, w # home[e]
            PROVE  (Audible(e, w)' <=> Audible(e, w)) /\ OnTheWay(e, w)' = OnTheWay(e, w)
        BY <2>1, <3>3 DEF Audible, OnTheWay, relayVars
      <3> QED BY <1>7, <2>1, <3>1, <3>2, <3>3, Undisturbed DEF connectionVars
    <2> QED BY <2>3, <2>4
  <1>6. CASE Publish(e)
    <2>1. /\ step[e] = "notified" /\ step'[e] = "idle" /\ counter' = counter /\ number' = number
          /\ UNCHANGED <<channel, writeVars, connectionVars>> /\ number[e] \in Events
      BY <1>2, <1>6 DEF Publish, TypeOK
    <2>3. ASSUME NEW w \in Replicas, Audible(e, w)', NEW m \in OnTheWay(e, w)
          PROVE  Audible(e, w) /\ m \in OnTheWay(e, w)' \cup lost'
      <3>1. Audible(e, w) /\ (w = home[e] \/ channel[w] = "on")
        BY <2>1, <2>3 DEF Audible
      <3>2. Values(inbox[w]) \subseteq Values(inbox'[w])
        <4>1. Values(Append(inbox[w], number[e])) = Values(inbox[w]) \cup {number[e]}
          BY <1>0, <2>1, AppendValues
        <4> QED BY <1>6, <2>1, <4>1 DEF Publish
      <3>3. w # home[e] => number[e] \in Values(inbox'[w]) \cup lost'
        <4>1. Values(Append(inbox[w], number[e])) = Values(inbox[w]) \cup {number[e]}
          BY <1>0, <2>1, AppendValues
        <4> QED BY <1>6, <2>1, <3>1, <4>1 DEF Publish
      <3>4. m \in Values(inbox[w]) \/ (m = number[e] /\ w # home[e])
        BY <2>1 DEF OnTheWay
      <3> QED BY <3>1, <3>2, <3>3, <3>4 DEF OnTheWay
    <2>4. ASSUME NEW w \in Replicas, Audible(e, w)' PROVE Audible(e, w)
      BY <2>1, <2>4 DEF Audible
    <2> QED BY <1>1, <1>7, <2>1, <2>3, <2>4, Undisturbed DEF writeVars, connectionVars
  <1> QED BY <1>3, <1>4, <1>5, <1>6 DEF EmitStep

LEMMA ReceiveFollows ==
    ASSUME TypeOK, BaseInv, NEW e \in Emitters, Emitting(e), NEW r \in Replicas, Receive(r),
           NEW c \in Connections, Follows(e, c)
    PROVE  Follows(e, c)'
  <1>0. counter \in Nat /\ inbox[r] \in Seq(Events) /\ inbox[r] # <<>> /\ InOrder(inbox[r], lost)
    BY DEF TypeOK, Receive, Emitting
  <1>1. PICK n \in Events : n = Head(inbox[r])
    BY <1>0, TailValues
  <1>2. /\ n \in Values(inbox[r])
        /\ \A m \in Values(inbox[r]) : n <= m \/ Void(m, lost)
        /\ \A m \in Values(inbox[r]) : m = n \/ m \in Values(Tail(inbox[r]))
    BY <1>0, <1>1, TailValues
  <1>3. /\ Hear(r, n)
        /\ UNCHANGED <<counter, step, number, channel, connectionVars, lost>>
        /\ inbox'[r] = Tail(inbox[r])
    BY <1>1 DEF Receive, TypeOK, emitVars
  <1>4. Past(e)' = Past(e)
    BY <1>3 DEF Past
  <1>5. CASE c \in Listeners(r)
    <2>1. where[c] = r /\ phase[c] \in Listening
      BY <1>5, ListenersAre
    <2>7. n \in Sent(e)
      BY <1>2 DEF Emitting
    <2>2. n \in Past(e)
      BY <2>7 DEF Sent, Past
    <2>3. \A m \in OnTheWay(e, r) : n <= m \/ Void(m, lost)
      <3>1. step[e] # "idle" => n < number[e] \/ Void(number[e], lost)
        BY <1>2, <2>7, CurrentIsLast DEF Sent, BaseInv
      <3>2. n \in Nat /\ number[e] \in Nat
        BY EventStreamAssumption DEF Events, TypeOK
      <3>3. step[e] # "idle" => n <= number[e] \/ Void(number[e], lost)
        BY <3>1, <3>2
      <3>4. OnTheWay(e, r) \subseteq Values(inbox[r]) \cup {m \in {number[e]} : step[e] # "idle"}
        BY DEF OnTheWay
      <3> QED BY <1>2, <3>3, <3>4
    <2>4. OnTheWay(e, r) \subseteq OnTheWay(e, r)' \cup {n}
      BY <1>2, <1>3 DEF OnTheWay
    <2>5. Audible(e, r)
      BY <1>0 DEF Audible, BaseInv, Relayed
    <2>6. /\ phase' = phase /\ where' = where /\ start' = start /\ snapshot' = snapshot
          /\ unread' = unread
      BY <1>3 DEF connectionVars
    <2> QED BY <1>3, <1>4, <2>1, <2>2, <2>3, <2>4, <2>5, <2>6, Hears
  <1>6. CASE c \notin Listeners(r)
    <2>1. buffer'[c] = buffer[c] /\ high'[c] = high[c] /\ received'[c] = received[c]
      BY <1>3, <1>6 DEF Hear, TypeOK
    <2>2. phase[c] \in {"replaying", "live"} => where[c] # r
      BY <1>6 DEF Listeners, Buffering
    <2>3. ASSUME NEW w, w # r
          PROVE  (Audible(e, w)' <=> Audible(e, w)) /\ OnTheWay(e, w)' = OnTheWay(e, w)
      <3>1. inbox'[w] = inbox[w]
        BY <2>3 DEF Receive, TypeOK
      <3> QED BY <1>3, <3>1 DEF Audible, OnTheWay
    <2> QED BY <1>3, <1>4, <2>1, <2>2, <2>3, Undisturbed DEF connectionVars
  <1> QED BY <1>5, <1>6

LEMMA CrashFollows ==
    ASSUME TypeOK, BaseInv, NEW e \in Emitters, Emitting(e), NEW r \in Replicas, Crash(r),
           NEW c \in Connections, Follows(e, c)
    PROVE  Follows(e, c)'
  <1>1. /\ UNCHANGED <<counter, number>> /\ counter \in Nat /\ lost \subseteq lost'
        /\ \/ step'[e] = step[e]
           \/ step'[e] = "idle" /\ number[e] \in lost'
    BY DEF Crash, TypeOK
  <1>2. Past(e) \subseteq Past(e)'
    <2>1. \A n : Void(n, lost) => Void(n, lost')
      BY <1>1, OrderKept
    <2> QED BY <1>1, <2>1 DEF Past
  <1>3. CASE where[c] = r
    <2>1. phase'[c] = "away" /\ buffer'[c] = {}
      BY <1>3 DEF Crash
    <2> QED BY <2>1 DEF Follows, Buffering
  <1>4. CASE where[c] # r
    <2>1. /\ phase'[c] = phase[c] /\ where'[c] = where[c] /\ start'[c] = start[c]
          /\ high'[c] = high[c] /\ snapshot'[c] = snapshot[c]
          /\ buffer'[c] = buffer[c] /\ received'[c] = received[c] /\ unread'[c] = unread[c]
      BY <1>4 DEF Crash
    <2>2. ASSUME NEW w, w # r
          PROVE  /\ Audible(e, w)' <=> Audible(e, w)
                 /\ \A m \in OnTheWay(e, w) : m \in OnTheWay(e, w)' \cup lost'
      <3>1. inbox'[w] = inbox[w] /\ channel'[w] = channel[w]
        BY <2>2 DEF Crash, TypeOK
      <3> QED BY <1>1, <3>1 DEF Audible, OnTheWay
    <2> QED BY <1>1, <1>2, <1>4, <2>1, <2>2, Undisturbed
  <1> QED BY <1>3, <1>4

(* A request's own step. *)
LEMMA OwnFollows ==
    ASSUME TypeOK, BaseInv, NEW e \in Emitters, Emitting(e),
           NEW c \in Connections, Follows(e, c), RequestStep(c)
    PROVE  Follows(e, c)'
  <1>1. ASSUME UNCHANGED <<counter, step, number, lost>>,
               phase'[c] \notin {"replaying", "live"}, buffer'[c] \in {buffer[c], {}},
               phase'[c] \in Buffering \cup {"joining"} => high'[c] = start'[c]
        PROVE  Follows(e, c)'
    <2>1. Past(e)' = Past(e)
      BY <1>1 DEF Past
    <2> QED BY <1>1, <2>1 DEF Follows
  <1>2. CASE Request(c)
    <2>1. phase'[c] = "joining" /\ buffer' = buffer /\ high'[c] = start'[c]
      BY <1>2 DEF Request, TypeOK
    <2>2. UNCHANGED <<counter, step, number, lost>>
      BY <1>2 DEF Request, emitVars
    <2> QED BY <1>1, <2>1, <2>2
  <1>3. CASE Subscribe(c) \/ Subscribed(c)
    <2>1. /\ phase[c] \in {"joining", "subscribing"} /\ phase'[c] \in {"subscribing", "reading"}
          /\ high' = high /\ start' = start /\ buffer' = buffer
      BY <1>3 DEF Subscribe, Subscribed, writeVars, TypeOK
    <2>2. high[c] = start[c]
      BY <2>1 DEF Follows, Buffering
    <2>3. UNCHANGED <<counter, step, number, lost>>
      BY <1>3 DEF Subscribe, Subscribed, emitVars
    <2> QED BY <1>1, <2>1, <2>2, <2>3
  <1>4. CASE ReplayToNobody(c) \/ Unsubscribe(c) \/ Unsubscribed(c)
    <2>1. phase'[c] \in {"away", "unsubscribing"} /\ buffer'[c] \in {buffer[c], {}}
      BY <1>4 DEF ReplayToNobody, Unsubscribe, Unsubscribed, writeVars, TypeOK
    <2>2. UNCHANGED <<counter, step, number, lost>>
      BY <1>4 DEF ReplayToNobody, Unsubscribe, Unsubscribed, emitVars
    <2> QED BY <1>1, <2>1, <2>2 DEF Buffering
  <1>5. CASE Close(c)
    <2>1. /\ UNCHANGED <<counter, step, number, lost>> /\ buffer' = buffer /\ high' = high
          /\ where' = where /\ snapshot' = snapshot /\ UNCHANGED relayVars
      BY <1>5 DEF Close, emitVars
    <2>2. CASE phase[c] = "live" /\ phase' = [phase EXCEPT ![c] = "leaving"]
      <3>1. phase'[c] = "leaving"
        BY <2>2 DEF TypeOK
      <3> QED BY <1>1, <2>1, <3>1 DEF Buffering
    <2>3. CASE phase' = phase /\ start' = start /\ received' = received /\ unread' = unread
      <3>1. Past(e)' = Past(e)
        BY <2>1 DEF Past
      <3>2. ASSUME NEW w
            PROVE  (Audible(e, w)' <=> Audible(e, w)) /\ OnTheWay(e, w)' = OnTheWay(e, w)
        BY <2>1 DEF Audible, OnTheWay, relayVars
      <3> QED BY <2>1, <2>3, <3>1, <3>2, Undisturbed
    <2> QED BY <1>5, <2>2, <2>3 DEF Close
  <1> QED BY <1>2, <1>3, <1>4, <1>5, Reads, Replays DEF RequestStep, BaseInv

(* Another's step. *)
LEMMA OtherFollows ==
    ASSUME TypeOK, BaseInv, NEW e \in Emitters, NEW c \in Connections, RequestStep(c),
           NEW x \in Connections, x # c, Follows(e, x)
    PROVE  Follows(e, x)'
  <1>1. UNCHANGED <<counter, step, number, lost>>
    BY DEF RequestStep, Request, Subscribe, Subscribed, ReadHistory, ReadFails, Replay,
       ReplayToNobody, Close, Unsubscribe, Unsubscribed, emitVars
  <1>2. Past(e)' = Past(e)
    BY <1>1 DEF Past
  <1>3. /\ phase'[x] = phase[x] /\ where'[x] = where[x] /\ start'[x] = start[x]
        /\ high'[x] = high[x] /\ snapshot'[x] = snapshot[x]
        /\ buffer'[x] = buffer[x] /\ received'[x] = received[x] /\ unread'[x] = unread[x]
    <2>1. CASE Request(c)
      BY <2>1 DEF Request, TypeOK
    <2>2. CASE Subscribe(c) \/ Subscribed(c)
      BY <2>2 DEF Subscribe, Subscribed, writeVars, TypeOK
    <2>3. CASE ReadHistory(c) \/ ReadFails(c)
      BY <2>3 DEF ReadHistory, ReadFails, writeVars, TypeOK
    <2>4. CASE Replay(c)
      BY <2>4 DEF Replay, TypeOK
    <2>5. CASE ReplayToNobody(c)
      BY <2>5 DEF ReplayToNobody, TypeOK
    <2>6. CASE Close(c)
      BY <2>6 DEF Close, TypeOK
    <2>7. CASE Unsubscribe(c) \/ Unsubscribed(c)
      BY <2>7 DEF Unsubscribe, Unsubscribed, writeVars, TypeOK
    <2> QED BY <2>1, <2>2, <2>3, <2>4, <2>5, <2>6, <2>7 DEF RequestStep
  <1>4. ASSUME NEW w, inbox'[w] = inbox[w], channel'[w] = channel[w]
        PROVE  (Audible(e, w)' <=> Audible(e, w)) /\ OnTheWay(e, w)' = OnTheWay(e, w)
    BY <1>1, <1>4 DEF Audible, OnTheWay
  <1>5. phase[x] \in {"replaying", "live"} =>
            inbox'[where[x]] = inbox[where[x]] /\ channel'[where[x]] = channel[where[x]]
    <2>1. CASE Subscribed(c) \/ Unsubscribed(c)
      <3>1. PICK r \in Replicas : r = where[c] /\ c # None
        BY <2>1, EventStreamAssumption DEF Subscribed, Unsubscribed, BaseInv, Placed
      <3>2. Held(c) /\ MutexOf(r)
        BY MutexesAre DEF BaseInv
      <3>3. Listeners(r) \subseteq {c}
        BY <2>1, <3>1, <3>2 DEF Subscribed, Unsubscribed, Held, MutexOf, Subscriber, Unsubscriber, Unheard
      <3>4. phase[x] \in {"replaying", "live"} => where[x] # r /\ where[x] \in Replicas
        BY <3>3 DEF Listeners, Buffering, BaseInv, Placed
      <3>5. \A w \in Replicas : w # r => inbox'[w] = inbox[w] /\ channel'[w] = channel[w]
        BY <2>1, <3>1 DEF Subscribed, Unsubscribed, TypeOK
      <3> QED BY <3>4, <3>5
    <2>2. CASE inbox' = inbox /\ channel' = channel
      BY <2>2
    <2> QED BY <2>1, <2>2 DEF RequestStep, Request, Subscribe, ReadHistory, ReadFails, Replay,
            ReplayToNobody, Close, Unsubscribe, relayVars
  <1> QED BY <1>1, <1>2, <1>3, <1>4, <1>5, Undisturbed

StreamInv(e) == TypeOK /\ BaseInv /\ Emitting(e) /\ \A c \in Connections : Follows(e, c)

LEMMA NextStream ==
    ASSUME NEW e, Emitters = {e}, StreamInv(e), [Next]_vars
    PROVE  Emitting(e)' /\ \A c \in Connections : Follows(e, c)'
  <1>0. e \in Emitters /\ \A f \in Emitters : f = e
    OBVIOUS
  <1>1. ASSUME EmitStep(e) PROVE Emitting(e)' /\ \A c \in Connections : Follows(e, c)'
    BY <1>0, <1>1, EmitStepEmits, EmitFollows DEF StreamInv, BaseInv
  <1>2. ASSUME NEW r \in Replicas, Receive(r) \/ Crash(r)
        PROVE  Emitting(e)' /\ \A c \in Connections : Follows(e, c)'
    BY <1>0, <1>2, OthersEmit, ReceiveFollows, CrashFollows DEF StreamInv, BaseInv
  <1>3. ASSUME NEW c \in Connections, RequestStep(c)
        PROVE  Emitting(e)' /\ \A x \in Connections : Follows(e, x)'
    BY <1>0, <1>3, OthersEmit, OwnFollows, OtherFollows DEF StreamInv, BaseInv
  <1>4. CASE UNCHANGED vars
    <2>1. Emitting(e)'
      BY <1>0, <1>4, OthersEmit DEF StreamInv, BaseInv
    <2>2. \A c \in Connections : Follows(e, c)'
      BY <1>4 DEF StreamInv, vars, emitVars, relayVars, writeVars, connectionVars,
         Follows, Known, Excused, Audible, OnTheWay, Past
    <2> QED BY <2>1, <2>2
  <1> QED BY <1>0, <1>1, <1>2, <1>3, <1>4 DEF Next

LEMMA StreamInvariant ==
    ASSUME NEW e, Emitters = {e}
    PROVE  Spec => []StreamInv(e)
  <1>0. e \in Emitters
    OBVIOUS
  <1>1. Init /\ TypeOK /\ BaseInv => StreamInv(e)
    <2> SUFFICES ASSUME Init, TypeOK, BaseInv PROVE StreamInv(e)
      OBVIOUS
    <2>1. Past(e) = {} /\ Void(0, {})
      BY DEF Init, Past, Events, Void
    <2>2. home[e] \in Replicas
      BY <1>0, EventStreamAssumption
    <2>3. Emitting(e)
      BY <1>0, <2>1, <2>2, EmptyValues DEF Init, Emitting
    <2>4. \A c \in Connections : Follows(e, c)
      BY DEF Init, Follows, Buffering
    <2> QED BY <2>3, <2>4 DEF StreamInv
  <1>2. StreamInv(e) /\ (TypeOK /\ BaseInv)' /\ [Next]_vars => StreamInv(e)'
    BY NextStream DEF StreamInv
  <1> QED BY <1>1, <1>2, BaseInvariant, PTL DEF Spec

(* In an execution with one emitter, nothing is skipped: however live       *)
(* events, replays, reconnections, crashes and failed Redis calls mix, what *)
(* lies between the Last-Event-ID and the high-water mark was written, is   *)
(* lost, or was stored in a history that the request failed to read.        *)
THEOREM NothingIsSkipped ==
    ASSUME NEW e, Emitters = {e}
    PROVE  Spec => []NoGap
  <1>1. StreamInv(e) => NoGap
    BY DEF StreamInv, Follows, NoGap, Excused
  <1> QED BY <1>1, StreamInvariant, PTL

(* And nothing is missed: once the emitter and the channel are quiet, a     *)
(* live request has every event since its Last-Event-ID that is not lost    *)
(* and that it did not fail to read, unless its replica could not subscribe.*)
THEOREM NothingIsMissed ==
    ASSUME NEW e, Emitters = {e}
    PROVE  Spec => []CaughtUp
  <1>1. StreamInv(e) => CaughtUp
    <2> SUFFICES ASSUME StreamInv(e), NEW c \in Connections,
                        phase[c] = "live", channel[where[c]] # "failed",
                        inbox[where[c]] = <<>>, \A f \in Emitters : step[f] = "idle",
                        NEW n \in start[c] + 1 .. counter
                 PROVE  n \in received[c] \cup lost \cup unread[c]
      BY DEF CaughtUp
    <2>1. OnTheWay(e, where[c]) = {}
      BY EmptyValues DEF OnTheWay
    <2>2. PICK r \in Replicas : r = where[c]
      BY DEF StreamInv, BaseInv, Placed
    <2>3. MutexOf(r) /\ c \in Listeners(r)
      BY <2>2, MutexesAre DEF StreamInv, BaseInv, Listeners
    <2>4. channel[r] # "off"
      BY <2>3 DEF MutexOf, Subscriber, Unsubscriber, Unheard
    <2>5. Audible(e, where[c])
      BY <2>2, <2>4 DEF Audible, StreamInv, TypeOK
    <2>6. Known(c) = received[c]
      BY DEF Known
    <2> QED BY <2>1, <2>5, <2>6 DEF StreamInv, Follows, Excused
  <1> QED BY <1>1, StreamInvariant, PTL
===============================================================================
