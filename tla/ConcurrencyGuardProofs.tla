------------------------- MODULE ConcurrencyGuardProofs -------------------------
(***************************************************************************)
(* Proofs about the execution guard, for any number of callers, processes  *)
(* and failures and any limit.                                             *)
(***************************************************************************)
EXTENDS ConcurrencyGuard, FiniteSetTheorems, TLAPS

USE GuardAssumption DEF GuardAssumption

(* Sets of callers are finite, so their cardinalities are numbers. *)
LEMMA CallerSetsFinite ==
    ASSUME NEW S \in SUBSET Callers
    PROVE  IsFiniteSet(S) /\ Cardinality(S) \in Nat
  <1>1. IsFiniteSet(S)
    BY FS_Subset
  <1>2. QED
    BY <1>1, FS_CardinalityType

LEMMA CountedIsSet == Counted \in SUBSET Callers
  BY DEF Counted

(* What one caller joining, or a group leaving, does to the number counted. *)
LEMMA CountedAdd ==
    ASSUME NEW C \in SUBSET Callers, NEW c \in Callers, c \notin C
    PROVE  Cardinality(C \cup {c}) = Cardinality(C) + 1
  BY CallerSetsFinite, FS_AddElement

LEMMA CountedRemove ==
    ASSUME NEW C \in SUBSET Callers, NEW S \in SUBSET Callers
    PROVE  /\ Cardinality(C \ S) = Cardinality(C) - Cardinality(C \cap S)
           /\ Cardinality(C \cap S) \in Nat
  BY CallerSetsFinite, FS_Difference

LEMMA CountedRemoveOne ==
    ASSUME NEW C \in SUBSET Callers, NEW c \in C
    PROVE  Cardinality(C \ {c}) = Cardinality(C) - 1
  <1>1. IsFiniteSet(C)
    BY CallerSetsFinite
  <1>2. QED
    BY <1>1, FS_RemoveElement

(* Type correctness. *)
THEOREM TypeCorrect == Spec => []TypeOK
  <1>1. Init => TypeOK
    BY DEF Init, TypeOK, Steps
  <1>2. TypeOK /\ [Next]_vars => TypeOK'
    <2> SUFFICES ASSUME TypeOK, [Next]_vars PROVE TypeOK'
      OBVIOUS
    <2> USE DEF TypeOK, Steps, Incremented
    <2>1. ASSUME NEW c \in Callers, Incr(c) PROVE TypeOK'
      BY <2>1 DEF Incr, Touched
    <2>2. ASSUME NEW c \in Callers, SetExpiry(c) PROVE TypeOK'
      BY <2>2 DEF SetExpiry
    <2>3. ASSUME NEW c \in Callers, Decr(c) PROVE TypeOK'
      BY <2>3 DEF Decr, Touched
    <2>4. ASSUME NEW c \in Callers, Del(c) PROVE TypeOK'
      BY <2>4 DEF Del, Wipe
    <2>5. CASE Expire
      BY <2>5 DEF Expire, Wipe
    <2>6. ASSUME NEW S \in SUBSET Callers, Abandon(S) PROVE TypeOK'
      <3>1. Cardinality(S \cap Counted) \in Nat
        BY CallerSetsFinite
      <3>2. {pc[c] : c \in S} \subseteq Steps
        OBVIOUS
      <3>3. leaked' \in Nat
        BY <2>6, <3>1 DEF Abandon
      <3>5. abandoned' \in SUBSET Steps
        <4>1. CASE key = "absent"
          BY <2>6, <4>1 DEF Abandon
        <4>2. CASE key # "absent"
          <5>1. abandoned' = abandoned \cup {pc[c] : c \in S}
            BY <2>6, <4>2 DEF Abandon
          <5>2. QED
            BY <5>1, <3>2
        <4>3. QED
          BY <4>1, <4>2
      <3>6. pc' \in [Callers -> Steps]
        BY <2>6 DEF Abandon
      <3>7. QED
        BY <2>6, <3>3, <3>5, <3>6 DEF Abandon
    <2>7. CASE UNCHANGED vars
      BY <2>7 DEF vars
    <2>8. QED
      BY <2>1, <2>2, <2>3, <2>4, <2>5, <2>6, <2>7 DEF Next, RedisFails, Crash
  <1>3. QED
    BY <1>1, <1>2, PTL DEF Spec

-----------------------------------------------------------------------------
(* How each action moves the set of counted callers. *)
LEMMA CountedChange ==
    ASSUME TypeOK
    PROVE  /\ \A c \in Callers : Incr(c) => /\ c \notin Counted
                                            /\ Counted' = Counted \cup {c}
           /\ \A c \in Callers : SetExpiry(c) => Counted' = Counted
           /\ \A c \in Callers : Decr(c) => c \in Counted /\ Counted' = Counted \ {c}
           /\ \A c \in Callers : Del(c) => Counted' = Counted
           /\ Expire => Counted' = Counted
           /\ \A S \in SUBSET Callers : Abandon(S) => Counted' = Counted \ S
  <1> USE DEF Counted, TypeOK, Steps, Incremented
  <1>1. ASSUME NEW c \in Callers, Incr(c)
        PROVE  c \notin Counted /\ Counted' = Counted \cup {c}
    BY <1>1 DEF Incr
  <1>2. ASSUME NEW c \in Callers, SetExpiry(c) PROVE Counted' = Counted
    BY <1>2 DEF SetExpiry
  <1>3. ASSUME NEW c \in Callers, Decr(c)
        PROVE  c \in Counted /\ Counted' = Counted \ {c}
    BY <1>3 DEF Decr
  <1>4. ASSUME NEW c \in Callers, Del(c) PROVE Counted' = Counted
    BY <1>4 DEF Del
  <1>5. Expire => Counted' = Counted
    BY DEF Expire
  <1>6. ASSUME NEW S \in SUBSET Callers, Abandon(S) PROVE Counted' = Counted \ S
    BY <1>6 DEF Abandon
  <1>7. QED
    BY <1>1, <1>2, <1>3, <1>4, <1>5, <1>6

(* The counter is at most the slots that are taken or leaked: inductive     *)
(* once it is known that a missing key counts 0.                            *)
AbsentIsZero == key = "absent" => count = 0 /\ leaked = 0

OverstateInv == AbsentIsZero /\ NeverOverstates

LEMMA OverstateStep == TypeOK /\ OverstateInv /\ [Next]_vars => OverstateInv'
  <1> SUFFICES ASSUME TypeOK, OverstateInv, [Next]_vars PROVE OverstateInv'
    OBVIOUS
  <1> DEFINE N == Cardinality(Counted)
  <1> USE DEF OverstateInv, AbsentIsZero, NeverOverstates
  <1>0. N \in Nat /\ count \in Int /\ leaked \in Nat
    BY CallerSetsFinite, CountedIsSet DEF TypeOK
  <1>1. ASSUME NEW c \in Callers, Incr(c) PROVE OverstateInv'
    <2>1. N' = N + 1
      BY <1>1, CountedChange, CountedAdd, CountedIsSet
    <2>2. QED
      BY <1>0, <1>1, <2>1 DEF Incr, Touched, TypeOK
  <1>2. ASSUME NEW c \in Callers, SetExpiry(c) PROVE OverstateInv'
    <2>1. N' = N
      BY <1>2, CountedChange
    <2>2. QED
      BY <1>0, <1>2, <2>1 DEF SetExpiry
  <1>3. ASSUME NEW c \in Callers, Decr(c) PROVE OverstateInv'
    <2>1. N' = N - 1
      BY <1>3, CountedChange, CountedRemoveOne, CountedIsSet
    <2>2. QED
      BY <1>0, <1>3, <2>1 DEF Decr, Touched, TypeOK
  <1>4. ASSUME NEW c \in Callers, Del(c) PROVE OverstateInv'
    <2>1. N' = N
      BY <1>4, CountedChange
    <2>2. QED
      BY <1>0, <1>4, <2>1 DEF Del, Wipe
  <1>5. CASE Expire
    <2>1. N' = N
      BY <1>5, CountedChange
    <2>2. QED
      BY <1>0, <1>5, <2>1 DEF Expire, Wipe
  <1>6. ASSUME NEW S \in SUBSET Callers, Abandon(S) PROVE OverstateInv'
    <2>1. Counted' = Counted \ S
      BY <1>6, CountedChange
    <2>2. S \cap Counted = Counted \cap S
      OBVIOUS
    <2>3. /\ N' = N - Cardinality(S \cap Counted)
          /\ Cardinality(S \cap Counted) \in Nat
      BY <2>1, <2>2, CountedRemove, CountedIsSet
    <2>4. N' \in Nat
      BY <2>1, CallerSetsFinite, CountedIsSet
    <2>5. CASE key = "absent"
      BY <1>0, <1>6, <2>4, <2>5 DEF Abandon
    <2>6. CASE key # "absent"
      BY <1>0, <1>6, <2>3, <2>6 DEF Abandon
    <2>7. QED
      BY <2>5, <2>6
  <1>7. CASE UNCHANGED vars
    <2>1. N' = N
      BY <1>7 DEF vars, Counted
    <2>2. QED
      BY <1>7, <2>1 DEF vars
  <1>8. QED
    BY <1>1, <1>2, <1>3, <1>4, <1>5, <1>6, <1>7 DEF Next, RedisFails, Crash

LEMMA OverstateInvariant == Spec => []OverstateInv
  <1>1. Init => OverstateInv
    <2> SUFFICES ASSUME Init PROVE OverstateInv
      OBVIOUS
    <2>1. Cardinality(Counted) \in Nat
      BY CallerSetsFinite, CountedIsSet
    <2>2. QED
      BY <2>1 DEF Init, OverstateInv, AbsentIsZero, NeverOverstates
  <1>2. QED
    BY <1>1, OverstateStep, TypeCorrect, PTL DEF Spec

(* The counter never exceeds the slots that are taken or were leaked. *)
THEOREM CounterNeverOverstates == Spec => []NeverOverstates
  BY OverstateInvariant, PTL DEF OverstateInv

(* A refused caller found Limit slots taken or leaked. *)
THEOREM RefusalsAreJustified == Spec => RejectionJustified
  <1> DEFINE Justified ==
        \A c \in Callers : (pc[c] = "idle" /\ pc'[c] = "refused")
                             => Cardinality(Counted) + leaked >= Limit
  <1>1. TypeOK /\ NeverOverstates /\ [Next]_vars => [Justified]_vars
    <2> SUFFICES ASSUME TypeOK, NeverOverstates, Next,
                        NEW c \in Callers, pc[c] = "idle", pc'[c] = "refused"
                 PROVE  Cardinality(Counted) + leaked >= Limit
      OBVIOUS
    <2>1. Incr(c)
      <3>1. \A d \in Callers : Incr(d) => d = c
        BY DEF Incr, TypeOK
      <3>2. \A d \in Callers : ~SetExpiry(d) /\ ~Decr(d) /\ ~Del(d)
        BY DEF SetExpiry, Decr, Del, TypeOK, Incremented
      <3>3. ~Expire
        BY DEF Expire
      <3>4. \A S \in SUBSET Callers : ~Abandon(S)
        BY DEF Abandon, TypeOK
      <3>5. QED
        BY <3>1, <3>2, <3>3, <3>4 DEF Next, RedisFails, Crash
    <2>2. count + 1 > Limit
      BY <2>1 DEF Incr, TypeOK
    <2>3. Cardinality(Counted) \in Nat
      BY CallerSetsFinite, CountedIsSet
    <2>4. QED
      BY <2>2, <2>3 DEF NeverOverstates, TypeOK
  <1>2. QED
    BY <1>1, TypeCorrect, CounterNeverOverstates, PTL DEF Spec, RejectionJustified

-----------------------------------------------------------------------------
(* A key that holds nothing positive is about to be deleted, and nothing is *)
(* leaked unless some caller was lost.                                      *)
DeletionPending ==
    (key # "absent" /\ count <= 0 /\ abandoned = {})
       => \E c \in Callers : pc[c] = "deleting"

LeaksAreKnown == leaked > 0 => abandoned # {}

CleanInv == DeletionPending /\ LeaksAreKnown

LEMMA CleanStep == TypeOK /\ OverstateInv /\ CleanInv /\ [Next]_vars => CleanInv'
  <1> SUFFICES ASSUME TypeOK, OverstateInv, CleanInv, [Next]_vars PROVE CleanInv'
    OBVIOUS
  <1> USE DEF CleanInv, DeletionPending, LeaksAreKnown, TypeOK, Steps, Incremented
  <1>1. ASSUME NEW c \in Callers, Incr(c) PROVE CleanInv'
    BY <1>1 DEF Incr, Touched, OverstateInv, AbsentIsZero
  <1>2. ASSUME NEW c \in Callers, SetExpiry(c) PROVE CleanInv'
    BY <1>2 DEF SetExpiry
  <1>3. ASSUME NEW c \in Callers, Decr(c) PROVE CleanInv'
    BY <1>3 DEF Decr, Touched
  <1>4. ASSUME NEW c \in Callers, Del(c) PROVE CleanInv'
    BY <1>4 DEF Del, Wipe
  <1>5. CASE Expire
    BY <1>5 DEF Expire, Wipe
  <1>6. ASSUME NEW S \in SUBSET Callers, Abandon(S) PROVE CleanInv'
    <2>1. CASE S = {}
      <3>1. Cardinality(S \cap Counted) = 0
        BY <2>1, FS_EmptySet
      <3>2. abandoned' = abandoned /\ leaked' = leaked /\ pc' = pc
        BY <1>6, <2>1, <3>1 DEF Abandon
      <3>3. count' = count /\ key' = key
        BY <1>6 DEF Abandon
      <3>4. QED
        BY <3>2, <3>3
    <2>2. CASE S # {} /\ key # "absent"
      <3>1. abandoned' = abandoned \cup {pc[c] : c \in S}
        BY <1>6, <2>2 DEF Abandon
      <3>2. abandoned' # {}
        BY <2>2, <3>1
      <3>3. QED
        BY <3>2
    <2>3. CASE key = "absent"
      BY <1>6, <2>3 DEF Abandon
    <2>4. QED
      BY <2>1, <2>2, <2>3
  <1>7. CASE UNCHANGED vars
    BY <1>7 DEF vars
  <1>8. QED
    BY <1>1, <1>2, <1>3, <1>4, <1>5, <1>6, <1>7 DEF Next, RedisFails, Crash

(* When every caller has returned and none was lost, the key is gone. *)
THEOREM IdleKeyIsGone == Spec => []IdleMeansClean
  <1>1. Init => CleanInv
    BY DEF Init, CleanInv, DeletionPending, LeaksAreKnown
  <1>2. TypeOK /\ OverstateInv /\ CleanInv => IdleMeansClean
    <2> SUFFICES ASSUME TypeOK, OverstateInv, CleanInv,
                        \A c \in Callers : pc[c] = "idle", abandoned = {}
                 PROVE  key = "absent"
      BY DEF IdleMeansClean
    <2>1. Counted = {}
      BY DEF Counted, Incremented
    <2>2. Cardinality(Counted) = 0
      BY <2>1, FS_EmptySet
    <2>3. leaked = 0
      BY DEF CleanInv, LeaksAreKnown, TypeOK
    <2>4. count <= 0
      BY <2>2, <2>3 DEF OverstateInv, NeverOverstates, TypeOK
    <2>5. QED
      BY <2>4 DEF CleanInv, DeletionPending
  <1>3. QED
    BY <1>1, <1>2, CleanStep, TypeCorrect, OverstateInvariant, PTL DEF Spec

(* A positive count carries a TTL, but for the gap between INCR and EXPIRE. *)
THEOREM LeaksExpire == Spec => []PositiveCountExpires
  <1>1. Init => PositiveCountExpires
    BY DEF Init, PositiveCountExpires
  <1>2. TypeOK /\ OverstateInv /\ PositiveCountExpires /\ [Next]_vars
           => PositiveCountExpires'
    <2> SUFFICES ASSUME TypeOK, OverstateInv, PositiveCountExpires, [Next]_vars
                 PROVE  PositiveCountExpires'
      OBVIOUS
    <2> USE DEF PositiveCountExpires, TypeOK, Steps, Incremented
    <2>1. ASSUME NEW c \in Callers, Incr(c) PROVE PositiveCountExpires'
      BY <2>1 DEF Incr
    <2>2. ASSUME NEW c \in Callers, SetExpiry(c) PROVE PositiveCountExpires'
      BY <2>2 DEF SetExpiry
    <2>3. ASSUME NEW c \in Callers, Decr(c) PROVE PositiveCountExpires'
      BY <2>3 DEF Decr, Touched, OverstateInv, AbsentIsZero
    <2>4. ASSUME NEW c \in Callers, Del(c) PROVE PositiveCountExpires'
      BY <2>4 DEF Del, Wipe
    <2>5. CASE Expire
      BY <2>5 DEF Expire, Wipe
    <2>6. ASSUME NEW S \in SUBSET Callers, Abandon(S) PROVE PositiveCountExpires'
      <3> SUFFICES ASSUME count' > 0, key' = "noTtl"
                   PROVE  \/ \E c \in Callers : pc'[c] \in Incremented
                          \/ abandoned' \cap Incremented # {}
        OBVIOUS
      <3>1. count > 0 /\ key = "noTtl"
        BY <2>6 DEF Abandon
      <3>2. abandoned' = abandoned \cup {pc[c] : c \in S}
        BY <2>6, <3>1 DEF Abandon
      <3>3. CASE abandoned \cap Incremented # {}
        BY <3>2, <3>3
      <3>4. CASE \E c \in Callers : pc[c] \in Incremented
        <4>1. PICK c \in Callers : pc[c] \in Incremented
          BY <3>4
        <4>2. CASE c \in S
          BY <3>2, <4>1, <4>2
        <4>3. CASE c \notin S
          BY <2>6, <4>1, <4>3 DEF Abandon
        <4>4. QED
          BY <4>2, <4>3
      <3>5. QED
        BY <3>1, <3>3, <3>4
    <2>7. CASE UNCHANGED vars
      BY <2>7 DEF vars
    <2>8. QED
      BY <2>1, <2>2, <2>3, <2>4, <2>5, <2>6, <2>7 DEF Next, RedisFails, Crash
  <1>3. QED
    BY <1>1, <1>2, TypeCorrect, OverstateInvariant, PTL DEF Spec
===============================================================================
