-------------------------- MODULE ProjectReplaceProofs --------------------------
(***************************************************************************)
(* Proofs about project replace, for any number of operators, resources,   *)
(* dependencies, contents and faults.                                      *)
(***************************************************************************)
EXTENDS ProjectReplace, TLAPS, WellFoundedInduction, FiniteSetTheorems

USE ResourceAssumption, IdsAssumption DEF ResourceAssumption

-----------------------------------------------------------------------------
(* The shape of the state, as far as the proof needs it. *)
Operations ==
    [at : Stages, stage : 0 .. 6, snap : Snapshots, base : SUBSET Rows, conns : SUBSET Conns,
     missing : SUBSET Deps, items : SUBSET Items, todo : SUBSET Items, blocked : SUBSET Deps,
     failed : BOOLEAN, clean : BOOLEAN]

Shape ==
    /\ source \in Snapshots
    /\ dest \subseteq Rows
    /\ deps \subseteq Deps /\ withdrawn \subseteq Deps
    /\ op \in [Operators -> Operations]

Known == deps \cup withdrawn

(* Of an operation p: what its snapshot needs has come, or else the plan    *)
(* misses it or will resolve it; while it is applied, it is blocked or      *)
(* still to be resolved.                                                    *)
Accounted(p, known) ==
    /\ p.todo \subseteq p.items
    /\ \A it \in p.items : it.do \in {"create", "update"} => p.snap[it.name] # None
    /\ p.at # "idle" => \A d \in NeedsOf(p.snap) :
          d \in known \/ d \in p.missing \ Conns \/ Item("resolve", d, 0) \in p.items
    /\ p.at = "applying" => \A d \in NeedsOf(p.snap) :
          d \in known \/ d \in p.blocked \/ Item("resolve", d, 0) \in p.todo

AllAccounted == \A o \in Operators : Accounted(op[o], Known)

LEMMA ItemTypes ==
    /\ \A d \in Deps : Item("resolve", d, 0) \in Items
    /\ \A do \in {"create", "update", "delete"}, n \in Names, i \in Ids \cup {0} :
          Item(do, n, i) \in Items
  BY DEF Item, Items

LEMMA NeedsAreDeps == \A S \in Snapshots : NeedsOf(S) \subseteq Deps
  BY DEF Snapshots, NeedsOf, Present

(* An operator moves, and the others at most lose the history mark. *)
LEMMA OthersKept ==
    ASSUME Shape, NEW o \in Operators, NEW p \in Operations, Moves(o, p) \/ Writes(o, p)
    PROVE  /\ op' \in [Operators -> Operations]
           /\ op'[o] = p
           /\ \A x \in Operators \ {o} :
                 op'[x] = op[x] \/ op'[x] = [op[x] EXCEPT !.clean = FALSE]
  <1>1. CASE Moves(o, p)
    BY <1>1 DEF Moves, Shape
  <1>2. CASE Writes(o, p)
    <2>1. \A x \in Operators : Unseen(x) \in {op[x], [op[x] EXCEPT !.clean = FALSE]}
      BY DEF Unseen
    <2>2. \A x \in Operators : Unseen(x) \in Operations
      <3>1. \A x \in Operators : op[x] \in Operations
        BY DEF Shape
      <3>2. \A x \in Operators : [op[x] EXCEPT !.clean = FALSE] \in Operations
        BY <3>1 DEF Operations
      <3> QED BY <2>1, <3>1, <3>2
    <2> QED BY <1>2, <2>1, <2>2 DEF Writes
  <1> QED BY <1>1, <1>2

LEMMA AccountedKept ==
    ASSUME NEW p \in Operations, NEW K, NEW L, K \subseteq L, Accounted(p, K)
    PROVE  Accounted(p, L) /\ Accounted([p EXCEPT !.clean = FALSE], L)
  BY DEF Accounted, Operations

(* So a step is safe if the operator that moves is accounted for, and if    *)
(* no dependency disappears without being counted as withdrawn.             *)
LEMMA MoveAccounted ==
    ASSUME Shape, AllAccounted, Known \subseteq Known', NEW o \in Operators,
           NEW p \in Operations, Moves(o, p) \/ Writes(o, p), Accounted(p, Known')
    PROVE  op' \in [Operators -> Operations] /\ AllAccounted'
  <1>1. \A x \in Operators : op[x] \in Operations /\ Accounted(op[x], Known)
    BY DEF Shape, AllAccounted
  <1>2. /\ op' \in [Operators -> Operations]
        /\ op'[o] = p
        /\ \A x \in Operators \ {o} :
              op'[x] = op[x] \/ op'[x] = [op[x] EXCEPT !.clean = FALSE]
    BY OthersKept
  <1>3. ASSUME NEW x \in Operators \ {o} PROVE Accounted(op'[x], Known')
    <2>1. Accounted(op[x], Known') /\ Accounted([op[x] EXCEPT !.clean = FALSE], Known')
      BY <1>1, AccountedKept
    <2> QED BY <1>2, <2>1
  <1> QED BY <1>2, <1>3 DEF AllAccounted

-----------------------------------------------------------------------------
(* A set of natural numbers that is not empty has a smallest member. *)
LEMMA Smallest == ASSUME NEW T, T \subseteq Nat, T # {} PROVE \E x \in T : \A y \in T : x <= y
  <1>1. PICK x \in T : \A y \in T : ~ (<<y, x>> \in OpToRel(<, Nat))
    BY NatLessThanWellFounded, WFMin
  <1>2. ASSUME NEW y \in T PROVE x <= y
    <2>1. <<y, x>> \in OpToRel(<, Nat) <=> y < x
      BY DEF OpToRel
    <2>2. ~ (y < x)
      BY <1>1, <2>1
    <2>3. x \in Nat /\ y \in Nat
      OBVIOUS
    <2> QED BY <2>2, <2>3
  <1> QED BY <1>2

(* So a name that the destination has is matched by one of its rows. *)
LEMMA MatchIsRow ==
    ASSUME dest \subseteq Rows, NEW n \in Names, Named(n) # {}
    PROVE  Match(n) \in dest /\ Match(n).name = n
  <1> DEFINE T == {r.id : r \in Named(n)}
  <1>1. \A r \in Named(n) : r \in dest /\ r.name = n /\ r.id \in Ids
    BY DEF Named, Rows
  <1>2. T \subseteq Nat /\ T # {}
    BY <1>1 DEF Ids
  <1>3. \E r \in Named(n) : \A s \in Named(n) : r.id <= s.id
    <2>1. PICK x \in T : \A y \in T : x <= y
      BY <1>2, Smallest
    <2> QED BY <2>1
  <1>4. Match(n) \in Named(n)
    BY <1>3 DEF Match
  <1> QED BY <1>1, <1>4

(* The stages of a plan: the hash, then each kind that has resources.       *)
LEMMA StageOrder ==
    /\ Len(PlanStages) = 6 /\ PlanStages[1] = "hash"
    /\ \A j \in 2 .. 6 : PlanStages[j] # "hash"
    /\ \A k \in Kinds : Place(k) \in 1 .. 5
    /\ \A k \in Kinds, j \in 2 .. 6 : PlanStages[j] = k <=> j = Place(k) + 1
  <1>1. Len(CreateOrder) = 5
    BY DEF CreateOrder
  <1>2. /\ Len(PlanStages) = 6 /\ PlanStages[1] = "hash"
        /\ \A j \in 2 .. 6 : PlanStages[j] = CreateOrder[j - 1]
    BY DEF PlanStages, CreateOrder
  <1>3. \A j \in 1 .. 5 : CreateOrder[j] # "hash"
    BY DEF CreateOrder
  <1>4. \A i, j \in 1 .. 5 : CreateOrder[i] = CreateOrder[j] => i = j
    BY DEF CreateOrder
  <1>5. \A k \in Kinds : \E i \in 1 .. 5 : CreateOrder[i] = k
    BY DEF Kinds, ToSet, CreateOrder
  <1>6. \A k \in Kinds : Place(k) \in 1 .. 5 /\ CreateOrder[Place(k)] = k
    BY <1>1, <1>5 DEF Place
  <1>7. ASSUME NEW k \in Kinds, NEW j \in 2 .. 6 PROVE PlanStages[j] = k <=> j = Place(k) + 1
    <2>1. j - 1 \in 1 .. 5 /\ PlanStages[j] = CreateOrder[j - 1]
      BY <1>2
    <2> QED BY <1>4, <1>6, <1>7, <2>1
  <1> QED BY <1>2, <1>3, <1>6, <1>7

LEMMA StageAfterIs ==
    ASSUME NEW i \in 0 .. 6
    PROVE  /\ StageAfter(i) \in 0 .. 6
           /\ StageAfter(i) # 0 => StageAfter(i) > i
           /\ \A j \in 2 .. 6 : (j > i /\ (StageAfter(i) = 0 \/ j < StageAfter(i)))
                                 => OfKind(PlanStages[j]) = {}
           /\ i = 0 => StageAfter(i) = 1
  <1> DEFINE later == {j \in 1 .. Len(PlanStages) :
                         j > i /\ (PlanStages[j] = "hash" \/ OfKind(PlanStages[j]) # {})}
  <1>1. \A j : j \in later <=> /\ j \in 1 .. 6 /\ j > i
                               /\ PlanStages[j] = "hash" \/ OfKind(PlanStages[j]) # {}
    BY StageOrder
  <1>2. StageAfter(i) = IF later = {} THEN 0 ELSE Min(later)
    BY DEF StageAfter
  <1> HIDE DEF later
  <1>3. CASE later = {}
    BY <1>1, <1>2, <1>3, StageOrder
  <1>4. CASE later # {}
    <2>1. later \subseteq Nat
      BY <1>1
    <2>2. \E x \in later : \A y \in later : x <= y
      BY <1>4, <2>1, Smallest
    <2>3. StageAfter(i) \in later /\ \A y \in later : StageAfter(i) <= y
      BY <1>2, <1>4, <2>2 DEF Min
    <2>4. \A j \in 2 .. 6 : (j > i /\ j < StageAfter(i)) => OfKind(PlanStages[j]) = {}
      BY <1>1, <2>3
    <2>5. i = 0 => StageAfter(i) = 1
      BY <1>1, <2>3, StageOrder
    <2> QED BY <1>1, <2>3, <2>4, <2>5
  <1> QED BY <1>3, <1>4

(* What is created waits until every dependency has been seen to. *)
LEMMA ResolvesComeFirst ==
    ASSUME NEW o \in Operators, NEW it \in Due(o), it.do = "create", it.name \in Names,
           NEW d \in Deps
    PROVE  Item("resolve", d, 0) \notin op[o].todo
  <1>1. Rank(it) = 2 * Place(Kind[it.name]) /\ Place(Kind[it.name]) \in 1 .. 5
    BY StageOrder DEF Rank
  <1>2. Rank(Item("resolve", d, 0)) \in 0 .. 1
    BY DEF Rank, Item
  <1> QED BY <1>1, <1>2 DEF Due

-----------------------------------------------------------------------------
IInv == Shape /\ AllAccounted /\ BindingsHaveTheirDependencies

(* Every step of an operator is of this form. *)
LEMMA MovePreserves ==
    ASSUME IInv, NEW o \in Operators, NEW p \in Operations, Moves(o, p) \/ Writes(o, p),
           Accounted(p, Known'),
           UNCHANGED <<source, withdrawn>>, deps \subseteq deps', deps' \subseteq Deps,
           dest' \subseteq Rows,
           \A r \in dest' : \/ \E q \in dest : q.name = r.name
                            \/ Binding(r.name) => Needs[r.name] \subseteq Known
    PROVE  IInv'
  <1>1. Known \subseteq Known'
    BY DEF Known
  <1>2. op' \in [Operators -> Operations] /\ AllAccounted'
    BY <1>1, MoveAccounted DEF IInv
  <1>3. Shape'
    BY <1>2 DEF IInv, Shape
  <1>4. \A r \in dest' : Binding(r.name) => Needs[r.name] \subseteq Known
    BY DEF IInv, BindingsHaveTheirDependencies, Known
  <1>5. BindingsHaveTheirDependencies'
    BY <1>1, <1>4 DEF BindingsHaveTheirDependencies, Known, Binding
  <1> QED BY <1>2, <1>3, <1>5 DEF IInv

LEMMA RowsAreRows ==
    \A i \in Ids, n \in Names, b \in Bodies \cup {Partial}, live \in BOOLEAN :
        /\ Row(i, n, b, live) \in Rows
        /\ Row(i, n, b, live).name = n
  BY DEF Row, Rows

LEMMA LiveIsBoolean == \A n \in Names, b \in Bodies : Live(n, b) \in BOOLEAN
  BY DEF Live

LEMMA UpdatedIsRow ==
    \A r \in Rows, b \in Bodies : Updated(r, b) \in Rows /\ Updated(r, b).name = r.name
  <1> SUFFICES ASSUME NEW r \in Rows, NEW b \in Bodies
               PROVE  Updated(r, b) \in Rows /\ Updated(r, b).name = r.name
    OBVIOUS
  <1> DEFINE live == IF Binding(r.name) /\ (r.body \in Enabled) # (b \in Enabled)
                     THEN b \in Enabled ELSE r.live
  <1>1. r.id \in Ids /\ r.name \in Names /\ r.live \in BOOLEAN
    BY DEF Rows
  <1>2. live \in BOOLEAN
    <2>1. (b \in Enabled) \in BOOLEAN
      OBVIOUS
    <2>2. live = (b \in Enabled) \/ live = r.live
      BY Zenon
    <2> HIDE DEF live
    <2> QED BY <1>1, <2>1, <2>2, Zenon
  <1>3. Updated(r, b) = Row(r.id, r.name, b, live)
    BY DEF Updated
  <1> HIDE DEF live
  <1> QED BY <1>1, <1>2, <1>3, RowsAreRows

(* The differences are items, and what they create or update is in the      *)
(* snapshot.                                                                *)
LEMMA DifferencesAreItems ==
    ASSUME dest \subseteq Rows, NEW S \in Snapshots, NEW k
    PROVE  /\ Differences(S, k) \subseteq Items
           /\ \A it \in Differences(S, k) :
                 it.do \in {"create", "update"} => S[it.name] # None
  <1> DEFINE missing == {n \in Present(S) \cap OfKind(k) : Named(n) = {}}
             matched == {Match(n) : n \in (Present(S) \cap OfKind(k)) \ missing}
             extra == {r \in dest : Kind[r.name] = k /\ S[r.name] = None}
             C == {Item("create", n, 0) : n \in missing}
             U == {Item("update", r.name, Ref(r)) : r \in
                      {m \in matched : m.body \notin Alike(m.name, S[m.name])}}
             D == {Item("delete", r.name, Ref(r)) : r \in extra}
  <1>1. Differences(S, k) = C \cup U \cup D
    BY DEF Differences
  <1>2. \A r \in dest : r.name \in Names /\ Ref(r) \in Ids \cup {0}
    BY DEF Rows, Ref
  <1>3. \A r \in matched : r \in dest /\ r.name \in Present(S)
    <2>1. \A n \in (Present(S) \cap OfKind(k)) \ missing : n \in Names /\ Named(n) # {}
      BY DEF Present
    <2> QED BY <2>1, MatchIsRow
  <1>4. C \subseteq Items /\ \A it \in C : it.do = "create" /\ S[it.name] # None
    BY ItemTypes DEF Present, Item
  <1>5. U \subseteq Items /\ \A it \in U : S[it.name] # None
    BY <1>2, <1>3, ItemTypes DEF Present, Item
  <1>6. D \subseteq Items /\ \A it \in D : it.do = "delete"
    BY <1>2, ItemTypes DEF Item
  <1> HIDE DEF C, U, D
  <1> QED BY <1>1, <1>4, <1>5, <1>6

-----------------------------------------------------------------------------
(* The steps of an operator. *)
LEMMA OperatorTypes ==
    ASSUME Shape, NEW o \in Operators
    PROVE  op[o] \in Operations
  BY DEF Shape

LEMMA IdleAccounted == \A K : Accounted(Idle, K) /\ Idle \in Operations
  <1>1. [n \in Names |-> None] \in Snapshots
    BY DEF Snapshots
  <1> QED BY <1>1 DEF Idle, Accounted, Operations, Stages

LEMMA StartStep == ASSUME IInv, NEW o \in Operators, Start(o) PROVE IInv'
  <1> DEFINE p == [Idle EXCEPT !.at = "planning", !.stage = StageAfter(0), !.snap = source,
                               !.items = Resolves(source),
                               !.missing = NeedsOf(source) \ (deps \cup Supplied)]
  <1>1. source \in Snapshots /\ NeedsOf(source) \subseteq Deps
    BY NeedsAreDeps DEF IInv, Shape
  <1>2. Resolves(source) \subseteq Items /\ \A it \in Resolves(source) : it.do = "resolve"
    BY <1>1, ItemTypes DEF Resolves, Item
  <1>3. Idle \in Operations /\ Idle.todo = {} /\ StageAfter(0) \in 0 .. 6
    <2>1. Idle \in Operations /\ Idle.todo = {}
      BY IdleAccounted DEF Idle
    <2>2. 0 \in 0 .. 6
      OBVIOUS
    <2> QED BY <2>1, <2>2, StageAfterIs
  <1>4. /\ p \in Operations
        /\ p.at = "planning" /\ p.snap = source /\ p.todo = {} /\ p.items = Resolves(source)
        /\ p.missing = NeedsOf(source) \ (deps \cup Supplied)
    BY <1>1, <1>2, <1>3 DEF Operations, Stages
  <1>5. Known' = Known
    BY DEF Start, Known
  <1>6. \A d \in NeedsOf(source) :
          d \in Known \/ d \in p.missing \ Conns \/ Item("resolve", d, 0) \in p.items
    BY <1>4 DEF Known, Resolves
  <1>7. Accounted(p, Known')
    BY <1>2, <1>4, <1>5, <1>6 DEF Accounted
  <1>8. Moves(o, p) /\ UNCHANGED <<source, dest, deps, withdrawn>>
    BY DEF Start
  <1> HIDE DEF p
  <1> QED BY <1>4, <1>7, <1>8, MovePreserves DEF IInv, Shape

LEMMA PlanStep == ASSUME IInv, NEW o \in Operators, Plan(o) PROVE IInv'
  <1> DEFINE k == PlanStages[op[o].stage]
             next == StageAfter(op[o].stage)
             new == [op[o] EXCEPT !.at = IF next = 0 THEN "planned" ELSE "planning",
                                  !.stage = next]
             p == IF k = "hash"
                  THEN [new EXCEPT !.base = dest, !.conns = deps \cap Conns, !.clean = TRUE]
                  ELSE [new EXCEPT !.items = @ \cup Differences(op[o].snap, k)]
  <1>1. /\ op[o] \in Operations /\ Accounted(op[o], Known) /\ dest \subseteq Rows
        /\ op[o].snap \in Snapshots /\ op[o].at = "planning"
    BY OperatorTypes DEF IInv, Shape, AllAccounted, Operations, Plan
  <1>2. Moves(o, p) /\ UNCHANGED <<source, dest, deps, withdrawn>>
    BY DEF Plan
  <1>3. Known' = Known
    BY <1>2 DEF Known
  <1>4. new \in Operations /\ new.at # "idle" /\ new.at # "applying" /\ Accounted(new, Known)
    <2>1. /\ new \in Operations /\ new.at \in {"planned", "planning"}
          /\ new.snap = op[o].snap /\ new.items = op[o].items /\ new.todo = op[o].todo
          /\ new.missing = op[o].missing
      <3>1. next \in 0 .. 6
        BY <1>1, StageAfterIs DEF Operations
      <3> HIDE DEF next
      <3> QED BY <1>1, <3>1 DEF Operations, Stages
    <2> HIDE DEF new
    <2> QED BY <1>1, <2>1 DEF Accounted
  <1>5. p \in Operations /\ Accounted(p, Known)
    <2> HIDE DEF new, k
    <2>1. CASE k = "hash"
      BY <1>1, <1>4, <2>1 DEF Operations, Accounted
    <2>2. CASE k # "hash"
      <3> DEFINE F == Differences(op[o].snap, k)
      <3>1. /\ F \subseteq Items
            /\ \A it \in F : it.do \in {"create", "update"} => op[o].snap[it.name] # None
        BY <1>1, DifferencesAreItems
      <3>2. new.snap = op[o].snap
        BY <1>1 DEF new, Operations
      <3> HIDE DEF F
      <3> QED BY <1>4, <2>2, <3>1, <3>2 DEF Operations, Accounted, F
    <2> QED BY <2>1, <2>2
  <1> HIDE DEF p
  <1> QED BY <1>2, <1>3, <1>5, MovePreserves DEF IInv, Shape

(* Dropping a plan, or dying before there is one. *)
LEMMA IdleStep ==
    ASSUME IInv, NEW o \in Operators, Moves(o, Idle), UNCHANGED <<source, dest, deps, withdrawn>>
    PROVE  IInv'
  BY IdleAccounted, MovePreserves DEF IInv, Shape

LEMMA BeginStep ==
    ASSUME IInv, NEW o \in Operators, NEW force \in BOOLEAN, Begin(o, force) PROVE IInv'
  <1> DEFINE p == [op[o] EXCEPT !.at = "applying", !.clean = @ /\ dest = op[o].base,
                                !.todo = op[o].items, !.blocked = op[o].missing \ Conns]
  <1>1. op[o] \in Operations /\ Accounted(op[o], Known) /\ op[o].at = "planned"
    BY OperatorTypes DEF IInv, AllAccounted, Begin
  <1>2. p \in Operations
    BY <1>1 DEF Operations, Stages
  <1>3. /\ p.at = "applying" /\ p.snap = op[o].snap /\ p.items = op[o].items
        /\ p.missing = op[o].missing /\ p.todo = op[o].items /\ p.blocked = op[o].missing \ Conns
    BY <1>1 DEF Operations
  <1>4. Moves(o, p) /\ UNCHANGED <<source, dest, deps, withdrawn>>
    BY DEF Begin
  <1> HIDE DEF p
  <1>5. Known' = Known
    BY <1>4 DEF Known
  <1>6. Accounted(p, Known')
    BY <1>1, <1>3, <1>5 DEF Accounted
  <1> QED BY <1>2, <1>4, <1>6, MovePreserves DEF IInv, Shape

(* An apply that ends keeps its plan. *)
LEMMA StoppedStep ==
    ASSUME IInv, NEW o \in Operators, Moves(o, Stopped(o)), op[o].at = "applying",
           UNCHANGED <<source, dest, deps, withdrawn>>
    PROVE  IInv'
  <1>1. op[o] \in Operations /\ Accounted(op[o], Known)
    BY OperatorTypes DEF IInv, AllAccounted
  <1>2. Stopped(o) \in Operations
    BY <1>1 DEF Stopped, Operations, Stages
  <1>3. /\ Stopped(o).at = "planned" /\ Stopped(o).snap = op[o].snap
        /\ Stopped(o).items = op[o].items /\ Stopped(o).missing = op[o].missing
        /\ Stopped(o).todo = {}
    BY <1>1 DEF Stopped, Operations
  <1>4. Known' = Known
    BY DEF Known
  <1>5. Accounted(Stopped(o), Known')
    BY <1>1, <1>3, <1>4 DEF Accounted
  <1> QED BY <1>2, <1>5, MovePreserves DEF IInv, Shape

(* What an operator is when it is done with an item. *)
LEMMA Progress ==
    ASSUME NEW o \in Operators, op[o] \in Operations, NEW it,
           NEW p \in {Without(o, it), Failed(o, it)}
    PROVE  /\ p \in Operations
           /\ p.at = op[o].at /\ p.snap = op[o].snap /\ p.items = op[o].items
           /\ p.missing = op[o].missing /\ p.todo = op[o].todo \ {it}
           /\ p.blocked = op[o].blocked
  <1>1. /\ Without(o, it) \in Operations
        /\ Without(o, it).at = op[o].at /\ Without(o, it).snap = op[o].snap
        /\ Without(o, it).items = op[o].items /\ Without(o, it).missing = op[o].missing
        /\ Without(o, it).todo = op[o].todo \ {it} /\ Without(o, it).blocked = op[o].blocked
    BY DEF Without, Operations
  <1>2. CASE p = Without(o, it)
    BY <1>1, <1>2
  <1>3. CASE p = Failed(o, it)
    BY <1>1, <1>3 DEF Failed, Operations
  <1> QED BY <1>2, <1>3

LEMMA ResolveStep == ASSUME IInv, NEW o \in Operators, Resolve(o) PROVE IInv'
  <1>1. PICK it \in Due(o) :
          /\ op[o].at = "applying" /\ it.do = "resolve"
          /\ \/ /\ it.name \in deps \cup Supplied
                /\ deps' = deps \cup {it.name}
                /\ Moves(o, Without(o, it)) \/ Writes(o, Without(o, it))
             \/ /\ Moves(o, [Failed(o, it) EXCEPT !.blocked = @ \cup {it.name}])
                /\ UNCHANGED deps
          /\ UNCHANGED <<source, dest, withdrawn>>
    BY DEF Resolve
  <1>2. op[o] \in Operations /\ Accounted(op[o], Known) /\ it \in op[o].todo
    BY OperatorTypes DEF IInv, AllAccounted, Due
  <1>3. it \in Items /\ it = Item("resolve", it.name, 0) /\ it.name \in Deps
    BY <1>1, <1>2 DEF Operations, Items, Item
  <1>4. \A d \in Deps \ {it.name} : Item("resolve", d, 0) # it
    BY <1>3 DEF Item
  <1>5. op[o].snap \in Snapshots /\ NeedsOf(op[o].snap) \subseteq Deps
    BY <1>2, NeedsAreDeps DEF Operations
  <1>6. CASE deps' = deps \cup {it.name} /\ (Moves(o, Without(o, it)) \/ Writes(o, Without(o, it)))
    <2> DEFINE p == Without(o, it)
    <2>1. /\ p \in Operations
          /\ p.at = op[o].at /\ p.snap = op[o].snap /\ p.items = op[o].items
          /\ p.missing = op[o].missing /\ p.todo = op[o].todo \ {it} /\ p.blocked = op[o].blocked
      BY <1>2, Progress
    <2>2. Known' = Known \cup {it.name}
      BY <1>1, <1>6 DEF Known
    <2> HIDE DEF p
    <2>3. Accounted(p, Known')
      BY <1>1, <1>2, <1>4, <1>5, <2>1, <2>2 DEF Accounted
    <2> QED BY <1>1, <1>3, <1>6, <2>1, <2>3, MovePreserves DEF IInv, Shape, p
  <1>7. CASE Moves(o, [Failed(o, it) EXCEPT !.blocked = @ \cup {it.name}]) /\ UNCHANGED deps
    <2> DEFINE q == Failed(o, it)
               p == [q EXCEPT !.blocked = @ \cup {it.name}]
    <2>1. /\ q \in Operations
          /\ q.at = op[o].at /\ q.snap = op[o].snap /\ q.items = op[o].items
          /\ q.missing = op[o].missing /\ q.todo = op[o].todo \ {it} /\ q.blocked = op[o].blocked
      BY <1>2, Progress
    <2> HIDE DEF q
    <2>2. /\ p \in Operations
          /\ p.at = op[o].at /\ p.snap = op[o].snap /\ p.items = op[o].items
          /\ p.missing = op[o].missing /\ p.todo = op[o].todo \ {it}
          /\ p.blocked = op[o].blocked \cup {it.name}
      BY <1>3, <2>1 DEF Operations
    <2>3. Known' = Known
      BY <1>1, <1>7 DEF Known
    <2>4. Moves(o, p)
      BY <1>7 DEF q
    <2> HIDE DEF p
    <2>5. Accounted(p, Known')
      BY <1>1, <1>2, <1>4, <1>5, <2>2, <2>3 DEF Accounted
    <2> QED BY <1>1, <1>7, <2>2, <2>4, <2>5, MovePreserves DEF IInv, Shape
  <1> QED BY <1>1, <1>6, <1>7

(* Of an item that is due and is none of a dependency. *)
LEMMA DueItem ==
    ASSUME IInv, NEW o \in Operators, op[o].at = "applying", NEW it \in Due(o), it.do # "resolve"
    PROVE  /\ it.name \in Names /\ it.do \in {"create", "update", "delete"}
           /\ it.do # "delete" =>
                  op[o].snap[it.name] \in Bodies /\ it.name \in Present(op[o].snap)
           /\ \A p \in {Without(o, it), Failed(o, it)} : p \in Operations /\ Accounted(p, Known)
  <1>1. op[o] \in Operations /\ Accounted(op[o], Known) /\ it \in op[o].todo
    BY OperatorTypes DEF IInv, AllAccounted, Due
  <1>2. it \in op[o].items /\ it \in Items /\ op[o].snap \in Snapshots
    BY <1>1 DEF Accounted, Operations
  <1>3. it.name \in Names /\ it.do \in {"create", "update", "delete"}
    BY <1>2 DEF Items
  <1>4. ASSUME it.do # "delete"
        PROVE  op[o].snap[it.name] \in Bodies /\ it.name \in Present(op[o].snap)
    <2>1. op[o].snap[it.name] # None
      BY <1>1, <1>2, <1>3, <1>4 DEF Accounted
    <2> QED BY <1>2, <1>3, <2>1 DEF Snapshots, Present
  <1>5. \A d \in Deps : Item("resolve", d, 0) # it
    BY DEF Item
  <1>6. NeedsOf(op[o].snap) \subseteq Deps
    BY <1>2, NeedsAreDeps
  <1>7. ASSUME NEW p \in {Without(o, it), Failed(o, it)}
        PROVE  p \in Operations /\ Accounted(p, Known)
    <2>1. /\ p \in Operations
          /\ p.at = op[o].at /\ p.snap = op[o].snap /\ p.items = op[o].items
          /\ p.missing = op[o].missing /\ p.todo = op[o].todo \ {it}
          /\ p.blocked = op[o].blocked
      BY <1>1, Progress
    <2> QED BY <1>1, <1>5, <1>6, <2>1 DEF Accounted
  <1> QED BY <1>3, <1>4, <1>7

(* A binding is created only when all that it needs has come: it was not    *)
(* blocked, and there is nothing left to resolve.                           *)
LEMMA CreatedHasItsDependencies ==
    ASSUME IInv, NEW o \in Operators, op[o].at = "applying", NEW it \in Due(o),
           it.do = "create", Binding(it.name), ~Blocked(o, it)
    PROVE  Needs[it.name] \subseteq Known
  <1>1. it.name \in Names /\ it.name \in Present(op[o].snap)
    BY DueItem
  <1>2. Needs[it.name] \subseteq NeedsOf(op[o].snap) /\ Needs[it.name] \subseteq Deps
    BY <1>1 DEF NeedsOf
  <1>3. Needs[it.name] \cap op[o].blocked = {}
    BY DEF Blocked
  <1>4. \A d \in Deps : Item("resolve", d, 0) \notin op[o].todo
    BY <1>1, ResolvesComeFirst
  <1>5. Accounted(op[o], Known)
    BY DEF IInv, AllAccounted
  <1> QED BY <1>2, <1>3, <1>4, <1>5 DEF Accounted

(* An item leaves rows of the names that were there, and at most one more:  *)
(* that of what it creates, or of something that is not a binding.          *)
NamesKept(it, D) ==
    \A r \in D : \/ \E q \in dest : q.name = r.name
                 \/ r.name = it.name /\ (it.do = "create" \/ ~Binding(it.name))

LEMMA TargetsAreRows == \A it : Targets(it) \subseteq dest
  BY DEF Targets, Named

LEMMA FreshIdsAreIds == FreshIds \subseteq Ids
  BY DEF FreshIds

LEMMA AddedRow ==
    ASSUME dest \subseteq Rows, NEW D, D \subseteq dest, NEW r \in Rows, NEW it,
           (\E q \in dest : q.name = r.name)
           \/ (r.name = it.name /\ (it.do = "create" \/ ~Binding(it.name)))
    PROVE  D \cup {r} \subseteq Rows /\ NamesKept(it, D \cup {r})
  <1>1. D \cup {r} \subseteq Rows
    OBVIOUS
  <1>2. ASSUME NEW x \in D \cup {r}
        PROVE  \/ \E q \in dest : q.name = x.name
               \/ x.name = it.name /\ (it.do = "create" \/ ~Binding(it.name))
    <2>1. CASE x = r
      BY <2>1
    <2>2. CASE x \in dest
      BY <2>2
    <2> QED BY <2>1, <2>2
  <1> QED BY <1>1, <1>2 DEF NamesKept

LEMMA LessKept == ASSUME NEW it, NEW D, D \subseteq dest PROVE NamesKept(it, D)
  <1>1. ASSUME NEW r \in D PROVE \E q \in dest : q.name = r.name
    OBVIOUS
  <1> QED BY <1>1 DEF NamesKept

(* What the definitions say of an item, branch by branch. *)
LEMMA NewRowsAre ==
    ASSUME NEW n \in Names, NEW C, NEW u \in NewRows(n, C)
    PROVE  /\ u.name = n /\ u.body \in C
           /\ C \subseteq Bodies \cup {Partial} => u \in Rows
  <1>1. u \in [id : FreshIds, name : {n}, body : C, live : BOOLEAN]
    BY DEF NewRows
  <1> QED BY <1>1, FreshIdsAreIds DEF Rows

LEMMA HookFailedRow ==
    ASSUME NEW n \in Names, NEW C, NEW u \in NewRows(n, C),
           NEW v, v = [u EXCEPT !.live = FALSE]
    PROVE  /\ v.name = n
           /\ C \subseteq Bodies \cup {Partial} => v \in Rows
  <1>1. u \in [id : FreshIds, name : {n}, body : C, live : BOOLEAN]
    BY DEF NewRows
  <1>2. v \in [id : FreshIds, name : {n}, body : C, live : BOOLEAN]
    BY <1>1
  <1> QED BY <1>2, FreshIdsAreIds DEF Rows

LEMMA ResultIs ==
    ASSUME NEW o, NEW it, it.do \in {"create", "update", "delete"}, NEW D \in Result(o, it),
           NEW n, n = it.name, NEW b, b = op[o].snap[n]
    PROVE  /\ it.do # "delete" /\ Kind[n] = "mcp_server" =>
                 \E u \in NewRows(n, Content(n, Named(n), b)) : D = (dest \ Named(n)) \cup {u}
           /\ it.do = "create" /\ Kind[n] # "mcp_server" =>
                 \E u \in NewRows(n, Made(n, b)) : D = dest \cup {u}
           /\ it.do = "update" /\ Kind[n] # "mcp_server" =>
                 \E r \in Targets(it) :
                    \E c \in Written(n, r.body, b) : D = (dest \ {r}) \cup {Updated(r, c)}
           /\ it.do = "delete" => \E r \in Targets(it) : D = dest \ {r}
  <1>1. CASE it.do # "delete" /\ Kind[n] = "mcp_server"
    BY <1>1 DEF Result, Plus
  <1>2. CASE it.do = "create" /\ Kind[n] # "mcp_server"
    BY <1>2 DEF Result, Plus
  <1>3. CASE it.do = "update" /\ Kind[n] # "mcp_server"
    BY <1>3 DEF Result, Plus
  <1>4. CASE it.do = "delete"
    BY <1>4 DEF Result
  <1> QED BY <1>1, <1>2, <1>3, <1>4

FailedAs(it, n, b, D) ==
    \/ it.do = "create" /\ \E u \in NewRows(n, {Partial}) : D = dest \cup {u}
    \/ /\ it.do = "create"
       /\ \E u \in NewRows(n, Made(n, b)) : D = dest \cup {[u EXCEPT !.live = FALSE]}
    \/ /\ it.do = "update"
       /\ \E r \in Targets(it) : \E c \in Written(n, r.body, b) \cup {Partial} :
             D = (dest \ {r}) \cup {[r EXCEPT !.body = c]}

LEMMA LeftoverIs ==
    ASSUME NEW o, NEW it, it.do \in {"create", "update", "delete"},
           NEW D \in Leftover(o, it), D # dest, NEW n, n = it.name, NEW b, b = op[o].snap[n]
    PROVE  FailedAs(it, n, b, D)
  <1>1. CASE it.do = "create" /\ Kind[n] = "table"
    BY <1>1 DEF Leftover, Plus, Binding, FailedAs
  <1>2. CASE it.do = "update" /\ Kind[n] = "table"
    BY <1>2 DEF Leftover, Plus, Binding, FailedAs
  <1>3. CASE it.do = "create" /\ Kind[n] # "table" /\ Binding(n) /\ b \in Enabled
    <2>1. D \in Plus(dest, {[r EXCEPT !.live = FALSE] : r \in NewRows(n, Made(n, b))})
      BY <1>3 DEF Leftover, Binding
    <2>2. \E u \in NewRows(n, Made(n, b)) : D = dest \cup {[u EXCEPT !.live = FALSE]}
      BY <2>1 DEF Plus
    <2> QED BY <1>3, <2>2 DEF FailedAs
  <1>4. CASE it.do = "update" /\ Kind[n] # "table" /\ Binding(n)
    BY <1>4 DEF Leftover, Plus, Binding, FailedAs
  <1>5. CASE \/ it.do = "delete"
             \/ it.do = "update" /\ Kind[n] # "table" /\ ~Binding(n)
             \/ it.do = "create" /\ Kind[n] # "table" /\ ~(Binding(n) /\ b \in Enabled)
    BY <1>5 DEF Leftover, Plus, Binding
  <1> QED BY <1>1, <1>2, <1>3, <1>4, <1>5

LEMMA ContentsAreBodies ==
    ASSUME NEW n \in Names, NEW b \in Bodies
    PROVE  /\ Made(n, b) \subseteq Bodies
           /\ \A r \in Rows : Written(n, r.body, b) \subseteq Bodies
           /\ \A R \in SUBSET Rows : Content(n, R, b) \subseteq Bodies
  <1>1. Made(n, b) \subseteq Bodies
    <2>1. Partial \in Bodies \cup {Partial}
      OBVIOUS
    <2> QED BY <2>1, ContentAssumption DEF ContentAssumption
  <1>2. \A r \in Rows : Written(n, r.body, b) \subseteq Bodies
    BY ContentAssumption DEF ContentAssumption, Rows
  <1>3. \A R \in SUBSET Rows : Content(n, R, b) \subseteq Bodies
    BY <1>1, <1>2 DEF Content
  <1> QED BY <1>1, <1>2, <1>3

LEMMA ResultRows ==
    ASSUME dest \subseteq Rows, NEW o, NEW it, it.name \in Names,
           it.do \in {"create", "update", "delete"},
           it.do # "delete" => op[o].snap[it.name] \in Bodies, NEW D \in Result(o, it)
    PROVE  D \subseteq Rows /\ NamesKept(it, D)
  <1>0. PICK n, b : n = it.name /\ b = op[o].snap[n]
    OBVIOUS
  <1>1. CASE it.do # "delete" /\ Kind[n] = "mcp_server"
    <2>1. PICK u \in NewRows(n, Content(n, Named(n), b)) : D = (dest \ Named(n)) \cup {u}
      BY <1>0, <1>1, ResultIs
    <2>2. Content(n, Named(n), b) \subseteq Bodies
      BY <1>0, <1>1, ContentsAreBodies DEF Named
    <2>3. u \in Rows /\ u.name = n
      BY <1>0, <2>1, <2>2, NewRowsAre
    <2>4. ~Binding(n) /\ dest \ Named(n) \subseteq dest
      BY <1>1 DEF Binding
    <2> QED BY <1>0, <2>1, <2>3, <2>4, AddedRow
  <1>2. CASE it.do = "create" /\ Kind[n] # "mcp_server"
    <2>1. PICK u \in NewRows(n, Made(n, b)) : D = dest \cup {u}
      BY <1>0, <1>2, ResultIs
    <2>2. Made(n, b) \subseteq Bodies
      BY <1>0, <1>2, ContentsAreBodies
    <2>3. u \in Rows /\ u.name = n
      BY <1>0, <2>1, <2>2, NewRowsAre
    <2> QED BY <1>0, <1>2, <2>1, <2>3, AddedRow
  <1>3. CASE it.do = "update" /\ Kind[n] # "mcp_server"
    <2>1. PICK r \in Targets(it) :
             \E c \in Written(n, r.body, b) : D = (dest \ {r}) \cup {Updated(r, c)}
      BY <1>0, <1>3, ResultIs
    <2>2. PICK c \in Written(n, r.body, b) : D = (dest \ {r}) \cup {Updated(r, c)}
      BY <2>1
    <2>3. r \in dest /\ c \in Bodies
      BY <1>0, <1>3, <2>1, <2>2, TargetsAreRows, ContentsAreBodies
    <2>4. Updated(r, c) \in Rows /\ Updated(r, c).name = r.name /\ dest \ {r} \subseteq dest
      BY <2>3, UpdatedIsRow
    <2> QED BY <2>2, <2>3, <2>4, AddedRow
  <1>4. CASE it.do = "delete"
    <2>1. PICK r \in Targets(it) : D = dest \ {r}
      BY <1>0, <1>4, ResultIs
    <2> QED BY <2>1, LessKept
  <1> QED BY <1>1, <1>2, <1>3, <1>4

LEMMA LeftoverRows ==
    ASSUME dest \subseteq Rows, NEW o, NEW it, it.name \in Names,
           it.do \in {"create", "update", "delete"},
           it.do # "delete" => op[o].snap[it.name] \in Bodies, NEW D \in Leftover(o, it)
    PROVE  D \subseteq Rows /\ NamesKept(it, D)
  <1>0. PICK n, b : n = it.name /\ b = op[o].snap[n]
    OBVIOUS
  <1>1. CASE D = dest
    BY <1>1, LessKept
  <1>2. ASSUME it.do = "create", NEW u \in NewRows(n, {Partial}), D = dest \cup {u}
        PROVE  D \subseteq Rows /\ NamesKept(it, D)
    <2>1. u \in Rows /\ u.name = n
      BY <1>0, NewRowsAre
    <2> QED BY <1>0, <1>2, <2>1, AddedRow
  <1>3. ASSUME it.do = "create", NEW u \in NewRows(n, Made(n, b)),
               D = dest \cup {[u EXCEPT !.live = FALSE]}
        PROVE  D \subseteq Rows /\ NamesKept(it, D)
    <2>1. Made(n, b) \subseteq Bodies
      BY <1>0, <1>3, ContentsAreBodies
    <2>2. PICK v : v = [u EXCEPT !.live = FALSE]
      OBVIOUS
    <2>3. v \in Rows /\ v.name = n
      <3>1. Made(n, b) \subseteq Bodies \cup {Partial} /\ n \in Names
        BY <1>0, <2>1
      <3> QED BY <2>2, <3>1, HookFailedRow
    <2> QED BY <1>0, <1>3, <2>2, <2>3, AddedRow
  <1>4. ASSUME it.do = "update", NEW r \in Targets(it),
               NEW c \in Written(n, r.body, b) \cup {Partial},
               D = (dest \ {r}) \cup {[r EXCEPT !.body = c]}
        PROVE  D \subseteq Rows /\ NamesKept(it, D)
    <2>1. r \in dest /\ c \in Bodies \cup {Partial}
      BY <1>0, <1>4, TargetsAreRows, ContentsAreBodies
    <2>2. PICK v : v = [r EXCEPT !.body = c]
      OBVIOUS
    <2>3. v \in Rows /\ v.name = r.name /\ dest \ {r} \subseteq dest
      BY <2>1, <2>2 DEF Rows
    <2> QED BY <1>4, <2>1, <2>2, <2>3, AddedRow
  <1> QED
    <2> SUFFICES ASSUME D # dest PROVE D \subseteq Rows /\ NamesKept(it, D)
      BY <1>1
    <2>1. CASE it.do = "create" /\ \E u \in NewRows(n, {Partial}) : D = dest \cup {u}
      BY <1>2, <2>1
    <2>2. CASE /\ it.do = "create"
               /\ \E u \in NewRows(n, Made(n, b)) : D = dest \cup {[u EXCEPT !.live = FALSE]}
      BY <1>3, <2>2
    <2>3. CASE /\ it.do = "update"
               /\ \E r \in Targets(it) : \E c \in Written(n, r.body, b) \cup {Partial} :
                     D = (dest \ {r}) \cup {[r EXCEPT !.body = c]}
      BY <1>4, <2>3
    <2>4. FailedAs(it, n, b, D)
      BY <1>0, LeftoverIs
    <2> QED BY <2>1, <2>2, <2>3, <2>4 DEF FailedAs

(* So an item that is applied, whether it succeeds or not, is safe. *)
LEMMA ItemStep ==
    ASSUME IInv, NEW o \in Operators, Apply(o) \/ ApplyFails(o) PROVE IInv'
  <1>1. PICK it \in Due(o) :
          /\ op[o].at = "applying" /\ it.do # "resolve" /\ ~Blocked(o, it)
          /\ dest' \in Result(o, it) \cup Leftover(o, it)
          /\ Writes(o, Without(o, it)) \/ Writes(o, Failed(o, it))
          /\ UNCHANGED <<source, deps, withdrawn>>
    <2>1. CASE Apply(o)
      BY <2>1 DEF Apply
    <2>2. CASE ApplyFails(o)
      BY <2>2 DEF ApplyFails
    <2> QED BY <2>1, <2>2
  <1>p. PICK p \in {Without(o, it), Failed(o, it)} : Writes(o, p)
    BY <1>1
  <1>2. /\ it.name \in Names /\ it.do \in {"create", "update", "delete"}
        /\ it.do # "delete" => op[o].snap[it.name] \in Bodies
        /\ p \in Operations /\ Accounted(p, Known)
    BY <1>1, <1>p, DueItem
  <1>3. dest \subseteq Rows /\ deps \subseteq Deps
    BY DEF IInv, Shape
  <1>4. dest' \subseteq Rows /\ NamesKept(it, dest')
    BY <1>1, <1>2, <1>3, ResultRows, LeftoverRows
  <1>5. ASSUME NEW r \in dest', ~\E q \in dest : q.name = r.name, Binding(r.name)
        PROVE  Needs[r.name] \subseteq Known
    <2>1. r.name = it.name /\ it.do = "create"
      BY <1>4, <1>5 DEF NamesKept
    <2> QED BY <1>1, <1>5, <2>1, CreatedHasItsDependencies
  <1>6. Known' = Known
    BY <1>1 DEF Known
  <1> QED BY <1>1, <1>p, <1>2, <1>3, <1>4, <1>5, <1>6, MovePreserves

LEMMA PassStep == ASSUME IInv, NEW o \in Operators, Pass(o) PROVE IInv'
  <1>1. PICK it \in Due(o) :
          /\ op[o].at = "applying" /\ it.do # "resolve"
          /\ \/ Blocked(o, it) /\ Moves(o, Failed(o, it))
             \/ /\ ~Blocked(o, it) /\ Skips(o, it)
                /\ Moves(o, IF SkipFails(it) THEN Failed(o, it) ELSE Without(o, it))
          /\ UNCHANGED <<source, dest, deps, withdrawn>>
    BY DEF Pass
  <1>p. PICK p \in {Without(o, it), Failed(o, it)} : Moves(o, p)
    <2>1. CASE SkipFails(it)
      BY <1>1, <2>1
    <2>2. CASE ~SkipFails(it)
      BY <1>1, <2>2
    <2> QED BY <2>1, <2>2
  <1>2. p \in Operations /\ Accounted(p, Known)
    BY <1>1, <1>p, DueItem
  <1>3. Known' = Known
    BY <1>1 DEF Known
  <1> QED BY <1>1, <1>p, <1>2, <1>3, MovePreserves DEF IInv, Shape

(* The steps of others: a release of the source, an edit of the destination.*)
LEMMA ReleaseStep == ASSUME IInv, Release PROVE IInv'
  <1>1. source' \in Snapshots
    BY DEF Release, Snapshots
  <1>2. UNCHANGED <<dest, deps, op, withdrawn>>
    BY DEF Release
  <1>3. Shape'
    BY <1>1, <1>2 DEF IInv, Shape
  <1>4. AllAccounted'
    BY <1>2 DEF IInv, AllAccounted, Known
  <1>5. BindingsHaveTheirDependencies'
    BY <1>2 DEF IInv, BindingsHaveTheirDependencies, Binding
  <1> QED BY <1>3, <1>4, <1>5 DEF IInv

LEMMA EditStep == ASSUME IInv, Edit PROVE IInv'
  <1>1. \A x \in Operators : op[x] \in Operations /\ Accounted(op[x], Known)
    BY OperatorTypes DEF IInv, AllAccounted
  <1>2. dest \subseteq Rows /\ deps \subseteq Deps /\ withdrawn \subseteq Deps
    BY DEF IInv, Shape
  <1>3. /\ Known \subseteq Known' /\ deps' \subseteq Deps /\ withdrawn' \subseteq Deps
        /\ dest' \subseteq Rows
        /\ \A r \in dest' : \/ \E q \in dest : q.name = r.name
                            \/ Needs[r.name] \subseteq Known
    <2>1. CASE \E n \in Names, b \in Bodies : ApiCreate(n, b)
      <3>1. PICK n \in Names, b \in Bodies : ApiCreate(n, b)
        BY <2>1
      <3>2. PICK u \in NewRows(n, {b}) : dest' = dest \cup {u}
        BY <3>1 DEF ApiCreate, Plus
      <3>3. u \in Rows /\ u.name = n
        BY <3>2, NewRowsAre
      <3>4. UNCHANGED <<deps, withdrawn>> /\ Needs[n] \subseteq deps
        BY <3>1 DEF ApiCreate
      <3> QED BY <1>2, <3>2, <3>3, <3>4 DEF Known
    <2>2. CASE \E r \in dest : ApiDelete(r)
      BY <1>2, <2>2 DEF ApiDelete, Known
    <2>3. CASE \E r \in dest, b \in Bodies : ApiUpdate(r, b)
      <3>1. PICK r \in dest, b \in Bodies : ApiUpdate(r, b)
        BY <2>3
      <3>2. Updated(r, b) \in Rows /\ Updated(r, b).name = r.name
        BY <1>2, UpdatedIsRow
      <3>3. UNCHANGED <<deps, withdrawn>> /\ dest' = (dest \ {r}) \cup {Updated(r, b)}
        BY <3>1 DEF ApiUpdate
      <3> QED BY <1>2, <3>2, <3>3 DEF Known
    <2>4. CASE \E d \in Deps : ApiWithdraw(d)
      BY <1>2, <2>4 DEF ApiWithdraw, Known
    <2> QED BY <2>1, <2>2, <2>3, <2>4 DEF Edit
  <1>4. UNCHANGED source /\ op' = [x \in Operators |-> Unseen(x)]
    BY DEF Edit
  <1>5. \A x \in Operators : op'[x] \in Operations /\ Accounted(op'[x], Known')
    <2> SUFFICES ASSUME NEW x \in Operators
                 PROVE  op'[x] \in Operations /\ Accounted(op'[x], Known')
      OBVIOUS
    <2>1. op'[x] = op[x] \/ op'[x] = [op[x] EXCEPT !.clean = FALSE]
      BY <1>4 DEF Unseen
    <2>2. [op[x] EXCEPT !.clean = FALSE] \in Operations
      BY <1>1, ZenonT(40) DEF Operations
    <2>3. Accounted(op[x], Known') /\ Accounted([op[x] EXCEPT !.clean = FALSE], Known')
      BY <1>1, <1>3, AccountedKept
    <2> QED BY <1>1, <2>1, <2>2, <2>3
  <1>6. Shape'
    BY <1>3, <1>4, <1>5 DEF IInv, Shape
  <1>7. AllAccounted'
    BY <1>5 DEF AllAccounted
  <1>8. \A r \in dest' : Binding(r.name) => Needs[r.name] \subseteq Known
    BY <1>3 DEF IInv, BindingsHaveTheirDependencies, Known
  <1>9. BindingsHaveTheirDependencies'
    BY <1>3, <1>8 DEF BindingsHaveTheirDependencies, Known, Binding
  <1> QED BY <1>6, <1>7, <1>9 DEF IInv

-----------------------------------------------------------------------------
LEMMA InitIInv == Init => IInv
  <1> SUFFICES ASSUME Init PROVE IInv
    OBVIOUS
  <1>1. PICK S \in Before :
          dest = Filled(S) /\ deps \in {D \in SUBSET Deps : NeedsOf(S) \subseteq D}
    BY DEF Init
  <1>2. S \in [Names -> Bodies \cup {None}]
    OBVIOUS
  <1> DEFINE f == CHOOSE g \in Numberings : TRUE
  <1>3. f \in [Names -> Ids]
    <2>1. f \in Numberings
      OBVIOUS
    <2> QED BY <2>1 DEF Numberings
  <1>4. dest = {Row(f[n], n, S[n], Live(n, S[n])) : n \in Present(S)}
    BY <1>1 DEF Filled
  <1> HIDE DEF f
  <1>5. \A n \in Present(S) : /\ Row(f[n], n, S[n], Live(n, S[n])) \in Rows
                              /\ Row(f[n], n, S[n], Live(n, S[n])).name = n
    <2>1. \A n \in Present(S) : n \in Names /\ f[n] \in Ids /\ S[n] \in Bodies
      BY <1>2, <1>3 DEF Present
    <2> QED BY <2>1, LiveIsBoolean, RowsAreRows
  <1>6. dest \subseteq Rows /\ \A r \in dest : r.name \in Present(S)
    BY <1>4, <1>5
  <1>7. op = [o \in Operators |-> Idle] /\ withdrawn = {} /\ source \in Versions
    BY DEF Init
  <1>8. Shape
    BY <1>1, <1>6, <1>7, IdleAccounted DEF Shape, Snapshots
  <1>9. AllAccounted
    BY <1>7, IdleAccounted DEF AllAccounted
  <1>10. BindingsHaveTheirDependencies
    BY <1>1, <1>6, <1>7 DEF BindingsHaveTheirDependencies, NeedsOf
  <1> QED BY <1>8, <1>9, <1>10 DEF IInv

LEMMA NextIInv == IInv /\ [Next]_vars => IInv'
  <1> SUFFICES ASSUME IInv, [Next]_vars PROVE IInv'
    OBVIOUS
  <1>1. ASSUME NEW o \in Operators, Start(o) PROVE IInv'
    BY <1>1, StartStep
  <1>2. ASSUME NEW o \in Operators, Plan(o) PROVE IInv'
    BY <1>2, PlanStep
  <1>3. ASSUME NEW o \in Operators, Discard(o) \/ Refuse(o) PROVE IInv'
    BY <1>3, IdleStep DEF Discard, Refuse
  <1>4. ASSUME NEW o \in Operators, NEW force \in BOOLEAN, Begin(o, force) PROVE IInv'
    BY <1>4, BeginStep
  <1>5. ASSUME NEW o \in Operators, ApplyStep(o) PROVE IInv'
    <2>1. CASE Finish(o)
      BY <2>1, StoppedStep DEF Finish
    <2> QED BY <1>5, <2>1, ResolveStep, PassStep, ItemStep DEF ApplyStep
  <1>6. ASSUME NEW o \in Operators, ApplyFails(o) PROVE IInv'
    BY <1>6, ItemStep
  <1>7. ASSUME NEW o \in Operators, Crash(o) PROVE IInv'
    <2>1. CASE op[o].at = "planning"
      BY <1>7, <2>1, IdleStep DEF Crash
    <2>2. CASE op[o].at = "applying"
      BY <1>7, <2>2, StoppedStep DEF Crash
    <2> QED BY <1>7, <2>1, <2>2 DEF Crash
  <1>8. CASE UNCHANGED <<source, dest, deps, op, withdrawn>>
    BY <1>8 DEF IInv, Shape, AllAccounted, Known, BindingsHaveTheirDependencies, Binding
  <1>9. ASSUME NEW o \in Operators, LoseLock(o) PROVE IInv'
    BY <1>8, <1>9 DEF LoseLock
  <1>10. CASE Expire
    BY <1>8, <1>10 DEF Expire
  <1>11. CASE UNCHANGED vars
    BY <1>8, <1>11 DEF vars
  <1> QED BY <1>1, <1>2, <1>3, <1>4, <1>5, <1>6, <1>7, <1>9, <1>10, <1>11,
             ReleaseStep, EditStep DEF Next

(* A binding is there only when every piece and connection that it needs    *)
(* has come before it, whatever fails, crashes, is forced or raced: an      *)
(* apply creates a binding after all dependencies are seen to, and blocks   *)
(* it for those that did not come; the other endpoints look for them.       *)
THEOREM DependenciesComeFirst == Spec => []BindingsHaveTheirDependencies
  <1>1. IInv => BindingsHaveTheirDependencies
    BY DEF IInv
  <1> QED BY <1>1, InitIInv, NextIInv, PTL DEF Spec

-----------------------------------------------------------------------------
(* Type correctness: the shape, and what the proof above has no use for. *)
Rest ==
    /\ source \in Versions
    /\ holder \in Operators \cup {None, Gone}
    /\ troubles \in 0 .. MaxTroubles
    /\ meddled \in BOOLEAN

LEMMA RestStep == Rest /\ [Next]_vars => Rest'
  <1> SUFFICES ASSUME Rest, [Next]_vars PROVE Rest'
    OBVIOUS
  <1> USE DEF Rest, Trouble
  <1>1. ASSUME NEW o \in Operators, Start(o) \/ Plan(o) \/ Discard(o) \/ Refuse(o) PROVE Rest'
    BY <1>1 DEF Start, Plan, Discard, Refuse
  <1>2. ASSUME NEW o \in Operators, NEW force \in BOOLEAN, Begin(o, force) PROVE Rest'
    <2>1. meddled' \in BOOLEAN
      BY <1>2, Zenon DEF Begin
    <2> QED BY <1>2, <2>1 DEF Begin
  <1>3. ASSUME NEW o \in Operators, ApplyStep(o) \/ ApplyFails(o) PROVE Rest'
    <2>1. troubles' = troubles \/ Trouble
      BY <1>3 DEF ApplyStep, Resolve, Pass, Apply, Finish, ApplyFails
    <2>2. UNCHANGED <<source, meddled>> /\ (holder' = holder \/ holder' = None)
      BY <1>3 DEF ApplyStep, Resolve, Pass, Apply, Finish, ApplyFails
    <2> QED BY <2>1, <2>2
  <1>4. ASSUME NEW o \in Operators, Crash(o) \/ LoseLock(o) PROVE Rest'
    <2>1. Trouble /\ UNCHANGED source
      BY <1>4, Zenon DEF Crash, LoseLock
    <2>3. meddled' \in BOOLEAN
      <3>1. meddled' = meddled \/ meddled' = TRUE
        BY <1>4, Zenon DEF Crash, LoseLock
      <3> QED BY <3>1, Zenon
    <2>2. holder' \in {holder, Gone, None}
      BY <1>4, Zenon DEF Crash, LoseLock
    <2> QED BY <2>1, <2>2, <2>3
  <1>5. CASE Expire \/ Release \/ Edit
    <2>1. troubles' = troubles \/ Trouble
      BY <1>5, Zenon DEF Expire, Release, Edit
    <2>2. source' \in Versions /\ (holder' = holder \/ holder' = None)
      BY <1>5 DEF Expire, Release, Edit
    <2>3. meddled' \in BOOLEAN
      <3>1. meddled' = meddled \/ meddled' = TRUE
        BY <1>5, Zenon DEF Expire, Release, Edit
      <3> QED BY <3>1, Zenon
    <2> QED BY <2>1, <2>2, <2>3
  <1>6. CASE UNCHANGED vars
    BY <1>6 DEF vars
  <1> QED BY <1>1, <1>2, <1>3, <1>4, <1>5, <1>6 DEF Next

(* Every variable keeps its type. *)
THEOREM TypeCorrect == Spec => []TypeOK
  <1>1. Init => Rest
    <2> SUFFICES ASSUME Init PROVE Rest
      OBVIOUS
    <2>1. source \in Versions /\ holder = None /\ troubles = 0
      BY DEF Init
    <2>2. meddled \in BOOLEAN
      BY Zenon DEF Init
    <2> QED BY <2>1, <2>2 DEF Rest
  <1>2. IInv /\ Rest => TypeOK
    BY StageOrder DEF IInv, Shape, Operations, Rest, TypeOK
  <1> QED BY <1>1, <1>2, InitIInv, NextIInv, RestStep, PTL DEF Spec

-----------------------------------------------------------------------------
(* The plan.  For each name it leads from the rows the hash was taken of to *)
(* the snapshot: there is nothing to do, or one item that fits the one row, *)
(* or the rows are several.  A kind that has not been read has no items.    *)
ItemsOf(T, n) == {it \in T : it.do # "resolve" /\ it.name = n}

Leads(n, b, R, J) ==
    \/ J = {} /\ R = {} /\ b = None
    \/ J = {} /\ b # None /\ \E r \in R : R = {r} /\ r.body \in Alike(n, b)
    \/ \E it \in J : J = {it} /\ it.do = "create" /\ R = {} /\ b # None
    \/ \E it \in J, r \in R : /\ J = {it} /\ R = {r} /\ it.do \in {"update", "delete"}
                              /\ it.do = "update" <=> b # None
                              /\ it.do = "update" => r.body \notin Alike(n, b)
                              /\ Kind[n] \in ById => it.id = r.id

Several(R, J) == (\E r, s \in R : r # s) /\ \A it \in J : it.do # "create"

Unread(p, n) == p.at = "planning" /\ Place(Kind[n]) + 1 >= p.stage

PlanOK(p, D) ==
    /\ p.at = "planning" => p.stage \in 1 .. 6 /\ (p.clean => p.stage > 1 /\ p.base = D)
    /\ \A n \in Names :
          /\ Unread(p, n) => ItemsOf(p.items, n) = {}
          /\ \A it \in ItemsOf(p.items, n) : it.do = "create" => ItemsOf(p.items, n) = {it}
          /\ (p.clean /\ ~Unread(p, n)) =>
                 LET R == RowsOf(p.base, n)
                     J == ItemsOf(p.items, n)
                 IN  Leads(n, p.snap[n], R, J) \/ Several(R, J)

(* What is left of an apply that nothing has disturbed still leads from the *)
(* rows B of the hash, and the rest has the outcome that the plan meant.    *)
Carries(n, b, B, R, J) ==
    \/ J # {} /\ R = B /\ Leads(n, b, B, J)
    \/ J = {} /\ b = None /\ R = {}
    \/ J = {} /\ b # None /\ \E r \in R : R = {r} /\ r.body \in Outcome(n, B, b)

ApplyOK(p, D) ==
    (p.at = "applying" /\ p.clean /\ ~p.failed /\ ~Twice(p.base)) =>
        \A n \in Names :
            Carries(n, p.snap[n], RowsOf(p.base, n), RowsOf(D, n), ItemsOf(p.todo, n))

PlansOK == \A o \in Operators : PlanOK(op[o], dest) /\ ApplyOK(op[o], dest)

LEMMA ItemsOfPlain ==
    /\ \A A, B, n : ItemsOf(A \cup B, n) = ItemsOf(A, n) \cup ItemsOf(B, n)
    /\ \A A, n, it : ItemsOf(A \ {it}, n) = ItemsOf(A, n) \ {it}
    /\ \A A, n, it : (it.do = "resolve" \/ it.name # n) => it \notin ItemsOf(A, n)
  BY DEF ItemsOf

(* What the differences of a kind say of one name. *)
LEMMA DifferencesLead ==
    ASSUME dest \subseteq Rows, NEW S \in Snapshots, NEW n \in Names, NEW k,
           NEW J, J = ItemsOf(Differences(S, k), n), NEW R, R = RowsOf(dest, n)
    PROVE  /\ Kind[n] # k => J = {}
           /\ Kind[n] = k => Leads(n, S[n], R, J) \/ Several(R, J)
           /\ \A it \in J : it.do = "create" => J = {it}
  <1> DEFINE missing == {m \in Present(S) \cap OfKind(k) : Named(m) = {}}
             matched == {Match(m) : m \in (Present(S) \cap OfKind(k)) \ missing}
             extra == {r \in dest : Kind[r.name] = k /\ S[r.name] = None}
             C == {Item("create", m, 0) : m \in missing}
             U == {Item("update", r.name, Ref(r)) : r \in
                      {m \in matched : m.body \notin Alike(m.name, S[m.name])}}
             X == {Item("delete", r.name, Ref(r)) : r \in extra}
  <1>1. Differences(S, k) = C \cup U \cup X
    BY DEF Differences
  <1>2. R = Named(n) /\ \A r \in R : r \in dest /\ r.name = n
    BY DEF RowsOf, Named
  <1>3. \A it : it \in C => it = Item("create", it.name, 0) /\ it.name \in missing
    BY DEF Item
  <1>4. \A m \in matched : m \in dest /\ m.name \in Present(S) \cap OfKind(k) /\ m = Match(m.name)
                           /\ Named(m.name) # {}
    <2>1. \A m \in (Present(S) \cap OfKind(k)) \ missing : m \in Names /\ Named(m) # {}
      BY DEF Present
    <2> QED BY <2>1, MatchIsRow
  <1>5. \A it : it \in U => /\ it.do = "update" /\ it = Item("update", it.name, Ref(Match(it.name)))
                            /\ it.name \in Present(S) \cap OfKind(k) /\ Named(it.name) # {}
                            /\ Match(it.name).body \notin Alike(it.name, S[it.name])
    <2> HIDE DEF matched
    <2> QED BY <1>4 DEF Item
  <1>6. \A it : it \in X => /\ it.do = "delete"
                            /\ \E r \in dest : /\ r.name = it.name /\ it = Item("delete", r.name, Ref(r))
                                               /\ Kind[it.name] = k /\ S[it.name] = None
    BY DEF Item
  <1>7. Kind[n] = k /\ S[n] # None /\ Named(n) = {} => Item("create", n, 0) \in C
    BY DEF Present, OfKind
  <1>8. Kind[n] = k /\ S[n] # None /\ Named(n) # {} /\ Match(n).body \notin Alike(n, S[n])
           => Item("update", n, Ref(Match(n))) \in U
    <2> SUFFICES ASSUME Kind[n] = k, S[n] # None, Named(n) # {}, Match(n).body \notin Alike(n, S[n])
                 PROVE  Item("update", n, Ref(Match(n))) \in U
      OBVIOUS
    <2>1. n \in (Present(S) \cap OfKind(k)) \ missing
      BY DEF Present, OfKind
    <2>2. Match(n) \in matched /\ Match(n).name = n
      BY <2>1, MatchIsRow
    <2> HIDE DEF matched
    <2> QED BY <2>2
  <1>9. Kind[n] = k /\ S[n] = None => \A r \in R : Item("delete", n, Ref(r)) \in X
    BY <1>2
  <1>10. \A do, m, i : Item(do, m, i).do = do /\ Item(do, m, i).name = m /\ Item(do, m, i).id = i
    BY DEF Item
  <1>11. \A it : it \in J <=> it \in C \cup U \cup X /\ it.do # "resolve" /\ it.name = n
    BY <1>1 DEF ItemsOf
  <1>12. \A it \in missing : it \in Present(S) /\ it \in OfKind(k) /\ Named(it) = {}
    OBVIOUS
  <1> HIDE DEF C, U, X, missing, matched, extra
  <1>13. Kind[n] # k => J = {}
    BY <1>3, <1>5, <1>6, <1>11, <1>12 DEF OfKind
  <1>14. CASE Kind[n] = k /\ S[n] # None /\ Named(n) = {}
    <2>1. J = {Item("create", n, 0)}
      BY <1>3, <1>5, <1>6, <1>7, <1>10, <1>11, <1>14
    <2> QED BY <1>2, <1>10, <1>14, <2>1 DEF Leads
  <1>15. CASE Kind[n] = k /\ S[n] # None /\ Named(n) # {}
    <2>1. Match(n) \in R /\ R # {}
      BY <1>2, <1>15, MatchIsRow DEF Named
    <2>2. J = IF Match(n).body \notin Alike(n, S[n])
             THEN {Item("update", n, Ref(Match(n)))} ELSE {}
      BY <1>3, <1>5, <1>6, <1>8, <1>10, <1>11, <1>12, <1>15
    <2>3. CASE R = {Match(n)}
      <3>1. CASE Match(n).body \notin Alike(n, S[n])
        <4>1. Kind[n] \in ById => Ref(Match(n)) = Match(n).id
          BY <1>2, <2>1 DEF Ref
        <4> QED BY <1>10, <1>13, <1>15, <2>1, <2>2, <2>3, <3>1, <4>1 DEF Leads
      <3>2. CASE Match(n).body \in Alike(n, S[n])
        BY <1>13, <1>15, <2>1, <2>2, <2>3, <3>2 DEF Leads
      <3> QED BY <3>1, <3>2
    <2>4. CASE R # {Match(n)}
      <3>1. \E r \in R : r # Match(n)
        BY <2>1, <2>4
      <3> QED BY <1>10, <1>13, <1>15, <2>1, <2>2, <3>1 DEF Several
    <2> QED BY <2>3, <2>4
  <1>16. CASE Kind[n] = k /\ S[n] = None
    <2>1. \A it \in J : it.do = "delete" /\ \E r \in R : it = Item("delete", n, Ref(r))
      BY <1>2, <1>3, <1>5, <1>6, <1>11, <1>12, <1>16 DEF Present, Named
    <2>2. \A r \in R : Item("delete", n, Ref(r)) \in J
      BY <1>9, <1>10, <1>11, <1>16
    <2>3. CASE R = {}
      BY <1>16, <2>1, <2>3 DEF Leads
    <2>4. ASSUME NEW r \in R, R = {r} PROVE Leads(n, S[n], R, J)
      <3>1. J = {Item("delete", n, Ref(r))}
        BY <2>1, <2>2, <2>4
      <3>2. Kind[n] \in ById => Ref(r) = r.id
        BY <1>2 DEF Ref
      <3> QED BY <1>10, <1>16, <2>4, <3>1, <3>2 DEF Leads
    <2>5. ASSUME NEW r \in R, R # {r} PROVE Several(R, J)
      BY <2>1, <2>5 DEF Several
    <2> QED BY <1>16, <2>1, <2>3, <2>4, <2>5
  <1>17. CASE Kind[n] # k
    BY <1>13, <1>17
  <1> QED BY <1>13, <1>14, <1>15, <1>16, <1>17

(* A plan, once it is right, stays so: while a plan is made or applied, who  *)
(* else writes takes its mark.                                              *)
LEMMA PlanKept ==
    ASSUME NEW p \in Operations, NEW D, NEW E, PlanOK(p, D), ApplyOK(p, D),
           D = E \/ p.at \notin {"planning", "applying"}
    PROVE  PlanOK(p, E) /\ ApplyOK(p, E)
  <1>1. CASE D = E
    BY <1>1
  <1>2. CASE p.at \notin {"planning", "applying"}
    BY <1>2 DEF PlanOK, ApplyOK, Unread
  <1> QED BY <1>1, <1>2

LEMMA DisturbedKept ==
    ASSUME NEW p \in Operations, NEW D, NEW E, PlanOK(p, D)
    PROVE  LET q == [p EXCEPT !.clean = FALSE] IN PlanOK(q, E) /\ ApplyOK(q, E)
  <1> DEFINE q == [p EXCEPT !.clean = FALSE]
  <1>1. q.at = p.at /\ q.stage = p.stage /\ q.items = p.items /\ q.clean = FALSE
    BY DEF Operations
  <1> HIDE DEF q
  <1>2. PlanOK(q, E) /\ ApplyOK(q, E)
    BY <1>1 DEF PlanOK, ApplyOK, Unread
  <1> QED BY <1>2 DEF q

LEMMA MovePlans ==
    ASSUME Shape, PlansOK, NEW o \in Operators, NEW p \in Operations,
           (Moves(o, p) /\ dest' = dest) \/ Writes(o, p),
           PlanOK(p, dest'), ApplyOK(p, dest')
    PROVE  PlansOK'
  <1>1. \A x \in Operators : op[x] \in Operations /\ PlanOK(op[x], dest) /\ ApplyOK(op[x], dest)
    BY OperatorTypes DEF PlansOK
  <1>2. op'[o] = p
    BY OthersKept
  <1>3. ASSUME NEW x \in Operators \ {o} PROVE PlanOK(op'[x], dest') /\ ApplyOK(op'[x], dest')
    <2>1. CASE Moves(o, p) /\ dest' = dest
      BY <1>1, <2>1 DEF Moves, Shape
    <2>2. CASE Writes(o, p) /\ op[x].at \in {"planning", "applying"}
      <3>1. op'[x] = [op[x] EXCEPT !.clean = FALSE]
        BY <2>2 DEF Writes, Unseen
      <3> QED BY <1>1, <3>1, DisturbedKept
    <2>3. CASE Writes(o, p) /\ op[x].at \notin {"planning", "applying"}
      <3>1. op'[x] = op[x]
        BY <2>3 DEF Writes, Unseen
      <3> QED BY <1>1, <2>3, <3>1, PlanKept
    <2> QED BY <2>1, <2>2, <2>3
  <1> QED BY <1>2, <1>3 DEF PlansOK

LEMMA IdlePlan == \A D : PlanOK(Idle, D) /\ ApplyOK(Idle, D)
  BY DEF Idle, PlanOK, ApplyOK, ItemsOf

(* A plan that is neither made nor changed. *)
LEMMA PlanCarried ==
    ASSUME NEW p \in Operations, NEW q \in Operations, NEW D, NEW E, PlanOK(p, D),
           p.at # "planning", q.at # "planning", q.items = p.items, q.base = p.base,
           q.snap = p.snap, q.clean => p.clean
    PROVE  PlanOK(q, E)
  BY DEF PlanOK, Unread

LEMMA StartPlans == ASSUME IInv, PlansOK, NEW o \in Operators, Start(o) PROVE PlansOK'
  <1> DEFINE p == [Idle EXCEPT !.at = "planning", !.stage = StageAfter(0), !.snap = source,
                               !.items = Resolves(source),
                               !.missing = NeedsOf(source) \ (deps \cup Supplied)]
  <1>1. StageAfter(0) = 1
    BY StageAfterIs
  <1>2. \A n : ItemsOf(Resolves(source), n) = {}
    BY DEF Resolves, Item, ItemsOf
  <1>3. p.at = "planning" /\ p.stage = 1 /\ p.items = Resolves(source) /\ p.clean = FALSE
    BY <1>1 DEF Idle
  <1>4. p \in Operations
    <2>1. source \in Snapshots /\ NeedsOf(source) \subseteq Deps
      BY NeedsAreDeps DEF IInv, Shape
    <2>2. Resolves(source) \subseteq Items
      BY <2>1, ItemTypes DEF Resolves
    <2>3. Idle \in Operations /\ 1 \in 0 .. 6
      BY IdleAccounted
    <2> QED BY <1>1, <2>1, <2>2, <2>3 DEF Operations, Stages
  <1>5. Moves(o, p) /\ dest' = dest
    BY DEF Start
  <1> HIDE DEF p
  <1>6. PlanOK(p, dest') /\ ApplyOK(p, dest')
    BY <1>2, <1>3 DEF PlanOK, ApplyOK
  <1> QED BY <1>4, <1>5, <1>6, MovePlans DEF IInv

(* Which names have been read when a stage is over. *)
LEMMA StageRead ==
    ASSUME NEW i \in 1 .. 6, NEW n \in Names,
           StageAfter(i) # 0 => Place(Kind[n]) + 1 < StageAfter(i)
    PROVE  i # 1 /\ Place(Kind[n]) + 1 <= i
  <1>1. Place(Kind[n]) \in 1 .. 5 /\ PlanStages[Place(Kind[n]) + 1] = Kind[n]
    BY StageOrder
  <1>2. OfKind(Kind[n]) # {}
    BY DEF OfKind
  <1>3. ~ (Place(Kind[n]) + 1 > i)
    BY <1>1, <1>2, StageAfterIs
  <1> QED BY <1>1, <1>3

LEMMA PlanPlans == ASSUME IInv, PlansOK, NEW o \in Operators, Plan(o) PROVE PlansOK'
  <1> DEFINE i == op[o].stage
             k == PlanStages[i]
             next == StageAfter(i)
             new == [op[o] EXCEPT !.at = IF next = 0 THEN "planned" ELSE "planning",
                                  !.stage = next]
             F == Differences(op[o].snap, k)
             p == IF k = "hash"
                  THEN [new EXCEPT !.base = dest, !.conns = deps \cap Conns, !.clean = TRUE]
                  ELSE [new EXCEPT !.items = @ \cup F]
  <1>1. /\ op[o] \in Operations /\ PlanOK(op[o], dest) /\ dest \subseteq Rows
        /\ op[o].snap \in Snapshots /\ op[o].at = "planning" /\ deps \subseteq Deps
    BY OperatorTypes DEF IInv, Shape, PlansOK, Operations, Plan
  <1>2. Moves(o, p) /\ dest' = dest
    BY DEF Plan
  <1>3. i \in 1 .. 6 /\ (op[o].clean => i > 1 /\ op[o].base = dest)
    BY <1>1 DEF PlanOK
  <1>4. next \in 0 .. 6 /\ (next # 0 => next > i)
    <2>1. i \in 0 .. 6
      BY <1>3
    <2> QED BY <2>1, StageAfterIs
  <1>5. k = "hash" <=> i = 1
    BY <1>3, StageOrder
  <1>6. F \subseteq Items
    BY <1>1, DifferencesAreItems
  <1>7. /\ new \in Operations /\ new.at = (IF next = 0 THEN "planned" ELSE "planning")
        /\ new.stage = next /\ new.items = op[o].items /\ new.snap = op[o].snap
        /\ new.base = op[o].base /\ new.clean = op[o].clean
    <2> HIDE DEF next
    <2> QED BY <1>1, <1>4 DEF Operations, Stages
  <1> HIDE DEF next, new, F, k
  <1>8. /\ p \in Operations /\ p.at = new.at /\ p.stage = next /\ p.snap = op[o].snap
        /\ k = "hash" => p.base = dest /\ p.items = op[o].items
        /\ k # "hash" => /\ p.base = op[o].base /\ p.items = op[o].items \cup F
                         /\ p.clean = op[o].clean
    <2>1. CASE k = "hash"
      BY <1>1, <1>7, <2>1 DEF Operations
    <2>2. CASE k # "hash"
      BY <1>6, <1>7, <2>2 DEF Operations
    <2> QED BY <2>1, <2>2
  <1> HIDE DEF p
  <1>9. ApplyOK(p, dest')
    BY <1>7, <1>8 DEF ApplyOK
  <1>10. p.at = "planning" => p.stage \in 1 .. 6 /\ (p.clean => p.stage > 1 /\ p.base = dest)
    BY <1>3, <1>4, <1>5, <1>7, <1>8
  <1>11. ASSUME NEW n \in Names
         PROVE  /\ Unread(p, n) => ItemsOf(p.items, n) = {}
                /\ \A it \in ItemsOf(p.items, n) : it.do = "create" => ItemsOf(p.items, n) = {it}
                /\ (p.clean /\ ~Unread(p, n)) =>
                      \/ Leads(n, p.snap[n], RowsOf(p.base, n), ItemsOf(p.items, n))
                      \/ Several(RowsOf(p.base, n), ItemsOf(p.items, n))
    <2>1. Place(Kind[n]) \in 1 .. 5 /\ (Kind[n] = k <=> i = Place(Kind[n]) + 1 /\ i # 1)
      <3>1. Place(Kind[n]) \in 1 .. 5
        BY StageOrder
      <3>2. CASE i = 1
        BY <1>5, <3>1, <3>2, StageOrder DEF k
      <3>3. CASE i # 1
        <4>1. i \in 2 .. 6 /\ Kind[n] \in Kinds
          BY <1>3, <3>3
        <4> QED BY <3>1, <3>3, <4>1, StageOrder DEF k
      <3> QED BY <3>2, <3>3
    <2>2. Unread(op[o], n) <=> Place(Kind[n]) + 1 >= i
      BY <1>1 DEF Unread
    <2>3. Unread(p, n) <=> next # 0 /\ Place(Kind[n]) + 1 >= next
      BY <1>7, <1>8 DEF Unread
    <2>4. ~Unread(p, n) => i # 1 /\ Place(Kind[n]) + 1 <= i
      <3>1. ~Unread(p, n) => (next # 0 => Place(Kind[n]) + 1 < next)
        BY <1>4, <2>1, <2>3
      <3> QED BY <1>3, <3>1, StageRead DEF next
    <2>5. Unread(op[o], n) => ItemsOf(op[o].items, n) = {}
      BY <1>1 DEF PlanOK
    <2>6. CASE i = 1
      <3>1. Unread(op[o], n) /\ p.items = op[o].items
        BY <1>5, <1>8, <2>1, <2>2, <2>6
      <3> QED BY <2>4, <2>5, <2>6, <3>1
    <2>7. CASE i # 1
      <3>1. /\ p.items = op[o].items \cup F /\ p.base = op[o].base /\ p.clean = op[o].clean
            /\ p.snap = op[o].snap
        BY <1>5, <1>8, <2>7
      <3>2. ItemsOf(p.items, n) = ItemsOf(op[o].items, n) \cup ItemsOf(F, n)
        BY <3>1, ItemsOfPlain
      <3>3. /\ Kind[n] # k => ItemsOf(F, n) = {}
            /\ Kind[n] = k => \/ Leads(n, op[o].snap[n], RowsOf(dest, n), ItemsOf(F, n))
                              \/ Several(RowsOf(dest, n), ItemsOf(F, n))
            /\ \A it \in ItemsOf(F, n) : it.do = "create" => ItemsOf(F, n) = {it}
        BY <1>1, DifferencesLead DEF F
      <3>4. CASE Kind[n] = k
        <4>1. ItemsOf(p.items, n) = ItemsOf(F, n) /\ ~Unread(p, n)
          <5>1. i = Place(Kind[n]) + 1
            BY <2>1, <3>4
          <5>2. Unread(op[o], n)
            BY <1>3, <2>1, <2>2, <5>1
          <5>3. ~Unread(p, n)
            BY <1>3, <1>4, <2>1, <2>3, <5>1
          <5> QED BY <2>5, <3>2, <5>2, <5>3
        <4>2. p.clean => p.base = dest
          BY <1>3, <3>1
        <4> QED BY <3>1, <3>3, <3>4, <4>1, <4>2
      <3>5. CASE Kind[n] # k
        <4>1. ItemsOf(p.items, n) = ItemsOf(op[o].items, n)
          BY <3>2, <3>3, <3>5
        <4>2. Unread(p, n) <=> Unread(op[o], n)
          BY <1>3, <1>4, <2>1, <2>2, <2>3, <2>4, <2>7, <3>5
        <4> QED BY <1>1, <3>1, <4>1, <4>2 DEF PlanOK
      <3> QED BY <3>4, <3>5
    <2> QED BY <2>6, <2>7
  <1>12. PlanOK(p, dest')
    BY <1>2, <1>10, <1>11 DEF PlanOK
  <1> QED BY <1>2, <1>8, <1>9, <1>12, MovePlans DEF IInv

LEMMA IdlePlans ==
    ASSUME IInv, PlansOK, NEW o \in Operators, Moves(o, Idle), dest' = dest PROVE PlansOK'
  BY IdleAccounted, IdlePlan, MovePlans DEF IInv

LEMMA LeadsCarries ==
    ASSUME NEW n, NEW b, NEW R, NEW J, Leads(n, b, R, J) PROVE Carries(n, b, R, R, J)
  <1>1. CASE J # {}
    BY <1>1 DEF Carries
  <1>2. CASE J = {} /\ b = None
    BY <1>2 DEF Leads, Carries
  <1>3. CASE J = {} /\ b # None
    <2>1. PICK r \in R : R = {r} /\ r.body \in Alike(n, b)
      BY <1>3 DEF Leads
    <2>2. r.body \in Outcome(n, R, b)
      BY <2>1 DEF Outcome
    <2> QED BY <1>3, <2>1, <2>2 DEF Carries
  <1> QED BY <1>1, <1>2, <1>3

LEMMA BeginPlans ==
    ASSUME IInv, PlansOK, NEW o \in Operators, NEW force \in BOOLEAN, Begin(o, force)
    PROVE  PlansOK'
  <1> DEFINE p == [op[o] EXCEPT !.at = "applying", !.clean = @ /\ dest = op[o].base,
                                !.todo = op[o].items, !.blocked = op[o].missing \ Conns]
  <1>1. op[o] \in Operations /\ PlanOK(op[o], dest) /\ op[o].at = "planned"
    BY OperatorTypes DEF IInv, PlansOK, Begin
  <1>2. p \in Operations
    BY <1>1 DEF Operations, Stages
  <1>3. /\ p.at = "applying" /\ p.snap = op[o].snap /\ p.items = op[o].items
        /\ p.base = op[o].base /\ p.todo = op[o].items
        /\ p.clean => op[o].clean /\ dest = op[o].base
    <2>1. /\ p.at = "applying" /\ p.snap = op[o].snap /\ p.items = op[o].items
          /\ p.base = op[o].base /\ p.todo = op[o].items
      BY <1>1 DEF Operations
    <2>2. p.clean = (op[o].clean /\ dest = op[o].base)
      BY <1>1, Zenon DEF Operations
    <2> QED BY <2>1, <2>2, Zenon
  <1>4. Moves(o, p) /\ dest' = dest
    BY DEF Begin
  <1> HIDE DEF p
  <1>5. PlanOK(p, dest')
    <2>1. p.at # "planning" /\ op[o].at # "planning" /\ (p.clean => op[o].clean)
      BY <1>1, <1>3
    <2> QED BY <1>1, <1>2, <1>3, <2>1, PlanCarried
  <1>6. ApplyOK(p, dest')
    <2> SUFFICES ASSUME p.clean, ~Twice(p.base), NEW n \in Names,
                        NEW R, R = RowsOf(p.base, n), NEW J, J = ItemsOf(p.todo, n)
                 PROVE  Carries(n, p.snap[n], R, RowsOf(dest', n), J)
      BY DEF ApplyOK
    <2>1. ~Unread(op[o], n) /\ RowsOf(dest', n) = R
      BY <1>1, <1>3, <1>4 DEF Unread
    <2>2. Leads(n, p.snap[n], R, J) \/ Several(R, J)
      BY <1>1, <1>3, <1>4, <2>1 DEF PlanOK
    <2>3. ~Several(R, J)
      BY DEF Several, RowsOf, Twice
    <2> QED BY <2>1, <2>2, <2>3, LeadsCarries
  <1> QED BY <1>2, <1>4, <1>5, <1>6, MovePlans DEF IInv

(* An operation that goes on with its apply, or stops. *)
LEMMA Advanced ==
    ASSUME NEW o \in Operators, op[o] \in Operations, NEW it
    PROVE  /\ Without(o, it).base = op[o].base /\ Without(o, it).clean = op[o].clean
           /\ Without(o, it).failed = op[o].failed
           /\ Failed(o, it).base = op[o].base /\ Failed(o, it).clean = op[o].clean
           /\ Failed(o, it).failed = TRUE
  <1> DEFINE w == Without(o, it)
  <1>1. /\ w \in Operations /\ w.base = op[o].base /\ w.clean = op[o].clean
        /\ w.failed = op[o].failed
    BY DEF Without, Operations
  <1>2. Failed(o, it) = [w EXCEPT !.failed = TRUE]
    BY DEF Failed
  <1> HIDE DEF w
  <1>3. /\ Failed(o, it).base = op[o].base /\ Failed(o, it).clean = op[o].clean
        /\ Failed(o, it).failed = TRUE
    BY <1>1, <1>2 DEF Operations
  <1> QED BY <1>1, <1>3 DEF w

LEMMA GoesOn ==
    ASSUME IInv, PlansOK, NEW o \in Operators, op[o].at = "applying", NEW p \in Operations,
           p.at # "planning", p.items = op[o].items, p.base = op[o].base, p.snap = op[o].snap,
           p.clean = op[o].clean, (Moves(o, p) /\ dest' = dest) \/ Writes(o, p), ApplyOK(p, dest')
    PROVE  PlansOK'
  <1>1. op[o] \in Operations /\ PlanOK(op[o], dest)
    BY OperatorTypes DEF IInv, PlansOK
  <1>2. PlanOK(p, dest')
    <2>1. op[o].at # "planning" /\ (p.clean => op[o].clean)
      OBVIOUS
    <2> QED BY <1>1, <2>1, PlanCarried
  <1> QED BY <1>2, MovePlans DEF IInv

LEMMA ResolvePlans == ASSUME IInv, PlansOK, NEW o \in Operators, Resolve(o) PROVE PlansOK'
  <1>1. PICK it \in Due(o) :
          /\ op[o].at = "applying" /\ it.do = "resolve" /\ dest' = dest
          /\ \/ Moves(o, Without(o, it)) \/ Writes(o, Without(o, it))
             \/ Moves(o, [Failed(o, it) EXCEPT !.blocked = @ \cup {it.name}])
    BY DEF Resolve
  <1>2. op[o] \in Operations /\ ApplyOK(op[o], dest) /\ it \in op[o].todo
    BY OperatorTypes DEF IInv, PlansOK, Due
  <1>3. CASE Moves(o, Without(o, it)) \/ Writes(o, Without(o, it))
    <2> DEFINE p == Without(o, it)
    <2>1. /\ p \in Operations /\ p.at = "applying" /\ p.snap = op[o].snap
          /\ p.items = op[o].items /\ p.todo = op[o].todo \ {it}
      BY <1>1, <1>2, Progress
    <2>2. p.base = op[o].base /\ p.clean = op[o].clean /\ p.failed = op[o].failed
      BY <1>2, Advanced
    <2> HIDE DEF p
    <2>3. \A n : ItemsOf(p.todo, n) = ItemsOf(op[o].todo, n)
      BY <1>1, <2>1 DEF ItemsOf
    <2>4. ApplyOK(p, dest')
      BY <1>1, <1>2, <2>1, <2>2, <2>3 DEF ApplyOK
    <2> QED BY <1>1, <1>3, <2>1, <2>2, <2>4, GoesOn DEF p
  <1>4. CASE Moves(o, [Failed(o, it) EXCEPT !.blocked = @ \cup {it.name}])
    <2> DEFINE q == Failed(o, it)
               p == [q EXCEPT !.blocked = @ \cup {it.name}]
    <2>1. /\ q \in Operations /\ q.at = "applying" /\ q.snap = op[o].snap
          /\ q.items = op[o].items
      BY <1>1, <1>2, Progress
    <2>2. q.base = op[o].base /\ q.clean = op[o].clean /\ q.failed = TRUE
      BY <1>2, Advanced
    <2>3. it.name \in Deps
      BY <1>1, <1>2 DEF Operations, Items
    <2>4. Moves(o, p)
      BY <1>4
    <2> HIDE DEF q
    <2>5. /\ p \in Operations /\ p.at = "applying" /\ p.snap = op[o].snap /\ p.items = op[o].items
          /\ p.base = op[o].base /\ p.clean = op[o].clean /\ p.failed = TRUE
      BY <2>1, <2>2, <2>3 DEF Operations
    <2> HIDE DEF p
    <2>6. ApplyOK(p, dest')
      BY <2>5 DEF ApplyOK
    <2> QED BY <1>1, <2>4, <2>5, <2>6, GoesOn
  <1> QED BY <1>1, <1>3, <1>4

(* While nothing has disturbed an apply, an item acts on the one row that   *)
(* it was planned for, so that it is not skipped; and then its name is done.*)
LEMMA TargetIs ==
    ASSUME NEW n \in Names, NEW b, NEW J, Leads(n, b, RowsOf(dest, n), J), NEW it \in J,
           it.name = n, it.do # "create"
    PROVE  \E r \in dest : RowsOf(dest, n) = {r} /\ Targets(it) = {r}
  <1>1. PICK r \in RowsOf(dest, n) : RowsOf(dest, n) = {r} /\ (Kind[n] \in ById => it.id = r.id)
    BY DEF Leads
  <1>2. r \in dest /\ r.name = n /\ Named(n) = {r}
    BY <1>1 DEF RowsOf, Named
  <1>3. CASE Kind[n] \notin ById
    BY <1>1, <1>2, <1>3 DEF Targets
  <1>4. CASE Kind[n] \in ById
    <2>1. {s \in dest : s.id = it.id /\ s.name = it.name} = {r}
      BY <1>1, <1>2, <1>4 DEF Named
    <2> QED BY <1>1, <1>2, <1>4, <2>1 DEF Targets
  <1> QED BY <1>3, <1>4

LEMMA NotSkipped ==
    ASSUME NEW o, NEW n \in Names, NEW b, NEW J, Leads(n, b, RowsOf(dest, n), J), NEW it \in J,
           it.name = n
    PROVE  ~Skips(o, it)
  <1>1. CASE it.do = "create"
    <2>1. RowsOf(dest, n) = {}
      BY <1>1 DEF Leads
    <2> QED BY <1>1, <2>1 DEF Skips, RowsOf, Named
  <1>2. CASE it.do # "create"
    <2>1. Targets(it) # {}
      BY <1>2, TargetIs
    <2> QED BY <1>2, <2>1 DEF Skips
  <1> QED BY <1>1, <1>2

LEMMA NameDone ==
    ASSUME NEW o, NEW n \in Names, NEW b, b = op[o].snap[n], NEW J,
           Leads(n, b, RowsOf(dest, n), J), NEW it \in J, it.name = n,
           it.do \in {"create", "update", "delete"}, NEW D \in Result(o, it)
    PROVE  /\ Carries(n, b, RowsOf(dest, n), RowsOf(D, n), {})
           /\ \A m \in Names \ {n} : RowsOf(D, m) = RowsOf(dest, m)
  <1>1. it.do # "delete" <=> b # None
    BY DEF Leads
  <1>2. PICK B : B = RowsOf(dest, n) /\ B = Named(n)
    BY DEF RowsOf, Named
  <1>3. it.do # "delete" => Outcome(n, B, b) = Content(n, B, b)
    BY <1>2 DEF Leads, Outcome
  <1>4. ASSUME NEW u, u.name = n, u.body \in Outcome(n, B, b), NEW E, RowsOf(E, n) = {},
               D = E \cup {u}, \A m \in Names \ {n} : RowsOf(E, m) = RowsOf(dest, m),
               b # None
        PROVE  /\ Carries(n, b, RowsOf(dest, n), RowsOf(D, n), {})
               /\ \A m \in Names \ {n} : RowsOf(D, m) = RowsOf(dest, m)
    <2>1. RowsOf(D, n) = {u}
      BY <1>4 DEF RowsOf
    <2>2. ASSUME NEW m \in Names \ {n} PROVE RowsOf(D, m) = RowsOf(dest, m)
      <3>1. RowsOf(D, m) = RowsOf(E, m)
        BY <1>4 DEF RowsOf
      <3> QED BY <1>4, <3>1
    <2> QED BY <1>2, <1>4, <2>1, <2>2 DEF Carries
  <1>5. CASE it.do # "delete" /\ Kind[n] = "mcp_server"
    <2>1. PICK u \in NewRows(n, Content(n, Named(n), b)) : D = (dest \ Named(n)) \cup {u}
      BY <1>5, ResultIs
    <2>2. u.name = n /\ u.body \in Outcome(n, B, b)
      BY <1>2, <1>3, <1>5, NewRowsAre
    <2>3. /\ RowsOf(dest \ Named(n), n) = {}
          /\ \A m \in Names \ {n} : RowsOf(dest \ Named(n), m) = RowsOf(dest, m)
      BY DEF RowsOf, Named
    <2> QED BY <1>1, <1>4, <1>5, <2>1, <2>2, <2>3
  <1>6. CASE it.do = "create" /\ Kind[n] # "mcp_server"
    <2>1. PICK u \in NewRows(n, Made(n, b)) : D = dest \cup {u}
      BY <1>6, ResultIs
    <2>2. B = {}
      BY <1>2, <1>6 DEF Leads
    <2>3. u.name = n /\ u.body \in Outcome(n, B, b)
      BY <1>3, <1>6, <2>2, NewRowsAre DEF Content
    <2> QED BY <1>1, <1>2, <1>4, <1>6, <2>1, <2>2, <2>3
  <1>7. CASE it.do = "update" /\ Kind[n] # "mcp_server"
    <2>1. PICK r \in Targets(it) :
             \E c \in Written(n, r.body, b) : D = (dest \ {r}) \cup {Updated(r, c)}
      BY <1>7, ResultIs
    <2>2. PICK c \in Written(n, r.body, b) : D = (dest \ {r}) \cup {Updated(r, c)}
      BY <2>1
    <2>3. B = {r} /\ r.name = n
      <3>1. PICK s \in dest : RowsOf(dest, n) = {s} /\ Targets(it) = {s}
        BY <1>7, TargetIs
      <3> QED BY <1>2, <2>1, <3>1 DEF RowsOf
    <2>4. PICK u : u = Updated(r, c)
      OBVIOUS
    <2>5. u.name = n /\ u.body = c
      BY <2>3, <2>4 DEF Updated, Row
    <2>6. u.body \in Outcome(n, B, b)
      BY <1>3, <1>7, <2>2, <2>3, <2>5 DEF Content
    <2>7. /\ RowsOf(dest \ {r}, n) = {}
          /\ \A m \in Names \ {n} : RowsOf(dest \ {r}, m) = RowsOf(dest, m)
      BY <1>2, <2>3 DEF RowsOf
    <2> QED BY <1>1, <1>4, <1>7, <2>2, <2>4, <2>5, <2>6, <2>7
  <1>8. CASE it.do = "delete"
    <2>1. PICK r \in Targets(it) : D = dest \ {r}
      BY <1>8, ResultIs
    <2>2. RowsOf(dest, n) = {r} /\ r.name = n
      <3>1. PICK s \in dest : RowsOf(dest, n) = {s} /\ Targets(it) = {s}
        BY <1>8, TargetIs
      <3> QED BY <2>1, <3>1 DEF RowsOf
    <2>3. RowsOf(D, n) = {} /\ \A m \in Names \ {n} : RowsOf(D, m) = RowsOf(dest, m)
      BY <2>1, <2>2 DEF RowsOf
    <2> QED BY <1>1, <1>8, <2>3 DEF Carries
  <1> QED BY <1>5, <1>6, <1>7, <1>8

(* Of an apply that nobody disturbed and in which nothing failed. *)
Undisturbed(p) == p.at = "applying" /\ p.clean /\ ~p.failed /\ ~Twice(p.base)

LEMMA DueLeads ==
    ASSUME IInv, PlansOK, NEW o \in Operators, Undisturbed(op[o]), NEW it \in Due(o),
           it.do # "resolve"
    PROVE  /\ it.name \in Names /\ it.do \in {"create", "update", "delete"}
           /\ it \in ItemsOf(op[o].todo, it.name)
           /\ \A n \in Names : Carries(n, op[o].snap[n], RowsOf(op[o].base, n),
                                     RowsOf(dest, n), ItemsOf(op[o].todo, n))
           /\ RowsOf(op[o].base, it.name) = RowsOf(dest, it.name)
           /\ Leads(it.name, op[o].snap[it.name], RowsOf(dest, it.name),
                    ItemsOf(op[o].todo, it.name))
           /\ ~Skips(o, it)
  <1>1. op[o].at = "applying"
    BY DEF Undisturbed
  <1>2. it.name \in Names /\ it.do \in {"create", "update", "delete"}
    BY <1>1, DueItem
  <1>3. it \in ItemsOf(op[o].todo, it.name)
    BY DEF Due, ItemsOf
  <1>4. \A n \in Names : Carries(n, op[o].snap[n], RowsOf(op[o].base, n),
                              RowsOf(dest, n), ItemsOf(op[o].todo, n))
    BY DEF PlansOK, ApplyOK, Undisturbed
  <1>5. /\ RowsOf(op[o].base, it.name) = RowsOf(dest, it.name)
        /\ Leads(it.name, op[o].snap[it.name], RowsOf(dest, it.name), ItemsOf(op[o].todo, it.name))
    BY <1>2, <1>3, <1>4 DEF Carries
  <1>6. ~Skips(o, it)
    BY <1>2, <1>3, <1>5, NotSkipped
  <1> QED BY <1>2, <1>3, <1>4, <1>5, <1>6

LEMMA PassPlans == ASSUME IInv, PlansOK, NEW o \in Operators, Pass(o) PROVE PlansOK'
  <1>1. PICK it \in Due(o) :
          /\ op[o].at = "applying" /\ it.do # "resolve" /\ dest' = dest
          /\ Moves(o, Failed(o, it)) \/ (Skips(o, it) /\ Moves(o, Without(o, it)))
    BY DEF Pass
  <1>2. PICK p \in {Without(o, it), Failed(o, it)} :
          Moves(o, p) /\ (p = Without(o, it) => Skips(o, it) \/ p = Failed(o, it))
    BY <1>1
  <1>3. op[o] \in Operations
    BY OperatorTypes DEF IInv
  <1>4. /\ p \in Operations /\ p.at = "applying" /\ p.snap = op[o].snap /\ p.items = op[o].items
        /\ p.base = op[o].base /\ p.clean = op[o].clean
        /\ p = Without(o, it) => p.failed = op[o].failed
        /\ p = Failed(o, it) => p.failed
    <2>1. /\ p \in Operations /\ p.at = "applying" /\ p.snap = op[o].snap
          /\ p.items = op[o].items /\ p.todo = op[o].todo \ {it}
      BY <1>1, <1>2, <1>3, Progress
    <2>2. /\ p.base = op[o].base /\ p.clean = op[o].clean
          /\ p = Without(o, it) => p.failed = op[o].failed
          /\ p = Failed(o, it) => p.failed = TRUE
      <3>0. PICK w, f : w = Without(o, it) /\ f = Failed(o, it)
        OBVIOUS
      <3>1. /\ w.base = op[o].base /\ w.clean = op[o].clean /\ w.failed = op[o].failed
            /\ f.base = op[o].base /\ f.clean = op[o].clean /\ f.failed = TRUE
        BY <1>3, <3>0, Advanced
      <3>2. p \in {w, f}
        BY <1>2, <3>0
      <3> QED BY <3>0, <3>1, <3>2
    <2> QED BY <2>1, <2>2
  <1>5. ~Undisturbed(p)
    <2> SUFFICES ASSUME Undisturbed(p) PROVE FALSE
      OBVIOUS
    <2>1. Undisturbed(op[o]) /\ Skips(o, it)
      BY <1>1, <1>2, <1>4 DEF Undisturbed
    <2> QED BY <1>1, <2>1, DueLeads
  <1>6. ApplyOK(p, dest')
    BY <1>5 DEF ApplyOK, Undisturbed
  <1> QED BY <1>1, <1>2, <1>4, <1>6, GoesOn

LEMMA ItemPlans ==
    ASSUME IInv, PlansOK, NEW o \in Operators, Apply(o) \/ ApplyFails(o) PROVE PlansOK'
  <1>1. PICK it \in Due(o) :
          /\ op[o].at = "applying" /\ it.do # "resolve"
          /\ \/ Writes(o, Failed(o, it))
             \/ dest' \in Result(o, it) /\ Writes(o, Without(o, it))
    <2>1. CASE Apply(o)
      BY <2>1 DEF Apply
    <2>2. CASE ApplyFails(o)
      BY <2>2 DEF ApplyFails
    <2> QED BY <2>1, <2>2
  <1>2. PICK p \in {Without(o, it), Failed(o, it)} :
          Writes(o, p) /\ (p = Without(o, it) => dest' \in Result(o, it) \/ p = Failed(o, it))
    BY <1>1
  <1>3. op[o] \in Operations
    BY OperatorTypes DEF IInv
  <1>4. /\ p \in Operations /\ p.at = "applying" /\ p.snap = op[o].snap /\ p.items = op[o].items
        /\ p.base = op[o].base /\ p.clean = op[o].clean /\ p.todo = op[o].todo \ {it}
        /\ p = Without(o, it) => p.failed = op[o].failed
        /\ p = Failed(o, it) => p.failed
    <2>1. /\ p \in Operations /\ p.at = "applying" /\ p.snap = op[o].snap
          /\ p.items = op[o].items /\ p.todo = op[o].todo \ {it}
      BY <1>1, <1>2, <1>3, Progress
    <2>2. /\ p.base = op[o].base /\ p.clean = op[o].clean
          /\ p = Without(o, it) => p.failed = op[o].failed
          /\ p = Failed(o, it) => p.failed = TRUE
      <3>0. PICK w, f : w = Without(o, it) /\ f = Failed(o, it)
        OBVIOUS
      <3>1. /\ w.base = op[o].base /\ w.clean = op[o].clean /\ w.failed = op[o].failed
            /\ f.base = op[o].base /\ f.clean = op[o].clean /\ f.failed = TRUE
        BY <1>3, <3>0, Advanced
      <3>2. p \in {w, f}
        BY <1>2, <3>0
      <3> QED BY <3>0, <3>1, <3>2
    <2> QED BY <2>1, <2>2
  <1>5. ASSUME Undisturbed(p), NEW n \in Names
        PROVE  Carries(n, p.snap[n], RowsOf(p.base, n), RowsOf(dest', n), ItemsOf(p.todo, n))
    <2>1. Undisturbed(op[o]) /\ dest' \in Result(o, it)
      BY <1>1, <1>2, <1>4, <1>5 DEF Undisturbed
    <2>2. /\ it.name \in Names /\ it.do \in {"create", "update", "delete"}
          /\ it \in ItemsOf(op[o].todo, it.name)
          /\ \A m \in Names : Carries(m, op[o].snap[m], RowsOf(op[o].base, m),
                                    RowsOf(dest, m), ItemsOf(op[o].todo, m))
          /\ RowsOf(op[o].base, it.name) = RowsOf(dest, it.name)
          /\ Leads(it.name, op[o].snap[it.name], RowsOf(dest, it.name),
                   ItemsOf(op[o].todo, it.name))
      BY <1>1, <2>1, DueLeads
    <2>3. /\ Carries(it.name, op[o].snap[it.name], RowsOf(dest, it.name), RowsOf(dest', it.name), {})
          /\ \A m \in Names \ {it.name} : RowsOf(dest', m) = RowsOf(dest, m)
      BY <2>1, <2>2, NameDone
    <2>4. CASE n = it.name
      <3>1. ItemsOf(op[o].todo, n) = {it}
        BY <2>2, <2>4 DEF Leads
      <3>2. ItemsOf(p.todo, n) = {}
        BY <1>4, <3>1 DEF ItemsOf
      <3> QED BY <1>4, <2>2, <2>3, <2>4, <3>2
    <2>5. CASE n # it.name
      <3>1. ItemsOf(p.todo, n) = ItemsOf(op[o].todo, n)
        BY <1>4, <2>5 DEF ItemsOf
      <3> QED BY <1>4, <2>2, <2>3, <2>5, <3>1
    <2> QED BY <2>4, <2>5
  <1>6. ApplyOK(p, dest')
    BY <1>5 DEF ApplyOK, Undisturbed
  <1> QED BY <1>1, <1>2, <1>4, <1>6, GoesOn

LEMMA StoppedPlans ==
    ASSUME IInv, PlansOK, NEW o \in Operators, Moves(o, Stopped(o)), op[o].at = "applying",
           dest' = dest
    PROVE  PlansOK'
  <1>1. op[o] \in Operations
    BY OperatorTypes DEF IInv
  <1>2. /\ Stopped(o) \in Operations /\ Stopped(o).at = "planned"
        /\ Stopped(o).items = op[o].items /\ Stopped(o).base = op[o].base
        /\ Stopped(o).snap = op[o].snap /\ Stopped(o).clean = op[o].clean
    BY <1>1 DEF Stopped, Operations, Stages
  <1>3. ApplyOK(Stopped(o), dest')
    BY <1>2 DEF ApplyOK
  <1> QED BY <1>2, <1>3, GoesOn

LEMMA EditPlans == ASSUME IInv, PlansOK, Edit PROVE PlansOK'
  <1>1. \A x \in Operators : op'[x] = Unseen(x)
    BY DEF Edit
  <1>2. ASSUME NEW x \in Operators PROVE PlanOK(op'[x], dest') /\ ApplyOK(op'[x], dest')
    <2>1. op[x] \in Operations /\ PlanOK(op[x], dest) /\ ApplyOK(op[x], dest)
      BY OperatorTypes DEF IInv, PlansOK
    <2>2. CASE op[x].at \in {"planning", "applying"}
      <3>1. op'[x] = [op[x] EXCEPT !.clean = FALSE]
        BY <1>1, <2>2 DEF Unseen
      <3> QED BY <2>1, <3>1, DisturbedKept
    <2>3. CASE op[x].at \notin {"planning", "applying"}
      <3>1. op'[x] = op[x]
        BY <1>1, <2>3 DEF Unseen
      <3> QED BY <2>1, <2>3, <3>1, PlanKept
    <2> QED BY <2>2, <2>3
  <1> QED BY <1>2 DEF PlansOK

LEMMA InitPlans == Init => PlansOK
  BY IdlePlan DEF Init, PlansOK

LEMMA NextPlans == IInv /\ PlansOK /\ [Next]_vars => PlansOK'
  <1> SUFFICES ASSUME IInv, PlansOK, [Next]_vars PROVE PlansOK'
    OBVIOUS
  <1>1. ASSUME NEW o \in Operators, Discard(o) \/ Refuse(o) PROVE PlansOK'
    BY <1>1, IdlePlans DEF Discard, Refuse
  <1>2. ASSUME NEW o \in Operators, ApplyStep(o) PROVE PlansOK'
    <2>1. CASE Finish(o)
      BY <2>1, StoppedPlans DEF Finish
    <2> QED BY <1>2, <2>1, ResolvePlans, PassPlans, ItemPlans DEF ApplyStep
  <1>3. ASSUME NEW o \in Operators, Crash(o) PROVE PlansOK'
    <2>1. CASE op[o].at = "planning"
      BY <1>3, <2>1, IdlePlans DEF Crash
    <2>2. CASE op[o].at = "applying"
      BY <1>3, <2>2, StoppedPlans DEF Crash
    <2> QED BY <1>3, <2>1, <2>2 DEF Crash
  <1>4. CASE UNCHANGED <<dest, op>>
    BY <1>4 DEF PlansOK
  <1>5. ASSUME NEW o \in Operators, LoseLock(o) PROVE PlansOK'
    BY <1>4, <1>5 DEF LoseLock
  <1>6. CASE Expire \/ Release \/ UNCHANGED vars
    BY <1>4, <1>6 DEF Expire, Release, vars
  <1> QED BY <1>1, <1>2, <1>3, <1>5, <1>6, StartPlans, PlanPlans, BeginPlans, ItemPlans,
             EditPlans DEF Next

(* An apply that reports no failure, and during which as during its plan    *)
(* nobody else wrote, has done what its plan says and nothing else, whatever*)
(* rows, failed runs and edits were there before: each name of the snapshot *)
(* is there once, with the body that one create or update makes of the row  *)
(* it was planned for, or with that row's own.                              *)
THEOREM CleanApplies == Spec => []CleanApplyIsItsPlan
  <1>1. IInv /\ PlansOK => CleanApplyIsItsPlan
    <2> SUFFICES ASSUME IInv, PlansOK, NEW o \in Operators, Done(o), ~op[o].failed, op[o].clean,
                        ~Twice(op[o].base)
                 PROVE  /\ ~Twice(dest)
                        /\ {r.name : r \in dest} = Present(op[o].snap)
                        /\ \A r \in dest : r.body \in
                              Outcome(r.name, RowsOf(op[o].base, r.name), op[o].snap[r.name])
      BY DEF CleanApplyIsItsPlan
    <2>1. \A n \in Names :
            Carries(n, op[o].snap[n], RowsOf(op[o].base, n), RowsOf(dest, n), {})
      <3>1. \A n : ItemsOf(op[o].todo, n) = {}
        BY DEF Done, ItemsOf
      <3>2. ApplyOK(op[o], dest) /\ op[o].at = "applying"
        BY DEF PlansOK, Done
      <3>3. \A n \in Names : Carries(n, op[o].snap[n], RowsOf(op[o].base, n),
                                  RowsOf(dest, n), ItemsOf(op[o].todo, n))
        BY <3>2 DEF ApplyOK
      <3> QED BY <3>1, <3>3
    <2>2. ASSUME NEW r \in dest
          PROVE  /\ r.name \in Present(op[o].snap) /\ RowsOf(dest, r.name) = {r}
                 /\ r.body \in Outcome(r.name, RowsOf(op[o].base, r.name), op[o].snap[r.name])
      <3>1. r.name \in Names /\ r \in RowsOf(dest, r.name)
        BY DEF IInv, Shape, Rows, RowsOf
      <3> QED BY <2>1, <3>1 DEF Carries, Present
    <2>3. ASSUME NEW n \in Present(op[o].snap) PROVE \E r \in dest : r.name = n
      <3>1. n \in Names /\ op[o].snap[n] # None
        BY DEF Present
      <3> QED BY <2>1, <3>1 DEF Carries, RowsOf
    <2>4. ~Twice(dest)
      <3> SUFFICES ASSUME NEW r \in dest, NEW s \in dest, r # s, r.name = s.name PROVE FALSE
        BY DEF Twice
      <3> QED BY <2>2
    <2> QED BY <2>2, <2>3, <2>4
  <1> QED BY <1>1, InitIInv, NextIInv, InitPlans, NextPlans, PTL DEF Spec

-----------------------------------------------------------------------------
(* As long as nobody meddled, one operator at most applies, the one that    *)
(* has the lock; what it is going to create is not there; and nothing is    *)
(* there twice.  That the rows are finitely many is what the equality of    *)
(* two hashes needs to say anything.                                        *)
Exclusive == \A o \in Operators : op[o].at = "applying" => holder = o

CreatesAreNew ==
    \A o \in Operators : op[o].at = "applying" =>
        \A it \in op[o].todo : it.do = "create" => RowsOf(dest, it.name) = {}

Alone == Exclusive /\ CreatesAreNew /\ IsFiniteSet(dest) /\ ~Twice(dest)

AloneInv == ~meddled => Alone

(* The hash of a destination without a row of some name tells that name     *)
(* from those that have one.                                                *)
LEMMA HashTellsNames ==
    ASSUME NEW D, NEW E, D \subseteq Rows, IsFiniteSet(D), NEW C, NEW G, Hash(D, C) = Hash(E, G),
           NEW n \in Names, RowsOf(E, n) = {}
    PROVE  RowsOf(D, n) = {}
  <1> SUFFICES ASSUME NEW r \in RowsOf(D, n) PROVE FALSE
    OBVIOUS
  <1>1. r \in D /\ r.name = n /\ r.body \in Bodies \cup {Partial}
    BY DEF RowsOf, Rows
  <1> DEFINE X == Names \X (Bodies \cup {Partial})
             c == <<n, r.body>>
             d == {s \in D : <<s.name, s.body>> = c}
             e == {s \in E : <<s.name, s.body>> = c}
  <1>2. [x \in X |-> Cardinality({s \in D : <<s.name, s.body>> = x})]
           = [x \in X |-> Cardinality({s \in E : <<s.name, s.body>> = x})]
    BY DEF Hash
  <1>3. c \in X
    BY <1>1
  <1>4. Cardinality(d) = Cardinality(e)
    BY <1>2, <1>3
  <1>5. e = {}
    BY DEF RowsOf
  <1>6. r \in d /\ IsFiniteSet(d)
    BY <1>1, FS_Subset
  <1> HIDE DEF d, e
  <1> QED BY <1>4, <1>5, <1>6, FS_EmptySet

(* What an item makes of the rows: some of them, and at most one more, of   *)
(* the name of the item, of which there is then no other.                   *)
OneChanged(n, D) ==
    \E E \in SUBSET dest : \/ D = E
                           \/ \E u : D = E \cup {u} /\ u.name = n /\ RowsOf(E, n) = {}

LEMMA UpdateTargets ==
    ASSUME NEW it, it.do = "update", NEW r \in Targets(it)
    PROVE  r \in dest /\ r.name = it.name
  BY DEF Targets, Named

LEMMA RowReplaced ==
    ASSUME ~Twice(dest), NEW r \in dest, NEW u, u.name = r.name
    PROVE  OneChanged(r.name, (dest \ {r}) \cup {u})
  <1>1. RowsOf(dest \ {r}, r.name) = {}
    BY DEF RowsOf, Twice
  <1>2. dest \ {r} \in SUBSET dest
    OBVIOUS
  <1> QED BY <1>1, <1>2 DEF OneChanged

LEMMA RowAdded ==
    ASSUME NEW n, RowsOf(dest, n) = {}, NEW u, u.name = n
    PROVE  OneChanged(n, dest \cup {u})
  BY DEF OneChanged

LEMMA ItemChangesOne ==
    ASSUME ~Twice(dest), NEW o, NEW it, it.name \in Names,
           it.do \in {"create", "update", "delete"},
           it.do = "create" => RowsOf(dest, it.name) = {},
           NEW D \in Result(o, it) \cup Leftover(o, it)
    PROVE  OneChanged(it.name, D)
  <1>0. PICK n, b : n = it.name /\ b = op[o].snap[n]
    OBVIOUS
  <1>1. \A E \in SUBSET dest : OneChanged(n, E)
    BY DEF OneChanged
  <1>2. CASE D = dest
    BY <1>0, <1>1, <1>2
  <1>3. ASSUME NEW C, NEW u \in NewRows(n, C), it.do = "create",
               D = dest \cup {u} \/ D = dest \cup {[u EXCEPT !.live = FALSE]}
        PROVE  OneChanged(n, D)
    <2>1. PICK v : v.name = n /\ D = dest \cup {v}
      <3>1. CASE D = dest \cup {u}
        BY <1>0, <1>3, <3>1, NewRowsAre
      <3>2. CASE D = dest \cup {[u EXCEPT !.live = FALSE]}
        <4>1. PICK v : v = [u EXCEPT !.live = FALSE]
          OBVIOUS
        <4>2. v.name = n
          BY <1>0, <1>3, <4>1, HookFailedRow
        <4> QED BY <3>2, <4>1, <4>2
      <3> QED BY <1>3, <3>1, <3>2
    <2> QED BY <1>0, <1>3, <2>1, RowAdded
  <1>4. ASSUME NEW r \in Targets(it), NEW u, u.name = r.name, D = (dest \ {r}) \cup {u},
               it.do = "update"
        PROVE  OneChanged(n, D)
    <2>1. r \in dest /\ r.name = n
      BY <1>0, <1>4, UpdateTargets
    <2>2. OneChanged(r.name, (dest \ {r}) \cup {u})
      BY <1>4, <2>1, RowReplaced
    <2> QED BY <1>4, <2>1, <2>2
  <1>5. CASE D \in Result(o, it) /\ it.do # "delete" /\ Kind[n] = "mcp_server"
    <2>1. PICK u \in NewRows(n, Content(n, Named(n), b)) : D = (dest \ Named(n)) \cup {u}
      BY <1>0, <1>5, ResultIs
    <2>2. u.name = n
      BY <1>0, <2>1, NewRowsAre
    <2>3. RowsOf(dest \ Named(n), n) = {} /\ dest \ Named(n) \in SUBSET dest
      BY DEF RowsOf, Named
    <2> QED BY <1>0, <2>1, <2>2, <2>3 DEF OneChanged
  <1>6. CASE D \in Result(o, it) /\ it.do = "create" /\ Kind[n] # "mcp_server"
    BY <1>0, <1>3, <1>6, ResultIs
  <1>7. CASE D \in Result(o, it) /\ it.do = "update" /\ Kind[n] # "mcp_server"
    <2>1. PICK r \in Targets(it) : \E c : D = (dest \ {r}) \cup {Updated(r, c)}
      BY <1>0, <1>7, ResultIs
    <2>2. \A c : Updated(r, c).name = r.name
      BY DEF Updated, Row
    <2> QED BY <1>0, <1>4, <1>7, <2>1, <2>2
  <1>8. CASE D \in Result(o, it) /\ it.do = "delete"
    BY <1>0, <1>1, <1>8, ResultIs
  <1>9. CASE D \in Leftover(o, it) /\ D # dest /\ it.do = "create"
    <2>1. FailedAs(it, n, b, D)
      BY <1>0, <1>9, LeftoverIs
    <2> QED BY <1>0, <1>3, <1>9, <2>1 DEF FailedAs
  <1>10. CASE D \in Leftover(o, it) /\ D # dest /\ it.do # "create"
    <2>1. /\ it.do = "update"
          /\ \E r \in Targets(it) : \E c \in Written(n, r.body, b) \cup {Partial} :
                D = (dest \ {r}) \cup {[r EXCEPT !.body = c]}
      <3>1. FailedAs(it, n, b, D)
        BY <1>0, <1>10, LeftoverIs
      <3> QED BY <1>10, <3>1 DEF FailedAs
    <2>2. PICK r \in Targets(it) : \E c : D = (dest \ {r}) \cup {[r EXCEPT !.body = c]}
      BY <2>1
    <2>3. PICK c : D = (dest \ {r}) \cup {[r EXCEPT !.body = c]}
      BY <2>2
    <2>4. PICK v : v = [r EXCEPT !.body = c]
      OBVIOUS
    <2>5. v.name = r.name
      BY <2>4
    <2>6. D = (dest \ {r}) \cup {v}
      BY <2>3, <2>4, Zenon
    <2> QED BY <1>0, <1>4, <2>1, <2>2, <2>5, <2>6
  <1> QED BY <1>0, <1>2, <1>5, <1>6, <1>7, <1>8, <1>9, <1>10

LEMMA OneChangedKeeps ==
    ASSUME NEW n, NEW D, OneChanged(n, D), IsFiniteSet(dest), ~Twice(dest)
    PROVE  /\ IsFiniteSet(D) /\ ~Twice(D)
           /\ \A m : m # n /\ RowsOf(dest, m) = {} => RowsOf(D, m) = {}
  <1>1. PICK E \in SUBSET dest : \/ D = E
                                 \/ \E u : D = E \cup {u} /\ u.name = n /\ RowsOf(E, n) = {}
    BY DEF OneChanged
  <1>2. IsFiniteSet(E) /\ ~Twice(E) /\ \A m : RowsOf(dest, m) = {} => RowsOf(E, m) = {}
    <2>1. IsFiniteSet(E)
      BY FS_Subset
    <2>2. ~Twice(E)
      BY DEF Twice
    <2>3. \A m : RowsOf(dest, m) = {} => RowsOf(E, m) = {}
      BY DEF RowsOf
    <2> QED BY <2>1, <2>2, <2>3
  <1>3. CASE D = E
    BY <1>2, <1>3
  <1>4. ASSUME NEW u, D = E \cup {u}, u.name = n, RowsOf(E, n) = {}
        PROVE  /\ IsFiniteSet(D) /\ ~Twice(D)
               /\ \A m : m # n /\ RowsOf(dest, m) = {} => RowsOf(D, m) = {}
    <2>1. IsFiniteSet(D)
      BY <1>2, <1>4, FS_AddElement
    <2>2. ~Twice(D)
      BY <1>2, <1>4 DEF Twice, RowsOf
    <2>3. ASSUME NEW m, m # n, RowsOf(dest, m) = {} PROVE RowsOf(D, m) = {}
      BY <1>2, <1>4, <2>3 DEF RowsOf
    <2> QED BY <2>1, <2>2, <2>3
  <1> QED BY <1>1, <1>3, <1>4

LEMMA NotApplyingAlone ==
    ASSUME Shape, Alone, NEW o \in Operators, NEW p, p.at # "applying", Moves(o, p), dest' = dest,
           \A x \in Operators \ {o} : holder = x => holder' = x
    PROVE  Alone'
  <1>1. op'[o] = p /\ \A x \in Operators \ {o} : op'[x] = op[x]
    BY DEF Moves, Shape
  <1>2. Exclusive'
    BY <1>1 DEF Alone, Exclusive
  <1>3. CreatesAreNew'
    BY <1>1 DEF Alone, CreatesAreNew
  <1> QED BY <1>2, <1>3 DEF Alone

LEMMA ApplyingAlone ==
    ASSUME Shape, Exclusive, NEW o \in Operators, op[o].at = "applying", NEW p \in Operations,
           Moves(o, p) \/ Writes(o, p), holder' = holder, IsFiniteSet(dest'), ~Twice(dest'),
           \A it \in p.todo : it.do = "create" => RowsOf(dest', it.name) = {}
    PROVE  Alone'
  <1>1. /\ op'[o] = p
        /\ \A x \in Operators \ {o} :
              op'[x] = op[x] \/ op'[x] = [op[x] EXCEPT !.clean = FALSE]
    BY OthersKept
  <1>2. \A x \in Operators \ {o} : op'[x].at # "applying"
    <2>1. \A x \in Operators \ {o} : op[x].at # "applying"
      BY DEF Exclusive
    <2>2. \A x \in Operators : op[x] \in Operations
      BY OperatorTypes
    <2>3. \A x \in Operators : [op[x] EXCEPT !.clean = FALSE].at = op[x].at
      BY <2>2 DEF Operations
    <2>4. ASSUME NEW x \in Operators \ {o} PROVE op'[x].at = op[x].at
      <3>1. CASE op'[x] = op[x]
        BY <3>1
      <3>2. CASE op'[x] = [op[x] EXCEPT !.clean = FALSE]
        BY <2>3, <3>2
      <3> QED BY <1>1, <3>1, <3>2
    <2> QED BY <2>1, <2>4
  <1>3. holder = o
    BY DEF Exclusive
  <1>4. Exclusive'
    BY <1>2, <1>3 DEF Exclusive
  <1>5. CreatesAreNew'
    BY <1>1, <1>2 DEF CreatesAreNew
  <1> QED BY <1>4, <1>5 DEF Alone

LEMMA MadeAlone ==
    ASSUME IInv, Alone, NEW o \in Operators, Start(o) \/ Plan(o) \/ Discard(o) \/ Refuse(o)
    PROVE  Alone'
  <1>1. op[o] \in Operations /\ dest' = dest /\ holder' = holder
    BY OperatorTypes DEF IInv, Start, Plan, Discard, Refuse
  <1>2. PICK p : Moves(o, p) /\ p.at # "applying"
    <2>1. CASE Start(o)
      <3> DEFINE p == [Idle EXCEPT !.at = "planning", !.stage = StageAfter(0), !.snap = source,
                                   !.items = Resolves(source),
                                   !.missing = NeedsOf(source) \ (deps \cup Supplied)]
      <3>1. Moves(o, p) /\ p.at = "planning"
        BY <2>1 DEF Start, Idle
      <3> HIDE DEF p
      <3> QED BY <3>1
    <2>2. CASE Plan(o)
      <3> DEFINE k == PlanStages[op[o].stage]
                 next == StageAfter(op[o].stage)
                 new == [op[o] EXCEPT !.at = IF next = 0 THEN "planned" ELSE "planning",
                                      !.stage = next]
                 p == IF k = "hash"
                      THEN [new EXCEPT !.base = dest, !.conns = deps \cap Conns, !.clean = TRUE]
                      ELSE [new EXCEPT !.items = @ \cup Differences(op[o].snap, k)]
      <3>1. Moves(o, p)
        BY <2>2 DEF Plan
      <3>2. new.at \in {"planned", "planning"} /\ DOMAIN new = DOMAIN op[o]
        <4> HIDE DEF next
        <4> QED BY <1>1 DEF Operations
      <3>3. p.at = new.at
        <4>1. "at" \in DOMAIN op[o]
          BY <1>1 DEF Operations
        <4> HIDE DEF new, k
        <4> QED BY <3>2, <4>1
      <3> HIDE DEF p, new
      <3> QED BY <3>1, <3>2, <3>3
    <2>3. CASE Discard(o) \/ Refuse(o)
      BY <2>3 DEF Discard, Refuse, Idle
    <2> QED BY <2>1, <2>2, <2>3
  <1> QED BY <1>1, <1>2, NotApplyingAlone DEF IInv

LEMMA StoppedAlone ==
    ASSUME IInv, Alone, NEW o \in Operators, Finish(o) \/ Crash(o) PROVE Alone'
  <1>1. op[o] \in Operations
    BY OperatorTypes DEF IInv
  <1>2. Idle.at # "applying" /\ Stopped(o).at # "applying"
    BY <1>1 DEF Idle, Stopped, Operations
  <1>3. dest' = dest /\ \A x \in Operators \ {o} : holder = x => holder' = x
    BY DEF Finish, Crash
  <1>4. Moves(o, Idle) \/ Moves(o, Stopped(o))
    BY DEF Finish, Crash
  <1> QED BY <1>2, <1>3, <1>4, NotApplyingAlone DEF IInv

(* What a plan will create is not there when it is applied: it was not      *)
(* there when the hash was taken, and the hash is the same.                 *)
LEMMA BeginAlone ==
    ASSUME IInv, PlansOK, Alone, NEW o \in Operators, NEW force \in BOOLEAN, Begin(o, force),
           op[o].clean
    PROVE  Alone'
  <1> DEFINE p == [op[o] EXCEPT !.at = "applying", !.clean = @ /\ dest = op[o].base,
                                !.todo = op[o].items, !.blocked = op[o].missing \ Conns]
  <1>1. /\ op[o] \in Operations /\ PlanOK(op[o], dest) /\ op[o].at = "planned" /\ dest \subseteq Rows
        /\ Accounted(op[o], Known)
    BY OperatorTypes DEF IInv, Shape, AllAccounted, PlansOK, Begin
  <1>2. p.at = "applying" /\ p.todo = op[o].items
    BY <1>1 DEF Operations
  <1>3. Moves(o, p) /\ dest' = dest /\ holder = None /\ holder' = o
    BY DEF Begin
  <1> HIDE DEF p
  <1>4. op'[o] = p /\ \A x \in Operators \ {o} : op'[x] = op[x] /\ op[x].at # "applying"
    BY <1>3 DEF Moves, IInv, Shape, Alone, Exclusive
  <1>5. ASSUME NEW it \in op[o].items, it.do = "create" PROVE RowsOf(dest, it.name) = {}
    <2>1. it.name \in Names /\ it \in ItemsOf(op[o].items, it.name)
      BY <1>1, <1>5 DEF Operations, Items, ItemsOf
    <2>2. ~Unread(op[o], it.name)
      BY <1>1 DEF Unread
    <2>3. \/ Leads(it.name, op[o].snap[it.name], RowsOf(op[o].base, it.name),
                   ItemsOf(op[o].items, it.name))
          \/ Several(RowsOf(op[o].base, it.name), ItemsOf(op[o].items, it.name))
      BY <1>1, <2>1, <2>2 DEF PlanOK
    <2>4. RowsOf(op[o].base, it.name) = {}
      BY <1>5, <2>1, <2>3 DEF Leads, Several
    <2>5. Hash(dest, deps \cap Conns) = Hash(op[o].base, op[o].conns)
      BY DEF Begin, Drifted
    <2> QED BY <1>1, <2>1, <2>4, <2>5, HashTellsNames DEF Alone
  <1>6. Exclusive'
    BY <1>3, <1>4 DEF Exclusive
  <1>7. CreatesAreNew'
    BY <1>2, <1>3, <1>4, <1>5 DEF CreatesAreNew
  <1> QED BY <1>3, <1>6, <1>7 DEF Alone

LEMMA ResolveAlone ==
    ASSUME IInv, Alone, NEW o \in Operators, Resolve(o) \/ Pass(o) PROVE Alone'
  <1>1. PICK it \in Due(o) :
          /\ op[o].at = "applying" /\ dest' = dest /\ holder' = holder
          /\ \/ Moves(o, Without(o, it)) \/ Writes(o, Without(o, it))
             \/ Moves(o, Failed(o, it))
             \/ it.do = "resolve" /\ Moves(o, [Failed(o, it) EXCEPT !.blocked = @ \cup {it.name}])
    <2>1. CASE Resolve(o)
      BY <2>1 DEF Resolve
    <2>2. CASE Pass(o)
      BY <2>2 DEF Pass
    <2> QED BY <2>1, <2>2
  <1>2. op[o] \in Operations /\ it \in op[o].todo
    BY OperatorTypes DEF IInv, Due
  <1>3. PICK w, f : w = Without(o, it) /\ f = Failed(o, it)
    OBVIOUS
  <1>4. /\ w \in Operations /\ w.todo = op[o].todo \ {it}
        /\ f \in Operations /\ f.todo = op[o].todo \ {it}
    <2>1. w \in {Without(o, it), Failed(o, it)} /\ f \in {Without(o, it), Failed(o, it)}
      BY <1>3
    <2> QED BY <1>2, <2>1, Progress
  <1>5. it.do = "resolve" => it.name \in Deps
    BY <1>2 DEF Operations, Items
  <1>6. PICK g : g = [f EXCEPT !.blocked = @ \cup {it.name}]
    OBVIOUS
  <1>7. it.do = "resolve" => g \in Operations /\ g.todo = op[o].todo \ {it}
    BY <1>4, <1>5, <1>6 DEF Operations
  <1>8. PICK p \in {w, f, g} : p \in Operations /\ p.todo \subseteq op[o].todo
                               /\ (Moves(o, p) \/ Writes(o, p))
    BY <1>1, <1>3, <1>4, <1>6, <1>7
  <1>9. \A j \in p.todo : j.do = "create" => RowsOf(dest', j.name) = {}
    BY <1>1, <1>8 DEF Alone, CreatesAreNew
  <1>10. IsFiniteSet(dest') /\ ~Twice(dest')
    BY <1>1 DEF Alone
  <1> QED BY <1>1, <1>8, <1>9, <1>10, ApplyingAlone DEF IInv, Alone

LEMMA ItemAlone ==
    ASSUME IInv, PlansOK, Alone, NEW o \in Operators, Apply(o) \/ ApplyFails(o) PROVE Alone'
  <1>1. PICK it \in Due(o) :
          /\ op[o].at = "applying" /\ it.do # "resolve" /\ holder' = holder
          /\ dest' \in Result(o, it) \cup Leftover(o, it)
          /\ Writes(o, Without(o, it)) \/ Writes(o, Failed(o, it))
    <2>1. CASE Apply(o)
      BY <2>1 DEF Apply
    <2>2. CASE ApplyFails(o)
      BY <2>2 DEF ApplyFails
    <2> QED BY <2>1, <2>2
  <1>2. PICK p \in {Without(o, it), Failed(o, it)} : Writes(o, p)
    BY <1>1
  <1>3. /\ op[o] \in Operations /\ it \in op[o].todo /\ op[o].todo \subseteq op[o].items
        /\ PlanOK(op[o], dest)
    BY OperatorTypes DEF IInv, AllAccounted, Accounted, PlansOK, Due
  <1>4. p \in Operations /\ p.todo = op[o].todo \ {it}
    BY <1>2, <1>3, Progress
  <1>5. it.name \in Names /\ it.do \in {"create", "update", "delete"}
    BY <1>1, DueItem
  <1>6. \A j \in op[o].todo : j.do = "create" => RowsOf(dest, j.name) = {}
    BY <1>1 DEF Alone, CreatesAreNew
  <1>7. OneChanged(it.name, dest')
    BY <1>1, <1>3, <1>5, <1>6, ItemChangesOne DEF Alone
  <1>8. /\ IsFiniteSet(dest') /\ ~Twice(dest')
        /\ \A m : m # it.name /\ RowsOf(dest, m) = {} => RowsOf(dest', m) = {}
    BY <1>7, OneChangedKeeps DEF Alone
  <1>9. ASSUME NEW j \in p.todo, j.do = "create" PROVE RowsOf(dest', j.name) = {}
    <2>1. j \in op[o].todo /\ j # it /\ RowsOf(dest, j.name) = {}
      BY <1>4, <1>6, <1>9
    <2>2. j.name # it.name
      <3> SUFFICES ASSUME j.name = it.name PROVE FALSE
        OBVIOUS
      <3>1. /\ j \in ItemsOf(op[o].items, it.name)
            /\ it \in ItemsOf(op[o].items, it.name)
        BY <1>1, <1>3, <1>9, <2>1 DEF ItemsOf
      <3>2. ItemsOf(op[o].items, it.name) = {j}
        BY <1>3, <1>5, <1>9, <3>1 DEF PlanOK
      <3> QED BY <2>1, <3>1, <3>2
    <2> QED BY <1>8, <2>1, <2>2
  <1> QED BY <1>1, <1>2, <1>4, <1>8, <1>9, ApplyingAlone DEF IInv, Alone

LEMMA InitAlone == Init => AloneInv
  <1> SUFFICES ASSUME Init PROVE Alone
    BY DEF AloneInv
  <1>1. PICK S \in Before : dest = Filled(S)
    BY DEF Init
  <1> DEFINE f == CHOOSE g \in Numberings : TRUE
  <1>2. f \in [Names -> Ids] /\ \A m, n \in Names : f[m] = f[n] => m = n
    <2>1. f \in Numberings
      OBVIOUS
    <2> QED BY <2>1 DEF Numberings
  <1>3. dest = {Row(f[n], n, S[n], Live(n, S[n])) : n \in Present(S)}
    BY <1>1 DEF Filled
  <1> HIDE DEF f
  <1>4. \A r \in dest :
          r.name \in Names /\ r = Row(f[r.name], r.name, S[r.name], Live(r.name, S[r.name]))
    <2>1. \A i, n, x, live : Row(i, n, x, live).name = n
      BY DEF Row
    <2> QED BY <1>3, <2>1 DEF Present
  <1>5. ~Twice(dest)
    BY <1>4 DEF Twice
  <1>6. IsFiniteSet(dest)
    <2>1. \A r \in dest : r.name \in Names /\ r.id = f[r.name]
      BY <1>4 DEF Row
    <2>2. PICK g : g = [r \in dest |-> r.id]
      OBVIOUS
    <2>3. g \in [dest -> Ids]
      BY <1>2, <2>1, <2>2
    <2>4. \A r, s \in dest : g[r] = g[s] => r = s
      BY <1>2, <1>5, <2>1, <2>2 DEF Twice
    <2>5. g \in Injection(dest, Ids)
      BY <2>3, <2>4 DEF Injection, IsInjective
    <2>6. IsFiniteSet(Ids)
      <3>1. 1 \in Int /\ MaxIds \in Int
        OBVIOUS
      <3> QED BY <3>1, FS_Interval DEF Ids
    <2> QED BY <2>5, <2>6, FS_Injection
  <1>7. \A o \in Operators : op[o].at = "idle"
    BY DEF Init, Idle
  <1> QED BY <1>5, <1>6, <1>7 DEF Alone, Exclusive, CreatesAreNew

LEMMA NextAlone == IInv /\ PlansOK /\ AloneInv /\ [Next]_vars => AloneInv'
  <1> SUFFICES ASSUME IInv, PlansOK, AloneInv, [Next]_vars, ~meddled' PROVE Alone'
    BY DEF AloneInv
  <1>1. ASSUME NEW o \in Operators, Start(o) \/ Plan(o) \/ Discard(o) \/ Refuse(o) PROVE Alone'
    <2>1. ~meddled
      BY <1>1 DEF Start, Plan, Discard, Refuse
    <2> QED BY <1>1, <2>1, MadeAlone DEF AloneInv
  <1>2. ASSUME NEW o \in Operators, NEW force \in BOOLEAN, Begin(o, force) PROVE Alone'
    <2>1. ~meddled /\ op[o].clean
      BY <1>2, Zenon DEF Begin
    <2> QED BY <1>2, <2>1, BeginAlone DEF AloneInv
  <1>3. ASSUME NEW o \in Operators, ApplyStep(o) \/ ApplyFails(o) PROVE Alone'
    <2>1. ~meddled
      BY <1>3 DEF ApplyStep, Resolve, Pass, Apply, Finish, ApplyFails
    <2>2. Alone
      BY <2>1 DEF AloneInv
    <2> QED BY <1>3, <2>2, ResolveAlone, ItemAlone, StoppedAlone DEF ApplyStep
  <1>4. ASSUME NEW o \in Operators, Crash(o) PROVE Alone'
    <2>1. ~meddled
      BY <1>4, Zenon DEF Crash
    <2> QED BY <1>4, <2>1, StoppedAlone DEF AloneInv
  <1>5. CASE Expire
    <2>1. ~meddled /\ dest' = dest /\ op' = op /\ holder = Gone
      BY <1>5 DEF Expire
    <2>2. Alone /\ \A o \in Operators : op[o].at # "applying"
      BY <2>1 DEF AloneInv, Alone, Exclusive
    <2> QED BY <2>1, <2>2 DEF Alone, Exclusive, CreatesAreNew
  <1>6. CASE Release \/ UNCHANGED vars
    <2>1. ~meddled /\ dest' = dest /\ op' = op /\ holder' = holder
      BY <1>6 DEF Release, vars
    <2> QED BY <2>1 DEF AloneInv, Alone, Exclusive, CreatesAreNew
  <1>7. CASE Edit \/ \E o \in Operators : LoseLock(o)
    <2>1. meddled' = TRUE
      BY <1>7, Zenon DEF Edit, LoseLock
    <2> QED BY <2>1
  <1> QED BY <1>1, <1>2, <1>3, <1>4, <1>5, <1>6, <1>7 DEF Next

(* As long as nobody edits the destination beside them, no lock is lost and *)
(* no plan is applied whose reads another apply fell into, operators that   *)
(* plan at once do not create a resource twice, although bindings and tasks *)
(* have no key that would forbid it: of those whose plans say to create it, *)
(* the second finds another hash.                                           *)
THEOREM NothingTwice == Spec => []NoDuplicates
  <1>1. AloneInv => NoDuplicates
    BY DEF AloneInv, Alone, NoDuplicates
  <1> QED BY <1>1, InitIInv, NextIInv, InitPlans, NextPlans, InitAlone, NextAlone, PTL DEF Spec

===============================================================================
