---------------------------- MODULE ProjectReplace ----------------------------
(***************************************************************************)
(* Project replace (project-replace.service.ts): operators bring the       *)
(* destination project to a snapshot of a source project.  A plan          *)
(* records a hash of the destination and, read after it, the differences   *)
(* to the snapshot.  An apply takes the lock of the destination, refuses a *)
(* destination whose hash has changed, and then carries the differences    *)
(* out one by one, past those that fail.  A repeated replace is the only   *)
(* recovery.                                                               *)
(*                                                                         *)
(* A resource has a name (what the differences match it by) and a body     *)
(* (what they compare).  The name of a table or an agent is its externalId;*)
(* that of a trigger binding its piece and trigger, of a scheduled task    *)
(* its prompt and cron expression: their ids are local to a project.  The  *)
(* source has each name once.                                              *)
(*                                                                         *)
(* An item that succeeds need not leave the body of the source.  What an   *)
(* update does not send stays: propertySettings and a connection that the  *)
(* source has no longer, the piece version, the externalId of a field that *)
(* is found by its name.  The tools of an agent get the id of the          *)
(* destination's connection, and are compared by its externalId.  And the  *)
(* differences pass over the piece version.  Three parameters say which    *)
(* bodies a create makes, an update writes and the differences take for    *)
(* the one that is asked for.                                              *)
(***************************************************************************)
EXTENDS Naturals, Sequences, FiniteSets, SequencesExt

CONSTANTS Operators,     \* clients that plan and apply
          Names, Kind,   \* resources and what they are
          Prompt,        \* what a scheduled task asks for, whatever its cron
          Bodies,        \* contents of a resource that is written in full
          Made(_, _), Written(_, _, _), Alike(_, _),
          Partial,       \* the content of a table written in part
          Enabled,       \* the contents whose status is ENABLED
          Deps, Conns,   \* custom pieces and connections; the latter
          Needs,         \* what a trigger binding needs of them
          Supplied,      \* pieces with an archive, connections with credentials
          Versions,      \* contents the source has over time
          Before,        \* contents the destination may have at first
          None, Gone,    \* no body, nobody; a holder that died
          MaxIds,        \* database ids of the destination, used again
          MaxTroubles    \* bound on faults, on edits by others and on changes
                         \* of the source

CreateOrder == <<"table", "agent", "trigger_binding", "scheduled_task", "mcp_server">>
Kinds == ToSet(CreateOrder)
ById == {"trigger_binding", "scheduled_task"}

ASSUME ResourceAssumption ==
    /\ Kind \in [Names -> Kinds] /\ Needs \in [Names -> SUBSET Deps]
    /\ Conns \subseteq Deps /\ Supplied \subseteq Deps
    /\ Versions \cup Before \subseteq [Names -> Bodies \cup {None}]
    /\ None \notin Bodies /\ Partial \notin Bodies /\ Enabled \subseteq Bodies
    /\ {None, Gone} \cap Operators = {} /\ None # Gone
    /\ MaxIds \in Nat /\ MaxTroubles \in Nat

(* Something is written, in full, and has the status that is asked for. *)
ASSUME ContentAssumption ==
    \A n \in Names, b \in Bodies, x \in Bodies \cup {Partial} :
        /\ Made(n, b) # {} /\ Written(n, x, b) # {}
        /\ \A c \in Made(n, b) \cup Written(n, x, b) \cup Alike(n, b) :
              c \in Bodies /\ (c \in Enabled <=> b \in Enabled)

(* There are ids for each name. *)
Ids == 1 .. MaxIds
Numberings == {f \in [Names -> Ids] : \A m, n \in Names : f[m] = f[n] => m = n}

ASSUME IdsAssumption == Numberings # {}

VARIABLES
    source,     \* the source project
    dest,       \* the rows of the destination project
    deps,       \* its pieces and connections
    op,         \* what each operator has under way
    holder,     \* of project_replace_lock_<project>
    troubles,
    meddled,    \* history: an API call edited the destination, a lock was
                \* lost, or a plan applied whose reads another replace fell into
    withdrawn   \* history: dependencies an API call removed

vars == <<source, dest, deps, op, holder, troubles, meddled, withdrawn>>

Snapshots == [Names -> Bodies \cup {None}]
Rows == [id : Ids, name : Names, body : Bodies \cup {Partial}, live : BOOLEAN]
Items == [do : {"resolve"}, name : Deps, id : {0}]
         \cup [do : {"create", "update", "delete"}, name : Names, id : Ids \cup {0}]

(* An operator: the snapshot it took; the destination the hash is of; what  *)
(* the preflight missed; the items of the plan; of an apply, the items left *)
(* to do, the dependencies that did not come, whether an item failed; and   *)
(* (history) whether nobody else wrote since the hash.                      *)
Idle == [at |-> "idle", stage |-> 0, snap |-> [n \in Names |-> None], base |-> {},
         conns |-> {}, missing |-> {}, items |-> {}, todo |-> {}, blocked |-> {},
         failed |-> FALSE, clean |-> FALSE]

Stages == {"idle", "planning", "planned", "applying"}

-----------------------------------------------------------------------------
Present(S) == {n \in Names : S[n] # None}
OfKind(k) == {n \in Names : Kind[n] = k}
NeedsOf(S) == UNION {Needs[n] : n \in Present(S)}
Named(n) == {r \in dest : r.name = n}
Binding(n) == Kind[n] = "trigger_binding"

Twice(D) == \E r, s \in D : r # s /\ r.name = s.name

RowsOf(D, n) == {r \in D : r.name = n}

(* The bodies that a success leaves of a name whose rows are R.             *)
Content(n, R, b) == IF R = {} THEN Made(n, b) ELSE UNION {Written(n, r.body, b) : r \in R}

(* computeDestinationStateHash: the rows without their ids, and the         *)
(* connections; no pieces.                                                  *)
Hash(D, C) ==
    <<[c \in Names \X (Bodies \cup {Partial}) |->
          Cardinality({r \in D : <<r.name, r.body>> = c})], C>>

(* The database gives ids that no row has and no plan refers to. *)
UsedIds == {r.id : r \in dest}
           \cup UNION {{r.id : r \in op[o].base \cup op[o].items} : o \in Operators}
FreshIds == {i \in Ids \ UsedIds : \A j \in Ids \ UsedIds : i <= j}

Row(i, n, b, live) == [id |-> i, name |-> n, body |-> b, live |-> live]

(* What is live when all went well: for a binding, that ON_ENABLE has run,  *)
(* and ON_DISABLE has not since.                                            *)
Live(n, b) == Binding(n) => b \in Enabled

Item(do, n, i) == [do |-> do, name |-> n, id |-> i]
Ref(r) == IF Kind[r.name] \in ById THEN r.id ELSE 0

(* A destination of some content, and nothing under way. *)
Filled(S) ==
    LET id == CHOOSE f \in Numberings : TRUE
    IN  {Row(id[n], n, S[n], Live(n, S[n])) : n \in Present(S)}

Init ==
    /\ source \in Versions
    /\ \E S \in Before : dest = Filled(S) /\ deps \in {D \in SUBSET Deps : NeedsOf(S) \subseteq D}
    /\ op = [o \in Operators |-> Idle]
    /\ holder = None
    /\ troubles = 0
    /\ meddled = FALSE
    /\ withdrawn = {}

(* A step of one operator; a write falls into what the others are reading   *)
(* or writing.                                                              *)
Moves(o, new) == op' = [op EXCEPT ![o] = new]
Unseen(p) == IF op[p].at \in {"planning", "applying"} THEN [op[p] EXCEPT !.clean = FALSE] ELSE op[p]
Writes(o, new) == op' = [p \in Operators |-> IF p = o THEN new ELSE Unseen(p)]

Trouble == troubles < MaxTroubles /\ troubles' = troubles + 1

-----------------------------------------------------------------------------
(* The plan.  The export of the source and the preflight of pieces and      *)
(* connections come first; then the hash, then the differences of each kind *)
(* of resource, each a read of its own.                                     *)
(* Mutant: the hash is taken of what the destination is after the reads. *)
HashLast == CreateOrder \o <<"hash">>

PlanStages == <<"hash">> \o CreateOrder

(* The stage that comes after stage i, 0 if there is none.  Kinds of which  *)
(* there is no resource are passed over.                                    *)
StageAfter(i) ==
    LET later == {j \in 1 .. Len(PlanStages) :
                    j > i /\ (PlanStages[j] = "hash" \/ OfKind(PlanStages[j]) # {})}
    IN  IF later = {} THEN 0 ELSE Min(later)

(* What the plan will create or look up among the dependencies: the pieces  *)
(* that it can install, and every connection.                               *)
Resolves(S) == {Item("resolve", d, 0) : d \in
                    NeedsOf(S) \cap (Conns \cup (Supplied \ deps))}

Start(o) ==
    /\ op[o].at = "idle"
    /\ Moves(o, [Idle EXCEPT !.at = "planning", !.stage = StageAfter(0), !.snap = source,
                             !.items = Resolves(source),
                             !.missing = NeedsOf(source) \ (deps \cup Supplied)])
    /\ UNCHANGED <<source, dest, deps, holder, troubles, meddled, withdrawn>>

(* The row that a name matches: one of them, if there are several. *)
Match(n) == CHOOSE r \in Named(n) : \A s \in Named(n) : r.id <= s.id

(* Mutant: what the source has dropped is looked for in vain, and created. *)
DifferencesOfAll(S, k) ==
    {Item("create", n, 0) : n \in {m \in OfKind(k) : Named(m) = {}}}

Differences(S, k) ==
    LET missing == {n \in Present(S) \cap OfKind(k) : Named(n) = {}}
        matched == {Match(n) : n \in (Present(S) \cap OfKind(k)) \ missing}
        extra == {r \in dest : Kind[r.name] = k /\ S[r.name] = None}
    IN  {Item("create", n, 0) : n \in missing}
        \cup {Item("update", r.name, Ref(r)) : r \in 
                {m \in matched : m.body \notin Alike(m.name, S[m.name])}}
        \cup {Item("delete", r.name, Ref(r)) : r \in extra}

Plan(o) ==
    LET k == PlanStages[op[o].stage]
        next == StageAfter(op[o].stage)
        new == [op[o] EXCEPT !.at = IF next = 0 THEN "planned" ELSE "planning", !.stage = next]
    IN  /\ op[o].at = "planning"
        /\ Moves(o, IF k = "hash"
                    THEN [new EXCEPT !.base = dest, !.conns = deps \cap Conns, !.clean = TRUE]
                    ELSE [new EXCEPT !.items = @ \cup Differences(op[o].snap, k)])
        /\ UNCHANGED <<source, dest, deps, holder, troubles, meddled, withdrawn>>

(* The client drops its plan. *)
Discard(o) ==
    /\ op[o].at = "planned"
    /\ Moves(o, Idle)
    /\ UNCHANGED <<source, dest, deps, holder, troubles, meddled, withdrawn>>

-----------------------------------------------------------------------------
(* Mutant: force waives the drift as well. *)
DriftWaived(o) == FALSE

(* The apply.  Without force it is refused when the preflight missed        *)
(* something.  It waits for the lock (a wait that times out leaves things   *)
(* as they are, and so does a dry run), then looks at the hash again.       *)
Drifted(o) == Hash(dest, deps \cap Conns) # Hash(op[o].base, op[o].conns)

Begin(o, force) ==
    /\ op[o].at = "planned" /\ holder = None
    /\ op[o].missing = {} \/ force
    /\ ~Drifted(o)
    /\ holder' = o
    /\ Moves(o, [op[o] EXCEPT !.at = "applying", !.clean = @ /\ dest = op[o].base,
                              !.todo = op[o].items, !.blocked = op[o].missing \ Conns])
    /\ meddled' = (meddled \/ ~op[o].clean)
    /\ UNCHANGED <<source, dest, deps, troubles, withdrawn>>

Refuse(o) ==
    /\ op[o].at = "planned" /\ holder = None
    /\ Drifted(o)
    /\ Moves(o, Idle)
    /\ UNCHANGED <<source, dest, deps, holder, troubles, meddled, withdrawn>>

(* Pieces, connections, creates and updates by kind, deletes in reverse.    *)
Place(k) == CHOOSE i \in 1 .. Len(CreateOrder) : CreateOrder[i] = k

Rank(it) ==
    CASE it.do = "resolve" -> IF it.name \in Conns THEN 1 ELSE 0
      [] it.do = "create" -> 2 * Place(Kind[it.name])
      [] it.do = "update" -> 2 * Place(Kind[it.name]) + 1
      [] it.do = "delete" -> 20 - Place(Kind[it.name])

Due(o) == {it \in op[o].todo : \A j \in op[o].todo : Rank(it) <= Rank(j)}

Without(o, it) == [op[o] EXCEPT !.todo = @ \ {it}]
Failed(o, it) == [Without(o, it) EXCEPT !.failed = TRUE]

(* The row an update or a delete acts on.  A task that is gone under its id *)
(* is looked for by its prompt alone when it is to be deleted.              *)
Targets(it) ==
    LET byId == {r \in dest : r.id = it.id /\ r.name = it.name}
    IN  IF Kind[it.name] \notin ById THEN Named(it.name)
        ELSE IF byId # {} \/ it.do # "delete" \/ Kind[it.name] # "scheduled_task" THEN byId
        ELSE {r \in dest : Kind[r.name] = "scheduled_task" /\ Prompt[r.name] = Prompt[it.name]}

(* Mutant: a binding is created whether or not its dependencies came. *)
NeverBlocked(o, it) == FALSE

Blocked(o, it) ==
    /\ it.do = "create" \/ (it.do = "update" /\ Targets(it) # {})
    /\ Binding(it.name)
    /\ Needs[it.name] \cap op[o].blocked # {}

(* Nothing to write: the row to act on is gone, or the agent to create is   *)
(* there.  A missing table or agent, and that agent, are errors.            *)
Skips(o, it) ==
    \/ it.do = "create" /\ Kind[it.name] = "agent" /\ Named(it.name) # {}
    \/ it.do = "update" /\ Targets(it) = {} /\ Kind[it.name] # "mcp_server"
    \/ it.do = "delete" /\ Targets(it) = {}

SkipFails(it) == it.do # "delete" /\ Kind[it.name] \notin ById

(* A new row of one of the contents C, and one that is written over. *)
NewRows(n, C) ==
    {r \in [id : FreshIds, name : {n}, body : C, live : BOOLEAN] : r.live = Live(n, r.body)}

Updated(r, b) == Row(r.id, r.name, b,
    IF Binding(r.name) /\ (r.body \in Enabled) # (b \in Enabled) THEN b \in Enabled ELSE r.live)

Plus(D, R) == {D \cup {r} : r \in R}

(* What a successful item makes of the rows. *)
Result(o, it) ==
    LET n == it.name
        b == op[o].snap[n]
        server == Kind[n] = "mcp_server"
    IN  CASE it.do # "delete" /\ server ->
                Plus(dest \ Named(n), NewRows(n, Content(n, Named(n), b)))
          [] it.do = "create" /\ ~server -> Plus(dest, NewRows(n, Made(n, b)))
          [] it.do = "update" /\ ~server ->
                UNION {Plus(dest \ {r}, {Updated(r, c) : c \in Written(n, r.body, b)}) :
                          r \in Targets(it)}
          [] it.do = "delete" -> {dest \ {r} : r \in Targets(it)}

(* And what one that fails may leave: nothing changed; a table whose fields *)
(* or status are not all written; a binding that is saved but whose hook    *)
(* failed.                                                                  *)
Leftover(o, it) ==
    LET n == it.name
        b == op[o].snap[n]
        switched == {r \in Targets(it) : (r.body \in Enabled) # (b \in Enabled)}
    IN  {dest} \cup
        CASE it.do = "create" /\ Kind[n] = "table" -> Plus(dest, NewRows(n, {Partial}))
          [] it.do = "update" /\ Kind[n] = "table" ->
                {(dest \ {r}) \cup {[r EXCEPT !.body = Partial]} : r \in Targets(it)}
          [] it.do = "create" /\ Binding(n) /\ b \in Enabled ->
                Plus(dest, {[r EXCEPT !.live = FALSE] : r \in NewRows(n, Made(n, b))})
          [] it.do = "update" /\ Binding(n) ->
                UNION {Plus(dest \ {r}, {[r EXCEPT !.body = c] : c \in Written(n, r.body, b)}) :
                          r \in switched}
          [] OTHER -> {}

(* A piece is installed, a connection looked up or created; if it cannot    *)
(* be, the bindings that need it are blocked.                               *)
Resolve(o) ==
    \E it \in Due(o) :
        /\ op[o].at = "applying" /\ it.do = "resolve"
        /\ \/ /\ it.name \in deps \cup Supplied
              /\ deps' = deps \cup {it.name}
              /\ IF it.name \in deps THEN Moves(o, Without(o, it)) ELSE Writes(o, Without(o, it))
              /\ UNCHANGED troubles
           \/ /\ IF it.name \in deps \cup Supplied THEN Trouble ELSE UNCHANGED troubles
              /\ Moves(o, [Failed(o, it) EXCEPT !.blocked = @ \cup {it.name}])
              /\ UNCHANGED deps
        /\ UNCHANGED <<source, dest, holder, meddled, withdrawn>>

Pass(o) ==
    \E it \in Due(o) :
        /\ op[o].at = "applying" /\ it.do # "resolve"
        /\ \/ Blocked(o, it) /\ Moves(o, Failed(o, it))
           \/ /\ ~Blocked(o, it) /\ Skips(o, it)
              /\ Moves(o, IF SkipFails(it) THEN Failed(o, it) ELSE Without(o, it))
        /\ UNCHANGED <<source, dest, deps, holder, troubles, meddled, withdrawn>>

Apply(o) ==
    \E it \in Due(o) :
        /\ op[o].at = "applying" /\ it.do # "resolve"
        /\ ~Blocked(o, it) /\ ~Skips(o, it)
        /\ dest' \in Result(o, it)
        /\ Writes(o, Without(o, it))
        /\ UNCHANGED <<source, deps, holder, troubles, meddled, withdrawn>>

ApplyFails(o) ==
    \E it \in Due(o) :
        /\ op[o].at = "applying" /\ it.do # "resolve"
        /\ ~Blocked(o, it) /\ ~Skips(o, it)
        /\ Trouble
        /\ dest' \in Leftover(o, it)
        /\ Writes(o, Failed(o, it))
        /\ UNCHANGED <<source, deps, holder, meddled, withdrawn>>

(* The client keeps the plan, and may submit it again. *)
Stopped(o) == [op[o] EXCEPT !.at = "planned", !.todo = {}, !.blocked = {}, !.failed = FALSE]

(* Mutant: the lock is not released after a failure. *)
FinishHolding(o) ==
    /\ op[o].at = "applying" /\ op[o].todo = {}
    /\ Moves(o, Stopped(o))
    /\ holder' = IF holder = o /\ ~op[o].failed THEN None ELSE holder
    /\ UNCHANGED <<source, dest, deps, troubles, meddled, withdrawn>>

Finish(o) ==
    /\ op[o].at = "applying" /\ op[o].todo = {}
    /\ Moves(o, Stopped(o))
    /\ holder' = IF holder = o THEN None ELSE holder
    /\ UNCHANGED <<source, dest, deps, troubles, meddled, withdrawn>>

-----------------------------------------------------------------------------
(* The server dies during a plan or an apply, whose lock expires later.     *)
Crash(o) ==
    /\ op[o].at \in {"planning", "applying"}
    /\ Trouble
    /\ Moves(o, IF op[o].at = "planning" THEN Idle ELSE Stopped(o))
    /\ holder' = IF holder = o THEN Gone ELSE holder
    /\ UNCHANGED <<source, dest, deps, meddled, withdrawn>>

Expire ==
    /\ holder = Gone
    /\ holder' = None
    /\ UNCHANGED <<source, dest, deps, op, troubles, meddled, withdrawn>>

(* The lock cannot be extended and runs out; the apply is not told. *)
LoseLock(o) ==
    /\ holder = o
    /\ Trouble
    /\ holder' = None
    /\ meddled' = TRUE
    /\ UNCHANGED <<source, dest, deps, op, withdrawn>>

Release ==
    /\ Trouble
    /\ source' \in Versions \ {source}
    /\ UNCHANGED <<dest, deps, op, holder, meddled, withdrawn>>

(* The other endpoints edit the destination, without the lock. *)
ApiCreate(n, b) ==
    /\ Kind[n] \in ById /\ Needs[n] \subseteq deps
    /\ dest' \in Plus(dest, NewRows(n, {b}))
    /\ UNCHANGED <<deps, withdrawn>>

ApiUpdate(r, b) ==
    /\ b # r.body
    /\ dest' = (dest \ {r}) \cup {Updated(r, b)}
    /\ UNCHANGED <<deps, withdrawn>>

ApiDelete(r) ==
    /\ dest' = dest \ {r}
    /\ UNCHANGED <<deps, withdrawn>>

ApiWithdraw(d) ==
    /\ d \in deps
    /\ deps' = deps \ {d}
    /\ withdrawn' = withdrawn \cup {d}
    /\ UNCHANGED dest

Edit ==
    /\ Trouble
    /\ \/ \E n \in Names, b \in Bodies : ApiCreate(n, b)
       \/ \E r \in dest : ApiDelete(r) \/ \E b \in Bodies : ApiUpdate(r, b)
       \/ \E d \in Deps : ApiWithdraw(d)
    /\ meddled' = TRUE
    /\ op' = [p \in Operators |-> Unseen(p)]
    /\ UNCHANGED <<source, holder>>

-----------------------------------------------------------------------------
ApplyStep(o) == Resolve(o) \/ Pass(o) \/ Apply(o) \/ Finish(o)

Next ==
    \/ \E o \in Operators :
          \/ Start(o) \/ Plan(o) \/ Discard(o) \/ Refuse(o)
          \/ \E force \in BOOLEAN : Begin(o, force)
          \/ ApplyStep(o) \/ ApplyFails(o) \/ Crash(o) \/ LoseLock(o)
    \/ Expire \/ Release \/ Edit

Spec == Init /\ [][Next]_vars

(* Operators plan and apply again and again, with force or without; what is *)
(* under way gets on, and a lock that nobody holds is not out of reach for  *)
(* ever.                                                                    *)
FairSpec ==
    /\ Spec
    /\ WF_vars(Expire)
    /\ \A o \in Operators :
          /\ WF_vars(Start(o)) /\ WF_vars(Plan(o)) /\ WF_vars(ApplyStep(o))
          /\ SF_vars(\E force \in BOOLEAN : Begin(o, force)) /\ SF_vars(Refuse(o))
          /\ SF_vars(Discard(o))

-----------------------------------------------------------------------------
TypeOK ==
    /\ source \in Versions
    /\ dest \subseteq Rows
    /\ deps \subseteq Deps /\ withdrawn \subseteq Deps
    /\ op \in [Operators -> [at : Stages, stage : 0 .. Len(PlanStages), snap : Snapshots,
                 base : SUBSET Rows, conns : SUBSET Conns, missing : SUBSET Deps,
                 items : SUBSET Items, todo : SUBSET Items, blocked : SUBSET Deps,
                 failed : BOOLEAN, clean : BOOLEAN]]
    /\ holder \in Operators \cup {None, Gone}
    /\ troubles \in 0 .. MaxTroubles
    /\ meddled \in BOOLEAN

Done(o) == op[o].at = "applying" /\ op[o].todo = {}

(* What a plan and its apply make of a name whose rows were R. *)
Outcome(n, R, b) ==
    IF \E r \in R : r.body \in Alike(n, b) THEN {r.body : r \in R} ELSE Content(n, R, b)

(* An apply that reports no failure, and that nobody disturbed from its     *)
(* hash to its end, has carried its plan out and done nothing else: the     *)
(* destination has each name of the snapshot once and no other, and every   *)
(* body is what one create or update makes of the row that the hash was     *)
(* taken of, or that row's own where the differences took it for the        *)
(* snapshot's; from whatever state the failures of earlier runs left.       *)
CleanApplyIsItsPlan ==
    \A o \in Operators :
        (Done(o) /\ ~op[o].failed /\ op[o].clean /\ ~Twice(op[o].base)) =>
            /\ ~Twice(dest)
            /\ {r.name : r \in dest} = Present(op[o].snap)
            /\ \A r \in dest :
                  r.body \in Outcome(r.name, RowsOf(op[o].base, r.name), op[o].snap[r.name])

(* A binding is there only when what it needs came before it: no failure,   *)
(* crash or forced apply leaves one whose piece or connection never was.    *)
BindingsHaveTheirDependencies ==
    \A r \in dest : Binding(r.name) => Needs[r.name] \subseteq deps \cup withdrawn

(* Operators that plan on the same destination do not both create what it   *)
(* lacks: bindings and tasks have no key that would forbid it.              *)
NoDuplicates == Twice(dest) => meddled

(* The destination has the names of a snapshot, and bodies that a plan      *)
(* takes for the snapshot's or that another update would not change.        *)
Settled(S) ==
    /\ {r.name : r \in dest} = Present(S)
    /\ \A r \in dest : r.body \in Alike(r.name, S[r.name]) \cup Written(r.name, r.body, S[r.name])

(* Runs that are repeated bring the destination as near to the source as    *)
(* they can, and keep it there, unless it was given the same thing twice or *)
(* something that has no source was taken away.                             *)
RerunsConverge ==
    <>[](Settled(source) \/ Twice(dest) \/ NeedsOf(source) \ (deps \cup Supplied) # {})

(* What the documentation promises: an item that failed is tried again by   *)
(* the next run.  After a run without failures every enabled binding works. *)
FailedItemsAreRetried ==
    \A o \in Operators :
        (Done(o) /\ ~op[o].failed /\ op[o].clean) =>
            \A r \in dest : Live(r.name, r.body) => r.live
===============================================================================
