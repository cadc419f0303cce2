# Inboxfm Connect: TLA+ models and proofs

Inboxfm Connect is a headless integration server: other programs create connections to
third-party apps, run "tools" (actions of integration pieces) on them, receive trigger events,
and watch executions over an event stream. It is one Node.js API server (several replicas may
share a Postgres database and a Redis), an engine process per sandbox, and a library
(`packages/runtime`) that embeds the sandbox without a server. Below, `API/` stands for
`packages/server/api/src/app/`.

## 1. Inventory

| Component | State | Operations | What is hard |
| --- | --- | --- | --- |
| Execution concurrency guard, `API/execution/concurrency/` | one Redis counter per project, its TTL | acquire, release | INCR/EXPIRE/DECR/DEL are separate calls; crashes; TTL |
| Sandbox runtime, `server/sandbox/src/lib/` | per box: current sandbox; per sandbox: engine process, control socket, listeners | acquire, provision, start, execute, release, invalidate, shutdown | timer against answer against process exit; shutdown in the background; reuse |
| Headless runtime, `packages/runtime` | promise chain `executionTail` | execute, listTools | one box shared by all callers |
| User interaction watcher, `API/helper/user-interaction/` | round-robin index | submitAndWaitForResponse | ten boxes, no queue |
| Executions, `API/execution/execution.service.ts` | row per execution: status | create, updateStatus | read, check, then unconditional UPDATE |
| Tool calls, `API/execution/tool-call/` | row per tool call: status | createPending, markRunning, markSucceeded, markFailed | the same |
| Execution event stream, `API/execution/execution-event.service.ts` | sequence counter, history list, subscribers | emit, subscribe, getEventsSince | three asynchronous steps per event, replay against live delivery |
| Scheduled tasks, `API/execution/scheduled-task/` | row, local cron closure per replica, tick lock | create, update, delete, triggerNow, tick | stale closures on other replicas, claimed ticks |
| Trigger bindings, `API/execution/trigger-binding/` | row, cron closure, tick lock, run rows | create, update, enable, disable, delete, run | the same, and hooks run in the engine |
| Local scheduler and cron parser, `packages/scheduler` | timers by job id; none | once, every, cron, cancel; parse, next tick | re-registration; calendar arithmetic |
| System jobs, `API/helper/system-jobs/` | tick lock; retry timers in memory | upsertJob, tick, retry | at-most-once across replicas, fail-open |
| App connections, `API/app-connection/` | row: encrypted token, status | upsert, update, delete, refresh, test | distributed lock, token refresh against upsert |
| Connect sessions, `API/connect-sessions/` | row: status, expiry | create, consume, expire | consume once, expiry at the boundary |
| MCP OAuth, `API/mcp/oauth/` | codes, refresh tokens in families | authorize, exchange, refresh, revoke | single use, reuse detection, races |
| Collaborative lock and presence, `API/core/collaborative/` | Redis keys with TTL | acquire, release, force, disconnect | sockets against TTL |
| Sandbox caches, `server/sandbox/src/lib/cache/` | ready markers on disk, in-memory state | install pieces, rollback, getOrSetCache | crash between steps, several workers on one disk |
| Project replace, `API/project/replace/` | a project's rows; plans in the hands of clients; a lock per destination | export, plan, apply | reads that are not one snapshot, drift, failures per item, reruns |
| Execute endpoint, `API/execute/` | none of its own | resolve, execute | it only combines connections and the headless runtime |

Not part of the inventory's core: the 1.5M lines of third-party integrations
(`packages/integrations`), database migrations, the web SDKs, CLI, i18n, deployment files and
documentation.

Interactions. The execute endpoint resolves a connection (app connections, possibly refreshing its
token) and runs the tool in the headless runtime, which is one box of the sandbox runtime behind a
promise chain. A scheduled task's tick claims the task's tick lock, creates an execution and
records it in the task's row. A trigger binding's tick, or its webhook, runs the RUN hook inside
the concurrency guard; the hook goes through the user interaction watcher, which enters one of ten
boxes of another sandbox runtime, and every item it returns becomes an execution. Project replace
writes through the services of connections, bindings and tasks, and so starts hooks and schedules,
while their endpoints write without its lock. `executionService.create` emits an event; the event
service numbers, stores and publishes it, and any replica may serve a client that follows the
execution. All cross-process state is in Postgres rows (read and written by separate statements)
and Redis keys; each replica has timers, closures, listeners and engine processes of its own, lost
when it restarts.

What makes each part correct, and what could break it, is in the `hazards` of `PROJECT.json`, at
the line where it bites. In short: a counter that never loses or invents a slot; one operation
per box and no leaked engine process, in whatever order timers, answers and exits come; one run
per instant across replicas, where instants are not too near for its lock, and none after a stop; one row per connection and a stored refresh
token that the provider still accepts; a client that sees every event once and in order; a
binding that is subscribed and scheduled exactly while it is enabled; a replace that does what it
planned and no more, and that can be repeated after a failure until a repetition changes nothing.

## 2. Modules

| Module | Models | Proved in |
| --- | --- | --- |
| `ConcurrencyGuard` | the execution guard, one Redis call per step | `ConcurrencyGuardProofs` |
| `SandboxRuntime` | boxes, managers, sandboxes, engine processes; no `Next` of its own | |
| `HeadlessRuntime` | `SandboxRuntime` behind the promise chain | `HeadlessRuntimeProofs` |
| `ExclusiveBox` | abstract: an exclusive first-come first-served box | refined by `HeadlessRuntime` |
| `UserInteractionWatcher` | `SandboxRuntime` under the round robin | |
| `ScheduledTask` | one scheduled task on several replicas, with the part of the local scheduler it uses | `ScheduledTaskProofs` |
| `AppConnection` | one connection: refresh, test, upsert, delete, and the provider | `AppConnectionProofs` |
| `EventStream` | one execution's event stream over several replicas | `EventStreamProofs` |
| `TriggerBinding` | one trigger binding on several replicas: row, subscription, closures | `TriggerBindingProofs` |
| `ProjectReplace` | plans and applies of several operators over one destination project | `ProjectReplaceProofs` |

The `MC...` modules give the constants their values. An operator with the comment "Mutant" is a
changed form of the definition that follows it, used to show that a property notices such a
change; no action refers to it.

### ConcurrencyGuard

`count` and `key` are the Redis key (absent, without TTL, with TTL); `pc[c]` is where the call
of caller `c` is between `redis.incr`, `redis.expire`, the execution, `redis.decr` and
`redis.del`. `RedisFails` is an exception from the call about to be made: nothing catches it,
so the caller is gone with whatever it had counted. `Crash` takes down a process with all its
callers. `leaked` and `abandoned` are history variables that the properties need: how many
increments belong to callers that are gone, and where they were lost. At the limit the guard
refuses (`project-execution-concurrency-guard.ts:45`); `docs/admin-guide/guides/manage-concurrency.mdx:32` says that runs are
then queued and retried, which nothing in the guard or its caller does. `RejectionJustified`
counts everybody who holds an increment, callers that are being refused included: a caller may be
refused because of others that are refused with it, while fewer than `Limit` run.

### SandboxRuntime, HeadlessRuntime, UserInteractionWatcher

A call goes through `pc`: queued, provisioning (the caches), binding and booting (a server is
bound, the engine forked, its connection awaited), running, returning. `current[b]` is
`currentSandbox` of the manager of box `b`; a sandbox has a process (`proc`), a control socket
(`sock`), the flag `killedByShutdown` (`shut`) and the listeners of its process's 'close' event
(`closing`). What runs in one turn of the event loop is one step. In particular `Conclude` is the
settling of an operation with the `finally` of `sandbox.execute` and the synchronous part of
`release` or `invalidate`, which shuts down *whatever is current by then*. A SIGKILL takes effect
later (`ProcessExits`), an answer may overtake it, and the RPC client has a timer of its own.
Names of sandboxes are reused when nothing refers to them.

`HeadlessRuntime` adds `chain` (`executionTail`): a call begins when it is at the head.
`UserInteractionWatcher` adds `nextWorkerIndex`: a call begins at once, whoever is in its box.
`ExclusiveBox` says what a caller of the headless runtime may rely on, a queue and the set being
served; `HeadlessRuntime` implements it with `queue <- chain` and `serving <-` the callers that
hold a sandbox.

### ScheduledTask

`row` is the database row (status, expression, whether `nextRunAt` is set); `cronAt[r]` the
expression in `activeTasks` of replica `r`; `job[r]` the tick handler of `r` that has fired, has
read the row, or is dispatching; `req[q]` a request between its read, its save and the
registration; `up` and `booted` the re-registration at boot, whose statements may fail. The clock
goes round `Horizon` seconds, and an expression, of five fields or of six, is the set of seconds at
whose start it fires; two of them may be a second apart. `lock` is how many more seconds the tick
lock's key exists. `TickTtl` is `claimTaskTick`: of the time to the next instant, the whole seconds
less one, at least 1 and at most `Cap` (55 s); since a step is taken somewhere within its second,
the whole seconds are one less than the distance on the clock. `Expire` is the key's end within its
last second. A handler reaches the lock within `Lag` seconds or is counted as lost; what follows the
lock may take any time. The one assumption on time is `Lag < Cap`: handlers are less than 55 s late.
`Fault` covers crashes, failing statements and a Redis that is away (the lock then fails open).

With instants as near as an expression of six fields allows, the lock cannot do both of the things
it is for. Where the next instant is within `Lag + 2` seconds the lock has to end before the latest
handlers have come, and they run the instant again: `OneRunPerTick` does not count the runs of such
an expression at such an instant. And the floor of one second, taken in the very second before an
instant, reaches into that instant and may swallow it: `EveryTickRuns` exempts a lock taken then.
`kept`, `granted` and `due` are the history that the two properties need to say so.

### AppConnection

`rows` are the rows with the connection's `externalId` (a second one can only come from a second
insert); `call[c]` is a request with what it read. There are two locks because the code has two
keys: one for a refresh, `${platformId}_${externalId}`, and one for an upsert. The provider is
external: each authorisation (`Grants`) has a valid refresh token, `latest`, which it rotates at
each use. `Crash`, `LoseLock` (a RedLock that expires under its holder, who is not told),
`UpsertFailsOpen`, `LockTimesOut` and `AskFails` (a token endpoint that does not answer, having
refreshed or not) are the faults.

### EventStream

An event is its sequence number. `emit` is four steps: `Number`, `Store`, `Notify` (the listeners
of the emitter's process), `Publish`. A request (`phase[c]`) subscribes under the replica's mutex,
buffers what it hears, reads the history, replays it and then writes events as they come;
`snapshot[c]` is the list it has read, as a whole; `Since` the places of the events in it that come
after the Last-Event-ID; `high[c]` is `highWaterSeq`. A client may come back with any event id it
has received. The replica's subscription to the Redis channel is `channel[r]`, and `inbox[r]` what
Redis has sent to it. A replica drops what it published itself, so nothing is put in its own inbox.
Any call to Redis may fail, and the code then falls back to the memory of its process:
`NumberFails` (a number of the process's own, which is that of another event as well, or will be),
`StoreFails` (the event goes to `memory[r]`, at the cap in the place of another), `ReadFails` (the
request replays `memory[r]` and goes live all the same), a SUBSCRIBE or a PUBLISH that is
swallowed. `lost` collects the numbers of events that were not stored (the history is full, or
Redis failed), not published or never finished, or that do not stand for one event of the
execution; `unread[c]` the events that were stored when `c` could not read the history.
`ReplayToNobody` is a socket that closed before the 'close' handler was set: its listener stays for
ever (`leaked`). A server that has no Redis at all, the sweep of its memory, and the keys' TTL of
an hour are left out.

### TriggerBinding

`row` is the database row, `subscribed` whether the provider sends events to it: the hooks
ON_ENABLE and ON_DISABLE, which an engine runs, make and drop that subscription.
`closures[r]` is what `activeTasks` of replica `r` holds for the run and for the renew expression
of the binding; settings stand for the expressions in them. `req[q]` is a request between its
read, its save, its hook and the registration, each a step of its own, as in `update`,
`enable`, `disable` and `delete`; `job[r]` the tick handler of `r` (one at a time, a bound of the
model). `Sync` is `syncTriggerSchedule`: an invalid run expression throws before anything is
registered, the renewal included; otherwise the run closure is registered before the renew
expression is validated, and both are cancelled when that is invalid. `BootFails` is the query of
`reRegisterEnabledSchedules` that fails: the replica is up without closures. Closures fire at any time. Whether a
handler wins the tick lock is left open, since `ScheduledTask` models that lock, which has the
same form here with a key per closure. `saw` and `muddled` are history: which handlers have been
running at a time when the binding was enabled, and whether something happened after which the
code does not promise a schedule that fits (see below). The ingress route only creates
executions and changes nothing here.

### ProjectReplace

`dest` are the rows of the destination, `deps` its pieces and connections, `source` what the
source project has, `holder` who has `project_replace_lock_<project>`. `op[o]` is an operator:
`Start` is the export with the preflight of pieces and connections; `Plan` takes the hash and
then reads the differences, a step per kind of resource, since `createPlan` reads them by
separate queries (`StageAfter` passes over kinds of which an instance has no resource: there is
nothing to read); `Begin` and `Refuse` are the check of the hash under the lock; then an item a
step, in the order of the phases (`Rank`): pieces, connections, creates and updates by kind,
deletes in reverse. An item succeeds (`Apply`), is passed over (`Pass`: blocked by a dependency,
or nothing to write) or fails (`ApplyFails`), and then `Leftover` says what it may leave: nothing,
a table written in part, a binding saved without its hook.

An item that succeeds need not leave what the source has. `Made(n, b)` are the contents that a
create may make when `b` is asked for, `Written(n, x, b)` those that an update may leave of `x`, and
`Alike(n, b)` those that the differences take for `b`. They are parameters because the code differs
per kind: property settings that the source has not are sent as undefined
(`project-replace.service.ts:2396`) and ignored (`trigger-binding.service.ts:128`); a connection
that the source has dropped stays (2366); the version of a piece is hashed, but neither compared nor
updated (1436-1440, 2388-2399); a field found by its name keeps its externalId, which the
differences compare (1290-1296, 2130-2164); the tools of an agent are compared by externalId
(241-250, 1361-1363) and written with the id of the destination's connection. In such a case an
update succeeds and the next plan has it again. So
`docs/admin-guide/guides/project-replace-cli.mdx:161`, "converges to the source state", holds
where the differences compare no more than updates write; in general `RerunsConverge` is what holds,
and `CleanApplyIsItsPlan` says what a single apply leaves. The client keeps its plan and may
submit it again. The other endpoints edit the destination without the lock (`Edit`).
A wait for the lock that times out, and a dry run, leave everything as it is.
(`docs/admin-guide/guides/project-replace-cli.mdx:83` speaks of a lock that is not waited for;
the code waits up to a minute.) A client is assumed to ask for the deployment of custom
integrations. Deleting a task whose id is gone falls back to its prompt, as in the code.
Left out: a connection that is deleted and made again with another id, checksum and signature of the plan, versions and compatibility of pieces, AI
providers, the rotation of tokens, two bindings of a source with the same piece and trigger
(the code matches them by that pair and takes them for one).

## 3. Runs

| Run | Shows | Bounds, and why they are enough |
| --- | --- | --- |
| `guard` | the counter never exceeds what is held or leaked; it is gone when all is idle; a positive counter has a TTL outside the gap after INCR; a refusal is justified | 3 callers on 2 processes, limit 2, 2 failures: two releases and an acquire overlap, one crash takes two callers |
| `guard_limit` (violation) | more than `Limit` executions at once, through the gap between DECR and DEL | limit 1, no failure, a TTL that outlives every call: nothing else is to blame |
| `headless` | one operation per box; no leaked engine; no call's sandbox shut down by another; a timeout is heard; a verdict of memory is explained; refinement of `ExclusiveBox`; every call settles | 3 callers, 1 box (as in the code), 3 sandboxes: one current and two whose shutdown is under way; both reuse modes |
| `watcher_boxes` (violation) | two operations in one box while another box is free | 2 callers, 2 boxes: the ten of the code need eleven calls, the last before the first is over |
| `scheduled_task` | at most one run per instant, at least one, none of a stopped task | 2 replicas, 2 expressions on a round of 8 seconds with instants 1, 3, 4 and 5 apart, a cap of 2, handlers up to 1 late, 1 request at a time, 2 faults: the lock lives for its floor, its cap or what remains, handlers of two instants overlap, and after an edit a lock outlives instants of the other expression |
| `scheduled_forgets` | under fairness every replica drops the closure of a stopped task | 2 replicas, 1 expression, an instant every 3 seconds, 2 faults (a crash and a boot that fails) |
| `connection` | one row; the stored refresh token is current; an error is earned; every request returns | 2 requests at once, 2 authorisations, each refreshed once, 1 fault: a race needs two requests, a lost token one refresh |
| `connection_reauthorized` (violation) | an older authorisation is written over a newer one | the same, without faults |
| `binding` | no hook for a stopped binding; a settled binding is subscribed exactly if enabled, and scheduled if its expressions are valid; no run closure without its renewal; under fairness a stopped binding is forgotten | 2 replicas; settings with both expressions, with an invalid renew and with an invalid run expression; 1 request at a time, 1 fault, boots that fail: what a request meets are handlers, boots and crashes |
| `replace` | an undisturbed apply without failures has carried out its plan and nothing else; bindings have their dependencies; no duplicates; repeated runs come to rest | 2 operators; a table, and a binding that needs a piece and a connection; 2 versions of the source, that add and drop the table, and switch the binding and its property settings; a destination that is empty or has a binding of another piece version; updates clear no settings and change no version; 1 failure, crash, lost lock, edit or release |
| `replace_rerun` (violation) | a run that reports no failure, and an enabled binding that does not work | the same, with one operator |
| `event_stream` | nothing is skipped, nothing is missed, the channel is subscribed exactly while something listens | 2 requests (symmetric) on 2 replicas, 1 emitter, 2 events, a history of 1, 1 fault of any kind; a second one only together with a failed read of the history on a replica that has events in memory, which takes two, and then with one request; listeners leak on one replica, and a fault meets one only away from the emitter's process with one request served at a time: an event for the history or the memory, and one for the buffer or the live phase |

Every property of a passing run has a mutant under `mutants` that violates it. The violations
are listed in `findings`, with the comment, test or documentation they contradict:

- `guard_limit`: DECR and DEL are separate calls; an INCR between them is erased.
- `watcher_boxes`: the round robin does not know which box is free, although a box is documented
  to have one operation at a time.
- `connection_reauthorized`: refresh and upsert take different locks.
- `replace_rerun`: a binding whose hook failed after its row was saved is "unchanged" in the
  next plan, although the documentation says that failed items are tried again.

Two more behaviours can be seen in the model without a run of their own, and are among the
hazards: a task that is disabled while its handler dispatches is left with a `nextRunAt`, since
the dispatch computes it from the row it read earlier; an edit of a task's expression reaches
the closure of the replica that served it and no other, and an edit of an enabled binding reaches
none.

Properties whose exemptions need a word. `NeverOverstates` counts leaked slots as taken, as the
code does until the TTL ends. `MemoryVerdictExplained` allows one wrong verdict in a reused
sandbox: the next operation begins in a process the timer of the previous one has killed, whose
answer came first. `OneRunPerTick` does not count
runs whose expression has another instant within `Lag + 2` seconds, and runs of a lock that failed
open. `EveryTickRuns` exempts instants after an edit for as long as the lock lives that was taken
for the old expression (up to 55 s), a lock taken in the very second before the instant, an instant
at which a late handler of an earlier one is still on its way, one that a request meets, and a crash
between the instant and the claim: the code runs an instant at most once. `StoredTokenIsCurrent` and `OneRowPerConnection` hold
without faults only, and a fault earns an error: a rotated token that a crash loses is not caught
by them, and nothing in the code repairs it.
`NoGap` and `CaughtUp` exempt events in `lost` and those in `unread` of
the request: a failed read of the history is not repeated. `CaughtUp` exempts a replica whose
SUBSCRIBE failed, which is never tried again while the replica has a listener. `SettledBindingWorks` exempts what sets `muddled`: requests that overlap, a hook
that failed, a replica that died in a request, a late handler or boot that acts on a row that has
changed, a boot whose query failed, an edit of an enabled binding. Of settings with an invalid run
or renew expression it says that the provider is subscribed exactly if the binding is enabled, and
nothing of closures. In each of these the code leaves the row as it is and nothing reconciles it;
the other properties hold there too.
`CleanApplyIsItsPlan` speaks of an apply into which nobody has written since its hash (`clean`), and
that did not find the same thing twice; it compares rows, not what the hooks did, and takes for
done what one create or update makes, which need not be the source's. `NoDuplicates`
exempts edits by others, lost locks and plans whose reads another replace fell into (`meddled`).
`BindingsHaveTheirDependencies` counts a dependency that somebody withdrew after the binding was
made. `RerunsConverge` exempts duplicates and dependencies that
cannot come; a body counts as settled when the differences take it for the source's or when another
update would leave it as it is.

`CHECK_DEADLOCK FALSE` appears in five configurations. In `connection`, authorisations and
refreshes are bounded: once they are used up and the connection is gone, no request can begin;
`connection_reauthorized` is the same. In `event_stream` the requests and the emitter have no
obligation to do anything. In `binding` a deleted binding whose closures are forgotten is the end
of the story. `replace_rerun` looks for a state, not for a stop. Elsewhere deadlock is checked.

Fairness. `headless`: the event loop runs queued calls, timers fire, a killed process and an engine
without its socket exit, provisioning succeeds or fails; that an engine answers or connects is not
assumed. `scheduled_forgets`: time passes, each replica's closure is in time for an instant again
and again (strong: an instant it misses is followed by others), and handlers, requests and boots
take their next step, each being a statement that returns. `connection`: statements and the
provider return, locks of crashed processes expire by their time to live, and a waiting request
gets a lock that is free again and again (strong: RedLock retries for a minute). `binding`:
closures keep firing, an instant that a busy replica misses being followed by others (strong), and
handlers, requests and boots take their next step; no request need ever come. `replace`: operators
plan and apply again and again, which is the documented remedy for a failure. Applying a plan,
having it refused and dropping it are strong, since the lock and the drift disable them now and
then; exports, plans and items get on, and the lock of a dead server expires. The other runs check
safety and have no fairness.

## 4. Proofs

`ConcurrencyGuardProofs`, from `GuardAssumption` (finitely many callers, each on a process, a
positive limit): type correctness, and the four other properties of run `guard`. The counter's
invariant is `count <= Cardinality(Counted) + leaked` together with "an absent key counts 0":
without the latter, an INCR after the key expired could not be related to the callers. Each
Redis call moves one caller in or out of `Counted`, so the lemmas are about the cardinality of a
set that gains or loses one element. `PositiveCountExpires` needs that a caller in `Incremented`
or an abandoned one explains a missing TTL.

`HeadlessRuntimeProofs`, from `SandboxAssumption`, for any number of callers, boxes and
sandboxes. `OneAtATime` and `ImplementsBox` come from `ChainInv`, which has four parts.
`ChainHoldsCalls`: the chain has exactly the calls that are not idle; `ChainHasNoRepeats`;
`HeadIsInBox`: a call that holds a sandbox is the chain's head; `ListenersRun`: whoever listens
to a process is running in it, without which a process that exits could settle a call that has
not begun or is over. That two operations never share a box follows from `HeadIsInBox`; that the
abstract box takes the step, or stutters, follows from all of them, one case per action.
`NoEngineIsOrphaned`, `NoShutdownUnderACall`, `TimeoutsAreHeard` and `MemoryIsExplained` come
from `EngineInv` on top of it: the sandbox of a call in the box is the one that is current there
(`HasSandbox`), it is current in no other box (`OneBoxEach`) and was not told to stop
(`CurrentNotShut`); an engine that boots has a call that waits for it, and where a call is about
to fork there is none (`EnginesHaveCalls`: without it a fork could overwrite, and so leak, a live
process); and without reuse only a call's own timer kills its process (`KilledByTimer`). Since
only the head of the chain is in the box, what `finally`, `release` and `invalidate` do to
"whatever is current by then" is done to the call's own sandbox. In `UserInteractionWatcher`
several calls share a box, and the argument does not carry over.

`ScheduledTaskProofs`, from `TimingAssumption` and `MaxFaultsAssumption`, for any replicas,
expressions, lateness and cap with `Lag < Cap`: `TypeCorrect`, `OneRun`, `EveryRun` and `NoRun`.
Nothing is assumed of the distances of instants. The clock goes round, so the proof begins with
arithmetic of the distance to the next instant (it shrinks by one with the clock, and what is not an
instant of an expression is at least one away). `LockOutlives`: once a run is granted that is to be
counted, what remains of the lock and the age of a handler that has not reached it exceed `Lag`, so
it finds the lock; that the next instant is more than `Lag + 2` away is used here, and that the cap
exceeds the lateness. `LockEnds`: the lock of the row's own expression ends before its next
instant, unless it was taken in the second before it; `DueIsServed`: at an instant that is due
nothing disturbs the handlers until one has taken the lock; `RunsSaw` is `NoRun`'s part.
`EveryRun` cannot be had with fewer exemptions: a lock taken for a rare expression can swallow
several instants of a frequent one after an edit, and the run has an instance in which this happens.

`AppConnectionProofs`, from `ConstantsAssumption`, for any callers, authorisations, refreshes and
faults: `TypeCorrect`, `OneRowAlways`, `TokenIsCurrent` and `ErrorsAreEarned`. The parts of the
invariant depend on each other. `Fresh`: the authorisation of an upsert under way is in no row and
in no other request, and was never refreshed, so an upsert cannot bring a spent token; `LocksHeld`:
without a fault a lock excludes; `OneRow`: whoever is about to write has found the row there is;
`TokensCurrent`: a refresh under way has the token that the provider accepts, and a row that has
not got it is about to; `NoError`: without withdrawal, deletion and fault no request is told no.
That a refresh and an upsert hold different locks does no harm to the current token, because the
upsert replaces the authorisation; the run `connection_reauthorized` shows what it does harm.

`EventStreamProofs`, from `EventStreamAssumption`, for any requests, replicas, history, events and
faults. `TypeCorrect` and `ChannelFollows` hold for any emitters: `Mutexes` says who may have the
mutex of a replica and what its channel is then, `Relayed` that nothing arrives without a channel.
`NothingIsSkipped` and `NothingIsMissed` have the hypothesis that the execution has one emitter
(`Emitters = {e}`), which awaits each emit: so it is in this tree, where `executionService.create`
alone emits. With two that overlap the later number can come first, and `highWaterSeq` drops the
earlier event. Redis calls may fail in any number: what the theorems exempt then is what `lost` and
`unread` say. The invariant
`Follows` says of a request that what it has written or will write has no hole up to its highest
event, and that what it does not know yet is lost, was unreadable or is on its way; `Emitting` that history, inboxes
and live events come in the order of their numbers.

`TriggerBindingProofs`, from `SettingsAssumption`, for any replicas, requests at once, settings
and faults: `TypeCorrect`; `NoTick`, from `TickInvariant` (a handler that runs while the binding
is enabled has seen it, and one that has read it as enabled or has claimed its tick has too);
`RunsAreRenewed`, from `HasSettings` (a request or a boot on its way to `Sync` carries settings)
and `SyncRenews` (what `Sync` makes of any closures keeps the renewal); `SettledWorks`, from
`SettledInv`: until something muddles it, one request at a time is under way and knows the row as
it is (`OneRequest`), the provider knows what a request has done with it (`ProviderKnows`), and
while no request is past its read provider and schedule agree with the row (`Agrees`), where a
replica that is down or booting counts as one that will have the closures. The first three hold
however requests overlap, which the run does not reach; requests that overlap muddle the binding,
of which the last says nothing then.

`ProjectReplaceProofs`, from `ResourceAssumption`, `ContentAssumption` (a create and an update write
something, in full, with the status that is asked for) and `IdsAssumption`, for any operators,
resources, dependencies, contents, troubles, and whatever creates make, updates leave and the
differences pass over, in four parts.

- `TypeCorrect`.
- `DependenciesComeFirst`. The property is not inductive: it needs that an apply that creates a
  binding has seen to all of its dependencies. `Accounted` says so of every plan and apply: each
  dependency of its snapshot has come, or is missed by the preflight, or will be resolved; and,
  during an apply, has come, or blocks what needs it, or is still to be resolved.
  `ResolvesComeFirst` (from the order of the phases) excludes the last for a binding that is due,
  and `Blocked` the second. `MovePreserves` states once what every step of an operator has in
  common.
- `CleanApplies`. `PlanOK` says of each name that a plan leads on from the rows its hash was taken
  of (`Leads`: nothing to do and the row is one that the differences take for the snapshot's, or
  the one item that fits the one row or its absence), or that there are several rows; a kind that
  is not read yet has no items. It rests on the hash being taken first, of the destination that the
  reads then see, and on every kind being read (`StageRead`). `ApplyOK` says of an undisturbed
  apply (`Carries`) that a name has its item before it and the rows of the hash still there, or is
  done and has the `Outcome` of those rows: each item finds the row it was planned for
  (`TargetIs`), is not skipped, and its name is then done (`NameDone`). `ResultIs`, `LeftoverIs` and `NewRowsAre` say
  once what a success and a failure make of the rows.
- `NothingTwice`. `Alone`: until somebody meddles, whoever applies has the lock, what it will create
  has no row, the rows are finitely many and no two have a name. When an apply begins, what it is
  to create was absent when the hash was taken (`PlanOK`), and equal hashes have the same
  names (`HashTellsNames`; this needs finite sets, hence an injection from the rows to their ids).
  An item changes the rows of its own name at most (`ItemChangesOne`), and a plan has no
  second item for a name that it creates.

With these, every safety invariant and action property of every passing run is a theorem for all
values of the constants, but for the hypothesis of one emitter.

Only model-checked: liveness (`EveryCallSettles`, `StoppedTaskIsForgotten`, `EveryCallReturns`,
`StoppedBindingIsForgotten`, `RerunsConverge`). Liveness under fairness, ENABLED and induction
over data are out of the proof system's reach. No module has a RECURSIVE operator.

## 5. Not modelled, and the plan

Not modelled on purpose: formatting, logging, telemetry, access checks, pagination, the content
of messages, payloads and credentials, the connectors themselves. Real time enters only as order,
except in `ScheduledTask`, where the lock's time to live is compared with distances of instants.
Further hazards of the parts above that no property covers: an EXPIRE of a refused caller slides
the TTL of a leaked slot forward; a placeholder upsert decides before it has its lock; `testConnection` sets
ACTIVE after a refresh that was rejected; two updates of one task at once lose one of them.

Parts that are left out, and why:

- Executions and tool calls: `create` has callers, and its event is `EventStream`'s. The
  transitions (`updateStatus`, `markRunning`, `markSucceeded`, `markFailed`), which read, check
  and write in separate statements, are called by tests only: there is nothing in the tree that
  could make two of them overlap.
- System jobs: the tick lock is that of `ScheduledTask` with a constant time to live; the rest
  are retries in memory, lost on a restart.
- Connect sessions: a session is consumed by one conditional UPDATE.
- MCP tokens: claim, successor, reuse and restore are statements without a transaction
  (`API/mcp/oauth/token/mcp-oauth-token.service.ts:120`); two refreshes at once are the
  case to model first.
- Collaborative lock: the renewal reads the holder and then sets the key
  (`API/core/collaborative/lock/lock.service.ts:29`), so a lock taken in between is overwritten.
- Sandbox caches: ready markers on disk, and a `cache.json` that each process reads, changes
  and writes as a whole (`server/sandbox/src/lib/cache/cache-state.ts:58`).
- The cron parser: `ScheduledTask` takes an expression as the set of its instants, which leaves
  the search through the calendar aside.
- The integrations, which are most of the repository's lines, are connectors to other systems:
  they keep no state of the program's own, and each is a translation of calls.

What would come next, in this order: `MCP tokens` (a family of refresh tokens, replay
detection), `Sandbox caches` (markers, two processes, crashes), the collaborative lock, several
emitters in `EventStream`, and the cron parser as a module of pure operators checked against
"the least later instant that matches".

Theorems still to prove: which guarantees of the sandboxes survive the round robin of
`UserInteractionWatcher`, where several calls share a box; and abstract specifications of which
`ScheduledTask` (a run per instant) and `AppConnection` (an atomic register of one row) are
refinements, as `HeadlessRuntime` is of `ExclusiveBox`.
