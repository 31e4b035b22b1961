# A TLA+ model of BlenderDesign

BlenderDesign lets an MCP client (Codex) ask a running Blender about its scene.
A **Bridge** runs inside Blender, a **server** (`blender-codex`) runs beside the
client, and the two speak length-prefixed JSON over a Unix socket that the
server finds in a private runtime directory. Around this core the repository
holds an installer for another project's Blender MCP, which registers and
upgrades itself, an acceptance pipeline for assets, smoke tests and build
scripts.

This directory holds TLA+ modules of the concurrent and crash-prone parts, TLC
configurations that check them on small instances, and proofs checked by TLAPS.
Every definition is translated from the source; `PROJECT.json` maps it to its
lines.

## 1. Inventory

| Component | State | Operations | What is hard |
|---|---|---|---|
| Task queue, `bridge/core/queue.py` | deque of tasks, `_active`, `_scene_summaries`, continuations | `submit` (I/O thread), `tick`, `drain` (main thread) | two threads; deadlines and cancellation between any two steps; a continuation leaves the queue and comes back |
| Transport, `bridge/core/lifecycle.py` | connection table by descriptor, outboxes, wake pipe, `_pending_close` | I/O loop, `send`, `stop` steps 2-5, 8 | descriptors used again, joins that time out, partial sends, lost wake-ups |
| Session files, `lifecycle.py`, `session.py` | the instance directory, its socket, `session.json`, a fallback directory in `/tmp` | `start`, `stop` steps 9-10 | a crash between any two file operations, failing unlinks, retries |
| Driver, `bridge/blender/driver.py` | the one session, the revision counter, three Blender callbacks | `start`, `stop`, timer guard | partial failure of registration, an I/O thread that aborts the session |
| Scene reader, `scene_reader.py`, `scene_hash.py` | a continuation with a revision marker | `snapshot_steps` | the scene changes or is replaced between batches |
| Router, `bridge/core/router.py` | none | dispatch by method | errors become frames |
| Discovery, `server/core/discovery.py` | cache, invalidation signal, cursor, backlog, first-seen times | `instances_with_stats`, `invalidate`, reading, probing and removing candidates | several servers and live sessions in one directory, deadlines, stale caches |
| Audit log, `server/core/audit.py` | a file per day, thread lock, file lock | `record` | several processes, rows written in part, death between two steps |
| MCP adapter, `server/mcp/adapter.py` | admission semaphores, audit worker and its queue, the status pool and its permits | the middleware, `_await_audit`, `status_impl`, `scene_summary_impl` | cancellation and deadlines against a worker that has begun; futures that outlive their call |
| Bridge client, `server/core/bridge_client.py` | one socket | `call` | one deadline through connect, send and receive |
| Installer transaction, `plugins/blender-mcp-installer/scripts/blender_mcp_installer` | receipts, journal, active and pending selectors, targets in the file system, lock files | `install`, `recover_active`, `rollback` | a crash at any step, exchanges of two files, restores that fail half way |
| Plugin upgrade, `project_marketplace.py`, `upgrade_*.py`, `entry_lease.py` | journals with temporary copies, evidence directories, plugin caches, usage leases | register, finalize, restore, cleanup of older caches | commands that die, scripts that start from a cache which is being removed, a restore that races a cleanup |
| Plugin registration, `project_marketplace.py` | `config.toml` with three private neighbours, a private home, intent and publication documents | `_register`, `_isolated_registration` | the user edits `config.toml` meanwhile; exchanges interrupted by a crash; two volumes |
| Asset acceptance, `acceptance/` | evidence files, worker process groups, `review.json`, `completion.json`, a receipt | `run`, `review`, `deliver` | workers that die, hang or lie; files edited during a run; commands that race or die between two seals |
| Smoke tests, `smoke/` | a directory of process-group records, the supervisor's memory of it | reserve, publish, scan, signal, retire | children that outlive their parent, records that are renamed while they are scanned |
| Scripts, patches | none of their own | build, vendor | sequential I/O |

How they interact: the driver's timer calls `BridgeSession.tick`, which runs the
task queue, whose handler is the router, whose `scene_summary` is the scene
reader's continuation; replies go through `BridgeSession.send` into the outbox
the I/O thread empties. A session publishes `session.json`; Discovery reads it,
probes the socket and removes what the dead leave behind. The adapter calls
Discovery and the bridge client, tells Discovery when an instance turned out to
be unreachable, and writes an audit row before it answers. The plugin's upgrade
registers a release (registration), journals that, and removes the caches no
script holds a lease on; the installer, acceptance and the smoke tests share no
state with the Bridge or with each other.

What makes each part correct:

* queue: limits and counters exact, one answer at most and none lost without an
  excuse, no continuation forgotten, turns in order, every request ends;
* transport: no socket lost, memory bounded, frames whole, no lost wake-up,
  `stop` completes and means what it says;
* session files: never advertised before they work, never touched by a server
  while the session lives, gone when `stop` is complete or the process is dead;
* driver and reader: no session lost, every change of the scene counted, a
  snapshot shows one state and its revision names that state;
* discovery: no answer older than an invalidation, nobody starves, a listing
  that calls itself whole is whole;
* audit and calls: a broken row never swallows another, nothing answered that is
  not audited, permits exact, a status answer accounts for every instance;
* installer: after a crash anywhere the machine can be brought to the installed
  or to the original state, and nothing of the user's is lost;
* upgrade: journals are unambiguous and true, a running script keeps its tree, a
  restore that was promised stays possible;
* registration: the user's newest edit is never lost, and nothing private stays;
* acceptance: only what was checked whole ships, and only a finding of a run that
  went to its end rejects;
* smoke tests: no process group survives unnoticed.


## 2. Modules

| Module | Models | Refines / is composed with |
|---|---|---|
| `RequestService` | what the queue promises its callers: admission, at most one answer, drop only with an excuse, drain | abstract |
| `TaskQueue` | `bridge/core/queue.py` | implements `RequestService` |
| `BridgeTransport` | `lifecycle.py`: table, outboxes, wake pipe, I/O loop, `stop` 2-5 and 8 | uses the queue as a set of slots, as `RequestService` promises it |
| `SceneSession` | `driver.py`, `scene_reader.py` | a session is what `BridgeTransport` and `SessionDirectory` detail |
| `SessionDirectory` | `start` and `stop` 9-10 against Discovery's read, probe and removal | composes both programs through the file system |
| `DiscoveryCache` | `instances_with_stats`, `invalidate`, `_scan`, `_enumerate` | a candidate's fate is `SessionDirectory`'s |
| `AuditTrail` | what the log promises its readers and writers | abstract |
| `AuditLog` | `AuditLog.record` in several threads and processes | implements `AuditTrail` |
| `AuditedCalls` | the middleware and `_await_audit` | a job is `AuditLog`'s `record`, a tool is `StatusCalls`' |
| `StatusCalls` | `status_impl` and `scene_summary_impl` over `bridge_client.call` | what discovery returns is a choice |
| `InstallerTransaction` | the installer's `install` and `rollback`: `cli.py`, staging (`bundle.py`, `runtime.py`, the adapters), the JSON writes and rename tables of `filesystem.py`, the rollback of `codex_adapter.py` | stands alone |
| `UpgradeCleanup` | the upgrade of the plugin itself: `project_marketplace.py`, `upgrade_discovery.py`, `upgrade_cleanup.py`, `upgrade_state.py`, `entry_lease.py` | a registration is one step, which `RegistrationPublish` details |
| `RegistrationPublish` | `_register` and `_isolated_registration` of `project_marketplace.py` | see `UpgradeCleanup` |
| `ProcessRegistry` | `smoke/process_registry.py`: process groups and their records | extended by `SmokeHarness` |
| `SmokeHarness` | the recovery supervisor of `smoke/e2e.py`, the NFR timer of `smoke/runner.py`, the worker of either | extends `ProcessRegistry` |
| `AssetAcceptance` | `acceptance/`: the commands `run`, `review`, `deliver` and the workers | stands alone |

For TLC, `MCBridgeTransport`, `MCAuditLog`, `MCInstallerTransaction` and
`MCUpgradeCleanup` add budgets, definitions of constants and symmetry.
`MCSceneAndCalls` and `MCCommands` check modules side by side: a first choice
(`which`) says which of them moves in a behaviour while the others stand still.
That is sound because they share no state; a behaviour of the sum is a behaviour
of one part, and every part keeps all of its behaviours.

The theorems are in modules of their own, which extend what they are about:
`TaskQueueProofs`, `BridgeTransportProofs`, `InstallerProofs`, `UpgradeCleanupProofs`,
`DiscoveryProofs` (over `SessionDirectory` and `DiscoveryCache`), `AuditProofs` (over `AuditLog` and
`AuditedCalls`), `SceneAndCallsProofs` (over `MCSceneAndCalls`) and `CommandsProofs`
(over `MCCommands`); where one extends two modules, these use different names.
See section 4.

### Correspondence

**TaskQueue.** One action per `with self._lock` block and per stretch of
main-thread code between two looks at the other thread. `tasks`, `active`,
`summaries` are `_tasks`, `_active`, `_scene_summaries`; `pc` and `cur` the main
thread's place in `tick` or `drain`; `gen[r]` the generator of `r`. Time is two
facts that may become true at any moment: a deadline has passed (`expired`), the
tick has used its budget (`spent`). `phase` and `replies` record what the caller
sees.

**BridgeTransport.** Every lock block and system call of the I/O loop, `send`
and `stop` is an action. Descriptors are numbers handed out again after a
close; frames have one size and two halves, so that a send may be partial.
`close()` may fail (without releasing the descriptor, as `_pending_close`
assumes), joins may time out, `select` may fail: each uses up one of
`MaxFaults`. `timer` says whether the driver's timer is still registered: a
`stop()` of the user's takes it away even when other steps of it fail
(`driver.py:141-148`), one that the timer makes itself does not.

**SceneSession.** A call of the driver is an action whose inner calls may fail;
each `next()` of the continuation is an action. A batch of the code (1024
objects, 128 collections) is one unit. A session whose start fails cleans up
after itself, with one retry; if that fails too it is `lost` (`StartFails`).

**SessionDirectory.** One action per file operation of `start`, of `stop`'s
last two steps and of a server's work on one candidate. Directories have
identities (`dir[s]`), which a server compares before it removes; an identity
is not used twice (section 7). A process may end between any two operations.
`_read_session` may fail on a `session.json` that is there (`err`), and the
server then treats it as unreadable; `misjudged` is history: the sessions a
server removes on such a failure.

**DiscoveryCache.** What the holder of `_lock` does between two looks at the
directory or the signal is an action; instances are numbered by age. A candidate
is found, is gone (which makes the scan partial), or is unreadable within its
grace period, of which the scan says nothing. `epoch` counts calls of
`invalidate`; `whole`, `missed` and `stayed` are history.

**AuditLog.** A record goes through the thread lock, the exclusive create, the
`fchmod` (or the wait for somebody else's), the `flock`, the tail check, the
write and, if it fails, the cut. A file is its sequence of rows, a row whole or
a proper prefix.

**AuditedCalls.** Each coroutine step between two awaits that can see a
different job state is an action; the worker takes jobs in order.

**StatusCalls.** `pc[c]` is the step of the call's own thread, `st[c][i]` the
future that asks instance `i` for it, `hooked[c]` the futures whose done
callback has been added. The pool runs at most `Permits` futures; a permit is
taken before `submit` and given back by the callback, which may be added to a
future that has already ended. A client is between two waits of its one
deadline; what a bridge sends is nothing, an answer of its own or a wrong one.

**InstallerTransaction.** `place[k]` says which version of object `k` (runtime,
extension, `userpref.blend`, `config.toml`) lies at its target, stage and
recovery path: the installed one (`post`), the original (`pre`), a half written
or half removed one, an edit of the user's out of which a rollback can take the
managed values (`edit`) or one that refuses the merge (`clash`: a managed value
was changed, the file does not parse, or it is not the one that a merge was
staged for). `json[f]` is a state file and the
temporary copy beside it; `write_atomic_json` is four actions (create, fill,
swap, finish) during which `proc.write` holds what is being written, so that
every journal entry, and every rename before it, can be cut by a crash.
`Program` is the order of `_changed_install_locked`; staging the bundle and the
runtime, and what a failing or killed staging leaves behind, are actions of
their own. `_forward` and `_restore` are tables of rows
`(target, stage, recovery)`, and `_preflight_rollback` decides with the same
rows what a rerun accepts. Commands exclude each other (the mutation locks),
Blender is closed (the lifecycle probe), and a new install turns whatever lies
at the targets into its originals.

**UpgradeCleanup.** `cmd` is the command that holds the two mutation locks, with
its step; beside it only entries (which take a shared lease on the cache they
run from) and the unlocked first look of a restore move. `journal[w]` and
`temp[w]` are `upgrades/<id>.json` and its temporary copy, a document being its
status, its release and its candidate rows; `evidence[g]` a registration
directory with what was registered before and after. A cache has an inode
(`ino`), so that a directory removed and made again is another one.

**RegistrationPublish.** A file is `[base, others, by, reg]`: the edit of the
user's it goes back to, the last edit that touched the tables of the other
marketplaces (all that a rerun compares with its evidence), who made it (the
user, the Codex program in attempt `n`, the copy a second volume needs), and
whether it registers the release. The exchange of `config.toml` is the code's
own sequence: a look at the three names (`Forward`), a rename of whatever is
there by then (`Swap`, `Park`), another look, and a swap back (`Undo`). The documents
`intent` and `publication` name such files as the JSON names digests. Every
write, copy, exchange and removal is an action, and the command may die between
any two and in the middle of a copy.

**ProcessRegistry, SmokeHarness.** A group is in the directory as a reservation,
as a whole record under a temporary name or under its final name; `known` is
what the supervisor remembers and under which name, `scan` the listing in hand.
Deadlines are three facts that become true in order (`late`), and `grace` is the
pause between two signals. The worker starts, publishes and retires groups and
may fail, hang or be killed at any step; so may the groups; the supervisor may
be cancelled.

**AssetAcceptance.** Jobs 1, 2 and 3 are the inspector, the worker that makes
the images or the GLB, and the comparison. `disk` says of each bound file
whether it still holds the bytes that were measured; `took[j]` is what was taken
from a job (exit code, group, result, gate); of the inspector's findings only an
`"unsafe"` one, one of the five `UNSAFE_R2` checks, blocks the later jobs; an
`"error"` lets them run and rejects the asset at the end. `ev` is `review.json`,
`completion.json` and the receipt with who wrote them. Reviews and deliveries
are commands of their own that interleave with each other and may be killed.

## 3. Runs

| Run | Instance | Shows |
|---|---|---|
| `queue` | a quick request and 2 summaries that may yield for ever; capacity 2, one summary slot | `AdmissionExact`: counters and limits; `TasksKept`: no request or continuation is lost or kept twice; `RoundRobin`: turns in order; `EveryRequestEnds`; `ImplementsService`, the refinement of `RequestService` |
| `transport` | 2 peers, 2 places, outbox of 1 frame, queue of 1, 2 faults besides failing joins | `LimitsHold`: table and memory; `FramesWhole`; `Handover`: no lost wake-up, no lost cancellation; `NoSocketLost`: also when `stop` works against a thread it could not join and descriptors are used again; `TransportSettles` |
| `scene_and_calls` | 2 sessions, 2 changes and faults (4 when a start fails altogether); or 2 calls, 2 instances, 2 permits | `RevisionTrue`: a snapshot shows one state, its revision names it and no change is left out; `NothingLost`: no session or callback without an owner, but a session whose start and both its cleanups failed; `StatusPermits`: permits exact although futures outlive their call; `StatusAddsUp`: every instance is answered for or counted as skipped; `BothSettle` |
| `session_directory` | 1 session, 2 servers, 2 faults | `LiveUntouched`: a live session's files are not touched, unless its `session.json` cannot be read for too long, and nothing is advertised early; `CompleteMeansGone`; `RemainsRemoved`: what the dead leave is removed |
| `discovery_cache` | 2 callers, 2 instances, windows of 3 entries, 1 candidate per scan, an invalidation, a scan cut short or an entry that cannot be read | `NoStaleAnswer`; `WholeScanHonest`: a scan that began afresh and calls itself whole has all that was there and readable; `OldestReported`: nobody starves |
| `discovery_tail` | 1 caller | **violation** of `UncoveredIsReported`: a tail scan calls itself whole |
| `audit_log` | 2 threads and another process, 2 days, 2 faults | `DamageContained`: a broken row swallows no other; `ImplementsTrail`, the refinement of `AuditTrail`; `EveryRecordEnds` |
| `audited_calls` | 2 summaries for 1 permit, another call, 2 audit places, 1 cancellation | `RepliesMatchRows`: nothing answered without its row; `PermitsExact`; `EveryCallEnds` |
| `installer_crash` | a fresh machine, one with an earlier install and one with Blender's preferences only; 2 crashes, 1 exception, 2 edits of `config.toml` | `OriginalKept`: every original is on disk exactly once; `ReportsTrue`: the receipt's status is so on disk, no mixture of two versions is reported as done, a command refuses only in the listed states, an edit that refuses the merge among them; `RollbackOnlyRestores`; `RerunSettles` |
| `installer_resume` | the same machines, 1 crash | **violation** of `RollbackResumes`: a journalled rollback is refused by its rerun |
| `upgrade` | 3 releases, any registered first; 2 workflows, 1 script, 1 crash or foreign edit | `JournalsTrue`: two journals are never both live for one release, and what is called removed is gone; `RestoreNeverLost`: what a restore still accepts has not been deleted; `StepsAllowed`: no running script loses its tree, no journal makes a transition `save_record` would refuse |
| `commands` | a registration with 2 edits and 3 deaths, on one volume or two; a smoke test with a worker and a child, in both modes; an acceptance run of either kind with 2 reviews, a delivery and 2 faults | `RegistrationSafe`: the user's newest edit is not lost, nothing private stays; `NoGroupSurvives`; `ShipMeansChecked`; `RejectedForCause`; `OneVerdict`: only who sealed a verdict reports one, and `review.json`, `completion.json` and receipt agree with it; `CommandsEnd` |

The type invariant of a module is the first conjunct of `LimitsHold`,
`NothingLost`, `LiveUntouched`, `NoStaleAnswer`, `DamageContained`,
`RepliesMatchRows` and `OriginalKept`; for `TaskQueue` and `RegistrationPublish`
they are theorems of their own (`TypeCorrect`, `PublishTyped`), and in the other
modules that are proved about they are part of the inductive invariant.
Properties that have parts with names (`Handover`, `NoSocketLost`,
`RevisionTrue`, `ReportsTrue`, `JournalsTrue`, `StepsAllowed`,
`RegistrationSafe`, `NoGroupSurvives`) are explained at the parts.

**Why the bounds are enough.** Every limit of the code is smaller in the model
than what may press against it: more requests than slots, more summaries than
summary slots, more frames than an outbox holds, more futures than permits, more
instances than a scan takes, more calls than permits. Two of a kind suffice for
the races between them (two servers, two threads of a process and one of
another, two reviews), a third makes order visible; the upgrade has three
releases because a workflow must find one that is neither the old nor the new.
`MaxFaults` (in `DiscoveryCache` `MaxCuts`, which counts scans cut short and
unreadable entries) bounds failing system calls, deaths and foreign edits, so
that an attempt and its retry may both fail; joins of `stop` may fail any number
of times. `MCBridgeTransport` gives the environment either every request and no
fault or one request less and all faults (`Frugal`), and `MCSceneAndCalls` one
budget for changes and faults together, 2, or 4 once a start was lost, which
alone takes three faults: the races they are there for need one of either. A full
table is pressed only by `Bounded`, which holds for any number of peers:
`transport` has a place for each of its two. A window of `discovery_cache` holds
one entry more than there are instances, because a scan whose window is full is
never whole; that nobody starves was checked with windows of 1 and of 2 as well. `MaxRequests` (`BridgeTransport`) bounds the requests read altogether;
`MaxSessions`, `MaxEdits`, `MaxDays`, `MaxCrashes`, `MaxInstances`,
`MaxInvalidations`, `MaxCancels`, `MaxWork` and `MaxIno` bound what the
surroundings do. What section 4 proves holds for all values of all of these.

For the installer two crashes reach what one cannot: a rollback that is itself
interrupted. Two edits are needed for a configuration that changes again after
the merge of the first change was staged. `Tears` says whether a crash may cut a
file or tree in half; `installer_resume` does without, so that its
counterexample is a gap between two whole steps. A registration needs three
deaths to be cut in its first attempt, in its cleanup and in its rerun.

**Fairness.** Only what the code's surroundings provide: Blender's timer fires
again after it returned; code that runs goes on; a deadline passes. Strong
fairness is used where a step is enabled again and again but not all the time:
a tick of 50 ms takes at least one task (`Pop`), the windows of the scans come
round (`TakeWindow`, `ScanBegin`, `ReadNext`: now and then a scan has the time
for an entry), and time passes for whoever reads the clock again and again
(`Tick`, `GraceEnds`). The driver's timer calls `stop` again as long as it is
registered (`WF(StopBy(FALSE))`); nobody makes the user repeat an incomplete
stop, so after that `TransportSettles` says only that everything returns and that
a further stop without faults of its own completes the cleanup.
`SessionDirectory` assumes besides that again and again
no server is scanning (`[]<>(\A d \in Servers : At(d, "idle"))`): a scan is made
when a tool is called and takes `SCAN_DEADLINE` at most. In `StatusCalls`
callers go on, the pool takes the futures it has threads for (`Begin`) and the
client's own deadline passes (`TimesOut`); bridges need not answer. The
installer's and the registration's commands go on (`WF(Step)`), and somebody
runs the installer again (`WF(Start)`), having repaired a `config.toml` that the
forward merge could not read (that failure is one of the bounded faults); an acceptance run goes on (`RunStep`),
its reviewers and its delivery need not; of a smoke test only the supervisor and
its clock are fair, not the worker and its groups. Nothing is assumed of
generators, peers, users or entries; faults are bounded because a call that
fails for ever is never retried to an end. `UpgradeCleanup` has no liveness
property: nothing obliges anybody to run it again.

**Assumptions.** Blender reports an edit to the depsgraph handler before any
timer runs, so the two are one action. `start` takes less than the grace period
and a scan less than the tick of `SessionDirectory`. Process ids and inode
numbers are not used again. A project has fewer than `MAX_RECORDS` journals.
Files are not replaced by others behind the programs' backs except where a
module names it (`config.toml`, the files of an acceptance run); the identity
checks that guard against it appear only where a directory may be removed and
made again by the programs.

**Deadlock** is not checked where the system really comes to an end:
`scene_and_calls` (bounded sessions and edits are used up, calls answered),
`session_directory` (everything is removed), `audited_calls` (all calls are
answered), `upgrade` (no workflow is left to start) and `commands` (the command
is over).

## 4. Proofs

Eight modules hold the theorems, each for all values of the constants. A theorem
`Spec => []P` is proved from an invariant that is inductive; every one of these
was first checked by TLC, as an invariant of the run of its module. `PROJECT.json`
lists the theorems that state a property of a run, and what each says.

| Proofs | Theorems | Assumed of the constants |
|---|---|---|
| `TaskQueueProofs` | `TypeCorrect`, `CountersExact` (`AdmissionExact`), `ContinuationsClosed`, `NothingMislaid` (`TasksKept`), `TurnsInOrder` (`RoundRobin`), `NoSilentLoss`, `QueueImplementsService` (the refinement of `RequestService`) | finitely many requests, natural limits, `NoRequest` is none |
| `BridgeTransportProofs` | `Bounded` (`LimitsHold`), `AnswersWhole` (`FramesWhole`), `HandedOver` (`Handover`), `SocketsKept` (`NoSocketLost`) | `ConstantsAssumption`: limits are natural, there is a descriptor for every place |
| `SceneAndCallsProofs` | `RevisionsHold` (`RevisionTrue`), `NothingGetsLost` (`NothingLost`), `PermitsAlwaysExact` (`StatusPermits`), `AnswersAddUp` (`StatusAddsUp`) | `BoundsAssumption`, `StatusAssumption`: natural bounds, at least one permit, finitely many instances |
| `DiscoveryProofs` | `LiveIsUntouched`, `CompleteIsGone` (`CompleteMeansGone`), `AuthorityIsKept`, `NeverAnsweredStale` (`NoStaleAnswer`), `WholeScansHonest` (`WholeScanHonest`) | `SessionsAssumption`, `NumbersAssumption`: sessions are finitely many numbers, natural bounds; `WindowsAssumption` |
| `AuditProofs` | `DamageStaysContained` (`DamageContained`), `LogIsTrail` (`ImplementsTrail`, the refinement of `AuditTrail`), `RepliesTrue` (`RepliesMatchRows`), `NoPermitLost` (`PermitsExact`) | `AuditAssumption`, `CallsAssumption` |
| `InstallerProofs` | `OriginalAlwaysKept` (`OriginalKept`), `StatusAlwaysTruthful` (`StatusTruthful`, `OutcomeWhole`), `RollbackAlwaysRestores` (`RollbackOnlyRestores`), `ReportsAlwaysTrue` (`ReportsTrue`) | `InstallerAssumption`: any sets of originals, natural bounds |
| `UpgradeCleanupProofs` | `JournalsAreTrue` (`JournalsTrue`), `RestoreIsKept` (`RestoreNeverLost`), `OnlyAllowed` (`StepsAllowed`) | `CleanupAssumption`: natural bounds, at least one inode; `DistinctAssumption`: `None` is no document, `Torn` no readable one |
| `CommandsProofs` | `RegistrationIsSafe`, `PublishTyped`, `ShipsOnlyChecked`, `RejectedOnlyForCause`, `OneVerdictOnly`, `NoGroupIsLeft` (`NoGroupSurvives`) | `PublishAssumption`, `CommandsAssumption`: natural bounds, a command has one name, the worker's group is none of its children's |

**TaskQueue.** The invariant is built in layers. `TypedInvariant` proves the
types together with the shape of the main thread's program counter (which places
hold a `cur`). `RequestsInOnePlace` adds that a request waits at most once, is
not worked on at the same time, and is exactly then *accepted* or *answered*;
without it the counters could not be related to sets. `CountersInvariant` adds
that `_active` is 0 or 1 and that `_scene_summaries` is the number of summaries
held; it is inductive only with the one before it, since removing a request from
a sequence lowers a cardinality by one only if it stood there once. `TurnsInOrder`
needs no more than the types and `RequestsInOnePlace`: what a step makes of
`tasks` is named by `OrderKept` (an append, a head or one entry taken away), and
none of these turns two waiting requests round.

**BridgeTransport.** `TransportInv` has eight parts. `LocalsSound` ties the
threads' local variables to their places. `TableSound` is what makes reused
descriptors harmless: an entry of the table whose socket is closed is the one
`stop` is about to remove, and every copy `stop` holds names the connection
itself. `WorkSound` says which connections the I/O thread's sets, the queue and
the cancellations may speak of. `LimitsSound` proves the sum over the table only
with `Emptied`: what leaves the table (or is about to) has an empty outbox, so
the sum over the table is the sum over all. `FramesSound` places every request:
not yet answered, in the outbox, or on the wire, and in one of these only; the
head of the outbox may have its first half on the wire. `WakeSound` says that
from the look at `stopped` to the end of `select` the byte of `stop` stays in
the pipe.

**SceneSession.** `SceneInv` keeps the distance between a counter and the
scene: what a snapshot shows and the revision it names are as far apart as they
are now (`InStep`), for a session that is told of every change (`Watched`). For
`NothingLost` every way the driver has of starting, repairing and cleaning up is
brought under one description, `Renewed`, of which alone the invariant is proved.

**StatusCalls, AuditedCalls.** Permits are counted against the set of those that
hold one (`Counted`): a future, a job, a summary. `RepliesMatchRows` rests on the
deadline: a job does not begin its row after it and a call gives up only after
it, so a call that once saw its job too late never gets a row (`Agrees`).

**SessionDirectory.** A server acts on what it saw some steps ago. `CandidateSound`
says what of it is still true: a session it calls dead has no process, and one
it found unreadable for too long is not coming up any more (`GivenUp`), since
`start` takes less than the grace period (`AgesSound`), or is `misjudged`.

**DiscoveryCache.** `Epochs`: a scan and the cache belong to the present epoch
unless a signal waits, and the holder of the lock asked before its scan began.
`Covered`: while a whole scan is not partial, what stayed has been found or is
still in its window.

**AuditLog.** Only the holder of a file's lock adds to it (`Locks`), and it knows
its end (`AtWork`); only the last row may be incomplete (`LastOnly`), and `Left`
says by whom. `LogIsTrail` maps a row to the trail when it becomes whole.

**InstallerTransaction.** There are up to three receipts while one is being
written: the published one, its copy and the one in hand. An invariant about the
published one alone is not inductive, because a rerun after a crash may publish
the copy. `Base` therefore says of each of the three that it agrees with the
disk (`DocSound`): an action's state tells under which of its three names an
object lies, or lay before the one rename that the next receipt is to record
(`PlainRow`, and `MergeRow` for a merged `config.toml`); `SelectorSound` and
`StatusSound` do the same for the selectors and the status. `MergeSound` says
that only a staged merge can make two receipts tell different stories about the
Codex file, and `OrderSound` that selectors and receipts are begun one after the
other. `Phase` says what a command knows besides: at each of the 34 steps of `Program` which
version of each object lies where (`InstallRow`) and what the receipt has
recorded (`InstallReceipt`), that a rollback works only on rows that its
preflight accepted (`RollingSound`; an edit that refuses the merge is not among
them), and how it may have come to its place
(`PlaceSound`). `OriginalKept`, `StatusTruthful` and `OutcomeWhole` follow from
these two; `RollbackOnlyRestores` too, from the seven actions that move a target
or a selector at all (`Mover`).

Why a command refuses needs a third invariant, `Reasons`, for an install that
refuses recovers first and reports later. `RefusedSound` is inductive only with
`RefusingSound` (the reason is kept through that recovery, or the pending selector
stays and is itself the reason), with `RollShown` (a rollback has a receipt that a
selector shows or showed) and with `EditedOnce` (a merge replaces the edit it was
made from). The lemmas `PreflightOrStuck` and `ValidOrStuck` are the heart of it: a
receipt that agrees with the disk passes the two checks of `cli.py` or is in one of
the states that `Stuck` lists. So that list is complete for any number of crashes,
faults and edits, not only for the few that TLC tries.

**UpgradeCleanup.** `UpgradeInv` speaks of documents, not of journals: what a
journal says of the caches (`Sound`: an inode it names was given out, one it
calls removed is gone or was made again) must be true of a temporary copy that
is newer, for a recovery may publish it, and such a copy must be one that
`save_record` accepts after the journal (`JournalSound`). `Renewed` names what
each command asks for, and of that alone the journals' part is proved; that
nothing else touches them (`JournalsGoOn`) gives `JournalFollows`. `PlaceSound`
says what prepare, finalize and restore know at each of their places: which copies
are gone, that the release has no other live journal, that a candidate is in the
cleanup's rest. `RemovalSound` keeps the deleted tree the one that was meant and
without a holder, from the look at the leases to the last file; a script that
runs has its tree (`ScriptsSound`). A restore that lost its release is of a
registration that was retired (`lost \subseteq Retired`).

**RegistrationPublish.** That no edit is lost is not inductive: the exchange at
the end trusts a document written long before, possibly by a command that has
died since. The invariant (`Safe`) therefore says what the documents promise:
each names two files that go back to the same edit (`Documents`), the copy on
the second volume goes back to it too and exists only between the intent and the
move (`Copies`), the cache is published before `config.toml` (`CacheFirst`), what
a finished step removed stays away (`Gone`), and what is published was not made
by the user (`Ours`). `Newest` then follows an edit that is saved between the
look and the rename, or the rename and the next look, through the exchange.

**AssetAcceptance.** `AcceptanceInv`: evidence that was adopted came from a worker
that ended by itself (`WorkerSound`, `EvidenceSound`), a summary that claims
anything is that of the evidence and both stay (`SummarySound`), and a seal
follows from the summary for the one who wrote the review (`SealsSound`,
`ReviewSound`).

**SmokeHarness.** `SmokeInv` ties the registry to the groups: what the directory
holds of a group is as far as the group has come (`GroupSound`), and what the
worker believes of a child is so (`KidSound`), so that a worker which exits "ok"
has left nothing, neither process nor record. The recovery test begins to clean
up only when its worker's group is gone or was killed (`FlowSound`); from then on
a scan that saw nothing under way and did not fail has found, or still has to
read, every group that is not finished (`ScanSound`), which is what the last scan
hands to `NothingForgotten`.

What stays with TLC: everything under fairness and `ENABLED` (liveness is out of
the prover's reach: `EveryRequestEnds`, `TransportSettles`, `BothSettle`,
`RemainsRemoved`, `OldestReported`, `EveryRecordEnds`, `EveryCallEnds`,
`RerunSettles`, `CommandsEnd`) and what recursive definitions compute (induction
over data is). Every safety property that a passing run checks is a theorem.

## 5. Findings

Two runs are expected to end in a violation.

`discovery_tail`, of the architecture's sentence that a
limited scan reports through `partial` what it did not cover
(`docs/architecture.md:80`): a scan that only takes what the scans before it
left over is marked whole (`server/core/discovery.py:314-324`), its short list
is cached, and a tool that finds an instance missing from it answers
`INSTANCE_NOT_FOUND` without `retryable`.

`installer_resume`, of the skill's sentence "After an interruption, rerun the
matching recipe: the installer resumes its own recorded intent"
(`plugins/blender-mcp-installer/skills/install-official-blender-mcp/SKILL.md:24`):
the native restore of the Codex file moves the installed file to the recovery
path and journals `RESTORING` only then; killed in between, the action is still
`COMPLETED`, for which `preflight_codex_rollback` demands the original at the
recovery path (`codex_adapter.py:1352`). Every later install and rollback
refuses. The trees and `userpref.blend` have the same gap, but
`_native_rollback_tuple_valid` accepts the row.

`Stuck`, `TornTemp` and `UnlistedPair` in `InstallerTransaction` list the other
states in which a rerun refuses; `RefusalsExplained`, a part of the theorem
`ReportsAlwaysTrue`, shows that there are no more. They are what the code chooses (reject what it cannot explain), but a
reader should know them: an object staged under an action still `PLANNED`, a
bundle or a state file cut in half, a selector published but not recorded, a
`pending.json` that an in-process rollback left behind (`cli.py:576` accepts it
only for a `PREPARED` receipt), receipt rewrites missing from
`_receipt_transition`, an edit of `config.toml` out of which the managed values
cannot be taken (a user may undo that and rerun), and a further edit once a
merge has been staged.

Observations that have no run of their own, each allowed for in the model:

* *Driver.* A `stop()` of the user's unregisters the timer whatever else of it
  fails (`driver.py:141-148`), so nothing retries an incomplete one until the
  user stops or starts again. A start that fails and whose two cleanups fail is
  logged and raised (`lifecycle.py:245-250`); the driver never held that session,
  and its socket, thread or files stay until Blender ends (`lost`).
* *Transport.* `stop()` resets `send_offset` although the comment at
  `lifecycle.py:413` leaves the field to the I/O thread; harmless, since the
  outbox is cleared with it.
* *Discovery.* The grace period of a candidate is kept by its inode number
  (`discovery.py:681`), so a new directory that is given the number of one just
  removed would inherit its age; the model uses an identity once. Any error in
  reading `session.json` counts as unreadable and starts or continues that
  period (`discovery.py:663-692`): two of them more than `GRACE_SECONDS` apart
  with no successful read in between, or one after a first look at a directory
  that was still being made, remove the files of a session that lives
  (`LiveUntouched` excuses exactly these, as `misjudged`; such a server also
  removes `session.json` while the fallback directory stays). A candidate that
  is unreadable within its period is left out of a scan that still calls itself
  whole (`discovery.py:342`).
* *Adapter.* `adapter.py:295` looks at a result of `Discovery.invalidate` that is
  always `True`; the branch for the other is never taken.
* *Upgrade.* A row that is pending because a script holds its lease is carried to
  the next journal and cites the older journal's file as its proof
  (`upgrade_discovery.py:251-260`). Retiring the older journal
  (`upgrade_cleanup.py:254`) rewrites that file, and the row turns into a
  conflict although nobody touched its directory. Three upgrades with one
  script running are enough; the directory stays where it is.
* *Registration.* A death in the middle of the copy to the second volume, of the
  cache, or between the making of the evidence directory and its files leaves a
  state a rerun refuses (`Registered` names all three). An edit of `config.toml`
  saved while it is being exchanged can end at the private stage name with an
  older file in place: if the command dies before it has looked again, or if the
  edit comes after the exchange and before the swap back. It is whole there, but
  every rerun refuses and nothing puts it back (`EditsKept` names this).
* *Smoke tests.* A record scanned while it is renamed is remembered under its
  temporary name; under its final name it is taken for another, and the last
  `SIGKILL` finds neither (`process_registry.py:441`, `549-580`). The test then
  fails, but the group lives. In the NFR test a group that publishes itself after
  the last `SIGKILL` is reported and left alone.
* *Acceptance.* A tool edited between `verify_tools` and `run_r0` ends in
  `REJECTED` rather than `UNVERIFIED` (an `r0` finding), also when it is put back
  at once: of a run of kind *interchange*, `RejectedForCause` admits `r0` as a
  cause. A review or run that loses the race for `review.json` reports
  `UNVERIFIED` while `completion.json` says `SHIP` or `REJECTED`. A command killed between
  `review.json` and `completion.json` leaves a run that `finish_review` cannot
  complete. A delivery that is killed, or loses against another, leaves its bytes
  without a receipt. A run of kind *interchange* that R2 blocks is reported as
  `evidence_missing`, where the design document
  (`2026-09-08-asset-acceptance-integration-design.md`, about line 101) keeps
  `check_failed` when nothing but the asset failed.

## 6. Plan

1. The upgrade's handoff: the quiescence barriers, the binding of a receipt to a
   workflow and the runtime lease, composed with `InstallerTransaction`.
2. An abstract specification of the installer's transaction (original, installed,
   or on the way to one of them) for `InstallerTransaction` to implement.
3. Proofs of liveness, with a prover that has a rule for fairness: the invariants
   of section 4 are what they would start from.

## 7. Not modelled

* Pure functions over bytes and documents: framing, envelope, authentication,
  hashes, capabilities, the acceptance policies and measurements, the merging of
  TOML. Their verdicts are choices in the models.
* Private runtime directories: they are made under a umask of 077, so nobody sees
  them open; the checks of owner and mode guard against others.
* Configuration and version tables, which have no state; build and release
  scripts, and patches against another project, which are sequential I/O.
* The installer's upgrade handoff and entry (section 6).
* Of the installer: `inspect` and `verify` (they write nothing), the quiescence
  barriers, the binding of receipts to upgrade workflows, edits of the user
  during a command and of other objects than `config.toml`, checks of ownership
  and modes, the probing of the environment.
* Of the upgrade and the registration: schemas and file images, findings that
  only reach a report, recoveries of the runtime and the extension, the
  projection from git, the `verify` command.
* Of the smoke tests: what they measure, the runner's phases before the NFR
  helper, artifacts. Of acceptance: `freeze`, the sampler of memory and the log
  budget as numbers, the priority among failure families.
* Inode numbers and process ids that are given out again.

`PROJECT.json` lists every part with what is left out of it.
