# Verification of the RO launcher

TLA+ models of the launcher's concurrent and persistent core, the TLC runs that
check them on small instances and the theorems TLAPS proves about them for every
instance. `PROJECT.json` maps every definition to the lines it models and lists
the runs, the mutants (a plausible bug for every property, which TLC must
catch), the hazards and the theorems.

Contents: [the system](#the-system), [what was modelled](#modules-and-code),
[runs](#runs), [bounds](#bounds), [fairness](#fairness), [proofs](#proofs),
[findings](#findings), [known gaps](#known-gaps-of-the-code),
[what is left out](#left-out), [plan](#plan).

## The system

The launcher is a Tauri application: a React frontend calls asynchronous Rust
commands, which run Ragnarok Online clients under Wine or Proton. The Rust side
is multi-threaded (tokio); a command's future may be dropped at any await, a
spawned task runs on its own. Three more processes matter: `ro-sessiond`, one
supervisor per Wine prefix; `ro-inputd`, which reads the keyboard; and the game
with its patcher, which fork, restart and die as they like.

| Component | State | Operations | Hard part | What makes it correct |
|---|---|---|---|---|
| **ro-sessiond** (`crates/ro-sessiond`) | request ids, controllers, in-flight count, phase, deadlines | Launch, Shutdown, forced shutdown, reap, signal | children fork and die between a scan and a `waitpid`; the client dies; SIGTERM is ignored | `Stopped` means no process is left; events pair; a shutdown ends |
| **Runner session registry** (`tools/runner_sessions`) | startup locks, sessions, leases, active requests, idle generation, closing flag; waiters and frames per connection | begin operation, attach client, launch, idle timer, shutdown prefix, shutdown all | cancellation at every await, timers racing leases, close racing a startup, half-written frames | one supervisor per prefix; a leased session is not stopped; no supervisor without an owner; an idle session stops; no exit is lost |
| **Game clients** (`state/game_process.rs`, `tools/launcher/session.rs`) | entries Launching/Running, identities, controllers, stop flags, relaunch admission | launch, detect, promote, hand off, stop, stop all, finish | two searches find one process; stop during detection or handoff; the last exit races a launch | identities are exclusive; nobody else is signalled; a stop ends the client |
| **Combat tools** (`tools/session.rs`, autopot, autobuff, spammer) | task, configuration and identity channels, the loops | start, stop, handoff, tick | start and stop race launches, exits and handoffs | a tool runs only with exactly one client; a stop returns |
| **Input worker, ro-inputd** (`tools/input`, `crates/ro-inputd`) | two queues, latch, pressed keys | submit, cycle, release, shutdown | a cycle queued before a release, a press that fails | no key stays pressed, every click is the intended one |
| **Memory sessions, scanner** (`tools/memory_sessions`, `autopot/scanner.rs`) | session and generation per process, scan state | register, drop lease, begin/refine/cancel scan, search | a lease dropped late, a scan that ends after its successor began, a reused pid, a match on a chunk border | a drop removes only its own session; a result is of this scan and this process |
| **Prefix recovery** (`tools/prefix`) | marker files, backup and partial trees | recover, managed transaction, setup, reset | a crash between two system calls, an error after a rename | a complete prefix survives, unverifiable data is kept, no half prefix is used |
| **Binding, runtime plan** (`tools/runtime`, `commands/prefix.rs`, `utils/runner.rs`) | derived prefix path, probe, plan, environment | resolve, recover, launch | the runner, the prefix or the wrapper changes between two reads | a command works in its own prefix; the environment matches what is there |
| **Operation locks** (`utils/operation_lock.rs`) | readers and writer per key, one `fcntl` lock per key | acquire, release | process-wide lock semantics, death of a holder | exclusion within and across processes |
| **JSON documents** (`utils/json.rs`, settings, servers) | file, backup, temporary file | load, save, quarantine | power loss between rotation and rename | a load returns some document that was saved |
| **Artifacts** (`tools/artifacts`) | staging tree, activation slot, receipts | fetch, verify, activate, recover, sweep | crash around the exchange | the active runtime is one whole tree |
| **Server tools** (`tools/server_tools`) | wrapper files, backups, manifest | install, uninstall, launch a tool | failure between two files | the user's files survive |
| **Installations** (`tools/installations`, `servers.store.ts`) | run state, cancellation, servers file | reserve, run, confirm, cancel, save | cancellation racing the installer, two writers of one file | one final state; an installed server stays |
| **Updater** (`tools/updater`) | owned slot, candidate, phase | check, install, relaunch | dropped waiter, stale census of clients | one download; a relaunch only without clients |
| **Records** (`tools/runtime/*_store.rs`, `commands/benchmarks.rs`) | observations, benchmark runs | start, finish, attach, capture, judge, prune | tasks write out of order, a client exits before the lock | a run is about the process it names |
| **Presence** (`tools/presence`) | tracked clients, last publication | register, handoff, unregister, sample | broken connection, sample of an old process | nothing is shown for a client that is gone |
| **Frontend stores** (`src/features`) | clients, settings, revisions | events and answers | answers out of order | the newest information wins |
| **Environment checks** (`tools/deps`, `tools/environment`, `utils/prefix.rs`, `runners/managed.rs`) | none of its own: it judges host, runner, prefix and manifest | check, prepare, rebuild, launch | nothing locks the answer; two buttons; the same rules are written in five places | what is called ready launches, what is offered is possible, what was prepared is ready |
| **Discovery, views, shell** | mostly stateless | | | see PROJECT.json |

How they interact. `launch_game` reserves an entry (**game clients**), resolves
its **binding** and its **plan**, takes operation guards (**operation locks**),
gets a lease from the **registry**, which starts **ro-sessiond** and asks it to
fork a controller; it finds the game process, registers its **memory session**,
promotes the entry and spawns the exit task. The exit task follows the game
through handoffs, publishes them to the **combat tools** and to **presence**,
and at the end releases everything and closes its **record**. The **updater**
closes the admission of clients and installations while it relaunches. The
frontend hears of all this through events and re-reads the lists.

## Modules and code

### `Sessiond` (with `MCSessiond`, `SessiondProofs`)

The whole main loop of `ro-sessiond`. `pc` is the stage of the iteration:
`top` (parent check, SIGTERM flag), `stdin` (at most one line), `reap`
(`drain_reap_events`), `signal` and `reap2` (`advance_shutdown`), `tail` (Idle,
Stopped). Each turn of the drain loop is one action, so children may fork or die
between any two. `requestIds`, `inFlight`, `controllers`, `shutdownId`,
`forced`, `deadline`, `term` and `lastEchild` are the fields of `Supervisor`;
`stdout` is the history of events. A controller is named by its request;
it may fork one descendant, which becomes an orphan of the subreaper when the
controller dies. `HandleLine` is `handle_line`: launch and shutdown with every
early return, the failed fork and the identity that cannot be captured. The
deadline and the two seconds after SIGTERM are `armed/passed` and `sent/due`.

### `RunnerSessions` (with `MCRunnerSessions`, `RunnerSessionsProofs`)

`RunnerSessionRegistry`. Variables are the fields of `RegistryInner` and
`RunnerSessionInner` (lease counters as the sets of their holders;
`idle_generation` as the set of copies that still equal it). A caller's `pc`
names the await it is at: `begin` (waiting for the startup lock), `bootstrap`,
`handshake`, `insert`, `unwind` (a startup that found `closing`), `awaiting`
and `quiesce` (waiting for a shutdown task), `leased`, `attached`. `Cancel`
drops the future at any of them. Shutdowns are records in `task`, one per
caller, per idle timer and per prefix at close: `queued` for the lock,
`stopping` (`shutdown_session_locked`), `killing` (`fail_session` with the
Child), `forcing` (after the time limit of `shutdown_all`).
`schedule_idle_shutdown` is three actions (test, draw a generation, fire), since
its loads are not atomic. The supervisor is a process that stops when asked,
dies, or whose pipe breaks.

### `SessionLink` (with `ServicesProofs`)

Between the two: `protocol.rs`, `exec.rs` and `SupervisedProcess`. Callers, the
detached tasks that write their requests and the reader of the events are
threads that share maps of waiters, each with a lock of its own; every lock
section is one step, so an exit can pass between the lookup of
`completed_exits` and the registration of its waiter. `wire` holds halves of
frames; a write that times out may leave the first half. `set_fatal` is several
steps (`failing`). The order of the supervisor's events, assumed here, is what
`RequestsPair` of `Sessiond` says.

### `GameClients` (with `MCGameClients`, `GameClientsProofs`)

`client`, `stop`, `ident`, `controller` and `closed` are `RegistryState`; every
method of `GameProcessHandle` is one critical section and one step. A client is
one launch: its `pc` runs through `launch_game` (`admit` ... `promote`, with
`abort` for every error), then through the exit task (`watch`, `handoff`,
`reregister`, `replace`, `publish`, `terminate`, `finish`, `cleanup`).
`cmd` is the command that holds `tool_lifecycle`; `LifecycleFree` is the free
lock. `memory` is `MemorySessionRegistry`, reduced to who registered the current
session of a process, which is what a generation decides when a lease drops.
Processes are identities (pid and start time), never reused.

### `ToolLoop` (with `MCToolLoop`)

`SessionController` and the select loops of autopot and autobuff with the
decision of a tick. A branch of the select runs to its end; a session can be
aborted only at the select. `command` is the holder of `tool_lifecycle`, which
starts, stops (with the time limit) or replaces a session; handoffs reach the
loop by the identity channel without that lock. `loopAt = "locked"` is the loop
that waits for its own status mutex (finding 3).

### `InputWorker`, `Spammer` (with `MCCombat`, `CombatProofs`)

`InputWorker` is the thread behind the virtual keyboard and mouse: the high and
the normal queue with their capacities, `spam_generation` and
`cancelled_through`, the latch of the spam inputs, and a cycle cut at the sleeps
after which the code reads the generation again. Writers get a sequence number,
enqueue, and wait with a time limit. `Spammer` puts the loop on top (one select
with a fixed order of branches), its cycles on the blocking pool, the gear
switch, the events of `ro-inputd` and autopot as a second writer; sessions are
stopped, aborted and started again while cycles of the old one still run.

### `PrefixRecovery` (with `MCPrefixRecovery`, `PrefixRecoveryProofs`)

Recovery keeps no journal: what an interrupted setup or reset was doing is
inferred from the names found in the root, the backup and the timestamped
backups of older builds. So `exists` and `entries` are the directories, and
`RootState`, `BackupState`, `plan` and `Decision` are the classification and the
table of `recovery.rs`; `TransactionGate` is what resolution reads of it without
the guard. Every create, rename and unlink is one action; `delete_tree_last`
removes its entries in any order but the authorising one last. `Crash` may come
between any two, and each call may fail (`RecoveryFails`, `TransactionFails`,
`OperationFails`; the manifest writer can also fail after its rename). All
writers hold the exclusive guard of the prefix, so `op`, `pc`, `ret`, `todo` and
`authority` are the locals of the one operation inside it; a setup or a reset
between its two guarded sections is in `waiting`, and everything may have
changed when it resumes. `owned` (directories that were once configured) and
`lost` (a manifest damaged from outside) are history.

### `PrefixBinding`

Which directory a command about a server uses. The path is derived from the
digest of the runner's material, which the user may replace at any time. A
command resolves (pending transactions first, then the recorded candidates, then
the path of the material), recovers there, resolves again, and sets up, resets
or launches; several run at once and the launcher may be killed in any of them.
Inside a directory only the steps other commands can see are modelled;
`PrefixRecovery` has the rest. `alien`, `raced` and `done` are history: `raced` are
the directories where a command went on with a binding to a transaction that
another one had worked on since. `BindingIsSound` excepts them;
`DecisionsAreCurrent`, the code's own claim about setup and reset, does not and is
violated (finding 4).

### `EnvironmentCheck`

What `check_dependencies` answers and what is then done with the answer. The
window asks, prepares when `can_setup` says so, asks again and launches
(`useLaunchGame.ts`, asker "play"); the rebuild button (`PrefixResetButton.tsx`,
asker "rebuild") works on the same prefix at the same time. `setting` (scope,
WebView2, whether the path is a plain directory), `selected` (the runner: family,
source, VKD3D, DXVK, verbs), `installed`, `hostState` and `game` are what is
judged; `disk`, `pendingMark` and `resetBackup` are the prefix as `inspect_prefix`
tells it (data absent, bare or whole; the record none, damaged, legacy, v2 or v3,
of this place and runner or not); `workedBy` is the exclusive guard and `request`
one asker's stage, the answer it saw and history: `fresh` (nothing was changed
under it since it asked) and `touched` (the user interfered). `RuntimeStatus`, `managed_runtime_pending` and
`apply_host_checks` are the answer; `NoBlockers` and `ValidateRuntime` the launch
side; `Way`, `MayWork` and `WriteRuntimeManifest` the preparation side. `ChecksAreTrue` says that the
sides agree: a ready environment launches (`ReadyIsLaunchable`), an offered
preparation is not refused (`OfferedIsPossible`), a prepared environment is ready
(`PreparedIsReady`) and what plays was prepared (`PlayedIsPrepared`). Where the
code does not agree with itself the property names the exception, and each was
checked to be needed:

* a preparation is offered for a prefix whose commit may be pending (recovery
  then fails closed) and for one with an installed game that would need a rebuild;
* for a runner still to be downloaded neither its verbs nor a custom path are
  judged;
* a Proton without DXVK, or an installer of WebView2 that reports success and
  installs nothing, leaves a prepared environment not ready.

### `RuntimePlan`

How `launch_game` and `launch_tool` decide the environment: probe, plan,
`environment_for`, the older path that is still the default and the comparison
between them. The facts are read first, the guards of prefix and wrapper are
taken afterwards, and the reads are repeated under them; in between runners are
replaced, dgVoodoo is installed or removed and prefixes are prepared. An
environment is the set of DLLs it overrides and the variables it sets.

### `JsonStore`, refining `AtomicDocument` (with `StorageProofs`)

`write_json` and `load_json_recovering` call by call on a file system that loses
power: `entries` is the set of contents the directory may still show for a name
until it was synced. `AtomicDocument` says what a caller relies on: a register
whose load returns the last acknowledged value or one written since, and that
damage costs one value at most. `DocumentImplemented` is that specification
under the mapping of `Document == INSTANCE AtomicDocument WITH ...`.

### `OperationLock`, `Artifacts`, `ServerTools`, `RunRecords` (with `MCStorage`, `StorageProofs`, `DeploymentProofs`)

* `OperationLock`: the in-memory registry of each process, the record lock of
  the kernel (external), which a process loses when it closes any descriptor of
  the file, `acquire_for` with retries and processes that die.
* `Artifacts`: one catalogue artifact in its places (`final`, `slot`,
  `previous`, private work trees). A tree is its receipt, the files it has left
  and whether they are the pinned ones; `classify` is `State`. Download or
  import, verification, exchange, recovery, cleanup and sweep, one action per
  system call.
* `ServerTools`: install, uninstall and rollback of dgVoodoo file by file, its
  manifest, edits of the user, and a tool launch that scans before and after it
  takes the guard. Snapshots are taken in the code's order, in a removal the target
  before the preserved copy, and undone from the newest. `lost` is history: what
  may have cost a file (a failed rollback, a kill, a kill in the rollback of a
  removal, an installation repeated after a kill).
* `RunRecords`: the started and finished records that blocking tasks write for a
  launch, and benchmark runs from attach to comparison; a command's facts are
  read in one step and used, under the lock, in a later one.

### `Installations`, `Updater`, `MemoryScanner`, `MemorySearch`, `AddressScanner`, `Presence`, `LauncherStore`, `SettingsStore`, `Window` (with `MCServices`, `ServicesProofs`)

* `Installations`: the draft and its guard, the installer task and its cancel
  channel, confirmation with its two writes, and `servers.store.ts`, whose
  queued snapshots write the same file.
* `Updater`: `run_owned` and its detached waiters, the slot with the downloaded
  release, activation of the AppImage, and `reserve_relaunch`, which closes two
  admissions one after the other. A check compares what is published with
  `currentVersion`, the version of the process, which `image`, the file on disk,
  leaves behind when an activation succeeds or fails past its rename.
* `MemoryScanner`: sessions, leases and generations, and scan commands that
  overlap, are cancelled and meet a process that took the pid over.
  `MemorySearch` computes what such a scan finds: the chunked search with its
  kept tail, and how HP, level, map and name candidates are narrowed.
  `AddressScanner` puts the two side by side.
* `Presence`: the worker's commands, the samples (a character is believed after
  some equal ones and forgotten after some bad ones) and the connection.
* `LauncherStore`, `SettingsStore`: the stores of the window against events
  and answers that overtake each other. A save of settings that fails may be on
  disk (`write_json` renames, then syncs the directory); `outOfStep` is the history
  of such a write, until a load or a write succeeds.

`MCStorage`, `MCServices` and `MCPrefixRecovery` put modules that share no state
side by side: `part`, chosen initially, says which one moves, so the state space
is the sum of theirs. Where one relies on another (a guard, an atomic document,
the order of events) its comment names the module that shows it.

## Runs

| Run | Checks | Shows |
|---|---|---|
| `sessiond` | `TypeOK`, `StoppedIsClean`, `RequestsPair`, `IdleIsTruthful`, `ShutdownCompletes` | With children, signals and client lines (malformed ones and reused ids too) in any order, no process outlives `Stopped`, the count of launches is exact, exits pair with accepts, `Idle` is never false, and a supervisor that began to stop exits, although children ignore SIGTERM |
| `registry_safety` | `OneSupervisorPerPrefix`, `LeaseProtectsSession`, `SupervisorsAreOwned` | Three callers, two plans, cancellation anywhere, idle timers, close with its time limit, supervisor death |
| `registry_liveness` | `ActiveIsExact`, `BeginResolves`, `QuietSessionStops` | Launches pair with exits; `begin_operation` ends; an unused session is stopped in spite of the races on `idle_generation` |
| `clients` | `IdentityUnique`, `ToolsHaveOneClient`, `RelaunchExcludesClients`, `OthersSpared`, `StopEndsClient` | Two launches with handoffs, stops at any point, tools and a relaunch |
| `prefix_recovery` | `RollbackOnlyUncommitted`, `RestorableIsWhole`, `RecoveryConverges`, `LaunchesAreTrue`, `DataSurvives`, `ProtectedRootsKept` | Setup, reset and recovery with a kill or an error at any system call: the user keeps a complete prefix, unverifiable data is never deleted, recovery refuses only what is ambiguous and needs no second pass; commands find their own prefix after the runner changed (but for finding 4); a launch runs in the environment that is really there; what the environment check promises holds |
| `combat` | `ReleaseIsFinal`, `ActiveHasWork`, `ClickIsIntended` | After a release, and at rest, nothing the spammer pressed is down; an active key has exactly one of timer and cycle; a click comes with its key and with Shift exactly when wanted |
| `storage` | `GuardsExclude`, `ActivationSound`, `WrapperIsSound`, `RecordsAreSound`, `DocumentImplemented`, `TreesSurvive` | Exclusion across processes; only verified trees are activated and a ready one is never lost or reverted; the user's files survive dgVoodoo, but for the cases `OriginalsSurvive` names; records agree with the processes they are about; documents are atomic |
| `services` | `DraftsAreSound`, `UpdateIsSound`, `LinkIsSound`, `ScannerIsSound`, `ShownIsCurrent`, `WindowsAreTrue`, `InstalledStays`, `CancelEnds`, `LifecycleFrees` | See the modules above; `LifecycleFrees` is `StopReturns` without the defect of finding 3 |
| `dead_session` | `DeadSessionFails` (violated) | finding 1 |
| `handoff_memory` | `HandoffSparesOthers` (violated) | finding 2 |
| `autopot_stop` | `StopReturns` (violated) | finding 3 |
| `stale_binding` | `DecisionsAreCurrent` (violated) | finding 4 |

Several properties are conjunctions of named parts that concern one promise:
`RequestsPair` (`InFlightExact`, `EventOrder`), `SupervisorsAreOwned`
(`NoOrphanSupervisor`, `ClosedIsDrained`), `RecoveryConverges`
(`ClosedOnlyWhenAmbiguous`, `RecoveredIsStable`, `GateAgrees`),
`LaunchesAreTrue` (`LaunchIsTrue` of `RuntimePlan`, `BindingIsSound` of
`PrefixBinding`, `ChecksAreTrue` of `EnvironmentCheck`), `ScannerIsSound`, `WindowsAreTrue`, `RecordsAreSound`,
`WrapperIsSound`, `UpdateIsSound`, `LinkIsSound`, `ReleaseIsFinal`. They usually
have a mutant for each part. The modules also state type invariants; only
`Sessiond`'s is a property of a run, those of `RunnerSessions`, `OperationLock`,
`JsonStore` and `Presence` are part of a theorem, and the others were checked by
TLC on the instances of the runs and hold.

Deadlock is not checked: every one of these systems may come to rest (the
supervisor exits, callers are done, clients are gone, a prefix that fails closed
waits for the user).

## Bounds

* `Sessiond`: three request ids (two launches, one shutdown), one unread line,
  `MaxInFlight` 1, one controller that forks. Three lines of any kind in any order; a
  fourth only as the shutdown that follows two launches, the forking one first
  (`FourthLine` of `MCSessiond`, which holds back the client alone, of whom no
  fairness is assumed). Two launches are needed to reach the limit and to reap one controller
  while another runs; an orphan, a zombie and a live controller can exist
  together. The code's limit is larger, but only the comparison matters.
* `RunnerSessions`: one prefix (prefixes share no state but `closing`), three
  callers with two plans, two supervisors per run: a session, its replacement,
  and a third party between them.
* `GameClients`: two launches and three processes: two controllers and one more
  game, or one controller and two games, so that a handoff and a competing
  search can meet.
* `PrefixRecovery`: two payload parts (so that a tree can be half deleted) and two
  legacy backups (so that the choice can be ambiguous). Crashes, retries and
  operations are not bounded: the state is finite without it.
* `PrefixBinding`: two materials and the older path scheme, two commands at a
  time and three in all, one replacement of the runner and one kill: a
  transaction interrupted under one material, resumed under the other by one
  command while another works. `RuntimePlan`: one launch against one change of
  each kind, over every target, every runner path and four builds (the validated
  Wine, one with its version but another layout, one behind a link, a Proton).
* `EnvironmentCheck`: both askers, the three scopes, and `MaxEvents` 2, which
  counts questions, acts of the user and kills together: both buttons at once, or
  one button and a change, damage or kill between any two of its steps. Seven
  runners: each family, each source, and two pairs under one name so that a runner
  can be replaced by a build without DXVK, VKD3D or verbs. What earlier sessions
  left is in the initial states (`Left`): every form of record, with and without
  an interrupted transaction and its backup.
* `combat`: three scenarios that share the state space: two sessions with a
  failure; a potion and a gear switch with two cycles; two cycles, a failure and
  gear. The high queue holds two and the normal one one, so both can be full.
* `JsonStore`: three documents, three saves, two losses of power, one I/O error,
  one damage. `OperationLock`: two processes of three tasks. `Artifacts`: two
  files (a tree can be partial), two operations, one kill, one error, one damage
  by the user. `ServerTools`: two files, three operations with one kill, error
  and edit. `RunRecords`: two launches, two benchmark commands at once, record
  limits of one, so pruning happens.
* `services`: two runs of an installer, two edits and a fault; four requests for
  two releases from two windows and a restart; two requests on a link; two scan
  commands over two processes that share a pid; two players with four
  commands; two client ids and two refreshes; four edits of settings. `MemorySearch` has six
  addresses in chunks of two, ranges that touch, cross and exceed the limit, and
  needles longer than a chunk.

No symmetry is used: the liveness runs forbid it and callers have roles.

## Fairness

* `Sessiond`: weak fairness of the loop, which sleeps 100 ms and never blocks,
  and of the two clocks. Nothing is assumed of children, client or signals.
* `RunnerSessions`: spawned tasks run, timers fire, callers give their leases
  back, and a request is answered or fails with the pipe (its time limit).
  Nobody need launch, exit, cancel or close.
* `GameClients`: tasks and commands make progress (every wait in them has a time
  limit or ends with a process that was signalled); a signalled process dies,
  because SIGKILL follows SIGTERM after two seconds; `Finish` is strongly fair
  because tokio's mutex serves its waiters in order, so commands that come and
  go cannot keep an exit task from `tool_lifecycle`.
* `Installations`: the spawned task of a run makes progress once cancelled
  (`TaskRuns`): its wait selects on the cancel channel. `ToolLoop`: the loop
  reacts to what its select has ready and the command that stops it goes on, its
  timer included (`LoopReacts`, `CommandStep`). Nothing is assumed of the game,
  the user or the handoffs.

## Proofs

TLAPS checks every leaf. Constants are arbitrary (any set of ids, callers,
clients, processes, files; any bound) under the named assumptions of the modules,
which only keep markers apart from members (`NoClient \notin Clients`, `NoId \notin
RequestIds`, `NoRefreshId \notin Refreshes`, `Requests \cap {NoRequest, Reader} = {}`, the documents are not
`Torn`), bounds natural, and what is counted finite (`RequestIds`, `Ops`,
`Tasks`, `Digests`), or name the enumerations of the code (the invocation targets,
the two askers, the scopes, what a probe can say of a build). No invariant named in the runs is inductive as it stands; each proof
rests on the strengthening given here, which TLC checked on the run's instance
before it was proved. One lemma per action shows that it is kept, under it one
step per conjunct that the action disturbs; a lemma about all remaining actions
covers those that leave its variables alone.

`SessiondProofs`

* `SessiondTypeCorrect`. By action; the Boolean variables have a lemma of their
  own.
* `StoppedMeansClean`. That nothing is alive when `Stopped` is written depends on
  the loop position. `StopInv` adds that phase `Stopped` occurs only at `tail`
  and `exited` and implies that no child is left; from no children no action
  but a launch, refused once the phase is not `Ready`, makes one.
* `RequestsAlwaysPair`. `CountInv`: every process that exists is in the tables,
  an id is used once and the shutdown request, which ends phase `Ready`, is
  never a launch; the count then changes as the cardinality of the set it
  counts. `WireInv` ties every process to the events about it: announced when
  it forks, its exit when it is reaped, nothing after `Stopped`.
* `IdleAlwaysTruthful`. `IdleInv`: an `ECHILD` seen in an iteration is still true
  at its tail, because only a line read earlier in the iteration makes children.

`RunnerSessionsProofs`

* `OneSupervisorAlways`, `LeasesAlwaysProtect`, `SupervisorsAlwaysOwned` and
  `RegistryTypeCorrect`, from `SessionInv`. `NamesInv` and `RegisteredInv` say
  what names a session may be given. `CallerInv` and `TaskInv` say what each
  place of a future or a task relies on after its await: a startup holds the lock
  of its prefix, nothing is registered and before the spawn no supervisor of the
  prefix is left; a task that stops or kills holds the lock and nothing but its
  session is registered. `OwnerInv` lists the four owners of a live supervisor
  (registered, about to be, in a handshake, or of the task that took the
  `Child`); `CloseInv` is what a finished close task leaves.
* `ActiveAlwaysExact`, from `RequestInv`: a launch that is not counted while its
  controller runs has broken the pipe first. The count is the cardinality of a
  set of callers.

`GameClientsProofs`

* `IdentitiesAreUnique`, `RelaunchIsExclusive`, `ToolsAreOwned`, from
  `ClientInvariant`. `ToolsHaveOneClient` speaks of moments when the lock is
  free; `ClientInv` says what holds in between: labels agree with the entries,
  `tool_lifecycle` has one holder, and a running tool has its sole client or the
  holder is about to stop it. One lemma (`QuietStep`) is for all steps that touch
  neither entries nor the lock.
* `OthersAlwaysSpared`, from `ClientInv /\ SpareInv`: who a process belongs to is
  decided long before it is signalled. `PlaceInv` says why the decision still
  holds: the baseline of a search covers the controllers and games of the others
  until the search is over, what it found is none of theirs, a controller that
  is the game itself is found first, and who follows or gives up its game has
  seen it end. `ControllersApart` keeps controllers to their launch; `TargetInv`: a
  command holds only processes of clients it has asked to stop, or that are gone.

`PrefixRecoveryProofs`

* `RollbackOnlyUncommittedHolds`, `RestorableIsWholeHolds`, `DataSurvivesHolds`,
  from `RInv`. None is inductive, because what a step may delete was decided
  several system calls earlier. `DiskInv` (a manifest implies ownership, P
  excludes it), `WholeInv` (only the backup may be owned and incomplete; it then
  carries a tombstone and the root is owned), `StepInv` (a root being discarded
  is not owned, a directory about to be restored is whole, a backup is purged
  only beside an owned root) and `AuthorityInv` (P is reinstated only while the
  manifest was never renamed). A lemma per kind of disk change (`RootEdit`,
  `BackupEdit`, `DirRemoved`, `DirMoved`, `ManifestWritten`).
* `RecoveryAlwaysConverges`, `ProtectedRootsAlwaysKept`, from `RInv /\ CInv`, which
  says which combinations of entries an interrupted transaction can leave:
  `ShapeInv` per directory, `CoverInv` for a root beside a backup, `PlaceInv` for
  each position of the operation. That a recovery which ended has nothing left
  to decide (`RecoveredIsStable`) follows because `Decision` is `Nothing` at every
  place where it ends well.
* `LaunchesAreAlwaysTrue`, from `PlanInvariant`, `BindingInvariant` and
  `CheckInvariant`, one for each of the modules that `MCPrefixRecovery` puts side by
  side.
  * `BindingInv` (of `BindingIsSound`). What a command discovered is long past when it
    works. `HoldsGuard`: whoever changes a directory holds its guard, and its marker
    says how far the transaction is. `Knows`: every interrupted transaction that nobody
    works on (`Deserted`) is among the `pending` of a command that still decides, and
    what was pending still blocks unless another command was there (`disturbed`); a
    command that resolved again leaves none. `Placed` concludes where it stands.
    `FilesLawful`: a directory records its own making unless commands raced there.
    A step of a command is `Mild` to the others: it leaves guarded directories alone,
    deserts none and ends no transaction unseen (`OneLocation`, `OthersLawful`).
  * `PlanInv` (of `LaunchIsTrue`): what an invocation read before it took its guards
    (`ReadRight`), what it knows again once it holds them (`StaysTrue`), and whom its
    guards exclude (`Excludes`).
  * `CheckInv` (of `ChecksAreTrue`): of an asker under whom nothing has changed
    (`fresh`), `Ahead` says what its position promises of the steps still to come and
    `Behind` what the steps taken have established.

`StorageProofs`

* `GuardsExcludeHolds`, from `LockInv`: the counters of each registry are the
  number of guards of its process, the record lock is held in the mode of the
  strongest of them, and the kernel excludes between processes.
* `JsonImplementsDocument`: `JsonSpec => DocumentImplemented`. `JsonInv` says how the
  pair that the directory may show relates to the two files at each point of a
  write. The initial state maps to the initial state, and every step (system
  calls, loss of power, error, damage from outside, quarantine) to a step of
  `AtomicDocument` or to a stutter.
* `RecordsAlwaysSound`, from `RecordsInv`. `TaskInv`: a launch has one blocking task at
  a time, and an observation that is open after its launch has a task to close it
  or lost a write. `RunInv`: a capture began on a process that lived, or its
  process is gone for good, which stays true because a process never returns
  (`NoProcessReturns`) and a later one has a larger number; and what a command
  read before it took the lock of the store still fits when it gets it: only the
  command that will attach a run knows its id, and one that read a capture in
  progress on the process of the run read it while that process lived.

`DeploymentProofs`

* `ActivationAlwaysSound`, `TreesAlwaysSurvive`, from `ArtifactsInv`. `SourceInv`: what
  may become the artifact came from a verified archive, at each step before the
  exchange; `CleaningInv`: what is being removed carries the tombstone or no
  receipt and is not the runtime itself, and where its end and its failure lead;
  `ReadyInv`: after the last inspection or the activation the runtime is Ready
  unless the user damaged it.

* `WrapperAlwaysSound`, from `ToolsInv`: a manifest is complete and keeps the
  backups it promises; an installation overwrites a file only after its backup
  is in place; what a removal has still to write restores what there was; the
  snapshots, undone from the newest, lead back to it; the guard excludes jobs from
  running tools. `EditInv` is about an edited configuration: while files are written it
  is in place, in its snapshot or preserved by a copy that no rollback takes
  away. The theorem excepts what the property excepts: a rollback that failed, an
  installation repeated after a kill, and, for the edit alone, a kill in the rollback of
  its removal ([gaps](#known-gaps-of-the-code)).

`CombatProofs`

* `CoreAlways`, and from it `WorkAlways`, `QuietAlways`, `ClicksAlwaysIntended`. None of
  the three is inductive, because a cycle that was queued clicks much later, when
  the key, the session or the generation may have changed. `CoreInv` dates the
  cycles. Every request of a release draws a new generation, so only a cycle that
  carries the present one may still click (`Fresh`). There is at most one, of the
  current session, and its thread is waiting or has given up (`FreshInv`); while
  the loop waits for a release, or has heard of one, there is none (`TicketInv`).
  `ReleaseInv`: the release the loop waits for is the last in its queue, so no
  older one takes away what a later cycle pressed. `KnownInv`: the worker never
  forgets a Shift or button that is down, hence a successful release leaves
  neither (`CalmInv`). `ShiftInv`: what a fresh cycle left of Shift is what it wants,
  unless it failed. `Slots` says which thread has a call out at each place of the
  loop; `WorkInv`: an active key has its timer or its cycle, never both; `GearInv`
  keeps the gear switch of a dropped loop apart.
* `LinesAlways`, `RunningRestAlways`, from `LinesInv`: reading the lines still in the
  pipe, in order, leaves in `held_keys` exactly keys the user holds and Alt did not
  pass on. So a running session at rest holds nothing down, however many calls
  fail.
* `ReleasesAlwaysFinal`, for at most one failure (`MaxFaults <= 1`). A session ends
  with two releases, one of the loop and one of its guard: `RestInv` says that one
  of them went through. With two failures the property is false: both releases
  fail, and what they were to release stays down until the worker's file is
  closed.

  A hundred steps act on the same few variables; they are sorted by what they do
  to the calls, the queues and the device, and every part of the invariant is
  proved once per kind of step. The proofs assume that the threads of different
  sessions are different threads (`ThreadsAssumption`), that keys are not the
  markers (`KeysAssumption`) and that every scenario has its bounds
  (`ScenariosAssumption`).

`ServicesProofs`

* `DraftsAlwaysSound`, from `InstallInv`: what can be confirmed was prepared to the
  end, in memory and in the file, and a confirmation holds off every run.
* `UpdateAlwaysSound`, from `UpdaterInv`: the gate is of the one operation under
  way (`GateInv`), `StageInv` says what each of its steps may count on (the slot, a
  release newer than the process and not older than the image), `RelaunchInv` what each half of the reservation
  has closed.
* `LinkAlwaysSound`, from `LinkInv`: one task holds stdin, and half a frame with
  nobody to finish it means that the session failed or is about to (`WireInv`);
  how a session may end (`EndInv`); an accepted controller runs, or its exit is
  in the pipe or was kept (`OwedInv`); a waiter that got no answer is still in the
  map, or something that will answer it is under way (`LaunchInv`, `ExitInv`).
* `ScannerAlwaysSound` has three parts. `ScanAlwaysSound`, from `ScannerInv`: the state
  and every command carry the process and the generation they were reserved for,
  and no later generation exists. `SearchInv`: what was found so far is exact for
  the bytes read so far (`Exact`: every occurrence that lies in them, and besides
  those only matches over a seam), and the kept tail is what makes the next chunk
  keep it so. From some address `t` on, the tail is what the memory holds before
  the next chunk; a match that the next chunk may complete begins at `t` or later
  if all its bytes were read; and what is in the tail before `t` is of a chunk read
  short, so that a match that begins there spans a seam (`Trusted`). `ChunkIsExact`
  is the step of `Exact`, `OverlapStays` that of `Trusted`. They hold for mappings
  of any number and length, needles of any length (longer than a chunk too), any
  size of chunk and word, and every way a read may fall short; assumed is what the
  kernel and the constants give (`SearchBounds`: aligned, sorted, disjoint ranges,
  a chunk of whole words, no empty needle). `HuntInv`: an isolated level next to
  a known address is among the candidates from the first narrowing on, and no answer
  is farther than it; what is left of HP candidates is all that ever fitted.
* `ShownAlwaysCurrent`, from `PresenceInv`: what Discord shows is what the registry
  wants now, or nothing. The type invariant of `Presence` is proved with it.
* `WindowsAlwaysTrue`, from `ListInv` and `SettingsInv`. The id of a client is used
  once and what was removed does not come back (`LifeOf`); what is listed runs or
  something that will remove it is on its way, and what runs is listed or in the
  launch call (`ShownRight`); an answer that will still be taken says the same
  (`CensusRight`). A field is being saved exactly while the write of its last choice
  is queued, older ones before it (`QueueInv`); a load that will still be taken
  found no write queued (`LoadInv`); a write under way carries the other field as
  the window shows it (`WriteInv`); so the file holds what the window shows or will
  go back to (`FieldInv`), unless a write failed with its document on disk
  (`outOfStep`), which the property excepts.

What proving changed. The models were corrected in three places, each faithful to
the source. In `Artifacts`, making the staging tree empties the extraction
inside it. `TreesSurvive` no longer blames a step of the launcher for damage by
the user in the same step's bounds. In `ServerTools` two cases of a record
overlapped. In `Spammer` the threads of a session's cycle and gear switch are
constants (`CycleOf`, `GearOf`) instead of a table built of the names of the run.
In `EnvironmentCheck` the cases by which `Way` and `BeginWork` decide overlapped, so
that a refused preparation was also an accepted one for the prover (TLC takes the
first); they are now in the order of the code's early returns (`RefusesSetup`). Its
assumption on runners says what the catalogue says: a downloaded Proton has VKD3D.
In `MemorySearch` a read of fewer bytes than a word counted as a read in the search
for words; the code counts it only from four bytes on (`Useful`). The writable ranges are
a prefix of the mappings by a `CHOOSE` where a filter of the community modules was,
whose recursion the provers cannot follow.
`AddressScannerSpec`, `LinkSpec` and `PresenceSpec` are the
specifications of parts that `MCServices` puts side by side.

Only model-checked:

* Liveness (`StopEndsClient`, `ShutdownCompletes`, `BeginResolves`,
  `QuietSessionStops`, `CancelEnds`, `LifecycleFrees`): fairness is outside the
  prover.
* `InstalledStays`: the code keeps it for one fault at a time, which is the bound
  of the run; with more it is false, so there is no theorem for every bound.
* `ReleaseIsFinal` under two or more failures is false, as said above; the run has
  one.

## Findings

1. `dead_session`. The plan in `docs/PTRACE_SESSION_SUPERVISOR_PLAN.md:95-97`
   says an unexpected end fails the session. The reader wakes every waiter but
   never leaves `Ready`; with a request running the counters stay up, no idle
   shutdown applies, and a caller with another plan is refused until the
   launcher closes.
2. `handoff_memory`. The same document, 223-224, says a handoff replaces the
   memory session "sin alterar otros clientes". The exit task registers the
   session of a replacement before it knows whose replacement it is; if another
   client got it first, the refused lease takes away the session of that client.
3. `autopot_stop`. When a handoff reaches the autopot loop and the new identity
   has no memory session (any more), the event is built with
   `..status_arc.lock().unwrap().clone()` in the arguments of
   `emit_status_if_changed` (`autopot/loop_runner.rs:184`), which locks the same
   mutex. The loop blocks on itself and reaches no await, so the abort of
   `stop_locked` never takes effect: the stop does not return, against the test
   `aborts_a_session_after_timeout` (`tools/session.rs:133`), and
   `tool_lifecycle` stays taken for every later command.
4. `stale_binding`. The comment at `commands/prefix.rs:277-279` says that setup and
   reset reconcile an interrupted transaction and resolve again, so that their
   decisions "never see transaction residue or a pre-recovery binding". The second
   resolution happens only if the command's own recovery replaced the root (line
   286). In the trace the user replaces runner A by B while a setup of A is in its
   transaction. A second setup finds the transaction pending and is bound to
   the directory of A; the first commits before the second has the guard; the
   second then recovers nothing, keeps its binding and repairs A's prefix with B in
   place. What follows from it (B's digest is recorded at A's path, and a launch that
   raced in the same way runs B in A's prefix) is what `BindingIsSound`, and
   the theorem `LaunchesAreAlwaysTrue` with it, except.

## Known gaps of the code

Met while modelling; no run is about them, and where a property would otherwise
be false its definition says what it excepts.

* dgVoodoo: an installation killed before its manifest is written and then
  repeated overwrites the backup of an original; a removal killed half way is
  refused afterwards. A removal that fails undoes its newest write first
  (`dgvoodoo.rs:231`, 570), so the preserved copy of an edited `dgVoodoo.conf` is
  deleted before the edit is back in place: a kill in between, or a restore that fails,
  loses the edit. `OriginalsSurvive` excepts these (`lost` is "redone", "cut" or
  "rollback").
* Updater: an activation that fails after its rename (`activate.rs:136-142`) leaves the
  new image under the old process. The next check compares with the running version
  (`backend.rs:68`), so it offers that release again, and it can be installed a second
  time. `SlotMatchesPhase` allows it.
* Settings: `write_json` may rename the new document and then fail to sync the directory
  (`utils/json.rs:143-146`). The command answers an error, the window goes back to
  the old choice and the file keeps the new one, until a load or a write of either
  field succeeds. `SettingsAgree` excepts this (`outOfStep`).
* Scanner: an error of `require_session` in a refinement leaves the state
  Scanning until it is cancelled (`abandoned`). After a short read the kept tail
  is glued to the next chunk, so a match across that seam may be false
  (`seams`); a string across two adjacent mappings is not found; `read_u32_at`
  ignores a short read.
* A write timeout releases the lock of stdin before `set_fatal`; the glued frame
  this allows ends the session, which is what `GluedIsFatal` says.
* `RuntimePlan`: behind a linked `wine` the probe and `wine_sync_mode` read
  different `wine-tkg-config.txt`; a runner replaced between probe and spawn is
  not noticed under the plan; a failed repair in place may leave a manifest
  older than the DLLs.
* Window: the status "stopping" may stay after a failed stop whose refresh was
  dropped; a retry on the degraded start screen races a queued save.
* An unfinished benchmark run may be pruned by the record limit; listing reads
  what a crash left behind.

## Left out

* `Sessiond`: validation of a process spec is one nondeterministic failure;
  what arrives after a forced shutdown changes nothing and is not generated.
* `RunnerSessions`: the leftover scan of `bootstrap.rs`; the thirty seconds
  around `shutdown_all` never precede the time limits of the sessions; waiting on
  a `Stopping` session is defensive in the code (the lock already orders it).
* `GameClients`: the three combat tools are one tool; the ranking of candidates
  by ancestry is left open beyond "the controller first"; signals that fail with
  EPERM; the lookup of a memory session right after its registration, which
  nobody can remove in between. A replacement whose registration is refused
  stays without a client and ends with its supervisor session; a tool that
  starts while a handoff is published may keep the old identity. The repository
  claims nothing about either.
* `ToolLoop`, `InputWorker`: the arithmetic of thresholds and cooldowns (a rule is
  due or not); `UinputWriter::key_event`, which has no caller.
* `PrefixRecovery`: the Wine commands of provisioning (they add payload parts in
  any order) and power loss: writes are kept in order, as `fsync` of file and
  directory before each rename is meant to ensure. `PrefixBinding`: custom and
  shared scopes; the 24 hexadecimal digits of a path stand for the full digest;
  the reads of one resolution after discovery are one step.
* `EnvironmentCheck`: `setting.place` is true in every initial state (a path that is a
  symlink is refused by all sides alike); processes that still run in a prefix
  that is being reset (`plan_reset_shutdown` then refuses or stops them); failures
  of Gecko or audio after a launch was admitted; audio and input diagnostics.
* `MemorySearch`: memory does not change during one search; an address matched
  twice counts once towards the limit of candidates. `RunRecords`:
  percentiles, `usable_for_autotune`, CSV detail, redaction and export; a command
  does not stall for the ten seconds after which a capture is stale.
* Stores: reloads of the webview; the first list of servers or clients that fails; a
  load of settings or runners superseded by another one in progress (`settingsLoadId`,
  `runnersLoadId`), as when an import reloads the list during `init`.
  `updater.store.ts` mirrors the snapshot of the backend.
* `Presence`: a handoff for a client that is not tracked, which samples and publishes once more.
  `Installations`: a write of the drafts or of the servers file that fails leaves
  the file as it was; one that fails after its rename is in `JsonStore`.
* Not modelled: pure I/O and formatting, where no state is kept: hashing,
  archive formats, `/proc` and PE parsing, device discovery and permissions,
  the D7VK experiment, log texts, `instance.rs`, rendering.

## Plan

Done: every component that keeps state across an await, a process or a crash is
modelled, and the safety invariants of the supervisor, the registry, the link,
the recovery, the locks, the documents, the records, the artifacts, the wrapper, the
installations, the updater, the scanner, presence, the input worker with the
spammer, the stores of the window and the three parts of a launch (its directory,
its plan, the check before it) are theorems.
