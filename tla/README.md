# Restream Studio: formal models

Restream Studio is a local web application. It watches one live room, and while the room is live it
pushes the stream to a few destinations with one FFmpeg child each. It is one Python process with
one asyncio event loop, a SQLite file, a browser front end, and an updater whose helper outlives the
process. Everything difficult in it is a matter of order: tasks that meet at an `await`, commands that
overtake each other, writes that fail half way, processes that end in the middle.

The TLA+ modules here are translated from the code under `src/src/restream_studio/`. TLC checks them
on small instances (12 runs), TLAPS proves the safety properties of all of them for every value of their
constants. Three runs show a disagreement between the code and what its documents say of it.

Contents: [Inventory](#inventory), [Modules](#modules), [Runs](#runs), [Fairness](#fairness),
[Theorems](#theorems), [Disagreements found](#disagreements-found),
[Not modelled](#not-modelled), [Plan](#plan), [Running the checks](#running-the-checks).

## Inventory

Paths are relative to `src/src/restream_studio/`.

| component | state | operations | what is hard |
|---|---|---|---|
| **Output supervisor** `outputs/supervisor.py` | `_state`, `_stop_requested`, `_live`, `_generation`, `_process`, `_runner`, two locks | `start`, `stop`, the runner task with spawn, wait, retry, final close | callers wait for a runner that may end in five ways; a stop meets a pending spawn, a retry, a close of the same child; cancellation everywhere |
| **Child process** `media/process.py` | the child and its tree (process group, Windows job or `taskkill`), the task that reads stderr, the verdict "authentication failed", four locks | `start`, `wait`, `stop` with terminate, timeout, kill, reap, clean the tree, drain the reader | a descendant that holds the pipe; cancellation inside any of the steps; `wait()` and `stop()` clean up at once |
| **Destination adapter** `runtime.py` (`_DestinationAdapter`) | `_supervisor`, `_last_restart` | `restart`, `reconnect`, `stop` | a new supervisor per command; two tasks replace the same one |
| **Controller** `orchestration/controller.py` | desired state, enabled destinations, source state, inputs and fingerprints, the task, persistence version, four locks | `initialize`, `start`, `stop`, `shutdown`, `set_destination_enabled`, the polling cycle | every step of a cycle meets every call; saves overtake each other; standby and recovery timers |
| **RuntimeManager** `runtime.py` | `_controller`, `_lock`, `_startup_failed`, `_configuration_blocked` | `initialize`, `apply_configuration`, `start`, `stop`, `reconnect_destination` | swap of controllers with a failure at any step |
| **Configuration API** `api/routes.py` | `write_lock`, `installation_pending`, revisions (ETags) | GET and PUT of source and destination, start, stop, reconnect, install | optimistic concurrency together with a rollback; check, wait for a lock, act |
| **Database** `persistence/database.py` | schema versions, source, destinations, revisions, events | `open` with the legacy schema, three migrations and validation; one transaction per call; retention and listing of events | two processes open one file; an upgrade is interrupted or meets what an older program left; any statement may fail |
| **Update service** `update/service.py` | `_state`, `_manifest`, `_installer`, `_install_started`, `_operation_lock`, `state.json` | `check`, `automatic_check`, `download`, `install`, the background task | memory, file and installer are changed one after the other, each change may fail |
| **Update client** `update/client.py` | the installer file, path locks | check for a release, download and verify | another program may alter the file later |
| **Update helper** `update/helper.py` | none but its arguments | wait for the process, verify, install, relaunch | the process id is reused; the application does not end |
| **Application** `main.py` | session tokens | lifespan, middleware | start and end of everything above |
| **Media probe** `media/ffprobe.py` | the child, the two tasks that read its pipes | `probe_media`: two runs of ffprobe under one deadline, limits, kill and reap | deadline, limit, end of the child and cancellation race; a full pipe |
| **Source resolver** `source/` | none | resolve a room | answers late, wrong or not at all |
| **Front end** `src/frontend/` | what each window has read | the requests above | several windows with stale data |

How they interact. A browser window sends requests to the routes. Routes that change something hold
`write_lock`, except reconnect, and call RuntimeManager, which holds its own `_lock` and owns the present
controller. The controller's calls only record what is wanted; its own task resolves and probes the
source in cycles and restarts or stops the outputs through the adapters. An adapter makes an output
supervisor per command, a supervisor a child process per attempt. The controller writes its wish *and the
configuration it was built from* to the database whenever either changes, which is why a PUT, its
rollback and a late save may meet in one row. The update service shares nothing with that chain except the
install route, which asks whether the relay is wanted before it lets an installer be launched.

What makes each part correct, in a sentence:

- *supervisor*: whatever start, stop, retry and cancellation do, no child is left behind, the state tells the truth, and every call ends;
- *adapter*: one child per destination, and `stop()` reaches it;
- *controller*: an output that is disabled, or belongs to no task, is or becomes dark; a healthy one is not taken off the air; the newest wish is the one that is stored;
- *API*: database, controller and what a client was told agree whenever no change is under way, also after failures and restarts; no client overwrites what it has not read; nothing is installed while the relay runs;
- *child process*: after `stop()`, also a cancelled one, neither the child nor a descendant lives; a refused stream key is never overlooked; every `stop()` ends;
- *database*: an upgrade keeps what the operator enabled, no update is lost between processes, a failed statement blocks nobody, paging skips no event;
- *media probe*: it ends, leaves no ffprobe behind and keeps no more output than its limits;
- *updates*: what is offered can be done, what is shown is what will be installed, a failed write loses neither, and the server is not asked more often than it should be.

`PROJECT.json` lists the hazards behind these sentences with the line of each and the properties that
cover it; a hazard that no property covers says why.

## Modules

asyncio interleaves tasks only where an `await` really suspends. All modules use that: **one action is the
code between two suspensions**, and `pc` (or `runner`) says at which `await` a task is suspended. A call of
a component that does not suspend (a database call, a body under `_state_lock`) is part of the action
that makes it. A variable named as in the code is the attribute of that name; the comment beside each
declaration says so where the name differs.

| module | models | used by |
|---|---|---|
| `OutputSession` | abstract: what a user of a supervisor may rely on | `OutputSupervisor`, `DestinationAdapter` |
| `OutputSupervisor` | `OutputSupervisor` with the part of `AsyncProcess` it meets | `MCOutputSupervisor`, `OutputSupervisorProofs` |
| `DestinationAdapter` | `_DestinationAdapter`, over sessions of `OutputSession` | `MCDestinationAdapter`, `DestinationAdapterProofs` |
| `Controller` | `Controller` and its task, outputs by their protocol | `MCController`, `ControllerProofs` |
| `ControlApi` | routes, `RuntimeManager`, configuration in the database | `MCControlApi`, `ControlApiProofs` |
| `UpdateService` | update service, installer on disk, helper | `UpdateServiceProofs` |
| `Database` | opening, migrations, transactions and events of one SQLite file, by several processes | `MCDatabase`, `DatabaseProofs` |
| `ChildProcess` | `AsyncProcess` with its tree, its reader and cancellation | `ChildProcessProofs` |
| `MediaProbe` | `probe_media()` with its child, its pipes and the deadline | `MediaProbeProofs` |

### OutputSession and OutputSupervisor

`OutputSession` has no tasks, locks or retries: a session opens, has at most one child that comes and goes,
is asked to close, and closes without a child; no child is spawned once the end was requested.
`OutputSupervisor!Contract` maps the supervisor to it: the session is closed when the runner is over and no
child lives, closing once `_stop_requested` is set, open otherwise. The run `supervisor` checks, and a
theorem proves, that the supervisor implements it (`ImplementsSession`).

The actions of a caller are `StartNew`, `StartJoin` (the two branches under `_lifecycle_lock`), `StartLive`,
`StartEnded` and `StartCancel` (the three ends of `_wait_until_live_or_done`), `OwnerGathered` and
`OwnerClosed` (the cleanup of a cancelled owner), and for stop `StopEnter`, `StopClosed`, `StopAwaited`,
`StopCancel`, `StopAborted`. Those of the runner follow `_run_generation()`: `RunnerBegins`, `SpawnOk`,
`SpawnFail`, `RunnerServed`, `RunnerRetries`, `RunnerClosed`, `RunnerCancelled`; `RunnerFinally` is its
`finally` block. `ChildExits` and `ChildReaped` are the operating system.

Three facts that the code does not spell out came up in the model. A `stop()` that awaits the runner
re-raises the runner's `ProcessStartError`, and ends with `CancelledError` when somebody else's cancelled
`start()` cancels that runner. A `start()` that joins a session that is RECONNECTING returns at once,
because `_live` is not cleared before the next session. The state shows STOPPED before the final close has
reaped the child; the lock of `stop()` is what says that it is over. None contradicts a document, so no
property forbids it. `RunnerBegins` and `RunnerRetries` wait while a caller comes back from closing
a child that is already reaped: asyncio resumes that caller first, and a retry is two seconds away.

### DestinationAdapter

The adapter is modelled over `OutputSession`, not over the supervisor's tasks: a task that called `stop()`
waits for the session to close, one that called `start()` for the child or the end of the session.
`UsesSessions` checks the other half of the contract, that each supervisor is opened once and used as its
specification allows. `Restarters` are the tasks that call `restart()`, in the run both the controller's task and a
reconnect request, which hold different locks; `Stoppers` call `stop()` only. Cancellation of a restart is
modelled at each await. Two restarts that wait for the same old supervisor each put a new one in its place (the fourth
disagreement below). `crossed` remembers that a restart began to do so while another one was waiting, and
`OneActiveChild` and `StopReachesAll` hold until then.

### Controller

The controller's task is `runner`, with the cycle `Begin`, `Resolved`, `Probed`, `Replaced`, `CameUp`,
`Restarted`, `Undone`, `Woke`, and `Cancelled`, `EndStopped` for its `finally` block. `job` is the
`_switch_outputs()` or `_stop_outputs()` under way: the destinations left, and which of the captured output
generations are still current (`fresh`). The code compares its counters only for equality with a captured
value, so a counter is modelled by *whether it moved since the capture*, which keeps the state finite
without a bound. Times are ages, young or old, because the code only asks whether an interval has passed.
The calls are `Call`, `BeginLoad`, `Loaded`, `BeginStart`, `BeginStop`, `TaskEnded`, `StopOutput`, `Enable`,
`Disable`, `DestinationStopped`, and for `_persist()` `BeginSave`, `Saved`, `SaveFailed`. LIVE of an output
stands for the time between a first connection and its end: CONNECTING, LIVE and RECONNECTING of a
supervisor look the same to the controller.

A destination's `stop()` that returns after its supervisor was replaced stops nothing (`at = 0` in
`Replaced`): that is the adapter's behaviour and the reason why `OnAirStays` is not obvious.

### ControlApi

One destination stands for all of them, because the routes treat each alike and rebuild the controller as
a whole. The database is `stored`, `revision`, `intent`. `Outcomes` lists how a new controller can come up,
with every save that may fail and what each has written by then. `TakeBack` is the rollback, in the order of the
code: value and intent, revision, then the old configuration is applied again (`Reapply`, `TakenBack`). Every database call may
fail, those of a rollback included, up to `MaxFaults` in a behaviour; what a write that fails leaves undone is left undone.
`rolledBack` remembers that a PUT failed after its write, `unrestored` that taking it back failed too: a write
of the rollback, or the second application after the first had already put the rejected controller in place. `Restart`
ends the process at any point and starts it again.

`output` is the output of the controller, which its task (`Air`) or a reconnect request brings up. `Cease` is the end of the
task, `Sweep` the moment in `shutdown()` or `stop()` at which the outputs are asked to end, and `Swap` or `StopSaved` waits until
they have: that a supervisor's `stop()` ends its output is what `OutputSupervisor` and `Controller` show, and that no output is left over
when the controller is replaced is `ClosedIsDark`.

A request whose lock is free, or whose old controller has nothing to end, does not suspend. `Proceeds` says
which request is in that position, and `Next` lets it go on before anything else, so that no interleaving is
added which the event loop cannot produce.

### UpdateService

An operation takes `_operation_lock` after its checks and suspends where it awaits a thread. `stable` is what
the operation may restore, `candidate` the snapshot it is about to commit. Each commit succeeds (`CheckingSaved`,
`CheckSaved`, `DownloadingSaved`, `DownloadSaved`) or fails (`NotSaved`, then `Cleaned` for a download).
`Loaded` is `_load_state()`. `End` is a crash or a shutdown at any point, including the write that a cancelled
background check leaves running in its thread; `Start` is the next process. The helper waits for the process
with a timeout while the system may reuse the process id (`Waited`, `PidReused`), verifies the installer again
(`HelperVerified`), runs it and starts the new version (`HelperInstalled`). `Spoil` removes or alters an
installer at any time; `good` is the set of releases whose file is still what the manifest says. `completed`
is a history variable: the day of the last check that was committed. The update client appears as its answers:
`FoundNewer` and `FoundNone` (a manifest that is newer than what runs, or none), and `InstallerReplaced` (the
partial file is verified before it takes the place of the installer).

### Database

`file` is what SQLite has committed, `writer` the holder of its single writer lock, `view` the file that a
process's transaction began with. A commit publishes a new `file` in one step. Opening goes through
`Open`, `BeginMigration`, `Migrate` (with `RefuseToMigrate` and `FailMigration`) and `Validate`, one migration per transaction as in
`_migrate()`; `Busy` is the end of the retries, `Crash` the end of a process. `InitialFiles` are files
of every version, with and without the tables and the list of enabled names of version 1, and files that were
damaged or come from a later release. `Reconciled` is migration 3, which carries the names of version 1 over to rows.
`ReadRevision` and `WriteRevision` are a client that writes with the revision it read; `AddEvent` prunes; and
`ReadEvents` is a client that follows `next_cursor`. The history variables `original`, `accepted` and `seen` remember
the file as it was found, the accepted writes and the events a client got.

### ChildProcess

One task runs the child (`Start`, `Spawn`, `wait()`), others stop it, and each may be cancelled wherever it
is suspended. `wait()` and `stop()` share their steps, `CleanTree` or `RunTaskkill`, `Reaped`, `Drain`,
`Drained`, and `pc` says at which one a task is. `control` is what reaches the whole tree: the group on POSIX, the
job on Windows, or `taskkill` where Windows refused the job, which may fail or come too late
(`TaskkillOver`, `TaskkillFails`). `helper` is a descendant that may hold the pipe of stderr: the reason
why `process.wait()` and the reader may not end with the child. `OutputSupervisor` has its own, coarser child:
what it relies on is what `StopLeavesNothing`, `VerdictIsFinal` and `StopEnds` say here.

### MediaProbe

`pc` follows `probe_media()` through two runs of ffprobe, `reader` the two tasks of `_read_process()`. Output is
counted in chunks. `Write` puts one into a reader's buffer while its transport is not paused, `Read` takes it out
and applies both limits. `Terminate` is `_terminate_and_reap()` with the cancellation of the readers before it. asyncio's part is a
model of its use: a paused transport does not see the end of its pipe, and `process.wait()` returns at once if the
exit is known already; with `WaitsForPipes`, as in the Python of the release, it otherwise waits for the pipes too.

## Runs

"States" are distinct states. Every passing run also has, for each property, a mutant of a mapped definition
(the operators marked *Deviation* in the modules) that makes TLC find the property violated.

| run | instance | states | properties |
|---|---|---|---|
| `supervisor` | 2 callers, 2 sessions, 2 children, cancellation of every call | 129,257 | `AtMostOneLiveChild`, `NoOrphanChild`, `StopReturnsAtRest`, `StopTerminates`, `StartTerminates`, `ImplementsSession` |
| `supervisor_two_children` | 3 callers, cancellation | until violated | `AtMostOneLiveChild` |
| `adapter` | controller's task, a reconnect request, two stoppers, 4 supervisors | 66,786 | `StopReachesAll`, `UsesSessions` |
| `controller` | 2 callers, 2 destinations, 2 URLs, no standby | 1,047,515 | `DisabledIsDark`, `NoTaskIsDark`, `OneTask`, `ConfirmedIsStored`, `NothingUnsaved`, `OnAirStays` |
| `controller_standby` | 2 callers, 1 destination, standby, failing store | 201,486 | `InputIsTruthful`, `CallsReturn` |
| `control_api` | 2 clients, 2 rooms, revisions up to 3, 2 faults anywhere, restarts | 2,996,464 | `FailedChangeLeavesNoTrace`, `RunningIsStored`, `GateSeesRunning`, `InstallWhileStopped`, `StaleWritesConflict`, `ClosedIsDark` |
| `control_api_stale_write` | 2 clients, 3 rooms, 1 fault | until violated | `NoLostUpdate` |
| `update` | 2 clients and the background check, 2 releases, 2 days | 76,129 | `OfferIsTrue`, `InstallsWhatIsShown`, `RestartForgetsOnlyTheOffer`, `AutomaticCheckIsRare`, `OperationsEnd`, `UpdateGoesOn` |
| `database` | 2 processes, files of every version, 1 fault, 2 writes | 2,669,990 | `UpgradeKeepsWishes`, `RefusedForCause`, `NoLostUpdate`, `LockIsReleased`, `PagingMissesNothing` |
| `child_process` | the runner, 2 stoppers, both systems | 60,165 | `StopLeavesNothing`, `VerdictIsFinal`, `StopEnds` |
| `media_probe` | limits of 2 and 3 chunks, buffers of 2, 2 cancellations | 17,386 | `NoProbeLeft`, `WithinLimits`, `ProbeEndsUnlessFull` |
| `media_probe_hang` | the same | until violated | `ProbeEnds` |

What they show, and why the instances are large enough:

- `supervisor`. Two callers are needed for a stop against a start or a second stop. Two sessions, each with one child, are the shortest history in which a cancelled owner of the first closes the child of the second; a retry uses the second child inside one session. With two callers that cleanup does no harm; with three and a cancelled `stop()` it does, which is what `supervisor_two_children` shows. A supervisor that is opened once, as the adapter does it, needs no bound on the callers: that is proved.
- `adapter`. Four supervisors: one that lives, one that replaces it, one after a failure, one after a stop. Two restarting tasks are what a crossing needs, two stoppers meet each other and both of them. `OneActiveChild` follows from `StopReachesAll` (a session that is closed has no child) and is proved beside it without bounds. Without `~crossed` both are violated in this instance.
- `controller`. Two destinations are what `_switch_outputs()` and `_stop_outputs()` need to be half way; two callers are what two saves, or a start and a stop, need to meet; two URLs are an input that changes. `controller_standby` adds the standby input and a store that raises, which concern the input of an output and the end of a call, hence one destination. Production configures no standby input; the path exists and its tests use it.
- `control_api`. Two clients for every pair of requests; two rooms so that a write and its rollback can be told apart from the value before; revision 3 so that a revision that was given back is used again and read again. Two faults are the least with which a PUT and its rollback can both fail; the first may be any save of the first application, the second a write of the rollback, the load or a save of the second application.
- `update`. Two clients plus the background task are three tasks at one lock. Two releases show an update that supersedes another and a downgrade that must not be offered; two days show a check that is due and one that is not. A third day would only repeat the step from the first to the second.
- `database`. Two processes are what a race at the writer lock needs. The list of a version 1 file holds up to two names out of five: two stored kinds, an old name of one of them, a name that is unknown and one that is malformed, so that duplicates, aliases and losses all occur. One fault hits any single statement or ends a process at any point; two events above a limit of two make pruning overtake a reader.
- `child_process`. Two stoppers and the runner meet in every shared step, and each is cancelled once: what the handler of a cancelled `stop()` does is shielded. One descendant stands for all: the tree is killed as a whole or not at all.
- `media_probe`. A limit of 2 per pipe and 3 together can be broken by either pipe alone or only by both; a buffer of 2 fills before either. Both runs happen, and the second cancellation finds the probe reaping after the first. The theorems need no bound.

The properties that are stated for a settled system (`Settled`, `writer = NoClient`, `Quiet`) speak of the time
when nobody is inside an operation; the invariants used in the proofs below say what holds in between.
CHECK_DEADLOCK is FALSE where the model may stop for good: `MaxSessions` supervisors have been used up, or
nobody calls the controller any more.

## Fairness

- Supervisor: weak fairness of the runner's steps, of reaping a child that somebody closes (`AsyncProcess.stop()` kills the tree after its timeout), and of the steps of a caller whose callee is done. Nobody has to call, cancel or crash.
- Controller: weak fairness of the task where it is not inside a probe (the resolver has timeouts, and an output's `restart()` and `stop()` end by `StartTerminates` and `StopTerminates`) and of what completes a suspended call. The probe has a deadline and may hang all the same (`media_probe_hang`), so that nothing is assumed of it: `CallsReturn` excepts the `stop()` or `shutdown()` that has cancelled a task whose probe never ends, and the calls behind it; *strong* fairness of the admission to a lock, because `asyncio.Lock` serves its waiters in order, so that a task that keeps taking a lock cannot keep another out for ever.
- Update service: weak fairness of what completes an operation (network, process and file operations have timeouts and run in threads of their own) and of the helper. The timeout of a download is one per read, so that a server which sends a byte now and then for ever is outside this assumption. Nobody has to check, download, install or end the application.
- Child process: weak fairness of the tasks, of the time limits of `stop()` and of `taskkill`, of the reader, and of the end of a child that was killed. A child that was only asked to end may ignore that for ever, and a descendant may hold the pipe for ever: `StopEnds` excepts only the descendant that neither a job nor `taskkill` reached.
- Media probe: weak fairness of the tasks, the deadline and the end of a killed ffprobe. One that was not killed may hang or write for ever.
- Adapter, API and database are checked for safety only: the database never suspends the event loop, and its retries are bounded.

## Theorems

All of them hold for every value of the constants under the `ASSUME` of the module, which say only that
names differ and bounds are natural numbers. TLC evaluates these assumptions in the runs.

**OutputSupervisorProofs.** For any callers, whose calls may be cancelled at any await. `TypeCorrect` holds of every behaviour. The
others hold while `OpenedOnce`, that is, while `start()` has created at most one runner: the adapter makes a new supervisor for every
restart (`runtime.py:148-152`), which is the other half of the contract and what `UsesSessions` says. A supervisor that is opened again under
cancellation breaks its promise (the run `supervisor_two_children`). `NoIllegalTransition` and `OnlyCallersStop` are proved and not run,
because the run `supervisor` opens its supervisor twice. `NoOrphanChild` is not inductive: that a child which is alive has a runner, or
somebody who closes it, needs to know where the runner stands and who holds the locks of the child. The inductive
invariant `Tidy` has five parts:

- `LocksTidy`: who is inside `AsyncProcess.stop()` holds the locks of the process it closes or waits for them;
- `ChildTidy`: a child that lives is the last one, and the runner watches it or its locks are held;
- `PlaceTidy`: the place of the runner determines the state;
- `StopTidy`: the `stop()` that holds the lifecycle lock is the only one and has asked for the end;
- `JoinTidy`: there is one session, and a waiting start joined it.

The case that carries the weight is a runner that is cancelled while somebody else closes its child: it ends without reaping it, and
`ChildTidy` says that the locks of that child stay held until it is reaped. From `Tidy` follow `NoOrphans`, `OneLiveChild`,
`TransitionsAreLegal`, `CallersStop`, `ReturnsAtRest`, and with one lemma per action `Implements`, the refinement of `OutputSession`.

**DestinationAdapterProofs.** For any number of tasks that restart and stop: `AdapterTypes`, `NewestIsReached` and `OneChildPerDestination`.
The inductive invariant `Owned` (`AlwaysOwned`) says that as long as no two restarts have met at one old supervisor, a task which is about to replace a
supervisor is the only one and waits for the newest, and that every other supervisor is closed and without a child. The condition
`~crossed` is the exact border of the fourth disagreement below: without it the conclusions are false. `SessionsAreUsed`
needs no condition: whatever the tasks do to each other, every supervisor takes only steps of `OutputSession`, because each is opened
by the task that made it and a step of one leaves the others alone (`StepAdvances`). It is the half of the contract that
`Implements` answers from the other side.

**ControllerProofs.** The largest proof, for any number of callers and destinations, with and without standby and a store
that fails. `Ordered` proves the inductive invariant `Orderly`, one lemma per action and part:

- `LocksOrderly`, `LoadOrderly`: who holds a lock is determined by where a call is suspended, and nothing happens before `initialize()` returned;
- `TaskOrderly`: while a call holds the lifecycle lock to start or stop, there is no task, or it is on its way to its end;
- `SavesOrderly`: `persisted` tells how the newest save stands to the memory, and a change that no save has confirmed belongs to a call that is still going to save;
- `DarkOrderly`: an output that runs has a task or a call that will come to it, and a *disabled* one that runs is stopped for certain;
- `SwitchOrderly`, `WatchOrderly`: what the switch under way has done so far, per destination, and that two successes in standby end in a switch;
- `InputsOrderly`: what is shown of an output is what its child reads, except between a `restart()` and its publication.

`NoTaskIsDark`, `DisabledIsDark`, `OneTask`, `ConfirmedIsStored` and `InputIsTruthful` follow from it (`TasklessIsDark`,
`DisabledStaysDark`, `NeverTwoTasks`, `ConfirmationsAreTrue`, `InputsAreTrue`). None is inductive. `DisabledIsDark` allows an
output to run that a `_switch_outputs()` will still reach, and this is not preserved as it stands: a restart whose URL
is refused leaves the old child alone. `SureToStop` therefore leaves that reason out, and the proof shows that a disabled output never
has only that one. `EveryChangeIsSaved` assumes a store that does not fail: one that does leaves a change unsaved, which
is reported to the caller. `OnAirUntilTold` is an action property and rests on `SwitchOrderly`, which says that a switch
to the live input never restarts an output that shows it already, and on `InputsOrderly`, by which a disable that is still
under way has taken the input from the output it will stop.

**ControlApiProofs.** `Ordered` for any number of clients, rooms and revisions, with every fault and restart that the model has.
`LocksOrderly` places the two locks. `RelayOrderly` says that a relay which runs is wanted, stored as wanted and shown,
unless it is being closed, and that an installation has none beside it. `ConfigurationOrderly` says what `undo`, `build` and
`accepted` mean at each place of a PUT: what to put back is what was accepted last, and elsewhere nothing is half done. From these
three follow `RollbacksAreComplete`, `CrashResumes`, `GateIsNotBlind`, `InstallsAlone` and `ClosedStaysDark`. The lemma about
`Outcomes` carries the weight (`OutcomesAreClean`): whichever save fails, a new controller that came up agrees with what it left in the database; and
`AnswerIsOrderly` shows that a PUT then keeps all of it or takes back all of it, unless it is marked `unrestored`. That mark is the condition of
`RollbacksAreComplete`: it goes with the next PUT that succeeds and with the next start of the process, because both build a
controller from what is stored. `RevisionsOrderly` speaks of the time before a PUT fails after its write, when revisions grow and whoever has read
the present one has read the value; hence the condition in `NoBlindWrites`, and the run that expects a violation.

**ChildProcessProofs.** For any number of tasks that stop: `ChildOrdered`, with `StopIsComplete`, `NothingIsUnheard` and
`KilledTreesStayDead`. `EndsOrderly` says what a task knows at its place: past the reap the child is reaped, past the cleaning
the tree is down, and what was returned was read to its end. Each of these facts must survive the steps of the other tasks;
`StartsOrderly` (no second start once somebody stops) and `TreeOrderly` (a tree that was killed does not come back, and
`taskkill` runs only where there is no other way) are what makes them do so.

**DatabaseProofs.** For any number of processes, faults and events, and files of every version: `TransactionsEnd`,
`RevisionsAreExact`, `PagesAreComplete`, `UpgradesAreTrusted` and `WishesSurvive`.

- `LocksOrderly` says that the view of the writer is the committed file, from which `LockIsReleased` and `NoLostUpdate` follow.
- `FileOrderly` and `ClientOrderly` bound the events and relate them to the cursor. `PagingMissesNothing` needs that the retention is no larger than what is listed (`DatabaseAssumption`, and `_EVENT_LIMIT` in the code), and lemmas about the largest and the smallest of a finite set of numbers (`Extremes`).
- `RefusalsOrderly` says that a file which a release up to this one wrote remains, at every moment of its upgrade, a file that the next migration accepts (`Sound`).
- `HistoryOrderly` follows the list and the rows through the versions: untouched before migration 2, the list put aside after it, and after migration 3 exactly what `Reconciled` makes of the file as it was found, however often the upgrade was interrupted and whoever went on with it.
- What `Reconciled` makes of *any* list is the lemma `ReconciledFacts`. It is an induction over the two folds of migration 3: `FoldExists` shows that the recursion which defines a fold has a solution, `StepByStep` is induction up to a bound by the least element left out, `DistinctFacts` and `FoldedFacts` are its two uses, and `AssignFacts` is the step, for one name more.

`MaxWrites` is at least 1 in `DatabaseAssumption` because migration 3 writes an event, which must have an identifier in the model's bound.

**UpdateServiceProofs.** For any number of clients, releases and days: `UpdateTypes`, `OffersAreTrue`,
`InstallsShown`, `RestartKeeps` and the action property `AutomaticChecksAreRare`. Each property speaks of the
time between operations or of one step, and follows from `Orderly`, which speaks of every place where an
operation can be suspended:

- `OneOperation`: the holder of the lock is the only task inside an operation;
- `MemoryOrderly`: before its first commit an operation has not touched the memory and `stable` is that memory; after it the memory shows an operation under way, the file agrees with it, and `stable` is an offer that can be carried out and knows the same last check;
- `CandidateOrderly`: what is about to be committed is consistent with the manifest;
- `FileOrderly`: the next process would load what is shown now, without its offer;
- `TimeOrderly`: neither file, memory nor candidate forgets a completed check, and none is from the future;
- `HelperOrderly`: a helper that still waits belongs to the process that runs, and it works only after its end.

`RestartKeeps` and `AutomaticChecksAreRare` rest on the same point of the code, that a failed last write restores
the memory *and* that the file then still holds the snapshot of the first write, which `_load_state()` reduces to
the time of the last check.

**MediaProbeProofs.** For all limits and any number of cancellations: `NoProbeIsLeft` and `OutputIsBounded`. Neither
is inductive. `ChildTidy` says for every place where the probe can be suspended what has become of its child, and
`LimitTidy` counts the readers that have taken the chunk too many: while none has, both pipes together are within the
total, and each that has adds one. Together with the types they are `ProbeTidy`.

**Only model-checked.** Liveness (`StopTerminates`, `StartTerminates`, `CallsReturn`, `OperationsEnd`,
`UpdateGoesOn`, `StopEnds`, `ProbeEndsUnlessFull`) needs fairness, which TLAPS does not handle; it is all that the runs check
and no theorem states. A supervisor that is opened a second time is checked for two callers only, because with three its
contract is broken; nothing in the program opens one twice. Theorems hold of the models: each rests on the abstractions listed under "Not modelled".

## Disagreements found

Three have a run:

1. `supervisor_two_children` (`outputs/supervisor.py:123`). The class is documented to own "at most one live child process". The cleanup of a cancelled `start()` closes `self._process` without the lifecycle lock, whatever session it belongs to by then. Two cancelled starts, a cancelled `stop()` and a third start lead to two live children. It takes a supervisor that is opened again, which the class allows and the adapter never does; the theorems say that one opened once keeps the promise.
2. `control_api_stale_write` (`api/routes.py:359`). "Concurrent stale writes return 409". The rollback of a PUT gives its revision back, and a GET is answered while it is under way. An ETag read then names another configuration later, and a stale write is accepted.
3. `media_probe_hang` (`media/ffprobe.py:253`). "Bounded, shell-free ffprobe execution". When ffprobe is killed because of its output, nobody reads its pipes any more; a transport that is paused never sees the end of its pipe, and `process.wait()` waits for that end. The tests of this path use a stand-in for the process. The probe then hangs past its deadline, and a `stop()` of the controller that cancels it waits for it for ever, under the lifecycle lock (`controller.py:322`).

Five were met on the way and are reproduced by changing an instance or by a hazard:

4. `runtime.py:147`. "One supervisor owns one destination and at most one active child." (`docs/tdd/task-7-output-supervisor-red-green.md:41`). `restart()` awaits the stop of the old supervisor and then replaces it; a reconnect request and the controller's task, which share no lock, can both do so and start one supervisor each. The run `adapter` has both tasks; `OneChild`, which is `OneActiveChild` without `~crossed`, is violated in it. It takes an output that was reconnected while the controller was stopped, then a start and a second reconnect.
5. `api/routes.py:301`. Installing is documented to be blocked while the stream runs, and the route asks for all outputs to be stopped. The gate looks at `desired_running`, and reconnect starts an output of a stopped controller without changing it: in `ControlApi`, `Reconnect` with a stopped controller and then `Install`.
6. `media/process.py:336`. A task that is cancelled while it awaits the reader cancels the reader, which stays in `_stderr_task`. The next task that drains it gets `CancelledError` without having been cancelled (`DrainRaises`).
7. `media/process.py:442`. A `taskkill` that cannot be started raises `OSError`, which only the handler of a cancelled `stop()` expects; an ordinary `stop()` fails with it (`TaskkillFails`), and `StopLeavesNothing` does not speak of one that failed.
8. `api/routes.py:349-361`. "... restore the prior database snapshot plus runtime when application fails" (`docs/tdd/task-10-api-red-green.md:115-116`). A write of the rollback may fail as the application did: the database then keeps the rejected configuration and the old controller runs. And when the new controller has replaced the old one before its `start()` cannot save, and the second application fails at its load, the rejected controller stays, and the next `stop()` or `start()` saves its configuration over the old one. `FailedChangeLeavesNoTrace` leaves this case out by `~unrestored`; without it `ControlApi.cfg` violates the property with two faults.

`control_api` contains the positive counterparts: `StaleWritesConflict` (no lost update unless a PUT was rolled
back) and `InstallWhileStopped` (the controller itself never runs during an installation).

## Not modelled

- The *source state machine* of `domain/state_machine.py`: only tests use it. The controller's own states are modelled.
- Pure data: command lines, parsing of pages, probe reports and stderr, redaction, encryption, API schemas, session tokens and origin checks. They have no sequence of steps; their unit tests are the right tool.
- The *destination test* (`destination_test.py`) is one connection attempt with a deadline of its own, bounded once more by its route; it keeps no state. The read-only routes change nothing that the models read.
- *Parsing of room pages* (`source/douyin.py`) is data: its requests follow each other and keep nothing. The controller sees live, offline or a failure.
- Of the database: encryption, redaction, the columns nobody decides on, and *import and export* of a configuration, which only tests call (`import_config` reads rows before its transaction, `database.py:1151`). A revision is never checked against SQLite's integers (`database.py:981`), and no history reaches that bound.
- A *second instance* of the application opens the database and builds its runtime before it finds the port taken (`main.py:173-205`); `Database` covers the file it shares by then. That a relay which was wanted also resumes there, until the bind fails, is not modelled: it needs two operating-system processes with outputs.
- Of the child process: the tail, the metrics and `was_killed`. Of the helper: a process it may not open (`helper.py:140`), which ends the wait like a time limit that is over. Of the update client: the manifest's contents and the path locks, which the operation lock of the service leaves without work.
- The *front end* polls and guards against late answers; its windows are the clients of `ControlApi`, which keep what they have read for as long as they like.
- *Packaging scripts* are no part of the running program.
- Assumptions of abstraction, each named in the module that makes it: requests are not cancelled (`ControlApi`, `UpdateService`); the callers of the controller are not cancelled (`Controller`); a version is released once, the clock is not set back and nobody starts the application by hand while a helper works (`UpdateService`); `run()` of the supervisor, which only tests call, is left out.
- Hazards without a property, with the reason of each, are in `PROJECT.json`. Two of them are reachable in the models although no document says what should happen: a `start()` whose save fails leaves `desired` set without a task, and a `set_destination_enabled()` during `shutdown()` stores that the stream is not wanted.

## Plan

Done, in the order of importance: supervisor with its abstract session, adapter, controller, API with the
runtime manager, update service with its helper, database, child process, media probe; theorems for the safety
properties of all of them.

To do, in this order:

1. An abstract specification of the API (one stored configuration, compare and swap by revision) and `ControlApi` as its refinement as long as no PUT is rolled back; the same for the rows of `Database`, which is what `ControlApi` assumes of it.
2. The weakest condition on the callers under which a supervisor that is opened again keeps its contract under cancellation.
3. Request cancellation in `ControlApi`: `except Exception` of a PUT does not roll back on `CancelledError`.

## Running the checks

    tlc -config Supervisor.cfg MCOutputSupervisor.tla
    tlc -config Adapter.cfg MCDestinationAdapter.tla
    tlc -config Controller.cfg MCController.tla
    tlc -config ControllerStandby.cfg MCController.tla
    tlc -config ControlApi.cfg MCControlApi.tla
    tlc -config UpdateService.cfg UpdateService.tla
    tlc -config Database.cfg MCDatabase.tla
    tlc -config ChildProcess.cfg ChildProcess.tla
    tlc -config MediaProbe.cfg MediaProbe.tla
    tlapm OutputSupervisorProofs.tla
    tlapm DestinationAdapterProofs.tla
    tlapm ControllerProofs.tla
    tlapm ControlApiProofs.tla
    tlapm UpdateServiceProofs.tla
    tlapm DatabaseProofs.tla
    tlapm ChildProcessProofs.tla
    tlapm MediaProbeProofs.tla

The configurations `SupervisorTwoChildren.cfg`, `ControlApiStaleWrite.cfg` and `MediaProbeHang.cfg` end with a counterexample.
`PROJECT.json` names the module and the configuration of every run, maps every definition to the lines it
translates, and lists mutants, findings, hazards and theorems.
