---------------------------- MODULE UpdateService ----------------------------
(***************************************************************************)
(* update/service.py: UpdateService, which checks for, downloads and       *)
(* installs releases, its state file, the installer update/client.py puts  *)
(* in place, and update/helper.py, which outlives the application.         *)
(*                                                                         *)
(* An operation suspends where it awaits asyncio.to_thread(): writing the  *)
(* state, the client, the steps before the launch.  The thread succeeds or *)
(* fails; state file and installer are replaced in one step.               *)
(*                                                                         *)
(* Left out: the checks of addresses, names and arguments, error texts,    *)
(* the copy of the helper.  A version is released once, the clock is not   *)
(* set back, requests are not cancelled, and nobody starts the application *)
(* by hand while a helper works.                                           *)
(***************************************************************************)
EXTENDS Integers

CONSTANTS
  Clients,    \* requests to check, download or install
  Background, \* the task of start_background()
  NoTask,     \* _operation_lock is free
  MaxVersion, \* bound: the newest version anybody releases
  MaxDays     \* bound: how often CHECK_INTERVAL passes

ASSUME UpdateAssumption ==
  /\ Background \notin Clients
  /\ NoTask \notin Clients \cup {Background}
  /\ MaxVersion \in Nat
  /\ MaxDays \in Nat \ {0}

Tasks == Clients \cup {Background}

\* The first version is 0, those released after it are 1, 2 ...
Releases == 1 .. MaxVersion
None  == 0  \* no release
Never == 0  \* no check
Days  == 1 .. MaxDays

VARIABLES
  app,            \* whether the process runs
  version,        \* the version that is installed, __version__
  day,            \* one more whenever CHECK_INTERVAL has passed
  state,          \* _state
  manifest,       \* _manifest: the release it describes, or None
  installer,      \* _installer: the release it installs, or None
  installStarted, \* _install_started
  lock,           \* holder of _operation_lock
  pc,             \* where each task is suspended
  stable,         \* what the operation under way restores
  candidate,      \* the state it commits, and the manifest of the check
  file,           \* state.json and the version that wrote it
  good,           \* releases whose installer on disk is what the manifest says
  helper,         \* the newest helper: its phase and the release it installs
  pid,            \* whose the process id is that it waits for
  completed       \* history: day of the last check that was committed

processVars == <<app, version>>
helperVars  == <<helper, pid>>
memoryVars  == <<state, manifest, installer, installStarted>>
jobVars     == <<lock, pc, stable, candidate>>
vars == <<processVars, helperVars, day, memoryVars, jobVars, file, good, completed>>

Statuses == {"idle", "checking", "current", "available", "downloading", "ready", "failed"}
Commits  == {"commitChecking", "commitChecked", "commitDownloading", "commitDownloaded"}
Places   == Commits \cup {"idle", "checking", "downloading", "cleaning", "timing",
                          "verifying", "preparing", "over"}
Phases   == {"none", "waiting", "verifying", "installing", "over"}

Snapshot(status, release, checked) ==
  [status |-> status, release |-> release, checked |-> checked]

Idle(checked) == Snapshot("idle", None, checked)

Memory == [state |-> state, manifest |-> manifest, installer |-> installer]

NoMemory    == [state |-> Idle(Never), manifest |-> None, installer |-> None]
NoCandidate == [snapshot |-> Idle(Never), manifest |-> None]

\* _load_state().  What another version wrote is ignored; an operation that was under
\* way and an offer are forgotten, but not when the last check was.
Loaded(f, v) ==
  IF f.version # v THEN Idle(Never)
  ELSE IF f.snapshot.status \in {"checking", "available", "downloading", "ready"}
       THEN Idle(f.snapshot.checked)
       ELSE f.snapshot

Init ==
  /\ app = TRUE
  /\ version = 0
  /\ day = 1
  /\ state = Idle(Never)
  /\ manifest = None
  /\ installer = None
  /\ installStarted = FALSE
  /\ lock = NoTask
  /\ pc = [t \in Tasks |-> "idle"]
  /\ stable = NoMemory
  /\ candidate = NoCandidate
  /\ file = [snapshot |-> Idle(Never), version |-> 0]
  /\ good = {}
  /\ helper = [phase |-> "none", release |-> None]
  /\ pid = "free"
  /\ completed = Never

-----------------------------------------------------------------------------
(* What the operations share.                                              *)

\* _raise_if_installing() and the look at the lock, which is taken before anything
\* else can happen.
Admitted(t) == app /\ pc[t] = "idle" /\ ~installStarted /\ lock = NoTask

Goto(t, place) == pc' = [pc EXCEPT ![t] = place]

\* The operation returns or raises; the background task ends with its check.
Return(t) ==
  /\ lock' = NoTask
  /\ pc' = [pc EXCEPT ![t] = IF t = Background THEN "over" ELSE "idle"]
  /\ stable' = NoMemory
  /\ candidate' = NoCandidate

Begin(t, snapshot, place) ==
  /\ lock' = t
  /\ stable' = Memory
  /\ candidate' = [snapshot |-> snapshot, manifest |-> None]
  /\ Goto(t, place)

Written == [snapshot |-> candidate.snapshot, version |-> version]

\* _commit_state(): the file first, the memory when that succeeded.
Commit ==
  /\ file' = Written
  /\ state' = candidate.snapshot

\* Deviation: the manifest is not restored.
RestoreStateOnly ==
  /\ state' = stable.state
  /\ installer' = stable.installer
  /\ UNCHANGED manifest

\* Deviation: a state that could not be written is shown.
RestoreNothing ==
  /\ state' = candidate.snapshot
  /\ UNCHANGED <<manifest, installer>>

\* _restore_stable_state()
Restore ==
  /\ state' = stable.state
  /\ manifest' = stable.manifest
  /\ installer' = stable.installer

-----------------------------------------------------------------------------
(* check() and automatic_check().                                          *)

\* Deviation: the state of a check under way has no last_checked_at.
BeginCheckUntimed(t) ==
  /\ Admitted(t)
  /\ t = Background => state.checked # day
  /\ Begin(t, Snapshot("checking", None, Never), "commitChecking")
  /\ UNCHANGED <<processVars, helperVars, day, memoryVars, file, good, completed>>

\* Deviation: a check is admitted after an installation has started.
BeginCheckInstalling(t) ==
  /\ app /\ pc[t] = "idle" /\ lock = NoTask
  /\ t = Background => state.checked # day
  /\ Begin(t, Snapshot("checking", None, state.checked), "commitChecking")
  /\ UNCHANGED <<processVars, helperVars, day, memoryVars, file, good, completed>>

\* The automatic check is left out when the last one is younger than the interval.
BeginCheck(t) ==
  /\ Admitted(t)
  /\ t = Background => state.checked # day
  /\ Begin(t, Snapshot("checking", None, state.checked), "commitChecking")
  /\ UNCHANGED <<processVars, helperVars, day, memoryVars, file, good, completed>>

BackgroundSkips ==
  /\ app
  /\ pc[Background] = "idle"
  /\ installStarted \/ lock # NoTask \/ state.checked = day
  /\ Goto(Background, "over")
  /\ UNCHANGED <<processVars, helperVars, day, memoryVars, lock, stable, candidate, file,
                 good, completed>>

CheckingSaved(t) ==
  /\ pc[t] = "commitChecking"
  /\ Commit
  /\ manifest' = None
  /\ installer' = None
  /\ Goto(t, "checking")
  /\ UNCHANGED <<processVars, helperVars, day, installStarted, lock, stable, candidate, good,
                 completed>>

\* check_for_update() has fetched a manifest and compared its version, or failed.
FoundNewer ==
  \E r \in Releases :
    /\ r > version
    /\ candidate' = [snapshot |-> Snapshot("available", r, day), manifest |-> r]

FoundNone ==
  \E status \in {"current", "failed"} :
    candidate' = [snapshot |-> Snapshot(status, None, day), manifest |-> None]

Checked(t) ==
  /\ pc[t] = "checking"
  /\ FoundNewer \/ FoundNone
  /\ Goto(t, "commitChecked")
  /\ UNCHANGED <<processVars, helperVars, day, memoryVars, lock, stable, file, good, completed>>

CheckSaved(t) ==
  /\ pc[t] = "commitChecked"
  /\ Commit
  /\ manifest' = candidate.manifest
  /\ completed' = candidate.snapshot.checked
  /\ Return(t)
  /\ UNCHANGED <<processVars, helperVars, day, installer, installStarted, good>>

-----------------------------------------------------------------------------
(* download().                                                             *)

BeginDownload(t) ==
  /\ t # Background
  /\ Admitted(t)
  /\ state.status = "available"
  /\ manifest # None
  /\ Begin(t, Snapshot("downloading", manifest, state.checked), "commitDownloading")
  /\ UNCHANGED <<processVars, helperVars, day, memoryVars, file, good, completed>>

DownloadingSaved(t) ==
  /\ pc[t] = "commitDownloading"
  /\ Commit
  /\ Goto(t, "downloading")
  /\ UNCHANGED <<processVars, helperVars, day, manifest, installer, installStarted, lock, stable,
                 candidate, good, completed>>

\* download_installer() replaces the file only by one that has the size and the hash of the
\* manifest; what it wrote of another is removed.
InstallerReplaced == good' = good \cup {manifest}

Downloaded(t) ==
  /\ pc[t] = "downloading"
  /\ \/ /\ InstallerReplaced
        /\ candidate' = [candidate EXCEPT !.snapshot = Snapshot("ready", manifest, state.checked)]
     \/ /\ candidate' = [candidate EXCEPT !.snapshot = Snapshot("failed", None, state.checked)]
        /\ UNCHANGED good
  /\ Goto(t, "commitDownloaded")
  /\ UNCHANGED <<processVars, helperVars, day, memoryVars, lock, stable, file, completed>>

DownloadSaved(t) ==
  /\ pc[t] = "commitDownloaded"
  /\ Commit
  /\ installer' = candidate.snapshot.release
  /\ Return(t)
  /\ UNCHANGED <<processVars, helperVars, day, manifest, installStarted, good, completed>>

\* _cleanup_download_artifacts(), which may not be able to remove the file.
Cleaned(t) ==
  /\ pc[t] = "cleaning"
  /\ good' \in {good, good \ {manifest}}
  /\ Return(t)
  /\ UNCHANGED <<processVars, helperVars, day, memoryVars, file, completed>>

\* Deviation: the lock is not released when a state cannot be written.
NotSavedHolding(t) ==
  /\ pc[t] \in Commits
  /\ Goto(t, "over")
  /\ UNCHANGED <<processVars, helperVars, day, memoryVars, lock, stable, candidate, file, good,
                 completed>>

\* The state cannot be written.  Nothing changed yet at the begin of an operation;
\* at its end what was before it is restored.
NotSaved(t) ==
  /\ \/ /\ pc[t] \in {"commitChecking", "commitDownloading"}
        /\ Return(t)
        /\ UNCHANGED <<state, manifest, installer>>
     \/ /\ pc[t] = "commitChecked"
        /\ Restore
        /\ Return(t)
     \/ /\ pc[t] = "commitDownloaded"
        /\ Restore
        /\ Goto(t, "cleaning")
        /\ UNCHANGED <<lock, stable, candidate>>
  /\ UNCHANGED <<processVars, helperVars, day, installStarted, file, good, completed>>

-----------------------------------------------------------------------------
(* install().                                                              *)

BeginInstall(t) ==
  /\ t # Background
  /\ Admitted(t)
  /\ state.status = "ready"
  /\ manifest # None
  /\ installer # None
  /\ lock' = t
  /\ Goto(t, "timing")
  /\ UNCHANGED <<processVars, helperVars, day, memoryVars, stable, candidate, file, good,
                 completed>>

\* The start time of the process is read, the installer is verified again.
Prepare(t) ==
  /\ \/ pc[t] = "timing" /\ Goto(t, "verifying")
     \/ pc[t] = "verifying" /\ installer \in good /\ Goto(t, "preparing")
  /\ UNCHANGED <<processVars, helperVars, day, memoryVars, lock, stable, candidate, file, good,
                 completed>>

InstallFails(t) ==
  /\ pc[t] \in {"timing", "verifying", "preparing"}
  /\ Return(t)
  /\ UNCHANGED <<processVars, helperVars, day, memoryVars, file, good, completed>>

\* The helper is prepared and launched.
Launch(t) ==
  /\ pc[t] = "preparing"
  /\ helper' = [phase |-> "waiting", release |-> installer]
  /\ pid' = "app"
  /\ installStarted' = TRUE
  /\ Return(t)
  /\ UNCHANGED <<processVars, day, state, manifest, installer, file, good, completed>>

-----------------------------------------------------------------------------
(* The process, the helper and time.                                       *)

\* The process ends: on request, which cancels the background check and lets its
\* thread finish, or in the middle of anything.
End ==
  /\ app
  /\ app' = FALSE
  /\ \/ UNCHANGED file
     \/ lock # NoTask /\ pc[lock] \in Commits /\ file' = Written
  /\ state' = Idle(Never)
  /\ manifest' = None
  /\ installer' = None
  /\ installStarted' = FALSE
  /\ lock' = NoTask
  /\ pc' = [t \in Tasks |-> "over"]
  /\ stable' = NoMemory
  /\ candidate' = NoCandidate
  /\ pid' = IF helper.phase = "waiting" THEN "free" ELSE pid
  /\ UNCHANGED <<version, helper, day, good, completed>>

\* A process of version v starts.
Started(v) ==
  /\ app' = TRUE
  /\ version' = v
  /\ state' = Loaded(file, v)
  /\ pc' = [t \in Tasks |-> "idle"]
  /\ completed' = IF v = version THEN completed ELSE Never
  /\ UNCHANGED <<manifest, installer, installStarted, lock, stable, candidate>>

Start ==
  /\ ~app
  /\ helper.phase \in {"none", "over"}
  /\ Started(version)
  /\ UNCHANGED <<helperVars, day, file, good>>

HelperPhase(phase) == helper' = [helper EXCEPT !.phase = phase]

\* Deviation: any process with the identifier is taken for the application.
WaitedById ==
  /\ helper.phase = "waiting"
  /\ \/ pid = "free" /\ HelperPhase("verifying")
     \/ pid # "free" /\ HelperPhase("over")
  /\ UNCHANGED <<processVars, pid, day, memoryVars, jobVars, file, good, completed>>

\* wait_for_process(): the process has ended, also when its identifier has a new
\* owner, or PID_WAIT_SECONDS have passed.
Waited ==
  /\ helper.phase = "waiting"
  /\ \/ pid # "app" /\ HelperPhase("verifying")
     \/ pid = "app" /\ HelperPhase("over")
  /\ UNCHANGED <<processVars, pid, day, memoryVars, jobVars, file, good, completed>>

\* verify_installer() of the helper.
HelperVerified ==
  /\ helper.phase = "verifying"
  /\ HelperPhase(IF helper.release \in good THEN "installing" ELSE "over")
  /\ UNCHANGED <<processVars, pid, day, memoryVars, jobVars, file, good, completed>>

\* The installer fails, or the new version is there and, unless its executable is
\* missing, started.
HelperInstalled ==
  /\ helper.phase = "installing"
  /\ HelperPhase("over")
  /\ \/ UNCHANGED <<processVars, memoryVars, jobVars, completed>>
     \/ /\ version' = helper.release
        /\ completed' = Never
        /\ UNCHANGED <<app, memoryVars, jobVars>>
     \/ Started(helper.release)
  /\ UNCHANGED <<pid, day, file, good>>

\* The operating system gives the identifier to another process, which ends.
PidReused ==
  /\ helper.phase = "waiting"
  /\ \/ pid = "free" /\ pid' = "other"
     \/ pid = "other" /\ pid' = "free"
  /\ UNCHANGED <<processVars, helper, day, memoryVars, jobVars, file, good, completed>>

\* An installer is removed or altered on disk.
Spoil ==
  /\ \E r \in good : good' = good \ {r}
  /\ UNCHANGED <<processVars, helperVars, day, memoryVars, jobVars, file, completed>>

TimePasses ==
  /\ day < MaxDays
  /\ day' = day + 1
  /\ UNCHANGED <<processVars, helperVars, memoryVars, jobVars, file, good, completed>>

-----------------------------------------------------------------------------
\* A thread that a task awaits is done.
Completion(t) ==
  \/ CheckingSaved(t) \/ Checked(t) \/ CheckSaved(t)
  \/ DownloadingSaved(t) \/ Downloaded(t) \/ DownloadSaved(t) \/ Cleaned(t)
  \/ NotSaved(t)
  \/ Prepare(t) \/ InstallFails(t) \/ Launch(t)

HelperStep == Waited \/ HelperVerified \/ HelperInstalled

Next ==
  \/ \E t \in Tasks :
       BeginCheck(t) \/ BeginDownload(t) \/ BeginInstall(t) \/ Completion(t)
  \/ BackgroundSkips
  \/ End \/ Start
  \/ HelperStep
  \/ PidReused \/ Spoil \/ TimePasses

\* Every thread ends (the network and the wait have timeouts), and the helper goes on.
Fairness ==
  /\ \A t \in Tasks : WF_vars(Completion(t))
  /\ WF_vars(HelperStep)

Spec == Init /\ [][Next]_vars /\ Fairness

-----------------------------------------------------------------------------
Snapshots == [status : Statuses, release : Releases \cup {None}, checked : Days \cup {Never}]

Memories == [state : Snapshots, manifest : Releases \cup {None},
             installer : Releases \cup {None}]

MemoryTypeOK ==
  /\ Memory \in Memories
  /\ installStarted \in BOOLEAN
  /\ file \in [snapshot : Snapshots, version : 0 .. MaxVersion]
  /\ good \subseteq Releases

JobTypeOK ==
  /\ lock \in Tasks \cup {NoTask}
  /\ pc \in [Tasks -> Places]
  /\ stable \in Memories
  /\ candidate \in [snapshot : Snapshots, manifest : Releases \cup {None}]

ProcessTypeOK ==
  /\ app \in BOOLEAN
  /\ version \in 0 .. MaxVersion
  /\ day \in Days
  /\ helper \in [phase : Phases, release : Releases \cup {None}]
  /\ pid \in {"app", "free", "other"}
  /\ completed \in Days \cup {Never}

TypeOK == MemoryTypeOK /\ JobTypeOK /\ ProcessTypeOK

Settled == app /\ lock = NoTask

\* When no operation is under way the state shows none, and what it offers can be
\* done: an available release has its manifest, a ready one also its installer,
\* whichever of the writes failed before.
OfferIsTrue ==
  Settled =>
    /\ state.status \notin {"checking", "downloading"}
    /\ state.status = "available" => manifest = state.release
    /\ state.status = "ready" => manifest = state.release /\ installer = state.release

\* While the helper waits for the application, the application shows the release it
\* waits to install: nothing is checked or downloaded in between.
InstallsWhatIsShown ==
  app /\ helper.phase = "waiting" =>
    state.status = "ready" /\ state.release = helper.release

\* A process that ends between two operations is followed by one that shows the same
\* or nothing, and knows as well when the last check was.
Surviving(s) == IF s.status \in {"available", "ready"} THEN Idle(s.checked) ELSE s

RestartForgetsOnlyTheOffer ==
  Settled => Loaded(file, version) \in {Surviving(state), Idle(state.checked)}

\* The automatic check asks the server once per interval at most: a check that was
\* completed is remembered by every later state and every restart.
AutomaticCheckIsRare ==
  [][pc[Background] # "commitChecking" /\ pc'[Background] = "commitChecking"
     => completed # day]_vars

\* Every operation ends, whatever fails.
OperationsEnd == lock # NoTask ~> lock = NoTask

\* Once the application has ended its update is installed, unless the installer was
\* spoiled meanwhile: a new owner of its process identifier does not keep it waiting.
UpdateGoesOn ==
  helper.phase = "waiting" /\ pid # "app"
    ~> helper.phase = "installing" \/ helper.release \notin good
=============================================================================
