----------------------------- MODULE Controller -----------------------------
(***************************************************************************)
(* orchestration/controller.py: Controller, the task that watches one live *)
(* source and switches the configured outputs between it, the standby      *)
(* input and nothing, and the calls that start, stop and configure it.     *)
(*                                                                         *)
(* The bodies under _state_lock never suspend, so each is part of one      *)
(* action.  Tasks meet where the code awaits the resolver, the probe, a    *)
(* sleep, an output, the controller's task, the state store, or one of the *)
(* locks _initialize_lock, _lifecycle_lock and _persistence_lock.          *)
(*                                                                         *)
(* The counters the code compares for equality with a captured value       *)
(* (lifecycle and output generation, persistence version) are replaced by  *)
(* whether they moved since the capture.  A poll's own check of the        *)
(* lifecycle generation cannot fail here: _stop() cancels the task in the  *)
(* step that moves the generation, and poll_once() is called by tests only.*)
(*                                                                         *)
(* An output is used through the DestinationSupervisor protocol: restart() *)
(* and stop() are what runtime._DestinationAdapter makes of them, and LIVE *)
(* stands for a child that runs or is being retried.                       *)
(*                                                                         *)
(* Left out: last_error and the error texts, delay values, cancellation of *)
(* the callers themselves.                                                 *)
(***************************************************************************)
EXTENDS Integers, FiniteSets

CONSTANTS
  NumDests,   \* destinations, in the order they are configured
  Callers,    \* tasks that call the controller
  NoCaller,   \* a lock is free
  Urls,       \* what the resolver may answer
  NoUrl,      \* no fingerprint, nothing read
  Standby,    \* the standby input
  HasStandby, \* whether the controller was built with one
  NoRecord,   \* the store has nothing for the room
  StoreFails  \* whether load() and save() may raise

ASSUME ControllerAssumption ==
  /\ NumDests \in Nat \ {0}
  /\ NoCaller \notin Callers
  /\ NoUrl \notin Urls
  /\ Standby \notin Urls \cup {NoUrl}
  /\ HasStandby \in BOOLEAN
  /\ StoreFails \in BOOLEAN

Dests == 1 .. NumDests

ASSUME RecordAssumption == NoRecord \notin [desired : BOOLEAN, enabled : SUBSET Dests]

VARIABLES
  desired,      \* _desired_running
  enabled,      \* the enabled destinations
  asked,        \* history: what the operator last asked for, start or stop
  source,       \* _state, _recovery_successes, and how long ago the times
                \* _first_failure_at and _last_recovery_success_at are
  input,        \* _inputs
  fingerprint,  \* _output_source_fingerprints
  sup,          \* state of each destination's supervisor
  feed,         \* what its child reads
  runner,       \* where the controller's task is suspended, "none" without one
  taskCancel,   \* the task was cancelled and did not notice yet
  job,          \* the _switch_outputs() or _stop_outputs() of the task
  initialized,  \* _initialized
  initLock,     \* holder of _initialize_lock
  initCurrent,  \* no start() or stop() since the load began
  lcLock,       \* holder of _lifecycle_lock
  pc, op, at,   \* where each caller is, in which call, at which destination
  persisted,    \* how _persisted_version compares with _persistence_version
  writer,       \* the caller whose save is under way
  snap,         \* what it saves, and whether that is still the newest version
  stored        \* the record in the state store

wishVars  == <<desired, enabled, asked>>
outVars   == <<input, fingerprint, sup, feed>>
runVars   == <<runner, taskCancel, job>>
initVars  == <<initialized, initLock, initCurrent>>
callVars  == <<lcLock, pc, op, at>>
storeVars == <<persisted, writer, snap, stored>>
vars == <<wishVars, source, outVars, runVars, initVars, callVars, storeVars>>

SourceStates == {"STOPPED", "MONITORING", "LIVE", "RECONNECTING", "STANDBY", "ERROR"}
OutputStates == {"STOPPED", "CONNECTING", "LIVE", "AUTH_FAILED", "ERROR"}
Inputs == {"NONE", "LIVE", "STANDBY"}
Ages   == {"none", "young", "old"}
Places == {"none", "created", "resolving", "probing", "validating", "starting",
           "started", "undoing", "monitoring", "backoff", "ending"}
Awaits == {"idle", "initializing", "loading", "wantStart", "wantStop", "awaitTask",
           "stopOutputs", "disabling", "persisting"}
Calls  == {"initialize", "start", "stop", "shutdown"}

Records == [desired : BOOLEAN, enabled : SUBSET Dests]

\* _clear_resolved_recovery_state(), with the state set beside it.
Unwatched(s) == [state |-> s, failAge |-> "none", recoveries |-> 0, recAge |-> "none"]

NoJob == [target |-> "NONE", url |-> NoUrl, rest |-> {}, fresh |-> {}, at |-> 0,
          after |-> "none"]

Memory == [desired |-> desired, enabled |-> enabled]

\* _persist() is not saving.
NoSnap == [record |-> [desired |-> FALSE, enabled |-> {}], newest |-> FALSE]

Running(d) == sup[d] \in {"CONNECTING", "LIVE"}

AnyInputLive == \E d \in Dests : input[d] = "LIVE"

Init ==
  /\ desired = FALSE
  /\ enabled \in SUBSET Dests
  /\ asked = FALSE
  /\ source = Unwatched("STOPPED")
  /\ input = [d \in Dests |-> "NONE"]
  /\ fingerprint = [d \in Dests |-> NoUrl]
  /\ sup = [d \in Dests |-> "STOPPED"]
  /\ feed = [d \in Dests |-> NoUrl]
  /\ runner = "none"
  /\ taskCancel = FALSE
  /\ job = NoJob
  /\ initialized = FALSE
  /\ initLock = NoCaller
  /\ initCurrent = FALSE
  /\ lcLock = NoCaller
  /\ pc = [c \in Callers |-> "idle"]
  /\ op = [c \in Callers |-> "none"]
  /\ at = [c \in Callers |-> 0]
  /\ persisted = "never"
  /\ writer = NoCaller
  /\ snap = NoSnap
  /\ stored \in Records \cup {NoRecord}

-----------------------------------------------------------------------------
(* Steps the calls share.                                                  *)

\* The call of c goes on at a place, or is over.
Goto(c, place) == pc' = [pc EXCEPT ![c] = place] /\ UNCHANGED op

Return(c) == pc' = [pc EXCEPT ![c] = "idle"] /\ op' = [op EXCEPT ![c] = "none"]

\* _persistence_version += 1
NewVersion ==
  /\ persisted' = "behind"
  /\ snap' = [snap EXCEPT !.newest = FALSE]

\* The output's own stop() returned: nothing of it runs.
OutputStopped(d) ==
  /\ sup' = [sup EXCEPT ![d] = "STOPPED"]
  /\ feed' = [feed EXCEPT ![d] = NoUrl]

\* The head of _stop_outputs(): every output generation moves on.
ForgetInputs ==
  /\ input' = [d \in Dests |-> "NONE"]
  /\ fingerprint' = [d \in Dests |-> NoUrl]

-----------------------------------------------------------------------------
(* initialize(), alone or as the beginning of start().                     *)

\* RuntimeManager lets nobody at its controller before initialize() returned.
Call(c, call) ==
  /\ pc[c] = "idle"
  /\ initialized \/ call = "initialize"
  /\ op' = [op EXCEPT ![c] = call]
  /\ pc' = [pc EXCEPT ![c] =
              IF call \in {"stop", "shutdown"} THEN "wantStop" ELSE "initializing"]
  /\ UNCHANGED <<wishVars, source, outVars, runVars, initVars, lcLock, at, storeVars>>

\* What follows initialize() in the call of c.
Initialized(c) == IF op[c] = "start" THEN Goto(c, "wantStart") ELSE Return(c)

BeginLoad(c) ==
  /\ pc[c] = "initializing"
  /\ initLock = NoCaller
  /\ \/ /\ initialized
        /\ Initialized(c)
        /\ UNCHANGED <<initLock, initCurrent>>
     \/ /\ ~initialized
        /\ initLock' = c
        /\ initCurrent' = TRUE
        /\ Goto(c, "loading")
  /\ UNCHANGED <<wishVars, source, outVars, runVars, initialized, lcLock, at, storeVars>>

\* load() answered.  A start() or stop() meanwhile overrules what was loaded.
Loaded(c) ==
  LET wish == IF stored = NoRecord THEN [desired |-> TRUE, enabled |-> enabled]
              ELSE stored
  IN
  /\ pc[c] = "loading"
  /\ initLock' = NoCaller
  /\ initialized' = TRUE
  /\ Initialized(c)
  /\ \/ /\ initCurrent
        /\ desired' = wish.desired
        /\ enabled' = wish.enabled
        /\ asked' = wish.desired
        /\ source' = Unwatched("MONITORING")
     \/ /\ ~initCurrent
        /\ UNCHANGED <<wishVars, source>>
  /\ UNCHANGED <<outVars, runVars, initCurrent, lcLock, at, storeVars>>

\* Deviation: a failed load keeps the initialize lock.
LoadFailedHolding(c) ==
  /\ StoreFails
  /\ pc[c] = "loading"
  /\ UNCHANGED initLock
  /\ Return(c)
  /\ UNCHANGED <<wishVars, source, outVars, runVars, initialized, initCurrent,
                 lcLock, at, storeVars>>

LoadFailed(c) ==
  /\ StoreFails
  /\ pc[c] = "loading"
  /\ initLock' = NoCaller
  /\ Return(c)
  /\ UNCHANGED <<wishVars, source, outVars, runVars, initialized, initCurrent,
                 lcLock, at, storeVars>>

-----------------------------------------------------------------------------
(* start(), stop(), shutdown(): under the lifecycle lock.                  *)

\* Deviation: start() takes no lifecycle lock.
BeginStartUnlocked(c) ==
  /\ pc[c] = "wantStart"
  /\ \/ /\ runner # "none"
        /\ Return(c)
        /\ UNCHANGED <<desired, asked, source, initCurrent, lcLock, persisted, snap>>
     \/ /\ runner = "none"
        /\ IF desired THEN UNCHANGED <<persisted, snap>> ELSE NewVersion
        /\ desired' = TRUE
        /\ asked' = TRUE
        /\ initCurrent' = FALSE
        /\ source' = [source EXCEPT !.state = IF @ = "STOPPED" THEN "MONITORING" ELSE @]
        /\ lcLock' = c
        /\ Goto(c, "persisting")
  /\ UNCHANGED <<enabled, outVars, runVars, initialized,
                 initLock, at, writer, stored>>

BeginStart(c) ==
  /\ pc[c] = "wantStart"
  /\ lcLock = NoCaller
  /\ \/ /\ runner # "none"
        /\ Return(c)
        /\ UNCHANGED <<desired, asked, source, initCurrent, lcLock, persisted, snap>>
     \/ /\ runner = "none"
        /\ IF desired THEN UNCHANGED <<persisted, snap>> ELSE NewVersion
        /\ desired' = TRUE
        /\ asked' = TRUE
        /\ initCurrent' = FALSE
        /\ source' = [source EXCEPT !.state = IF @ = "STOPPED" THEN "MONITORING" ELSE @]
        /\ lcLock' = c
        /\ Goto(c, "persisting")
  /\ UNCHANGED <<enabled, outVars, runVars, initialized,
                 initLock, at, writer, stored>>

\* _stop_outputs() in the call of c.
StopOutputsFrom(c) ==
  /\ Goto(c, "stopOutputs")
  /\ at' = [at EXCEPT ![c] = 1]
  /\ ForgetInputs

BeginStop(c) ==
  /\ pc[c] = "wantStop"
  /\ lcLock = NoCaller
  /\ lcLock' = c
  /\ IF desired THEN NewVersion ELSE UNCHANGED <<persisted, snap>>
  /\ desired' = FALSE
  /\ asked' = (asked /\ op[c] = "shutdown")
  /\ initCurrent' = FALSE
  /\ IF runner = "none"
     THEN StopOutputsFrom(c) /\ UNCHANGED taskCancel
     ELSE /\ taskCancel' = TRUE
          /\ Goto(c, "awaitTask")
          /\ UNCHANGED <<at, input, fingerprint>>
  /\ UNCHANGED <<enabled, source, sup, feed, runner, job, initialized, initLock,
                 writer, stored>>

TaskEnded(c) ==
  /\ pc[c] = "awaitTask"
  /\ runner = "none"
  /\ StopOutputsFrom(c)
  /\ UNCHANGED <<wishVars, source, sup, feed, runVars, initVars, lcLock, storeVars>>

\* Deviation: a stop() persists no more than a shutdown() does.
StopOutputUnsaved(c) ==
  /\ pc[c] = "stopOutputs"
  /\ OutputStopped(at[c])
  /\ \/ /\ at[c] < NumDests
        /\ at' = [at EXCEPT ![c] = @ + 1]
        /\ input' = [input EXCEPT ![at[c]] = "NONE"]
        /\ UNCHANGED <<source, lcLock, pc, op>>
     \/ /\ at[c] = NumDests
        /\ at' = [at EXCEPT ![c] = 0]
        /\ input' = [d \in Dests |-> "NONE"]
        /\ source' = Unwatched("STOPPED")
        /\ Return(c)
        /\ lcLock' = NoCaller
  /\ UNCHANGED <<wishVars, fingerprint, runVars, initVars, storeVars>>

StopOutput(c) ==
  /\ pc[c] = "stopOutputs"
  /\ OutputStopped(at[c])
  /\ \/ /\ at[c] < NumDests
        /\ at' = [at EXCEPT ![c] = @ + 1]
        /\ input' = [input EXCEPT ![at[c]] = "NONE"]
        /\ UNCHANGED <<source, lcLock, pc, op>>
     \/ /\ at[c] = NumDests
        /\ at' = [at EXCEPT ![c] = 0]
        /\ input' = [d \in Dests |-> "NONE"]
        /\ source' = Unwatched("STOPPED")
        /\ IF op[c] = "shutdown"
           THEN Return(c) /\ lcLock' = NoCaller
           ELSE Goto(c, "persisting") /\ UNCHANGED lcLock
  /\ UNCHANGED <<wishVars, fingerprint, runVars, initVars, storeVars>>

-----------------------------------------------------------------------------
(* set_destination_enabled().                                              *)

Enable(c, d) ==
  /\ pc[c] = "idle"
  /\ initialized
  /\ d \notin enabled
  /\ enabled' = enabled \cup {d}
  /\ NewVersion
  /\ job' = [job EXCEPT !.fresh = @ \ {d}]
  /\ Goto(c, "persisting")
  /\ UNCHANGED <<desired, asked, source, outVars, runner, taskCancel, initVars, lcLock,
                 at, writer, stored>>

\* Disabling the last destination of a running controller stops it.
Disable(c, d) ==
  /\ pc[c] = "idle"
  /\ initialized
  /\ d \in enabled
  /\ enabled' = enabled \ {d}
  /\ NewVersion
  /\ job' = [job EXCEPT !.fresh = @ \ {d}]
  /\ input' = [input EXCEPT ![d] = "NONE"]
  /\ fingerprint' = [fingerprint EXCEPT ![d] = NoUrl]
  /\ IF desired /\ enabled = {d}
     THEN /\ op' = [op EXCEPT ![c] = "stop"]
          /\ pc' = [pc EXCEPT ![c] = "wantStop"]
          /\ UNCHANGED at
     ELSE /\ at' = [at EXCEPT ![c] = d]
          /\ Goto(c, "disabling")
  /\ UNCHANGED <<desired, asked, source, sup, feed, runner, taskCancel, initVars, lcLock,
                 writer, stored>>

\* The stop() of the output returned.  If restart() replaced the supervisor
\* meanwhile, it stopped the old one.
DestinationStopped(c) ==
  /\ pc[c] = "disabling"
  /\ IF at[c] = 0 THEN UNCHANGED <<sup, feed>> ELSE OutputStopped(at[c])
  /\ at' = [at EXCEPT ![c] = 0]
  /\ Goto(c, "persisting")
  /\ UNCHANGED <<wishVars, source, input, fingerprint, runVars, initVars, lcLock, storeVars>>

-----------------------------------------------------------------------------
(* _persist(): the end of start(), stop() and set_destination_enabled().   *)

\* _persist() returned to the call of c.
Persisted(c) ==
  /\ Return(c)
  /\ snap' = NoSnap
  /\ lcLock' = IF lcLock = c THEN NoCaller ELSE lcLock
  /\ runner' = IF op[c] = "start" THEN "created" ELSE runner
  /\ UNCHANGED taskCancel

\* The persistence lock is free: the newest version is already stored, or this
\* caller takes a snapshot of it and saves that.
BeginSave(c) ==
  /\ pc[c] = "persisting"
  /\ writer = NoCaller
  /\ \/ /\ persisted = "current"
        /\ Persisted(c)
        /\ UNCHANGED writer
     \/ /\ persisted # "current"
        /\ writer' = c
        /\ snap' = [record |-> Memory, newest |-> TRUE]
        /\ UNCHANGED <<callVars, runner, taskCancel>>
  /\ UNCHANGED <<wishVars, source, outVars, job, initVars, at, persisted, stored>>

\* Deviation: a save is not checked against the version afterwards.
SavedOnce(c) ==
  /\ writer = c
  /\ stored' = snap.record
  /\ persisted' = "current"
  /\ writer' = NoCaller
  /\ Persisted(c)
  /\ UNCHANGED <<wishVars, source, outVars, job, initVars, at>>

\* save() returned.  When a newer version appeared meanwhile, it is saved too.
Saved(c) ==
  /\ writer = c
  /\ stored' = snap.record
  /\ \/ /\ snap.newest
        /\ persisted' = "current"
        /\ writer' = NoCaller
        /\ Persisted(c)
     \/ /\ ~snap.newest
        /\ snap' = [record |-> Memory, newest |-> TRUE]
        /\ UNCHANGED <<persisted, writer, callVars, runner, taskCancel>>
  /\ UNCHANGED <<wishVars, source, outVars, job, initVars, at>>

\* save() raised, and so does the call: a start() leaves no task behind.
SaveFailed(c) ==
  /\ StoreFails
  /\ writer = c
  /\ writer' = NoCaller
  /\ Return(c)
  /\ snap' = NoSnap
  /\ lcLock' = IF lcLock = c THEN NoCaller ELSE lcLock
  /\ UNCHANGED <<wishVars, source, outVars, runVars, initVars, at, persisted, stored>>

-----------------------------------------------------------------------------
(* The controller's task: _run() and poll_once(), one cycle after another. *)

Begin ==
  /\ runner = "created"
  /\ ~taskCancel
  /\ runner' = "resolving"
  /\ UNCHANGED <<wishVars, source, outVars, taskCancel, job, initVars, callVars, storeVars>>

\* Deviation: a new URL restarts an output whatever its state.
ShouldSwitchHealthy(d, target, url) ==
  /\ d \in enabled
  /\ sup[d] # "AUTH_FAILED"
  /\ \/ input[d] # target
     \/ /\ target = "LIVE"
        /\ fingerprint[d] # url

\* _should_switch_unlocked()
ShouldSwitch(d, target, url) ==
  /\ d \in enabled
  /\ sup[d] # "AUTH_FAILED"
  /\ \/ input[d] # target
     \/ /\ target = "LIVE"
        /\ sup[d] \in {"ERROR", "STOPPED"}
        /\ fingerprint[d] # url

\* What poll_once() does after _switch_outputs(), by the place that called it.
AfterSwitch(after, s) ==
  /\ job' = NoJob
  /\ \/ /\ after = "success"
        /\ source' = Unwatched("LIVE")
        /\ runner' = "monitoring"
     \/ /\ after = "failure"
        /\ source' = [s EXCEPT !.state = "STANDBY"]
        /\ runner' = "backoff"
     \/ /\ after = "deadline"
        /\ source' = [s EXCEPT !.state = "STANDBY"]
        /\ runner' = "resolving"

\* The switch j goes on with the next prepared destination whose generation did
\* not move and that still needs it; without one it is over.
Proceed(j, s) ==
  LET due == {d \in j.rest \cap j.fresh : ShouldSwitch(d, j.target, j.url)}
  IN  \/ /\ due = {}
         /\ AfterSwitch(j.after, s)
      \/ \E d \in due :
           /\ \A e \in due : d <= e
           /\ job' = [j EXCEPT !.at = d, !.rest = {e \in @ : e > d}]
           /\ runner' = "validating"
           /\ source' = s

\* _switch_outputs(): plan, prepare, and go through what could be prepared.
Switch(target, url, after, s) ==
  \E prepared \in SUBSET {d \in Dests : ShouldSwitch(d, target, url)} :
    Proceed([target |-> target, url |-> url, rest |-> prepared, fresh |-> prepared,
             at |-> 0, after |-> after], s)

\* _record_failure() and, for an unexpected exception, _record_unexpected().
RecordFailure(unexpected) ==
  LET since == IF source.failAge = "none" THEN "young" ELSE source.failAge
      state == IF source.state = "STANDBY" THEN "STANDBY"
               ELSE IF AnyInputLive THEN "RECONNECTING" ELSE "MONITORING"
      failed == [state |-> state, failAge |-> since, recoveries |-> 0, recAge |-> "none"]
      standbyDue ==
        \/ state = "STANDBY" /\ \E d \in enabled : input[d] # "STANDBY"
        \/ state = "RECONNECTING" /\ HasStandby /\ since = "old"
  IN  \/ /\ standbyDue
         /\ Switch("STANDBY", NoUrl, "failure", failed)
      \/ /\ ~standbyDue
         /\ source' = [failed EXCEPT !.state =
                         IF unexpected /\ @ # "STANDBY" THEN "ERROR" ELSE @]
         /\ runner' = "backoff"
         /\ job' = NoJob

\* _record_success(): leaving standby takes two successes the interval apart.
RecordSuccess(url) ==
  LET standby == source.state = "STANDBY"
      counts  == source.recAge \in {"none", "old"}
      count   == IF source.recAge = "none" THEN 1
                 ELSE IF counts THEN source.recoveries + 1 ELSE source.recoveries
      good    == [source EXCEPT !.failAge = "none",
                    !.recoveries = IF standby THEN count ELSE @,
                    !.recAge = IF standby /\ counts THEN "young" ELSE @]
  IN  \/ /\ standby
         /\ count < 2
         /\ source' = good
         /\ runner' = "monitoring"
         /\ job' = NoJob
      \/ /\ standby => count >= 2
         /\ Switch("LIVE", url, "success", good)

\* resolve() answered: with an error, a room that is offline or a URL about to
\* expire, or with a URL to probe.
Resolved ==
  /\ runner = "resolving"
  /\ ~taskCancel
  /\ \/ \E unexpected \in BOOLEAN : RecordFailure(unexpected)
     \/ /\ runner' = "probing"
        /\ \E url \in Urls : job' = [NoJob EXCEPT !.url = url]
        /\ UNCHANGED source
  /\ UNCHANGED <<wishVars, outVars, taskCancel, initVars, callVars, storeVars>>

\* probe() answered.  When the URL expired meanwhile the answer is a failure.
Probed ==
  /\ runner = "probing"
  /\ ~taskCancel
  /\ \/ \E unexpected \in BOOLEAN : RecordFailure(unexpected)
     \/ RecordSuccess(job.url)
  /\ UNCHANGED <<wishVars, outVars, taskCancel, initVars, callVars, storeVars>>

\* restart() checked the address, stopped the supervisor it had and starts a new
\* one.  A stop() of the old one has nothing left to stop.
Replaced ==
  LET d == job.at
  IN
  /\ runner = "validating"
  /\ ~taskCancel
  /\ runner' = "starting"
  /\ sup' = [sup EXCEPT ![d] = "CONNECTING"]
  /\ feed' = [feed EXCEPT ![d] = IF job.target = "LIVE" THEN job.url ELSE Standby]
  /\ at' = [c \in Callers |-> IF pc[c] = "disabling" /\ at[c] = d THEN 0 ELSE at[c]]
  /\ UNCHANGED <<wishVars, source, input, fingerprint, taskCancel, job, initVars, lcLock,
                 pc, op, storeVars>>

\* restart() raised: the address was refused, or the old supervisor's stop()
\* raised after it stopped, or the new one did not come up or was stopped.
RestartFailed ==
  LET d == job.at
  IN
  /\ ~taskCancel
  /\ \/ runner = "validating" /\ UNCHANGED <<sup, feed>>
     \/ runner = "validating" /\ OutputStopped(d)
     \/ /\ runner = "starting"
        /\ sup[d] = "CONNECTING"
        /\ sup' = [sup EXCEPT ![d] = "ERROR"]
        /\ feed' = [feed EXCEPT ![d] = NoUrl]
     \/ runner = "starting" /\ sup[d] # "CONNECTING" /\ UNCHANGED <<sup, feed>>
  /\ Proceed(job, source)
  /\ UNCHANGED <<wishVars, input, fingerprint, taskCancel, initVars, callVars, storeVars>>

\* The new supervisor's child runs; restart() is about to return.
CameUp ==
  /\ runner = "starting"
  /\ ~taskCancel
  /\ sup[job.at] = "CONNECTING"
  /\ sup' = [sup EXCEPT ![job.at] = "LIVE"]
  /\ runner' = "started"
  /\ UNCHANGED <<wishVars, source, input, fingerprint, feed, taskCancel, job, initVars,
                 callVars, storeVars>>

\* Deviation: a result is published whatever happened during the restart.
RestartedUnchecked ==
  LET d == job.at
  IN
  /\ runner = "started"
  /\ ~taskCancel
  /\ input' = [input EXCEPT ![d] = job.target]
  /\ fingerprint' = [fingerprint EXCEPT ![d] = job.url]
  /\ Proceed(job, source)
  /\ UNCHANGED <<wishVars, sup, feed, taskCancel, initVars, callVars, storeVars>>

\* Deviation: the fingerprint of the new URL is not kept.
RestartedUntold ==
  LET d == job.at
  IN
  /\ runner = "started"
  /\ ~taskCancel
  /\ \/ /\ d \in enabled \cap job.fresh
        /\ input' = [input EXCEPT ![d] = job.target]
        /\ UNCHANGED fingerprint
        /\ Proceed(job, source)
     \/ /\ d \notin enabled \cap job.fresh
        /\ runner' = "undoing"
        /\ UNCHANGED <<source, input, fingerprint, job>>
  /\ UNCHANGED <<wishVars, sup, feed, taskCancel, initVars, callVars, storeVars>>

\* restart() returned.  The result is published when the destination is still
\* enabled and its generation did not move; otherwise the output is stopped.
Restarted ==
  LET d == job.at
  IN
  /\ runner = "started"
  /\ ~taskCancel
  /\ \/ /\ d \in enabled \cap job.fresh
        /\ input' = [input EXCEPT ![d] = job.target]
        /\ fingerprint' = [fingerprint EXCEPT ![d] = job.url]
        /\ Proceed(job, source)
     \/ /\ d \notin enabled \cap job.fresh
        /\ runner' = "undoing"
        /\ UNCHANGED <<source, input, fingerprint, job>>
  /\ UNCHANGED <<wishVars, sup, feed, taskCancel, initVars, callVars, storeVars>>

Undone ==
  /\ runner = "undoing"
  /\ ~taskCancel
  /\ OutputStopped(job.at)
  /\ Proceed(job, source)
  /\ UNCHANGED <<wishVars, input, fingerprint, taskCancel, initVars, callVars, storeVars>>

\* The sleep after a success or a failure is over.  A failure that lasted long
\* enough goes to standby, then the next cycle begins.
Woke ==
  LET due == /\ runner = "backoff"
             /\ source.state \in {"RECONNECTING", "ERROR"}
             /\ HasStandby
             /\ source.failAge = "old"
             /\ AnyInputLive
  IN
  /\ runner \in {"monitoring", "backoff"}
  /\ ~taskCancel
  /\ \/ /\ due
        /\ Switch("STANDBY", NoUrl, "deadline", source)
     \/ /\ ~due
        /\ runner' = "resolving"
        /\ UNCHANGED <<source, job>>
  /\ UNCHANGED <<wishVars, outVars, taskCancel, initVars, callVars, storeVars>>

\* Deviation: the task ends without stopping the outputs.
CancelledBare ==
  /\ taskCancel
  /\ taskCancel' = FALSE
  /\ \/ /\ runner = "created"
        /\ runner' = "none"
        /\ UNCHANGED <<outVars, job>>
     \/ /\ runner # "created"
        /\ runner' = "none"
        /\ job' = NoJob
        /\ ForgetInputs
        /\ \/ /\ runner \in {"starting", "started", "validating", "undoing"}
              /\ OutputStopped(job.at)
           \/ /\ runner \notin {"starting", "started"}
              /\ UNCHANGED <<sup, feed>>
  /\ UNCHANGED <<wishVars, source, initVars, callVars, storeVars>>

\* CancelledError leaves the task where it is suspended: nothing of it runs when
\* it had not begun, a restart() under way leaves the old output or none, and
\* the finally block of _run() goes on to stop every output.
Cancelled ==
  /\ taskCancel
  /\ taskCancel' = FALSE
  /\ \/ /\ runner = "created"
        /\ runner' = "none"
        /\ UNCHANGED <<outVars, job>>
     \/ /\ runner # "created"
        /\ runner' = "ending"
        /\ job' = [NoJob EXCEPT !.at = 1]
        /\ ForgetInputs
        /\ \/ /\ runner \in {"starting", "started", "validating", "undoing"}
              /\ OutputStopped(job.at)
           \/ /\ runner \notin {"starting", "started"}
              /\ UNCHANGED <<sup, feed>>
  /\ UNCHANGED <<wishVars, source, initVars, callVars, storeVars>>

\* _stop_outputs() at the end of the task, one destination after the other.
EndStopped ==
  /\ runner = "ending"
  /\ OutputStopped(job.at)
  /\ input' = [input EXCEPT ![job.at] = "NONE"]
  /\ \/ /\ job.at < NumDests
        /\ job' = [job EXCEPT !.at = @ + 1]
        /\ UNCHANGED runner
     \/ /\ job.at = NumDests
        /\ job' = NoJob
        /\ runner' = "none"
  /\ UNCHANGED <<wishVars, source, fingerprint, taskCancel, initVars, callVars, storeVars>>

-----------------------------------------------------------------------------
(* The environment.                                                        *)

\* A child is rejected by its platform, or cannot be spawned again.
OutputDies(d) ==
  /\ sup[d] = "LIVE"
  /\ \E how \in {"AUTH_FAILED", "ERROR"} : sup' = [sup EXCEPT ![d] = how]
  /\ feed' = [feed EXCEPT ![d] = NoUrl]
  /\ UNCHANGED <<wishVars, source, input, fingerprint, runVars, initVars, callVars, storeVars>>

\* The time after which a failure calls for standby, or the interval between
\* two successes, has passed.
TimePasses ==
  /\ \/ /\ source.failAge = "young"
        /\ source' = [source EXCEPT !.failAge = "old"]
     \/ /\ source.recAge = "young"
        /\ source' = [source EXCEPT !.recAge = "old"]
  /\ UNCHANGED <<wishVars, outVars, runVars, initVars, callVars, storeVars>>

-----------------------------------------------------------------------------
RunnerStep ==
  \/ Begin \/ Resolved \/ Probed \/ Replaced \/ RestartFailed \/ CameUp
  \/ Restarted \/ Undone \/ Woke \/ Cancelled \/ EndStopped

\* What the callee of a suspended caller does.
Completion(c) ==
  \/ Loaded(c) \/ LoadFailed(c) \/ TaskEnded(c) \/ StopOutput(c)
  \/ DestinationStopped(c) \/ Saved(c) \/ SaveFailed(c)

\* A lock is handed to a caller that waits for it.
Admission(c) == BeginLoad(c) \/ BeginStart(c) \/ BeginStop(c) \/ BeginSave(c)

CallerStep(c) ==
  \/ \E call \in Calls : Call(c, call)
  \/ \E d \in Dests : Enable(c, d) \/ Disable(c, d)
  \/ Admission(c)
  \/ Completion(c)

Next ==
  \/ \E c \in Callers : CallerStep(c)
  \/ RunnerStep
  \/ \E d \in Dests : OutputDies(d)
  \/ TimePasses

\* Whatever is awaited ends (the resolver has a timeout, stop() and restart() of an
\* output end, as OutputSupervisor shows), and an asyncio.Lock serves its waiters in
\* order.  A probe need not end: a cancelled one may hang in its own cleanup, as
\* MediaProbe shows.  Nobody has to call, and no output has to fail.
Fairness ==
  /\ WF_vars(runner # "probing" /\ RunnerStep)
  /\ \A c \in Callers : WF_vars(Completion(c)) /\ SF_vars(Admission(c))

Spec == Init /\ [][Next]_vars /\ Fairness

-----------------------------------------------------------------------------
TypeOK ==
  /\ desired \in BOOLEAN
  /\ enabled \subseteq Dests
  /\ asked \in BOOLEAN
  /\ source \in [state : SourceStates, failAge : Ages, recoveries : 0 .. 2, recAge : Ages]
  /\ input \in [Dests -> Inputs]
  /\ fingerprint \in [Dests -> Urls \cup {NoUrl}]
  /\ sup \in [Dests -> OutputStates]
  /\ feed \in [Dests -> Urls \cup {NoUrl, Standby}]
  /\ runner \in Places
  /\ taskCancel \in BOOLEAN
  /\ job \in [target : Inputs, url : Urls \cup {NoUrl}, rest : SUBSET Dests,
              fresh : SUBSET Dests, at : 0 .. NumDests,
              after : {"none", "success", "failure", "deadline"}]
  /\ initialized \in BOOLEAN
  /\ initLock \in Callers \cup {NoCaller}
  /\ initCurrent \in BOOLEAN
  /\ lcLock \in Callers \cup {NoCaller}
  /\ pc \in [Callers -> Awaits]
  /\ op \in [Callers -> Calls \cup {"none"}]
  /\ at \in [Callers -> 0 .. NumDests]
  /\ persisted \in {"never", "behind", "current"}
  /\ writer \in Callers \cup {NoCaller}
  /\ snap \in [record : Records, newest : BOOLEAN]
  /\ stored \in Records \cup {NoRecord}

Restarting(d) == runner \in {"validating", "starting", "started", "undoing"} /\ job.at = d

\* Some task is going to stop the output of d.
WillStop(d) ==
  \/ Restarting(d)
  \/ runner = "ending" /\ job.at <= d
  \/ \E c \in Callers :
       \/ pc[c] = "disabling" /\ at[c] = d
       \/ pc[c] = "wantStop"
       \/ pc[c] = "awaitTask" /\ taskCancel
       \/ pc[c] = "stopOutputs" /\ at[c] <= d

\* A disabled destination sends nothing, except while a task that will stop it
\* is on its way: a disable that meets a restart of the same output, an enable
\* right after it or a cancelled cycle never leave the output live.
DisabledIsDark == \A d \in Dests \ enabled : Running(d) => WillStop(d)

\* Without the controller's task no output runs: whatever ends the task, its
\* finally block got through every destination before.
NoTaskIsDark == runner \in {"none", "created"} => \A d \in Dests : ~Running(d)

\* What a snapshot says an output shows is what its child reads, unless a restart
\* of it is under way.
InputIsTruthful ==
  \A d \in Dests :
    sup[d] = "LIVE" /\ input[d] # "NONE" /\ ~Restarting(d) =>
      feed[d] = IF input[d] = "LIVE" THEN fingerprint[d] ELSE Standby

\* Nobody is inside a call.
Quiet == \A c \in Callers : pc[c] = "idle"

\* A confirmed version is what the store holds and what the controller holds: no
\* save is overtaken by an older one, and no change escapes the version.
ConfirmedIsStored == writer = NoCaller /\ persisted = "current" => stored = Memory

\* When every call has returned the newest wish is stored, unless the last of
\* them was a shutdown() or the store failed.
NothingUnsaved == Quiet /\ asked = desired => persisted # "behind"

\* A task is created only when the one before is over.
OneTask == [][runner' = "created" /\ runner # "created" => runner = "none"]_vars

\* An output that is on the air stays there until its child fails, it is disabled,
\* the controller is stopped or it is switched to standby: no late stop() of an
\* earlier disable, no cycle with a new URL and no cleanup takes it down.
OnAirStays ==
  [][\A d \in enabled \cap enabled' :
       /\ sup[d] = "LIVE" /\ input[d] = "LIVE"
       /\ desired'
       /\ ~(Restarting(d) /\ job.target = "STANDBY")
       => sup'[d] \in {"LIVE", "AUTH_FAILED", "ERROR"}]_vars

\* Every call returns, whatever the others do and however long a probe takes, unless a
\* stop() has cancelled the task in a probe that never ends: then that stop() keeps the
\* lifecycle lock.
CallsReturn ==
  \A c \in Callers :
    \/ pc[c] # "idle" ~> pc[c] = "idle"
    \/ <>[](runner = "probing" /\ taskCancel)
=============================================================================
