----------------------------- MODULE ControlApi -----------------------------
(***************************************************************************)
(* The requests of api/routes.py that change something, RuntimeManager and *)
(* the configuration in the database: a PUT writes the database, rebuilds  *)
(* the controller from it and puts the old configuration back when that    *)
(* fails; start, stop and install share its write lock; reconnect does not.*)
(*                                                                         *)
(* The controller is what the routes see of it: what it wants, whether its *)
(* task exists, what its output does.  Database calls never suspend, so a  *)
(* handler is atomic between the awaits that do: the two locks, the        *)
(* shutdown() or stop() of a controller with outputs, the work of install. *)
(* Any of them may fail: a load, a save, a write of a rollback.            *)
(* One destination stands for all of them.                                 *)
(***************************************************************************)
EXTENDS Integers

CONSTANTS
  Clients,    \* browser windows, with one request under way each
  NoClient,
  Rooms,      \* the sources a client may choose
  Unset,      \* a resource that has no configuration
  MaxRevision, \* bound: a client writes only below this revision
  MaxFaults    \* bound: database calls that fail in a behaviour

ASSUME ControlApiAssumption ==
  /\ NoClient \notin Clients
  /\ Unset \notin Rooms \cup {"on", "off"}
  /\ MaxRevision \in Nat
  /\ MaxFaults \in Nat

Resources == {"source", "destination"}
Values(r) == IF r = "source" THEN Rooms ELSE {"on", "off"}

VARIABLES
  stored,        \* database: the value of each resource
  revision,      \* database: api_revisions_json
  intent,        \* database: desired_running of the source row
  ctl,           \* _controller: what it was built from, wants and does
  output,        \* the output: "off", "on", or "closing" while its stop() is awaited
  swept,         \* the shutdown() or stop() under way has got to its outputs
  startupFailed, \* _startup_failed
  blocked,       \* _configuration_blocked
  build,         \* the controller an apply_configuration() is about to adopt
  builder,       \* holder of RuntimeManager._lock
  writer,        \* holder of write_lock
  pc,            \* where the request of each client is suspended
  seen,          \* value and ETag each client has of each resource
  undo,          \* what the PUT under way restores when it fails
  pending,       \* installation_pending
  accepted,      \* history: the configuration of the last PUT that succeeded
  rolledBack,    \* history: a PUT has failed after its write
  unrestored,    \* history: taking it back failed too, and nothing was accepted since
  faults         \* database calls that have failed

dbVars      == <<stored, revision, intent>>
runtimeVars == <<ctl, output, swept, startupFailed, blocked>>
requestVars == <<build, builder, writer, pc, undo>>
clientVars  == <<seen, accepted>>
failureVars == <<rolledBack, unrestored, faults>>
vars == <<dbVars, runtimeVars, requestVars, clientVars, pending, failureVars>>

\* "apply" and "reapply" wait for RuntimeManager._lock, "swap" and "reswap" for the
\* shutdown() of the old controller; the second of each follows a rollback.
Places == {"idle", "apply", "swap", "reapply", "reswap", "start", "stop", "stopping",
           "reconnecting", "install", "installing"}

\* Where a controller is being shut down or stopped.
Closing == {"swap", "reswap", "stopping"}

-----------------------------------------------------------------------------
(* Controllers.                                                            *)

Nothing == [r \in Resources |-> Unset]

\* A controller is built only from a source and a destination.
Complete(config) == config["source"] # Unset /\ config["destination"] # Unset

\* Controller(...) and its initialize().
Built(config, desired) ==
  IF Complete(config)
  THEN [config |-> config, desired |-> desired, running |-> FALSE, unsaved |-> TRUE,
        used |-> FALSE]
  ELSE [config |-> Nothing, desired |-> FALSE, running |-> FALSE, unsaved |-> FALSE,
        used |-> FALSE]

NoController == Built(Nothing, FALSE)

Exists(k) == Complete(k.config)

\* A new wish of a controller, not saved yet.
Wishing(k, desired) ==
  [k EXCEPT !.desired = desired, !.unsaved = @ \/ k.desired # desired]

\* _persist() and what start() does then, or stop() at its end.
Started(k) == [Wishing(k, TRUE) EXCEPT !.unsaved = FALSE, !.running = TRUE]
Stopped(k) == [Wishing(k, FALSE) EXCEPT !.unsaved = FALSE, !.running = FALSE]

\* What GET /api/status and the install gate are told of desired_running.
ShownDesired == ctl.desired /\ ~startupFailed /\ ~blocked

NoUndo  == [resource |-> "source", value |-> Unset, revision |-> 0, intent |-> FALSE,
            adopted |-> FALSE]
NoBuild == [ctl |-> NoController, wanted |-> FALSE, enabled |-> FALSE]

Init ==
  /\ stored = Nothing
  /\ revision = [r \in Resources |-> 0]
  /\ intent = FALSE
  /\ ctl = NoController
  /\ output = "off"
  /\ swept = FALSE
  /\ startupFailed = FALSE
  /\ blocked = FALSE
  /\ build = NoBuild
  /\ builder = NoClient
  /\ writer = NoClient
  /\ pc = [c \in Clients |-> "idle"]
  /\ seen = [c \in Clients |-> [r \in Resources |-> [value |-> Unset, revision |-> 0]]]
  /\ undo = NoUndo
  /\ pending = FALSE
  /\ accepted = Nothing
  /\ rolledBack = FALSE
  /\ unrestored = FALSE
  /\ faults = 0

Goto(c, place) == pc' = [pc EXCEPT ![c] = place]

-----------------------------------------------------------------------------
(* GET and PUT.                                                            *)

\* Value and revision are read in one transaction, under no lock of the routes.
Get(c, r) ==
  /\ pc[c] = "idle"
  /\ seen' = [seen EXCEPT ![c][r] = [value |-> stored[r], revision |-> revision[r]]]
  /\ UNCHANGED <<dbVars, runtimeVars, requestVars, accepted, pending, failureVars>>

\* A PUT of the value that is stored succeeds whatever its If-Match says.
PutUnchanged(c, r) ==
  /\ pc[c] = "idle"
  /\ writer = NoClient
  /\ stored[r] # Unset
  /\ seen' = [seen EXCEPT ![c][r] = [value |-> stored[r], revision |-> revision[r]]]
  /\ UNCHANGED <<dbVars, runtimeVars, requestVars, accepted, pending, failureVars>>

\* The write of a PUT.  A stale If-Match is answered 409 and changes nothing.
PutWrites(c, r, value) ==
  /\ pc[c] = "idle"
  /\ writer = NoClient
  /\ value # stored[r]
  /\ revision[r] < MaxRevision
  /\ writer' = c
  /\ undo' = [resource |-> r, value |-> stored[r], revision |-> revision[r],
              intent |-> intent, adopted |-> FALSE]
  /\ stored' = [stored EXCEPT ![r] = value]
  /\ revision' = [revision EXCEPT ![r] = @ + 1]
  /\ Goto(c, "apply")
  /\ UNCHANGED <<intent, runtimeVars, build, builder, clientVars, pending, failureVars>>

\* Deviation: If-Match is not compared.
PutBlind(c, r, value) == PutWrites(c, r, value)

Put(c, r, value) == seen[c][r].revision = revision[r] /\ PutWrites(c, r, value)

-----------------------------------------------------------------------------
(* apply_configuration().                                                  *)

\* What it makes of the database: the new controller, whether it is to run, and
\* whether any destination is enabled.
Load(wasRunning) ==
  LET new == Built(stored, intent)
  IN  [ctl |-> new, wanted |-> wasRunning \/ new.desired,
       enabled |-> stored["destination"] = "on"]

\* So many database calls fail in this step.
Fail(n) == faults + n <= MaxFaults /\ faults' = faults + n

\* A database call failed before the old controller was touched.
NotLoaded == [ctl |-> ctl, stored |-> stored, intent |-> intent, startupFailed |-> startupFailed,
              blocked |-> blocked, ok |-> FALSE, adopted |-> FALSE]

\* How the new controller can come up; any save may fail.  A save writes the whole
\* configuration of the controller to the database, not only desired_running.
Outcomes(b) ==
  LET up    == [ctl |-> b.ctl, stored |-> stored, intent |-> intent, startupFailed |-> FALSE,
                blocked |-> FALSE, ok |-> TRUE, adopted |-> TRUE]
      saved == [up EXCEPT !.stored = b.ctl.config]
  IN CASE ~b.wanted \/ ~Exists(b.ctl) -> {up}
       [] b.wanted /\ Exists(b.ctl) /\ b.enabled ->
            {[saved EXCEPT !.ctl = Started(b.ctl), !.intent = TRUE],
             [up EXCEPT !.ctl = Wishing(Wishing(b.ctl, TRUE), FALSE),
                        !.startupFailed = TRUE, !.ok = FALSE]}
       [] b.wanted /\ Exists(b.ctl) /\ ~b.enabled ->
            {[saved EXCEPT !.ctl = Stopped(b.ctl), !.intent = FALSE, !.blocked = TRUE],
             [up EXCEPT !.ctl = Wishing(b.ctl, FALSE), !.ok = FALSE],
             [saved EXCEPT !.ctl = Stopped(b.ctl), !.intent = FALSE, !.ok = FALSE]}

Adopt(o) ==
  /\ ctl' = o.ctl
  /\ startupFailed' = o.startupFailed
  /\ blocked' = o.blocked

PutOver(c) ==
  /\ writer' = NoClient
  /\ undo' = NoUndo
  /\ Goto(c, "idle")

\* Deviation: a failed change is taken back in the database only.
GiveUp(c, o) == PutOver(c)

\* The old configuration is applied again.
Reapply(c, o) ==
  /\ Goto(c, "reapply")
  /\ undo' = [undo EXCEPT !.adopted = o.adopted]
  /\ UNCHANGED writer

\* Deviation: the rollback forgets that the relay was wanted.
IntentForgotten(o) == IF undo.resource = "source" THEN FALSE ELSE o.intent

\* set_source() of the rollback writes desired_running too.
IntentRestored(o) == IF undo.resource = "source" THEN undo.intent ELSE o.intent

\* The change was applied.
Accept(c, o) ==
  LET r == undo.resource
  IN
  /\ stored' = o.stored
  /\ intent' = o.intent
  /\ accepted' = o.stored
  /\ seen' = [seen EXCEPT ![c][r] = [value |-> o.stored[r], revision |-> revision[r]]]
  /\ unrestored' = FALSE
  /\ PutOver(c)
  /\ UNCHANGED <<revision, rolledBack, faults>>

\* It was not: the old value is written, then the old revision, then the old configuration
\* is applied.  A write that fails ends the request.
TakeBack(c, o) ==
  /\ rolledBack' = TRUE
  /\ \/ /\ Fail(2)
        /\ stored' = o.stored
        /\ intent' = o.intent
        /\ unrestored' = TRUE
        /\ PutOver(c)
        /\ UNCHANGED revision
     \/ /\ stored' = [o.stored EXCEPT ![undo.resource] = undo.value]
        /\ intent' = IntentRestored(o)
        /\ \/ /\ Fail(2)
              /\ unrestored' = (unrestored \/ o.adopted)
              /\ PutOver(c)
              /\ UNCHANGED revision
           \/ /\ Fail(1)
              /\ revision' = [revision EXCEPT ![undo.resource] = undo.revision]
              /\ Reapply(c, o)
              /\ UNCHANGED unrestored
  /\ UNCHANGED clientVars

\* The old configuration was applied again, or not: then the controller of the rejected
\* one stays, if it was adopted.
TakenBack(c, o) ==
  /\ Fail(IF o.ok THEN 0 ELSE 1)
  /\ stored' = o.stored
  /\ intent' = o.intent
  /\ unrestored' = (unrestored \/ (undo.adopted /\ ~o.adopted))
  /\ PutOver(c)
  /\ UNCHANGED <<revision, rolledBack, clientVars>>

\* apply_configuration() returned or raised.
Answer(c, o) ==
  /\ Adopt(o)
  /\ builder' = NoClient
  /\ \/ pc[c] \in {"apply", "swap"} /\ o.ok /\ Accept(c, o)
     \/ pc[c] \in {"apply", "swap"} /\ ~o.ok /\ TakeBack(c, o)
     \/ pc[c] \in {"reapply", "reswap"} /\ TakenBack(c, o)

Apply(c) ==
  /\ pc[c] \in {"apply", "reapply"}
  /\ builder = NoClient
  /\ \/ Answer(c, NotLoaded) /\ UNCHANGED build
     \/ /\ ~Exists(ctl)
        /\ \E o \in Outcomes(Load(FALSE)) : Answer(c, o)
        /\ UNCHANGED build
     \/ /\ Exists(ctl)
        /\ builder' = c
        /\ build' = Load(ctl.desired)
        /\ ctl' = Wishing(ctl, FALSE)
        /\ Goto(c, IF pc[c] = "apply" THEN "swap" ELSE "reswap")
        /\ UNCHANGED <<dbVars, startupFailed, blocked, writer, undo, clientVars, failureVars>>
  /\ UNCHANGED <<output, swept, pending>>

\* The task of the old controller is over, and shutdown() or stop() asks the outputs to end.
Sweep(c) ==
  /\ pc[c] \in Closing
  /\ ~ctl.running
  /\ ~swept
  /\ swept' = TRUE
  /\ output' = IF output = "on" THEN "closing" ELSE output
  /\ UNCHANGED <<dbVars, ctl, startupFailed, blocked, requestVars, clientVars, pending,
                 failureVars>>

\* Those that were asked have ended.
Swept == swept /\ output # "closing"

\* The shutdown() of the old controller returned.
Swap(c) ==
  /\ pc[c] \in {"swap", "reswap"}
  /\ Swept
  /\ \E o \in Outcomes(build) : Answer(c, o)
  /\ swept' = FALSE
  /\ build' = NoBuild
  /\ UNCHANGED <<output, pending>>

-----------------------------------------------------------------------------
(* start, stop, reconnect and install.                                     *)

\* Deviation: a start() that succeeds leaves the marks of a failed one.
MarksKept == UNCHANGED <<startupFailed, blocked>>

\* start() and stop() end with both marks cleared.
MarksCleared == startupFailed' = FALSE /\ blocked' = FALSE

\* What the route checks under write_lock.
RequestStart(c) ==
  /\ pc[c] = "idle"
  /\ writer = NoClient
  /\ ~pending
  /\ stored["source"] # Unset
  /\ stored["destination"] = "on"
  /\ writer' = c
  /\ Goto(c, "start")
  /\ UNCHANGED <<dbVars, runtimeVars, build, builder, undo, clientVars, pending, failureVars>>

StartSaves == ~ctl.running /\ Wishing(ctl, TRUE).unsaved

\* RuntimeManager.start().  The route holds the write lock since its checks, so that a
\* destination is enabled.  There is no controller if a rollback was not completed.
StartController(c) ==
  /\ pc[c] = "start"
  /\ builder = NoClient
  /\ writer' = NoClient
  /\ Goto(c, "idle")
  /\ \/ /\ ~Exists(ctl)
        /\ UNCHANGED <<stored, intent, ctl, startupFailed, blocked, faults>>
     \/ /\ Exists(ctl)
        /\ ctl' = IF ctl.running THEN ctl ELSE Started(ctl)
        /\ stored' = IF StartSaves THEN ctl.config ELSE stored
        /\ intent' = (intent \/ StartSaves)
        /\ MarksCleared
        /\ UNCHANGED faults
     \/ /\ Exists(ctl)
        /\ StartSaves
        /\ Fail(1)
        /\ ctl' = Wishing(ctl, TRUE)
        /\ UNCHANGED <<stored, intent, startupFailed, blocked>>
  /\ UNCHANGED <<revision, output, swept, build, builder, undo, clientVars, pending,
                 rolledBack, unrestored>>

RequestStop(c) ==
  /\ pc[c] = "idle"
  /\ writer = NoClient
  /\ writer' = c
  /\ Goto(c, "stop")
  /\ UNCHANGED <<dbVars, runtimeVars, build, builder, undo, clientVars, pending, failureVars>>

\* RuntimeManager.stop(), up to the end of the controller's task and outputs.
StopController(c) ==
  /\ pc[c] = "stop"
  /\ builder = NoClient
  /\ \/ /\ ~Exists(ctl)
        /\ MarksCleared
        /\ writer' = NoClient
        /\ Goto(c, "idle")
        /\ UNCHANGED <<ctl, builder>>
     \/ /\ Exists(ctl)
        /\ ctl' = Wishing(ctl, FALSE)
        /\ builder' = c
        /\ Goto(c, "stopping")
        /\ UNCHANGED <<startupFailed, blocked, writer>>
  /\ UNCHANGED <<dbVars, output, swept, build, undo, clientVars, pending, failureVars>>

StopSaved(c) ==
  /\ pc[c] = "stopping"
  /\ Swept
  /\ swept' = FALSE
  /\ builder' = NoClient
  /\ writer' = NoClient
  /\ Goto(c, "idle")
  /\ \/ /\ ctl' = Stopped(ctl)
        /\ stored' = IF ctl.unsaved THEN ctl.config ELSE stored
        /\ intent' = (intent /\ ~ctl.unsaved)
        /\ MarksCleared
        /\ UNCHANGED faults
     \/ /\ ctl.unsaved
        /\ Fail(1)
        /\ UNCHANGED <<stored, intent, ctl, startupFailed, blocked>>
  /\ UNCHANGED <<revision, output, build, undo, clientVars, pending, rolledBack, unrestored>>

\* Deviation: reconnect does not take RuntimeManager._lock.
ReconnectUnlocked(c) ==
  /\ pc[c] = "idle"
  /\ stored["destination"] # Unset
  /\ ctl.used
  /\ Goto(c, "reconnecting")
  /\ UNCHANGED <<dbVars, runtimeVars, build, builder, writer, undo, clientVars, pending,
                 failureVars>>

\* reconnect_destination(): the adapter restarts its last command, if it has one,
\* under RuntimeManager._lock but not under the write lock.
Reconnect(c) ==
  /\ pc[c] = "idle"
  /\ builder = NoClient
  /\ stored["destination"] # Unset
  /\ ctl.used
  /\ builder' = c
  /\ Goto(c, "reconnecting")
  /\ UNCHANGED <<dbVars, runtimeVars, build, writer, undo, clientVars, pending, failureVars>>

\* The restart came up, or failed before or after the old output was stopped.
Reconnected(c) ==
  /\ pc[c] = "reconnecting"
  /\ output' \in {"off", "on"}
  /\ builder' = IF builder = c THEN NoClient ELSE builder
  /\ Goto(c, "idle")
  /\ UNCHANGED <<dbVars, ctl, swept, startupFailed, blocked, build, writer, undo,
                 clientVars, pending, failureVars>>

\* Deviation: install relies on the check it made before it waited for the lock.
InstallUnchecked(c) ==
  /\ pc[c] = "install"
  /\ writer = NoClient
  /\ writer' = c
  /\ Goto(c, "installing")
  /\ UNCHANGED <<dbVars, runtimeVars, build, builder, undo, clientVars, pending, failureVars>>

\* The check before the write lock.
RequestInstall(c) ==
  /\ pc[c] = "idle"
  /\ ~ShownDesired
  /\ Goto(c, "install")
  /\ UNCHANGED <<dbVars, runtimeVars, build, builder, writer, undo, clientVars, pending,
                 failureVars>>

\* The check under the write lock, and that of UpdateService.install().
Install(c) ==
  /\ pc[c] = "install"
  /\ writer = NoClient
  /\ \/ /\ ShownDesired \/ pending
        /\ Goto(c, "idle")
        /\ UNCHANGED writer
     \/ /\ ~ShownDesired
        /\ ~pending
        /\ writer' = c
        /\ Goto(c, "installing")
  /\ UNCHANGED <<dbVars, runtimeVars, build, builder, undo, clientVars, pending, failureVars>>

\* The helper was launched, or install() raised.
Installed(c) ==
  /\ pc[c] = "installing"
  /\ pending' \in {pending, TRUE}
  /\ writer' = NoClient
  /\ Goto(c, "idle")
  /\ UNCHANGED <<dbVars, runtimeVars, build, builder, undo, clientVars, failureVars>>

-----------------------------------------------------------------------------
(* The controller's own task, and the process.                             *)

\* The task of a controller that runs restarts the output.
Air ==
  /\ ctl.running /\ ctl.desired
  /\ output' \in {"off", "on"}
  /\ ctl' = [ctl EXCEPT !.used = TRUE]
  /\ UNCHANGED <<dbVars, swept, startupFailed, blocked, requestVars, clientVars, pending,
                 failureVars>>

\* An output ends, by itself or because its stop() was called.
Fade ==
  /\ output # "off"
  /\ output' = "off"
  /\ UNCHANGED <<dbVars, ctl, swept, startupFailed, blocked, requestVars, clientVars,
                 pending, failureVars>>

\* The task of a controller that is shut down ends, and ends its outputs.
Cease ==
  /\ builder # NoClient
  /\ pc[builder] \in Closing
  /\ ctl.running
  /\ ctl' = [ctl EXCEPT !.running = FALSE]
  /\ output' = "off"
  /\ UNCHANGED <<dbVars, swept, startupFailed, blocked, requestVars, clientVars, pending,
                 failureVars>>

\* The process ends, at any point of any request, and starts again: initialize()
\* resumes what the database asks for and survives a start() that fails.
Restart ==
  \E o \in Outcomes(Load(FALSE)) :
    /\ o.ok \/ o.startupFailed
    /\ Fail(IF o.ok THEN 0 ELSE 1)
    /\ Adopt(o)
    /\ stored' = o.stored
    /\ intent' = o.intent
    /\ accepted' = o.stored
    /\ output' = "off"
    /\ swept' = FALSE
    /\ unrestored' = FALSE
    /\ builder' = NoClient
    /\ writer' = NoClient
    /\ pc' = [c \in Clients |-> "idle"]
    /\ pending' = FALSE
    /\ build' = NoBuild
    /\ undo' = NoUndo
    /\ UNCHANGED <<revision, seen, rolledBack>>

\* The request that has what it waits for goes on before anything else happens: a lock
\* that is free and the shutdown() of a controller without outputs do not suspend.
Proceeds(c) ==
  \/ pc[c] \in {"apply", "start", "stop"} /\ builder = NoClient
  \/ pc[c] \in Closing /\ ~ctl.running /\ (swept => Swept)

Proceed(c) ==
  \/ Apply(c) \/ Sweep(c) \/ Swap(c)
  \/ StartController(c) \/ StopController(c) \/ StopSaved(c)

Request(c) ==
  \/ \E r \in Resources : Get(c, r) \/ PutUnchanged(c, r)
  \/ \E r \in Resources : \E value \in Values(r) : Put(c, r, value)
  \/ RequestStart(c) \/ RequestStop(c)
  \/ Reconnect(c) \/ Reconnected(c)
  \/ RequestInstall(c) \/ Install(c) \/ Installed(c)

Next ==
  \/ \E c \in Clients : Proceed(c)
  \/ /\ \A c \in Clients : ~Proceeds(c)
     /\ (\E c \in Clients : Request(c)) \/ Air \/ Fade \/ Cease
  \/ Restart

Spec == Init /\ [][Next]_vars

-----------------------------------------------------------------------------
(* Properties. *)

Database == [Resources -> Rooms \cup {"on", "off", Unset}]

Controllers == [config : Database, desired : BOOLEAN, running : BOOLEAN,
                unsaved : BOOLEAN, used : BOOLEAN]

Revisions == 0 .. MaxRevision

TypeOK ==
  /\ stored \in Database /\ accepted \in Database
  /\ revision \in [Resources -> Revisions]
  /\ ctl \in Controllers
  /\ build \in [ctl : Controllers, wanted : BOOLEAN, enabled : BOOLEAN]
  /\ output \in {"off", "on", "closing"}
  /\ {intent, swept, startupFailed, blocked, pending, rolledBack, unrestored} \subseteq BOOLEAN
  /\ {builder, writer} \subseteq Clients \cup {NoClient}
  /\ pc \in [Clients -> Places]
  /\ seen \in [Clients -> [Resources -> [value : Rooms \cup {"on", "off", Unset},
                                          revision : Revisions]]]
  /\ undo \in [resource : Resources, value : Rooms \cup {"on", "off", Unset},
                revision : Revisions, intent : BOOLEAN, adopted : BOOLEAN]
  /\ faults \in Nat

\* Whatever failed on the way, once the requests are answered the database holds what
\* the last successful PUT wrote and the controller is the one it describes: a failed PUT
\* is undone in both, and no controller that was built from it writes its configuration
\* back when it is stopped or started later.  It does not hold after a PUT whose undoing
\* failed as well, until the next PUT that succeeds or the next start of the process.
FailedChangeLeavesNoTrace == writer = NoClient /\ ~unrestored =>
  /\ stored = accepted
  /\ ctl.config = Built(stored, FALSE).config

\* A relay that runs is in the database as wanted: after a crash it is resumed, also
\* when a PUT was writing, undoing or applying a configuration.
RunningIsStored == ctl.running => intent

\* A relay that nobody is shutting down is shown as running to the install gate: the
\* marks of an earlier failure do not hide it.
GateSeesRunning == ctl.running /\ builder = NoClient => ShownDesired

\* No installer is prepared or launched while the controller runs: the gate is asked
\* again under the write lock, and start waits for that lock.
InstallWhileStopped ==
  \A c \in Clients : pc[c] = "installing" => ~ctl.running

\* When the shutdown() or stop() of a controller is over none of its outputs is live, also
\* when one was reconnected by hand, which no write lock prevents: no relay goes on that
\* the controller after it does not know of.
ClosedIsDark ==
  [][\A c \in Clients : pc[c] \in Closing /\ pc'[c] \notin Closing => output' = "off"]_vars

\* The write that begins overwrites a value its client has not read.
LostUpdate ==
  /\ writer = NoClient
  /\ writer' # NoClient
  /\ stored' # stored
  /\ seen[writer'][undo'.resource].value # stored[undo'.resource]

\* A PUT succeeds only for a client that read what it overwrites, as long as none
\* has failed after its write, through all restarts.
StaleWritesConflict == [][~rolledBack => ~LostUpdate]_vars

\* The same also after a PUT was rolled back, which takes its revision back.
NoLostUpdate == [][~LostUpdate]_vars

=============================================================================
