-------------------------- MODULE OutputSupervisor --------------------------
(***************************************************************************)
(* outputs/supervisor.py: OutputSupervisor, which keeps one FFmpeg child   *)
(* per destination alive, together with the part of media/process.py       *)
(* (AsyncProcess) it relies on.                                            *)
(*                                                                         *)
(* Callers are the asyncio tasks that call start() and stop(); the runner  *)
(* is the task start() creates.  asyncio interleaves tasks only where an   *)
(* await suspends, so one action is the code between two suspensions.      *)
(* The runner is one task per session (_generation).  A process id is one  *)
(* AsyncProcess object; its phase is "spawning" while                      *)
(* create_subprocess_exec is pending and "rejected" when the child exited  *)
(* after its stderr matched the authentication pattern.                    *)
(*                                                                         *)
(* Left out: run(), which tests call instead of start(); the delay values; *)
(* what stderr says beyond the authentication verdict.                     *)
(***************************************************************************)
EXTENDS Integers, FiniteSets

CONSTANTS
  Callers,      \* tasks that call start() and stop()
  NoCaller,     \* a lock is free
  RunnerTask,   \* the runner as the holder of a process's locks
  MaxSessions,  \* bound: sessions a behaviour may open
  MaxSpawns,    \* bound: AsyncProcess objects a behaviour may create
  Cancels       \* whether the callers' tasks may be cancelled

ASSUME SupervisorAssumption ==
  /\ NoCaller \notin Callers
  /\ RunnerTask \notin Callers \cup {NoCaller}
  /\ MaxSessions \in Nat
  /\ MaxSpawns \in Nat
  /\ Cancels \in BOOLEAN

VARIABLES
  state,          \* _state
  stopRequested,  \* _stop_requested is set
  live,           \* _live is set
  reconnects,     \* _reconnect_count
  session,        \* _generation
  process,        \* _process: an id, 0 for None
  phase,          \* phase of each AsyncProcess
  runner,         \* where the runner task is suspended
  verdict,        \* how the runner will end once its final close is over
  outcome,        \* how the runner of each session ended
  cancelling,     \* runner.cancel() was called and not yet delivered
  lock,           \* holder of _stop_lock and _lifecycle_lock
  pc,             \* where each caller is suspended
  joined,         \* session a start() waits for
  owns,           \* that start() created the session's runner
  closing,        \* process a caller is inside AsyncProcess.stop() of, or 0
  holder,         \* which of those tasks holds the locks of a process
  reply           \* how the caller's last call ended

childVars  == <<process, phase>>
runnerVars == <<runner, verdict, outcome, cancelling>>
callVars   == <<pc, joined, owns, closing, reply>>
vars == <<state, stopRequested, live, reconnects, session, childVars,
          runnerVars, lock, holder, callVars>>

Sessions  == 1 .. MaxSessions
Processes == 1 .. MaxSpawns

States == {"STOPPED", "CONNECTING", "LIVE", "RECONNECTING", "AUTH_FAILED", "ERROR"}
Phases == {"unborn", "spawning", "running", "exited", "rejected"}
Places == {"none", "ready", "spawning", "serving", "backoff", "closing",
           "cancelClosing", "done"}
Results == {"returned", "failed", "faulted", "cancelled"}
Awaits == {"idle", "waiting", "gathering", "ownerClosing", "stopClosing",
           "stopAborting", "stopAwait"}
Replies == {"none", "ok", "failed", "cancelled"}

\* Deviation: the table lacks the edge from CONNECTING to LIVE.
TransitionsWithoutLive ==
  [s \in States |->
     CASE s = "STOPPED"      -> {"CONNECTING"}
       [] s = "CONNECTING"   -> {"RECONNECTING", "AUTH_FAILED", "ERROR", "STOPPED"}
       [] s = "LIVE"         -> {"RECONNECTING", "AUTH_FAILED", "ERROR", "STOPPED"}
       [] s = "RECONNECTING" -> {"CONNECTING", "AUTH_FAILED", "ERROR", "STOPPED"}
       [] OTHER              -> {"STOPPED", "CONNECTING"}]

\* _TRANSITIONS.  DISABLED is never a supervisor's own state.
Transitions ==
  [s \in States |->
     CASE s = "STOPPED"      -> {"CONNECTING"}
       [] s = "CONNECTING"   -> {"LIVE", "RECONNECTING", "AUTH_FAILED", "ERROR", "STOPPED"}
       [] s = "LIVE"         -> {"RECONNECTING", "AUTH_FAILED", "ERROR", "STOPPED"}
       [] s = "RECONNECTING" -> {"CONNECTING", "AUTH_FAILED", "ERROR", "STOPPED"}
       [] OTHER              -> {"STOPPED", "CONNECTING"}]

\* transition() raises ValueError when this is false.
Legal(target) == target \in Transitions[state]

Alive(p) == p \in Processes /\ phase[p] \in {"spawning", "running"}

AnyAlive == \E p \in Processes : Alive(p)

RunnerActive == runner \notin {"none", "done"}

\* AsyncProcess.stop() suspends its caller when a child must still be reaped
\* or when another task holds the locks of the process.
Contended == process # 0 /\ holder[process] # NoCaller
CloseSuspends == Alive(process) \/ Contended

\* Task t enters AsyncProcess.stop() of _process ...
TakeLocks(t) ==
  holder' = [holder EXCEPT ![process] = IF @ = NoCaller THEN t ELSE @]

RunnerClosing == runner \in {"closing", "cancelClosing"}

\* ... and leaves it; another task that waits there gets the locks.
ReleaseLocks(t, p) ==
  LET waiting == {c \in Callers \ {t} : closing[c] = p}
                 \cup (IF RunnerClosing /\ process = p /\ t # RunnerTask
                       THEN {RunnerTask} ELSE {})
  IN  \/ holder[p] # t /\ UNCHANGED holder
      \/ holder[p] = t /\ waiting = {} /\ holder' = [holder EXCEPT ![p] = NoCaller]
      \/ holder[p] = t /\ \E n \in waiting : holder' = [holder EXCEPT ![p] = n]

-----------------------------------------------------------------------------
Init ==
  /\ state = "STOPPED"
  /\ stopRequested = FALSE
  /\ live = FALSE
  /\ reconnects = 0
  /\ session = 0
  /\ process = 0
  /\ phase = [p \in Processes |-> "unborn"]
  /\ runner = "none"
  /\ verdict = "returned"
  /\ outcome = [s \in Sessions |-> "pending"]
  /\ cancelling = FALSE
  /\ lock = NoCaller
  /\ pc = [c \in Callers |-> "idle"]
  /\ joined = [c \in Callers |-> 0]
  /\ owns = [c \in Callers |-> FALSE]
  /\ closing = [c \in Callers |-> 0]
  /\ holder = [p \in Processes |-> NoCaller]
  /\ reply = [c \in Callers |-> "none"]

-----------------------------------------------------------------------------
(* start(): under the lifecycle lock, create a runner or join the present one. *)

\* What a new session starts from.
FreshSession ==
  /\ stopRequested' = FALSE
  /\ live' = FALSE
  /\ reconnects' = 0

StartNew(c) ==
  /\ pc[c] = "idle"
  /\ lock = NoCaller
  /\ ~RunnerActive
  /\ session < MaxSessions
  /\ process < MaxSpawns
  /\ FreshSession
  /\ session' = session + 1
  /\ runner' = "ready"
  /\ cancelling' = FALSE
  /\ pc' = [pc EXCEPT ![c] = "waiting"]
  /\ joined' = [joined EXCEPT ![c] = session + 1]
  /\ owns' = [owns EXCEPT ![c] = TRUE]
  /\ UNCHANGED <<state, childVars, verdict, outcome, lock, holder, closing, reply>>

StartJoin(c) ==
  /\ pc[c] = "idle"
  /\ lock = NoCaller
  /\ RunnerActive
  /\ pc' = [pc EXCEPT ![c] = "waiting"]
  /\ joined' = [joined EXCEPT ![c] = session]
  /\ owns' = [owns EXCEPT ![c] = FALSE]
  /\ UNCHANGED <<state, stopRequested, live, reconnects, session, childVars,
                 runnerVars, lock, holder, closing, reply>>

\* The call of c is over with result r.
Answer(c, r) ==
  /\ pc' = [pc EXCEPT ![c] = "idle"]
  /\ reply' = [reply EXCEPT ![c] = r]
  /\ closing' = [closing EXCEPT ![c] = 0]
  /\ joined' = [joined EXCEPT ![c] = 0]
  /\ owns' = [owns EXCEPT ![c] = FALSE]

\* _wait_until_live_or_done: the live event is set ...
StartLive(c) ==
  /\ pc[c] = "waiting"
  /\ live
  /\ Answer(c, "ok")
  /\ UNCHANGED <<state, stopRequested, live, reconnects, session, childVars,
                 runnerVars, lock, holder>>

\* Deviation: only the owner watches the runner, a joiner waits for the event.
HeardByOwner(c) == ~live /\ owns[c] /\ outcome[joined[c]] # "pending"

\* ... or the runner of the session ended first.
Heard(c) == ~live /\ outcome[joined[c]] # "pending"

\* The caller gets its exception, the RuntimeError of a runner
\* that returned without going live, or its cancellation, which the owner
\* treats as its own.
StartEnded(c) ==
  /\ pc[c] = "waiting"
  /\ Heard(c)
  /\ \/ /\ outcome[joined[c]] \in {"returned", "failed", "faulted"}
        /\ Answer(c, "failed")
     \/ /\ outcome[joined[c]] = "cancelled"
        /\ ~owns[c]
        /\ Answer(c, "cancelled")
     \/ /\ outcome[joined[c]] = "cancelled"
        /\ owns[c]
        /\ pc' = [pc EXCEPT ![c] = "gathering"]
        /\ UNCHANGED <<joined, owns, closing, reply>>
  /\ UNCHANGED <<state, stopRequested, live, reconnects, session, childVars,
                 runnerVars, lock, holder>>

\* The task inside start() is cancelled.  The caller that owns the runner
\* cancels it and gathers it; a joiner just leaves.
StartCancel(c) ==
  /\ Cancels
  /\ pc[c] = "waiting"
  /\ IF owns[c]
     THEN /\ pc' = [pc EXCEPT ![c] = "gathering"]
          /\ cancelling' = (cancelling \/ outcome[joined[c]] = "pending")
          /\ UNCHANGED <<joined, owns, closing, reply>>
     ELSE /\ Answer(c, "cancelled")
          /\ UNCHANGED cancelling
  /\ UNCHANGED <<state, stopRequested, live, reconnects, session, childVars,
                 runner, verdict, outcome, lock, holder>>

\* The owner's cleanup closes whatever _process is by now, without the lock.
OwnerGathered(c) ==
  /\ pc[c] = "gathering"
  /\ outcome[joined[c]] # "pending"
  /\ IF CloseSuspends
     THEN /\ pc' = [pc EXCEPT ![c] = "ownerClosing"]
          /\ closing' = [closing EXCEPT ![c] = process]
          /\ TakeLocks(c)
          /\ UNCHANGED <<state, joined, owns, reply>>
     ELSE /\ state' = "STOPPED"
          /\ Answer(c, "cancelled")
          /\ UNCHANGED holder
  /\ UNCHANGED <<stopRequested, live, reconnects, session, childVars,
                 runnerVars, lock>>

OwnerClosed(c) ==
  /\ pc[c] = "ownerClosing"
  /\ holder[closing[c]] = c
  /\ ~Alive(closing[c])
  /\ ReleaseLocks(c, closing[c])
  /\ state' = "STOPPED"
  /\ Answer(c, "cancelled")
  /\ UNCHANGED <<stopRequested, live, reconnects, session, childVars,
                 runnerVars, lock>>

-----------------------------------------------------------------------------
(* stop(): one transaction under both locks.                               *)

\* Deviation: stop() does not wait for the runner.
StopTailLeavesRunner(c) ==
  /\ state' = IF RunnerActive THEN state ELSE "STOPPED"
  /\ lock' = NoCaller
  /\ Answer(c, "ok")

\* What stop() does once _close_process() returned.
StopTail(c) ==
  IF RunnerActive
  THEN /\ pc' = [pc EXCEPT ![c] = "stopAwait"]
       /\ closing' = [closing EXCEPT ![c] = 0]
       /\ lock' = c
       /\ UNCHANGED <<state, joined, owns, reply>>
  ELSE /\ state' = "STOPPED"
       /\ lock' = NoCaller
       /\ Answer(c, "ok")

StopEnter(c) ==
  /\ pc[c] = "idle"
  /\ lock = NoCaller
  /\ stopRequested' = TRUE
  /\ IF CloseSuspends
     THEN /\ lock' = c
          /\ pc' = [pc EXCEPT ![c] = "stopClosing"]
          /\ closing' = [closing EXCEPT ![c] = process]
          /\ TakeLocks(c)
          /\ UNCHANGED <<state, joined, owns, reply>>
     ELSE StopTail(c) /\ UNCHANGED holder
  /\ UNCHANGED <<live, reconnects, session, childVars, runnerVars>>

StopClosed(c) ==
  /\ pc[c] = "stopClosing"
  /\ holder[closing[c]] = c
  /\ ~Alive(closing[c])
  /\ ReleaseLocks(c, closing[c])
  /\ StopTail(c)
  /\ UNCHANGED <<stopRequested, live, reconnects, session, childVars, runnerVars>>

\* `await runner` re-raises what the runner raised, and then leaves
\* _to_stopped() to the runner's own finally block.
StopAwaited(c) ==
  /\ pc[c] = "stopAwait"
  /\ ~RunnerActive
  /\ lock' = NoCaller
  /\ \/ /\ outcome[session] = "returned"
        /\ state' = "STOPPED"
        /\ Answer(c, "ok")
     \/ /\ outcome[session] \in {"failed", "faulted"}
        /\ Answer(c, "failed")
        /\ UNCHANGED state
     \/ /\ outcome[session] = "cancelled"
        /\ Answer(c, "cancelled")
        /\ UNCHANGED state
  /\ UNCHANGED <<stopRequested, live, reconnects, session, childVars, runnerVars, holder>>

\* The task inside stop() is cancelled.  Waiting for a lock of the process it
\* just leaves; inside AsyncProcess.stop() it kills and reaps first; `await
\* runner` passes the cancellation on to the runner.
StopCancel(c) ==
  LET waitsForLock == holder[closing[c]] # c \/ phase[closing[c]] = "spawning"
  IN
  /\ Cancels
  /\ \/ /\ pc[c] = "stopClosing"
        /\ waitsForLock
        /\ lock' = NoCaller
        /\ ReleaseLocks(c, closing[c])
        /\ Answer(c, "cancelled")
        /\ UNCHANGED cancelling
     \/ /\ pc[c] = "stopClosing"
        /\ ~waitsForLock
        /\ pc' = [pc EXCEPT ![c] = "stopAborting"]
        /\ UNCHANGED <<cancelling, lock, holder, joined, owns, closing, reply>>
     \/ /\ pc[c] = "stopAwait"
        /\ RunnerActive
        /\ cancelling' = TRUE
        /\ UNCHANGED <<lock, holder, callVars>>
  /\ UNCHANGED <<state, stopRequested, live, reconnects, session, childVars,
                 runner, verdict, outcome>>

StopAborted(c) ==
  /\ pc[c] = "stopAborting"
  /\ ~Alive(closing[c])
  /\ ReleaseLocks(c, closing[c])
  /\ lock' = NoCaller
  /\ Answer(c, "cancelled")
  /\ UNCHANGED <<state, stopRequested, live, reconnects, session, childVars, runnerVars>>

-----------------------------------------------------------------------------
(* The runner: _run_generation().                                          *)

\* The runner's coroutine is over.
RunnerDone(result) ==
  /\ runner' = "done"
  /\ cancelling' = FALSE
  /\ outcome' = [outcome EXCEPT ![session] = result]

\* The runner leaves its try block in state s, with its child alive or not: the
\* finally block closes the process when a stop was requested.
RunnerFinally(s, result, childAlive) ==
  /\ verdict' = result
  /\ IF stopRequested /\ (childAlive \/ Contended)
     THEN /\ state' = s
          /\ runner' = "closing"
          /\ TakeLocks(RunnerTask)
          /\ UNCHANGED <<outcome, cancelling>>
     ELSE /\ state' = IF stopRequested THEN "STOPPED" ELSE s
          /\ RunnerDone(result)
          /\ UNCHANGED holder

\* The ValueError of an illegal transition leaves the runner.
Fault(childAlive) == RunnerFinally(state, "faulted", childAlive)

\* A task that comes back from the locks of a process already reaped, in the
\* present turn of the event loop.
CloserReturning == \E c \in Callers : pc[c] = "ownerClosing" /\ ~Alive(closing[c])

\* Deviation: the loop does not look at the stop request.
LoopHeadUnasked ==
  /\ process < MaxSpawns
  /\ process' = process + 1
  /\ phase' = [phase EXCEPT ![process + 1] = "spawning"]
  /\ state' = "CONNECTING"
  /\ runner' = "spawning"
  /\ UNCHANGED <<verdict, outcome, cancelling, holder>>

\* The head of the loop: leave it on a stop request, else create a process.
LoopHead ==
  IF stopRequested
  THEN /\ RunnerFinally("STOPPED", "returned", FALSE)
       /\ UNCHANGED childVars
  ELSE IF ~Legal("CONNECTING")
  THEN Fault(FALSE) /\ UNCHANGED childVars
  ELSE /\ process < MaxSpawns
       /\ process' = process + 1
       /\ phase' = [phase EXCEPT ![process + 1] = "spawning"]
       /\ state' = "CONNECTING"
       /\ runner' = "spawning"
       /\ UNCHANGED <<verdict, outcome, cancelling, holder>>

\* The first step of the new task; it was scheduled after a closer woke up.
RunnerBegins ==
  /\ runner = "ready"
  /\ ~cancelling
  /\ ~CloserReturning
  /\ LoopHead
  /\ UNCHANGED <<stopRequested, live, reconnects, session, lock, callVars>>

\* create_subprocess_exec returned a child.
SpawnOk ==
  /\ runner = "spawning"
  /\ ~cancelling
  /\ phase' = [phase EXCEPT ![process] = "running"]
  /\ UNCHANGED process
  /\ \/ /\ stopRequested
        /\ RunnerFinally("STOPPED", "returned", TRUE)
        /\ UNCHANGED live
     \/ /\ ~stopRequested
        /\ IF Legal("LIVE")
           THEN /\ state' = "LIVE"
                /\ live' = TRUE
                /\ runner' = "serving"
                /\ UNCHANGED <<verdict, outcome, cancelling, holder>>
           ELSE Fault(TRUE) /\ UNCHANGED live
  /\ UNCHANGED <<stopRequested, reconnects, session, lock, callVars>>

\* create_subprocess_exec raised: ProcessStartError leaves the runner.
SpawnFail ==
  /\ runner = "spawning"
  /\ ~cancelling
  /\ phase' = [phase EXCEPT ![process] = "exited"]
  /\ UNCHANGED process
  /\ IF Legal("ERROR") THEN RunnerFinally("ERROR", "failed", FALSE) ELSE Fault(FALSE)
  /\ UNCHANGED <<stopRequested, live, reconnects, session, lock, callVars>>

\* process.wait() returned: stop, authentication rejection, or reconnect.
RunnerServed ==
  LET next == IF phase[process] = "rejected" THEN "AUTH_FAILED" ELSE "RECONNECTING"
  IN
  /\ runner = "serving"
  /\ ~cancelling
  /\ ~Alive(process)
  /\ \/ /\ stopRequested
        /\ RunnerFinally("STOPPED", "returned", FALSE)
        /\ UNCHANGED reconnects
     \/ /\ ~stopRequested
        /\ reconnects' = reconnects + (IF next = "RECONNECTING" THEN 1 ELSE 0)
        /\ \/ /\ ~Legal(next)
              /\ Fault(FALSE)
           \/ /\ Legal(next)
              /\ next = "AUTH_FAILED"
              /\ RunnerFinally(next, "returned", FALSE)
           \/ /\ Legal(next)
              /\ next = "RECONNECTING"
              /\ state' = next
              /\ runner' = "backoff"
              /\ UNCHANGED <<verdict, outcome, cancelling, holder>>
  /\ UNCHANGED <<stopRequested, live, session, childVars, lock, callVars>>

\* _wait_for_retry() returned: the delay elapsed or a stop was requested.  The
\* delay is two seconds or more, longer than a caller needs to come back from
\* the close of a process that is already reaped.
RunnerRetries ==
  /\ runner = "backoff"
  /\ ~cancelling
  /\ ~CloserReturning
  /\ LoopHead
  /\ UNCHANGED <<stopRequested, live, reconnects, session, lock, callVars>>

\* The close of the finally block, or of the cancellation handler, is over.
RunnerClosed ==
  /\ \/ runner = "closing" /\ ~cancelling
     \/ runner = "cancelClosing"
  /\ holder[process] = RunnerTask
  /\ ~Alive(process)
  /\ ReleaseLocks(RunnerTask, process)
  /\ state' = "STOPPED"
  /\ RunnerDone(verdict)
  /\ UNCHANGED <<stopRequested, live, reconnects, session, childVars, verdict,
                 lock, callVars>>

\* Deviation: the cancellation handler does not close the child.
CancelLeavesChild == Contended

\* The cancellation handler has a child to reap, or locks to wait for.
CancelSuspends == (runner = "serving" /\ Alive(process)) \/ Contended

\* CancelledError is thrown into the runner where it is suspended.
RunnerCancelled ==
  /\ cancelling
  /\ UNCHANGED process
  /\ \/ \* before its first step: no line of the coroutine runs
        /\ runner = "ready"
        /\ RunnerDone("cancelled")
        /\ UNCHANGED <<state, phase, verdict, holder>>
     \/ \* asyncio kills and reaps a child whose creation is cancelled
        /\ runner \in {"spawning", "serving", "backoff"}
        /\ phase' = [p \in Processes |->
                       IF p = process /\ runner = "spawning" THEN "exited" ELSE phase[p]]
        /\ verdict' = "cancelled"
        /\ IF CancelSuspends
           THEN /\ runner' = "cancelClosing"
                /\ TakeLocks(RunnerTask)
                /\ UNCHANGED <<state, outcome, cancelling>>
           ELSE /\ state' = "STOPPED"
                /\ RunnerDone("cancelled")
                /\ UNCHANGED holder
     \/ \* inside the close of the finally block: leave the wait for the locks or
        \* reap the child, and skip _to_stopped()
        /\ runner = "closing"
        /\ holder[process] # RunnerTask \/ ~Alive(process)
        /\ ReleaseLocks(RunnerTask, process)
        /\ RunnerDone("cancelled")
        /\ UNCHANGED <<state, phase, verdict>>
  /\ UNCHANGED <<stopRequested, live, reconnects, session, lock, callVars>>

-----------------------------------------------------------------------------
(* The operating system.                                                   *)

\* A child exits by itself, with or without an authentication rejection.
ChildExits(p) ==
  /\ phase[p] = "running"
  /\ \E how \in {"exited", "rejected"} : phase' = [phase EXCEPT ![p] = how]
  /\ UNCHANGED <<state, stopRequested, live, reconnects, session, process,
                 runnerVars, lock, holder, callVars>>

\* Deviation: a caller's close waits for the child and never signals it.
BeingClosedByRunner(p) == p = process /\ RunnerClosing

\* Some task is inside AsyncProcess.stop() of p.
BeingClosed(p) ==
  \/ \E c \in Callers : closing[c] = p
  \/ p = process /\ RunnerClosing

\* AsyncProcess.stop() signals the child and kills its tree on a timeout.
ChildReaped(p) ==
  /\ phase[p] = "running"
  /\ BeingClosed(p)
  /\ phase' = [phase EXCEPT ![p] = "exited"]
  /\ UNCHANGED <<state, stopRequested, live, reconnects, session, process,
                 runnerVars, lock, holder, callVars>>

-----------------------------------------------------------------------------
CallerStep(c) ==
  \/ StartNew(c) \/ StartJoin(c) \/ StartLive(c) \/ StartEnded(c)
  \/ StartCancel(c) \/ OwnerGathered(c) \/ OwnerClosed(c)
  \/ StopEnter(c) \/ StopClosed(c) \/ StopAwaited(c)
  \/ StopCancel(c) \/ StopAborted(c)

RunnerStep ==
  \/ RunnerBegins \/ SpawnOk \/ SpawnFail \/ RunnerServed
  \/ RunnerRetries \/ RunnerClosed \/ RunnerCancelled

Next ==
  \/ \E c \in Callers : CallerStep(c)
  \/ RunnerStep
  \/ \E p \in Processes : ChildExits(p) \/ ChildReaped(p)

\* The event loop runs every task that is ready, a spawn returns, a signalled
\* or killed child is reaped.  Nobody has to call, cancel or crash.
Fairness ==
  /\ WF_vars(RunnerStep)
  /\ \A p \in Processes : WF_vars(ChildReaped(p))
  /\ \A c \in Callers :
       WF_vars(\/ StartLive(c) \/ StartEnded(c) \/ OwnerGathered(c) \/ OwnerClosed(c)
               \/ StopClosed(c) \/ StopAwaited(c) \/ StopAborted(c))

Spec == Init /\ [][Next]_vars /\ Fairness

-----------------------------------------------------------------------------
\* The output as it is shown, and its children.
OutputTypeOK ==
  /\ state \in States
  /\ stopRequested \in BOOLEAN
  /\ live \in BOOLEAN
  /\ reconnects \in Nat
  /\ session \in 0 .. MaxSessions
  /\ process \in 0 .. MaxSpawns
  /\ phase \in [Processes -> Phases]

RunnerTypeOK ==
  /\ runner \in Places
  /\ verdict \in Results
  /\ outcome \in [Sessions -> Results \cup {"pending"}]
  /\ cancelling \in BOOLEAN

CallTypeOK ==
  /\ lock \in Callers \cup {NoCaller}
  /\ pc \in [Callers -> Awaits]
  /\ joined \in [Callers -> 0 .. MaxSessions]
  /\ owns \in [Callers -> BOOLEAN]
  /\ closing \in [Callers -> 0 .. MaxSpawns]
  /\ reply \in [Callers -> Replies]

HolderTypeOK == holder \in [Processes -> Callers \cup {NoCaller, RunnerTask}]

TypeOK == OutputTypeOK /\ RunnerTypeOK /\ CallTypeOK /\ HolderTypeOK

\* One supervisor has at most one child process at any time, however its
\* start, retry, stop and cancellation interleave (class docstring).
AtMostOneLiveChild == \A p, q \in Processes : Alive(p) /\ Alive(q) => p = q

\* A live child is the current _process, and its runner or a task that is
\* closing it is still there to reap it: no path out of _run_generation(),
\* start() or stop() leaves a child behind.
NoOrphanChild ==
  \A p \in Processes : Alive(p) => p = process /\ (RunnerActive \/ BeingClosed(p))

\* transition() never raises inside the runner: no other task moved _state
\* under it while it was suspended.
NoIllegalTransition == \A s \in Sessions : outcome[s] # "faulted"

\* start() creates a runner at most once, as runtime.py:148-152 uses a supervisor: each
\* restart of a destination makes a new one.
OpenedOnce == session <= 1

\* Only a stop() or a cancelled start() ends a session: the output never becomes STOPPED
\* because of an exit, a failed spawn or another start().
OnlyCallersStop ==
  [][state' = "STOPPED" /\ state # "STOPPED" =>
       \/ stopRequested'
       \/ cancelling
       \/ \E c \in Callers : pc[c] \in {"gathering", "ownerClosing"}]_vars

\* Where a stop() returns the supervisor is STOPPED, its runner is over and no child is
\* alive, although other calls were cancelled meanwhile.
StopReturnsAtRest ==
  [][\A c \in Callers :
       pc[c] \in {"stopClosing", "stopAwait"} /\ pc'[c] = "idle" /\ reply'[c] = "ok" =>
         state' = "STOPPED" /\ ~RunnerActive' /\ ~AnyAlive']_vars

\* A stop() that began ends, whatever the child does with its signals.
StopTerminates == \A c \in Callers : lock = c ~> lock # c

\* Every start() ends: a joiner never waits for a live event that the ended
\* runner can no longer set.
StartTerminates == \A c \in Callers : pc[c] = "waiting" ~> pc[c] # "waiting"

\* The supervisor implements the abstract session its users rely on.
Contract == INSTANCE OutputSession WITH
  phase <- IF ~RunnerActive /\ ~AnyAlive THEN "closed"
           ELSE IF stopRequested THEN "closing" ELSE "open",
  child <- AnyAlive

ImplementsSession == Contract!Spec
=============================================================================
