----------------------------- MODULE ChildProcess -----------------------------
(***************************************************************************)
(* media/process.py: AsyncProcess, which starts one ffmpeg, reads its      *)
(* stderr, waits for it and stops it with every descendant it has.  One    *)
(* task calls start() and wait(), others call stop(), and each may be      *)
(* cancelled where it is suspended.                                        *)
(*                                                                         *)
(* stop() and wait() end alike: kill the tree, reap the child, clean the   *)
(* tree, drain the reader; wait() and a child that has ended skip the      *)
(* first steps.  The locks are in pc: stop() holds its two from "gentle"   *)
(* on, start() one while "spawning", the reader's lock is held while       *)
(* "draining", and the tree's lock by the task that runs taskkill.         *)
(*                                                                         *)
(* Of stderr only a message of a refused stream key is followed.  Left     *)
(* out: the tail, the metrics, redaction, was_killed, a negative timeout   *)
(* and a second start(), which nothing calls.                              *)
(***************************************************************************)
EXTENDS Integers

CONSTANTS
  Runner,        \* the task that calls start() and wait()
  Stoppers,      \* the tasks that call stop()
  Nobody,
  WaitsForPipes  \* whether asyncio's wait() waits for the pipes, as in the release's Python

ASSUME ChildAssumption ==
  /\ Runner \notin Stoppers
  /\ Nobody \notin Stoppers \cup {Runner}
  /\ WaitsForPipes \in BOOLEAN

Tasks == Stoppers \cup {Runner}

VARIABLES
  pc,         \* where each task is suspended
  raising,    \* whether it is in the handler of CancelledError
  cancelled,  \* whether it has been cancelled; bound: once
  requested,  \* _stop_requested
  windows,    \* the operating system
  control,    \* what reaches the whole tree: its group, its job, or only taskkill
  treeDone,   \* _tree_cleanup_done
  taskkill,   \* the task that runs taskkill
  main,       \* the child
  helper,     \* a descendant, which holds the pipe of stderr or does not
  reader,     \* _stderr_task
  refusal     \* the message of a refused key: in the pipe, or seen

taskVars  == <<pc, raising, cancelled>>
treeVars  == <<windows, control, treeDone, taskkill, main, helper>>
readVars  == <<reader, refusal>>
vars == <<taskVars, requested, treeVars, readVars>>

Suspended == {"spawning", "locks", "gentle", "killing", "reaping", "cleaning", "drain", "draining"}
Ended     == {"returned", "raised", "failed", "not started", "given up"}
Live      == {"holding", "detached"}

Init ==
  /\ pc = [t \in Tasks |-> "idle"]
  /\ raising = [t \in Tasks |-> FALSE]
  /\ cancelled = [t \in Tasks |-> FALSE]
  /\ requested = FALSE
  /\ windows \in BOOLEAN
  /\ control = "none"
  /\ treeDone = FALSE
  /\ taskkill = Nobody
  /\ main = "none"
  /\ helper = "none"
  /\ reader = "none"
  /\ refusal = "none"

Goto(t, place) == pc' = [pc EXCEPT ![t] = place]

Stopping(s) == pc[s] \in Suspended \ {"locks"}

PipeEnded == main = "exited" /\ helper # "holding"

-----------------------------------------------------------------------------
(* start().                                                                *)

Start ==
  /\ pc[Runner] = "idle"
  /\ Goto(Runner, IF requested THEN "not started" ELSE "spawning")
  /\ UNCHANGED <<raising, cancelled, requested, treeVars, readVars>>

\* What _WindowsJob.attach() leaves: a job, or only the flag that there is none.
Attached == IF windows THEN {"job", "taskkill"} ELSE {"group"}

Spawn ==
  /\ pc[Runner] = "spawning"
  /\ \/ /\ main' = "running"
        /\ control' \in Attached
        /\ reader' = "reading"
        /\ Goto(Runner, "reaping")
     \/ /\ Goto(Runner, "not started")
        /\ UNCHANGED <<main, control, reader>>
  /\ UNCHANGED <<raising, cancelled, requested, windows, treeDone, taskkill, helper, refusal>>

-----------------------------------------------------------------------------
(* _cleanup_process_tree() and kill().                                     *)

KillAll ==
  /\ main' = IF main = "running" THEN "dying" ELSE main
  /\ helper' = IF helper \in Live THEN "gone" ELSE helper

\* kill() kills the child alone if its tree could not be; wait() returns at once when the
\* exit is known.
AfterTree(t, stopped) ==
  /\ Goto(t, CASE pc[t] = "cleaning" -> "drain"
               [] OTHER -> IF main = "exited" THEN "cleaning" ELSE "reaping")
  /\ IF stopped
     THEN KillAll
     ELSE /\ main' = IF pc[t] = "killing" /\ main = "running" THEN "dying" ELSE main
          /\ UNCHANGED helper

\* The group or the job is killed at once, and once only.
CleanTree(t) ==
  /\ pc[t] \in {"killing", "cleaning"}
  /\ taskkill = Nobody
  /\ treeDone \/ control # "taskkill"
  /\ treeDone' = TRUE
  /\ AfterTree(t, TRUE)
  /\ UNCHANGED <<raising, cancelled, requested, windows, control, taskkill, readVars>>

RunTaskkill(t) ==
  /\ pc[t] \in {"killing", "cleaning"}
  /\ taskkill = Nobody
  /\ control = "taskkill" /\ ~treeDone
  /\ taskkill' = t
  /\ UNCHANGED <<taskVars, requested, windows, control, treeDone, main, helper, readVars>>

\* It finds the tree by its root, so never after the child; it may fail or be killed
\* after five seconds.
TaskkillOver(t) ==
  /\ taskkill = t
  /\ taskkill' = Nobody
  /\ \/ main # "exited" /\ AfterTree(t, TRUE) /\ treeDone' = TRUE
     \/ AfterTree(t, FALSE) /\ UNCHANGED treeDone
  /\ UNCHANGED <<raising, cancelled, requested, windows, control, readVars>>

\* It cannot be started: only kill() in the handler expects this, the others fail with it.
TaskkillFails(t) ==
  /\ taskkill = t
  /\ taskkill' = Nobody
  /\ IF pc[t] = "killing" /\ raising[t]
     THEN AfterTree(t, FALSE)
     ELSE Goto(t, "failed") /\ UNCHANGED <<main, helper>>
  /\ UNCHANGED <<raising, cancelled, requested, windows, control, treeDone, readVars>>

-----------------------------------------------------------------------------
(* wait() and the common end of both.                                      *)

Reapable == main = "exited" /\ (WaitsForPipes => PipeEnded)

Reaped(t) ==
  /\ pc[t] \in {"gentle", "reaping"}
  /\ Reapable
  /\ Goto(t, "cleaning")
  /\ UNCHANGED <<raising, cancelled, requested, treeVars, readVars>>

Finish(t) == Goto(t, IF raising[t] THEN "raised" ELSE "returned")

\* Deviation: nobody waits for the reader.
DrainAtOnce(t) ==
  /\ pc[t] = "drain"
  /\ Finish(t)
  /\ UNCHANGED <<raising, cancelled, requested, treeVars, readVars>>

\* _finalize_reader() takes its lock.
Drain(t) ==
  /\ pc[t] = "drain"
  /\ \A u \in Tasks : pc[u] # "draining"
  /\ IF reader = "forgotten" THEN Finish(t) ELSE Goto(t, "draining")
  /\ UNCHANGED <<raising, cancelled, requested, treeVars, readVars>>

Drained(t) ==
  /\ pc[t] = "draining"
  /\ reader = "over"
  /\ reader' = "forgotten"
  /\ Finish(t)
  /\ UNCHANGED <<raising, cancelled, requested, treeVars, refusal>>

\* The handler of CancelledError in stop() starts with kill().
Handle(t) ==
  /\ raising' = [raising EXCEPT ![t] = TRUE]
  /\ Goto(t, "killing")

\* The reader was cancelled with a task that waited for it, and is never forgotten: who
\* waits for it now gets CancelledError without being cancelled.
DrainRaises(t) ==
  /\ pc[t] = "draining"
  /\ reader = "cancelled"
  /\ IF t = Runner \/ raising[t] THEN Goto(t, "raised") /\ UNCHANGED raising ELSE Handle(t)
  /\ UNCHANGED <<cancelled, requested, treeVars, readVars>>

-----------------------------------------------------------------------------
(* stop().                                                                 *)

Stop(s) ==
  /\ pc[s] = "idle"
  /\ requested' = TRUE
  /\ Goto(s, "locks")
  /\ UNCHANGED <<raising, cancelled, treeVars, readVars>>

\* Deviation: a child that has ended is taken for the end of its tree.
EnterWithoutTree(s) ==
  /\ pc[s] = "locks"
  /\ pc[Runner] # "spawning"
  /\ \A u \in Stoppers : ~Stopping(u)
  /\ Goto(s, CASE main = "none"   -> "returned"
               [] main = "exited" -> "drain"
               [] OTHER -> IF control = "taskkill" THEN "killing" ELSE "gentle")
  /\ UNCHANGED <<raising, cancelled, requested, treeVars, readVars>>

Enter(s) ==
  /\ pc[s] = "locks"
  /\ pc[Runner] # "spawning"
  /\ \A u \in Stoppers : ~Stopping(u)
  /\ Goto(s, CASE main = "none"   -> "returned"
               [] main = "exited" -> "cleaning"
               [] OTHER -> IF control = "taskkill" THEN "killing" ELSE "gentle")
  /\ UNCHANGED <<raising, cancelled, requested, treeVars, readVars>>

\* The child was asked to end and has not, or its descendant holds the pipe.
Timeout(s) ==
  /\ pc[s] = "gentle"
  /\ Goto(s, "killing")
  /\ UNCHANGED <<raising, cancelled, requested, treeVars, readVars>>

-----------------------------------------------------------------------------
(* Cancellation: a taskkill that runs is killed, which may come too late.  *)

Withdraw(t) ==
  /\ taskkill' = IF taskkill = t THEN Nobody ELSE taskkill
  /\ \/ UNCHANGED <<main, helper>>
     \/ taskkill = t /\ main # "exited" /\ KillAll
  /\ reader' = IF pc[t] = "draining" /\ reader = "reading" THEN "cancelled" ELSE reader

\* asyncio kills a child that it is just starting.
CancelRunner ==
  /\ pc[Runner] \in Suspended
  /\ ~cancelled[Runner]
  /\ cancelled' = [cancelled EXCEPT ![Runner] = TRUE]
  /\ Goto(Runner, "raised")
  /\ Withdraw(Runner)
  /\ UNCHANGED <<raising, requested, windows, control, treeDone, refusal>>

\* Deviation: a cancelled stop() is abandoned.
CancelAbandons(s) ==
  /\ pc[s] \in Suspended
  /\ ~cancelled[s] /\ ~raising[s]
  /\ cancelled' = [cancelled EXCEPT ![s] = TRUE]
  /\ Goto(s, IF pc[s] = "locks" THEN "given up" ELSE "raised")
  /\ Withdraw(s)
  /\ UNCHANGED <<raising, requested, windows, control, treeDone, refusal>>

\* What the handler does is shielded.  Bound: it is not cancelled itself.
CancelStop(s) ==
  /\ pc[s] \in Suspended
  /\ ~cancelled[s] /\ ~raising[s]
  /\ cancelled' = [cancelled EXCEPT ![s] = TRUE]
  /\ IF pc[s] = "locks" THEN Goto(s, "given up") /\ UNCHANGED raising ELSE Handle(s)
  /\ Withdraw(s)
  /\ UNCHANGED <<requested, windows, control, treeDone, refusal>>

-----------------------------------------------------------------------------
(* ffmpeg, its descendant and _read_stderr().                              *)

Exit ==
  /\ main \in {"running", "dying"}
  /\ main' = "exited"
  /\ UNCHANGED <<taskVars, requested, windows, control, treeDone, taskkill, helper, readVars>>

Fork ==
  /\ main = "running"
  /\ helper = "none"
  /\ helper' \in Live
  /\ UNCHANGED <<taskVars, requested, windows, control, treeDone, taskkill, main, readVars>>

HelperExit ==
  /\ helper \in Live
  /\ helper' = "gone"
  /\ UNCHANGED <<taskVars, requested, windows, control, treeDone, taskkill, main, readVars>>

Refuse ==
  /\ main = "running"
  /\ refusal = "none"
  /\ refusal' = "written"
  /\ UNCHANGED <<taskVars, requested, treeVars, reader>>

Capture ==
  /\ reader = "reading"
  /\ refusal = "written"
  /\ refusal' = "seen"
  /\ UNCHANGED <<taskVars, requested, treeVars, reader>>

EndOfPipe ==
  /\ reader = "reading"
  /\ PipeEnded /\ refusal # "written"
  /\ reader' = "over"
  /\ UNCHANGED <<taskVars, requested, treeVars, refusal>>

-----------------------------------------------------------------------------
Continue(t) ==
  \/ CleanTree(t) \/ RunTaskkill(t) \/ TaskkillOver(t)
  \/ Reaped(t) \/ Drain(t) \/ Drained(t) \/ DrainRaises(t)

Next ==
  \/ Start \/ Spawn \/ CancelRunner
  \/ \E s \in Stoppers : Stop(s) \/ Enter(s) \/ Timeout(s) \/ CancelStop(s)
  \/ \E t \in Tasks : Continue(t) \/ TaskkillFails(t)
  \/ Exit \/ Fork \/ HelperExit \/ Refuse \/ Capture \/ EndOfPipe

Spec == Init /\ [][Next]_vars

\* Every task is scheduled, every time limit expires and a killed child ends.  One that is
\* not killed need not end, nor need its descendant.
FairSpec ==
  /\ Spec
  /\ WF_vars(Spawn) /\ WF_vars(Capture) /\ WF_vars(EndOfPipe)
  /\ WF_vars(main = "dying" /\ Exit)
  /\ \A s \in Stoppers : WF_vars(Enter(s)) /\ WF_vars(Timeout(s))
  /\ \A t \in Tasks : WF_vars(Continue(t))

-----------------------------------------------------------------------------
TypeOK ==
  /\ pc \in [Tasks -> {"idle"} \cup Suspended \cup Ended]
  /\ raising \in [Tasks -> BOOLEAN]
  /\ cancelled \in [Tasks -> BOOLEAN]
  /\ requested \in BOOLEAN
  /\ windows \in BOOLEAN
  /\ control \in {"none", "group", "job", "taskkill"}
  /\ treeDone \in BOOLEAN
  /\ taskkill \in Tasks \cup {Nobody}
  /\ main \in {"none", "running", "dying", "exited"}
  /\ helper \in {"none", "gone"} \cup Live
  /\ reader \in {"none", "reading", "over", "cancelled", "forgotten"}
  /\ refusal \in {"none", "written", "seen"}

\* After a stop(), even one that was cancelled, the child has been reaped or there never
\* will be one; no descendant lives unless Windows refused the job and taskkill failed.
StopLeavesNothing == (\E s \in Stoppers : pc[s] \in {"returned", "raised"}) =>
  /\ pc[Runner] # "spawning"
  /\ main \in {"none", "exited"}
  /\ helper \in Live => control = "taskkill"

\* wait() returns when everything that ffmpeg wrote has been looked at, so that the
\* supervisor never retries a key that was refused.
VerdictIsFinal == pc[Runner] = "returned" => main = "exited" /\ refusal # "written"

\* A stop() ends, although ffmpeg may ignore it and its descendant may hold the pipe for
\* ever: unless Windows refused the job and taskkill did not reach the descendant.
Clinging == control = "taskkill" /\ helper = "holding"
StopEnds == []<>~Clinging => \A s \in Stoppers : pc[s] = "locks" ~> pc[s] \in Ended

=============================================================================
