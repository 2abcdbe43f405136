------------------------------ MODULE MediaProbe ------------------------------
(***************************************************************************)
(* media/ffprobe.py: probe_media(), which checks an address, runs ffprobe  *)
(* twice under one deadline (the streams, then the key frames), reads both *)
(* of its pipes up to a limit and always kills and reaps it.               *)
(*                                                                         *)
(* asyncio's part, modelled from its use here: a transport moves what the  *)
(* child writes into a reader's buffer and pauses while the buffer is      *)
(* full; a paused transport does not see the end of its pipe either.       *)
(* process.wait() returns at once if the exit is known, else when it       *)
(* becomes known, in some versions only after both pipes have ended.       *)
(*                                                                         *)
(* Output is counted in chunks.  What is in it, and which addresses are    *)
(* refused, is a choice between the outcomes.  Left out: command lines.    *)
(***************************************************************************)
EXTENDS Integers

CONSTANTS
  WaitsForPipes, \* whether wait() waits for the pipes, as in the Python of the release
  PerStream,     \* max_stream_bytes
  Total,         \* max_output_bytes
  PauseAt,       \* chunks at which a transport pauses
  MaxCancels     \* bound: how often the caller cancels the probe

ASSUME ProbeAssumption ==
  /\ WaitsForPipes \in BOOLEAN
  /\ {PerStream, Total, PauseAt} \subseteq Nat \ {0}
  /\ MaxCancels \in Nat

VARIABLES
  pc,      \* where probe_media() is suspended
  run,     \* 1: the streams; 2: the key frames
  late,    \* whether the deadline has passed
  child,   \* the ffprobe of this run
  status,  \* whether it ended with 0
  buffer,  \* chunks in the buffer of each reader
  ended,   \* whether the transport has seen the end of each pipe
  got,     \* chunks in the output of each reader
  reader,  \* the two tasks of _read_process()
  reason,  \* the exception that is raised when the child is reaped
  outcome, \* what the caller gets
  cancels  \* how often the caller cancelled

childVars  == <<child, status>>
pipeVars   == <<buffer, ended, got, reader>>
resultVars == <<run, reason, outcome>>
vars == <<pc, late, childVars, pipeVars, resultVars, cancels>>

Streams  == {"stdout", "stderr"}
Places   == {"idle", "resolving", "spawning", "reading", "waiting", "reaping", "done"}
Failures == {"invalid", "unstartable", "timeout", "too large", "bad status", "malformed"}
Outcomes == {"none", "streams only", "complete", "cancelled"} \cup Failures

Init ==
  /\ pc = "idle"
  /\ run = 1
  /\ late = FALSE
  /\ child = "none"
  /\ status = TRUE
  /\ buffer = [s \in Streams |-> 0]
  /\ ended = [s \in Streams |-> FALSE]
  /\ got = [s \in Streams |-> 0]
  /\ reader = [s \in Streams |-> "none"]
  /\ reason = "none"
  /\ outcome = "none"
  /\ cancels = 0

Return(result) ==
  /\ pc' = "done"
  /\ outcome' = result

\* A failure of the second run is not one of the probe, but a cancellation is.
Raise(failure) ==
  /\ Return(IF run = 2 /\ failure # "cancelled" THEN "streams only" ELSE failure)
  /\ reason' = "none"

-----------------------------------------------------------------------------
(* The steps of probe_media().                                             *)

\* validate_input_url(), and the deadline is set.
Call ==
  /\ pc = "idle"
  /\ \/ pc' = "resolving" /\ UNCHANGED <<reason, outcome>>
     \/ Raise("invalid")
  /\ UNCHANGED <<run, late, childVars, pipeVars, cancels>>

\* Every address the host has must be public; then the first run starts, if there is
\* time for it.
Resolve ==
  /\ pc = "resolving"
  /\ \/ ~late /\ pc' = "spawning" /\ UNCHANGED <<reason, outcome>>
     \/ late /\ Raise("timeout")
     \/ Raise("invalid")
  /\ UNCHANGED <<run, late, childVars, pipeVars, cancels>>

Spawn ==
  /\ pc = "spawning"
  /\ \/ /\ pc' = "reading"
        /\ child' = "running"
        /\ buffer' = [s \in Streams |-> 0]
        /\ ended' = [s \in Streams |-> FALSE]
        /\ got' = [s \in Streams |-> 0]
        /\ reader' = [s \in Streams |-> "reading"]
        /\ UNCHANGED <<reason, outcome>>
     \/ Raise("unstartable") /\ UNCHANGED <<child, pipeVars>>
  /\ UNCHANGED <<run, late, status, cancels>>

\* Deviation: each stream has its own limit only.
TooLargeAlone(s, counts) == counts[s] > PerStream

TooLarge(s, counts) ==
  \/ counts[s] > PerStream
  \/ counts["stdout"] + counts["stderr"] > Total

\* _read_bounded() takes a chunk or finds the end.
Read(s) ==
  /\ pc = "reading"
  /\ reader[s] = "reading"
  /\ \/ /\ buffer[s] > 0
        /\ buffer' = [buffer EXCEPT ![s] = @ - 1]
        /\ got' = [got EXCEPT ![s] = @ + 1]
        /\ reader' = [reader EXCEPT ![s] = IF TooLarge(s, got') THEN "failed" ELSE @]
     \/ /\ buffer[s] = 0 /\ ended[s]
        /\ reader' = [reader EXCEPT ![s] = "over"]
        /\ UNCHANGED <<buffer, got>>
  /\ UNCHANGED <<pc, late, childVars, ended, resultVars, cancels>>

\* Both have come to the end: the child is awaited, still within the deadline.
AwaitChild ==
  /\ pc = "reading"
  /\ \A s \in Streams : reader[s] = "over"
  /\ pc' = "waiting"
  /\ UNCHANGED <<late, childVars, pipeVars, resultVars, cancels>>

RunIsOver == pc = "waiting" /\ child = "exited"

FailRun ==
  /\ RunIsOver
  /\ ~status
  /\ Raise("bad status")
  /\ UNCHANGED <<run, late, childVars, pipeVars, cancels>>

\* _parse_probe() finds no video stream in the output, or values that cannot be.
Misunderstand ==
  /\ RunIsOver /\ run = 1
  /\ status
  /\ Raise("malformed")
  /\ UNCHANGED <<run, late, childVars, pipeVars, cancels>>

\* It understands them.  The second run starts if there is time for it.
FinishStreams ==
  /\ RunIsOver /\ run = 1
  /\ status
  /\ IF late
     THEN Return("streams only") /\ UNCHANGED run
     ELSE pc' = "spawning" /\ run' = 2 /\ UNCHANGED outcome
  /\ UNCHANGED <<late, childVars, pipeVars, reason, cancels>>

\* _parse_gop_seconds() gives the distance of the key frames, or nothing.
FinishFrames ==
  /\ RunIsOver /\ run = 2
  /\ status
  /\ \E result \in {"complete", "streams only"} : Return(result)
  /\ UNCHANGED <<run, late, childVars, pipeVars, reason, cancels>>

\* Deviation: the child is left alone unless it ran out of time.
TerminateLate(failure) ==
  /\ reader' = [s \in Streams |-> "none"]
  /\ IF failure = "timeout" /\ child = "running"
     THEN child' = "killed" /\ pc' = "reaping" /\ reason' = failure /\ UNCHANGED outcome
     ELSE Raise(failure) /\ UNCHANGED child

\* The readers are cancelled.  _terminate_and_reap(): wait() is over if the exit is known.
Terminate(failure) ==
  /\ reader' = [s \in Streams |-> "none"]
  /\ IF child = "running"
     THEN child' = "killed" /\ pc' = "reaping" /\ reason' = failure /\ UNCHANGED outcome
     ELSE Raise(failure) /\ UNCHANGED child

StopReading ==
  /\ pc = "reading"
  /\ \E s \in Streams : reader[s] = "failed"
  /\ Terminate("too large")
  /\ UNCHANGED <<run, late, status, buffer, ended, got, cancels>>

\* Deviation: the second run has no deadline.
TimeoutFirst ==
  /\ late
  /\ \/ pc = "resolving" /\ Raise("timeout") /\ UNCHANGED <<child, reader>>
     \/ pc \in {"reading", "waiting"} /\ run = 1 /\ Terminate("timeout")
  /\ UNCHANGED <<run, late, status, buffer, ended, got, cancels>>

Timeout ==
  /\ late
  /\ \/ pc = "resolving" /\ Raise("timeout") /\ UNCHANGED <<child, reader>>
     \/ pc \in {"reading", "waiting"} /\ Terminate("timeout")
  /\ UNCHANGED <<run, late, status, buffer, ended, got, cancels>>

Reaped ==
  /\ pc = "reaping"
  /\ child = "exited"
  /\ WaitsForPipes => \A s \in Streams : ended[s]
  /\ Raise(reason)
  /\ UNCHANGED <<run, late, childVars, pipeVars, cancels>>

\* asyncio kills a child that it is just starting.
Cancel ==
  /\ cancels < MaxCancels
  /\ cancels' = cancels + 1
  /\ \/ pc \in {"resolving", "spawning", "reaping"} /\ Raise("cancelled")
        /\ UNCHANGED <<child, reader>>
     \/ pc \in {"reading", "waiting"} /\ Terminate("cancelled")
  /\ UNCHANGED <<run, late, status, buffer, ended, got>>

-----------------------------------------------------------------------------
(* ffprobe, its pipes and the clock.                                       *)

Write(s) ==
  /\ child = "running"
  /\ buffer[s] < PauseAt
  /\ buffer' = [buffer EXCEPT ![s] = @ + 1]
  /\ UNCHANGED <<pc, late, childVars, ended, got, reader, resultVars, cancels>>

\* It ends by itself, or the signal is delivered and the exit becomes known.
Exit ==
  /\ child \in {"running", "killed"}
  /\ child' = "exited"
  /\ status' \in IF child = "killed" THEN {FALSE} ELSE BOOLEAN
  /\ UNCHANGED <<pc, late, pipeVars, resultVars, cancels>>

EndOfPipe(s) ==
  /\ child = "exited"
  /\ ~ended[s]
  /\ buffer[s] < PauseAt
  /\ ended' = [ended EXCEPT ![s] = TRUE]
  /\ UNCHANGED <<pc, late, childVars, buffer, got, reader, resultVars, cancels>>

TimePasses ==
  /\ pc \notin {"idle", "done"}
  /\ ~late
  /\ late' = TRUE
  /\ UNCHANGED <<pc, childVars, pipeVars, resultVars, cancels>>

\* What the event loop gets to in the end.
Advance ==
  \/ Resolve \/ Spawn \/ AwaitChild \/ FailRun \/ Misunderstand \/ FinishStreams \/ FinishFrames
  \/ StopReading \/ Timeout \/ Reaped

Next ==
  \/ Call \/ Advance \/ Cancel \/ Exit \/ TimePasses
  \/ \E s \in Streams : Read(s) \/ Write(s) \/ EndOfPipe(s)

Spec == Init /\ [][Next]_vars

\* Every task is scheduled, a killed child ends and the deadline comes.  A child that is not
\* killed may hang, or write for ever.
FairSpec ==
  /\ Spec
  /\ WF_vars(Advance)
  /\ WF_vars(TimePasses)
  /\ WF_vars(child = "killed" /\ Exit)
  /\ \A s \in Streams : WF_vars(Read(s)) /\ WF_vars(EndOfPipe(s))

-----------------------------------------------------------------------------
TypeOK ==
  /\ pc \in Places
  /\ run \in {1, 2}
  /\ late \in BOOLEAN
  /\ child \in {"none", "running", "killed", "exited"}
  /\ status \in BOOLEAN
  /\ buffer \in [Streams -> 0 .. PauseAt]
  /\ ended \in [Streams -> BOOLEAN]
  /\ got \in [Streams -> 0 .. PerStream + 1]
  /\ reader \in [Streams -> {"none", "reading", "failed", "over"}]
  /\ reason \in Outcomes
  /\ outcome \in Outcomes
  /\ cancels \in 0 .. MaxCancels

\* No ffprobe outlives the probe that started it, whichever way that ends; it has been
\* reaped as well, unless the caller cancelled meanwhile.
NoProbeLeft == pc = "done" =>
  /\ child # "running"
  /\ child = "killed" => outcome = "cancelled"

\* The output that is kept never exceeds the limits by more than the chunk that breaks
\* them, and what exceeds them is no result.
WithinLimits ==
  /\ got["stdout"] + got["stderr"] <= Total + 2
  /\ \A s \in Streams : reader[s] = "over" => got[s] <= PerStream
  /\ pc = "waiting" => got["stdout"] + got["stderr"] <= Total

Full == WaitsForPipes /\ pc = "reaping" /\ \E s \in Streams : buffer[s] = PauseAt /\ ~ended[s]

\* A probe ends, although ffprobe may hang: unless it was killed while a pipe was paused.
ProbeEndsUnlessFull == pc # "idle" ~> pc = "done" \/ Full

\* A probe ends.  A pipe that is paused when the child is killed keeps the probe waiting
\* for ever, long after its deadline.
ProbeEnds == pc # "idle" ~> pc = "done"

=============================================================================
