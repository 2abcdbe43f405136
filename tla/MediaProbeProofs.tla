--------------------------- MODULE MediaProbeProofs ---------------------------
(***************************************************************************)
(* Theorems about MediaProbe for all limits and any number of              *)
(* cancellations.                                                          *)
(*                                                                         *)
(* That no ffprobe is left is not inductive: where the probe is suspended  *)
(* says what has become of its child (ChildTidy).  Nor is the bound on its *)
(* output: two readers that run at the same time may each take one chunk   *)
(* too many, so the invariant counts those that have (LimitTidy).          *)
(***************************************************************************)
EXTENDS MediaProbe, TLAPS

ChildTidy ==
  /\ pc \in {"idle", "resolving", "spawning"} => child \in {"none", "exited"}
  /\ pc \in {"reading", "waiting"} => child \in {"running", "exited"}
  /\ pc = "reaping" => child \in {"killed", "exited"}
  /\ NoProbeLeft

Sum == got["stdout"] + got["stderr"]

Failed(s) == reader[s] = "failed"

\* What both pipes together have given while the readers run.
SumTidy ==
  /\ ~Failed("stdout") /\ ~Failed("stderr") => Sum <= Total
  /\ ~Failed("stdout") \/ ~Failed("stderr") => Sum <= Total + 1

LimitTidy ==
  /\ \A s \in Streams : reader[s] \in {"reading", "over"} => got[s] <= PerStream
  /\ pc = "reading" => SumTidy
  /\ pc = "waiting" => Sum <= Total
  /\ Sum <= Total + 2

Tidy == TypeOK /\ ChildTidy /\ LimitTidy

-----------------------------------------------------------------------------
(* What the helpers of the actions do.                                     *)

LEMMA OutcomeNames ==
  /\ Failures \subseteq Outcomes
  /\ {"none", "streams only", "complete", "cancelled"} \subseteq Outcomes
  /\ {"invalid", "unstartable", "timeout"} \subseteq Outcomes
  /\ {"too large", "bad status", "malformed"} \subseteq Outcomes
BY DEF Outcomes, Failures

LEMMA PlaceNames ==
  Places = {"idle", "resolving", "spawning", "reading", "waiting", "reaping", "done"}
BY DEF Places

\* A raised exception ends the probe; of a cancellation the caller learns.
LEMMA RaiseEnds ==
  ASSUME NEW failure \in Outcomes, Raise(failure)
  PROVE  /\ pc' = "done"
         /\ reason' = "none"
         /\ outcome' \in Outcomes
         /\ failure = "cancelled" => outcome' = "cancelled"
BY OutcomeNames DEF Raise, Return

\* The readers are cancelled, and a child that runs is killed and waited for.
LEMMA TerminateKills ==
  ASSUME NEW failure \in Outcomes, Terminate(failure)
  PROVE  /\ reader' = [s \in Streams |-> "none"]
         /\ reason' \in Outcomes
         /\ \/ /\ child = "running" /\ child' = "killed"
               /\ pc' = "reaping" /\ outcome' = outcome
            \/ /\ child # "running" /\ child' = child
               /\ pc' = "done" /\ outcome' \in Outcomes
<1>1. CASE child = "running"
  BY <1>1 DEF Terminate
<1>2. CASE child # "running"
  <2>1. Raise(failure) /\ child' = child /\ reader' = [s \in Streams |-> "none"]
    BY <1>2 DEF Terminate
  <2> QED BY <1>2, <2>1, RaiseEnds, OutcomeNames
<1> QED BY <1>1, <1>2

-----------------------------------------------------------------------------
(* Types.                                                                  *)

PlaceType ==
  /\ pc \in Places
  /\ run \in {1, 2}
  /\ late \in BOOLEAN
  /\ cancels \in 0 .. MaxCancels

ResultType == reason \in Outcomes /\ outcome \in Outcomes

ChildType == child \in {"none", "running", "killed", "exited"} /\ status \in BOOLEAN

PipeType ==
  /\ buffer \in [Streams -> 0 .. PauseAt]
  /\ ended \in [Streams -> BOOLEAN]
  /\ got \in [Streams -> 0 .. PerStream + 1]
  /\ reader \in [Streams -> {"none", "reading", "failed", "over"}]

LEMMA TypeParts == TypeOK <=> PlaceType /\ ResultType /\ ChildType /\ PipeType
BY DEF TypeOK, PlaceType, ResultType, ChildType, PipeType

\* The steps that leave the pipes alone, but may cancel the readers.
LEMMA TypeOfProbe ==
  ASSUME Tidy,
         \/ Call \/ Resolve \/ AwaitChild \/ FailRun \/ Misunderstand \/ FinishStreams
         \/ FinishFrames \/ StopReading \/ Timeout \/ Reaped \/ Cancel \/ Exit \/ TimePasses
  PROVE  TypeOK'
<1> USE ProbeAssumption
<1>1. PlaceType /\ ResultType /\ ChildType /\ PipeType
  BY TypeParts DEF Tidy
<1>2. CASE Call
  <2>1. CASE Raise("invalid")
    BY <1>1, <1>2, <2>1, RaiseEnds, OutcomeNames, PlaceNames
       DEF Call, TypeOK, PlaceType, ResultType, ChildType, PipeType, childVars, pipeVars
  <2>2. CASE pc' = "resolving" /\ UNCHANGED <<reason, outcome>>
    BY <1>1, <1>2, <2>2, PlaceNames
       DEF Call, TypeOK, PlaceType, ResultType, ChildType, PipeType, childVars, pipeVars
  <2> QED BY <1>2, <2>1, <2>2 DEF Call
<1>3. CASE Resolve
  <2>1. \/ pc' = "spawning" /\ UNCHANGED <<reason, outcome>>
        \/ Raise("timeout") \/ Raise("invalid")
    BY <1>3 DEF Resolve
  <2>2. pc' \in Places /\ ResultType'
    BY <1>1, <2>1, RaiseEnds, OutcomeNames, PlaceNames DEF ResultType
  <2> QED
    BY <1>1, <1>3, <2>2
       DEF Resolve, TypeOK, PlaceType, ResultType, ChildType, PipeType, childVars, pipeVars
<1>4. CASE AwaitChild
  BY <1>1, <1>4, PlaceNames
     DEF AwaitChild, TypeOK, PlaceType, ResultType, ChildType, PipeType,
         childVars, pipeVars, resultVars
<1>5. CASE FailRun \/ Misunderstand \/ Reaped
  <2>1. Raise("bad status") \/ Raise("malformed") \/ Raise(reason)
    BY <1>5 DEF FailRun, Misunderstand, Reaped
  <2>2. pc' \in Places /\ ResultType'
    BY <1>1, <2>1, RaiseEnds, OutcomeNames, PlaceNames DEF ResultType
  <2> QED
    BY <1>1, <1>5, <2>2
       DEF FailRun, Misunderstand, Reaped, TypeOK, PlaceType, ResultType, ChildType, PipeType,
           childVars, pipeVars
<1>6. CASE FinishStreams
  BY <1>1, <1>6, OutcomeNames, PlaceNames
     DEF FinishStreams, Return, TypeOK, PlaceType, ResultType, ChildType, PipeType,
         childVars, pipeVars
<1>7. CASE FinishFrames
  <2>1. pc' = "done" /\ outcome' \in Outcomes
    BY <1>7, OutcomeNames DEF FinishFrames, Return
  <2> QED
    BY <1>1, <1>7, <2>1, PlaceNames
       DEF FinishFrames, TypeOK, PlaceType, ResultType, ChildType, PipeType, childVars, pipeVars
<1>8. CASE StopReading \/ Timeout \/ Cancel
  <2>1. \/ UNCHANGED <<child, reader>> /\ (Raise("timeout") \/ Raise("cancelled"))
        \/ Terminate("too large") \/ Terminate("timeout") \/ Terminate("cancelled")
    BY <1>8 DEF StopReading, Timeout, Cancel
  <2>2. /\ pc' \in Places /\ ResultType' /\ child' \in {child, "killed"}
        /\ reader' \in {reader, [s \in Streams |-> "none"]}
    BY <1>1, <2>1, RaiseEnds, TerminateKills, OutcomeNames, PlaceNames DEF ResultType
  <2>3. UNCHANGED <<run, late, status, buffer, ended, got>> /\ cancels' \in 0 .. MaxCancels
    <3>1. CASE StopReading \/ Timeout
      BY <1>1, <3>1 DEF StopReading, Timeout, PlaceType
    <3>2. CASE Cancel
      BY <1>1, <3>2 DEF Cancel, PlaceType
    <3> QED BY <1>8, <3>1, <3>2
  <2> QED
    BY <1>1, <2>2, <2>3 DEF TypeOK, PlaceType, ResultType, ChildType, PipeType
<1>9. CASE Exit
  <2>1. child' = "exited" /\ status' \in BOOLEAN
    BY <1>9 DEF Exit
  <2> QED
    BY <1>1, <1>9, <2>1
       DEF Exit, TypeOK, PlaceType, ResultType, ChildType, PipeType, pipeVars, resultVars
<1>10. CASE TimePasses
  BY <1>1, <1>10
     DEF TimePasses, TypeOK, PlaceType, ResultType, ChildType, PipeType,
         childVars, pipeVars, resultVars
<1> QED
  BY <1>2, <1>3, <1>4, <1>5, <1>6, <1>7, <1>8, <1>9, <1>10 DEF Tidy

\* The steps that fill and empty the pipes.
LEMMA TypeOfPipes ==
  ASSUME Tidy,
         Spawn \/ \E s \in Streams : Read(s) \/ Write(s) \/ EndOfPipe(s)
  PROVE  TypeOK'
<1> USE ProbeAssumption
<1>1. PlaceType /\ ResultType /\ ChildType /\ PipeType
  BY TypeParts DEF Tidy
<1>2. CASE Spawn
  <2>1. pc' \in Places /\ ResultType' /\ child' \in {child, "running"} /\ PipeType'
    <3>1. CASE Raise("unstartable") /\ UNCHANGED <<child, pipeVars>>
      BY <1>1, <3>1, RaiseEnds, OutcomeNames, PlaceNames DEF ResultType, PipeType, pipeVars
    <3>2. CASE /\ pc' = "reading" /\ child' = "running"
               /\ buffer' = [s \in Streams |-> 0]
               /\ ended' = [s \in Streams |-> FALSE]
               /\ got' = [s \in Streams |-> 0]
               /\ reader' = [s \in Streams |-> "reading"]
               /\ UNCHANGED <<reason, outcome>>
      <4>1. 0 \in 0 .. PauseAt /\ 0 \in 0 .. PerStream + 1
        OBVIOUS
      <4>2. PipeType'
        BY <3>2, <4>1 DEF PipeType
      <4> QED BY <1>1, <3>2, <4>2, PlaceNames DEF ResultType
    <3> QED BY <1>2, <3>1, <3>2 DEF Spawn
  <2> QED BY <1>1, <1>2, <2>1 DEF Spawn, TypeOK, PlaceType, ResultType, ChildType, PipeType
<1>3. ASSUME NEW s \in Streams, Read(s)
      PROVE  TypeOK'
  <2>1. PipeType'
    <3>1. CASE /\ buffer[s] > 0
               /\ buffer' = [buffer EXCEPT ![s] = @ - 1]
               /\ got' = [got EXCEPT ![s] = @ + 1]
               /\ reader' = [reader EXCEPT ![s] = IF TooLarge(s, got') THEN "failed" ELSE @]
      <4>1. got[s] <= PerStream
        BY <1>3 DEF Read, Tidy, LimitTidy
      <4>2. buffer[s] - 1 \in 0 .. PauseAt /\ got[s] + 1 \in 0 .. PerStream + 1
        BY <1>1, <3>1, <4>1 DEF PipeType
      <4> QED BY <1>1, <1>3, <3>1, <4>2 DEF Read, PipeType
    <3>2. CASE UNCHANGED <<buffer, got>> /\ reader' = [reader EXCEPT ![s] = "over"]
      BY <1>1, <1>3, <3>2 DEF Read, PipeType
    <3> QED BY <1>3, <3>1, <3>2 DEF Read
  <2> QED
    BY <1>1, <1>3, <2>1
       DEF Read, TypeOK, PlaceType, ResultType, ChildType, PipeType, childVars, resultVars
<1>4. ASSUME NEW s \in Streams, Write(s)
      PROVE  TypeOK'
  <2>1. buffer[s] + 1 \in 0 .. PauseAt
    BY <1>1, <1>4 DEF Write, PipeType
  <2> QED
    BY <1>1, <1>4, <2>1
       DEF Write, TypeOK, PlaceType, ResultType, ChildType, PipeType, childVars, resultVars
<1>5. ASSUME NEW s \in Streams, EndOfPipe(s)
      PROVE  TypeOK'
  BY <1>1, <1>5
     DEF EndOfPipe, TypeOK, PlaceType, ResultType, ChildType, PipeType, childVars, resultVars
<1> QED BY <1>2, <1>3, <1>4, <1>5

-----------------------------------------------------------------------------
(* The child.                                                              *)

LEMMA ChildStep ==
  ASSUME Tidy, [Next]_vars
  PROVE  ChildTidy'
<1>1. ChildTidy
  BY DEF Tidy
<1>2. CASE Call \/ Resolve
  <2>1. pc \in {"idle", "resolving"} /\ child' = child
        /\ pc' \in {"resolving", "spawning", "done"}
    BY <1>2, RaiseEnds, OutcomeNames DEF Call, Resolve, childVars
  <2> QED BY <1>1, <2>1 DEF ChildTidy, NoProbeLeft
<1>3. CASE Spawn
  <2>1. /\ pc = "spawning"
        /\ \/ pc' = "reading" /\ child' = "running"
           \/ pc' = "done" /\ child' = child
    BY <1>3, RaiseEnds, OutcomeNames DEF Spawn
  <2> QED BY <1>1, <2>1 DEF ChildTidy, NoProbeLeft
<1>4. CASE AwaitChild
  BY <1>1, <1>4 DEF AwaitChild, childVars, ChildTidy, NoProbeLeft
<1>5. CASE FailRun \/ Misunderstand \/ FinishStreams \/ FinishFrames \/ Reaped
  <2>1. child = "exited" /\ child' = child /\ pc' \in {"done", "spawning"}
    <3>1. child = "exited" /\ child' = child
      BY <1>5 DEF FailRun, Misunderstand, FinishStreams, FinishFrames, Reaped, RunIsOver, childVars
    <3>2. CASE FailRun \/ Misunderstand \/ Reaped
      <4>1. Raise("bad status") \/ Raise("malformed") \/ Raise(reason)
        BY <3>2 DEF FailRun, Misunderstand, Reaped
      <4>2. reason \in Outcomes
        BY DEF Tidy, TypeOK
      <4> QED BY <3>1, <4>1, <4>2, RaiseEnds, OutcomeNames
    <3>3. CASE FinishStreams \/ FinishFrames
      BY <3>1, <3>3 DEF FinishStreams, FinishFrames, Return
    <3> QED BY <1>5, <3>2, <3>3
  <2> QED BY <1>1, <2>1 DEF ChildTidy, NoProbeLeft
<1>6. CASE StopReading \/ Timeout \/ Cancel
  <2>1. CASE /\ pc \in {"resolving", "spawning", "reaping"}
             /\ child' = child
             /\ pc' = "done"
             /\ pc = "resolving" \/ outcome' = "cancelled"
    BY <1>1, <2>1 DEF ChildTidy, NoProbeLeft
  <2>2. CASE /\ pc \in {"reading", "waiting"}
             /\ \/ child = "running" /\ child' = "killed" /\ pc' = "reaping"
                \/ child # "running" /\ child' = child /\ pc' = "done"
    BY <1>1, <2>2 DEF ChildTidy, NoProbeLeft
  <2> QED
    BY <1>6, <2>1, <2>2, RaiseEnds, TerminateKills, OutcomeNames
       DEF StopReading, Timeout, Cancel
<1>7. CASE Exit
  BY <1>1, <1>7 DEF Exit, resultVars, ChildTidy, NoProbeLeft
<1>8. CASE \/ TimePasses \/ UNCHANGED vars
           \/ \E s \in Streams : Read(s) \/ Write(s) \/ EndOfPipe(s)
  <2>1. UNCHANGED <<pc, child, outcome>>
    BY <1>8 DEF TimePasses, Read, Write, EndOfPipe, vars, childVars, resultVars
  <2> QED BY <1>1, <2>1 DEF ChildTidy, NoProbeLeft
<1> QED
  BY <1>2, <1>3, <1>4, <1>5, <1>6, <1>7, <1>8 DEF Next, Advance

-----------------------------------------------------------------------------
(* The output.                                                             *)

\* Two readers have read at most one chunk each more than the total.
LEMMA LimitOfRead ==
  ASSUME Tidy, NEW s \in Streams, Read(s)
  PROVE  LimitTidy'
<1> USE ProbeAssumption
<1>1. LimitTidy /\ SumTidy /\ pc = "reading" /\ pc' = pc /\ reader[s] = "reading"
  BY DEF Tidy, LimitTidy, Read
<1>2. /\ got \in [Streams -> Int] /\ got["stdout"] \in Int /\ got["stderr"] \in Int
      /\ reader \in [Streams -> {"none", "reading", "failed", "over"}]
      /\ PerStream \in Int /\ Total \in Int
  BY DEF Tidy, TypeOK, Streams
<1>3. CASE /\ got' = [got EXCEPT ![s] = @ + 1]
           /\ reader' = [reader EXCEPT ![s] = IF TooLarge(s, got') THEN "failed" ELSE @]
  <2>1. Sum' = Sum + 1
    BY <1>2, <1>3 DEF Sum, Streams
  <2>2. \A r \in Streams \ {s} : reader'[r] = reader[r] /\ got'[r] = got[r]
    BY <1>2, <1>3
  <2>3. CASE TooLarge(s, got')
    <3>1. reader'[s] = "failed"
      BY <1>2, <1>3, <2>3
    <3>2. Sum <= Total + 1 /\ ((\A r \in Streams \ {s} : ~Failed(r)) => Sum <= Total)
      BY <1>1 DEF SumTidy, Failed, Streams
    <3>3. (\A r \in Streams : ~Failed(r)') \/ (\A r \in Streams \ {s} : ~Failed(r)') =>
            Sum <= Total
      BY <2>2, <3>2 DEF Failed
    <3>4. SumTidy'
      BY <1>2, <2>1, <3>1, <3>3 DEF SumTidy, Failed, Streams, Sum
    <3> QED
      BY <1>1, <1>2, <2>1, <2>2, <3>1, <3>2, <3>4 DEF LimitTidy, Sum
  <2>4. CASE ~TooLarge(s, got')
    <3>1. reader' = reader
      BY <1>2, <1>3, <2>4
    <3>2. got'[s] <= PerStream /\ Sum' <= Total
      BY <1>2, <1>3, <2>4 DEF TooLarge, Sum, Streams
    <3>3. \A r \in Streams : reader'[r] \in {"reading", "over"} => got'[r] <= PerStream
      BY <1>1, <2>2, <3>1, <3>2 DEF LimitTidy
    <3>4. Sum' \in Int /\ Sum' <= Total + 1 /\ Sum' <= Total + 2
      BY <1>2, <2>1, <3>2 DEF Sum
    <3> QED BY <1>1, <3>2, <3>3, <3>4 DEF LimitTidy, SumTidy
  <2> QED BY <2>3, <2>4
<1>4. CASE UNCHANGED <<buffer, got>> /\ reader' = [reader EXCEPT ![s] = "over"]
  <2>1. \A r \in Streams : reader'[r] = IF r = s THEN "over" ELSE reader[r]
    BY <1>2, <1>4
  <2>2. \A r \in Streams : Failed(r)' <=> Failed(r)
    BY <1>1, <2>1 DEF Failed
  <2>3. SumTidy' /\ Sum' = Sum
    BY <1>1, <1>4, <2>2 DEF SumTidy, Sum, Streams
  <2> QED BY <1>1, <1>4, <2>1, <2>3 DEF LimitTidy
<1> QED BY <1>3, <1>4 DEF Read

LEMMA LimitStep ==
  ASSUME Tidy, [Next]_vars
  PROVE  LimitTidy'
<1> USE ProbeAssumption
<1>1. LimitTidy /\ TypeOK
  BY DEF Tidy
<1>2. CASE \E s \in Streams : Read(s)
  BY <1>2, LimitOfRead
<1>3. CASE Spawn
  <2>1. CASE Raise("unstartable") /\ UNCHANGED <<child, pipeVars>>
    BY <1>1, <2>1, RaiseEnds, OutcomeNames DEF pipeVars, LimitTidy, Sum
  <2>2. CASE pc' = "reading" /\ got' = [s \in Streams |-> 0]
    BY <2>2 DEF LimitTidy, SumTidy, Sum, Streams
  <2> QED BY <1>3, <2>1, <2>2 DEF Spawn
<1>4. CASE AwaitChild
  <2>1. Sum <= Total
    BY <1>1, <1>4 DEF AwaitChild, LimitTidy, SumTidy, Failed, Streams
  <2> QED BY <1>1, <1>4, <2>1 DEF AwaitChild, pipeVars, LimitTidy, Sum
<1>5. CASE \/ Call \/ Resolve \/ FailRun \/ Misunderstand \/ FinishStreams \/ FinishFrames
           \/ Reaped
  <2>1. UNCHANGED <<got, reader>>
    BY <1>5 DEF Call, Resolve, FailRun, Misunderstand, FinishStreams, FinishFrames, Reaped,
                pipeVars
  <2>2. pc' \notin {"reading", "waiting"}
    <3>1. reason \in Outcomes
      BY <1>1 DEF TypeOK
    <3> QED
      BY <1>5, <3>1, RaiseEnds, OutcomeNames
         DEF Call, Resolve, FailRun, Misunderstand, FinishStreams, FinishFrames, Reaped, Return
  <2> QED BY <1>1, <2>1, <2>2 DEF LimitTidy, Sum
<1>6. CASE StopReading \/ Timeout \/ Cancel
  <2>1. pc' \notin {"reading", "waiting"} /\ reader' \in {reader, [s \in Streams |-> "none"]}
    BY <1>6, RaiseEnds, TerminateKills, OutcomeNames DEF StopReading, Timeout, Cancel
  <2>2. got' = got
    BY <1>6 DEF StopReading, Timeout, Cancel
  <2> QED BY <1>1, <2>1, <2>2 DEF LimitTidy, Sum
<1>7. CASE \/ Exit \/ TimePasses \/ UNCHANGED vars
           \/ \E s \in Streams : Write(s) \/ EndOfPipe(s)
  <2>1. UNCHANGED <<pc, got, reader>>
    BY <1>7 DEF Exit, TimePasses, Write, EndOfPipe, vars, pipeVars
  <2> QED BY <1>1, <2>1 DEF LimitTidy, SumTidy, Sum, Failed
<1> QED
  BY <1>2, <1>3, <1>4, <1>5, <1>6, <1>7 DEF Next, Advance

-----------------------------------------------------------------------------
(* Theorems.                                                               *)

\* Where probe_media() is suspended says what has become of its ffprobe and how much of
\* its output has been kept.
THEOREM ProbeTidy == Spec => []Tidy
<1>1. Init => Tidy
  <2> SUFFICES ASSUME Init
               PROVE  Tidy
    OBVIOUS
  <2> USE ProbeAssumption
  <2>1. PlaceType /\ ResultType /\ ChildType
    <3>1. pc = "idle" /\ run = 1 /\ cancels = 0 /\ reason = "none" /\ outcome = "none"
      BY Zenon DEF Init
    <3>2. pc \in Places /\ run \in {1, 2} /\ ResultType
      BY <3>1, OutcomeNames, PlaceNames DEF ResultType
    <3>3. MaxCancels \in Nat
      BY Zenon DEF ProbeAssumption
    <3>4. cancels \in 0 .. MaxCancels
      BY <3>1, <3>3
    <3>5. late \in BOOLEAN /\ ChildType
      BY Zenon DEF Init, ChildType
    <3> QED BY <3>2, <3>4, <3>5 DEF PlaceType
  <2>2. PipeType
    <3>1. 0 \in 0 .. PauseAt /\ 0 \in 0 .. PerStream + 1
      OBVIOUS
    <3> QED BY <3>1 DEF Init, PipeType
  <2>3. ChildTidy
    BY DEF Init, ChildTidy, NoProbeLeft
  <2>4. LimitTidy
    BY DEF Init, LimitTidy, Sum, Streams
  <2> QED BY <2>1, <2>2, <2>3, <2>4, TypeParts DEF Tidy
<1>2. Tidy /\ [Next]_vars => Tidy'
  <2> SUFFICES ASSUME Tidy, [Next]_vars
               PROVE  Tidy'
    OBVIOUS
  <2>1. TypeOK'
    <3>1. CASE UNCHANGED vars
      BY <3>1 DEF Tidy, TypeOK, vars, childVars, pipeVars, resultVars
    <3>2. CASE Next
      BY <3>2, TypeOfProbe, TypeOfPipes DEF Next, Advance
    <3> QED BY <3>1, <3>2
  <2> QED BY <2>1, ChildStep, LimitStep DEF Tidy
<1> QED BY <1>1, <1>2, PTL DEF Spec

\* _terminate_and_reap(), the deadline, the limit and a cancellation leave no ffprobe
\* behind, whichever of them comes first.
THEOREM NoProbeIsLeft == Spec => []NoProbeLeft
BY ProbeTidy, PTL DEF Tidy, ChildTidy

\* _read_bounded() and _read_process() keep the output of both pipes within their limits,
\* in whatever order the two readers take their chunks.
THEOREM OutputIsBounded == Spec => []WithinLimits
<1>1. Tidy => WithinLimits
  BY DEF Tidy, LimitTidy, WithinLimits, Sum
<1> QED BY <1>1, ProbeTidy, PTL

=============================================================================
