----------------------- MODULE OutputSupervisorProofs -----------------------
(***************************************************************************)
(* Theorems about OutputSupervisor for any set of callers and any bounds,  *)
(* whether the callers are cancelled or not.                               *)
(*                                                                         *)
(* TypeCorrect holds of every behaviour.  The others are about a           *)
(* supervisor that is opened once, which is how runtime.py uses it:        *)
(* SupervisorTwoChildren.cfg shows that they do not hold of one that is    *)
(* opened again.  They rest on one inductive invariant, Tidy: where the    *)
(* runner is suspended determines the state, a live child is watched or    *)
(* its locks are held, and whoever closes a child closes the last one.     *)
(***************************************************************************)
EXTENDS OutputSupervisor, TLAPS

-----------------------------------------------------------------------------
(* The inductive invariant of a supervisor that is opened once.            *)

\* Where a caller is inside AsyncProcess.stop().
Closers == {"ownerClosing", "stopClosing", "stopAborting"}

\* Who is inside AsyncProcess.stop() of a process holds its locks or waits for them.
LocksTidy ==
  /\ \A c \in Callers : pc[c] \in Closers <=> closing[c] # 0
  /\ \A p \in Processes :
       /\ holder[p] \in Callers => closing[holder[p]] = p
       /\ holder[p] = RunnerTask => RunnerClosing /\ p = process
  /\ RunnerClosing => process \in Processes /\ holder[process] # NoCaller

\* A child lives only where the runner watches it or somebody holds its locks.
ChildTidy ==
  /\ \A p \in Processes : Alive(p) =>
       /\ p = process
       /\ \/ runner \in {"spawning", "serving"}
          \/ RunnerClosing /\ holder[p] # NoCaller
          \/ runner = "done" /\ outcome[session] = "cancelled" /\ holder[p] # NoCaller
  /\ \A p \in Processes : phase[p] = "spawning" <=> runner = "spawning" /\ p = process
  /\ runner \in {"spawning", "serving"} => process \in Processes
  /\ runner \in {"none", "ready"} => process = 0

\* Where the runner is suspended determines the state.
PlaceTidy ==
  /\ runner \in {"none", "ready"} => state = "STOPPED"
  /\ runner = "spawning" => state = "CONNECTING"
  /\ runner = "serving"  => state = "LIVE"
  /\ runner = "backoff"  => state = "RECONNECTING"
  /\ runner = "closing"  => stopRequested
  /\ runner = "cancelClosing" => cancelling
  /\ verdict # "faulted" /\ NoIllegalTransition

\* The stop() that holds the lifecycle lock is the only one.  A close is of the last child:
\* a stop was requested or the runner is over, so that nobody spawns another one.
StopTidy ==
  /\ lock # NoCaller => stopRequested
  /\ \A c \in Callers : pc[c] \in {"stopClosing", "stopAborting", "stopAwait"} => lock = c
  /\ \A c \in Callers : pc[c] = "stopAwait" => runner # "none"
  /\ \A c \in Callers : closing[c] # 0 =>
       closing[c] = process /\ (stopRequested \/ runner = "done")

\* A start() waits for the only session, whose end is known once its runner is over.
JoinTidy ==
  /\ runner = "none" => session = 0
  /\ runner # "none" => session = 1 /\ session \in Sessions
  /\ \A s \in Sessions : outcome[s] # "pending" <=> s = session /\ runner = "done"
  /\ \A c \in Callers : pc[c] \in {"waiting", "gathering", "ownerClosing"} => joined[c] = session
  /\ \A c \in Callers : pc[c] \in {"waiting", "gathering"} => runner # "none"
  /\ \A c \in Callers : pc[c] = "ownerClosing" => runner = "done"

Tidy == LocksTidy /\ ChildTidy /\ PlaceTidy /\ StopTidy /\ JoinTidy

-----------------------------------------------------------------------------
(* Type correctness. *)

\* The members of the enumerated sets, cited instead of the sets.
LEMMA Names ==
  /\ {"STOPPED", "CONNECTING", "LIVE", "RECONNECTING", "AUTH_FAILED", "ERROR"}
       \subseteq States
  /\ {"none", "ready", "spawning", "serving", "backoff", "closing", "cancelClosing",
      "done"} \subseteq Places
  /\ {"returned", "failed", "faulted", "cancelled"} \subseteq Results
  /\ {"idle", "waiting", "gathering", "ownerClosing", "stopClosing", "stopAborting",
      "stopAwait"} \subseteq Awaits
  /\ {"none", "ok", "failed", "cancelled"} \subseteq Replies
  /\ {"unborn", "spawning", "running", "exited", "rejected"} \subseteq Phases
  BY DEF States, Places, Results, Awaits, Replies, Phases

\* An answered call leaves the variables of the calls typed.
LEMMA AnswerType ==
  ASSUME SupervisorAssumption, CallTypeOK, lock' \in Callers \cup {NoCaller}, NEW c \in Callers,
         NEW r \in Replies, Answer(c, r)
  PROVE  CallTypeOK'
  BY Names DEF CallTypeOK, Answer, SupervisorAssumption

LEMMA TakeType ==
  ASSUME HolderTypeOK, NEW t \in Callers \cup {RunnerTask}, TakeLocks(t)
  PROVE  HolderTypeOK'
  BY DEF HolderTypeOK, TakeLocks

LEMMA ReleaseType ==
  ASSUME HolderTypeOK, NEW t, NEW p, ReleaseLocks(t, p)
  PROVE  HolderTypeOK'
  BY DEF HolderTypeOK, ReleaseLocks

LEMMA DoneType ==
  ASSUME RunnerTypeOK, verdict' \in Results, NEW r \in Results, RunnerDone(r)
  PROVE  RunnerTypeOK'
  BY Names DEF RunnerTypeOK, RunnerDone

LEMMA FinallyType ==
  ASSUME RunnerTypeOK, HolderTypeOK, NEW s \in States, NEW childAlive,
         NEW r \in Results, RunnerFinally(s, r, childAlive)
  PROVE  state' \in States /\ RunnerTypeOK' /\ HolderTypeOK'
  <1>1. CASE stopRequested /\ (childAlive \/ Contended)
    <2>1. HolderTypeOK'
      BY <1>1, TakeType DEF RunnerFinally
    <2>2. RunnerTypeOK'
      BY <1>1, Names DEF RunnerFinally, RunnerTypeOK
    <2> QED BY <1>1, <2>1, <2>2 DEF RunnerFinally
  <1>2. CASE ~(stopRequested /\ (childAlive \/ Contended))
    <2>1. HolderTypeOK'
      BY <1>2 DEF RunnerFinally, HolderTypeOK
    <2>2. RunnerTypeOK'
      BY <1>2, DoneType DEF RunnerFinally
    <2> QED BY <1>2, <2>1, <2>2, Names DEF RunnerFinally
  <1> QED BY <1>1, <1>2

LEMMA LoopHeadType ==
  ASSUME SupervisorAssumption, TypeOK, LoopHead,
         UNCHANGED <<stopRequested, live, reconnects, session, lock, callVars>>
  PROVE  TypeOK'
  <1>1. CallTypeOK'
    BY DEF TypeOK, CallTypeOK, callVars
  <1>2. state' \in States /\ RunnerTypeOK' /\ HolderTypeOK'
    <2>1. CASE stopRequested
      BY <2>1, FinallyType, Names DEF LoopHead, TypeOK
    <2>2. CASE ~stopRequested /\ ~Legal("CONNECTING")
      BY <2>2, FinallyType, Names DEF LoopHead, Fault, TypeOK, OutputTypeOK
    <2>3. CASE ~stopRequested /\ Legal("CONNECTING")
      BY <2>3, Names DEF LoopHead, TypeOK, RunnerTypeOK, HolderTypeOK
    <2> QED BY <2>1, <2>2, <2>3
  <1>3. process' \in 0 .. MaxSpawns /\ phase' \in [Processes -> Phases]
    <2>1. CASE UNCHANGED childVars
      BY <2>1 DEF TypeOK, OutputTypeOK, childVars
    <2>2. CASE ~stopRequested /\ Legal("CONNECTING")
      BY <2>2, Names DEF LoopHead, TypeOK, OutputTypeOK, SupervisorAssumption
    <2> QED BY <2>1, <2>2 DEF LoopHead
  <1> QED BY <1>1, <1>2, <1>3 DEF TypeOK, OutputTypeOK

\* The tail of stop() leaves the state and the calls typed.
LEMMA StopTailType ==
  ASSUME SupervisorAssumption, TypeOK, NEW c \in Callers, StopTail(c),
         stopRequested' \in BOOLEAN,
         UNCHANGED <<live, reconnects, session, childVars>>
  PROVE  OutputTypeOK' /\ CallTypeOK'
  <1>1. OutputTypeOK'
    BY Names DEF StopTail, TypeOK, OutputTypeOK, childVars
  <1>2. CASE RunnerActive
    BY <1>1, <1>2, Names DEF StopTail, TypeOK, CallTypeOK, SupervisorAssumption
  <1>3. CASE ~RunnerActive
    BY <1>1, <1>3, AnswerType, Names DEF StopTail, TypeOK
  <1> QED BY <1>2, <1>3

LEMMA CallerStepType ==
  ASSUME SupervisorAssumption, TypeOK, NEW c \in Callers, CallerStep(c)
  PROVE  TypeOK'
  <1> USE DEF TypeOK
  <1>1. CASE StartNew(c)
    <2>1. OutputTypeOK'
      <3>1. session' \in 0 .. MaxSessions
        BY <1>1 DEF StartNew, OutputTypeOK, SupervisorAssumption
      <3>2. stopRequested' \in BOOLEAN /\ live' \in BOOLEAN /\ reconnects' \in Nat
        BY <1>1 DEF StartNew, FreshSession
      <3>3. UNCHANGED <<state, process, phase>>
        BY <1>1 DEF StartNew, childVars
      <3> QED BY <3>1, <3>2, <3>3 DEF OutputTypeOK
    <2>2. RunnerTypeOK' /\ HolderTypeOK'
      BY <1>1, Names DEF StartNew, RunnerTypeOK, HolderTypeOK
    <2>3. CallTypeOK'
      BY <1>1, Names DEF StartNew, CallTypeOK, OutputTypeOK
    <2> QED BY <2>1, <2>2, <2>3
  <1>2. CASE StartJoin(c)
    <2>1. OutputTypeOK' /\ RunnerTypeOK' /\ HolderTypeOK'
      BY <1>2 DEF StartJoin, OutputTypeOK, RunnerTypeOK, HolderTypeOK, childVars, runnerVars
    <2>2. CallTypeOK'
      BY <1>2, Names DEF StartJoin, CallTypeOK, OutputTypeOK
    <2> QED BY <2>1, <2>2
  <1>3. CASE StartLive(c)
    <2>1. OutputTypeOK' /\ RunnerTypeOK' /\ HolderTypeOK'
      BY <1>3 DEF StartLive, OutputTypeOK, RunnerTypeOK, HolderTypeOK, childVars, runnerVars
    <2>2. CallTypeOK'
      BY <1>3, AnswerType, Names DEF StartLive, CallTypeOK
    <2> QED BY <2>1, <2>2
  <1>4. CASE StartEnded(c)
    <2>1. OutputTypeOK' /\ RunnerTypeOK' /\ HolderTypeOK'
      BY <1>4 DEF StartEnded, OutputTypeOK, RunnerTypeOK, HolderTypeOK, childVars, runnerVars
    <2>2. lock' \in Callers \cup {NoCaller}
      BY <1>4 DEF StartEnded, CallTypeOK
    <2>3. CASE Answer(c, "failed") \/ Answer(c, "cancelled")
      BY <2>1, <2>2, <2>3, AnswerType, Names
    <2>4. CASE pc' = [pc EXCEPT ![c] = "gathering"] /\ UNCHANGED <<joined, owns, closing, reply>>
      BY <2>1, <2>2, <2>4, Names DEF CallTypeOK
    <2> QED BY <1>4, <2>3, <2>4 DEF StartEnded
  <1>5. CASE StartCancel(c)
    <2>1. OutputTypeOK' /\ HolderTypeOK'
      BY <1>5 DEF StartCancel, OutputTypeOK, HolderTypeOK, childVars
    <2>2. RunnerTypeOK'
      BY <1>5 DEF StartCancel, RunnerTypeOK
    <2>3. CASE owns[c]
      BY <1>5, <2>1, <2>2, <2>3, Names DEF StartCancel, CallTypeOK
    <2>4. CASE ~owns[c]
      BY <1>5, <2>1, <2>2, <2>4, AnswerType, Names DEF StartCancel, CallTypeOK
    <2> QED BY <2>3, <2>4
  <1>6. CASE OwnerGathered(c)
    <2>1. RunnerTypeOK'
      BY <1>6 DEF OwnerGathered, RunnerTypeOK, runnerVars
    <2>2. CASE CloseSuspends
      <3>1. OutputTypeOK'
        BY <1>6, <2>2 DEF OwnerGathered, OutputTypeOK, childVars
      <3>2. HolderTypeOK'
        BY <1>6, <2>2, TakeType DEF OwnerGathered
      <3>3. CallTypeOK'
        BY <1>6, <2>2, Names DEF OwnerGathered, CallTypeOK, OutputTypeOK
      <3> QED BY <2>1, <3>1, <3>2, <3>3
    <2>3. CASE ~CloseSuspends
      <3>1. OutputTypeOK' /\ HolderTypeOK'
        BY <1>6, <2>3, Names DEF OwnerGathered, OutputTypeOK, HolderTypeOK, childVars
      <3>2. CallTypeOK'
        BY <1>6, <2>3, AnswerType, Names DEF OwnerGathered, CallTypeOK
      <3> QED BY <2>1, <3>1, <3>2
    <2> QED BY <2>2, <2>3
  <1>7. CASE OwnerClosed(c)
    <2>1. OutputTypeOK' /\ RunnerTypeOK'
      BY <1>7, Names DEF OwnerClosed, OutputTypeOK, RunnerTypeOK, childVars, runnerVars
    <2>2. HolderTypeOK'
      BY <1>7, ReleaseType DEF OwnerClosed
    <2>3. CallTypeOK'
      BY <1>7, AnswerType, Names DEF OwnerClosed, CallTypeOK
    <2> QED BY <2>1, <2>2, <2>3
  <1>8. CASE StopEnter(c)
    <2>1. RunnerTypeOK'
      BY <1>8 DEF StopEnter, RunnerTypeOK, runnerVars
    <2>2. CASE CloseSuspends
      <3>1. OutputTypeOK'
        BY <1>8, <2>2 DEF StopEnter, OutputTypeOK, childVars
      <3>2. HolderTypeOK'
        BY <1>8, <2>2, TakeType DEF StopEnter
      <3>3. CallTypeOK'
        BY <1>8, <2>2, Names DEF StopEnter, CallTypeOK, OutputTypeOK
      <3> QED BY <2>1, <3>1, <3>2, <3>3
    <2>3. CASE ~CloseSuspends
      <3>1. StopTail(c) /\ HolderTypeOK'
        BY <1>8, <2>3 DEF StopEnter, HolderTypeOK
      <3>2. OutputTypeOK' /\ CallTypeOK'
        BY <1>8, <2>3, <3>1, StopTailType DEF StopEnter
      <3> QED BY <2>1, <3>1, <3>2
    <2> QED BY <2>2, <2>3
  <1>9. CASE StopClosed(c)
    <2>1. RunnerTypeOK'
      BY <1>9 DEF StopClosed, RunnerTypeOK, runnerVars
    <2>2. HolderTypeOK'
      BY <1>9, ReleaseType DEF StopClosed
    <2>3. OutputTypeOK' /\ CallTypeOK'
      BY <1>9, StopTailType DEF StopClosed, OutputTypeOK
    <2> QED BY <2>1, <2>2, <2>3
  <1>10. CASE StopAwaited(c)
    <2>1. OutputTypeOK' /\ RunnerTypeOK' /\ HolderTypeOK'
      BY <1>10, Names DEF StopAwaited, OutputTypeOK, RunnerTypeOK, HolderTypeOK, childVars,
                          runnerVars
    <2>2. lock' = NoCaller
      BY <1>10 DEF StopAwaited
    <2>3. Answer(c, "ok") \/ Answer(c, "failed") \/ Answer(c, "cancelled")
      BY <1>10 DEF StopAwaited
    <2> QED BY <2>1, <2>2, <2>3, AnswerType, Names
  <1>11. CASE StopCancel(c)
    <2>1. OutputTypeOK'
      BY <1>11 DEF StopCancel, OutputTypeOK, childVars
    <2>2. RunnerTypeOK'
      BY <1>11 DEF StopCancel, RunnerTypeOK
    <2>3. CASE lock' = NoCaller /\ ReleaseLocks(c, closing[c]) /\ Answer(c, "cancelled")
      BY <2>1, <2>2, <2>3, ReleaseType, AnswerType, Names
    <2>4. CASE pc' = [pc EXCEPT ![c] = "stopAborting"]
               /\ UNCHANGED <<lock, holder, joined, owns, closing, reply>>
      BY <2>1, <2>2, <2>4, Names DEF CallTypeOK, HolderTypeOK
    <2>5. CASE UNCHANGED <<lock, holder, callVars>>
      BY <2>1, <2>2, <2>5 DEF CallTypeOK, HolderTypeOK, callVars
    <2> QED BY <1>11, <2>3, <2>4, <2>5 DEF StopCancel
  <1>12. CASE StopAborted(c)
    <2>1. OutputTypeOK' /\ RunnerTypeOK'
      BY <1>12 DEF StopAborted, OutputTypeOK, RunnerTypeOK, childVars, runnerVars
    <2>2. HolderTypeOK'
      BY <1>12, ReleaseType DEF StopAborted
    <2>3. CallTypeOK'
      BY <1>12, AnswerType, Names DEF StopAborted
    <2> QED BY <2>1, <2>2, <2>3
  <1> QED
    BY <1>1, <1>2, <1>3, <1>4, <1>5, <1>6, <1>7, <1>8, <1>9, <1>10, <1>11, <1>12
    DEF CallerStep

LEMMA RunnerStepType ==
  ASSUME SupervisorAssumption, TypeOK, RunnerStep
  PROVE  TypeOK'
  <1> USE DEF TypeOK
  <1>1. CASE RunnerBegins
    BY <1>1, LoopHeadType DEF RunnerBegins
  <1>2. CASE SpawnOk
    <2>1. CallTypeOK'
      BY <1>2 DEF SpawnOk, CallTypeOK, callVars
    <2>2. phase' \in [Processes -> Phases]
      BY <1>2, Names DEF SpawnOk, OutputTypeOK
    <2>3. state' \in States /\ RunnerTypeOK' /\ HolderTypeOK'
      <3>1. CASE RunnerFinally("STOPPED", "returned", TRUE)
        BY <3>1, FinallyType, Names
      <3>2. CASE Fault(TRUE)
        BY <3>2, FinallyType, Names DEF Fault, OutputTypeOK
      <3>3. CASE state' = "LIVE" /\ runner' = "serving"
                 /\ UNCHANGED <<verdict, outcome, cancelling, holder>>
        BY <3>3, Names DEF RunnerTypeOK, HolderTypeOK
      <3> QED BY <1>2, <3>1, <3>2, <3>3 DEF SpawnOk
    <2>4. live' \in BOOLEAN
      BY <1>2 DEF SpawnOk, OutputTypeOK
    <2> QED BY <1>2, <2>1, <2>2, <2>3, <2>4 DEF SpawnOk, OutputTypeOK
  <1>3. CASE SpawnFail
    <2>1. CallTypeOK'
      BY <1>3 DEF SpawnFail, CallTypeOK, callVars
    <2>2. phase' \in [Processes -> Phases]
      BY <1>3, Names DEF SpawnFail, OutputTypeOK
    <2>3. state' \in States /\ RunnerTypeOK' /\ HolderTypeOK'
      <3>1. CASE RunnerFinally("ERROR", "failed", FALSE)
        BY <3>1, FinallyType, Names
      <3>2. CASE Fault(FALSE)
        BY <3>2, FinallyType, Names DEF Fault, OutputTypeOK
      <3> QED BY <1>3, <3>1, <3>2 DEF SpawnFail
    <2> QED BY <1>3, <2>1, <2>2, <2>3 DEF SpawnFail, OutputTypeOK
  <1>4. CASE RunnerServed
    <2>1. CallTypeOK' /\ reconnects' \in Nat
      <3>1. CallTypeOK'
        BY <1>4 DEF RunnerServed, CallTypeOK, callVars
      <3>2. reconnects' = reconnects \/ reconnects' = reconnects + 1
                                     \/ reconnects' = reconnects + 0
        BY <1>4 DEF RunnerServed
      <3> QED BY <3>1, <3>2 DEF OutputTypeOK
    <2>2. state' \in States /\ RunnerTypeOK' /\ HolderTypeOK'
      <3>1. CASE RunnerFinally("STOPPED", "returned", FALSE)
                 \/ RunnerFinally("AUTH_FAILED", "returned", FALSE)
        BY <3>1, FinallyType, Names
      <3>2. CASE Fault(FALSE)
        BY <3>2, FinallyType, Names DEF Fault, OutputTypeOK
      <3>3. CASE state' = "RECONNECTING" /\ runner' = "backoff"
                 /\ UNCHANGED <<verdict, outcome, cancelling, holder>>
        BY <3>3, Names DEF RunnerTypeOK, HolderTypeOK
      <3> QED BY <1>4, <3>1, <3>2, <3>3 DEF RunnerServed
    <2> QED BY <1>4, <2>1, <2>2 DEF RunnerServed, OutputTypeOK, childVars
  <1>5. CASE RunnerRetries
    BY <1>5, LoopHeadType DEF RunnerRetries
  <1>6. CASE RunnerClosed
    <2>1. CallTypeOK' /\ OutputTypeOK'
      BY <1>6, Names DEF RunnerClosed, CallTypeOK, OutputTypeOK, childVars, callVars
    <2>2. HolderTypeOK'
      BY <1>6, ReleaseType DEF RunnerClosed
    <2>3. RunnerTypeOK'
      BY <1>6, DoneType DEF RunnerClosed, RunnerTypeOK
    <2> QED BY <2>1, <2>2, <2>3
  <1>7. CASE RunnerCancelled
    <2>1. CallTypeOK'
      BY <1>7 DEF RunnerCancelled, CallTypeOK, callVars
    <2>2. phase' \in [Processes -> Phases]
      BY <1>7, Names DEF RunnerCancelled, OutputTypeOK
    <2>3. state' \in States
      BY <1>7, Names DEF RunnerCancelled, OutputTypeOK
    <2>4. RunnerTypeOK'
      <3>1. verdict' \in Results
        BY <1>7, Names DEF RunnerCancelled, RunnerTypeOK
      <3>2. CASE RunnerDone("cancelled")
        BY <3>1, <3>2, DoneType, Names
      <3>3. CASE runner' = "cancelClosing" /\ UNCHANGED <<outcome, cancelling>>
        BY <3>1, <3>3, Names DEF RunnerTypeOK
      <3> QED BY <1>7, <3>2, <3>3 DEF RunnerCancelled
    <2>5. HolderTypeOK'
      <3>1. CASE TakeLocks(RunnerTask)
        BY <3>1, TakeType
      <3>2. CASE ReleaseLocks(RunnerTask, process)
        BY <3>2, ReleaseType
      <3>3. CASE UNCHANGED holder
        BY <3>3 DEF HolderTypeOK
      <3> QED BY <1>7, <3>1, <3>2, <3>3 DEF RunnerCancelled
    <2> QED BY <1>7, <2>1, <2>2, <2>3, <2>4, <2>5 DEF RunnerCancelled, OutputTypeOK
  <1> QED BY <1>1, <1>2, <1>3, <1>4, <1>5, <1>6, <1>7 DEF RunnerStep

LEMMA ChildStepType ==
  ASSUME TypeOK, NEW p \in Processes, ChildExits(p) \/ ChildReaped(p)
  PROVE  TypeOK'
  <1>1. phase' \in [Processes -> Phases]
    BY Names DEF TypeOK, OutputTypeOK, ChildExits, ChildReaped
  <1>2. UNCHANGED <<state, stopRequested, live, reconnects, session, process>>
    BY DEF ChildExits, ChildReaped
  <1>3. UNCHANGED <<runnerVars, lock, holder, callVars>>
    BY DEF ChildExits, ChildReaped
  <1> QED
    BY <1>1, <1>2, <1>3
    DEF TypeOK, OutputTypeOK, RunnerTypeOK, CallTypeOK, HolderTypeOK, runnerVars, callVars

\* Every variable keeps its type, cancellation included.
THEOREM TypeCorrect == Spec => []TypeOK
  <1> USE SupervisorAssumption
  <1>1. Init => TypeOK
    <2> SUFFICES ASSUME Init PROVE TypeOK
      OBVIOUS
    <2>1. OutputTypeOK
      <3>1. stopRequested \in BOOLEAN /\ live \in BOOLEAN
        BY Zenon DEF Init
      <3>2. state \in States /\ phase \in [Processes -> Phases]
        BY Names DEF Init
      <3>3. reconnects \in Nat /\ session \in 0 .. MaxSessions /\ process \in 0 .. MaxSpawns
        BY DEF Init, SupervisorAssumption
      <3> QED BY <3>1, <3>2, <3>3 DEF OutputTypeOK
    <2>2. RunnerTypeOK /\ HolderTypeOK
      BY Names DEF Init, RunnerTypeOK, HolderTypeOK
    <2>3. CallTypeOK
      <3>1. owns \in [Callers -> BOOLEAN]
        BY Zenon DEF Init
      <3>2. 0 \in 0 .. MaxSessions /\ 0 \in 0 .. MaxSpawns
        BY DEF SupervisorAssumption
      <3>3. joined \in [Callers -> 0 .. MaxSessions] /\ closing \in [Callers -> 0 .. MaxSpawns]
        BY <3>2 DEF Init
      <3>4. lock \in Callers \cup {NoCaller} /\ pc \in [Callers -> Awaits]
            /\ reply \in [Callers -> Replies]
        BY Names DEF Init
      <3> QED BY <3>1, <3>3, <3>4 DEF CallTypeOK
    <2> QED BY <2>1, <2>2, <2>3 DEF TypeOK
  <1>2. TypeOK /\ [Next]_vars => TypeOK'
    <2> SUFFICES ASSUME TypeOK, [Next]_vars PROVE TypeOK'
      OBVIOUS
    <2>1. ASSUME NEW c \in Callers, CallerStep(c) PROVE TypeOK'
      BY <2>1, CallerStepType
    <2>2. CASE RunnerStep
      BY <2>2, RunnerStepType
    <2>3. ASSUME NEW p \in Processes, ChildExits(p) \/ ChildReaped(p) PROVE TypeOK'
      BY <2>3, ChildStepType
    <2>4. CASE UNCHANGED vars
      BY <2>4 DEF TypeOK, OutputTypeOK, RunnerTypeOK, CallTypeOK, HolderTypeOK,
                  vars, childVars, runnerVars, callVars
    <2> QED BY <2>1, <2>2, <2>3, <2>4 DEF Next
  <1> QED BY <1>1, <1>2, PTL DEF Spec

-----------------------------------------------------------------------------
(* Locks and children, step by step.                                       *)

LEMMA Answered ==
  ASSUME TypeOK, NEW c \in Callers, NEW r, Answer(c, r)
  PROVE  /\ pc'[c] = "idle" /\ closing'[c] = 0
         /\ \A d \in Callers \ {c} :
              pc'[d] = pc[d] /\ closing'[d] = closing[d] /\ joined'[d] = joined[d]
BY DEF Answer, TypeOK, CallTypeOK

\* A task that enters AsyncProcess.stop() takes the locks of the process if they are free.
LEMMA Taken ==
  ASSUME TypeOK, NEW t \in Callers \cup {RunnerTask}, process \in Processes, TakeLocks(t)
  PROVE  /\ holder'[process] # NoCaller
         /\ \A p \in Processes :
              holder'[p] = holder[p] \/ (p = process /\ holder[p] = NoCaller /\ holder'[p] = t)
BY SupervisorAssumption DEF TakeLocks, TypeOK, HolderTypeOK, SupervisorAssumption

\* A task that leaves it passes them on to one that waits there.
LEMMA Released ==
  ASSUME TypeOK, NEW t, NEW p \in Processes, ReleaseLocks(t, p), NEW q \in Processes
  PROVE  \/ holder'[q] = holder[q] /\ (q # p \/ holder[q] # t)
         \/ /\ q = p /\ holder[q] = t
            /\ \/ holder'[q] = NoCaller /\ (t = RunnerTask \/ ~(RunnerClosing /\ process = q))
               \/ holder'[q] \in Callers \ {t} /\ closing[holder'[q]] = q
               \/ holder'[q] = RunnerTask /\ RunnerClosing /\ process = q /\ t # RunnerTask
<1>1. CASE holder[p] # t /\ UNCHANGED holder
  BY <1>1
<1>2. CASE holder[p] = t /\ holder' = [holder EXCEPT ![p] = NoCaller]
           /\ (t = RunnerTask \/ ~(RunnerClosing /\ process = p))
  BY <1>2 DEF TypeOK, HolderTypeOK
<1>3. ASSUME holder[p] = t,
             NEW n \in {d \in Callers \ {t} : closing[d] = p}
                       \cup (IF RunnerClosing /\ process = p /\ t # RunnerTask
                             THEN {RunnerTask} ELSE {}),
             holder' = [holder EXCEPT ![p] = n]
      PROVE  \/ q # p /\ holder'[q] = holder[q]
             \/ q = p /\ holder'[q] \in Callers \ {t} /\ closing[holder'[q]] = q
             \/ q = p /\ holder'[q] = RunnerTask /\ RunnerClosing /\ process = q
                /\ t # RunnerTask
  BY <1>3 DEF TypeOK, HolderTypeOK
<1> QED BY <1>1, <1>2, <1>3 DEF ReleaseLocks

\* The process a close suspends for exists.
LEMMA Suspended ==
  ASSUME TypeOK, CloseSuspends
  PROVE  process \in Processes
BY DEF CloseSuspends, Contended, Alive, TypeOK, OutputTypeOK, Processes

\* A step of a caller that has nothing to do with a close.
LEMMA Elsewhere ==
  ASSUME LocksTidy, ChildTidy, NEW c \in Callers,
         UNCHANGED <<session, process, phase, runner, outcome, holder>>,
         \A d \in Callers \ {c} : pc'[d] = pc[d] /\ closing'[d] = closing[d],
         closing'[c] = closing[c], pc'[c] \in Closers <=> pc[c] \in Closers
  PROVE  LocksTidy' /\ ChildTidy'
<1>1. \A d \in Callers : closing'[d] = closing[d] /\ (pc'[d] \in Closers <=> pc[d] \in Closers)
  OBVIOUS
<1>2. LocksTidy'
  BY <1>1 DEF LocksTidy, RunnerClosing
<1>3. ChildTidy'
  BY DEF ChildTidy, RunnerClosing, Alive
<1> QED BY <1>2, <1>3

\* A caller enters the close of the child.
LEMMA Entering ==
  ASSUME TypeOK, LocksTidy, ChildTidy, NEW c \in Callers, CloseSuspends, TakeLocks(c),
         UNCHANGED <<session, process, phase, runner, outcome>>,
         \A d \in Callers \ {c} : pc'[d] = pc[d] /\ closing'[d] = closing[d],
         pc[c] \notin Closers, pc'[c] \in Closers, closing'[c] = process
  PROVE  LocksTidy' /\ ChildTidy'
<1>1. process \in Processes /\ process # 0
  BY Suspended DEF Processes
<1>2. /\ holder'[process] # NoCaller
      /\ \A p \in Processes :
           holder'[p] = holder[p] \/ (p = process /\ holder[p] = NoCaller /\ holder'[p] = c)
  BY <1>1, Taken
<1>3. \A p \in Processes : holder[p] # c
  <2> SUFFICES ASSUME NEW p \in Processes, holder[p] = c PROVE FALSE
    OBVIOUS
  <2>1. closing[c] = p
    BY DEF LocksTidy
  <2> QED BY <2>1 DEF LocksTidy, Processes
<1>4. c # RunnerTask /\ c # NoCaller
  BY SupervisorAssumption DEF SupervisorAssumption
<1>5. LocksTidy'
  <2>1. \A d \in Callers : pc'[d] \in Closers <=> closing'[d] # 0
    BY <1>1 DEF LocksTidy
  <2>2. ASSUME NEW p \in Processes
        PROVE  /\ holder'[p] \in Callers => closing'[holder'[p]] = p
               /\ holder'[p] = RunnerTask => RunnerClosing' /\ p = process'
    BY <1>2, <1>3, <1>4 DEF LocksTidy, RunnerClosing
  <2>3. RunnerClosing' => process' \in Processes /\ holder'[process'] # NoCaller
    BY <1>1, <1>2
  <2> QED BY <2>1, <2>2, <2>3 DEF LocksTidy
<1>6. ChildTidy'
  BY <1>2 DEF ChildTidy, RunnerClosing, Alive
<1> QED BY <1>5, <1>6

\* A caller leaves it: the child is reaped, or the locks were not its own, or the spawn is
\* still pending, which is the runner's business.
LEMMA Leaving ==
  ASSUME TypeOK, LocksTidy, ChildTidy, NEW c \in Callers, ReleaseLocks(c, closing[c]),
         UNCHANGED <<session, process, phase, runner, outcome>>,
         \A d \in Callers \ {c} : pc'[d] = pc[d] /\ closing'[d] = closing[d],
         pc[c] \in Closers, pc'[c] \notin Closers, closing'[c] = 0,
         ~Alive(closing[c]) \/ holder[closing[c]] # c \/ phase[closing[c]] = "spawning"
  PROVE  LocksTidy' /\ ChildTidy'
<1>1. closing[c] \in Processes
  BY DEF LocksTidy, TypeOK, CallTypeOK, Processes
<1>2. c # NoCaller /\ RunnerTask \notin Callers \cup {NoCaller} /\ NoCaller \notin Callers
  BY SupervisorAssumption DEF SupervisorAssumption
<1>3. ASSUME NEW q \in Processes
      PROVE  \/ holder'[q] = holder[q] /\ holder[q] # c
             \/ /\ q = closing[c] /\ holder[q] = c
                /\ \/ holder'[q] = NoCaller /\ ~(RunnerClosing /\ process = q)
                   \/ holder'[q] \in Callers \ {c} /\ closing[holder'[q]] = q
                   \/ holder'[q] = RunnerTask /\ RunnerClosing /\ process = q
  <2>1. holder[q] = c => q = closing[c]
    BY DEF LocksTidy
  <2> QED BY <1>1, <1>2, <2>1, Released
<1>4. LocksTidy'
  <2>1. \A d \in Callers : pc'[d] \in Closers <=> closing'[d] # 0
    BY DEF LocksTidy
  <2>2. ASSUME NEW p \in Processes
        PROVE  /\ holder'[p] \in Callers => closing'[holder'[p]] = p
               /\ holder'[p] = RunnerTask => RunnerClosing' /\ p = process'
    <3>1. CASE holder'[p] = holder[p] /\ holder[p] # c
      BY <1>2, <3>1 DEF LocksTidy, RunnerClosing
    <3>2. CASE holder'[p] = NoCaller
      BY <1>2, <3>2
    <3>3. CASE holder'[p] \in Callers \ {c} /\ closing[holder'[p]] = p
      BY <1>2, <3>3
    <3>4. CASE holder'[p] = RunnerTask /\ RunnerClosing /\ process = p
      BY <1>2, <3>4 DEF RunnerClosing
    <3> QED BY <1>3, <3>1, <3>2, <3>3, <3>4
  <2>3. RunnerClosing' => process' \in Processes /\ holder'[process'] # NoCaller
    BY <1>2, <1>3 DEF LocksTidy, RunnerClosing
  <2> QED BY <2>1, <2>2, <2>3 DEF LocksTidy
<1>5. ChildTidy'
  <2>1. ASSUME NEW p \in Processes, Alive(p), runner \notin {"spawning", "serving"},
               holder[p] # NoCaller
        PROVE  holder'[p] # NoCaller
    <3>1. phase[p] # "spawning"
      BY <2>1 DEF ChildTidy
    <3> QED BY <1>3, <2>1, <3>1
  <2>2. (\A p \in Processes : Alive(p)' <=> Alive(p)) /\ (RunnerClosing' <=> RunnerClosing)
    BY DEF Alive, RunnerClosing
  <2> QED BY <2>1, <2>2 DEF ChildTidy
<1> QED BY <1>4, <1>5

-----------------------------------------------------------------------------
(* The steps of the callers.                                               *)

\* The only session that may be opened is the first one.
LEMMA StartNewTidy ==
  ASSUME TypeOK, Tidy, OpenedOnce', NEW c \in Callers, StartNew(c)
  PROVE  Tidy'
<1> USE DEF Tidy
<1>1. session = 0 /\ session' = 1 /\ 1 \in Sessions /\ runner = "none" /\ runner' = "ready"
  BY SupervisorAssumption
     DEF StartNew, OpenedOnce, JoinTidy, TypeOK, OutputTypeOK, Sessions, SupervisorAssumption
<1>2. /\ pc[c] = "idle" /\ lock = NoCaller /\ lock' = lock /\ ~stopRequested' /\ ~cancelling'
      /\ pc' = [pc EXCEPT ![c] = "waiting"] /\ joined' = [joined EXCEPT ![c] = 1]
      /\ UNCHANGED <<state, process, phase, verdict, outcome, holder, closing>>
  BY <1>1 DEF StartNew, FreshSession, childVars
<1>3. \A d \in Callers : pc[d] = "idle" /\ closing[d] = 0
  <2> SUFFICES ASSUME NEW d \in Callers PROVE pc[d] = "idle" /\ closing[d] = 0
    OBVIOUS
  <2>1. closing[d] = 0
    BY <1>1 DEF StopTidy, ChildTidy
  <2>2. pc[d] \notin Closers /\ lock # d
    BY <1>2, <2>1, SupervisorAssumption DEF LocksTidy, SupervisorAssumption
  <2>3. pc[d] \notin {"waiting", "gathering", "stopAwait"}
    BY <1>1, <2>2 DEF JoinTidy, StopTidy
  <2> QED BY <2>1, <2>2, <2>3 DEF Closers, TypeOK, CallTypeOK, Awaits
<1>4. \A d \in Callers : pc'[d] \in {"idle", "waiting"} /\ closing'[d] = 0
  BY <1>2, <1>3 DEF TypeOK, CallTypeOK
<1>5. LocksTidy'
  BY <1>1, <1>2, <1>4 DEF LocksTidy, RunnerClosing, Closers
<1>6. ChildTidy'
  BY <1>1, <1>2 DEF ChildTidy, Alive, RunnerClosing
<1>7. PlaceTidy'
  BY <1>1, <1>2 DEF PlaceTidy, NoIllegalTransition
<1>8. StopTidy'
  BY <1>2, <1>4 DEF StopTidy
<1>9. JoinTidy'
  <2>1. \A d \in Callers : pc'[d] = "waiting" => joined'[d] = 1
    BY <1>2, <1>3 DEF TypeOK, CallTypeOK
  <2>2. \A s \in Sessions : outcome[s] = "pending"
    BY <1>1 DEF JoinTidy
  <2> QED BY <1>1, <1>2, <1>4, <2>1, <2>2 DEF JoinTidy
<1> QED BY <1>5, <1>6, <1>7, <1>8, <1>9

\* What the state and the runner owe each other, when a caller moves neither of them.
LEMMA PlaceKept ==
  ASSUME PlaceTidy, UNCHANGED <<runner, verdict, outcome>>,
         stopRequested => stopRequested', cancelling => cancelling',
         state' = state \/ (state' = "STOPPED" /\ ~RunnerActive)
  PROVE  PlaceTidy'
BY DEF PlaceTidy, NoIllegalTransition, RunnerActive

\* A caller that waits for the session, or stops waiting for it.
LEMMA JoinKept ==
  ASSUME JoinTidy, NEW c \in Callers, UNCHANGED <<session, runner, outcome>>,
         \A d \in Callers \ {c} : pc'[d] = pc[d] /\ joined'[d] = joined[d],
         \/ pc'[c] \notin {"waiting", "gathering", "ownerClosing"}
         \/ pc'[c] \in {"waiting", "gathering"} /\ joined'[c] = session /\ runner # "none"
         \/ pc'[c] = "ownerClosing" /\ joined'[c] = session /\ runner = "done"
  PROVE  JoinTidy'
BY DEF JoinTidy

\* A caller that neither stops nor closes.
LEMMA StopKept ==
  ASSUME StopTidy, NEW c \in Callers,
         UNCHANGED <<stopRequested, lock, closing, process, runner>>,
         \A d \in Callers \ {c} : pc'[d] = pc[d],
         pc'[c] \notin {"stopClosing", "stopAborting", "stopAwait"}
  PROVE  StopTidy'
BY DEF StopTidy

\* A caller that gives the lifecycle lock back.
LEMMA StopGiven ==
  ASSUME TypeOK, StopTidy, NEW c \in Callers, lock = c, lock' = NoCaller,
         UNCHANGED <<stopRequested, process, runner>>,
         \A d \in Callers \ {c} : pc'[d] = pc[d] /\ closing'[d] = closing[d],
         pc'[c] \notin {"stopClosing", "stopAborting", "stopAwait"}, closing'[c] = 0
  PROVE  StopTidy'
BY DEF StopTidy

LEMMA StartStepTidy ==
  ASSUME TypeOK, Tidy, NEW c \in Callers,
         StartJoin(c) \/ StartLive(c) \/ StartEnded(c) \/ StartCancel(c)
  PROVE  Tidy'
<1> USE DEF Tidy
<1>1. /\ UNCHANGED <<session, process, phase, runner, outcome, holder, stopRequested, lock,
                     state, verdict>>
      /\ cancelling => cancelling'
  BY DEF StartJoin, StartLive, StartEnded, StartCancel, childVars, runnerVars
<1>2. pc[c] \in {"idle", "waiting"} /\ closing[c] = 0
  <2>1. pc[c] \in {"idle", "waiting"}
    BY DEF StartJoin, StartLive, StartEnded, StartCancel
  <2> QED BY <2>1 DEF LocksTidy, Closers
<1>3. /\ \A d \in Callers \ {c} : /\ pc'[d] = pc[d] /\ closing'[d] = closing[d]
                                  /\ joined'[d] = joined[d]
      /\ pc'[c] \in {"idle", "waiting", "gathering"} /\ closing'[c] = 0
      /\ pc'[c] = "idle" \/ (joined'[c] = session /\ runner # "none")
  <2>1. CASE \E r \in Replies : Answer(c, r)
    BY <2>1, Answered
  <2>2. CASE StartJoin(c)
    BY <1>2, <2>2 DEF StartJoin, RunnerActive, TypeOK, CallTypeOK
  <2>3. CASE pc[c] = "waiting" /\ pc' = [pc EXCEPT ![c] = "gathering"]
             /\ UNCHANGED <<joined, closing>>
    BY <1>2, <2>3 DEF JoinTidy, TypeOK, CallTypeOK
  <2> QED BY <2>1, <2>2, <2>3, Names DEF StartLive, StartEnded, StartCancel
<1>4. closing' = closing
  BY <1>2, <1>3 DEF StartJoin, StartLive, StartEnded, StartCancel, Answer, TypeOK, CallTypeOK
<1>5. LocksTidy' /\ ChildTidy'
  BY <1>1, <1>2, <1>3, Elsewhere DEF Closers
<1>6. PlaceTidy' /\ JoinTidy' /\ StopTidy'
  BY <1>1, <1>3, <1>4, PlaceKept, JoinKept, StopKept
<1> QED BY <1>5, <1>6

\* The runner of the only session is over when its cancelled owner closes the child.
LEMMA OwnerStepTidy ==
  ASSUME TypeOK, Tidy, NEW c \in Callers, OwnerGathered(c) \/ OwnerClosed(c)
  PROVE  Tidy'
<1> USE DEF Tidy
<1>1. /\ UNCHANGED <<session, process, phase, runner, outcome, stopRequested, lock, verdict,
                     cancelling>>
      /\ pc[c] \in {"gathering", "ownerClosing"}
  BY DEF OwnerGathered, OwnerClosed, childVars, runnerVars
<1>2. joined[c] = session /\ runner = "done"
  <2>1. CASE pc[c] = "gathering"
    <3>1. joined[c] = session /\ session \in Sessions
      BY <2>1 DEF JoinTidy
    <3>2. outcome[joined[c]] # "pending"
      BY <2>1 DEF OwnerGathered, OwnerClosed
    <3> QED BY <3>1, <3>2 DEF JoinTidy
  <2>2. CASE pc[c] = "ownerClosing"
    BY <2>2 DEF JoinTidy
  <2> QED BY <1>1, <2>1, <2>2
<1>3. state' = state \/ (state' = "STOPPED" /\ ~RunnerActive)
  BY <1>2 DEF OwnerGathered, OwnerClosed, RunnerActive
<1>4. PlaceTidy'
  BY <1>1, <1>3, PlaceKept
<1>5. CASE OwnerGathered(c) /\ CloseSuspends
  <2>1. /\ pc'[c] = "ownerClosing" /\ closing'[c] = process /\ joined'[c] = session
        /\ \A d \in Callers \ {c} : /\ pc'[d] = pc[d] /\ closing'[d] = closing[d]
                                    /\ joined'[d] = joined[d]
        /\ TakeLocks(c) /\ pc[c] = "gathering"
    BY <1>2, <1>5 DEF OwnerGathered, TypeOK, CallTypeOK
  <2>2. LocksTidy' /\ ChildTidy'
    BY <1>1, <1>5, <2>1, Entering DEF Closers
  <2>3. JoinTidy'
    BY <1>1, <1>2, <2>1, JoinKept
  <2>4. StopTidy'
    BY <1>1, <1>2, <2>1 DEF StopTidy
  <2> QED BY <1>4, <2>2, <2>3, <2>4
<1>6. CASE OwnerGathered(c) /\ ~CloseSuspends
  <2>1. Answer(c, "cancelled") /\ UNCHANGED holder /\ pc[c] = "gathering"
    BY <1>6 DEF OwnerGathered
  <2>2. closing[c] = 0 /\ closing' = closing
    <3>1. closing[c] = 0
      BY <2>1 DEF LocksTidy, Closers
    <3> QED BY <2>1, <3>1 DEF Answer, TypeOK, CallTypeOK
  <2>3. LocksTidy' /\ ChildTidy'
    BY <1>1, <2>1, <2>2, Answered, Elsewhere DEF Closers
  <2>4. JoinTidy' /\ StopTidy'
    BY <1>1, <2>1, <2>2, Answered, JoinKept, StopKept
  <2> QED BY <1>4, <2>3, <2>4
<1>7. CASE OwnerClosed(c)
  <2>1. Answer(c, "cancelled") /\ ReleaseLocks(c, closing[c]) /\ ~Alive(closing[c])
        /\ pc[c] = "ownerClosing"
    BY <1>7 DEF OwnerClosed
  <2>2. LocksTidy' /\ ChildTidy'
    BY <1>1, <2>1, Answered, Leaving DEF Closers
  <2>3. JoinTidy'
    BY <1>1, <2>1, Answered, JoinKept
  <2>4. StopTidy'
    BY <1>1, <2>1, Answered DEF StopTidy
  <2> QED BY <1>4, <2>2, <2>3, <2>4
<1> QED BY <1>5, <1>6, <1>7

\* The last part of stop(), after its close or without one.
LEMMA StopTailTidy ==
  ASSUME TypeOK, Tidy, NEW c \in Callers, StopTail(c), stopRequested',
         lock \in {c, NoCaller}, UNCHANGED <<session, process, phase, runnerVars>>,
         \/ pc[c] = "idle" /\ UNCHANGED holder
         \/ pc[c] = "stopClosing" /\ ReleaseLocks(c, closing[c]) /\ ~Alive(closing[c])
  PROVE  Tidy'
<1> USE DEF Tidy
<1>1. /\ pc'[c] \in {"idle", "stopAwait"} /\ closing'[c] = 0
      /\ \A d \in Callers \ {c} : pc'[d] = pc[d] /\ closing'[d] = closing[d]
                                  /\ joined'[d] = joined[d]
      /\ pc'[c] = "stopAwait" => RunnerActive /\ lock' = c
      /\ state' = state \/ (state' = "STOPPED" /\ ~RunnerActive)
  <2>1. CASE RunnerActive
    BY <2>1 DEF StopTail, TypeOK, CallTypeOK
  <2>2. CASE ~RunnerActive
    BY <2>2, Answered DEF StopTail
  <2> QED BY <2>1, <2>2
<1>2. lock' \in {c, NoCaller} /\ UNCHANGED <<runner, verdict, outcome, cancelling>>
  BY DEF StopTail, runnerVars
<1>3. \A d \in Callers \ {c} : pc[d] \notin {"stopClosing", "stopAborting", "stopAwait"}
  BY SupervisorAssumption DEF StopTidy, SupervisorAssumption
<1>4. PlaceTidy'
  BY <1>1, <1>2, PlaceKept
<1>5. JoinTidy'
  BY <1>1, <1>2, JoinKept
<1>6. StopTidy'
  BY <1>1, <1>2, <1>3, SupervisorAssumption
     DEF StopTidy, RunnerActive, SupervisorAssumption
<1>7. LocksTidy' /\ ChildTidy'
  <2>1. CASE pc[c] = "idle" /\ UNCHANGED holder
    <3>1. closing[c] = 0
      BY <2>1 DEF LocksTidy, Closers
    <3> QED BY <1>1, <1>2, <2>1, <3>1, Elsewhere DEF Closers
  <2>2. CASE pc[c] = "stopClosing" /\ ReleaseLocks(c, closing[c]) /\ ~Alive(closing[c])
    BY <1>1, <1>2, <2>2, Leaving DEF Closers
  <2> QED BY <2>1, <2>2
<1> QED BY <1>4, <1>5, <1>6, <1>7

LEMMA StopStepTidy ==
  ASSUME TypeOK, Tidy, NEW c \in Callers,
         StopEnter(c) \/ StopClosed(c) \/ StopAwaited(c) \/ StopCancel(c) \/ StopAborted(c)
  PROVE  Tidy'
<1> USE DEF Tidy
<1>1. /\ UNCHANGED <<session, process, phase, runner, outcome, verdict>>
      /\ cancelling => cancelling'
      /\ stopRequested => stopRequested'
  BY DEF StopEnter, StopClosed, StopAwaited, StopCancel, StopAborted, childVars, runnerVars
<1>2. pc[c] # "idle" => lock = c /\ stopRequested
  BY SupervisorAssumption
     DEF StopTidy, StopEnter, StopClosed, StopAwaited, StopCancel, StopAborted,
         SupervisorAssumption
<1>3. CASE StopEnter(c) /\ CloseSuspends
  <2>1. /\ pc[c] = "idle" /\ lock = NoCaller /\ lock' = c /\ stopRequested' = TRUE
        /\ pc'[c] = "stopClosing" /\ closing'[c] = process
        /\ \A d \in Callers \ {c} : /\ pc'[d] = pc[d] /\ closing'[d] = closing[d]
                                    /\ joined'[d] = joined[d]
        /\ TakeLocks(c) /\ state' = state
    BY <1>3 DEF StopEnter, TypeOK, CallTypeOK
  <2>2. LocksTidy' /\ ChildTidy'
    BY <1>1, <1>3, <2>1, Entering DEF Closers
  <2>3. PlaceTidy' /\ JoinTidy'
    BY <1>1, <2>1, PlaceKept, JoinKept
  <2>4. \A d \in Callers : pc[d] \notin {"stopClosing", "stopAborting", "stopAwait"}
    BY <2>1, SupervisorAssumption DEF StopTidy, SupervisorAssumption
  <2>5. StopTidy'
    BY <1>1, <2>1, <2>4 DEF StopTidy
  <2> QED BY <2>2, <2>3, <2>5
<1>4. CASE StopEnter(c) /\ ~CloseSuspends
  BY <1>4, StopTailTidy DEF StopEnter, childVars
<1>5. CASE StopClosed(c)
  <2>1. stopRequested' /\ lock = c /\ ~Alive(closing[c])
    BY <1>1, <1>2, <1>5 DEF StopClosed
  <2> QED BY <1>5, <2>1, StopTailTidy DEF StopClosed, childVars
<1>6. CASE StopAwaited(c)
  <2>1. PICK r \in Replies : Answer(c, r)
    BY <1>6, Names DEF StopAwaited
  <2>2. /\ pc[c] = "stopAwait" /\ lock = c /\ lock' = NoCaller
        /\ UNCHANGED <<stopRequested, holder>>
        /\ state' = state \/ (state' = "STOPPED" /\ ~RunnerActive)
    BY <1>2, <1>6 DEF StopAwaited
  <2>3. closing[c] = 0
    BY <2>2 DEF LocksTidy, Closers
  <2>4. LocksTidy' /\ ChildTidy'
    BY <1>1, <2>1, <2>2, <2>3, Answered, Elsewhere DEF Closers
  <2>5. PlaceTidy' /\ JoinTidy' /\ StopTidy'
    BY <1>1, <2>1, <2>2, Answered, PlaceKept, JoinKept, StopGiven
  <2> QED BY <2>4, <2>5
<1>7. ASSUME Answer(c, "cancelled"), ReleaseLocks(c, closing[c]), lock' = NoCaller,
             pc[c] \in {"stopClosing", "stopAborting"}, UNCHANGED <<state, stopRequested>>,
             \/ ~Alive(closing[c])
             \/ holder[closing[c]] # c
             \/ phase[closing[c]] = "spawning"
      PROVE  Tidy'
  <2>1. LocksTidy' /\ ChildTidy'
    BY <1>1, <1>7, Answered, Leaving DEF Closers
  <2>2. PlaceTidy' /\ JoinTidy' /\ StopTidy'
    BY <1>1, <1>2, <1>7, Answered, PlaceKept, JoinKept, StopGiven
  <2> QED BY <2>1, <2>2
<1>8. CASE StopCancel(c)
  <2>1. CASE pc[c] = "stopClosing" /\ Answer(c, "cancelled")
    BY <1>7, <1>8, <2>1 DEF StopCancel, Answer, TypeOK, CallTypeOK
  <2>2. CASE pc[c] = "stopClosing" /\ pc' = [pc EXCEPT ![c] = "stopAborting"]
             /\ UNCHANGED <<lock, holder, joined, closing>>
    <3>1. /\ pc'[c] = "stopAborting" /\ UNCHANGED <<state, stopRequested>>
          /\ \A d \in Callers \ {c} : pc'[d] = pc[d]
      BY <1>8, <2>2 DEF StopCancel, TypeOK, CallTypeOK
    <3>2. LocksTidy' /\ ChildTidy'
      BY <1>1, <2>2, <3>1, Elsewhere DEF Closers
    <3>3. PlaceTidy' /\ JoinTidy'
      BY <1>1, <2>2, <3>1, PlaceKept, JoinKept
    <3>4. StopTidy'
      BY <1>1, <1>2, <2>2, <3>1 DEF StopTidy
    <3> QED BY <3>2, <3>3, <3>4
  <2>3. CASE UNCHANGED <<lock, holder, callVars>>
    <3>1. UNCHANGED <<lock, holder, pc, closing, joined, state, stopRequested>>
      BY <1>8, <2>3 DEF StopCancel, callVars
    <3>2. LocksTidy' /\ ChildTidy' /\ PlaceTidy'
      BY <1>1, <3>1, Elsewhere, PlaceKept
    <3>3. StopTidy' /\ JoinTidy'
      BY <1>1, <3>1 DEF StopTidy, JoinTidy
    <3> QED BY <3>2, <3>3
  <2> QED BY <1>8, <2>1, <2>2, <2>3 DEF StopCancel
<1>9. CASE StopAborted(c)
  BY <1>7, <1>9 DEF StopAborted
<1> QED BY <1>3, <1>4, <1>5, <1>6, <1>8, <1>9

LEMMA CallerStepTidy ==
  ASSUME TypeOK, Tidy, OpenedOnce', NEW c \in Callers, CallerStep(c)
  PROVE  Tidy'
BY StartNewTidy, StartStepTidy, OwnerStepTidy, StopStepTidy DEF CallerStep

-----------------------------------------------------------------------------
(* The steps of the runner and of the children.                            *)

\* What the callers wait for, when the runner moves or ends.
LEMMA CallersKept ==
  ASSUME TypeOK, StopTidy, JoinTidy, RunnerActive,
         UNCHANGED <<stopRequested, session, lock, callVars>>,
         process' = process \/ ~stopRequested,
         \/ RunnerActive' /\ UNCHANGED outcome
         \/ runner' = "done" /\ \E r \in Results : outcome' = [outcome EXCEPT ![session] = r]
  PROVE  StopTidy' /\ JoinTidy'
<1>1. runner \notin {"none", "done"} /\ runner' # "none" /\ UNCHANGED <<pc, joined, closing>>
  BY DEF RunnerActive, callVars
<1>2. session = 1 /\ session \in Sessions
  BY <1>1 DEF JoinTidy
<1>3. StopTidy'
  BY <1>1 DEF StopTidy
<1>4. \A s \in Sessions : outcome'[s] # "pending" <=> s = session /\ runner' = "done"
  <2>1. CASE RunnerActive' /\ UNCHANGED outcome
    BY <1>1, <2>1 DEF JoinTidy, RunnerActive
  <2>2. ASSUME NEW r \in Results, runner' = "done", outcome' = [outcome EXCEPT ![session] = r]
        PROVE  \A s \in Sessions : outcome'[s] # "pending" <=> s = session /\ runner' = "done"
    BY <1>1, <1>2, <2>2 DEF JoinTidy, TypeOK, RunnerTypeOK, Results
  <2> QED BY <2>1, <2>2
<1>5. JoinTidy'
  BY <1>1, <1>2, <1>4 DEF JoinTidy
<1> QED BY <1>3, <1>5

\* The locks are nobody's business but the callers', as long as the runner closes nothing.
LEMMA LocksKept ==
  ASSUME LocksTidy, ~RunnerClosing, ~RunnerClosing', UNCHANGED <<holder, pc, closing>>
  PROVE  LocksTidy'
BY DEF LocksTidy

\* The runner leaves its try block, with the locks of its child or without a child.
LEMMA FinallyTidy ==
  ASSUME TypeOK, Tidy, RunnerActive, ~RunnerClosing, NEW s, NEW r \in {"returned", "failed"},
         NEW childAlive, RunnerFinally(s, r, childAlive),
         UNCHANGED <<stopRequested, session, lock, callVars, process>>,
         childAlive => process \in Processes,
         \A p \in Processes : Alive(p)' => p = process /\ stopRequested /\ childAlive,
         \A p \in Processes : phase'[p] # "spawning"
  PROVE  Tidy'
<1> USE DEF Tidy
<1>1. UNCHANGED <<pc, closing>>
  BY DEF callVars
<1>2. CASE stopRequested /\ (childAlive \/ Contended)
  <2>1. /\ runner' = "closing" /\ verdict' = r /\ UNCHANGED <<outcome, cancelling>>
        /\ TakeLocks(RunnerTask)
    BY <1>2, Zenon DEF RunnerFinally
  <2>2. process \in Processes
    BY <1>2 DEF Contended, TypeOK, OutputTypeOK, Processes
  <2>3. /\ holder'[process] # NoCaller
        /\ \A p \in Processes :
             \/ holder'[p] = holder[p]
             \/ p = process /\ holder[p] = NoCaller /\ holder'[p] = RunnerTask
    BY <2>1, <2>2, Taken
  <2>4. LocksTidy'
    <3>1. RunnerTask \notin Callers \cup {NoCaller}
      BY SupervisorAssumption DEF SupervisorAssumption
    <3> QED BY <1>1, <2>1, <2>2, <2>3, <3>1 DEF LocksTidy, RunnerClosing
  <2>5. ChildTidy'
    BY <2>1, <2>2, <2>3 DEF ChildTidy, RunnerClosing
  <2>6. PlaceTidy'
    BY <1>2, <2>1 DEF PlaceTidy, NoIllegalTransition
  <2>7. StopTidy' /\ JoinTidy'
    BY <2>1, CallersKept DEF RunnerActive
  <2> QED BY <2>4, <2>5, <2>6, <2>7
<1>3. CASE ~(stopRequested /\ (childAlive \/ Contended))
  <2>1. /\ runner' = "done" /\ verdict' = r /\ outcome' = [outcome EXCEPT ![session] = r]
        /\ UNCHANGED holder
    BY <1>3, Zenon DEF RunnerFinally, RunnerDone
  <2>2. LocksTidy'
    BY <1>1, <2>1, LocksKept DEF RunnerClosing
  <2>3. ChildTidy'
    BY <1>3, <2>1 DEF ChildTidy
  <2>4. PlaceTidy'
    BY <2>1 DEF PlaceTidy, NoIllegalTransition, TypeOK, RunnerTypeOK
  <2>5. StopTidy' /\ JoinTidy'
    BY <2>1, CallersKept, Names
  <2> QED BY <2>2, <2>3, <2>4, <2>5
<1> QED BY <1>2, <1>3

\* Only where the runner watches or closes it can a child be alive.
LEMMA NoChild ==
  ASSUME ChildTidy, runner \in {"ready", "backoff"}
  PROVE  /\ \A p \in Processes : ~Alive(p) /\ phase[p] # "spawning"
         /\ ~AnyAlive /\ ~RunnerClosing /\ RunnerActive
BY DEF ChildTidy, RunnerClosing, RunnerActive, Alive, AnyAlive

\* The runner is where the state it shows allows what it does next.
LEMMA Legality ==
  ASSUME PlaceTidy
  PROVE  /\ runner \in {"ready", "backoff"} => Legal("CONNECTING")
         /\ runner = "spawning" => Legal("LIVE") /\ Legal("ERROR")
         /\ runner = "serving"  => Legal("RECONNECTING") /\ Legal("AUTH_FAILED")
<1>1. /\ "CONNECTING" \in Transitions["STOPPED"]
      /\ "CONNECTING" \in Transitions["RECONNECTING"]
      /\ {"LIVE", "ERROR"} \subseteq Transitions["CONNECTING"]
      /\ {"RECONNECTING", "AUTH_FAILED"} \subseteq Transitions["LIVE"]
  BY DEF Transitions, States
<1> QED BY <1>1 DEF PlaceTidy, Legal

LEMMA LoopHeadTidy ==
  ASSUME TypeOK, Tidy, RunnerBegins \/ RunnerRetries
  PROVE  Tidy'
<1> USE DEF Tidy
<1>1. /\ runner \in {"ready", "backoff"} /\ LoopHead
      /\ UNCHANGED <<stopRequested, live, reconnects, session, lock, callVars>>
  BY DEF RunnerBegins, RunnerRetries
<1>2. /\ \A p \in Processes : ~Alive(p) /\ phase[p] # "spawning"
      /\ ~RunnerClosing /\ RunnerActive /\ Legal("CONNECTING")
  BY <1>1, NoChild, Legality
<1>3. CASE stopRequested
  <2>1. RunnerFinally("STOPPED", "returned", FALSE) /\ UNCHANGED <<process, phase>>
    BY <1>1, <1>3 DEF LoopHead, childVars
  <2>2. \A p \in Processes : ~Alive(p)' /\ phase'[p] # "spawning"
    BY <1>2, <2>1 DEF Alive
  <2> QED BY <1>1, <1>2, <2>1, <2>2, FinallyTidy
<1>4. CASE ~stopRequested
  <2>1. /\ process < MaxSpawns /\ process' = process + 1
        /\ phase' = [phase EXCEPT ![process + 1] = "spawning"]
        /\ state' = "CONNECTING" /\ runner' = "spawning"
        /\ UNCHANGED <<verdict, outcome, cancelling, holder>>
    BY <1>1, <1>2, <1>4 DEF LoopHead
  <2>2. process' \in Processes
    BY <2>1, SupervisorAssumption DEF TypeOK, OutputTypeOK, Processes, SupervisorAssumption
  <2>3. \A p \in Processes : /\ phase'[p] = "spawning" <=> p = process'
                             /\ Alive(p)' => p = process'
    BY <1>2, <2>1, <2>2 DEF Alive, TypeOK, OutputTypeOK
  <2>4. LocksTidy'
    BY <1>1, <1>2, <2>1, LocksKept DEF RunnerClosing, callVars
  <2>5. ChildTidy'
    BY <2>1, <2>2, <2>3 DEF ChildTidy
  <2>6. PlaceTidy'
    BY <2>1 DEF PlaceTidy, NoIllegalTransition
  <2>7. StopTidy' /\ JoinTidy'
    BY <1>1, <1>2, <1>4, <2>1, CallersKept DEF RunnerActive
  <2> QED BY <2>4, <2>5, <2>6, <2>7
<1> QED BY <1>3, <1>4

LEMMA SpawnTidy ==
  ASSUME TypeOK, Tidy, SpawnOk \/ SpawnFail
  PROVE  Tidy'
<1> USE DEF Tidy
<1>1. /\ runner = "spawning" /\ process' = process
      /\ UNCHANGED <<stopRequested, session, lock, callVars>>
  BY DEF SpawnOk, SpawnFail
<1>2. process \in Processes /\ RunnerActive /\ ~RunnerClosing
      /\ Legal("LIVE") /\ Legal("ERROR")
  BY <1>1, Legality DEF ChildTidy, RunnerActive, RunnerClosing
<1>3. \A p \in Processes : Alive(p) => p = process
  BY DEF ChildTidy
<1>4. CASE SpawnOk
  <2>1. phase' = [phase EXCEPT ![process] = "running"]
    BY <1>4 DEF SpawnOk
  <2>2. \A p \in Processes : phase'[p] # "spawning" /\ (Alive(p)' => p = process)
    BY <1>1, <1>2, <1>3, <2>1 DEF ChildTidy, Alive, TypeOK, OutputTypeOK
  <2>3. CASE stopRequested
    <3>1. RunnerFinally("STOPPED", "returned", TRUE)
      BY <1>4, <2>3 DEF SpawnOk
    <3> QED BY <1>1, <1>2, <2>2, <2>3, <3>1, FinallyTidy
  <2>4. CASE ~stopRequested
    <3>1. state' = "LIVE" /\ runner' = "serving"
          /\ UNCHANGED <<verdict, outcome, cancelling, holder>>
      BY <1>2, <1>4, <2>4 DEF SpawnOk
    <3>2. LocksTidy'
      BY <1>1, <1>2, <3>1, LocksKept DEF RunnerClosing, callVars
    <3>3. ChildTidy'
      BY <1>1, <1>2, <2>2, <3>1 DEF ChildTidy
    <3>4. PlaceTidy'
      BY <3>1 DEF PlaceTidy, NoIllegalTransition
    <3>5. StopTidy' /\ JoinTidy'
      BY <1>1, <1>2, <3>1, CallersKept DEF RunnerActive
    <3> QED BY <3>2, <3>3, <3>4, <3>5
  <2> QED BY <2>3, <2>4
<1>5. CASE SpawnFail
  <2>1. phase' = [phase EXCEPT ![process] = "exited"]
        /\ RunnerFinally("ERROR", "failed", FALSE)
    BY <1>2, <1>5 DEF SpawnFail
  <2>2. \A p \in Processes : phase'[p] # "spawning" /\ ~Alive(p)'
    BY <1>1, <1>2, <1>3, <2>1 DEF ChildTidy, Alive, TypeOK, OutputTypeOK
  <2> QED BY <1>1, <1>2, <2>1, <2>2, FinallyTidy
<1> QED BY <1>4, <1>5

LEMMA ServedTidy ==
  ASSUME TypeOK, Tidy, RunnerServed
  PROVE  Tidy'
<1> USE DEF Tidy
<1>1. /\ runner = "serving" /\ ~Alive(process) /\ UNCHANGED <<process, phase>>
      /\ UNCHANGED <<stopRequested, session, lock, callVars>>
  BY DEF RunnerServed, childVars
<1>2. /\ process \in Processes /\ RunnerActive /\ ~RunnerClosing
      /\ Legal("RECONNECTING") /\ Legal("AUTH_FAILED")
  BY <1>1, Legality DEF ChildTidy, RunnerActive, RunnerClosing
<1>3. \A p \in Processes : ~Alive(p) /\ ~Alive(p)' /\ phase'[p] # "spawning"
  BY <1>1 DEF ChildTidy, Alive
<1>4. CASE \E s : RunnerFinally(s, "returned", FALSE)
  BY <1>1, <1>2, <1>3, <1>4, FinallyTidy
<1>5. CASE state' = "RECONNECTING" /\ runner' = "backoff"
           /\ UNCHANGED <<verdict, outcome, cancelling, holder>>
  <2>1. LocksTidy'
    BY <1>1, <1>2, <1>5, LocksKept DEF RunnerClosing, callVars
  <2>2. ChildTidy'
    BY <1>1, <1>3, <1>5 DEF ChildTidy
  <2>3. PlaceTidy'
    BY <1>5 DEF PlaceTidy, NoIllegalTransition
  <2>4. StopTidy' /\ JoinTidy'
    BY <1>1, <1>2, <1>5, CallersKept DEF RunnerActive
  <2> QED BY <2>1, <2>2, <2>3, <2>4
<1> QED BY <1>2, <1>4, <1>5 DEF RunnerServed

\* The runner ends inside a close, or on its cancellation.
LEMMA DoneTidy ==
  ASSUME TypeOK, Tidy, RunnerActive, NEW r \in Results \ {"faulted"}, RunnerDone(r),
         UNCHANGED <<stopRequested, session, process, lock, callVars>>, verdict' # "faulted",
         LocksTidy', \A p \in Processes : phase'[p] # "spawning",
         \A p \in Processes :
           Alive(p)' => p = process /\ r = "cancelled" /\ holder'[p] # NoCaller
  PROVE  Tidy'
<1> USE DEF Tidy
<1>1. runner' = "done" /\ outcome' = [outcome EXCEPT ![session] = r]
  BY DEF RunnerDone
<1>2. session \in Sessions
  BY DEF JoinTidy, RunnerActive
<1>3. ChildTidy'
  <2>1. outcome'[session] = r
    BY <1>1, <1>2 DEF TypeOK, RunnerTypeOK
  <2> QED BY <1>1, <2>1 DEF ChildTidy
<1>4. PlaceTidy'
  BY <1>1 DEF PlaceTidy, NoIllegalTransition, TypeOK, RunnerTypeOK
<1>5. StopTidy' /\ JoinTidy'
  BY <1>1, CallersKept
<1> QED BY <1>3, <1>4, <1>5

\* The runner gives the locks of its child back, if they are its own.
LEMMA RunnerLeaving ==
  ASSUME TypeOK, LocksTidy, RunnerClosing, runner' = "done",
         ReleaseLocks(RunnerTask, process), UNCHANGED <<process, pc, closing>>
  PROVE  LocksTidy' /\ (holder[process] # RunnerTask => holder'[process] = holder[process])
<1>1. process \in Processes
  BY DEF LocksTidy
<1>2. RunnerTask \notin Callers \cup {NoCaller}
  BY SupervisorAssumption DEF SupervisorAssumption
<1>3. ASSUME NEW q \in Processes
      PROVE  \/ holder'[q] = holder[q] /\ holder[q] # RunnerTask
             \/ /\ q = process /\ holder[q] = RunnerTask
                /\ holder'[q] = NoCaller \/ (holder'[q] \in Callers /\ closing[holder'[q]] = q)
  <2>1. holder[q] = RunnerTask => q = process
    BY DEF LocksTidy
  <2> QED BY <1>1, <2>1, Released
<1>4. ASSUME NEW q \in Processes
      PROVE  /\ holder'[q] \in Callers => closing'[holder'[q]] = q
             /\ holder'[q] # RunnerTask
  <2>1. CASE holder'[q] = holder[q] /\ holder[q] # RunnerTask
    BY <2>1 DEF LocksTidy
  <2>2. CASE holder'[q] = NoCaller \/ (holder'[q] \in Callers /\ closing[holder'[q]] = q)
    BY <1>2, <2>2, SupervisorAssumption DEF SupervisorAssumption
  <2> QED BY <1>3, <2>1, <2>2
<1>5. LocksTidy'
  BY <1>4 DEF LocksTidy, RunnerClosing
<1> QED BY <1>1, <1>3, <1>5

LEMMA ClosedTidy ==
  ASSUME TypeOK, Tidy, RunnerClosed
  PROVE  Tidy'
<1> USE DEF Tidy
<1>1. /\ RunnerClosing /\ ~Alive(process) /\ RunnerDone(verdict) /\ runner' = "done"
      /\ ReleaseLocks(RunnerTask, process)
      /\ UNCHANGED <<stopRequested, session, process, phase, verdict, lock, callVars>>
  BY DEF RunnerClosed, RunnerClosing, RunnerDone, childVars
<1>2. RunnerActive /\ runner # "spawning"
  BY <1>1 DEF RunnerClosing, RunnerActive
<1>3. verdict \in Results \ {"faulted"} /\ verdict' # "faulted"
  BY <1>1 DEF PlaceTidy, TypeOK, RunnerTypeOK
<1>4. \A p \in Processes : ~Alive(p)' /\ phase'[p] # "spawning"
  BY <1>1, <1>2 DEF ChildTidy, Alive
<1>5. LocksTidy'
  BY <1>1, RunnerLeaving DEF callVars
<1> QED BY <1>1, <1>2, <1>3, <1>4, <1>5, DoneTidy

LEMMA CancelledTidy ==
  ASSUME TypeOK, Tidy, RunnerCancelled
  PROVE  Tidy'
<1> USE DEF Tidy
<1>1. cancelling /\ UNCHANGED <<process, stopRequested, session, lock, callVars>>
  BY DEF RunnerCancelled
<1>2. UNCHANGED <<pc, closing>>
  BY <1>1 DEF callVars
<1>3. "cancelled" \in Results \ {"faulted"}
  BY DEF Results
<1>4. CASE runner = "ready"
  <2>1. RunnerDone("cancelled") /\ UNCHANGED <<phase, verdict, holder>>
    BY <1>4 DEF RunnerCancelled
  <2>2. /\ \A p \in Processes : ~Alive(p)' /\ phase'[p] # "spawning"
        /\ ~RunnerClosing /\ RunnerActive
    BY <1>1, <1>4, <2>1, NoChild DEF Alive
  <2>3. LocksTidy'
    BY <1>2, <2>1, <2>2, LocksKept DEF RunnerClosing, RunnerDone
  <2>4. verdict' # "faulted"
    BY <2>1 DEF PlaceTidy
  <2> QED BY <1>1, <1>3, <2>1, <2>2, <2>3, <2>4, DoneTidy
<1>5. CASE runner \in {"spawning", "serving", "backoff"}
  <2>1. /\ phase' = [p \in Processes |->
                       IF p = process /\ runner = "spawning" THEN "exited" ELSE phase[p]]
        /\ verdict' = "cancelled"
        /\ \/ /\ CancelSuspends /\ runner' = "cancelClosing" /\ TakeLocks(RunnerTask)
              /\ UNCHANGED <<state, outcome, cancelling>>
           \/ ~CancelSuspends /\ RunnerDone("cancelled") /\ UNCHANGED holder
    BY <1>5 DEF RunnerCancelled
  <2>2. RunnerActive /\ ~RunnerClosing
    BY <1>5 DEF RunnerActive, RunnerClosing
  <2>3. \A p \in Processes :
          /\ phase'[p] # "spawning"
          /\ Alive(p)' => p = process /\ runner = "serving" /\ Alive(process)
    BY <1>1, <1>5, <2>1 DEF ChildTidy, Alive, RunnerClosing
  <2>4. CASE CancelSuspends /\ runner' = "cancelClosing" /\ TakeLocks(RunnerTask)
             /\ UNCHANGED <<state, outcome, cancelling>>
    <3>1. process \in Processes
      BY <2>4 DEF CancelSuspends, Contended, Alive, TypeOK, OutputTypeOK, Processes
    <3>2. /\ holder'[process] # NoCaller
          /\ \A p \in Processes :
               \/ holder'[p] = holder[p]
               \/ p = process /\ holder[p] = NoCaller /\ holder'[p] = RunnerTask
      BY <2>4, <3>1, Taken
    <3>3. LocksTidy'
      <4>1. RunnerTask \notin Callers \cup {NoCaller}
        BY SupervisorAssumption DEF SupervisorAssumption
      <4> QED BY <1>1, <1>2, <2>2, <2>4, <3>1, <3>2, <4>1 DEF LocksTidy, RunnerClosing
    <3>4. ChildTidy'
      BY <1>1, <2>3, <2>4, <3>2 DEF ChildTidy, RunnerClosing
    <3>5. PlaceTidy'
      BY <1>1, <2>1, <2>4 DEF PlaceTidy, NoIllegalTransition
    <3>6. StopTidy' /\ JoinTidy'
      BY <1>1, <2>2, <2>4, CallersKept DEF RunnerActive
    <3> QED BY <3>3, <3>4, <3>5, <3>6
  <2>5. CASE ~CancelSuspends /\ RunnerDone("cancelled") /\ UNCHANGED holder
    <3>1. \A p \in Processes : ~Alive(p)'
      BY <2>3, <2>5 DEF CancelSuspends
    <3>2. LocksTidy'
      BY <1>2, <2>2, <2>5, LocksKept DEF RunnerClosing, RunnerDone
    <3> QED BY <1>1, <1>3, <2>1, <2>2, <2>3, <2>5, <3>1, <3>2, DoneTidy
  <2> QED BY <2>1, <2>4, <2>5
<1>6. CASE runner = "closing"
  <2>1. /\ holder[process] # RunnerTask \/ ~Alive(process)
        /\ ReleaseLocks(RunnerTask, process) /\ RunnerDone("cancelled")
        /\ UNCHANGED <<phase, verdict>>
    BY <1>6 DEF RunnerCancelled
  <2>2. RunnerActive /\ RunnerClosing /\ runner' = "done"
    BY <1>6, <2>1 DEF RunnerActive, RunnerClosing, RunnerDone
  <2>3. LocksTidy' /\ (holder[process] # RunnerTask => holder'[process] = holder[process])
    BY <1>1, <1>2, <2>1, <2>2, RunnerLeaving
  <2>4. \A p \in Processes : /\ phase'[p] # "spawning"
                             /\ Alive(p)' => p = process /\ holder'[p] # NoCaller
    BY <1>1, <1>6, <2>1, <2>3 DEF ChildTidy, Alive
  <2>5. verdict' # "faulted"
    BY <2>1 DEF PlaceTidy
  <2> QED BY <1>1, <1>3, <2>1, <2>2, <2>3, <2>4, <2>5, DoneTidy
<1> QED BY <1>4, <1>5, <1>6 DEF RunnerCancelled

\* A child that ends changes nothing else.
LEMMA ChildStepTidy ==
  ASSUME TypeOK, Tidy, NEW p \in Processes, ChildExits(p) \/ ChildReaped(p)
  PROVE  Tidy'
<1> USE DEF Tidy
<1>1. /\ phase[p] = "running" /\ phase'[p] \in {"exited", "rejected"}
      /\ \A q \in Processes : q # p => phase'[q] = phase[q]
  BY DEF ChildExits, ChildReaped, TypeOK, OutputTypeOK
<1>2. UNCHANGED <<state, stopRequested, session, process, runner, verdict, outcome, cancelling,
                  lock, holder, pc, joined, closing>>
  BY DEF ChildExits, ChildReaped, runnerVars, callVars
<1>3. ChildTidy'
  BY <1>1, <1>2 DEF ChildTidy, Alive, RunnerClosing
<1>4. LocksTidy' /\ PlaceTidy'
  BY <1>2 DEF LocksTidy, RunnerClosing, PlaceTidy, NoIllegalTransition
<1>5. StopTidy' /\ JoinTidy'
  BY <1>2 DEF StopTidy, JoinTidy
<1> QED BY <1>3, <1>4, <1>5

LEMMA IdleTidy ==
  ASSUME Tidy, UNCHANGED vars
  PROVE  Tidy'
<1>1. UNCHANGED <<state, stopRequested, session, process, phase, runner, verdict, outcome,
                  cancelling, lock, holder, pc, joined, closing>>
  BY DEF vars, childVars, runnerVars, callVars
<1>2. LocksTidy' /\ ChildTidy'
  BY <1>1 DEF Tidy, LocksTidy, ChildTidy, RunnerClosing, Alive
<1>3. PlaceTidy' /\ StopTidy' /\ JoinTidy'
  BY <1>1 DEF Tidy, PlaceTidy, NoIllegalTransition, StopTidy, JoinTidy
<1> QED BY <1>2, <1>3 DEF Tidy

-----------------------------------------------------------------------------
(* Theorems.                                                               *)

LEMMA TidyInit ==
  ASSUME Init
  PROVE  Tidy
<1>1. \A c \in Callers : pc[c] = "idle" /\ closing[c] = 0
  BY DEF Init
<1>2. \A p \in Processes : ~Alive(p) /\ phase[p] # "spawning" /\ holder[p] = NoCaller
  BY DEF Init, Alive
<1>3. LocksTidy /\ ChildTidy
  BY <1>1, <1>2, SupervisorAssumption
     DEF Init, LocksTidy, ChildTidy, RunnerClosing, Closers, SupervisorAssumption
<1>4. PlaceTidy /\ StopTidy /\ JoinTidy
  BY <1>1 DEF Init, PlaceTidy, NoIllegalTransition, StopTidy, JoinTidy
<1> QED BY <1>3, <1>4 DEF Tidy

LEMMA TidyNext ==
  ASSUME TypeOK, Tidy, OpenedOnce', [Next]_vars
  PROVE  Tidy'
<1>1. ASSUME NEW c \in Callers, CallerStep(c) PROVE Tidy'
  BY <1>1, CallerStepTidy
<1>2. CASE RunnerStep
  BY <1>2, LoopHeadTidy, SpawnTidy, ServedTidy, ClosedTidy, CancelledTidy DEF RunnerStep
<1>3. ASSUME NEW p \in Processes, ChildExits(p) \/ ChildReaped(p) PROVE Tidy'
  BY <1>3, ChildStepTidy
<1>4. CASE UNCHANGED vars
  BY <1>4, IdleTidy
<1> QED BY <1>1, <1>2, <1>3, <1>4 DEF Next

\* In a supervisor that is opened once the place of the runner determines the state, a live
\* child is watched or its locks are held, and a close is of the last child, although any
\* call may be cancelled at any await.
THEOREM TidyInvariant == Spec /\ []OpenedOnce => []Tidy
<1>1. Init => Tidy
  BY TidyInit
<1>2. TypeOK /\ Tidy /\ OpenedOnce' /\ [Next]_vars => Tidy'
  BY TidyNext
<1> QED BY <1>1, <1>2, TypeCorrect, PTL DEF Spec

\* However start(), stop() and cancellations interleave, no path out of them leaves a live
\* child behind in a supervisor that is opened once.
THEOREM NoOrphans == Spec /\ []OpenedOnce => []NoOrphanChild
<1>1. TypeOK /\ Tidy => NoOrphanChild
  <2> SUFFICES ASSUME TypeOK, Tidy, NEW p \in Processes, Alive(p)
               PROVE  p = process /\ (RunnerActive \/ BeingClosed(p))
    BY DEF NoOrphanChild
  <2>1. p = process
    BY DEF Tidy, ChildTidy
  <2>2. CASE runner \in {"spawning", "serving"} \/ RunnerClosing
    BY <2>1, <2>2 DEF RunnerActive, RunnerClosing
  <2>3. CASE runner = "done" /\ holder[p] # NoCaller
    <3>1. holder[p] # RunnerTask
      BY <2>3 DEF Tidy, LocksTidy, RunnerClosing
    <3>2. holder[p] \in Callers /\ closing[holder[p]] = p
      BY <2>3, <3>1 DEF Tidy, LocksTidy, TypeOK, HolderTypeOK
    <3> QED BY <2>1, <3>2 DEF BeingClosed
  <2> QED BY <2>1, <2>2, <2>3 DEF Tidy, ChildTidy
<1> QED BY <1>1, TypeCorrect, TidyInvariant, PTL

\* One live child at most in a supervisor that is opened once.
THEOREM OneLiveChild == Spec /\ []OpenedOnce => []AtMostOneLiveChild
<1>1. Tidy => AtMostOneLiveChild
  BY DEF Tidy, ChildTidy, AtMostOneLiveChild
<1> QED BY <1>1, TidyInvariant, PTL

\* transition() never raises inside the runner of a supervisor that is opened once: nobody
\* moves _state under it while it is suspended.
THEOREM TransitionsAreLegal == Spec /\ []OpenedOnce => []NoIllegalTransition
<1>1. Tidy => NoIllegalTransition
  BY DEF Tidy, PlaceTidy
<1> QED BY <1>1, TidyInvariant, PTL

\* A caller moves itself only.
LEMMA OneCallerMoves ==
  ASSUME TypeOK, NEW d \in Callers, CallerStep(d), NEW c \in Callers \ {d}
  PROVE  pc'[c] = pc[c]
<1>1. pc' = pc \/ \E place : pc' = [pc EXCEPT ![d] = place]
  BY DEF CallerStep, StartNew, StartJoin, StartLive, StartEnded, StartCancel, OwnerGathered,
         OwnerClosed, StopEnter, StopClosed, StopTail, StopAwaited, StopCancel, StopAborted,
         Answer, callVars
<1> QED BY <1>1 DEF TypeOK, CallTypeOK

\* In a supervisor that is opened once an output becomes STOPPED on a stop request or the
\* cancellation of a start(), and never because a child ended, a spawn failed or another
\* start() was called.
THEOREM CallersStop == Spec /\ []OpenedOnce => OnlyCallersStop
<1> DEFINE Asked == state' = "STOPPED" /\ state # "STOPPED" =>
                      \/ stopRequested'
                      \/ cancelling
                      \/ \E c \in Callers : pc[c] \in {"gathering", "ownerClosing"}
<1>1. TypeOK /\ Tidy /\ [Next]_vars => [Asked]_vars
  <2> SUFFICES ASSUME TypeOK, Tidy, Next, state' = "STOPPED", state # "STOPPED",
                      ~stopRequested', ~cancelling,
                      \A c \in Callers : pc[c] \notin {"gathering", "ownerClosing"}
               PROVE  FALSE
    OBVIOUS
  <2> USE DEF Tidy
  <2>1. ASSUME NEW c \in Callers, CallerStep(c) PROVE FALSE
    <3>1. OwnerGathered(c) \/ OwnerClosed(c) \/ StopEnter(c) \/ StopClosed(c) \/ StopAwaited(c)
      BY <2>1 DEF CallerStep, StartNew, StartJoin, StartLive, StartEnded, StartCancel,
                  StopCancel, StopAborted
    <3>2. StopClosed(c) \/ StopAwaited(c)
      BY <3>1 DEF OwnerGathered, OwnerClosed, StopEnter
    <3>3. stopRequested' = stopRequested /\ pc[c] \in {"stopClosing", "stopAwait"}
      BY <3>2 DEF StopClosed, StopAwaited
    <3> QED BY <3>3, SupervisorAssumption DEF StopTidy, SupervisorAssumption
  <2>2. CASE RunnerStep
    <3>1. UNCHANGED stopRequested
      BY <2>2 DEF RunnerStep, RunnerBegins, SpawnOk, SpawnFail, RunnerServed, RunnerRetries,
                  RunnerClosed, RunnerCancelled
    <3>2. ASSUME NEW s, NEW r, NEW childAlive, RunnerFinally(s, r, childAlive)
          PROVE  s = "STOPPED"
      BY <3>1, <3>2 DEF RunnerFinally
    <3>3. CASE RunnerBegins \/ RunnerRetries
      BY <3>1, <3>2, <3>3 DEF RunnerBegins, RunnerRetries, LoopHead, Fault
    <3>4. CASE SpawnOk \/ SpawnFail
      BY <3>1, <3>2, <3>4 DEF SpawnOk, SpawnFail, Fault
    <3>5. CASE RunnerServed
      <4> ~stopRequested
        BY <3>1
      <4>1. CASE phase[process] = "rejected"
        <5>1. Fault(FALSE) \/ RunnerFinally("AUTH_FAILED", "returned", FALSE)
          BY <3>5, <4>1 DEF RunnerServed
        <5> QED BY <3>2, <5>1 DEF Fault
      <4>2. CASE phase[process] # "rejected"
        <5>1. Fault(FALSE) \/ state' = "RECONNECTING"
          BY <3>5, <4>2 DEF RunnerServed
        <5> QED BY <3>2, <5>1 DEF Fault
      <4> QED BY <4>1, <4>2
    <3>6. CASE RunnerClosed
      BY <3>1, <3>6 DEF RunnerClosed, PlaceTidy
    <3> QED BY <2>2, <3>3, <3>4, <3>5, <3>6 DEF RunnerStep, RunnerCancelled
  <2>3. ASSUME NEW p \in Processes, ChildExits(p) \/ ChildReaped(p) PROVE FALSE
    BY <2>3 DEF ChildExits, ChildReaped
  <2> QED BY <2>1, <2>2, <2>3 DEF Next
<1>2. OnlyCallersStop <=> [][Asked]_vars
  BY DEF OnlyCallersStop
<1> HIDE DEF Asked
<1> QED BY <1>1, <1>2, TypeCorrect, TidyInvariant, PTL DEF Spec

\* Where a stop() returns the supervisor is STOPPED, its runner is over and no child lives,
\* whichever of the two ways out of stop() it takes and whoever is cancelled meanwhile.
THEOREM ReturnsAtRest == Spec /\ []OpenedOnce => StopReturnsAtRest
<1> DEFINE Rest == \A c \in Callers :
             pc[c] \in {"stopClosing", "stopAwait"} /\ pc'[c] = "idle" /\ reply'[c] = "ok" =>
               state' = "STOPPED" /\ ~RunnerActive' /\ ~AnyAlive'
<1>1. TypeOK /\ Tidy /\ [Next]_vars => [Rest]_vars
  <2> SUFFICES ASSUME TypeOK, Tidy, Next, NEW c \in Callers,
                      pc[c] \in {"stopClosing", "stopAwait"}, pc'[c] = "idle", reply'[c] = "ok"
               PROVE  state' = "STOPPED" /\ ~RunnerActive' /\ ~AnyAlive'
    OBVIOUS
  <2> USE DEF Tidy
  <2>1. PICK d \in Callers : CallerStep(d)
    <3>1. ~RunnerStep
      BY DEF RunnerStep, RunnerBegins, SpawnOk, SpawnFail, RunnerServed, RunnerRetries,
             RunnerClosed, RunnerCancelled, callVars
    <3>2. ~(\E p \in Processes : ChildExits(p) \/ ChildReaped(p))
      BY DEF ChildExits, ChildReaped, callVars
    <3> QED BY <3>1, <3>2 DEF Next
  <2>2. CallerStep(c)
    BY <2>1, OneCallerMoves
  <2>3. StopClosed(c) \/ StopAwaited(c) \/ StopCancel(c)
    BY <2>2 DEF CallerStep, StartNew, StartJoin, StartLive, StartEnded, StartCancel,
                OwnerGathered, OwnerClosed, StopEnter, StopAborted
  <2>4. ~StopCancel(c)
    <3>1. ~Answer(c, "cancelled")
      BY DEF Answer, TypeOK, CallTypeOK
    <3>2. pc' # [pc EXCEPT ![c] = "stopAborting"] /\ pc' # pc
      BY DEF TypeOK, CallTypeOK
    <3> QED BY <3>1, <3>2 DEF StopCancel, callVars
  <2>5. CASE StopClosed(c)
    <3>1. /\ ~RunnerActive /\ state' = "STOPPED"
          /\ pc[c] = "stopClosing" /\ ~Alive(closing[c])
          /\ UNCHANGED <<process, phase, runner>>
      <4>1. StopTail(c) /\ pc[c] = "stopClosing" /\ ~Alive(closing[c])
            /\ UNCHANGED <<process, phase, runner>>
        BY <2>5 DEF StopClosed, childVars, runnerVars
      <4>2. ~RunnerActive
        BY <4>1 DEF StopTail, TypeOK, CallTypeOK
      <4> QED BY <4>1, <4>2 DEF StopTail
    <3>2. closing[c] = process
      BY <3>1 DEF LocksTidy, Closers, StopTidy
    <3> QED BY <3>1, <3>2 DEF ChildTidy, AnyAlive, Alive, RunnerActive
  <2>6. CASE StopAwaited(c)
    <3>1. ~RunnerActive /\ UNCHANGED <<process, phase, runner>>
      BY <2>6 DEF StopAwaited, childVars, runnerVars
    <3>2. outcome[session] = "returned" /\ state' = "STOPPED"
      BY <2>6 DEF StopAwaited, Answer, TypeOK, CallTypeOK
    <3> QED BY <3>1, <3>2 DEF ChildTidy, AnyAlive, Alive, RunnerActive, RunnerClosing
  <2> QED BY <2>3, <2>4, <2>5, <2>6
<1>2. StopReturnsAtRest <=> [][Rest]_vars
  BY DEF StopReturnsAtRest
<1> HIDE DEF Rest
<1> QED BY <1>1, <1>2, TypeCorrect, TidyInvariant, PTL DEF Spec

\* The session of OutputSession is not closed as long as this holds.
Occupied == RunnerActive \/ AnyAlive

\* The steps of the abstract session, said of the supervisor.
LEMMA SessionCases ==
  ASSUME TypeOK, TypeOK',
         \/ ~Occupied /\ Occupied' /\ ~stopRequested' /\ ~AnyAlive'
         \/ Occupied /\ ~stopRequested /\ ~AnyAlive
              /\ Occupied' /\ ~stopRequested' /\ AnyAlive'
         \/ Occupied /\ Occupied' /\ stopRequested' = stopRequested /\ AnyAlive /\ ~AnyAlive'
         \/ Occupied /\ Occupied' /\ ~stopRequested /\ stopRequested' /\ (AnyAlive' <=> AnyAlive)
         \/ Occupied /\ ~Occupied'
         \/ /\ (Occupied' <=> Occupied) /\ (AnyAlive' <=> AnyAlive)
            /\ Occupied => stopRequested' = stopRequested
  PROVE  [Contract!Next]_(Contract!vars)
<1> USE DEF AnyAlive, RunnerActive, Occupied
<1>1. CASE ~Occupied /\ Occupied' /\ ~stopRequested' /\ ~AnyAlive'
  BY <1>1 DEF Contract!Next, Contract!Open
<1>2. CASE Occupied /\ ~stopRequested /\ ~AnyAlive /\ Occupied' /\ ~stopRequested' /\ AnyAlive'
  BY <1>2 DEF Contract!Next, Contract!Spawn
<1>3. CASE Occupied /\ Occupied' /\ stopRequested' = stopRequested /\ AnyAlive /\ ~AnyAlive'
  BY <1>3 DEF Contract!Next, Contract!Exit
<1>4. CASE Occupied /\ Occupied' /\ ~stopRequested /\ stopRequested' /\ (AnyAlive' <=> AnyAlive)
  BY <1>4 DEF Contract!Next, Contract!RequestStop
<1>5. CASE Occupied /\ ~Occupied'
  BY <1>5 DEF Contract!Next, Contract!Close
<1>6. CASE /\ (Occupied' <=> Occupied) /\ (AnyAlive' <=> AnyAlive)
           /\ Occupied => stopRequested' = stopRequested
  BY <1>6 DEF Contract!vars
<1> QED BY <1>1, <1>2, <1>3, <1>4, <1>5, <1>6

\* A supervisor that is opened once implements OutputSession, cancelled calls included: a
\* child appears only while nobody asked for the end of the session, and the session never
\* ends before its child.
THEOREM Implements == Spec /\ []OpenedOnce => ImplementsSession
<1>1. Init => Contract!Init
  <2> SUFFICES ASSUME Init PROVE Contract!Init
    OBVIOUS
  <2>1. ~RunnerActive /\ ~AnyAlive
    BY DEF Init, RunnerActive, AnyAlive, Alive
  <2> QED BY <2>1 DEF Contract!Init, AnyAlive
<1>2. TypeOK /\ Tidy /\ OpenedOnce' /\ TypeOK' /\ Tidy' /\ [Next]_vars
        => [Contract!Next]_(Contract!vars)
  <2> SUFFICES ASSUME TypeOK, Tidy, OpenedOnce', TypeOK', Tidy', [Next]_vars
               PROVE  [Contract!Next]_(Contract!vars)
    OBVIOUS
  <2>1. ASSUME UNCHANGED <<stopRequested, process, phase, runner>>
        PROVE  [Contract!Next]_(Contract!vars)
    <3>1. (Occupied' <=> Occupied) /\ (AnyAlive' <=> AnyAlive)
      BY <2>1 DEF RunnerActive, AnyAlive, Alive, Occupied
    <3> QED BY <2>1, <3>1, SessionCases
  <2>2. ASSUME NEW c \in Callers, CallerStep(c) PROVE [Contract!Next]_(Contract!vars)
    <3>1. CASE StartNew(c)
      <4>1. session = 0
        BY <3>1 DEF StartNew, OpenedOnce, TypeOK, OutputTypeOK
      <4>2. runner = "none" /\ process = 0
        BY <4>1 DEF Tidy, JoinTidy, ChildTidy
      <4>3. ~AnyAlive /\ ~RunnerActive
        BY <4>2 DEF Tidy, ChildTidy, AnyAlive, Processes, RunnerActive
      <4>4. runner' = "ready" /\ ~stopRequested' /\ UNCHANGED <<process, phase>>
        BY <3>1 DEF StartNew, FreshSession, childVars
      <4>5. ~Occupied /\ Occupied' /\ ~AnyAlive'
        BY <4>3, <4>4 DEF AnyAlive, Alive, RunnerActive, Occupied
      <4> QED BY <4>4, <4>5, SessionCases
    <3>2. CASE StopEnter(c)
      <4>1. stopRequested' /\ (Occupied' <=> Occupied) /\ (AnyAlive' <=> AnyAlive)
        BY <3>2 DEF StopEnter, RunnerActive, AnyAlive, Alive, Occupied, childVars, runnerVars
      <4>2. CASE Occupied /\ ~stopRequested
        BY <4>1, <4>2, SessionCases
      <4>3. CASE ~(Occupied /\ ~stopRequested)
        <5>1. Occupied => stopRequested' = stopRequested
          BY <4>1, <4>3 DEF TypeOK, OutputTypeOK
        <5> QED BY <4>1, <5>1, SessionCases
      <4> QED BY <4>2, <4>3
    <3>3. CASE ~StartNew(c) /\ ~StopEnter(c)
      <4>1. UNCHANGED <<stopRequested, process, phase, runner>>
        BY <2>2, <3>3
           DEF CallerStep, StartJoin, StartLive, StartEnded, StartCancel, OwnerGathered,
               OwnerClosed, StopClosed, StopAwaited, StopCancel, StopAborted, childVars,
               runnerVars
      <4> QED BY <2>1, <4>1
    <3> QED BY <3>1, <3>2, <3>3
  <2>3. CASE RunnerStep
    <3>1. Occupied /\ stopRequested' = stopRequested
      BY <2>3 DEF RunnerStep, RunnerBegins, SpawnOk, SpawnFail, RunnerServed, RunnerRetries,
                  RunnerClosed, RunnerCancelled, RunnerActive, Occupied
    <3>2. ASSUME \/ AnyAlive /\ AnyAlive'
                 \/ ~AnyAlive'
                 \/ ~stopRequested /\ RunnerActive'
          PROVE  [Contract!Next]_(Contract!vars)
      BY <3>1, <3>2, SessionCases DEF Occupied
    <3>3. CASE RunnerBegins \/ RunnerRetries
      <4>1. LoopHead /\ ~AnyAlive
        BY <3>3, NoChild DEF RunnerBegins, RunnerRetries, Tidy
      <4>2. CASE UNCHANGED childVars
        BY <3>2, <4>1, <4>2 DEF AnyAlive, Alive, childVars
      <4>3. CASE ~stopRequested /\ RunnerActive'
        BY <3>2, <4>3
      <4> QED BY <4>1, <4>2, <4>3 DEF LoopHead, RunnerActive
    <3>4. CASE SpawnOk
      <4>1. AnyAlive /\ AnyAlive'
        BY <3>4 DEF SpawnOk, Tidy, ChildTidy, AnyAlive, Alive, TypeOK, OutputTypeOK
      <4> QED BY <3>2, <4>1
    <3>5. CASE SpawnFail
      <4>1. ~AnyAlive'
        BY <3>5 DEF SpawnFail, Tidy, ChildTidy, AnyAlive, Alive, TypeOK, OutputTypeOK
      <4> QED BY <3>2, <4>1
    <3>6. CASE RunnerServed \/ RunnerClosed
      <4>1. AnyAlive' <=> AnyAlive
        BY <3>6 DEF RunnerServed, RunnerClosed, childVars, AnyAlive, Alive
      <4> QED BY <3>2, <4>1
    <3>7. CASE RunnerCancelled
      <4>1. (\A p \in Processes : Alive(p)' => Alive(p)) \/ UNCHANGED phase
        BY <3>7 DEF RunnerCancelled, Alive
      <4>2. AnyAlive' => AnyAlive
        BY <3>7, <4>1 DEF RunnerCancelled, AnyAlive, Alive
      <4> QED BY <3>2, <4>2
    <3> QED BY <2>3, <3>3, <3>4, <3>5, <3>6, <3>7 DEF RunnerStep
  <2>4. ASSUME NEW p \in Processes, ChildExits(p) \/ ChildReaped(p)
        PROVE  [Contract!Next]_(Contract!vars)
    <3>1. /\ Alive(p)
          /\ phase'[p] \in {"exited", "rejected"}
          /\ \A q \in Processes : q # p => phase'[q] = phase[q]
      BY <2>4 DEF ChildExits, ChildReaped, Alive, TypeOK, OutputTypeOK
    <3>2. AnyAlive /\ ~AnyAlive'
      BY <3>1 DEF Tidy, ChildTidy, AnyAlive, Alive
    <3>3. UNCHANGED <<stopRequested, runner>>
      BY <2>4 DEF ChildExits, ChildReaped, runnerVars
    <3> QED BY <3>2, <3>3, SessionCases DEF RunnerActive, Occupied
  <2>5. CASE UNCHANGED vars
    BY <2>1, <2>5 DEF vars, childVars, runnerVars
  <2> QED BY <2>2, <2>3, <2>4, <2>5 DEF Next
<1> QED BY <1>1, <1>2, TypeCorrect, TidyInvariant, PTL DEF Spec, ImplementsSession, Contract!Spec
=============================================================================
