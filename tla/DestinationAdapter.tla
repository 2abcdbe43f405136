------------------------- MODULE DestinationAdapter -------------------------
(***************************************************************************)
(* runtime.py: _DestinationAdapter, which gives one destination a new      *)
(* OutputSupervisor for every command, and the tasks that use it: the      *)
(* controller's task restarts and stops it, its callers stop it, and       *)
(* RuntimeManager.reconnect_destination() restarts it.                     *)
(*                                                                         *)
(* Each supervisor is an OutputSession, what OutputSupervisor is shown to  *)
(* implement: a session with a child that comes and goes.  A task that     *)
(* called its stop() waits for the session to close, one that called its   *)
(* start() waits for the child or for the end of the session.              *)
(***************************************************************************)
EXTENDS Integers

CONSTANTS
  Restarters,  \* tasks that call restart(): the controller's and reconnect requests
  Stoppers,    \* tasks that call stop() only
  MaxSessions  \* bound: supervisors a behaviour may create

Tasks == Restarters \cup Stoppers

ASSUME AdapterAssumption ==
  /\ Restarters \cap Stoppers = {}
  /\ MaxSessions \in Nat

Sessions == 1 .. MaxSessions

VARIABLES
  current,  \* _supervisor: the newest session, 0 for None
  session,  \* the supervisors created so far
  pc,       \* where each task is suspended
  target,   \* the session it waits for
  crossed   \* history: two restarts waited for the same old supervisor

vars == <<current, session, pc, target, crossed>>

Awaits == {"idle", "checking", "replacing", "starting", "stopping"}

Fresh  == [phase |-> "closed", child |-> FALSE]
Opened == [phase |-> "open", child |-> FALSE]

Session(i) == INSTANCE OutputSession WITH
  phase <- session[i].phase, child <- session[i].child

Init ==
  /\ current = 0
  /\ session = [i \in Sessions |-> Fresh]
  /\ pc = [t \in Tasks |-> "idle"]
  /\ target = [t \in Tasks |-> 0]
  /\ crossed = FALSE

-----------------------------------------------------------------------------
Goto(t, place, i) ==
  /\ pc' = [pc EXCEPT ![t] = place]
  /\ target' = [target EXCEPT ![t] = i]

Return(t) == Goto(t, "idle", 0)

\* The adapter has a supervisor to stop.
CurrentOpen == current # 0 /\ session[current].phase # "closed"

\* Deviation: the supervisor is given up at once, with its child.
RequestStopAbruptly == session' = [session EXCEPT ![current].phase = "closed"]

\* OutputSupervisor.stop() of the current supervisor begins.
RequestStop ==
  session' = [session EXCEPT ![current].phase = IF @ = "open" THEN "closing" ELSE @]

\* restart() makes a new supervisor the current one and calls its start().
Create(t) ==
  /\ current < MaxSessions
  /\ current' = current + 1
  /\ session' = [session EXCEPT ![current + 1] = Opened]
  /\ Goto(t, "starting", current + 1)

\* restart() begins with the DNS check of the destination.
Restart(t) ==
  /\ t \in Restarters
  /\ pc[t] = "idle"
  /\ Goto(t, "checking", 0)
  /\ UNCHANGED <<current, session, crossed>>

\* The address was refused: the old output goes on.
Refused(t) ==
  /\ pc[t] = "checking"
  /\ Return(t)
  /\ UNCHANGED <<current, session, crossed>>

\* The check is over; no lock keeps two restarts apart, so the second one may find
\* the first waiting for the old supervisor.
Checked(t) ==
  /\ pc[t] = "checking"
  /\ crossed' = (crossed \/ \E u \in Tasks \ {t} : pc[u] = "replacing")
  /\ \/ ~CurrentOpen /\ Create(t)
     \/ /\ CurrentOpen
        /\ RequestStop
        /\ Goto(t, "replacing", current)
        /\ UNCHANGED current

\* Deviation: restart() does not wait for the old supervisor.
ReplacedEarly(t) == pc[t] = "replacing" /\ Create(t) /\ UNCHANGED crossed

\* The stop() inside restart() returned.
Replaced(t) ==
  /\ pc[t] = "replacing"
  /\ session[target[t]].phase = "closed"
  /\ Create(t)
  /\ UNCHANGED crossed

\* The stop() inside restart() raised what ended the session.
ReplaceFailed(t) ==
  /\ pc[t] = "replacing"
  /\ session[target[t]].phase = "closed"
  /\ Return(t)
  /\ UNCHANGED <<current, session, crossed>>

\* start() returned or raised.
Started(t) ==
  /\ pc[t] = "starting"
  /\ session[target[t]].child \/ session[target[t]].phase = "closed"
  /\ Return(t)
  /\ UNCHANGED <<current, session, crossed>>

\* The task is cancelled inside restart(): a start() under way cancels its runner
\* and closes its child, a stop() under way has asked for the end already.
RestartCancelled(t) ==
  /\ pc[t] \in {"checking", "replacing", "starting"}
  /\ session' = IF pc[t] = "starting" /\ session[target[t]].phase = "open"
                THEN [session EXCEPT ![target[t]].phase = "closing"]
                ELSE session
  /\ Goto(t, IF pc[t] = "starting" THEN "stopping" ELSE "idle",
             IF pc[t] = "starting" THEN target[t] ELSE 0)
  /\ UNCHANGED <<current, crossed>>

\* stop()
Stop(t) ==
  /\ pc[t] = "idle"
  /\ CurrentOpen
  /\ RequestStop
  /\ Goto(t, "stopping", current)
  /\ UNCHANGED <<current, crossed>>

Stopped(t) ==
  /\ pc[t] = "stopping"
  /\ session[target[t]].phase = "closed"
  /\ Return(t)
  /\ UNCHANGED <<current, session, crossed>>

-----------------------------------------------------------------------------
(* The supervisors.                                                        *)

\* A child is spawned, exits or is reaped; a session ends by itself after a
\* rejection or a failed spawn, or on request.
Supervise(i) ==
  /\ session[i].phase # "closed"
  /\ \/ /\ session[i] = Opened
        /\ session' = [session EXCEPT ![i].child = TRUE]
     \/ /\ session[i].child
        /\ session' = [session EXCEPT ![i].child = FALSE]
     \/ session' = [session EXCEPT ![i] = Fresh]
  /\ UNCHANGED <<current, pc, target, crossed>>

Next ==
  \/ \E t \in Tasks :
       \/ Restart(t) \/ Refused(t) \/ Checked(t) \/ Replaced(t) \/ ReplaceFailed(t)
       \/ Started(t) \/ RestartCancelled(t) \/ Stop(t) \/ Stopped(t)
  \/ \E i \in Sessions : Supervise(i)

Spec == Init /\ [][Next]_vars

-----------------------------------------------------------------------------
TypeOK ==
  /\ current \in 0 .. MaxSessions
  /\ session \in [Sessions -> [phase : {"closed", "open", "closing"}, child : BOOLEAN]]
  /\ pc \in [Tasks -> Awaits]
  /\ target \in [Tasks -> 0 .. MaxSessions]
  /\ crossed \in BOOLEAN

\* At most one child is active for a destination.
OneChild == \A i, j \in Sessions : session[i].child /\ session[j].child => i = j

\* One supervisor owns one destination and at most one child is active for it,
\* however restarts, reconnects, stops and cancellations of them interleave, as long
\* as no restart begins to replace a supervisor that another one is replacing.
OneActiveChild == ~crossed => OneChild

\* Under the same condition only the newest supervisor has a session, so that stop()
\* reaches every child.
StopReachesAll == ~crossed => \A i \in Sessions : session[i].phase # "closed" => i = current

\* The adapter opens each supervisor once and uses it as its contract allows.
UsesSessions ==
  /\ \A i \in Sessions : Session(i)!Init
  /\ [][\A i \in Sessions : Session(i)!Next \/ UNCHANGED session[i]]_session
=============================================================================
