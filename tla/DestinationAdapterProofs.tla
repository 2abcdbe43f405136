---------------------- MODULE DestinationAdapterProofs ----------------------
(***************************************************************************)
(* Theorems about DestinationAdapter for any number of tasks and sessions. *)
(*                                                                         *)
(* As long as no restart begins to replace a supervisor while another one  *)
(* replaces it, only the newest supervisor has a session.  The invariant   *)
(* that is inductive, Owned, adds that one task at most replaces, and that *)
(* it waits for the supervisor which is still the newest: the facts that   *)
(* two restarts which cross lose.                                          *)
(***************************************************************************)
EXTENDS DestinationAdapter, TLAPS

\* A restart that waits for a supervisor waits for the newest one, alone.
ReplacesAlone ==
  \A t \in Tasks : pc[t] = "replacing" =>
    /\ target[t] = current
    /\ \A u \in Tasks : pc[u] = "replacing" => u = t

\* Supervisors that are not the newest are closed, without a child.
OthersClosed == \A i \in Sessions : i # current => session[i] = Fresh

\* A closed session has no child.
ClosedIsBare ==
  \A i \in Sessions : session[i].phase = "closed" => session[i] = Fresh

Owned == TypeOK /\ ClosedIsBare /\ (~crossed => ReplacesAlone /\ OthersClosed)

LEMMA AwaitNames ==
  {"idle", "checking", "replacing", "starting", "stopping"} \subseteq Awaits
  BY DEF Awaits

-----------------------------------------------------------------------------
(* Type correctness. *)

LEMMA InitType == ASSUME AdapterAssumption, Init PROVE TypeOK
  <1>0. crossed \in BOOLEAN
    BY DEF Init
  <1>1. /\ current \in 0 .. MaxSessions
        /\ pc \in [Tasks -> Awaits] /\ target \in [Tasks -> 0 .. MaxSessions]
    BY DEF AdapterAssumption, Init, Awaits
  <1>2. session \in [Sessions -> [phase : {"closed", "open", "closing"}, child : BOOLEAN]]
    BY DEF Init, Fresh
  <1> QED BY <1>0, <1>1, <1>2 DEF TypeOK

LEMMA CreateType ==
  ASSUME AdapterAssumption, TypeOK, NEW t \in Tasks, Create(t)
  PROVE  /\ current' \in 0 .. MaxSessions
         /\ session' \in [Sessions -> [phase : {"closed", "open", "closing"}, child : BOOLEAN]]
         /\ pc' \in [Tasks -> Awaits] /\ target' \in [Tasks -> 0 .. MaxSessions]
  <1>1. current + 1 \in Sessions /\ current' \in 0 .. MaxSessions
    BY DEF Create, TypeOK, AdapterAssumption, Sessions
  <1>2. session' \in [Sessions -> [phase : {"closed", "open", "closing"}, child : BOOLEAN]]
    BY <1>1 DEF Create, TypeOK, Opened
  <1>3. pc' \in [Tasks -> Awaits] /\ target' \in [Tasks -> 0 .. MaxSessions]
    BY <1>1, AwaitNames DEF Create, Goto, TypeOK
  <1> QED BY <1>1, <1>2, <1>3

LEMMA GotoType ==
  ASSUME TypeOK, NEW t \in Tasks, NEW place \in Awaits, NEW i \in 0 .. MaxSessions,
         Goto(t, place, i)
  PROVE  pc' \in [Tasks -> Awaits] /\ target' \in [Tasks -> 0 .. MaxSessions]
  BY DEF Goto, TypeOK

LEMMA RequestStopType ==
  ASSUME TypeOK, CurrentOpen, RequestStop
  PROVE  /\ current \in Sessions
         /\ session' = [session EXCEPT ![current] = session'[current]]
         /\ session'[current].child = session[current].child
         /\ session'[current].phase \in {"open", "closing"}
         /\ session' \in [Sessions -> [phase : {"closed", "open", "closing"}, child : BOOLEAN]]
  <1>1. current \in Sessions
    BY DEF TypeOK, CurrentOpen, Sessions
  <1>2. session[current] \in [phase : {"open", "closing"}, child : BOOLEAN]
    BY <1>1 DEF TypeOK, CurrentOpen
  <1>3. CASE session[current].phase = "open"
    <2>1. session' = [session EXCEPT ![current].phase = "closing"]
      BY <1>3, <1>1 DEF RequestStop
    <2> QED BY <2>1, <1>1, <1>2 DEF TypeOK
  <1>4. CASE session[current].phase = "closing"
    <2>1. session' = [session EXCEPT ![current].phase = session[current].phase]
      BY <1>4, <1>1 DEF RequestStop
    <2>2. session' = session
      BY <2>1, <1>1, <1>2 DEF TypeOK
    <2> QED BY <2>2, <1>1, <1>2 DEF TypeOK
  <1> QED BY <1>2, <1>3, <1>4

LEMMA StepType ==
  ASSUME AdapterAssumption, TypeOK, [Next]_vars
  PROVE  TypeOK'
  <1>0. current \in 0 .. MaxSessions /\ 0 \in 0 .. MaxSessions
    BY DEF TypeOK, AdapterAssumption
  <1>1. ASSUME NEW t \in Tasks,
               \/ Restart(t) \/ Refused(t) \/ ReplaceFailed(t) \/ Started(t) \/ Stopped(t)
        PROVE  TypeOK'
    <2>1. UNCHANGED <<current, session, crossed>>
      BY <1>1 DEF Restart, Refused, ReplaceFailed, Started, Stopped
    <2>2. pc' \in [Tasks -> Awaits] /\ target' \in [Tasks -> 0 .. MaxSessions]
      BY <1>0, <1>1, GotoType, AwaitNames
         DEF Restart, Refused, ReplaceFailed, Started, Stopped, Return
    <2> QED BY <2>1, <2>2 DEF TypeOK
  <1>2. ASSUME NEW t \in Tasks, Checked(t) PROVE TypeOK'
    <2>0. crossed' \in BOOLEAN
      BY <1>2 DEF Checked
    <2>1. CASE Create(t)
      BY <2>0, <2>1, CreateType DEF TypeOK
    <2>2. CASE CurrentOpen /\ RequestStop /\ Goto(t, "replacing", current) /\ UNCHANGED current
      BY <2>0, <2>2, <1>0, RequestStopType, GotoType, AwaitNames DEF TypeOK
    <2> QED BY <1>2, <2>1, <2>2 DEF Checked
  <1>3. ASSUME NEW t \in Tasks, Replaced(t) PROVE TypeOK'
    BY <1>3, CreateType DEF Replaced, TypeOK
  <1>4. ASSUME NEW t \in Tasks, RestartCancelled(t) PROVE TypeOK'
    <2>1. pc' \in [Tasks -> Awaits] /\ target' \in [Tasks -> 0 .. MaxSessions]
      <3>1. target[t] \in 0 .. MaxSessions
        BY DEF TypeOK
      <3>2. CASE pc[t] = "starting"
        BY <1>4, <3>1, <3>2, GotoType, AwaitNames DEF RestartCancelled
      <3>3. CASE pc[t] # "starting"
        BY <1>4, <1>0, <3>3, GotoType, AwaitNames DEF RestartCancelled
      <3> QED BY <3>2, <3>3
    <2>2. session' \in [Sessions -> [phase : {"closed", "open", "closing"}, child : BOOLEAN]]
      BY <1>4 DEF RestartCancelled, TypeOK
    <2> QED BY <1>4, <2>1, <2>2 DEF RestartCancelled, TypeOK
  <1>5. ASSUME NEW t \in Tasks, Stop(t) PROVE TypeOK'
    BY <1>5, <1>0, RequestStopType, GotoType, AwaitNames DEF Stop, TypeOK
  <1>6. ASSUME NEW i \in Sessions, Supervise(i) PROVE TypeOK'
    <2>1. CASE session' = [session EXCEPT ![i].child = TRUE]
      BY <1>6, <2>1 DEF Supervise, TypeOK
    <2>2. CASE session' = [session EXCEPT ![i].child = FALSE]
      BY <1>6, <2>2 DEF Supervise, TypeOK
    <2>3. CASE session' = [session EXCEPT ![i] = Fresh]
      BY <1>6, <2>3 DEF Supervise, TypeOK, Fresh
    <2> QED BY <1>6, <2>1, <2>2, <2>3 DEF Supervise
  <1>7. CASE UNCHANGED vars
    BY <1>7 DEF vars, TypeOK
  <1> QED BY <1>1, <1>2, <1>3, <1>4, <1>5, <1>6, <1>7 DEF Next

\* The variables of the adapter, of its supervisors and of the tasks that use it
\* keep their types.
THEOREM AdapterTypes == Spec => []TypeOK
  <1>1. Init => TypeOK
    BY AdapterAssumption, InitType
  <1>2. TypeOK /\ [Next]_vars => TypeOK'
    BY AdapterAssumption, StepType
  <1> QED BY <1>1, <1>2, PTL DEF Spec

-----------------------------------------------------------------------------
(* Only the newest supervisor has a session. *)

LEMMA InitOwned == ASSUME AdapterAssumption, Init PROVE Owned
  <1>1. TypeOK
    BY InitType
  <1> QED BY <1>1 DEF Owned, Init, ReplacesAlone, OthersClosed, ClosedIsBare

\* A step that leaves the sessions alone and sends one task anywhere but to
\* "replacing".
LEMMA TaskMoves ==
  ASSUME Owned, TypeOK', NEW t \in Tasks, NEW place, NEW i, Goto(t, place, i),
         UNCHANGED <<current, session, crossed>>, place # "replacing"
  PROVE  Owned'
  <1>1. ReplacesAlone => ReplacesAlone'
    BY DEF Owned, TypeOK, Goto, ReplacesAlone
  <1>2. (OthersClosed => OthersClosed') /\ ClosedIsBare'
    BY DEF Owned, OthersClosed, ClosedIsBare
  <1> QED BY <1>1, <1>2 DEF Owned

\* A new supervisor replaces one that is closed; unless restarts have crossed nobody is
\* left waiting for the old one.
LEMMA CreateOwned ==
  ASSUME AdapterAssumption, Owned, TypeOK', NEW t \in Tasks, Create(t),
         ~crossed' => /\ ~crossed
                      /\ \A i \in Sessions : session[i] = Fresh
                      /\ \A u \in Tasks \ {t} : pc[u] # "replacing"
  PROVE  Owned'
  <1>0. current + 1 \in Sessions
    BY DEF Owned, TypeOK, Create, AdapterAssumption, Sessions
  <1>1. ClosedIsBare'
    BY <1>0 DEF Create, ClosedIsBare, Opened, Owned, TypeOK
  <1>2. ASSUME ~crossed' PROVE OthersClosed'
    BY <1>0, <1>2 DEF Create, OthersClosed, Owned, TypeOK
  <1>3. ASSUME ~crossed' PROVE ReplacesAlone'
    <2>1. pc'[t] = "starting" /\ \A u \in Tasks : u # t => pc'[u] = pc[u]
      BY <1>0 DEF Create, Goto, Owned, TypeOK
    <2> QED BY <1>3, <2>1 DEF ReplacesAlone
  <1> QED BY <1>1, <1>2, <1>3 DEF Owned

\* A request to end the newest session leaves the others as they are.
LEMMA RequestStopOwned ==
  ASSUME Owned, CurrentOpen, RequestStop, UNCHANGED current
  PROVE  (OthersClosed => OthersClosed') /\ ClosedIsBare'
  BY RequestStopType DEF Owned, OthersClosed, ClosedIsBare, TypeOK

LEMMA StepOwned ==
  ASSUME AdapterAssumption, Owned, [Next]_vars
  PROVE  Owned'
  <1> USE DEF Owned
  <1>0. TypeOK'
    BY StepType
  <1>1. ASSUME NEW t \in Tasks, Restart(t) PROVE Owned'
    BY <1>0, <1>1, TaskMoves DEF Restart
  <1>2. ASSUME NEW t \in Tasks,
               Refused(t) \/ ReplaceFailed(t) \/ Started(t) \/ Stopped(t)
        PROVE  Owned'
    <2>1. Goto(t, "idle", 0) /\ UNCHANGED <<current, session, crossed>>
      BY <1>2 DEF Refused, ReplaceFailed, Started, Stopped, Return
    <2> QED BY <1>0, <2>1, TaskMoves
  <1>3. ASSUME NEW t \in Tasks, Checked(t) PROVE Owned'
    <2>0. ~crossed' => ~crossed /\ \A u \in Tasks \ {t} : pc[u] # "replacing"
      BY <1>3 DEF Checked
    <2>1. CASE ~CurrentOpen /\ Create(t)
      <3>1. OthersClosed => \A i \in Sessions : session[i] = Fresh
        BY <2>1 DEF CurrentOpen, OthersClosed, ClosedIsBare, Sessions
      <3> QED BY <2>0, <2>1, <3>1, <1>0, CreateOwned
    <2>2. CASE CurrentOpen /\ RequestStop /\ Goto(t, "replacing", current) /\ UNCHANGED current
      <3>1. (OthersClosed => OthersClosed') /\ ClosedIsBare'
        BY <2>2, RequestStopOwned
      <3>2. ASSUME ~crossed' PROVE ReplacesAlone'
        <4>1. /\ pc'[t] = "replacing" /\ target'[t] = current' /\ current' = current
              /\ \A u \in Tasks : u # t => pc'[u] = pc[u] /\ target'[u] = target[u]
          BY <2>2 DEF Goto, TypeOK
        <4> QED BY <4>1, <3>2, <2>0 DEF ReplacesAlone
      <3> QED BY <1>0, <2>0, <3>1, <3>2
    <2> QED BY <1>3, <2>1, <2>2 DEF Checked
  <1>4. ASSUME NEW t \in Tasks, Replaced(t) PROVE Owned'
    <2>1. ASSUME ~crossed'
          PROVE  /\ ~crossed
                 /\ \A i \in Sessions : session[i] = Fresh
                 /\ \A u \in Tasks \ {t} : pc[u] # "replacing"
      BY <1>4, <2>1 DEF Replaced, ReplacesAlone, OthersClosed, ClosedIsBare
    <2> QED BY <2>1, <1>0, <1>4, CreateOwned DEF Replaced
  <1>5. ASSUME NEW t \in Tasks, RestartCancelled(t) PROVE Owned'
    <2>1. \A i \in Sessions : session[i].phase = "closed" => session'[i] = session[i]
      BY <1>5 DEF RestartCancelled, TypeOK
    <2>2. \A i \in Sessions : session'[i] # session[i] => session'[i].phase = "closing"
      BY <1>5 DEF RestartCancelled, TypeOK
    <2>3. OthersClosed => OthersClosed'
      BY <1>5, <2>1 DEF RestartCancelled, OthersClosed, Fresh
    <2>4. ClosedIsBare'
      BY <2>2 DEF ClosedIsBare
    <2>5. ReplacesAlone => ReplacesAlone'
      BY <1>5 DEF RestartCancelled, Goto, TypeOK, ReplacesAlone
    <2> QED BY <1>0, <1>5, <2>3, <2>4, <2>5 DEF RestartCancelled
  <1>6. ASSUME NEW t \in Tasks, Stop(t) PROVE Owned'
    <2>1. (OthersClosed => OthersClosed') /\ ClosedIsBare'
      BY <1>6, RequestStopOwned DEF Stop
    <2>2. ReplacesAlone => ReplacesAlone'
      BY <1>6 DEF Stop, Goto, TypeOK, ReplacesAlone
    <2> QED BY <1>0, <1>6, <2>1, <2>2 DEF Stop
  <1>7. ASSUME NEW i \in Sessions, Supervise(i) PROVE Owned'
    <2>1. OthersClosed => i = current
      BY <1>7 DEF Supervise, OthersClosed, Fresh
    <2>2. OthersClosed => OthersClosed'
      BY <1>7, <2>1 DEF Supervise, OthersClosed, TypeOK
    <2>3. ClosedIsBare'
      BY <1>7 DEF Supervise, ClosedIsBare, TypeOK, Opened, Fresh
    <2>4. ReplacesAlone => ReplacesAlone'
      BY <1>7 DEF Supervise, ReplacesAlone
    <2> QED BY <1>0, <1>7, <2>2, <2>3, <2>4 DEF Supervise
  <1>8. CASE UNCHANGED vars
    BY <1>0, <1>8 DEF vars, ReplacesAlone, OthersClosed, ClosedIsBare
  <1> QED BY <1>1, <1>2, <1>3, <1>4, <1>5, <1>6, <1>7, <1>8 DEF Next

\* Whoever restarts or stops: while no two restarts have replaced one supervisor, a task
\* that replaces one is alone and replaces the newest, and all others are closed.
THEOREM AlwaysOwned == Spec => []Owned
  <1>1. Init => Owned
    BY AdapterAssumption, InitOwned
  <1>2. Owned /\ [Next]_vars => Owned'
    BY AdapterAssumption, StepOwned
  <1> QED BY <1>1, <1>2, PTL DEF Spec

\* Until two restarts replace the same supervisor, every supervisor but the newest has
\* ended, whoever restarts, reconnects, cancels or stops meanwhile: stop() reaches every
\* child.
THEOREM NewestIsReached == Spec => []StopReachesAll
  <1>1. Owned => StopReachesAll
    BY DEF Owned, OthersClosed, StopReachesAll, Fresh
  <1> QED BY <1>1, AlwaysOwned, PTL

\* Until then the destination has at most one active child, for any number of tasks that
\* restart or reconnect it.
THEOREM OneChildPerDestination == Spec => []OneActiveChild
  <1>1. Owned => OneActiveChild
    BY DEF Owned, OthersClosed, OneActiveChild, OneChild, Fresh
  <1> QED BY <1>1, AlwaysOwned, PTL

-----------------------------------------------------------------------------
(* Supervisors are used as their specification allows.                     *)

\* The supervisors that restart() has yet to make.
YetToCome == \A i \in Sessions : i > current => session[i] = Fresh

\* One session goes on as OutputSession allows, and the others stay as they are.
Advances(i) ==
  /\ Session(i)!Next \/ session'[i] = session[i]
  /\ \A j \in Sessions : j # i => session'[j] = session[j]

LEMMA CreateAdvances ==
  ASSUME AdapterAssumption, TypeOK, YetToCome, NEW t \in Tasks, Create(t)
  PROVE  YetToCome' /\ \E i \in Sessions : Advances(i)
  <1>1. PICK i \in Sessions : i = current + 1
    BY DEF Create, TypeOK, AdapterAssumption, Sessions
  <1>2. current' = i /\ session' = [session EXCEPT ![i] = Opened] /\ i > current
    BY <1>1 DEF Create, TypeOK
  <1>3. session[i] = Fresh
    BY <1>2 DEF YetToCome
  <1>4. session'[i] = Opened /\ \A j \in Sessions : j # i => session'[j] = session[j]
    BY <1>2 DEF TypeOK
  <1>5. Session(i)!Open
    BY <1>3, <1>4 DEF Session!Open, Fresh, Opened
  <1>6. ASSUME NEW j \in Sessions, j > i PROVE session'[j] = Fresh
    BY <1>1, <1>4, <1>6 DEF YetToCome, TypeOK, AdapterAssumption, Sessions
  <1> QED BY <1>2, <1>4, <1>5, <1>6 DEF YetToCome, Advances, Session!Next

LEMMA RequestAdvances ==
  ASSUME TypeOK, YetToCome, CurrentOpen, RequestStop, UNCHANGED current
  PROVE  YetToCome' /\ \E i \in Sessions : Advances(i)
  <1>1. PICK i \in Sessions : i = current
    BY RequestStopType
  <1>2. /\ session'[i].child = session[i].child
        /\ session'[i].phase = IF session[i].phase = "open" THEN "closing" ELSE session[i].phase
        /\ \A j \in Sessions : j # i => session'[j] = session[j]
    BY <1>1 DEF RequestStop, TypeOK
  <1>3. CASE session[i].phase = "open"
    BY <1>1, <1>2, <1>3 DEF Advances, Session!Next, Session!RequestStop, YetToCome, TypeOK
  <1>4. CASE session[i].phase # "open"
    <2>1. session'[i] = session[i]
      BY <1>1, <1>2, <1>4, RequestStopType DEF TypeOK
    <2> QED BY <1>1, <1>2, <2>1 DEF Advances, YetToCome
  <1> QED BY <1>3, <1>4

LEMMA StepAdvances ==
  ASSUME AdapterAssumption, TypeOK, YetToCome, Next
  PROVE  YetToCome' /\ (UNCHANGED session \/ \E i \in Sessions : Advances(i))
  <1>1. ASSUME UNCHANGED <<current, session>>
        PROVE  YetToCome' /\ UNCHANGED session
    BY <1>1 DEF YetToCome
  <1>2. ASSUME NEW t \in Tasks,
               \/ Restart(t) \/ Refused(t) \/ ReplaceFailed(t) \/ Started(t) \/ Stopped(t)
        PROVE  UNCHANGED <<current, session>>
    BY <1>2 DEF Restart, Refused, ReplaceFailed, Started, Stopped
  <1>3. ASSUME NEW t \in Tasks, Checked(t) \/ Replaced(t)
        PROVE  YetToCome' /\ \E i \in Sessions : Advances(i)
    BY <1>3, CreateAdvances, RequestAdvances DEF Checked, Replaced
  <1>4. ASSUME NEW t \in Tasks, Stop(t)
        PROVE  YetToCome' /\ \E i \in Sessions : Advances(i)
    BY <1>4, RequestAdvances DEF Stop
  <1>5. ASSUME NEW t \in Tasks, RestartCancelled(t)
        PROVE  YetToCome' /\ (UNCHANGED session \/ \E i \in Sessions : Advances(i))
    <2>1. CASE UNCHANGED session
      BY <1>1, <1>5, <2>1 DEF RestartCancelled
    <2>2. CASE /\ session[target[t]].phase = "open"
               /\ session' = [session EXCEPT ![target[t]].phase = "closing"]
      <3>1. PICK i \in 0 .. MaxSessions : i = target[t]
        BY DEF TypeOK
      <3>2. CASE i \in Sessions
        <4>1. /\ session'[i] = [session[i] EXCEPT !.phase = "closing"]
              /\ \A j \in Sessions : j # i => session'[j] = session[j]
          BY <2>2, <3>1, <3>2 DEF TypeOK
        <4>2. Session(i)!RequestStop
          BY <2>2, <3>1, <3>2, <4>1 DEF Session!RequestStop, TypeOK
        <4>3. session[i] # Fresh
          BY <2>2, <3>1 DEF Fresh
        <4>4. YetToCome'
          BY <1>5, <4>1, <4>3 DEF YetToCome, RestartCancelled
        <4> QED BY <3>2, <4>1, <4>2, <4>4 DEF Advances, Session!Next
      <3>3. CASE i \notin Sessions
        <4>1. UNCHANGED session
          BY <2>2, <3>1, <3>3 DEF TypeOK
        <4> QED BY <2>1, <4>1
      <3> QED BY <3>2, <3>3
    <2> QED BY <1>5, <2>1, <2>2 DEF RestartCancelled
  <1>6. ASSUME NEW i \in Sessions, Supervise(i)
        PROVE  YetToCome' /\ Advances(i)
    <2>1. session[i].phase # "closed" /\ session[i] # Fresh /\ UNCHANGED current
      BY <1>6 DEF Supervise, Fresh
    <2>2. \A j \in Sessions : j # i => session'[j] = session[j]
      BY <1>6 DEF Supervise, TypeOK
    <2>3. YetToCome'
      BY <2>1, <2>2 DEF YetToCome
    <2>4. CASE session[i] = Opened /\ session' = [session EXCEPT ![i].child = TRUE]
      <3>1. session'[i] = [session[i] EXCEPT !.child = TRUE]
        BY <2>4 DEF TypeOK
      <3>2. Session(i)!Spawn
        BY <2>4, <3>1 DEF Session!Spawn, Opened
      <3> QED BY <2>2, <2>3, <3>2 DEF Advances, Session!Next
    <2>5. CASE session[i].child /\ session' = [session EXCEPT ![i].child = FALSE]
      <3>1. session'[i] = [session[i] EXCEPT !.child = FALSE]
        BY <2>5 DEF TypeOK
      <3>2. Session(i)!Exit
        BY <2>5, <3>1 DEF Session!Exit, TypeOK
      <3> QED BY <2>2, <2>3, <3>2 DEF Advances, Session!Next
    <2>6. CASE session' = [session EXCEPT ![i] = Fresh]
      <3>1. Session(i)!Close
        BY <2>1, <2>6 DEF Session!Close, Fresh, TypeOK
      <3> QED BY <2>2, <2>3, <3>1 DEF Advances, Session!Next
    <2> QED BY <1>6, <2>4, <2>5, <2>6 DEF Supervise
  <1> QED BY <1>1, <1>2, <1>3, <1>4, <1>5, <1>6 DEF Next

\* restart(), reconnect() and stop() open each supervisor once and ask of it only what its
\* specification, OutputSession, allows: for any number of tasks that restart.
THEOREM SessionsAreUsed == Spec => UsesSessions
  <1> DEFINE Stepwise == \A i \in Sessions : Session(i)!Next \/ UNCHANGED session[i]
             Starts   == \A i \in Sessions : Session(i)!Init
  <1>0. Init => TypeOK
    BY AdapterAssumption, InitType
  <1>1. Init => Starts /\ TypeOK /\ YetToCome
    BY <1>0 DEF Init, Session!Init, Fresh, YetToCome
  <1>2. TypeOK /\ YetToCome /\ [Next]_vars => TypeOK' /\ YetToCome' /\ [Stepwise]_session
    <2> SUFFICES ASSUME TypeOK, YetToCome, [Next]_vars
                 PROVE  TypeOK' /\ YetToCome' /\ [Stepwise]_session
      OBVIOUS
    <2>1. TypeOK'
      BY AdapterAssumption, StepType
    <2>2. CASE UNCHANGED vars
      BY <2>1, <2>2 DEF vars, YetToCome
    <2>3. CASE Next
      <3>1. YetToCome' /\ (UNCHANGED session \/ \E i \in Sessions : Advances(i))
        BY <2>3, AdapterAssumption, StepAdvances
      <3>2. [Stepwise]_session
        BY <3>1 DEF Advances
      <3> QED BY <2>1, <3>1, <3>2
    <2> QED BY <2>2, <2>3
  <1>3. UsesSessions <=> Starts /\ [][Stepwise]_session
    BY DEF UsesSessions
  <1> HIDE DEF Stepwise, Starts
  <1> QED BY <1>1, <1>2, <1>3, PTL DEF Spec

=============================================================================
