------------------------- MODULE ChildProcessProofs -------------------------
(***************************************************************************)
(* Theorems about ChildProcess for any number of tasks that call stop(),   *)
(* each of which may be cancelled, on every operating system.              *)
(***************************************************************************)
EXTENDS ChildProcess, TLAPS

\* Where a task is while it deals with a child, once it knows that the child has been
\* reaped, and once it has cleaned the tree.
Inside   == {"gentle", "killing", "reaping", "cleaning", "drain", "draining"}
Reaping  == {"cleaning", "drain", "draining"}
Draining == {"drain", "draining"}
Entered  == (Suspended \ {"locks"}) \cup {"returned", "raised", "failed"}

\* No descendant lives that a group or a job could reach.
TreeIsDown == helper \in Live => control = "taskkill"

\* Everything that ffmpeg wrote has been looked at.
Heard == main = "exited" /\ refusal # "written"

\* A task that stops is past start(), and no start() follows it.
StartsOrderly ==
  /\ \A s \in Stoppers : pc[s] # "idle" => requested
  /\ \A s \in Stoppers : pc[s] \in Entered => pc[Runner] # "spawning"
  /\ \A s \in Stoppers : pc[s] # "spawning"
  /\ \A t \in Tasks : pc[t] \in Inside => main # "none"
  /\ pc[Runner] \in {"idle", "spawning"} => main = "none"
  /\ main = "none" => helper = "none" /\ control = "none" /\ reader = "none"

\* taskkill runs for a task that waits for it, where there is no other way.  A tree that
\* was killed stays dead.
TreeOrderly ==
  /\ taskkill # Nobody => control = "taskkill" /\ pc[taskkill] \in {"killing", "cleaning"}
  /\ treeDone => main \in {"dying", "exited"} /\ helper \notin Live

\* What each task knows of the child, its tree and its output.
EndsOrderly ==
  /\ \A t \in Tasks : pc[t] \in Reaping => main = "exited"
  /\ \A t \in Tasks : pc[t] \in Draining => TreeIsDown
  /\ \A s \in Stoppers : pc[s] \in {"returned", "raised"} =>
       main \in {"none", "exited"} /\ TreeIsDown
  /\ pc[Runner] = "returned" => Heard
  /\ reader \in {"over", "forgotten"} => Heard

Orderly == TypeOK /\ StartsOrderly /\ TreeOrderly /\ EndsOrderly

-----------------------------------------------------------------------------
(* Places and types.                                                       *)

Places == {"idle", "spawning", "locks", "gentle", "killing", "reaping", "cleaning", "drain",
           "draining", "returned", "raised", "failed", "not started", "given up"}

LEMMA PlaceNames ==
  /\ {"idle"} \cup Suspended \cup Ended = Places
  /\ Suspended = {"spawning", "locks", "gentle", "killing", "reaping", "cleaning", "drain",
                  "draining"}
  /\ Inside = {"gentle", "killing", "reaping", "cleaning", "drain", "draining"}
  /\ Reaping = {"cleaning", "drain", "draining"}
  /\ Draining = {"drain", "draining"}
  /\ Entered = {"spawning", "gentle", "killing", "reaping", "cleaning", "drain", "draining",
                "returned", "raised", "failed"}
  /\ Live = {"holding", "detached"}
BY DEF Suspended, Ended, Places, Inside, Reaping, Draining, Entered, Live

LEMMA TaskNames ==
  /\ Runner \in Tasks /\ Nobody \notin Tasks
  /\ \A s \in Stoppers : s \in Tasks /\ s # Runner
  /\ \A t \in Tasks : t = Runner \/ t \in Stoppers
BY ChildAssumption DEF Tasks

\* Where the others are when a task goes on.
LEMMA Going ==
  ASSUME pc \in [Tasks -> Places], NEW t \in Tasks, NEW place \in Places, Goto(t, place)
  PROVE  /\ pc' \in [Tasks -> Places]
         /\ pc'[t] = place
         /\ \A u \in Tasks : u # t => pc'[u] = pc[u]
BY DEF Goto

\* The parts of TypeOK that a step may change.
ChildType ==
  /\ control \in {"none", "group", "job", "taskkill"}
  /\ main \in {"none", "running", "dying", "exited"}
  /\ helper \in {"none", "gone", "holding", "detached"}
  /\ reader \in {"none", "reading", "over", "cancelled", "forgotten"}
  /\ refusal \in {"none", "written", "seen"}

TaskType ==
  /\ pc \in [Tasks -> Places]
  /\ raising \in [Tasks -> BOOLEAN]
  /\ cancelled \in [Tasks -> BOOLEAN]
  /\ taskkill \in Tasks \cup {Nobody}

FlagType == requested \in BOOLEAN /\ windows \in BOOLEAN /\ treeDone \in BOOLEAN

LEMMA TypeParts == TypeOK <=> ChildType /\ TaskType /\ FlagType
BY PlaceNames DEF TypeOK, ChildType, TaskType, FlagType

LEMMA NextTypeParts == TypeOK' <=> ChildType' /\ TaskType' /\ FlagType'
BY PlaceNames DEF TypeOK, ChildType, TaskType, FlagType

-----------------------------------------------------------------------------
(* Steps.                                                                  *)

LEMMA StartIsOrderly ==
  ASSUME Orderly, Start \/ Spawn
  PROVE  Orderly'
<1>1. ChildType /\ TaskType /\ FlagType /\ StartsOrderly /\ TreeOrderly /\ EndsOrderly
  BY TypeParts DEF Orderly
<1>2. CASE Start
  <2> DEFINE place == IF requested THEN "not started" ELSE "spawning"
  <2>1. /\ pc[Runner] = "idle"
        /\ UNCHANGED <<raising, cancelled, requested, treeVars, readVars>>
        /\ pc' \in [Tasks -> Places] /\ pc'[Runner] = place
        /\ \A u \in Tasks : u # Runner => pc'[u] = pc[u]
    BY <1>1, <1>2, Going, TaskNames, PlaceNames DEF Start, TaskType, Places
  <2>2. TypeOK'
    BY <1>1, <2>1, NextTypeParts DEF ChildType, TaskType, FlagType, treeVars, readVars
  <2>3. StartsOrderly'
    BY <1>1, <2>1, TaskNames, PlaceNames DEF StartsOrderly, FlagType, treeVars, readVars
  <2>4. TreeOrderly'
    BY <1>1, <2>1, TaskNames DEF TreeOrderly, TaskType, treeVars
  <2>5. EndsOrderly'
    BY <1>1, <2>1, TaskNames, PlaceNames DEF EndsOrderly, TreeIsDown, Heard, treeVars, readVars
  <2> QED BY <2>2, <2>3, <2>4, <2>5 DEF Orderly
<1>3. CASE Spawn
  <2>1. /\ pc[Runner] = "spawning" /\ main = "none"
        /\ UNCHANGED <<raising, cancelled, requested, windows, treeDone, taskkill, helper,
                       refusal>>
    BY <1>1, <1>3 DEF Spawn, StartsOrderly
  <2>2. CASE /\ main' = "running"
             /\ control' \in Attached
             /\ reader' = "reading"
             /\ Goto(Runner, "reaping")
    <3>1. /\ pc' \in [Tasks -> Places] /\ pc'[Runner] = "reaping"
          /\ \A u \in Tasks : u # Runner => pc'[u] = pc[u]
      BY <1>1, <2>2, Going, TaskNames DEF TaskType, Places
    <3>2. control' \in {"group", "job", "taskkill"}
      BY <2>2 DEF Attached
    <3>3. TypeOK'
      BY <1>1, <2>1, <2>2, <3>1, <3>2, NextTypeParts DEF ChildType, TaskType, FlagType
    <3>4. StartsOrderly'
      BY <1>1, <2>1, <2>2, <3>1, TaskNames, PlaceNames DEF StartsOrderly
    <3>5. TreeOrderly'
      BY <1>1, <2>1, <2>2, <3>1, TaskNames DEF TreeOrderly, TaskType, StartsOrderly
    <3>6. EndsOrderly'
      BY <1>1, <2>1, <2>2, <3>1, TaskNames, PlaceNames
         DEF EndsOrderly, StartsOrderly, TreeIsDown, Heard
    <3> QED BY <3>3, <3>4, <3>5, <3>6 DEF Orderly
  <2>3. CASE Goto(Runner, "not started") /\ UNCHANGED <<main, control, reader>>
    <3>1. /\ pc' \in [Tasks -> Places] /\ pc'[Runner] = "not started"
          /\ \A u \in Tasks : u # Runner => pc'[u] = pc[u]
      BY <1>1, <2>3, Going, TaskNames DEF TaskType, Places
    <3>2. TypeOK'
      BY <1>1, <2>1, <2>3, <3>1, NextTypeParts DEF ChildType, TaskType, FlagType
    <3>3. StartsOrderly'
      BY <1>1, <2>1, <2>3, <3>1, TaskNames, PlaceNames DEF StartsOrderly
    <3>4. TreeOrderly'
      BY <1>1, <2>1, <2>3, <3>1, TaskNames DEF TreeOrderly, TaskType
    <3>5. EndsOrderly'
      BY <1>1, <2>1, <2>3, <3>1, TaskNames, PlaceNames DEF EndsOrderly, TreeIsDown, Heard
    <3> QED BY <3>2, <3>3, <3>4, <3>5 DEF Orderly
  <2> QED BY <1>3, <2>2, <2>3 DEF Spawn
<1> QED BY <1>2, <1>3

\* A task may go on if what is said of its new place holds, and nothing is forgotten:
\* who has ended stays so, and what was read stays read.
LEMMA GoingOn ==
  ASSUME Orderly, TypeOK', NEW t \in Tasks, NEW place \in Places, Goto(t, place),
         place \notin {"idle", "spawning"},
         requested' = requested \/ requested' = TRUE,
         UNCHANGED <<control, refusal>>,
         main' = main \/ (main = "running" /\ main' = "dying"),
         helper' = helper \/ (helper \in Live /\ helper' = "gone"),
         taskkill' = Nobody \/ (taskkill' = taskkill /\ taskkill # t),
         treeDone' = treeDone \/ (main' \in {"dying", "exited"} /\ helper' \notin Live),
         \/ reader' = reader
         \/ reader = "reading" /\ reader' = "cancelled"
         \/ reader = "over" /\ reader' = "forgotten",
         t \in Stoppers => requested',
         t \in Stoppers /\ place \in Entered => pc[Runner] # "spawning",
         place \in Inside => main # "none",
         place \in Reaping => main = "exited",
         place \in Draining \/ (t \in Stoppers /\ place \in {"returned", "raised"}) => TreeIsDown',
         t \in Stoppers /\ place \in {"returned", "raised"} => main \in {"none", "exited"},
         t = Runner /\ place = "returned" => Heard
  PROVE  Orderly'
<1>1. ChildType /\ TaskType /\ FlagType /\ StartsOrderly /\ TreeOrderly /\ EndsOrderly
  BY TypeParts DEF Orderly
<1>2. pc'[t] = place /\ \A u \in Tasks : u # t => pc'[u] = pc[u]
  BY <1>1, Going DEF TaskType
<1>3. StartsOrderly'
  <2>1. \A s \in Stoppers : pc'[s] # "idle" => requested'
    BY <1>1, <1>2, TaskNames DEF StartsOrderly
  <2>2. \A s \in Stoppers : pc'[s] \in Entered => pc'[Runner] # "spawning"
    BY <1>1, <1>2, TaskNames DEF StartsOrderly
  <2>3. \A u \in Tasks : pc'[u] \in Inside => main' # "none"
    BY <1>1, <1>2 DEF StartsOrderly
  <2>4. pc'[Runner] \in {"idle", "spawning"} => main' = "none"
    BY <1>1, <1>2, TaskNames DEF StartsOrderly
  <2>5. main' = "none" => helper' = "none" /\ control' = "none" /\ reader' = "none"
    BY <1>1, PlaceNames DEF StartsOrderly
  <2>6. \A s \in Stoppers : pc'[s] # "spawning"
    BY <1>1, <1>2, TaskNames DEF StartsOrderly
  <2> QED BY <2>1, <2>2, <2>3, <2>4, <2>5, <2>6 DEF StartsOrderly
<1>4. TreeOrderly'
  <2>1. taskkill' # Nobody => control' = "taskkill" /\ pc'[taskkill'] \in {"killing", "cleaning"}
    BY <1>1, <1>2, TaskNames DEF TreeOrderly, TaskType
  <2>2. treeDone' => main' \in {"dying", "exited"} /\ helper' \notin Live
    BY <1>1, PlaceNames DEF TreeOrderly
  <2> QED BY <2>1, <2>2 DEF TreeOrderly
<1>5. TreeIsDown => TreeIsDown'
  BY PlaceNames DEF TreeIsDown
<1>6. Heard => Heard'
  BY DEF Heard
<1>7. main \in {"none", "exited"} => main' = main
  OBVIOUS
<1>8. EndsOrderly'
  <2>1. \A u \in Tasks : pc'[u] \in Reaping => main' = "exited"
    BY <1>1, <1>2, <1>7 DEF EndsOrderly
  <2>2. \A u \in Tasks : pc'[u] \in Draining => TreeIsDown'
    BY <1>1, <1>2, <1>5 DEF EndsOrderly
  <2>3. \A s \in Stoppers : pc'[s] \in {"returned", "raised"} =>
          main' \in {"none", "exited"} /\ TreeIsDown'
    BY <1>1, <1>2, <1>5, <1>7, TaskNames DEF EndsOrderly
  <2>4. pc'[Runner] = "returned" => Heard'
    BY <1>1, <1>2, <1>6, TaskNames DEF EndsOrderly
  <2>5. reader' \in {"over", "forgotten"} => Heard'
    BY <1>1, <1>6 DEF EndsOrderly
  <2> QED BY <2>1, <2>2, <2>3, <2>4, <2>5 DEF EndsOrderly
<1> QED BY <1>3, <1>4, <1>8 DEF Orderly

\* A task that goes on keeps the types.
LEMMA GoingType ==
  ASSUME TypeOK, NEW t \in Tasks, NEW place \in Places, Goto(t, place),
         UNCHANGED <<control, refusal, windows>>,
         main' \in {main, "dying"}, helper' \in {helper, "gone"},
         taskkill' \in {taskkill, Nobody},
         reader' \in {reader, "cancelled", "forgotten"},
         requested' \in BOOLEAN, treeDone' \in BOOLEAN,
         raising' \in [Tasks -> BOOLEAN], cancelled' \in [Tasks -> BOOLEAN]
  PROVE  TypeOK'
<1>1. ChildType /\ TaskType /\ FlagType
  BY TypeParts
<1>2. TaskType'
  BY <1>1, Going DEF TaskType
<1>3. ChildType' /\ FlagType'
  BY <1>1 DEF ChildType, FlagType
<1> QED BY <1>2, <1>3, NextTypeParts

\* A task that was inside and goes on is what it was: nobody starts behind it.
LEMMA InsideIsEntered ==
  ASSUME Orderly, NEW t \in Tasks, pc[t] \in Inside
  PROVE  /\ main # "none"
         /\ pc[Runner] \notin {"idle", "spawning"}
         /\ t \in Stoppers => requested
<1>1. main # "none" /\ pc[Runner] \notin {"idle", "spawning"}
  BY DEF Orderly, StartsOrderly
<1>2. t \in Stoppers => requested
  BY PlaceNames DEF Orderly, StartsOrderly
<1> QED BY <1>1, <1>2

\* Killing the tree, or the child alone, of a task that is to reap or to drain it next.
LEMMA AfterTreeIsOrderly ==
  ASSUME Orderly, NEW t \in Tasks, pc[t] \in {"killing", "cleaning"},
         NEW stopped \in BOOLEAN, AfterTree(t, stopped),
         stopped \/ control = "taskkill",
         UNCHANGED <<raising, cancelled, requested, windows, control, readVars>>,
         treeDone' = treeDone \/ (stopped /\ treeDone' = TRUE),
         taskkill' = Nobody
  PROVE  Orderly'
<1> DEFINE place == CASE pc[t] = "cleaning" -> "drain"
                      [] OTHER -> IF main = "exited" THEN "cleaning" ELSE "reaping"
<1>1. ChildType /\ TaskType /\ FlagType /\ StartsOrderly /\ TreeOrderly /\ EndsOrderly
  BY TypeParts DEF Orderly
<1>2. Goto(t, place) /\ place \in {"drain", "cleaning", "reaping"} /\ place \in Places
  BY DEF AfterTree, Places
<1>3. main # "none" /\ pc[Runner] \notin {"idle", "spawning"} /\ (t \in Stoppers => requested)
  BY InsideIsEntered, PlaceNames
<1>4. /\ main' = main \/ (main = "running" /\ main' = "dying")
      /\ helper' = helper \/ (helper \in Live /\ helper' = "gone")
      /\ stopped => main' # "running" /\ helper' \notin Live
  BY PlaceNames DEF AfterTree, KillAll
<1>5. TreeIsDown'
  BY <1>4 DEF TreeIsDown
<1>6. place \in Reaping => main = "exited"
  BY <1>1, <1>2, PlaceNames DEF EndsOrderly
<1>7. treeDone' = treeDone \/ (main' \in {"dying", "exited"} /\ helper' \notin Live)
  BY <1>1, <1>3, <1>4 DEF ChildType
<1>8. TypeOK'
  BY <1>1, <1>2, <1>4, GoingType DEF Orderly, TaskType, FlagType, readVars
<1> HIDE DEF place
<1> QED
  BY <1>2, <1>3, <1>4, <1>5, <1>6, <1>7, <1>8, GoingOn, PlaceNames DEF readVars

LEMMA TreeStepIsOrderly ==
  ASSUME Orderly, NEW t \in Tasks,
         CleanTree(t) \/ RunTaskkill(t) \/ TaskkillOver(t) \/ TaskkillFails(t)
  PROVE  Orderly'
<1>1. ChildType /\ TaskType /\ FlagType /\ StartsOrderly /\ TreeOrderly /\ EndsOrderly
  BY TypeParts DEF Orderly
<1>2. t # Nobody
  BY TaskNames
<1>3. CASE CleanTree(t)
  BY <1>3, AfterTreeIsOrderly DEF CleanTree
<1>4. CASE RunTaskkill(t)
  <2>1. TypeOK'
    BY <1>1, <1>4, NextTypeParts
       DEF RunTaskkill, ChildType, TaskType, FlagType, taskVars, readVars
  <2>2. StartsOrderly' /\ EndsOrderly'
    BY <1>1, <1>4
       DEF RunTaskkill, StartsOrderly, EndsOrderly, TreeIsDown, Heard, taskVars, readVars
  <2>3. TreeOrderly'
    BY <1>1, <1>4 DEF RunTaskkill, TreeOrderly, taskVars
  <2> QED BY <2>1, <2>2, <2>3 DEF Orderly
<1>5. CASE TaskkillOver(t)
  <2>1. control = "taskkill" /\ pc[t] \in {"killing", "cleaning"}
    BY <1>1, <1>2, <1>5 DEF TaskkillOver, TreeOrderly
  <2>2. CASE AfterTree(t, TRUE) /\ treeDone' = TRUE
    BY <1>5, <2>1, <2>2, AfterTreeIsOrderly DEF TaskkillOver
  <2>3. CASE AfterTree(t, FALSE) /\ UNCHANGED treeDone
    BY <1>5, <2>1, <2>3, AfterTreeIsOrderly DEF TaskkillOver
  <2> QED BY <1>5, <2>2, <2>3 DEF TaskkillOver
<1>6. CASE TaskkillFails(t)
  <2>1. control = "taskkill" /\ pc[t] \in {"killing", "cleaning"}
    BY <1>1, <1>2, <1>6 DEF TaskkillFails, TreeOrderly
  <2>2. CASE AfterTree(t, FALSE)
    BY <1>6, <2>1, <2>2, AfterTreeIsOrderly DEF TaskkillFails
  <2>3. CASE Goto(t, "failed") /\ UNCHANGED <<main, helper>>
    <3>1. /\ taskkill' = Nobody
          /\ UNCHANGED <<raising, cancelled, requested, windows, control, treeDone, readVars>>
      BY <1>6 DEF TaskkillFails
    <3>2. TypeOK'
      BY <1>1, <2>3, <3>1, GoingType DEF Orderly, TaskType, FlagType, readVars, Places
    <3>3. pc[Runner] \notin {"idle", "spawning"} /\ (t \in Stoppers => requested)
      BY <2>1, InsideIsEntered, PlaceNames
    <3> QED BY <2>3, <3>1, <3>2, <3>3, GoingOn, PlaceNames DEF readVars, Places
  <2> QED BY <1>6, <2>2, <2>3 DEF TaskkillFails
<1> QED BY <1>3, <1>4, <1>5, <1>6

LEMMA EndIsOrderly ==
  ASSUME Orderly, NEW t \in Tasks,
         Reaped(t) \/ Drain(t) \/ Drained(t) \/ DrainRaises(t)
  PROVE  Orderly'
<1>1. ChildType /\ TaskType /\ FlagType /\ StartsOrderly /\ TreeOrderly /\ EndsOrderly
  BY TypeParts DEF Orderly
<1>2. pc[t] \in Inside /\ UNCHANGED <<cancelled, requested, treeVars, refusal>>
  BY PlaceNames DEF Reaped, Drain, Drained, DrainRaises, readVars
<1>3. pc[Runner] \notin {"idle", "spawning"} /\ (t \in Stoppers => requested) /\ main # "none"
  BY <1>2, InsideIsEntered
<1>4. UNCHANGED <<requested, windows, control, treeDone, main, helper, cancelled, refusal>>
  BY <1>2 DEF treeVars
<1>5. taskkill' = taskkill
  BY <1>2 DEF treeVars
<1>6. taskkill # t
  BY <1>1, TaskNames DEF TreeOrderly, Reaped, Drain, Drained, DrainRaises
<1>7. ASSUME NEW place \in {"cleaning", "draining", "returned", "raised", "killing"},
             Goto(t, place),
             raising' \in [Tasks -> BOOLEAN],
             \/ reader' = reader
             \/ reader = "over" /\ reader' = "forgotten",
             place \in Reaping => main = "exited",
             place \in {"draining", "returned", "raised"} =>
               t = Runner \/ (main = "exited" /\ TreeIsDown),
             place = "draining" => TreeIsDown,
             t = Runner /\ place = "returned" => Heard
      PROVE  Orderly'
  <2>1. place \in Places /\ place \notin {"idle", "spawning"}
    BY <1>7 DEF Places
  <2>2. TypeOK'
    BY <1>1, <1>4, <1>5, <1>7, <2>1, GoingType DEF Orderly, TaskType, FlagType
  <2>3. TreeIsDown => TreeIsDown'
    BY <1>4 DEF TreeIsDown
  <2>4. Runner \notin Stoppers
    BY TaskNames
  <2> QED BY <1>3, <1>4, <1>5, <1>6, <1>7, <2>1, <2>2, <2>3, <2>4, GoingOn, PlaceNames
<1>8. raising \in [Tasks -> BOOLEAN] /\ [raising EXCEPT ![t] = TRUE] \in [Tasks -> BOOLEAN]
  BY <1>1 DEF TaskType
<1>9. CASE Reaped(t)
  <2>1. main = "exited" /\ Goto(t, "cleaning") /\ UNCHANGED <<raising, reader>>
    BY <1>9 DEF Reaped, Reapable, readVars
  <2> QED BY <1>7, <1>8, <2>1
<1>10. ASSUME pc[t] \in Draining, Finish(t), raising' = raising,
              \/ reader' = reader
              \/ reader = "over" /\ reader' = "forgotten",
              reader \in {"over", "forgotten"}
       PROVE  Orderly'
  <2> DEFINE place == IF raising[t] THEN "raised" ELSE "returned"
  <2>1. Goto(t, place) /\ place \in {"returned", "raised"}
    BY <1>10 DEF Finish
  <2>2. main = "exited" /\ TreeIsDown /\ Heard
    BY <1>1, <1>10, PlaceNames DEF EndsOrderly
  <2> HIDE DEF place
  <2> QED BY <1>7, <1>8, <1>10, <2>1, <2>2, PlaceNames
<1>11. CASE Drain(t)
  <2>1. main = "exited" /\ TreeIsDown /\ UNCHANGED <<raising, reader>> /\ pc[t] \in Draining
    BY <1>1, <1>11, PlaceNames DEF Drain, EndsOrderly, readVars
  <2>2. CASE reader = "forgotten" /\ Finish(t)
    BY <1>10, <2>1, <2>2
  <2>3. CASE Goto(t, "draining")
    BY <1>7, <1>8, <2>1, <2>3
  <2> QED BY <1>11, <2>2, <2>3 DEF Drain
<1>12. CASE Drained(t)
  BY <1>10, <1>12, PlaceNames DEF Drained
<1>13. CASE DrainRaises(t)
  <2>1. main = "exited" /\ TreeIsDown /\ reader' = reader
    BY <1>1, <1>13, PlaceNames DEF DrainRaises, EndsOrderly, readVars
  <2>2. CASE Goto(t, "raised") /\ UNCHANGED raising
    BY <1>7, <1>8, <2>1, <2>2, PlaceNames
  <2>3. CASE Handle(t)
    BY <1>7, <1>8, <2>1, <2>3, PlaceNames DEF Handle
  <2> QED BY <1>13, <2>2, <2>3 DEF DrainRaises
<1> QED BY <1>9, <1>11, <1>12, <1>13

LEMMA StopIsOrderly ==
  ASSUME Orderly, NEW s \in Stoppers, Stop(s) \/ Enter(s) \/ Timeout(s)
  PROVE  Orderly'
<1>1. ChildType /\ TaskType /\ FlagType /\ StartsOrderly /\ TreeOrderly /\ EndsOrderly
  BY TypeParts DEF Orderly
<1>2. s \in Tasks /\ s # Runner /\ s # Nobody
  BY TaskNames
<1>3. /\ pc[s] \in {"idle", "locks", "gentle"}
      /\ UNCHANGED <<raising, cancelled, treeVars, readVars>>
      /\ requested' = TRUE
  BY <1>1 DEF Stop, Enter, Timeout, StartsOrderly, FlagType
<1>4. taskkill # s
  BY <1>1, <1>2, <1>3 DEF TreeOrderly
<1>5. UNCHANGED <<windows, control, treeDone, taskkill, main, helper, raising, cancelled, reader,
                  refusal>>
  BY <1>3 DEF treeVars, readVars
<1>6. ASSUME NEW place \in {"locks", "returned", "cleaning", "killing", "gentle"},
             Goto(s, place),
             place # "locks" => pc[Runner] # "spawning",
             place \in Inside => main # "none",
             place = "cleaning" => main = "exited",
             place = "returned" => main = "none"
      PROVE  Orderly'
  <2>1. place \in Places /\ place \notin {"idle", "spawning"}
    BY <1>6 DEF Places
  <2>2. TypeOK'
    BY <1>1, <1>2, <1>3, <1>5, <1>6, <2>1, GoingType DEF Orderly, TaskType, FlagType
  <2>3. place = "returned" => TreeIsDown'
    BY <1>1, <1>5, <1>6, PlaceNames DEF StartsOrderly, TreeIsDown
  <2> QED BY <1>2, <1>3, <1>4, <1>5, <1>6, <2>1, <2>2, <2>3, GoingOn, PlaceNames
<1>7. CASE Stop(s)
  BY <1>6, <1>7, PlaceNames DEF Stop
<1>8. CASE Enter(s)
  <2> DEFINE place == CASE main = "none"   -> "returned"
                        [] main = "exited" -> "cleaning"
                        [] OTHER -> IF control = "taskkill" THEN "killing" ELSE "gentle"
  <2>1. /\ Goto(s, place) /\ pc[Runner] # "spawning"
        /\ place \in {"returned", "cleaning", "killing", "gentle"}
        /\ place = "returned" <=> main = "none"
        /\ place = "cleaning" <=> main = "exited"
    BY <1>8 DEF Enter
  <2> HIDE DEF place
  <2> QED BY <1>6, <2>1, PlaceNames
<1>9. CASE Timeout(s)
  BY <1>1, <1>2, <1>6, <1>9, PlaceNames DEF Timeout, StartsOrderly
<1> QED BY <1>7, <1>8, <1>9

LEMMA CancelIsOrderly ==
  ASSUME Orderly, CancelRunner \/ \E s \in Stoppers : CancelStop(s)
  PROVE  Orderly'
<1>1. ChildType /\ TaskType /\ FlagType /\ StartsOrderly /\ TreeOrderly /\ EndsOrderly
  BY TypeParts DEF Orderly
<1>2. ASSUME NEW t \in Tasks, Withdraw(t)
      PROVE  /\ main' = main \/ (main = "running" /\ main' = "dying")
             /\ helper' = helper \/ (helper \in Live /\ helper' = "gone")
             /\ taskkill' = Nobody \/ (taskkill' = taskkill /\ taskkill # t)
             /\ reader' = reader \/ (reader = "reading" /\ reader' = "cancelled")
  BY <1>2 DEF Withdraw, KillAll
<1>3. ASSUME NEW t \in Tasks, pc[t] # "idle",
             NEW place \in {"raised", "given up", "killing"},
             Goto(t, place), Withdraw(t),
             raising' \in [Tasks -> BOOLEAN], cancelled' \in [Tasks -> BOOLEAN],
             UNCHANGED <<requested, windows, control, treeDone, refusal>>,
             t \in Stoppers /\ place # "given up" => pc[Runner] # "spawning",
             place = "killing" => main # "none",
             place = "raised" => t = Runner
      PROVE  Orderly'
  <2>1. place \in Places /\ place \notin {"idle", "spawning"}
    BY <1>3 DEF Places
  <2>2. /\ main' = main \/ (main = "running" /\ main' = "dying")
        /\ helper' = helper \/ (helper \in Live /\ helper' = "gone")
        /\ taskkill' = Nobody \/ (taskkill' = taskkill /\ taskkill # t)
        /\ reader' = reader \/ (reader = "reading" /\ reader' = "cancelled")
    BY <1>2, <1>3
  <2>3. TypeOK'
    BY <1>1, <1>3, <2>1, <2>2, GoingType DEF Orderly, FlagType
  <2>4. t \in Stoppers => requested'
    BY <1>1, <1>3 DEF StartsOrderly
  <2>5. Runner \notin Stoppers
    BY TaskNames
  <2> QED BY <1>3, <2>1, <2>2, <2>3, <2>4, <2>5, GoingOn, PlaceNames
<1>4. CASE CancelRunner
  <2>1. [cancelled EXCEPT ![Runner] = TRUE] \in [Tasks -> BOOLEAN]
    BY <1>1 DEF TaskType
  <2>2. pc[Runner] # "idle"
    BY <1>4, PlaceNames DEF CancelRunner
  <2> QED BY <1>1, <1>3, <1>4, <2>1, <2>2, TaskNames DEF CancelRunner, TaskType
<1>5. ASSUME NEW s \in Stoppers, CancelStop(s)
      PROVE  Orderly'
  <2>1. s \in Tasks
    BY TaskNames
  <2>2. /\ cancelled' \in [Tasks -> BOOLEAN]
        /\ raising \in [Tasks -> BOOLEAN] /\ [raising EXCEPT ![s] = TRUE] \in [Tasks -> BOOLEAN]
    BY <1>1, <1>5 DEF CancelStop, TaskType
  <2>3. pc[s] \in Suspended /\ pc[s] # "idle" /\ pc[s] # "spawning"
    BY <1>1, <1>5, PlaceNames DEF CancelStop, StartsOrderly
  <2>4. /\ Withdraw(s)
        /\ UNCHANGED <<requested, windows, control, treeDone, refusal>>
    BY <1>5 DEF CancelStop
  <2>5. CASE Goto(s, "given up") /\ UNCHANGED raising
    BY <1>3, <2>1, <2>2, <2>3, <2>4, <2>5
  <2>6. CASE pc[s] # "locks" /\ Handle(s)
    <3>1. pc[s] \in Inside
      BY <2>3, <2>6, PlaceNames
    <3>2. main # "none" /\ pc[Runner] # "spawning"
      BY <2>1, <3>1, InsideIsEntered
    <3> QED BY <1>3, <2>1, <2>2, <2>3, <2>4, <2>6, <3>2 DEF Handle
  <2> QED BY <1>5, <2>5, <2>6 DEF CancelStop
<1> QED BY <1>4, <1>5

LEMMA ChildIsOrderly ==
  ASSUME Orderly, Exit \/ Fork \/ HelperExit \/ Refuse \/ Capture \/ EndOfPipe
  PROVE  Orderly'
<1>1. ChildType /\ TaskType /\ FlagType /\ StartsOrderly /\ TreeOrderly /\ EndsOrderly
  BY TypeParts DEF Orderly
<1>2. UNCHANGED <<pc, raising, cancelled, requested, windows, control, treeDone, taskkill>>
  BY DEF Exit, Fork, HelperExit, Refuse, Capture, EndOfPipe, taskVars, treeVars
<1>3. /\ main' = main \/ (main \in {"running", "dying"} /\ main' = "exited")
      /\ helper' = helper \/ (main = "running" /\ helper' \in Live) \/ helper' = "gone"
      /\ reader' = reader \/ (reader = "reading" /\ reader' = "over" /\ Heard')
      /\ Heard => Heard'
      /\ helper' # helper => main # "none" /\ main' = main
  BY <1>1, PlaceNames
     DEF Exit, Fork, HelperExit, Refuse, Capture, EndOfPipe, PipeEnded, Heard, StartsOrderly,
         treeVars, readVars
<1>4. TypeOK'
  <2>1. refusal' \in {"none", "written", "seen"}
    BY <1>1 DEF Exit, Fork, HelperExit, Refuse, Capture, EndOfPipe, ChildType, readVars
  <2> QED BY <1>1, <1>2, <1>3, <2>1, NextTypeParts, PlaceNames DEF ChildType, TaskType, FlagType
<1>5. StartsOrderly'
  BY <1>1, <1>2, <1>3 DEF StartsOrderly
<1>6. TreeOrderly'
  BY <1>1, <1>2, <1>3, PlaceNames DEF TreeOrderly
<1>7. main \in {"none", "exited"} /\ TreeIsDown => main' = main /\ TreeIsDown'
  BY <1>2, <1>3, PlaceNames DEF TreeIsDown
<1>8. EndsOrderly'
  BY <1>1, <1>2, <1>3, <1>7, PlaceNames DEF EndsOrderly
<1> QED BY <1>4, <1>5, <1>6, <1>8 DEF Orderly

LEMMA InitIsOrderly == Init => Orderly
BY ChildAssumption, TypeParts, TaskNames, PlaceNames
   DEF Init, Orderly, ChildType, TaskType, FlagType, StartsOrderly, TreeOrderly, EndsOrderly,
       TreeIsDown, Heard, Places

LEMMA NextIsOrderly ==
  ASSUME Orderly, [Next]_vars
  PROVE  Orderly'
<1>1. CASE Start \/ Spawn
  BY <1>1, StartIsOrderly
<1>2. CASE CancelRunner \/ \E s \in Stoppers : CancelStop(s)
  BY <1>2, CancelIsOrderly
<1>3. ASSUME NEW s \in Stoppers, Stop(s) \/ Enter(s) \/ Timeout(s)
      PROVE  Orderly'
  BY <1>3, StopIsOrderly
<1>4. ASSUME NEW t \in Tasks, Continue(t) \/ TaskkillFails(t)
      PROVE  Orderly'
  BY <1>4, TreeStepIsOrderly, EndIsOrderly DEF Continue
<1>5. CASE Exit \/ Fork \/ HelperExit \/ Refuse \/ Capture \/ EndOfPipe
  BY <1>5, ChildIsOrderly
<1>6. CASE UNCHANGED vars
  BY <1>6, TypeParts, NextTypeParts
     DEF Orderly, ChildType, TaskType, FlagType, StartsOrderly, TreeOrderly, EndsOrderly,
         TreeIsDown, Heard, vars, taskVars, treeVars, readVars
<1> QED BY <1>1, <1>2, <1>3, <1>4, <1>5, <1>6 DEF Next

-----------------------------------------------------------------------------
(* Theorems.                                                               *)

\* Wherever the tasks of AsyncProcess are suspended or were cancelled, their places say
\* what has become of the child, its tree and its output.
THEOREM ChildOrdered == Spec => []Orderly
<1>1. Init => Orderly
  BY InitIsOrderly
<1>2. Orderly /\ [Next]_vars => Orderly'
  BY NextIsOrderly
<1> QED BY <1>1, <1>2, PTL DEF Spec

\* After any stop(), however many there are and whoever is cancelled, the child has been
\* reaped and nothing of its tree lives that a group or a job could reach.
THEOREM StopIsComplete == Spec => []StopLeavesNothing
<1>1. Orderly => StopLeavesNothing
  <2> SUFFICES ASSUME Orderly, NEW s \in Stoppers, pc[s] \in {"returned", "raised"}
               PROVE  /\ pc[Runner] # "spawning"
                      /\ main \in {"none", "exited"}
                      /\ helper \in Live => control = "taskkill"
    BY DEF StopLeavesNothing
  <2>1. pc[Runner] # "spawning"
    BY PlaceNames DEF Orderly, StartsOrderly
  <2>2. main \in {"none", "exited"} /\ TreeIsDown
    BY DEF Orderly, EndsOrderly
  <2> QED BY <2>1, <2>2 DEF TreeIsDown
<1> QED BY <1>1, ChildOrdered, PTL

\* wait() never returns before everything that ffmpeg wrote has been looked at, whoever
\* else waited for the reader before it.
THEOREM NothingIsUnheard == Spec => []VerdictIsFinal
<1>1. Orderly => VerdictIsFinal
  BY DEF Orderly, EndsOrderly, Heard, VerdictIsFinal
<1> QED BY <1>1, ChildOrdered, PTL

\* _cleanup_process_tree() may return at once when the tree was killed before: nothing
\* of it lives and nothing can join it.
KilledOnce == treeDone => main \in {"dying", "exited"} /\ helper \notin Live

THEOREM KilledTreesStayDead == Spec => []KilledOnce
<1>1. Orderly => KilledOnce
  BY DEF Orderly, TreeOrderly, KilledOnce
<1> QED BY <1>1, ChildOrdered, PTL

=============================================================================
