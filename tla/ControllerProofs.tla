--------------------------- MODULE ControllerProofs ---------------------------
(***************************************************************************)
(* Theorems about Controller for any number of destinations, callers and   *)
(* URLs, with and without a standby input, and with a state store that     *)
(* fails unless a theorem says that it does not.                           *)
(***************************************************************************)
EXTENDS Controller, TLAPS

\* The calls that a caller may be in at a place.
CallsAt(place) ==
  CASE place \in {"initializing", "loading"}              -> {"initialize", "start"}
    [] place = "wantStart"                                -> {"start"}
    [] place \in {"wantStop", "awaitTask", "stopOutputs"} -> {"stop", "shutdown"}
    [] place = "persisting"                               -> {"none", "start", "stop"}
    [] OTHER                                              -> {"none"}

\* Where a call holds the lifecycle lock.
HoldsAt(place, call) ==
  \/ place \in {"awaitTask", "stopOutputs"}
  \/ place = "persisting" /\ call # "none"

Holding(c) == HoldsAt(pc[c], op[c])

LocksOrderly ==
  /\ \A c \in Callers : op[c] \in CallsAt(pc[c])
  /\ \A c \in Callers : lcLock = c <=> Holding(c)
  /\ \A c \in Callers : initLock = c <=> pc[c] = "loading"

\* Before initialize() returned nothing has happened.
LoadOrderly ==
  /\ \A c \in Callers : pc[c] = "loading" => ~initialized
  /\ ~initialized =>
       /\ \A c \in Callers : pc[c] \in {"idle", "initializing", "loading"}
       /\ runner = "none" /\ writer = NoCaller /\ persisted = "never" /\ ~desired

\* Who holds the lifecycle lock has the task to itself: there is none, or it is on its way
\* to its end.
TaskOrderly ==
  /\ \A c \in Callers : pc[c] \in {"awaitTask", "stopOutputs"} => ~desired
  /\ \A c \in Callers : Holding(c) /\ pc[c] # "awaitTask" => runner = "none"
  /\ \A c \in Callers : pc[c] = "awaitTask" => taskCancel \/ runner \in {"ending", "none"}
  /\ taskCancel \/ runner = "ending" => \E c \in Callers : pc[c] = "awaitTask"
  /\ taskCancel => runner \notin {"none", "ending"}
  /\ \A c \in Callers : pc[c] = "stopOutputs" => at[c] \in Dests

\* A call that will save what it changed.
WillSave(c) ==
  \/ pc[c] \in {"persisting", "disabling"}
  \/ pc[c] \in {"wantStop", "awaitTask", "stopOutputs"} /\ op[c] = "stop"

SavesOrderly ==
  /\ desired => asked
  /\ \A c \in Callers : writer = c => pc[c] = "persisting"
  /\ writer # NoCaller => persisted # "current" /\ (snap.newest => snap.record = Memory)
  /\ persisted = "current" => stored = Memory
  /\ ~StoreFails /\ persisted = "behind" /\ asked = desired => \E c \in Callers : WillSave(c)

\* Two successes in standby end in a switch, or with the task.
WatchOrderly == source.recoveries = 2 =>
  \/ runner \in {"validating", "starting", "started", "undoing"} /\ job.after = "success"
  \/ runner = "ending"
  \/ runner = "none" /\ \E c \in Callers : pc[c] \in {"awaitTask", "stopOutputs"}

\* A restart has replaced the child of d, and its result is not known yet.
Replacing(d) == runner \in {"starting", "started", "undoing"} /\ job.at = d

\* The call of c will stop d, by itself or through the end of the task.
Stops(c, d) ==
  \/ pc[c] = "disabling" /\ at[c] = d
  \/ pc[c] = "wantStop"
  \/ pc[c] = "awaitTask" /\ taskCancel
  \/ pc[c] = "stopOutputs" /\ at[c] <= d

\* As WillStop, without the restart that may leave the old child alone.
SureToStop(d) ==
  \/ Replacing(d)
  \/ runner = "ending" /\ job.at <= d
  \/ \E c \in Callers : Stops(c, d)

DarkOrderly ==
  /\ NoTaskIsDark
  /\ runner = "ending" => job.at \in Dests /\ \A d \in Dests : d < job.at => ~Running(d)
  /\ \A d \in Dests \ enabled : Running(d) => SureToStop(d)

\* What a child reads that was started for an input.
Reads(shown, url) == IF shown = "LIVE" THEN url ELSE Standby

SwitchOrderly == runner \in {"validating", "starting", "started", "undoing"} =>
  /\ job.at \in Dests /\ job.at \notin job.rest /\ job.target # "NONE"
  /\ job.fresh \subseteq enabled
  /\ job.at \notin job.fresh => input[job.at] = "NONE"
  /\ runner = "undoing" => job.at \notin job.fresh
  /\ runner = "starting" => sup[job.at] # "LIVE"
  /\ runner \in {"starting", "started"} /\ Running(job.at) =>
       feed[job.at] = Reads(job.target, job.url)
  /\ runner = "validating" /\ job.target = "LIVE" =>
       ~(sup[job.at] = "LIVE" /\ input[job.at] = "LIVE")

InputsOrderly ==
  /\ \A d \in Dests : sup[d] = "LIVE" /\ input[d] # "NONE" /\ ~Replacing(d) =>
       feed[d] = Reads(input[d], fingerprint[d])
  /\ \A c \in Callers, d \in Dests : pc[c] = "disabling" /\ at[c] = d =>
       /\ input[d] = "NONE"
       /\ runner \in {"starting", "started"} /\ job.at = d => d \notin job.fresh

Orderly ==
  /\ TypeOK /\ LocksOrderly /\ LoadOrderly /\ TaskOrderly /\ SavesOrderly
  /\ WatchOrderly /\ DarkOrderly /\ SwitchOrderly /\ InputsOrderly

-----------------------------------------------------------------------------
(* Types.                                                                  *)

Sources == [state : SourceStates, failAge : Ages, recoveries : 0 .. 2, recAge : Ages]
Jobs    == [target : Inputs, url : Urls \cup {NoUrl}, rest : SUBSET Dests,
            fresh : SUBSET Dests, at : 0 .. NumDests,
            after : {"none", "success", "failure", "deadline"}]
Snaps   == [record : Records, newest : BOOLEAN]

\* The places where a restart of an output is under way, and where there is nothing to restart.
Restarts == {"validating", "starting", "started", "undoing"}
Watching == {"resolving", "probing", "monitoring", "backoff"}

LEMMA Constants ==
  /\ NumDests \in Nat \ {0} /\ NoCaller \notin Callers /\ Dests = 1 .. NumDests
  /\ NoUrl \notin Urls /\ Standby \notin Urls \cup {NoUrl}
  BY ControllerAssumption DEF Dests

LEMMA Values ==
  /\ NoJob \in Jobs /\ NoSnap \in Snaps /\ NoSnap.newest = FALSE
  /\ \A state \in SourceStates :
       Unwatched(state) \in Sources /\ Unwatched(state).recoveries = 0
<1>1. NoJob \in Jobs
  BY Constants DEF NoJob, Jobs, Inputs
<1>2. NoSnap \in Snaps /\ NoSnap.newest = FALSE
  BY DEF NoSnap, Snaps, Records
<1>3. ASSUME NEW state \in SourceStates
      PROVE  Unwatched(state) \in Sources /\ Unwatched(state).recoveries = 0
  BY DEF Unwatched, Sources, Ages
<1> QED BY <1>1, <1>2, <1>3

\* The switch j goes on or ends.
Outcome ==
  /\ job' \in Jobs /\ source' \in Sources
  /\ \/ runner' \in Watching /\ source'.recoveries # 2
     \/ /\ runner' = "validating"
        /\ job'.at \in job'.fresh /\ job'.at \notin job'.rest /\ job'.target # "NONE"
        /\ job'.fresh \subseteq enabled
        /\ ShouldSwitch(job'.at, job'.target, job'.url)
        /\ source'.recoveries = 2 => job'.after = "success"

LEMMA ProceedFacts ==
  ASSUME NEW j \in Jobs, NEW s \in Sources, j.fresh \subseteq enabled, j.target # "NONE",
         s.recoveries = 2 => j.after = "success", Proceed(j, s)
  PROVE  Outcome /\ (runner' = "validating" => job'.at \in j.rest)
<1> DEFINE due == {d \in j.rest \cap j.fresh : ShouldSwitch(d, j.target, j.url)}
<1>1. CASE due = {} /\ AfterSwitch(j.after, s)
  <2>1. job' = NoJob /\ job' \in Jobs
    BY <1>1, Values DEF AfterSwitch
  <2>2. CASE j.after = "success" /\ source' = Unwatched("LIVE") /\ runner' = "monitoring"
    <3>1. source' \in Sources /\ source'.recoveries # 2
      BY <2>2, Values DEF SourceStates
    <3> QED BY <2>1, <2>2, <3>1 DEF Outcome, Watching
  <2>3. CASE /\ j.after # "success" /\ source' = [s EXCEPT !.state = "STANDBY"]
             /\ runner' \in {"backoff", "resolving"}
    <3>1. source' \in Sources /\ source'.recoveries # 2
      BY <2>3 DEF Sources, SourceStates
    <3> QED BY <2>1, <2>3, <3>1 DEF Outcome, Watching
  <2> QED BY <1>1, <2>2, <2>3 DEF AfterSwitch
<1>2. ASSUME NEW d \in due, job' = [j EXCEPT !.at = d, !.rest = {e \in j.rest : e > d}],
             runner' = "validating", source' = s
      PROVE  Outcome /\ job'.at \in j.rest
  <2>1. d \in Dests /\ d \in j.rest /\ d \in j.fresh /\ ShouldSwitch(d, j.target, j.url)
    BY DEF Jobs
  <2>2. d \in 0 .. NumDests /\ ~(d > d)
    BY <2>1, Constants
  <2>3. /\ job'.at = d /\ job'.rest = {e \in j.rest : e > d} /\ job'.fresh = j.fresh
        /\ job'.target = j.target /\ job'.url = j.url /\ job'.after = j.after
        /\ job' \in Jobs
    BY <1>2, <2>2 DEF Jobs
  <2> QED BY <1>2, <2>1, <2>2, <2>3 DEF Outcome
<1> QED BY <1>1, <1>2 DEF Proceed

LEMMA SwitchFacts ==
  ASSUME NEW target \in {"LIVE", "STANDBY"}, NEW url \in Urls \cup {NoUrl},
         NEW after \in {"success", "failure", "deadline"}, NEW s \in Sources,
         s.recoveries = 2 => after = "success", Switch(target, url, after, s)
  PROVE  Outcome
<1>1. PICK prepared \in SUBSET {d \in Dests : ShouldSwitch(d, target, url)} :
        Proceed([target |-> target, url |-> url, rest |-> prepared, fresh |-> prepared,
                 at |-> 0, after |-> after], s)
  BY DEF Switch
<1> DEFINE j == [target |-> target, url |-> url, rest |-> prepared, fresh |-> prepared,
                 at |-> 0, after |-> after]
<1>2. j \in Jobs /\ j.target # "NONE" /\ j.after = after
  BY Constants DEF Jobs, Inputs
<1>3. j.fresh \subseteq enabled
  BY DEF ShouldSwitch
<1>4. Proceed(j, s)
  BY <1>1
<1> HIDE DEF j
<1> QED BY <1>2, <1>3, <1>4, ProceedFacts

LEMMA FailureFacts ==
  ASSUME source \in Sources, NEW unexpected \in BOOLEAN, RecordFailure(unexpected)
  PROVE  Outcome
<1> DEFINE since == IF source.failAge = "none" THEN "young" ELSE source.failAge
           state == IF source.state = "STANDBY" THEN "STANDBY"
                    ELSE IF AnyInputLive THEN "RECONNECTING" ELSE "MONITORING"
           failed == [state |-> state, failAge |-> since, recoveries |-> 0, recAge |-> "none"]
<1>1. failed \in Sources /\ failed.recoveries = 0
  BY DEF Sources, SourceStates, Ages
<1>2. CASE Switch("STANDBY", NoUrl, "failure", failed)
  <2> HIDE DEF failed
  <2> QED BY <1>1, <1>2, SwitchFacts
<1>3. CASE /\ source' = [failed EXCEPT !.state =
                           IF unexpected /\ @ # "STANDBY" THEN "ERROR" ELSE @]
           /\ runner' = "backoff" /\ job' = NoJob
  <2>1. source' \in Sources /\ source'.recoveries = 0
    <3> HIDE DEF failed
    <3> QED BY <1>1, <1>3 DEF Sources, SourceStates
  <2> QED BY <1>3, <2>1, Values DEF Outcome, Watching
<1> QED BY <1>2, <1>3 DEF RecordFailure

LEMMA SuccessFacts ==
  ASSUME source \in Sources, source.recoveries # 2, NEW url \in Urls \cup {NoUrl},
         RecordSuccess(url)
  PROVE  Outcome
<1> DEFINE standby == source.state = "STANDBY"
           counts  == source.recAge \in {"none", "old"}
           count   == IF source.recAge = "none" THEN 1
                      ELSE IF counts THEN source.recoveries + 1 ELSE source.recoveries
           good    == [source EXCEPT !.failAge = "none",
                         !.recoveries = IF standby THEN count ELSE @,
                         !.recAge = IF standby /\ counts THEN "young" ELSE @]
<1>1. good \in Sources /\ good.recoveries = IF standby THEN count ELSE source.recoveries
  <2>1. source.recoveries \in 0 .. 1
    BY DEF Sources
  <2>2. count \in 0 .. 2 /\ source.recoveries \in 0 .. 2
    BY <2>1
  <2> HIDE DEF count
  <2>3. good.recoveries = IF standby THEN count ELSE source.recoveries
    BY DEF Sources
  <2>4. good \in Sources
    BY <2>2 DEF Sources, Ages
  <2> QED BY <2>3, <2>4
<1>2. CASE standby /\ count < 2 /\ source' = good /\ runner' = "monitoring" /\ job' = NoJob
  <2> HIDE DEF good
  <2> QED BY <1>1, <1>2, Values DEF Outcome, Watching
<1>3. CASE Switch("LIVE", url, "success", good)
  <2> HIDE DEF good
  <2> QED BY <1>1, <1>3, SwitchFacts
<1> QED BY <1>2, <1>3 DEF RecordSuccess

-----------------------------------------------------------------------------
(* The steps of the controller's task.                                     *)

LEMMA TypeParts ==
  TypeOK => /\ source \in Sources /\ job \in Jobs /\ snap \in Snaps
            /\ enabled \subseteq Dests /\ runner \in Places
  BY DEF TypeOK, Sources, Jobs, Snaps

\* A step that decides what the task does next.
Poll == Begin \/ Resolved \/ Probed \/ Woke

LEMMA PollFacts ==
  ASSUME TypeOK, WatchOrderly, Poll
  PROVE  /\ runner \in Watching \cup {"created"} /\ ~taskCancel
         /\ Outcome
         /\ UNCHANGED <<wishVars, outVars, taskCancel, initVars, callVars, storeVars>>
<1>1. source \in Sources /\ job \in Jobs
  BY TypeParts
<1>2. CASE Begin
  <2>1. source.recoveries # 2
    BY <1>2 DEF Begin, WatchOrderly
  <2> QED BY <1>1, <1>2, <2>1 DEF Begin, Outcome, Watching
<1>3. ASSUME runner \in Watching PROVE source.recoveries # 2
  BY <1>3 DEF Watching, WatchOrderly
<1>4. CASE Resolved
  <2>1. ASSUME NEW unexpected \in BOOLEAN, RecordFailure(unexpected) PROVE Outcome
    BY <1>1, <2>1, FailureFacts
  <2>2. ASSUME NEW url \in Urls, runner' = "probing", job' = [NoJob EXCEPT !.url = url],
               UNCHANGED source
        PROVE  Outcome
    <3>1. job' \in Jobs
      BY <2>2, Values DEF Jobs
    <3> QED BY <1>1, <1>3, <1>4, <2>2, <3>1 DEF Outcome, Resolved, Watching
  <2> QED BY <1>4, <2>1, <2>2 DEF Resolved, Watching
<1>5. CASE Probed
  <2>1. ASSUME NEW unexpected \in BOOLEAN, RecordFailure(unexpected) PROVE Outcome
    BY <1>1, <2>1, FailureFacts
  <2>2. ASSUME RecordSuccess(job.url) PROVE Outcome
    <3>1. job.url \in Urls \cup {NoUrl} /\ source.recoveries # 2
      BY <1>1, <1>3, <1>5 DEF Jobs, Probed, Watching
    <3> QED BY <1>1, <2>2, <3>1, SuccessFacts
  <2> QED BY <1>5, <2>1, <2>2 DEF Probed, Watching
<1>6. CASE Woke
  <2>1. runner \in Watching /\ source.recoveries # 2
    BY <1>3, <1>6 DEF Woke, Watching
  <2>2. ASSUME Switch("STANDBY", NoUrl, "deadline", source) PROVE Outcome
    BY <1>1, <2>1, <2>2, SwitchFacts
  <2>3. ASSUME runner' = "resolving", UNCHANGED <<source, job>> PROVE Outcome
    BY <1>1, <2>1, <2>3 DEF Outcome, Watching
  <2> QED BY <1>6, <2>1, <2>2, <2>3 DEF Woke
<1> QED BY <1>2, <1>4, <1>5, <1>6 DEF Poll

\* A step that ends the restart of one output, and begins that of another.
Publishes ==
  /\ runner = "started" /\ ~taskCancel
  /\ job.at \in enabled \cap job.fresh
  /\ input' = [input EXCEPT ![job.at] = job.target]
  /\ fingerprint' = [fingerprint EXCEPT ![job.at] = job.url]
  /\ Proceed(job, source)
  /\ UNCHANGED <<wishVars, sup, feed, taskCancel, initVars, callVars, storeVars>>

Gives == /\ runner = "started" /\ ~taskCancel
         /\ job.at \notin enabled \cap job.fresh
         /\ runner' = "undoing"
         /\ UNCHANGED <<wishVars, source, outVars, taskCancel, job, initVars, callVars, storeVars>>

LEMMA RestartedParts == Restarted => Publishes \/ Gives
  BY DEF Restarted, Publishes, Gives, outVars

Ends == RestartFailed \/ Publishes \/ Undone

LEMMA EndsFacts ==
  ASSUME TypeOK, WatchOrderly, SwitchOrderly, Ends
  PROVE  /\ runner \in Restarts /\ ~taskCancel
         /\ Outcome
         /\ runner' = "validating" => job'.at # job.at
         /\ UNCHANGED <<wishVars, taskCancel, initVars, callVars, storeVars>>
<1>1. source \in Sources /\ job \in Jobs
  BY TypeParts
<1>2. /\ runner \in Restarts /\ ~taskCancel /\ Proceed(job, source)
      /\ UNCHANGED <<wishVars, taskCancel, initVars, callVars, storeVars>>
  BY DEF Ends, RestartFailed, Publishes, Undone, Restarts
<1>3. job.fresh \subseteq enabled /\ job.target # "NONE" /\ job.at \notin job.rest
  BY <1>2 DEF SwitchOrderly, Restarts
<1>4. source.recoveries = 2 => job.after = "success"
  BY <1>2 DEF WatchOrderly, Restarts
<1> QED BY <1>1, <1>2, <1>3, <1>4, ProceedFacts

LEMMA RunnerCases ==
  RunnerStep => Poll \/ Ends \/ Gives \/ Replaced \/ CameUp \/ Cancelled \/ EndStopped
  BY RestartedParts DEF RunnerStep, Poll, Ends

\* What a step of the task means for the calls.
LEMMA RunnerMoves ==
  ASSUME TypeOK, TaskOrderly, WatchOrderly, SwitchOrderly, RunnerStep
  PROVE  /\ UNCHANGED <<wishVars, initVars, lcLock, pc, op, storeVars>>
         /\ runner \notin {"none"}
         /\ \/ /\ ~taskCancel /\ ~taskCancel' /\ runner \notin {"none", "ending"}
               /\ runner' \in Watching \cup Restarts
            \/ /\ taskCancel /\ ~taskCancel' /\ runner' \in {"none", "ending"}
            \/ /\ runner = "ending" /\ runner' \in {"none", "ending"} /\ UNCHANGED taskCancel
<1>1. CASE Poll
  BY <1>1, PollFacts DEF callVars, Outcome, Watching, Restarts, TypeOK
<1>2. CASE Ends
  BY <1>2, EndsFacts DEF callVars, Outcome, Watching, Restarts, TypeOK
<1>3. CASE Gives
  BY <1>3 DEF Gives, callVars, Restarts
<1>4. CASE Replaced
  BY <1>4 DEF Replaced, Restarts
<1>5. CASE CameUp
  BY <1>5 DEF CameUp, callVars, Restarts
<1>6. CASE Cancelled
  BY <1>6 DEF Cancelled, callVars, TaskOrderly
<1>7. CASE EndStopped
  BY <1>7 DEF EndStopped, callVars
<1> QED BY <1>1, <1>2, <1>3, <1>4, <1>5, <1>6, <1>7, RunnerCases

-----------------------------------------------------------------------------
(* Every step keeps the types.                                             *)

WishTypes  == desired \in BOOLEAN /\ enabled \subseteq Dests /\ asked \in BOOLEAN
OutTypes   == /\ input \in [Dests -> Inputs]
              /\ fingerprint \in [Dests -> Urls \cup {NoUrl}]
              /\ sup \in [Dests -> OutputStates]
              /\ feed \in [Dests -> Urls \cup {NoUrl, Standby}]
TaskTypes  == source \in Sources /\ runner \in Places /\ taskCancel \in BOOLEAN /\ job \in Jobs
InitTypes  == initialized \in BOOLEAN /\ initLock \in Callers \cup {NoCaller}
                /\ initCurrent \in BOOLEAN
CallTypes  == /\ lcLock \in Callers \cup {NoCaller}
              /\ pc \in [Callers -> Awaits]
              /\ op \in [Callers -> Calls \cup {"none"}]
              /\ at \in [Callers -> 0 .. NumDests]
StoreTypes == /\ persisted \in {"never", "behind", "current"}
              /\ writer \in Callers \cup {NoCaller}
              /\ snap \in Snaps
              /\ stored \in Records \cup {NoRecord}

LEMMA AllTypes == TypeOK <=> /\ WishTypes /\ OutTypes /\ TaskTypes
                             /\ InitTypes /\ CallTypes /\ StoreTypes
  BY DEF TypeOK, WishTypes, OutTypes, TaskTypes, InitTypes, CallTypes, StoreTypes, Sources,
         Jobs, Snaps

LEMMA AllTypesNext == TypeOK' <=> /\ WishTypes' /\ OutTypes' /\ TaskTypes'
                                  /\ InitTypes' /\ CallTypes' /\ StoreTypes'
  BY DEF TypeOK, WishTypes, OutTypes, TaskTypes, InitTypes, CallTypes, StoreTypes, Sources,
         Jobs, Snaps

\* Types that a step keeps because it leaves the variables alone.
LEMMA TypesKept ==
  /\ WishTypes /\ UNCHANGED wishVars => WishTypes'
  /\ OutTypes /\ UNCHANGED outVars => OutTypes'
  /\ TaskTypes /\ UNCHANGED <<source, runVars>> => TaskTypes'
  /\ InitTypes /\ UNCHANGED initVars => InitTypes'
  /\ CallTypes /\ UNCHANGED callVars => CallTypes'
  /\ StoreTypes /\ UNCHANGED storeVars => StoreTypes'
  BY DEF WishTypes, OutTypes, TaskTypes, InitTypes, CallTypes, StoreTypes,
         wishVars, outVars, runVars, initVars, callVars, storeVars

LEMMA RunnerTypes ==
  ASSUME TypeOK, TaskOrderly, WatchOrderly, SwitchOrderly, RunnerStep
  PROVE  TypeOK'
<1>1. /\ WishTypes /\ OutTypes /\ TaskTypes /\ InitTypes /\ CallTypes /\ StoreTypes
  BY AllTypes
<1>2. WishTypes' /\ InitTypes' /\ StoreTypes'
  BY <1>1, RunnerMoves, TypesKept
<1>3. ASSUME runner \in Restarts
      PROVE  job.at \in Dests /\ job.at \in 0 .. NumDests
  BY <1>3, Constants DEF SwitchOrderly, Restarts
<1>4. ASSUME Outcome, UNCHANGED taskCancel PROVE TaskTypes'
  BY <1>1, <1>4 DEF Outcome, TaskTypes, Places, Watching
<1>5. ASSUME NEW d, OutputStopped(d), UNCHANGED <<input, fingerprint>> PROVE OutTypes'
  BY <1>1, <1>5 DEF OutTypes, OutputStopped, OutputStates
<1>6. CASE Poll
  BY <1>1, <1>2, <1>4, <1>6, PollFacts, TypesKept, AllTypesNext
<1>7. CASE Ends
  <2>1. UNCHANGED callVars /\ TaskTypes'
    BY <1>4, <1>7, EndsFacts
  <2>2. CASE RestartFailed
    <3>1. ASSUME UNCHANGED <<sup, feed>> PROVE OutTypes'
      BY <1>1, <2>2, <3>1 DEF RestartFailed, OutTypes
    <3>2. ASSUME OutputStopped(job.at) PROVE OutTypes'
      BY <1>5, <2>2, <3>2 DEF RestartFailed
    <3>3. ASSUME sup' = [sup EXCEPT ![job.at] = "ERROR"], feed' = [feed EXCEPT ![job.at] = NoUrl]
          PROVE  OutTypes'
      BY <1>1, <2>2, <3>3 DEF RestartFailed, OutTypes, OutputStates
    <3> QED BY <1>1, <1>2, <2>1, <2>2, <3>1, <3>2, <3>3, TypesKept, AllTypesNext
            DEF RestartFailed
  <2>3. CASE Publishes
    <3>1. OutTypes'
      BY <1>1, <2>3 DEF Publishes, OutTypes, TaskTypes, Jobs
    <3> QED BY <1>1, <1>2, <2>1, <3>1, TypesKept, AllTypesNext
  <2>4. CASE Undone
    BY <1>1, <1>2, <1>5, <2>1, <2>4, TypesKept, AllTypesNext DEF Undone
  <2> QED BY <1>7, <2>2, <2>3, <2>4 DEF Ends
<1>8. CASE Gives
  <2>1. TaskTypes'
    BY <1>1, <1>8 DEF Gives, TaskTypes, Places
  <2> QED BY <1>1, <1>2, <1>8, <2>1, TypesKept, AllTypesNext DEF Gives
<1>9. CASE Replaced
  <2>1. TaskTypes'
    BY <1>1, <1>9 DEF Replaced, TaskTypes, Places
  <2>2. CallTypes'
    BY <1>1, <1>9, Constants DEF Replaced, CallTypes
  <2>3. OutTypes'
    BY <1>1, <1>9 DEF Replaced, OutTypes, OutputStates, TaskTypes, Jobs
  <2> QED BY <1>2, <2>1, <2>2, <2>3, AllTypesNext
<1>10. CASE CameUp
  <2>1. TaskTypes' /\ OutTypes'
    BY <1>1, <1>10 DEF CameUp, TaskTypes, Places, OutTypes, OutputStates
  <2> QED BY <1>1, <1>2, <1>10, <2>1, TypesKept, AllTypesNext DEF CameUp
<1>11. CASE Cancelled
  <2>1. TaskTypes'
    <3>1. [NoJob EXCEPT !.at = 1] \in Jobs
      BY Values, Constants DEF Jobs
    <3> QED BY <1>1, <1>11, <3>1 DEF Cancelled, TaskTypes, Places
  <2>2. OutTypes'
    <3>1. ASSUME ForgetInputs, OutputStopped(job.at) \/ UNCHANGED <<sup, feed>>
          PROVE  OutTypes'
      BY <1>1, <3>1 DEF OutTypes, ForgetInputs, OutputStopped, OutputStates, Inputs
    <3> QED BY <1>1, <1>11, <3>1, TypesKept DEF Cancelled
  <2> QED BY <1>1, <1>2, <1>11, <2>1, <2>2, TypesKept, AllTypesNext DEF Cancelled
<1>12. CASE EndStopped
  <2>1. TaskTypes'
    <3>1. CASE job' = NoJob /\ runner' = "none"
      BY <1>1, <1>12, <3>1, Values DEF EndStopped, TaskTypes, Places
    <3>2. CASE job.at < NumDests /\ job' = [job EXCEPT !.at = @ + 1] /\ UNCHANGED runner
      BY <1>1, <1>12, <3>2, Constants DEF EndStopped, TaskTypes, Jobs
    <3> QED BY <1>12, <3>1, <3>2 DEF EndStopped
  <2>2. OutTypes'
    BY <1>1, <1>12 DEF EndStopped, OutTypes, OutputStopped, OutputStates, Inputs
  <2> QED BY <1>1, <1>2, <1>12, <2>1, <2>2, TypesKept, AllTypesNext DEF EndStopped
<1> QED BY <1>6, <1>7, <1>8, <1>9, <1>10, <1>11, <1>12, RunnerCases

LEMMA SnapKept ==
  /\ snap \in Snaps /\ NewVersion => snap' \in Snaps /\ snap'.newest = FALSE
                                       /\ snap'.record = snap.record /\ persisted' = "behind"
  /\ StoreTypes /\ NewVersion /\ UNCHANGED <<writer, stored>> => StoreTypes'
<1>1. snap \in Snaps /\ NewVersion => snap' \in Snaps /\ snap'.newest = FALSE
                                       /\ snap'.record = snap.record /\ persisted' = "behind"
  BY DEF NewVersion, Snaps
<1> QED BY <1>1 DEF StoreTypes, NewVersion

\* Going to another place of a call, or out of it.
LEMMA MoveTypes ==
  ASSUME CallTypes, NEW c \in Callers, NEW place \in Awaits, NEW call \in Calls \cup {"none"},
         pc' = [pc EXCEPT ![c] = place], op' = [op EXCEPT ![c] = call],
         lcLock' \in Callers \cup {NoCaller},
         UNCHANGED at \/ \E d \in 0 .. NumDests : at' = [at EXCEPT ![c] = d]
  PROVE  CallTypes'
BY DEF CallTypes

\* Goto() and Return() in one form.
Moves(c, place, call) == pc' = [pc EXCEPT ![c] = place] /\ op' = [op EXCEPT ![c] = call]

LEMMA MoveForms ==
  ASSUME CallTypes, NEW c \in Callers
  PROVE  /\ \A place : Goto(c, place) => Moves(c, place, op[c])
         /\ Return(c) => Moves(c, "idle", "none")
         /\ UNCHANGED <<pc, op>> => Moves(c, pc[c], op[c])
         /\ pc[c] \in Awaits /\ op[c] \in Calls \cup {"none"}
  BY DEF CallTypes, Goto, Return, Moves

LEMMA MoveKeepsTypes ==
  ASSUME CallTypes, NEW c \in Callers, NEW place \in Awaits, NEW call \in Calls \cup {"none"},
         Moves(c, place, call), lcLock' \in {lcLock, c, NoCaller},
         at' = at \/ \E d \in 0 .. NumDests : at' = [at EXCEPT ![c] = d]
  PROVE  CallTypes'
<1>1. lcLock' \in Callers \cup {NoCaller}
  BY DEF CallTypes
<1> QED BY <1>1, MoveTypes DEF Moves

\* The calls of c that go no further than its locks.
LEMMA EntryTypes ==
  ASSUME TypeOK, LocksOrderly, NEW c \in Callers,
         \/ \E call \in Calls : Call(c, call)
         \/ BeginLoad(c) \/ Loaded(c) \/ LoadFailed(c)
  PROVE  TypeOK'
<1>1. /\ WishTypes /\ OutTypes /\ TaskTypes /\ InitTypes /\ CallTypes /\ StoreTypes
  BY AllTypes
<1> USE <1>1
<1>2. ASSUME NEW call \in Calls, Call(c, call) PROVE TypeOK'
  <2>1. CallTypes'
    BY <1>2, MoveKeepsTypes DEF Call, Moves, Awaits
  <2> QED BY <1>2, <2>1, TypesKept, AllTypesNext DEF Call
<1>3. ASSUME Initialized(c), UNCHANGED <<lcLock, at>> PROVE CallTypes'
  BY <1>3, MoveKeepsTypes, MoveForms DEF Initialized, Awaits, Calls
<1>4. CASE BeginLoad(c)
  <2>1. CallTypes'
    BY <1>3, <1>4, MoveKeepsTypes, MoveForms DEF BeginLoad, Awaits
  <2>2. InitTypes'
    BY <1>4 DEF BeginLoad, InitTypes
  <2> QED BY <1>4, <2>1, <2>2, TypesKept, AllTypesNext DEF BeginLoad
<1>5. CASE Loaded(c)
  <2>1. CallTypes' /\ InitTypes' /\ OutTypes' /\ StoreTypes'
    BY <1>3, <1>5, TypesKept DEF Loaded, InitTypes, initVars
  <2>2. WishTypes'
    BY <1>5 DEF Loaded, WishTypes, StoreTypes, Records, wishVars
  <2>3. TaskTypes'
    <3>1. Unwatched("MONITORING") \in Sources
      BY Values DEF SourceStates
    <3> QED BY <1>5, <3>1 DEF Loaded, TaskTypes, runVars
  <2> QED BY <2>1, <2>2, <2>3, AllTypesNext
<1>6. CASE LoadFailed(c)
  <2>1. CallTypes'
    BY <1>6, MoveKeepsTypes, MoveForms DEF LoadFailed, Awaits
  <2>2. InitTypes'
    BY <1>6 DEF LoadFailed, InitTypes
  <2> QED BY <1>6, <2>1, <2>2, TypesKept, AllTypesNext DEF LoadFailed
<1> QED BY <1>2, <1>4, <1>5, <1>6

\* The calls that hold the lifecycle lock.
LEMMA LifecycleTypes ==
  ASSUME TypeOK, TaskOrderly, NEW c \in Callers,
         BeginStart(c) \/ BeginStop(c) \/ TaskEnded(c) \/ StopOutput(c)
  PROVE  TypeOK'
<1>1. /\ WishTypes /\ OutTypes /\ TaskTypes /\ InitTypes /\ CallTypes /\ StoreTypes
  BY AllTypes
<1> USE <1>1
<1>2. 1 \in 0 .. NumDests /\ 0 \in 0 .. NumDests
  BY Constants
<1>3. ASSUME NewVersion \/ UNCHANGED <<persisted, snap>>, UNCHANGED <<writer, stored>>
      PROVE  StoreTypes'
  BY <1>3, SnapKept DEF StoreTypes
<1>4. ASSUME ForgetInputs, UNCHANGED <<sup, feed>> PROVE OutTypes'
  BY <1>4 DEF OutTypes, ForgetInputs, Inputs
<1>5. ASSUME StopOutputsFrom(c), lcLock' \in {lcLock, c} PROVE CallTypes'
  BY <1>2, <1>5, MoveKeepsTypes, MoveForms DEF StopOutputsFrom, Awaits
<1>6. CASE BeginStart(c)
  <2>1. CallTypes'
    BY <1>6, MoveKeepsTypes, MoveForms DEF BeginStart, Awaits
  <2>2. InitTypes' /\ WishTypes'
    BY <1>6 DEF BeginStart, InitTypes, WishTypes
  <2>3. TaskTypes'
    BY <1>6 DEF BeginStart, TaskTypes, Sources, SourceStates, runVars
  <2>4. StoreTypes'
    BY <1>3, <1>6 DEF BeginStart
  <2> QED BY <1>6, <2>1, <2>2, <2>3, <2>4, TypesKept, AllTypesNext DEF BeginStart
<1>7. CASE BeginStop(c)
  <2>1. CallTypes'
    BY <1>5, <1>7, MoveKeepsTypes, MoveForms DEF BeginStop, Awaits
  <2>2. InitTypes' /\ WishTypes'
    BY <1>7 DEF BeginStop, InitTypes, WishTypes
  <2>3. TaskTypes'
    BY <1>7 DEF BeginStop, TaskTypes, StopOutputsFrom
  <2>4. StoreTypes'
    BY <1>3, <1>7 DEF BeginStop
  <2>5. OutTypes'
    BY <1>4, <1>7, TypesKept DEF BeginStop, StopOutputsFrom, outVars
  <2> QED BY <2>1, <2>2, <2>3, <2>4, <2>5, AllTypesNext
<1>8. CASE TaskEnded(c)
  BY <1>4, <1>5, <1>8, TypesKept, AllTypesNext DEF TaskEnded, StopOutputsFrom, runVars
<1>9. CASE StopOutput(c)
  <2>1. at[c] \in Dests /\ at[c] \in 0 .. NumDests
    BY <1>9, Constants DEF StopOutput, TaskOrderly
  <2>2. CallTypes'
    <3>1. CASE at[c] < NumDests /\ at' = [at EXCEPT ![c] = @ + 1] /\ UNCHANGED <<lcLock, pc, op>>
      <4>1. at[c] + 1 \in 0 .. NumDests
        BY <2>1, <3>1, Constants
      <4> QED BY <3>1, <4>1, MoveKeepsTypes, MoveForms
    <3>2. CASE /\ at' = [at EXCEPT ![c] = 0]
               /\ IF op[c] = "shutdown" THEN Return(c) /\ lcLock' = NoCaller
                  ELSE Goto(c, "persisting") /\ UNCHANGED lcLock
      BY <1>2, <3>2, MoveKeepsTypes, MoveForms DEF Awaits
    <3> QED BY <1>9, <3>1, <3>2 DEF StopOutput
  <2>3. OutTypes'
    BY <1>9 DEF StopOutput, OutTypes, OutputStopped, OutputStates, Inputs
  <2>4. TaskTypes'
    <3>1. Unwatched("STOPPED") \in Sources
      BY Values DEF SourceStates
    <3> QED BY <1>9, <3>1 DEF StopOutput, TaskTypes, runVars
  <2> QED BY <1>9, <2>2, <2>3, <2>4, TypesKept, AllTypesNext DEF StopOutput
<1> QED BY <1>6, <1>7, <1>8, <1>9

\* The calls that change a destination, and those that save.
LEMMA ChangeTypes ==
  ASSUME TypeOK, NEW c \in Callers,
         \/ \E d \in Dests : Enable(c, d) \/ Disable(c, d)
         \/ DestinationStopped(c) \/ BeginSave(c) \/ Saved(c) \/ SaveFailed(c)
  PROVE  TypeOK'
<1>1. /\ WishTypes /\ OutTypes /\ TaskTypes /\ InitTypes /\ CallTypes /\ StoreTypes
  BY AllTypes
<1> USE <1>1
<1>2. ASSUME NEW d \in Dests, NewVersion, job' = [job EXCEPT !.fresh = @ \ {d}],
             UNCHANGED <<source, runner, taskCancel, writer, stored>>
      PROVE  StoreTypes' /\ TaskTypes'
  BY <1>2, SnapKept DEF TaskTypes, Jobs
<1>3. ASSUME NEW d \in Dests, Enable(c, d) PROVE TypeOK'
  <2>1. StoreTypes' /\ TaskTypes'
    BY <1>2, <1>3 DEF Enable
  <2>2. CallTypes'
    BY <1>3, MoveKeepsTypes, MoveForms DEF Enable, Awaits
  <2>3. WishTypes'
    BY <1>3 DEF Enable, WishTypes
  <2> QED BY <1>3, <2>1, <2>2, <2>3, TypesKept, AllTypesNext DEF Enable
<1>4. ASSUME NEW d \in Dests, Disable(c, d) PROVE TypeOK'
  <2>1. StoreTypes' /\ TaskTypes'
    BY <1>2, <1>4 DEF Disable
  <2>2. CallTypes'
    <3>1. d \in 0 .. NumDests
      BY Constants
    <3> QED BY <1>4, <3>1, MoveKeepsTypes, MoveForms DEF Disable, Awaits, Calls, Moves
  <2>3. WishTypes' /\ OutTypes'
    BY <1>4 DEF Disable, WishTypes, OutTypes, Inputs
  <2> QED BY <1>4, <2>1, <2>2, <2>3, TypesKept, AllTypesNext DEF Disable
<1>5. CASE DestinationStopped(c)
  <2>1. CallTypes'
    <3>1. 0 \in 0 .. NumDests
      BY Constants
    <3> QED BY <1>5, <3>1, MoveKeepsTypes, MoveForms DEF DestinationStopped, Awaits
  <2>2. OutTypes'
    BY <1>5 DEF DestinationStopped, OutTypes, OutputStopped, OutputStates
  <2> QED BY <1>5, <2>1, <2>2, TypesKept, AllTypesNext DEF DestinationStopped, runVars
<1>6. ASSUME Persisted(c), UNCHANGED <<source, job, at>>
      PROVE  CallTypes' /\ TaskTypes'
  BY <1>6, MoveKeepsTypes, MoveForms DEF Persisted, TaskTypes, Places, Awaits
<1>7. Memory \in Records /\ [record |-> Memory, newest |-> TRUE] \in Snaps
  BY DEF Memory, Records, WishTypes, Snaps
<1>8. CASE BeginSave(c)
  <2>1. CallTypes' /\ TaskTypes'
    BY <1>6, <1>8, TypesKept DEF BeginSave, runVars
  <2>2. StoreTypes'
    <3>1. snap' \in Snaps
      BY <1>7, <1>8, Values DEF BeginSave, Persisted
    <3> QED BY <1>8, <3>1 DEF BeginSave, StoreTypes
  <2> QED BY <1>8, <2>1, <2>2, TypesKept, AllTypesNext DEF BeginSave
<1>9. CASE Saved(c)
  <2>1. CallTypes' /\ TaskTypes'
    BY <1>6, <1>9, TypesKept DEF Saved, runVars, callVars
  <2>2. StoreTypes'
    <3>1. snap' \in Snaps
      BY <1>7, <1>9, Values DEF Saved, Persisted
    <3>2. stored' \in Records
      BY <1>9 DEF Saved, StoreTypes, Snaps
    <3> QED BY <1>9, <3>1, <3>2 DEF Saved, StoreTypes
  <2> QED BY <1>9, <2>1, <2>2, TypesKept, AllTypesNext DEF Saved
<1>10. CASE SaveFailed(c)
  <2>1. CallTypes'
    BY <1>10, MoveKeepsTypes, MoveForms DEF SaveFailed, Awaits
  <2>2. StoreTypes'
    BY <1>10, Values DEF SaveFailed, StoreTypes
  <2> QED BY <1>10, <2>1, <2>2, TypesKept, AllTypesNext DEF SaveFailed
<1> QED BY <1>3, <1>4, <1>5, <1>8, <1>9, <1>10

LEMMA WorldTypes ==
  ASSUME TypeOK, TimePasses \/ \E d \in Dests : OutputDies(d)
  PROVE  TypeOK'
<1>1. /\ WishTypes /\ OutTypes /\ TaskTypes /\ InitTypes /\ CallTypes /\ StoreTypes
  BY AllTypes
<1>2. CASE TimePasses
  <2>1. TaskTypes'
    BY <1>1, <1>2 DEF TimePasses, TaskTypes, Sources, Ages, runVars
  <2> QED BY <1>1, <1>2, <2>1, TypesKept, AllTypesNext DEF TimePasses
<1>3. ASSUME NEW d \in Dests, OutputDies(d) PROVE TypeOK'
  <2>1. OutTypes'
    BY <1>1, <1>3 DEF OutputDies, OutTypes, OutputStates
  <2> QED BY <1>1, <1>3, <2>1, TypesKept, AllTypesNext DEF OutputDies
<1> QED BY <1>2, <1>3

LEMMA CallerCases ==
  ASSUME NEW c \in Callers, CallerStep(c)
  PROVE  \/ \E call \in Calls : Call(c, call)
         \/ BeginLoad(c) \/ Loaded(c) \/ LoadFailed(c)
         \/ BeginStart(c) \/ BeginStop(c) \/ TaskEnded(c) \/ StopOutput(c)
         \/ \E d \in Dests : Enable(c, d) \/ Disable(c, d)
         \/ DestinationStopped(c) \/ BeginSave(c) \/ Saved(c) \/ SaveFailed(c)
  BY DEF CallerStep, Admission, Completion

LEMMA CallerTypes ==
  ASSUME TypeOK, LocksOrderly, TaskOrderly, NEW c \in Callers, CallerStep(c)
  PROVE  TypeOK'
  BY CallerCases, EntryTypes, LifecycleTypes, ChangeTypes

-----------------------------------------------------------------------------
(* The locks.                                                              *)

LEMMA LocksMove ==
  ASSUME LocksOrderly, CallTypes, NEW c \in Callers, NEW place, NEW call, Moves(c, place, call),
         call \in CallsAt(place),
         \/ UNCHANGED lcLock /\ (HoldsAt(place, call) <=> Holding(c))
         \/ lcLock = NoCaller /\ lcLock' = c /\ HoldsAt(place, call)
         \/ lcLock = c /\ lcLock' = NoCaller /\ ~HoldsAt(place, call),
         \/ UNCHANGED initLock /\ (place = "loading" <=> pc[c] = "loading")
         \/ initLock = NoCaller /\ initLock' = c /\ place = "loading"
         \/ initLock = c /\ initLock' = NoCaller /\ place # "loading"
  PROVE  LocksOrderly'
<1>1. /\ pc'[c] = place /\ op'[c] = call
      /\ \A x \in Callers : x # c => pc'[x] = pc[x] /\ op'[x] = op[x]
  BY DEF Moves, CallTypes
<1>2. NoCaller \notin Callers
  BY Constants
<1>3. \A x \in Callers : op'[x] \in CallsAt(pc'[x])
  BY <1>1, Zenon DEF LocksOrderly
<1>4. \A x \in Callers : (lcLock' = x) <=> HoldsAt(pc'[x], op'[x])
  BY <1>1, <1>2 DEF LocksOrderly, Holding
<1>5. \A x \in Callers : (initLock' = x) <=> (pc'[x] = "loading")
  BY <1>1, <1>2 DEF LocksOrderly
<1> QED BY <1>3, <1>4, <1>5 DEF LocksOrderly, Holding

LEMMA LocksKept ==
  LocksOrderly /\ UNCHANGED <<lcLock, initLock, pc, op>> => LocksOrderly'
  BY DEF LocksOrderly, Holding

LEMMA CallerLocks ==
  ASSUME TypeOK, LocksOrderly, SavesOrderly, NEW c \in Callers, CallerStep(c)
  PROVE  LocksOrderly'
<1>1. CallTypes
  BY AllTypes
<1>2. op[c] \in CallsAt(pc[c]) /\ (lcLock = c <=> HoldsAt(pc[c], op[c]))
        /\ (initLock = c <=> pc[c] = "loading")
  BY DEF LocksOrderly, Holding
<1> USE <1>1, LocksMove, MoveForms DEF HoldsAt, Holding, CallsAt
<1>3. ASSUME NEW call \in Calls, Call(c, call) PROVE LocksOrderly'
  <2>1. CASE call \in {"stop", "shutdown"}
    <3>1. Moves(c, "wantStop", call) /\ UNCHANGED <<lcLock, initLock>> /\ pc[c] = "idle"
      BY <1>3, <2>1 DEF Call, Moves, initVars
    <3> QED BY <2>1, <3>1
  <2>2. CASE call \in {"initialize", "start"}
    <3>1. Moves(c, "initializing", call) /\ UNCHANGED <<lcLock, initLock>> /\ pc[c] = "idle"
      BY <1>3, <2>2 DEF Call, Moves, initVars
    <3> QED BY <2>2, <3>1
  <2> QED BY <2>1, <2>2 DEF Calls
<1>4. ASSUME Initialized(c), UNCHANGED lcLock, pc[c] \in {"initializing", "loading"},
             initLock' = IF initLock = c THEN NoCaller ELSE initLock
      PROVE  LocksOrderly'
  <2>1. CASE op[c] = "start"
    <3>1. Moves(c, "wantStart", "start")
      BY <1>4, <2>1 DEF Initialized
    <3> QED BY <1>2, <1>4, <3>1
  <2>2. CASE op[c] # "start"
    <3>1. Moves(c, "idle", "none")
      BY <1>4, <2>2 DEF Initialized
    <3> QED BY <1>2, <1>4, <3>1
  <2> QED BY <2>1, <2>2
<1>5. CASE BeginLoad(c)
  <2>1. CASE Initialized(c) /\ UNCHANGED initLock
    BY <1>2, <1>4, <1>5, <2>1 DEF BeginLoad
  <2>2. CASE initLock' = c /\ Goto(c, "loading")
    <3>1. Moves(c, "loading", op[c])
      BY <2>2
    <3> QED BY <1>2, <1>5, <2>2, <3>1 DEF BeginLoad
  <2> QED BY <1>5, <2>1, <2>2 DEF BeginLoad
<1>6. CASE Loaded(c)
  BY <1>2, <1>4, <1>6 DEF Loaded
<1>7. CASE LoadFailed(c)
  <2>1. Moves(c, "idle", "none")
    BY <1>7 DEF LoadFailed
  <2> QED BY <1>2, <1>7, <2>1 DEF LoadFailed
<1>8. CASE BeginStart(c)
  <2>1. pc[c] = "wantStart" /\ op[c] = "start" /\ lcLock = NoCaller /\ UNCHANGED initLock
    BY <1>2, <1>8 DEF BeginStart
  <2>2. CASE Return(c) /\ UNCHANGED lcLock
    <3>1. Moves(c, "idle", "none")
      BY <2>2
    <3> QED BY <2>1, <2>2, <3>1
  <2>3. CASE lcLock' = c /\ Goto(c, "persisting")
    <3>1. Moves(c, "persisting", "start")
      BY <2>1, <2>3
    <3> QED BY <2>1, <2>3, <3>1
  <2> QED BY <1>8, <2>2, <2>3 DEF BeginStart
<1>9. ASSUME StopOutputsFrom(c), lcLock = NoCaller \/ lcLock = c, lcLock' = c,
             pc[c] \in {"wantStop", "awaitTask"}, UNCHANGED initLock
      PROVE  LocksOrderly'
  <2>1. Moves(c, "stopOutputs", op[c])
    BY <1>9 DEF StopOutputsFrom
  <2> QED BY <1>2, <1>9, <2>1, Constants
<1>10. CASE BeginStop(c)
  <2>1. CASE StopOutputsFrom(c)
    BY <1>9, <1>10, <2>1 DEF BeginStop
  <2>2. CASE Goto(c, "awaitTask")
    <3>1. Moves(c, "awaitTask", op[c])
      BY <2>2
    <3> QED BY <1>2, <1>10, <3>1 DEF BeginStop
  <2> QED BY <1>10, <2>1, <2>2 DEF BeginStop
<1>11. CASE TaskEnded(c)
  BY <1>2, <1>9, <1>11 DEF TaskEnded, initVars
<1>12. CASE StopOutput(c)
  <2>1. pc[c] = "stopOutputs" /\ lcLock = c /\ UNCHANGED initLock /\ op[c] \in {"stop", "shutdown"}
    BY <1>2, <1>12 DEF StopOutput, initVars
  <2>2. CASE UNCHANGED <<lcLock, pc, op>>
    BY <2>1, <2>2, LocksKept
  <2>3. CASE op[c] = "shutdown" /\ Return(c) /\ lcLock' = NoCaller
    <3>1. Moves(c, "idle", "none")
      BY <2>3
    <3> QED BY <2>1, <2>3, <3>1
  <2>4. CASE op[c] # "shutdown" /\ Goto(c, "persisting") /\ UNCHANGED lcLock
    <3>1. Moves(c, "persisting", "stop")
      BY <2>1, <2>4
    <3> QED BY <2>1, <2>4, <3>1
  <2> QED BY <1>12, <2>2, <2>3, <2>4 DEF StopOutput
<1>13. ASSUME NEW d \in Dests, Enable(c, d) PROVE LocksOrderly'
  <2>1. Moves(c, "persisting", "none") /\ pc[c] = "idle"
    BY <1>2, <1>13 DEF Enable
  <2> QED BY <1>13, <2>1 DEF Enable, initVars
<1>14. ASSUME NEW d \in Dests, Disable(c, d) PROVE LocksOrderly'
  <2>1. pc[c] = "idle" /\ op[c] = "none" /\ UNCHANGED <<lcLock, initLock>>
    BY <1>2, <1>14 DEF Disable, initVars
  <2>2. CASE desired /\ enabled = {d}
    <3>1. Moves(c, "wantStop", "stop")
      BY <1>14, <2>2 DEF Disable, Moves
    <3> QED BY <2>1, <3>1
  <2>3. CASE ~(desired /\ enabled = {d})
    <3>1. Moves(c, "disabling", "none")
      BY <1>14, <2>1, <2>3 DEF Disable
    <3> QED BY <2>1, <3>1
  <2> QED BY <2>2, <2>3
<1>15. CASE DestinationStopped(c)
  <2>1. Moves(c, "persisting", "none") /\ pc[c] = "disabling"
    BY <1>2, <1>15 DEF DestinationStopped
  <2> QED BY <1>15, <2>1 DEF DestinationStopped, initVars
<1>16. ASSUME pc[c] = "persisting", Return(c), UNCHANGED initLock,
              lcLock' = IF lcLock = c THEN NoCaller ELSE lcLock
       PROVE  LocksOrderly'
  <2>1. Moves(c, "idle", "none")
    BY <1>16
  <2> QED BY <1>2, <1>16, <2>1
<1>17. CASE BeginSave(c)
  BY <1>16, <1>17, LocksKept DEF BeginSave, Persisted, callVars, initVars
<1>18. ASSUME writer = c PROVE pc[c] = "persisting"
  BY <1>18 DEF SavesOrderly
<1>19. CASE Saved(c)
  BY <1>16, <1>18, <1>19, LocksKept DEF Saved, Persisted, callVars, initVars
<1>20. CASE SaveFailed(c)
  BY <1>16, <1>18, <1>20 DEF SaveFailed, initVars
<1> QED BY <1>3, <1>5, <1>6, <1>7, <1>8, <1>10, <1>11, <1>12, <1>13, <1>14, <1>15, <1>17,
           <1>19, <1>20, CallerCases

-----------------------------------------------------------------------------
(* Before initialize() returned, and around the end of the task.           *)

LEMMA MoveFacts ==
  ASSUME CallTypes, NEW c \in Callers, NEW place, NEW call, Moves(c, place, call)
  PROVE  /\ pc'[c] = place /\ op'[c] = call
         /\ \A x \in Callers : x # c => pc'[x] = pc[x] /\ op'[x] = op[x]
  BY DEF Moves, CallTypes

LEMMA CallerLoad ==
  ASSUME TypeOK, LocksOrderly, LoadOrderly, SavesOrderly, NEW c \in Callers, CallerStep(c)
  PROVE  LoadOrderly'
<1>1. CallTypes
  BY AllTypes
<1>2. /\ initialized => initialized'
      /\ ~initialized => pc[c] \in {"idle", "initializing", "loading"}
  BY CallerCases DEF LoadOrderly, Call, BeginLoad, Loaded, LoadFailed, BeginStart, BeginStop,
     TaskEnded, StopOutput, Enable, Disable, DestinationStopped, BeginSave, Saved, SaveFailed,
     initVars
<1>3. CASE initialized
  <2>1. ASSUME NEW x \in Callers PROVE pc'[x] # "loading"
    <3>1. pc[x] # "loading"
      BY <1>3 DEF LoadOrderly
    <3>2. CASE UNCHANGED pc
      BY <3>1, <3>2
    <3>3. CASE \E place : pc' = [pc EXCEPT ![c] = place] /\ place # "loading"
      BY <1>1, <3>1, <3>3 DEF CallTypes
    <3>4. UNCHANGED pc \/ \E place : pc' = [pc EXCEPT ![c] = place] /\ place # "loading"
      <4>1. ASSUME NEW call \in Calls, Call(c, call)
            PROVE  \E place : pc' = [pc EXCEPT ![c] = place] /\ place # "loading"
        <5>1. \E place \in {"wantStop", "initializing"} : pc' = [pc EXCEPT ![c] = place]
          BY <4>1 DEF Call
        <5> QED BY <5>1
      <4>2. ASSUME BeginLoad(c) \/ Loaded(c) \/ LoadFailed(c) \/ BeginStart(c)
            PROVE  \E place : pc' = [pc EXCEPT ![c] = place] /\ place # "loading"
        <5>1. ~Loaded(c) /\ ~LoadFailed(c)
          BY <1>3 DEF Loaded, LoadFailed, LoadOrderly
        <5>2. \/ Goto(c, "wantStart") \/ Goto(c, "persisting") \/ Return(c)
          BY <1>3, <4>2, <5>1 DEF BeginLoad, BeginStart, Initialized
        <5>3. \E place \in {"wantStart", "persisting", "idle"} : pc' = [pc EXCEPT ![c] = place]
          BY <5>2 DEF Goto, Return
        <5> QED BY <5>3
      <4>3. ASSUME \/ BeginStop(c) \/ TaskEnded(c) \/ StopOutput(c) \/ DestinationStopped(c)
                   \/ BeginSave(c) \/ Saved(c) \/ SaveFailed(c)
            PROVE  UNCHANGED pc \/ \E place : pc' = [pc EXCEPT ![c] = place] /\ place # "loading"
        BY <4>3 DEF BeginStop, TaskEnded, StopOutput, DestinationStopped, BeginSave, Saved,
                    SaveFailed, Goto, Return, StopOutputsFrom, Persisted, callVars
      <4>4. ASSUME NEW d \in Dests, Enable(c, d) \/ Disable(c, d)
            PROVE  \E place : pc' = [pc EXCEPT ![c] = place] /\ place # "loading"
        BY <4>4 DEF Enable, Disable, Goto
      <4> QED BY <4>1, <4>2, <4>3, <4>4, CallerCases
    <3> QED BY <3>2, <3>3, <3>4
  <2> QED BY <1>2, <1>3, <2>1 DEF LoadOrderly
<1>4. CASE ~initialized
  <2>1. /\ pc[c] \in {"idle", "initializing", "loading"} /\ writer # c
        /\ \A x \in Callers : pc[x] \in {"idle", "initializing", "loading"}
        /\ runner = "none" /\ writer = NoCaller /\ persisted = "never" /\ ~desired
    BY <1>2, <1>4, Constants DEF LoadOrderly
  <2>2. \/ Call(c, "initialize") \/ BeginLoad(c) \/ Loaded(c) \/ LoadFailed(c)
    BY <1>4, <2>1, CallerCases DEF Call, BeginStart, BeginStop, TaskEnded, StopOutput, Enable,
       Disable, DestinationStopped, BeginSave, Saved, SaveFailed
  <2>3. CASE Call(c, "initialize")
    BY <1>1, <1>4, <2>1, <2>3 DEF Call, LoadOrderly, CallTypes, wishVars, initVars, runVars,
                                  storeVars
  <2>4. CASE BeginLoad(c)
    <3>1. Goto(c, "loading") /\ UNCHANGED <<initialized, runner, writer, persisted, desired>>
      BY <1>4, <2>4 DEF BeginLoad, wishVars, runVars, storeVars
    <3> QED BY <1>1, <1>4, <2>1, <3>1 DEF LoadOrderly, CallTypes, Goto
  <2>5. CASE Loaded(c)
    <3>1. \A x \in Callers : x # c => pc[x] # "loading"
      BY <2>5 DEF LocksOrderly, Loaded
    <3>2. pc'[c] # "loading" /\ \A x \in Callers : x # c => pc'[x] = pc[x]
      BY <1>1, <2>5 DEF Loaded, Initialized, Goto, Return, CallTypes
    <3>3. initialized'
      BY <2>5 DEF Loaded
    <3> QED BY <3>1, <3>2, <3>3 DEF LoadOrderly
  <2>6. CASE LoadFailed(c)
    <3>1. Return(c) /\ UNCHANGED <<initialized, runner, writer, persisted, desired>>
      BY <1>4, <2>6 DEF LoadFailed, wishVars, runVars, storeVars
    <3> QED BY <1>1, <1>4, <2>1, <3>1 DEF LoadOrderly, CallTypes, Return
  <2> QED BY <2>2, <2>3, <2>4, <2>5, <2>6
<1> QED BY <1>3, <1>4

LEMMA RunnerCalls ==
  ASSUME TypeOK, LocksOrderly, LoadOrderly, TaskOrderly, WatchOrderly, SwitchOrderly, RunnerStep
  PROVE  LocksOrderly' /\ LoadOrderly'
<1>1. UNCHANGED <<wishVars, initVars, lcLock, pc, op, storeVars>> /\ runner # "none"
  BY RunnerMoves
<1>2. initialized /\ UNCHANGED <<initialized, initLock>>
  BY <1>1 DEF LoadOrderly, initVars
<1> QED BY <1>1, <1>2, LocksKept DEF LoadOrderly

\* A caller is on its way to another place and the task and the wish stay as they are.
LEMMA TaskMove ==
  ASSUME TypeOK, LocksOrderly, TaskOrderly, NEW c \in Callers, NEW place, NEW call,
         Moves(c, place, call), UNCHANGED <<desired, runner, taskCancel>>,
         at' = at \/ \E d : at' = [at EXCEPT ![c] = d],
         pc[c] # "awaitTask", place \notin {"awaitTask", "stopOutputs"},
         HoldsAt(place, call) => runner = "none"
  PROVE  TaskOrderly'
<1>1. CallTypes
  BY AllTypes
<1>2. /\ pc'[c] = place /\ op'[c] = call
      /\ \A x \in Callers : x # c => pc'[x] = pc[x] /\ op'[x] = op[x] /\ at'[x] = at[x]
  BY <1>1, MoveFacts DEF CallTypes
<1>3. \A x \in Callers : pc'[x] \in {"awaitTask", "stopOutputs"} <=>
                         x # c /\ pc[x] \in {"awaitTask", "stopOutputs"}
  BY <1>2
<1>4. \A x \in Callers : Holding(x)' => IF x = c THEN HoldsAt(place, call) ELSE Holding(x)
  BY <1>2 DEF Holding
<1>5. \A x \in Callers : pc'[x] = "awaitTask" <=> pc[x] = "awaitTask"
  BY <1>2
<1>6. \A x \in Callers : Holding(x)' /\ pc'[x] # "awaitTask" => runner = "none"
  BY <1>2, <1>4 DEF TaskOrderly
<1>7. \A x \in Callers : pc'[x] = "stopOutputs" => at'[x] \in Dests
  BY <1>2, <1>3 DEF TaskOrderly
<1>8. \A x \in Callers : pc'[x] \in {"awaitTask", "stopOutputs"} => ~desired'
  BY <1>3 DEF TaskOrderly
<1> QED BY <1>5, <1>6, <1>7, <1>8 DEF TaskOrderly

\* A caller takes the lifecycle lock, or goes on with it: it is alone.
LEMMA Alone ==
  ASSUME TypeOK, LocksOrderly, NEW c \in Callers, lcLock = NoCaller \/ lcLock = c
  PROVE  \A x \in Callers : x # c => ~Holding(x) /\ pc[x] \notin {"awaitTask", "stopOutputs"}
  BY Constants DEF LocksOrderly, Holding, HoldsAt

LEMMA AloneMove ==
  ASSUME TypeOK, LocksOrderly, NEW c \in Callers, lcLock = NoCaller \/ lcLock = c,
         NEW place, NEW call, Moves(c, place, call),
         place \in {"awaitTask", "stopOutputs"} => ~desired',
         place # "awaitTask" /\ HoldsAt(place, call) => runner' = "none",
         place = "awaitTask" => /\ taskCancel' \/ runner' \in {"ending", "none"}
                                /\ taskCancel' => runner' \notin {"none", "ending"},
         place # "awaitTask" => ~taskCancel' /\ runner' # "ending",
         place = "stopOutputs" => at'[c] \in Dests
  PROVE  TaskOrderly'
<1>1. CallTypes
  BY AllTypes
<1>2. /\ pc'[c] = place /\ op'[c] = call
      /\ \A x \in Callers : x # c => pc'[x] = pc[x] /\ op'[x] = op[x]
  BY <1>1, MoveFacts
<1>3. \A x \in Callers : x # c => ~Holding(x)' /\ pc'[x] \notin {"awaitTask", "stopOutputs"}
  BY <1>2, Alone DEF Holding
<1>4. Holding(c)' = HoldsAt(place, call)
  BY <1>2 DEF Holding
<1>5. \A x \in Callers : pc'[x] \in {"awaitTask", "stopOutputs"} => ~desired'
  BY <1>2, <1>3
<1>6. \A x \in Callers : Holding(x)' /\ pc'[x] # "awaitTask" => runner' = "none"
  BY <1>2, <1>3, <1>4
<1>7. \A x \in Callers : /\ pc'[x] = "awaitTask" => taskCancel' \/ runner' \in {"ending", "none"}
                         /\ pc'[x] = "stopOutputs" => at'[x] \in Dests
  BY <1>2, <1>3
<1>8. /\ taskCancel' \/ runner' = "ending" => \E x \in Callers : pc'[x] = "awaitTask"
      /\ taskCancel' => runner' \notin {"none", "ending"}
  BY <1>2
<1> QED BY <1>5, <1>6, <1>7, <1>8 DEF TaskOrderly

LEMMA CallerTask ==
  ASSUME TypeOK, LocksOrderly, LoadOrderly, TaskOrderly, SavesOrderly, NEW c \in Callers,
         CallerStep(c)
  PROVE  TaskOrderly'
<1>1. CallTypes /\ (op[c] \in CallsAt(pc[c])) /\ (lcLock = c <=> Holding(c))
  BY AllTypes DEF LocksOrderly
<1>2. ASSUME lcLock = NoCaller PROVE ~taskCancel /\ runner # "ending"
  BY <1>2, Constants DEF TaskOrderly, LocksOrderly, Holding, HoldsAt
<1> USE <1>1, MoveForms DEF HoldsAt, CallsAt
<1>3. ASSUME NEW call \in Calls, Call(c, call) PROVE TaskOrderly'
  <2>1. /\ pc[c] = "idle" /\ UNCHANGED <<desired, runner, taskCancel, at>>
        /\ Moves(c, "wantStop", call) \/ Moves(c, "initializing", call)
    BY <1>3 DEF Call, Moves, wishVars, runVars
  <2> QED BY <2>1, TaskMove
<1>4. ASSUME Initialized(c), UNCHANGED <<runner, taskCancel, at>>, UNCHANGED desired,
             pc[c] \in {"initializing", "loading"}
      PROVE  TaskOrderly'
  <2>1. Moves(c, "wantStart", op[c]) \/ Moves(c, "idle", "none")
    BY <1>4 DEF Initialized
  <2> QED BY <1>4, <2>1, TaskMove
<1>5. CASE BeginLoad(c)
  <2>1. CASE Initialized(c)
    BY <1>4, <1>5, <2>1 DEF BeginLoad, wishVars, runVars
  <2>2. CASE Goto(c, "loading")
    <3>1. Moves(c, "loading", op[c])
      BY <2>2
    <3> QED BY <1>5, <3>1, TaskMove DEF BeginLoad, wishVars, runVars
  <2> QED BY <1>5, <2>1, <2>2 DEF BeginLoad
<1>6. CASE Loaded(c)
  <2>1. ~initialized /\ runner = "none" /\ ~taskCancel
    BY <1>6 DEF Loaded, LoadOrderly, TaskOrderly
  <2>2. \A x \in Callers : pc[x] \in {"idle", "initializing", "loading"}
    BY <2>1 DEF LoadOrderly
  <2>3. Moves(c, "wantStart", "start") \/ Moves(c, "idle", "none")
    BY <1>6 DEF Loaded, Initialized
  <2>4. pc'[c] \in {"wantStart", "idle"} /\ \A x \in Callers : x # c => pc'[x] = pc[x]
    BY <2>3, MoveFacts
  <2>5. UNCHANGED <<runner, taskCancel>>
    BY <1>6 DEF Loaded, runVars
  <2> QED BY <2>1, <2>2, <2>4, <2>5 DEF TaskOrderly, Holding
<1>7. CASE LoadFailed(c)
  <2>1. Moves(c, "idle", "none")
    BY <1>7 DEF LoadFailed
  <2> QED BY <1>7, <2>1, TaskMove DEF LoadFailed, wishVars, runVars
<1>8. CASE BeginStart(c)
  <2>1. lcLock = NoCaller /\ pc[c] = "wantStart" /\ UNCHANGED <<runner, taskCancel, at>>
    BY <1>8 DEF BeginStart, runVars
  <2>2. CASE Return(c) /\ UNCHANGED desired
    <3>1. Moves(c, "idle", "none")
      BY <2>2
    <3> QED BY <2>1, <2>2, <3>1, TaskMove
  <2>3. CASE Goto(c, "persisting") /\ runner = "none"
    <3>1. Moves(c, "persisting", op[c])
      BY <2>3
    <3> QED BY <1>2, <2>1, <2>3, <3>1, AloneMove
  <2> QED BY <1>8, <2>2, <2>3 DEF BeginStart
<1>9. ASSUME StopOutputsFrom(c), ~desired', lcLock = NoCaller \/ lcLock = c,
             runner' = "none", ~taskCancel'
      PROVE  TaskOrderly'
  <2>1. Moves(c, "stopOutputs", op[c]) /\ at'[c] = 1 /\ 1 \in Dests
    BY <1>9, Constants DEF StopOutputsFrom, CallTypes
  <2> QED BY <1>9, <2>1, AloneMove
<1>10. CASE BeginStop(c)
  <2>1. lcLock = NoCaller /\ ~desired' /\ UNCHANGED runner
    BY <1>10 DEF BeginStop
  <2>2. CASE runner = "none" /\ StopOutputsFrom(c) /\ UNCHANGED taskCancel
    BY <1>2, <1>9, <2>1, <2>2
  <2>3. CASE runner # "none" /\ taskCancel' = TRUE /\ Goto(c, "awaitTask")
    <3>1. Moves(c, "awaitTask", op[c])
      BY <2>3
    <3> QED BY <1>2, <2>1, <2>3, <3>1, AloneMove
  <2> QED BY <1>10, <2>2, <2>3 DEF BeginStop
<1>11. CASE TaskEnded(c)
  <2>1. /\ pc[c] = "awaitTask" /\ runner = "none" /\ StopOutputsFrom(c)
        /\ UNCHANGED <<desired, runner, taskCancel>>
    BY <1>11 DEF TaskEnded, wishVars, runVars
  <2>2. ~desired /\ ~taskCancel /\ Holding(c)
    BY <2>1 DEF TaskOrderly, Holding
  <2> QED BY <1>9, <2>1, <2>2
<1>12. CASE StopOutput(c)
  <2>1. pc[c] = "stopOutputs" /\ UNCHANGED <<desired, runner, taskCancel>>
    BY <1>12 DEF StopOutput, wishVars, runVars
  <2>2. Holding(c) /\ ~desired /\ runner = "none" /\ ~taskCancel /\ at[c] \in Dests
    BY <2>1 DEF TaskOrderly, Holding
  <2>3. CASE at[c] < NumDests /\ at' = [at EXCEPT ![c] = @ + 1] /\ UNCHANGED <<pc, op>>
    <3>1. Moves(c, "stopOutputs", op[c])
      BY <2>1, <2>3
    <3>2. at'[c] \in Dests
      BY <2>2, <2>3, Constants DEF CallTypes
    <3> QED BY <2>1, <2>2, <3>1, <3>2, AloneMove
  <2>4. CASE Return(c) \/ Goto(c, "persisting")
    <3>1. Moves(c, "idle", "none") \/ Moves(c, "persisting", op[c])
      BY <2>4
    <3> QED BY <2>1, <2>2, <3>1, AloneMove
  <2> QED BY <1>12, <2>3, <2>4 DEF StopOutput
<1>13. ASSUME NEW d \in Dests, Enable(c, d) PROVE TaskOrderly'
  <2>1. Moves(c, "persisting", op[c]) /\ pc[c] = "idle" /\ op[c] = "none"
    BY <1>13 DEF Enable
  <2> QED BY <1>13, <2>1, TaskMove DEF Enable
<1>14. ASSUME NEW d \in Dests, Disable(c, d) PROVE TaskOrderly'
  <2>1. /\ pc[c] = "idle" /\ op[c] = "none" /\ UNCHANGED <<desired, runner, taskCancel>>
        /\ UNCHANGED at \/ at' = [at EXCEPT ![c] = d]
    BY <1>14 DEF Disable
  <2>2. Moves(c, "wantStop", "stop") \/ Moves(c, "disabling", "none")
    BY <1>14, <2>1 DEF Disable, Moves
  <2> QED BY <2>1, <2>2, TaskMove
<1>15. CASE DestinationStopped(c)
  <2>1. /\ pc[c] = "disabling" /\ op[c] = "none" /\ UNCHANGED <<desired, runner, taskCancel>>
        /\ at' = [at EXCEPT ![c] = 0]
    BY <1>15 DEF DestinationStopped, wishVars, runVars
  <2>2. Moves(c, "persisting", "none")
    BY <1>15, <2>1 DEF DestinationStopped
  <2> QED BY <2>1, <2>2, TaskMove
<1>16. ASSUME pc[c] = "persisting", Persisted(c), UNCHANGED <<wishVars, at>>
       PROVE  TaskOrderly'
  <2>1. Moves(c, "idle", "none")
    BY <1>16 DEF Persisted
  <2>2. CASE op[c] = "start"
    <3>1. Holding(c)
      BY <1>16, <2>2 DEF Holding
    <3>2. lcLock = c /\ runner = "none" /\ ~taskCancel
      BY <1>16, <3>1 DEF TaskOrderly
    <3>3. runner' = "created" /\ ~taskCancel'
      BY <1>16, <2>2, <3>2 DEF Persisted
    <3> QED BY <2>1, <3>2, <3>3, AloneMove
  <2>3. CASE op[c] # "start"
    BY <1>16, <2>1, <2>3, TaskMove DEF Persisted, wishVars
  <2> QED BY <2>2, <2>3
<1>17. ASSUME UNCHANGED <<pc, op, at, desired, runner, taskCancel>>
       PROVE  TaskOrderly'
  BY <1>17 DEF TaskOrderly, Holding
<1>18. CASE BeginSave(c)
  BY <1>16, <1>17, <1>18 DEF BeginSave, callVars, wishVars
<1>19. ASSUME writer = c PROVE pc[c] = "persisting"
  BY <1>19 DEF SavesOrderly
<1>20. CASE Saved(c)
  BY <1>16, <1>17, <1>19, <1>20 DEF Saved, callVars, wishVars
<1>21. CASE SaveFailed(c)
  <2>1. Moves(c, "idle", "none")
    BY <1>21 DEF SaveFailed
  <2> QED BY <1>19, <1>21, <2>1, TaskMove DEF SaveFailed, wishVars, runVars
<1> QED BY <1>3, <1>5, <1>6, <1>7, <1>8, <1>10, <1>11, <1>12, <1>13, <1>14, <1>15, <1>18,
           <1>20, <1>21, CallerCases

LEMMA RunnerTask ==
  ASSUME TypeOK, LocksOrderly, TaskOrderly, WatchOrderly, SwitchOrderly, RunnerStep
  PROVE  TaskOrderly'
<1>1. /\ UNCHANGED <<desired, pc, op>> /\ runner # "none"
      /\ \/ /\ ~taskCancel /\ ~taskCancel' /\ runner \notin {"none", "ending"}
            /\ runner' \in Watching \cup Restarts
         \/ /\ taskCancel /\ ~taskCancel' /\ runner' \in {"none", "ending"}
         \/ /\ runner = "ending" /\ runner' \in {"none", "ending"} /\ UNCHANGED taskCancel
  BY RunnerMoves DEF wishVars
<1>2. \A x \in Callers : /\ Holding(x)' = Holding(x)
                         /\ pc[x] # "stopOutputs"
                         /\ Holding(x) => pc[x] = "awaitTask"
  BY <1>1 DEF TaskOrderly, Holding, HoldsAt
<1>3. ~taskCancel'
  BY <1>1 DEF TaskOrderly
<1>4. runner' = "ending" => \E x \in Callers : pc[x] = "awaitTask"
  BY <1>1 DEF TaskOrderly, Watching, Restarts
<1>5. \A x \in Callers : pc[x] = "awaitTask" => runner' \in {"ending", "none"}
  BY <1>1 DEF TaskOrderly
<1> QED BY <1>1, <1>2, <1>3, <1>4, <1>5 DEF TaskOrderly

-----------------------------------------------------------------------------
(* What is saved.                                                          *)

\* What a call does to the others of those that will save: nothing.
SavingAt(place, call) ==
  \/ place \in {"persisting", "disabling"}
  \/ place \in {"wantStop", "awaitTask", "stopOutputs"} /\ call = "stop"

\* A call that changes neither the wish nor the store.
LEMMA SavesMove ==
  ASSUME TypeOK, SavesOrderly, NEW c \in Callers, NEW place, NEW call, Moves(c, place, call),
         UNCHANGED wishVars, UNCHANGED storeVars,
         SavingAt(pc[c], op[c]) => SavingAt(place, call),
         writer = c => place = "persisting"
  PROVE  SavesOrderly'
<1>1. CallTypes
  BY AllTypes
<1>2. /\ pc'[c] = place /\ op'[c] = call
      /\ \A x \in Callers : x # c => pc'[x] = pc[x] /\ op'[x] = op[x]
  BY <1>1, MoveFacts
<1>3. \A x \in Callers : WillSave(x) => WillSave(x)'
  BY <1>2 DEF WillSave, SavingAt
<1>4. \A x \in Callers : writer = x => pc'[x] = "persisting"
  BY <1>2 DEF SavesOrderly
<1> QED BY <1>3, <1>4 DEF SavesOrderly, wishVars, storeVars, Memory

\* A call that changes the wish and counts a version, which it will save.
LEMMA SavesChange ==
  ASSUME TypeOK, SavesOrderly, NEW c \in Callers, NEW place, NEW call, Moves(c, place, call),
         NewVersion, UNCHANGED <<writer, stored>>, desired' => asked',
         SavingAt(place, call) \/ asked' # desired',
         pc[c] # "persisting"
  PROVE  SavesOrderly'
<1>1. CallTypes /\ snap \in Snaps
  BY AllTypes DEF StoreTypes
<1>2. /\ pc'[c] = place /\ op'[c] = call
      /\ \A x \in Callers : x # c => pc'[x] = pc[x] /\ op'[x] = op[x]
  BY <1>1, MoveFacts
<1>3. persisted' = "behind" /\ snap'.newest = FALSE
  BY <1>1, SnapKept
<1>4. \A x \in Callers : writer' = x => pc'[x] = "persisting"
  BY <1>2 DEF SavesOrderly
<1>5. asked' = desired' => WillSave(c)'
  BY <1>2 DEF WillSave, SavingAt
<1> QED BY <1>3, <1>4, <1>5 DEF SavesOrderly

LEMMA CallerSaves ==
  ASSUME TypeOK, LocksOrderly, LoadOrderly, SavesOrderly, NEW c \in Callers, CallerStep(c)
  PROVE  SavesOrderly'
<1>1. CallTypes /\ op[c] \in CallsAt(pc[c]) /\ WishTypes /\ snap \in Snaps
  BY AllTypes DEF LocksOrderly, StoreTypes
<1>2. writer = c => pc[c] = "persisting"
  BY DEF SavesOrderly
<1> USE <1>1, MoveForms DEF CallsAt, SavingAt
<1>3. ASSUME NEW call \in Calls, Call(c, call) PROVE SavesOrderly'
  <2>1. /\ pc[c] = "idle" /\ UNCHANGED <<wishVars, storeVars>>
        /\ Moves(c, "wantStop", call) \/ Moves(c, "initializing", call)
    BY <1>3 DEF Call, Moves
  <2> QED BY <1>2, <2>1, SavesMove
<1>4. CASE BeginLoad(c) \/ LoadFailed(c)
  <2>1. /\ pc[c] \in {"initializing", "loading"} /\ UNCHANGED <<wishVars, storeVars>>
        /\ \E place : Moves(c, place, op[c]) \/ Moves(c, place, "none")
    BY <1>4 DEF BeginLoad, LoadFailed, Initialized
  <2> QED BY <1>2, <2>1, SavesMove
<1>5. CASE Loaded(c)
  <2>1. ~initialized /\ persisted = "never" /\ writer = NoCaller /\ UNCHANGED storeVars
    BY <1>5 DEF Loaded, LoadOrderly
  <2>2. desired' => asked'
    <3> DEFINE wish == IF stored = NoRecord THEN [desired |-> TRUE, enabled |-> enabled]
                       ELSE stored
    <3>1. (desired' = wish.desired /\ asked' = wish.desired) \/ UNCHANGED <<wishVars, source>>
      BY <1>5, Zenon DEF Loaded
    <3> HIDE DEF wish
    <3>2. desired' = asked' \/ UNCHANGED wishVars
      BY <3>1, Zenon
    <3>3. CASE desired' = asked'
      BY <3>3
    <3>4. CASE UNCHANGED wishVars
      BY <3>4 DEF SavesOrderly, wishVars
    <3> QED BY <3>2, <3>3, <3>4
  <2> QED BY <2>1, <2>2, Constants DEF SavesOrderly, storeVars
<1>6. CASE BeginStart(c)
  <2>1. pc[c] = "wantStart" /\ op[c] = "start" /\ UNCHANGED <<enabled, writer, stored>>
    BY <1>6 DEF BeginStart
  <2>2. CASE Return(c) /\ UNCHANGED <<desired, asked, persisted, snap>>
    <3>1. Moves(c, "idle", "none")
      BY <2>2
    <3> QED BY <1>2, <2>1, <2>2, <3>1, SavesMove DEF wishVars, storeVars
  <2>3. CASE Goto(c, "persisting") /\ ~desired /\ NewVersion /\ desired' /\ asked'
    <3>1. Moves(c, "persisting", op[c])
      BY <2>3
    <3> QED BY <2>1, <2>3, <3>1, SavesChange
  <2>4. CASE Goto(c, "persisting") /\ desired /\ UNCHANGED <<persisted, snap>>
             /\ desired' = TRUE /\ asked' = TRUE
    <3>1. Moves(c, "persisting", op[c]) /\ UNCHANGED wishVars
      BY <1>1, <2>1, <2>4 DEF SavesOrderly, wishVars, WishTypes
    <3> QED BY <1>2, <2>1, <2>4, <3>1, SavesMove DEF storeVars
  <2> QED BY <1>6, <2>2, <2>3, <2>4 DEF BeginStart
<1>7. CASE BeginStop(c)
  <2>1. /\ pc[c] = "wantStop" /\ op[c] \in {"stop", "shutdown"}
        /\ UNCHANGED <<enabled, writer, stored>>
        /\ desired' = FALSE /\ asked' = (asked /\ op[c] = "shutdown")
        /\ IF desired THEN NewVersion ELSE UNCHANGED <<persisted, snap>>
    BY <1>7 DEF BeginStop
  <2>2. PICK place \in {"stopOutputs", "awaitTask"} : Moves(c, place, op[c])
    BY <1>7 DEF BeginStop, StopOutputsFrom
  <2>3. CASE desired
    <3>1. asked /\ NewVersion
      BY <2>1, <2>3 DEF SavesOrderly
    <3>2. SavingAt(place, op[c]) \/ asked' # desired'
      BY <1>1, <2>1, <2>2, <3>1 DEF WishTypes
    <3> QED BY <2>1, <2>2, <3>1, <3>2, SavesChange
  <2>4. CASE ~desired /\ op[c] = "shutdown"
    <3>1. UNCHANGED wishVars
      BY <1>1, <2>1, <2>4 DEF wishVars, WishTypes
    <3> QED BY <1>2, <2>1, <2>2, <2>4, <3>1, SavesMove DEF storeVars
  <2>5. CASE ~desired /\ op[c] = "stop"
    <3>1. /\ pc'[c] = place /\ op'[c] = "stop"
          /\ \A x \in Callers : x # c => pc'[x] = pc[x] /\ op'[x] = op[x]
      BY <2>2, <2>5, MoveFacts
    <3>2. UNCHANGED <<desired, enabled, writer, stored, persisted, snap>>
      BY <1>1, <2>1, <2>5 DEF WishTypes
    <3>3. WillSave(c)'
      BY <2>2, <3>1 DEF WillSave
    <3>4. \A x \in Callers : writer' = x => pc'[x] = "persisting"
      BY <2>1, <3>1, <3>2 DEF SavesOrderly
    <3> QED BY <2>1, <3>2, <3>3, <3>4 DEF SavesOrderly, Memory
  <2> QED BY <2>1, <2>3, <2>4, <2>5
<1>8. CASE TaskEnded(c)
  <2>1. pc[c] = "awaitTask" /\ UNCHANGED <<wishVars, storeVars>> /\ Moves(c, "stopOutputs", op[c])
    BY <1>8 DEF TaskEnded, StopOutputsFrom
  <2> QED BY <1>2, <2>1, SavesMove
<1>9. CASE StopOutput(c)
  <2>1. /\ pc[c] = "stopOutputs" /\ UNCHANGED <<wishVars, storeVars>>
        /\ \/ Moves(c, "stopOutputs", op[c])
           \/ op[c] = "shutdown" /\ Moves(c, "idle", "none")
           \/ Moves(c, "persisting", op[c])
    BY <1>9 DEF StopOutput
  <2> QED BY <1>2, <2>1, SavesMove
<1>10. ASSUME NEW d \in Dests, Enable(c, d) \/ Disable(c, d) PROVE SavesOrderly'
  <2>1. /\ pc[c] = "idle" /\ op[c] = "none"
        /\ NewVersion /\ UNCHANGED <<desired, asked, writer, stored>>
        /\ \/ Moves(c, "persisting", "none") \/ Moves(c, "wantStop", "stop")
           \/ Moves(c, "disabling", "none")
    BY <1>10 DEF Enable, Disable, Moves
  <2> QED BY <2>1, SavesChange DEF SavesOrderly
<1>11. CASE DestinationStopped(c)
  <2>1. pc[c] = "disabling" /\ UNCHANGED <<wishVars, storeVars>> /\ Moves(c, "persisting", op[c])
    BY <1>11 DEF DestinationStopped
  <2> QED BY <1>2, <2>1, SavesMove
\* A writer took a snapshot.
<1>12. ASSUME snap' = [record |-> Memory, newest |-> TRUE], persisted # "current", writer' = c,
              pc[c] = "persisting", UNCHANGED <<wishVars, persisted, pc, op>>
       PROVE  SavesOrderly'
  <2>1. snap'.newest /\ snap'.record = Memory /\ Memory' = Memory
    BY <1>12 DEF Memory, wishVars
  <2>2. \A x \in Callers : WillSave(x)' = WillSave(x)
    BY <1>12 DEF WillSave
  <2> QED BY <1>12, <2>1, <2>2 DEF SavesOrderly, wishVars
\* The newest version is stored.
<1>13. ASSUME persisted' = "current", writer' = NoCaller, stored' = Memory, UNCHANGED wishVars
       PROVE  SavesOrderly'
  <2>1. Memory' = Memory
    BY <1>13 DEF Memory, wishVars
  <2> QED BY <1>13, <2>1, Constants DEF SavesOrderly, wishVars
<1>14. CASE BeginSave(c)
  <2>1. CASE persisted = "current" /\ UNCHANGED writer
    <3>1. stored' = Memory /\ persisted' = "current" /\ writer' = NoCaller /\ UNCHANGED wishVars
      BY <1>14, <2>1 DEF BeginSave, SavesOrderly
    <3> QED BY <1>13, <3>1
  <2>2. CASE persisted # "current" /\ writer' = c /\ snap' = [record |-> Memory, newest |-> TRUE]
             /\ UNCHANGED callVars
    BY <1>12, <1>14, <2>2 DEF BeginSave, callVars
  <2> QED BY <1>14, <2>1, <2>2 DEF BeginSave
<1>15. CASE Saved(c)
  <2>1. writer = c /\ pc[c] = "persisting" /\ persisted # "current" /\ stored' = snap.record
        /\ (snap.newest => snap.record = Memory) /\ UNCHANGED wishVars
    BY <1>2, <1>15, Constants DEF Saved, SavesOrderly
  <2>2. CASE snap.newest /\ persisted' = "current" /\ writer' = NoCaller
    BY <1>13, <2>1, <2>2
  <2>3. CASE ~snap.newest /\ snap' = [record |-> Memory, newest |-> TRUE]
             /\ UNCHANGED <<persisted, writer, callVars>>
    BY <1>12, <2>1, <2>3 DEF callVars
  <2> QED BY <1>15, <2>2, <2>3 DEF Saved
<1>16. CASE SaveFailed(c)
  <2>1. /\ writer = c /\ StoreFails /\ writer' = NoCaller
        /\ UNCHANGED <<wishVars, persisted, stored>>
        /\ persisted # "current"
    BY <1>16, Constants DEF SaveFailed, SavesOrderly
  <2> QED BY <2>1, Constants DEF SavesOrderly, wishVars
<1> QED BY <1>3, <1>4, <1>5, <1>6, <1>7, <1>8, <1>9, <1>10, <1>11, <1>14, <1>15, <1>16,
           CallerCases

LEMMA SavesKept ==
  SavesOrderly /\ UNCHANGED <<wishVars, storeVars, pc, op>> => SavesOrderly'
<1> SUFFICES ASSUME SavesOrderly, UNCHANGED <<wishVars, storeVars, pc, op>> PROVE SavesOrderly'
  OBVIOUS
<1>1. \A x \in Callers : WillSave(x)' = WillSave(x)
  BY DEF WillSave
<1> QED BY <1>1 DEF SavesOrderly, Memory, wishVars, storeVars

-----------------------------------------------------------------------------
(* How often standby was left.                                             *)

LEMMA CallerWatch ==
  ASSUME TypeOK, LocksOrderly, LoadOrderly, TaskOrderly, SavesOrderly, WatchOrderly,
         NEW c \in Callers, CallerStep(c)
  PROVE  WatchOrderly'
<1>1. CallTypes /\ source \in Sources /\ job \in Jobs /\ (lcLock = c <=> Holding(c))
  BY AllTypes, TypeParts DEF LocksOrderly
<1> DEFINE Waits(x) == pc[x] \in {"awaitTask", "stopOutputs"}
<1>2. ASSUME UNCHANGED <<source, runner>>, job'.after = job.after,
             \A x \in Callers : Waits(x) => Waits(x)'
      PROVE  WatchOrderly'
  BY <1>2 DEF WatchOrderly
<1>3. ASSUME NEW place, NEW call, Moves(c, place, call), UNCHANGED <<source, runner>>,
             job'.after = job.after, ~Waits(c) \/ place \in {"awaitTask", "stopOutputs"}
      PROVE  WatchOrderly'
  <2>1. \A x \in Callers : Waits(x) => Waits(x)'
    BY <1>1, <1>3, MoveFacts
  <2> QED BY <1>2, <1>3, <2>1
<1>4. ASSUME \/ \E call \in Calls : Call(c, call)
             \/ BeginLoad(c) \/ LoadFailed(c)
             \/ DestinationStopped(c) \/ SaveFailed(c)
      PROVE  WatchOrderly'
  <2>1. /\ pc[c] \in {"idle", "initializing", "loading", "disabling", "persisting"}
        /\ UNCHANGED <<source, runVars>>
    BY <1>4, Constants DEF Call, BeginLoad, LoadFailed, DestinationStopped, SaveFailed,
       SavesOrderly
  <2>2. \E place, call : Moves(c, place, call)
    BY <1>1, <1>4, MoveForms DEF Call, BeginLoad, LoadFailed, DestinationStopped, SaveFailed,
       Initialized, Moves
  <2> QED BY <1>3, <2>1, <2>2 DEF runVars
<1>5. ASSUME NEW d \in Dests, Enable(c, d) \/ Disable(c, d) PROVE WatchOrderly'
  <2>1. pc[c] = "idle" /\ UNCHANGED <<source, runner>> /\ job'.after = job.after
    BY <1>1, <1>5 DEF Enable, Disable, Jobs
  <2>2. \E place, call : Moves(c, place, call)
    BY <1>1, <1>5, MoveForms DEF Enable, Disable, Moves
  <2> QED BY <1>3, <2>1, <2>2
<1>6. ASSUME NEW state \in SourceStates, source' = Unwatched(state) PROVE WatchOrderly'
  BY <1>6, Values DEF WatchOrderly
<1>7. CASE Loaded(c)
  <2>1. ~initialized /\ runner = "none" /\ \A x \in Callers : ~Waits(x)
    BY <1>7 DEF Loaded, LoadOrderly
  <2>2. source.recoveries # 2
    BY <2>1 DEF WatchOrderly
  <2>3. source' = source \/ source' = Unwatched("MONITORING")
    BY <1>7 DEF Loaded
  <2> QED BY <1>6, <2>2, <2>3 DEF WatchOrderly, SourceStates
<1>8. ASSUME lcLock = NoCaller \/ lcLock = c, pc[c] # "awaitTask", pc[c] # "stopOutputs",
             runner = "none"
      PROVE  source.recoveries # 2
  <2>1. \A x \in Callers : ~Waits(x)
    BY <1>8, Alone
  <2> QED BY <1>8, <2>1 DEF WatchOrderly
<1>9. CASE BeginStart(c)
  <2>1. pc[c] = "wantStart" /\ lcLock = NoCaller /\ UNCHANGED runVars
    BY <1>9 DEF BeginStart
  <2>2. CASE Return(c) /\ UNCHANGED source
    <3>1. Moves(c, "idle", "none")
      BY <1>1, <2>2, MoveForms
    <3> QED BY <1>3, <2>1, <2>2, <3>1 DEF runVars
  <2>3. CASE /\ runner = "none"
             /\ source' = [source EXCEPT !.state = IF @ = "STOPPED" THEN "MONITORING" ELSE @]
    <3>1. source'.recoveries = source.recoveries
      BY <1>1, <2>3 DEF Sources
    <3> QED BY <1>8, <2>1, <2>3, <3>1 DEF WatchOrderly
  <2> QED BY <1>9, <2>2, <2>3 DEF BeginStart
<1>10. CASE BeginStop(c) \/ TaskEnded(c)
  <2>1. UNCHANGED <<source, runner, job>>
    BY <1>10 DEF BeginStop, TaskEnded, runVars
  <2>2. \E place \in {"awaitTask", "stopOutputs"} : Moves(c, place, op[c])
    BY <1>1, <1>10, MoveForms DEF BeginStop, TaskEnded, StopOutputsFrom
  <2> QED BY <1>3, <2>1, <2>2
<1>11. CASE StopOutput(c)
  <2>1. \/ source' = source /\ UNCHANGED pc
        \/ source' = Unwatched("STOPPED")
    BY <1>11 DEF StopOutput
  <2> QED BY <1>2, <1>6, <1>11, <2>1 DEF StopOutput, runVars, SourceStates
<1>12. ASSUME pc[c] = "persisting", Persisted(c), UNCHANGED <<source, job>>
       PROVE  WatchOrderly'
  <2>1. CASE op[c] = "start"
    <3>1. lcLock = c /\ runner = "none"
      BY <1>1, <1>12, <2>1 DEF Holding, HoldsAt, TaskOrderly
    <3> QED BY <1>8, <1>12, <3>1 DEF WatchOrderly
  <2>2. CASE op[c] # "start"
    <3>1. Moves(c, "idle", "none") /\ UNCHANGED runner
      BY <1>1, <1>12, <2>2, MoveForms DEF Persisted
    <3> QED BY <1>3, <1>12, <3>1
  <2> QED BY <2>1, <2>2
<1>13. ASSUME writer = c PROVE pc[c] = "persisting"
  BY <1>13 DEF SavesOrderly
<1>14. CASE BeginSave(c)
  BY <1>2, <1>12, <1>14 DEF BeginSave, callVars
<1>15. CASE Saved(c)
  BY <1>2, <1>12, <1>13, <1>15 DEF Saved, callVars
<1> QED BY <1>4, <1>5, <1>7, <1>9, <1>10, <1>11, <1>14, <1>15, CallerCases

LEMMA RunnerWatch ==
  ASSUME TypeOK, TaskOrderly, WatchOrderly, SwitchOrderly, RunnerStep
  PROVE  WatchOrderly'
<1>1. ASSUME Outcome PROVE WatchOrderly'
  BY <1>1 DEF Outcome, WatchOrderly, Watching
<1>2. CASE Poll \/ Ends
  BY <1>1, <1>2, PollFacts, EndsFacts
<1>3. CASE Gives \/ Replaced \/ CameUp
  BY <1>3 DEF Gives, Replaced, CameUp, WatchOrderly
<1>4. CASE Cancelled
  BY <1>4 DEF Cancelled, WatchOrderly
<1>5. CASE EndStopped
  <2>1. runner = "ending" /\ runner' \in {"ending", "none"} /\ UNCHANGED <<source, pc>>
    BY <1>5 DEF EndStopped, callVars
  <2> QED BY <2>1 DEF TaskOrderly, WatchOrderly
<1> QED BY <1>2, <1>3, <1>4, <1>5, RunnerCases

-----------------------------------------------------------------------------
(* What is dark.                                                           *)

\* Without a task, or before it begins, everything is dark and stays so.
LEMMA DarkStays ==
  ASSUME DarkOrderly, runner \in {"none", "created"}, runner' \in {"none", "created"},
         \A d \in Dests : Running(d)' => Running(d)
  PROVE  DarkOrderly'
<1>1. \A d \in Dests : ~Running(d)'
  BY DEF DarkOrderly, NoTaskIsDark
<1> QED BY <1>1 DEF DarkOrderly, NoTaskIsDark

\* While the task stays where it is, whoever would have stopped an output still will, or it is
\* dark by now.
LEMMA DarkUnlessFreed ==
  ASSUME DarkOrderly, UNCHANGED runner, job'.at = job.at,
         \A d \in Dests : Running(d)' => Running(d),
         \A d \in Dests \ enabled' : Running(d)' =>
           /\ d \in enabled => \E x \in Callers : Stops(x, d)'
           /\ (\E x \in Callers : Stops(x, d)) => \E x \in Callers : Stops(x, d)'
  PROVE  DarkOrderly'
<1>1. \A d \in Dests : Replacing(d)' = Replacing(d)
  BY DEF Replacing
<1>2. NoTaskIsDark'
  BY DEF DarkOrderly, NoTaskIsDark
<1>3. runner' = "ending" => job'.at \in Dests /\ \A d \in Dests : d < job'.at => ~Running(d)'
  BY Zenon DEF DarkOrderly
<1>4. ASSUME NEW d \in Dests, d \notin enabled', Running(d)' PROVE SureToStop(d)'
  BY <1>1, <1>4 DEF DarkOrderly, SureToStop
<1> QED BY <1>2, <1>3, <1>4 DEF DarkOrderly

LEMMA CallerDark ==
  ASSUME TypeOK, LocksOrderly, LoadOrderly, TaskOrderly, SavesOrderly, DarkOrderly,
         NEW c \in Callers, CallerStep(c)
  PROVE  DarkOrderly'
<1>1. /\ CallTypes /\ OutTypes /\ job \in Jobs /\ enabled \subseteq Dests
      /\ lcLock = c <=> Holding(c)
  BY AllTypes, TypeParts DEF LocksOrderly
\* The call of c goes from a place where it stops nothing.
<1>2. ASSUME NEW place, NEW call, Moves(c, place, call), UNCHANGED <<sup, runner, taskCancel>>,
             job'.at = job.at, enabled \subseteq enabled',
             at' = at \/ \E d : at' = [at EXCEPT ![c] = d],
             pc[c] \notin {"disabling", "wantStop", "awaitTask", "stopOutputs"}
      PROVE  DarkOrderly'
  <2>1. \A x \in Callers : x # c => pc'[x] = pc[x] /\ at'[x] = at[x]
    BY <1>1, <1>2, MoveFacts DEF CallTypes
  <2>2. \A x \in Callers, d \in Dests : Stops(x, d) => Stops(x, d)'
    BY <1>2, <2>1 DEF Stops
  <2>3. \A d \in Dests : Running(d)' = Running(d)
    BY <1>2 DEF Running
  <2> QED BY <1>2, <2>2, <2>3, DarkUnlessFreed
<1>3. ASSUME \/ \E call \in Calls : Call(c, call)
             \/ BeginLoad(c) \/ LoadFailed(c) \/ SaveFailed(c)
      PROVE  DarkOrderly'
  <2>1. /\ pc[c] \in {"idle", "initializing", "loading", "persisting"}
        /\ UNCHANGED <<runVars, wishVars, sup, at>>
    BY <1>3, Constants DEF Call, BeginLoad, LoadFailed, SaveFailed, SavesOrderly, outVars
  <2>2. \E place, call : Moves(c, place, call)
    BY <1>1, <1>3, MoveForms DEF Call, BeginLoad, LoadFailed, SaveFailed, Initialized, Moves
  <2> QED BY <1>2, <2>1, <2>2 DEF runVars, wishVars
<1>4. ASSUME runner \in {"none", "created"}, runner' \in {"none", "created"},
             sup' = sup \/ \E d : OutputStopped(d)
      PROVE  DarkOrderly'
  <2>1. \A d \in Dests : Running(d)' => Running(d)
    BY <1>1, <1>4 DEF Running, OutputStopped, OutTypes
  <2> QED BY <1>4, <2>1, DarkStays
<1>5. CASE Loaded(c)
  BY <1>4, <1>5 DEF Loaded, LoadOrderly, runVars, outVars
<1>6. CASE BeginStart(c)
  <2>1. pc[c] = "wantStart" /\ UNCHANGED <<runVars, enabled, sup, at>>
    BY <1>6 DEF BeginStart, outVars
  <2>2. \E place, call : Moves(c, place, call)
    BY <1>1, <1>6, MoveForms DEF BeginStart
  <2> QED BY <1>2, <2>1, <2>2 DEF runVars
<1>7. CASE BeginStop(c)
  <2>1. UNCHANGED <<sup, runner, job, enabled>>
    BY <1>7 DEF BeginStop
  <2>2. CASE runner = "none"
    BY <1>4, <2>1, <2>2
  <2>3. CASE taskCancel' = TRUE /\ Goto(c, "awaitTask")
    <3>1. \A d \in Dests : Stops(c, d)'
      BY <1>1, <2>3 DEF Stops, Goto, CallTypes
    <3>2. \A d \in Dests : Running(d)' = Running(d)
      BY <2>1 DEF Running
    <3> QED BY <2>1, <3>1, <3>2, DarkUnlessFreed
  <2> QED BY <1>7, <2>2, <2>3 DEF BeginStop
<1>8. CASE TaskEnded(c)
  BY <1>4, <1>8 DEF TaskEnded, runVars
<1>9. CASE StopOutput(c)
  <2>1. runner = "none"
    BY <1>9 DEF StopOutput, TaskOrderly, Holding, HoldsAt
  <2> QED BY <1>4, <1>9, <2>1 DEF StopOutput, runVars
<1>10. ASSUME NEW d \in Dests, Enable(c, d) PROVE DarkOrderly'
  <2>1. pc[c] = "idle" /\ UNCHANGED <<sup, runner, taskCancel, at>> /\ job'.at = job.at
          /\ enabled \subseteq enabled'
    BY <1>1, <1>10 DEF Enable, outVars, Jobs
  <2>2. \E place, call : Moves(c, place, call)
    BY <1>1, <1>10, MoveForms DEF Enable
  <2> QED BY <1>2, <2>1, <2>2
<1>11. ASSUME NEW d \in Dests, Disable(c, d) PROVE DarkOrderly'
  <2>1. pc[c] = "idle" /\ UNCHANGED <<sup, runner, taskCancel>> /\ job'.at = job.at
          /\ enabled' = enabled \ {d}
    BY <1>1, <1>11 DEF Disable, Jobs
  <2>2. \/ pc' = [pc EXCEPT ![c] = "wantStop"] /\ at' = at
        \/ pc' = [pc EXCEPT ![c] = "disabling"] /\ at' = [at EXCEPT ![c] = d]
    BY <1>11 DEF Disable, Goto
  <2>3. Stops(c, d)' /\ \A x \in Callers : x # c => pc'[x] = pc[x] /\ at'[x] = at[x]
    BY <1>1, <2>2 DEF Stops, CallTypes
  <2>4. \A x \in Callers, e \in Dests : Stops(x, e) => Stops(x, e)'
    BY <2>1, <2>3 DEF Stops
  <2>5. \A e \in Dests : Running(e)' = Running(e)
    BY <2>1 DEF Running
  <2> QED BY <2>1, <2>3, <2>4, <2>5, DarkUnlessFreed
<1>12. CASE DestinationStopped(c)
  <2>1. /\ pc[c] = "disabling" /\ UNCHANGED <<runner, job, taskCancel, enabled>>
        /\ pc' = [pc EXCEPT ![c] = "persisting"] /\ at' = [at EXCEPT ![c] = 0]
        /\ IF at[c] = 0 THEN UNCHANGED sup ELSE sup' = [sup EXCEPT ![at[c]] = "STOPPED"]
    BY <1>12 DEF DestinationStopped, Goto, runVars, wishVars, OutputStopped
  <2>2. \A e \in Dests : Running(e)' => Running(e) /\ e # at[c]
    BY <1>1, <2>1, Constants DEF Running, OutTypes
  <2>3. \A x \in Callers : x # c => pc'[x] = pc[x] /\ at'[x] = at[x]
    BY <1>1, <2>1 DEF CallTypes
  <2>4. ASSUME NEW e \in Dests, Running(e)', \E x \in Callers : Stops(x, e)
        PROVE  \E x \in Callers : Stops(x, e)'
    <3>1. PICK x \in Callers : Stops(x, e)
      BY <2>4
    <3>2. x # c
      BY <2>1, <2>2, <2>4, <3>1 DEF Stops
    <3>3. Stops(x, e)'
      BY <2>1, <2>3, <3>1, <3>2 DEF Stops
    <3> QED BY <3>3
  <2> QED BY <2>1, <2>2, <2>4, DarkUnlessFreed
<1>13. ASSUME pc[c] = "persisting", Persisted(c), UNCHANGED <<sup, job, enabled, at>>
       PROVE  DarkOrderly'
  <2>1. CASE op[c] = "start"
    <3>1. runner = "none"
      BY <1>13, <2>1 DEF Holding, HoldsAt, TaskOrderly
    <3> QED BY <1>4, <1>13, <2>1, <3>1 DEF Persisted
  <2>2. CASE op[c] # "start"
    <3>1. Moves(c, "idle", "none") /\ UNCHANGED <<runner, taskCancel>>
      BY <1>1, <1>13, <2>2, MoveForms DEF Persisted
    <3> QED BY <1>2, <1>13, <3>1
  <2> QED BY <2>1, <2>2
<1>14. ASSUME pc[c] = "persisting", UNCHANGED <<pc, op, at, sup, job, enabled, runner, taskCancel>>
       PROVE  DarkOrderly'
  <2>1. Moves(c, pc[c], op[c])
    BY <1>1, <1>14, MoveForms
  <2> QED BY <1>2, <1>14, <2>1
<1>15. ASSUME writer = c PROVE pc[c] = "persisting"
  BY <1>15 DEF SavesOrderly
<1>16. CASE BeginSave(c)
  BY <1>13, <1>14, <1>16 DEF BeginSave, callVars, wishVars, outVars
<1>17. CASE Saved(c)
  BY <1>13, <1>14, <1>15, <1>17 DEF Saved, callVars, wishVars, outVars
<1> QED BY <1>3, <1>5, <1>6, <1>7, <1>8, <1>9, <1>10, <1>11, <1>12, <1>16, <1>17, CallerCases

LEMMA RunnerDark ==
  ASSUME TypeOK, TaskOrderly, WatchOrderly, SwitchOrderly, DarkOrderly, RunnerStep
  PROVE  DarkOrderly'
<1>1. CallTypes /\ OutTypes /\ job \in Jobs /\ enabled' = enabled
  BY AllTypes, TypeParts, RunnerMoves DEF wishVars
\* The task goes on, and no output comes up but the one that it replaces.
<1>2. ASSUME runner' \in Watching \cup Restarts,
             \A d \in Dests \ enabled : Running(d)' =>
               Replacing(d)' \/ \E x \in Callers : Stops(x, d)'
      PROVE  DarkOrderly'
  BY <1>1, <1>2 DEF DarkOrderly, NoTaskIsDark, SureToStop, Watching, Restarts
<1>3. ASSUME UNCHANGED callVars, UNCHANGED taskCancel
      PROVE  \A x \in Callers, d \in Dests : Stops(x, d)' = Stops(x, d)
  BY <1>3 DEF Stops, callVars
<1>4. ASSUME NEW d \in Dests \ enabled, Running(d), ~Replacing(d), runner # "ending"
      PROVE  \E x \in Callers : Stops(x, d)
  BY <1>4 DEF DarkOrderly, SureToStop
<1>5. CASE Poll
  <2>1. /\ runner \in Watching \cup {"created"} /\ Outcome
        /\ UNCHANGED <<sup, taskCancel, callVars>>
    BY <1>5, PollFacts DEF outVars
  <2>2. runner' \in Watching \cup Restarts
    BY <2>1 DEF Outcome, Restarts
  <2>3. \A d \in Dests : Running(d)' = Running(d) /\ ~Replacing(d) /\ runner # "ending"
    BY <2>1 DEF Running, Replacing, Watching
  <2> QED BY <1>2, <1>3, <1>4, <2>1, <2>2, <2>3
<1>6. CASE Ends
  <2>1. /\ runner \in Restarts /\ Outcome /\ UNCHANGED <<taskCancel, callVars>>
    BY <1>6, EndsFacts
  <2>2. runner' \in Watching \cup Restarts /\ runner # "ending" /\ job.at \in Dests
    BY <2>1 DEF Outcome, Restarts, SwitchOrderly
  <2>3. ASSUME NEW d \in Dests \ enabled, Running(d)'
        PROVE  Running(d) /\ ~Replacing(d)
    <3>1. CASE RestartFailed
      <4>1. CASE UNCHANGED sup /\ runner = "validating"
        BY <2>3, <4>1 DEF Running, Replacing
      <4>2. CASE UNCHANGED sup /\ runner = "starting" /\ sup[job.at] # "CONNECTING"
        <5>1. ~Running(job.at)
          BY <4>2 DEF SwitchOrderly, Running
        <5> QED BY <2>3, <4>2, <5>1 DEF Running, Replacing
      <4>3. CASE \E how \in {"STOPPED", "ERROR"} : sup' = [sup EXCEPT ![job.at] = how]
        <5>1. d # job.at /\ Running(d)
          BY <1>1, <2>2, <2>3, <4>3 DEF Running, OutTypes
        <5> QED BY <5>1 DEF Replacing
      <4> QED BY <3>1, <4>1, <4>2, <4>3 DEF RestartFailed, OutputStopped
    <3>2. CASE Publishes
      BY <2>3, <3>2 DEF Publishes, Running, Replacing
    <3>3. CASE Undone
      <4>1. d # job.at /\ Running(d)
        BY <1>1, <2>2, <2>3, <3>3 DEF Undone, OutputStopped, Running, OutTypes
      <4> QED BY <4>1 DEF Replacing
    <3> QED BY <1>6, <3>1, <3>2, <3>3 DEF Ends
  <2> QED BY <1>2, <1>3, <1>4, <2>1, <2>2, <2>3
<1>7. CASE Gives
  <2>1. \A d \in Dests : Running(d)' = Running(d) /\ (Replacing(d) => Replacing(d)')
    BY <1>7 DEF Gives, outVars, Running, Replacing
  <2> QED BY <1>2, <1>3, <1>4, <1>7, <2>1 DEF Gives, Restarts
<1>8. CASE Replaced
  <2>1. /\ runner = "validating" /\ runner' = "starting"
        /\ UNCHANGED <<job, pc, taskCancel>>
        /\ sup' = [sup EXCEPT ![job.at] = "CONNECTING"]
        /\ at' = [x \in Callers |-> IF pc[x] = "disabling" /\ at[x] = job.at THEN 0 ELSE at[x]]
    BY <1>8 DEF Replaced
  <2>2. Replacing(job.at)'
    BY <2>1 DEF Replacing
  <2>3. \A d \in Dests : d # job.at => Running(d)' = Running(d) /\ ~Replacing(d)
    BY <1>1, <2>1 DEF Running, Replacing, OutTypes
  <2>4. \A x \in Callers, d \in Dests : d # job.at /\ Stops(x, d) => Stops(x, d)'
    BY <1>1, <2>1 DEF Stops, CallTypes
  <2> QED BY <1>2, <1>4, <2>1, <2>2, <2>3, <2>4 DEF Restarts
<1>9. CASE CameUp
  <2>1. \A d \in Dests : d # job.at => Running(d)' = Running(d) /\ ~Replacing(d)
    BY <1>1, <1>9 DEF CameUp, Running, Replacing, OutTypes
  <2>2. Replacing(job.at)' /\ runner # "ending" /\ runner' \in Restarts
    BY <1>9 DEF CameUp, Replacing, Restarts
  <2> QED BY <1>2, <1>3, <1>4, <1>9, <2>1, <2>2 DEF CameUp
<1>10. CASE Cancelled
  <2>1. CASE runner = "created" /\ runner' = "none" /\ UNCHANGED outVars
    BY <2>1, DarkStays DEF outVars, Running
  <2>2. CASE runner' = "ending" /\ job' = [NoJob EXCEPT !.at = 1]
    <3>1. job'.at = 1 /\ 1 \in Dests /\ \A d \in Dests : 1 <= d /\ ~(d < 1)
      BY <2>2, Constants DEF NoJob
    <3> QED BY <2>2, <3>1 DEF DarkOrderly, NoTaskIsDark, SureToStop
  <2> QED BY <1>10, <2>1, <2>2 DEF Cancelled
<1>11. CASE EndStopped
  <2>1. /\ runner = "ending" /\ job.at \in Dests /\ sup' = [sup EXCEPT ![job.at] = "STOPPED"]
        /\ \A d \in Dests : d < job.at => ~Running(d)
    BY <1>11 DEF EndStopped, OutputStopped, DarkOrderly
  <2>2. \A d \in Dests : d <= job.at => ~Running(d)'
    BY <1>1, <2>1, Constants DEF Running, OutTypes
  <2>3. CASE job.at < NumDests /\ job' = [job EXCEPT !.at = @ + 1] /\ UNCHANGED runner
    <3>1. job'.at = job.at + 1 /\ job'.at \in Dests
      BY <1>1, <2>1, <2>3, Constants DEF Jobs
    <3>2. \A d \in Dests : d < job'.at => ~Running(d)'
      BY <2>1, <2>2, <3>1, Constants
    <3>3. \A d \in Dests : Running(d)' => job'.at <= d
      BY <2>1, <2>2, <3>1, Constants
    <3> QED BY <2>1, <2>3, <3>1, <3>2, <3>3 DEF DarkOrderly, NoTaskIsDark, SureToStop
  <2>4. CASE job.at = NumDests /\ runner' = "none"
    <3>1. \A d \in Dests : ~Running(d)'
      BY <2>2, <2>4, Constants
    <3> QED BY <2>4, <3>1 DEF DarkOrderly, NoTaskIsDark
  <2> QED BY <1>11, <2>3, <2>4 DEF EndStopped
<1> QED BY <1>5, <1>6, <1>7, <1>8, <1>9, <1>10, <1>11, RunnerCases

-----------------------------------------------------------------------------
(* What a switch may rely on.                                              *)

LEMMA SwitchOff == runner' \notin Restarts => SwitchOrderly'
  BY DEF SwitchOrderly, Restarts

LEMMA SwitchKept ==
  SwitchOrderly /\ UNCHANGED <<enabled, input, sup, feed, runner, job>> => SwitchOrderly'
  BY DEF SwitchOrderly, Running

LEMMA CallerSwitch ==
  ASSUME TypeOK, LocksOrderly, LoadOrderly, TaskOrderly, SavesOrderly, SwitchOrderly,
         NEW c \in Callers, CallerStep(c)
  PROVE  SwitchOrderly'
<1>1. OutTypes /\ CallTypes /\ job \in Jobs
  BY AllTypes, TypeParts
<1>2. CASE runner \notin Restarts
  <2>1. runner' = runner \/ runner' = "created"
    BY CallerCases DEF Call, BeginLoad, Loaded, LoadFailed, BeginStart, BeginStop, TaskEnded,
       StopOutput, Enable, Disable, DestinationStopped, BeginSave, Saved, SaveFailed, Persisted,
       runVars
  <2> QED BY <1>2, <2>1, SwitchOff DEF Restarts
<1>3. CASE runner \in Restarts
  <2> USE <1>3
  <2>1. /\ job.at \in Dests /\ job.at \notin job.rest /\ job.target # "NONE"
        /\ job.fresh \subseteq enabled
        /\ job.at \notin job.fresh => input[job.at] = "NONE"
        /\ runner = "undoing" => job.at \notin job.fresh
        /\ runner = "starting" => sup[job.at] # "LIVE"
        /\ runner \in {"starting", "started"} /\ Running(job.at) =>
             feed[job.at] = Reads(job.target, job.url)
        /\ runner = "validating" /\ job.target = "LIVE" =>
             ~(sup[job.at] = "LIVE" /\ input[job.at] = "LIVE")
    BY DEF SwitchOrderly, Restarts
  <2>2. /\ runner # "none" /\ initialized
        /\ Holding(c) => pc[c] = "awaitTask"
    BY DEF Restarts, LoadOrderly, TaskOrderly
  <2>3. ASSUME \/ \E call \in Calls : Call(c, call)
               \/ BeginLoad(c) \/ LoadFailed(c) \/ BeginStart(c) \/ BeginStop(c)
               \/ SaveFailed(c)
        PROVE  SwitchOrderly'
    <3>1. UNCHANGED <<enabled, input, sup, feed, runner, job>>
      BY <2>2, <2>3 DEF Call, BeginLoad, LoadFailed, BeginStart, BeginStop, SaveFailed, wishVars,
                        outVars, runVars
    <3> QED BY <3>1, SwitchKept
  <2>4. ~Loaded(c) /\ ~TaskEnded(c) /\ ~StopOutput(c)
    BY <2>2 DEF Loaded, LoadOrderly, TaskEnded, StopOutput, Holding, HoldsAt
  <2>5. ASSUME NEW d \in Dests, Enable(c, d) PROVE SwitchOrderly'
    <3>1. /\ d \notin enabled /\ enabled' = enabled \cup {d} /\ job'.fresh = job.fresh \ {d}
          /\ job'.at = job.at /\ job'.rest = job.rest /\ job'.target = job.target
          /\ job'.url = job.url /\ UNCHANGED <<input, sup, feed, runner>>
      BY <1>1, <2>5 DEF Enable, Jobs, outVars
    <3> QED BY <2>1, <3>1 DEF SwitchOrderly, Running
  <2>6. ASSUME NEW d \in Dests, Disable(c, d) PROVE SwitchOrderly'
    <3>1. /\ enabled' = enabled \ {d} /\ job'.fresh = job.fresh \ {d}
          /\ job'.at = job.at /\ job'.rest = job.rest /\ job'.target = job.target
          /\ job'.url = job.url /\ UNCHANGED <<sup, feed, runner>>
          /\ input' = [input EXCEPT ![d] = "NONE"]
      BY <1>1, <2>6 DEF Disable, Jobs
    <3>2. input'[job.at] = IF job.at = d THEN "NONE" ELSE input[job.at]
      BY <1>1, <2>1, <3>1 DEF OutTypes
    <3> QED BY <2>1, <3>1, <3>2 DEF SwitchOrderly, Running
  <2>7. CASE DestinationStopped(c)
    <3>1. /\ UNCHANGED <<enabled, job, runner, input>>
          /\ \/ UNCHANGED <<sup, feed>>
             \/ OutputStopped(at[c])
      BY <2>7 DEF DestinationStopped, wishVars, runVars
    <3>2. \/ sup'[job.at] = sup[job.at] /\ feed'[job.at] = feed[job.at]
          \/ sup'[job.at] = "STOPPED"
      BY <1>1, <2>1, <3>1 DEF OutputStopped, OutTypes
    <3> QED BY <2>1, <3>1, <3>2 DEF SwitchOrderly, Running
  <2>8. CASE BeginSave(c) \/ Saved(c)
    <3>1. pc[c] = "persisting"
      BY <2>8 DEF BeginSave, Saved, SavesOrderly
    <3>2. op[c] # "start"
      BY <2>2, <3>1 DEF Holding, HoldsAt
    <3>3. UNCHANGED <<enabled, input, sup, feed, runner, job>>
      BY <2>8, <3>2 DEF BeginSave, Saved, Persisted, wishVars, outVars
    <3> QED BY <3>3, SwitchKept
  <2> QED BY <2>3, <2>4, <2>5, <2>6, <2>7, <2>8, CallerCases
<1> QED BY <1>2, <1>3

\* The outputs that a planned restart does not concern may change.
LEMMA OutcomeSwitch ==
  ASSUME Outcome, UNCHANGED enabled, enabled \subseteq Dests,
         runner' = "validating" =>
           input'[job'.at] = input[job'.at] /\ sup'[job'.at] = sup[job'.at]
  PROVE  SwitchOrderly'
<1>1. CASE runner' \in Watching
  BY <1>1, SwitchOff DEF Watching, Restarts
<1>2. CASE runner' = "validating"
  BY <1>2 DEF Outcome, ShouldSwitch, SwitchOrderly, Watching
<1> QED BY <1>1, <1>2 DEF Outcome

LEMMA EndsOutputs ==
  ASSUME TypeOK, SwitchOrderly, Ends, NEW d \in Dests, d # job.at
  PROVE  /\ input'[d] = input[d] /\ fingerprint'[d] = fingerprint[d]
         /\ sup'[d] = sup[d] /\ feed'[d] = feed[d]
<1>1. OutTypes
  BY AllTypes
<1>2. CASE RestartFailed
  BY <1>1, <1>2 DEF RestartFailed, OutputStopped, OutTypes
<1>3. CASE Publishes
  BY <1>1, <1>3 DEF Publishes, OutTypes
<1>4. CASE Undone
  BY <1>1, <1>4 DEF Undone, OutputStopped, OutTypes
<1> QED BY <1>2, <1>3, <1>4 DEF Ends

LEMMA RunnerSwitch ==
  ASSUME TypeOK, TaskOrderly, WatchOrderly, SwitchOrderly, RunnerStep
  PROVE  SwitchOrderly'
<1>1. OutTypes /\ job \in Jobs /\ enabled \subseteq Dests /\ UNCHANGED enabled
  BY AllTypes, TypeParts, RunnerMoves DEF wishVars
<1>2. CASE Poll
  BY <1>1, <1>2, PollFacts, OutcomeSwitch DEF outVars
<1>3. CASE Ends
  <2>1. Outcome /\ (runner' = "validating" => job'.at # job.at)
    BY <1>3, EndsFacts
  <2>2. runner' = "validating" => job'.at \in Dests
    BY <1>1, <2>1 DEF Outcome, Watching
  <2> QED BY <1>1, <1>3, <2>1, <2>2, EndsOutputs, OutcomeSwitch
<1>4. CASE Gives
  <2>1. /\ runner = "started" /\ runner' = "undoing" /\ job.at \notin enabled \cap job.fresh
        /\ UNCHANGED <<input, sup, feed, job>>
    BY <1>4 DEF Gives, outVars
  <2>2. job.at \notin job.fresh
    BY <2>1 DEF SwitchOrderly
  <2> QED BY <1>1, <2>1, <2>2 DEF SwitchOrderly
<1>5. CASE Replaced
  <2>1. /\ runner = "validating" /\ runner' = "starting" /\ UNCHANGED <<input, job>>
        /\ sup' = [sup EXCEPT ![job.at] = "CONNECTING"]
        /\ feed' = [feed EXCEPT ![job.at] = Reads(job.target, job.url)]
    BY <1>5 DEF Replaced, Reads
  <2>2. job.at \in Dests
    BY <2>1 DEF SwitchOrderly
  <2>3. sup'[job.at] = "CONNECTING" /\ feed'[job.at] = Reads(job.target, job.url)
    BY <1>1, <2>1, <2>2 DEF OutTypes
  <2> QED BY <1>1, <2>1, <2>3 DEF SwitchOrderly
<1>6. CASE CameUp
  <2>1. /\ runner = "starting" /\ runner' = "started" /\ UNCHANGED <<input, job, feed>>
        /\ sup[job.at] = "CONNECTING"
    BY <1>6 DEF CameUp
  <2>2. feed[job.at] = Reads(job.target, job.url)
    BY <2>1 DEF SwitchOrderly, Running
  <2> QED BY <1>1, <2>1, <2>2 DEF SwitchOrderly
<1>7. CASE Cancelled
  BY <1>7, SwitchOff DEF Cancelled, Restarts
<1>8. CASE EndStopped
  BY <1>8, SwitchOff DEF EndStopped, Restarts
<1> QED BY <1>2, <1>3, <1>4, <1>5, <1>6, <1>7, <1>8, RunnerCases

-----------------------------------------------------------------------------
(* What the inputs say.                                                    *)

\* What is shown of one output.
Shown(d) == sup[d] = "LIVE" /\ input[d] # "NONE" /\ ~Replacing(d) =>
              feed[d] = Reads(input[d], fingerprint[d])

\* A call that disables d finds that nothing is shown of it, nor will be.
Unshown(d) ==
  /\ input[d] = "NONE"
  /\ runner \in {"starting", "started"} /\ job.at = d => d \notin job.fresh

Disabling(c, d) == pc[c] = "disabling" /\ at[c] = d

LEMMA InputsParts ==
  InputsOrderly <=> /\ \A d \in Dests : Shown(d)
                    /\ \A c \in Callers, d \in Dests : Disabling(c, d) => Unshown(d)
  BY DEF InputsOrderly, Shown, Unshown, Disabling

LEMMA InputsPartsNext ==
  InputsOrderly' <=> /\ \A d \in Dests : Shown(d)'
                     /\ \A c \in Callers, d \in Dests : Disabling(c, d)' => Unshown(d)'
  BY DEF InputsOrderly, Shown, Unshown, Disabling

\* Of an output that is not replaced less is shown, or it is as it was.
LEMMA ShownKept ==
  ASSUME NEW d \in Dests, Shown(d), Replacing(d) => Replacing(d)',
         \/ sup'[d] = "STOPPED" \/ sup'[d] = "ERROR" \/ input'[d] = "NONE"
         \/ /\ sup'[d] = sup[d] /\ feed'[d] = feed[d]
            /\ input'[d] = input[d] /\ fingerprint'[d] = fingerprint[d]
  PROVE  Shown(d)'
  BY DEF Shown

LEMMA CallerInputs ==
  ASSUME TypeOK, LocksOrderly, LoadOrderly, TaskOrderly, SavesOrderly, InputsOrderly,
         NEW c \in Callers, CallerStep(c)
  PROVE  InputsOrderly'
<1>1. OutTypes /\ CallTypes /\ job \in Jobs
  BY AllTypes, TypeParts
<1>2. /\ \A d \in Dests : Shown(d)
      /\ \A x \in Callers, d \in Dests : Disabling(x, d) => Unshown(d)
  BY InputsParts
\* Nothing more is shown, and the call of c disables nothing that it did not before.
<1>3. ASSUME \A d \in Dests :
               \/ sup'[d] = "STOPPED" \/ input'[d] = "NONE"
               \/ /\ sup'[d] = sup[d] /\ feed'[d] = feed[d]
                  /\ input'[d] = input[d] /\ fingerprint'[d] = fingerprint[d],
             \A d \in Dests : input[d] = "NONE" => input'[d] = "NONE",
             runner' = runner \/ {runner, runner'} \subseteq {"none", "created"},
             job'.at = job.at, job'.fresh \subseteq job.fresh,
             \A x \in Callers, d \in Dests : Disabling(x, d)' => Disabling(x, d) \/ Unshown(d)'
      PROVE  InputsOrderly'
  <2>1. \A d \in Dests : Replacing(d) = Replacing(d)'
    BY <1>3 DEF Replacing
  <2>2. \A d \in Dests : Shown(d)'
    BY <1>2, <1>3, <2>1, ShownKept
  <2>3. \A d \in Dests : Unshown(d) => Unshown(d)'
    BY <1>3 DEF Unshown
  <2> QED BY <1>2, <1>3, <2>2, <2>3, InputsPartsNext
\* The call of c goes to a place where it disables nothing.
<1>4. ASSUME \A d \in Dests :
               \/ sup'[d] = "STOPPED" \/ input'[d] = "NONE"
               \/ /\ sup'[d] = sup[d] /\ feed'[d] = feed[d]
                  /\ input'[d] = input[d] /\ fingerprint'[d] = fingerprint[d],
             \A d \in Dests : input[d] = "NONE" => input'[d] = "NONE",
             runner' = runner \/ {runner, runner'} \subseteq {"none", "created"},
             job'.at = job.at, job'.fresh \subseteq job.fresh,
             NEW place, NEW call, Moves(c, place, call), place # "disabling",
             at' = at \/ \E d : at' = [at EXCEPT ![c] = d]
      PROVE  InputsOrderly'
  <2>1. pc'[c] # "disabling" /\ \A x \in Callers : x # c => pc'[x] = pc[x] /\ at'[x] = at[x]
    BY <1>1, <1>4, MoveFacts DEF CallTypes
  <2>2. \A x \in Callers, d \in Dests : Disabling(x, d)' => Disabling(x, d)
    BY <2>1 DEF Disabling
  <2> QED BY <1>3, <1>4, <2>2
<1>5. ASSUME UNCHANGED <<outVars, runVars, at>>,
             NEW place, NEW call, Moves(c, place, call), place # "disabling"
      PROVE  InputsOrderly'
  BY <1>4, <1>5 DEF outVars, runVars
<1>6. ASSUME NEW call \in Calls, Call(c, call) PROVE InputsOrderly'
  <2>1. Moves(c, "wantStop", call) \/ Moves(c, "initializing", call)
    BY <1>6 DEF Call, Moves
  <2> QED BY <1>5, <1>6, <2>1 DEF Call
<1>7. ASSUME Initialized(c)
      PROVE  Moves(c, "wantStart", op[c]) \/ Moves(c, "idle", "none")
  BY <1>1, <1>7, MoveForms DEF Initialized
<1>8. CASE BeginLoad(c) \/ Loaded(c) \/ LoadFailed(c)
  <2>1. \/ Moves(c, "wantStart", op[c]) \/ Moves(c, "idle", "none") \/ Moves(c, "loading", op[c])
    BY <1>1, <1>7, <1>8, MoveForms DEF BeginLoad, Loaded, LoadFailed
  <2> QED BY <1>5, <1>8, <2>1 DEF BeginLoad, Loaded, LoadFailed
<1>9. CASE BeginStart(c)
  <2>1. Moves(c, "idle", "none") \/ Moves(c, "persisting", op[c])
    BY <1>1, <1>9, MoveForms DEF BeginStart
  <2> QED BY <1>5, <1>9, <2>1 DEF BeginStart
<1>10. ASSUME StopOutputsFrom(c), UNCHANGED <<sup, feed, runner, job>> PROVE InputsOrderly'
  <2>1. Moves(c, "stopOutputs", op[c]) /\ \E d : at' = [at EXCEPT ![c] = d]
    BY <1>1, <1>10, MoveForms DEF StopOutputsFrom
  <2>2. \A d \in Dests : input'[d] = "NONE"
    BY <1>10 DEF StopOutputsFrom, ForgetInputs
  <2> QED BY <1>4, <1>10, <2>1, <2>2
<1>11. CASE BeginStop(c)
  <2>1. UNCHANGED <<sup, feed, runner, job>>
    BY <1>11 DEF BeginStop
  <2>2. CASE StopOutputsFrom(c)
    BY <1>10, <2>1, <2>2
  <2>3. CASE Goto(c, "awaitTask") /\ UNCHANGED <<at, input, fingerprint>>
    <3>1. Moves(c, "awaitTask", op[c])
      BY <1>1, <2>3, MoveForms
    <3> QED BY <1>4, <2>1, <2>3, <3>1
  <2> QED BY <1>11, <2>2, <2>3 DEF BeginStop
<1>12. CASE TaskEnded(c)
  BY <1>10, <1>12 DEF TaskEnded, runVars
<1>13. CASE StopOutput(c)
  <2>1. pc[c] = "stopOutputs" /\ at[c] \in Dests /\ UNCHANGED <<runner, job>>
    BY <1>13 DEF StopOutput, runVars, TaskOrderly
  <2>2. sup' = [sup EXCEPT ![at[c]] = "STOPPED"] /\ feed' = [feed EXCEPT ![at[c]] = NoUrl]
        /\ UNCHANGED fingerprint
        /\ (input' = [input EXCEPT ![at[c]] = "NONE"] \/ input' = [d \in Dests |-> "NONE"])
    BY <1>13 DEF StopOutput, OutputStopped
  <2>3. \A d \in Dests :
          /\ \/ sup'[d] = "STOPPED" \/ input'[d] = "NONE"
             \/ /\ sup'[d] = sup[d] /\ feed'[d] = feed[d]
                /\ input'[d] = input[d] /\ fingerprint'[d] = fingerprint[d]
          /\ input[d] = "NONE" => input'[d] = "NONE"
    BY <1>1, <2>1, <2>2 DEF OutTypes
  <2>4. Moves(c, pc[c], op[c]) \/ Moves(c, "idle", "none") \/ Moves(c, "persisting", op[c])
    BY <1>1, <1>13, MoveForms DEF StopOutput
  <2>5. \E d : at' = [at EXCEPT ![c] = d]
    BY <1>13 DEF StopOutput
  <2> QED BY <1>4, <2>1, <2>3, <2>4, <2>5
<1>14. ASSUME NEW d \in Dests, Enable(c, d) PROVE InputsOrderly'
  <2>1. Moves(c, "persisting", op[c]) /\ UNCHANGED <<outVars, runner, at>>
        /\ job'.at = job.at /\ job'.fresh \subseteq job.fresh
    BY <1>1, <1>14, MoveForms DEF Enable, Jobs
  <2> QED BY <1>4, <2>1 DEF outVars
<1>15. ASSUME NEW d \in Dests, Disable(c, d) PROVE InputsOrderly'
  <2>1. /\ UNCHANGED <<sup, feed, runner>>
        /\ job'.at = job.at /\ job'.fresh = job.fresh \ {d}
        /\ input' = [input EXCEPT ![d] = "NONE"]
        /\ fingerprint' = [fingerprint EXCEPT ![d] = NoUrl]
    BY <1>1, <1>15 DEF Disable, Jobs
  <2>2. \/ pc' = [pc EXCEPT ![c] = "wantStop"] /\ at' = at
        \/ pc' = [pc EXCEPT ![c] = "disabling"] /\ at' = [at EXCEPT ![c] = d]
    BY <1>15 DEF Disable, Goto
  <2>3. /\ pc'[c] = "disabling" => at'[c] = d
        /\ \A x \in Callers : x # c => pc'[x] = pc[x] /\ at'[x] = at[x]
    BY <1>1, <2>2 DEF CallTypes
  <2>4. \A e \in Dests : input'[e] = IF e = d THEN "NONE" ELSE input[e]
    BY <1>1, <2>1 DEF OutTypes
  <2>5. \A e \in Dests : e # d => fingerprint'[e] = fingerprint[e]
    BY <1>1, <2>1 DEF OutTypes
  <2>6. Unshown(d)'
    BY <2>1, <2>4 DEF Unshown
  <2>7. \A x \in Callers, e \in Dests : Disabling(x, e)' => Disabling(x, e) \/ Unshown(e)'
    BY <2>3, <2>6 DEF Disabling
  <2> QED BY <1>3, <2>1, <2>4, <2>5, <2>7
<1>16. CASE DestinationStopped(c)
  <2>1. /\ Moves(c, "persisting", op[c]) /\ at' = [at EXCEPT ![c] = 0]
        /\ UNCHANGED <<input, fingerprint, runner, job>>
        /\ UNCHANGED <<sup, feed>> \/ OutputStopped(at[c])
    BY <1>1, <1>16, MoveForms DEF DestinationStopped, runVars
  <2>2. \A d \in Dests : sup'[d] = "STOPPED" \/ (sup'[d] = sup[d] /\ feed'[d] = feed[d])
    BY <1>1, <2>1 DEF OutputStopped, OutTypes
  <2> QED BY <1>4, <2>1, <2>2
<1>17. ASSUME pc[c] = "persisting", Return(c), UNCHANGED <<outVars, job, at>>,
              runner' = runner \/ (runner' = "created" /\ op[c] = "start")
       PROVE  InputsOrderly'
  <2>1. Moves(c, "idle", "none")
    BY <1>1, <1>17, MoveForms
  <2>2. op[c] = "start" => runner = "none"
    BY <1>17 DEF TaskOrderly, Holding, HoldsAt
  <2> QED BY <1>4, <1>17, <2>1, <2>2 DEF outVars
<1>18. ASSUME UNCHANGED <<outVars, runVars, callVars>> PROVE InputsOrderly'
  BY <1>2, <1>18, InputsPartsNext DEF Shown, Unshown, Disabling, Replacing, outVars, runVars,
                                      callVars
<1>19. pc[c] = "persisting" \/ ~(BeginSave(c) \/ Saved(c) \/ SaveFailed(c))
  BY DEF BeginSave, Saved, SaveFailed, SavesOrderly
<1>20. CASE BeginSave(c) \/ Saved(c) \/ SaveFailed(c)
  BY <1>17, <1>18, <1>19, <1>20 DEF BeginSave, Saved, SaveFailed, Persisted, runVars, callVars
<1> QED BY <1>6, <1>8, <1>9, <1>11, <1>12, <1>13, <1>14, <1>15, <1>16, <1>20, CallerCases

LEMMA RunnerInputs ==
  ASSUME TypeOK, TaskOrderly, WatchOrderly, SwitchOrderly, InputsOrderly, RunnerStep
  PROVE  InputsOrderly'
<1>1. OutTypes /\ CallTypes /\ job \in Jobs
  BY AllTypes, TypeParts
<1>2. /\ \A d \in Dests : Shown(d)
      /\ \A x \in Callers, d \in Dests : Disabling(x, d) => Unshown(d)
  BY InputsParts
<1>3. ASSUME UNCHANGED callVars
      PROVE  \A x \in Callers, d \in Dests : Disabling(x, d)' = Disabling(x, d)
  BY <1>3 DEF Disabling, callVars
<1>4. CASE Poll
  <2>1. /\ runner \in Watching \cup {"created"} /\ runner' \in Watching \cup {"validating"}
        /\ UNCHANGED <<outVars, callVars>>
    BY <1>4, PollFacts DEF Outcome
  <2>2. \A d \in Dests : ~Replacing(d) /\ ~Replacing(d)'
    BY <2>1 DEF Replacing, Watching
  <2>3. \A d \in Dests : Shown(d)'
    BY <1>2, <2>1, <2>2, ShownKept DEF outVars
  <2>4. \A d \in Dests : Unshown(d) => Unshown(d)'
    BY <2>1 DEF Unshown, outVars, Watching
  <2> QED BY <1>2, <1>3, <2>1, <2>3, <2>4, InputsPartsNext
<1>5. CASE Ends
  <2>1. runner' \in Watching \cup {"validating"} /\ UNCHANGED callVars /\ runner \in Restarts
    BY <1>5, EndsFacts DEF Outcome
  <2>2. \A d \in Dests : ~Replacing(d)'
    BY <2>1 DEF Replacing, Watching
  <2>3. ASSUME NEW d \in Dests, d # job.at PROVE Shown(d)'
    <3>1. ~Replacing(d)
      BY <2>3 DEF Replacing
    <3> QED BY <1>2, <1>5, <2>3, <3>1, EndsOutputs, ShownKept
  <2>4. ASSUME NEW d \in Dests, d = job.at PROVE Shown(d)'
    <3>1. CASE RestartFailed
      <4>1. CASE UNCHANGED <<sup, feed>> /\ runner = "validating"
        <5>1. ~Replacing(d) /\ UNCHANGED <<input, fingerprint>>
          BY <3>1, <4>1 DEF Replacing, RestartFailed
        <5> QED BY <1>2, <2>2, <4>1, <5>1, ShownKept
      <4>2. CASE UNCHANGED <<sup, feed>> /\ runner = "starting"
        BY <2>1, <2>4, <4>2 DEF SwitchOrderly, Shown, Restarts
      <4>3. CASE \E how \in {"STOPPED", "ERROR"} : sup' = [sup EXCEPT ![d] = how]
        BY <1>1, <2>4, <4>3 DEF Shown, OutTypes
      <4> QED BY <2>4, <3>1, <4>1, <4>2, <4>3 DEF RestartFailed, OutputStopped
    <3>2. CASE Publishes
      <4>1. /\ runner = "started" /\ UNCHANGED <<sup, feed>>
            /\ input'[d] = job.target /\ fingerprint'[d] = job.url
        BY <1>1, <2>4, <3>2 DEF Publishes, OutTypes
      <4>2. Running(d) => feed[d] = Reads(job.target, job.url)
        BY <2>4, <4>1 DEF SwitchOrderly
      <4> QED BY <4>1, <4>2 DEF Shown, Running
    <3>3. CASE Undone
      BY <1>1, <2>4, <3>3 DEF Undone, OutputStopped, Shown, OutTypes
    <3> QED BY <1>5, <3>1, <3>2, <3>3 DEF Ends
  <2>5. ASSUME NEW x \in Callers, NEW d \in Dests, Disabling(x, d) PROVE Unshown(d)'
    <3>1. input[d] = "NONE" /\ (runner = "started" /\ job.at = d => d \notin job.fresh)
      BY <1>2, <2>5 DEF Unshown
    <3>2. input'[d] = "NONE"
      <4>1. CASE d # job.at
        BY <1>5, <3>1, <4>1, EndsOutputs
      <4>2. CASE d = job.at
        BY <1>5, <3>1, <4>2 DEF Ends, RestartFailed, Publishes, Undone
      <4> QED BY <4>1, <4>2
    <3> QED BY <2>1, <3>2 DEF Unshown, Watching
  <2>6. \A d \in Dests : Shown(d)'
    BY <2>3, <2>4
  <2> QED BY <1>3, <2>1, <2>5, <2>6, InputsPartsNext
<1>6. CASE Gives
  <2>1. /\ runner = "started" /\ runner' = "undoing" /\ UNCHANGED <<outVars, callVars, job>>
    BY <1>6 DEF Gives
  <2>2. \A d \in Dests : Shown(d)' /\ (Unshown(d) => Unshown(d)')
    BY <1>2, <2>1, ShownKept DEF Unshown, Replacing, outVars
  <2> QED BY <1>2, <1>3, <2>1, <2>2, InputsPartsNext
<1>7. CASE Replaced
  <2>1. /\ runner = "validating" /\ runner' = "starting"
        /\ UNCHANGED <<job, input, fingerprint, pc>>
        /\ sup' = [sup EXCEPT ![job.at] = "CONNECTING"]
        /\ \E url : feed' = [feed EXCEPT ![job.at] = url]
        /\ at' = [x \in Callers |-> IF pc[x] = "disabling" /\ at[x] = job.at THEN 0 ELSE at[x]]
    BY <1>7 DEF Replaced
  <2>2. \A d \in Dests : Shown(d)'
    <3>1. ASSUME NEW d \in Dests, d = job.at PROVE Shown(d)'
      BY <2>1, <3>1 DEF Shown, Replacing
    <3>2. ASSUME NEW d \in Dests, d # job.at PROVE Shown(d)'
      <4>1. ~Replacing(d) /\ sup'[d] = sup[d] /\ feed'[d] = feed[d]
        BY <1>1, <2>1, <3>2 DEF Replacing, OutTypes
      <4> QED BY <1>2, <2>1, <4>1, ShownKept
    <3> QED BY <3>1, <3>2
  <2>3. \A x \in Callers, d \in Dests : Disabling(x, d)' => Disabling(x, d) /\ d # job.at
    BY <2>1, Constants DEF Disabling
  <2>4. \A d \in Dests : Unshown(d) /\ d # job.at => Unshown(d)'
    BY <2>1 DEF Unshown
  <2> QED BY <1>2, <2>2, <2>3, <2>4, InputsPartsNext
<1>8. CASE CameUp
  <2>1. /\ runner = "starting" /\ runner' = "started"
        /\ UNCHANGED <<job, input, fingerprint, feed, callVars>>
        /\ sup' = [sup EXCEPT ![job.at] = "LIVE"]
    BY <1>8 DEF CameUp
  <2>2. \A d \in Dests : Shown(d)'
    <3>1. ASSUME NEW d \in Dests, d = job.at PROVE Shown(d)'
      BY <2>1, <3>1 DEF Shown, Replacing
    <3>2. ASSUME NEW d \in Dests, d # job.at PROVE Shown(d)'
      <4>1. ~Replacing(d) /\ sup'[d] = sup[d]
        BY <1>1, <2>1, <3>2 DEF Replacing, OutTypes
      <4> QED BY <1>2, <2>1, <4>1, ShownKept
    <3> QED BY <3>1, <3>2
  <2>3. \A d \in Dests : Unshown(d) => Unshown(d)'
    BY <2>1 DEF Unshown
  <2> QED BY <1>2, <1>3, <2>1, <2>2, <2>3, InputsPartsNext
<1>9. CASE Cancelled
  <2>1. UNCHANGED callVars /\ runner' \in {"none", "ending"}
    BY <1>9 DEF Cancelled
  <2>2. CASE runner = "created" /\ UNCHANGED outVars
    <3>1. \A d \in Dests : Shown(d)' /\ (Unshown(d) => Unshown(d)')
      BY <1>2, <2>1, <2>2, ShownKept DEF Unshown, Replacing, outVars
    <3> QED BY <1>2, <1>3, <2>1, <3>1, InputsPartsNext
  <2>3. CASE ForgetInputs
    <3>1. \A d \in Dests : input'[d] = "NONE"
      BY <2>3 DEF ForgetInputs
    <3>2. \A d \in Dests : Shown(d)' /\ Unshown(d)'
      BY <2>1, <3>1 DEF Shown, Unshown
    <3> QED BY <3>2, InputsPartsNext
  <2> QED BY <1>9, <2>2, <2>3 DEF Cancelled
<1>10. CASE EndStopped
  <2>1. /\ runner = "ending" /\ runner' \in {"none", "ending"}
        /\ UNCHANGED <<callVars, fingerprint>>
        /\ sup' = [sup EXCEPT ![job.at] = "STOPPED"] /\ feed' = [feed EXCEPT ![job.at] = NoUrl]
        /\ input' = [input EXCEPT ![job.at] = "NONE"]
    BY <1>10 DEF EndStopped, OutputStopped
  <2>2. ASSUME NEW d \in Dests PROVE Shown(d)' /\ (Unshown(d) => Unshown(d)')
    <3>1. /\ ~Replacing(d)
          /\ input[d] = "NONE" => input'[d] = "NONE"
          /\ \/ input'[d] = "NONE"
             \/ /\ sup'[d] = sup[d] /\ feed'[d] = feed[d]
                /\ input'[d] = input[d] /\ fingerprint'[d] = fingerprint[d]
      BY <1>1, <2>1 DEF Replacing, OutTypes
    <3> QED BY <1>2, <2>1, <3>1, ShownKept DEF Unshown
  <2> QED BY <1>2, <1>3, <2>1, <2>2, InputsPartsNext
<1> QED BY <1>4, <1>5, <1>6, <1>7, <1>8, <1>9, <1>10, RunnerCases

-----------------------------------------------------------------------------
(* The invariant.                                                          *)

LEMMA InitIsOrderly == Init => Orderly
<1> SUFFICES ASSUME Init PROVE Orderly
  OBVIOUS
<1>1. TypeOK
  <2>1. WishTypes /\ InitTypes
    BY DEF Init, WishTypes, InitTypes
  <2>2. CallTypes
    <3>1. 0 \in 0 .. NumDests
      BY Constants
    <3> QED BY <3>1 DEF Init, CallTypes, Awaits
  <2>3. OutTypes
    BY DEF Init, OutTypes, Inputs, OutputStates
  <2>4. TaskTypes
    BY Values DEF Init, TaskTypes, Places, SourceStates
  <2>5. StoreTypes
    BY Values DEF Init, StoreTypes
  <2> QED BY <2>1, <2>2, <2>3, <2>4, <2>5, AllTypes
<1>2. /\ \A c \in Callers : pc[c] = "idle" /\ op[c] = "none" /\ c # NoCaller
      /\ \A d \in Dests : ~Running(d) /\ sup[d] # "LIVE"
      /\ runner = "none" /\ source.recoveries = 0
  BY Constants DEF Init, Running, Unwatched
<1>3. LocksOrderly
  BY <1>2 DEF Init, LocksOrderly, CallsAt, Holding, HoldsAt
<1>4. LoadOrderly /\ TaskOrderly
  BY <1>2 DEF Init, LoadOrderly, TaskOrderly, Holding, HoldsAt
<1>5. SavesOrderly
  BY <1>2 DEF Init, SavesOrderly
<1>6. WatchOrderly /\ SwitchOrderly
  BY <1>2 DEF WatchOrderly, SwitchOrderly
<1>7. DarkOrderly
  BY <1>2 DEF DarkOrderly, NoTaskIsDark
<1>8. InputsOrderly
  BY <1>2 DEF InputsOrderly
<1> QED BY <1>1, <1>3, <1>4, <1>5, <1>6, <1>7, <1>8 DEF Orderly

\* An output dies by itself, or time passes.
World == TimePasses \/ \E d \in Dests : OutputDies(d)

LEMMA WorldFacts ==
  ASSUME TypeOK, World
  PROVE  /\ UNCHANGED <<wishVars, input, fingerprint, runVars, initVars, callVars, storeVars>>
         /\ source'.recoveries = source.recoveries
         /\ \A d \in Dests :
              \/ sup'[d] = sup[d] /\ feed'[d] = feed[d]
              \/ sup'[d] \in {"AUTH_FAILED", "ERROR"}
<1>1. OutTypes /\ source \in Sources
  BY AllTypes, TypeParts
<1>2. CASE TimePasses
  BY <1>1, <1>2 DEF TimePasses, Sources, outVars
<1>3. ASSUME NEW e \in Dests, OutputDies(e)
      PROVE  /\ UNCHANGED <<wishVars, input, fingerprint, runVars, initVars, callVars, storeVars>>
             /\ source'.recoveries = source.recoveries
             /\ \A d \in Dests :
                  \/ sup'[d] = sup[d] /\ feed'[d] = feed[d]
                  \/ sup'[d] \in {"AUTH_FAILED", "ERROR"}
  <2>1. PICK how \in {"AUTH_FAILED", "ERROR"} : sup' = [sup EXCEPT ![e] = how]
    BY <1>3 DEF OutputDies
  <2>2. feed' = [feed EXCEPT ![e] = NoUrl]
    BY <1>3 DEF OutputDies
  <2>3. ASSUME NEW d \in Dests
        PROVE  \/ sup'[d] = sup[d] /\ feed'[d] = feed[d]
               \/ sup'[d] \in {"AUTH_FAILED", "ERROR"}
    BY <1>1, <2>1, <2>2 DEF OutTypes
  <2> QED BY <1>3, <2>3 DEF OutputDies
<1> QED BY <1>2, <1>3 DEF World

LEMMA WorldIsOrderly ==
  ASSUME Orderly, World
  PROVE  Orderly'
<1>1. TypeOK'
  BY WorldTypes DEF Orderly, World
<1>2. /\ UNCHANGED <<wishVars, input, fingerprint, runVars, initVars, callVars, storeVars>>
      /\ source'.recoveries = source.recoveries
      /\ \A d \in Dests :
           \/ sup'[d] = sup[d] /\ feed'[d] = feed[d]
           \/ sup'[d] \in {"AUTH_FAILED", "ERROR"}
  BY WorldFacts DEF Orderly
<1>3. LocksOrderly' /\ SavesOrderly'
  BY <1>2, LocksKept, SavesKept DEF Orderly, callVars, initVars
<1>4. LoadOrderly' /\ TaskOrderly' /\ WatchOrderly'
  BY <1>2 DEF Orderly, LoadOrderly, TaskOrderly, WatchOrderly, Holding, wishVars, runVars,
              initVars, callVars, storeVars
<1>5. \A d \in Dests : /\ Running(d)' => Running(d) /\ feed'[d] = feed[d]
                       /\ sup'[d] = "LIVE" => sup[d] = "LIVE" /\ feed'[d] = feed[d]
  BY <1>2 DEF Running
<1>6. DarkOrderly'
  <2>1. \A d \in Dests : SureToStop(d)' = SureToStop(d)
    BY <1>2 DEF SureToStop, Stops, Replacing, runVars, callVars
  <2> QED BY <1>2, <1>5, <2>1 DEF Orderly, DarkOrderly, NoTaskIsDark, runVars, wishVars
<1>7. SwitchOrderly'
  <2> SUFFICES ASSUME runner \in Restarts PROVE SwitchOrderly'
    BY <1>2, SwitchOff DEF runVars
  <2>1. PICK d \in Dests : d = job.at
    BY DEF Orderly, SwitchOrderly, Restarts
  <2>2. /\ Running(d)' => Running(d) /\ feed'[d] = feed[d]
        /\ sup'[d] = "LIVE" => sup[d] = "LIVE"
    BY <1>5, <2>1
  <2> QED BY <1>2, <2>1, <2>2 DEF Orderly, SwitchOrderly, Running, runVars, wishVars
<1>8. InputsOrderly'
  <2>1. \A d \in Dests : Shown(d) /\ Unshown(d)' = Unshown(d)
    BY <1>2, InputsParts DEF Orderly, Unshown, runVars
  <2>2. ASSUME NEW d \in Dests PROVE Shown(d)'
    BY <1>2, <1>5, <2>1 DEF Shown, Replacing, runVars
  <2>3. \A c \in Callers, d \in Dests : Disabling(c, d)' = Disabling(c, d)
    BY <1>2 DEF Disabling, callVars
  <2> QED BY <2>1, <2>2, <2>3, InputsParts, InputsPartsNext DEF Orderly
<1> QED BY <1>1, <1>3, <1>4, <1>6, <1>7, <1>8 DEF Orderly

LEMMA NextIsOrderly == Orderly /\ [Next]_vars => Orderly'
<1> SUFFICES ASSUME Orderly, [Next]_vars PROVE Orderly'
  OBVIOUS
<1>1. /\ TypeOK /\ LocksOrderly /\ LoadOrderly /\ TaskOrderly /\ SavesOrderly
      /\ WatchOrderly /\ DarkOrderly /\ SwitchOrderly /\ InputsOrderly
  BY DEF Orderly
<1>2. ASSUME NEW c \in Callers, CallerStep(c) PROVE Orderly'
  BY <1>1, <1>2, CallerTypes, CallerLocks, CallerLoad, CallerTask, CallerSaves, CallerWatch,
     CallerDark, CallerSwitch, CallerInputs DEF Orderly
<1>3. CASE RunnerStep
  <2>1. SavesOrderly'
    BY <1>1, <1>3, RunnerMoves, SavesKept
  <2> QED BY <1>1, <1>3, <2>1, RunnerTypes, RunnerCalls, RunnerTask, RunnerWatch, RunnerDark,
             RunnerSwitch, RunnerInputs DEF Orderly
<1>4. CASE World
  BY <1>4, WorldIsOrderly
<1>5. CASE UNCHANGED vars
  <2>1. LocksOrderly' /\ SavesOrderly' /\ SwitchOrderly'
    BY <1>1, <1>5, LocksKept, SavesKept, SwitchKept DEF vars, callVars, initVars, outVars,
       runVars, wishVars, storeVars
  <2>2. TypeOK'
    BY <1>1, <1>5, AllTypes, AllTypesNext, TypesKept DEF vars
  <2>3. LoadOrderly' /\ TaskOrderly' /\ WatchOrderly' /\ InputsOrderly'
    BY <1>1, <1>5 DEF LoadOrderly, TaskOrderly, WatchOrderly, InputsOrderly, Holding, Replacing,
       vars, wishVars, outVars, runVars, initVars, callVars, storeVars
  <2>4. DarkOrderly'
    BY <1>1, <1>5 DEF DarkOrderly, NoTaskIsDark, SureToStop, Stops, Replacing, Running,
       vars, wishVars, outVars, runVars, callVars
  <2> QED BY <2>1, <2>2, <2>3, <2>4 DEF Orderly
<1> QED BY <1>2, <1>3, <1>4, <1>5 DEF Next, World

-----------------------------------------------------------------------------
(* The theorems.                                                           *)

\* The invariant that the theorems below rest on: the locks, the load, the task, the saves,
\* the standby watch and the outputs of a controller stay orderly, whatever calls meet.
THEOREM Ordered == Spec => []Orderly
BY InitIsOrderly, NextIsOrderly, PTL DEF Spec

\* Every variable of the controller keeps its type.
THEOREM Typed == Spec => []TypeOK
<1>1. Orderly => TypeOK
  BY DEF Orderly
<1> QED BY <1>1, Ordered, PTL

\* Without a task nothing is on the air: however _run() ended, its finally block and the
\* stop() that waited for it left no output behind.
THEOREM TasklessIsDark == Spec => []NoTaskIsDark
<1>1. Orderly => NoTaskIsDark
  BY DEF Orderly, DarkOrderly
<1> QED BY <1>1, Ordered, PTL

\* set_destination_enabled(False) wins against a restart of the same output, whichever
\* await the two meet at: some task will still stop the output.
THEOREM DisabledStaysDark == Spec => []DisabledIsDark
<1>1. ASSUME NEW d \in Dests, SureToStop(d) PROVE WillStop(d)
  BY <1>1 DEF SureToStop, WillStop, Stops, Replacing, Restarting
<1>2. Orderly => DisabledIsDark
  BY <1>1 DEF Orderly, DarkOrderly, DisabledIsDark
<1> QED BY <1>2, Ordered, PTL

\* What _persist() confirmed is what the store and the controller hold.
THEOREM ConfirmationsAreTrue == Spec => []ConfirmedIsStored
<1>1. Orderly => ConfirmedIsStored
  BY DEF Orderly, SavesOrderly, ConfirmedIsStored
<1> QED BY <1>1, Ordered, PTL

\* With a store that does not fail, every change is saved by the time its call returns.
THEOREM EveryChangeIsSaved == ~StoreFails => (Spec => []NothingUnsaved)
<1> SUFFICES ASSUME ~StoreFails PROVE Spec => []NothingUnsaved
  OBVIOUS
<1>1. Orderly => NothingUnsaved
  <2> SUFFICES ASSUME Orderly, Quiet, asked = desired, persisted = "behind" PROVE FALSE
    BY DEF NothingUnsaved
  <2>1. PICK c \in Callers : WillSave(c)
    BY DEF Orderly, SavesOrderly
  <2> QED BY <2>1 DEF WillSave, Quiet
<1> QED BY <1>1, Ordered, PTL

\* What the controller says an output shows is what the output's child reads.
THEOREM InputsAreTrue == Spec => []InputIsTruthful
<1>1. Orderly => InputIsTruthful
  <2> SUFFICES ASSUME Orderly, NEW d \in Dests, sup[d] = "LIVE", input[d] # "NONE",
                      ~Restarting(d)
               PROVE  feed[d] = IF input[d] = "LIVE" THEN fingerprint[d] ELSE Standby
    BY DEF InputIsTruthful
  <2>1. ~Replacing(d)
    BY DEF Replacing, Restarting
  <2> QED BY <2>1 DEF Orderly, InputsOrderly, Reads
<1> QED BY <1>1, Ordered, PTL

\* start() creates a task only when there is none, however start() and stop() interleave.
THEOREM NeverTwoTasks == Spec => OneTask
<1>1. Orderly /\ [Next]_vars => [runner' = "created" /\ runner # "created" => runner = "none"]_vars
  <2> SUFFICES ASSUME Orderly, Next, runner' = "created", runner # "created"
               PROVE  runner = "none"
    OBVIOUS
  <2>1. CASE RunnerStep
    <3>1. runner' \in Watching \cup Restarts \cup {"none", "ending"}
      BY <2>1, RunnerMoves DEF Orderly
    <3> QED BY <3>1 DEF Watching, Restarts
  <2>2. CASE World
    BY <2>2, WorldFacts DEF Orderly, runVars
  <2>3. ASSUME NEW c \in Callers, CallerStep(c) PROVE runner = "none"
    <3>1. pc[c] = "persisting" /\ op[c] = "start"
      BY <2>3, CallerCases DEF Call, BeginLoad, Loaded, LoadFailed, BeginStart, BeginStop,
         TaskEnded, StopOutput, Enable, Disable, DestinationStopped, BeginSave, Saved,
         SaveFailed, Persisted, runVars, Orderly, SavesOrderly
    <3> QED BY <3>1 DEF Orderly, TaskOrderly, Holding, HoldsAt
  <2> QED BY <2>1, <2>2, <2>3 DEF Next, World
<1> QED BY <1>1, Ordered, PTL DEF Spec, OneTask

\* Nothing but a failure of its own, a disable, a stop of the controller or a switch to
\* standby takes an output off the air.
THEOREM OnAirUntilTold == Spec => OnAirStays
<1> DEFINE Stays ==
      \A d \in enabled \cap enabled' :
        /\ sup[d] = "LIVE" /\ input[d] = "LIVE"
        /\ desired'
        /\ ~(Restarting(d) /\ job.target = "STANDBY")
        => sup'[d] \in {"LIVE", "AUTH_FAILED", "ERROR"}
<1>1. Orderly /\ [Next]_vars => [Stays]_vars
  <2> SUFFICES ASSUME Orderly, Next, NEW d \in enabled, sup[d] = "LIVE", input[d] = "LIVE",
                      desired', ~(Restarting(d) /\ job.target = "STANDBY")
               PROVE  sup'[d] \in {"LIVE", "AUTH_FAILED", "ERROR"}
    OBVIOUS
  <2>1. d \in Dests /\ OutTypes /\ job \in Jobs
    BY AllTypes, TypeParts DEF Orderly
  <2>2. CASE World
    BY <2>1, <2>2, WorldFacts DEF Orderly
  <2>3. ASSUME NEW c \in Callers, CallerStep(c) PROVE sup'[d] = "LIVE"
    <3>1. CASE StopOutput(c)
      BY <3>1 DEF StopOutput, wishVars, Orderly, TaskOrderly
    <3>2. CASE DestinationStopped(c)
      <4>1. pc[c] = "disabling" /\ (UNCHANGED sup \/ sup' = [sup EXCEPT ![at[c]] = "STOPPED"])
        BY <3>2 DEF DestinationStopped, OutputStopped
      <4>2. at[c] # d
        BY <2>1, <4>1 DEF Orderly, InputsOrderly
      <4> QED BY <2>1, <4>1, <4>2 DEF OutTypes
    <3>3. CASE ~StopOutput(c) /\ ~DestinationStopped(c)
      <4>1. UNCHANGED sup
        BY <2>3, <3>3, CallerCases DEF Call, BeginLoad, Loaded, LoadFailed, BeginStart,
           BeginStop, TaskEnded, Enable, Disable, BeginSave, Saved, SaveFailed, outVars
      <4> QED BY <4>1
    <3> QED BY <3>1, <3>2, <3>3
  <2>4. ASSUME runner \in Restarts, job.at = d
        PROVE  job.target = "LIVE" /\ d \in job.fresh /\ runner \notin {"validating", "starting"}
    BY <2>1, <2>4 DEF Orderly, SwitchOrderly, Restarting, Restarts, Jobs, Inputs
  <2>5. ASSUME RunnerStep PROVE sup'[d] = "LIVE"
    <3>1. CASE Poll \/ Gives
      BY <3>1, PollFacts DEF Gives, outVars, Orderly
    <3>2. CASE Ends
      <4>1. CASE d # job.at
        BY <2>1, <3>2, <4>1, EndsOutputs DEF Orderly
      <4>2. CASE d = job.at
        <5>1. runner \notin {"validating", "starting", "undoing"}
          BY <2>4, <4>2 DEF Restarts, Orderly, SwitchOrderly
        <5> QED BY <3>2, <5>1 DEF Ends, RestartFailed, Publishes, Undone
      <4> QED BY <4>1, <4>2
    <3>3. CASE Replaced
      <4>1. runner = "validating" /\ sup' = [sup EXCEPT ![job.at] = "CONNECTING"]
        BY <3>3 DEF Replaced
      <4> QED BY <2>1, <2>4, <4>1 DEF OutTypes, Restarts
    <3>4. CASE CameUp
      BY <2>1, <3>4 DEF CameUp, OutTypes
    <3>5. CASE Cancelled
      BY <3>5 DEF Cancelled, Orderly, TaskOrderly, wishVars
    <3>6. CASE EndStopped
      BY <3>6 DEF EndStopped, Orderly, TaskOrderly, wishVars
    <3> QED BY <2>5, <3>1, <3>2, <3>3, <3>4, <3>5, <3>6, RunnerCases
  <2> QED BY <2>2, <2>3, <2>5 DEF Next, World
<1> QED BY <1>1, Ordered, PTL DEF Spec, OnAirStays

=============================================================================
