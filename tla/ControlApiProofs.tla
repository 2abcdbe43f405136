-------------------------- MODULE ControlApiProofs --------------------------
(***************************************************************************)
(* Theorems about ControlApi for any number of clients, rooms and writes,  *)
(* with any database call failing and a restart at any point.              *)
(*                                                                         *)
(* What the database, the controller and the clients know of each other    *)
(* depends on where the request that holds the write lock is suspended.    *)
(* The inductive invariant, Orderly, says it for every place.              *)
(***************************************************************************)
EXTENDS ControlApi, TLAPS

\* Where the holders of the two locks are suspended.
WriterAt  == IF writer = NoClient THEN "idle" ELSE pc[writer]
BuilderAt == IF builder = NoClient THEN "idle" ELSE pc[builder]

Changing == {"apply", "swap", "reapply", "reswap"}
Writing  == Changing \cup {"start", "stop", "stopping", "installing"}
Building == Closing \cup {"reconnecting"}

\* A lock is held exactly where the code is inside it.
LocksOrderly ==
  /\ \A c \in Clients : pc[c] \in Writing <=> writer = c
  /\ \A c \in Clients : pc[c] \in Building <=> builder = c

\* The configuration of the controller that is built from a configuration.
Usable(config) == IF Complete(config) THEN config ELSE Nothing

\* The relay that runs is wanted, stored as wanted and shown, unless it is being closed; a
\* wish that needs no save has been carried out.  Once a controller that is being closed has
\* asked its outputs to end, nobody can bring one up.
RelayOrderly ==
  /\ ctl.running => intent
  /\ ctl.running /\ BuilderAt \notin Closing => ctl.desired /\ ~startupFailed /\ ~blocked
  /\ BuilderAt \in Closing => ~ctl.desired
  /\ ctl.desired /\ ~ctl.unsaved => ctl.running
  /\ WriterAt = "installing" => ~ctl.running
  /\ swept => BuilderAt \in Closing /\ ~ctl.running /\ output # "on"

\* What a PUT has changed, at each of its places; elsewhere nothing is half done, unless the
\* undoing of a PUT has failed.
ConfigurationOrderly ==
  /\ WriterAt \in {"apply", "swap"} => intent = undo.intent
  /\ WriterAt \in {"swap", "reswap"} => build.ctl = Built(stored, intent)
  /\ WriterAt = "stopping" => Exists(ctl)
  /\ ~unrestored =>
       /\ WriterAt \in {"apply", "swap"} =>
            accepted = [stored EXCEPT ![undo.resource] = undo.value]
       /\ WriterAt \notin {"apply", "swap"} => stored = accepted
       /\ WriterAt \in {"reapply", "reswap"} \/ ctl.config = Usable(accepted)
       /\ WriterAt = "reapply" /\ ~undo.adopted => ctl.config = Usable(accepted)

\* Until a PUT fails after its write revisions only grow, and who has read the present one
\* has read the value.
RevisionsOrderly ==
  /\ unrestored \/ WriterAt \in {"reapply", "reswap"} => rolledBack
  /\ ~rolledBack =>
       \A c \in Clients, r \in Resources :
         /\ seen[c][r].revision <= revision[r]
         /\ seen[c][r].revision = revision[r] => seen[c][r].value = stored[r]

Orderly == TypeOK /\ LocksOrderly /\ RelayOrderly /\ ConfigurationOrderly /\ RevisionsOrderly

-----------------------------------------------------------------------------
(* Controllers.                                                            *)

LEMMA NothingIsBare == Nothing \in Database /\ ~Complete(Nothing)
BY DEF Nothing, Database, Complete, Resources

LEMMA UsableFacts ==
  ASSUME NEW config \in Database
  PROVE  /\ Usable(config) \in Database
         /\ Complete(Usable(config)) <=> Complete(config)
         /\ Complete(config) => Usable(config) = config
BY NothingIsBare DEF Usable

\* A controller that was just built does not run, and one that wants to has not saved it.
LEMMA BuiltFacts ==
  ASSUME NEW config \in Database, NEW wish \in BOOLEAN
  PROVE  LET k == Built(config, wish) IN
         /\ k \in Controllers
         /\ k.config = Usable(config)
         /\ ~k.running
         /\ k.desired => k.unsaved
<1>1. CASE Complete(config)
  BY <1>1 DEF Built, Usable, Controllers
<1>2. CASE ~Complete(config)
  BY <1>2, NothingIsBare DEF Built, Usable, Controllers
<1> QED BY <1>1, <1>2

LEMMA WishingFacts ==
  ASSUME NEW k \in Controllers, NEW wish \in BOOLEAN
  PROVE  LET new == Wishing(k, wish) IN
         /\ new \in Controllers
         /\ new.config = k.config
         /\ new.running = k.running
         /\ new.desired = wish
         /\ new.unsaved <=> k.unsaved \/ k.desired # wish
BY DEF Wishing, Controllers

LEMMA StartedFacts ==
  ASSUME NEW k \in Controllers
  PROVE  /\ Started(k) \in Controllers
         /\ Started(k).config = k.config
         /\ Started(k).running /\ Started(k).desired
<1>1. Wishing(k, TRUE) \in Controllers /\ Wishing(k, TRUE).config = k.config
      /\ Wishing(k, TRUE).desired = TRUE
  BY WishingFacts
<1> QED BY <1>1 DEF Started, Controllers

LEMMA StoppedFacts ==
  ASSUME NEW k \in Controllers
  PROVE  /\ Stopped(k) \in Controllers
         /\ Stopped(k).config = k.config
         /\ ~Stopped(k).running /\ ~Stopped(k).desired
<1>1. Wishing(k, FALSE) \in Controllers /\ Wishing(k, FALSE).config = k.config
      /\ Wishing(k, FALSE).desired = FALSE
  BY WishingFacts
<1> QED BY <1>1 DEF Stopped, Controllers

-----------------------------------------------------------------------------
(* How a controller comes up.                                              *)

Builds == [ctl : Controllers, wanted : BOOLEAN, enabled : BOOLEAN]

Results == [ctl : Controllers, stored : Database, intent : BOOLEAN,
            startupFailed : BOOLEAN, blocked : BOOLEAN, ok : BOOLEAN, adopted : BOOLEAN]

\* A result that leaves nothing half done: it is built from what is stored and did not
\* change that, and when it runs it is wanted, stored and shown.
Clean(o) ==
  /\ o \in Results
  /\ o.stored = stored
  /\ o.ctl.config = Usable(stored)
  /\ o.ctl.running => o.intent /\ o.ctl.desired /\ ~o.startupFailed /\ ~o.blocked
  /\ o.ctl.desired /\ ~o.ctl.unsaved => o.ctl.running
  /\ ~o.ok => ~o.ctl.running
  /\ o.adopted

LEMMA OutcomesAreClean ==
  ASSUME stored \in Database, intent \in BOOLEAN,
         NEW b \in Builds, b.ctl = Built(stored, intent),
         NEW o \in Outcomes(b)
  PROVE  Clean(o)
<1> DEFINE up == [ctl |-> b.ctl, stored |-> stored, intent |-> intent,
                  startupFailed |-> FALSE, blocked |-> FALSE, ok |-> TRUE, adopted |-> TRUE]
           saved == [up EXCEPT !.stored = b.ctl.config]
<1>1. /\ b.ctl \in Controllers
      /\ b.ctl.config = Usable(stored)
      /\ ~b.ctl.running
      /\ b.ctl.desired => b.ctl.unsaved
  BY BuiltFacts
<1>2. Exists(b.ctl) => b.ctl.config = stored
  BY <1>1, UsableFacts DEF Exists
<1>3. b.wanted \in BOOLEAN /\ b.enabled \in BOOLEAN
  BY DEF Builds
<1>4. CASE o = up
  BY <1>1, <1>4 DEF Clean, Results
<1>5. CASE o = [saved EXCEPT !.ctl = Started(b.ctl), !.intent = TRUE] /\ Exists(b.ctl)
  BY <1>1, <1>2, <1>5, StartedFacts DEF Clean, Results
<1>6. CASE o = [up EXCEPT !.ctl = Wishing(Wishing(b.ctl, TRUE), FALSE),
                          !.startupFailed = TRUE, !.ok = FALSE]
  <2>1. /\ Wishing(b.ctl, TRUE) \in Controllers
        /\ Wishing(b.ctl, TRUE).config = b.ctl.config
        /\ Wishing(b.ctl, TRUE).running = b.ctl.running
    BY <1>1, WishingFacts
  <2>2. /\ Wishing(Wishing(b.ctl, TRUE), FALSE) \in Controllers
        /\ Wishing(Wishing(b.ctl, TRUE), FALSE).config = b.ctl.config
        /\ Wishing(Wishing(b.ctl, TRUE), FALSE).running = b.ctl.running
        /\ Wishing(Wishing(b.ctl, TRUE), FALSE).desired = FALSE
    BY <2>1, WishingFacts
  <2> QED BY <1>1, <1>6, <2>2 DEF Clean, Results
<1>7. CASE /\ \/ o = [saved EXCEPT !.ctl = Stopped(b.ctl), !.intent = FALSE, !.blocked = TRUE]
              \/ o = [saved EXCEPT !.ctl = Stopped(b.ctl), !.intent = FALSE, !.ok = FALSE]
           /\ Exists(b.ctl)
  BY <1>1, <1>2, <1>7, StoppedFacts DEF Clean, Results
<1>8. CASE o = [up EXCEPT !.ctl = Wishing(b.ctl, FALSE), !.ok = FALSE]
  <2>1. /\ Wishing(b.ctl, FALSE) \in Controllers
        /\ Wishing(b.ctl, FALSE).config = b.ctl.config
        /\ Wishing(b.ctl, FALSE).running = b.ctl.running
        /\ Wishing(b.ctl, FALSE).desired = FALSE
    BY <1>1, WishingFacts
  <2> QED BY <1>1, <1>8, <2>1 DEF Clean, Results
<1>9. CASE ~b.wanted \/ ~Exists(b.ctl)
  BY <1>4, <1>9 DEF Outcomes
<1>10. CASE b.wanted /\ Exists(b.ctl) /\ b.enabled
  <2>1. \/ o = [saved EXCEPT !.ctl = Started(b.ctl), !.intent = TRUE]
        \/ o = [up EXCEPT !.ctl = Wishing(Wishing(b.ctl, TRUE), FALSE),
                          !.startupFailed = TRUE, !.ok = FALSE]
    BY <1>10 DEF Outcomes
  <2> QED BY <1>5, <1>6, <1>10, <2>1
<1>11. CASE b.wanted /\ Exists(b.ctl) /\ ~b.enabled
  <2>1. \/ o = [saved EXCEPT !.ctl = Stopped(b.ctl), !.intent = FALSE, !.blocked = TRUE]
        \/ o = [saved EXCEPT !.ctl = Stopped(b.ctl), !.intent = FALSE, !.ok = FALSE]
        \/ o = [up EXCEPT !.ctl = Wishing(b.ctl, FALSE), !.ok = FALSE]
    BY <1>11 DEF Outcomes
  <2> QED BY <1>7, <1>8, <1>11, <2>1
<1> QED BY <1>3, <1>9, <1>10, <1>11

-----------------------------------------------------------------------------
(* The locks.                                                              *)

LEMMA PlaceNames ==
  /\ Changing = {"apply", "swap", "reapply", "reswap"}
  /\ Writing = {"apply", "swap", "reapply", "reswap", "start", "stop", "stopping", "installing"}
  /\ Closing = {"swap", "reswap", "stopping"}
  /\ Building = {"swap", "reswap", "stopping", "reconnecting"}
  /\ Places = {"idle", "apply", "swap", "reapply", "reswap", "start", "stop", "stopping",
               "reconnecting", "install", "installing"}
BY DEF Changing, Writing, Closing, Building, Places

\* Who is inside a lock holds it.
LEMMA Holders ==
  ASSUME LocksOrderly, NEW c \in Clients
  PROVE  /\ pc[c] \in Writing => writer = c /\ WriterAt = pc[c]
         /\ pc[c] \notin Writing => writer # c
         /\ pc[c] \in Building => builder = c /\ BuilderAt = pc[c]
         /\ pc[c] \notin Building => builder # c
         /\ writer = NoClient => WriterAt = "idle"
         /\ builder = NoClient => BuilderAt = "idle"
BY ControlApiAssumption DEF LocksOrderly, WriterAt, BuilderAt

\* A request that goes to a place and takes or leaves the locks it has to.
LEMMA Moves ==
  ASSUME LocksOrderly, pc \in [Clients -> Places],
         NEW c \in Clients, NEW place \in Places, Goto(c, place),
         place \in Writing <=> writer' = c,
         place \in Building <=> builder' = c,
         writer' = writer \/ (writer' \in {c, NoClient} /\ writer \in {c, NoClient}),
         builder' = builder \/ (builder' \in {c, NoClient} /\ builder \in {c, NoClient})
  PROVE  /\ LocksOrderly'
         /\ writer' = c => WriterAt' = place
         /\ writer' = NoClient => WriterAt' = "idle"
         /\ writer' = writer /\ writer # c => WriterAt' = WriterAt
         /\ builder' = c => BuilderAt' = place
         /\ builder' = NoClient => BuilderAt' = "idle"
         /\ builder' = builder /\ builder # c => BuilderAt' = BuilderAt
<1>1. \A d \in Clients : pc'[d] = IF d = c THEN place ELSE pc[d]
  BY DEF Goto
<1>2. c # NoClient
  BY ControlApiAssumption
<1>3. LocksOrderly'
  BY <1>1, <1>2, ControlApiAssumption DEF LocksOrderly
<1>4. /\ writer' = c => WriterAt' = place
      /\ writer' = NoClient => WriterAt' = "idle"
      /\ builder' = c => BuilderAt' = place
      /\ builder' = NoClient => BuilderAt' = "idle"
  BY <1>1, <1>2 DEF WriterAt, BuilderAt
<1>5. ASSUME writer' = writer, writer # c
      PROVE  WriterAt' = WriterAt
  BY <1>1, <1>5 DEF WriterAt, Goto
<1>6. ASSUME builder' = builder, builder # c
      PROVE  BuilderAt' = BuilderAt
  BY <1>1, <1>6 DEF BuilderAt, Goto
<1> QED BY <1>3, <1>4, <1>5, <1>6

LEMMA StaysPut ==
  ASSUME LocksOrderly, UNCHANGED <<pc, writer, builder>>
  PROVE  LocksOrderly' /\ WriterAt' = WriterAt /\ BuilderAt' = BuilderAt
BY DEF LocksOrderly, WriterAt, BuilderAt

-----------------------------------------------------------------------------
(* Types.                                                                  *)

DatabaseType ==
  /\ stored \in Database /\ accepted \in Database
  /\ revision \in [Resources -> Revisions]
  /\ intent \in BOOLEAN

FailureType ==
  /\ rolledBack \in BOOLEAN /\ unrestored \in BOOLEAN
  /\ faults \in Nat

RelayType ==
  /\ ctl \in Controllers
  /\ build \in Builds
  /\ output \in {"off", "on", "closing"} /\ swept \in BOOLEAN
  /\ startupFailed \in BOOLEAN /\ blocked \in BOOLEAN

RequestType ==
  /\ builder \in Clients \cup {NoClient}
  /\ writer \in Clients \cup {NoClient}
  /\ pc \in [Clients -> Places]
  /\ pending \in BOOLEAN

Entries == Rooms \cup {"on", "off", Unset}

ClientType ==
  /\ seen \in [Clients -> [Resources -> [value : Entries, revision : Revisions]]]
  /\ undo \in [resource : Resources, value : Entries, revision : Revisions, intent : BOOLEAN,
                adopted : BOOLEAN]

LEMMA TypeParts ==
  TypeOK <=> DatabaseType /\ FailureType /\ RelayType /\ RequestType /\ ClientType
BY DEF TypeOK, DatabaseType, FailureType, RelayType, RequestType, ClientType, Builds, Entries

LEMMA NextTypeParts ==
  DatabaseType' /\ FailureType' /\ RelayType' /\ RequestType' /\ ClientType' => TypeOK'
BY DEF TypeOK, DatabaseType, FailureType, RelayType, RequestType, ClientType, Builds, Entries

LEMMA FailType ==
  ASSUME FailureType, NEW n \in Nat, Fail(n)
  PROVE  faults' \in Nat
BY DEF Fail, FailureType

LEMMA LoadType ==
  ASSUME TypeOK, NEW was \in BOOLEAN
  PROVE  Load(was) \in Builds /\ Load(was).ctl = Built(stored, intent)
<1>1. stored \in Database /\ intent \in BOOLEAN
  BY TypeParts DEF DatabaseType
<1>2. Built(stored, intent) \in Controllers
  BY <1>1, BuiltFacts
<1>3. Built(stored, intent).desired \in BOOLEAN
  BY <1>2 DEF Controllers
<1> QED BY <1>2, <1>3 DEF Load, Builds

LEMMA NotLoadedType ==
  ASSUME TypeOK
  PROVE  NotLoaded \in Results
BY TypeParts DEF DatabaseType, RelayType, NotLoaded, Results

LEMMA BareTypes ==
  /\ NoController \in Controllers
  /\ NoBuild \in Builds
  /\ NoUndo \in [resource : Resources, value : Entries, revision : Revisions, intent : BOOLEAN,
                  adopted : BOOLEAN]
<1>1. NoController \in Controllers
  BY NothingIsBare, BuiltFacts DEF NoController
<1>2. NoUndo \in [resource : Resources, value : Entries, revision : Revisions, intent : BOOLEAN,
                  adopted : BOOLEAN]
  BY ControlApiAssumption DEF NoUndo, Resources, Entries, Revisions
<1> QED BY <1>1, <1>2 DEF NoBuild, Builds

\* What apply_configuration() answers keeps the types.
LEMMA AnswerType ==
  ASSUME TypeOK, NEW c \in Clients, NEW o \in Results, Answer(c, o)
  PROVE  /\ DatabaseType' /\ FailureType'
         /\ ctl' \in Controllers /\ startupFailed' \in BOOLEAN /\ blocked' \in BOOLEAN
         /\ builder' \in Clients \cup {NoClient}
         /\ writer' \in Clients \cup {NoClient}
         /\ pc' \in [Clients -> Places]
         /\ ClientType'
<1>1. DatabaseType /\ FailureType /\ RequestType /\ ClientType
  BY TypeParts
<1>2. /\ o.ctl \in Controllers /\ o.stored \in Database /\ o.intent \in BOOLEAN
      /\ o.startupFailed \in BOOLEAN /\ o.blocked \in BOOLEAN /\ o.adopted \in BOOLEAN
  BY DEF Results
<1>3. /\ undo.resource \in Resources /\ undo.value \in Entries
      /\ undo.revision \in Revisions /\ undo.intent \in BOOLEAN /\ undo.adopted \in BOOLEAN
  BY <1>1 DEF ClientType
<1>4. ctl' \in Controllers /\ startupFailed' \in BOOLEAN /\ blocked' \in BOOLEAN
  BY <1>2 DEF Answer, Adopt
<1>5. builder' \in Clients \cup {NoClient}
  BY DEF Answer
<1>6. CASE Accept(c, o)
  <2> USE <1>6 DEF Accept
  <2>1. o.stored[undo.resource] \in Entries /\ revision[undo.resource] \in Revisions
    BY <1>1, <1>2, <1>3 DEF Database, Entries, DatabaseType
  <2>2. seen' \in [Clients -> [Resources -> [value : Entries, revision : Revisions]]]
    BY <1>1, <1>3, <2>1 DEF ClientType
  <2>3. ClientType'
    BY <2>2, BareTypes DEF ClientType, PutOver
  <2>4. FailureType'
    BY <1>1 DEF FailureType
  <2> QED
    BY <1>1, <1>2, <1>4, <1>5, <2>3, <2>4, PlaceNames
       DEF DatabaseType, RequestType, PutOver, Goto
<1>7. CASE TakeBack(c, o)
  <2>1. [o.stored EXCEPT ![undo.resource] = undo.value] \in Database
    BY <1>2, <1>3 DEF Database, Entries
  <2>2. [revision EXCEPT ![undo.resource] = undo.revision] \in [Resources -> Revisions]
    BY <1>1, <1>3 DEF DatabaseType
  <2>3. IntentRestored(o) \in BOOLEAN
    BY <1>2, <1>3 DEF IntentRestored
  <2>4. DatabaseType'
    BY <1>1, <1>2, <1>7, <2>1, <2>2, <2>3 DEF TakeBack, DatabaseType, clientVars
  <2>5. faults' \in Nat
    <3>1. Fail(1) \/ Fail(2)
      BY <1>7 DEF TakeBack
    <3> QED BY <1>1, <3>1, FailType
  <2>6. rolledBack' \in BOOLEAN /\ unrestored' \in BOOLEAN
    BY <1>1, <1>2, <1>7 DEF TakeBack, FailureType
  <2>7. PutOver(c) \/ Reapply(c, o)
    BY <1>7 DEF TakeBack
  <2>8. ClientType'
    <3>1. undo' = NoUndo \/ undo' = [undo EXCEPT !.adopted = o.adopted]
      BY <2>7 DEF PutOver, Reapply
    <3>2. seen' = seen
      BY <1>7 DEF TakeBack, clientVars
    <3> QED BY <1>1, <1>2, <3>1, <3>2, BareTypes DEF ClientType
  <2>9. writer' \in Clients \cup {NoClient} /\ pc' \in [Clients -> Places]
    BY <1>1, <2>7, PlaceNames DEF RequestType, PutOver, Reapply, Goto
  <2> QED BY <1>4, <1>5, <2>4, <2>5, <2>6, <2>8, <2>9 DEF FailureType
<1>8. CASE TakenBack(c, o)
  <2> USE <1>8 DEF TakenBack
  <2>1. ClientType'
    BY <1>1, BareTypes DEF ClientType, clientVars, PutOver
  <2>2. faults' \in Nat
    <3>1. Fail(0) \/ Fail(1)
      OBVIOUS
    <3> QED BY <1>1, <3>1, FailType
  <2>3. FailureType'
    BY <1>1, <1>2, <1>3, <2>2 DEF FailureType
  <2> QED
    BY <1>1, <1>2, <1>4, <1>5, <2>1, <2>3, PlaceNames
       DEF DatabaseType, RequestType, clientVars, PutOver, Goto
<1> QED BY <1>6, <1>7, <1>8 DEF Answer

LEMMA TypeOfProceed ==
  ASSUME Orderly, NEW c \in Clients, Proceed(c)
  PROVE  TypeOK'
<1>1. DatabaseType /\ FailureType /\ RelayType /\ RequestType /\ ClientType
  BY TypeParts DEF Orderly
<1>2. ASSUME NEW o \in Results, Answer(c, o), UNCHANGED <<output, pending>>,
             build' \in Builds, swept' \in BOOLEAN
      PROVE  TypeOK'
  <2>1. pending' \in BOOLEAN /\ output' \in {"off", "on", "closing"}
    BY <1>1, <1>2 DEF RelayType, RequestType
  <2> QED
    BY <1>2, <2>1, AnswerType, NextTypeParts DEF Orderly, RelayType, RequestType
<1>3. CASE Apply(c)
  <2>1. UNCHANGED <<output, swept, pending>>
    BY <1>3 DEF Apply
  <2>2. CASE Answer(c, NotLoaded) /\ UNCHANGED build
    BY <1>1, <1>2, <2>1, <2>2, NotLoadedType DEF Orderly, RelayType
  <2>3. CASE (\E o \in Outcomes(Load(FALSE)) : Answer(c, o)) /\ UNCHANGED build
    <3>1. PICK o \in Outcomes(Load(FALSE)) : Answer(c, o)
      BY <2>3
    <3>2. o \in Results
      BY <1>1, LoadType, OutcomesAreClean DEF Orderly, DatabaseType, Clean
    <3> QED BY <1>1, <1>2, <2>1, <2>3, <3>1, <3>2 DEF RelayType
  <2>4. CASE /\ builder' = c
             /\ build' = Load(ctl.desired)
             /\ ctl' = Wishing(ctl, FALSE)
             /\ Goto(c, IF pc[c] = "apply" THEN "swap" ELSE "reswap")
             /\ UNCHANGED <<dbVars, startupFailed, blocked, writer, undo, clientVars,
                            failureVars>>
    <3>1. ctl.desired \in BOOLEAN
      BY <1>1 DEF RelayType, Controllers
    <3>2. ctl' \in Controllers /\ build' \in Builds
      BY <1>1, <2>4, <3>1, WishingFacts, LoadType DEF Orderly, RelayType
    <3>3. pc' \in [Clients -> Places]
      BY <1>1, <2>4, PlaceNames DEF RequestType, Goto
    <3> QED
      BY <1>1, <2>1, <2>4, <3>2, <3>3, NextTypeParts
         DEF DatabaseType, FailureType, RelayType, RequestType, ClientType, dbVars, clientVars,
             failureVars
  <2> QED BY <1>3, <2>2, <2>3, <2>4 DEF Apply
<1>4. CASE Swap(c)
  <2>1. PICK o \in Outcomes(build) : Answer(c, o)
    BY <1>4 DEF Swap
  <2>2. pc[c] \in {"swap", "reswap"}
    BY <1>4 DEF Swap
  <2>3. WriterAt \in {"swap", "reswap"}
    BY <2>2, Holders, PlaceNames DEF Orderly
  <2>4. build.ctl = Built(stored, intent)
    BY <2>3 DEF Orderly, ConfigurationOrderly
  <2>5. o \in Results
    BY <1>1, <2>1, <2>4, OutcomesAreClean DEF DatabaseType, RelayType, Clean
  <2>6. build' \in Builds /\ swept' \in BOOLEAN /\ UNCHANGED <<output, pending>>
    BY <1>1, <1>4, BareTypes DEF Swap
  <2> QED BY <1>2, <2>1, <2>5, <2>6
<1>5. CASE StartController(c)
  <2>1. ctl' \in {ctl, Started(ctl), Wishing(ctl, TRUE)}
    BY <1>5 DEF StartController
  <2>2. ctl' \in Controllers
    <3>1. ctl \in Controllers
      BY <1>1 DEF RelayType
    <3>2. Started(ctl) \in Controllers /\ Wishing(ctl, TRUE) \in Controllers
      BY <3>1, StartedFacts, WishingFacts
    <3> QED BY <2>1, <3>1, <3>2
  <2>3. stored' \in {stored, ctl.config} /\ intent' \in BOOLEAN
        /\ startupFailed' \in BOOLEAN /\ blocked' \in BOOLEAN
    BY <1>1, <1>5 DEF StartController, MarksCleared, DatabaseType, RelayType, StartSaves
  <2>4. stored' \in Database
    BY <1>1, <2>3 DEF DatabaseType, RelayType, Controllers
  <2>5. FailureType'
    <3>1. Fail(1) \/ UNCHANGED faults
      BY <1>5 DEF StartController
    <3>2. faults' \in Nat
      BY <1>1, <3>1, FailType DEF FailureType
    <3>3. UNCHANGED <<rolledBack, unrestored>>
      BY <1>5 DEF StartController
    <3> QED BY <1>1, <3>2, <3>3 DEF FailureType
  <2> QED
    BY <1>1, <1>5, <2>2, <2>3, <2>4, <2>5, NextTypeParts, PlaceNames
       DEF StartController, DatabaseType, RelayType, RequestType, ClientType, clientVars, Goto
<1>6. CASE StopController(c)
  <2>1. ctl' \in {ctl, Wishing(ctl, FALSE)} /\ builder' \in {builder, c}
        /\ writer' \in {writer, NoClient}
        /\ startupFailed' \in BOOLEAN /\ blocked' \in BOOLEAN
    BY <1>1, <1>6 DEF StopController, MarksCleared, RelayType
  <2>2. ctl' \in Controllers
    <3>1. ctl \in Controllers
      BY <1>1 DEF RelayType
    <3>2. Wishing(ctl, FALSE) \in Controllers
      BY <3>1, WishingFacts
    <3> QED BY <2>1, <3>1, <3>2
  <2>3. pc' \in [Clients -> Places]
    BY <1>1, <1>6, PlaceNames DEF StopController, RequestType, Goto
  <2> QED
    BY <1>1, <1>6, <2>1, <2>2, <2>3, NextTypeParts
       DEF StopController, DatabaseType, FailureType, RelayType, RequestType, ClientType,
           clientVars, dbVars, failureVars
<1>7. CASE StopSaved(c)
  <2>1. ctl' \in {ctl, Stopped(ctl)} /\ stored' \in {stored, ctl.config} /\ intent' \in BOOLEAN
        /\ startupFailed' \in BOOLEAN /\ blocked' \in BOOLEAN
    BY <1>1, <1>7 DEF StopSaved, MarksCleared, RelayType, DatabaseType
  <2>2. ctl' \in Controllers /\ stored' \in Database
    BY <1>1, <2>1, StoppedFacts DEF RelayType, DatabaseType, Controllers
  <2>3. FailureType'
    BY <1>1, <1>7 DEF StopSaved, FailureType, Fail
  <2> QED
    BY <1>1, <1>7, <2>1, <2>2, <2>3, NextTypeParts, PlaceNames
       DEF StopSaved, DatabaseType, RelayType, RequestType, ClientType, clientVars, Goto
<1>8. CASE Sweep(c)
  <2>1. output' \in {"off", "on", "closing"} /\ swept' \in BOOLEAN
    BY <1>1, <1>8 DEF Sweep, RelayType
  <2> QED
    BY <1>1, <1>8, <2>1, NextTypeParts
       DEF Sweep, DatabaseType, FailureType, RelayType, RequestType, ClientType, dbVars,
           requestVars, clientVars, failureVars
<1> QED BY <1>3, <1>4, <1>5, <1>6, <1>7, <1>8 DEF Proceed

LEMMA TypeOfRequest ==
  ASSUME Orderly, NEW c \in Clients, Request(c)
  PROVE  TypeOK'
<1>1. DatabaseType /\ FailureType /\ RelayType /\ RequestType /\ ClientType
  BY TypeParts DEF Orderly
<1>2. ASSUME NEW r \in Resources, Get(c, r) \/ PutUnchanged(c, r)
      PROVE  TypeOK'
  <2>1. seen' = [seen EXCEPT ![c][r] = [value |-> stored[r], revision |-> revision[r]]]
        /\ UNCHANGED <<dbVars, runtimeVars, requestVars, accepted, pending, failureVars>>
    BY <1>2 DEF Get, PutUnchanged
  <2>2. stored[r] \in Entries /\ revision[r] \in Revisions
    BY <1>1 DEF DatabaseType, Database, Entries
  <2>3. ClientType'
    BY <1>1, <2>1, <2>2 DEF ClientType, requestVars
  <2> QED
    BY <1>1, <2>1, <2>3, NextTypeParts
       DEF DatabaseType, FailureType, RelayType, RequestType, dbVars, runtimeVars, requestVars,
           failureVars
<1>3. ASSUME NEW r \in Resources, NEW value \in Values(r), Put(c, r, value)
      PROVE  TypeOK'
  <2>1. stored[r] \in Entries /\ revision[r] \in Revisions /\ intent \in BOOLEAN
    BY <1>1 DEF DatabaseType, Database, Entries
  <2>2. stored' \in Database
    BY <1>1, <1>3 DEF Put, PutWrites, Values, DatabaseType, Database, Resources
  <2>3. revision' \in [Resources -> Revisions]
    <3>1. revision[r] + 1 \in Revisions
      BY <1>3, <2>1, ControlApiAssumption DEF Put, PutWrites, Revisions
    <3> QED BY <1>1, <1>3, <3>1 DEF Put, PutWrites, DatabaseType
  <2>4. ClientType'
    BY <1>1, <1>3, <2>1 DEF Put, PutWrites, ClientType, clientVars
  <2>5. RequestType'
    BY <1>1, <1>3, PlaceNames DEF Put, PutWrites, RequestType, Goto
  <2> QED
    BY <1>1, <1>3, <2>2, <2>3, <2>4, <2>5, NextTypeParts
       DEF Put, PutWrites, DatabaseType, FailureType, RelayType, runtimeVars, clientVars,
           failureVars
<1>4. CASE \/ RequestStart(c) \/ RequestStop(c) \/ Reconnect(c) \/ RequestInstall(c)
           \/ Install(c) \/ Installed(c)
  <2>1. RequestType'
    BY <1>1, <1>4, PlaceNames
       DEF RequestStart, RequestStop, Reconnect, RequestInstall, Install, Installed,
           RequestType, Goto
  <2>2. UNCHANGED <<dbVars, runtimeVars, build, undo, clientVars, failureVars>>
    BY <1>4 DEF RequestStart, RequestStop, Reconnect, RequestInstall, Install, Installed
  <2> QED
    BY <1>1, <2>1, <2>2, NextTypeParts
       DEF DatabaseType, FailureType, RelayType, ClientType, dbVars, runtimeVars, clientVars,
           failureVars
<1>5. CASE Reconnected(c)
  <2>1. output' \in {"off", "on", "closing"} /\ builder' \in Clients \cup {NoClient}
    BY <1>1, <1>5 DEF Reconnected, RequestType
  <2> QED
    BY <1>1, <1>5, <2>1, NextTypeParts, PlaceNames
       DEF Reconnected, DatabaseType, FailureType, RelayType, RequestType, ClientType, dbVars,
           clientVars, failureVars, Goto
<1> QED BY <1>2, <1>3, <1>4, <1>5 DEF Request

LEMMA TypeOfRest ==
  ASSUME Orderly, Air \/ Fade \/ Cease \/ Restart \/ UNCHANGED vars
  PROVE  TypeOK'
<1>1. DatabaseType /\ FailureType /\ RelayType /\ RequestType /\ ClientType
  BY TypeParts DEF Orderly
<1>2. CASE Air \/ Fade \/ Cease
  <2>1. ctl' \in {ctl, [ctl EXCEPT !.used = TRUE], [ctl EXCEPT !.running = FALSE]}
        /\ output' \in {"off", "on", "closing"}
    BY <1>2 DEF Air, Fade, Cease
  <2>2. ctl' \in Controllers
    BY <1>1, <2>1 DEF RelayType, Controllers
  <2>3. UNCHANGED <<dbVars, swept, startupFailed, blocked, requestVars, clientVars, pending,
                    failureVars>>
    BY <1>2 DEF Air, Fade, Cease
  <2> QED
    BY <1>1, <2>1, <2>2, <2>3, NextTypeParts
       DEF DatabaseType, FailureType, RelayType, RequestType, ClientType, dbVars, requestVars,
           clientVars, failureVars
<1>3. CASE Restart
  <2>1. PICK o \in Outcomes(Load(FALSE)) :
          /\ Adopt(o)
          /\ stored' = o.stored /\ intent' = o.intent /\ accepted' = o.stored
    BY <1>3 DEF Restart
  <2>2. o \in Results
    BY <1>1, LoadType, OutcomesAreClean DEF Orderly, DatabaseType, Clean
  <2>3. ctl' \in Controllers /\ startupFailed' \in BOOLEAN /\ blocked' \in BOOLEAN
        /\ stored' \in Database /\ accepted' \in Database /\ intent' \in BOOLEAN
    BY <2>1, <2>2 DEF Adopt, Results
  <2>4. RequestType' /\ ClientType'
    BY <1>1, <1>3, BareTypes, PlaceNames DEF Restart, RequestType, ClientType
  <2>5. DatabaseType' /\ RelayType'
    BY <1>1, <1>3, <2>3, BareTypes DEF Restart, DatabaseType, RelayType
  <2>6. FailureType'
    <3>1. Fail(0) \/ Fail(1)
      BY <1>3 DEF Restart
    <3>2. faults' \in Nat
      BY <1>1, <3>1, FailType
    <3>3. UNCHANGED rolledBack /\ unrestored' = FALSE
      BY <1>3 DEF Restart
    <3>4. unrestored' \in BOOLEAN
      BY <3>3, BareTypes
    <3> QED BY <1>1, <3>2, <3>3, <3>4 DEF FailureType
  <2> QED BY <2>4, <2>5, <2>6, NextTypeParts
<1>4. CASE UNCHANGED vars
  BY <1>1, <1>4, NextTypeParts
     DEF DatabaseType, FailureType, RelayType, RequestType, ClientType,
         vars, dbVars, runtimeVars, requestVars, clientVars, failureVars
<1> QED BY <1>2, <1>3, <1>4

-----------------------------------------------------------------------------
(* What apply_configuration() leaves behind.                               *)

\* Nothing could be loaded: this happens before anything is taken apart.
Unloaded(o) ==
  o = NotLoaded /\ BuilderAt = "idle" /\ WriterAt \in {"apply", "reapply"}

\* A rollback writes what was there before; whatever comes up agrees with the database.
LEMMA AnswerIsOrderly ==
  ASSUME Orderly, TypeOK', NEW c \in Clients, pc[c] \in Changing,
         builder \in {c, NoClient}, ~swept',
         NEW o \in Results, Answer(c, o), Clean(o) \/ Unloaded(o)
  PROVE  Orderly'
<1>1. stored \in Database /\ accepted \in Database /\ pc \in [Clients -> Places]
      /\ revision \in [Resources -> Revisions] /\ undo.resource \in Resources
      /\ seen \in [Clients -> [Resources -> [value : Entries, revision : Revisions]]]
  BY TypeParts DEF Orderly, DatabaseType, RequestType, ClientType
<1>2. LocksOrderly /\ RelayOrderly /\ ConfigurationOrderly /\ RevisionsOrderly
  BY DEF Orderly
<1>3. writer = c /\ WriterAt = pc[c] /\ c # NoClient
  BY <1>2, Holders, PlaceNames, ControlApiAssumption
<1>4. /\ ctl' = o.ctl /\ startupFailed' = o.startupFailed /\ blocked' = o.blocked
      /\ builder' = NoClient
  BY DEF Answer, Adopt
<1>5. o.stored = stored
  BY DEF Clean, Unloaded, NotLoaded
<1>6. o.ctl.running => o.intent /\ o.ctl.desired /\ ~o.startupFailed /\ ~o.blocked
  <2>1. CASE Clean(o)
    BY <2>1 DEF Clean
  <2>2. CASE Unloaded(o)
    BY <1>2, <2>2 DEF Unloaded, NotLoaded, RelayOrderly, Closing
  <2> QED BY <2>1, <2>2
<1>7. o.ctl.desired /\ ~o.ctl.unsaved => o.ctl.running
  BY <1>2 DEF Clean, Unloaded, NotLoaded, RelayOrderly
<1>8. o.ok => o.ctl.config = Usable(stored)
  BY DEF Clean, Unloaded, NotLoaded
<1>9. ASSUME WriterAt' \in {"idle", "reapply"}, BuilderAt' = "idle", o.ctl.running => intent'
      PROVE  RelayOrderly'
  BY <1>2, <1>4, <1>6, <1>7, <1>9, PlaceNames DEF RelayOrderly
<1>10. ASSUME PutOver(c), o.ctl.running => intent', RevisionsOrderly',
              ~unrestored' => stored' = accepted' /\ ctl'.config = Usable(accepted')
       PROVE  Orderly'
  <2>1. LocksOrderly' /\ WriterAt' = "idle" /\ BuilderAt' = "idle"
    BY <1>1, <1>2, <1>3, <1>4, <1>10, Moves, PlaceNames DEF PutOver
  <2>2. RelayOrderly'
    BY <1>9, <1>10, <2>1
  <2>3. ConfigurationOrderly'
    BY <1>10, <2>1 DEF ConfigurationOrderly
  <2> QED BY <1>10, <2>1, <2>2, <2>3 DEF Orderly
<1>11. CASE o.ok /\ Accept(c, o)
  <2> USE DEF Accept
  <2>1. WriterAt' = "idle" /\ UNCHANGED rolledBack /\ unrestored' = FALSE
    BY <1>1, <1>2, <1>3, <1>4, <1>11, Moves, PlaceNames DEF PutOver
  <2>2. RevisionsOrderly'
    <3> SUFFICES ASSUME ~rolledBack, NEW d \in Clients, NEW r \in Resources
                 PROVE  /\ seen'[d][r].revision <= revision[r]
                        /\ seen'[d][r].revision = revision[r] => seen'[d][r].value = stored[r]
      BY <1>5, <1>11, <2>1 DEF RevisionsOrderly
    <3>1. CASE d = c /\ r = undo.resource
      <4>1. seen'[d][r] = [value |-> stored[r], revision |-> revision[r]]
        BY <1>1, <1>5, <1>11, <3>1
      <4>2. revision[r] <= revision[r]
        BY <1>1 DEF Revisions
      <4> QED BY <4>1, <4>2
    <3>2. CASE ~(d = c /\ r = undo.resource)
      <4>1. seen'[d][r] = seen[d][r]
        BY <1>1, <1>11, <3>2
      <4> QED BY <1>2, <4>1 DEF RevisionsOrderly
    <3> QED BY <3>1, <3>2
  <2> QED BY <1>4, <1>5, <1>6, <1>8, <1>10, <1>11, <2>2
<1>12. CASE pc[c] \in {"reapply", "reswap"} /\ TakenBack(c, o)
  <2> USE DEF TakenBack
  <2>1. UNCHANGED <<seen, accepted, revision, rolledBack>> /\ stored' = stored
    BY <1>5, <1>12 DEF clientVars
  <2>2. ASSUME ~unrestored'
        PROVE  stored = accepted /\ o.ctl.config = Usable(stored)
    <3>1. ~unrestored /\ (undo.adopted => o.adopted)
      BY <1>12, <2>2
    <3>2. stored = accepted
      BY <1>2, <1>3, <1>12, <3>1 DEF ConfigurationOrderly
    <3>3. CASE Clean(o)
      BY <3>2, <3>3 DEF Clean
    <3>4. CASE Unloaded(o)
      BY <1>2, <1>3, <1>12, <3>1, <3>2, <3>4 DEF Unloaded, NotLoaded, ConfigurationOrderly
    <3> QED BY <3>3, <3>4
  <2>3. RevisionsOrderly'
    <3>1. unrestored' => rolledBack
      <4>1. undo.adopted => rolledBack
        BY <1>2, <1>3, <1>12 DEF RevisionsOrderly
      <4> QED BY <1>2, <1>12, <4>1 DEF RevisionsOrderly
    <3>2. WriterAt' = "idle"
      BY <1>1, <1>2, <1>3, <1>4, <1>12, Moves, PlaceNames DEF PutOver
    <3> QED BY <1>2, <2>1, <3>1, <3>2 DEF RevisionsOrderly
  <2> QED BY <1>4, <1>6, <1>10, <1>12, <2>1, <2>2, <2>3
<1>13. CASE pc[c] \in {"apply", "swap"} /\ ~o.ok /\ TakeBack(c, o)
  <2> USE DEF TakeBack
  <2>1. intent = undo.intent
    BY <1>2, <1>3, <1>13 DEF ConfigurationOrderly
  <2>2. RevisionsOrderly' /\ accepted' = accepted
    BY <1>13 DEF RevisionsOrderly, clientVars
  <2>3. o.ctl.running => IntentRestored(o)
    <3>1. CASE Clean(o)
      BY <1>13, <3>1 DEF Clean
    <3>2. CASE Unloaded(o)
      BY <1>2, <2>1, <3>2 DEF Unloaded, NotLoaded, IntentRestored, RelayOrderly
    <3> QED BY <3>1, <3>2
  <2>4. ~unrestored => [o.stored EXCEPT ![undo.resource] = undo.value] = accepted
    BY <1>2, <1>3, <1>5, <1>13 DEF ConfigurationOrderly
  <2>5. ~unrestored /\ ~o.adopted => o.ctl.config = Usable(accepted)
    <3>1. CASE Clean(o)
      BY <3>1 DEF Clean
    <3>2. CASE Unloaded(o)
      BY <1>2, <1>3, <1>13, <3>2 DEF Unloaded, NotLoaded, ConfigurationOrderly
    <3> QED BY <3>1, <3>2
  <2>6. CASE unrestored' = TRUE /\ intent' = o.intent /\ PutOver(c)
    BY <1>6, <1>10, <2>2, <2>6
  <2>7. CASE /\ stored' = [o.stored EXCEPT ![undo.resource] = undo.value]
             /\ intent' = IntentRestored(o)
             /\ unrestored' = (unrestored \/ o.adopted)
             /\ PutOver(c)
    BY <1>4, <1>10, <2>2, <2>3, <2>4, <2>5, <2>7
  <2>8. CASE /\ stored' = [o.stored EXCEPT ![undo.resource] = undo.value]
             /\ intent' = IntentRestored(o)
             /\ Reapply(c, o)
             /\ UNCHANGED unrestored
    <3>1. LocksOrderly' /\ WriterAt' = "reapply" /\ BuilderAt' = "idle"
      BY <1>1, <1>2, <1>3, <1>4, <2>8, Moves, PlaceNames DEF Reapply
    <3>2. RelayOrderly'
      BY <1>9, <2>3, <2>8, <3>1
    <3>3. undo'.adopted = o.adopted
      BY <1>1, <2>8 DEF Reapply
    <3>4. ConfigurationOrderly'
      BY <1>4, <2>2, <2>4, <2>5, <2>8, <3>1, <3>3 DEF ConfigurationOrderly
    <3> QED BY <2>2, <3>1, <3>2, <3>4 DEF Orderly
  <2> QED BY <1>13, <2>6, <2>7, <2>8
<1> QED BY <1>11, <1>12, <1>13 DEF Answer

LEMMA ApplyIsOrderly ==
  ASSUME Orderly, NEW c \in Clients, Apply(c)
  PROVE  Orderly'
<1>1. LocksOrderly /\ RelayOrderly /\ ConfigurationOrderly /\ RevisionsOrderly
      /\ DatabaseType /\ RelayType /\ RequestType
  BY TypeParts DEF Orderly
<1>2. TypeOK'
  BY TypeOfProceed DEF Proceed
<1>3. /\ pc[c] \in {"apply", "reapply"} /\ builder = NoClient
      /\ UNCHANGED <<output, swept, pending>>
  BY DEF Apply
<1>4. /\ writer = c /\ WriterAt = pc[c] /\ BuilderAt = "idle" /\ c # NoClient
      /\ pc[c] \in Changing /\ ~swept /\ ~swept'
  BY <1>1, <1>3, Holders, PlaceNames, ControlApiAssumption DEF RelayOrderly
<1>5. CASE Answer(c, NotLoaded)
  <2>1. Unloaded(NotLoaded)
    BY <1>3, <1>4, <1>5 DEF Unloaded
  <2>2. NotLoaded \in Results
    BY NotLoadedType DEF Orderly
  <2> QED BY <1>2, <1>3, <1>4, <1>5, <2>1, <2>2, AnswerIsOrderly
<1>6. CASE \E o \in Outcomes(Load(FALSE)) : Answer(c, o)
  <2>1. PICK o \in Outcomes(Load(FALSE)) : Answer(c, o)
    BY <1>6
  <2>2. Clean(o)
    BY <1>1, LoadType, OutcomesAreClean DEF Orderly, DatabaseType
  <2>3. o \in Results
    BY <2>2 DEF Clean
  <2> QED BY <1>2, <1>3, <1>4, <2>1, <2>2, <2>3, AnswerIsOrderly
<1>7. CASE /\ builder' = c
           /\ build' = Load(ctl.desired)
           /\ ctl' = Wishing(ctl, FALSE)
           /\ Goto(c, IF pc[c] = "apply" THEN "swap" ELSE "reswap")
           /\ UNCHANGED <<dbVars, startupFailed, blocked, writer, undo, clientVars,
                          failureVars>>
  <2> DEFINE place == IF pc[c] = "apply" THEN "swap" ELSE "reswap"
  <2>1. LocksOrderly' /\ WriterAt' = place /\ BuilderAt' = place
    BY <1>1, <1>3, <1>4, <1>7, Moves, PlaceNames DEF RequestType
  <2>2. ctl \in Controllers /\ ctl.desired \in BOOLEAN
    BY <1>1 DEF RelayType, Controllers
  <2>3. ctl'.config = ctl.config /\ ctl'.running = ctl.running /\ ~ctl'.desired
    BY <1>7, <2>2, WishingFacts
  <2>4. build'.ctl = Built(stored', intent')
    BY <1>7, <2>2, LoadType DEF Orderly, dbVars
  <2>5. RelayOrderly'
    BY <1>1, <1>3, <1>4, <1>7, <2>1, <2>3, PlaceNames DEF RelayOrderly, dbVars
  <2>6. ConfigurationOrderly'
    BY <1>1, <1>3, <1>4, <1>7, <2>1, <2>3, <2>4
       DEF ConfigurationOrderly, dbVars, clientVars, failureVars
  <2>7. RevisionsOrderly'
    BY <1>1, <1>3, <1>4, <1>7, <2>1 DEF RevisionsOrderly, dbVars, clientVars, failureVars
  <2> QED BY <1>2, <2>1, <2>5, <2>6, <2>7 DEF Orderly
<1> QED BY <1>5, <1>6, <1>7 DEF Apply

LEMMA SwapIsOrderly ==
  ASSUME Orderly, NEW c \in Clients, Swap(c)
  PROVE  Orderly'
<1>1. LocksOrderly /\ RelayOrderly /\ ConfigurationOrderly /\ DatabaseType /\ RelayType
  BY TypeParts DEF Orderly
<1>2. TypeOK'
  BY TypeOfProceed DEF Proceed
<1>3. pc[c] \in {"swap", "reswap"} /\ ~swept'
  BY DEF Swap
<1>4. builder = c /\ WriterAt = pc[c] /\ pc[c] \in Changing
  BY <1>1, <1>3, Holders, PlaceNames
<1>5. PICK o \in Outcomes(build) : Answer(c, o)
  BY DEF Swap
<1>6. Clean(o)
  BY <1>1, <1>3, <1>4, OutcomesAreClean DEF ConfigurationOrderly, DatabaseType, RelayType
<1>7. o \in Results
  BY <1>6 DEF Clean
<1> QED BY <1>2, <1>3, <1>4, <1>5, <1>6, <1>7, AnswerIsOrderly

\* The builder is the one that sweeps, and nobody else can bring an output up until it is
\* done: reconnect waits for its lock, and the task of its controller is over.
LEMMA SweepIsOrderly ==
  ASSUME Orderly, NEW c \in Clients, Sweep(c)
  PROVE  Orderly'
<1>1. LocksOrderly /\ RelayOrderly /\ ConfigurationOrderly /\ RevisionsOrderly
  BY DEF Orderly
<1>2. TypeOK'
  BY TypeOfProceed DEF Proceed
<1>3. /\ pc[c] \in Closing /\ ~ctl.running /\ output' # "on"
      /\ UNCHANGED <<stored, revision, intent, ctl, startupFailed, blocked, build, builder,
                     writer, pc, undo, seen, accepted, rolledBack, unrestored>>
  BY DEF Sweep, dbVars, requestVars, clientVars, failureVars
<1>4. LocksOrderly' /\ WriterAt' = WriterAt /\ BuilderAt' = BuilderAt /\ BuilderAt = pc[c]
  BY <1>1, <1>3, StaysPut, Holders, PlaceNames
<1>5. RelayOrderly'
  BY <1>1, <1>3, <1>4, PlaceNames DEF RelayOrderly
<1>6. ConfigurationOrderly' /\ RevisionsOrderly'
  BY <1>1, <1>3, <1>4 DEF ConfigurationOrderly, RevisionsOrderly, Exists
<1> QED BY <1>2, <1>4, <1>5, <1>6 DEF Orderly

-----------------------------------------------------------------------------
(* start and stop.                                                         *)

\* A controller that exists has the configuration that is stored, unless a PUT is under
\* way or could not be undone: what it saves changes nothing in it.
LEMMA SavesWhatIsStored ==
  ASSUME Orderly, Exists(ctl), WriterAt \notin Changing, ~unrestored
  PROVE  ctl.config = stored
<1>1. stored = accepted /\ ctl.config = Usable(accepted) /\ accepted \in Database
  BY PlaceNames, TypeParts DEF Orderly, ConfigurationOrderly, DatabaseType
<1> QED BY <1>1, UsableFacts DEF Exists

LEMMA StartIsOrderly ==
  ASSUME Orderly, NEW c \in Clients, StartController(c)
  PROVE  Orderly'
<1>1. LocksOrderly /\ RelayOrderly /\ ConfigurationOrderly /\ RevisionsOrderly
      /\ DatabaseType /\ RelayType /\ RequestType
  BY TypeParts DEF Orderly
<1>2. TypeOK'
  BY TypeOfProceed DEF Proceed
<1>3. /\ pc[c] = "start" /\ builder = NoClient /\ writer' = NoClient /\ Goto(c, "idle")
      /\ UNCHANGED <<revision, output, swept, builder, clientVars, rolledBack, unrestored>>
  BY DEF StartController
<1>4. writer = c /\ WriterAt = "start" /\ BuilderAt = "idle" /\ c # NoClient /\ ~swept
  BY <1>1, <1>3, Holders, PlaceNames, ControlApiAssumption DEF RelayOrderly
<1>5. LocksOrderly' /\ WriterAt' = "idle" /\ BuilderAt' = "idle"
  BY <1>1, <1>3, <1>4, Moves, PlaceNames DEF RequestType
<1>6. Exists(ctl) /\ ~unrestored => ctl.config = stored
  BY <1>4, SavesWhatIsStored, PlaceNames
<1>7. ctl \in Controllers
  BY <1>1 DEF RelayType
<1>8. ~unrestored => stored' = stored
  BY <1>6 DEF StartController
<1>9. ctl'.config = ctl.config
  <2>1. ctl' \in {ctl, Started(ctl), Wishing(ctl, TRUE)}
    BY DEF StartController
  <2>2. Started(ctl).config = ctl.config /\ Wishing(ctl, TRUE).config = ctl.config
    BY <1>7, StartedFacts, WishingFacts
  <2> QED BY <2>1, <2>2
<1>10. StartSaves <=> ~ctl.running
  <2>1. Wishing(ctl, TRUE).unsaved <=> ctl.unsaved \/ ctl.desired # TRUE
    BY <1>7, WishingFacts
  <2>2. ctl.desired \in BOOLEAN
    BY <1>7 DEF Controllers
  <2> QED BY <1>1, <2>1, <2>2 DEF StartSaves, RelayOrderly
<1>11. RelayOrderly'
  <2>1. CASE ctl.running /\ ctl' = ctl /\ intent' = (intent \/ StartSaves) /\ MarksCleared
    BY <1>1, <1>3, <1>4, <1>5, <2>1, PlaceNames DEF RelayOrderly, MarksCleared
  <2>2. CASE /\ ~ctl.running /\ ctl' = Started(ctl) /\ intent' = (intent \/ StartSaves)
             /\ MarksCleared
    <3>1. ctl'.running /\ ctl'.desired
      BY <1>7, <2>2, StartedFacts
    <3> QED BY <1>1, <1>3, <1>4, <1>5, <1>10, <2>2, <3>1, PlaceNames
            DEF RelayOrderly, MarksCleared
  <2>3. CASE /\ StartSaves /\ ctl' = Wishing(ctl, TRUE)
             /\ UNCHANGED <<intent, startupFailed, blocked>>
    <3>1. ~ctl'.running
      BY <1>7, <1>10, <2>3, WishingFacts
    <3>2. ctl'.unsaved
      BY <2>3 DEF StartSaves
    <3> QED BY <1>1, <1>3, <1>4, <1>5, <2>3, <3>1, <3>2, PlaceNames DEF RelayOrderly
  <2>4. CASE UNCHANGED <<intent, ctl, startupFailed, blocked>>
    BY <1>1, <1>3, <1>4, <1>5, <2>4, PlaceNames DEF RelayOrderly
  <2> QED BY <2>1, <2>2, <2>3, <2>4 DEF StartController
<1>12. ConfigurationOrderly'
  BY <1>1, <1>3, <1>4, <1>5, <1>8, <1>9 DEF ConfigurationOrderly, clientVars
<1>13. RevisionsOrderly'
  BY <1>1, <1>3, <1>5, <1>8 DEF RevisionsOrderly, clientVars
<1> QED BY <1>2, <1>5, <1>11, <1>12, <1>13 DEF Orderly

LEMMA StopIsOrderly ==
  ASSUME Orderly, NEW c \in Clients, StopController(c)
  PROVE  Orderly'
<1>1. LocksOrderly /\ RelayOrderly /\ ConfigurationOrderly /\ RevisionsOrderly
      /\ RelayType /\ RequestType
  BY TypeParts DEF Orderly
<1>2. TypeOK'
  BY TypeOfProceed DEF Proceed
<1>3. /\ pc[c] = "stop" /\ builder = NoClient
      /\ UNCHANGED <<dbVars, output, swept, build, undo, clientVars, failureVars>>
  BY DEF StopController
<1>4. writer = c /\ WriterAt = "stop" /\ BuilderAt = "idle" /\ c # NoClient /\ ~swept
  BY <1>1, <1>3, Holders, PlaceNames, ControlApiAssumption DEF RelayOrderly
<1>5. WriterAt' \notin {"reapply", "reswap"} => RevisionsOrderly'
  BY <1>1, <1>3 DEF RevisionsOrderly, dbVars, clientVars, failureVars
<1>6. CASE /\ MarksCleared
           /\ writer' = NoClient
           /\ Goto(c, "idle")
           /\ UNCHANGED <<ctl, builder>>
  <2>1. LocksOrderly' /\ WriterAt' = "idle" /\ BuilderAt' = "idle"
    BY <1>1, <1>3, <1>4, <1>6, Moves, PlaceNames DEF RequestType
  <2>2. RelayOrderly'
    BY <1>1, <1>3, <1>4, <1>6, <2>1, PlaceNames DEF RelayOrderly, MarksCleared, dbVars
  <2>3. ConfigurationOrderly'
    BY <1>1, <1>3, <1>4, <1>6, <2>1 DEF ConfigurationOrderly, dbVars, clientVars, failureVars
  <2> QED BY <1>2, <1>5, <2>1, <2>2, <2>3 DEF Orderly
<1>7. CASE /\ Exists(ctl)
           /\ ctl' = Wishing(ctl, FALSE)
           /\ builder' = c
           /\ Goto(c, "stopping")
           /\ UNCHANGED <<startupFailed, blocked, writer>>
  <2>1. LocksOrderly' /\ WriterAt' = "stopping" /\ BuilderAt' = "stopping"
    BY <1>1, <1>3, <1>4, <1>7, Moves, PlaceNames DEF RequestType
  <2>2. ctl'.config = ctl.config /\ ctl'.running = ctl.running /\ ~ctl'.desired
    <3>1. ctl \in Controllers
      BY <1>1 DEF RelayType
    <3> QED BY <1>7, <3>1, WishingFacts
  <2>3. RelayOrderly'
    BY <1>1, <1>3, <1>4, <1>7, <2>1, <2>2, PlaceNames DEF RelayOrderly, dbVars
  <2>4. ConfigurationOrderly'
    BY <1>1, <1>3, <1>4, <1>7, <2>1, <2>2
       DEF ConfigurationOrderly, Exists, dbVars, clientVars, failureVars
  <2> QED BY <1>2, <1>5, <2>1, <2>3, <2>4 DEF Orderly
<1> QED BY <1>6, <1>7 DEF StopController

LEMMA StopSavedIsOrderly ==
  ASSUME Orderly, NEW c \in Clients, StopSaved(c)
  PROVE  Orderly'
<1>1. LocksOrderly /\ RelayOrderly /\ ConfigurationOrderly /\ RevisionsOrderly
      /\ RelayType /\ RequestType
  BY TypeParts DEF Orderly
<1>2. TypeOK'
  BY TypeOfProceed DEF Proceed
<1>3. /\ pc[c] = "stopping" /\ ~ctl.running /\ ~swept'
      /\ builder' = NoClient /\ writer' = NoClient /\ Goto(c, "idle")
      /\ UNCHANGED <<revision, output, clientVars, rolledBack, unrestored>>
  BY <1>1 DEF StopSaved, Swept, RelayOrderly
<1>4. /\ writer = c /\ WriterAt = "stopping" /\ builder = c /\ BuilderAt = "stopping"
      /\ c # NoClient
  BY <1>1, <1>3, Holders, PlaceNames, ControlApiAssumption
<1>5. LocksOrderly' /\ WriterAt' = "idle" /\ BuilderAt' = "idle"
  BY <1>1, <1>3, <1>4, Moves, PlaceNames DEF RequestType
<1>6. ~unrestored => ctl.config = stored
  BY <1>1, <1>4, SavesWhatIsStored, PlaceNames DEF ConfigurationOrderly
<1>7. ~unrestored => stored' = stored
  BY <1>6 DEF StopSaved
<1>8. ctl'.config = ctl.config /\ ~ctl'.running /\ ~ctl'.desired
  <2>1. ctl \in Controllers /\ ~ctl.desired
    BY <1>1, <1>4, PlaceNames DEF RelayType, RelayOrderly
  <2>2. ctl' = ctl \/ ctl' = Stopped(ctl)
    BY DEF StopSaved
  <2> QED BY <1>3, <2>1, <2>2, StoppedFacts
<1>9. RelayOrderly'
  BY <1>1, <1>3, <1>5, <1>8, PlaceNames DEF RelayOrderly
<1>10. ConfigurationOrderly'
  BY <1>1, <1>3, <1>4, <1>5, <1>7, <1>8 DEF ConfigurationOrderly, clientVars
<1>11. RevisionsOrderly'
  BY <1>1, <1>3, <1>5, <1>7 DEF RevisionsOrderly, clientVars
<1> QED BY <1>2, <1>5, <1>9, <1>10, <1>11 DEF Orderly

-----------------------------------------------------------------------------
(* The other requests.                                                     *)

\* A request that reads its resource knows what is stored.
LEMMA ReadIsOrderly ==
  ASSUME Orderly, NEW c \in Clients, NEW r \in Resources, Get(c, r) \/ PutUnchanged(c, r)
  PROVE  Orderly'
<1>1. LocksOrderly /\ RelayOrderly /\ ConfigurationOrderly /\ RevisionsOrderly
      /\ DatabaseType /\ ClientType
  BY TypeParts DEF Orderly
<1>2. TypeOK'
  BY TypeOfRequest DEF Request
<1>3. /\ seen' = [seen EXCEPT ![c][r] = [value |-> stored[r], revision |-> revision[r]]]
      /\ UNCHANGED <<dbVars, runtimeVars, requestVars, accepted, failureVars>>
  BY DEF Get, PutUnchanged
<1>4. UNCHANGED <<stored, revision, intent, ctl, output, swept, startupFailed, blocked, build,
                  builder, writer, pc, undo, accepted, rolledBack, unrestored>>
  BY <1>3 DEF dbVars, runtimeVars, requestVars, failureVars
<1>5. LocksOrderly' /\ WriterAt' = WriterAt /\ BuilderAt' = BuilderAt
  BY <1>1, <1>4, StaysPut
<1>6. RelayOrderly' /\ ConfigurationOrderly'
  BY <1>1, <1>4, <1>5 DEF RelayOrderly, ConfigurationOrderly
<1>7. RevisionsOrderly'
  <2> SUFFICES ASSUME ~rolledBack, NEW d \in Clients, NEW q \in Resources
               PROVE  /\ seen'[d][q].revision <= revision[q]
                      /\ seen'[d][q].revision = revision[q] => seen'[d][q].value = stored[q]
    BY <1>1, <1>4, <1>5 DEF RevisionsOrderly
  <2>1. CASE d = c /\ q = r
    <3>1. seen'[d][q] = [value |-> stored[q], revision |-> revision[q]]
      BY <1>1, <1>3, <2>1 DEF ClientType
    <3>2. revision[q] <= revision[q]
      BY <1>1 DEF DatabaseType, Revisions
    <3> QED BY <3>1, <3>2
  <2>2. CASE ~(d = c /\ q = r)
    <3>1. seen'[d][q] = seen[d][q]
      BY <1>1, <1>3, <2>2 DEF ClientType
    <3> QED BY <1>1, <3>1 DEF RevisionsOrderly
  <2> QED BY <2>1, <2>2
<1> QED BY <1>2, <1>5, <1>6, <1>7 DEF Orderly

LEMMA PutIsOrderly ==
  ASSUME Orderly, NEW c \in Clients, NEW r \in Resources, NEW value \in Values(r),
         Put(c, r, value)
  PROVE  Orderly'
<1>1. LocksOrderly /\ RelayOrderly /\ ConfigurationOrderly /\ RevisionsOrderly
      /\ DatabaseType /\ RequestType /\ ClientType
  BY TypeParts DEF Orderly
<1>2. TypeOK'
  BY TypeOfRequest DEF Request
<1>3. /\ pc[c] = "idle" /\ writer = NoClient /\ writer' = c /\ Goto(c, "apply")
      /\ undo' = [resource |-> r, value |-> stored[r], revision |-> revision[r],
                  intent |-> intent, adopted |-> FALSE]
      /\ stored' = [stored EXCEPT ![r] = value]
      /\ revision' = [revision EXCEPT ![r] = @ + 1]
      /\ UNCHANGED <<intent, ctl, output, swept, startupFailed, blocked, build, builder, seen,
                     accepted, rolledBack, unrestored>>
  BY DEF Put, PutWrites, runtimeVars, clientVars, failureVars
<1>4. WriterAt = "idle" /\ builder # c /\ c # NoClient
  BY <1>1, <1>3, Holders, PlaceNames, ControlApiAssumption
<1>5. LocksOrderly' /\ WriterAt' = "apply" /\ BuilderAt' = BuilderAt
  BY <1>1, <1>3, <1>4, Moves, PlaceNames DEF RequestType
<1>6. RelayOrderly'
  BY <1>1, <1>3, <1>5 DEF RelayOrderly
<1>7. ConfigurationOrderly'
  <2>1. ~unrestored => stored = accepted /\ ctl.config = Usable(accepted)
    BY <1>1, <1>4 DEF ConfigurationOrderly
  <2>2. ~unrestored => accepted = [stored' EXCEPT ![undo'.resource] = undo'.value]
    BY <1>1, <1>3, <2>1 DEF DatabaseType, Database
  <2> QED BY <1>3, <1>5, <2>1, <2>2 DEF ConfigurationOrderly
<1>8. RevisionsOrderly'
  <2> SUFFICES ASSUME ~rolledBack, NEW d \in Clients, NEW q \in Resources
               PROVE  /\ seen[d][q].revision <= revision'[q]
                      /\ seen[d][q].revision = revision'[q] => seen[d][q].value = stored'[q]
    BY <1>1, <1>3, <1>5 DEF RevisionsOrderly
  <2>1. /\ seen[d][q].revision <= revision[q]
        /\ seen[d][q].revision = revision[q] => seen[d][q].value = stored[q]
    BY <1>1 DEF RevisionsOrderly
  <2>2. revision[q] \in Nat /\ seen[d][q].revision \in Nat
    BY <1>1, ControlApiAssumption DEF DatabaseType, ClientType, Revisions
  <2>3. CASE q = r
    <3>1. revision'[q] = revision[q] + 1
      BY <1>1, <1>3, <2>3 DEF DatabaseType
    <3> QED BY <2>1, <2>2, <3>1
  <2>4. CASE q # r
    BY <1>1, <1>3, <2>1, <2>4 DEF DatabaseType, Database
  <2> QED BY <2>3, <2>4
<1> QED BY <1>2, <1>5, <1>6, <1>7, <1>8 DEF Orderly

\* Who shuts a controller down holds the write lock.
LEMMA ClosingIsWriting ==
  ASSUME LocksOrderly, RequestType, writer = NoClient
  PROVE  BuilderAt \notin Closing
BY ControlApiAssumption, PlaceNames DEF LocksOrderly, RequestType, BuilderAt

\* A request that only moves to another place, if what is said of its new place holds.
LEMMA MovedIsOrderly ==
  ASSUME Orderly, TypeOK', LocksOrderly',
         UNCHANGED <<dbVars, ctl, swept, startupFailed, blocked, build, clientVars, failureVars>>,
         output' = output \/ ~swept,
         WriterAt' = WriterAt \/ /\ WriterAt \notin {"apply", "swap", "reapply", "reswap"}
                                 /\ WriterAt' \in {"idle", "start", "stop", "installing"},
         undo' = undo,
         BuilderAt' = BuilderAt \/ {BuilderAt, BuilderAt'} \subseteq {"idle", "reconnecting"},
         WriterAt' = "installing" => ~ctl.running
  PROVE  Orderly'
<1>1. RelayOrderly /\ ConfigurationOrderly /\ RevisionsOrderly
  BY DEF Orderly
<1>2. UNCHANGED <<stored, revision, intent, ctl, swept, startupFailed, blocked, build, seen,
                  accepted, rolledBack, unrestored>>
  BY DEF dbVars, clientVars, failureVars
<1>3. RelayOrderly'
  BY <1>1, <1>2, PlaceNames DEF RelayOrderly
<1>4. ConfigurationOrderly'
  <2>1. CASE WriterAt' = WriterAt
    BY <1>1, <1>2, <2>1 DEF ConfigurationOrderly, Exists
  <2>2. CASE /\ WriterAt \notin {"apply", "swap", "reapply", "reswap"}
             /\ WriterAt' \in {"idle", "start", "stop", "installing"}
    BY <1>1, <1>2, <2>2 DEF ConfigurationOrderly, Exists
  <2> QED BY <2>1, <2>2
<1>5. RevisionsOrderly'
  <2>1. WriterAt' \in {"reapply", "reswap"} => WriterAt' = WriterAt
    OBVIOUS
  <2> QED BY <1>1, <1>2, <2>1 DEF RevisionsOrderly
<1> QED BY <1>3, <1>4, <1>5 DEF Orderly

LEMMA OtherRequestIsOrderly ==
  ASSUME Orderly, NEW c \in Clients,
         \/ RequestStart(c) \/ RequestStop(c) \/ Reconnect(c) \/ Reconnected(c)
         \/ RequestInstall(c) \/ Install(c) \/ Installed(c)
  PROVE  Orderly'
<1>1. LocksOrderly /\ RelayOrderly /\ ConfigurationOrderly /\ DatabaseType /\ RequestType
  BY TypeParts DEF Orderly
<1>2. TypeOK'
  BY TypeOfRequest DEF Request
<1>3. c # NoClient
  BY ControlApiAssumption
<1>4. /\ UNCHANGED <<dbVars, ctl, swept, startupFailed, blocked, build, clientVars, failureVars,
                    undo>>
      /\ output' = output \/ Reconnected(c)
  BY DEF RequestStart, RequestStop, Reconnect, Reconnected, RequestInstall, Install, Installed,
         runtimeVars
<1>5. CASE RequestStart(c)
  <2>1. /\ pc[c] = "idle" /\ writer = NoClient /\ writer' = c /\ Goto(c, "start")
        /\ builder' = builder
    BY <1>5 DEF RequestStart
  <2>2. builder # c /\ WriterAt = "idle"
    BY <1>1, <2>1, Holders, PlaceNames
  <2>3. LocksOrderly' /\ WriterAt' = "start" /\ BuilderAt' = BuilderAt
    BY <1>1, <1>3, <2>1, <2>2, Moves, PlaceNames DEF RequestType
  <2>4. output' = output
    BY <1>5 DEF RequestStart, runtimeVars
  <2> QED BY <1>2, <1>4, <2>2, <2>3, <2>4, MovedIsOrderly
<1>6. CASE RequestStop(c)
  <2>1. /\ pc[c] = "idle" /\ writer = NoClient /\ writer' = c /\ Goto(c, "stop")
        /\ builder' = builder
    BY <1>6 DEF RequestStop
  <2>2. builder # c /\ WriterAt = "idle"
    BY <1>1, <2>1, Holders, PlaceNames
  <2>3. LocksOrderly' /\ WriterAt' = "stop" /\ BuilderAt' = BuilderAt
    BY <1>1, <1>3, <2>1, <2>2, Moves, PlaceNames DEF RequestType
  <2>4. output' = output
    BY <1>6 DEF RequestStop, runtimeVars
  <2> QED BY <1>2, <1>4, <2>2, <2>3, <2>4, MovedIsOrderly
<1>7. CASE Reconnect(c)
  <2>1. /\ pc[c] = "idle" /\ builder = NoClient /\ builder' = c /\ Goto(c, "reconnecting")
        /\ writer' = writer
    BY <1>7 DEF Reconnect
  <2>2. writer # c /\ BuilderAt = "idle"
    BY <1>1, <2>1, Holders, PlaceNames
  <2>3. LocksOrderly' /\ WriterAt' = WriterAt /\ BuilderAt' = "reconnecting"
    BY <1>1, <1>3, <2>1, <2>2, Moves, PlaceNames DEF RequestType
  <2>4. output' = output
    BY <1>7 DEF Reconnect, runtimeVars
  <2> QED BY <1>1, <1>2, <1>4, <2>2, <2>3, <2>4, MovedIsOrderly DEF RelayOrderly
<1>8. CASE Reconnected(c)
  <2>0. pc[c] = "reconnecting" /\ Goto(c, "idle") /\ writer' = writer
    BY <1>8 DEF Reconnected
  <2>1. writer # c /\ builder = c /\ BuilderAt = "reconnecting"
    BY <1>1, <2>0, Holders, PlaceNames
  <2>2. builder' = NoClient
    BY <1>8, <2>1 DEF Reconnected
  <2>3. LocksOrderly' /\ WriterAt' = WriterAt /\ BuilderAt' = "idle"
    BY <1>1, <1>3, <2>0, <2>1, <2>2, Moves, PlaceNames DEF RequestType
  <2>4. ~swept
    BY <1>1, <2>1, PlaceNames DEF RelayOrderly
  <2> QED BY <1>1, <1>2, <1>4, <2>1, <2>3, <2>4, MovedIsOrderly DEF RelayOrderly
<1>9. ASSUME pc[c] \in {"idle", "install"}, NEW place \in {"idle", "install"}, Goto(c, place),
             UNCHANGED <<writer, builder, output>>
      PROVE  Orderly'
  <2>1. writer # c /\ builder # c
    BY <1>1, <1>9, Holders, PlaceNames
  <2>2. LocksOrderly' /\ WriterAt' = WriterAt /\ BuilderAt' = BuilderAt
    BY <1>1, <1>3, <1>9, <2>1, Moves, PlaceNames DEF RequestType
  <2> QED BY <1>1, <1>2, <1>4, <1>9, <2>2, MovedIsOrderly DEF RelayOrderly
<1>10. CASE RequestInstall(c)
  BY <1>9, <1>10 DEF RequestInstall, runtimeVars
<1>11. CASE Install(c)
  <2>0. output' = output
    BY <1>11 DEF Install, runtimeVars
  <2>1. CASE Goto(c, "idle") /\ UNCHANGED writer
    BY <1>9, <1>11, <2>0, <2>1 DEF Install
  <2>2. CASE ~ShownDesired /\ writer' = c /\ Goto(c, "installing")
    <3>1. pc[c] = "install" /\ writer = NoClient /\ builder' = builder
      BY <1>11 DEF Install
    <3>2. builder # c /\ WriterAt = "idle" /\ BuilderAt \notin Closing
      BY <1>1, <3>1, Holders, ClosingIsWriting, PlaceNames
    <3>3. LocksOrderly' /\ WriterAt' = "installing" /\ BuilderAt' = BuilderAt
      BY <1>1, <1>3, <2>2, <3>1, <3>2, Moves, PlaceNames DEF RequestType
    <3>4. ~ctl.running
      BY <1>1, <2>2, <3>2 DEF RelayOrderly, ShownDesired
    <3> QED BY <1>2, <1>4, <2>0, <3>2, <3>3, <3>4, MovedIsOrderly
  <2> QED BY <1>11, <2>1, <2>2 DEF Install
<1>12. CASE Installed(c)
  <2>1. /\ pc[c] = "installing" /\ writer' = NoClient /\ Goto(c, "idle") /\ builder' = builder
        /\ output' = output
    BY <1>12 DEF Installed, runtimeVars
  <2>2. writer = c /\ builder # c /\ WriterAt = "installing"
    BY <1>1, <2>1, Holders, PlaceNames
  <2>3. LocksOrderly' /\ WriterAt' = "idle" /\ BuilderAt' = BuilderAt
    BY <1>1, <1>3, <2>1, <2>2, Moves, PlaceNames DEF RequestType
  <2> QED BY <1>2, <1>4, <2>1, <2>2, <2>3, MovedIsOrderly
<1> QED BY <1>5, <1>6, <1>7, <1>8, <1>10, <1>11, <1>12

-----------------------------------------------------------------------------
(* The controller's own task, and the process.                             *)

LEMMA RelayIsOrderly ==
  ASSUME Orderly, Air \/ Fade \/ Cease
  PROVE  Orderly'
<1>1. LocksOrderly /\ RelayOrderly /\ ConfigurationOrderly /\ RevisionsOrderly
      /\ RelayType /\ RequestType
  BY TypeParts DEF Orderly
<1>2. TypeOK'
  BY TypeOfRest
<1>3. UNCHANGED <<stored, revision, intent, swept, startupFailed, blocked, build, builder,
                  writer, pc, undo, seen, accepted, rolledBack, unrestored>>
  BY DEF Air, Fade, Cease, dbVars, requestVars, clientVars, failureVars
<1>4. LocksOrderly' /\ WriterAt' = WriterAt /\ BuilderAt' = BuilderAt
  BY <1>1, <1>3, StaysPut
<1>5. /\ ctl'.config = ctl.config /\ ctl'.desired = ctl.desired /\ ctl'.unsaved = ctl.unsaved
      /\ ctl'.running = ctl.running \/ (~ctl'.running /\ BuilderAt \in Closing)
  <2>1. CASE Air \/ Fade
    <3>1. ctl' \in {ctl, [ctl EXCEPT !.used = TRUE]}
      BY <2>1 DEF Air, Fade
    <3> QED BY <1>1, <3>1 DEF RelayType, Controllers
  <2>2. CASE Cease
    <3>1. ctl' = [ctl EXCEPT !.running = FALSE] /\ BuilderAt \in Closing
      BY <2>2, PlaceNames DEF Cease, BuilderAt
    <3> QED BY <1>1, <3>1 DEF RelayType, Controllers
  <2> QED BY <2>1, <2>2
<1>6. RelayOrderly'
  <2>1. ctl.running \/ output' = "off"
    BY DEF Air, Fade, Cease
  <2> QED BY <1>1, <1>3, <1>4, <1>5, <2>1 DEF RelayOrderly
<1>7. ConfigurationOrderly'
  BY <1>1, <1>3, <1>4, <1>5 DEF ConfigurationOrderly, Exists
<1>8. RevisionsOrderly'
  BY <1>1, <1>3, <1>4 DEF RevisionsOrderly
<1> QED BY <1>2, <1>4, <1>6, <1>7, <1>8 DEF Orderly

LEMMA RestartIsOrderly ==
  ASSUME Orderly, Restart
  PROVE  Orderly'
<1>1. RevisionsOrderly /\ DatabaseType
  BY TypeParts DEF Orderly
<1>2. TypeOK'
  BY TypeOfRest
<1>3. PICK o \in Outcomes(Load(FALSE)) :
        /\ Adopt(o)
        /\ stored' = o.stored /\ intent' = o.intent /\ accepted' = o.stored
  BY DEF Restart
<1>4. /\ swept' = FALSE /\ builder' = NoClient /\ writer' = NoClient
      /\ unrestored' = FALSE
      /\ pc' = [c \in Clients |-> "idle"]
      /\ UNCHANGED <<revision, seen, rolledBack>>
  BY DEF Restart
<1>5. Clean(o)
  BY <1>1, LoadType, OutcomesAreClean DEF Orderly, DatabaseType
<1>6. LocksOrderly' /\ WriterAt' = "idle" /\ BuilderAt' = "idle"
  BY <1>4, ControlApiAssumption, PlaceNames DEF LocksOrderly, WriterAt, BuilderAt
<1>7. RelayOrderly'
  BY <1>3, <1>4, <1>5, <1>6, PlaceNames DEF RelayOrderly, Clean, Adopt
<1>8. ConfigurationOrderly'
  BY <1>3, <1>4, <1>5, <1>6 DEF ConfigurationOrderly, Clean, Adopt
<1>9. RevisionsOrderly'
  BY <1>1, <1>3, <1>4, <1>5, <1>6 DEF RevisionsOrderly, Clean
<1> QED BY <1>2, <1>6, <1>7, <1>8, <1>9 DEF Orderly

LEMMA InitIsOrderly == Init => Orderly
<1> SUFFICES ASSUME Init PROVE Orderly
  OBVIOUS
<1>1. /\ stored = Nothing /\ accepted = Nothing /\ ctl = NoController /\ undo = NoUndo
      /\ build = NoBuild /\ builder = NoClient /\ writer = NoClient
      /\ revision = [r \in Resources |-> 0]
      /\ pc = [c \in Clients |-> "idle"]
      /\ seen = [c \in Clients |-> [r \in Resources |-> [value |-> Unset, revision |-> 0]]]
      /\ intent = FALSE /\ output = "off" /\ swept = FALSE /\ startupFailed = FALSE
      /\ blocked = FALSE /\ pending = FALSE
      /\ rolledBack = FALSE /\ unrestored = FALSE /\ faults = 0
  BY DEF Init
<1>2. 0 \in Revisions /\ Unset \in Entries
  BY ControlApiAssumption DEF Revisions, Entries
<1>3. TypeOK
  BY <1>1, <1>2, BareTypes, NothingIsBare, PlaceNames, TypeParts
     DEF DatabaseType, FailureType, RelayType, RequestType, ClientType
<1>4. LocksOrderly /\ WriterAt = "idle" /\ BuilderAt = "idle"
  BY <1>1, ControlApiAssumption, PlaceNames DEF LocksOrderly, WriterAt, BuilderAt
<1>5. /\ NoController.config = Usable(Nothing) /\ ~NoController.running
      /\ ~NoController.desired
  BY NothingIsBare DEF NoController, Built, Usable
<1>6. RelayOrderly /\ ConfigurationOrderly
  BY <1>1, <1>4, <1>5 DEF RelayOrderly, ConfigurationOrderly
<1>7. RevisionsOrderly
  BY <1>1, <1>4, NothingIsBare DEF RevisionsOrderly, Nothing
<1> QED BY <1>3, <1>4, <1>6, <1>7 DEF Orderly

LEMMA NextIsOrderly ==
  ASSUME Orderly, [Next]_vars
  PROVE  Orderly'
<1>1. ASSUME NEW c \in Clients, Proceed(c)
      PROVE  Orderly'
  BY <1>1, ApplyIsOrderly, SweepIsOrderly, SwapIsOrderly, StartIsOrderly, StopIsOrderly,
     StopSavedIsOrderly DEF Proceed
<1>2. ASSUME NEW c \in Clients, Request(c)
      PROVE  Orderly'
  BY <1>2, ReadIsOrderly, PutIsOrderly, OtherRequestIsOrderly DEF Request
<1>3. CASE Air \/ Fade \/ Cease
  BY <1>3, RelayIsOrderly
<1>4. CASE Restart
  BY <1>4, RestartIsOrderly
<1>5. CASE UNCHANGED vars
  <2>1. UNCHANGED <<stored, revision, intent, ctl, output, swept, startupFailed, blocked, build,
                    builder, writer, pc, undo, seen, accepted, rolledBack, unrestored>>
    BY <1>5 DEF vars, dbVars, runtimeVars, requestVars, clientVars, failureVars
  <2>2. LocksOrderly' /\ WriterAt' = WriterAt /\ BuilderAt' = BuilderAt
    BY <2>1, StaysPut DEF Orderly
  <2>3. RelayOrderly' /\ ConfigurationOrderly' /\ RevisionsOrderly'
    BY <2>1, <2>2
       DEF Orderly, RelayOrderly, ConfigurationOrderly, RevisionsOrderly, Exists
  <2> QED BY <1>5, <2>2, <2>3, TypeOfRest DEF Orderly
<1> QED BY <1>1, <1>2, <1>3, <1>4, <1>5 DEF Next

-----------------------------------------------------------------------------
(* Theorems.                                                               *)

\* Wherever the requests are suspended, and whatever failed, the database, the controller,
\* the locks and the request that holds them agree on what has been done so far.
THEOREM Ordered == Spec => []Orderly
<1>1. Init => Orderly
  BY InitIsOrderly
<1>2. Orderly /\ [Next]_vars => Orderly'
  BY NextIsOrderly
<1> QED BY <1>1, <1>2, PTL DEF Spec

\* No request, failure or restart takes a variable out of its type.
THEOREM Typed == Spec => []TypeOK
<1>1. Orderly => TypeOK
  BY DEF Orderly
<1> QED BY <1>1, Ordered, PTL

\* When no change is under way the database holds what the last successful PUT wrote and
\* the controller was built from exactly that, whatever failed before, unless the undoing of
\* a PUT failed too and no PUT or start of the process has succeeded since.
THEOREM RollbacksAreComplete == Spec => []FailedChangeLeavesNoTrace
<1>1. Orderly => FailedChangeLeavesNoTrace
  <2> SUFFICES ASSUME Orderly, writer = NoClient, ~unrestored
               PROVE  stored = accepted /\ ctl.config = Built(stored, FALSE).config
    BY DEF FailedChangeLeavesNoTrace
  <2>1. stored \in Database
    BY TypeParts DEF Orderly, DatabaseType
  <2>2. WriterAt = "idle"
    BY DEF WriterAt
  <2>3. stored = accepted /\ ctl.config = Usable(stored)
    BY <2>2 DEF Orderly, ConfigurationOrderly
  <2> QED BY <2>1, <2>3, BuiltFacts
<1> QED BY <1>1, Ordered, PTL

\* A relay that runs is stored as wanted, at every point of every request: a crash there
\* is followed by a start that resumes it.
THEOREM CrashResumes == Spec => []RunningIsStored
<1>1. Orderly => RunningIsStored
  BY DEF Orderly, RelayOrderly, RunningIsStored
<1> QED BY <1>1, Ordered, PTL

\* The install gate sees every relay that nobody is shutting down.
THEOREM GateIsNotBlind == Spec => []GateSeesRunning
<1>1. Orderly => GateSeesRunning
  BY PlaceNames DEF Orderly, RelayOrderly, GateSeesRunning, ShownDesired, BuilderAt
<1> QED BY <1>1, Ordered, PTL

\* No installer is launched beside a relay, however its request interleaves with others.
THEOREM InstallsAlone == Spec => []InstallWhileStopped
<1>1. Orderly => InstallWhileStopped
  <2> SUFFICES ASSUME Orderly, NEW c \in Clients, pc[c] = "installing"
               PROVE  ~ctl.running
    BY DEF InstallWhileStopped
  <2>1. WriterAt = "installing"
    BY Holders, PlaceNames DEF Orderly
  <2> QED BY <2>1 DEF Orderly, RelayOrderly
<1> QED BY <1>1, Ordered, PTL

\* No shutdown() or stop() of a controller ends with a live output, also when one was
\* reconnected by hand in between.
THEOREM ClosedStaysDark == Spec => ClosedIsDark
<1> DEFINE Dark == \A c \in Clients : pc[c] \in Closing /\ pc'[c] \notin Closing => output' = "off"
<1>1. Orderly /\ [Next]_vars => [Dark]_vars
  <2> SUFFICES ASSUME Orderly, Next, NEW c \in Clients, pc[c] \in Closing, pc'[c] \notin Closing
               PROVE  output' = "off"
    OBVIOUS
  <2>1. LocksOrderly /\ RelayOrderly /\ RelayType /\ RequestType
    BY TypeParts DEF Orderly
  <2>2. writer = c /\ builder = c /\ c # NoClient
    BY <2>1, Holders, PlaceNames, ControlApiAssumption
  <2>3. ASSUME NEW d \in Clients, NEW place, Goto(d, place)
        PROVE  d = c
    BY <2>1, <2>3 DEF RequestType, Goto
  <2>4. ASSUME NEW d \in Clients, Proceed(d)
        PROVE  output' = "off"
    <3>1. CASE Sweep(d)
      BY <3>1 DEF Sweep, requestVars
    <3>2. CASE Swap(d) \/ StopSaved(d)
      <4>1. swept /\ output # "closing" /\ output' = output
        BY <3>2 DEF Swap, StopSaved, Swept
      <4> QED BY <2>1, <4>1 DEF RelayOrderly, RelayType
    <3>3. CASE Apply(d) \/ StartController(d) \/ StopController(d)
      BY <2>2, <3>3 DEF Apply, StartController, StopController
    <3> QED BY <2>4, <3>1, <3>2, <3>3 DEF Proceed
  <2>5. ASSUME NEW d \in Clients, Request(d)
        PROVE  FALSE
    <3>1. ASSUME NEW r \in Resources, Get(d, r) \/ PutUnchanged(d, r)
          PROVE  pc' = pc
      BY <3>1 DEF Get, PutUnchanged, requestVars
    <3>2. ASSUME NEW r \in Resources, NEW value \in Values(r), Put(d, r, value)
          PROVE  FALSE
      BY <2>2, <3>2 DEF Put, PutWrites
    <3>3. ASSUME \/ RequestStart(d) \/ RequestStop(d) \/ Reconnect(d) \/ Reconnected(d)
                 \/ RequestInstall(d) \/ Install(d) \/ Installed(d)
          PROVE  FALSE
      <4>1. PICK place : Goto(d, place) /\ pc[d] \notin Closing
        BY <3>3, PlaceNames
           DEF RequestStart, RequestStop, Reconnect, Reconnected, RequestInstall, Install,
               Installed
      <4> QED BY <2>3, <4>1
    <3> QED BY <2>5, <3>1, <3>2, <3>3 DEF Request
  <2>6. CASE Air \/ Fade \/ Cease
    BY <2>6 DEF Air, Fade, Cease, requestVars
  <2>7. CASE Restart
    BY <2>7 DEF Restart
  <2> QED BY <2>4, <2>5, <2>6, <2>7 DEF Next
<1>2. ClosedIsDark <=> [][Dark]_vars
  BY DEF ClosedIsDark
<1> HIDE DEF Dark
<1> QED BY <1>1, <1>2, Ordered, PTL DEF Spec

\* Until a PUT fails after its write, a PUT overwrites only what its client has read.
THEOREM NoBlindWrites == Spec => StaleWritesConflict
<1>1. Orderly /\ [Next]_vars => [~rolledBack => ~LostUpdate]_vars
  <2> SUFFICES ASSUME Orderly, Next, ~rolledBack, LostUpdate
               PROVE  FALSE
    OBVIOUS
  <2>1. writer = NoClient /\ writer' # NoClient /\ stored' # stored
    BY DEF LostUpdate
  <2>2. ASSUME NEW c \in Clients, Proceed(c)
        PROVE  FALSE
    <3>1. pc[c] \in Writing
      BY <2>2, PlaceNames
         DEF Proceed, Apply, Sweep, Swap, StartController, StopController, StopSaved
    <3>2. c # NoClient
      BY ControlApiAssumption
    <3> QED BY <2>1, <3>1, <3>2, Holders DEF Orderly
  <2>3. ASSUME NEW c \in Clients, NEW r \in Resources, NEW value \in Values(r), Put(c, r, value)
        PROVE  FALSE
    <3>1. /\ seen[c][r].revision = revision[r] /\ writer' = c
          /\ undo'.resource = r
      BY <2>3 DEF Put, PutWrites
    <3>2. seen[c][r].value = stored[r]
      BY <3>1 DEF Orderly, RevisionsOrderly
    <3> QED BY <3>1, <3>2 DEF LostUpdate
  <2>4. ASSUME NEW c \in Clients, Request(c),
               ~ \E r \in Resources : \E value \in Values(r) : Put(c, r, value)
        PROVE  FALSE
    <3>1. UNCHANGED stored
      BY <2>4 DEF Request, Get, PutUnchanged, RequestStart, RequestStop, Reconnect, Reconnected,
                  RequestInstall, Install, Installed, dbVars
    <3> QED BY <2>1, <3>1
  <2>5. CASE Air \/ Fade \/ Cease
    BY <2>1, <2>5 DEF Air, Fade, Cease, dbVars
  <2>6. CASE Restart
    BY <2>1, <2>6 DEF Restart
  <2> QED BY <2>2, <2>3, <2>4, <2>5, <2>6 DEF Next
<1> QED BY <1>1, Ordered, PTL DEF Spec, StaleWritesConflict

=============================================================================
