------------------------------- MODULE Database -------------------------------
(***************************************************************************)
(* persistence/database.py: how instances of the application, each a       *)
(* process with one connection, open and upgrade the same SQLite file,     *)
(* write it in transactions and read its events page by page.              *)
(*                                                                         *)
(* BEGIN IMMEDIATE takes SQLite's writer lock and shows the last committed *)
(* file; COMMIT publishes the writer's copy in one step, a rollback or the *)
(* end of the process drops it.  Whatever waits for the lock may also give *)
(* up after its retries.                                                   *)
(*                                                                         *)
(* A destination row is its identity and whether it is enabled; of a       *)
(* revisioned row only the revision is kept.  Left out: the columns nobody *)
(* decides on, encryption, redaction of texts, import and export, and a    *)
(* file that SQLite itself finds damaged.                                  *)
(***************************************************************************)
EXTENDS Integers, Sequences, SequencesExt

CONSTANTS
  Instances,  \* processes that use the file
  None,       \* the writer lock is free
  Kinds,      \* DestinationKind as it is stored
  Identities, \* names a file of version 1 may list as enabled
  KindOf,     \* _legacy_kind(): the kind an identity is a name of, or Unknown
  Unknown,
  Garbage,    \* an identity that _SAFE_CONTROLLER_IDENTITY refuses
  EventLimit, \* _EVENT_LIMIT: the events that are kept
  ListLimit,  \* the events that the route asks list_events() for
  MaxListed,  \* bound: length of the list in a file of version 1
  MaxWrites,  \* bound: revisions and events written
  MaxFaults   \* bound: statements that fail, and processes that end

ASSUME DatabaseAssumption ==
  /\ None \notin Instances
  /\ Kinds \subseteq Identities
  /\ Garbage \in Identities
  /\ Unknown \notin Kinds
  /\ KindOf \in [Identities -> Kinds \cup {Unknown}]
  /\ \A k \in Kinds : KindOf[k] = k
  /\ {EventLimit, ListLimit} \subseteq Nat \ {0}
  /\ EventLimit <= ListLimit
  /\ {MaxListed, MaxFaults} \subseteq Nat
  /\ MaxWrites \in Nat \ {0}

VARIABLES
  file,     \* what is committed
  original, \* history: the file before this version of the program met it
  writer,   \* holder of SQLite's writer lock
  view,     \* the file that the transaction of each instance began with
  pc,       \* what each instance is doing
  error,    \* how open() failed
  expected, \* the revision a client of each instance has read
  accepted, \* history: revisioned writes that were accepted
  cursor,   \* next_cursor of a client of the events route
  seen,     \* history: the events this client got
  faults    \* statements that failed and processes that ended

clientVars == <<expected, accepted, cursor, seen>>
vars == <<file, original, writer, view, pc, error, clientVars, faults>>

Latest   == 4  \* len(MIGRATIONS)
Writing  == {"writingRevision", "writingEvent"}
Places   == {"closed", "begin", "migrating", "validating", "open"} \cup Writing
Errors   == {"none", "busy", "fault", "migration", "corrupt"}
EventIds == 1 .. EventLimit + MaxWrites

\* The list of a file of version 1, when it has a source row.
Lists == {<<>>} \cup {<<list>> : list \in BoundedSeq(Identities, MaxListed)}

Rows  == UNION {[K -> [identity : Identities, enabled : BOOLEAN]] : K \in SUBSET Kinds}

\* versions: schema_version; tables: whether the others exist; listed: the list in
\* source_config; kept: the list in _migration_v1_state; legal: whether the rows pass the
\* checks of version 2; unmapped: the count in the event of migration 3, if any.
FileOf(versions, tables, listed, rows, legal, events) ==
  [versions |-> versions, tables |-> tables, listed |-> listed, kept |-> <<>>, rows |-> rows,
   legal |-> legal, events |-> events, unmapped |-> 0, revision |-> 0]

NoRows == [k \in {} |-> None]
NoFile == FileOf({}, FALSE, <<>>, NoRows, TRUE, {})

\* A new file; files of earlier versions (identities of their own came with version 3);
\* one that lost versions or tables; one of a later release.
InitialFiles ==
  LET named == {rows \in Rows : \A k \in DOMAIN rows : rows[k].identity = k} IN
  {NoFile}
    \cup {FileOf({1}, TRUE, list, rows, TRUE, 1 .. EventLimit) : list \in Lists, rows \in named}
    \cup {FileOf(1 .. v, TRUE, <<>>, rows, TRUE, {1}) : v \in 2 .. Latest, rows \in named}
    \cup {FileOf({1}, TRUE, <<>>, NoRows, FALSE, {})}
    \cup {FileOf(vs, TRUE, <<>>, NoRows, TRUE, {}) : vs \in {{}, 2 .. Latest, 1 .. Latest + 1}}
    \cup {FileOf(1 .. v, FALSE, <<>>, NoRows, TRUE, {}) : v \in 1 .. Latest}

Init ==
  /\ file \in InitialFiles
  /\ original = file
  /\ writer = None
  /\ view = [i \in Instances |-> NoFile]
  /\ pc = [i \in Instances |-> "closed"]
  /\ error = [i \in Instances |-> "none"]
  /\ expected = [i \in Instances |-> 0]
  /\ accepted = 0
  /\ cursor = 0
  /\ seen = {}
  /\ faults = 0

-----------------------------------------------------------------------------
(* The migrations: what each makes of the file.                            *)

Current(f) == Max(f.versions \cup {0})
Newest(ids) == Max(ids \cup {0})

\* An event gets the next identifier, and those beyond the limit are deleted.
WithEvent(ids) ==
  LET new == Newest(ids) + 1 IN {e \in ids \cup {new} : e > new - EventLimit}

Migration1(f) == [f EXCEPT !.tables = TRUE]

\* Deviation: the list is not carried over.
Migration2Forgets(f) == [f EXCEPT !.listed = <<>>]

\* source_config loses the list of enabled destinations, which waits for migration 3.
Migration2(f) == [f EXCEPT !.kept = f.listed, !.listed = <<>>]

\* One identity of the list: the first that names a configured kind enables it.
Assign(found, identity) ==
  LET kind == KindOf[identity] IN
  IF kind \in DOMAIN found.rows /\ kind \notin found.assigned
  THEN [rows     |-> [found.rows EXCEPT ![kind] = [identity |-> identity, enabled |-> TRUE]],
        assigned |-> found.assigned \cup {kind},
        unmapped |-> found.unmapped]
  ELSE [found EXCEPT !.unmapped = @ + 1]

Distinct(list) ==
  FoldLeft(LAMBDA found, x : IF Contains(found, x) THEN found ELSE Append(found, x), <<>>, list)

\* What a list makes of the rows; one that is malformed enables nothing.
Reconciled(list, rows) ==
  LET dark  == [k \in DOMAIN rows |-> [rows[k] EXCEPT !.enabled = FALSE]]
      start == [rows |-> dark, assigned |-> {}, unmapped |-> 0]
  IN IF Contains(list, Garbage)
     THEN [start EXCEPT !.unmapped = 1]
     ELSE FoldLeft(Assign, start, Distinct(list))

Migration3(f) ==
  IF f.kept = <<>> THEN f
  ELSE LET found == Reconciled(f.kept[1], f.rows) IN
       [f EXCEPT !.kept = <<>>, !.rows = found.rows, !.unmapped = found.unmapped,
                 !.events = IF found.unmapped = 0 THEN @ ELSE WithEvent(@)]

\* The revisions are a column that starts empty: nothing else changes.
Migration4(f) == f

-----------------------------------------------------------------------------
(* Transactions.                                                           *)

Goto(i, place) == pc' = [pc EXCEPT ![i] = place]

\* Deviation: a transaction does not exclude other writers.
BeginDeferred(i) ==
  /\ writer' = i
  /\ view' = [view EXCEPT ![i] = file]

Begin(i) ==
  /\ writer = None
  /\ writer' = i
  /\ view' = [view EXCEPT ![i] = file]

Leave(i) ==
  /\ writer' = IF writer = i THEN None ELSE writer
  /\ view' = [view EXCEPT ![i] = NoFile]

Commit(i, f) ==
  /\ file' = f
  /\ Leave(i)

\* Deviation: a transaction that fails stays open.
ForgetRollback(i) == UNCHANGED <<file, writer, view>>

Rollback(i) ==
  /\ Leave(i)
  /\ UNCHANGED file

Fault ==
  /\ faults < MaxFaults
  /\ faults' = faults + 1

-----------------------------------------------------------------------------
(* open() and close().                                                     *)

\* The connection is made and its pragmas are set.
Open(i) ==
  /\ pc[i] = "closed"
  /\ Goto(i, "begin")
  /\ error' = [error EXCEPT ![i] = "none"]
  /\ UNCHANGED <<file, original, writer, view, clientVars, faults>>

\* open() raises: the connection is closed, and with it the lifespan of the application.
Refuse(i, reason) ==
  /\ Rollback(i)
  /\ Goto(i, "closed")
  /\ error' = [error EXCEPT ![i] = reason]

\* _execute_with_busy_retry() gives up.
Busy(i) ==
  /\ pc[i] = "begin"
  /\ writer # None
  /\ Refuse(i, "busy")
  /\ UNCHANGED <<original, clientVars, faults>>

BeginMigration(i) ==
  /\ pc[i] = "begin"
  /\ Begin(i)
  /\ Goto(i, "migrating")
  /\ UNCHANGED <<file, original, error, clientVars, faults>>

\* What the migration after the current version makes of the file.
Migrated(f) ==
  LET version == Current(f) + 1
      result  == CASE version = 1 -> Migration1(f)
                   [] version = 2 -> Migration2(f)
                   [] version = 3 -> Migration3(f)
                   [] OTHER       -> Migration4(f)
  IN [result EXCEPT !.versions = @ \cup {version}]

\* The migration cannot be applied: its statements or the new row of schema_version
\* violate a constraint, or the tables it changes are missing.
Inapplicable(f) ==
  \/ Current(f) \in {1, 2, 3} /\ ~f.tables
  \/ Current(f) = 1 /\ ~f.legal
  \/ Current(f) + 1 \in file.versions

Lost(f) == f.versions = {} /\ f.tables

\* Deviation: the last migration is taken for optional.
NearlyUpToDate(f) == Current(f) >= Latest - 1

UpToDate(f) == Current(f) = Latest

\* One round of _migrate(), of a file it knows.
Migrate(i) ==
  LET f == view[i] IN
  /\ pc[i] = "migrating"
  /\ ~Lost(f)
  /\ Current(f) <= Latest
  /\ IF UpToDate(f)
     THEN Commit(i, file) /\ Goto(i, "validating") /\ UNCHANGED error
     ELSE IF Inapplicable(f)
          THEN Refuse(i, "migration")
          ELSE Commit(i, Migrated(f)) /\ Goto(i, "begin") /\ UNCHANGED error
  /\ UNCHANGED <<original, clientVars, faults>>

\* schema_version is missing, or the schema is newer than the application.
RefuseToMigrate(i) ==
  LET f == view[i] IN
  /\ pc[i] = "migrating"
  /\ \/ Lost(f) /\ Refuse(i, "corrupt")
     \/ Current(f) > Latest /\ Refuse(i, "migration")
  /\ UNCHANGED <<original, clientVars, faults>>

\* A statement of a migration fails.
FailMigration(i) ==
  /\ pc[i] = "migrating"
  /\ Fault
  /\ Refuse(i, "fault")
  /\ UNCHANGED <<original, clientVars>>

\* _validate_schema()
Valid(f) == f.versions = 1 .. Latest /\ f.tables /\ f.listed = <<>> /\ f.kept = <<>>

Validate(i) ==
  /\ pc[i] = "validating"
  /\ IF Valid(file)
     THEN Goto(i, "open") /\ UNCHANGED <<file, writer, view, error>>
     ELSE Refuse(i, "corrupt")
  /\ UNCHANGED <<original, clientVars, faults>>

Close(i) ==
  /\ pc[i] = "open"
  /\ Goto(i, "closed")
  /\ UNCHANGED <<file, original, writer, view, error, clientVars, faults>>

\* The process ends without closing.
Crash(i) ==
  /\ pc[i] # "closed"
  /\ Fault
  /\ Rollback(i)
  /\ Goto(i, "closed")
  /\ UNCHANGED <<original, error, clientVars>>

-----------------------------------------------------------------------------
(* Reading and writing an open database.  A transaction that finds it busy *)
(* raises and changes nothing.                                             *)

\* A client reads a resource and its revision.
ReadRevision(i) ==
  /\ pc[i] = "open"
  /\ expected' = [expected EXCEPT ![i] = file.revision]
  /\ UNCHANGED <<file, original, writer, view, pc, error, accepted, cursor, seen, faults>>

BeginWrite(i) ==
  /\ pc[i] = "open"
  /\ \/ file.revision < MaxWrites /\ Goto(i, "writingRevision")
     \/ EventIds \ (0 .. Newest(file.events)) # {} /\ Goto(i, "writingEvent")
  /\ Begin(i)
  /\ UNCHANGED <<file, original, error, clientVars, faults>>

\* set_source_revisioned(), set_destination_revisioned(): RevisionConflictError rolls back.
WriteRevision(i) ==
  /\ pc[i] = "writingRevision"
  /\ Goto(i, "open")
  /\ IF view[i].revision = expected[i]
     THEN /\ Commit(i, [view[i] EXCEPT !.revision = @ + 1])
          /\ accepted' = accepted + 1
     ELSE Rollback(i) /\ UNCHANGED accepted
  /\ UNCHANGED <<original, error, expected, cursor, seen, faults>>

\* add_event()
AddEvent(i) ==
  /\ pc[i] = "writingEvent"
  /\ Goto(i, "open")
  /\ Commit(i, [view[i] EXCEPT !.events = WithEvent(@)])
  /\ UNCHANGED <<original, error, clientVars, faults>>

FailWrite(i) ==
  /\ pc[i] \in Writing
  /\ Fault
  /\ Rollback(i)
  /\ Goto(i, "open")
  /\ UNCHANGED <<original, error, clientVars>>

First(n, ids) == {e \in ids : Cardinality({d \in ids : d < e}) < n}

\* Deviation: the limit of the request is applied before its cursor.
PageOfFirst(n) == {e \in First(n, file.events) : e > cursor}

\* list_events() and the route: what is listed, after the cursor, up to the limit.
Page(n) == First(n, {e \in First(ListLimit, file.events) : e > cursor})

ReadEvents(i, n) ==
  /\ pc[i] = "open"
  /\ seen' = seen \cup Page(n)
  /\ cursor' = Max(Page(n) \cup {cursor})
  /\ UNCHANGED <<file, original, writer, view, pc, error, expected, accepted, faults>>

Opens(i)  == \/ Open(i) \/ Busy(i) \/ BeginMigration(i) \/ Migrate(i) \/ RefuseToMigrate(i)
             \/ FailMigration(i) \/ Validate(i) \/ Close(i) \/ Crash(i)
Writes(i) == \/ ReadRevision(i) \/ BeginWrite(i) \/ WriteRevision(i) \/ AddEvent(i)
             \/ FailWrite(i)

Next == \E i \in Instances :
  \/ Opens(i)
  \/ Writes(i)
  \/ \E n \in 1 .. EventLimit : ReadEvents(i, n)

Spec == Init /\ [][Next]_vars

-----------------------------------------------------------------------------
TypeOK ==
  /\ writer \in Instances \cup {None}
  /\ pc \in [Instances -> Places]
  /\ error \in [Instances -> Errors]
  /\ expected \in [Instances -> 0 .. MaxWrites]
  /\ accepted \in Nat
  /\ cursor \in Nat
  /\ seen \subseteq EventIds
  /\ faults \in 0 .. MaxFaults

\* What the operator has enabled in the file as it was found: by the list, if there was a
\* source row, else by the rows.
Listed(k) == {x \in ToSet(original.listed[1]) : KindOf[x] = k}

Wanted(k) ==
  IF original.listed = <<>> THEN original.rows[k].enabled
  ELSE ~Contains(original.listed[1], Garbage) /\ Listed(k) # {}

\* An upgrade, interrupted or run by two processes at once, enables exactly the destinations
\* that were enabled, under the names they had, and reports every name it could not keep.
UpgradeKeepsWishes == Current(file) >= 3 =>
  /\ DOMAIN file.rows = DOMAIN original.rows
  /\ \A k \in DOMAIN file.rows :
       /\ file.rows[k].enabled = Wanted(k)
       /\ file.rows[k].identity \in IF original.listed # <<>> /\ Wanted(k) THEN Listed(k) ELSE {k}
  /\ (file.unmapped = 0) = (original.listed = <<>> \/ ToSet(original.listed[1]) \subseteq
                              {file.rows[k].identity : k \in {j \in DOMAIN file.rows : Wanted(j)}})

\* open() calls a file corrupt, or a migration failed, only when the file was not one that a
\* release up to this one wrote: never because another instance opens it at the same time,
\* or because an earlier upgrade was interrupted.
RefusedForCause == \A i \in Instances : error[i] \in {"migration", "corrupt"} =>
  \/ Lost(original)
  \/ original.versions # 1 .. Current(original)
  \/ Current(original) > Latest
  \/ Current(original) > 0 /\ ~original.tables
  \/ ~original.legal

\* Of the writes that expect the same revision one is accepted, whichever process it is in.
NoLostUpdate == accepted = file.revision

\* Nobody holds the writer lock outside a transaction: a write or a migration that failed
\* does not make the file busy for everybody.
LockIsReleased == \A i \in Instances : writer = i => pc[i] \in {"migrating"} \cup Writing

\* Whoever follows next_cursor meets every event that is kept: none before the cursor was
\* left out, and an empty page means that there is none after it.
PagingMissesNothing ==
  /\ {e \in file.events : e <= cursor} \subseteq seen
  /\ \A n \in 1 .. EventLimit : Page(n) = {} => Newest(file.events) <= cursor

=============================================================================
