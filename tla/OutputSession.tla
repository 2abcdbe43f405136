---------------------------- MODULE OutputSession ----------------------------
(***************************************************************************)
(* What a user of OutputSupervisor may rely on, with none of its tasks,    *)
(* locks or retries: a session is opened, has at most one child that comes *)
(* and goes, is asked to close and closes without a child.                 *)
(***************************************************************************)
VARIABLES
  phase,  \* "closed", "open" or "closing"
  child   \* whether a child process exists

vars == <<phase, child>>

Init == phase = "closed" /\ child = FALSE

\* start() opens a session; no child is left over from the one before.
Open ==
  /\ phase = "closed"
  /\ ~child
  /\ phase' = "open"
  /\ UNCHANGED child

\* A child is created only while nobody asked for the session's end.
Spawn ==
  /\ phase = "open"
  /\ ~child
  /\ child' = TRUE
  /\ UNCHANGED phase

\* The child exits or is reaped.
Exit ==
  /\ child
  /\ child' = FALSE
  /\ UNCHANGED phase

RequestStop ==
  /\ phase = "open"
  /\ phase' = "closing"
  /\ UNCHANGED child

\* The session ends, never before its child.  The step that ends it may be the
\* one in which its child is found gone.
Close ==
  /\ phase # "closed"
  /\ phase' = "closed"
  /\ child' = FALSE

Next == Open \/ Spawn \/ Exit \/ RequestStop \/ Close

Spec == Init /\ [][Next]_vars
=============================================================================
