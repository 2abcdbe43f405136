------------------------- MODULE UpdateServiceProofs -------------------------
(***************************************************************************)
(* Theorems about UpdateService for any number of requests, releases and   *)
(* days.                                                                   *)
(*                                                                         *)
(* The inductive invariant, Orderly, says of every place an operation can  *)
(* be suspended at what memory, file and candidate are there: which of     *)
(* them a failure may still restore, and that none forgets the last check. *)
(***************************************************************************)
EXTENDS UpdateService, TLAPS

\* Where the operation under way is suspended.
Place == IF lock = NoTask THEN "idle" ELSE pc[lock]

\* A memory whose offer can be carried out.
Offered(m) ==
  /\ m.state.status \notin {"checking", "downloading"}
  /\ m.state.status = "available" => m.manifest = m.state.release
  /\ m.state.status = "ready" => m.manifest = m.state.release /\ m.installer = m.state.release

Early == {"commitChecking", "commitDownloading"}
Late  == {"checking", "commitChecked", "downloading", "commitDownloaded"}
Installing == {"timing", "verifying", "preparing"}
Active == Early \cup Late \cup Installing \cup {"cleaning"}

\* The holder of the lock is the only task inside an operation.
OneOperation ==
  /\ \A t \in Tasks : pc[t] \in Active => lock = t
  /\ lock # NoTask => app /\ ~installStarted /\ pc[lock] \in Active

\* What memory shows, and what a failure restores.
MemoryOrderly ==
  /\ Place \notin Late => Offered(Memory)
  /\ Place \in Early => stable = Memory
  /\ Place \in Late => /\ Offered(stable)
                       /\ stable.state.checked = state.checked
                       /\ state.status \in {"checking", "downloading"}
                       /\ file = [snapshot |-> state, version |-> version]
  /\ Place \in {"commitDownloading", "downloading"} => manifest # None
  /\ Place \in Installing => state.status = "ready"

\* What is about to be committed.
CandidateOrderly ==
  /\ Place = "commitChecking" =>
       candidate.snapshot.status = "checking" /\ candidate.snapshot.checked = state.checked
  /\ Place = "commitDownloading" =>
       candidate.snapshot.status = "downloading" /\ candidate.snapshot.checked = state.checked
  /\ Place = "commitChecked" =>
       /\ candidate.snapshot.status \in {"available", "current", "failed"}
       /\ candidate.snapshot.status = "available" =>
            candidate.manifest = candidate.snapshot.release
  /\ Place = "commitDownloaded" =>
       /\ candidate.snapshot.checked = state.checked
       /\ candidate.snapshot.status \in {"ready", "failed"}
       /\ candidate.snapshot.status = "ready" => candidate.snapshot.release = manifest

\* The file is as good as the memory for the next process.
FileOrderly == app => Loaded(file, version) \in {Surviving(state), Idle(state.checked)}

\* Nothing forgets the last check that was completed, and nothing was checked later
\* than today.
TimeOrderly ==
  /\ completed <= Loaded(file, version).checked
  /\ Place \in Commits => completed <= candidate.snapshot.checked
  /\ state.checked <= day
  /\ file.snapshot.checked <= day
  /\ candidate.snapshot.checked <= day

\* A helper that waits belongs to the process that runs, and works only without it.
HelperOrderly ==
  /\ ~app => lock = NoTask /\ ~installStarted /\ manifest = None /\ installer = None
  /\ app => helper.phase \in {"none", "over", "waiting"}
  /\ app /\ helper.phase = "waiting" =>
       installStarted /\ pid = "app" /\ state.status = "ready" /\ state.release = helper.release

Orderly ==
  /\ TypeOK
  /\ OneOperation
  /\ MemoryOrderly
  /\ CandidateOrderly
  /\ FileOrderly
  /\ TimeOrderly
  /\ HelperOrderly

-----------------------------------------------------------------------------
(* Names of places, statuses and values, so that proofs need not expand the *)
(* sets they belong to.                                                    *)

LEMMA PlaceNames ==
  /\ Active \cup {"idle", "over"} \subseteq Places
  /\ {"idle", "over"} \cap Active = {}
  /\ Early \subseteq Active /\ Late \subseteq Active /\ Installing \subseteq Active
  /\ Commits \subseteq Active
  BY DEF Active, Early, Late, Installing, Places, Commits

LEMMA ValueTypes ==
  ASSUME UpdateAssumption
  PROVE  /\ None \in Releases \cup {None} /\ Never \in Days \cup {Never}
         /\ NoMemory \in Memories
         /\ NoCandidate \in [snapshot : Snapshots, manifest : Releases \cup {None}]
         /\ \A c \in Days \cup {Never} : Idle(c) \in Snapshots
         /\ Releases \cup {None} = 0 .. MaxVersion
         /\ NoTask \notin Tasks
  BY DEF UpdateAssumption, NoMemory, NoCandidate, Memories, Snapshots, Statuses, Idle, Snapshot,
         Releases, None, Never, Days, Tasks

LEMMA LoadedType ==
  ASSUME UpdateAssumption, NEW v, file \in [snapshot : Snapshots, version : 0 .. MaxVersion]
  PROVE  /\ Loaded(file, v) \in Snapshots
         /\ Loaded(file, v).status \in {"idle", "current", "failed"}
  <1>1. Never \in Days \cup {Never} /\ file.snapshot.checked \in Days \cup {Never}
    BY DEF Snapshots
  <1>2. Idle(Never) \in Snapshots /\ Idle(file.snapshot.checked) \in Snapshots
    BY <1>1, ValueTypes
  <1>3. file.snapshot \in Snapshots /\ file.snapshot.status \in Statuses
    BY DEF Snapshots
  <1>4. Idle(Never).status = "idle" /\ Idle(file.snapshot.checked).status = "idle"
    BY DEF Idle, Snapshot
  <1> QED BY <1>2, <1>3, <1>4 DEF Loaded, Statuses

-----------------------------------------------------------------------------
(* The lock.                                                               *)

\* A task inside an operation holds the lock.
LEMMA Holder ==
  ASSUME UpdateAssumption, OneOperation, NEW t \in Tasks, pc[t] \in Active
  PROVE  lock = t /\ Place = pc[t] /\ app /\ ~installStarted
  BY ValueTypes DEF OneOperation, Place

LEMMA GotoEffect ==
  ASSUME UpdateAssumption, TypeOK, OneOperation, NEW t \in Tasks, NEW place \in Active,
         lock' = t, lock \in {t, NoTask}, app', ~installStarted', Goto(t, place)
  PROVE  /\ OneOperation' /\ Place' = place
         /\ lock' \in Tasks \cup {NoTask} /\ pc' \in [Tasks -> Places]
  <1>1. pc' = [pc EXCEPT ![t] = place] /\ pc \in [Tasks -> Places] /\ place \in Places
    BY PlaceNames DEF Goto, TypeOK, JobTypeOK
  <1>2. pc'[t] = place /\ \A u \in Tasks \ {t} : pc'[u] = pc[u] /\ pc[u] \notin Active
    BY <1>1, ValueTypes DEF OneOperation
  <1> QED BY <1>1, <1>2, ValueTypes DEF OneOperation, Place

LEMMA ReturnEffect ==
  ASSUME UpdateAssumption, TypeOK, OneOperation, NEW t \in Tasks, pc[t] \in Active, Return(t)
  PROVE  /\ OneOperation' /\ Place' = "idle" /\ JobTypeOK'
         /\ candidate' = NoCandidate
  <1>1. pc \in [Tasks -> Places] /\ {"idle", "over"} \subseteq Places
    BY PlaceNames DEF TypeOK, JobTypeOK
  <1>2. pc' \in [Tasks -> Places] /\ pc'[t] \in {"idle", "over"}
        /\ \A u \in Tasks \ {t} : pc'[u] = pc[u]
    BY <1>1 DEF Return
  <1>3. \A u \in Tasks : pc'[u] \notin Active
    BY <1>2, PlaceNames, Holder DEF OneOperation
  <1> QED BY <1>2, <1>3, ValueTypes DEF Return, OneOperation, Place, JobTypeOK

LEMMA AdmittedFree ==
  ASSUME UpdateAssumption, OneOperation, NEW t \in Tasks, Admitted(t)
  PROVE  Place = "idle" /\ app /\ ~installStarted /\ lock = NoTask
  BY DEF Admitted, Place

-----------------------------------------------------------------------------
(* The actions of an operation, in the order of their places.              *)

LEMMA BeginCheckOrderly ==
  ASSUME UpdateAssumption, Orderly, NEW t \in Tasks, BeginCheck(t)
  PROVE  Orderly'
  <1>1. Place = "idle" /\ app /\ ~installStarted /\ lock = NoTask
    BY AdmittedFree DEF Orderly, BeginCheck
  <1>2. OneOperation' /\ Place' = "commitChecking" /\ lock' \in Tasks \cup {NoTask}
        /\ pc' \in [Tasks -> Places]
    BY <1>1, GotoEffect DEF Orderly, BeginCheck, Begin, Active, Early, memoryVars, processVars
  <1>3. TypeOK'
    <2>1. state \in Snapshots /\ Snapshot("checking", None, state.checked) \in Snapshots
      BY DEF Orderly, TypeOK, MemoryTypeOK, Memory, Memories, Snapshots, Snapshot, Statuses
    <2> QED BY <1>2, <2>1, ValueTypes DEF Orderly, TypeOK, MemoryTypeOK, JobTypeOK, ProcessTypeOK,
           BeginCheck, Begin, Memory, memoryVars, processVars, helperVars
  <1>4. MemoryOrderly'
    BY <1>1, <1>2 DEF Orderly, MemoryOrderly, BeginCheck, Begin, Memory, Offered, memoryVars,
       Early, Late, Installing
  <1>5. CandidateOrderly'
    BY <1>2 DEF Orderly, CandidateOrderly, BeginCheck, Begin, Snapshot, memoryVars
  <1>6. FileOrderly'
    BY DEF Orderly, FileOrderly, BeginCheck, memoryVars, processVars, Loaded, Surviving
  <1>7. TimeOrderly'
    <2>1. Loaded(file, version).checked = state.checked
      BY <1>1 DEF Orderly, FileOrderly, Surviving, Idle, Snapshot
    <2> QED BY <2>1 DEF Orderly, TimeOrderly, BeginCheck, Begin, Snapshot, memoryVars, processVars,
           Loaded
  <1>8. HelperOrderly'
    BY <1>1 DEF Orderly, HelperOrderly, BeginCheck, memoryVars, processVars, helperVars
  <1> QED BY <1>2, <1>3, <1>4, <1>5, <1>6, <1>7, <1>8 DEF Orderly

LEMMA CheckingSavedOrderly ==
  ASSUME UpdateAssumption, Orderly, NEW t \in Tasks, CheckingSaved(t)
  PROVE  Orderly'
  <1>1. pc[t] = "commitChecking" /\ pc[t] \in Active
    BY DEF CheckingSaved, Active, Early
  <1>2. lock = t /\ Place = "commitChecking" /\ app /\ ~installStarted
    BY <1>1, Holder DEF Orderly
  <1>3. OneOperation' /\ Place' = "checking" /\ lock' \in Tasks \cup {NoTask}
        /\ pc' \in [Tasks -> Places]
    BY <1>2, GotoEffect DEF Orderly, CheckingSaved, Active, Late, processVars
  <1>4. TypeOK'
    BY <1>3, ValueTypes DEF Orderly, TypeOK, MemoryTypeOK, JobTypeOK, ProcessTypeOK,
       CheckingSaved, Commit, Written, Memory, Memories, processVars, helperVars
  <1>5. MemoryOrderly'
    <2>1. Offered(stable) /\ stable.state.checked = state.checked
      BY <1>2 DEF Orderly, MemoryOrderly, Memory, Early, Late
    <2>2. candidate.snapshot.status = "checking" /\ candidate.snapshot.checked = state.checked
      BY <1>2 DEF Orderly, CandidateOrderly
    <2> QED BY <1>3, <2>1, <2>2 DEF MemoryOrderly, CheckingSaved, Commit, Written, Offered, Early,
           Late, Installing, processVars
  <1>6. CandidateOrderly'
    BY <1>3 DEF CandidateOrderly
  <1>7. candidate.snapshot.status = "checking" /\ candidate.snapshot.checked = state.checked
        /\ completed <= candidate.snapshot.checked
    BY <1>2 DEF Orderly, CandidateOrderly, TimeOrderly, Commits
  <1>8. Loaded(file', version) = Idle(candidate.snapshot.checked)
    BY <1>7 DEF CheckingSaved, Commit, Written, Loaded
  <1>9. FileOrderly'
    BY <1>8 DEF FileOrderly, CheckingSaved, Commit, processVars
  <1>10. TimeOrderly'
    BY <1>3, <1>7, <1>8 DEF Orderly, TimeOrderly, CheckingSaved, Commit, Written, Idle, Snapshot,
       processVars, Commits
  <1>11. HelperOrderly'
    BY <1>2 DEF Orderly, HelperOrderly, CheckingSaved, processVars, helperVars
  <1> QED BY <1>3, <1>4, <1>5, <1>6, <1>9, <1>10, <1>11 DEF Orderly

LEMMA CheckedOrderly ==
  ASSUME UpdateAssumption, Orderly, NEW t \in Tasks, Checked(t)
  PROVE  Orderly'
  <1>1. pc[t] = "checking" /\ pc[t] \in Active
    BY DEF Checked, Active, Late
  <1>2. lock = t /\ Place = "checking" /\ app /\ ~installStarted
    BY <1>1, Holder DEF Orderly
  <1>3. OneOperation' /\ Place' = "commitChecked" /\ lock' \in Tasks \cup {NoTask}
        /\ pc' \in [Tasks -> Places]
    BY <1>2, GotoEffect DEF Orderly, Checked, Active, Late, processVars, memoryVars
  <1> DEFINE Answer(c) ==
           /\ c \in [snapshot : Snapshots, manifest : Releases \cup {None}]
           /\ c.snapshot.checked = day
           /\ c.snapshot.status \in {"available", "current", "failed"}
           /\ c.snapshot.status = "available" => c.manifest = c.snapshot.release
  <1>4. Answer(candidate')
    <2>1. day \in Days \cup {Never}
      BY DEF Orderly, TypeOK, ProcessTypeOK
    <2>2. ASSUME NEW r \in Releases
          PROVE  Answer([snapshot |-> Snapshot("available", r, day), manifest |-> r])
      BY <2>1 DEF Snapshot, Snapshots, Statuses
    <2>3. ASSUME NEW status \in {"current", "failed"}
          PROVE  Answer([snapshot |-> Snapshot(status, None, day), manifest |-> None])
      BY <2>1, ValueTypes DEF Snapshot, Snapshots, Statuses
    <2> QED BY <2>2, <2>3 DEF Checked, FoundNewer, FoundNone
  <1>5. TypeOK'
    BY <1>3, <1>4 DEF Orderly, TypeOK, MemoryTypeOK, JobTypeOK, ProcessTypeOK,
       Checked, Memory, processVars, helperVars, memoryVars
  <1>6. MemoryOrderly'
    BY <1>2, <1>3 DEF Orderly, MemoryOrderly, Checked, Early, Late, Installing, processVars,
       memoryVars, Offered
  <1>7. CandidateOrderly'
    BY <1>3, <1>4 DEF CandidateOrderly
  <1>8. FileOrderly'
    BY DEF Orderly, FileOrderly, Checked, processVars, memoryVars, Loaded, Surviving
  <1>9. TimeOrderly'
    <2>1. day \in Nat /\ state.checked \in Nat /\ completed \in Nat
      BY ValueTypes DEF Orderly, TypeOK, ProcessTypeOK, MemoryTypeOK, Memory, Memories, Snapshots,
         Days, Never
    <2>2. completed <= day
      <3>1. Loaded(file, version).checked = state.checked
        BY <1>2 DEF Orderly, FileOrderly, Surviving, Idle, Snapshot
      <3> QED BY <2>1, <3>1 DEF Orderly, TimeOrderly
    <2> QED BY <1>3, <1>4, <2>1, <2>2 DEF Orderly, TimeOrderly, Checked, Commits, processVars,
           memoryVars, Loaded
  <1>10. HelperOrderly'
    BY DEF Orderly, HelperOrderly, Checked, processVars, helperVars, memoryVars
  <1> QED BY <1>3, <1>5, <1>6, <1>7, <1>8, <1>9, <1>10 DEF Orderly

LEMMA CheckSavedOrderly ==
  ASSUME UpdateAssumption, Orderly, NEW t \in Tasks, CheckSaved(t)
  PROVE  Orderly'
  <1>1. pc[t] = "commitChecked" /\ pc[t] \in Active
    BY DEF CheckSaved, Active, Late
  <1>2. lock = t /\ Place = "commitChecked" /\ app /\ ~installStarted
    BY <1>1, Holder DEF Orderly
  <1>3. OneOperation' /\ Place' = "idle" /\ JobTypeOK' /\ candidate' = NoCandidate
    BY <1>1, ReturnEffect DEF Orderly, CheckSaved
  <1>4. /\ candidate.snapshot \in Snapshots
        /\ candidate.snapshot.status \in {"available", "current", "failed"}
        /\ candidate.snapshot.status = "available" =>
             candidate.manifest = candidate.snapshot.release
        /\ completed <= candidate.snapshot.checked
    BY <1>2 DEF Orderly, TypeOK, JobTypeOK, CandidateOrderly, TimeOrderly, Commits
  <1>5. TypeOK'
    BY <1>3, <1>4 DEF Orderly, TypeOK, MemoryTypeOK, JobTypeOK, ProcessTypeOK, CheckSaved, Commit,
       Written, Memory, Memories, Snapshots, processVars, helperVars
  <1>6. MemoryOrderly'
    BY <1>3, <1>4 DEF MemoryOrderly, CheckSaved, Commit, Memory, Offered, Early, Late, Installing
  <1>7. CandidateOrderly'
    BY <1>3 DEF CandidateOrderly
  <1>8. /\ Loaded(file', version).checked = candidate.snapshot.checked
        /\ Loaded(file', version) = Surviving(candidate.snapshot)
    BY <1>4 DEF CheckSaved, Commit, Written, Loaded, Surviving, Idle, Snapshot
  <1>9. FileOrderly'
    BY <1>8 DEF FileOrderly, CheckSaved, Commit, processVars
  <1>10. TimeOrderly'
    <2>1. day \in Nat /\ candidate.snapshot.checked \in Nat
      BY <1>4, ValueTypes DEF Orderly, TypeOK, ProcessTypeOK, Snapshots, Days, Never
    <2>2. candidate'.snapshot.checked = 0
      BY <1>3 DEF NoCandidate, Idle, Snapshot, Never
    <2> QED BY <1>3, <1>8, <2>1, <2>2 DEF Orderly, TimeOrderly, CheckSaved, Commit, Written,
           processVars, Commits
  <1>11. HelperOrderly'
    BY <1>2 DEF Orderly, HelperOrderly, CheckSaved, processVars, helperVars
  <1> QED BY <1>3, <1>5, <1>6, <1>7, <1>9, <1>10, <1>11 DEF Orderly

LEMMA BeginDownloadOrderly ==
  ASSUME UpdateAssumption, Orderly, NEW t \in Tasks, BeginDownload(t)
  PROVE  Orderly'
  <1>1. Place = "idle" /\ app /\ ~installStarted /\ lock = NoTask
    BY AdmittedFree DEF Orderly, BeginDownload
  <1>2. OneOperation' /\ Place' = "commitDownloading" /\ lock' \in Tasks \cup {NoTask}
        /\ pc' \in [Tasks -> Places]
    BY <1>1, GotoEffect DEF Orderly, BeginDownload, Begin, Active, Early, memoryVars, processVars
  <1>3. TypeOK'
    <2>1. Snapshot("downloading", manifest, state.checked) \in Snapshots
      BY DEF Orderly, TypeOK, MemoryTypeOK, Memory, Memories, Snapshots, Snapshot, Statuses
    <2> QED BY <1>2, <2>1, ValueTypes DEF Orderly, TypeOK, MemoryTypeOK, JobTypeOK, ProcessTypeOK,
           BeginDownload, Begin, Memory, memoryVars, processVars, helperVars
  <1>4. MemoryOrderly'
    BY <1>1, <1>2 DEF Orderly, MemoryOrderly, BeginDownload, Begin, Memory, Offered, memoryVars,
       Early, Late, Installing
  <1>5. CandidateOrderly'
    BY <1>2 DEF Orderly, CandidateOrderly, BeginDownload, Begin, Snapshot, memoryVars
  <1>6. FileOrderly'
    BY DEF Orderly, FileOrderly, BeginDownload, memoryVars, processVars, Loaded, Surviving
  <1>7. TimeOrderly'
    <2>1. Loaded(file, version).checked = state.checked
      BY <1>1 DEF Orderly, FileOrderly, Surviving, Idle, Snapshot
    <2> QED BY <2>1 DEF Orderly, TimeOrderly, BeginDownload, Begin, Snapshot, memoryVars,
           processVars, Loaded
  <1>8. HelperOrderly'
    BY <1>1 DEF Orderly, HelperOrderly, BeginDownload, memoryVars, processVars, helperVars
  <1> QED BY <1>2, <1>3, <1>4, <1>5, <1>6, <1>7, <1>8 DEF Orderly

LEMMA DownloadingSavedOrderly ==
  ASSUME UpdateAssumption, Orderly, NEW t \in Tasks, DownloadingSaved(t)
  PROVE  Orderly'
  <1>1. pc[t] = "commitDownloading" /\ pc[t] \in Active
    BY DEF DownloadingSaved, Active, Early
  <1>2. lock = t /\ Place = "commitDownloading" /\ app /\ ~installStarted
    BY <1>1, Holder DEF Orderly
  <1>3. OneOperation' /\ Place' = "downloading" /\ lock' \in Tasks \cup {NoTask}
        /\ pc' \in [Tasks -> Places]
    BY <1>2, GotoEffect DEF Orderly, DownloadingSaved, Active, Late, processVars
  <1>4. TypeOK'
    BY <1>3 DEF Orderly, TypeOK, MemoryTypeOK, JobTypeOK, ProcessTypeOK,
       DownloadingSaved, Commit, Written, Memory, Memories, processVars, helperVars
  <1>5. candidate.snapshot.status = "downloading" /\ candidate.snapshot.checked = state.checked
        /\ completed <= candidate.snapshot.checked
    BY <1>2 DEF Orderly, CandidateOrderly, TimeOrderly, Commits
  <1>6. MemoryOrderly'
    <2>1. Offered(stable) /\ stable.state.checked = state.checked /\ manifest # None
      BY <1>2 DEF Orderly, MemoryOrderly, Memory, Early, Late
    <2> QED BY <1>3, <1>5, <2>1 DEF MemoryOrderly, DownloadingSaved, Commit, Written, Offered,
           Early, Late, Installing, processVars
  <1>7. CandidateOrderly'
    BY <1>3 DEF CandidateOrderly
  <1>8. Loaded(file', version) = Idle(candidate.snapshot.checked)
    BY <1>5 DEF DownloadingSaved, Commit, Written, Loaded
  <1>9. FileOrderly'
    BY <1>8 DEF FileOrderly, DownloadingSaved, Commit, processVars
  <1>10. TimeOrderly'
    BY <1>3, <1>5, <1>8 DEF Orderly, TimeOrderly, DownloadingSaved, Commit, Written, Idle,
       Snapshot, processVars, Commits
  <1>11. HelperOrderly'
    BY <1>2 DEF Orderly, HelperOrderly, DownloadingSaved, processVars, helperVars
  <1> QED BY <1>3, <1>4, <1>6, <1>7, <1>9, <1>10, <1>11 DEF Orderly

LEMMA DownloadedOrderly ==
  ASSUME UpdateAssumption, Orderly, NEW t \in Tasks, Downloaded(t)
  PROVE  Orderly'
  <1>1. pc[t] = "downloading" /\ pc[t] \in Active
    BY DEF Downloaded, Active, Late
  <1>2. lock = t /\ Place = "downloading" /\ app /\ ~installStarted
    BY <1>1, Holder DEF Orderly
  <1>3. OneOperation' /\ Place' = "commitDownloaded" /\ lock' \in Tasks \cup {NoTask}
        /\ pc' \in [Tasks -> Places]
    BY <1>2, GotoEffect DEF Orderly, Downloaded, Active, Late, processVars, memoryVars
  <1> DEFINE Answer(c) ==
           /\ c \in [snapshot : Snapshots, manifest : Releases \cup {None}]
           /\ c.snapshot.checked = state.checked
           /\ c.snapshot.status \in {"ready", "failed"}
           /\ c.snapshot.status = "ready" => c.snapshot.release = manifest
  <1>4. Answer(candidate')
    <2>1. /\ state.checked \in Days \cup {Never} /\ manifest \in Releases \cup {None}
          /\ candidate \in [snapshot : Snapshots, manifest : Releases \cup {None}]
      BY DEF Orderly, TypeOK, MemoryTypeOK, JobTypeOK, Memory, Memories, Snapshots
    <2>2. Answer([candidate EXCEPT !.snapshot = Snapshot("ready", manifest, state.checked)])
      BY <2>1 DEF Snapshot, Snapshots, Statuses
    <2>3. Answer([candidate EXCEPT !.snapshot = Snapshot("failed", None, state.checked)])
      BY <2>1, ValueTypes DEF Snapshot, Snapshots, Statuses
    <2> QED BY <2>2, <2>3 DEF Downloaded
  <1>5. TypeOK'
    <2>1. good' \subseteq Releases
      <3>1. manifest \in Releases
        BY <1>2 DEF Orderly, TypeOK, MemoryTypeOK, Memory, Memories, MemoryOrderly
      <3> QED BY <3>1 DEF Orderly, TypeOK, MemoryTypeOK, Downloaded, InstallerReplaced
    <2> QED BY <1>3, <1>4, <2>1 DEF Orderly, TypeOK, MemoryTypeOK, JobTypeOK, ProcessTypeOK,
           Downloaded, Memory, processVars, helperVars, memoryVars
  <1>6. MemoryOrderly'
    BY <1>2, <1>3 DEF Orderly, MemoryOrderly, Downloaded, Early, Late, Installing, processVars,
       memoryVars, Offered
  <1>7. CandidateOrderly'
    BY <1>3, <1>4 DEF CandidateOrderly, Downloaded, memoryVars
  <1>8. FileOrderly'
    BY DEF Orderly, FileOrderly, Downloaded, processVars, memoryVars, Loaded, Surviving
  <1>9. TimeOrderly'
    <2>1. Loaded(file, version).checked = state.checked
      BY <1>2 DEF Orderly, FileOrderly, Surviving, Idle, Snapshot
    <2> QED BY <1>3, <1>4, <2>1 DEF Orderly, TimeOrderly, Downloaded, Commits, processVars,
           memoryVars, Loaded
  <1>10. HelperOrderly'
    BY DEF Orderly, HelperOrderly, Downloaded, processVars, helperVars, memoryVars
  <1> QED BY <1>3, <1>5, <1>6, <1>7, <1>8, <1>9, <1>10 DEF Orderly

LEMMA DownloadSavedOrderly ==
  ASSUME UpdateAssumption, Orderly, NEW t \in Tasks, DownloadSaved(t)
  PROVE  Orderly'
  <1>1. pc[t] = "commitDownloaded" /\ pc[t] \in Active
    BY DEF DownloadSaved, Active, Late
  <1>2. lock = t /\ Place = "commitDownloaded" /\ app /\ ~installStarted
    BY <1>1, Holder DEF Orderly
  <1>3. OneOperation' /\ Place' = "idle" /\ JobTypeOK' /\ candidate' = NoCandidate
    BY <1>1, ReturnEffect DEF Orderly, DownloadSaved
  <1>4. /\ candidate.snapshot \in Snapshots
        /\ candidate.snapshot.status \in {"ready", "failed"}
        /\ candidate.snapshot.status = "ready" => candidate.snapshot.release = manifest
        /\ completed <= candidate.snapshot.checked
    BY <1>2 DEF Orderly, TypeOK, JobTypeOK, CandidateOrderly, TimeOrderly, Commits
  <1>5. TypeOK'
    BY <1>3, <1>4 DEF Orderly, TypeOK, MemoryTypeOK, JobTypeOK, ProcessTypeOK, DownloadSaved,
       Commit, Written, Memory, Memories, Snapshots, processVars, helperVars
  <1>6. MemoryOrderly'
    BY <1>3, <1>4 DEF MemoryOrderly, DownloadSaved, Commit, Memory, Offered, Early, Late,
       Installing
  <1>7. CandidateOrderly'
    BY <1>3 DEF CandidateOrderly
  <1>8. /\ Loaded(file', version).checked = candidate.snapshot.checked
        /\ Loaded(file', version) = Surviving(candidate.snapshot)
    BY <1>4 DEF DownloadSaved, Commit, Written, Loaded, Surviving, Idle, Snapshot
  <1>9. FileOrderly'
    BY <1>8 DEF FileOrderly, DownloadSaved, Commit, processVars
  <1>10. TimeOrderly'
    <2>1. day \in Nat
      BY DEF Orderly, TypeOK, ProcessTypeOK, Days
    <2>2. candidate'.snapshot.checked = 0
      BY <1>3 DEF NoCandidate, Idle, Snapshot, Never
    <2> QED BY <1>3, <1>4, <1>8, <2>1, <2>2 DEF Orderly, TimeOrderly, DownloadSaved, Commit,
           Written, processVars, Commits
  <1>11. HelperOrderly'
    BY <1>2 DEF Orderly, HelperOrderly, DownloadSaved, processVars, helperVars
  <1> QED BY <1>3, <1>5, <1>6, <1>7, <1>9, <1>10, <1>11 DEF Orderly

LEMMA CleanedOrderly ==
  ASSUME UpdateAssumption, Orderly, NEW t \in Tasks, Cleaned(t)
  PROVE  Orderly'
  <1>1. pc[t] = "cleaning" /\ pc[t] \in Active
    BY DEF Cleaned, Active
  <1>2. lock = t /\ Place = "cleaning" /\ app /\ ~installStarted
    BY <1>1, Holder DEF Orderly
  <1>3. OneOperation' /\ Place' = "idle" /\ JobTypeOK' /\ candidate' = NoCandidate
    BY <1>1, ReturnEffect DEF Orderly, Cleaned
  <1>4. TypeOK'
    BY <1>3 DEF Orderly, TypeOK, MemoryTypeOK, ProcessTypeOK, Cleaned, Memory, processVars,
       helperVars, memoryVars
  <1>5. MemoryOrderly'
    BY <1>2, <1>3 DEF Orderly, MemoryOrderly, Cleaned, Memory, memoryVars, Early, Late, Installing
  <1>6. CandidateOrderly' /\ FileOrderly' /\ HelperOrderly'
    BY <1>2, <1>3 DEF Orderly, CandidateOrderly, FileOrderly, HelperOrderly, Cleaned, Loaded,
       Surviving, processVars, memoryVars, helperVars
  <1>7. TimeOrderly'
    <2>1. day \in Nat /\ candidate'.snapshot.checked = 0
      BY <1>3 DEF Orderly, TypeOK, ProcessTypeOK, Days, NoCandidate, Idle, Snapshot, Never
    <2> QED BY <1>3, <2>1 DEF Orderly, TimeOrderly, Cleaned, Loaded, processVars, memoryVars,
           Commits
  <1> QED BY <1>3, <1>4, <1>5, <1>6, <1>7 DEF Orderly

\* What a failed write restores can be offered again, and the file forgets no check.
LEMMA NotSavedOrderly ==
  ASSUME UpdateAssumption, Orderly, NEW t \in Tasks, NotSaved(t)
  PROVE  Orderly'
  <1>1. pc[t] \in Early \cup {"commitChecked", "commitDownloaded"} /\ pc[t] \in Active
    BY DEF NotSaved, Early, Active, Late
  <1>2. lock = t /\ Place = pc[t] /\ app /\ ~installStarted
    BY <1>1, Holder DEF Orderly
  <1>3. /\ OneOperation' /\ JobTypeOK'
        /\ \/ Place' = "idle" /\ candidate' = NoCandidate
           \/ Place' = "cleaning" /\ candidate' = candidate
    <2>1. CASE Return(t)
      BY <1>1, <2>1, ReturnEffect DEF Orderly
    <2>2. CASE Goto(t, "cleaning") /\ UNCHANGED <<lock, stable, candidate>>
      BY <1>2, <2>2, GotoEffect DEF Orderly, NotSaved, processVars, Active, TypeOK, JobTypeOK
    <2> QED BY <2>1, <2>2 DEF NotSaved
  <1>4. \/ pc[t] \in Early /\ UNCHANGED <<state, manifest, installer>>
        \/ pc[t] \in Late /\ Restore
    BY DEF NotSaved, Early, Late
  <1>5. Memory' \in Memories /\ Offered(Memory') /\ state'.checked = state.checked
    <2>1. CASE pc[t] \in Early /\ UNCHANGED <<state, manifest, installer>>
      BY <1>2, <2>1 DEF Orderly, TypeOK, MemoryTypeOK, MemoryOrderly, Memory, Early, Late
    <2>2. CASE pc[t] \in Late /\ Restore
      <3>1. Memory' = stable
        BY <2>2 DEF Restore, Memory, Memories, Orderly, TypeOK, JobTypeOK
      <3> QED BY <1>2, <2>2, <3>1 DEF Orderly, TypeOK, JobTypeOK, MemoryOrderly, Restore
    <2> QED BY <1>4, <2>1, <2>2
  <1>6. TypeOK'
    BY <1>3, <1>5 DEF Orderly, TypeOK, MemoryTypeOK, ProcessTypeOK, NotSaved, processVars,
       helperVars
  <1>7. MemoryOrderly' /\ CandidateOrderly'
    BY <1>3, <1>5 DEF MemoryOrderly, CandidateOrderly, Early, Late, Installing
  <1>8. FileOrderly'
    <2>1. CASE pc[t] \in Early /\ UNCHANGED <<state, manifest, installer>>
      BY <2>1 DEF Orderly, FileOrderly, NotSaved, Loaded, Surviving, processVars
    <2>2. CASE pc[t] \in Late /\ Restore
      <3>1. Loaded(file, version) = Idle(state.checked)
        BY <1>2, <2>2 DEF Orderly, MemoryOrderly, Loaded
      <3> QED BY <1>5, <3>1 DEF FileOrderly, NotSaved, Loaded, processVars
    <2> QED BY <1>4, <2>1, <2>2
  <1>9. TimeOrderly'
    <2>1. day \in Nat /\ NoCandidate.snapshot.checked = 0
      BY DEF Orderly, TypeOK, ProcessTypeOK, Days, NoCandidate, Idle, Snapshot, Never
    <2>2. Place' \notin Commits /\ candidate'.snapshot.checked <= day
      BY <1>3, <2>1 DEF Orderly, TimeOrderly, Commits
    <2> QED BY <1>5, <2>2 DEF Orderly, TimeOrderly, NotSaved, Loaded, processVars
  <1>10. HelperOrderly'
    BY <1>2 DEF Orderly, HelperOrderly, NotSaved, processVars, helperVars
  <1> QED BY <1>3, <1>6, <1>7, <1>8, <1>9, <1>10 DEF Orderly

LEMMA BeginInstallOrderly ==
  ASSUME UpdateAssumption, Orderly, NEW t \in Tasks, BeginInstall(t)
  PROVE  Orderly'
  <1>1. Place = "idle" /\ app /\ ~installStarted /\ lock = NoTask
    BY AdmittedFree DEF Orderly, BeginInstall
  <1>2. OneOperation' /\ Place' = "timing" /\ lock' \in Tasks \cup {NoTask}
        /\ pc' \in [Tasks -> Places]
    BY <1>1, GotoEffect DEF Orderly, BeginInstall, Active, Installing, memoryVars, processVars
  <1>3. TypeOK'
    BY <1>2 DEF Orderly, TypeOK, MemoryTypeOK, JobTypeOK, ProcessTypeOK, BeginInstall, Memory,
       memoryVars, processVars, helperVars
  <1>4. MemoryOrderly'
    BY <1>1, <1>2 DEF Orderly, MemoryOrderly, BeginInstall, Memory, memoryVars, Early, Late,
       Installing
  <1>5. CandidateOrderly' /\ FileOrderly' /\ HelperOrderly' /\ TimeOrderly'
    BY <1>1, <1>2 DEF Orderly, CandidateOrderly, FileOrderly, HelperOrderly, TimeOrderly,
       BeginInstall, Loaded, Surviving, Commits, processVars, memoryVars, helperVars
  <1> QED BY <1>2, <1>3, <1>4, <1>5 DEF Orderly

LEMMA PrepareOrderly ==
  ASSUME UpdateAssumption, Orderly, NEW t \in Tasks, Prepare(t)
  PROVE  Orderly'
  <1>1. pc[t] \in Installing /\ pc[t] \in Active
    BY DEF Prepare, Active, Installing
  <1>2. lock = t /\ Place \in Installing /\ app /\ ~installStarted
    BY <1>1, Holder DEF Orderly
  <1>3. OneOperation' /\ Place' \in {"verifying", "preparing"} /\ lock' \in Tasks \cup {NoTask}
        /\ pc' \in [Tasks -> Places]
    BY <1>2, GotoEffect DEF Orderly, Prepare, Active, Installing, memoryVars, processVars
  <1>4. TypeOK'
    BY <1>3 DEF Orderly, TypeOK, MemoryTypeOK, JobTypeOK, ProcessTypeOK, Prepare, Memory,
       memoryVars, processVars, helperVars
  <1>5. MemoryOrderly'
    BY <1>2, <1>3 DEF Orderly, MemoryOrderly, Prepare, Memory, memoryVars, Early, Late, Installing
  <1>6. CandidateOrderly' /\ FileOrderly' /\ HelperOrderly' /\ TimeOrderly'
    BY <1>2, <1>3 DEF Orderly, CandidateOrderly, FileOrderly, HelperOrderly, TimeOrderly,
       Prepare, Loaded, Surviving, Commits, processVars, memoryVars, helperVars
  <1> QED BY <1>3, <1>4, <1>5, <1>6 DEF Orderly

LEMMA InstallFailsOrderly ==
  ASSUME UpdateAssumption, Orderly, NEW t \in Tasks, InstallFails(t)
  PROVE  Orderly'
  <1>1. pc[t] \in Installing /\ pc[t] \in Active
    BY DEF InstallFails, Active, Installing
  <1>2. lock = t /\ Place \in Installing /\ app /\ ~installStarted
    BY <1>1, Holder DEF Orderly
  <1>3. OneOperation' /\ Place' = "idle" /\ JobTypeOK' /\ candidate' = NoCandidate
    BY <1>1, ReturnEffect DEF Orderly, InstallFails
  <1>4. TypeOK'
    BY <1>3 DEF Orderly, TypeOK, MemoryTypeOK, ProcessTypeOK, InstallFails, Memory, processVars,
       helperVars, memoryVars
  <1>5. MemoryOrderly'
    BY <1>2, <1>3 DEF Orderly, MemoryOrderly, InstallFails, Memory, memoryVars, Early, Late,
       Installing
  <1>6. CandidateOrderly' /\ FileOrderly' /\ HelperOrderly'
    BY <1>2, <1>3 DEF Orderly, CandidateOrderly, FileOrderly, HelperOrderly, InstallFails, Loaded,
       Surviving, processVars, memoryVars, helperVars
  <1>7. TimeOrderly'
    <2>1. day \in Nat /\ candidate'.snapshot.checked = 0
      BY <1>3 DEF Orderly, TypeOK, ProcessTypeOK, Days, NoCandidate, Idle, Snapshot, Never
    <2> QED BY <1>3, <2>1 DEF Orderly, TimeOrderly, InstallFails, Loaded, processVars, memoryVars,
           Commits
  <1> QED BY <1>3, <1>4, <1>5, <1>6, <1>7 DEF Orderly

LEMMA LaunchOrderly ==
  ASSUME UpdateAssumption, Orderly, NEW t \in Tasks, Launch(t)
  PROVE  Orderly'
  <1>1. pc[t] \in Installing /\ pc[t] \in Active
    BY DEF Launch, Active, Installing
  <1>2. lock = t /\ Place \in Installing /\ app /\ ~installStarted
    BY <1>1, Holder DEF Orderly
  <1>3. OneOperation' /\ Place' = "idle" /\ JobTypeOK' /\ candidate' = NoCandidate
    BY <1>1, ReturnEffect DEF Orderly, Launch
  <1>4. state.status = "ready" /\ Offered(Memory)
    BY <1>2 DEF Orderly, MemoryOrderly, Late, Installing
  <1>5. TypeOK'
    BY <1>3 DEF Orderly, TypeOK, MemoryTypeOK, ProcessTypeOK, Launch, Memory, Memories, Phases,
       processVars
  <1>6. MemoryOrderly' /\ CandidateOrderly'
    BY <1>3, <1>4 DEF MemoryOrderly, CandidateOrderly, Launch, Memory, Early, Late, Installing
  <1>7. FileOrderly'
    BY DEF Orderly, FileOrderly, Launch, Loaded, Surviving, processVars
  <1>8. TimeOrderly'
    <2>1. day \in Nat /\ candidate'.snapshot.checked = 0
      BY <1>3 DEF Orderly, TypeOK, ProcessTypeOK, Days, NoCandidate, Idle, Snapshot, Never
    <2> QED BY <1>3, <2>1 DEF Orderly, TimeOrderly, Launch, Loaded, processVars, Commits
  <1>9. HelperOrderly'
    BY <1>2, <1>4 DEF HelperOrderly, Launch, Offered, Memory, processVars
  <1> QED BY <1>3, <1>5, <1>6, <1>7, <1>8, <1>9 DEF Orderly

LEMMA SkipOrderly ==
  ASSUME UpdateAssumption, Orderly, BackgroundSkips
  PROVE  Orderly'
  <1>1. pc' = [pc EXCEPT ![Background] = "over"] /\ pc \in [Tasks -> Places]
        /\ Background \in Tasks /\ pc[Background] = "idle"
    BY DEF BackgroundSkips, Goto, Orderly, TypeOK, JobTypeOK, Tasks
  <1>2. pc' \in [Tasks -> Places] /\ pc'[Background] = "over"
        /\ \A u \in Tasks \ {Background} : pc'[u] = pc[u]
    BY <1>1, PlaceNames
  <1>3. OneOperation' /\ Place' = Place
    BY <1>1, <1>2, PlaceNames DEF Orderly, OneOperation, Place, BackgroundSkips, memoryVars,
       processVars, TypeOK, JobTypeOK
  <1>4. TypeOK'
    BY <1>2 DEF Orderly, TypeOK, MemoryTypeOK, JobTypeOK, ProcessTypeOK, BackgroundSkips, Memory,
       memoryVars, processVars, helperVars
  <1>5. MemoryOrderly'
    BY <1>3 DEF Orderly, MemoryOrderly, BackgroundSkips, Memory, memoryVars, processVars, Offered
  <1>6. CandidateOrderly' /\ FileOrderly' /\ HelperOrderly' /\ TimeOrderly'
    BY <1>3 DEF Orderly, CandidateOrderly, FileOrderly, HelperOrderly, TimeOrderly,
       BackgroundSkips, Loaded, Surviving, processVars, memoryVars, helperVars
  <1> QED BY <1>3, <1>4, <1>5, <1>6 DEF Orderly

-----------------------------------------------------------------------------
(* The process, the helper and time.                                       *)

\* The write that was under way carries the last completed check.
LEMMA EndOrderly ==
  ASSUME UpdateAssumption, Orderly, End
  PROVE  Orderly'
  <1>1. OneOperation' /\ Place' = "idle" /\ lock' = NoTask /\ pc' \in [Tasks -> Places]
    <2>1. pc' \in [Tasks -> Places] /\ \A t \in Tasks : pc'[t] \notin Active
      BY PlaceNames DEF End
    <2> QED BY <2>1, ValueTypes DEF End, OneOperation, Place
  <1>2. \/ file' = file
        \/ Place \in Commits /\ file' = Written
    BY DEF End, Orderly, OneOperation, Place
  <1>3. file' \in [snapshot : Snapshots, version : 0 .. MaxVersion]
    BY <1>2 DEF Written, Orderly, TypeOK, MemoryTypeOK, JobTypeOK, ProcessTypeOK
  <1>4. TypeOK'
    BY <1>1, <1>3, ValueTypes DEF End, Orderly, TypeOK, MemoryTypeOK, JobTypeOK, ProcessTypeOK,
       Memory, Memories
  <1>5. MemoryOrderly' /\ CandidateOrderly' /\ FileOrderly' /\ HelperOrderly'
    BY <1>1 DEF MemoryOrderly, CandidateOrderly, FileOrderly, HelperOrderly, End, Offered, Memory,
       Idle, Snapshot, Early, Late, Installing
  <1>6. TimeOrderly'
    <2>1. day \in Nat /\ Idle(Never).checked = 0 /\ candidate'.snapshot.checked = 0
      BY DEF Orderly, TypeOK, ProcessTypeOK, Days, NoCandidate, Idle, Snapshot, Never, End
    <2>2. file'.snapshot.checked <= day
      BY <1>2 DEF Orderly, TimeOrderly, Written
    <2>3. completed <= Loaded(file', version).checked
      <3>1. CASE file' = file
        BY <3>1 DEF Orderly, TimeOrderly, Loaded
      <3>2. CASE Place \in Commits /\ file' = Written
        <4>1. Loaded(file', version).checked = candidate.snapshot.checked
          BY <3>2 DEF Written, Loaded, Idle, Snapshot
        <4> QED BY <3>2, <4>1 DEF Orderly, TimeOrderly
      <3> QED BY <1>2, <3>1, <3>2
    <2> QED BY <1>1, <2>1, <2>2, <2>3 DEF TimeOrderly, End, Loaded, Commits
  <1> QED BY <1>1, <1>4, <1>5, <1>6 DEF Orderly

\* A new process finds the time of the last check its version completed.
LEMMA StartedOrderly ==
  ASSUME UpdateAssumption, Orderly, NEW v \in 0 .. MaxVersion, ~app, Started(v),
         UNCHANGED <<pid, day, file, good>>,
         helper' \in [phase : {"none", "over"}, release : Releases \cup {None}]
  PROVE  Orderly'
  <1>1. lock = NoTask /\ ~installStarted /\ manifest = None /\ installer = None
    BY DEF Orderly, HelperOrderly
  <1>2. OneOperation' /\ Place' = "idle" /\ pc' \in [Tasks -> Places]
    <2>1. pc' \in [Tasks -> Places] /\ \A t \in Tasks : pc'[t] \notin Active
      BY PlaceNames DEF Started
    <2> QED BY <1>1, <2>1, ValueTypes DEF Started, OneOperation, Place
  <1>3. /\ state' = Loaded(file, v) /\ state' \in Snapshots
        /\ state'.status \in {"idle", "current", "failed"}
    BY LoadedType DEF Started, Orderly, TypeOK, MemoryTypeOK
  <1>4. TypeOK'
    <2>1. MemoryTypeOK'
      BY <1>3 DEF Started, Orderly, TypeOK, MemoryTypeOK, Memory, Memories
    <2>2. JobTypeOK'
      BY <1>2 DEF Started, Orderly, TypeOK, JobTypeOK
    <2>3. ProcessTypeOK'
      BY ValueTypes DEF Started, Orderly, TypeOK, ProcessTypeOK, Phases
    <2> QED BY <2>1, <2>2, <2>3 DEF TypeOK
  <1>5. MemoryOrderly' /\ CandidateOrderly'
    BY <1>2, <1>3 DEF MemoryOrderly, CandidateOrderly, Offered, Memory, Early, Late, Installing
  <1>6. FileOrderly'
    BY <1>3 DEF FileOrderly, Started, Surviving, Loaded
  <1>7. HelperOrderly'
    BY <1>1 DEF HelperOrderly, Started
  <1>8. TimeOrderly'
    <2>1. day \in Nat /\ Idle(Never).checked = 0
      BY DEF Orderly, TypeOK, ProcessTypeOK, Days, Idle, Snapshot, Never
    <2>2. Loaded(file, v).checked \in {0, file.snapshot.checked}
      BY <2>1 DEF Loaded, Idle, Snapshot
    <2>3. Loaded(file, v).checked <= day
      BY <2>1, <2>2 DEF Orderly, TimeOrderly
    <2>4. completed' <= Loaded(file, v).checked
      <3>1. CASE v = version
        BY <3>1 DEF Started, Orderly, TimeOrderly
      <3>2. CASE v # version
        <4>1. Loaded(file, v).checked \in Nat
          BY LoadedType DEF Orderly, TypeOK, MemoryTypeOK, Snapshots, Days, Never
        <4> QED BY <3>2, <4>1 DEF Started, Never
      <3> QED BY <3>1, <3>2
    <2> QED BY <1>2, <1>3, <2>3, <2>4 DEF Orderly, TimeOrderly, Started, Loaded, Commits
  <1> QED BY <1>2, <1>4, <1>5, <1>6, <1>7, <1>8 DEF Orderly

LEMMA StartOrderly ==
  ASSUME UpdateAssumption, Orderly, Start
  PROVE  Orderly'
  BY StartedOrderly DEF Start, Orderly, TypeOK, ProcessTypeOK, helperVars

\* A step of the helper or of another program that leaves the application alone.
LEMMA OutsideOrderly ==
  ASSUME UpdateAssumption, Orderly, UNCHANGED <<processVars, day, memoryVars, jobVars, file>>,
         UNCHANGED completed, good' \subseteq Releases, pid' \in {"app", "free", "other"},
         helper' \in [phase : Phases, release : Releases \cup {None}],
         app => \/ UNCHANGED helperVars
                \/ helper'.phase = "over"
  PROVE  Orderly'
  <1>1. OneOperation' /\ Place' = Place
    BY DEF Orderly, OneOperation, Place, memoryVars, processVars, jobVars
  <1>2. TypeOK'
    BY DEF Orderly, TypeOK, MemoryTypeOK, JobTypeOK, ProcessTypeOK, Memory,
       memoryVars, processVars, jobVars
  <1>3. MemoryOrderly'
    BY <1>1 DEF Orderly, MemoryOrderly, Memory, memoryVars, processVars, jobVars, Offered
  <1>4. CandidateOrderly' /\ FileOrderly' /\ TimeOrderly'
    BY <1>1 DEF Orderly, CandidateOrderly, FileOrderly, TimeOrderly, Loaded, Surviving,
       processVars, memoryVars, jobVars
  <1>5. HelperOrderly'
    BY DEF Orderly, HelperOrderly, processVars, memoryVars, jobVars, helperVars
  <1> QED BY <1>1, <1>2, <1>3, <1>4, <1>5 DEF Orderly

LEMMA WaitedOrderly ==
  ASSUME UpdateAssumption, Orderly, Waited
  PROVE  Orderly'
  <1>1. helper' \in [phase : Phases, release : Releases \cup {None}]
        /\ helper'.phase \in {"verifying", "over"} /\ (pid = "app" => helper'.phase = "over")
    BY DEF Waited, HelperPhase, Orderly, TypeOK, ProcessTypeOK, Phases
  <1>2. app => pid = "app"
    BY DEF Orderly, HelperOrderly, Waited
  <1> QED BY <1>1, <1>2, OutsideOrderly DEF Waited, Orderly, TypeOK, MemoryTypeOK, ProcessTypeOK

LEMMA HelperVerifiedOrderly ==
  ASSUME UpdateAssumption, Orderly, HelperVerified
  PROVE  Orderly'
  <1>1. ~app
    BY DEF Orderly, HelperOrderly, HelperVerified
  <1>2. helper' \in [phase : Phases, release : Releases \cup {None}]
    BY DEF HelperVerified, HelperPhase, Orderly, TypeOK, ProcessTypeOK, Phases
  <1> QED BY <1>1, <1>2, OutsideOrderly DEF HelperVerified, Orderly, TypeOK, MemoryTypeOK,
         ProcessTypeOK

LEMMA HelperInstalledOrderly ==
  ASSUME UpdateAssumption, Orderly, HelperInstalled
  PROVE  Orderly'
  <1>1. ~app
    BY DEF Orderly, HelperOrderly, HelperInstalled
  <1>2. /\ helper' \in [phase : {"none", "over"}, release : Releases \cup {None}]
        /\ helper' \in [phase : Phases, release : Releases \cup {None}]
        /\ helper.release \in 0 .. MaxVersion
    BY ValueTypes DEF HelperInstalled, HelperPhase, Orderly, TypeOK, ProcessTypeOK, Phases
  <1>3. CASE UNCHANGED <<processVars, memoryVars, jobVars, completed>>
    BY <1>1, <1>2, <1>3, OutsideOrderly DEF HelperInstalled, Orderly, TypeOK, MemoryTypeOK,
       ProcessTypeOK
  <1>4. CASE Started(helper.release)
    BY <1>1, <1>2, <1>4, StartedOrderly DEF HelperInstalled
  <1>5. CASE /\ version' = helper.release
             /\ completed' = Never
             /\ UNCHANGED <<app, memoryVars, jobVars>>
    <2>1. OneOperation' /\ lock = NoTask /\ Place' = "idle"
      BY <1>1, <1>5 DEF Orderly, OneOperation, HelperOrderly, Place, memoryVars, jobVars
    <2>2. TypeOK'
      <3>1. MemoryTypeOK' /\ JobTypeOK'
        BY <1>5 DEF Orderly, TypeOK, MemoryTypeOK, JobTypeOK, Memory, memoryVars, jobVars,
           HelperInstalled
      <3>2. ProcessTypeOK'
        BY <1>2, <1>5, ValueTypes DEF Orderly, TypeOK, ProcessTypeOK, HelperInstalled
      <3> QED BY <3>1, <3>2 DEF TypeOK
    <2>3. MemoryOrderly' /\ CandidateOrderly'
      <3>1. Offered(Memory)
        BY <1>1 DEF Orderly, HelperOrderly, MemoryOrderly, Place, Late
      <3> QED BY <1>5, <2>1, <3>1 DEF MemoryOrderly, CandidateOrderly, Offered, Memory, memoryVars,
             Early, Late, Installing
    <2>4. FileOrderly' /\ HelperOrderly'
      BY <1>1, <1>5 DEF Orderly, FileOrderly, HelperOrderly, memoryVars, jobVars
    <2>5. TimeOrderly'
      <3>1. Loaded(file, helper.release).checked \in Nat
        BY LoadedType DEF Orderly, TypeOK, MemoryTypeOK, Snapshots, Days, Never
      <3>2. Loaded(file, helper.release)' = Loaded(file, helper.release)
            /\ Loaded(file, version)' = Loaded(file, helper.release)
        BY <1>5 DEF Loaded, HelperInstalled, HelperPhase, Orderly, TypeOK, ProcessTypeOK
      <3> QED BY <1>5, <2>1, <3>1, <3>2 DEF Orderly, TimeOrderly, HelperInstalled, memoryVars,
             jobVars, Never, Commits
    <2> QED BY <2>1, <2>2, <2>3, <2>4, <2>5 DEF Orderly
  <1> QED BY <1>3, <1>4, <1>5 DEF HelperInstalled

\* An identifier is free only when the application has ended.
LEMMA PidReusedOrderly ==
  ASSUME UpdateAssumption, Orderly, PidReused
  PROVE  Orderly'
  <1>1. ~app
    BY DEF Orderly, HelperOrderly, PidReused
  <1> QED BY <1>1, OutsideOrderly DEF PidReused, Orderly, TypeOK, MemoryTypeOK, ProcessTypeOK

LEMMA SpoilOrderly ==
  ASSUME UpdateAssumption, Orderly, Spoil
  PROVE  Orderly'
  <1>1. good' \subseteq Releases
    BY DEF Spoil, Orderly, TypeOK, MemoryTypeOK
  <1> QED BY <1>1, OutsideOrderly DEF Spoil, Orderly, TypeOK, ProcessTypeOK, helperVars

LEMMA TimeOrderlyPasses ==
  ASSUME UpdateAssumption, Orderly, TimePasses
  PROVE  Orderly'
  <1>1. OneOperation' /\ Place' = Place
    BY DEF Orderly, OneOperation, Place, TimePasses, memoryVars, processVars, jobVars
  <1>2. day \in Nat /\ day' = day + 1 /\ day' \in Days
    BY DEF UpdateAssumption, Orderly, TypeOK, ProcessTypeOK, Days, TimePasses
  <1>3. TypeOK'
    BY <1>2 DEF Orderly, TypeOK, MemoryTypeOK, JobTypeOK, ProcessTypeOK, Memory, TimePasses,
       memoryVars, processVars, jobVars, helperVars
  <1>4. MemoryOrderly'
    BY <1>1 DEF Orderly, MemoryOrderly, Memory, memoryVars, processVars, jobVars, Offered,
       TimePasses
  <1>5. CandidateOrderly' /\ FileOrderly' /\ HelperOrderly'
    BY <1>1 DEF Orderly, CandidateOrderly, FileOrderly, HelperOrderly, Loaded, Surviving,
       processVars, memoryVars, jobVars, helperVars, TimePasses
  <1>6. TimeOrderly'
    <2>1. /\ state.checked \in Nat /\ file.snapshot.checked \in Nat
          /\ candidate.snapshot.checked \in Nat
      BY DEF Orderly, TypeOK, MemoryTypeOK, JobTypeOK, Memory, Memories, Snapshots, Days, Never
    <2>2. /\ state.checked <= day' /\ file.snapshot.checked <= day'
          /\ candidate.snapshot.checked <= day'
      BY <1>2, <2>1 DEF Orderly, TimeOrderly
    <2> QED BY <1>1, <2>2 DEF Orderly, TimeOrderly, Loaded, TimePasses, processVars, memoryVars,
           jobVars
  <1> QED BY <1>1, <1>3, <1>4, <1>5, <1>6 DEF Orderly

-----------------------------------------------------------------------------
(* Every step, and the theorems.                                           *)

LEMMA OrderlyUnchanged ==
  ASSUME UpdateAssumption, Orderly, UNCHANGED vars
  PROVE  Orderly'
  BY OutsideOrderly DEF vars, Orderly, TypeOK, MemoryTypeOK, ProcessTypeOK, helperVars

LEMMA CompletionOrderly ==
  ASSUME UpdateAssumption, Orderly, NEW t \in Tasks, Completion(t)
  PROVE  Orderly'
  BY CheckingSavedOrderly, CheckedOrderly, CheckSavedOrderly, DownloadingSavedOrderly,
     DownloadedOrderly, DownloadSavedOrderly, CleanedOrderly, NotSavedOrderly, PrepareOrderly,
     InstallFailsOrderly, LaunchOrderly
     DEF Completion

LEMMA StepOrderly ==
  ASSUME UpdateAssumption, Orderly, [Next]_vars
  PROVE  Orderly'
  <1>1. CASE UNCHANGED vars
    BY <1>1, OrderlyUnchanged
  <1>2. ASSUME NEW t \in Tasks,
               BeginCheck(t) \/ BeginDownload(t) \/ BeginInstall(t) \/ Completion(t)
        PROVE  Orderly'
    BY <1>2, BeginCheckOrderly, BeginDownloadOrderly, BeginInstallOrderly, CompletionOrderly
  <1>3. CASE BackgroundSkips
    BY <1>3, SkipOrderly
  <1>4. CASE End \/ Start
    BY <1>4, EndOrderly, StartOrderly
  <1>5. CASE HelperStep
    BY <1>5, WaitedOrderly, HelperVerifiedOrderly, HelperInstalledOrderly DEF HelperStep
  <1>6. CASE PidReused \/ Spoil \/ TimePasses
    BY <1>6, PidReusedOrderly, SpoilOrderly, TimeOrderlyPasses
  <1> QED BY <1>1, <1>2, <1>3, <1>4, <1>5, <1>6 DEF Next

LEMMA InitOrderly ==
  ASSUME UpdateAssumption, Init
  PROVE  Orderly
  <1>1. lock = NoTask /\ Place = "idle" /\ pc \in [Tasks -> Places]
        /\ \A t \in Tasks : pc[t] \notin Active
    BY PlaceNames DEF Init, Place
  <1>2. Idle(Never) \in Snapshots /\ 0 \in 0 .. MaxVersion /\ 1 \in Days
    <2>1. Idle(Never) \in Snapshots
      BY ValueTypes
    <2>2. 0 \in 0 .. MaxVersion /\ 1 \in 1 .. MaxDays
      BY DEF UpdateAssumption
    <2> QED BY <2>1, <2>2 DEF Days
  <1>3. MemoryTypeOK
    BY <1>2, ValueTypes DEF Init, MemoryTypeOK, Memory, Memories
  <1>4. JobTypeOK
    BY <1>1, ValueTypes DEF Init, JobTypeOK
  <1>5. ProcessTypeOK
    BY <1>2, ValueTypes DEF Init, ProcessTypeOK, Phases
  <1>6. OneOperation
    BY <1>1 DEF OneOperation
  <1>7. MemoryOrderly /\ CandidateOrderly
    BY <1>1 DEF Init, MemoryOrderly, CandidateOrderly, Offered, Memory, Idle, Snapshot, Early,
       Late, Installing
  <1>8. Loaded(file, version) = Idle(Never) /\ Idle(Never).checked = 0
    BY DEF Init, Loaded, Idle, Snapshot, Never
  <1>9. FileOrderly /\ HelperOrderly
    BY <1>8 DEF Init, FileOrderly, HelperOrderly, Surviving, Idle, Snapshot
  <1>10. TimeOrderly
    BY <1>1, <1>8 DEF Init, TimeOrderly, Commits, NoCandidate, Never
  <1> QED BY <1>3, <1>4, <1>5, <1>6, <1>7, <1>9, <1>10 DEF Orderly, TypeOK

\* The inductive invariant: whatever fails or ends, wherever an operation is
\* suspended, memory, file and candidate belong together.
THEOREM Orderliness == Spec => []Orderly
  <1>1. Init => Orderly
    BY UpdateAssumption, InitOrderly
  <1>2. Orderly /\ [Next]_vars => Orderly'
    BY UpdateAssumption, StepOrderly
  <1> QED BY <1>1, <1>2, PTL DEF Spec

\* Every variable keeps its type.
THEOREM UpdateTypes == Spec => []TypeOK
  <1>1. Orderly => TypeOK
    BY DEF Orderly
  <1> QED BY <1>1, Orderliness, PTL

\* What the state offers between two operations can be done, whichever write of
\* update/service.py failed before: _restore_stable_state() restores all of it.
THEOREM OffersAreTrue == Spec => []OfferIsTrue
  <1>1. Orderly => OfferIsTrue
    BY DEF Orderly, MemoryOrderly, OfferIsTrue, Settled, Offered, Memory, Place, Late
  <1> QED BY <1>1, Orderliness, PTL

\* What the helper waits to install is what the application shows: an operation is
\* admitted by _raise_if_installing() only while no installation is pending.
THEOREM InstallsShown == Spec => []InstallsWhatIsShown
  <1>1. Orderly => InstallsWhatIsShown
    BY DEF Orderly, HelperOrderly, InstallsWhatIsShown
  <1> QED BY <1>1, Orderliness, PTL

\* _load_state() of the next process gives what was shown, without an offer: every
\* write that failed left both the file and the memory as they were before.
THEOREM RestartKeeps == Spec => []RestartForgetsOnlyTheOffer
  <1>1. Orderly => RestartForgetsOnlyTheOffer
    BY DEF Orderly, FileOrderly, RestartForgetsOnlyTheOffer, Settled
  <1> QED BY <1>1, Orderliness, PTL

\* automatic_check() asks no server about a day of which a check was completed.
THEOREM AutomaticChecksAreRare == Spec => AutomaticCheckIsRare
  <1> DEFINE Rare == pc[Background] # "commitChecking" /\ pc'[Background] = "commitChecking"
                     => completed # day
  <1>1. ASSUME Orderly, [Next]_vars
        PROVE  [Rare]_vars
    <2>1. ASSUME pc[Background] # "commitChecking", pc'[Background] = "commitChecking"
          PROVE  BeginCheck(Background)
      <3>1. Background \in Tasks /\ pc \in [Tasks -> Places]
        BY <1>1 DEF Tasks, Orderly, TypeOK, JobTypeOK
      <3>2. ASSUME NEW t \in Tasks, NEW place, Goto(t, place), place # "commitChecking"
            PROVE  FALSE
        BY <2>1, <3>1, <3>2 DEF Goto
      <3>3. ASSUME NEW t \in Tasks, Return(t)
            PROVE  FALSE
        BY <2>1, <3>1, <3>3 DEF Return
      <3>4. pc' # pc
        BY <2>1
      <3>5. ASSUME NEW t \in Tasks, Completion(t)
            PROVE  FALSE
        BY <3>2, <3>3, <3>5 DEF Completion, CheckingSaved, Checked, CheckSaved, DownloadingSaved,
           Downloaded, DownloadSaved, Cleaned, NotSaved, Prepare, InstallFails, Launch
      <3>6. ASSUME NEW t \in Tasks, BeginDownload(t) \/ BeginInstall(t)
            PROVE  FALSE
        BY <3>2, <3>6 DEF BeginDownload, BeginInstall, Begin
      <3>7. ASSUME NEW t \in Tasks, BeginCheck(t)
            PROVE  t = Background
        BY <2>1, <3>1, <3>7 DEF BeginCheck, Begin, Goto
      <3>8. ~BackgroundSkips
        BY <3>1, <3>2 DEF BackgroundSkips
      <3>9. ~End /\ ~Start /\ ~HelperInstalled
        BY <2>1, <3>1, <3>4 DEF End, Start, Started, HelperInstalled, jobVars
      <3>10. ~Waited /\ ~HelperVerified /\ ~PidReused /\ ~Spoil /\ ~TimePasses
        BY <3>4 DEF Waited, HelperVerified, PidReused, Spoil, TimePasses, jobVars
      <3> QED BY <1>1, <3>4, <3>5, <3>6, <3>7, <3>8, <3>9, <3>10
             DEF Next, HelperStep, vars, jobVars
    <2>2. ASSUME BeginCheck(Background)
          PROVE  completed # day
      <3>1. Place = "idle" /\ app /\ state.checked # day
        BY <2>2, UpdateAssumption, AdmittedFree DEF Orderly, BeginCheck, Tasks, Admitted, Place
      <3>2. Loaded(file, version).checked = state.checked
        BY <1>1, <3>1 DEF Orderly, FileOrderly, Surviving, Idle, Snapshot
      <3>3. completed <= state.checked /\ state.checked <= day
        BY <1>1, <3>2 DEF Orderly, TimeOrderly
      <3>4. completed \in Nat /\ state.checked \in Nat /\ day \in Nat
        BY <1>1 DEF Orderly, TypeOK, ProcessTypeOK, MemoryTypeOK, Memory, Memories, Snapshots,
           Days, Never
      <3> QED BY <3>1, <3>3, <3>4
    <2> QED BY <2>1, <2>2
  <1> QED BY <1>1, Orderliness, PTL DEF Spec, AutomaticCheckIsRare
=============================================================================
