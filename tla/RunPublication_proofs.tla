------------------------ MODULE RunPublication_proofs ------------------------
(***************************************************************************)
(* Proofs about RunPublication: PublicationInv is inductive, and with it   *)
(* the safety properties that TLC checks on three runs hold for any number *)
(* of runs, processes and observations and any retention limit.  And       *)
(* RunPublication implements RunLifecycle: whatever the pipeline, the      *)
(* rescheduler, a crash or an error does to files, rows and the canonical  *)
(* path, the registry readers see takes one legal step of the run          *)
(* lifecycle, or none.                                                     *)
(***************************************************************************)
EXTENDS RunPublication, TLAPS

USE DEF canon

\* Run identifiers number the private files; 0 is neither a run nor private.
LEMMA Identifiers ==
    /\ Runs \subseteq Inodes /\ 0 \in Inodes
    /\ NoRun \notin Runs /\ NoProc \notin Procs
    /\ Runs \subseteq Nat /\ NoRun \in Nat
    /\ \A r \in Runs : r + 1 \in 1..(MaxRun + 1)
  BY PublicationAssumption DEF Runs, Inodes, NoRun

-----------------------------------------------------------------------------
(* What the registry operators of Lineage return.                          *)

Registries == [Runs -> Statuses \cup {NoRow}]

LEMMA RegistryOperators ==
    ASSUME NEW reg \in Registries, NEW r
    PROVE  /\ Started(reg, r) \in Registries
           /\ Promoted(reg, r) \in Registries
           /\ \A s \in Statuses : Updated(reg, r, s) \in Registries
           /\ \A old : Pruned(reg, old) \in Registries
  BY DEF Registries, Started, Promoted, Updated, Pruned, Statuses, NoRow

\* Retention chooses among the rows that are not ACTIVE.
LEMMA OldRunsAreOld ==
    ASSUME NEW reg \in Registries, NEW n, NEW kept, NEW old \in OldRuns(reg, n, kept)
    PROVE  old \subseteq Runs /\ \A r \in old : reg[r] # "ACTIVE"
  BY DEF OldRuns, Rows, Active, Registries

-----------------------------------------------------------------------------
(* Type correctness.                                                       *)

LEMMA TypeInit == Init => TypeOK
  BY PublicationAssumption
     DEF Init, TypeOK, RowStates, BundleStates, Labels, Statuses, NoRow, Runs, Inodes, NoRun

LEMMA TypeStart ==
    ASSUME TypeOK, NEW p \in Procs, Begin(p)
    PROVE  TypeOK'
  <1>1. UNCHANGED <<status, rows, feedback, path, bundle, handle, doomed, recorded>>
    BY DEF Begin, StartPipeline, StartReschedule, StartFeedback,
           dbVars, fileVars, localVars, historyVars
  <1>2. owner' = p /\ pc' \in [Procs -> Labels]
    BY DEF TypeOK, Begin, StartPipeline, StartReschedule, StartFeedback, Enter, Goto, Labels
  <1>3. run' \in [Procs -> Runs \cup {NoRun}] /\ nextRun' \in 1..(MaxRun + 1)
    BY Identifiers
       DEF TypeOK, Begin, StartPipeline, StartReschedule, StartFeedback, TakeRun,
           localVars, historyVars
  <1> QED BY <1>1, <1>2, <1>3 DEF TypeOK

\* Where a process is, and what it holds.
LocalTypes ==
    /\ owner \in Procs \cup {NoProc}
    /\ pc \in [Procs -> Labels]
    /\ run \in [Procs -> Runs \cup {NoRun}]
    /\ handle \in [Procs -> Inodes]
    /\ doomed \in [Procs -> SUBSET Runs]

\* The database files and the bundles.
FileTypes ==
    /\ status \in [Inodes -> Registries]
    /\ rows \in [Inodes -> [Runs -> RowStates]]
    /\ feedback \in [Inodes -> [Feedback -> Runs \cup {NoRun}]]
    /\ path \in Inodes
    /\ bundle \in [Runs -> BundleStates]

HistoryTypes ==
    /\ nextRun \in 1..(MaxRun + 1)
    /\ recorded \in [Feedback -> Runs \cup {NoRun}]

LEMMA TypeGroups == TypeOK <=> LocalTypes /\ FileTypes /\ HistoryTypes
  BY DEF TypeOK, LocalTypes, FileTypes, HistoryTypes, Registries

LEMMA TypeGroupsNext == TypeOK' <=> LocalTypes' /\ FileTypes' /\ HistoryTypes'
  BY DEF TypeOK, LocalTypes, FileTypes, HistoryTypes, Registries

LEMMA LeaveTypes ==
    ASSUME LocalTypes, NEW p \in Procs, NEW from, Leave(p, from)
    PROVE  LocalTypes'
  <1>1. "idle" \in Labels
    BY DEF Labels
  <1> QED BY <1>1, Identifiers DEF LocalTypes, Leave, Goto

LEMMA SetStatusTypes ==
    ASSUME FileTypes, NEW i \in Inodes, NEW reg \in Registries, SetStatus(i, reg)
    PROVE  status' \in [Inodes -> Registries]
  BY DEF FileTypes, SetStatus

LEMMA FillRowsTypes ==
    ASSUME FileTypes, NEW i \in Inodes, NEW r, FillRows(i, r)
    PROVE  rows' \in [Inodes -> [Runs -> RowStates]]
  <1>1. PICK content \in {"inputs", "full"} : rows' = [rows EXCEPT ![i][r] = content]
    BY DEF FillRows
  <1>2. rows[i] \in [Runs -> RowStates]
    BY DEF FileTypes
  <1>3. [rows[i] EXCEPT ![r] = content] \in [Runs -> RowStates]
    BY <1>2 DEF RowStates
  <1>4. rows' = [rows EXCEPT ![i] = [rows[i] EXCEPT ![r] = content]]
    BY <1>1
  <1> QED BY <1>3, <1>4 DEF FileTypes

LEMMA GotoTypes ==
    ASSUME LocalTypes, NEW p \in Procs, NEW from, NEW to \in Labels, Goto(p, from, to)
    PROVE  pc' \in [Procs -> Labels]
  BY DEF LocalTypes, Goto

\* Every label a step goes to is one.
LEMMA LabelNames ==
    /\ {"idle", "copy", "stages", "bundle", "seal", "promote", "replace"} \subseteq Labels
    /\ {"retain", "sweep", "failing", "baseline", "create", "persist"} \subseteq Labels
    /\ {"audit", "advance", "decide", "reseal", "activate", "open", "record"} \subseteq Labels
  BY DEF Labels

LEMMA LocalTypesPipeline ==
    ASSUME LocalTypes, FileTypes, NEW p \in Procs, PipelineStep(p)
    PROVE  LocalTypes'
  <1>1. CASE \/ SweepBundles(p) \/ SkipRetention(p) \/ AbortCopy(p) \/ RecordFailure(p)
    BY <1>1, LeaveTypes DEF SweepBundles, SkipRetention, AbortCopy, RecordFailure
  <1>2. CASE \/ ValidateRun(p) \/ ExportBundle(p) \/ SealBundle(p) \/ PromoteStaged(p)
             \/ ReplaceCanonical(p)
    <2>1. pc' \in [Procs -> Labels]
      BY <1>2, GotoTypes, LabelNames
         DEF ValidateRun, ExportBundle, SealBundle, PromoteStaged, ReplaceCanonical
    <2>2. UNCHANGED <<owner, localVars>>
      BY <1>2 DEF ValidateRun, ExportBundle, SealBundle, PromoteStaged, ReplaceCanonical
    <2> QED BY <2>1, <2>2 DEF LocalTypes, localVars
  <1>3. CASE CopyCanonical(p)
    <2>1. pc' \in [Procs -> Labels]
      BY <1>3, GotoTypes, LabelNames DEF CopyCanonical
    <2> QED BY <1>3, <2>1, Identifiers DEF CopyCanonical, LocalTypes, NoRun
  <1>4. CASE RunStages(p)
    BY <1>4 DEF RunStages, LocalTypes, localVars
  <1>5. CASE PruneRows(p)
    <2>1. pc' \in [Procs -> Labels]
      BY <1>5, GotoTypes, LabelNames DEF PruneRows
    <2>2. \A old \in OldRuns(canon, KeepLastN, {ReferenceRun}) : old \subseteq Runs
      BY OldRunsAreOld DEF FileTypes
    <2> QED BY <1>5, <2>1, <2>2 DEF PruneRows, LocalTypes
  <1>6. CASE FailPipeline(p)
    <2>1. pc' \in [Procs -> Labels]
      BY <1>6, LabelNames DEF FailPipeline, LocalTypes
    <2> QED BY <1>6, <2>1 DEF FailPipeline, LocalTypes, localVars
  <1> QED BY <1>1, <1>2, <1>3, <1>4, <1>5, <1>6 DEF PipelineStep

LEMMA LocalTypesOthers ==
    ASSUME LocalTypes, FileTypes, NEW p \in Procs,
           RescheduleStep(p) \/ FeedbackStep(p) \/ Crash(p)
    PROVE  LocalTypes'
  <1>1. CASE \/ AbandonReschedule(p) \/ AbortPersist(p) \/ ActivateVersion(p)
             \/ FailVersion(p) \/ RecordFeedback(p) \/ RejectFeedback(p) \/ Crash(p)
    BY <1>1, LeaveTypes
       DEF AbandonReschedule, AbortPersist, ActivateVersion, FailVersion,
           RecordFeedback, RejectFeedback, Crash
  <1>2. CASE \/ CreateVersion(p) \/ PersistSchedule(p) \/ PersistAudit(p)
             \/ FillVersionBundle(p) \/ SealVersion(p)
    <2>1. pc' \in [Procs -> Labels]
      BY <1>2, GotoTypes, LabelNames
         DEF CreateVersion, PersistSchedule, PersistAudit, FillVersionBundle, SealVersion
    <2>2. UNCHANGED <<owner, localVars>>
      BY <1>2 DEF CreateVersion, PersistSchedule, PersistAudit, FillVersionBundle, SealVersion
    <2> QED BY <2>1, <2>2 DEF LocalTypes, localVars
  <1>3. CASE AdvanceVersion(p)
    <2>1. pc' \in [Procs -> Labels]
      BY <1>3, GotoTypes, LabelNames DEF AdvanceVersion
    <2> QED BY <1>3, <2>1 DEF AdvanceVersion, LocalTypes, localVars
  <1>4. CASE ReadBaseline(p) \/ OpenCanonical(p)
    <2>1. pc' \in [Procs -> Labels]
      BY <1>4, GotoTypes, LabelNames DEF ReadBaseline, OpenCanonical
    <2> QED BY <1>4, <2>1 DEF ReadBaseline, OpenCanonical, LocalTypes, FileTypes
  <1> QED BY <1>1, <1>2, <1>3, <1>4 DEF RescheduleStep, FeedbackStep

LEMMA FileTypesPipeline ==
    ASSUME LocalTypes, FileTypes, NEW p \in Procs, PipelineStep(p)
    PROVE  FileTypes' /\ UNCHANGED historyVars
  <1>0. /\ run[p] \in Inodes /\ path \in Inodes
        /\ status[run[p]] \in Registries /\ status[path] \in Registries
    BY Identifiers DEF LocalTypes, FileTypes, NoRun
  <1>1. CASE \/ SkipRetention(p) \/ AbortCopy(p)
    BY <1>1 DEF SkipRetention, AbortCopy, FileTypes, HistoryTypes, dbVars, fileVars,
                historyVars
  <1>2. CASE ExportBundle(p) \/ SealBundle(p) \/ SweepBundles(p)
    BY <1>2 DEF ExportBundle, SealBundle, SweepBundles, FileTypes, HistoryTypes, dbVars,
                historyVars, BundleStates
  <1>3. CASE ReplaceCanonical(p)
    BY <1>0, <1>3 DEF ReplaceCanonical, FileTypes, HistoryTypes, dbVars, historyVars
  <1>4. CASE CopyCanonical(p)
    <2>1. status' \in [Inodes -> Registries]
      BY <1>0, <1>4 DEF CopyCanonical, SetStatus, Started, FileTypes, Registries, Statuses
    <2> QED BY <1>0, <1>4, <2>1 DEF CopyCanonical, FileTypes, HistoryTypes, fileVars, historyVars
  <1>5. CASE RunStages(p) \/ ValidateRun(p) \/ PromoteStaged(p)
    <2>1. \E reg \in Registries : SetStatus(run[p], reg)
      BY <1>0, <1>5, RegistryOperators DEF RunStages, ValidateRun, PromoteStaged, Statuses
    <2>2. status' \in [Inodes -> Registries]
      BY <1>0, <2>1, SetStatusTypes
    <2>3. UNCHANGED rows \/ FillRows(run[p], run[p])
      BY <1>5 DEF RunStages, ValidateRun, PromoteStaged
    <2>4. rows' \in [Inodes -> [Runs -> RowStates]]
      BY <1>0, <2>3, FillRowsTypes DEF FileTypes
    <2> QED BY <1>5, <2>2, <2>4
               DEF RunStages, ValidateRun, PromoteStaged, FileTypes, HistoryTypes, fileVars,
                   historyVars
  <1>6. CASE PruneRows(p)
    <2>1. status' \in [Inodes -> Registries]
      BY <1>6 DEF PruneRows, SetStatus, Pruned, FileTypes, Registries
    <2>2. rows' \in [Inodes -> [Runs -> RowStates]]
      BY <1>6 DEF PruneRows, FileTypes, RowStates
    <2>3. feedback' \in [Inodes -> [Feedback -> Runs \cup {NoRun}]]
      BY <1>6 DEF PruneRows, FileTypes
    <2> QED BY <1>6, <2>1, <2>2, <2>3
               DEF PruneRows, FileTypes, HistoryTypes, fileVars, historyVars
  <1>7. CASE FailPipeline(p) \/ RecordFailure(p)
    <2>1. \E reg \in Registries : SetStatus(path, reg)
      <3>1. [canon EXCEPT ![run[p]] = "INITIALIZED"] \in Registries
        BY <1>0 DEF Registries, Statuses
      <3>2. Updated(canon, run[p], "FAILED") \in Registries
        BY <1>0, RegistryOperators DEF Statuses
      <3> QED BY <1>0, <1>7, <3>1, <3>2 DEF FailPipeline, RecordFailure
    <2>2. status' \in [Inodes -> Registries]
      BY <1>0, <2>1, SetStatusTypes
    <2> QED BY <1>7, <2>2
               DEF FailPipeline, RecordFailure, FileTypes, HistoryTypes, fileVars, historyVars
  <1> QED BY <1>1, <1>2, <1>3, <1>4, <1>5, <1>6, <1>7 DEF PipelineStep

LEMMA FileTypesReschedule ==
    ASSUME LocalTypes, FileTypes, NEW p \in Procs, RescheduleStep(p)
    PROVE  FileTypes' /\ UNCHANGED historyVars
  <1>0. handle[p] \in Inodes /\ status[handle[p]] \in Registries
    BY DEF LocalTypes, FileTypes
  <1>1. CASE \/ ReadBaseline(p) \/ AbandonReschedule(p) \/ PersistSchedule(p)
             \/ AbortPersist(p)
    BY <1>1 DEF ReadBaseline, AbandonReschedule, PersistSchedule, AbortPersist, FileTypes,
                HistoryTypes, dbVars, fileVars, historyVars
  <1>2. CASE FillVersionBundle(p) \/ SealVersion(p)
    BY <1>2 DEF FillVersionBundle, SealVersion, FileTypes, HistoryTypes, dbVars,
                historyVars, BundleStates
  <1>3. CASE CreateVersion(p) \/ PersistAudit(p)
    <2>1. status' \in [Inodes -> Registries]
      <3>1. CASE CreateVersion(p)
        BY <1>0, <3>1, SetStatusTypes, RegistryOperators DEF CreateVersion
      <3> QED BY <1>3, <3>1 DEF PersistAudit, FileTypes
    <2>2. rows' \in [Inodes -> [Runs -> RowStates]]
      <3>1. CASE CreateVersion(p)
        BY <1>0, <3>1 DEF CreateVersion, FileTypes, RowStates
      <3>2. CASE PersistAudit(p)
        BY <1>0, <3>2, FillRowsTypes DEF PersistAudit
      <3> QED BY <1>3, <3>1, <3>2
    <2> QED BY <1>3, <2>1, <2>2
               DEF CreateVersion, PersistAudit, FileTypes, HistoryTypes, fileVars, historyVars
  <1>4. CASE AdvanceVersion(p) \/ ActivateVersion(p) \/ FailVersion(p)
    <2>1. \E reg \in Registries : SetStatus(handle[p], reg)
      BY <1>0, <1>4, RegistryOperators
         DEF AdvanceVersion, ActivateVersion, FailVersion, Statuses
    <2>2. status' \in [Inodes -> Registries]
      BY <1>0, <2>1, SetStatusTypes
    <2> QED BY <1>4, <2>2
               DEF AdvanceVersion, ActivateVersion, FailVersion, FileTypes, HistoryTypes,
                   fileVars, historyVars
  <1> QED BY <1>1, <1>2, <1>3, <1>4 DEF RescheduleStep

LEMMA TypeStep ==
    ASSUME TypeOK, NEW p \in Procs, Step(p) \/ Crash(p)
    PROVE  TypeOK'
  <1>1. LocalTypes /\ FileTypes /\ HistoryTypes
    BY TypeGroups
  <1>2. CASE PipelineStep(p)
    <2>1. LocalTypes' /\ FileTypes' /\ UNCHANGED historyVars
      BY <1>1, <1>2, LocalTypesPipeline, FileTypesPipeline
    <2> QED BY <1>1, <2>1, TypeGroupsNext DEF HistoryTypes, historyVars
  <1>3. CASE RescheduleStep(p)
    <2>1. LocalTypes' /\ FileTypes' /\ UNCHANGED historyVars
      BY <1>1, <1>3, LocalTypesOthers, FileTypesReschedule
    <2> QED BY <1>1, <2>1, TypeGroupsNext DEF HistoryTypes, historyVars
  <1>4. CASE FeedbackStep(p)
    <2>1. LocalTypes'
      BY <1>1, <1>4, LocalTypesOthers
    <2>2. FileTypes'
      <3>1. CASE RecordFeedback(p)
        BY <1>1, <3>1 DEF RecordFeedback, LocalTypes, FileTypes, fileVars
      <3>2. CASE OpenCanonical(p) \/ RejectFeedback(p)
        BY <1>1, <3>2 DEF OpenCanonical, RejectFeedback, FileTypes, dbVars, fileVars
      <3> QED BY <1>4, <3>1, <3>2 DEF FeedbackStep
    <2>3. HistoryTypes'
      BY <1>1, <1>4 DEF FeedbackStep, OpenCanonical, RecordFeedback, RejectFeedback,
                        HistoryTypes, historyVars
    <2> QED BY <2>1, <2>2, <2>3, TypeGroupsNext
  <1>5. CASE Crash(p)
    <2>1. LocalTypes'
      BY <1>1, <1>5, LocalTypesOthers
    <2> QED BY <1>1, <1>5, <2>1, TypeGroupsNext
               DEF Crash, FileTypes, HistoryTypes, dbVars, fileVars, historyVars
  <1> QED BY <1>2, <1>3, <1>4, <1>5 DEF Step

LEMMA TypeNext == TypeOK /\ [Next]_vars => TypeOK'
  <1> SUFFICES ASSUME TypeOK, [Next]_vars PROVE TypeOK'
    OBVIOUS
  <1>1. CASE UNCHANGED vars
    BY <1>1 DEF TypeOK, vars, dbVars, fileVars, localVars, historyVars
  <1>2. CASE Next
    BY <1>2, TypeStart, TypeStep DEF Next
  <1> QED BY <1>1, <1>2

\* TypeOK: every variable of the publication protocol keeps its type.
THEOREM TypeCorrect == Spec => []TypeOK
  BY TypeInit, TypeNext, PTL DEF Spec

-----------------------------------------------------------------------------
(* The inductive invariant.                                                *)

Local(p) == OwnRun(p) /\ PipelineAt(p) /\ VersionAt(p)

LEMMA PublicationInit == Init => PublicationInv
  <1> SUFFICES ASSUME Init PROVE PublicationInv
    OBVIOUS
  <1>1. TypeOK
    BY TypeInit
  <1>2. Mutex /\ FreshRuns
    BY Identifiers DEF Init, Mutex, FreshRuns, NoRun
  <1>3. Sound(path)
    BY Identifiers DEF Init, Sound, Whole, KeepsFeedback, Attributed, OneActive, NoRow
  <1>4. \A p \in Procs : Local(p)
    BY DEF Init, Local, OwnRun, PipelineAt, VersionAt
  <1> QED BY <1>1, <1>2, <1>3, <1>4 DEF PublicationInv, Local

\* How a step moves its process.
LEMMA LeaveMoves ==
    ASSUME NEW p, NEW from, Leave(p, from)
    PROVE  pc' = [pc EXCEPT ![p] = "idle"] /\ owner' = NoProc
  BY DEF Leave, Goto

\* It enters the lock, moves on inside it, or leaves it.
Moved(p) ==
    \E x : /\ pc' = [pc EXCEPT ![p] = x]
           /\ \/ x = "idle" /\ owner' = NoProc
              \/ pc[p] # "idle" /\ owner' = owner
              \/ pc[p] = "idle" /\ owner' = p

LEMMA Moves ==
    ASSUME TypeOK, NEW p \in Procs, Begin(p) \/ Step(p) \/ Crash(p)
    PROVE  /\ pc[p] # "idle" \/ owner = NoProc
           /\ Moved(p)
  <1>1. CASE Begin(p)
    BY <1>1 DEF Begin, StartPipeline, StartReschedule, StartFeedback, Enter, Goto, LockFree,
                Moved
  <1>2. CASE \/ SweepBundles(p) \/ SkipRetention(p) \/ AbortCopy(p) \/ RecordFailure(p)
             \/ AbandonReschedule(p) \/ AbortPersist(p) \/ ActivateVersion(p)
             \/ FailVersion(p) \/ RecordFeedback(p) \/ RejectFeedback(p) \/ Crash(p)
    <2>1. \E from : Leave(p, from) /\ pc[p] = from /\ from # "idle"
      BY <1>2 DEF SweepBundles, SkipRetention, AbortCopy, RecordFailure, AbandonReschedule,
                  AbortPersist, ActivateVersion, FailVersion, RecordFeedback, RejectFeedback,
                  Crash, Leave, Goto
    <2> QED BY <2>1, LeaveMoves DEF Moved
  <1>3. CASE \/ CopyCanonical(p) \/ RunStages(p) \/ ValidateRun(p) \/ ExportBundle(p)
             \/ SealBundle(p) \/ PromoteStaged(p) \/ ReplaceCanonical(p) \/ PruneRows(p)
             \/ FailPipeline(p)
    <2>1. pc[p] # "idle" /\ owner' = owner
      BY <1>3 DEF CopyCanonical, RunStages, ValidateRun, ExportBundle, SealBundle,
                  PromoteStaged, ReplaceCanonical, PruneRows, FailPipeline, Goto
    <2>2. CASE RunStages(p)
      <3>1. pc' = [pc EXCEPT ![p] = pc[p]]
        BY <2>2 DEF RunStages, TypeOK
      <3> QED BY <2>1, <3>1 DEF Moved
    <2>3. CASE ~RunStages(p)
      <3>1. \E x : pc' = [pc EXCEPT ![p] = x]
        BY <1>3, <2>3
           DEF CopyCanonical, ValidateRun, ExportBundle, SealBundle, PromoteStaged,
               ReplaceCanonical, PruneRows, FailPipeline, Goto
      <3> QED BY <2>1, <3>1 DEF Moved
    <2> QED BY <2>2, <2>3
  <1>4. CASE \/ ReadBaseline(p) \/ CreateVersion(p) \/ PersistSchedule(p)
             \/ PersistAudit(p) \/ AdvanceVersion(p) \/ FillVersionBundle(p)
             \/ SealVersion(p) \/ OpenCanonical(p)
    <2>1. pc[p] # "idle" /\ owner' = owner
      BY <1>4 DEF ReadBaseline, CreateVersion, PersistSchedule, PersistAudit, AdvanceVersion,
                  FillVersionBundle, SealVersion, OpenCanonical, Goto
    <2>2. \E x : pc' = [pc EXCEPT ![p] = x]
      BY <1>4 DEF ReadBaseline, CreateVersion, PersistSchedule, PersistAudit, AdvanceVersion,
                  FillVersionBundle, SealVersion, OpenCanonical, Goto
    <2> QED BY <2>1, <2>2 DEF Moved
  <1> QED
    BY <1>1, <1>2, <1>3, <1>4 DEF Step, PipelineStep, RescheduleStep, FeedbackStep

\* A process that moves is alone, before and after.
LEMMA Alone ==
    ASSUME TypeOK, Mutex, NEW p \in Procs, Begin(p) \/ Step(p) \/ Crash(p)
    PROVE  Mutex' /\ \A q \in Procs \ {p} : pc[q] = "idle" /\ pc'[q] = "idle"
  <1>1. PICK x : /\ pc' = [pc EXCEPT ![p] = x]
                 /\ \/ x = "idle" /\ owner' = NoProc
                    \/ pc[p] # "idle" /\ owner' = owner
                    \/ pc[p] = "idle" /\ owner' = p
    BY Moves DEF Moved
  <1>2. pc[p] # "idle" \/ owner = NoProc
    BY Moves
  <1>3. \A q \in Procs \ {p} : pc[q] = "idle"
    BY <1>2, Identifiers DEF Mutex
  <1>4. \A q \in Procs \ {p} : pc'[q] = "idle"
    BY <1>1, <1>3 DEF TypeOK
  <1>5. pc'[p] = x
    BY <1>1 DEF TypeOK
  <1>6. Mutex'
    BY <1>1, <1>4, <1>5 DEF Mutex
  <1> QED BY <1>3, <1>4, <1>6

\* Nothing is asked of an idle process.
LEMMA IdleLocal ==
    ASSUME NEW q, pc[q] = "idle"
    PROVE  Local(q)
  BY DEF Local, OwnRun, PipelineAt, VersionAt

LEMMA IdleLocalNext ==
    ASSUME NEW q, pc'[q] = "idle"
    PROVE  Local(q)'
  BY DEF Local, OwnRun, PipelineAt, VersionAt

\* It is enough to look at the process that moves.
LEMMA MoverSuffices ==
    ASSUME PublicationInv, NEW p \in Procs, Begin(p) \/ Step(p) \/ Crash(p),
           FreshRuns', Sound(path)', pc'[p] # "idle" => Local(p)'
    PROVE  PublicationInv'
  <1>1. TypeOK'
    BY TypeStart, TypeStep DEF PublicationInv
  <1>2. Mutex' /\ \A q \in Procs \ {p} : pc'[q] = "idle"
    BY Alone DEF PublicationInv
  <1>3. \A q \in Procs : Local(q)'
    BY <1>2, IdleLocalNext
  <1> QED BY <1>1, <1>2, <1>3 DEF PublicationInv, Local

\* A file whose tables did not change is as sound as before.
LEMMA SoundFrame ==
    ASSUME NEW i, Sound(i), UNCHANGED <<dbVars, bundle, recorded>>
    PROVE  Sound(i)'
  BY DEF Sound, Whole, KeepsFeedback, Attributed, OneActive, dbVars

LEMMA FreshFrame ==
    ASSUME FreshRuns, UNCHANGED <<status, run, nextRun, recorded>>
    PROVE  FreshRuns'
  BY DEF FreshRuns

\* Soundness of the file a variable names is soundness of that file.
LEMMA SoundAtPath ==
    ASSUME NEW i, path = i
    PROVE  Sound(path) <=> Sound(i)
  BY DEF Sound, Whole, KeepsFeedback, Attributed, OneActive

LEMMA SoundAtPathNext ==
    ASSUME NEW i, path' = i
    PROVE  Sound(path)' <=> Sound(i)'
  BY DEF Sound, Whole, KeepsFeedback, Attributed, OneActive

LEMMA SoundAtRun ==
    ASSUME NEW p, NEW i, run[p] = i
    PROVE  Sound(run[p]) <=> Sound(i)
  BY DEF Sound, Whole, KeepsFeedback, Attributed, OneActive

LEMMA SoundAtRunNext ==
    ASSUME NEW p, NEW i, run'[p] = i
    PROVE  Sound(run[p])' <=> Sound(i)'
  BY DEF Sound, Whole, KeepsFeedback, Attributed, OneActive

\* A step that rewrites one registry without a row for an identifier that was
\* not handed out.
Fresh(reg, n) == \A x \in Runs : x >= n => reg[x] = NoRow

LEMMA FreshStep ==
    ASSUME TypeOK, FreshRuns, NEW i \in Inodes, NEW reg, SetStatus(i, reg),
           Fresh(reg, nextRun), UNCHANGED <<nextRun, recorded>>,
           \A q \in Procs : run'[q] \in {run[q], NoRun}
    PROVE  FreshRuns'
  <1>1. \A j \in Inodes : status'[j] = IF j = i THEN reg ELSE status[j]
    BY DEF TypeOK, SetStatus
  <1>2. NoRun < nextRun
    BY DEF TypeOK, NoRun
  <1> QED BY <1>1, <1>2 DEF FreshRuns, Fresh

LEMMA FreshOperators ==
    ASSUME NEW reg \in Registries, NEW n \in Nat, Fresh(reg, n), NEW r \in Runs, r < n
    PROVE  /\ Fresh(Started(reg, r), n)
           /\ \A s : Fresh(Updated(reg, r, s), n)
           /\ Fresh(Promoted(reg, r), n)
           /\ \A old : Fresh(Pruned(reg, old), n)
           /\ Fresh([reg EXCEPT ![r] = "INITIALIZED"], n)
  <1>1. \A x \in Runs : x >= n => x # r
    BY Identifiers
  <1> QED BY <1>1 DEF Fresh, Started, Updated, Promoted, Pruned, Registries, NoRow

\* Leaving the lock without touching a file.
LEMMA InvQuietLeave ==
    ASSUME PublicationInv, NEW p \in Procs, NEW from, Leave(p, from),
           UNCHANGED <<dbVars, fileVars, historyVars>>
    PROVE  FreshRuns' /\ Sound(path)' /\ pc'[p] = "idle"
  <1>1. pc'[p] = "idle"
    BY DEF PublicationInv, TypeOK, Leave, Goto
  <1>2. Sound(path)'
    BY SoundFrame DEF PublicationInv, fileVars, historyVars
  <1>3. FreshRuns'
    BY Identifiers
       DEF PublicationInv, TypeOK, FreshRuns, Leave, dbVars, historyVars, NoRun, Runs
  <1> QED BY <1>1, <1>2, <1>3

\* Beginning: a run identifier above all that were used.
LEMMA InvBegin ==
    ASSUME PublicationInv, NEW p \in Procs, Begin(p)
    PROVE  FreshRuns' /\ Sound(path)' /\ Local(p)'
  <1>1. Sound(path)'
    BY SoundFrame DEF PublicationInv, Begin, StartPipeline, StartReschedule, StartFeedback,
                      fileVars, historyVars
  <1>2. CASE StartFeedback(p)
    <2>1. FreshRuns'
      BY <1>2, FreshFrame DEF PublicationInv, StartFeedback, dbVars, localVars, historyVars
    <2>2. pc'[p] = "open"
      BY <1>2 DEF StartFeedback, Enter, Goto, PublicationInv, TypeOK
    <2>3. Local(p)'
      BY <2>2 DEF Local, OwnRun, PipelineAt, VersionAt
    <2> QED BY <1>1, <2>1, <2>3
  <1>3. CASE StartPipeline(p) \/ StartReschedule(p)
    <2>1. run' = [run EXCEPT ![p] = nextRun] /\ nextRun \in Runs /\ nextRun' = nextRun + 1
      BY <1>3 DEF StartPipeline, StartReschedule, TakeRun
    <2>2. UNCHANGED <<status, recorded>>
      BY <1>3 DEF StartPipeline, StartReschedule, dbVars
    <2>3. FreshRuns'
      <3>1. \A q \in Procs : run'[q] < nextRun'
        BY <2>1, Identifiers DEF PublicationInv, TypeOK, FreshRuns, Runs, NoRun
      <3>2. /\ \A i \in Inodes, r \in Runs : r >= nextRun' => status'[i][r] = NoRow
            /\ \A f \in Feedback : recorded'[f] < nextRun'
        <4>1. \A x \in Runs \cup {NoRun} : x < nextRun => x < nextRun + 1
          BY <2>1, Identifiers
        <4>2. \A x \in Runs : x >= nextRun + 1 => x >= nextRun
          BY <2>1, Identifiers
        <4> QED BY <2>1, <2>2, <4>1, <4>2 DEF PublicationInv, TypeOK, FreshRuns
      <3> QED BY <3>1, <3>2 DEF FreshRuns
    <2>4. pc'[p] \in {"copy", "baseline"}
      BY <1>3 DEF StartPipeline, StartReschedule, Enter, Goto, PublicationInv, TypeOK
    <2>5. run'[p] \in Runs /\ \A f \in Feedback : recorded'[f] # run'[p]
      BY <2>1, <2>2 DEF PublicationInv, TypeOK, FreshRuns, Runs, NoRun
    <2>6. Local(p)'
      BY <2>4, <2>5 DEF Local, OwnRun, PipelineAt, VersionAt
    <2> QED BY <1>1, <2>3, <2>6
  <1> QED BY <1>2, <1>3 DEF Begin

-----------------------------------------------------------------------------
(* The pipeline keeps the invariant.                                       *)

LEMMA InvCopyCanonical ==
    ASSUME PublicationInv, NEW p \in Procs, CopyCanonical(p)
    PROVE  FreshRuns' /\ Sound(path)' /\ Local(p)'
  <1>1. TypeOK /\ Sound(path) /\ FreshRuns
    BY DEF PublicationInv
  <1>2. PICK r \in Runs, c \in Inodes :
            r = run[p] /\ c = path /\ \A f \in Feedback : recorded[f] # r
    BY <1>1 DEF PublicationInv, TypeOK, OwnRun, CopyCanonical, Goto
  <1>3. /\ pc' = [pc EXCEPT ![p] = "stages"]
        /\ status[c][r] = NoRow
        /\ status' = [status EXCEPT ![r] = [status[c] EXCEPT ![r] = "RUNNING"]]
        /\ rows' = [rows EXCEPT ![r] = rows[c]]
        /\ feedback' = [feedback EXCEPT ![r] = feedback[c]]
        /\ UNCHANGED <<path, bundle, run, nextRun, recorded>>
    BY <1>2 DEF CopyCanonical, Goto, CanStart, SetStatus, Started, fileVars, historyVars
  <1>4. r \in Inodes /\ Sound(c)
    BY <1>1, <1>2, Identifiers, SoundAtPath
  <1>5. /\ status'[r] = [status[c] EXCEPT ![r] = "RUNNING"]
        /\ rows'[r] = rows[c] /\ feedback'[r] = feedback[c]
        /\ status[c] \in [Runs -> Statuses \cup {NoRow}]
    BY <1>1, <1>3, <1>4 DEF TypeOK
  <1>6. Sound(r)'
    <2>1. Whole(r)' /\ OneActive(r)'
      BY <1>3, <1>4, <1>5 DEF Sound, Whole, OneActive
    <2>2. KeepsFeedback(r)'
      BY <1>1, <1>2, <1>3, <1>4, <1>5 DEF Sound, KeepsFeedback, TypeOK
    <2>3. Attributed(r)'
      BY <1>1, <1>3, <1>4, <1>5, Identifiers DEF Sound, Attributed, TypeOK, NoRow
    <2> QED BY <2>1, <2>2, <2>3 DEF Sound
  <1>7. Sound(c)'
    <2>1. CASE c # r
      <3>1. status'[c] = status[c] /\ rows'[c] = rows[c] /\ feedback'[c] = feedback[c]
        BY <1>1, <1>3, <2>1 DEF TypeOK
      <3> QED BY <1>3, <1>4, <3>1 DEF Sound, Whole, KeepsFeedback, Attributed, OneActive
    <2> QED BY <1>6, <2>1
  <1>8. FreshRuns'
    <2>1. Fresh(status[c], nextRun) /\ nextRun \in Nat /\ r < nextRun
      BY <1>1, <1>2 DEF TypeOK, FreshRuns, Fresh
    <2>2. Fresh([status[c] EXCEPT ![r] = "RUNNING"], nextRun)
      BY <1>5, <2>1, FreshOperators DEF Started, Registries
    <2> QED BY <1>1, <1>3, <1>4, <2>2, FreshStep DEF SetStatus
  <1>9. pc'[p] = "stages" /\ run'[p] = r /\ status'[r][r] = "RUNNING"
    <2>1. pc'[p] = "stages" /\ run'[p] = r
      BY <1>1, <1>2, <1>3 DEF TypeOK
    <2> QED BY <1>5, <2>1
  <1>10. Local(p)'
    BY <1>2, <1>3, <1>6, <1>9, SoundAtRunNext DEF Local, OwnRun, PipelineAt, VersionAt
  <1> QED BY <1>2, <1>3, <1>7, <1>8, <1>10, SoundAtPathNext

-----------------------------------------------------------------------------
(* What keeps one file sound.                                              *)

SealedStay == \A x \in Runs : bundle[x] = "sealed" => bundle'[x] = "sealed"

\* Its tables do not change and no sealed bundle goes.
LEMMA SoundKept ==
    ASSUME NEW i, Sound(i), SealedStay, UNCHANGED recorded,
           status'[i] = status[i], rows'[i] = rows[i], feedback'[i] = feedback[i]
    PROVE  Sound(i)'
  BY DEF Sound, Whole, KeepsFeedback, Attributed, OneActive, SealedStay

\* The row of an unpublished run moves to a status that is not published either.
LEMMA SoundRewritten ==
    ASSUME TypeOK, NEW i \in Inodes, NEW r \in Runs, NEW s, s \notin {"ACTIVE", "ARCHIVED"},
           Sound(i), SealedStay, UNCHANGED recorded, feedback'[i] = feedback[i],
           status[i][r] \notin {"ACTIVE", "ARCHIVED"}, \A f \in Feedback : recorded[f] # r,
           status'[i] = [status[i] EXCEPT ![r] = s],
           \A x \in Runs \ {r} : rows'[i][x] = rows[i][x]
    PROVE  Sound(i)'
  <1>1. /\ status'[i][r] = s
        /\ \A x \in Runs \ {r} : status'[i][x] = status[i][x]
    BY DEF TypeOK
  <1>2. Whole(i)' /\ OneActive(i)'
    BY <1>1 DEF Sound, Whole, OneActive, SealedStay
  <1>3. KeepsFeedback(i)'
    BY <1>1 DEF Sound, KeepsFeedback, TypeOK
  <1>4. Attributed(i)'
    BY <1>1 DEF Sound, Attributed, TypeOK
  <1> QED BY <1>2, <1>3, <1>4 DEF Sound

\* A whole run is promoted.
LEMMA SoundPromoted ==
    ASSUME TypeOK, NEW i \in Inodes, NEW r \in Runs,
           Sound(i), UNCHANGED <<bundle, recorded>>, rows'[i] = rows[i],
           feedback'[i] = feedback[i], \A f \in Feedback : recorded[f] # r,
           rows[i][r] = "full", bundle[r] = "sealed", status[i][r] = "COMPLETED",
           status'[i] = Promoted(status[i], r)
    PROVE  Sound(i)' /\ status'[i][r] = "ACTIVE"
  <1>1. /\ status'[i][r] = "ACTIVE"
        /\ \A x \in Runs \ {r} : status'[i][x] =
              IF status[i][x] = "ACTIVE" THEN "ARCHIVED" ELSE status[i][x]
    BY DEF TypeOK, Promoted
  <1>2. Whole(i)' /\ OneActive(i)'
    BY <1>1 DEF Sound, Whole, OneActive
  <1>3. KeepsFeedback(i)'
    BY <1>1 DEF Sound, KeepsFeedback, TypeOK, NoRow
  <1>4. Attributed(i)'
    BY <1>1 DEF Sound, Attributed, TypeOK
  <1> QED BY <1>1, <1>2, <1>3, <1>4 DEF Sound

\* What a process that builds a run knows.
Builds(p, r, c) ==
    /\ r = run[p] /\ c = path /\ r \in Inodes /\ Sound(c)
    /\ r < nextRun /\ nextRun \in Nat
    /\ \A f \in Feedback : recorded[f] # r
    /\ status[r] \in Registries /\ status[c] \in Registries
    /\ Fresh(status[r], nextRun) /\ Fresh(status[c], nextRun)

LEMMA Builder ==
    ASSUME PublicationInv, NEW p \in Procs, pc[p] \notin {"idle", "open", "record"}
    PROVE  \E r \in Runs, c \in Inodes : Builds(p, r, c)
  <1>1. TypeOK /\ FreshRuns /\ OwnRun(p) /\ Sound(path)
    BY DEF PublicationInv
  <1>2. run[p] \in Runs /\ path \in Inodes
    BY <1>1 DEF OwnRun, TypeOK
  <1>3. PICK r \in Runs, c \in Inodes : r = run[p] /\ c = path
    BY <1>2
  <1>4. r \in Inodes /\ Sound(c) /\ \A f \in Feedback : recorded[f] # r
    BY <1>1, <1>3, Identifiers, SoundAtPath DEF OwnRun
  <1>5. /\ r < nextRun /\ nextRun \in Nat
        /\ status[r] \in Registries /\ status[c] \in Registries
        /\ Fresh(status[r], nextRun) /\ Fresh(status[c], nextRun)
    BY <1>1, <1>3, <1>4 DEF FreshRuns, Fresh, TypeOK, Registries
  <1> QED BY <1>3, <1>4, <1>5 DEF Builds

LEMMA InvRunStages ==
    ASSUME PublicationInv, NEW p \in Procs, RunStages(p)
    PROVE  FreshRuns' /\ Sound(path)' /\ Local(p)'
  <1>1. TypeOK /\ FreshRuns /\ pc[p] = "stages"
    BY DEF PublicationInv, RunStages
  <1>2. PICK r \in Runs, c \in Inodes : Builds(p, r, c)
    BY <1>1, Builder
  <1> USE <1>2 DEF Builds
  <1>3. Sound(r)
    BY <1>1, <1>2, SoundAtRun DEF PublicationInv, PipelineAt
  <1>4. PICK content \in {"inputs", "full"} : rows' = [rows EXCEPT ![r][r] = content]
    BY <1>2 DEF RunStages, FillRows
  <1>5. /\ status[r][r] = "RUNNING"
        /\ SetStatus(r, Updated(status[r], r, "STAGING"))
        /\ UNCHANGED <<feedback, path, bundle, pc, run, nextRun, recorded>>
    BY <1>2 DEF RunStages, fileVars, localVars, historyVars
  <1>6. /\ status'[r] = [status[r] EXCEPT ![r] = "STAGING"]
        /\ \A x \in Runs \ {r} : rows'[r][x] = rows[r][x]
        /\ \A i \in Inodes \ {r} : status'[i] = status[i] /\ rows'[i] = rows[i]
    BY <1>1, <1>2, <1>4, <1>5 DEF SetStatus, Updated, TypeOK
  <1>7. Sound(r)'
    BY <1>1, <1>2, <1>3, <1>5, <1>6, SoundRewritten DEF SealedStay
  <1>8. Sound(c)'
    BY <1>2, <1>5, <1>6, <1>7, SoundKept DEF SealedStay
  <1>9. FreshRuns'
    BY <1>1, <1>2, <1>5, FreshOperators, FreshStep
  <1>10. status'[r][r] = "STAGING"
    BY <1>2, <1>6 DEF Registries
  <1>11. Local(p)'
    BY <1>1, <1>2, <1>5, <1>7, <1>10, SoundAtRunNext DEF Local, OwnRun, PipelineAt, VersionAt
  <1> QED BY <1>2, <1>5, <1>8, <1>9, <1>11, SoundAtPathNext

\* Steps that leave every table alone keep both files sound.
LEMMA QuietStep ==
    ASSUME PublicationInv, UNCHANGED <<dbVars, run, nextRun, recorded>>, SealedStay,
           NEW i, Sound(i)
    PROVE  FreshRuns' /\ Sound(i)'
  <1>1. FreshRuns'
    BY FreshFrame DEF PublicationInv, dbVars
  <1>2. Sound(i)'
    BY SoundKept DEF dbVars
  <1> QED BY <1>1, <1>2

LEMMA InvValidateRun ==
    ASSUME PublicationInv, NEW p \in Procs, ValidateRun(p)
    PROVE  FreshRuns' /\ Sound(path)' /\ Local(p)'
  <1>1. TypeOK /\ FreshRuns /\ pc[p] = "stages"
    BY DEF PublicationInv, ValidateRun, Goto
  <1>2. PICK r \in Runs, c \in Inodes : Builds(p, r, c)
    BY <1>1, Builder
  <1> USE <1>2 DEF Builds
  <1>3. Sound(r)
    BY <1>1, SoundAtRun DEF PublicationInv, PipelineAt
  <1>4. /\ status[r][r] = "STAGING" /\ rows[r][r] = "full"
        /\ pc' = [pc EXCEPT ![p] = "bundle"]
        /\ SetStatus(r, Updated(Updated(status[r], r, "VALIDATE"), r, "COMPLETED"))
        /\ UNCHANGED <<rows, feedback, path, bundle, run, nextRun, recorded>>
    BY DEF ValidateRun, Goto, PassesValidation, fileVars, localVars, historyVars
  <1>5. Updated(Updated(status[r], r, "VALIDATE"), r, "COMPLETED")
          = [status[r] EXCEPT ![r] = "COMPLETED"]
    BY DEF Updated, Registries
  <1>6. /\ status'[r] = [status[r] EXCEPT ![r] = "COMPLETED"]
        /\ \A i \in Inodes \ {r} : status'[i] = status[i]
    BY <1>1, <1>4, <1>5 DEF SetStatus, TypeOK
  <1>7. Sound(r)'
    BY <1>1, <1>3, <1>4, <1>6, SoundRewritten DEF SealedStay
  <1>8. Sound(c)'
    BY <1>4, <1>6, <1>7, SoundKept DEF SealedStay
  <1>9. FreshRuns'
    <2>1. Fresh([status[r] EXCEPT ![r] = "COMPLETED"], nextRun)
      BY FreshOperators DEF Updated
    <2> QED BY <1>1, <1>4, <1>5, <2>1, FreshStep
  <1>10. status'[r][r] = "COMPLETED" /\ pc'[p] = "bundle"
    BY <1>1, <1>4, <1>6 DEF Registries, TypeOK
  <1>11. Local(p)'
    BY <1>4, <1>7, <1>10, SoundAtRunNext DEF Local, OwnRun, PipelineAt, VersionAt
  <1> QED BY <1>4, <1>8, <1>9, <1>11, SoundAtPathNext

LEMMA InvBundle ==
    ASSUME PublicationInv, NEW p \in Procs, ExportBundle(p) \/ SealBundle(p)
    PROVE  FreshRuns' /\ Sound(path)' /\ Local(p)'
  <1>1. TypeOK /\ FreshRuns /\ pc[p] \in {"bundle", "seal"}
    BY DEF PublicationInv, ExportBundle, SealBundle, Goto
  <1>2. PICK r \in Runs, c \in Inodes : Builds(p, r, c)
    BY <1>1, Builder
  <1> USE <1>2 DEF Builds
  <1>3. Sound(r) /\ status[r][r] = "COMPLETED" /\ rows[r][r] = "full"
    BY <1>1, SoundAtRun DEF PublicationInv, PipelineAt
  <1>4. UNCHANGED <<dbVars, path, run, nextRun, recorded>>
    BY DEF ExportBundle, SealBundle, localVars, historyVars
  <1>5. SealedStay
    BY <1>1 DEF ExportBundle, SealBundle, SealedStay, TypeOK
  <1>6. Sound(r)' /\ Sound(c)' /\ FreshRuns'
    BY <1>3, <1>4, <1>5, QuietStep
  <1>7. \/ pc'[p] = "seal"
        \/ pc'[p] = "promote" /\ bundle'[r] = "sealed"
    BY <1>1 DEF ExportBundle, SealBundle, Goto, TypeOK
  <1>8. Local(p)'
    BY <1>3, <1>4, <1>6, <1>7, SoundAtRunNext DEF Local, OwnRun, PipelineAt, VersionAt, dbVars
  <1> QED BY <1>4, <1>6, <1>8, SoundAtPathNext

LEMMA InvPromoteStaged ==
    ASSUME PublicationInv, NEW p \in Procs, PromoteStaged(p)
    PROVE  FreshRuns' /\ Sound(path)' /\ Local(p)'
  <1>1. TypeOK /\ FreshRuns /\ pc[p] = "promote"
    BY DEF PublicationInv, PromoteStaged, Goto
  <1>2. PICK r \in Runs, c \in Inodes : Builds(p, r, c)
    BY <1>1, Builder
  <1> USE <1>2 DEF Builds
  <1>3. /\ Sound(r) /\ status[r][r] = "COMPLETED" /\ rows[r][r] = "full"
        /\ bundle[r] = "sealed"
    BY <1>1, SoundAtRun DEF PublicationInv, PipelineAt
  <1>4. /\ pc' = [pc EXCEPT ![p] = "replace"]
        /\ SetStatus(r, Promoted(status[r], r))
        /\ UNCHANGED <<rows, feedback, path, bundle, run, nextRun, recorded>>
    BY DEF PromoteStaged, Goto, fileVars, localVars, historyVars
  <1>5. /\ status'[r] = Promoted(status[r], r)
        /\ \A i \in Inodes \ {r} : status'[i] = status[i]
    BY <1>1, <1>4 DEF SetStatus, TypeOK
  <1>6. Sound(r)' /\ status'[r][r] = "ACTIVE"
    BY <1>1, <1>3, <1>4, <1>5, SoundPromoted
  <1>7. Sound(c)'
    BY <1>4, <1>5, <1>6, SoundKept DEF SealedStay
  <1>8. FreshRuns'
    BY <1>1, <1>4, FreshOperators, FreshStep
  <1>9. pc'[p] = "replace"
    BY <1>1, <1>4 DEF TypeOK
  <1>10. Local(p)'
    BY <1>4, <1>6, <1>9, SoundAtRunNext DEF Local, OwnRun, PipelineAt, VersionAt
  <1> QED BY <1>4, <1>7, <1>8, <1>10, SoundAtPathNext

LEMMA InvReplaceCanonical ==
    ASSUME PublicationInv, NEW p \in Procs, ReplaceCanonical(p)
    PROVE  FreshRuns' /\ Sound(path)' /\ Local(p)'
  <1>1. TypeOK /\ FreshRuns /\ pc[p] = "replace"
    BY DEF PublicationInv, ReplaceCanonical, Goto
  <1>2. PICK r \in Runs, c \in Inodes : Builds(p, r, c)
    BY <1>1, Builder
  <1> USE <1>2 DEF Builds
  <1>3. Sound(r)
    BY <1>1, SoundAtRun DEF PublicationInv, PipelineAt
  <1>4. path' = r /\ UNCHANGED <<dbVars, bundle, run, nextRun, recorded>>
    BY DEF ReplaceCanonical, localVars, historyVars
  <1>5. Sound(r)' /\ FreshRuns'
    BY <1>3, <1>4, QuietStep DEF SealedStay
  <1>6. pc'[p] = "retain"
    BY <1>1 DEF ReplaceCanonical, Goto, TypeOK
  <1>7. Local(p)'
    BY <1>4, <1>6 DEF Local, OwnRun, PipelineAt, VersionAt
  <1> QED BY <1>4, <1>5, <1>7, SoundAtPathNext

\* Retention takes whole runs: their rows, their tables and their feedback.
LEMMA InvPruneRows ==
    ASSUME PublicationInv, NEW p \in Procs, PruneRows(p)
    PROVE  FreshRuns' /\ Sound(path)' /\ Local(p)'
  <1>1. TypeOK /\ FreshRuns /\ pc[p] = "retain"
    BY DEF PublicationInv, PruneRows, Goto
  <1>2. PICK r \in Runs, c \in Inodes : Builds(p, r, c)
    BY <1>1, Builder
  <1> USE <1>2 DEF Builds
  <1>3. PICK old \in OldRuns(canon, KeepLastN, {ReferenceRun}) :
          /\ SetStatus(path, Pruned(canon, old))
          /\ rows' = [rows EXCEPT ![path] =
                        [x \in Runs |-> IF x \in old THEN "none" ELSE rows[path][x]]]
          /\ feedback' = [feedback EXCEPT ![path] =
                        [f \in Feedback |-> IF feedback[path][f] \in old
                                            THEN NoRun ELSE feedback[path][f]]]
          /\ doomed' = [doomed EXCEPT ![p] = old]
    BY DEF PruneRows
  <1>4. old \subseteq Runs /\ \A x \in old : status[c][x] # "ACTIVE"
    BY <1>3, OldRunsAreOld
  <1>5. /\ pc' = [pc EXCEPT ![p] = "sweep"]
        /\ UNCHANGED <<path, bundle, run, nextRun, recorded>>
    BY DEF PruneRows, Goto, fileVars, historyVars
  <1>6. /\ status'[c] = [x \in Runs |-> IF x \in old THEN NoRow ELSE status[c][x]]
        /\ rows'[c] = [x \in Runs |-> IF x \in old THEN "none" ELSE rows[c][x]]
        /\ feedback'[c] = [f \in Feedback |-> IF feedback[c][f] \in old
                                              THEN NoRun ELSE feedback[c][f]]
    BY <1>1, <1>3 DEF SetStatus, Pruned, TypeOK, Registries
  <1>7. Sound(c)'
    <2>1. Whole(c)' /\ OneActive(c)'
      BY <1>5, <1>6 DEF Sound, Whole, OneActive, NoRow
    <2>2. KeepsFeedback(c)'
      BY <1>1, <1>5, <1>6 DEF Sound, KeepsFeedback, TypeOK
    <2>3. Attributed(c)'
      BY <1>1, <1>6 DEF Sound, Attributed, TypeOK
    <2> QED BY <2>1, <2>2, <2>3 DEF Sound
  <1>8. FreshRuns'
    BY <1>1, <1>3, <1>5, FreshOperators, FreshStep
  <1>9. pc'[p] = "sweep" /\ doomed'[p] = old
    BY <1>1, <1>3, <1>5 DEF TypeOK
  <1>10. \A x \in old : status'[c][x] = NoRow
    BY <1>4, <1>6
  <1>11. Local(p)'
    BY <1>5, <1>9, <1>10 DEF Local, OwnRun, PipelineAt, VersionAt
  <1> QED BY <1>5, <1>7, <1>8, <1>11, SoundAtPathNext

\* A step that leaves the lock forgets its run, never a fresh one.
LEMMA LeaveRuns ==
    ASSUME TypeOK, NEW p \in Procs, NEW from, Leave(p, from)
    PROVE  pc'[p] = "idle" /\ \A q \in Procs : run'[q] \in {run[q], NoRun}
  BY DEF TypeOK, Leave, Goto

\* The sweep takes bundles of deleted runs and of runs without a row.
LEMMA InvSweepBundles ==
    ASSUME PublicationInv, NEW p \in Procs, SweepBundles(p)
    PROVE  FreshRuns' /\ Sound(path)' /\ pc'[p] = "idle"
  <1>1. TypeOK /\ FreshRuns /\ pc[p] = "sweep"
    BY DEF PublicationInv, SweepBundles, Leave, Goto
  <1>2. PICK r \in Runs, c \in Inodes : Builds(p, r, c)
    BY <1>1, Builder
  <1> USE <1>2 DEF Builds
  <1>3. UNCHANGED <<dbVars, path, nextRun, recorded>>
    BY DEF SweepBundles, historyVars
  <1>4. \A x \in doomed[p] : status[c][x] = NoRow
    BY <1>1 DEF PublicationInv, PipelineAt
  <1>5. \A x \in Runs : status[c][x] \in {"ACTIVE", "ARCHIVED"} => bundle'[x] = bundle[x]
    BY <1>4 DEF SweepBundles, Rows, Registries, NoRow
  <1>6. Sound(c)'
    BY <1>3, <1>5 DEF Sound, Whole, KeepsFeedback, Attributed, OneActive, dbVars
  <1>7. pc'[p] = "idle" /\ \A q \in Procs : run'[q] \in {run[q], NoRun}
    BY <1>1, LeaveRuns DEF SweepBundles
  <1>8. FreshRuns'
    <2>1. NoRun < nextRun
      BY <1>1 DEF TypeOK, NoRun
    <2> QED BY <1>1, <1>3, <1>7, <2>1 DEF FreshRuns, dbVars
  <1> QED BY <1>3, <1>6, <1>7, <1>8, SoundAtPathNext

\* The failure handler adds a row that is not published.
LEMMA InvFailPipeline ==
    ASSUME PublicationInv, NEW p \in Procs, FailPipeline(p)
    PROVE  FreshRuns' /\ Sound(path)' /\ Local(p)'
  <1>1. TypeOK /\ FreshRuns /\ pc[p] \notin {"idle", "open", "record"}
    BY DEF PublicationInv, FailPipeline
  <1>2. PICK r \in Runs, c \in Inodes : Builds(p, r, c)
    BY <1>1, Builder
  <1> USE <1>2 DEF Builds
  <1>3. /\ pc' = [pc EXCEPT ![p] = "failing"]
        /\ UNCHANGED <<rows, feedback, path, bundle, run, nextRun, recorded>>
    BY DEF FailPipeline, fileVars, localVars, historyVars
  <1>4. ASSUME status[c][r] = NoRow PROVE FreshRuns' /\ Sound(path)'
    <2>1. SetStatus(c, [status[c] EXCEPT ![r] = "INITIALIZED"])
      BY <1>4 DEF FailPipeline
    <2>2. status'[c] = [status[c] EXCEPT ![r] = "INITIALIZED"]
      BY <1>1, <2>1 DEF SetStatus, TypeOK
    <2>3. Sound(c)'
      BY <1>1, <1>3, <1>4, <2>2, SoundRewritten DEF SealedStay, NoRow
    <2>4. FreshRuns'
      BY <1>1, <1>3, <2>1, FreshOperators, FreshStep
    <2> QED BY <2>3, <2>4, <1>3, SoundAtPathNext
  <1>5. ASSUME status[c][r] # NoRow PROVE FreshRuns' /\ Sound(path)'
    <2>1. status' = status
      BY <1>1, <1>5 DEF FailPipeline, SetStatus, TypeOK
    <2> QED BY <1>3, <2>1, QuietStep, SoundAtPathNext DEF SealedStay, dbVars
  <1>6. pc'[p] = "failing"
    BY <1>1, <1>3 DEF TypeOK
  <1>7. Local(p)'
    BY <1>3, <1>6 DEF Local, OwnRun, PipelineAt, VersionAt
  <1> QED BY <1>4, <1>5, <1>7

\* The state machine lets a row fail only while it is not published.
LEMMA CanFail ==
    ASSUME NEW reg \in Registries, NEW r \in Runs, CanUpdate(reg, r, "FAILED")
    PROVE  reg[r] \notin {NoRow, "ACTIVE", "ARCHIVED"}
  BY DEF CanUpdate, ValidStatusTransitions, Registries, Statuses, NoRow

\* Marking an unpublished run FAILED while leaving the lock.
LEMMA InvMarkFailed ==
    ASSUME PublicationInv, NEW p \in Procs, NEW r \in Runs, NEW c \in Inodes,
           Builds(p, r, c), NEW from, Leave(p, from),
           \/ status' = status
           \/ /\ SetStatus(c, Updated(status[c], r, "FAILED"))
              /\ status[c][r] \notin {"ACTIVE", "ARCHIVED"},
           UNCHANGED <<rows, feedback, fileVars, historyVars>>
    PROVE  FreshRuns' /\ Sound(path)' /\ pc'[p] = "idle"
  <1> USE DEF Builds
  <1>1. TypeOK /\ FreshRuns
    BY DEF PublicationInv
  <1>2. CASE status' = status
    BY <1>2, InvQuietLeave DEF dbVars
  <1>3. CASE /\ SetStatus(c, Updated(status[c], r, "FAILED"))
             /\ status[c][r] \notin {"ACTIVE", "ARCHIVED"}
    <2>1. status'[c] = [status[c] EXCEPT ![r] = "FAILED"]
      BY <1>1, <1>3 DEF SetStatus, Updated, TypeOK
    <2>2. Sound(c)'
      BY <1>1, <1>3, <2>1, SoundRewritten DEF SealedStay, fileVars, historyVars
    <2>3. pc'[p] = "idle" /\ \A q \in Procs : run'[q] \in {run[q], NoRun}
      BY <1>1, LeaveRuns
    <2>4. FreshRuns'
      BY <1>1, <1>3, <2>3, FreshOperators, FreshStep DEF historyVars
    <2> QED BY <2>2, <2>3, <2>4, SoundAtPathNext DEF fileVars
  <1> QED BY <1>2, <1>3

LEMMA InvRecordFailure ==
    ASSUME PublicationInv, NEW p \in Procs, RecordFailure(p)
    PROVE  FreshRuns' /\ Sound(path)' /\ pc'[p] = "idle"
  <1>1. TypeOK /\ pc[p] = "failing"
    BY DEF PublicationInv, RecordFailure, Leave, Goto
  <1>2. PICK r \in Runs, c \in Inodes : Builds(p, r, c)
    BY <1>1, Builder
  <1>3. CASE CanUpdate(status[c], r, "FAILED")
    <2>1. /\ SetStatus(c, Updated(status[c], r, "FAILED"))
          /\ status[c][r] \notin {"ACTIVE", "ARCHIVED"}
      BY <1>2, <1>3, CanFail DEF RecordFailure, Builds
    <2> QED BY <1>2, <2>1, InvMarkFailed DEF RecordFailure
  <1>4. CASE ~CanUpdate(status[c], r, "FAILED")
    <2>1. status' = status
      BY <1>1, <1>2, <1>4 DEF RecordFailure, Builds, SetStatus, TypeOK
    <2> QED BY <2>1, InvQuietLeave DEF RecordFailure, dbVars
  <1> QED BY <1>3, <1>4

LEMMA InvPipeline ==
    ASSUME PublicationInv, NEW p \in Procs, PipelineStep(p)
    PROVE  FreshRuns' /\ Sound(path)' /\ (pc'[p] # "idle" => Local(p)')
  <1>1. CASE SkipRetention(p) \/ AbortCopy(p)
    BY <1>1, InvQuietLeave DEF SkipRetention, AbortCopy
  <1> QED
    BY <1>1, InvCopyCanonical, InvRunStages, InvValidateRun, InvBundle, InvPromoteStaged,
       InvReplaceCanonical, InvPruneRows, InvSweepBundles, InvFailPipeline, InvRecordFailure
       DEF PipelineStep

-----------------------------------------------------------------------------
(* The rescheduler keeps the invariant: it works on the canonical file.    *)

LEMMA InvReadBaseline ==
    ASSUME PublicationInv, NEW p \in Procs, ReadBaseline(p)
    PROVE  FreshRuns' /\ Sound(path)' /\ Local(p)'
  <1>1. TypeOK /\ FreshRuns /\ pc[p] = "baseline"
    BY DEF PublicationInv, ReadBaseline, Goto
  <1>2. PICK r \in Runs, c \in Inodes : Builds(p, r, c)
    BY <1>1, Builder
  <1> USE <1>2 DEF Builds
  <1>3. UNCHANGED <<dbVars, path, bundle, run, nextRun, recorded>>
    BY DEF ReadBaseline, fileVars, historyVars
  <1>4. Sound(c)' /\ FreshRuns'
    BY <1>3, QuietStep DEF SealedStay
  <1>5. pc'[p] = "create" /\ handle'[p] = path'
    BY <1>1, <1>3 DEF ReadBaseline, Goto, TypeOK
  <1>6. Local(p)'
    BY <1>3, <1>5 DEF Local, OwnRun, PipelineAt, VersionAt
  <1> QED BY <1>3, <1>4, <1>6, SoundAtPathNext

LEMMA InvCreateVersion ==
    ASSUME PublicationInv, NEW p \in Procs, CreateVersion(p)
    PROVE  FreshRuns' /\ Sound(path)' /\ Local(p)'
  <1>1. TypeOK /\ FreshRuns /\ pc[p] = "create"
    BY DEF PublicationInv, CreateVersion, Goto
  <1>2. PICK r \in Runs, c \in Inodes : Builds(p, r, c)
    BY <1>1, Builder
  <1> USE <1>2 DEF Builds
  <1>3. handle[p] = c
    BY <1>1 DEF PublicationInv, VersionAt
  <1>4. /\ status[c][r] = NoRow /\ SetStatus(c, Started(status[c], r))
        /\ rows' = [rows EXCEPT ![c][r] = "inputs"]
        /\ UNCHANGED <<feedback, path, bundle, run, handle, nextRun, recorded>>
    BY <1>3 DEF CreateVersion, CanStart, fileVars, localVars, historyVars
  <1>5. /\ status'[c] = [status[c] EXCEPT ![r] = "RUNNING"]
        /\ \A x \in Runs \ {r} : rows'[c][x] = rows[c][x]
    BY <1>1, <1>4 DEF SetStatus, Started, TypeOK
  <1>6. Sound(c)'
    BY <1>1, <1>4, <1>5, SoundRewritten DEF SealedStay, NoRow
  <1>7. FreshRuns'
    BY <1>1, <1>4, FreshOperators, FreshStep
  <1>8. pc'[p] = "persist" /\ status'[c][r] = "RUNNING"
    BY <1>1, <1>5 DEF CreateVersion, Goto, TypeOK, Registries
  <1>9. Local(p)'
    BY <1>3, <1>4, <1>8 DEF Local, OwnRun, PipelineAt, VersionAt
  <1> QED BY <1>4, <1>6, <1>7, <1>9, SoundAtPathNext

LEMMA InvPersistSchedule ==
    ASSUME PublicationInv, NEW p \in Procs, PersistSchedule(p)
    PROVE  FreshRuns' /\ Sound(path)' /\ Local(p)'
  <1>1. TypeOK /\ FreshRuns /\ pc[p] = "persist"
    BY DEF PublicationInv, PersistSchedule, Goto
  <1>2. PICK r \in Runs, c \in Inodes : Builds(p, r, c)
    BY <1>1, Builder
  <1> USE <1>2 DEF Builds
  <1>3. UNCHANGED <<dbVars, path, bundle, run, handle, nextRun, recorded>>
    BY DEF PersistSchedule, fileVars, localVars, historyVars
  <1>4. Sound(c)' /\ FreshRuns'
    BY <1>3, QuietStep DEF SealedStay
  <1>5. pc'[p] = "audit" /\ handle[p] = c /\ status[c][r] = "RUNNING"
    BY <1>1 DEF PersistSchedule, Goto, PublicationInv, VersionAt, TypeOK
  <1>6. Local(p)'
    BY <1>3, <1>5 DEF Local, OwnRun, PipelineAt, VersionAt, dbVars
  <1> QED BY <1>3, <1>4, <1>6, SoundAtPathNext

LEMMA InvPersistAudit ==
    ASSUME PublicationInv, NEW p \in Procs, PersistAudit(p)
    PROVE  FreshRuns' /\ Sound(path)' /\ Local(p)'
  <1>1. TypeOK /\ FreshRuns /\ pc[p] = "audit"
    BY DEF PublicationInv, PersistAudit, Goto
  <1>2. PICK r \in Runs, c \in Inodes : Builds(p, r, c)
    BY <1>1, Builder
  <1> USE <1>2 DEF Builds
  <1>3. handle[p] = c /\ status[c][r] = "RUNNING"
    BY <1>1 DEF PublicationInv, VersionAt
  <1>4. PICK content \in {"inputs", "full"} : rows' = [rows EXCEPT ![c][r] = content]
    BY <1>3 DEF PersistAudit, FillRows
  <1>5. UNCHANGED <<status, feedback, path, bundle, run, handle, nextRun, recorded>>
    BY DEF PersistAudit, fileVars, localVars, historyVars
  <1>6. /\ status'[c] = [status[c] EXCEPT ![r] = "RUNNING"]
        /\ \A x \in Runs \ {r} : rows'[c][x] = rows[c][x]
    BY <1>1, <1>3, <1>4, <1>5 DEF TypeOK, Registries
  <1>7. Sound(c)'
    BY <1>1, <1>3, <1>5, <1>6, SoundRewritten DEF SealedStay
  <1>8. FreshRuns'
    BY <1>1, <1>5, FreshFrame
  <1>9. pc'[p] = "advance"
    BY <1>1 DEF PersistAudit, Goto, TypeOK
  <1>10. Local(p)'
    BY <1>3, <1>5, <1>9 DEF Local, OwnRun, PipelineAt, VersionAt
  <1> QED BY <1>5, <1>7, <1>8, <1>10, SoundAtPathNext

LEMMA InvAdvanceVersion ==
    ASSUME PublicationInv, NEW p \in Procs, AdvanceVersion(p)
    PROVE  FreshRuns' /\ Sound(path)' /\ Local(p)'
  <1>1. TypeOK /\ FreshRuns /\ pc[p] = "advance"
    BY DEF PublicationInv, AdvanceVersion
  <1>2. PICK r \in Runs, c \in Inodes : Builds(p, r, c)
    BY <1>1, Builder
  <1> USE <1>2 DEF Builds
  <1>3. handle[p] = c /\ status[c][r] \in {"RUNNING", "STAGING", "VALIDATE"}
    BY <1>1 DEF PublicationInv, VersionAt
  <1>4. PICK s \in {"STAGING", "VALIDATE", "COMPLETED"} :
          /\ s = "COMPLETED" => rows[c][r] = "full"
          /\ SetStatus(c, Updated(status[c], r, s))
          /\ pc' = [pc EXCEPT ![p] = IF s = "COMPLETED" THEN "decide" ELSE "advance"]
    BY <1>3 DEF AdvanceVersion, PassesValidation, Goto
  <1>5. UNCHANGED <<rows, feedback, path, bundle, run, handle, nextRun, recorded>>
    BY DEF AdvanceVersion, fileVars, localVars, historyVars
  <1>6. status'[c] = [status[c] EXCEPT ![r] = s]
    BY <1>1, <1>4 DEF SetStatus, Updated, TypeOK
  <1>7. Sound(c)'
    BY <1>1, <1>3, <1>5, <1>6, SoundRewritten DEF SealedStay
  <1>8. FreshRuns'
    BY <1>1, <1>4, <1>5, FreshOperators, FreshStep
  <1>9. /\ pc'[p] = IF s = "COMPLETED" THEN "decide" ELSE "advance"
        /\ status'[c][r] = s
    BY <1>1, <1>4, <1>6 DEF TypeOK, Registries
  <1>10. Local(p)'
    BY <1>3, <1>4, <1>5, <1>9 DEF Local, OwnRun, PipelineAt, VersionAt
  <1> QED BY <1>5, <1>7, <1>8, <1>10, SoundAtPathNext

LEMMA InvVersionBundle ==
    ASSUME PublicationInv, NEW p \in Procs, FillVersionBundle(p) \/ SealVersion(p)
    PROVE  FreshRuns' /\ Sound(path)' /\ Local(p)'
  <1>1. TypeOK /\ FreshRuns /\ pc[p] \in {"decide", "reseal"}
    BY DEF PublicationInv, FillVersionBundle, SealVersion, Goto
  <1>2. PICK r \in Runs, c \in Inodes : Builds(p, r, c)
    BY <1>1, Builder
  <1> USE <1>2 DEF Builds
  <1>3. handle[p] = c /\ status[c][r] = "COMPLETED" /\ rows[c][r] = "full"
    BY <1>1 DEF PublicationInv, VersionAt
  <1>4. UNCHANGED <<dbVars, path, run, handle, nextRun, recorded>>
    BY DEF FillVersionBundle, SealVersion, localVars, historyVars
  <1>5. SealedStay
    BY <1>1 DEF FillVersionBundle, SealVersion, SealedStay, TypeOK
  <1>6. Sound(c)' /\ FreshRuns'
    BY <1>4, <1>5, QuietStep
  <1>7. \/ pc'[p] = "reseal"
        \/ pc'[p] = "activate" /\ bundle'[r] = "sealed"
    BY <1>1 DEF FillVersionBundle, SealVersion, Goto, TypeOK
  <1>8. Local(p)'
    BY <1>3, <1>4, <1>7 DEF Local, OwnRun, PipelineAt, VersionAt, dbVars
  <1> QED BY <1>4, <1>6, <1>8, SoundAtPathNext

LEMMA InvActivateVersion ==
    ASSUME PublicationInv, NEW p \in Procs, ActivateVersion(p)
    PROVE  FreshRuns' /\ Sound(path)' /\ pc'[p] = "idle"
  <1>1. TypeOK /\ FreshRuns /\ pc[p] = "activate"
    BY DEF PublicationInv, ActivateVersion, Leave, Goto
  <1>2. PICK r \in Runs, c \in Inodes : Builds(p, r, c)
    BY <1>1, Builder
  <1> USE <1>2 DEF Builds
  <1>3. /\ handle[p] = c /\ status[c][r] = "COMPLETED" /\ rows[c][r] = "full"
        /\ bundle[r] = "sealed"
    BY <1>1 DEF PublicationInv, VersionAt
  <1>4. /\ SetStatus(c, Promoted(status[c], r))
        /\ UNCHANGED <<rows, feedback, path, bundle, nextRun, recorded>>
    BY <1>3 DEF ActivateVersion, fileVars, historyVars
  <1>5. status'[c] = Promoted(status[c], r)
    BY <1>1, <1>4 DEF SetStatus, TypeOK
  <1>6. Sound(c)'
    BY <1>1, <1>3, <1>4, <1>5, SoundPromoted
  <1>7. pc'[p] = "idle" /\ \A q \in Procs : run'[q] \in {run[q], NoRun}
    BY <1>1, LeaveRuns DEF ActivateVersion
  <1>8. FreshRuns'
    BY <1>1, <1>4, <1>7, FreshOperators, FreshStep
  <1> QED BY <1>4, <1>6, <1>7, <1>8, SoundAtPathNext

LEMMA InvFailVersion ==
    ASSUME PublicationInv, NEW p \in Procs, FailVersion(p)
    PROVE  FreshRuns' /\ Sound(path)' /\ pc'[p] = "idle"
  <1>1. TypeOK
        /\ pc[p] \in {"persist", "audit", "advance", "decide", "reseal", "activate"}
    BY DEF PublicationInv, FailVersion
  <1>2. PICK r \in Runs, c \in Inodes : Builds(p, r, c)
    BY <1>1, Builder
  <1>3. handle[p] = c
    BY <1>1, <1>2 DEF PublicationInv, VersionAt, Builds
  <1>4. \/ status' = status
        \/ /\ SetStatus(c, Updated(status[c], r, "FAILED"))
           /\ status[c][r] \notin {"ACTIVE", "ARCHIVED"}
    BY <1>1, <1>2, <1>3 DEF FailVersion, Builds, SetStatus, TypeOK
  <1> QED BY <1>1, <1>2, <1>4, InvMarkFailed DEF FailVersion

LEMMA InvReschedule ==
    ASSUME PublicationInv, NEW p \in Procs, RescheduleStep(p)
    PROVE  FreshRuns' /\ Sound(path)' /\ (pc'[p] # "idle" => Local(p)')
  <1>1. CASE AbandonReschedule(p) \/ AbortPersist(p)
    BY <1>1, InvQuietLeave DEF AbandonReschedule, AbortPersist
  <1> QED
    BY <1>1, InvReadBaseline, InvCreateVersion, InvPersistSchedule, InvPersistAudit,
       InvAdvanceVersion, InvVersionBundle, InvActivateVersion, InvFailVersion
       DEF RescheduleStep

-----------------------------------------------------------------------------
(* The MES writers and crashes keep it.                                    *)

LEMMA InvOpenCanonical ==
    ASSUME PublicationInv, NEW p \in Procs, OpenCanonical(p)
    PROVE  FreshRuns' /\ Sound(path)' /\ Local(p)'
  <1>1. TypeOK /\ FreshRuns /\ Sound(path)
    BY DEF PublicationInv
  <1>2. UNCHANGED <<dbVars, path, bundle, run, nextRun, recorded>>
    BY DEF OpenCanonical, fileVars, historyVars
  <1>3. PICK c \in Inodes : c = path
    BY <1>1 DEF TypeOK
  <1>4. Sound(c)' /\ FreshRuns'
    BY <1>1, <1>2, <1>3, QuietStep, SoundAtPath DEF SealedStay
  <1>5. pc'[p] = "record" /\ handle'[p] = path'
    BY <1>1, <1>2 DEF OpenCanonical, Goto, TypeOK
  <1>6. Local(p)'
    BY <1>5 DEF Local, OwnRun, PipelineAt, VersionAt
  <1> QED BY <1>2, <1>3, <1>4, <1>6, SoundAtPathNext

\* An observation goes to the ACTIVE run of the file the path names.
LEMMA InvRecordFeedback ==
    ASSUME PublicationInv, NEW p \in Procs, RecordFeedback(p)
    PROVE  FreshRuns' /\ Sound(path)' /\ pc'[p] = "idle"
  <1>1. TypeOK /\ FreshRuns /\ Sound(path) /\ pc[p] = "record" /\ handle[p] = path
    BY DEF PublicationInv, VersionAt, RecordFeedback, Leave, Goto
  <1>2. PICK c \in Inodes : c = path /\ Sound(c)
    BY <1>1, SoundAtPath DEF TypeOK
  <1>3. PICK f \in Feedback, a \in Runs :
          /\ recorded[f] = NoRun
          /\ IsActiveRun(status[c], a)
          /\ feedback' = [feedback EXCEPT ![c][f] = a]
          /\ recorded' = [recorded EXCEPT ![f] = a]
    BY <1>1, <1>2 DEF RecordFeedback, IsTarget
  <1>4. UNCHANGED <<status, rows, path, bundle, nextRun>>
    BY DEF RecordFeedback, fileVars
  <1>5. status[c][a] = "ACTIVE"
    BY <1>3 DEF IsActiveRun, Active
  <1>6. \A g \in Feedback : /\ feedback'[c][g] = IF g = f THEN a ELSE feedback[c][g]
                            /\ recorded'[g] = IF g = f THEN a ELSE recorded[g]
    BY <1>1, <1>3 DEF TypeOK
  <1>7. Sound(c)'
    <2>1. Whole(c)' /\ OneActive(c)'
      BY <1>2, <1>4 DEF Sound, Whole, OneActive
    <2>2. KeepsFeedback(c)'
      BY <1>2, <1>4, <1>6 DEF Sound, KeepsFeedback
    <2>3. Attributed(c)'
      BY <1>2, <1>4, <1>5, <1>6 DEF Sound, Attributed
    <2> QED BY <2>1, <2>2, <2>3 DEF Sound
  <1>8. pc'[p] = "idle" /\ \A q \in Procs : run'[q] \in {run[q], NoRun}
    BY <1>1, LeaveRuns DEF RecordFeedback
  <1>9. a < nextRun
    BY <1>1, <1>5, Identifiers DEF FreshRuns, NoRow, TypeOK
  <1>10. FreshRuns'
    <2>1. NoRun < nextRun
      BY <1>1 DEF TypeOK, NoRun
    <2> QED BY <1>1, <1>4, <1>6, <1>8, <1>9, <2>1 DEF FreshRuns
  <1> QED BY <1>2, <1>4, <1>7, <1>8, <1>10, SoundAtPathNext

LEMMA PublicationStep ==
    ASSUME PublicationInv, NEW p \in Procs, Begin(p) \/ Step(p) \/ Crash(p)
    PROVE  PublicationInv'
  <1>1. CASE Begin(p)
    BY <1>1, InvBegin, MoverSuffices
  <1>2. CASE PipelineStep(p)
    BY <1>2, InvPipeline, MoverSuffices DEF Step
  <1>3. CASE RescheduleStep(p)
    BY <1>3, InvReschedule, MoverSuffices DEF Step
  <1>4. CASE FeedbackStep(p)
    <2>1. CASE RejectFeedback(p)
      BY <1>4, <2>1, InvQuietLeave, MoverSuffices DEF RejectFeedback, Step
    <2> QED BY <1>4, <2>1, InvOpenCanonical, InvRecordFeedback, MoverSuffices
            DEF FeedbackStep, Step
  <1>5. CASE Crash(p)
    BY <1>5, InvQuietLeave, MoverSuffices DEF Crash
  <1> QED BY <1>1, <1>2, <1>3, <1>4, <1>5 DEF Step

LEMMA PublicationNext == PublicationInv /\ [Next]_vars => PublicationInv'
  <1> SUFFICES ASSUME PublicationInv, [Next]_vars PROVE PublicationInv'
    OBVIOUS
  <1>1. CASE Next
    BY <1>1, PublicationStep DEF Next
  <1>2. CASE UNCHANGED vars
    BY <1>2 DEF vars, dbVars, fileVars, localVars, historyVars, PublicationInv, TypeOK, Mutex,
               FreshRuns, Sound, Whole, KeepsFeedback, Attributed, OneActive, OwnRun,
               PipelineAt, VersionAt
  <1> QED BY <1>1, <1>2

\* PublicationInv: at every reachable state the lock excludes, identifiers are
\* fresh, and the canonical file and the private one are sound.
THEOREM PublicationInvariant == Spec => []PublicationInv
  BY PublicationInit, PublicationNext, PTL DEF Spec

-----------------------------------------------------------------------------
(* What follows from it.                                                   *)

\* PublishedIsWhole: a run readers are shown has all its tables and a sealed
\* bundle, wherever a crash or an error hit.
THEOREM PublishedWhole == Spec => []PublishedIsWhole
  <1>1. PublicationInv => PublishedIsWhole
    BY DEF PublicationInv, Sound, Whole, PublishedIsWhole, Published
  <1> QED BY <1>1, PublicationInvariant, PTL

\* NoLostFeedback: a pipeline never publishes a file that misses an observation
\* recorded since it was copied.
THEOREM FeedbackSurvives == Spec => []NoLostFeedback
  <1>1. PublicationInv => NoLostFeedback
    BY DEF PublicationInv, Sound, KeepsFeedback, NoLostFeedback
  <1> QED BY <1>1, PublicationInvariant, PTL

\* FeedbackOnPublished: an observation is attributed to a published run only.
THEOREM FeedbackAttributed == Spec => []FeedbackOnPublished
  <1>1. PublicationInv => FeedbackOnPublished
    BY DEF PublicationInv, TypeOK, Sound, Attributed, FeedbackOnPublished, Published
  <1> QED BY <1>1, PublicationInvariant, PTL

-----------------------------------------------------------------------------
(* The refinement of RunLifecycle.                                         *)

Private == {"copy", "stages", "bundle", "seal", "promote", "replace"}

-----------------------------------------------------------------------------
(* The steps the registry may take, from reg to new.                       *)

Registers(reg, new, r) ==
    reg[r] = NoRow /\ \E s \in {"RUNNING", "INITIALIZED"} : new = [reg EXCEPT ![r] = s]
Advances(reg, new, r) ==
    /\ reg[r] \notin {NoRow, "ACTIVE"}
    /\ \E s \in ValidStatusTransitions[reg[r]] \ {"ACTIVE"} : new = [reg EXCEPT ![r] = s]
Publishes(reg, new, r) == reg[r] \in {"COMPLETED", NoRow} /\ new = Promoted(reg, r)
Forgets(reg, new) ==
    \E old \in SUBSET Runs : /\ \A x \in old : reg[x] # "ACTIVE"
                             /\ new = Pruned(reg, old)

RegistryStep(reg, new, r) ==
    \/ new = reg
    \/ Registers(reg, new, r)
    \/ Advances(reg, new, r)
    \/ Publishes(reg, new, r)
    \/ Forgets(reg, new)

\* They are the lifecycle's steps.
LEMMA RegistryStepIsLifecycle ==
    ASSUME NEW r \in Runs, status[path] \in Registries,
           RegistryStep(status[path], status'[path'], r)
    PROVE  [Lifecycle!Next]_canon
  <1>1. CASE canon' = canon
    BY <1>1
  <1>2. CASE Registers(canon, canon', r)
    <2>1. Lifecycle!Register(r)
      BY <1>2 DEF Registers, Lifecycle!Register, NoRow, Lifecycle!NoRow
    <2> QED BY <2>1 DEF Lifecycle!Next
  <1>3. CASE Advances(canon, canon', r)
    <2>1. Lifecycle!Advance(r)
      BY <1>3 DEF Advances, Lifecycle!Advance, NoRow, Lifecycle!NoRow, Lifecycle!Updated,
                  ValidStatusTransitions, Lifecycle!ValidStatusTransitions
    <2> QED BY <2>1 DEF Lifecycle!Next
  <1>4. CASE Publishes(canon, canon', r)
    <2>1. Lifecycle!Publish(r)
      BY <1>4 DEF Publishes, Lifecycle!Publish, NoRow, Lifecycle!NoRow,
                  Promoted, Lifecycle!Promoted
    <2> QED BY <2>1 DEF Lifecycle!Next
  <1>5. CASE Forgets(canon, canon')
    <2>1. PICK old \in SUBSET Runs : /\ \A x \in old : canon[x] # "ACTIVE"
                                     /\ canon' = Pruned(canon, old)
      BY <1>5 DEF Forgets
    <2>2. old \in SUBSET (Runs \ Lifecycle!Active(canon))
      BY <2>1 DEF Lifecycle!Active
    <2>3. Lifecycle!Forget(old)
      BY <2>1 DEF Lifecycle!Forget, Pruned, Lifecycle!Pruned, NoRow, Lifecycle!NoRow
    <2> QED BY <2>2, <2>3 DEF Lifecycle!Next
  <1> QED BY <1>1, <1>2, <1>3, <1>4, <1>5 DEF RegistryStep

\* None of them takes the last ACTIVE run away.
LEMMA RegistryStepKeepsActive ==
    ASSUME NEW reg \in Registries, NEW new, NEW r \in Runs, RegistryStep(reg, new, r),
           NEW a \in Runs, reg[a] = "ACTIVE"
    PROVE  \E b \in Runs : new[b] = "ACTIVE"
  <1>1. CASE new = reg
    BY <1>1
  <1>2. CASE Registers(reg, new, r)
    BY <1>2 DEF Registers, Registries, NoRow
  <1>3. CASE Advances(reg, new, r)
    BY <1>3 DEF Advances, Registries
  <1>4. CASE Publishes(reg, new, r)
    BY <1>4 DEF Publishes, Promoted, Registries
  <1>5. CASE Forgets(reg, new)
    BY <1>5 DEF Forgets, Pruned, Registries
  <1> QED BY <1>1, <1>2, <1>3, <1>4, <1>5 DEF RegistryStep

-----------------------------------------------------------------------------
(* What each step does to the registry and to the pipeline's private copy. *)

\* What is shown of a step of p: the registry's step and, after it, the parts
\* of RegistryInv beyond PublicationInv.
Refines(p) ==
    /\ \/ status'[path'] = status[path]
       \/ \E r \in Runs : RegistryStep(status[path], status'[path'], r)
    /\ path' < nextRun'
    /\ PrivateCopy(p)'

LEMMA NotPrivateNext ==
    ASSUME NEW p, pc'[p] \notin Private
    PROVE  PrivateCopy(p)'
  BY DEF PrivateCopy, Private

\* What the invariant says of a process with a run, with the run and the path
\* under names of their own.
LEMMA PrivateBuilder ==
    ASSUME RegistryInv, NEW p \in Procs, pc[p] \notin {"idle", "open", "record"}
    PROVE  \E r \in Runs, c \in Inodes :
              /\ Builds(p, r, c)
              /\ c < nextRun
              /\ pc[p] \in Private => c # r /\ status[c][r] = NoRow
              /\ pc[p] \in {"stages", "bundle", "seal", "promote"}
                  => \A q \in Runs \ {r} : status[r][q] = status[c][q]
              /\ pc[p] = "replace" => status[r] = Promoted(status[c], r)
  <1>1. PICK r \in Runs, c \in Inodes : Builds(p, r, c)
    BY Builder DEF RegistryInv
  <1>2. PrivateCopy(p) /\ path < nextRun
    BY DEF RegistryInv
  <1> QED BY <1>1, <1>2 DEF PrivateCopy, Private, Builds

\* Steps that leave every registry and the path alone, outside the copy.
LEMMA RefQuiet ==
    ASSUME RegistryInv, NEW p \in Procs,
           UNCHANGED <<status, path, nextRun>>, pc'[p] \notin Private
    PROVE  Refines(p)
  BY NotPrivateNext DEF Refines, RegistryStep, RegistryInv

LEMMA RefBegin ==
    ASSUME RegistryInv, NEW p \in Procs, Begin(p)
    PROVE  Refines(p)
  <1>1. TypeOK /\ FreshRuns /\ path < nextRun /\ path \in Inodes
    BY DEF RegistryInv, PublicationInv, TypeOK
  <1>2. UNCHANGED <<status, path>>
    BY DEF Begin, StartPipeline, StartReschedule, StartFeedback, dbVars, fileVars
  <1>3. CASE StartPipeline(p)
    <2>1. /\ nextRun \in Runs /\ nextRun' = nextRun + 1
          /\ run'[p] = nextRun /\ pc'[p] = "copy"
      BY <1>1, <1>3 DEF StartPipeline, Enter, Goto, TakeRun, TypeOK
    <2>2. path' < nextRun' /\ path # nextRun /\ status[path][nextRun] = NoRow
      BY <1>1, <1>2, <2>1, Identifiers DEF FreshRuns, Inodes, Runs
    <2>3. PrivateCopy(p)'
      BY <1>2, <2>1, <2>2 DEF PrivateCopy
    <2> QED BY <1>2, <2>2, <2>3 DEF Refines
  <1>4. CASE StartReschedule(p)
    <2>1. nextRun \in Runs /\ nextRun' = nextRun + 1 /\ pc'[p] = "baseline"
      BY <1>1, <1>4 DEF StartReschedule, Enter, Goto, TakeRun, TypeOK
    <2>2. path' < nextRun'
      BY <1>1, <1>2, <2>1, Identifiers DEF Inodes, Runs
    <2> QED BY <1>2, <2>1, <2>2, NotPrivateNext DEF Refines, Private
  <1>5. CASE StartFeedback(p)
    <2>1. nextRun' = nextRun /\ pc'[p] = "open"
      BY <1>1, <1>5 DEF StartFeedback, Enter, Goto, historyVars, TypeOK
    <2> QED BY <1>1, <1>2, <2>1, NotPrivateNext DEF Refines, Private
  <1> QED BY <1>3, <1>4, <1>5 DEF Begin

\* A step inside the private file r: the canonical registry stays, and what
\* the private one becomes is what PrivateCopy asks of it.
LEMMA RefPrivate ==
    ASSUME RegistryInv, NEW p \in Procs, NEW r \in Inodes, NEW c \in Inodes,
           run'[p] = r, path = c, c # r, status[c][r] = NoRow,
           UNCHANGED <<path, nextRun>>, NEW reg, SetStatus(r, reg),
           pc'[p] \in {"stages", "bundle", "seal", "promote"}
               => \A q \in Runs \ {r} : reg[q] = status[c][q],
           pc'[p] = "replace" => reg = Promoted(status[c], r)
    PROVE  Refines(p)
  <1>1. status'[c] = status[c] /\ status'[r] = reg
    BY DEF RegistryInv, PublicationInv, TypeOK, SetStatus
  <1>2. PrivateCopy(p)'
    BY <1>1 DEF PrivateCopy
  <1> QED BY <1>1, <1>2 DEF Refines, RegistryInv

LEMMA RefPipelinePrivate ==
    ASSUME RegistryInv, NEW p \in Procs,
           \/ CopyCanonical(p) \/ RunStages(p) \/ ValidateRun(p) \/ ExportBundle(p)
           \/ SealBundle(p) \/ PromoteStaged(p)
    PROVE  Refines(p)
  <1>1. TypeOK /\ pc[p] \in Private \ {"replace"}
    BY DEF RegistryInv, PublicationInv, CopyCanonical, RunStages, ValidateRun, ExportBundle,
           SealBundle, PromoteStaged, Goto, Private
  <1>2. PICK r \in Runs, c \in Inodes :
            /\ Builds(p, r, c)
            /\ c < nextRun /\ c # r /\ status[c][r] = NoRow
            /\ pc[p] \in {"stages", "bundle", "seal", "promote"}
                => \A q \in Runs \ {r} : status[r][q] = status[c][q]
    BY <1>1, PrivateBuilder DEF Private
  <1> USE <1>2 DEF Builds
  <1>3. UNCHANGED <<path, nextRun, run>>
    BY DEF CopyCanonical, RunStages, ValidateRun, ExportBundle, SealBundle, PromoteStaged,
           fileVars, localVars, historyVars
  <1>4. CASE CopyCanonical(p)
    <2>1. SetStatus(r, Started(status[c], r)) /\ pc'[p] = "stages"
      BY <1>1, <1>4 DEF CopyCanonical, Goto, TypeOK
    <2>2. \A q \in Runs \ {r} : Started(status[c], r)[q] = status[c][q]
      BY DEF Started, Registries
    <2> QED BY <1>3, <2>1, <2>2, RefPrivate
  <1>5. CASE RunStages(p)
    <2>1. SetStatus(r, Updated(status[r], r, "STAGING")) /\ pc'[p] = pc[p] /\ pc[p] = "stages"
      BY <1>5 DEF RunStages
    <2>2. \A q \in Runs \ {r} : Updated(status[r], r, "STAGING")[q] = status[c][q]
      BY <2>1 DEF Updated, Registries
    <2> QED BY <1>3, <2>1, <2>2, RefPrivate
  <1>6. CASE ValidateRun(p)
    <2>1. /\ SetStatus(r, Updated(Updated(status[r], r, "VALIDATE"), r, "COMPLETED"))
          /\ pc[p] = "stages" /\ pc'[p] = "bundle"
      BY <1>1, <1>6 DEF ValidateRun, Goto, TypeOK
    <2>2. \A q \in Runs \ {r} :
            Updated(Updated(status[r], r, "VALIDATE"), r, "COMPLETED")[q] = status[c][q]
      BY <2>1 DEF Updated, Registries
    <2> QED BY <1>3, <2>1, <2>2, RefPrivate
  <1>7. CASE ExportBundle(p) \/ SealBundle(p)
    <2>1. /\ pc[p] \in {"bundle", "seal"} /\ pc'[p] \in {"seal", "promote"}
          /\ status' = status
      BY <1>1, <1>7 DEF ExportBundle, SealBundle, Goto, TypeOK, dbVars
    <2>2. SetStatus(r, status[r])
      BY <1>1, <2>1 DEF SetStatus, TypeOK
    <2> QED BY <1>2, <1>3, <2>1, <2>2, RefPrivate
  <1>8. CASE PromoteStaged(p)
    <2>1. /\ pc[p] = "promote" /\ pc'[p] = "replace" /\ status[r][r] = "COMPLETED"
          /\ SetStatus(r, Promoted(status[r], r))
      BY <1>1, <1>8 DEF PromoteStaged, Goto, TypeOK, CanPromote
    <2>2. Promoted(status[r], r) = Promoted(status[c], r)
      BY <1>2, <2>1 DEF Promoted, Registries
    <2> QED BY <1>3, <2>1, <2>2, RefPrivate
  <1> QED BY <1>4, <1>5, <1>6, <1>7, <1>8

\* The rename publishes: the canonical registry becomes the promoted copy.
LEMMA RefReplaceCanonical ==
    ASSUME RegistryInv, NEW p \in Procs, ReplaceCanonical(p)
    PROVE  Refines(p)
  <1>1. TypeOK /\ pc[p] = "replace" /\ pc'[p] = "retain"
    BY DEF RegistryInv, PublicationInv, ReplaceCanonical, Goto, TypeOK
  <1>2. PICK r \in Runs, c \in Inodes :
            /\ Builds(p, r, c)
            /\ status[c][r] = NoRow /\ status[r] = Promoted(status[c], r)
    BY <1>1, PrivateBuilder DEF Private
  <1> USE <1>2 DEF Builds
  <1>3. path' = r /\ UNCHANGED <<status, nextRun>>
    BY DEF ReplaceCanonical, dbVars, historyVars
  <1>4. Publishes(status[path], status'[path'], r)
    BY <1>2, <1>3 DEF Publishes
  <1> QED BY <1>1, <1>2, <1>3, <1>4, NotPrivateNext DEF Refines, RegistryStep, Private

\* A step that rewrites the canonical registry as the lifecycle allows.
LEMMA RefCanonical ==
    ASSUME RegistryInv, NEW p \in Procs, NEW r \in Runs, NEW reg, SetStatus(path, reg),
           UNCHANGED <<path, nextRun>>, pc'[p] \notin Private,
           reg = status[path] \/ RegistryStep(status[path], reg, r)
    PROVE  Refines(p)
  <1>1. status'[path] = reg
    BY DEF RegistryInv, PublicationInv, TypeOK, SetStatus
  <1> QED BY <1>1, NotPrivateNext DEF Refines, RegistryInv

LEMMA RefPruneRows ==
    ASSUME RegistryInv, NEW p \in Procs, PruneRows(p)
    PROVE  Refines(p)
  <1>1. TypeOK /\ pc[p] = "retain" /\ pc'[p] = "sweep"
    BY DEF RegistryInv, PublicationInv, PruneRows, Goto, TypeOK
  <1>2. PICK r \in Runs, c \in Inodes : Builds(p, r, c)
    BY <1>1, PrivateBuilder
  <1>3. PICK old \in OldRuns(status[path], KeepLastN, {ReferenceRun}) :
            SetStatus(path, Pruned(status[path], old))
    BY DEF PruneRows
  <1>4. old \in SUBSET Runs /\ \A x \in old : status[path][x] # "ACTIVE"
    BY <1>2, <1>3, OldRunsAreOld DEF Builds
  <1>5. Forgets(status[path], Pruned(status[path], old))
    BY <1>4 DEF Forgets
  <1>6. UNCHANGED <<path, nextRun>>
    BY DEF PruneRows, fileVars, historyVars
  <1> QED BY <1>1, <1>3, <1>5, <1>6, RefCanonical DEF RegistryStep, Private

LEMMA RefFailPipeline ==
    ASSUME RegistryInv, NEW p \in Procs, FailPipeline(p)
    PROVE  Refines(p)
  <1>1. TypeOK /\ pc[p] \notin {"idle", "open", "record"} /\ pc'[p] = "failing"
    BY DEF RegistryInv, PublicationInv, FailPipeline, TypeOK
  <1>2. PICK r \in Runs, c \in Inodes : Builds(p, r, c)
    BY <1>1, PrivateBuilder
  <1>3. /\ SetStatus(path, IF status[path][r] = NoRow
                           THEN [status[path] EXCEPT ![r] = "INITIALIZED"] ELSE status[path])
        /\ UNCHANGED <<path, nextRun>>
    BY <1>2 DEF FailPipeline, Builds, fileVars, historyVars
  <1>4. CASE status[path][r] = NoRow
    <2>1. Registers(status[path], [status[path] EXCEPT ![r] = "INITIALIZED"], r)
      BY <1>4 DEF Registers
    <2> QED BY <1>1, <1>3, <1>4, <2>1, RefCanonical DEF RegistryStep, Private
  <1>5. CASE status[path][r] # NoRow
    BY <1>1, <1>3, <1>5, RefCanonical DEF Private
  <1> QED BY <1>4, <1>5

\* Going to a status the state machine allows, other than ACTIVE or ARCHIVED.
LEMMA UpdateAdvances ==
    ASSUME NEW reg \in Registries, NEW r \in Runs, NEW s,
           s \notin {"ACTIVE", "ARCHIVED"}, CanUpdate(reg, r, s)
    PROVE  Updated(reg, r, s) = reg \/ Advances(reg, Updated(reg, r, s), r)
  <1>1. CASE s = reg[r]
    BY <1>1 DEF Updated, Registries
  <1>2. CASE s # reg[r]
    <2>1. s \in ValidStatusTransitions[reg[r]] \ {"ACTIVE"} /\ reg[r] # NoRow
      BY <1>2 DEF CanUpdate
    <2>2. reg[r] # "ACTIVE"
      BY <2>1 DEF ValidStatusTransitions
    <2> QED BY <2>1, <2>2 DEF Advances, Updated
  <1> QED BY <1>1, <1>2

LEMMA RefRecordFailure ==
    ASSUME RegistryInv, NEW p \in Procs, RecordFailure(p)
    PROVE  Refines(p)
  <1>1. TypeOK /\ pc[p] = "failing" /\ pc'[p] = "idle"
    BY DEF RegistryInv, PublicationInv, RecordFailure, Leave, Goto, TypeOK
  <1>2. PICK r \in Runs, c \in Inodes : Builds(p, r, c)
    BY <1>1, PrivateBuilder
  <1> USE <1>2 DEF Builds
  <1>3. UNCHANGED <<path, nextRun>>
    BY DEF RecordFailure, fileVars, historyVars
  <1>4. CASE CanUpdate(status[c], r, "FAILED")
    <2>1. SetStatus(path, Updated(status[c], r, "FAILED"))
      BY <1>4 DEF RecordFailure
    <2> QED BY <1>1, <1>3, <1>4, <2>1, UpdateAdvances, RefCanonical DEF RegistryStep, Private
  <1>5. CASE ~CanUpdate(status[c], r, "FAILED")
    <2>1. SetStatus(path, status[c])
      BY <1>5 DEF RecordFailure
    <2> QED BY <1>1, <1>3, <2>1, RefCanonical DEF Private
  <1> QED BY <1>4, <1>5

\* The rescheduler's steps on the canonical registry.
LEMMA RefVersion ==
    ASSUME RegistryInv, NEW p \in Procs,
           CreateVersion(p) \/ AdvanceVersion(p) \/ ActivateVersion(p) \/ FailVersion(p)
    PROVE  Refines(p)
  <1>1. /\ TypeOK
        /\ pc[p] \in {"create", "persist", "audit", "advance", "decide", "reseal", "activate"}
        /\ pc'[p] \notin Private
        /\ UNCHANGED <<path, nextRun>>
    BY DEF RegistryInv, PublicationInv, TypeOK, CreateVersion, AdvanceVersion, ActivateVersion,
           FailVersion, Goto, Leave, Private, fileVars, historyVars
  <1>2. PICK r \in Runs, c \in Inodes : Builds(p, r, c)
    BY <1>1, PrivateBuilder
  <1> USE <1>2 DEF Builds
  <1>3. handle[p] = c
    BY <1>1 DEF RegistryInv, PublicationInv, VersionAt
  <1>4. CASE CreateVersion(p)
    <2>1. status[c][r] = NoRow /\ SetStatus(c, Started(status[c], r))
      BY <1>3, <1>4 DEF CreateVersion, CanStart
    <2>2. Registers(status[c], Started(status[c], r), r)
      BY <2>1 DEF Registers, Started
    <2> QED BY <1>1, <2>1, <2>2, RefCanonical DEF RegistryStep
  <1>5. CASE AdvanceVersion(p)
    <2>1. PICK s \in {"STAGING", "VALIDATE", "COMPLETED"} :
            CanUpdate(status[c], r, s) /\ SetStatus(c, Updated(status[c], r, s))
      BY <1>3, <1>5 DEF AdvanceVersion
    <2>2. \/ Updated(status[c], r, s) = status[c]
          \/ Advances(status[c], Updated(status[c], r, s), r)
      BY <2>1, UpdateAdvances
    <2> QED BY <1>1, <2>1, <2>2, RefCanonical DEF RegistryStep
  <1>6. CASE ActivateVersion(p)
    <2>1. status[c][r] = "COMPLETED" /\ SetStatus(c, Promoted(status[c], r))
      BY <1>3, <1>6 DEF ActivateVersion, CanPromote
    <2>2. Publishes(status[c], Promoted(status[c], r), r)
      BY <2>1 DEF Publishes
    <2> QED BY <1>1, <2>1, <2>2, RefCanonical DEF RegistryStep
  <1>7. CASE FailVersion(p)
    <2>1. CASE status[c][r] \in {"RUNNING", "STAGING", "VALIDATE", "COMPLETED"}
      <3>1. SetStatus(c, Updated(status[c], r, "FAILED"))
        BY <1>3, <1>7, <2>1 DEF FailVersion
      <3>2. CanUpdate(status[c], r, "FAILED")
        BY <2>1 DEF CanUpdate, ValidStatusTransitions, NoRow
      <3>3. \/ Updated(status[c], r, "FAILED") = status[c]
            \/ Advances(status[c], Updated(status[c], r, "FAILED"), r)
        BY <3>2, UpdateAdvances
      <3> QED BY <1>1, <3>1, <3>3, RefCanonical DEF RegistryStep
    <2>2. CASE status[c][r] \notin {"RUNNING", "STAGING", "VALIDATE", "COMPLETED"}
      <3>1. SetStatus(c, status[c])
        BY <1>3, <1>7, <2>2 DEF FailVersion
      <3> QED BY <1>1, <3>1, RefCanonical
    <2> QED BY <2>1, <2>2
  <1> QED BY <1>4, <1>5, <1>6, <1>7

\* All other steps leave the registries and the path alone.
LEMMA RefRest ==
    ASSUME RegistryInv, NEW p \in Procs,
           \/ SweepBundles(p) \/ SkipRetention(p) \/ AbortCopy(p)
           \/ ReadBaseline(p) \/ AbandonReschedule(p) \/ PersistSchedule(p)
           \/ PersistAudit(p) \/ AbortPersist(p) \/ FillVersionBundle(p) \/ SealVersion(p)
           \/ FeedbackStep(p) \/ Crash(p)
    PROVE  Refines(p)
  <1>1. pc'[p] \notin Private
    BY DEF RegistryInv, PublicationInv, TypeOK, SweepBundles, SkipRetention, AbortCopy,
           ReadBaseline, AbandonReschedule, PersistSchedule, PersistAudit, AbortPersist,
           FillVersionBundle, SealVersion, FeedbackStep, OpenCanonical, RecordFeedback,
           RejectFeedback, Crash, Goto, Leave, Private
  <1>2. UNCHANGED <<status, path, nextRun>>
    BY DEF SweepBundles, SkipRetention, AbortCopy,
           ReadBaseline, AbandonReschedule, PersistSchedule, PersistAudit, AbortPersist,
           FillVersionBundle, SealVersion, FeedbackStep, OpenCanonical, RecordFeedback,
           RejectFeedback, Crash, dbVars, fileVars, historyVars
  <1> QED BY <1>1, <1>2, RefQuiet

-----------------------------------------------------------------------------
(* The theorems.                                                           *)

LEMMA EveryStepRefines ==
    ASSUME RegistryInv, NEW p \in Procs, Begin(p) \/ Step(p) \/ Crash(p)
    PROVE  Refines(p)
  BY RefBegin, RefPipelinePrivate, RefReplaceCanonical, RefPruneRows, RefFailPipeline,
     RefRecordFailure, RefVersion, RefRest
     DEF Step, PipelineStep, RescheduleStep

LEMMA RegistryInit == Init => RegistryInv
  <1> SUFFICES ASSUME Init PROVE RegistryInv
    OBVIOUS
  <1>1. PublicationInv
    BY PublicationInit
  <1>2. path < nextRun /\ \A p \in Procs : pc[p] = "idle"
    BY DEF Init
  <1> QED BY <1>1, <1>2 DEF RegistryInv, PrivateCopy

LEMMA RegistryNext == RegistryInv /\ [Next]_vars => RegistryInv' /\ [Lifecycle!Next]_canon
  <1> SUFFICES ASSUME RegistryInv, [Next]_vars PROVE RegistryInv' /\ [Lifecycle!Next]_canon
    OBVIOUS
  <1>1. TypeOK /\ Mutex /\ PublicationInv'
    BY PublicationNext DEF RegistryInv, PublicationInv
  <1>2. CASE Next
    <2>1. PICK p \in Procs : Begin(p) \/ Step(p) \/ Crash(p)
      BY <1>2 DEF Next
    <2>2. Refines(p)
      BY <2>1, EveryStepRefines
    <2>3. \A q \in Procs : PrivateCopy(q)'
      <3>1. \A q \in Procs \ {p} : pc'[q] = "idle"
        BY <1>1, <2>1, Alone
      <3>2. \A q \in Procs \ {p} : PrivateCopy(q)'
        BY <3>1, NotPrivateNext DEF Private
      <3> QED BY <2>2, <3>2 DEF Refines
    <2>4. RegistryInv'
      BY <1>1, <2>2, <2>3 DEF RegistryInv, Refines
    <2>5. status[path] \in Registries
      BY <1>1 DEF TypeOK, Registries
    <2>6. [Lifecycle!Next]_canon
      BY <2>2, <2>5, RegistryStepIsLifecycle DEF Refines
    <2> QED BY <2>4, <2>6
  <1>3. CASE UNCHANGED vars
    BY <1>1, <1>3 DEF vars, dbVars, fileVars, localVars, historyVars, RegistryInv, PrivateCopy
  <1> QED BY <1>2, <1>3

\* RegistryInv: the private file of a pipeline differs from the canonical one in
\* its own run only, at every reachable state.
THEOREM RegistryInvariant == Spec => []RegistryInv
  BY RegistryInit, RegistryNext, PTL DEF Spec

\* LifecycleRefined: the registry behind the canonical path implements the
\* lifecycle, for any number of runs, processes and observations.
THEOREM LifecycleImplemented == Spec => LifecycleRefined
  <1>1. Init => Lifecycle!Init
    BY Identifiers DEF Init, Lifecycle!Init, NoRow, Lifecycle!NoRow
  <1> QED BY <1>1, RegistryInit, RegistryNext, PTL DEF Spec, LifecycleRefined, Lifecycle!Spec

\* An ACTIVE run stays or is succeeded by one, and the new registry is sound.
LEMMA ActiveStep == RegistryInv /\ [Next]_vars => [KeepsSoleActive]_vars
  <1> SUFFICES ASSUME RegistryInv, Next, Active(canon) # {}
               PROVE  (\E r \in Runs : IsActiveRun(canon, r))'
    BY DEF KeepsSoleActive
  <1>1. TypeOK /\ TypeOK' /\ Sound(path)'
    BY PublicationNext DEF RegistryInv, PublicationInv
  <1>2. PICK c \in Inodes, d \in Inodes : path = c /\ path' = d
    BY <1>1 DEF TypeOK
  <1>3. status[c] \in Registries /\ status'[d] \in Registries
    BY <1>1, <1>2 DEF TypeOK, Registries
  <1>4. PICK a \in Runs : status[c][a] = "ACTIVE"
    BY <1>2, <1>3 DEF Active, Registries
  <1>5. PICK p \in Procs : Begin(p) \/ Step(p) \/ Crash(p)
    BY DEF Next
  <1>6. \/ status'[d] = status[c]
        \/ \E r \in Runs : RegistryStep(status[c], status'[d], r)
    BY <1>2, <1>5, EveryStepRefines DEF Refines
  <1>7. PICK b \in Runs : status'[d][b] = "ACTIVE"
    BY <1>3, <1>4, <1>6, RegistryStepKeepsActive
  <1>8. OneActive(d)'
    BY <1>1, <1>2, SoundAtPathNext DEF Sound
  <1>9. \A x \in Runs : status'[d][x] = "ACTIVE" => x = b
    BY <1>7, <1>8 DEF OneActive
  <1>10. Active(status'[d]) = {b}
    BY <1>3, <1>7, <1>9 DEF Active, Registries
  <1> QED BY <1>2, <1>10 DEF IsActiveRun

\* ActiveNeverLost: no failure handler, crash, rename or retention leaves the
\* readers of the canonical path with no ACTIVE run, or with two.
THEOREM ActiveKept == Spec => ActiveNeverLost
  BY RegistryInvariant, ActiveStep, PTL DEF Spec, ActiveNeverLost
==============================================================================
