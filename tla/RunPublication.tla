---------------------------- MODULE RunPublication ----------------------------
(***************************************************************************)
(* How a run version becomes the ACTIVE one: the end-to-end pipeline       *)
(* (src/main.py), the dynamic rescheduler (src/src/scheduling/             *)
(* rescheduler.py) and the MES writers (src/src/integration/               *)
(* mes_service.py), all working on one canonical SQLite file.              *)
(*                                                                         *)
(* A database file is an inode.  The canonical path names one inode; the   *)
(* pipeline builds its version in a private inode, numbered like its run,  *)
(* and publishes it by renaming it over the path.  The rescheduler works   *)
(* on the canonical inode itself, in several commits.  A process may crash *)
(* between any two steps: it loses its lock, its handle and its place.     *)
(***************************************************************************)
EXTENDS Lineage

CONSTANTS
    Procs,        \* operating-system processes (or threads) sharing the path
    MaxRun,       \* bound: run identifiers 1..MaxRun are handed out in order
    Feedback,     \* MES observations to be recorded, each at most once
    KeepLastN,    \* the keep_last_n argument of the retention policy
    ReferenceRun, \* the run artifacts/reference/manifest.json names, or NoRun
    NoProc

ASSUME PublicationAssumption ==
    /\ MaxRun \in Nat
    /\ KeepLastN \in Nat \ {0}
    /\ ReferenceRun \in Nat
    /\ NoProc \notin Procs

Runs == 1..MaxRun
NoRun == 0
Inodes == 0..MaxRun     \* inode 0 is the canonical file of a fresh install

VARIABLES
    status,     \* [Inodes -> registry]: pipeline_runs in each database file
    rows,       \* [Inodes -> [Runs -> RowStates]]: the run-scoped tables
    feedback,   \* [Inodes -> [Feedback -> run it is attributed to, or NoRun]]
    path,       \* the inode the canonical path names
    bundle,     \* [Runs -> BundleStates]: artifacts/runs/<run_id>
    owner,      \* the process inside run_mutation_lock
    pc,         \* where each process is
    run,        \* the run a process is building
    handle,     \* the inode a process's open connection refers to
    doomed,     \* old_runs of a retention between its commit and its sweep
    nextRun,    \* identifiers below it have been handed out
    recorded    \* the run each observation was reported to be recorded for

dbVars == <<status, rows, feedback>>
fileVars == <<path, bundle>>
localVars == <<run, handle, doomed>>
historyVars == <<nextRun, recorded>>
vars == <<dbVars, fileVars, owner, pc, localVars, historyVars>>

RowStates == {"none", "inputs", "full"}
BundleStates == {"absent", "open", "sealed"}
Labels == {"idle", "copy", "stages", "bundle", "seal", "promote", "replace",
           "retain", "sweep", "failing", "baseline", "create", "persist",
           "audit", "advance", "decide", "reseal", "activate", "open", "record"}

canon == status[path]   \* the registry every reader of the path sees

TypeOK ==
    /\ status \in [Inodes -> [Runs -> Statuses \cup {NoRow}]]
    /\ rows \in [Inodes -> [Runs -> RowStates]]
    /\ feedback \in [Inodes -> [Feedback -> Runs \cup {NoRun}]]
    /\ path \in Inodes
    /\ bundle \in [Runs -> BundleStates]
    /\ owner \in Procs \cup {NoProc}
    /\ pc \in [Procs -> Labels]
    /\ run \in [Procs -> Runs \cup {NoRun}]
    /\ handle \in [Procs -> Inodes]
    /\ doomed \in [Procs -> SUBSET Runs]
    /\ nextRun \in 1..(MaxRun + 1)
    /\ recorded \in [Feedback -> Runs \cup {NoRun}]

Init ==
    /\ status = [i \in Inodes |-> [r \in Runs |-> NoRow]]
    /\ rows = [i \in Inodes |-> [r \in Runs |-> "none"]]
    /\ feedback = [i \in Inodes |-> [f \in Feedback |-> NoRun]]
    /\ path = 0
    /\ bundle = [r \in Runs |-> "absent"]
    /\ owner = NoProc
    /\ pc = [p \in Procs |-> "idle"]
    /\ run = [p \in Procs |-> NoRun]
    /\ handle = [p \in Procs |-> 0]
    /\ doomed = [p \in Procs |-> {}]
    /\ nextRun = 1
    /\ recorded = [f \in Feedback |-> NoRun]

-----------------------------------------------------------------------------
(* Steps shared by every actor.                                            *)

Goto(p, from, to) ==
    /\ pc[p] = from
    /\ pc' = [pc EXCEPT ![p] = to]

\* Entering run_mutation_lock; a publication also draws its run identifier.
\* (Mutant: the lock is not taken.)
LockNotTaken == TRUE
LockFree == owner = NoProc

Enter(p, to) ==
    /\ Goto(p, "idle", to)
    /\ LockFree
    /\ owner' = p

TakeRun(p) ==
    /\ nextRun \in Runs
    /\ run' = [run EXCEPT ![p] = nextRun]
    /\ nextRun' = nextRun + 1

\* Leaving the lock, by return or by exception.
Leave(p, from) ==
    /\ Goto(p, from, "idle")
    /\ owner' = NoProc
    /\ run' = [run EXCEPT ![p] = NoRun]
    /\ handle' = [handle EXCEPT ![p] = 0]
    /\ doomed' = [doomed EXCEPT ![p] = {}]

SetStatus(i, reg) == status' = [status EXCEPT ![i] = reg]

\* A stage may finish without an error and still leave its tables incomplete.
FillRows(i, r) ==
    \E content \in {"inputs", "full"} : rows' = [rows EXCEPT ![i][r] = content]

\* validate_pipeline_run accepts a run whose tables are all filled.
PassesValidation(i, r) == rows[i][r] = "full"

-----------------------------------------------------------------------------
(* The pipeline: run_end_to_end_pipeline and _run_end_to_end_pipeline.     *)

StartPipeline(p) ==
    /\ Enter(p, "copy")
    /\ TakeRun(p)
    /\ UNCHANGED <<dbVars, fileVars, handle, doomed, recorded>>

\* canonical -> staging backup, then start_pipeline_run in the private file.
CopyCanonical(p) ==
    LET r == run[p] IN
    /\ Goto(p, "copy", "stages")
    /\ CanStart(canon, r)
    /\ SetStatus(r, Started(canon, r))
    /\ rows' = [rows EXCEPT ![r] = rows[path]]
    /\ feedback' = [feedback EXCEPT ![r] = feedback[path]]
    /\ handle' = [handle EXCEPT ![p] = r]
    /\ UNCHANGED <<fileVars, owner, run, doomed, historyVars>>

\* The eight stages fill the run's tables and the row goes to STAGING ...
RunStages(p) ==
    LET r == run[p] IN
    /\ pc[p] = "stages"
    /\ status[r][r] = "RUNNING"
    /\ SetStatus(r, Updated(status[r], r, "STAGING"))
    /\ FillRows(r, r)
    /\ UNCHANGED <<feedback, fileVars, owner, pc, localVars, historyVars>>

\* ... then to VALIDATE and, past the gate, to COMPLETED.
ValidateRun(p) ==
    LET r == run[p] IN
    /\ Goto(p, "stages", "bundle")
    /\ status[r][r] = "STAGING"
    /\ PassesValidation(r, r)
    /\ SetStatus(r, Updated(Updated(status[r], r, "VALIDATE"), r, "COMPLETED"))
    /\ UNCHANGED <<rows, feedback, fileVars, owner, localVars, historyVars>>

\* mkdir(exist_ok=False), export_run_database and the two copytrees ...
\* (Mutant: the bundle is sealed after the promotion.)
ExportThenPromote(p) ==
    /\ Goto(p, "bundle", "promote")
    /\ bundle[run[p]] = "absent"
    /\ bundle' = [bundle EXCEPT ![run[p]] = "open"]
    /\ UNCHANGED <<dbVars, path, owner, localVars, historyVars>>
ExportBundle(p) ==
    /\ Goto(p, "bundle", "seal")
    /\ bundle[run[p]] = "absent"
    /\ bundle' = [bundle EXCEPT ![run[p]] = "open"]
    /\ UNCHANGED <<dbVars, path, owner, localVars, historyVars>>

\* ... then seal_run_bundle renames the manifest in and verify_run_bundle
\* checks it.
SealBundle(p) ==
    /\ Goto(p, "seal", "promote")
    /\ bundle' = [bundle EXCEPT ![run[p]] = "sealed"]
    /\ UNCHANGED <<dbVars, path, owner, localVars, historyVars>>

\* promote_run_to_active inside the private file.
PromoteStaged(p) ==
    LET r == run[p] IN
    /\ Goto(p, "promote", "replace")
    /\ CanPromote(status[r], r)
    /\ SetStatus(r, Promoted(status[r], r))
    /\ UNCHANGED <<rows, feedback, fileVars, owner, localVars, historyVars>>

\* os.replace: the single commit point.
ReplaceCanonical(p) ==
    /\ Goto(p, "replace", "retain")
    /\ path' = run[p]
    /\ UNCHANGED <<dbVars, bundle, owner, localVars, historyVars>>

\* apply_run_retention_policy, the transaction: the ACTIVE run, the reference
\* run and as many others as the limit leaves room for are kept.  Which of the
\* others are the newest is left open here (RunRetention orders them).
\* (Mutant: the ACTIVE run is counted and deleted like the others.)
PruneAnyRow(p) ==
    /\ Goto(p, "retain", "sweep")
    /\ \E old \in SUBSET (Rows(canon) \ {ReferenceRun}) :
        /\ Cardinality(Rows(canon) \ old) >= KeepLastN
        /\ SetStatus(path, Pruned(canon, old))
        /\ doomed' = [doomed EXCEPT ![p] = old]
    /\ UNCHANGED <<rows, feedback, fileVars, owner, run, handle, historyVars>>
PruneRows(p) ==
    /\ Goto(p, "retain", "sweep")
    /\ \E old \in OldRuns(canon, KeepLastN, {ReferenceRun}) :
        /\ SetStatus(path, Pruned(canon, old))
        /\ rows' = [rows EXCEPT ![path] =
                      [r \in Runs |-> IF r \in old THEN "none" ELSE rows[path][r]]]
        /\ feedback' = [feedback EXCEPT ![path] =
                      [f \in Feedback |-> IF feedback[path][f] \in old
                                          THEN NoRun ELSE feedback[path][f]]]
        /\ doomed' = [doomed EXCEPT ![p] = old]
    /\ UNCHANGED <<fileVars, owner, run, handle, historyVars>>

\* ... then the files: bundles of deleted runs, and sealed bundles that no
\* row names.  Any other unsealed directory is left alone.
SweepBundles(p) ==
    /\ Leave(p, "sweep")
    /\ bundle' = [r \in Runs |->
          IF \/ r \in doomed[p]
             \/ /\ bundle[r] = "sealed"
                /\ r \notin Rows(canon) \cup {ReferenceRun}
          THEN "absent" ELSE bundle[r]]
    /\ UNCHANGED <<dbVars, path, historyVars>>

\* A cache or retention error after publication is swallowed.
SkipRetention(p) ==
    /\ pc[p] \in {"retain", "sweep"}
    /\ Leave(p, pc[p])
    /\ UNCHANGED <<dbVars, fileVars, historyVars>>

\* An exception before the try block leaves no trace.
AbortCopy(p) ==
    /\ Leave(p, "copy")
    /\ UNCHANGED <<dbVars, fileVars, historyVars>>

\* An exception inside it: the staging directory goes, and the canonical
\* registry gets an INITIALIZED row when it has none for this run.  The
\* exception may also come just after os.replace.
FailPipeline(p) ==
    LET r == run[p] IN
    /\ pc[p] \in {"stages", "bundle", "seal", "promote", "replace", "retain"}
    /\ pc' = [pc EXCEPT ![p] = "failing"]
    /\ SetStatus(path, IF canon[r] = NoRow
                       THEN [canon EXCEPT ![r] = "INITIALIZED"] ELSE canon)
    /\ UNCHANGED <<rows, feedback, fileVars, owner, localVars, historyVars>>

\* ... then FAILED; a refusal by the state machine is swallowed.
\* (Mutant: the refusal makes the handler try again.)
RetryFailure(p) ==
    LET r == run[p] IN
    /\ Leave(p, "failing")
    /\ CanUpdate(canon, r, "FAILED")
    /\ SetStatus(path, Updated(canon, r, "FAILED"))
    /\ UNCHANGED <<rows, feedback, fileVars, historyVars>>
RecordFailure(p) ==
    LET r == run[p] IN
    /\ Leave(p, "failing")
    /\ SetStatus(path, IF CanUpdate(canon, r, "FAILED")
                       THEN Updated(canon, r, "FAILED") ELSE canon)
    /\ UNCHANGED <<rows, feedback, fileVars, historyVars>>

-----------------------------------------------------------------------------
(* The rescheduler: execute_reschedule and _execute_reschedule.            *)

StartReschedule(p) ==
    /\ Enter(p, "baseline")
    /\ TakeRun(p)
    /\ UNCHANGED <<dbVars, fileVars, handle, doomed, recorded>>

\* The connection is opened under the lock; the sole ACTIVE run and its
\* schedule are the baseline of an in-memory solve.
ReadBaseline(p) ==
    /\ Goto(p, "baseline", "create")
    /\ \E a \in Runs : IsActiveRun(canon, a) /\ rows[path][a] = "full"
    /\ handle' = [handle EXCEPT ![p] = path]
    /\ UNCHANGED <<dbVars, fileVars, owner, run, doomed, historyVars>>

\* No ACTIVE run, a solver timeout, a rejected candidate, or an error in the
\* transaction that would create the version: nothing is written.
AbandonReschedule(p) ==
    /\ pc[p] \in {"baseline", "create"}
    /\ Leave(p, pc[p])
    /\ UNCHANGED <<dbVars, fileVars, historyVars>>

\* _create_new_run_record and _clone_run_scoped_inputs, which commits.
CreateVersion(p) ==
    LET i == handle[p]
        r == run[p] IN
    /\ Goto(p, "create", "persist")
    /\ CanStart(status[i], r)
    /\ SetStatus(i, Started(status[i], r))
    /\ rows' = [rows EXCEPT ![i][r] = "inputs"]
    /\ UNCHANGED <<feedback, fileVars, owner, localVars, historyVars>>

\* The schedule table is appended by a write that commits on its own.
PersistSchedule(p) ==
    /\ Goto(p, "persist", "audit")
    /\ UNCHANGED <<dbVars, fileVars, owner, localVars, historyVars>>

\* Solver metadata, audit entry and model context are one more transaction;
\* the energy and carbon tables follow.
PersistAudit(p) ==
    /\ Goto(p, "audit", "advance")
    /\ FillRows(handle[p], run[p])
    /\ UNCHANGED <<status, feedback, fileVars, owner, localVars, historyVars>>

\* An exception while that transaction is open: the handler's own connection
\* finds the database locked, so the row keeps its RUNNING status.
AbortPersist(p) ==
    /\ Leave(p, "audit")
    /\ UNCHANGED <<dbVars, fileVars, historyVars>>

\* STAGING, VALIDATE and, past the gate, COMPLETED, each its own commit.
AdvanceVersion(p) ==
    LET i == handle[p]
        r == run[p] IN
    /\ pc[p] = "advance"
    /\ \E s \in {"STAGING", "VALIDATE", "COMPLETED"} :
        /\ s # status[i][r] /\ CanUpdate(status[i], r, s)
        /\ s = "COMPLETED" => PassesValidation(i, r)
        /\ SetStatus(i, Updated(status[i], r, s))
        /\ Goto(p, "advance", IF s = "COMPLETED" THEN "decide" ELSE "advance")
    /\ UNCHANGED <<rows, feedback, fileVars, owner, localVars, historyVars>>

\* The decision is recorded, then _seal_run_bundle refuses an existing
\* directory and fills a new one ...
FillVersionBundle(p) ==
    /\ Goto(p, "decide", "reseal")
    /\ bundle[run[p]] = "absent"
    /\ bundle' = [bundle EXCEPT ![run[p]] = "open"]
    /\ UNCHANGED <<dbVars, path, owner, localVars, historyVars>>

\* ... and writes and verifies its manifest.
SealVersion(p) ==
    /\ Goto(p, "reseal", "activate")
    /\ bundle' = [bundle EXCEPT ![run[p]] = "sealed"]
    /\ UNCHANGED <<dbVars, path, owner, localVars, historyVars>>

\* promote_run_to_active on the canonical database.
ActivateVersion(p) ==
    LET i == handle[p]
        r == run[p] IN
    /\ Leave(p, "activate")
    /\ CanPromote(status[i], r)
    /\ SetStatus(i, Promoted(status[i], r))
    /\ UNCHANGED <<rows, feedback, fileVars, historyVars>>

\* Any other exception after the version exists marks it FAILED.
FailVersion(p) ==
    LET i == handle[p]
        r == run[p] IN
    /\ pc[p] \in {"persist", "audit", "advance", "decide", "reseal", "activate"}
    /\ Leave(p, pc[p])
    /\ SetStatus(i, IF status[i][r] \in {"RUNNING", "STAGING", "VALIDATE", "COMPLETED"}
                    THEN Updated(status[i], r, "FAILED") ELSE status[i])
    /\ UNCHANGED <<rows, feedback, fileVars, historyVars>>

-----------------------------------------------------------------------------
(* MES feedback: _canonical_writer around record_event of a service that   *)
(* follows the ACTIVE run.  The connection is opened inside the lock.      *)

StartFeedback(p) ==
    /\ Enter(p, "open")
    /\ UNCHANGED <<dbVars, fileVars, localVars, historyVars>>

OpenCanonical(p) ==
    /\ Goto(p, "open", "record")
    /\ handle' = [handle EXCEPT ![p] = path]
    /\ UNCHANGED <<dbVars, fileVars, owner, run, doomed, historyVars>>

\* _get_active_run_id: the run an observation is attributed to.
\* (Mutant: any run with a row, the latest included.)
HasRow(reg, r) == r \in Rows(reg)
IsTarget(reg, r) == IsActiveRun(reg, r)

\* One transaction, reported to the caller once committed.
RecordFeedback(p) ==
    LET i == handle[p] IN
    /\ Leave(p, "record")
    /\ \E f \in Feedback, a \in Runs :
        /\ recorded[f] = NoRun
        /\ IsTarget(status[i], a)
        /\ feedback' = [feedback EXCEPT ![i][f] = a]
        /\ recorded' = [recorded EXCEPT ![f] = a]
    /\ UNCHANGED <<status, rows, fileVars, nextRun>>

\* Without an ACTIVE run the write is refused; any error rolls it back.
RejectFeedback(p) ==
    /\ Leave(p, "record")
    /\ UNCHANGED <<dbVars, fileVars, historyVars>>

-----------------------------------------------------------------------------
\* The process dies: the operating system drops its locks and handles.
Crash(p) ==
    /\ pc[p] # "idle"
    /\ Leave(p, pc[p])
    /\ UNCHANGED <<dbVars, fileVars, historyVars>>

Begin(p) ==
    \/ StartPipeline(p)
    \/ StartReschedule(p)
    \/ StartFeedback(p)

PipelineStep(p) ==
    \/ CopyCanonical(p)
    \/ RunStages(p)
    \/ ValidateRun(p)
    \/ ExportBundle(p)
    \/ SealBundle(p)
    \/ PromoteStaged(p)
    \/ ReplaceCanonical(p)
    \/ PruneRows(p)
    \/ SweepBundles(p)
    \/ SkipRetention(p)
    \/ AbortCopy(p)
    \/ FailPipeline(p)
    \/ RecordFailure(p)

RescheduleStep(p) ==
    \/ ReadBaseline(p)
    \/ AbandonReschedule(p)
    \/ CreateVersion(p)
    \/ PersistSchedule(p)
    \/ PersistAudit(p)
    \/ AbortPersist(p)
    \/ AdvanceVersion(p)
    \/ FillVersionBundle(p)
    \/ SealVersion(p)
    \/ ActivateVersion(p)
    \/ FailVersion(p)

FeedbackStep(p) ==
    \/ OpenCanonical(p)
    \/ RecordFeedback(p)
    \/ RejectFeedback(p)

Step(p) == PipelineStep(p) \/ RescheduleStep(p) \/ FeedbackStep(p)

Next == \E p \in Procs : Begin(p) \/ Step(p) \/ Crash(p)

\* A process inside the lock keeps running or dies; nothing makes it start.
Fairness == \A p \in Procs : WF_vars(Step(p))

Spec == Init /\ [][Next]_vars
FairSpec == Spec /\ Fairness

-----------------------------------------------------------------------------
(* What must hold of the canonical database.                               *)

Published == {r \in Runs : canon[r] \in {"ACTIVE", "ARCHIVED"}}

\* A run that readers of the canonical path may ever be shown was published
\* whole: every run-scoped table filled and its bundle sealed before the
\* status said so (main.py seals before os.replace, the rescheduler before
\* promote_run_to_active), wherever a crash or an error hits.
PublishedIsWhole ==
    \A r \in Published : rows[path][r] = "full" /\ bundle[r] = "sealed"

\* An observation a MES writer was told is recorded stays in the canonical
\* database as long as the run it was recorded for does: a pipeline that
\* copied the file before must not publish a version without it.
NoLostFeedback ==
    \A f \in Feedback :
        recorded[f] # NoRun /\ canon[recorded[f]] # NoRow
            => feedback[path][f] = recorded[f]

\* Feedback is only ever attributed to a published run: not to a version under
\* construction, a failed one, or one that retention has removed.
FeedbackOnPublished ==
    \A f \in Feedback : feedback[path][f] # NoRun => feedback[path][f] \in Published

KeepsSoleActive == Active(canon) # {} => (\E r \in Runs : IsActiveRun(canon, r))'

\* From the first publication on, the canonical database shows exactly one
\* ACTIVE run at every instant: no failure handler, crash, rename or retention
\* leaves readers with none or with two.
ActiveNeverLost == [][KeepsSoleActive]_vars

\* Whoever is inside the mutation lock gets out of it: every error path of the
\* pipeline, the rescheduler and the MES writers ends by releasing it.
WriterLeaves == \A p \in Procs : owner = p ~> owner # p

-----------------------------------------------------------------------------
(* The inductive invariant behind the safety properties.  What a reader    *)
(* may ask of the canonical file is also asked of the private file a       *)
(* pipeline is about to rename over it.                                    *)

\* Only the process inside the lock is anywhere but idle.
Mutex == \A p \in Procs : pc[p] # "idle" => owner = p

\* An identifier that was not handed out yet appears nowhere.
FreshRuns ==
    /\ \A i \in Inodes, r \in Runs : r >= nextRun => status[i][r] = NoRow
    /\ \A f \in Feedback : recorded[f] < nextRun
    /\ \A p \in Procs : run[p] < nextRun

Whole(i) ==
    \A r \in Runs : status[i][r] \in {"ACTIVE", "ARCHIVED"}
        => rows[i][r] = "full" /\ bundle[r] = "sealed"
KeepsFeedback(i) ==
    \A f \in Feedback : recorded[f] # NoRun /\ status[i][recorded[f]] # NoRow
        => feedback[i][f] = recorded[f]
Attributed(i) ==
    \A f \in Feedback : feedback[i][f] # NoRun
        => status[i][feedback[i][f]] \in {"ACTIVE", "ARCHIVED"}
OneActive(i) ==
    \A a, b \in Runs : status[i][a] = "ACTIVE" /\ status[i][b] = "ACTIVE" => a = b
Sound(i) == Whole(i) /\ KeepsFeedback(i) /\ Attributed(i) /\ OneActive(i)

\* A process that builds a run has one of its own; a pipeline's private file is
\* sound from the copy to the rename, and its run's row and bundle are as far
\* as the label says.
PipelineAt(p) ==
    LET r == run[p] IN
    /\ pc[p] \in {"stages", "bundle", "seal", "promote", "replace"} => Sound(r)
    /\ pc[p] = "stages" => status[r][r] \in {"RUNNING", "STAGING"}
    /\ pc[p] \in {"bundle", "seal", "promote"}
        => status[r][r] = "COMPLETED" /\ rows[r][r] = "full"
    /\ pc[p] = "promote" => bundle[r] = "sealed"
    /\ pc[p] = "replace" => status[r][r] = "ACTIVE"
    /\ pc[p] = "sweep" => \A x \in doomed[p] : canon[x] = NoRow

\* The rescheduler and the MES writers work on the file the path names.
VersionAt(p) ==
    LET r == run[p] IN
    /\ pc[p] \in {"create", "persist", "audit", "advance", "decide", "reseal",
                  "activate", "record"} => handle[p] = path
    /\ pc[p] \in {"persist", "audit"} => canon[r] = "RUNNING"
    /\ pc[p] = "advance" => canon[r] \in {"RUNNING", "STAGING", "VALIDATE"}
    /\ pc[p] \in {"decide", "reseal", "activate"}
        => canon[r] = "COMPLETED" /\ rows[path][r] = "full"
    /\ pc[p] = "activate" => bundle[r] = "sealed"

OwnRun(p) ==
    pc[p] \notin {"idle", "open", "record"}
        => run[p] \in Runs /\ \A f \in Feedback : recorded[f] # run[p]

\* Everything the steps rely on, whoever takes them.
PublicationInv ==
    /\ TypeOK
    /\ Mutex
    /\ FreshRuns
    /\ Sound(path)
    /\ \A p \in Procs : OwnRun(p) /\ PipelineAt(p) /\ VersionAt(p)

\* Until the rename the canonical registry does not know the pipeline's run,
\* and the private file differs from it in that run only; the promotion made
\* there is the one readers will see.
PrivateCopy(p) ==
    LET r == run[p] IN
    /\ pc[p] \in {"copy", "stages", "bundle", "seal", "promote", "replace"}
        => path # r /\ canon[r] = NoRow
    /\ pc[p] \in {"stages", "bundle", "seal", "promote"}
        => \A q \in Runs \ {r} : status[r][q] = canon[q]
    /\ pc[p] = "replace" => status[r] = Promoted(canon, r)

\* What makes every step a step of the lifecycle, the rename included.
RegistryInv ==
    /\ PublicationInv
    /\ path < nextRun
    /\ \A p \in Procs : PrivateCopy(p)

-----------------------------------------------------------------------------
\* The canonical registry behaves like the lifecycle RunLifecycle promises.
Lifecycle == INSTANCE RunLifecycle WITH registry <- canon
LifecycleRefined == Lifecycle!Spec
==============================================================================
