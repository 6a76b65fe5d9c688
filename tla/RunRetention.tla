----------------------------- MODULE RunRetention -----------------------------
(***************************************************************************)
(* Which runs apply_run_retention_policy (src/src/utils/lineage.py) keeps: *)
(* the text order of their timestamps, the foreign keys that may refuse a  *)
(* deletion, the bundles swept afterwards, and the reference run, which    *)
(* scripts/freeze_reference.py replaces without the mutation lock.         *)
(*                                                                         *)
(* Pipelines, rescheduler and MES writers appear here by their commits     *)
(* (RunPublication has their steps).  Time passes in ticks.                *)
(***************************************************************************)
EXTENDS Lineage

CONSTANTS
    MaxRun,      \* bound: run identifiers 1..MaxRun
    MaxClock,    \* bound on the clock
    DayLength,   \* ticks in a day
    UtcOffset,   \* ticks the local clock is ahead of UTC
    KeepLastN    \* the keep_last_n argument (main.py passes 20)

ASSUME RetentionAssumption ==
    /\ MaxRun \in Nat /\ MaxClock \in Nat
    /\ DayLength \in Nat \ {0} /\ UtcOffset \in Nat
    /\ KeepLastN \in Nat \ {0}

Runs == 1..MaxRun
NoRun == 0

VARIABLES
    registry,   \* pipeline_runs of the canonical database
    stamp,      \* their timestamp column
    born,       \* when each row was written (history)
    clock,
    pinned,     \* runs a foreign key keeps: an inbox row names an event of theirs,
                \* or mes_production_actuals the run itself
    bundle,     \* artifacts/runs/<run_id>
    nextRun,
    phase,      \* the pipeline's retention
    protected,  \* protected_ids of that retention
    doomed,     \* old_runs of that retention
    reference,  \* the run artifacts/reference/manifest.json names
    backup,     \* the same for artifacts/reference_backup
    snapshot,   \* artifacts/reference_runs/<run_id>
    cut,        \* runs whose copy into it a dying freeze cut short (history)
    freezer     \* the freeze under way: its step and its run

runVars == <<registry, stamp, born, nextRun>>
retentionVars == <<phase, protected, doomed>>
referenceVars == <<reference, backup, snapshot, cut, freezer>>
vars == <<runVars, clock, pinned, bundle, retentionVars, referenceVars>>

\* A timestamp as text: its date, the separator, and the time of day.  The
\* pipeline writes local isoformat() text, SQL's datetime('now') is UTC.
Stamps == [day : Nat, sep : {" ", "T"}, time : Nat]
IsoLocal(t) ==
    [day |-> (t + UtcOffset) \div DayLength, sep |-> "T",
     time |-> (t + UtcOffset) % DayLength]
SqlUtc(t) == [day |-> t \div DayLength, sep |-> " ", time |-> t % DayLength]
Freezers == [step : {"idle", "copy", "aside", "swap"}, run : Runs \cup {NoRun}]
IdleFreezer == [step |-> "idle", run |-> NoRun]

TypeOK ==
    /\ registry \in [Runs -> Statuses \cup {NoRow}]
    /\ stamp \in [Runs -> Stamps]
    /\ born \in [Runs -> 0..MaxClock]
    /\ clock \in 0..MaxClock
    /\ pinned \subseteq Runs
    /\ bundle \in [Runs -> {"absent", "open", "sealed"}]
    /\ nextRun \in 1..(MaxRun + 1)
    /\ phase \in {"idle", "due", "prune", "sweep", "raised"}
    /\ protected \subseteq Runs /\ doomed \subseteq Runs
    /\ reference \in Runs \cup {NoRun} /\ backup \in Runs \cup {NoRun}
    /\ snapshot \in [Runs -> {"absent", "headless", "torn", "whole"}]
    /\ cut \subseteq Runs
    /\ freezer \in Freezers

Init ==
    /\ registry = [r \in Runs |-> NoRow]
    /\ stamp = [r \in Runs |-> SqlUtc(0)]
    /\ born = [r \in Runs |-> 0]
    /\ clock = 0
    /\ pinned = {}
    /\ bundle = [r \in Runs |-> "absent"]
    /\ nextRun = 1
    /\ phase = "idle" /\ protected = {} /\ doomed = {}
    /\ reference = NoRun /\ backup = NoRun
    /\ snapshot = [r \in Runs |-> "absent"] /\ cut = {}
    /\ freezer = IdleFreezer

-----------------------------------------------------------------------------
(* The writers.  All but the freeze hold the mutation lock, which a        *)
(* pipeline keeps through its retention.                                   *)

Tick ==
    /\ clock < MaxClock
    /\ clock' = clock + 1
    /\ UNCHANGED <<runVars, pinned, bundle, retentionVars, referenceVars>>

AddRun(text) ==
    /\ phase = "idle"
    /\ nextRun \in Runs
    /\ stamp' = [stamp EXCEPT ![nextRun] = text]
    /\ born' = [born EXCEPT ![nextRun] = clock]
    /\ nextRun' = nextRun + 1

Publish == registry' = Promoted(registry, nextRun)
LeaveRow(s) == registry' = [registry EXCEPT ![nextRun] = s]
SetBundle(b) == bundle' = [bundle EXCEPT ![nextRun] = b]

\* record_pipeline_run_metadata stamps the run last; retention follows.
PipelinePublishes ==
    /\ AddRun(IsoLocal(clock)) /\ Publish /\ SetBundle("sealed")
    /\ phase' = "due"
    /\ UNCHANGED <<clock, pinned, protected, doomed, referenceVars>>

\* The failure handler stamps a failed pipeline with datetime('now').
PipelineFails ==
    /\ AddRun(SqlUtc(clock)) /\ LeaveRow("FAILED")
    /\ \E b \in {"absent", "open", "sealed"} : SetBundle(b)
    /\ UNCHANGED <<clock, pinned, retentionVars, referenceVars>>

ReschedulePublishes ==
    /\ Active(registry) # {}
    /\ AddRun(SqlUtc(clock)) /\ Publish /\ SetBundle("sealed")
    /\ UNCHANGED <<clock, pinned, retentionVars, referenceVars>>

\* ... or fails, or its process dies and the row stays as it was.
RescheduleFails ==
    /\ Active(registry) # {}
    /\ AddRun(SqlUtc(clock))
    /\ \E s \in {"FAILED", "RUNNING"} : LeaveRow(s)
    /\ UNCHANGED <<bundle, clock, pinned, retentionVars, referenceVars>>

\* record_event with an external identity: the inbox row keeps a foreign key
\* to its event, which is scoped to the ACTIVE run.
RecordExternal ==
    /\ phase = "idle"
    /\ Active(registry) # {}
    /\ pinned' = pinned \cup Active(registry)
    /\ UNCHANGED <<runVars, clock, bundle, retentionVars, referenceVars>>

\* ingest_mes_actuals: rows for any run of the registry.
IngestActuals(r) ==
    /\ phase = "idle"
    /\ r \in Rows(registry)
    /\ pinned' = pinned \cup {r}
    /\ UNCHANGED <<runVars, clock, bundle, retentionVars, referenceVars>>

-----------------------------------------------------------------------------
(* apply_run_retention_policy.                                             *)

\* ORDER BY timestamp DESC compares text: date, separator, time of day.
\* (Mutant: the order is ascending.)
OldestFirst(a, b) ==
    \/ stamp[a].day < stamp[b].day
    \/ stamp[a].day = stamp[b].day /\ stamp[a].sep = " " /\ stamp[b].sep = "T"
    \/ /\ stamp[a].day = stamp[b].day /\ stamp[a].sep = stamp[b].sep
       /\ stamp[a].time <= stamp[b].time
NotBefore(a, b) ==
    \/ stamp[a].day > stamp[b].day
    \/ stamp[a].day = stamp[b].day /\ stamp[a].sep = "T" /\ stamp[b].sep = " "
    \/ /\ stamp[a].day = stamp[b].day /\ stamp[a].sep = stamp[b].sep
       /\ stamp[a].time >= stamp[b].time

\* OFFSET keep_non_active; rows with equal text come in any order.
Others == Rows(registry) \ Active(registry)
WithinLimit ==
    {Others \ old : old \in OldRuns(registry, KeepLastN, {})}
OldRunSets ==
    {(Others \ kept) \ protected : kept \in
        {k \in WithinLimit : \A a \in k, b \in Others \ k : NotBefore(a, b)}}

\* The ACTIVE run and, when its manifest is there, the reference run.
ReadProtected ==
    /\ phase = "due"
    /\ protected' = Active(registry) \cup ({reference} \ {NoRun})
    /\ phase' = "prune"
    /\ UNCHANGED <<runVars, clock, pinned, bundle, doomed, referenceVars>>

\* The transaction commits when no remaining row names a deleted event or run.
Prune ==
    /\ phase = "prune"
    /\ \E old \in OldRunSets :
        /\ old \cap pinned = {}
        /\ registry' = Pruned(registry, old)
        /\ stamp' = [r \in Runs |-> IF r \in old THEN SqlUtc(0) ELSE stamp[r]]
        /\ born' = [r \in Runs |-> IF r \in old THEN 0 ELSE born[r]]
        /\ doomed' = old
    /\ phase' = "sweep"
    /\ UNCHANGED <<nextRun, clock, pinned, bundle, protected, referenceVars>>

\* Otherwise the foreign key refuses, the transaction is rolled back, and the
\* pipeline swallows the exception.
RefusePrune ==
    /\ phase = "prune"
    /\ \E old \in OldRunSets : old \cap pinned # {}
    /\ phase' = "raised"
    /\ UNCHANGED <<runVars, clock, pinned, bundle, protected, doomed, referenceVars>>

Leave(from) ==
    /\ phase = from
    /\ phase' = "idle" /\ protected' = {} /\ doomed' = {}

\* Bundles of the deleted runs, and sealed ones that no row names.
\* (Mutant: every bundle but those of the ACTIVE and the reference run.)
AllButProtected == Runs \ protected
Swept ==
    doomed \cup {r \in Runs : bundle[r] = "sealed" /\ r \notin Rows(registry) \cup protected}
Sweep ==
    /\ Leave("sweep")
    /\ bundle' = [r \in Runs |-> IF r \in Swept THEN "absent" ELSE bundle[r]]
    /\ UNCHANGED <<runVars, clock, pinned, referenceVars>>

\* A cache copy or rmtree fails, or the process dies: some bundles are gone,
\* one may be left half deleted, without its manifest.
AbandonRetention ==
    /\ \/ Leave("due") /\ bundle' = bundle
       \/ Leave("prune") /\ bundle' = bundle
       \/ Leave("raised") /\ bundle' = bundle
       \/ /\ Leave("sweep")
          /\ \E gone \in SUBSET Swept, torn \in SUBSET Swept :
                /\ Cardinality(torn) <= 1
                /\ bundle' = [r \in Runs |-> IF r \in torn /\ bundle[r] # "absent"
                                             THEN "open"
                                             ELSE IF r \in gone THEN "absent" ELSE bundle[r]]
    /\ UNCHANGED <<runVars, clock, pinned, referenceVars>>

-----------------------------------------------------------------------------
(* scripts/freeze_reference.py: freeze_reference_atomic.                   *)

FreezeStep(from, to) ==
    /\ freezer.step = from
    /\ freezer' = [freezer EXCEPT !.step = to]

\* get_active_run and verify_run_bundle, then the copies into staging.
BeginFreeze ==
    /\ freezer.step = "idle"
    /\ \E r \in Active(registry) :
        /\ bundle[r] = "sealed"
        /\ freezer' = [step |-> "copy", run |-> r]
    /\ UNCHANGED <<runVars, clock, pinned, bundle, retentionVars, reference, backup, snapshot, cut>>

\* assert_versioned_snapshot_immutable compares manifests only, so it takes a
\* snapshot whose files are not all there; a new one is copied whole.
\* (Mutant: the copy into reference_runs is skipped.)
SkipSnapshot ==
    /\ FreezeStep("copy", "aside")
    /\ UNCHANGED <<runVars, clock, pinned, bundle, retentionVars, reference, backup, snapshot, cut>>
KeepSnapshot ==
    LET r == freezer.run IN
    /\ FreezeStep("copy", "aside")
    /\ snapshot[r] # "headless"
    /\ snapshot' = IF snapshot[r] = "absent"
                   THEN [snapshot EXCEPT ![r] = "whole"] ELSE snapshot
    /\ UNCHANGED <<runVars, clock, pinned, bundle, retentionVars, reference, backup, cut>>

\* An older backup is deleted and the reference renamed to it ...
SetAside ==
    /\ FreezeStep("aside", "swap")
    /\ backup' = reference
    /\ reference' = NoRun
    /\ UNCHANGED <<runVars, clock, pinned, bundle, retentionVars, snapshot, cut>>

\* ... staging becomes the reference, and the backup goes ...
SwapIn ==
    /\ freezer.step = "swap"
    /\ freezer' = IdleFreezer
    /\ reference' = freezer.run
    /\ backup' = NoRun
    /\ UNCHANGED <<runVars, clock, pinned, bundle, retentionVars, snapshot, cut>>

\* ... or that rename fails and the backup is renamed back.
SwapFails ==
    /\ freezer.step = "swap"
    /\ freezer' = IdleFreezer
    /\ reference' = backup
    /\ backup' = NoRun
    /\ UNCHANGED <<runVars, clock, pinned, bundle, retentionVars, snapshot, cut>>

\* An exception before the swap, or a crash anywhere: the copy of a new
\* snapshot may be cut short before or after its manifest.
FreezeDies ==
    /\ freezer.step # "idle"
    /\ freezer' = IdleFreezer
    /\ \/ UNCHANGED <<snapshot, cut>>
       \/ /\ freezer.step = "copy"
          /\ snapshot[freezer.run] = "absent"
          /\ \E s \in {"headless", "torn"} :
                snapshot' = [snapshot EXCEPT ![freezer.run] = s]
          /\ cut' = cut \cup {freezer.run}
    /\ UNCHANGED <<runVars, clock, pinned, bundle, retentionVars, reference, backup>>

-----------------------------------------------------------------------------
Next ==
    \/ Tick
    \/ PipelinePublishes
    \/ PipelineFails
    \/ ReschedulePublishes
    \/ RescheduleFails
    \/ RecordExternal
    \/ \E r \in Runs : IngestActuals(r)
    \/ ReadProtected
    \/ Prune
    \/ RefusePrune
    \/ Sweep
    \/ AbandonRetention
    \/ BeginFreeze
    \/ KeepSnapshot
    \/ SetAside
    \/ SwapIn
    \/ SwapFails
    \/ FreezeDies

Spec == Init /\ [][Next]_vars

-----------------------------------------------------------------------------
Published == {r \in Runs : registry[r] \in {"ACTIVE", "ARCHIVED"}}
Deleted == Rows(registry) \ Rows(registry)'
Kept == (Rows(registry) \cap Rows(registry)') \ protected

\* A published run that retention left in the registry still has its sealed
\* bundle, wherever a sweep fails or dies half-way.
SurvivorsKeepBundles == \A r \in Published : bundle[r] = "sealed"

\* The text order is not the order of time, but its error is bounded: a run is
\* never deleted while an unprotected, non-ACTIVE run older than it by a day
\* and the UTC offset is kept.
AgeErrorBounded ==
    [][\A d \in Deleted, k \in Kept :
        born[d] < born[k] + DayLength + UtcOffset]_vars

\* The reference, and the one set aside as backup, have a whole copy in
\* reference_runs, with one exception, named by the history variable cut: a
\* freeze of that very run died in its copy, after the manifest.  Then a later
\* freeze, which compares manifests only, takes the partial copy for a whole one,
\* and nothing completes it: this property does NOT promise a whole copy there.
\* A copy that lost its manifest never stands behind a reference, and freezes of
\* other runs, failed swaps, crashes elsewhere and retention damage no copy.
WholeCopyUnlessCut ==
    \A r \in {reference, backup} \ {NoRun} :
        snapshot[r] = "whole" \/ (r \in cut /\ snapshot[r] = "torn")

\* VIOLATED.  Retention keeps the newest runs ("En son 3 koşumu koru",
\* src/tests/test_audit_lineage.py).
NewestKept ==
    [][\A d \in Deleted, k \in Kept :
        born[d] <= born[k]]_vars

\* VIOLATED.  A retention that ran deletes the old versions
\* (docstring of apply_run_retention_policy).
OldRunsLeave ==
    [][phase = "prune" /\ phase' \in {"sweep", "raised"}
        => Cardinality(Kept) <= KeepLastN]_vars
===============================================================================
