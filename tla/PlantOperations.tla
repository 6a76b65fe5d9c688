--------------------------- MODULE PlantOperations ---------------------------
(***************************************************************************)
(* Those who look at the ACTIVE run once and act on it later, while        *)
(* pipelines, reschedules and MES reports go on:                           *)
(*  - the rescheduling facade (src/src/integration/rescheduler.py) keeps   *)
(*    the run it saw and records breakdowns for it;                        *)
(*  - the scenario engine (src/src/scenarios/scenario_engine.py) and the   *)
(*    what-if engine (src/src/scheduling/what_if.py) copy the database and *)
(*    compare solutions of the copy.                                       *)
(***************************************************************************)
EXTENDS ExecutionTracking

CONSTANT SandboxRun     \* the identifier a reschedule draws that is not published

ASSUME SandboxAssumption == SandboxRun \notin Runs \cup {NoRun}

VARIABLES
    facade,       \* ClosedLoopRescheduler.run_id, NoRun before it is built
    breakdowns,   \* runs named by the facade's rows of mes_execution_events
    snapshot,     \* ACTIVE run of the copy a comparison works on, or NoRun
    compared      \* runs whose inputs a result of the comparison came from

plantVars == <<vars, facade, breakdowns, snapshot, compared>>

PlantInit ==
    /\ Init
    /\ facade = NoRun
    /\ breakdowns = {}
    /\ snapshot = NoRun
    /\ compared = {}

-----------------------------------------------------------------------------
(* The facade.                                                             *)

\* __init__: the given run, or the ACTIVE one.
OpenFacade(r) ==
    /\ facade = NoRun
    /\ r \in Published
    /\ facade' = r
    /\ UNCHANGED <<vars, breakdowns, snapshot, compared>>

\* reschedule_on_machine_breakdown: the event is committed for the cached run
\* before the engine is asked, and the engine reschedules the ACTIVE run.
\* (Mutant: the cache takes the run of a sandbox call, too.)
CacheResult(commit, new) == new
CacheCommitted(commit, new) == IF commit THEN new ELSE facade

BreakdownRescheduled(now, horizon) ==
    /\ facade # NoRun
    /\ Reschedule(now, horizon)
    /\ breakdowns' = breakdowns \cup {facade}
    /\ facade' = CacheCommitted(TRUE, nextRun)
    /\ UNCHANGED <<snapshot, compared>>

\* The engine refuses, finds no schedule or dies: the event stays.
BreakdownUnsolved ==
    /\ facade # NoRun
    /\ breakdowns' = breakdowns \cup {facade}
    /\ UNCHANGED <<vars, facade, snapshot, compared>>

\* commit = False: no event, no new version.
BreakdownSandboxed ==
    /\ facade # NoRun
    /\ facade' = CacheCommitted(FALSE, SandboxRun)
    /\ UNCHANGED <<vars, breakdowns, snapshot, compared>>

-----------------------------------------------------------------------------
(* Comparisons.                                                            *)

\* _baseline_snapshot, _create_isolated_connection: SQLite's backup of the
\* canonical database, whose ACTIVE run labels the comparison.
TakeSnapshot ==
    /\ snapshot = NoRun
    /\ snapshot' = active
    /\ UNCHANGED <<vars, facade, breakdowns, compared>>

\* _evaluate_scenario, run_baseline and the scenario's own solution look up the
\* ACTIVE run again, clone its inputs in the copy and solve there.
\* (Mutant: the engine of the scenarios opens the canonical database.)
CanonicalActive == active
ActiveInCopy == snapshot

EvaluateScenario ==
    /\ snapshot # NoRun
    /\ compared' = compared \cup {ActiveInCopy}
    /\ UNCHANGED <<vars, facade, breakdowns, snapshot>>

\* The answer is given and the copy deleted.
FinishComparison ==
    /\ compared # {}
    /\ snapshot' = NoRun
    /\ compared' = {}
    /\ UNCHANGED <<vars, facade, breakdowns>>

-----------------------------------------------------------------------------
PlantNext ==
    \/ Next /\ UNCHANGED <<facade, breakdowns, snapshot, compared>>
    \/ \E r \in Runs : OpenFacade(r)
    \/ \E now \in Slots, horizon \in 0..1 : BreakdownRescheduled(now, horizon)
    \/ BreakdownUnsolved
    \/ BreakdownSandboxed
    \/ TakeSnapshot
    \/ EvaluateScenario
    \/ FinishComparison

PlantSpec == PlantInit /\ [][PlantNext]_plantVars

-----------------------------------------------------------------------------
\* Those who act late act on a run that was real.  A breakdown the facade
\* records belongs to a run that was published, whatever was simulated,
\* published or failed since the facade last looked (the cached run need not be
\* the ACTIVE one any more); and all results of one comparison come from the
\* run that labels it, though new runs are published between its first and its
\* last solution.
LateReadersConsistent ==
    /\ breakdowns \subseteq Published
    /\ snapshot # NoRun => compared \subseteq {snapshot}
==============================================================================
