---------------------------- MODULE ValidationGate ----------------------------
(***************************************************************************)
(* validate_pipeline_run (src/src/utils/lineage.py): the checks the gate   *)
(* makes on the rows of one schedule and on the metadata beside it, in its *)
(* own arithmetic.  That every table has rows of the run is                *)
(* RunPublication's; quantities against the plan are PlanningChain's.      *)
(***************************************************************************)
EXTENDS ScheduleEconomics

\* Consecutive rows of a machine, by start, do not overlap, so that no two start
\* together either; setups are not looked at here.
RowsApart(s) ==
    \A t, u \in Tasks :
        t # u /\ Operation[t].machine = Operation[u].machine /\ s[t] <= s[u]
        => s[u] >= End(s, t)

\* Overtime of a row, setup included, counts to the week its task starts in
\* (schedule_week): within the budget in the first, none in later ones.
InFirstWeek(s, t) == FirstWeek(s[t] \div DayLength)
BookedOvertime(s, t) == ProductionOvertime(s, t) + SetupOvertime(s, t)
OvertimeAuthorised(s) ==
    \A m \in Machines :
        /\ SumFunction([t \in {t \in On(m) : InFirstWeek(s, t)} |-> BookedOvertime(s, t)])
            <= OvertimeBudget[m]
        /\ \A t \in On(m) : ~InFirstWeek(s, t) => BookedOvertime(s, t) = 0

\* The metadata has a positive makespan, from the rows.  That the plant's
\* energy is the sum of its machines' is how it was computed.
MetadataValid(s) == ScheduleKpis(s).makespan > 0

GatePasses(s) ==
    /\ RowsApart(s)
    /\ OvertimeAuthorised(s)
    /\ MetadataValid(s)
==============================================================================
