-------------------------- MODULE ScheduleEconomics --------------------------
(***************************************************************************)
(* What is computed from the rows of a schedule: energy and carbon KPIs    *)
(* (energy_analytics.py, carbon_analytics.py), the analytic cost report    *)
(* (schedule_cost.py, cost_to_serve.py, analytics_schema.py), the planned  *)
(* KPIs (schedule_metrics.py, service_level.py) and the monetary objective *)
(* the solver minimises (monetary_objective.py).  Four calendars are read  *)
(* here for one schedule.  Rates are integers per slot, unit or energy     *)
(* unit; material and expediting, the same constants in every book, are    *)
(* left out.                                                               *)
(***************************************************************************)
EXTENDS ScheduleModel

CONSTANTS
    Slice,    \* slots of an interval of the energy profile
    KpiStep,  \* slots to which energy_kpis rounds the makespan
    Power,    \* machine -> [base, setup, idle], energy per slot
    Rates     \* [labor, setup, premium, holding, tardiness, energy, carbon, forklift, grid]

\* A lot has one due date and one weight.
ASSUME EconomicsAssumption ==
    /\ Slice \in Nat \ {0} /\ KpiStep \in Nat \ {0}
    /\ \A t \in Tasks : /\ Operation[t].units \in Nat \ {0} /\ Operation[t].energy \in Nat
                        /\ Operation[t].due \in Nat /\ Operation[t].weight \in Nat
    /\ \A t, u \in Tasks : Operation[t].lot = Operation[u].lot =>
        Operation[t].due = Operation[u].due /\ Operation[t].weight = Operation[u].weight
    /\ \A m \in Machines : Power[m] \in [base : Nat, setup : Nat, idle : Nat]
    /\ Rates \in [labor : Nat, setup : Nat, premium : Nat, holding : Nat, tardiness : Nat,
                  energy : Nat, carbon : Nat, forklift : Nat, grid : Nat]

Makespan(s) == Max({End(s, t) : t \in Tasks})
Lots == {Operation[t].lot : t \in Tasks}
RunTime(S) == SumFunction([t \in S |-> Operation[t].duration])
SetupSum(s, S) == SumFunction([t \in S |-> SetupBefore(s, t)])

-----------------------------------------------------------------------------
(* MachineCalendarService.open_minutes: nights of the first week count as  *)
(* soon as the machine has any overtime.                                   *)
Shared(a, b, from, to) == Max({0, Min({b, to}) - Max({a, from})})
OpensAt(m, day) ==
    day * DayLength + (IF FirstWeek(day) /\ OvertimeBudget[m] > 0 THEN 0 ELSE Night[m])
OpenMinutes(m, from, to) ==
    SumFunction([day \in {d \in Days : ~Closed(d)} |->
        Shared(OpensAt(m, day), (day + 1) * DayLength, from, to)])

(* compute_energy_analytics: every machine's state integrated by slices.   *)
Slices(s) == {k * Slice : k \in 0..((Makespan(s) - 1) \div Slice)}
\* (Mutant: the last slice is not cut at the makespan.)
SliceEndWhole(s, from) == from + Slice
SliceEnd(s, from) == Min({from + Slice, Makespan(s)})
ProcessedIn(s, m, from, to) ==
    SumFunction([t \in On(m) |-> Shared(s[t], End(s, t), from, to)])
SetUpIn(s, m, from, to) ==
    SumFunction([t \in On(m) |-> Shared(SetupStart(s, t), s[t], from, to)])
IdleIn(s, m, from, to) ==
    Max({0, OpenMinutes(m, from, to) - ProcessedIn(s, m, from, to) - SetUpIn(s, m, from, to)})
Integral(s, m, Minutes(_, _, _, _)) ==
    SumFunction([from \in Slices(s) |-> Minutes(s, m, from, SliceEnd(s, from))])

ProcessingEnergy(m) ==
    SumFunction([t \in On(m) |-> Operation[t].duration * Power[m].base + Operation[t].energy])
MachineEnergyKpi(s, m) ==
    ProcessingEnergy(m)
        + Power[m].setup * Integral(s, m, SetUpIn) + Power[m].idle * Integral(s, m, IdleIn)
GrandTotal(s) == SumFunction([m \in Machines |-> MachineEnergyKpi(s, m)])

\* compute_carbon_analytics takes the makespan from energy_kpis, rounded.
RoundedMakespan(s) == KpiStep * ((2 * Makespan(s) + KpiStep) \div (2 * KpiStep))
CarbonKpi(s) == Rates.forklift * RoundedMakespan(s) + Rates.grid * GrandTotal(s)

-----------------------------------------------------------------------------
(* evaluate_schedule_cost: the same from totals, exactly.                  *)
AnalyticIdle(s, m) == OpenMinutes(m, 0, Makespan(s)) - RunTime(On(m)) - SetupSum(s, On(m))
AnalyticEnergy(s) ==
    SumFunction([m \in Machines |->
        ProcessingEnergy(m) + Power[m].setup * SetupSum(s, On(m))
            + Power[m].idle * Max({0, AnalyticIdle(s, m)})])
Emissions(s) == Rates.forklift * Makespan(s) + Rates.grid * AnalyticEnergy(s)

\* schedule_job_summary: a lot's units are those of its first operation.
JobSummary(s, l) ==
    LET ops == LotOf(l)
        first == CHOOSE t \in ops : \A u \in ops : Operation[t].seq <= Operation[u].seq
    IN  [completion |-> Max({End(s, t) : t \in ops}), start |-> Min({s[t] : t \in ops}),
         run |-> RunTime(ops), setup |-> SetupSum(s, ops), units |-> Operation[first].units,
         due |-> Operation[first].due, weight |-> Operation[first].weight]
Tardiness(job) == Max({0, job.completion - job.due}) * job.weight

\* Overtime columns of the rows, from the cursor over nights.
ProductionOvertime(s, t) ==
    Cardinality({x \in s[t]..(End(s, t) - 1) : NightPart(Operation[t].machine, x)})
SetupOvertime(s, t) ==
    Cardinality({x \in SetupStart(s, t)..(s[t] - 1) : NightPart(Operation[t].machine, x)})

\* compute_total_manufacturing_cost: overtime adds the premium only; the
\* orders carry labour, setup, tardiness and holding.
CostToServe(s, l) ==
    LET job == JobSummary(s, l) IN
    job.run * Rates.labor + job.setup * Rates.setup + Tardiness(job) * Rates.tardiness
        + job.units * (job.completion - job.start) * Rates.holding
OvertimePremium(s) ==
    Rates.premium * SumFunction([t \in Tasks |->
        Rates.labor * ProductionOvertime(s, t) + Rates.setup * SetupOvertime(s, t)])
TotalManufacturingCost(s) ==
    SumFunction([l \in Lots |-> CostToServe(s, l)]) + OvertimePremium(s)
        + Rates.energy * AnalyticEnergy(s) + Rates.carbon * Emissions(s)

-----------------------------------------------------------------------------
(* schedule_kpis and evaluate_schedule_service_level.  Rows of production  *)
(* carry no customer class, so the tier weight is one.                     *)
Completion(s, l) == Max({End(s, t) : t \in LotOf(l)})
ScheduleKpis(s) ==
    [makespan |-> Makespan(s), setup |-> SetupSum(s, Tasks),
     tardiness |-> SumFunction([l \in Lots |-> LET t == CHOOSE t \in LotOf(l) : TRUE IN
                   Max({0, Completion(s, l) - Operation[t].due}) * Operation[t].weight])]
ServiceLevel(s) ==
    [late |-> {l \in Lots : JobSummary(s, l).completion > JobSummary(s, l).due},
     weighted |-> SumFunction([l \in Lots |-> Tardiness(JobSummary(s, l))])]

-----------------------------------------------------------------------------
(* build_monetary_objective, on the solver's own variables: setups of the  *)
(* arcs, overlaps with the nights of the first week, open time as prefixes *)
(* of the makespan.                                                        *)
SolverCircuit(s, m) == CHOOSE c \in Circuits(m) : ArcsHold(s, m, c)
SolverSetup(s, m) ==
    SumFunction([i \in 1..Cardinality(On(m)) |-> SelectedSetup(m, SolverCircuit(s, m), i)])

\* last_op and first of the lot's route.
LastOf(l) == CHOOSE t \in LotOf(l) : \A u \in LotOf(l) : Operation[u].seq <= Operation[t].seq
FirstOf(l) == CHOOSE t \in LotOf(l) : \A u \in LotOf(l) : Operation[t].seq <= Operation[u].seq
TardinessTerm(s, l) == Operation[LastOf(l)].weight * Max({0, End(s, LastOf(l)) - Operation[LastOf(l)].due})
WeightedTardiness(s) == SumFunction([l \in Lots |-> TardinessTerm(s, l)])

\* machine_ot_terms: minutes of the intervals inside the first week's nights.
NightOverlap(m, from, to) ==
    SumFunction([d \in FirstWeekDays |-> Shared(d * DayLength, d * DayLength + Night[m], from, to)])
OvertimeTerm(s, t) ==
    LET m == Operation[t].machine IN
    Rates.labor * NightOverlap(m, s[t], End(s, t))
        + Rates.setup * NightOverlap(m, SetupStart(s, t), s[t])

PrefixOverlap(end, left, right) == Max({0, Min({end - left, right - left})})
\* (Mutant: nights of every week count as open.)
NightsCountedAll(m) == {d \in Days : ~Closed(d) /\ OvertimeBudget[m] > 0}
NightsCounted(m) == {d \in FirstWeekDays : OvertimeBudget[m] > 0}
OpenTime(s, m) ==
    SumFunction([d \in {d \in Days : ~Closed(d) /\ d * DayLength + Night[m] < Horizon} |->
        PrefixOverlap(Makespan(s), d * DayLength + Night[m], Min({(d + 1) * DayLength, Horizon}))])
    + SumFunction([d \in NightsCounted(m) |->
        PrefixOverlap(Makespan(s), d * DayLength, Min({d * DayLength + Night[m], Horizon}))])
SolverEnergy(s, m) ==
    ProcessingEnergy(m) + Power[m].setup * SolverSetup(s, m)
        + Power[m].idle * (OpenTime(s, m) - RunTime(On(m)) - SolverSetup(s, m))

MonetaryObjective(s) ==
    LET energy == SumFunction([m \in Machines |-> SolverEnergy(s, m)]) IN
    Rates.labor * RunTime(Tasks)
        + Rates.setup * SumFunction([m \in Machines |-> SolverSetup(s, m)])
        + Rates.premium * SumFunction([t \in Tasks |-> OvertimeTerm(s, t)])
        + Rates.tardiness * WeightedTardiness(s)
        + Rates.holding * SumFunction([l \in Lots |->
            Operation[FirstOf(l)].units * (End(s, LastOf(l)) - s[FirstOf(l)])])
        + Rates.energy * energy
        + Rates.carbon * (Rates.forklift * Makespan(s) + Rates.grid * energy)

-----------------------------------------------------------------------------
(* Agreement of the books, over the schedules the model admits.            *)

\* The integrated minutes of every machine are the rows' minutes, its idle
\* time is the analytic one, and that is never negative: no admitted schedule
\* works outside the open calendar of the reports.  The two carbon reports
\* differ by the rounding of the makespan.
EnergyAgrees(s) ==
    /\ \A m \in Machines :
        /\ Integral(s, m, ProcessedIn) = RunTime(On(m))
        /\ Integral(s, m, SetUpIn) = SetupSum(s, On(m))
        /\ AnalyticIdle(s, m) >= 0
    /\ GrandTotal(s) = AnalyticEnergy(s)
    /\ 2 * Max({CarbonKpi(s) - Emissions(s), Emissions(s) - CarbonKpi(s)}) <= Rates.forklift * KpiStep

\* The solver's monetary objective is the report's cost of the emitted rows,
\* and the three weighted tardiness figures are one.
CostAgrees(s) ==
    /\ MonetaryObjective(s) = TotalManufacturingCost(s)
    /\ WeightedTardiness(s) = ScheduleKpis(s).tardiness
    /\ ServiceLevel(s).weighted = ScheduleKpis(s).tardiness
    /\ ServiceLevel(s).late = {l \in Lots : End(s, LastOf(l)) > Operation[LastOf(l)].due}
==============================================================================
