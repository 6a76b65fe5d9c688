----------------------------- MODULE SolverStages -----------------------------
(***************************************************************************)
(* The solving part of run_cpsat_scheduling (schedule_cpsat.py): objective *)
(* policies, the two stages of the hierarchical mode, and the status the   *)
(* published metadata claims.  "S" is the set of schedules the constraints *)
(* of the call admit; the search may stop early with any of them.          *)
(***************************************************************************)
EXTENDS ScheduleEconomics, TLC

\* OBJECTIVE_POLICIES: weights of makespan, setup and tardiness.
Policies ==
    [BALANCED |-> <<100, 1, 20>>, SERVICE_LEVEL_FIRST |-> <<20, 1, 100>>,
     THROUGHPUT_MAX |-> <<100, 0, 0>>, OPERATIONAL_BALANCED |-> <<30, 5, 50>>,
     COST_OPTIMIZED |-> <<0, 0, 0>>]

EfficiencyValue(policy, s) ==
    IF policy = "COST_OPTIMIZED" THEN MonetaryObjective(s)
    ELSE Policies[policy][1] * Makespan(s) + Policies[policy][2] * SetupSum(s, Tasks)
CompositeValue(policy, s) ==
    EfficiencyValue(policy, s)
        + (IF policy = "COST_OPTIMIZED" THEN 0 ELSE Policies[policy][3] * WeightedTardiness(s))

\* Both, and the service level, of every schedule.
Efficiency ==
    Tabulated([p \in DOMAIN Policies |->
                 Tabulated([s \in PhysicalSchedules |-> EfficiencyValue(p, s)])])
Composite ==
    Tabulated([p \in DOMAIN Policies |->
                 Tabulated([s \in PhysicalSchedules |-> CompositeValue(p, s)])])
Service == Tabulated([s \in PhysicalSchedules |-> WeightedTardiness(s)])

\* The schedules of S for which the objective, one of the tables, is least.
Minimal(S, objective) ==
    LET least == Min({objective[s] : s \in S}) IN {s \in S : objective[s] = least}

\* solver.Solve: a solution proven optimal, or one found before the limit.
\* Without a solution the call raises and nothing is published.
Solve(S, objective) ==
    {[schedule |-> s, status |-> "OPTIMAL"] : s \in Minimal(S, objective)}
        \cup {[schedule |-> s, status |-> "FEASIBLE"] : s \in S}

\* A second stage is optimal for a service level that may not be.
\* (Mutant: the status of the second stage is published as it is.)
OwnStatus(first, second) == second
FinalStatus(first, second) ==
    IF second = "OPTIMAL" /\ first # "OPTIMAL" THEN "FEASIBLE" ELSE second

\* The answers of one call, hierarchical or not.
Lexicographic(policy, S) ==
    LET firsts == {[bound |-> Service[r.schedule], status |-> r.status] :
                        r \in Solve(S, Service)}
        Second(first) == Solve({s \in S : Service[s] <= first.bound}, Efficiency[policy])
    IN  UNION {{[r EXCEPT !.status = FinalStatus(first.status, @)] : r \in Second(first)} :
                   first \in firsts}
Answers(policy, hierarchical, S) ==
    IF hierarchical THEN Lexicographic(policy, S) ELSE Solve(S, Composite[policy])

\* What "optimal" has to mean to the reader of the metadata.
Best(policy, hierarchical, S) ==
    IF hierarchical THEN Minimal(Minimal(S, Service), Efficiency[policy])
    ELSE Minimal(S, Composite[policy])
==============================================================================
