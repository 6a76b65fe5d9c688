------------------------- MODULE AggregatePlanning -------------------------
(* The weekly production plan: src/planning/aggregate_planning.py.  A linear
   programme plans batches per product family, the plan is split over the
   products of the family, and machines the split overloads are fed back as
   capacity cuts; when the rounds run out the split is cut down greedily.
   Times are in units of which TimeScale make a minute.  What the programme
   optimises is left open: any integer production within capacity, with the
   least overtime it needs, since overtime has a cost and nothing else uses it. *)
EXTENDS Integers, Sequences, FiniteSets, FiniteSetsExt, SequencesExt

CONSTANTS
  ProductSeq,        \* the products, in the order of their identifiers
  MachineSeq,        \* the machines, in the order of the table machines
  FamilySeq,         \* the families, in order
  FamilyOf,          \* product -> family
  Cycle,             \* product -> machine -> time of one batch, 0 without a route
  LastWeek,          \* the weeks are 1..LastWeek
  Regular,           \* effective weekly time of a machine, the buffer taken off
  MaxOvertime,       \* the calendar's weekly overtime window
  TimeScale,         \* time units per minute
  UnitsPerBatch,     \* UNITS_PER_BATCH
  InitialInventory,  \* family -> batches in stock before week 1
  Forecasts,         \* the demands considered: product -> week -> units
  MaxBatches,        \* bound: batches of a family the programme plans in a week
  MaxRounds          \* max_feedback_iters

Products == ToSet(ProductSeq)
Machines == ToSet(MachineSeq)
Families == ToSet(FamilySeq)
Weeks == 1 .. LastWeek
Members(f) == {p \in Products : FamilyOf[p] = f}

\* The calendar is in hours, capacities in tenths of an hour.
ASSUME PlanAssumption ==
  /\ ProductSeq \in Seq(Products) /\ IsInjective(ProductSeq)
  /\ MachineSeq \in Seq(Machines) /\ FamilySeq \in Seq(Families)
  /\ FamilyOf \in [Products -> Families] /\ \A f \in Families : Members(f) # {}
  /\ Cycle \in [Products -> [Machines -> Nat]]
  /\ InitialInventory \in [Families -> Nat]
  /\ LastWeek \in Nat \ {0} /\ MaxRounds \in Nat \ {0} /\ MaxBatches \in Nat
  /\ TimeScale \in Nat \ {0} /\ UnitsPerBatch \in Nat \ {0}
  /\ Regular \in Nat /\ MaxOvertime \in Nat /\ MaxOvertime % (6 * TimeScale) = 0
  /\ \A d \in Forecasts : d \in [Products -> [Weeks -> Nat]]

VARIABLES
  stage,       \* solve, split, check, planned
  forecast,    \* the forecast of this run
  round,       \* iteration of the feedback loop
  cuts,        \* machine -> week -> capacity_cuts
  target,      \* family -> week -> batches the programme planned
  overtime,    \* machine -> week -> overtime the programme planned, as recorded
  batches,     \* product -> week -> planned_batches
  book,        \* family -> week -> inventory and backlog, in tenths of a batch
  dualsValid,  \* the shadow prices are the programme's own, and not zeroed
  utilized,    \* machine -> week -> utilized_hours, in tenths of an hour
  bottleneck   \* the rows <<machine, week>> whose is_bottleneck is YES

capacityRows == <<utilized, bottleneck>>
planVars ==
  <<stage, forecast, round, cuts, target, overtime, batches, book, dualsValid, capacityRows>>
---------------------------------------------------------------------------
(* Python's round() and numpy's ceil() on the quotient of two integers *)
Rounded(n, d) == LET q == n \div d
                     r == n % d
                 IN IF 2 * r > d \/ (2 * r = d /\ q % 2 = 1) THEN q + 1 ELSE q
RoundedUp(n, d) == (n + d - 1) \div d

Max0(x) == Max({0, x})

(* a tenth of an hour, the precision of the capacity table *)
Tenth == 6 * TimeScale
OvertimeAsPlanned(num, den) == Tenth * Rounded(num, den * Tenth)

(* demand_batches: the family's units as batches, rounded to a tenth *)
FamilyUnits(f, w) == SumFunction([p \in Members(f) |-> forecast[p][w]])
DemandTenths(f, w) == Rounded(10 * FamilyUnits(f, w), UnitsPerBatch)

(* the weight of a product in its family: its forecast, or equal weights *)
Weight(p, w) == IF FamilyUnits(FamilyOf[p], w) = 0 THEN 1 ELSE forecast[p][w]
FamilyWeight(f, w) == SumFunction([p \in Members(f) |-> Weight(p, w)])

(* the load of machine m when the family's batches have the average mix:
   LoadNum(plan, m, w) / Scale(w) *)
Scale(w) == FoldFunction(LAMBDA x, y : x * y, 1, [f \in Families |-> FamilyWeight(f, w)])
MixTime(f, m, w) == SumFunction([p \in Members(f) |-> Weight(p, w) * Cycle[p][m]])
LoadNum(plan, m, w) ==
  SumFunction([f \in Families |-> plan[f] * MixTime(f, m, w) * (Scale(w) \div FamilyWeight(f, w))])

Available(m, w) == Max0(Regular - cuts[m][w])
OvertimeNum(plan, m, w) == Max0(LoadNum(plan, m, w) - Available(m, w) * Scale(w))

(* no tables yet *)
NoTarget == [f \in Families |-> [w \in Weeks |-> 0]]
NoOvertime == [m \in Machines |-> [w \in Weeks |-> 0]]
NotUtilized == [m \in Machines |-> [w \in Weeks |-> 0]]
NoBatches == [p \in Products |-> [w \in Weeks |-> 0]]
NoBook == [f \in Families |-> [w \in Weeks |-> [inventory |-> 0, backlog |-> 0]]]

(* the weekly plans the programme may return *)
FeasibleTargets(w) ==
  {plan \in [Families -> 0 .. MaxBatches] :
     \A m \in Machines : OvertimeNum(plan, m, w) <= MaxOvertime * Scale(w)}

(* is_bottleneck: the machine of a week with the lowest dual, if it is negative.
   A slack capacity has no dual, and the one of a machine on overtime is at least
   the overtime's cost. *)
Binding(plan, m, w) == LoadNum(plan, m, w) >= Available(m, w) * Scale(w)
Flaggings(choice) ==
  {rows \in SUBSET {mw \in Machines \X Weeks : Binding(choice[mw[2]], mw[1], mw[2])} :
     /\ \A a, b \in rows : a[2] = b[2] => a = b
     /\ \A m \in Machines, w \in Weeks :
          OvertimeNum(choice[w], m, w) > 0 => \E row \in rows : row[2] = w}

(* solve_aggregate_lp *)
SolveAggregateLp ==
  /\ stage = "solve"
  /\ \E choice \in {c \in [Weeks -> [Families -> 0 .. MaxBatches]] :
                      \A w \in Weeks : c[w] \in FeasibleTargets(w)} :
       /\ target' = [f \in Families |-> [w \in Weeks |-> choice[w][f]]]
       /\ overtime' = [m \in Machines |-> [w \in Weeks |->
            OvertimeAsPlanned(OvertimeNum(choice[w], m, w), Scale(w))]]
       /\ utilized' = [m \in Machines |-> [w \in Weeks |->
            Rounded(LoadNum(choice[w], m, w), Scale(w) * Tenth)]]
       /\ bottleneck' \in Flaggings(choice)
  /\ round' = round + 1
  /\ dualsValid' = TRUE
  /\ stage' = "split"
  /\ UNCHANGED <<forecast, cuts, batches, book>>
---------------------------------------------------------------------------
Rank(p) == CHOOSE i \in DOMAIN ProductSeq : ProductSeq[i] = p
FamilyRank(p) == CHOOSE i \in DOMAIN FamilySeq : FamilySeq[i] = FamilyOf[p]

(* largest remainder: whole shares first, then one more batch to the products
   with the largest remainders, the earlier product first among equals *)
Share(p, w) == target[FamilyOf[p]][w] * Weight(p, w)
Floor(p, w) == Share(p, w) \div FamilyWeight(FamilyOf[p], w)
Remainder(p, w) == Share(p, w) % FamilyWeight(FamilyOf[p], w)
Missing(f, w) == target[f][w] - SumFunction([p \in Members(f) |-> Floor(p, w)])
ServedBefore(q, p, w) ==
  \/ Remainder(q, w) > Remainder(p, w)
  \/ Remainder(q, w) = Remainder(p, w) /\ Rank(q) < Rank(p)
Ahead(p, w) == {q \in Members(FamilyOf[p]) : ServedBefore(q, p, w)}
\* (Mutant: every share is rounded on its own.)
AllocationRounded(p, w) == Rounded(Share(p, w), FamilyWeight(FamilyOf[p], w))
Allocation(p, w) ==
  Floor(p, w) + (IF Cardinality(Ahead(p, w)) < Missing(FamilyOf[p], w) THEN 1 ELSE 0)

(* the book of a family: what a week's supply leaves, or leaves open *)
Netted(before, made, demand) ==
  LET net == before.inventory + 10 * made - demand - before.backlog
  IN IF net >= 0 THEN [inventory |-> net, backlog |-> 0]
                 ELSE [inventory |-> 0, backlog |-> -net]
FamilyBatches(plan, f, w) == SumFunction([p \in Members(f) |-> plan[p][w]])
Book(plan, f) ==
  LET flow[w \in 0 .. LastWeek] ==
        IF w = 0 THEN [inventory |-> 10 * InitialInventory[f], backlog |-> 0]
        ELSE Netted(flow[w - 1], FamilyBatches(plan, f, w), DemandTenths(f, w))
  IN [w \in Weeks |-> flow[w]]

(* disaggregate_to_sku *)
DisaggregateToSku ==
  /\ stage = "split"
  /\ batches' = [p \in Products |-> [w \in Weeks |-> Allocation(p, w)]]
  /\ book' = [f \in Families |-> Book(batches', f)]
  /\ stage' = "check"
  /\ UNCHANGED <<forecast, round, cuts, target, overtime, dualsValid, capacityRows>>
---------------------------------------------------------------------------
Load(plan, m, w) == SumFunction([p \in Products |-> plan[p][w] * Cycle[p][m]])
TotalCapacity(m, w) == Regular + overtime[m][w]
Overload(plan, m, w) == Max0(Load(plan, m, w) - TotalCapacity(m, w))
Overloaded(plan) == {mw \in Machines \X Weeks : Overload(plan, mw[1], mw[2]) > 0}

(* run_planning_pipeline: the split fits *)
Converged ==
  /\ stage = "check" /\ Overloaded(batches) = {}
  /\ stage' = "planned"
  /\ UNCHANGED <<forecast, round, cuts, target, overtime, batches, book, dualsValid, capacityRows>>

(* run_planning_pipeline: solve again with the overloads cut off the capacity;
   the tables of this round are dropped *)
FeedCutsBack ==
  /\ stage = "check" /\ Overloaded(batches) # {}
  /\ round < MaxRounds
  /\ cuts' = [m \in Machines |-> [w \in Weeks |-> cuts[m][w] + Overload(batches, m, w)]]
  /\ stage' = "solve"
  /\ target' = NoTarget /\ overtime' = NoOvertime /\ batches' = NoBatches /\ book' = NoBook
  /\ utilized' = NotUtilized /\ bottleneck' = {}
  /\ UNCHANGED <<forecast, round, dualsValid>>

(* validate_and_repair_disaggregation: machine after machine, the slowest
   products first.  The rows w_df are read once per week, so a later machine
   is measured by the batches before the earlier machines' repair. *)
RowBefore(p, q, w) ==
  \/ FamilyRank(p) < FamilyRank(q)
  \/ FamilyRank(p) = FamilyRank(q) /\ ServedBefore(p, q, w)
Slower(p, q, m, w) ==
  \/ Cycle[p][m] > Cycle[q][m]
  \/ Cycle[p][m] = Cycle[q][m] /\ RowBefore(p, q, w)
Candidates(m, w) ==
  CHOOSE s \in SetToSeqs({p \in Products : Cycle[p][m] > 0}) :
    \A i, j \in DOMAIN s : i < j => Slower(s[i], s[j], m, w)
\* (Mutant: the batches to take off are rounded down.)
ReducibleDown(have, over, cycle) == Min({have, over \div cycle})
Reducible(have, over, cycle) == Min({have, RoundedUp(over, cycle)})
TakeOff(acc, p, m) ==
  IF acc.over <= 0 THEN acc
  ELSE LET less == Reducible(acc.plan[p], acc.over, Cycle[p][m])
       IN [plan |-> [acc.plan EXCEPT ![p] = @ - less], over |-> acc.over - less * Cycle[p][m]]
RepairMachine(week, stale, m, w) ==
  FoldLeft(LAMBDA acc, p : TakeOff(acc, p, m),
           [plan |-> week,
            over |-> SumFunction([p \in Products |-> stale[p] * Cycle[p][m]]) - TotalCapacity(m, w)],
           Candidates(m, w)).plan
RepairWeek(week, w) ==
  FoldLeft(LAMBDA acc, m : RepairMachine(acc, week, m, w), week, MachineSeq)

(* utilized_hours of the repaired batches *)
\* (Mutant: the hours stay those of the plan before the repair.)
HoursUnchanged(plan) == utilized
HoursOf(plan) == [m \in Machines |-> [w \in Weeks |-> Rounded(Load(plan, m, w), Tenth)]]

(* The capacity table gets new hours and prices of zero; is_bottleneck stays as
   the programme's duals had set it. *)
Repair ==
  /\ stage = "check" /\ Overloaded(batches) # {}
  /\ round >= MaxRounds
  /\ LET repaired == [w \in Weeks |-> RepairWeek([p \in Products |-> batches[p][w]], w)]
     IN batches' = [p \in Products |-> [w \in Weeks |-> repaired[w][p]]]
  /\ book' = [f \in Families |-> Book(batches', f)]
  /\ cuts' = [m \in Machines |-> [w \in Weeks |-> cuts[m][w] + Overload(batches, m, w)]]
  /\ utilized' = HoursOf(batches')
  /\ dualsValid' = FALSE
  /\ stage' = "planned"
  /\ UNCHANGED <<forecast, round, target, overtime, bottleneck>>
---------------------------------------------------------------------------
PlanInit ==
  /\ stage = "solve"
  /\ forecast \in Forecasts
  /\ round = 0
  /\ cuts = [m \in Machines |-> [w \in Weeks |-> 0]]
  /\ target = NoTarget /\ overtime = NoOvertime /\ batches = NoBatches /\ book = NoBook
  /\ dualsValid = FALSE /\ utilized = NotUtilized /\ bottleneck = {}

PlanNext == SolveAggregateLp \/ DisaggregateToSku \/ Converged \/ FeedCutsBack \/ Repair
---------------------------------------------------------------------------
(* Splitting a family's batches over its products, by largest remainders
   (disaggregate_to_sku), neither loses nor invents a batch, and gives no
   product a whole batch more or less than its exact share of the forecast. *)
SplitIsFair ==
  stage = "check" =>
    \A w \in Weeks, f \in Families :
      /\ FamilyBatches(batches, f, w) = target[f][w]
      /\ \A p \in Members(f) :
           LET gap == batches[p][w] * FamilyWeight(f, w) - Share(p, w)
           IN gap < FamilyWeight(f, w) /\ -gap < FamilyWeight(f, w)

(* The published plan loads no machine beyond the capacity published with it,
   and that capacity stays within the calendar, though the programme only saw
   an average mix, capacities are rounded, and the repair cuts batches by loads
   read before the other machines were repaired (run_planning_pipeline). *)
PlanFitsCapacity ==
  stage = "planned" =>
    \A m \in Machines, w \in Weeks :
      /\ Load(batches, m, w) <= TotalCapacity(m, w)
      /\ TotalCapacity(m, w) <= Regular + MaxOvertime

(* The family table agrees with the product table at the end, repaired or not:
   stock less backlog is the initial stock and all production less all demand,
   and there is never stock next to backlog. *)
BookAgreesWithPlan ==
  stage = "planned" =>
    \A f \in Families, w \in Weeks :
      /\ book[f][w].inventory - book[f][w].backlog
           = 10 * InitialInventory[f]
             + SumFunction([v \in 1 .. w |-> 10 * FamilyBatches(batches, f, v) - DemandTenths(f, v)])
      /\ book[f][w].inventory = 0 \/ book[f][w].backlog = 0

(* Shadow prices are published as valid only with the plan they belong to: the
   batches the programme itself chose; then a machine flagged as bottleneck has
   no capacity left in the published hours, up to their rounding
   (run_planning_pipeline, "stale shadow prices"). *)
ShadowPricesOfThisPlan ==
  stage = "planned" /\ dualsValid =>
    /\ \A f \in Families, w \in Weeks : FamilyBatches(batches, f, w) = target[f][w]
    /\ \A row \in bottleneck :
         2 * Tenth * utilized[row[1]][row[2]] + Tenth >= 2 * Available(row[1], row[2])

(* The published hours are those of the published batches: exactly so after a
   repair, and otherwise, where they are the average mix of the programme, apart
   by at most a batch of every product on the machine and the rounding. *)
HoursOnMachine(m) == SumFunction([p \in Products |-> Cycle[p][m]])
UtilisationOfThisPlan ==
  stage = "planned" =>
    \A m \in Machines, w \in Weeks :
      LET gap == Tenth * utilized[m][w] - Load(batches, m, w)
      IN IF dualsValid
         THEN 2 * gap <= 2 * HoursOnMachine(m) + Tenth /\ -2 * gap <= 2 * HoursOnMachine(m) + Tenth
         ELSE utilized[m][w] = Rounded(Load(batches, m, w), Tenth)

(* The figures a planning run publishes belong together, repaired or not: the
   stock and backlog of aggregate_plan and the utilized_hours of
   machine_capacity_plan follow from the batches of sku_production_plan, and
   prices and bottleneck flags are of the same plan as long as they are valid.
   One column is left out after a repair: is_bottleneck then still shows the
   duals of the plan before, next to prices of zero, and nothing is said of it. *)
PublishedFiguresAgree ==
  BookAgreesWithPlan /\ ShadowPricesOfThisPlan /\ UtilisationOfThisPlan
=============================================================================
