------------------------------ MODULE HotOrder ------------------------------
(* The hot-order what-if (scheduling/what_if.py) on the inputs of a planned
   run: the rush order becomes a lot of its own beside the plan's lots, the
   task numbers are given out (scheduling/schedule_cpsat.py), the two
   independent audits recompute the lots from the plan, the routes and the
   material orders (scheduling/hot_order_schedule_audit.py and
   scheduling/reschedule_candidate_audit.py), and the answer compares the
   candidate with the baseline task by task
   (scheduling/candidate_comparison.py).  The copy in memory it works on leaves
   the published run alone; when each task starts is the solver's and no part
   of this module. *)
EXTENDS PlanningChain

CONSTANT HotQuantities   \* units of a rush order

ASSUME HotAssumption == HotQuantities \subseteq Nat \ {0}

VARIABLE hot       \* the rush order and whether it replays the ACTIVE schedule

hotVars == <<chainVars, hot>>

NoOrder == [product |-> "none", quantity |-> 0, replay |-> FALSE]
---------------------------------------------------------------------------
(* simulate_hot_order: whole batches of the rush order, as a plan row of its own *)
\* (Mutant: the last part of a batch is not made.)
WholeBatches(q) == q \div UnitsPerBatch
HotBatches(q) == RoundedUp(q, UnitsPerBatch)

SimulateHotOrder(p, q, replay) ==
  /\ stage = "ordered"
  /\ PlannedProducts # {}              \* an empty baseline schedule is refused
  /\ delay' = 0
  /\ hot' = [product |-> p, quantity |-> q, replay |-> replay]
  /\ lots' = PlanLots(0) \cup LotsOf("HOT", p, HotBatches(q), 0)
  /\ stage' = "simulated"
  /\ UNCHANGED <<forecast, round, cuts, target, overtime, batches, book, dualsValid, capacityRows,
                 safety, orders>>

HotInit == ChainInit /\ hot = NoOrder
HotNext ==
  \/ ChainNext /\ UNCHANGED hot
  \/ \E p \in Products, q \in HotQuantities, replay \in BOOLEAN : SimulateHotOrder(p, q, replay)
HotSpec == HotInit /\ [][HotNext]_hotVars
---------------------------------------------------------------------------
(* task numbers: the rows sorted by product, the lots of a row, the operations
   of a lot; a lot keeps its row's name when it is the only one *)
Position(ops, op) == CHOOSE k \in DOMAIN ops : ops[k] = op
RouteSeq == [p \in Products |->
  CHOOSE s \in SetToSeqs(Route[p]) :
    \A i, j \in DOMAIN s : i < j => Position(MachineSeq, s[i]) < Position(MachineSeq, s[j])]
OpsOf(parent, p, total) ==
  LET last == Len(SubLotSizes(total, SubBatchLimit[p]))
      Ops(i) == [k \in DOMAIN RouteSeq[p] |->
                   [lot |-> <<parent, p, IF last > 1 THEN i ELSE 0>>, machine |-> RouteSeq[p][k]]]
  IN FlattenSeq([i \in 1 .. last |-> Ops(i)])
OpsWith(order) ==
  FlattenSeq([k \in DOMAIN ProductSeq |->
    LET p == ProductSeq[k]
    IN OpsOf("LOT", p, batches[p][1])
         \o (IF p = order.product THEN OpsOf("HOT", p, HotBatches(order.quantity)) ELSE <<>>)])

(* numbers in order, or those of the reference schedule for its operations and
   numbers it does not use for the others *)
Counted(ops) == [k \in DOMAIN ops |-> k - 1]
\* (Mutant: a new operation takes the counter as it is.)
NextNumber(counter, reserved) == counter
NextFree(counter, reserved) == Min(counter .. counter + Cardinality(reserved) \ reserved)
Replayed(ops, reference, ids) ==
  LET step[k \in 0 .. Len(ops)] ==     \* the number given and the counter after it
        IF k = 0 THEN [id |-> 0, counter |-> 0]
        ELSE LET counter == step[k - 1].counter
                 free == NextFree(counter, Range(ids))
             IN IF ops[k] \in Range(reference)
                THEN [id |-> ids[Position(reference, ops[k])], counter |-> counter + 1]
                ELSE [id |-> free, counter |-> free + 1]
  IN [k \in DOMAIN ops |-> step[k].id]

Baseline == OpsWith(NoOrder)
Candidate == OpsWith(hot)
TaskNumbers == IF hot.replay THEN Replayed(Candidate, Baseline, Counted(Baseline)) ELSE Counted(Candidate)

(* compare_schedule_operations pairs the tasks of the same number *)
SameNumber(ids, old) ==
  {pair \in (DOMAIN old) \X (DOMAIN ids) : Counted(old)[pair[1]] = ids[pair[2]]}
NewTasks(ids, old) == {k \in DOMAIN ids : ids[k] \notin Range(Counted(old))}
---------------------------------------------------------------------------
(* What both audits rebuild from the sources, in code of their own *)
Ready(x) == IF orders[x][1].action = "EXPEDITE" THEN 480 + Max0(-orders[x][1].release) * 480 ELSE 0
SourceRelease(p) == Max({Ready(x) : x \in Consumed[p]})
LotSound(l) ==
  /\ l.batches > 0 /\ l.units = l.batches * UnitsPerBatch
  /\ DOMAIN l.minutes = Route[l.product]
  /\ \A m \in Route[l.product] : l.minutes[m] = Rounded(l.batches * Cycle[l.product][m], TimeScale)

(* the sums are dictionaries: a product nobody makes is no key of the second *)
PlanSums == [p \in Products |-> PlannedUnits(p, 1)]
LotSums == [p \in {l.product : l \in lots} |-> UnitsOf(p, lots)]

RescheduleAuditAccepts ==
  /\ \A l \in lots : LotSound(l)
  /\ LotSums = PlanSums
  /\ \A l \in lots : Consumed[l.product] # {} => l.release >= SourceRelease(l.product)

HotLots == {l \in lots : l.parent = "HOT"}
HotOrderAuditAccepts ==
  /\ \A l \in lots : LotSound(l)
  /\ LotSums = [PlanSums EXCEPT ![hot.product] = @ + HotBatches(hot.quantity) * UnitsPerBatch]
  /\ HotLots # {} /\ \A l \in HotLots : l.product = hot.product
  /\ SumFunction([l \in HotLots |-> l.units]) = HotBatches(hot.quantity) * UnitsPerBatch
  /\ \A l \in lots : Consumed[l.product] # {} /\ l.release = SourceRelease(l.product)
---------------------------------------------------------------------------
(* The lots the scheduler makes of a plan, and of a plan with a rush order, are
   those both audits rebuild from plan, routes and material orders, with two
   exceptions: a product planned with no batch at all is a key of the plan's sums
   and of no lot, so the audits refuse every schedule of such a plan, and the hot
   order's audit asks every product for a bill of materials.  The rush order
   itself is made in full, in less than a batch too many. *)
AuditsRebuildLots ==
  /\ stage = "scheduled" =>
       (RescheduleAuditAccepts <=> \A p \in Products : PlannedUnits(p, 1) > 0)
  /\ stage = "simulated" =>
       /\ HotOrderAuditAccepts <=>
            /\ \A p \in Products \ {hot.product} : PlannedUnits(p, 1) > 0
            /\ \A p \in Products : Consumed[p] # {}
       /\ SumFunction([l \in HotLots |-> l.units]) - hot.quantity \in 0 .. UnitsPerBatch - 1

(* A rush order simulated on the ACTIVE schedule itself: task numbers are unique,
   every task of the baseline is compared with the same operation of the
   candidate, and the new tasks are the rush order's (reference_schedule of
   run_cpsat_scheduling, compare_schedule_operations). *)
ReplayKeepsTasks ==
  stage = "simulated" /\ hot.replay =>
    LET ids == TaskNumbers
        new == Candidate
        old == Baseline
    IN /\ IsInjective(ids)
       /\ \A pair \in SameNumber(ids, old) : old[pair[1]] = new[pair[2]]
       /\ NewTasks(ids, old) = {k \in DOMAIN new : new[k].lot[1] = "HOT"}

(* docs/decision-review-and-expanded-benchmark-2026-10-23.md: existing operations
   are matched by their task number, new operations of the rush order are counted
   apart, whatever the baseline is. *)
ComparedTasksAreTheSame ==
  stage = "simulated" =>
    \A pair \in SameNumber(TaskNumbers, Baseline) : Baseline[pair[1]] = Candidate[pair[2]]
=============================================================================
