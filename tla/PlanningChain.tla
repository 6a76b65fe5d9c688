--------------------------- MODULE PlanningChain ---------------------------
(* What the weekly plan is turned into: material orders (inventory/bom_mrp.py),
   the release times and transfer lots of the first week's schedule
   (scheduling/schedule_cpsat.py) and the comparison of the schedule with the
   plan (planning/plan_schedule_consistency.py). *)
EXTENDS AggregatePlanning

CONSTANTS
  Materials,
  Bom,             \* product -> material -> quantity per unit, 0 without a row
  OnHand,          \* INITIAL_INVENTORY
  OrderLot,        \* min_order_qty
  LeadDays,        \* lead_time_days
  SafetyStocks,    \* the safety stocks considered; the code derives one from a
                   \* standard deviation
  MaterialDelays,  \* material_delay_min of a what-if, 0 in the pipeline
  DailyTime,       \* machine -> time of its regular shift
  MaxSubBatches    \* MAX_SUB_LOT_BATCHES

ASSUME MaterialAssumption ==
  /\ \A p \in Products, x \in Materials : Bom[p][x] \in Nat
  /\ \A x \in Materials : OnHand[x] \in Nat /\ OrderLot[x] \in Nat \ {0} /\ LeadDays[x] \in Nat
  /\ SafetyStocks \subseteq Nat /\ MaterialDelays \subseteq Nat
  /\ IsFiniteSet(Materials) /\ MaxSubBatches \in Nat \ {0}
  /\ \A m \in Machines : DailyTime[m] \in Nat /\ DailyTime[m] % TimeScale = 0

VARIABLES
  safety,    \* material -> safety stock
  orders,    \* material -> week -> row of mrp_plan
  delay,     \* material_delay_min
  lots       \* the transfer lots of week 1 and their operations

chainVars == <<planVars, safety, orders, delay, lots>>
---------------------------------------------------------------------------
(* MRP *)
PlannedUnits(p, w) == batches[p][w] * UnitsPerBatch
Gross(x, w) == SumFunction([p \in Products |-> PlannedUnits(p, w) * Bom[p][x]])
LeadWeeks(x) == Max({1, Rounded(LeadDays[x], 7)})

(* one week of a material: what is left, what to order, when to release it *)
\* (Mutant: the receipt is not added to the stock.)
OrderRowUnposted(x, w, left, stock) ==
  LET net == Max0(stock - left)
  IN [net |-> net, receipt |-> RoundedUp(net, OrderLot[x]) * OrderLot[x], available |-> left,
      release |-> w - LeadWeeks(x), action |-> IF net = 0 THEN "NONE" ELSE "EXPEDITE"]
OrderRow(x, w, left, stock) ==
  LET net == Max0(stock - left)
      receipt == RoundedUp(net, OrderLot[x]) * OrderLot[x]
      release == w - LeadWeeks(x)
  IN [net |-> net, receipt |-> receipt, available |-> left + receipt, release |-> release,
      action |-> CASE receipt = 0 -> "NONE"
                   [] receipt > 0 /\ release <= 0 -> "EXPEDITE"
                   [] OTHER -> "RELEASE"]
Orders(x, stock) ==
  LET row[w \in Weeks] ==
        OrderRow(x, w, (IF w = 1 THEN OnHand[x] ELSE row[w - 1].available) - Gross(x, w), stock)
  IN row

RunMrpEngine ==
  /\ stage = "planned"
  /\ safety' \in [Materials -> SafetyStocks]
  /\ orders' = [x \in Materials |-> Orders(x, safety'[x])]
  /\ stage' = "ordered"
  /\ UNCHANGED <<forecast, round, cuts, target, overtime, batches, book, dualsValid, capacityRows, delay, lots>>
---------------------------------------------------------------------------
(* release times: minutes from the start of the horizon *)
ExpediteMin == 240 + 120 + 120     \* supplier, goods receipt, quality hold
ExtraWeekMin == 480
AvailableAt(x) ==
  IF orders[x][1].action = "EXPEDITE"
  THEN ExpediteMin + Max0(-orders[x][1].release) * ExtraWeekMin ELSE 0
Consumed == [p \in Products |-> {x \in Materials : Bom[p][x] > 0}]
\* (Mutant: the first material to arrive releases the lot.)
ReleaseWithFirst(p, wait) == Min({AvailableAt(x) : x \in Consumed[p]}) + wait
ReleaseTime(p, wait) == Max({0} \cup {AvailableAt(x) : x \in Consumed[p]}) + wait

(* transfer lots: at most MaxSubBatches, and what a regular shift holds *)
Route == [p \in Products |-> {m \in Machines : Cycle[p][m] > 0}]
SubBatchLimit == [p \in Products |->
  Min({MaxSubBatches} \cup {Max({1, DailyTime[m] \div Cycle[p][m]}) : m \in Route[p]})]
\* (Mutant: only full lots are made.)
SubLotSizesFull(total, limit) == [i \in 1 .. total \div limit |-> limit]
SubLotSizes(total, limit) ==
  IF total <= 0 THEN <<>>
  ELSE [i \in 1 .. RoundedUp(total, limit) |-> Min({limit, total - (i - 1) * limit})]
Minutes(size, p, m) == Rounded(size * Cycle[p][m], TimeScale)
(* parent is the prefix of lot_id and parent_lot_id: LOT, or HOT for a rush order *)
Lot(parent, p, i, size, wait) ==
  [parent |-> parent, product |-> p, index |-> i,
   batches |-> size, units |-> size * UnitsPerBatch,
   release |-> ReleaseTime(p, wait), minutes |-> [m \in Route[p] |-> Minutes(size, p, m)]]
LotsOf(parent, p, total, wait) ==
  LET sizes == SubLotSizes(total, SubBatchLimit[p])
  IN {Lot(parent, p, i, sizes[i], wait) : i \in DOMAIN sizes}
PlanLots(wait) == UNION {LotsOf("LOT", p, batches[p][1], wait) : p \in Products}

(* run_cpsat_scheduling builds its tasks; when they run is its choice *)
ScheduleLots ==
  /\ stage = "ordered"
  /\ \E wait \in MaterialDelays :
       /\ delay' = wait
       /\ lots' = PlanLots(wait)
  /\ stage' = "scheduled"
  /\ UNCHANGED <<forecast, round, cuts, target, overtime, batches, book, dualsValid, capacityRows, safety, orders>>
---------------------------------------------------------------------------
(* compare_week_one: refuses, or reports what is due within the week when the
   last operation of the lots late ends after it *)
UnitsOf(p, which) == SumFunction([l \in {k \in which : k.product = p} |-> l.units])
PlannedProducts == {p \in Products : PlannedUnits(p, 1) > 0}
CompareWeekOne(late) ==
  IF \/ lots = {}
     \/ {l.product : l \in lots} # PlannedProducts
     \/ \E p \in Products : UnitsOf(p, lots) # PlannedUnits(p, 1)
  THEN [accepted |-> FALSE]
  ELSE [accepted |-> TRUE,
        due |-> [p \in Products |-> UnitsOf(p, lots \ late)],
        after |-> [p \in Products |-> PlannedUnits(p, 1) - UnitsOf(p, lots \ late)]]

ChainInit ==
  /\ PlanInit
  /\ safety = [x \in Materials |-> 0]
  /\ orders = [x \in Materials |-> <<>>]
  /\ delay = 0 /\ lots = {}
ChainNext ==
  \/ PlanNext /\ UNCHANGED <<safety, orders, delay, lots>>
  \/ RunMrpEngine
  \/ ScheduleLots
Spec == ChainInit /\ [][ChainNext]_chainVars
---------------------------------------------------------------------------
(* Every week's projected stock covers the safety stock whatever the plan
   consumed until then, in whole order lots and with no lot too many, week after
   week (run_mrp_engine against the cumulative definition). *)
Received(x, w) == SumFunction([v \in 1 .. w |-> orders[x][v].receipt])
Used(x, w) == SumFunction([v \in 1 .. w |-> Gross(x, v)])
OrdersCoverPlan ==
  stage = "scheduled" =>
    \A x \in Materials, w \in Weeks :
      LET stock == OnHand[x] + Received(x, w) - Used(x, w)
      IN /\ stock >= safety[x]
         /\ orders[x][w].receipt % OrderLot[x] = 0
         /\ orders[x][w].receipt > 0 => stock < safety[x] + OrderLot[x]

(* No lot of the first week may start on material that is not there: if the
   stock at hand does not reach for the week's plan, every lot that consumes the
   material waits for the expedited delivery, longer for a longer lead time
   (bom_mrp's action message, read by run_cpsat_scheduling). *)
LotsWaitForMaterial ==
  stage = "scheduled" =>
    \A l \in lots : \A x \in Consumed[l.product] :
      OnHand[x] < Gross(x, 1) =>
        l.release >= ExpediteMin + (LeadWeeks(x) - 1) * ExtraWeekMin + delay

(* The first week's lots carry exactly the plan, so that the comparison of the
   published schedule with the plan never refuses and reports as late exactly
   what the lots that end after the week carry, and every operation fits a regular shift of its
   machine whenever one batch does (lot streaming, compare_week_one). *)
LotsCarryPlan ==
  stage = "scheduled" =>
    /\ PlannedProducts # {} =>
         \A p \in Products : \A late \in SUBSET {l \in lots : l.product = p} :
           /\ CompareWeekOne(late).accepted
           /\ CompareWeekOne(late).after[p] = SumFunction([l \in late |-> l.units])
    /\ \A l \in lots, m \in Machines : m \in Route[l.product] =>
         \/ l.minutes[m] * TimeScale <= DailyTime[m]
         \/ l.batches = 1
=============================================================================
