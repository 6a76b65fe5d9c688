---------------------------- MODULE MCRescheduling ----------------------------
(***************************************************************************)
(* Two lots of two products, the first in two transfer sublots, over two   *)
(* machines; a day of four slots, a week of two working days.              *)
(***************************************************************************)
EXTENDS Rescheduling, TLC

MCOperation ==
    ("x1" :> [lot |-> "X1", parent |-> "X", sub |-> 1, seq |-> 1, product |-> "p",
              machine |-> "A", duration |-> 1, release |-> 0,
              units |-> 2, energy |-> 3, due |-> 5, weight |-> 2]) @@
    ("x2" :> [lot |-> "X2", parent |-> "X", sub |-> 2, seq |-> 1, product |-> "p",
              machine |-> "A", duration |-> 1, release |-> 0,
              units |-> 1, energy |-> 2, due |-> 5, weight |-> 2]) @@
    ("y1" :> [lot |-> "Y", parent |-> "Y", sub |-> 1, seq |-> 1, product |-> "q",
              machine |-> "A", duration |-> 1, release |-> 2,
              units |-> 3, energy |-> 4, due |-> 7, weight |-> 1]) @@
    ("y2" :> [lot |-> "Y", parent |-> "Y", sub |-> 1, seq |-> 2, product |-> "q",
              machine |-> "B", duration |-> 2, release |-> 2,
              units |-> 3, energy |-> 5, due |-> 7, weight |-> 1])
MCTasks == DOMAIN MCOperation
MCTaskOrder == <<"x1", "x2", "y1", "y2">>
MCMachines == {"A", "B"}
MCChangeover ==
    [k \in MCMachines \X {"p", "q"} \X {"p", "q"} |->
        IF k[1] = "A" /\ k[2] # k[3] THEN 1 ELSE 0]
MCInitialProduct == [m \in MCMachines |-> "p"]
MCNight == "A" :> 2 @@ "B" :> 1
MCOvertimeBudget == "A" :> 1 @@ "B" :> 0
MCPower == "A" :> [base |-> 9, setup |-> 4, idle |-> 2] @@ "B" :> [base |-> 7, setup |-> 3, idle |-> 1]
MCRates ==
    [labor |-> 6, setup |-> 8, premium |-> 1, holding |-> 1, tardiness |-> 5,
     energy |-> 2, carbon |-> 3, forklift |-> 2, grid |-> 1]
MCFirstCalls ==
    {<<"BALANCED", FALSE>>, <<"THROUGHPUT_MAX", FALSE>>, <<"COST_OPTIMIZED", FALSE>>,
     <<"SERVICE_LEVEL_FIRST", TRUE>>, <<"COST_OPTIMIZED", TRUE>>}
MCPlannedStops == {[machine |-> "B", from |-> 6, to |-> 7]}

Event(now, freeze, flexible, shift, machine, delay) ==
    [now |-> now, freeze |-> freeze, flexible |-> flexible, shift |-> shift,
     machine |-> machine, delay |-> delay]
MCTriggers == {
    Event(0, 0, 4, 2, "A", 0),
    Event(2, 1, 4, 4, "A", 1),
    Event(3, 0, 8, 8, "A", 0),
    Event(3, 0, 0, 0, "A", 2),
    Event(1, 1, 2, 8, "B", 2)}
==============================================================================
