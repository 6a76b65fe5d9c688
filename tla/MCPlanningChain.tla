-------------------------- MODULE MCPlanningChain --------------------------
(* Two families of two and one products on two machines, two weeks.  A unit of
   time is half a minute, so a tenth of an hour is 12 units. *)
EXTENDS HotOrder

MCProducts == <<"p1", "p2", "p3">>
MCMachines == <<"m1", "m2">>
MCFamilies == <<"A", "B">>
MCFamilyOf == [p1 |-> "A", p2 |-> "A", p3 |-> "B"]
MCCycle == [p1 |-> [m1 |-> 25, m2 |-> 10], p2 |-> [m1 |-> 9, m2 |-> 0], p3 |-> [m1 |-> 0, m2 |-> 17]]
MCInitialInventory == [A |-> 1, B |-> 0]
Demand(a, b, c) == [p1 |-> a, p2 |-> b, p3 |-> c]
MCForecasts ==
  {Demand(<<3, 1>>, <<1, 2>>, <<2, 3>>), Demand(<<0, 4>>, <<0, 5>>, <<4, 0>>)}
MCMaterials == {"steel", "powder"}
MCBom == [p1 |-> [steel |-> 2, powder |-> 0], p2 |-> [steel |-> 1, powder |-> 1],
          p3 |-> [steel |-> 0, powder |-> 3]]
MCOnHand == [steel |-> 9, powder |-> 5]
MCOrderLot == [steel |-> 4, powder |-> 5]
MCLeadDays == [steel |-> 3, powder |-> 11]
MCDailyTime == [m1 |-> 60, m2 |-> 40]
=============================================================================
