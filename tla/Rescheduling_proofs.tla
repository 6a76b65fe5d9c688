------------------------- MODULE Rescheduling_proofs -------------------------
(***************************************************************************)
(* Proofs about Rescheduling: what the solver's model admits satisfies the *)
(* independent audits and the gate, on any shop floor, so no event of a    *)
(* chain can be turned down by them; and every version keeps the context   *)
(* it inherits.                                                            *)
(***************************************************************************)
EXTENDS Rescheduling, FiniteLemmas

-----------------------------------------------------------------------------
(* One machine of an admitted schedule.                                    *)

LEMMA ShopTypes ==
    /\ IsFiniteSet(Tasks) /\ Tasks # {}
    /\ \A t \in Tasks :
        /\ Operation[t].machine \in Machines /\ Operation[t].duration \in Nat \ {0}
        /\ Operation[t].release \in Nat /\ Operation[t].seq \in Int
    /\ \A m : On(m) \in SUBSET Tasks /\ IsFiniteSet(On(m)) /\ Cardinality(On(m)) \in Nat
    /\ \A t \in Tasks : t \in On(Operation[t].machine)
    /\ DayLength \in Nat \ {0} /\ WeekLength \in Nat \ {0, 1} /\ Horizon \in Nat
    /\ \A m \in Machines : Night[m] \in 0..(DayLength - 1) /\ OvertimeBudget[m] \in Nat
  <1>1. \A m : On(m) \in SUBSET Tasks
    BY DEF On
  <1>2. \A m : IsFiniteSet(On(m)) /\ Cardinality(On(m)) \in Nat
    BY <1>1, ShopFloorAssumption, FS_Subset, FS_CardinalityType
  <1> QED BY <1>1, <1>2, ShopFloorAssumption DEF On

LEMMA ScheduleTypes ==
    ASSUME NEW s \in Schedules, NEW t \in Tasks
    PROVE  s[t] \in Nat /\ s[t] <= Horizon /\ End(s, t) \in Nat /\ End(s, t) <= Horizon /\ s[t] < End(s, t)
  BY ShopTypes DEF Schedules, End

LEMMA SetupTypes ==
    ASSUME NEW m \in Machines, NEW p, NEW t \in On(m),
           p = InitialProduct[m] \/ \E u \in Tasks : p = Operation[u].product
    PROVE  SetupTime(m, p, Operation[t].product) \in Nat
  <1>1. /\ p \in {InitialProduct[m]} \cup {Operation[u].product : u \in Tasks}
        /\ Operation[t].product \in {InitialProduct[m]} \cup {Operation[u].product : u \in Tasks}
    BY ShopTypes DEF On
  <1> QED BY <1>1, ShopFloorAssumption DEF SetupTime

\* A circuit whose arcs hold visits the tasks in the order of their starts,
\* so the setup the solver selects is the one the rows show.
LEMMA CircuitOrder ==
    ASSUME NEW s \in Schedules, NEW m \in Machines, NEW c \in Circuits(m), ArcsHold(s, m, c),
           NEW n \in Nat, n = Cardinality(On(m))
    PROVE  /\ c \in Bijection(1..n, On(m)) /\ DOMAIN c = 1..n
           /\ \A i \in 1..n : SelectedSetup(m, c, i) \in Nat
           /\ \A i, j \in 1..n : i < j => s[c[j]] - SelectedSetup(m, c, j) >= End(s, c[i])
           /\ \A j \in 1..n : s[c[j]] - SelectedSetup(m, c, j) >= 0
  <1>1. c \in Bijection(1..n, On(m)) /\ DOMAIN c = 1..n /\ \A i \in 1..n : c[i] \in On(m) /\ c[i] \in Tasks
    BY ShopTypes DEF Circuits, Bijection, Injection, Surjection
  <1>2. ASSUME NEW i \in 1..n PROVE SelectedSetup(m, c, i) \in Nat
    <2>1. CASE i = 1
      BY <1>1, <2>1, SetupTypes DEF SelectedSetup, ProductBefore
    <2>2. CASE i # 1
      <3>1. i - 1 \in 1..n
        BY <2>2
      <3>2. PICK p : p = Operation[c[i - 1]].product
        OBVIOUS
      <3>3. SetupTime(m, p, Operation[c[i]].product) \in Nat
        BY <1>1, <3>1, <3>2, SetupTypes
      <3> QED BY <2>2, <3>2, <3>3 DEF SelectedSetup, ProductBefore
    <2> QED BY <2>1, <2>2
  <1>3. \A i \in 1..n : s[c[i]] \in Nat /\ End(s, c[i]) \in Nat /\ s[c[i]] < End(s, c[i])
    BY <1>1, ScheduleTypes
  <1>4. \A j \in 1..n : s[c[j]] - SelectedSetup(m, c, j) >= IF j = 1 THEN 0 ELSE End(s, c[j - 1])
    BY <1>1 DEF ArcsHold
  <1>5. ASSUME NEW i \in 1..n, NEW j \in 1..n, i < j
        PROVE  s[c[j]] - SelectedSetup(m, c, j) >= End(s, c[i])
    <2> DEFINE T == {k \in 0..(j - i - 1) : s[c[i + 1 + k]] - SelectedSetup(m, c, i + 1 + k) >= End(s, c[i])}
    <2>1. 0 \in T
      <3>1. i + 1 \in 1..n /\ i + 1 # 1 /\ (i + 1) - 1 = i /\ i + 1 + 0 = i + 1 /\ 0 \in 0..(j - i - 1)
        BY <1>5
      <3>2. s[c[i + 1]] - SelectedSetup(m, c, i + 1) >= End(s, c[i])
        BY <1>4, <3>1
      <3> QED BY <3>1, <3>2
    <2>2. ASSUME NEW k \in 0..(j - i - 1 - 1), k \in T PROVE k + 1 \in T
      <3>1. PICK a \in 1..n, b \in 1..n : a = i + 1 + k /\ b = i + 1 + (k + 1) /\ b # 1 /\ b - 1 = a
        BY <1>5
      <3>2. s[c[b]] - SelectedSetup(m, c, b) >= End(s, c[a])
        BY <1>4, <3>1
      <3>3. s[c[a]] - SelectedSetup(m, c, a) >= End(s, c[i])
        BY <2>2, <3>1
      <3>4. PICK x \in Nat, y \in Nat, z \in Nat, u \in Nat, v \in Nat, w \in Nat :
                x = s[c[a]] /\ y = End(s, c[a]) /\ z = SelectedSetup(m, c, a)
                    /\ u = s[c[b]] /\ v = SelectedSetup(m, c, b) /\ w = End(s, c[i])
        BY <1>2, <1>3
      <3>5. u - v >= w
        BY <1>3, <3>2, <3>3, <3>4
      <3> QED BY <3>1, <3>4, <3>5
    <2>3. j - i - 1 \in Nat /\ i + 1 + (j - i - 1) = j
      BY <1>5
    <2> HIDE DEF T
    <2>4. \A k \in 0..(j - i - 1) : k \in T
      BY <2>1, <2>2, <2>3, CountUp
    <2>5. j - i - 1 \in T
      BY <2>3, <2>4
    <2> QED BY <2>3, <2>5 DEF T
  <1>6. ASSUME NEW j \in 1..n PROVE s[c[j]] - SelectedSetup(m, c, j) >= 0
    <2>1. CASE j = 1
      BY <1>4, <2>1
    <2>2. CASE j # 1
      <3>1. 1 \in 1..n /\ 1 < j
        BY <2>2
      <3>2. s[c[j]] - SelectedSetup(m, c, j) >= End(s, c[1])
        BY <1>5, <3>1
      <3> QED BY <1>2, <1>3, <3>1, <3>2
    <2> QED BY <2>1, <2>2
  <1> QED BY <1>1, <1>2, <1>5, <1>6

\* The tasks of a machine in the order of their starts: the setup before each is
\* from the product of the task before it.
LEMMA OrderedSetups ==
    ASSUME NEW s \in Schedules, NEW m \in Machines, NEW n \in Nat, NEW c \in Bijection(1..n, On(m)),
           \A j, k \in 1..n : j < k => s[c[j]] < s[c[k]], NEW i \in 1..n
    PROVE  SetupBefore(s, c[i]) = SelectedSetup(m, c, i)
  <1>1. /\ \A j \in 1..n : c[j] \in On(m) /\ c[j] \in Tasks
        /\ \A u \in On(m) : \E j \in 1..n : u = c[j]
    BY ShopTypes DEF Bijection, Injection, Surjection
  <1>2. \A j, k \in 1..n : j < k => s[c[j]] < s[c[k]]
    OBVIOUS
  <1>3. \A j \in 1..n : s[c[j]] \in Nat
    BY <1>1, ScheduleTypes
  <1>4. Operation[c[i]].machine = m
    BY <1>1 DEF On
  <1> DEFINE before == {u \in On(m) : s[u] < s[c[i]]}
  <1>5. \A j \in 1..n : c[j] \in before <=> j < i
    BY <1>1, <1>2, <1>3
  <1>6. LastProduct(s, c[i]) = IF before = {} THEN InitialProduct[m]
            ELSE Operation[CHOOSE u \in before : \A v \in before : s[v] <= s[u]].product
    BY <1>4 DEF LastProduct
  <1>7. LastProduct(s, c[i]) = ProductBefore(m, c, i)
    <2>1. CASE i = 1
      <3>1. before = {}
        <4> SUFFICES ASSUME NEW u \in before PROVE FALSE
          OBVIOUS
        <4>1. PICK j \in 1..n : u = c[j]
          BY <1>1
        <4> QED BY <1>5, <2>1, <4>1
      <3> QED BY <1>6, <2>1, <3>1 DEF ProductBefore
    <2>2. CASE i # 1
      <3>1. PICK k \in 1..n : k = i - 1
        BY <2>2
      <3>2. c[k] \in before
        BY <1>5, <3>1
      <3>3. \A v \in before : s[v] <= s[c[k]]
        <4> SUFFICES ASSUME NEW v \in before PROVE s[v] <= s[c[k]]
          OBVIOUS
        <4>1. PICK j \in 1..n : v = c[j]
          BY <1>1
        <4>2. j < i
          BY <1>5, <4>1
        <4>3. CASE j = k
          BY <1>3, <4>1, <4>3
        <4>4. CASE j < k
          BY <1>2, <1>3, <4>1, <4>4
        <4> QED BY <3>1, <4>2, <4>3, <4>4
      <3>4. ASSUME NEW u \in before, \A v \in before : s[v] <= s[u] PROVE u = c[k]
        <4>1. PICK j \in 1..n : u = c[j]
          BY <1>1
        <4>2. j < i
          BY <1>5, <4>1
        <4>3. ASSUME j < k PROVE FALSE
          <5>1. s[c[j]] < s[c[k]] /\ s[c[k]] <= s[c[j]]
            BY <1>2, <3>2, <3>4, <4>1, <4>3
          <5> QED BY <1>3, <5>1
        <4> QED BY <3>1, <4>1, <4>2, <4>3
      <3> HIDE DEF before
      <3>5. (CHOOSE u \in before : \A v \in before : s[v] <= s[u]) = c[k]
        BY <3>2, <3>3, <3>4
      <3> QED BY <1>6, <2>2, <3>1, <3>2, <3>5 DEF ProductBefore
    <2> QED BY <2>1, <2>2
  <1> QED BY <1>4, <1>7 DEF SetupBefore, SelectedSetup

LEMMA CircuitSetups ==
    ASSUME NEW s \in Schedules, NEW m \in Machines, NEW c \in Circuits(m), ArcsHold(s, m, c),
           NEW n \in Nat, n = Cardinality(On(m)), NEW i \in 1..n
    PROVE  SetupBefore(s, c[i]) = SelectedSetup(m, c, i)
  <1>1. c \in Bijection(1..n, On(m)) /\ \A j \in 1..n : c[j] \in On(m) /\ c[j] \in Tasks
    <2>1. c \in Bijection(1..n, On(m))
      BY CircuitOrder
    <2> QED BY <2>1, ShopTypes DEF Bijection, Injection, Surjection
  <1>2. \A j, k \in 1..n : j < k => s[c[j]] < s[c[k]]
    <2> SUFFICES ASSUME NEW j \in 1..n, NEW k \in 1..n, j < k PROVE s[c[j]] < s[c[k]]
      OBVIOUS
    <2>1. s[c[k]] - SelectedSetup(m, c, k) >= End(s, c[j]) /\ SelectedSetup(m, c, k) \in Nat
      BY CircuitOrder
    <2>2. s[c[j]] \in Nat /\ s[c[k]] \in Nat /\ End(s, c[j]) \in Nat /\ s[c[j]] < End(s, c[j])
      BY <1>1, ScheduleTypes
    <2> QED BY <2>1, <2>2
  <1> QED BY <1>1, <1>2, OrderedSetups

\* On one machine, the work of one task ends before the setup of the next.
OneAfterOther(s, t, u) == End(s, t) <= SetupStart(s, u) /\ s[t] < s[u]
InSequence(s, m) == \A t, u \in On(m) : t # u => OneAfterOther(s, t, u) \/ OneAfterOther(s, u, t)
Works(s, m) == [t \in On(m) |-> WorkSlots(s, t)]
FirstNights(m) == UNION {NightSlots(m, d) : d \in FirstWeekDays}
KeepsCalendar(s, m) ==
    /\ \E open \in SUBSET FirstWeekDays :
        /\ Cardinality(open) <= MaxNights(m)
        /\ \A t \in On(m) : WorkSlots(s, t) \cap Breaks(m, open) = {}
    /\ Cardinality(Union(Works(s, m), On(m)) \cap FirstNights(m)) <= OvertimeBudget[m]

LEMMA CircuitPlaces ==
    ASSUME NEW s \in Schedules, NEW m \in Machines, NEW c \in Circuits(m), ArcsHold(s, m, c)
    PROVE  /\ InSequence(s, m)
           /\ \A t \in On(m) : SetupBefore(s, t) \in Nat /\ SetupStart(s, t) \in Nat
  <1>2. PICK n \in Nat : n = Cardinality(On(m))
    BY ShopTypes
  <1>3. /\ DOMAIN c = 1..n /\ \A j \in 1..n : c[j] \in On(m)
        /\ \A u \in On(m) : \E j \in 1..n : u = c[j]
    BY <1>2, CircuitOrder DEF Bijection, Injection, Surjection
  <1>4. \A j \in 1..n : SetupBefore(s, c[j]) = SelectedSetup(m, c, j) /\ SetupBefore(s, c[j]) \in Nat
    BY <1>2, CircuitOrder, CircuitSetups
  <1>5. \A j \in 1..n : SetupStart(s, c[j]) = s[c[j]] - SelectedSetup(m, c, j)
    BY <1>4 DEF SetupStart
  <1>6. ASSUME NEW t \in On(m) PROVE SetupBefore(s, t) \in Nat /\ SetupStart(s, t) \in Nat
    <2>1. PICK j \in 1..n : t = c[j]
      BY <1>3
    <2>2. s[t] \in Nat
      BY ScheduleTypes, ShopTypes
    <2>3. SetupStart(s, t) >= 0
      BY <1>2, <1>5, <2>1, CircuitOrder
    <2> QED BY <1>4, <2>1, <2>2, <2>3 DEF SetupStart
  <1>7. \A j, k \in 1..n : j < k => OneAfterOther(s, c[j], c[k])
    <2> SUFFICES ASSUME NEW j \in 1..n, NEW k \in 1..n, j < k PROVE OneAfterOther(s, c[j], c[k])
      OBVIOUS
    <2>1. End(s, c[j]) <= SetupStart(s, c[k])
      <3>1. s[c[k]] - SelectedSetup(m, c, k) >= End(s, c[j])
        BY <1>2, CircuitOrder
      <3>2. SetupStart(s, c[k]) \in Nat /\ End(s, c[j]) \in Nat
        BY <1>3, <1>6, ScheduleTypes, ShopTypes
      <3> QED BY <1>5, <3>1, <3>2
    <2>2. /\ s[c[j]] \in Nat /\ End(s, c[j]) \in Nat /\ s[c[j]] < End(s, c[j])
          /\ s[c[k]] \in Nat /\ SetupBefore(s, c[k]) \in Nat
      BY <1>3, <1>6, ScheduleTypes, ShopTypes
    <2> QED BY <2>1, <2>2 DEF OneAfterOther, SetupStart
  <1>8. InSequence(s, m)
    <2> SUFFICES ASSUME NEW t \in On(m), NEW u \in On(m), t # u
                 PROVE  OneAfterOther(s, t, u) \/ OneAfterOther(s, u, t)
      BY DEF InSequence
    <2>1. PICK j \in 1..n : t = c[j]
      BY <1>3
    <2>2. PICK k \in 1..n : u = c[k]
      BY <1>3
    <2>3. j < k \/ k < j
      BY <2>1, <2>2
    <2> QED BY <1>7, <2>1, <2>2, <2>3
  <1> QED BY <1>6, <1>8

\* The slots worked on a machine, circuit by circuit and task by task.
WorkOf(s, m) == Union(Works(s, m), On(m))

LEMMA BusyIsWork ==
    ASSUME NEW s, NEW m \in Machines, NEW n \in Nat, NEW c \in Bijection(1..n, On(m)),
           \A j \in 1..n : SetupBefore(s, c[j]) = SelectedSetup(m, c, j)
    PROVE  Busy(s, m, c) = WorkOf(s, m)
  <1>1. DOMAIN c = 1..n /\ (\A j \in 1..n : c[j] \in On(m)) /\ \A u \in On(m) : \E j \in 1..n : u = c[j]
    BY DEF Bijection, Injection, Surjection
  <1>2. \A j \in 1..n : (s[c[j]] - SelectedSetup(m, c, j))..(End(s, c[j]) - 1) = WorkSlots(s, c[j])
    BY DEF WorkSlots, SetupStart
  <1>3. Busy(s, m, c) = UNION {WorkSlots(s, c[j]) : j \in 1..n}
    BY <1>1, <1>2 DEF Busy
  <1>4. {WorkSlots(s, c[j]) : j \in 1..n} = {WorkSlots(s, t) : t \in On(m)}
    BY <1>1
  <1>5. {WorkSlots(s, t) : t \in On(m)} = {Works(s, m)[t] : t \in On(m)}
    BY DEF Works
  <1> QED BY <1>3, <1>4, <1>5 DEF Union, WorkOf

LEMMA MachineWork ==
    ASSUME NEW s \in Schedules, Physical(s), NEW m \in Machines
    PROVE  /\ InSequence(s, m) /\ KeepsCalendar(s, m)
           /\ \A t \in On(m) : SetupBefore(s, t) \in Nat /\ SetupStart(s, t) \in Nat
  <1>1. PICK c \in Circuits(m) : ArcsHold(s, m, c) /\ CalendarHolds(s, m, c)
    BY DEF Physical
  <1>2. PICK n \in Nat : n = Cardinality(On(m))
    BY ShopTypes
  <1>3. c \in Bijection(1..n, On(m)) /\ \A j \in 1..n : SetupBefore(s, c[j]) = SelectedSetup(m, c, j)
    BY <1>1, <1>2, CircuitOrder, CircuitSetups
  <1>4. Busy(s, m, c) = WorkOf(s, m)
    BY <1>3, BusyIsWork
  <1>5. KeepsCalendar(s, m)
    <2>1. \A t \in On(m) : WorkSlots(s, t) \subseteq Busy(s, m, c)
      BY <1>4 DEF Union, Works, WorkOf
    <2>2. PICK open \in SUBSET FirstWeekDays :
            Cardinality(open) <= MaxNights(m) /\ Busy(s, m, c) \cap Breaks(m, open) = {}
      BY <1>1 DEF CalendarHolds
    <2>3. Cardinality(Busy(s, m, c) \cap FirstNights(m)) <= OvertimeBudget[m]
      BY <1>1 DEF CalendarHolds, Charged, FirstNights
    <2>4. \A t \in On(m) : WorkSlots(s, t) \cap Breaks(m, open) = {}
      BY <2>1, <2>2
    <2> QED BY <1>4, <2>2, <2>3, <2>4 DEF KeepsCalendar, WorkOf
  <1> QED BY <1>1, <1>5, CircuitPlaces

\* All of Physical but the order of transfer sublots.
Placed(s) ==
    \A m \in Machines :
        InSequence(s, m) /\ \A t \in On(m) : SetupBefore(s, t) \in Nat /\ SetupStart(s, t) \in Nat
Sound(s) ==
    /\ Placed(s) /\ RouteHolds(s) /\ Undisturbed(s, PlannedStops)
    /\ \A m \in Machines : KeepsCalendar(s, m)

LEMMA PhysicalIsSound ==
    ASSUME NEW s \in Schedules, Physical(s)
    PROVE  Sound(s) /\ Placed(s) /\ RouteHolds(s)
  BY MachineWork DEF Physical, Sound, Placed

LEMMA PlacedMachine ==
    ASSUME NEW s \in Schedules, Placed(s), NEW m \in Machines
    PROVE  InSequence(s, m) /\ \A t \in On(m) : SetupBefore(s, t) \in Nat /\ SetupStart(s, t) \in Nat
  BY DEF Placed

LEMMA TaskWork ==
    ASSUME NEW s \in Schedules, Placed(s), NEW t \in Tasks
    PROVE  /\ s[t] \in Nat /\ End(s, t) \in Nat /\ s[t] < End(s, t)
           /\ SetupBefore(s, t) \in Nat /\ SetupStart(s, t) \in Nat
           /\ SetupStart(s, t) = s[t] - SetupBefore(s, t) /\ SetupStart(s, t) <= s[t]
           /\ IsFiniteSet(WorkSlots(s, t))
  <1>1. /\ s[t] \in Nat /\ End(s, t) \in Nat /\ s[t] < End(s, t)
        /\ SetupBefore(s, t) \in Nat /\ SetupStart(s, t) \in Nat
    BY ScheduleTypes, PlacedMachine, ShopTypes
  <1>2. IsFiniteSet(WorkSlots(s, t))
    BY <1>1, FS_Interval DEF WorkSlots
  <1> QED BY <1>1, <1>2 DEF SetupStart

LEMMA SameMachine ==
    ASSUME NEW s \in Schedules, Placed(s), NEW t \in Tasks, NEW u \in Tasks,
           t # u, Operation[t].machine = Operation[u].machine
    PROVE  OneAfterOther(s, t, u) \/ OneAfterOther(s, u, t)
  <1>1. PICK m \in Machines : t \in On(m) /\ u \in On(m)
    BY ShopTypes DEF On
  <1> QED BY <1>1, PlacedMachine DEF InSequence

-----------------------------------------------------------------------------
(* The audit of the rows of an admitted schedule.                          *)

\* The rows emitted for the schedule s.
ShowsPlan(new, s) ==
    \A t \in Tasks :
        /\ new[t].start = s[t] /\ new[t].end = End(s, t)
        /\ new[t].setup = SetupBefore(s, t) /\ new[t].setupStart = SetupStart(s, t)

\* Every operation waits for the release its lot's first operation waits for.
LEMMA ReleaseKept ==
    ASSUME NEW s \in Schedules, RouteHolds(s), NEW t \in Tasks
    PROVE  s[t] >= Operation[t].release
  <1> DEFINE lot == LotOf(Operation[t].lot)
             neg == {0 - Operation[u].seq : u \in lot}
  <1>1. IsFiniteSet(lot) /\ t \in lot /\ \A u \in lot : u \in Tasks /\ Operation[u].seq \in Int
    BY ShopTypes, FS_Subset DEF LotOf
  <1>2. IsFiniteSet(neg)
    <2>1. \E f : f = [u \in lot |-> 0 - Operation[u].seq]
      OBVIOUS
    <2> HIDE DEF lot
    <2>2. PICK f : f = [u \in lot |-> 0 - Operation[u].seq]
      OBVIOUS
    <2>3. f \in Surjection(lot, neg)
      BY <2>2 DEF Surjection
    <2> HIDE DEF neg
    <2> QED BY <1>1, <2>3, FS_Surjection
  <1>3. Max(neg) \in neg /\ \A y \in neg : Max(neg) >= y
    <2>1. neg \subseteq Int /\ neg # {}
      BY <1>1
    <2> HIDE DEF neg
    <2> QED BY <1>2, <2>1, MaxOfFinite
  <1>4. PICK u \in lot : \A v \in lot : Operation[u].seq <= Operation[v].seq
    <2>1. PICK u \in lot : Max(neg) = 0 - Operation[u].seq
      BY <1>3
    <2>2. \A v \in lot : Max(neg) >= 0 - Operation[v].seq
      BY <1>3
    <2> QED BY <1>1, <2>1, <2>2
  <1>5. u \in Tasks /\ Operation[u].lot = Operation[t].lot /\ Operation[u].release = Operation[t].release
    <2>1. u \in Tasks /\ Operation[u].lot = Operation[t].lot
      BY DEF LotOf
    <2> QED BY <2>1, ShopFloorAssumption
  <1>6. RouteHolds(s)
    OBVIOUS
  <1>7. s[u] >= Operation[u].release
    BY <1>4, <1>5, <1>6 DEF RouteHolds
  <1>8. CASE Operation[t].seq = Operation[u].seq
    BY <1>4, <1>6, <1>8 DEF RouteHolds
  <1>9. CASE Operation[t].seq # Operation[u].seq
    <2>1. Operation[u].seq < Operation[t].seq
      BY <1>1, <1>4, <1>9
    <2>2. s[t] >= End(s, u)
      BY <1>5, <1>6, <2>1 DEF RouteHolds
    <2>3. s[u] \in Nat /\ End(s, u) \in Nat /\ s[u] < End(s, u) /\ s[t] \in Nat /\ Operation[t].release \in Nat
      BY <1>5, ScheduleTypes, ShopTypes
    <2> QED BY <1>5, <1>7, <2>2, <2>3
  <1> QED BY <1>8, <1>9

LEMMA RowsInOrder ==
    ASSUME NEW s \in Schedules, Placed(s), RouteHolds(s), NEW new, ShowsPlan(new, s)
    PROVE  TimingValid(new) /\ OccupancyValid(new) /\ RoutesValid(new)
  <1>1. TimingValid(new)
    <2> SUFFICES ASSUME NEW t \in Tasks
                 PROVE  /\ new[t].start >= 0 /\ new[t].start >= Operation[t].release
                        /\ new[t].end - new[t].start = Operation[t].duration
                        /\ new[t].setup >= 0 /\ new[t].setupStart >= 0
                        /\ new[t].start - new[t].setupStart = new[t].setup
      BY DEF TimingValid
    <2>1. new[t].start = s[t] /\ new[t].end = End(s, t) /\ new[t].setup = SetupBefore(s, t)
            /\ new[t].setupStart = SetupStart(s, t)
      BY DEF ShowsPlan
    <2>2. s[t] >= Operation[t].release
      BY ReleaseKept
    <2>3. Operation[t].duration \in Nat /\ End(s, t) = s[t] + Operation[t].duration
      BY ShopTypes DEF End
    <2> QED BY <2>1, <2>2, <2>3, TaskWork
  <1>2. OccupancyValid(new)
    <2> SUFFICES ASSUME NEW t \in Tasks, NEW u \in Tasks, t # u, Operation[t].machine = Operation[u].machine,
                        ~OccupiesEarlier(new[u], new[t])
                 PROVE  new[u].setupStart >= new[t].end
      BY DEF OccupancyValid
    <2>1. new[u].setupStart = SetupStart(s, u) /\ new[t].setupStart = SetupStart(s, t) /\ new[t].end = End(s, t)
      BY DEF ShowsPlan
    <2>2. /\ SetupStart(s, u) \in Nat /\ SetupStart(s, t) \in Nat /\ End(s, t) \in Nat /\ End(s, u) \in Nat
          /\ SetupStart(s, u) < End(s, u)
      BY TaskWork
    <2>3. ~(SetupStart(s, u) < SetupStart(s, t))
      BY <2>1 DEF OccupiesEarlier
    <2>4. End(s, t) <= SetupStart(s, u) \/ End(s, u) <= SetupStart(s, t)
      BY SameMachine DEF OneAfterOther
    <2> QED BY <2>1, <2>2, <2>3, <2>4
  <1>3. RoutesValid(new)
    <2> SUFFICES ASSUME NEW t \in Tasks, NEW u \in Tasks, Operation[t].lot = Operation[u].lot,
                        Operation[t].seq < Operation[u].seq
                 PROVE  new[u].start >= new[t].end
      BY DEF RoutesValid, Follows
    <2>1. s[u] >= End(s, t)
      BY DEF RouteHolds
    <2> QED BY <2>1 DEF ShowsPlan
  <1> QED BY <1>1, <1>2, <1>3

\* The audit finds the task before each in its own order of the rows.
LEMMA SetupsShown ==
    ASSUME NEW s \in Schedules, Placed(s), NEW new, ShowsPlan(new, s)
    PROVE  SetupsValid(new)
  <1> SUFFICES ASSUME NEW t \in Tasks, NEW m, m = Operation[t].machine,
                      NEW earlier, earlier = {u \in On(m) : new[u].start < new[t].start}
               PROVE  new[t].setup = SetupTime(m,
                        IF earlier = {} THEN InitialProduct[m]
                        ELSE Operation[CHOOSE u \in earlier :
                                         \A v \in earlier : new[v].start <= new[u].start].product,
                        Operation[t].product)
    BY DEF SetupsValid
  <1>1. \A u \in On(m) : new[u].start = s[u] /\ u \in Tasks /\ s[u] \in Nat
    BY ShopTypes, ScheduleTypes DEF ShowsPlan
  <1>2. earlier = {u \in On(m) : s[u] < s[t]}
    BY <1>1, ShopTypes
  <1>3. \A u, v \in earlier : u # v => s[u] # s[v]
    <2> SUFFICES ASSUME NEW u \in earlier, NEW v \in earlier, u # v, s[u] = s[v] PROVE FALSE
      OBVIOUS
    <2>1. s[u] < s[v] \/ s[v] < s[u]
      BY <1>2, SameMachine DEF OneAfterOther, On
    <2> QED BY <1>1, <1>2, <2>1
  <1>4. CASE earlier = {}
    BY <1>2, <1>4 DEF ShowsPlan, SetupBefore, LastProduct
  <1>5. CASE earlier # {}
    <2>1. PICK w \in earlier : \A v \in earlier : s[v] <= s[w]
      <3> DEFINE starts == {s[u] : u \in earlier}
      <3>1. starts # {} /\ starts \subseteq 0..Horizon
        BY <1>2, <1>5, ScheduleTypes, ShopTypes
      <3>2. Max(starts) \in starts /\ \A y \in starts : Max(starts) >= y
        <4> HIDE DEF starts
        <4> QED BY <3>1, ShopTypes, Greatest
      <3>3. PICK w \in earlier : s[w] = Max(starts)
        BY <3>2
      <3>4. \A v \in earlier : s[w] >= s[v]
        BY <3>2, <3>3
      <3>5. \A v \in earlier : s[v] \in Nat
        BY <1>1, <1>2
      <3> QED BY <3>4, <3>5
    <2>2. \A u \in earlier : (\A v \in earlier : s[v] <= s[u]) => u = w
      <3> SUFFICES ASSUME NEW u \in earlier, \A v \in earlier : s[v] <= s[u] PROVE u = w
        OBVIOUS
      <3>1. s[u] <= s[w] /\ s[w] <= s[u] /\ s[u] \in Nat /\ s[w] \in Nat
        BY <1>1, <1>2, <2>1
      <3> QED BY <1>3, <3>1
    <2>3. (CHOOSE u \in earlier : \A v \in earlier : s[v] <= s[u]) = w
      BY <2>1, <2>2
    <2>4. (CHOOSE u \in earlier : \A v \in earlier : new[v].start <= new[u].start) = w
      <3>1. \A u \in earlier : new[u].start = s[u]
        BY <1>1, <1>2
      <3> QED BY <2>1, <2>2, <3>1
    <2>5. LastProduct(s, t) = Operation[w].product
      BY <1>2, <1>5, <2>3 DEF LastProduct
    <2> QED BY <1>5, <2>4, <2>5 DEF ShowsPlan, SetupBefore
  <1> QED BY <1>4, <1>5

-----------------------------------------------------------------------------
(* The calendar.                                                           *)

LEMMA ProductOrder ==
    ASSUME NEW a \in Int, NEW b \in Int, a < b, NEW k \in Nat
    PROVE  a * k + k <= b * k
  <1>1. PICK c \in Nat : b = a + 1 + c
    <2>1. b - a - 1 \in Nat /\ b = a + 1 + (b - a - 1)
      OBVIOUS
    <2> QED BY <2>1
  <1>2. b * k = a * k + k + c * k /\ c * k >= 0 /\ c * k \in Int /\ a * k \in Int
    BY <1>1
  <1> QED BY <1>2

\* A slot belongs to one day.
LEMMA DayOfSlot ==
    ASSUME NEW d \in Nat, NEW x \in Nat
    PROVE  x \in DaySlots(d) <=> x \div DayLength = d
  <1>1. PICK k \in Nat, e \in Nat, r \in Nat, p \in Nat, q \in Nat :
            /\ k = DayLength /\ e = x \div DayLength /\ r < k /\ p = e * k /\ q = d * k /\ x = p + r
    <2>1. DayLength \in Nat /\ d * DayLength \in Nat
      BY ShopTypes
    <2>2. PICK e \in Nat, r \in Nat : e = x \div DayLength /\ r < DayLength /\ x = DayLength * e + r
      <3>1. /\ x \div DayLength \in Int /\ x % DayLength \in 0..(DayLength - 1)
            /\ x = DayLength * (x \div DayLength) + (x % DayLength) /\ x \div DayLength >= 0
        <4>1. DayLength \in Nat \ {0} /\ x \in Int /\ x >= 0
          BY ShopTypes
        <4> QED BY <4>1, Division
      <3>2. x \div DayLength \in Nat /\ x % DayLength \in Nat /\ x % DayLength < DayLength
        BY <2>1, <3>1
      <3> QED BY <3>1, <3>2
    <2>3. DayLength * e = e * DayLength /\ e * DayLength \in Nat
      BY <2>1
    <2> QED BY <2>1, <2>2, <2>3
  <1>2. DaySlots(d) = q..(q + k - 1)
    BY <1>1 DEF DaySlots
  <1>3. e < d => p + k <= q
    BY <1>1, ProductOrder
  <1>4. d < e => q + k <= p
    BY <1>1, ProductOrder
  <1>5. e = d => p = q
    BY <1>1
  <1> QED BY <1>1, <1>2, <1>3, <1>4, <1>5

LEMMA NightOfDay ==
    ASSUME NEW m \in Machines, NEW d \in Nat
    PROVE  /\ NightSlots(m, d) \subseteq DaySlots(d) /\ DaySlots(d) \subseteq Nat
           /\ \A x \in Nat : x \in NightSlots(m, d) <=> x \div DayLength = d /\ NightPart(m, x)
  <1>1. PICK k \in Nat, q \in Nat, n \in Nat : k = DayLength /\ q = d * k /\ n = Night[m] /\ n < k
    <2>1. DayLength \in Nat /\ d * DayLength \in Nat /\ Night[m] \in Nat /\ Night[m] < DayLength
      BY ShopTypes
    <2> QED BY <2>1
  <1>2. NightSlots(m, d) = q..(q + n - 1) /\ DaySlots(d) = q..(q + k - 1)
    BY <1>1 DEF NightSlots, DaySlots
  <1>3. ASSUME NEW x \in Nat, x \div DayLength = d
        PROVE  x \in NightSlots(m, d) <=> NightPart(m, x)
    <2>1. x = k * d + (x % DayLength) /\ x % DayLength \in Nat
      <3>1. DayLength \in Nat \ {0} /\ x \in Int
        BY ShopTypes
      <3>2. x = DayLength * (x \div DayLength) + (x % DayLength) /\ x % DayLength \in 0..(DayLength - 1)
        BY <3>1, Division
      <3>3. x % DayLength \in Nat
        BY <1>1, <3>2
      <3>4. x = DayLength * d + (x % DayLength)
        BY <1>3, <3>2
      <3> QED BY <1>1, <3>3, <3>4
    <2>2. k * d = q
      BY <1>1
    <2>3. PICK r \in Nat : r = x % DayLength /\ x = q + r
      BY <2>1, <2>2
    <2>4. NightPart(m, x) <=> r < n
      BY <1>1, <2>3 DEF NightPart
    <2>5. x \in q..(q + n - 1) <=> r < n
      BY <1>1, <2>3
    <2> QED BY <1>2, <2>4, <2>5
  <1>4. NightSlots(m, d) \subseteq DaySlots(d) /\ DaySlots(d) \subseteq Nat
    BY <1>1, <1>2
  <1>5. \A x \in Nat : x \in NightSlots(m, d) => x \div DayLength = d
    BY <1>4, DayOfSlot
  <1> QED BY <1>3, <1>4, <1>5

\* Nights are worked in the days opened for it, all of them in the first week;
\* closed days are not worked at all.
LEMMA OpenDays ==
    ASSUME NEW s, NEW m \in Machines, NEW t \in On(m), NEW open \in SUBSET FirstWeekDays,
           WorkSlots(s, t) \cap Breaks(m, open) = {}, NEW d \in Days
    PROVE  /\ Closed(d) => WorkSlots(s, t) \cap DaySlots(d) = {}
           /\ WorkSlots(s, t) \cap NightSlots(m, d) # {} => d \in open
  <1>1. d \in Nat
    BY DEF Days
  <1>2. Closed(d) => DaySlots(d) \subseteq Breaks(m, open)
    BY DEF Breaks
  <1>3. ~Closed(d) /\ d \notin open => NightSlots(m, d) \subseteq Breaks(m, open)
    <2>1. ~Closed(d) /\ d \notin open => d \in {e \in Days : ~Closed(e)} \ open
      OBVIOUS
    <2>2. d \in {e \in Days : ~Closed(e)} \ open => \A x \in NightSlots(m, d) : x \in Breaks(m, open)
      BY DEF Breaks
    <2> QED BY <2>1, <2>2
  <1>4. Closed(d) => WorkSlots(s, t) \cap DaySlots(d) = {}
    BY <1>2
  <1> QED BY <1>1, <1>3, <1>4, NightOfDay

LEMMA OverlapShown ==
    ASSUME NEW s \in Schedules, Placed(s), NEW t \in Tasks, NEW row,
           row.setupStart = SetupStart(s, t), row.end = End(s, t), NEW from \in Int, NEW to \in Int
    PROVE  /\ Overlap(row, from, to) = Cardinality(WorkSlots(s, t) \cap (from..(to - 1)))
           /\ IsFiniteSet(WorkSlots(s, t) \cap (from..(to - 1)))
           /\ Overlap(row, from, to) \in Nat
  <1>1. PICK a \in Int, b \in Int : a = SetupStart(s, t) /\ b = End(s, t)
    BY TaskWork
  <1>2. WorkSlots(s, t) = a..(b - 1)
    BY <1>1 DEF WorkSlots
  <1>5. Overlap(row, from, to) = InCommon(a, b, from, to)
    <2>1. PICK left \in Int : left = Max({a, from})
      BY <1>1, Larger
    <2>2. PICK right \in Int : right = Min({b, to})
      BY <1>1, Larger
    <2>3. PICK gap \in Int : gap = right - left
      OBVIOUS
    <2>4. Max({0, gap}) = IF 0 >= gap THEN 0 ELSE gap
      BY Larger
    <2>5. Overlap(row, from, to) = IF right > left THEN right - left ELSE 0
      BY <1>1, <2>1, <2>2 DEF Overlap
    <2>6. InCommon(a, b, from, to) = Max({0, gap})
      BY <2>1, <2>2, <2>3 DEF InCommon
    <2> QED BY <2>3, <2>4, <2>5, <2>6
  <1>6. /\ IsFiniteSet((a..(b - 1)) \cap (from..(to - 1)))
        /\ Cardinality((a..(b - 1)) \cap (from..(to - 1))) = InCommon(a, b, from, to)
        /\ InCommon(a, b, from, to) \in Nat
    BY <1>1, CommonSlots
  <1> QED BY <1>2, <1>5, <1>6

\* The minutes the audit finds in a day, and in its night.
DayRead(new, s, m, t, d) ==
    /\ InDay(new[t], d) = Cardinality(WorkSlots(s, t) \cap DaySlots(d))
    /\ InNight(new[t], m, d) = Cardinality(WorkSlots(s, t) \cap NightSlots(m, d))
    /\ IsFiniteSet(WorkSlots(s, t) \cap NightSlots(m, d))
    /\ InNight(new[t], m, d) \in Nat

LEMMA DayShown ==
    ASSUME NEW s \in Schedules, Placed(s), NEW new, ShowsPlan(new, s), NEW m \in Machines
    PROVE  \A t \in On(m) : \A d \in Days : DayRead(new, s, m, t, d)
  <1> SUFFICES ASSUME NEW t \in On(m), NEW d \in Days PROVE DayRead(new, s, m, t, d)
    OBVIOUS
  <1>1. t \in Tasks /\ new[t].setupStart = SetupStart(s, t) /\ new[t].end = End(s, t)
    BY ShopTypes DEF ShowsPlan
  <1>2. PICK from \in Int, to \in Int, last \in Int :
            from = d * DayLength /\ to = (d + 1) * DayLength /\ last = from + DayLength /\ to = last
    <2>1. d \in Int /\ DayLength \in Int
      BY ShopTypes DEF Days
    <2>2. d * DayLength \in Int /\ (d + 1) * DayLength = d * DayLength + DayLength
      BY <2>1
    <2> QED BY <2>1, <2>2
  <1>3. PICK night \in Int : night = from + Night[m]
    BY <1>2, ShopTypes
  <1>4. DaySlots(d) = from..(to - 1) /\ NightSlots(m, d) = from..(night - 1)
    <2>1. DaySlots(d) = from..(from + DayLength - 1) /\ NightSlots(m, d) = from..(from + Night[m] - 1)
      BY <1>2 DEF DaySlots, NightSlots
    <2>2. from + DayLength - 1 = to - 1 /\ from + Night[m] - 1 = night - 1
      BY <1>2, <1>3, ShopTypes
    <2> QED BY <2>1, <2>2
  <1>5. InDay(new[t], d) = Overlap(new[t], from, to) /\ InNight(new[t], m, d) = Overlap(new[t], from, night)
    BY <1>2, <1>3 DEF InDay, InNight
  <1>6. /\ Overlap(new[t], from, to) = Cardinality(WorkSlots(s, t) \cap (from..(to - 1)))
        /\ Overlap(new[t], from, night) = Cardinality(WorkSlots(s, t) \cap (from..(night - 1)))
        /\ IsFiniteSet(WorkSlots(s, t) \cap (from..(night - 1))) /\ Overlap(new[t], from, night) \in Nat
    <2>1. Overlap(new[t], from, to) = Cardinality(WorkSlots(s, t) \cap (from..(to - 1)))
      BY <1>1, OverlapShown
    <2>2. /\ Overlap(new[t], from, night) = Cardinality(WorkSlots(s, t) \cap (from..(night - 1)))
          /\ IsFiniteSet(WorkSlots(s, t) \cap (from..(night - 1))) /\ Overlap(new[t], from, night) \in Nat
      BY <1>1, OverlapShown
    <2> QED BY <2>1, <2>2
  <1> QED BY <1>4, <1>5, <1>6 DEF DayRead

LEMMA WorkApart ==
    ASSUME NEW s \in Schedules, Placed(s), NEW m \in Machines
    PROVE  \A t, u \in On(m) : t # u => WorkSlots(s, t) \cap WorkSlots(s, u) = {}
  <1> SUFFICES ASSUME NEW t \in On(m), NEW u \in On(m), t # u, NEW x \in WorkSlots(s, t), x \in WorkSlots(s, u)
               PROVE  FALSE
    OBVIOUS
  <1>1. PICK a \in Int, b \in Int, c \in Int, d \in Int :
            a = SetupStart(s, t) /\ b = End(s, t) /\ c = SetupStart(s, u) /\ d = End(s, u)
    BY TaskWork, ShopTypes
  <1>2. x \in a..(b - 1) /\ x \in c..(d - 1)
    BY <1>1 DEF WorkSlots
  <1>3. b <= c \/ d <= a
    BY <1>1, PlacedMachine DEF InSequence, OneAfterOther
  <1> QED BY <1>1, <1>2, <1>3

LEMMA WorkFinite ==
    ASSUME NEW s \in Schedules, Placed(s), NEW m \in Machines
    PROVE  IsFiniteSet(Union(Works(s, m), On(m)))
  <1>1. Sizes([t \in On(m) |-> Cardinality(WorkSlots(s, t))], Works(s, m), On(m))
    BY TaskWork, ShopTypes DEF Sizes, Works
  <1>2. Apart(Works(s, m), On(m))
    BY WorkApart DEF Apart, Works
  <1>3. IsFiniteSet(On(m))
    BY ShopTypes
  <1> QED BY <1>1, <1>2, <1>3, SumOfSizes

LEMMA DaysFinite == IsFiniteSet(Days) /\ Days \subseteq Nat
  <1>1. Horizon \div DayLength \in Int
    <2>1. DayLength \in Nat \ {0} /\ Horizon \in Int
      BY ShopTypes
    <2> QED BY <2>1, Division
  <1> QED BY <1>1, FS_Interval DEF Days

\* The nights of some days.
NightsIn(m, N) == UNION {NightSlots(m, d) : d \in N}

\* Minutes in nights, counted night by night and interval by interval, are the
\* slots of the intervals in the nights, if the intervals share none.
CountsNights(g, F, m, N, S) ==
    \A x \in S : \A d \in N : g[x][d] = Cardinality(F[x] \cap NightSlots(m, d))
FiniteEach(F, S) == \A x \in S : IsFiniteSet(F[x])

LEMMA NightMinutes ==
    ASSUME NEW m \in Machines, NEW N \in SUBSET Days, NEW S, IsFiniteSet(S), NEW F, Apart(F, S),
           FiniteEach(F, S), NEW g, CountsNights(g, F, m, N, S)
    PROVE  SumFunction([x \in S |-> SumFunction([d \in N |-> g[x][d]])])
                = Cardinality(Union(F, S) \cap NightsIn(m, N))
  <1>1. PICK G : G = [x \in S |-> F[x] \cap NightsIn(m, N)]
    OBVIOUS
  <1>2. PICK h : h = [x \in S |-> SumFunction([d \in N |-> g[x][d]])]
    OBVIOUS
  <1>3. ASSUME NEW x \in S
        PROVE  IsFiniteSet(G[x]) /\ h[x] = Cardinality(G[x])
    <2>1. PICK H : H = [d \in N |-> F[x] \cap NightSlots(m, d)]
      OBVIOUS
    <2>2. IsFiniteSet(N)
      BY DaysFinite, FS_Subset
    <2>3. Sizes(g[x], H, N)
      <3> SUFFICES ASSUME NEW d \in N PROVE IsFiniteSet(H[d]) /\ g[x][d] = Cardinality(H[d])
        BY DEF Sizes
      <3>1. H[d] = F[x] \cap NightSlots(m, d) /\ IsFiniteSet(F[x])
        BY <2>1 DEF FiniteEach
      <3>2. IsFiniteSet(H[d])
        BY <3>1, FS_Subset
      <3> QED BY <3>1, <3>2 DEF CountsNights
    <2>4. Apart(H, N)
      <3> SUFFICES ASSUME NEW d \in N, NEW e \in N, d # e, NEW y, y \in H[d], y \in H[e] PROVE FALSE
        BY DEF Apart
      <3>1. d \in Nat /\ e \in Nat
        BY DaysFinite
      <3>2. y \in NightSlots(m, d) /\ y \in NightSlots(m, e)
        BY <2>1
      <3>3. y \in Nat /\ y \div DayLength = d /\ y \div DayLength = e
        BY <3>1, <3>2, NightOfDay
      <3> QED BY <3>3
    <2>5. IsFiniteSet(Union(H, N)) /\ Total(g[x], N) = Cardinality(Union(H, N))
      BY <2>2, <2>3, <2>4, SumOfSizes
    <2>6. Union(H, N) = G[x]
      <3>1. \A y : y \in Union(H, N) <=> y \in G[x]
        BY <1>1, <2>1 DEF Union, NightsIn
      <3> QED BY <3>1
    <2>7. IntegersOn(g[x], N)
      BY <2>3, FS_CardinalityType DEF Sizes, IntegersOn
    <2>8. h[x] = Total(g[x], N)
      BY <1>2, <2>2, <2>7, SumOverSet
    <2> QED BY <2>5, <2>6, <2>8
  <1>4. Sizes(h, G, S) /\ IntegersOn(h, S)
    BY <1>3, FS_CardinalityType DEF Sizes, IntegersOn
  <1>5. Apart(G, S)
    BY <1>1 DEF Apart
  <1>6. Total(h, S) = Cardinality(Union(G, S))
    BY <1>4, <1>5, SumOfSizes
  <1>7. Union(G, S) = Union(F, S) \cap NightsIn(m, N)
    <2>1. \A y : y \in Union(G, S) <=> y \in Union(F, S) /\ y \in NightsIn(m, N)
      BY <1>1 DEF Union
    <2> QED BY <2>1
  <1>8. SumFunction([x \in S |-> h[x]]) = Total(h, S)
    BY <1>4, SumOverSet
  <1>9. [x \in S |-> h[x]] = h
    BY <1>2
  <1> QED BY <1>2, <1>6, <1>7, <1>8, <1>9

\* What the audits ask of the slots W worked on a machine: no closed day, nights of
\* the first week only, no more of them nor longer than authorised.
WorkedNights(m, W) == {d \in Days : W \cap NightSlots(m, d) # {}}
CalendarKept(m, W) ==
    /\ \A d \in Days : Closed(d) => W \cap DaySlots(d) = {}
    /\ \A d \in WorkedNights(m, W) : FirstWeek(d)
    /\ Cardinality(WorkedNights(m, W)) <= MaxNights(m)
    /\ Cardinality(W \cap NightsIn(m, Days)) <= OvertimeBudget[m]

\* It is what the model asks: the nights worked are those to open.
LEMMA NightsToOpen ==
    ASSUME NEW m \in Machines, NEW W, \A d \in Days : Closed(d) => W \cap DaySlots(d) = {},
           \A d \in WorkedNights(m, W) : FirstWeek(d)
    PROVE  /\ WorkedNights(m, W) \in SUBSET FirstWeekDays
           /\ W \cap Breaks(m, WorkedNights(m, W)) = {}
           /\ W \cap NightsIn(m, Days) = W \cap FirstNights(m)
  <1>1. ASSUME NEW d \in WorkedNights(m, W) PROVE d \in FirstWeekDays
    <2>1. d \in Days /\ d \in Nat /\ W \cap NightSlots(m, d) # {}
      BY DaysFinite DEF WorkedNights
    <2>2. NightSlots(m, d) \subseteq DaySlots(d)
      BY <2>1, NightOfDay
    <2>3. ~Closed(d)
      BY <2>1, <2>2
    <2> QED BY <2>1, <2>3 DEF FirstWeekDays
  <1>2. ASSUME NEW x \in W PROVE x \notin Breaks(m, WorkedNights(m, W))
    BY DEF Breaks, WorkedNights
  <1>3. ASSUME NEW x \in W, NEW d \in Days, x \in NightSlots(m, d) PROVE x \in FirstNights(m)
    <2>1. d \in FirstWeekDays
      BY <1>1, <1>3 DEF WorkedNights
    <2> QED BY <1>3, <2>1 DEF FirstNights
  <1>4. FirstNights(m) \subseteq NightsIn(m, Days)
    BY DEF FirstNights, NightsIn, FirstWeekDays
  <1>5. \A x \in W : x \in NightsIn(m, Days) => x \in FirstNights(m)
    BY <1>3 DEF NightsIn
  <1> QED BY <1>1, <1>2, <1>4, <1>5

LEMMA WorkInNights ==
    ASSUME NEW s, NEW m \in Machines, NEW N
    PROVE  /\ WorkOf(s, m) \cap N = {} <=> \A t \in On(m) : WorkSlots(s, t) \cap N = {}
           /\ \A x : x \in WorkOf(s, m) <=> \E t \in On(m) : x \in WorkSlots(s, t)
  <1>1. \A x : x \in WorkOf(s, m) <=> \E t \in On(m) : x \in WorkSlots(s, t)
    BY DEF WorkOf, Union, Works
  <1> QED BY <1>1

LEMMA MaxNightsType ==
    ASSUME NEW m \in Machines
    PROVE  MaxNights(m) \in Int
  <1>1. Night[m] \in Nat /\ OvertimeBudget[m] \in Nat
    BY ShopTypes
  <1>2. CASE Night[m] = 0
    BY <1>2 DEF MaxNights
  <1>3. CASE Night[m] # 0
    <2>1. OvertimeBudget[m] + Night[m] - 1 \in Int /\ Night[m] \in Nat \ {0}
      BY <1>1, <1>3
    <2>2. (OvertimeBudget[m] + Night[m] - 1) \div Night[m] \in Int
      BY <2>1, Division
    <2> QED BY <1>3, <2>2 DEF MaxNights
  <1> QED BY <1>2, <1>3

LEMMA CalendarIsKept ==
    ASSUME NEW s \in Schedules, NEW m \in Machines
    PROVE  KeepsCalendar(s, m) <=> CalendarKept(m, WorkOf(s, m))
  <1>1. PICK W : W = WorkOf(s, m)
    OBVIOUS
  <1>2. \A N : W \cap N = {} <=> \A t \in On(m) : WorkSlots(s, t) \cap N = {}
    BY <1>1, WorkInNights
  <1>3. ASSUME CalendarKept(m, W) PROVE KeepsCalendar(s, m)
    <2>1. PICK open : open = WorkedNights(m, W)
      OBVIOUS
    <2>2. open \in SUBSET FirstWeekDays /\ W \cap Breaks(m, open) = {}
      BY <1>3, <2>1, NightsToOpen DEF CalendarKept
    <2>3. W \cap NightsIn(m, Days) = W \cap FirstNights(m)
      BY <1>3, NightsToOpen DEF CalendarKept
    <2>4. Cardinality(open) <= MaxNights(m)
      BY <1>3, <2>1 DEF CalendarKept
    <2>5. \A t \in On(m) : WorkSlots(s, t) \cap Breaks(m, open) = {}
      BY <1>2, <2>2
    <2>6. Cardinality(W \cap FirstNights(m)) <= OvertimeBudget[m]
      BY <1>3, <2>3 DEF CalendarKept
    <2> QED BY <1>1, <2>2, <2>4, <2>5, <2>6 DEF KeepsCalendar, WorkOf
  <1>4. ASSUME KeepsCalendar(s, m) PROVE CalendarKept(m, W)
    <2>1. PICK open \in SUBSET FirstWeekDays :
            /\ Cardinality(open) <= MaxNights(m)
            /\ \A t \in On(m) : WorkSlots(s, t) \cap Breaks(m, open) = {}
      BY <1>4 DEF KeepsCalendar
    <2>2. ASSUME NEW d \in Days, Closed(d) PROVE W \cap DaySlots(d) = {}
      <3>1. \A t \in On(m) : WorkSlots(s, t) \cap DaySlots(d) = {}
        BY <2>1, <2>2, OpenDays
      <3> QED BY <1>2, <3>1
    <2>3. ASSUME NEW d \in WorkedNights(m, W) PROVE d \in open
      <3>1. d \in Days /\ W \cap NightSlots(m, d) # {}
        BY DEF WorkedNights
      <3>2. PICK t \in On(m) : WorkSlots(s, t) \cap NightSlots(m, d) # {}
        BY <1>2, <3>1
      <3> QED BY <2>1, <3>1, <3>2, OpenDays
    <2>4. \A d \in WorkedNights(m, W) : FirstWeek(d)
      BY <2>3 DEF FirstWeekDays
    <2>5. Cardinality(WorkedNights(m, W)) <= MaxNights(m)
      <3>1. IsFiniteSet(open)
        <4>1. open \subseteq Days
          BY DEF FirstWeekDays
        <4> QED BY <4>1, DaysFinite, FS_Subset
      <3>2. WorkedNights(m, W) \subseteq open
        BY <2>3
      <3>3. /\ Cardinality(WorkedNights(m, W)) <= Cardinality(open)
            /\ Cardinality(WorkedNights(m, W)) \in Nat /\ Cardinality(open) \in Nat
        BY <3>1, <3>2, FS_Subset, FS_CardinalityType
      <3>4. PICK i \in Int, j \in Int, k \in Int :
                i = Cardinality(WorkedNights(m, W)) /\ j = Cardinality(open) /\ k = MaxNights(m)
        BY <3>3, MaxNightsType
      <3>5. i <= j /\ j <= k
        BY <2>1, <3>3, <3>4
      <3> QED BY <3>4, <3>5
    <2>6. W \cap NightsIn(m, Days) = W \cap FirstNights(m)
      BY <2>2, <2>4, NightsToOpen
    <2>7. Cardinality(W \cap FirstNights(m)) <= OvertimeBudget[m]
      BY <1>1, <1>4 DEF KeepsCalendar, WorkOf
    <2> QED BY <2>2, <2>4, <2>5, <2>6, <2>7 DEF CalendarKept
  <1> QED BY <1>1, <1>3, <1>4

\* The audit reads its calendar off the rows.
LEMMA CalendarRead ==
    ASSUME NEW s \in Schedules, Placed(s), NEW new, ShowsPlan(new, s)
    PROVE  CalendarValid(new) <=> \A m \in Machines : CalendarKept(m, WorkOf(s, m))
  <1> SUFFICES ASSUME NEW m \in Machines,
                      NEW worked, worked = {d \in Days : \E t \in On(m) : InNight(new[t], m, d) > 0},
                      NEW used, used = SumFunction([t \in On(m) |->
                                            SumFunction([d \in Days |-> InNight(new[t], m, d)])])
               PROVE  /\ \A d \in Days : (\A t \in On(m) : InDay(new[t], d) = 0)
                                            <=> WorkOf(s, m) \cap DaySlots(d) = {}
                      /\ worked = WorkedNights(m, WorkOf(s, m))
                      /\ used = Cardinality(WorkOf(s, m) \cap NightsIn(m, Days))
    BY DEF CalendarValid, CalendarKept
  <1>1. \A t \in On(m) : \A d \in Days : DayRead(new, s, m, t, d)
    BY DayShown
  <1>2. \A t \in On(m) : t \in Tasks /\ IsFiniteSet(WorkSlots(s, t))
    BY TaskWork, ShopTypes
  <1>3. ASSUME NEW d \in Days
        PROVE  (\A t \in On(m) : InDay(new[t], d) = 0) <=> WorkOf(s, m) \cap DaySlots(d) = {}
    <2>1. ASSUME NEW t \in On(m) PROVE InDay(new[t], d) = 0 <=> WorkSlots(s, t) \cap DaySlots(d) = {}
      <3>1. InDay(new[t], d) = Cardinality(WorkSlots(s, t) \cap DaySlots(d))
        BY <1>1 DEF DayRead
      <3>2. IsFiniteSet(WorkSlots(s, t) \cap DaySlots(d))
        BY <1>2, FS_Subset
      <3> QED BY <3>1, <3>2, FS_EmptySet
    <2> QED BY <2>1, WorkInNights
  <1>4. ASSUME NEW d \in Days
        PROVE  (\E t \in On(m) : InNight(new[t], m, d) > 0) <=> WorkOf(s, m) \cap NightSlots(m, d) # {}
    <2>1. ASSUME NEW t \in On(m) PROVE InNight(new[t], m, d) > 0 <=> WorkSlots(s, t) \cap NightSlots(m, d) # {}
      <3>1. /\ InNight(new[t], m, d) = Cardinality(WorkSlots(s, t) \cap NightSlots(m, d))
            /\ IsFiniteSet(WorkSlots(s, t) \cap NightSlots(m, d)) /\ InNight(new[t], m, d) \in Nat
        BY <1>1 DEF DayRead
      <3>2. InNight(new[t], m, d) > 0 <=> InNight(new[t], m, d) # 0
        BY <3>1
      <3> QED BY <3>1, <3>2, FS_EmptySet
    <2> QED BY <2>1, WorkInNights
  <1>5. worked = WorkedNights(m, WorkOf(s, m))
    BY <1>4 DEF WorkedNights
  <1>6. used = Cardinality(WorkOf(s, m) \cap NightsIn(m, Days))
    <2>1. PICK g : g = [t \in On(m) |-> [d \in Days |-> InNight(new[t], m, d)]]
      OBVIOUS
    <2>2. CountsNights(g, Works(s, m), m, Days, On(m))
      <3> SUFFICES ASSUME NEW t \in On(m), NEW d \in Days
                   PROVE  g[t][d] = Cardinality(Works(s, m)[t] \cap NightSlots(m, d))
        BY DEF CountsNights
      <3>1. g[t][d] = InNight(new[t], m, d)
        BY <2>1
      <3>2. Works(s, m)[t] = WorkSlots(s, t)
        BY DEF Works
      <3> QED BY <1>1, <3>1, <3>2 DEF DayRead
    <2>3. Apart(Works(s, m), On(m)) /\ FiniteEach(Works(s, m), On(m)) /\ IsFiniteSet(On(m))
      <3>1. Apart(Works(s, m), On(m))
        BY WorkApart DEF Apart, Works
      <3>2. FiniteEach(Works(s, m), On(m))
        BY <1>2 DEF FiniteEach, Works
      <3> QED BY <3>1, <3>2, ShopTypes
    <2>4. SumFunction([t \in On(m) |-> SumFunction([d \in Days |-> g[t][d]])])
            = Cardinality(Union(Works(s, m), On(m)) \cap NightsIn(m, Days))
      BY <2>2, <2>3, NightMinutes
    <2>5. \A t \in On(m) : [d \in Days |-> g[t][d]] = [d \in Days |-> InNight(new[t], m, d)]
      BY <2>1
    <2>6. [t \in On(m) |-> SumFunction([d \in Days |-> g[t][d]])]
            = [t \in On(m) |-> SumFunction([d \in Days |-> InNight(new[t], m, d)])]
      BY <2>5
    <2> QED BY <2>4, <2>6 DEF WorkOf
  <1> QED BY <1>3, <1>5, <1>6

LEMMA CalendarShown ==
    ASSUME NEW s \in Schedules, Sound(s), NEW new, ShowsPlan(new, s)
    PROVE  CalendarValid(new)
  <1>1. Placed(s) /\ \A m \in Machines : CalendarKept(m, WorkOf(s, m))
    BY CalendarIsKept DEF Sound
  <1> QED BY <1>1, CalendarRead

LEMMA TabulatedIsIt == ASSUME NEW f PROVE Tabulated(f) = f
  BY DEF Tabulated

\* The audit of the candidate alone accepts every admitted schedule.
LEMMA SoundPassesAudit ==
    ASSUME NEW s \in Schedules, Sound(s), NEW new, ShowsPlan(new, s)
    PROVE  PhysicsValid(new)
  BY RowsInOrder, SetupsShown, CalendarShown DEF PhysicsValid, Sound

LEMMA AdmittedIsAudited ==
    ASSUME NEW s \in PhysicalSchedules
    PROVE  s \in AuditedSchedules /\ s \in Schedules /\ Physical(s) /\ ShowsPlan(PhysicalRows(s), s)
  <1>1. s \in Schedules /\ Physical(s)
    BY DEF PhysicalSchedules
  <1>2. PhysicalRows(s) = [t \in Tasks |-> PhysicalRow(s, t)]
    BY TabulatedIsIt DEF PhysicalRows
  <1>3. ShowsPlan(PhysicalRows(s), s)
    BY <1>2 DEF ShowsPlan, PhysicalRow
  <1>4. PhysicsValid(PhysicalRows(s))
    BY <1>1, <1>3, SoundPassesAudit, PhysicalIsSound
  <1>5. PICK r : r = [schedule |-> s, rows |-> PhysicalRows(s)]
    OBVIOUS
  <1>6. r \in AllRows /\ r.schedule = s /\ PhysicsValid(r.rows)
    BY <1>1, <1>4, <1>5 DEF AllRows
  <1>7. s \in AuditedSchedules
    BY <1>6 DEF AuditedSchedules
  <1> QED BY <1>1, <1>3, <1>7

-----------------------------------------------------------------------------
(* validate_pipeline_run's own reading of the same rows.                   *)

LEMMA SlotInDays ==
    ASSUME NEW x \in Nat, x <= Horizon
    PROVE  x \div DayLength \in Days /\ x \in DaySlots(x \div DayLength)
  <1>1. DayLength \in Nat \ {0} /\ Horizon \in Nat
    BY ShopTypes
  <1>2. PICK k \in Nat : k = DayLength
    BY <1>1
  <1>3. PICK d \in Nat : d = x \div DayLength
    BY <1>1, Division
  <1>4. PICK e \in Nat : e = Horizon \div DayLength
    BY <1>1, Division
  <1>5. x = k * d + (x % DayLength) /\ x % DayLength \in 0..(k - 1)
    BY <1>1, <1>2, <1>3, Division
  <1>6. Horizon = k * e + (Horizon % DayLength) /\ Horizon % DayLength \in 0..(k - 1)
    BY <1>1, <1>2, <1>4, Division
  <1>7. d <= e
    <2>1. SUFFICES ASSUME e < d PROVE FALSE
      OBVIOUS
    <2>2. e * k + k <= d * k
      BY <2>1, ProductOrder
    <2>3. PICK p \in Nat, q \in Nat : p = d * k /\ q = e * k
      OBVIOUS
    <2>4. PICK i \in 0..(k - 1) : i = x % DayLength
      BY <1>5
    <2>5. PICK j \in 0..(k - 1) : j = Horizon % DayLength
      BY <1>6
    <2>6. k * d = p /\ k * e = q
      BY <2>3
    <2>7. x = p + i /\ Horizon = q + j /\ q + k <= p
      BY <1>5, <1>6, <2>2, <2>3, <2>4, <2>5, <2>6
    <2> QED BY <2>4, <2>5, <2>7
  <1>8. x \in DaySlots(d)
    BY <1>3, DayOfSlot
  <1> QED BY <1>3, <1>4, <1>7, <1>8 DEF Days

\* Work in a night is in an opened one.
LEMMA NightOpened ==
    ASSUME NEW s \in Schedules, Physical(s), NEW m \in Machines, NEW t \in On(m),
           NEW open \in SUBSET FirstWeekDays, WorkSlots(s, t) \cap Breaks(m, open) = {},
           NEW x \in WorkSlots(s, t), NightPart(m, x)
    PROVE  /\ x \in Nat /\ x <= Horizon
           /\ x \div DayLength \in open /\ x \in NightSlots(m, x \div DayLength)
  <1>1. PICK a \in Nat, b \in Nat : a = SetupStart(s, t) /\ b = End(s, t) /\ b <= Horizon
    BY TaskWork, PhysicalIsSound, ShopTypes, ScheduleTypes
  <1>2. x \in Nat /\ x <= Horizon
    <2>1. x \in a..(b - 1) /\ Horizon \in Nat
      BY <1>1, ShopTypes DEF WorkSlots
    <2> QED BY <1>1, <2>1
  <1>3. PICK d \in Nat : d = x \div DayLength /\ d \in Days
    BY <1>2, SlotInDays DEF Days
  <1>4. x \in NightSlots(m, d)
    BY <1>2, <1>3, NightOfDay
  <1>5. d \in open
    <2>1. WorkSlots(s, t) \cap NightSlots(m, d) # {}
      BY <1>4
    <2> QED BY <1>3, <2>1, OpenDays
  <1> QED BY <1>2, <1>3, <1>4, <1>5

\* The overtime columns of a row count the night slots of its work.
NightWork(s, t) == {x \in WorkSlots(s, t) : NightPart(Operation[t].machine, x)}

LEMMA BookedNights ==
    ASSUME NEW s \in Schedules, Physical(s), NEW t \in Tasks
    PROVE  IsFiniteSet(NightWork(s, t)) /\ BookedOvertime(s, t) = Cardinality(NightWork(s, t))
  <1> DEFINE A == {x \in s[t]..(End(s, t) - 1) : NightPart(Operation[t].machine, x)}
             B == {x \in SetupStart(s, t)..(s[t] - 1) : NightPart(Operation[t].machine, x)}
  <1>1. PICK a \in Int, b \in Int, c \in Int :
            a = SetupStart(s, t) /\ b = s[t] /\ c = End(s, t) /\ a <= b /\ b < c
    BY TaskWork, PhysicalIsSound
  <1>2. IsFiniteSet(A) /\ IsFiniteSet(B)
    <2>1. IsFiniteSet(b..(c - 1)) /\ IsFiniteSet(a..(b - 1))
      BY FS_Interval
    <2>2. A \subseteq b..(c - 1) /\ B \subseteq a..(b - 1)
      BY <1>1
    <2> HIDE DEF A, B
    <2> QED BY <2>1, <2>2, FS_Subset
  <1>3. A \cup B = NightWork(s, t) /\ A \cap B = {}
    <2>1. \A x : x \in a..(c - 1) <=> x \in b..(c - 1) \/ x \in a..(b - 1)
      BY <1>1
    <2>2. \A x : ~(x \in b..(c - 1) /\ x \in a..(b - 1))
      OBVIOUS
    <2> QED BY <1>1, <2>1, <2>2 DEF NightWork, WorkSlots
  <1>4. BookedOvertime(s, t) = Cardinality(A) + Cardinality(B)
    BY DEF BookedOvertime, ProductionOvertime, SetupOvertime
  <1> HIDE DEF A, B
  <1>5. /\ IsFiniteSet(A \cup B)
        /\ Cardinality(A \cup B) = Cardinality(A) + Cardinality(B) - Cardinality(A \cap B)
    BY <1>2, FS_Union
  <1>6. Cardinality(A \cap B) = 0 /\ Cardinality(A) \in Nat /\ Cardinality(B) \in Nat
    BY <1>2, <1>3, FS_EmptySet, FS_CardinalityType
  <1>7. Cardinality(A \cup B) = Cardinality(A) + Cardinality(B)
    BY <1>5, <1>6
  <1> QED BY <1>3, <1>4, <1>5, <1>7

\* What starts in a later week cannot reach back over the closed day into a
\* night of the first.
LEMMA LaterWeeksByDay ==
    ASSUME NEW s \in Schedules, Physical(s), NEW m \in Machines, NEW t \in On(m), ~InFirstWeek(s, t)
    PROVE  NightWork(s, t) = {}
  <1> SUFFICES ASSUME NEW x \in WorkSlots(s, t), NightPart(m, x) PROVE FALSE
    BY DEF NightWork, On
  <1>1. PICK open \in SUBSET FirstWeekDays : WorkSlots(s, t) \cap Breaks(m, open) = {}
    BY MachineWork DEF KeepsCalendar
  <1>2. /\ x \in Nat /\ x <= Horizon
        /\ x \div DayLength \in open /\ x \in NightSlots(m, x \div DayLength)
    BY <1>1, NightOpened
  <1>3. PICK k \in Nat \ {0}, w \in Nat \ {0, 1} : k = DayLength /\ w = WeekLength
    BY ShopTypes
  <1>4. PICK d \in Nat : d = x \div DayLength /\ d \in FirstWeekDays /\ x \in DaySlots(d)
    BY <1>2, SlotInDays DEF Days, FirstWeekDays
  <1>5. d < w - 1
    <2>1. d \div w = 0 /\ d % w # w - 1
      BY <1>3, <1>4 DEF FirstWeekDays, FirstWeek, Closed
    <2>2. d = w * (d \div w) + (d % w) /\ d % w \in 0..(w - 1)
      BY Division
    <2>3. w * (d \div w) = 0
      BY <2>1
    <2> QED BY <2>1, <2>2, <2>3
  <1>6. PICK a \in Nat, b \in Nat, c \in Nat :
            a = SetupStart(s, t) /\ b = s[t] /\ c = End(s, t) /\ a <= b /\ b < c /\ c <= Horizon
    BY TaskWork, PhysicalIsSound, ShopTypes, ScheduleTypes
  <1>7. PICK e \in Nat : e = b \div DayLength /\ b \in DaySlots(e) /\ e \div w # 0
    <2>1. Horizon \in Nat
      BY ShopTypes
    <2>2. b <= Horizon
      BY <1>6, <2>1
    <2>3. b \div DayLength \in Nat /\ b \in DaySlots(b \div DayLength)
      BY <2>2, SlotInDays DEF Days
    <2> QED BY <1>3, <1>6, <2>3 DEF InFirstWeek, FirstWeek
  <1>8. w - 1 < e
    <2>1. e = w * (e \div w) + (e % w) /\ e % w \in 0..(w - 1) /\ e \div w \in Int /\ e \div w >= 0
      <3>1. w \in Nat \ {0} /\ e \in Int /\ e >= 0
        BY <1>3, <1>7
      <3> QED BY <3>1, Division
    <2>2. PICK f \in Nat \ {0} : f = e \div w
      BY <1>7, <2>1
    <2>3. PICK g \in Nat : f = g + 1
      <3>1. f - 1 \in Nat /\ f = (f - 1) + 1
        OBVIOUS
      <3> QED BY <3>1
    <2>4. w * f = w * g + w /\ w * g >= 0 /\ w * g \in Int
      BY <2>3
    <2> QED BY <2>1, <2>2, <2>4
  <1>9. PICK y \in Nat, p \in Nat, q \in Nat : y = (w - 1) * k /\ p = d * k /\ q = e * k
    <2>1. w - 1 \in Nat
      OBVIOUS
    <2> QED BY <2>1
  <1>10. p + k <= y /\ y + k <= q
    <2>1. w - 1 \in Int
      OBVIOUS
    <2> QED BY <1>5, <1>8, <1>9, <2>1, ProductOrder
  <1>11. x \in p..(p + k - 1) /\ b \in q..(q + k - 1)
    BY <1>3, <1>4, <1>7, <1>9 DEF DaySlots
  <1>12. y \in WorkSlots(s, t)
    <2>1. x \in a..(c - 1) /\ WorkSlots(s, t) = a..(c - 1)
      BY <1>6 DEF WorkSlots
    <2> QED BY <1>6, <1>10, <1>11, <2>1
  <1>13. w - 1 \in Days /\ y \in DaySlots(w - 1)
    <2>1. y \in DaySlots(w - 1)
      <3>1. y \in y..(y + k - 1)
        OBVIOUS
      <3> QED BY <1>3, <1>9, <3>1 DEF DaySlots
    <2>2. y \div DayLength = w - 1
      <3>1. w - 1 \in Nat
        OBVIOUS
      <3> QED BY <2>1, <3>1, DayOfSlot
    <2>3. y <= Horizon
      BY <1>6, <1>10, <1>11, ShopTypes
    <2>4. y \div DayLength \in Days
      BY <2>3, SlotInDays
    <2> QED BY <2>1, <2>2, <2>4
  <1>14. Closed(w - 1)
    <2>1. (w - 1) % w = w - 1
      OBVIOUS
    <2> QED BY <1>3, <2>1 DEF Closed
  <1>15. WorkSlots(s, t) \cap DaySlots(w - 1) = {}
    BY <1>1, <1>13, <1>14, OpenDays
  <1> QED BY <1>12, <1>13, <1>15

LEMMA OvertimeShown ==
    ASSUME NEW s \in Schedules, Physical(s)
    PROVE  OvertimeAuthorised(s)
  <1> SUFFICES ASSUME NEW m \in Machines
               PROVE  /\ SumFunction([t \in {t \in On(m) : InFirstWeek(s, t)} |-> BookedOvertime(s, t)])
                            <= OvertimeBudget[m]
                      /\ \A t \in On(m) : ~InFirstWeek(s, t) => BookedOvertime(s, t) = 0
    BY DEF OvertimeAuthorised
  <1>1. PICK open \in SUBSET FirstWeekDays : \A t \in On(m) : WorkSlots(s, t) \cap Breaks(m, open) = {}
    BY MachineWork DEF KeepsCalendar
  <1>2. \A t \in On(m) : t \in Tasks /\ Operation[t].machine = m
    BY DEF On
  <1>3. \A t \in On(m) : ~InFirstWeek(s, t) => BookedOvertime(s, t) = 0
    BY <1>2, BookedNights, LaterWeeksByDay, FS_EmptySet
  <1> DEFINE S == {t \in On(m) : InFirstWeek(s, t)}
             booked == [t \in S |-> BookedOvertime(s, t)]
             nights == [t \in S |-> NightWork(s, t)]
  <1>4. IsFiniteSet(S)
    BY ShopTypes, FS_Subset
  <1>5. Sizes(booked, nights, S) /\ DOMAIN booked = S
    BY <1>2, BookedNights DEF Sizes
  <1>6. Apart(nights, S)
    <2>1. \A t \in S : nights[t] \subseteq WorkSlots(s, t)
      BY DEF NightWork
    <2>2. \A t, u \in S : t # u => WorkSlots(s, t) \cap WorkSlots(s, u) = {}
      BY WorkApart, PhysicalIsSound
    <2> HIDE DEF nights, S
    <2> QED BY <2>1, <2>2 DEF Apart
  <1>7. Union(nights, S) \subseteq Union(Works(s, m), On(m)) \cap FirstNights(m)
    <2> SUFFICES ASSUME NEW t \in S, NEW x \in NightWork(s, t)
                 PROVE  x \in Union(Works(s, m), On(m)) /\ x \in FirstNights(m)
      BY DEF Union
    <2>1. t \in On(m) /\ x \in WorkSlots(s, t) /\ NightPart(m, x)
      BY <1>2 DEF NightWork
    <2>2. x \in NightSlots(m, x \div DayLength) /\ x \div DayLength \in FirstWeekDays
      BY <1>1, <2>1, NightOpened
    <2>3. x \in FirstNights(m)
      BY <2>2 DEF FirstNights
    <2> QED BY <2>1, <2>3 DEF Union, Works
  <1> HIDE DEF booked, nights, S
  <1>8. \A t \in S : booked[t] \in Int
    BY <1>5, FS_CardinalityType DEF Sizes
  <1>9. SumFunction(booked) = Total(booked, S)
    BY <1>4, <1>5, <1>8, SumIsTotal
  <1>10. Total(booked, S) = Cardinality(Union(nights, S))
    BY <1>4, <1>5, <1>6, SumOfSizes
  <1>11. PICK X : X = Union(Works(s, m), On(m)) \cap FirstNights(m)
    OBVIOUS
  <1>12. IsFiniteSet(X) /\ Cardinality(X) \in Nat
    BY <1>11, WorkFinite, PhysicalIsSound, FS_Subset, FS_CardinalityType
  <1>13. Cardinality(Union(nights, S)) <= Cardinality(X) /\ Cardinality(Union(nights, S)) \in Nat
    BY <1>7, <1>11, <1>12, FS_Subset, FS_CardinalityType
  <1>14. Cardinality(X) <= OvertimeBudget[m] /\ OvertimeBudget[m] \in Nat
    BY <1>11, MachineWork, ShopTypes DEF KeepsCalendar
  <1>15. SumFunction(booked) <= OvertimeBudget[m]
    BY <1>9, <1>10, <1>12, <1>13, <1>14
  <1> QED BY <1>3, <1>15 DEF booked, S

LEMMA LatestEndPositive ==
    ASSUME NEW s \in Schedules
    PROVE  Makespan(s) \in Nat \ {0} /\ Makespan(s) <= Horizon /\ \A t \in Tasks : End(s, t) <= Makespan(s)
  <1> DEFINE E == {End(s, t) : t \in Tasks}
  <1>1. \A t \in Tasks : End(s, t) \in Nat /\ End(s, t) <= Horizon /\ End(s, t) > 0
    BY ScheduleTypes
  <1>2. E \subseteq 0..Horizon /\ E # {}
    BY <1>1, ShopTypes
  <1>3. Max(E) \in E /\ \A y \in E : Max(E) >= y
    <2> HIDE DEF E
    <2> QED BY <1>2, ShopTypes, Greatest
  <1>4. PICK t \in Tasks : Makespan(s) = End(s, t)
    BY <1>3 DEF Makespan
  <1>5. \A u \in Tasks : Makespan(s) >= End(s, u)
    BY <1>3 DEF Makespan
  <1> QED BY <1>1, <1>4, <1>5

LEMMA AdmittedIsGated ==
    ASSUME NEW s \in PhysicalSchedules
    PROVE  s \in GatedPlans
  <1>1. s \in Schedules /\ Physical(s)
    BY DEF PhysicalSchedules
  <1>2. RowsApart(s)
    <2> SUFFICES ASSUME NEW t \in Tasks, NEW u \in Tasks, t # u,
                        Operation[t].machine = Operation[u].machine, s[t] <= s[u]
                 PROVE  s[u] >= End(s, t)
      BY DEF RowsApart
    <2>1. s[t] \in Nat /\ s[u] \in Nat /\ End(s, t) \in Nat /\ SetupStart(s, u) \in Nat /\ SetupStart(s, u) <= s[u]
      BY <1>1, TaskWork, PhysicalIsSound
    <2>2. End(s, t) <= SetupStart(s, u)
      <3>1. t # u /\ ~(s[u] < s[t])
        BY <2>1
      <3> QED BY <1>1, <3>1, SameMachine, PhysicalIsSound DEF OneAfterOther
    <2> QED BY <2>1, <2>2
  <1>3. MetadataValid(s)
    BY <1>1, LatestEndPositive DEF MetadataValid, ScheduleKpis
  <1>4. GatePasses(s)
    BY <1>1, <1>2, <1>3, OvertimeShown DEF GatePasses
  <1> QED BY <1>4 DEF GatedPlans

-----------------------------------------------------------------------------
(* What a proven optimum is the optimum of.                                *)

LEMMA LotEnds ==
    ASSUME NEW t \in Tasks
    PROVE  /\ LotOf(Operation[t].lot) \subseteq Tasks /\ IsFiniteSet(LotOf(Operation[t].lot))
           /\ t \in LotOf(Operation[t].lot)
           /\ \E u \in LotOf(Operation[t].lot) :
                \A v \in LotOf(Operation[t].lot) : Operation[u].seq <= Operation[v].seq
           /\ \E u \in LotOf(Operation[t].lot) :
                \A v \in LotOf(Operation[t].lot) : Operation[v].seq <= Operation[u].seq
  <1>1. PICK lot : lot = LotOf(Operation[t].lot)
    OBVIOUS
  <1>2. lot \subseteq Tasks /\ t \in lot
    BY <1>1 DEF LotOf
  <1>3. IsFiniteSet(lot)
    BY <1>2, ShopTypes, FS_Subset
  <1>4. PICK g : g = [u \in lot |-> Operation[u].seq]
    OBVIOUS
  <1>5. \A u \in lot : g[u] \in Int
    BY <1>2, <1>4, ShopTypes
  <1>6. /\ \E u \in lot : \A v \in lot : g[u] <= g[v]
        /\ \E u \in lot : \A v \in lot : g[u] >= g[v]
    BY <1>2, <1>3, <1>5, FirstAndLast
  <1>7. /\ \E u \in lot : \A v \in lot : Operation[u].seq <= Operation[v].seq
        /\ \E u \in lot : \A v \in lot : Operation[v].seq <= Operation[u].seq
    BY <1>4, <1>5, <1>6
  <1> QED BY <1>1, <1>2, <1>3, <1>7

LEMMA TardinessTypes ==
    ASSUME NEW s \in Schedules
    PROVE  WeightedTardiness(s) \in Nat
  <1>1. IsFiniteSet(Lots)
    <2>1. PICK g : g = [t \in Tasks |-> Operation[t].lot]
      OBVIOUS
    <2>2. IsFiniteSet({g[t] : t \in Tasks})
      BY ShopTypes, FiniteImage
    <2>3. {g[t] : t \in Tasks} = Lots
      BY <2>1 DEF Lots
    <2> QED BY <2>2, <2>3
  <1>2. ASSUME NEW l \in Lots PROVE TardinessTerm(s, l) \in Nat
    <2>1. PICK t \in Tasks : l = Operation[t].lot
      BY DEF Lots
    <2>2. PICK last \in Tasks : last = LastOf(l)
      <3>1. LastOf(l) \in LotOf(l)
        BY <2>1, LotEnds DEF LastOf
      <3> QED BY <2>1, <3>1, LotEnds
    <2>3. PICK late \in Int : late = End(s, last) - Operation[last].due
      BY ScheduleTypes, EconomicsAssumption
    <2>4. Max({0, late}) \in Nat
      BY <2>3, Larger
    <2>5. Operation[last].weight \in Nat
      BY EconomicsAssumption
    <2>6. PICK w \in Nat, x \in Nat : w = Operation[last].weight /\ x = Max({0, late})
      BY <2>4, <2>5
    <2>7. TardinessTerm(s, l) = w * x
      BY <2>2, <2>3, <2>6 DEF TardinessTerm
    <2> QED BY <2>6, <2>7
  <1>3. PICK g : g = [l \in Lots |-> TardinessTerm(s, l)]
    OBVIOUS
  <1>4. DOMAIN g = Lots /\ \A l \in Lots : g[l] \in Nat /\ g[l] \in Int
    BY <1>2, <1>3
  <1>5. SumFunction(g) = Total(g, Lots) /\ Total(g, Lots) \in Nat
    BY <1>1, <1>4, SumIsTotal, TotalNatural
  <1> QED BY <1>3, <1>5 DEF WeightedTardiness

LEMMA ServiceTable ==
    ASSUME NEW s \in PhysicalSchedules
    PROVE  Service[s] \in Nat
  <1>1. Service = [r \in PhysicalSchedules |-> WeightedTardiness(r)]
    BY TabulatedIsIt DEF Service
  <1>2. s \in Schedules
    BY DEF PhysicalSchedules
  <1> QED BY <1>1, <1>2, TardinessTypes

\* The schedules no worse than one of the best are the best.
LEMMA BoundIsBest ==
    ASSUME NEW S \in SUBSET PhysicalSchedules, NEW q \in Minimal(S, Service)
    PROVE  {s \in S : Service[s] <= Service[q]} = Minimal(S, Service)
  <1>1. PICK values : values = {Service[s] : s \in S}
    OBVIOUS
  <1>2. q \in S /\ Service[q] = Min(values)
    BY <1>1 DEF Minimal
  <1>3. values \subseteq Nat /\ values # {}
    BY <1>1, <1>2, ServiceTable
  <1>4. \A y \in values : Min(values) <= y
    BY <1>3, SmallestOf
  <1>5. \A s \in S : Service[q] <= Service[s] /\ Service[s] \in Nat
    BY <1>1, <1>2, <1>4, ServiceTable
  <1>6. \A s \in S : Service[s] <= Service[q] <=> Service[s] = Min(values)
    BY <1>2, <1>5
  <1> QED BY <1>1, <1>6 DEF Minimal

LEMMA SolvedOptimal ==
    ASSUME NEW S, NEW objective, NEW r \in Solve(S, objective)
    PROVE  /\ r.schedule \in S
           /\ r.status = "OPTIMAL" => r.schedule \in Minimal(S, objective)
  <1>1. Minimal(S, objective) \subseteq S
    BY DEF Minimal
  <1> QED BY <1>1 DEF Solve

LEMMA OptimalIsBest ==
    ASSUME NEW S \in SUBSET PhysicalSchedules, NEW policy, NEW hierarchical,
           NEW r \in Answers(policy, hierarchical, S)
    PROVE  /\ r.schedule \in S
           /\ r.status = "OPTIMAL" => r.schedule \in Best(policy, hierarchical, S)
  <1>1. CASE ~hierarchical
    <2>1. r \in Solve(S, Composite[policy])
      BY <1>1 DEF Answers
    <2> QED BY <1>1, <2>1, SolvedOptimal DEF Best
  <1>2. CASE hierarchical
    <2>1. PICK q \in Solve(S, Service) :
            \E p \in Solve({s \in S : Service[s] <= Service[q.schedule]}, Efficiency[policy]) :
                r = [p EXCEPT !.status = FinalStatus(q.status, @)]
      BY <1>2 DEF Answers, Lexicographic
    <2>2. PICK T : T = {s \in S : Service[s] <= Service[q.schedule]}
      OBVIOUS
    <2>3. PICK p \in Solve(T, Efficiency[policy]) : r = [p EXCEPT !.status = FinalStatus(q.status, @)]
      BY <2>1, <2>2
    <2>4. p.schedule \in T /\ (p.status = "OPTIMAL" => p.schedule \in Minimal(T, Efficiency[policy]))
      BY <2>3, SolvedOptimal
    <2>5. r.schedule = p.schedule /\ r.status = FinalStatus(q.status, p.status)
      BY <2>3 DEF Solve
    <2>6. r.schedule \in S
      BY <2>2, <2>4, <2>5
    <2>7. ASSUME r.status = "OPTIMAL" PROVE r.schedule \in Best(policy, hierarchical, S)
      <3>1. p.status = "OPTIMAL" /\ q.status = "OPTIMAL"
        BY <2>5, <2>7 DEF FinalStatus
      <3>2. q.schedule \in Minimal(S, Service)
        BY <2>1, <3>1, SolvedOptimal
      <3>3. T = Minimal(S, Service)
        BY <2>2, <3>2, BoundIsBest
      <3> QED BY <1>2, <2>4, <2>5, <3>1, <3>3 DEF Best
    <2> QED BY <2>6, <2>7
  <1> QED BY <1>1, <1>2

-----------------------------------------------------------------------------
(* What the event makes of the ACTIVE schedule, and the audit of what the  *)
(* solver answers.                                                         *)

TypedStops(W) == \A w \in W : w.from \in Nat /\ w.to \in Nat /\ w.from < w.to

\* The state a version leaves: an admitted plan, inside its own context.
OwnContext ==
    /\ start \in PhysicalSchedules
    /\ frozen \subseteq Tasks /\ reported \subseteq Tasks
    /\ TypedStops(stops) /\ declared \subseteq stops /\ Undisturbed(start, stops)
    /\ DOMAIN windows \subseteq Tasks
    /\ \A t \in DOMAIN windows :
        /\ windows[t].lower \in Int /\ windows[t].upper \in Int
        /\ windows[t].lower <= start[t] /\ start[t] <= windows[t].upper
    /\ earliest \in Nat /\ \A t \in Tasks \ frozen : start[t] >= earliest

LEMMA TriggerTypes ==
    ASSUME NEW e \in Triggers
    PROVE  /\ e.now \in Nat /\ e.freeze \in Nat /\ e.flexible \in Nat /\ e.shift \in Nat /\ e.delay \in Nat
           /\ Cutoff(e) = e.now + e.freeze /\ FlexibleLimit(e) = e.now + e.freeze + e.flexible
  BY ReschedulingAssumption DEF Cutoff, FlexibleLimit

LEMMA StartTypes ==
    ASSUME start \in PhysicalSchedules
    PROVE  /\ start \in Schedules /\ Physical(start)
           /\ \A t \in Tasks : start[t] \in Nat /\ End(start, t) \in Nat /\ End(start, t) <= Horizon
  BY ScheduleTypes DEF PhysicalSchedules

LEMMA FrozenTypes ==
    ASSUME OwnContext, NEW e \in Triggers
    PROVE  /\ FrozenBy(e) \subseteq Tasks
           /\ \A t \in Tasks \ FrozenBy(e) :
                start[t] >= e.now + e.freeze /\ start[t] > e.now /\ t \notin reported /\ t \notin frozen
  <1>1. FrozenBy(e) \subseteq Tasks
    BY DEF FrozenBy, OwnContext
  <1>2. ASSUME NEW t \in Tasks \ FrozenBy(e)
        PROVE  start[t] >= e.now + e.freeze /\ start[t] > e.now /\ t \notin reported /\ t \notin frozen
    <2>1. ~(start[t] < e.now + e.freeze) /\ ~(start[t] <= e.now) /\ t \notin reported /\ t \notin frozen
      BY DEF FrozenBy
    <2>2. start[t] \in Nat /\ e.now \in Nat /\ e.freeze \in Nat
      BY StartTypes, TriggerTypes DEF OwnContext
    <2> QED BY <2>1, <2>2
  <1> QED BY <1>1, <1>2

LEMMA WindowTypes ==
    ASSUME OwnContext, NEW e \in Triggers, NEW t \in DOMAIN FlexibleWindows(e)
    PROVE  /\ t \in Tasks /\ t \notin FrozenBy(e) /\ start[t] < FlexibleLimit(e)
           /\ FlexibleWindows(e)[t].upper = start[t] + e.shift
           /\ FlexibleWindows(e)[t].lower
                = IF e.now > start[t] - e.shift THEN e.now ELSE start[t] - e.shift
           /\ FlexibleWindows(e)[t].lower \in Int /\ FlexibleWindows(e)[t].upper \in Int
           /\ FlexibleWindows(e)[t].lower <= start[t] /\ start[t] <= FlexibleWindows(e)[t].upper
  <1>1. t \in Tasks /\ t \notin FrozenBy(e) /\ start[t] < e.now + e.freeze + e.flexible
    BY DEF FlexibleWindows
  <1>2. /\ FlexibleWindows(e)[t].lower = Max({e.now, start[t] - e.shift})
        /\ FlexibleWindows(e)[t].upper = start[t] + e.shift
    BY DEF FlexibleWindows
  <1>3. PICK now \in Nat, x \in Nat, shift \in Nat : now = e.now /\ x = start[t] /\ shift = e.shift /\ x > now
    BY <1>1, StartTypes, TriggerTypes, FrozenTypes DEF OwnContext
  <1>4. PICK low \in Int : low = x - shift
    OBVIOUS
  <1>5. Max({now, low}) = IF now >= low THEN now ELSE low
    BY Larger
  <1>6. FlexibleWindows(e)[t].lower = IF now > low THEN now ELSE low
    BY <1>2, <1>3, <1>4, <1>5
  <1>7. start[t] < FlexibleLimit(e)
    BY <1>1, TriggerTypes
  <1> QED BY <1>1, <1>2, <1>3, <1>4, <1>6, <1>7

LEMMA OutageTypes ==
    ASSUME OwnContext, NEW e \in Triggers
    PROVE  /\ TypedStops(OutageWindows(e)) /\ Outage(e) \subseteq OutageWindows(e)
           /\ stops \subseteq OutageWindows(e)
           /\ OutageFrom(e) \in Nat
           /\ \A t \in FrozenBy(e) \cap On(e.machine) : End(start, t) <= OutageFrom(e)
  <1>1. /\ OutageFrom(e) \in Nat
        /\ \A t \in FrozenBy(e) \cap On(e.machine) : End(start, t) <= OutageFrom(e)
    <2> DEFINE E == {e.now} \cup {End(start, t) : t \in FrozenBy(e) \cap On(e.machine)}
    <2>1. e.now \in Nat /\ Horizon \in Nat /\ e.now + Horizon \in Nat
      BY TriggerTypes, ShopTypes
    <2>2. \A t \in FrozenBy(e) : End(start, t) \in Nat /\ End(start, t) <= Horizon
      BY FrozenTypes, StartTypes DEF OwnContext
    <2>3. E \subseteq 0..(e.now + Horizon) /\ E # {}
      <3>1. e.now \in 0..(e.now + Horizon)
        BY <2>1
      <3>2. \A t \in FrozenBy(e) : End(start, t) \in 0..(e.now + Horizon)
        BY <2>1, <2>2
      <3> QED BY <3>1, <3>2
    <2>4. Max(E) \in E /\ \A y \in E : Max(E) >= y
      <3> HIDE DEF E
      <3> QED BY <2>1, <2>3, Greatest
    <2>5. OutageFrom(e) = Max(E)
      BY DEF OutageFrom
    <2>6. OutageFrom(e) \in 0..(e.now + Horizon)
      BY <2>3, <2>4, <2>5
    <2>7. \A t \in FrozenBy(e) \cap On(e.machine) : End(start, t) <= OutageFrom(e)
      <3> SUFFICES ASSUME NEW t \in FrozenBy(e) \cap On(e.machine) PROVE End(start, t) <= OutageFrom(e)
        OBVIOUS
      <3>1. End(start, t) \in E /\ End(start, t) \in Int
        BY <2>2
      <3>2. OutageFrom(e) >= End(start, t)
        BY <2>4, <2>5, <3>1
      <3> QED BY <2>1, <2>6, <3>1, <3>2
    <2> QED BY <2>1, <2>6, <2>7
  <1>2. TypedStops(Outage(e))
    <2> SUFFICES ASSUME NEW w \in Outage(e) PROVE w.from \in Nat /\ w.to \in Nat /\ w.from < w.to
      BY DEF TypedStops
    <2>1. e.delay > 0 /\ w = [machine |-> e.machine, from |-> OutageFrom(e), to |-> OutageFrom(e) + e.delay]
      BY DEF Outage, Delayed
    <2>2. w.from = OutageFrom(e) /\ w.to = OutageFrom(e) + e.delay
      BY <2>1
    <2> QED BY <1>1, <2>1, <2>2, TriggerTypes
  <1> QED BY <1>1, <1>2 DEF OwnContext, TypedStops, OutageWindows, Inherited

\* Windows without a slot of work are windows no row reaches into.
LEMMA StopsClear ==
    ASSUME NEW s \in Schedules, Placed(s), Undisturbed(s, PlannedStops), NEW new, ShowsPlan(new, s),
           NEW W, TypedStops(W), Undisturbed(s, W)
    PROVE  StopsValid(new, W)
  <1> SUFFICES ASSUME NEW w \in PlannedStops \cup W, NEW t \in On(w.machine),
                      new[t].setupStart < w.to, w.from < new[t].end
               PROVE  FALSE
    BY DEF StopsValid
  <1>1. t \in Tasks
    BY ShopTypes
  <1>2. PICK a \in Nat, b \in Nat : a = SetupStart(s, t) /\ b = End(s, t) /\ a < b
    <2>1. SetupStart(s, t) < End(s, t)
      BY <1>1, TaskWork
    <2> QED BY <1>1, <2>1, TaskWork
  <1>3. PICK from \in Nat, to \in Nat : from = w.from /\ to = w.to /\ from < to
    BY ShopFloorAssumption DEF TypedStops
  <1>4. a < to /\ from < b
    BY <1>1, <1>2, <1>3 DEF ShowsPlan
  <1>5. WorkSlots(s, t) \cap (w.from..(w.to - 1)) = {}
    BY <1>1 DEF Undisturbed
  <1>6. (a..(b - 1)) \cap (from..(to - 1)) = {}
    BY <1>2, <1>3, <1>5 DEF WorkSlots
  <1>7. CASE a <= from
    <2>1. from \in a..(b - 1) /\ from \in from..(to - 1)
      BY <1>3, <1>4, <1>7
    <2> QED BY <1>6, <2>1
  <1>8. CASE from < a
    <2>1. a \in a..(b - 1) /\ a \in from..(to - 1)
      BY <1>2, <1>4, <1>8
    <2> QED BY <1>6, <2>1
  <1> QED BY <1>7, <1>8

LEMMA StopsShown ==
    ASSUME NEW s \in PhysicalSchedules, NEW new, ShowsPlan(new, s),
           NEW W, TypedStops(W), Undisturbed(s, W)
    PROVE  StopsValid(new, W)
  <1>1. s \in Schedules /\ Placed(s) /\ Undisturbed(s, PlannedStops)
    BY PhysicalIsSound DEF PhysicalSchedules, Physical
  <1> QED BY <1>1, StopsClear

\* A candidate that keeps the frozen tasks, the windows and the outages.
KeepsEvent(e, s) ==
    /\ \A t \in FrozenBy(e) : s[t] = start[t]
    /\ \A t \in DOMAIN FlexibleWindows(e) :
        FlexibleWindows(e)[t].lower <= s[t] /\ s[t] <= FlexibleWindows(e)[t].upper
    /\ Undisturbed(s, OutageWindows(e))

LEMMA FullRows ==
    ASSUME NEW s, NEW e, NEW t \in Tasks
    PROVE  /\ Rows(e, s)[t].start = s[t] /\ Rows(e, s)[t].end = End(s, t)
           /\ Rows(e, s)[t].setup = SetupBefore(s, t) /\ Rows(e, s)[t].setupStart = SetupStart(s, t)
           /\ Rows(e, s)[t].state = StateOf(e, t)
           /\ Rows(e, s)[t].freezeUntil = IF t \in FrozenBy(e) THEN e.now + e.freeze ELSE 0
  <1>1. Rows(e, s)[t] = FullRow(s, t, StateOf(e, t), IF t \in FrozenBy(e) THEN e.now + e.freeze ELSE 0)
    BY TabulatedIsIt DEF Rows
  <1> QED BY <1>1 DEF FullRow

LEMMA BaseRows ==
    ASSUME NEW s, NEW held, NEW t \in Tasks
    PROVE  /\ RowsBefore(s, held)[t].start = s[t] /\ RowsBefore(s, held)[t].end = End(s, t)
           /\ RowsBefore(s, held)[t].state = IF t \in held THEN "FROZEN" ELSE "OTHER"
  <1>1. RowsBefore(s, held)[t]
            = [start |-> s[t], end |-> End(s, t), state |-> IF t \in held THEN "FROZEN" ELSE "OTHER"]
    BY TabulatedIsIt DEF RowsBefore
  <1> QED BY <1>1

LEMMA AuditAcceptsKept ==
    ASSUME OwnContext, NEW e \in Triggers, NEW s \in PhysicalSchedules, KeepsEvent(e, s)
    PROVE  AuditAccepts(e, s)
  <1>1. ShowsPlan(Rows(e, s), s)
    BY FullRows DEF ShowsPlan
  <1>2. StopsValid(Rows(e, s), OutageWindows(e))
    BY <1>1, OutageTypes, StopsShown DEF KeepsEvent
  <1>3. ASSUME NEW t \in Tasks
        PROVE  /\ Rows(e, s)[t].end - Rows(e, s)[t].start = BaselineRows[t].end - BaselineRows[t].start
               /\ IF HeldRow(BaselineRows[t], t, reported, e, TRUE)
                  THEN FrozenKept(BaselineRows, Rows(e, s), t, e)
                  ELSE BaselineRows[t].start < FlexibleLimit(e)
                        => FlexibleKept(BaselineRows, Rows(e, s), t, e)
    <2>1. /\ BaselineRows[t].start = start[t] /\ BaselineRows[t].end = End(start, t)
          /\ BaselineRows[t].state = IF t \in frozen THEN "FROZEN" ELSE "OTHER"
      BY BaseRows DEF BaselineRows
    <2>2. PICK d \in Nat, x \in Nat, y \in Nat : d = Operation[t].duration /\ x = start[t] /\ y = s[t]
      BY StartTypes, ScheduleTypes, ShopTypes DEF OwnContext, PhysicalSchedules
    <2>3. Rows(e, s)[t].end - Rows(e, s)[t].start = BaselineRows[t].end - BaselineRows[t].start
      <3>1. Rows(e, s)[t].start = y /\ Rows(e, s)[t].end = y + d
        BY <2>2, FullRows DEF End
      <3>2. BaselineRows[t].start = x /\ BaselineRows[t].end = x + d
        BY <2>1, <2>2 DEF End
      <3> QED BY <3>1, <3>2
    <2>4. HeldRow(BaselineRows[t], t, reported, e, TRUE) <=> t \in FrozenBy(e)
      BY <2>1, TriggerTypes DEF HeldRow, CommittedRow, FrozenBy, OwnContext
    <2>5. CASE t \in FrozenBy(e)
      <3>1. s[t] = start[t] /\ End(s, t) = End(start, t)
        BY <2>5 DEF KeepsEvent, End
      <3>2. FrozenKept(BaselineRows, Rows(e, s), t, e)
        BY <2>1, <2>5, <3>1, FullRows, TriggerTypes DEF FrozenKept, StateOf
      <3> QED BY <2>3, <2>4, <2>5, <3>2
    <2>6. CASE t \notin FrozenBy(e)
      <3>1. ASSUME start[t] < FlexibleLimit(e) PROVE FlexibleKept(BaselineRows, Rows(e, s), t, e)
        <4>1. t \in DOMAIN FlexibleWindows(e)
          BY <2>6, <3>1, TriggerTypes DEF FlexibleWindows
        <4>2. PICK low : low = IF e.now > start[t] - e.shift THEN e.now ELSE start[t] - e.shift
          OBVIOUS
        <4>3. low <= s[t] /\ s[t] <= start[t] + e.shift
          BY <4>1, <4>2, WindowTypes DEF KeepsEvent
        <4>4. Rows(e, s)[t].start = s[t] /\ Rows(e, s)[t].state = "FLEXIBLE"
          BY <2>6, <4>1, FullRows DEF StateOf
        <4> QED BY <2>1, <4>2, <4>3, <4>4 DEF FlexibleKept, WithinShift
      <3> QED BY <2>1, <2>3, <2>4, <2>6, <3>1
    <2> QED BY <2>5, <2>6
  <1>4. CommitmentsKept(BaselineRows, Rows(e, s), reported, e, TRUE)
    BY <1>3 DEF CommitmentsKept
  <1>5. s \in AuditedSchedules
    BY AdmittedIsAudited
  <1> QED BY <1>2, <1>4, <1>5 DEF AuditAccepts

-----------------------------------------------------------------------------
(* The local repair moves no frozen task, and places the others after the  *)
(* event.                                                                  *)

LEMMA LatestEndTypes ==
    ASSUME NEW S \in SUBSET Tasks, NEW placed, \A u \in S : placed[u] \in Nat
    PROVE  LatestEnd(placed, S) \in Nat /\ \A u \in S : LatestEnd(placed, S) >= End(placed, u)
  <1> DEFINE E == {End(placed, u) : u \in S}
             all == {0} \cup E
  <1>1. \A u \in S : End(placed, u) \in Nat
    BY ShopTypes DEF End
  <1>2. IsFiniteSet(E)
    <2>1. PICK g : g = [u \in S |-> End(placed, u)]
      OBVIOUS
    <2>2. IsFiniteSet(S)
      BY ShopTypes, FS_Subset
    <2>3. IsFiniteSet({g[u] : u \in S})
      BY <2>2, FiniteImage
    <2>4. {g[u] : u \in S} = E
      BY <2>1
    <2> QED BY <2>3, <2>4
  <1>3. all \subseteq Nat /\ all \subseteq Int /\ all # {} /\ IsFiniteSet(all)
    <2>1. all \subseteq Nat
      BY <1>1
    <2>2. IsFiniteSet({0})
      BY FS_Singleton
    <2>3. IsFiniteSet(all)
      <3> HIDE DEF E
      <3> QED BY <1>2, <2>2, FS_Union
    <2> QED BY <2>1, <2>3
  <1>4. Max(all) \in all /\ \A y \in all : Max(all) >= y
    <2> HIDE DEF all
    <2> QED BY <1>3, MaxOfFinite
  <1>5. LatestEnd(placed, S) = Max(all)
    BY DEF LatestEnd
  <1>6. \A u \in S : End(placed, u) \in all
    OBVIOUS
  <1> HIDE DEF all
  <1> QED BY <1>3, <1>4, <1>5, <1>6

Honest(e, placed) ==
    /\ DOMAIN placed \subseteq Tasks
    /\ \A t \in DOMAIN placed :
        IF t \in FrozenBy(e) THEN placed[t] = start[t] ELSE placed[t] \in Nat /\ placed[t] >= e.now

\* What the search of the repair owes a task it places.
RoomFor(e, placed, t, x) ==
    /\ x \in Nat /\ x <= Horizon
    /\ x >= LatestEnd(placed, MachineBefore(t) \cup LotBefore(t))
    /\ x - SetupBefore(start, t) >= LatestEnd(placed, MachineBefore(t))
    /\ IF t \in FrozenBy(e) THEN x = start[t]
       ELSE /\ x >= e.now /\ x >= Operation[t].release
            /\ FitsShift(t, x, SetupBefore(start, t), PlannedStops \cup OutageWindows(e))
            /\ t \in DOMAIN FlexibleWindows(e) =>
                FlexibleWindows(e)[t].lower <= x /\ x <= FlexibleWindows(e)[t].upper

LEMMA HonestTypes ==
    ASSUME OwnContext, NEW e \in Triggers, NEW placed, Honest(e, placed), NEW S, S \subseteq DOMAIN placed
    PROVE  S \in SUBSET Tasks /\ \A u \in S : placed[u] \in Nat
  BY StartTypes DEF Honest, OwnContext

LEMMA BeforeTypes ==
    ASSUME NEW t \in Tasks
    PROVE  MachineBefore(t) \subseteq Tasks /\ LotBefore(t) \subseteq Tasks
  BY DEF MachineBefore, LotBefore, On, LotOf

LEMMA RepairRoom ==
    ASSUME OwnContext, NEW e \in Triggers, NEW placed, Honest(e, placed), NEW t \in Tasks,
           MachineBefore(t) \cup LotBefore(t) \subseteq DOMAIN placed,
           NEW x \in RepairStarts(e, placed, t)
    PROVE  RoomFor(e, placed, t, x)
  <1>1. PICK setup \in Nat : setup = SetupBefore(start, t)
    BY StartTypes, TaskWork, PhysicalIsSound DEF OwnContext
  <1>2. PICK available \in Nat : available = LatestEnd(placed, MachineBefore(t))
    BY HonestTypes, LatestEndTypes
  <1>3. PICK previous \in Nat : previous = LatestEnd(placed, MachineBefore(t) \cup LotBefore(t))
    BY HonestTypes, LatestEndTypes
  <1>4. CASE t \in FrozenBy(e)
    <2>1. x = start[t] /\ x >= previous /\ x - setup >= available
      BY <1>1, <1>2, <1>3, <1>4 DEF RepairStarts
    <2>2. start[t] \in Nat /\ start[t] <= Horizon
      BY StartTypes, ScheduleTypes DEF OwnContext
    <2> QED BY <1>1, <1>2, <1>3, <1>4, <2>1, <2>2 DEF RoomFor
  <1>5. CASE t \notin FrozenBy(e)
    <2>1. PICK flexible : flexible = FlexibleWindows(e)
      OBVIOUS
    <2> DEFINE lows == {flexible[u].lower : u \in {t} \cap DOMAIN flexible}
               bounds == {e.now, Operation[t].release, previous, available + setup} \cup lows
    <2>2. /\ x \in Max(bounds)..Horizon
          /\ FitsShift(t, x, setup, PlannedStops \cup OutageWindows(e))
          /\ t \in DOMAIN flexible => x <= flexible[t].upper
      BY <1>1, <1>2, <1>3, <1>5, <2>1 DEF RepairStarts
    <2>3. IsFiniteSet(bounds)
      <3>1. lows \subseteq {flexible[t].lower}
        OBVIOUS
      <3>2. IsFiniteSet({flexible[t].lower})
        BY FS_Singleton
      <3> HIDE DEF lows
      <3>3. IsFiniteSet(lows)
        BY <3>1, <3>2, FS_Subset
      <3> QED BY <3>3, FourFinite, FS_Union
    <2>4. bounds \subseteq Int
      <3>1. t \in DOMAIN flexible => flexible[t].lower \in Int
        BY <2>1, WindowTypes
      <3>2. e.now \in Int /\ Operation[t].release \in Int /\ available + setup \in Int /\ previous \in Int
        BY TriggerTypes, ShopTypes
      <3> QED BY <3>1, <3>2
    <2>5. /\ e.now \in bounds /\ Operation[t].release \in bounds /\ previous \in bounds
          /\ available + setup \in bounds
          /\ t \in DOMAIN flexible => flexible[t].lower \in bounds
      OBVIOUS
    <2> HIDE DEF bounds
    <2>6. Max(bounds) \in Int /\ \A y \in bounds : Max(bounds) >= y
      BY <2>3, <2>4, <2>5, MaxOfFinite
    <2>7. x \in Int /\ x <= Horizon /\ x >= Max(bounds)
      BY <2>2, <2>6, ShopTypes
    <2>8. \A y \in bounds : x >= y
      BY <2>4, <2>6, <2>7
    <2>9. /\ x >= e.now /\ x >= Operation[t].release /\ x >= previous /\ x >= available + setup
          /\ t \in DOMAIN flexible => flexible[t].lower <= x
      BY <2>4, <2>5, <2>7, <2>8
    <2>10. x \in Nat /\ x - setup >= available
      BY <2>7, <2>9
    <2> QED BY <1>1, <1>2, <1>3, <1>5, <2>1, <2>2, <2>7, <2>9, <2>10 DEF RoomFor
  <1> QED BY <1>4, <1>5

\* A partial plan the repair can have built: closed under what comes before,
\* with room for each task after it.
Partial(e, placed) ==
    /\ Honest(e, placed)
    /\ \A t \in DOMAIN placed :
        /\ MachineBefore(t) \cup LotBefore(t) \subseteq DOMAIN placed
        /\ RoomFor(e, placed, t, placed[t])
Partials(e) == {q \in UNION {[S -> Nat] : S \in SUBSET Tasks} : Partial(e, q)}

LEMMA PlacedNext ==
    ASSUME OwnContext, NEW e \in Triggers, NEW placed, Honest(e, placed), PlaceNext(e, placed) # placed
    PROVE  \E t \in Tasks \ DOMAIN placed : \E x \in Nat :
            /\ MachineBefore(t) \cup LotBefore(t) \subseteq DOMAIN placed
            /\ RoomFor(e, placed, t, x)
            /\ PlaceNext(e, placed) = [u \in DOMAIN placed \cup {t} |-> IF u = t THEN x ELSE placed[u]]
  <1> DEFINE ready == {t \in Tasks \ DOMAIN placed :
                            MachineBefore(t) \cup LotBefore(t) \subseteq DOMAIN placed}
             next == CHOOSE t \in ready : \A u \in ready : start[t] <= start[u]
  <1>1. /\ ready # {} /\ RepairStarts(e, placed, next) # {}
        /\ PlaceNext(e, placed) = [t \in DOMAIN placed \cup {next} |->
                IF t = next THEN CHOOSE x \in RepairStarts(e, placed, next) : TRUE ELSE placed[t]]
    BY DEF PlaceNext
  <1>2. next \in ready
    <2>1. IsFiniteSet(ready) /\ \A t \in ready : start[t] \in Int
      BY ShopTypes, FS_Subset, StartTypes DEF OwnContext
    <2> HIDE DEF ready
    <2>2. \E t \in ready : \A u \in ready : start[t] <= start[u]
      BY <1>1, <2>1, FirstAndLast
    <2> QED BY <2>2
  <1>3. PICK t : t = next
    OBVIOUS
  <1>4. PICK x : x = CHOOSE y \in RepairStarts(e, placed, t) : TRUE
    OBVIOUS
  <1>5. t \in Tasks \ DOMAIN placed /\ MachineBefore(t) \cup LotBefore(t) \subseteq DOMAIN placed
    BY <1>2, <1>3
  <1>6. x \in RepairStarts(e, placed, t)
    BY <1>1, <1>3, <1>4
  <1>7. RoomFor(e, placed, t, x)
    BY <1>5, <1>6, RepairRoom
  <1>8. PlaceNext(e, placed) = [u \in DOMAIN placed \cup {t} |-> IF u = t THEN x ELSE placed[u]]
    BY <1>1, <1>3, <1>4
  <1>9. x \in Nat
    BY <1>7 DEF RoomFor
  <1> QED BY <1>5, <1>7, <1>8, <1>9

\* Room for a task is judged by the tasks before it alone.
LEMMA SameRoom ==
    ASSUME NEW e, NEW placed, NEW larger, NEW t, NEW x,
           MachineBefore(t) \cup LotBefore(t) \subseteq DOMAIN placed,
           \A u \in DOMAIN placed : larger[u] = placed[u], RoomFor(e, placed, t, x)
    PROVE  RoomFor(e, larger, t, x)
  <1>1. ASSUME NEW S, S \subseteq DOMAIN placed PROVE LatestEnd(larger, S) = LatestEnd(placed, S)
    <2>1. {End(larger, u) : u \in S} = {End(placed, u) : u \in S}
      BY <1>1 DEF End
    <2> QED BY <2>1 DEF LatestEnd
  <1>2. /\ LatestEnd(larger, MachineBefore(t)) = LatestEnd(placed, MachineBefore(t))
        /\ LatestEnd(larger, MachineBefore(t) \cup LotBefore(t))
            = LatestEnd(placed, MachineBefore(t) \cup LotBefore(t))
    BY <1>1
  <1> QED BY <1>2 DEF RoomFor

LEMMA PartialGrows ==
    ASSUME OwnContext, NEW e \in Triggers, NEW placed \in Partials(e)
    PROVE  PlaceNext(e, placed) \in Partials(e)
  <1>1. Partial(e, placed) /\ Honest(e, placed)
    BY DEF Partials, Partial
  <1>2. PICK S \in SUBSET Tasks : placed \in [S -> Nat]
    BY DEF Partials
  <1>3. SUFFICES ASSUME PlaceNext(e, placed) # placed PROVE PlaceNext(e, placed) \in Partials(e)
    OBVIOUS
  <1>4. PICK t \in Tasks \ S, x \in Nat :
            /\ MachineBefore(t) \cup LotBefore(t) \subseteq S
            /\ RoomFor(e, placed, t, x)
            /\ PlaceNext(e, placed) = [u \in S \cup {t} |-> IF u = t THEN x ELSE placed[u]]
    BY <1>1, <1>2, <1>3, PlacedNext
  <1>5. PICK larger : larger = PlaceNext(e, placed)
    OBVIOUS
  <1>6. /\ larger \in [S \cup {t} -> Nat] /\ larger[t] = x
        /\ \A u \in S : larger[u] = placed[u]
    BY <1>2, <1>4, <1>5
  <1>7. Honest(e, larger)
    <2>1. IF t \in FrozenBy(e) THEN x = start[t] ELSE x \in Nat /\ x >= e.now
      BY <1>4 DEF RoomFor
    <2> QED BY <1>1, <1>2, <1>6, <2>1 DEF Honest
  <1>8. \A u \in S : MachineBefore(u) \cup LotBefore(u) \subseteq S /\ RoomFor(e, placed, u, placed[u])
    BY <1>1, <1>2 DEF Partial
  <1>9. \A u \in S : RoomFor(e, larger, u, larger[u])
    BY <1>2, <1>6, <1>8, SameRoom
  <1>10. RoomFor(e, larger, t, larger[t])
    BY <1>2, <1>4, <1>6, SameRoom
  <1>11. Partial(e, larger)
    BY <1>4, <1>6, <1>7, <1>8, <1>9, <1>10 DEF Partial
  <1>12. S \cup {t} \in SUBSET Tasks
    OBVIOUS
  <1> QED BY <1>5, <1>6, <1>11, <1>12 DEF Partials

LEMMA RepairIsPartial ==
    ASSUME OwnContext, NEW e \in Triggers
    PROVE  LocalRepair(e) \in Partials(e)
  <1>1. PICK n \in Nat : n = Cardinality(Tasks)
    BY ShopTypes, FS_CardinalityType
  <1>2. NoTasks \in Partials(e)
    <2>1. NoTasks \in [{} -> Nat] /\ DOMAIN NoTasks = {} /\ {} \in SUBSET Tasks
      BY DEF NoTasks
    <2> QED BY <2>1 DEF Partials, Partial, Honest
  <1> DEFINE Steps(h) == h = [k \in 0..n |-> IF k = 0 THEN NoTasks ELSE PlaceNext(e, h[k - 1])]
  <1>3. \E h : Steps(h)
    <2> DEFINE D == 0..n
               m == [d \in D |-> d]
               pred == [d \in D |-> d - 1]
               key == [d \in D |-> 0]
               B == [d \in D |-> NoTasks]
               F == [p \in {0} \X Partials(e) |-> PlaceNext(e, p[2])]
    <2>1. \A d \in D : m[d] \in 0..n /\ (m[d] # 0 => pred[d] \in D /\ m[pred[d]] < m[d])
      OBVIOUS
    <2>2. PICK h : Recursive(h, D, m, pred, key, B, F)
      <3> HIDE DEF D, m, pred, key, B, F
      <3> QED BY <2>1, RecursionExists
    <2>3. h = [d \in 0..n |-> IF d = 0 THEN NoTasks ELSE F[<<0, h[d - 1]>>]]
      BY <2>2 DEF Recursive
    <2>4. \A d \in 0..n : h[d] = IF d = 0 THEN NoTasks ELSE F[<<0, h[d - 1]>>]
      BY <2>3
    <2>5. \A q \in Partials(e) : F[<<0, q>>] = PlaceNext(e, q)
      OBVIOUS
    <2> HIDE DEF F
    <2> DEFINE T == {k \in 0..n : h[k] \in Partials(e)}
    <2>6. 0 \in T
      <3>1. 0 \in 0..n
        OBVIOUS
      <3>2. h[0] = NoTasks
        BY <2>4, <3>1
      <3> QED BY <1>2, <3>1, <3>2
    <2>7. ASSUME NEW k \in 0..(n - 1), k \in T PROVE k + 1 \in T
      <3>1. k + 1 \in 0..n /\ k + 1 # 0 /\ (k + 1) - 1 = k
        OBVIOUS
      <3>2. h[k + 1] = F[<<0, h[k]>>]
        BY <2>4, <3>1
      <3>3. h[k] \in Partials(e)
        BY <2>7
      <3> QED BY <2>5, <3>1, <3>2, <3>3, PartialGrows
    <2> HIDE DEF T
    <2>8. \A k \in 0..n : k \in T
      BY <2>6, <2>7, CountUp
    <2>9. \A k \in 0..n : h[k] \in Partials(e)
      BY <2>8 DEF T
    <2>10. \A k \in 0..n : k # 0 => F[<<0, h[k - 1]>>] = PlaceNext(e, h[k - 1])
      <3> SUFFICES ASSUME NEW k \in 0..n, k # 0 PROVE F[<<0, h[k - 1]>>] = PlaceNext(e, h[k - 1])
        OBVIOUS
      <3>1. k - 1 \in 0..n
        OBVIOUS
      <3> QED BY <2>5, <2>9, <3>1
    <2>11. Steps(h)
      BY <2>3, <2>10
    <2> QED BY <2>11
  <1> DEFINE steps == CHOOSE h : Steps(h)
  <1>4. Steps(steps)
    <2> HIDE DEF Steps
    <2> QED BY <1>3
  <1>5. LocalRepair(e) = steps[n]
    BY <1>1 DEF LocalRepair
  <1>6. PICK h : h = steps
    OBVIOUS
  <1>7. \A k \in 0..n : h[k] = IF k = 0 THEN NoTasks ELSE PlaceNext(e, h[k - 1])
    BY <1>4, <1>6
  <1> HIDE DEF Steps, steps
  <1> DEFINE T == {k \in 0..n : h[k] \in Partials(e)}
  <1>8. 0 \in T
    BY <1>2, <1>7
  <1>9. ASSUME NEW k \in 0..(n - 1), k \in T PROVE k + 1 \in T
    <2>1. k + 1 \in 0..n /\ k + 1 # 0 /\ (k + 1) - 1 = k
      OBVIOUS
    <2>2. h[k + 1] = PlaceNext(e, h[k]) /\ h[k] \in Partials(e)
      BY <1>7, <1>9, <2>1
    <2> QED BY <2>1, <2>2, PartialGrows
  <1> HIDE DEF T
  <1>10. \A k \in 0..n : k \in T
    BY <1>8, <1>9, CountUp
  <1>11. n \in T
    BY <1>10
  <1> QED BY <1>5, <1>6, <1>11 DEF T

LEMMA RepairPlaces ==
    ASSUME OwnContext, NEW e \in Triggers, NEW s, s = LocalRepair(e), DOMAIN s = Tasks
    PROVE  s \in [Tasks -> Nat] /\ \A t \in Tasks : RoomFor(e, s, t, s[t])
  <1>1. s \in Partials(e)
    BY RepairIsPartial
  <1>2. PICK S \in SUBSET Tasks : s \in [S -> Nat]
    BY <1>1 DEF Partials
  <1>3. Partial(e, s)
    BY <1>1 DEF Partials
  <1> QED BY <1>2, <1>3 DEF Partial

-----------------------------------------------------------------------------
(* Whatever an event publishes, the audit has accepted, and it keeps its   *)
(* own context.                                                            *)

\* The certificate of a repair, and the answers of a full reoptimisation.
LEMMA AnswersKeepEvent ==
    ASSUME OwnContext, NEW e \in Triggers, NEW s \in PhysicalSchedules, NEW positions,
           Certified(s, Job(e, positions)), \A t \in FrozenBy(e) : s[t] = start[t]
    PROVE  KeepsEvent(e, s)
  <1>1. ASSUME NEW t \in DOMAIN FlexibleWindows(e)
        PROVE  FlexibleWindows(e)[t].lower <= s[t] /\ s[t] <= FlexibleWindows(e)[t].upper
    <2>1. s[t] \in FlexibleWindows(e)[t].lower..FlexibleWindows(e)[t].upper
      BY DEF Certified, Committed, Job
    <2>2. PICK low \in Int, high \in Int :
            low = FlexibleWindows(e)[t].lower /\ high = FlexibleWindows(e)[t].upper
      BY WindowTypes
    <2> QED BY <2>1, <2>2
  <1>2. Undisturbed(s, OutageWindows(e))
    BY DEF Certified, Job
  <1> QED BY <1>1, <1>2 DEF KeepsEvent

LEMMA RepairKeepsEvent ==
    ASSUME OwnContext, NEW e \in Triggers, NEW s \in CertifiedRepairs(e)
    PROVE  /\ s \in PhysicalSchedules /\ KeepsEvent(e, s)
           /\ \A t \in Tasks \ FrozenBy(e) : s[t] >= e.now
  <1>1. s \in RepairCandidates(e) /\ Certified(s, Job(e, s)) /\ s \in PhysicalSchedules
    BY DEF CertifiedRepairs, Certified
  <1>2. CASE ~Delayed(e)
    <2>1. s = start
      BY <1>1, <1>2 DEF RepairCandidates
    <2>2. \A t \in Tasks \ FrozenBy(e) : s[t] >= e.now
      <3> SUFFICES ASSUME NEW t \in Tasks \ FrozenBy(e) PROVE s[t] >= e.now
        OBVIOUS
      <3>1. start[t] > e.now /\ start[t] \in Nat /\ e.now \in Nat
        BY FrozenTypes, TriggerTypes, StartTypes DEF OwnContext
      <3> QED BY <2>1, <3>1
    <2> QED BY <1>1, <2>1, <2>2, AnswersKeepEvent
  <1>3. CASE Delayed(e)
    <2>1. s = LocalRepair(e) /\ DOMAIN s = Tasks
      BY <1>1, <1>3 DEF RepairCandidates
    <2>2. \A t \in Tasks : RoomFor(e, s, t, s[t])
      BY <2>1, RepairPlaces
    <2>3. \A t \in FrozenBy(e) : s[t] = start[t]
      BY <2>2, FrozenTypes DEF RoomFor
    <2>4. \A t \in Tasks \ FrozenBy(e) : s[t] >= e.now
      BY <2>2 DEF RoomFor
    <2> QED BY <1>1, <2>3, <2>4, AnswersKeepEvent
  <1> QED BY <1>2, <1>3

LEMMA ReoptimisedKeepsEvent ==
    ASSUME OwnContext, NEW e \in Triggers, NEW s \in Allowed(FullJob(e))
    PROVE  /\ s \in PhysicalSchedules /\ KeepsEvent(e, s)
           /\ \A t \in Tasks \ FrozenBy(e) : s[t] >= e.now
  <1>1. s \in PhysicalSchedules /\ Certified(s, FullJob(e))
    BY DEF Allowed
  <1>2. \A t \in FrozenBy(e) : s[t] = start[t]
    BY <1>1 DEF Certified, Committed, FullJob, Job, FrozenPositions
  <1>3. \A t \in Tasks \ FrozenBy(e) : s[t] >= e.now
    <2>1. BoundByEvent(FullJob(e)) = Tasks \ FrozenBy(e)
      BY DEF BoundByEvent, FullJob, Job, FrozenPositions
    <2>2. \A t \in BoundByEvent(FullJob(e)) : s[t] >= FullJob(e).earliest
      BY <1>1 DEF Certified, Committed
    <2>3. FullJob(e).earliest = e.now
      BY DEF FullJob, Job
    <2> QED BY <2>1, <2>2, <2>3
  <1> QED BY <1>1, <1>2, <1>3, AnswersKeepEvent DEF FullJob

LEMMA PublishKeepsContext ==
    ASSUME OwnContext, NEW e \in Triggers, NEW s \in PhysicalSchedules, KeepsEvent(e, s),
           \A t \in Tasks \ FrozenBy(e) : s[t] >= e.now, NEW tier, NEW claim, Publish(e, s, tier, claim)
    PROVE  OwnContext' /\ start' = s /\ outcome' = tier /\ proof' = claim
  <1>1. AuditAccepts(e, s)
    BY AuditAcceptsKept
  <1>2. /\ start' = s /\ frozen' = FrozenBy(e) /\ stops' = OutageWindows(e) /\ earliest' = e.now
        /\ windows' = FlexibleWindows(e) /\ outcome' = tier /\ proof' = claim
        /\ declared' = declared \cup Outage(e) /\ reported' = reported
    BY <1>1 DEF Publish
  <1>3. start' \in PhysicalSchedules /\ frozen' \subseteq Tasks /\ reported' \subseteq Tasks
    BY <1>2, FrozenTypes DEF OwnContext
  <1>4. TypedStops(stops') /\ declared' \subseteq stops' /\ Undisturbed(start', stops')
    BY <1>2, OutageTypes DEF OwnContext, KeepsEvent
  <1>5. DOMAIN windows' \subseteq Tasks
    BY <1>2 DEF FlexibleWindows
  <1>6. \A t \in DOMAIN windows' :
            /\ windows'[t].lower \in Int /\ windows'[t].upper \in Int
            /\ windows'[t].lower <= start'[t] /\ start'[t] <= windows'[t].upper
    BY <1>2, WindowTypes DEF KeepsEvent
  <1>7. earliest' \in Nat /\ \A t \in Tasks \ frozen' : start'[t] >= earliest'
    BY <1>2, TriggerTypes
  <1> QED BY <1>2, <1>3, <1>4, <1>5, <1>6, <1>7 DEF OwnContext

-----------------------------------------------------------------------------
(* The inductive invariant: no rejection so far, a claim of optimality     *)
(* that is true, and the context the next event starts from.               *)

IInv == OwnContext /\ outcome # "AUDIT_REJECTED" /\ ProvenMeansBest

LEMMA ClaimHolds ==
    ASSUME NEW policy, NEW hierarchical, NEW job, NEW sequence,
           NEW S, S = Sequenced(Allowed(job), sequence), NEW r \in Answers(policy, hierarchical, S),
           NEW claim, claim = Claimed(r.status, Call(policy, hierarchical, job, sequence))
    PROVE  /\ r.schedule \in Allowed(job) /\ r.schedule \in PhysicalSchedules
           /\ claim # NoProof =>
                r.schedule \in Best(claim.policy, claim.hierarchical,
                                    Sequenced(Allowed(claim.job), claim.sequence))
  <1>1. S \in SUBSET Allowed(job) /\ S \in SUBSET PhysicalSchedules
    BY DEF Allowed, Sequenced
  <1>2. r.schedule \in S /\ (r.status = "OPTIMAL" => r.schedule \in Best(policy, hierarchical, S))
    BY <1>1, OptimalIsBest
  <1>3. ASSUME claim # NoProof
        PROVE  /\ r.status = "OPTIMAL" /\ claim.policy = policy /\ claim.hierarchical = hierarchical
               /\ claim.job = job /\ claim.sequence = sequence
    <2>1. r.status = "OPTIMAL"
      BY <1>3 DEF Claimed
    <2>2. claim = [policy |-> policy, hierarchical |-> hierarchical, job |-> job, sequence |-> sequence]
      BY <2>1 DEF Claimed, Call
    <2> QED BY <2>1, <2>2
  <1> QED BY <1>1, <1>2, <1>3

\* The free sequence keeps every schedule.
LEMMA FreeSequenceKeepsAll ==
    ASSUME NEW S
    PROVE  Sequenced(S, FreeSequence) = S
  BY DEF Sequenced, InRankOrder, FreeSequence

LEMMA InitIInv == Init => IInv
  <1> SUFFICES ASSUME Init PROVE IInv
    OBVIOUS
  <1>1. PICK answer \in FirstAnswers : start = answer[1] /\ proof = answer[2]
    BY DEF Init
  <1>2. PICK c \in FirstCalls :
            answer \in {<<r.schedule, Claimed(r.status, Call(c[1], c[2], FreeJob, FreeSequence))>> :
                            r \in Answers(c[1], c[2], Allowed(FreeJob))}
    BY <1>1 DEF FirstAnswers
  <1>3. PICK r \in Answers(c[1], c[2], Allowed(FreeJob)) :
            answer = <<r.schedule, Claimed(r.status, Call(c[1], c[2], FreeJob, FreeSequence))>>
    BY <1>2
  <1>4. start = r.schedule /\ proof = Claimed(r.status, Call(c[1], c[2], FreeJob, FreeSequence))
    BY <1>1, <1>3
  <1>5. start \in PhysicalSchedules /\ ProvenMeansBest
    BY <1>4, FreeSequenceKeepsAll, ClaimHolds DEF ProvenMeansBest
  <1>6. /\ frozen = {} /\ reported = {} /\ stops = {} /\ declared = {}
        /\ earliest = 0 /\ windows = NoTasks /\ outcome = "PLANNED"
    BY DEF Init
  <1>7. DOMAIN windows = {}
    BY <1>6 DEF NoTasks
  <1>8. \A t \in Tasks : start[t] >= 0
    BY <1>5, StartTypes
  <1>9. TypedStops(stops) /\ Undisturbed(start, stops)
    BY <1>6 DEF TypedStops, Undisturbed
  <1>10. OwnContext
    BY <1>5, <1>6, <1>7, <1>8, <1>9 DEF OwnContext
  <1> QED BY <1>5, <1>6, <1>10 DEF IInv

LEMMA NextIInv == IInv /\ [Next]_vars => IInv'
  <1> SUFFICES ASSUME IInv, [Next]_vars PROVE IInv'
    OBVIOUS
  <1>1. OwnContext /\ outcome # "AUDIT_REJECTED" /\ ProvenMeansBest
    BY DEF IInv
  <1>2. ASSUME NEW t \in Tasks, Report(t) PROVE IInv'
    <2>1. /\ reported' = reported \cup {t}
          /\ UNCHANGED <<start, frozen, stops, earliest, windows, outcome, proof, declared>>
      BY <1>2 DEF Report
    <2>2. OwnContext'
      BY <1>1, <2>1 DEF OwnContext
    <2>3. ProvenMeansBest'
      BY <1>1, <2>1 DEF ProvenMeansBest
    <2> QED BY <1>1, <2>1, <2>2, <2>3 DEF IInv
  <1>3. ASSUME NEW e \in Triggers, RepairLocally(e) PROVE IInv'
    <2>1. PICK s \in CertifiedRepairs(e) : Publish(e, s, "VALIDATED_LOCAL_REPAIR", RepairProof(e))
      BY <1>3 DEF RepairLocally
    <2>2. OwnContext' /\ outcome' = "VALIDATED_LOCAL_REPAIR" /\ proof' = RepairProof(e)
      BY <1>1, <2>1, RepairKeepsEvent, PublishKeepsContext
    <2>3. ProvenMeansBest'
      BY <2>2 DEF ProvenMeansBest, RepairProof
    <2> QED BY <2>2, <2>3 DEF IInv
  <1>4. ASSUME NEW e \in Triggers, Reoptimise(e) PROVE IInv'
    <2>1. PICK answer \in NewAnswers(e) : Publish(e, answer[1], "CPSAT_REOPTIMIZATION", answer[2])
      BY <1>4 DEF Reoptimise
    <2>2. PICK q \in Sequences :
            answer \in {<<r.schedule, Claimed(r.status, Call("BALANCED", FALSE, FullJob(e), q))>> :
                            r \in Answers("BALANCED", FALSE, Sequenced(Allowed(FullJob(e)), q))}
      BY <2>1 DEF NewAnswers
    <2>3. PICK r \in Answers("BALANCED", FALSE, Sequenced(Allowed(FullJob(e)), q)) :
            answer = <<r.schedule, Claimed(r.status, Call("BALANCED", FALSE, FullJob(e), q))>>
      BY <2>2
    <2>4. PICK claim : claim = Claimed(r.status, Call("BALANCED", FALSE, FullJob(e), q))
      OBVIOUS
    <2>5. Publish(e, r.schedule, "CPSAT_REOPTIMIZATION", claim)
      BY <2>1, <2>3, <2>4
    <2>6. /\ r.schedule \in Allowed(FullJob(e)) /\ r.schedule \in PhysicalSchedules
          /\ claim # NoProof =>
                r.schedule \in Best(claim.policy, claim.hierarchical,
                                    Sequenced(Allowed(claim.job), claim.sequence))
      BY <2>3, <2>4, ClaimHolds
    <2>7. /\ OwnContext' /\ start' = r.schedule /\ outcome' = "CPSAT_REOPTIMIZATION" /\ proof' = claim
      BY <1>1, <2>5, <2>6, ReoptimisedKeepsEvent, PublishKeepsContext
    <2>8. ProvenMeansBest'
      BY <2>6, <2>7 DEF ProvenMeansBest
    <2> QED BY <2>7, <2>8 DEF IInv
  <1>5. CASE UNCHANGED vars
    BY <1>1, <1>5 DEF vars, IInv, OwnContext, ProvenMeansBest
  <1> QED BY <1>2, <1>3, <1>4, <1>5 DEF Next

LEMMA Inductive == Spec => []IInv
  BY InitIInv, NextIInv, PTL DEF Spec

\* Every claim of an optimum in published metadata is true, for every policy,
\* both modes and every event (run_cpsat_scheduling's status).
THEOREM ClaimedOptimumIsBest == Spec => []ProvenMeansBest
  <1>1. IInv => ProvenMeansBest
    BY DEF IInv
  <1> QED BY <1>1, Inductive, PTL

-----------------------------------------------------------------------------
(* The breakdown that is only imagined, the quiet event, and the context   *)
(* of the version.                                                         *)

LEMMA BreakdownPasses ==
    ASSUME NEW e \in Triggers, Delayed(e),
           NEW w, w = [machine |-> e.machine, from |-> e.now, to |-> e.now + e.delay]
    PROVE  BreakdownAccepted(w)
  <1>1. TypedStops({w})
    <2>1. w.from = e.now /\ w.to = e.now + e.delay
      OBVIOUS
    <2> QED BY <2>1, TriggerTypes DEF TypedStops, Delayed
  <1>2. ASSUME NEW s \in Allowed([FreeJob EXCEPT !.stops = {w}])
        PROVE  s \in PhysicalSchedules /\ Undisturbed(s, {w})
    <2>1. PICK job : job = [FreeJob EXCEPT !.stops = {w}]
      OBVIOUS
    <2>2. job.stops = {w}
      BY <2>1 DEF FreeJob
    <2> QED BY <1>2, <2>1, <2>2 DEF Allowed, Certified
  <1>3. ASSUME NEW s \in PhysicalSchedules, NEW t \in Tasks
        PROVE  /\ ScenarioRows(s)[t].start = s[t] /\ ScenarioRows(s)[t].end = End(s, t)
               /\ ScenarioRows(s)[t].setup = SetupBefore(s, t)
               /\ ScenarioRows(s)[t].setupStart = SetupStart(s, t)
    <2>1. ScenarioRows(s)[t] = FullRow(s, t, "FREE", 0)
      BY TabulatedIsIt DEF ScenarioRows
    <2> QED BY <2>1 DEF FullRow
  <1>4. ASSUME NEW s \in PhysicalSchedules, NEW base \in BaselineSolutions
        PROVE  CommitmentsKept(base, ScenarioRows(s), {}, NoCommitment, CountsAsBegun)
    <2>1. PICK old \in PhysicalSchedules : base = RowsBefore(old, {})
      BY DEF BaselineSolutions, Allowed
    <2>2. /\ Cutoff(NoCommitment) = 0 /\ FlexibleLimit(NoCommitment) = 0
      BY DEF NoCommitment, Cutoff, FlexibleLimit
    <2> SUFFICES ASSUME NEW t \in Tasks
                 PROVE  /\ ScenarioRows(s)[t].end - ScenarioRows(s)[t].start = base[t].end - base[t].start
                        /\ ~HeldRow(base[t], t, {}, NoCommitment, CountsAsBegun)
                        /\ ~(base[t].start < FlexibleLimit(NoCommitment))
      BY DEF CommitmentsKept
    <2>3. base[t].start = old[t] /\ base[t].end = End(old, t) /\ base[t].state = "OTHER"
      BY <2>1, BaseRows
    <2>4. PICK d \in Nat, x \in Nat, y \in Nat : d = Operation[t].duration /\ x = old[t] /\ y = s[t]
      BY ScheduleTypes, ShopTypes DEF PhysicalSchedules
    <2>5. ScenarioRows(s)[t].start = y /\ ScenarioRows(s)[t].end = y + d
      BY <1>3, <2>4 DEF End
    <2>6. base[t].start = x /\ base[t].end = x + d
      BY <2>3, <2>4 DEF End
    <2>7. ScenarioRows(s)[t].end - ScenarioRows(s)[t].start = base[t].end - base[t].start
      BY <2>4, <2>5, <2>6
    <2>8. ~(base[t].start < 0)
      BY <2>4, <2>6
    <2>9. ~HeldRow(base[t], t, {}, NoCommitment, CountsAsBegun)
      BY <2>2, <2>3, <2>8 DEF HeldRow, CommittedRow, CountsAsBegun
    <2> QED BY <2>2, <2>7, <2>8, <2>9
  <1>5. ASSUME NEW s \in Allowed([FreeJob EXCEPT !.stops = {w}])
        PROVE  /\ s \in AuditedSchedules /\ StopsValid(ScenarioRows(s), {w})
               /\ \A base \in BaselineSolutions :
                    CommitmentsKept(base, ScenarioRows(s), {}, NoCommitment, CountsAsBegun)
    <2>1. s \in PhysicalSchedules /\ Undisturbed(s, {w})
      BY <1>2
    <2>2. ShowsPlan(ScenarioRows(s), s)
      BY <1>3, <2>1 DEF ShowsPlan
    <2> QED BY <1>1, <1>4, <2>1, <2>2, StopsShown, AdmittedIsAudited
  <1> QED BY <1>5 DEF BreakdownAccepted

\* Neither the audit, nor the gate, nor the audit of an imagined breakdown
\* turns down what the production model admits: audit_reschedule_candidate and
\* validate_pipeline_run recompute the same physics on any shop floor, and
\* after any chain of events, repairs and reports.
THEOREM SolverAlwaysPasses == Spec => []SolverPassesAudit
  <1>1. Breakdowns \subseteq AcceptedBreakdowns
    <2> SUFFICES ASSUME NEW w \in Breakdowns PROVE w \in AcceptedBreakdowns
      OBVIOUS
    <2>1. PICK e \in Triggers :
            Delayed(e) /\ w = [machine |-> e.machine, from |-> e.now, to |-> e.now + e.delay]
      BY DEF Breakdowns
    <2>2. BreakdownAccepted(w)
      BY <2>1, BreakdownPasses
    <2> QED BY <2>2 DEF AcceptedBreakdowns
  <1>2. IInv => SolverPassesAudit
    BY <1>1, AdmittedIsGated DEF IInv, OwnContext, SolverPassesAudit
  <1> QED BY <1>2, Inductive, PTL

LEMMA ReplayAccepted ==
    ASSUME OwnContext, NEW s \in Replays
    PROVE  BenchmarkAccepts(s)
  <1>1. s \in PhysicalSchedules /\ Committed(s, Context) /\ Undisturbed(s, stops)
    BY DEF Replays, Allowed, Certified, Context
  <1>2. s \in AuditedSchedules /\ ShowsPlan(PhysicalRows(s), s)
    BY <1>1, AdmittedIsAudited
  <1>3. StopsValid(PhysicalRows(s), stops)
    BY <1>1, <1>2, StopsShown DEF OwnContext
  <1>4. ASSUME NEW t \in Tasks PROVE PhysicalRows(s)[t].start = s[t]
    BY <1>2 DEF ShowsPlan
  <1>5. \A t \in frozen : PhysicalRows(s)[t].start = start[t]
    BY <1>1, <1>4 DEF Committed, Context, OwnContext
  <1>6. \A t \in Tasks \ frozen : PhysicalRows(s)[t].start >= earliest
    BY <1>1, <1>4 DEF Committed, Context, BoundByEvent
  <1>7. ASSUME NEW t \in DOMAIN windows
        PROVE  WithinShift(PhysicalRows(s), t, windows[t].lower, windows[t].upper)
    <2>1. s[t] \in windows[t].lower..windows[t].upper
      BY <1>1 DEF Committed, Context
    <2>2. PICK low \in Int, high \in Int : low = windows[t].lower /\ high = windows[t].upper
      BY DEF OwnContext
    <2> QED BY <1>4, <2>1, <2>2 DEF WithinShift, OwnContext
  <1>8. ContextKept(PhysicalRows(s), Context)
    BY <1>5, <1>6, <1>7 DEF ContextKept, Context
  <1> QED BY <1>2, <1>3, <1>8 DEF BenchmarkAccepts

LEMMA OwnReplay ==
    ASSUME OwnContext
    PROVE  start \in Replays
  <1>1. \A t \in frozen : start[t] = Context.positions[t] /\ SetupBefore(start, t) = Context.setups[t]
    BY DEF Context, OwnContext
  <1>2. ASSUME NEW t \in DOMAIN windows PROVE start[t] \in windows[t].lower..windows[t].upper
    <2>1. PICK low \in Int, high \in Int, x \in Int : low = windows[t].lower /\ high = windows[t].upper /\ x = start[t]
      BY StartTypes DEF OwnContext
    <2>2. low <= x /\ x <= high
      BY <2>1 DEF OwnContext
    <2> QED BY <2>1, <2>2
  <1>3. \A t \in Tasks \ frozen : start[t] >= earliest
    BY DEF OwnContext
  <1>4. Committed(start, Context)
    BY <1>1, <1>2, <1>3 DEF Committed, Context, BoundByEvent
  <1>5. start \in PhysicalSchedules /\ Undisturbed(start, Context.stops)
    BY DEF OwnContext, Context
  <1> QED BY <1>4, <1>5 DEF Replays, Allowed, Certified

\* Every version honours the outages of all earlier events and is a solution
\* of the context stored with it, whose every replay the benchmark's audit
\* accepts (get_active_model_context, production_benchmark).  That the first
\* plan has a replay under each dispatch rule is RulesFindReplays.
THEOREM ContextIsOwn == Spec => []ContextOwn
  <1>1. ASSUME OwnContext PROVE Undisturbed(start, declared)
    BY <1>1 DEF OwnContext, Undisturbed
  <1>2. IInv => ContextOwn
    BY <1>1, OwnReplay, ReplayAccepted DEF IInv, ContextOwn
  <1> QED BY <1>2, Inductive, PTL

LEMMA QuietEventCertified ==
    ASSUME OwnContext, NEW e \in Triggers, ~Delayed(e)
    PROVE  Certified(start, Job(e, start)) /\ AuditAccepts(e, start)
  <1>1. OutageWindows(e) = stops
    BY DEF OutageWindows, Inherited, Outage
  <1>2. start \in PhysicalSchedules /\ start \in Schedules /\ Undisturbed(start, OutageWindows(e))
    BY <1>1, StartTypes DEF OwnContext
  <1>3. DOMAIN start = Tasks
    BY <1>2 DEF Schedules
  <1>4. KeepsEvent(e, start)
    BY <1>2, WindowTypes DEF KeepsEvent
  <1>5. AuditAccepts(e, start)
    BY <1>2, <1>4, AuditAcceptsKept
  <1>6. ASSUME NEW t \in DOMAIN FlexibleWindows(e)
        PROVE  start[t] \in FlexibleWindows(e)[t].lower..FlexibleWindows(e)[t].upper
    <2>1. PICK low \in Int, high \in Int, x \in Int :
            /\ low = FlexibleWindows(e)[t].lower /\ high = FlexibleWindows(e)[t].upper
            /\ x = start[t]
      BY WindowTypes, StartTypes DEF OwnContext
    <2>2. low <= x /\ x <= high
      BY <2>1, WindowTypes
    <2> QED BY <2>1, <2>2
  <1>7. Committed(start, Job(e, start))
    BY <1>3, <1>6 DEF Committed, Job, BoundByEvent
  <1> QED BY <1>2, <1>5, <1>7 DEF Certified, Job

\* An event without a delay never fails: the certificate and the audit accept
\* the ACTIVE schedule as it is (_execute_reschedule).
THEOREM QuietEventsNeverFail == Spec => []QuietEventKeepsPlan
  <1>1. IInv => QuietEventKeepsPlan
    BY QuietEventCertified DEF IInv, QuietEventKeepsPlan
  <1> QED BY <1>1, Inductive, PTL

-----------------------------------------------------------------------------
(* The certificate of a local repair: what the repair checks is enough.    *)

Repaired(e, s) ==
    /\ s \in Schedules
    /\ \A t \in Tasks : RoomFor(e, s, t, s[t])

LEMMA RepairedOrder ==
    ASSUME OwnContext, NEW e \in Triggers, NEW s, Repaired(e, s),
           NEW m \in Machines, NEW c \in Circuits(m), ArcsHold(start, m, c)
    PROVE  /\ ArcsHold(s, m, c)
           /\ \A t \in On(m) : SetupBefore(s, t) = SetupBefore(start, t)
  <1>1. start \in Schedules /\ s \in Schedules
    BY StartTypes DEF OwnContext, Repaired
  <1>2. PICK n \in Nat : n = Cardinality(On(m))
    BY ShopTypes
  <1>3. /\ DOMAIN c = 1..n /\ \A i \in 1..n : c[i] \in On(m) /\ c[i] \in Tasks
        /\ \A u \in On(m) : \E i \in 1..n : u = c[i]
    <2>1. c \in Bijection(1..n, On(m)) /\ DOMAIN c = 1..n
      BY <1>1, <1>2, CircuitOrder
    <2> QED BY <2>1, ShopTypes DEF Bijection, Injection, Surjection
  <1>4. \A i \in 1..n : SetupBefore(start, c[i]) = SelectedSetup(m, c, i) /\ SelectedSetup(m, c, i) \in Nat
    BY <1>1, <1>2, CircuitOrder, CircuitSetups
  <1>5. ASSUME NEW i \in 1..n
        PROVE  s[c[i]] - SelectedSetup(m, c, i) >= IF i = 1 THEN 0 ELSE End(s, c[i - 1])
    <2>1. PICK t \in On(m) : t = c[i] /\ t \in Tasks
      BY <1>3
    <2>2. PICK x \in Nat, setup \in Nat : x = s[t] /\ setup = SelectedSetup(m, c, i)
      BY <1>1, <1>4, <2>1, ScheduleTypes
    <2>3. MachineBefore(t) \in SUBSET Tasks /\ \A u \in MachineBefore(t) : s[u] \in Nat
      BY <1>1, <2>1, BeforeTypes, ScheduleTypes
    <2>4. PICK latest \in Nat :
            latest = LatestEnd(s, MachineBefore(t)) /\ \A u \in MachineBefore(t) : latest >= End(s, u)
      BY <2>3, LatestEndTypes
    <2>5. x - setup >= latest
      BY <1>4, <2>1, <2>2, <2>4 DEF Repaired, RoomFor
    <2>6. CASE i = 1
      BY <2>1, <2>2, <2>4, <2>5, <2>6
    <2>7. CASE i # 1
      <3>1. i - 1 \in 1..n /\ i - 1 < i
        BY <1>2, <2>7
      <3>2. PICK u \in On(m) : u = c[i - 1] /\ u \in Tasks
        BY <1>3, <3>1
      <3>3. start[t] - setup >= End(start, u)
        BY <1>1, <1>2, <2>1, <2>2, <3>1, <3>2, CircuitOrder
      <3>4. start[u] < End(start, u) /\ start[u] \in Nat /\ End(start, u) \in Nat /\ start[t] \in Nat
        BY <1>1, <2>1, <3>2, ScheduleTypes
      <3>5. start[u] < start[t]
        BY <2>2, <3>3, <3>4
      <3>6. u \in MachineBefore(t)
        BY <2>1, <3>2, <3>5 DEF MachineBefore, On
      <3>7. End(s, u) \in Nat /\ latest >= End(s, u)
        BY <1>1, <2>4, <3>2, <3>6, ScheduleTypes
      <3>8. x - setup >= End(s, u)
        BY <2>2, <2>4, <2>5, <3>7
      <3> QED BY <2>1, <2>2, <2>7, <3>2, <3>8
    <2> QED BY <2>6, <2>7
  <1>6. ArcsHold(s, m, c)
    BY <1>3, <1>5 DEF ArcsHold
  <1>7. \A i \in 1..n : SetupBefore(s, c[i]) = SelectedSetup(m, c, i)
    BY <1>1, <1>2, <1>6, CircuitSetups
  <1> QED BY <1>3, <1>4, <1>6, <1>7

\* Work in regular shifts of open days, clear of the stops.
Regular(m, slots, W) ==
    /\ \A d \in Nat : Closed(d) => slots \cap DaySlots(d) = {}
    /\ \A d \in Nat : slots \cap NightSlots(m, d) = {}
    /\ \A w \in W : w.machine = m => slots \cap (w.from..(w.to - 1)) = {}

LEMMA ShiftWork ==
    ASSUME NEW t \in Tasks, NEW x \in Nat, NEW setup \in Nat, x - setup \in Nat,
           NEW W, TypedStops(W), FitsShift(t, x, setup, W)
    PROVE  Regular(Operation[t].machine, (x - setup)..(x + Operation[t].duration - 1), W)
  <1>1. PICK m \in Machines : m = Operation[t].machine
    BY ShopTypes
  <1>2. PICK block \in Nat : block = x - setup
    OBVIOUS
  <1>3. PICK done \in Nat : done = x + Operation[t].duration
    BY ShopTypes
  <1>4. PICK slots : slots = block..(done - 1)
    OBVIOUS
  <1>5. slots = (x - setup)..(x + Operation[t].duration - 1)
    <2>1. block = x - setup /\ done - 1 = x + Operation[t].duration - 1
      BY <1>2, <1>3, ShopTypes
    <2> QED BY <1>4, <2>1
  <1>6. PICK k \in Nat, night \in Nat : k = DayLength /\ night = Night[m] /\ night < k
    <2>1. DayLength \in Nat /\ Night[m] \in Nat /\ Night[m] < DayLength
      BY <1>1, ShopTypes
    <2> QED BY <2>1
  <1>7. PICK day \in Nat : day = block \div k
    <2>1. block \div DayLength \in Nat
      <3>1. DayLength \in Nat \ {0} /\ block \in Int /\ block >= 0
        BY <1>2, ShopTypes
      <3>2. block \div DayLength \in Int /\ block \div DayLength >= 0
        BY <3>1, Division
      <3> QED BY <3>2
    <2> QED BY <1>6, <2>1
  <1>8. PICK from \in Nat, to \in Nat : from = day * k /\ to = (day + 1) * k /\ to = from + k
    <2>1. day * k \in Nat /\ (day + 1) * k = day * k + k
      BY <1>6, <1>7
    <2> QED BY <2>1, <1>6
  <1>9. /\ ~Closed(day) /\ block >= from + night /\ done <= to
        /\ \A w \in W : w.machine = m => ~(block < w.to /\ done > w.from)
    BY <1>1, <1>2, <1>3, <1>6, <1>7, <1>8 DEF FitsShift, BlockStart
  <1>10. DaySlots(day) = from..(from + k - 1) /\ NightSlots(m, day) = from..(from + night - 1)
    BY <1>6, <1>8 DEF DaySlots, NightSlots
  <1>11. ASSUME NEW y \in slots
         PROVE  y \in Nat /\ y \in DaySlots(day) /\ y \notin NightSlots(m, day)
    <2>1. PICK z \in block..(done - 1) : z = y
      BY <1>4
    <2>2. z \in Int /\ block <= z /\ z <= done - 1
      BY <1>2, <1>3, <2>1
    <2>3. z >= from + night /\ z <= from + k - 1
      <3>1. /\ from \in Nat /\ to \in Nat /\ to = from + k /\ k \in Nat /\ night \in Nat
            /\ block \in Nat /\ done \in Nat
        BY <1>2, <1>3, <1>6, <1>8
      <3>2. block >= from + night /\ done <= to
        BY <1>9
      <3> QED BY <2>2, <3>1, <3>2
    <2>4. z \in Nat /\ z \in from..(from + k - 1) /\ z \notin from..(from + night - 1)
      BY <1>6, <1>8, <2>2, <2>3
    <2> QED BY <1>10, <2>1, <2>4
  <1>12. ASSUME NEW y \in slots, NEW d \in Nat, y \in DaySlots(d)
        PROVE  d = day
    BY <1>11, <1>12, DayOfSlot
  <1>13. \A d \in Nat : Closed(d) => slots \cap DaySlots(d) = {}
    BY <1>9, <1>12
  <1>14. \A d \in Nat : slots \cap NightSlots(m, d) = {}
    <2>1. \A d \in Nat : NightSlots(m, d) \subseteq DaySlots(d)
      BY NightOfDay
    <2> QED BY <1>11, <1>12, <2>1
  <1>15. ASSUME NEW w \in W, w.machine = m
         PROVE  slots \cap (w.from..(w.to - 1)) = {}
    <2>1. PICK a \in Nat, b \in Nat : a = w.from /\ b = w.to
      BY DEF TypedStops
    <2>2. b <= block \/ done <= a
      BY <1>2, <1>3, <1>9, <1>15, <2>1
    <2>3. (block..(done - 1)) \cap (a..(b - 1)) = {}
      BY <1>2, <1>3, <2>1, <2>2
    <2> QED BY <1>4, <2>1, <2>3
  <1> QED BY <1>1, <1>5, <1>13, <1>14, <1>15 DEF Regular

\* A frozen task works as before; another in regular shifts, clear of stops.
LEMMA RepairedWork ==
    ASSUME OwnContext, NEW e \in Triggers, NEW s, Repaired(e, s), NEW m \in Machines, NEW t \in On(m)
    PROVE  /\ SetupBefore(s, t) = SetupBefore(start, t)
           /\ IF t \in FrozenBy(e) THEN s[t] = start[t] /\ WorkSlots(s, t) = WorkSlots(start, t)
              ELSE Regular(m, WorkSlots(s, t), PlannedStops \cup OutageWindows(e))
  <1>1. t \in Tasks /\ Operation[t].machine = m /\ start \in Schedules /\ Physical(start) /\ s \in Schedules
    BY StartTypes, ShopTypes DEF On, OwnContext, Repaired
  <1>2. PICK c \in Circuits(m) : ArcsHold(start, m, c)
    BY <1>1 DEF Physical
  <1>3. SetupBefore(s, t) = SetupBefore(start, t)
    BY <1>2, RepairedOrder
  <1>4. RoomFor(e, s, t, s[t])
    BY <1>1 DEF Repaired
  <1>5. CASE t \in FrozenBy(e)
    <2>1. s[t] = start[t]
      BY <1>4, <1>5 DEF RoomFor
    <2>2. WorkSlots(s, t) = WorkSlots(start, t)
      BY <1>3, <2>1 DEF WorkSlots, SetupStart, End
    <2> QED BY <1>3, <1>5, <2>1, <2>2
  <1>6. CASE t \notin FrozenBy(e)
    <2>1. PICK x \in Nat, setup \in Nat : x = s[t] /\ setup = SetupBefore(start, t)
      BY <1>1, ScheduleTypes, TaskWork, PhysicalIsSound
    <2>2. PICK latest \in Nat : latest = LatestEnd(s, MachineBefore(t))
      <3>1. MachineBefore(t) \in SUBSET Tasks /\ \A u \in MachineBefore(t) : s[u] \in Nat
        BY <1>1, BeforeTypes, ScheduleTypes
      <3> QED BY <3>1, LatestEndTypes
    <2>3. PICK W : W = PlannedStops \cup OutageWindows(e)
      OBVIOUS
    <2>4. x - setup \in Nat /\ FitsShift(t, x, setup, W)
      <3>1. x - setup >= latest /\ FitsShift(t, x, setup, W)
        BY <1>4, <1>6, <2>1, <2>2, <2>3 DEF RoomFor
      <3> QED BY <2>1, <2>2, <3>1
    <2>5. TypedStops(W)
      BY <2>3, ShopFloorAssumption, OutageTypes DEF TypedStops
    <2>6. Regular(m, (x - setup)..(x + Operation[t].duration - 1), W)
      BY <1>1, <2>1, <2>4, <2>5, ShiftWork
    <2>7. WorkSlots(s, t) = (x - setup)..(x + Operation[t].duration - 1)
      <3>1. SetupStart(s, t) = x - setup
        BY <1>3, <2>1 DEF SetupStart
      <3>2. PICK done \in Nat : done = x + Operation[t].duration /\ done = End(s, t)
        BY <1>1, <2>1, ScheduleTypes DEF End
      <3>3. x + Operation[t].duration - 1 = done - 1
        BY <1>1, <3>2, ShopTypes
      <3>4. WorkSlots(s, t) = (x - setup)..(done - 1)
        BY <3>1, <3>2 DEF WorkSlots
      <3> QED BY <3>3, <3>4
    <2> QED BY <1>3, <1>6, <2>3, <2>6, <2>7
  <1> QED BY <1>5, <1>6

LEMMA RepairedCalendar ==
    ASSUME OwnContext, NEW e \in Triggers, NEW s, Repaired(e, s),
           NEW m \in Machines, NEW c \in Circuits(m), ArcsHold(start, m, c)
    PROVE  CalendarHolds(s, m, c)
  <1>1. start \in Schedules /\ Physical(start) /\ s \in Schedules
    BY StartTypes DEF OwnContext, Repaired
  <1>2. ArcsHold(s, m, c)
    BY RepairedOrder
  <1>3. PICK n \in Nat : n = Cardinality(On(m))
    BY ShopTypes
  <1>4. /\ DOMAIN c = 1..n /\ \A i \in 1..n : c[i] \in On(m)
        /\ \A i \in 1..n : SetupBefore(s, c[i]) = SelectedSetup(m, c, i)
    <2>1. c \in Bijection(1..n, On(m)) /\ DOMAIN c = 1..n
      BY <1>1, <1>2, <1>3, CircuitOrder
    <2> QED BY <1>1, <1>2, <1>3, <2>1, CircuitSetups DEF Bijection, Injection, Surjection
  <1>5. PICK open \in SUBSET FirstWeekDays :
            /\ Cardinality(open) <= MaxNights(m)
            /\ \A t \in On(m) : WorkSlots(start, t) \cap Breaks(m, open) = {}
    BY <1>1, MachineWork DEF KeepsCalendar
  <1>6. ASSUME NEW y \in Busy(s, m, c)
        PROVE  y \notin Breaks(m, open) /\ (y \in FirstNights(m) => y \in Union(Works(start, m), On(m)))
    <2>1. PICK i \in 1..n : y \in (s[c[i]] - SelectedSetup(m, c, i))..(End(s, c[i]) - 1)
      BY <1>4 DEF Busy
    <2>2. PICK t \in On(m) : t = c[i]
      BY <1>4
    <2>3. y \in WorkSlots(s, t)
      BY <1>4, <2>1, <2>2 DEF WorkSlots, SetupStart
    <2>4. CASE t \in FrozenBy(e)
      <3>1. y \in WorkSlots(start, t)
        BY <2>3, <2>4, RepairedWork
      <3>2. y \in Union(Works(start, m), On(m))
        BY <3>1 DEF Union, Works
      <3> QED BY <1>5, <3>1, <3>2
    <2>5. CASE t \notin FrozenBy(e)
      <3>1. /\ \A d \in Nat : Closed(d) => y \notin DaySlots(d)
            /\ \A d \in Nat : y \notin NightSlots(m, d)
        BY <2>3, <2>5, RepairedWork DEF Regular
      <3>2. Days \subseteq Nat
        BY DaysFinite
      <3>3. y \notin FirstNights(m)
        BY <3>1, <3>2 DEF FirstNights, FirstWeekDays
      <3>4. y \notin Breaks(m, open)
        BY <3>1, <3>2 DEF Breaks
      <3> QED BY <3>3, <3>4
    <2> QED BY <2>4, <2>5
  <1>7. Busy(s, m, c) \cap Breaks(m, open) = {}
    BY <1>6
  <1>8. Cardinality(Busy(s, m, c) \cap FirstNights(m)) <= OvertimeBudget[m]
    <2>1. Busy(s, m, c) \cap FirstNights(m) \subseteq Union(Works(start, m), On(m)) \cap FirstNights(m)
      BY <1>6
    <2>2. IsFiniteSet(Union(Works(start, m), On(m)) \cap FirstNights(m))
      BY <1>1, WorkFinite, PhysicalIsSound, FS_Subset
    <2>3. PICK a \in Nat, b \in Nat :
            /\ a = Cardinality(Busy(s, m, c) \cap FirstNights(m))
            /\ b = Cardinality(Union(Works(start, m), On(m)) \cap FirstNights(m)) /\ a <= b
      <3>1. /\ IsFiniteSet(Busy(s, m, c) \cap FirstNights(m))
            /\ Cardinality(Busy(s, m, c) \cap FirstNights(m))
                <= Cardinality(Union(Works(start, m), On(m)) \cap FirstNights(m))
        BY <2>1, <2>2, FS_Subset
      <3> QED BY <2>2, <3>1, FS_CardinalityType
    <2>4. b <= OvertimeBudget[m] /\ OvertimeBudget[m] \in Nat
      BY <1>1, <2>3, MachineWork, ShopTypes DEF KeepsCalendar
    <2> QED BY <2>3, <2>4
  <1> QED BY <1>5, <1>7, <1>8 DEF CalendarHolds, Charged, FirstNights

LEMMA RepairedPhysical ==
    ASSUME OwnContext, NEW e \in Triggers, NEW s, Repaired(e, s), SublotsInOrder(s)
    PROVE  s \in PhysicalSchedules
  <1>1. start \in Schedules /\ Physical(start) /\ s \in Schedules
    BY StartTypes DEF OwnContext, Repaired
  <1>2. Undisturbed(s, PlannedStops)
    <2> SUFFICES ASSUME NEW w \in PlannedStops, NEW t \in On(w.machine)
                 PROVE  WorkSlots(s, t) \cap (w.from..(w.to - 1)) = {}
      BY DEF Undisturbed
    <2>1. PICK m \in Machines : m = w.machine /\ t \in On(m)
      BY ShopFloorAssumption
    <2>2. CASE t \in FrozenBy(e)
      <3>1. WorkSlots(s, t) = WorkSlots(start, t)
        BY <2>1, <2>2, RepairedWork
      <3>2. WorkSlots(start, t) \cap (w.from..(w.to - 1)) = {}
        BY <1>1 DEF Physical, Undisturbed
      <3> QED BY <3>1, <3>2
    <2>3. CASE t \notin FrozenBy(e)
      <3>1. Regular(m, WorkSlots(s, t), PlannedStops \cup OutageWindows(e))
        BY <2>1, <2>3, RepairedWork
      <3> QED BY <2>1, <3>1 DEF Regular
    <2> QED BY <2>2, <2>3
  <1>3. ASSUME NEW t \in Tasks, NEW u \in Tasks,
               Operation[t].lot = Operation[u].lot, Operation[t].seq < Operation[u].seq
        PROVE  s[u] >= End(s, t)
    <2>1. MachineBefore(u) \cup LotBefore(u) \in SUBSET Tasks /\ \A v \in Tasks : s[v] \in Nat
      BY <1>1, BeforeTypes, ScheduleTypes
    <2>2. PICK latest \in Nat :
            /\ latest = LatestEnd(s, MachineBefore(u) \cup LotBefore(u))
            /\ \A v \in MachineBefore(u) \cup LotBefore(u) : latest >= End(s, v)
      BY <2>1, LatestEndTypes
    <2>3. t \in LotBefore(u)
      BY <1>3 DEF LotBefore, LotOf
    <2>4. s[u] >= latest /\ latest >= End(s, t)
      BY <2>2, <2>3 DEF Repaired, RoomFor
    <2>5. s[u] \in Nat /\ End(s, t) \in Nat
      BY <1>1, ScheduleTypes
    <2> QED BY <2>2, <2>4, <2>5
  <1>4. ASSUME NEW t \in Tasks PROVE s[t] >= Operation[t].release
    <2>1. CASE t \in FrozenBy(e)
      <3>1. s[t] = start[t]
        BY <2>1 DEF Repaired, RoomFor
      <3> QED BY <1>1, <3>1, ReleaseKept, PhysicalIsSound
    <2>2. CASE t \notin FrozenBy(e)
      BY <2>2 DEF Repaired, RoomFor
    <2> QED BY <2>1, <2>2
  <1>5. RouteHolds(s)
    BY <1>3, <1>4 DEF RouteHolds
  <1>6. ASSUME NEW m \in Machines PROVE \E c \in Circuits(m) : ArcsHold(s, m, c) /\ CalendarHolds(s, m, c)
    <2>1. PICK c \in Circuits(m) : ArcsHold(start, m, c)
      BY <1>1 DEF Physical
    <2> QED BY <2>1, RepairedOrder, RepairedCalendar
  <1>7. Physical(s)
    BY <1>2, <1>5, <1>6 DEF Physical
  <1> QED BY <1>1, <1>7 DEF PhysicalSchedules

\* The event's own outage begins after the frozen work of its machine.
LEMMA RepairedUndisturbed ==
    ASSUME OwnContext, NEW e \in Triggers, NEW s, Repaired(e, s)
    PROVE  Undisturbed(s, OutageWindows(e))
  <1> SUFFICES ASSUME NEW w \in OutageWindows(e), NEW t \in On(w.machine)
               PROVE  WorkSlots(s, t) \cap (w.from..(w.to - 1)) = {}
    BY DEF Undisturbed
  <1>1. start \in Schedules /\ Physical(start) /\ t \in Tasks
    BY StartTypes, ShopTypes DEF OwnContext
  <1>2. PICK m \in Machines : m = w.machine /\ t \in On(m)
    BY <1>1, ShopTypes DEF On
  <1>3. CASE t \notin FrozenBy(e)
    <2>1. Regular(m, WorkSlots(s, t), PlannedStops \cup OutageWindows(e))
      BY <1>2, <1>3, RepairedWork
    <2> QED BY <1>2, <2>1 DEF Regular
  <1>4. CASE t \in FrozenBy(e)
    <2>1. WorkSlots(s, t) = WorkSlots(start, t)
      BY <1>2, <1>4, RepairedWork
    <2>2. CASE w \in stops
      BY <2>1, <2>2 DEF OwnContext, Undisturbed
    <2>3. CASE w \in Outage(e)
      <3>1. w = [machine |-> e.machine, from |-> OutageFrom(e), to |-> OutageFrom(e) + e.delay]
        BY <2>3 DEF Outage
      <3>2. w.machine = e.machine /\ w.from = OutageFrom(e)
        BY <3>1
      <3>3. PICK a \in Nat, b \in Nat, from \in Nat, to \in Nat :
                /\ a = SetupStart(start, t) /\ b = End(start, t) /\ from = w.from /\ to = w.to
        BY <1>1, TaskWork, PhysicalIsSound, OutageTypes DEF TypedStops
      <3>4. b <= from
        BY <1>4, <3>2, <3>3, OutageTypes
      <3>5. (a..(b - 1)) \cap (from..(to - 1)) = {}
        BY <3>3, <3>4
      <3> QED BY <2>1, <3>3, <3>5 DEF WorkSlots
    <2> QED BY <2>2, <2>3 DEF OutageWindows, Inherited
  <1> QED BY <1>3, <1>4

LEMMA RepairedCertified ==
    ASSUME OwnContext, NEW e \in Triggers, NEW s, Repaired(e, s), SublotsInOrder(s)
    PROVE  Certified(s, Job(e, s))
  <1>1. s \in PhysicalSchedules /\ Undisturbed(s, OutageWindows(e))
    BY RepairedPhysical, RepairedUndisturbed
  <1>2. DOMAIN s = Tasks
    BY DEF Repaired, Schedules
  <1>3. \A t \in Tasks : SetupBefore(s, t) = SetupBefore(start, t)
    BY RepairedWork, ShopTypes
  <1>4. ASSUME NEW t \in DOMAIN FlexibleWindows(e)
        PROVE  s[t] \in FlexibleWindows(e)[t].lower..FlexibleWindows(e)[t].upper
    <2>1. RoomFor(e, s, t, s[t]) /\ t \notin FrozenBy(e)
      BY WindowTypes DEF Repaired
    <2>2. PICK low \in Int, high \in Int, x \in Int :
            /\ low = FlexibleWindows(e)[t].lower /\ high = FlexibleWindows(e)[t].upper /\ x = s[t]
      BY <2>1, WindowTypes DEF RoomFor
    <2>3. low <= x /\ x <= high
      BY <2>1, <2>2 DEF RoomFor
    <2> QED BY <2>2, <2>3
  <1>5. Committed(s, Job(e, s))
    BY <1>2, <1>3, <1>4 DEF Committed, Job, BoundByEvent
  <1> QED BY <1>1, <1>5 DEF Certified, Job

\* What local_repair_candidate checks of each task it places is everything the
\* exact certificate asks, the order of transfer sublots apart.
THEOREM RepairsAreCertified == Spec => []RepairIsCertified
  <1>1. ASSUME OwnContext, NEW e \in Triggers, Delayed(e), NEW s \in RepairCandidates(e),
               SublotsInOrder(s), s \in Schedules
        PROVE  Certified(s, Job(e, s))
    <2>1. s = LocalRepair(e) /\ DOMAIN s = Tasks
      BY <1>1 DEF RepairCandidates
    <2>2. Repaired(e, s)
      BY <1>1, <2>1, RepairPlaces DEF Repaired
    <2> QED BY <1>1, <2>2, RepairedCertified
  <1>2. IInv => RepairIsCertified
    BY <1>1 DEF IInv, RepairIsCertified
  <1> QED BY <1>2, Inductive, PTL

-----------------------------------------------------------------------------
(* The books of an admitted plan.                                          *)

\* The slots of processing and of setups of a machine.
Processing(s, m) == Spans(s, [t \in On(m) |-> End(s, t)], On(m))
SettingUp(s, m) == Spans([t \in On(m) |-> SetupStart(s, t)], s, On(m))
Processed(s, m) == Union(Processing(s, m), On(m))
SetUp(s, m) == Union(SettingUp(s, m), On(m))

LEMMA SharedIsInCommon ==
    ASSUME NEW a, NEW b, NEW from, NEW to
    PROVE  Shared(a, b, from, to) = InCommon(a, b, from, to)
  BY DEF Shared, InCommon

LEMMA MinutesApart ==
    ASSUME NEW s \in Schedules, Physical(s), NEW m \in Machines
    PROVE  /\ Apart(Processing(s, m), On(m)) /\ Apart(SettingUp(s, m), On(m))
           /\ \A t \in On(m) : /\ Processing(s, m)[t] \cup SettingUp(s, m)[t] = WorkSlots(s, t)
                               /\ Processing(s, m)[t] \cap SettingUp(s, m)[t] = {}
  <1>4. ASSUME NEW t \in On(m)
        PROVE  /\ s[t] \in Int /\ End(s, t) \in Int /\ SetupStart(s, t) \in Int
               /\ SetupStart(s, t) <= s[t] /\ s[t] < End(s, t)
    BY ShopTypes, TaskWork, PhysicalIsSound
  <1>6. ASSUME NEW t \in On(m)
        PROVE  /\ Processing(s, m)[t] \cup SettingUp(s, m)[t] = WorkSlots(s, t)
               /\ Processing(s, m)[t] \cap SettingUp(s, m)[t] = {}
    <2>1. PICK p \in Int, q \in Int, r \in Int :
            p = SetupStart(s, t) /\ q = s[t] /\ r = End(s, t) /\ p <= q /\ q < r
      BY <1>4
    <2>2. SettingUp(s, m)[t] = p..(q - 1) /\ Processing(s, m)[t] = q..(r - 1) /\ WorkSlots(s, t) = p..(r - 1)
      BY <1>4, <2>1 DEF SettingUp, Processing, Spans, WorkSlots
    <2> QED BY <2>1, <2>2
  <1>7. \A t, u \in On(m) : t # u => WorkSlots(s, t) \cap WorkSlots(s, u) = {}
    BY WorkApart, PhysicalIsSound
  <1>8. Apart(Processing(s, m), On(m)) /\ Apart(SettingUp(s, m), On(m))
    BY <1>6, <1>7 DEF Apart
  <1> QED BY <1>6, <1>8

LEMMA MachineMinutes ==
    ASSUME NEW s \in Schedules, Physical(s), NEW m \in Machines
    PROVE  /\ IsFiniteSet(Processed(s, m)) /\ IsFiniteSet(SetUp(s, m))
           /\ Processed(s, m) \cap SetUp(s, m) = {}
           /\ Processed(s, m) \cup SetUp(s, m) = Union(Works(s, m), On(m))
           /\ \A from, to \in Int :
                /\ ProcessedIn(s, m, from, to) = Cardinality(Processed(s, m) \cap Window(from, to))
                /\ SetUpIn(s, m, from, to) = Cardinality(SetUp(s, m) \cap Window(from, to))
  <1>1. IsFiniteSet(On(m)) /\ On(m) \subseteq Tasks
    BY ShopTypes
  <1>2. PICK ends : ends = [t \in On(m) |-> End(s, t)]
    OBVIOUS
  <1>3. PICK setups : setups = [t \in On(m) |-> SetupStart(s, t)]
    OBVIOUS
  <1>4. ASSUME NEW t \in On(m)
        PROVE  /\ s[t] \in Int /\ ends[t] \in Int /\ setups[t] \in Int
               /\ setups[t] <= s[t] /\ s[t] < ends[t]
               /\ ends[t] = End(s, t) /\ setups[t] = SetupStart(s, t)
    BY <1>1, <1>2, <1>3, TaskWork, PhysicalIsSound
  <1>5. IntegersOn(s, On(m)) /\ IntegersOn(ends, On(m)) /\ IntegersOn(setups, On(m))
    BY <1>4 DEF IntegersOn
  <1>6. \A t \in On(m) : /\ Processing(s, m)[t] \cup SettingUp(s, m)[t] = WorkSlots(s, t)
                        /\ Processing(s, m)[t] \cap SettingUp(s, m)[t] = {}
    BY MinutesApart
  <1>7. \A t, u \in On(m) : t # u => WorkSlots(s, t) \cap WorkSlots(s, u) = {}
    BY WorkApart, PhysicalIsSound
  <1>8. Apart(Processing(s, m), On(m)) /\ Apart(SettingUp(s, m), On(m))
    BY MinutesApart
  <1>9. Processed(s, m) \cap SetUp(s, m) = {}
    BY <1>6, <1>7 DEF Processed, SetUp, Union
  <1>10. Processed(s, m) \cup SetUp(s, m) = Union(Works(s, m), On(m))
    BY <1>6 DEF Processed, SetUp, Union, Works
  <1>11. ASSUME NEW from \in Int, NEW to \in Int
         PROVE  /\ ProcessedIn(s, m, from, to) = Cardinality(Processed(s, m) \cap Window(from, to))
                /\ SetUpIn(s, m, from, to) = Cardinality(SetUp(s, m) \cap Window(from, to))
                /\ IsFiniteSet(Processed(s, m)) /\ IsFiniteSet(SetUp(s, m))
    <2>1. PICK g : g = [t \in On(m) |-> Shared(s[t], End(s, t), from, to)]
      OBVIOUS
    <2>2. PICK h : h = [t \in On(m) |-> Shared(SetupStart(s, t), s[t], from, to)]
      OBVIOUS
    <2>3. Overlaps(g, s, ends, On(m), from, to)
      BY <1>4, <2>1, SharedIsInCommon DEF Overlaps
    <2>4. Overlaps(h, setups, s, On(m), from, to)
      BY <1>4, <2>2, SharedIsInCommon DEF Overlaps
    <2>5. Processing(s, m) = Spans(s, ends, On(m)) /\ SettingUp(s, m) = Spans(setups, s, On(m))
      BY <1>2, <1>3 DEF Processing, SettingUp
    <2>6. /\ Total(g, On(m)) = Cardinality(Processed(s, m) \cap Window(from, to))
          /\ IsFiniteSet(Processed(s, m)) /\ \A t \in On(m) : g[t] \in Int
      <3>1. Apart(Spans(s, ends, On(m)), On(m))
        BY <1>8, <2>5
      <3>2. Processed(s, m) = Union(Spans(s, ends, On(m)), On(m))
        BY <2>5 DEF Processed
      <3>3. \A t \in On(m) : g[t] \in Int
        BY <1>1, <1>5, <1>11, <2>3, <3>1, OverlapsAddUp
      <3>4. Total(g, On(m)) = Cardinality(Union(Spans(s, ends, On(m)), On(m)) \cap Window(from, to))
        BY <1>1, <1>5, <1>11, <2>3, <3>1, OverlapsAddUp
      <3>5. IsFiniteSet(Union(Spans(s, ends, On(m)), On(m)))
        BY <1>1, <1>5, <1>11, <2>3, <3>1, OverlapsAddUp
      <3> QED BY <3>2, <3>3, <3>4, <3>5
    <2>7. /\ Total(h, On(m)) = Cardinality(SetUp(s, m) \cap Window(from, to))
          /\ IsFiniteSet(SetUp(s, m)) /\ \A t \in On(m) : h[t] \in Int
      <3>1. Apart(Spans(setups, s, On(m)), On(m))
        BY <1>8, <2>5
      <3>2. SetUp(s, m) = Union(Spans(setups, s, On(m)), On(m))
        BY <2>5 DEF SetUp
      <3>3. \A t \in On(m) : h[t] \in Int
        BY <1>1, <1>5, <1>11, <2>4, <3>1, OverlapsAddUp
      <3>4. Total(h, On(m)) = Cardinality(Union(Spans(setups, s, On(m)), On(m)) \cap Window(from, to))
        BY <1>1, <1>5, <1>11, <2>4, <3>1, OverlapsAddUp
      <3>5. IsFiniteSet(Union(Spans(setups, s, On(m)), On(m)))
        BY <1>1, <1>5, <1>11, <2>4, <3>1, OverlapsAddUp
      <3> QED BY <3>2, <3>3, <3>4, <3>5
    <2>8. DOMAIN g = On(m) /\ DOMAIN h = On(m)
      BY <2>1, <2>2
    <2>9. ProcessedIn(s, m, from, to) = SumFunction(g) /\ SetUpIn(s, m, from, to) = SumFunction(h)
      BY <2>1, <2>2 DEF ProcessedIn, SetUpIn
    <2> QED BY <1>1, <2>6, <2>7, <2>8, <2>9, SumIsTotal
  <1>12. IsFiniteSet(Processed(s, m)) /\ IsFiniteSet(SetUp(s, m))
    <2>1. 0 \in Int
      OBVIOUS
    <2> QED BY <1>11, <2>1
  <1> QED BY <1>9, <1>10, <1>11, <1>12

LEMMA MinutesIn ==
    ASSUME NEW s \in Schedules, Physical(s), NEW m \in Machines, NEW from \in Int, NEW to \in Int
    PROVE  /\ ProcessedIn(s, m, from, to) = Cardinality(Processed(s, m) \cap Window(from, to))
           /\ SetUpIn(s, m, from, to) = Cardinality(SetUp(s, m) \cap Window(from, to))
  BY MachineMinutes

\* The slots of a machine's open time in the reports.
OpenDayset == {d \in Days : ~Closed(d)}
OpenSpans(m) ==
    Spans([d \in OpenDayset |-> OpensAt(m, d)], [d \in OpenDayset |-> (d + 1) * DayLength], OpenDayset)
OpenSlots(m) == Union(OpenSpans(m), OpenDayset)

LEMMA DayOpens ==
    ASSUME NEW m \in Machines, NEW d \in Days
    PROVE  /\ OpensAt(m, d) \in Nat /\ (d + 1) * DayLength \in Nat
           /\ OpensAt(m, d)..((d + 1) * DayLength - 1) =
                IF FirstWeek(d) /\ OvertimeBudget[m] > 0 THEN DaySlots(d)
                ELSE DaySlots(d) \ NightSlots(m, d)
  <1>1. PICK k \in Nat, q \in Nat, n \in Nat : k = DayLength /\ q = d * k /\ n = Night[m] /\ n < k
    <2>1. d \in Nat
      BY DaysFinite
    <2>2. DayLength \in Nat /\ d * DayLength \in Nat /\ Night[m] \in Nat /\ Night[m] < DayLength
      BY <2>1, ShopTypes
    <2> QED BY <2>2
  <1>2. (d + 1) * DayLength = q + k
    <2>1. d \in Nat
      BY DaysFinite
    <2> QED BY <1>1, <2>1
  <1>3. NightSlots(m, d) = q..(q + n - 1) /\ DaySlots(d) = q..(q + k - 1)
    BY <1>1 DEF NightSlots, DaySlots
  <1>4. CASE FirstWeek(d) /\ OvertimeBudget[m] > 0
    <2>1. OpensAt(m, d) = q
      BY <1>1, <1>4 DEF OpensAt
    <2> QED BY <1>1, <1>2, <1>3, <1>4, <2>1
  <1>5. CASE ~(FirstWeek(d) /\ OvertimeBudget[m] > 0)
    <2>1. OpensAt(m, d) = q + n
      BY <1>1, <1>5 DEF OpensAt
    <2>2. (q + n)..(q + k - 1) = (q..(q + k - 1)) \ (q..(q + n - 1))
      BY <1>1
    <2>3. OpensAt(m, d)..((d + 1) * DayLength - 1) = (q + n)..(q + k - 1)
      BY <1>2, <2>1
    <2>4. OpensAt(m, d)..((d + 1) * DayLength - 1) = DaySlots(d) \ NightSlots(m, d)
      BY <1>3, <2>2, <2>3
    <2>5. OpensAt(m, d) \in Nat /\ (d + 1) * DayLength \in Nat
      BY <1>1, <1>2, <2>1
    <2> QED BY <1>5, <2>4, <2>5
  <1> QED BY <1>4, <1>5

LEMMA OpenMinutesCounted ==
    ASSUME NEW m \in Machines
    PROVE  /\ IsFiniteSet(OpenSlots(m))
           /\ \A from, to \in Int :
                OpenMinutes(m, from, to) = Cardinality(OpenSlots(m) \cap Window(from, to))
  <1>1. IsFiniteSet(OpenDayset)
    <2>1. OpenDayset \subseteq Days
      BY DEF OpenDayset
    <2> QED BY <2>1, DaysFinite, FS_Subset
  <1>2. PICK a : a = [d \in OpenDayset |-> OpensAt(m, d)]
    OBVIOUS
  <1>3. PICK b : b = [d \in OpenDayset |-> (d + 1) * DayLength]
    OBVIOUS
  <1>4. \A d \in OpenDayset : d \in Days /\ a[d] = OpensAt(m, d) /\ b[d] = (d + 1) * DayLength
    BY <1>2, <1>3 DEF OpenDayset
  <1>5. IntegersOn(a, OpenDayset) /\ IntegersOn(b, OpenDayset)
    <2>1. ASSUME NEW d \in OpenDayset PROVE OpensAt(m, d) \in Int /\ (d + 1) * DayLength \in Int
      <3>1. d \in Days
        BY <1>4
      <3>2. OpensAt(m, d) \in Nat /\ (d + 1) * DayLength \in Nat
        BY <3>1, DayOpens
      <3> QED BY <3>2
    <2> QED BY <1>4, <2>1 DEF IntegersOn
  <1>6. OpenSpans(m) = Spans(a, b, OpenDayset)
    BY <1>2, <1>3 DEF OpenSpans
  <1>7. Apart(Spans(a, b, OpenDayset), OpenDayset)
    <2> SUFFICES ASSUME NEW d \in OpenDayset, NEW e \in OpenDayset, d # e,
                        NEW x, x \in Spans(a, b, OpenDayset)[d], x \in Spans(a, b, OpenDayset)[e]
                 PROVE  FALSE
      BY DEF Apart
    <2>1. Spans(a, b, OpenDayset)[d] \subseteq DaySlots(d)
      BY <1>4, DayOpens DEF Spans
    <2>2. Spans(a, b, OpenDayset)[e] \subseteq DaySlots(e)
      BY <1>4, DayOpens DEF Spans
    <2>3. d \in Nat /\ e \in Nat /\ DaySlots(d) \subseteq Nat
      BY <1>4, DaysFinite, NightOfDay
    <2> QED BY <2>1, <2>2, <2>3, DayOfSlot
  <1>8. ASSUME NEW from \in Int, NEW to \in Int
        PROVE  /\ OpenMinutes(m, from, to) = Cardinality(OpenSlots(m) \cap Window(from, to))
               /\ IsFiniteSet(OpenSlots(m))
    <2>1. PICK g : g = [d \in OpenDayset |-> Shared(OpensAt(m, d), (d + 1) * DayLength, from, to)]
      OBVIOUS
    <2>2. Overlaps(g, a, b, OpenDayset, from, to)
      BY <1>4, <2>1, SharedIsInCommon DEF Overlaps
    <2>3. \A d \in OpenDayset : g[d] \in Int
      BY <1>1, <1>5, <1>7, <1>8, <2>2, OverlapsAddUp
    <2>4. Total(g, OpenDayset) = Cardinality(Union(Spans(a, b, OpenDayset), OpenDayset) \cap Window(from, to))
      BY <1>1, <1>5, <1>7, <1>8, <2>2, OverlapsAddUp
    <2>5. IsFiniteSet(Union(Spans(a, b, OpenDayset), OpenDayset))
      BY <1>1, <1>5, <1>7, <1>8, <2>2, OverlapsAddUp
    <2>6. OpenMinutes(m, from, to) = SumFunction(g) /\ DOMAIN g = OpenDayset
      BY <2>1 DEF OpenMinutes, OpenDayset
    <2>7. SumFunction(g) = Total(g, OpenDayset)
      BY <1>1, <2>3, <2>6, SumIsTotal
    <2>8. OpenSlots(m) = Union(Spans(a, b, OpenDayset), OpenDayset)
      BY <1>6 DEF OpenSlots
    <2> QED BY <2>4, <2>5, <2>6, <2>7, <2>8
  <1>9. IsFiniteSet(OpenSlots(m))
    <2>1. 0 \in Int
      OBVIOUS
    <2> QED BY <1>8, <2>1
  <1> QED BY <1>8, <1>9

LEMMA MakespanOfPlan ==
    ASSUME NEW s \in Schedules
    PROVE  /\ Makespan(s) \in Nat \ {0} /\ Makespan(s) <= Horizon
           /\ \A t \in Tasks : End(s, t) <= Makespan(s)
  <1> DEFINE ends == {End(s, t) : t \in Tasks}
  <1>1. ends # {} /\ ends \subseteq 0..Horizon
    BY ScheduleTypes, ShopTypes
  <1>2. Makespan(s) = Max(ends)
    BY DEF Makespan
  <1>3. Max(ends) \in ends /\ \A y \in ends : Max(ends) >= y
    <2> HIDE DEF ends
    <2> QED BY <1>1, ShopTypes, Greatest
  <1>4. PICK u \in Tasks : Makespan(s) = End(s, u)
    BY <1>2, <1>3
  <1>5. \A t \in Tasks : Makespan(s) >= End(s, t) /\ End(s, t) \in Nat
    BY <1>2, <1>3, ScheduleTypes
  <1> QED BY <1>4, <1>5, ScheduleTypes

\* A larger number has no smaller quotient.
LEMMA QuotientOrder ==
    ASSUME NEW n \in Nat, NEW p \in Nat, n <= p, NEW k \in Nat \ {0}
    PROVE  /\ n \div k \in Nat /\ p \div k \in Nat /\ n \div k <= p \div k
           /\ (n \div k) * k <= n /\ n < (n \div k) * k + k
  <1>1. PICK d \in Nat, i \in 0..(k - 1) : d = n \div k /\ n = d * k + i
    <2>1. n \div k \in Nat /\ n % k \in 0..(k - 1) /\ n = k * (n \div k) + (n % k)
      <3>1. k \in Nat \ {0} /\ n \in Int /\ n >= 0
        OBVIOUS
      <3>2. /\ n \div k \in Int /\ n % k \in 0..(k - 1)
            /\ n = k * (n \div k) + (n % k) /\ n \div k >= 0
        BY <3>1, Division
      <3> QED BY <3>2
    <2>2. k * (n \div k) = (n \div k) * k
      BY <2>1
    <2> QED BY <2>1, <2>2
  <1>2. PICK e \in Nat, j \in 0..(k - 1) : e = p \div k /\ p = e * k + j
    <2>1. p \div k \in Nat /\ p % k \in 0..(k - 1) /\ p = k * (p \div k) + (p % k)
      <3>1. k \in Nat \ {0} /\ p \in Int /\ p >= 0
        OBVIOUS
      <3>2. /\ p \div k \in Int /\ p % k \in 0..(k - 1)
            /\ p = k * (p \div k) + (p % k) /\ p \div k >= 0
        BY <3>1, Division
      <3> QED BY <3>2
    <2>2. k * (p \div k) = (p \div k) * k
      BY <2>1
    <2> QED BY <2>1, <2>2
  <1>3. d <= e
    <2> SUFFICES ASSUME e < d PROVE FALSE
      BY <1>1, <1>2
    <2>1. e * k + k <= d * k
      BY ProductOrder
    <2>2. PICK a \in Nat, b \in Nat : a = d * k /\ b = e * k
      BY <1>1, <1>2
    <2> QED BY <1>1, <1>2, <2>1, <2>2
  <1>4. PICK a \in Nat : a = d * k
    BY <1>1
  <1> QED BY <1>1, <1>2, <1>3, <1>4

\* The slices of the profile: disjoint, and together the plan's slots.
SliceSpans(s) == [from \in Slices(s) |-> Window(from, SliceEnd(s, from))]

LEMMA SliceTypes ==
    ASSUME NEW s \in Schedules, NEW from \in Slices(s)
    PROVE  /\ from \in Nat /\ SliceEnd(s, from) \in Nat
           /\ SliceEnd(s, from) <= Makespan(s) /\ SliceEnd(s, from) <= from + Slice
           /\ SliceEnd(s, from) = from + Slice \/ SliceEnd(s, from) = Makespan(s)
           /\ \E k \in 0..((Makespan(s) - 1) \div Slice) : from = k * Slice
  <1>1. PICK e \in Nat : e = Makespan(s)
    BY MakespanOfPlan
  <1>2. PICK w \in Nat : w = Slice
    BY EconomicsAssumption
  <1>3. PICK k \in 0..((Makespan(s) - 1) \div Slice) : from = k * Slice
    BY DEF Slices
  <1>4. from \in Nat
    <2>1. k \in Nat
      OBVIOUS
    <2> QED BY <1>2, <1>3, <2>1
  <1>5. SliceEnd(s, from) = IF from + w <= e THEN from + w ELSE e
    <2>1. from + w \in Int /\ e \in Int
      BY <1>4
    <2>2. Min({from + w, e}) = IF from + w <= e THEN from + w ELSE e
      BY <2>1, Larger
    <2> QED BY <1>1, <1>2, <2>2 DEF SliceEnd
  <1> QED BY <1>1, <1>2, <1>3, <1>4, <1>5

LEMMA SlicesFinite ==
    ASSUME NEW s \in Schedules
    PROVE  IsFiniteSet(Slices(s))
  <1>1. PICK K : K = 0..((Makespan(s) - 1) \div Slice)
    OBVIOUS
  <1>2. IsFiniteSet(K)
    <2>1. Slice \in Nat \ {0} /\ Makespan(s) - 1 \in Int
      BY EconomicsAssumption, MakespanOfPlan
    <2>2. (Makespan(s) - 1) \div Slice \in Int
      BY <2>1, Division
    <2> QED BY <1>1, <2>2, FS_Interval
  <1>3. PICK g : g = [k \in K |-> k * Slice]
    OBVIOUS
  <1>4. Slices(s) = {g[k] : k \in K}
    BY <1>1, <1>3 DEF Slices
  <1> QED BY <1>2, <1>4, FiniteImage

LEMMA SlicesCover ==
    ASSUME NEW s \in Schedules
    PROVE  /\ Apart(SliceSpans(s), Slices(s))
           /\ \A x \in 0..(Makespan(s) - 1) : \E from \in Slices(s) : x \in SliceSpans(s)[from]
  <1>1. PICK e \in Nat \ {0} : e = Makespan(s)
    BY MakespanOfPlan
  <1>2. PICK w \in Nat \ {0} : w = Slice
    BY EconomicsAssumption
  <1>3. ASSUME NEW from \in Slices(s)
        PROVE  SliceSpans(s)[from] = from..(SliceEnd(s, from) - 1)
    BY DEF SliceSpans, Window
  <1>4. Apart(SliceSpans(s), Slices(s))
    <2> SUFFICES ASSUME NEW a \in Slices(s), NEW b \in Slices(s), a # b,
                        NEW x, x \in SliceSpans(s)[a], x \in SliceSpans(s)[b]
                 PROVE  FALSE
      BY DEF Apart
    <2>1. PICK k \in Nat : a = k * w
      BY <1>2, SliceTypes
    <2>2. PICK l \in Nat : b = l * w
      BY <1>2, SliceTypes
    <2>3. k # l
      BY <2>1, <2>2
    <2>4. a + w <= b \/ b + w <= a
      <3>1. k < l => a + w <= b
        BY <2>1, <2>2, ProductOrder
      <3>2. l < k => b + w <= a
        BY <2>1, <2>2, ProductOrder
      <3> QED BY <2>3, <3>1, <3>2
    <2>5. PICK p \in Nat, q \in Nat : p = SliceEnd(s, a) /\ q = SliceEnd(s, b) /\ p <= a + w /\ q <= b + w
      BY <1>2, SliceTypes
    <2>6. x \in a..(p - 1) /\ x \in b..(q - 1) /\ a \in Nat /\ b \in Nat
      BY <1>3, <2>5, SliceTypes
    <2> QED BY <2>4, <2>5, <2>6
  <1>5. ASSUME NEW x \in 0..(Makespan(s) - 1)
        PROVE  \E from \in Slices(s) : x \in SliceSpans(s)[from]
    <2>1. PICK n \in Nat : n = e - 1 /\ x \in Nat /\ x <= n
      BY <1>1
    <2>2. PICK k \in Nat : k = x \div w /\ k <= n \div w /\ k * w <= x /\ x < k * w + w /\ n \div w \in Nat
      BY <1>2, <2>1, QuotientOrder
    <2>3. k \in 0..((Makespan(s) - 1) \div Slice)
      BY <1>1, <1>2, <2>1, <2>2
    <2>4. PICK from \in Slices(s) : from = k * w
      BY <1>2, <2>3 DEF Slices
    <2>5. SliceEnd(s, from) = from + w \/ SliceEnd(s, from) = e
      BY <1>1, <1>2, SliceTypes
    <2>6. from \in Nat /\ SliceEnd(s, from) \in Nat
      BY SliceTypes
    <2>7. x \in from..(SliceEnd(s, from) - 1)
      BY <2>1, <2>2, <2>4, <2>5, <2>6
    <2> QED BY <1>3, <2>7
  <1> QED BY <1>4, <1>5

\* What is counted slice by slice is counted once.
CountsIn(g, W, s) == \A from \in Slices(s) : g[from] = Cardinality(W \cap Window(from, SliceEnd(s, from)))

LEMMA SlicesAddUp ==
    ASSUME NEW s \in Schedules, NEW W, IsFiniteSet(W), W \subseteq 0..(Makespan(s) - 1),
           NEW g, DOMAIN g = Slices(s), CountsIn(g, W, s)
    PROVE  SumFunction(g) = Cardinality(W)
  <1>1. PICK F : F = [from \in Slices(s) |-> W \cap Window(from, SliceEnd(s, from))]
    OBVIOUS
  <1>2. Sizes(g, F, Slices(s))
    <2> SUFFICES ASSUME NEW from \in Slices(s) PROVE IsFiniteSet(F[from]) /\ g[from] = Cardinality(F[from])
      BY DEF Sizes
    <2>1. F[from] \subseteq W
      BY <1>1
    <2>2. IsFiniteSet(F[from])
      BY <2>1, FS_Subset
    <2> QED BY <1>1, <2>2 DEF CountsIn
  <1>3. Apart(F, Slices(s))
    BY <1>1, SlicesCover DEF Apart, SliceSpans
  <1>4. Union(F, Slices(s)) = W
    <2>1. \A from \in Slices(s) : F[from] = W \cap SliceSpans(s)[from]
      BY <1>1 DEF SliceSpans
    <2>2. \A x \in W : \E from \in Slices(s) : x \in F[from]
      BY <2>1, SlicesCover
    <2>3. \A from \in Slices(s) : F[from] \subseteq W
      BY <1>1
    <2> QED BY <2>2, <2>3 DEF Union
  <1>5. Total(g, Slices(s)) = Cardinality(W)
    BY <1>2, <1>3, <1>4, SlicesFinite, SumOfSizes
  <1>6. \A from \in Slices(s) : g[from] \in Int
    BY <1>2, FS_CardinalityType DEF Sizes
  <1> QED BY <1>5, <1>6, SlicesFinite, SumIsTotal

\* A plan works in the open calendar of the reports only.
LEMMA WorkIsOpen ==
    ASSUME NEW s \in Schedules, Physical(s), NEW m \in Machines
    PROVE  Union(Works(s, m), On(m)) \subseteq OpenSlots(m) \cap (0..(Makespan(s) - 1))
  <1> SUFFICES ASSUME NEW t \in On(m), NEW x \in WorkSlots(s, t)
               PROVE  x \in OpenSlots(m) /\ x \in 0..(Makespan(s) - 1)
    BY DEF Union, Works
  <1>1. x \in 0..(Makespan(s) - 1) /\ x \in Nat /\ x <= Horizon
    <2>1. PICK a \in Nat, b \in Nat, e \in Nat, h \in Nat :
            /\ a = SetupStart(s, t) /\ b = End(s, t) /\ e = Makespan(s) /\ h = Horizon
            /\ b <= e /\ e <= h
      BY TaskWork, PhysicalIsSound, ShopTypes, MakespanOfPlan
    <2>2. x \in a..(b - 1)
      BY <2>1 DEF WorkSlots
    <2> QED BY <2>1, <2>2
  <1>2. PICK open \in SUBSET FirstWeekDays :
            \A u \in On(m) : WorkSlots(s, u) \cap Breaks(m, open) = {}
    BY MachineWork DEF KeepsCalendar
  <1>3. PICK d \in Days : d = x \div DayLength /\ x \in DaySlots(d)
    BY <1>1, SlotInDays
  <1>4. d \in OpenDayset
    <2>1. ~Closed(d)
      BY <1>2, <1>3, OpenDays
    <2> QED BY <2>1 DEF OpenDayset
  <1>5. x \in OpensAt(m, d)..((d + 1) * DayLength - 1)
    <2>1. CASE NightPart(m, x)
      <3>1. d \in open /\ x \in NightSlots(m, d)
        BY <1>2, <1>3, <2>1, NightOpened
      <3>2. FirstWeek(d)
        BY <3>1 DEF FirstWeekDays
      <3>3. OvertimeBudget[m] > 0
        <4>1. PICK N : N = Union(Works(s, m), On(m)) \cap FirstNights(m)
          OBVIOUS
        <4>2. x \in N
          BY <3>1, <4>1 DEF Union, Works, FirstNights
        <4>3. IsFiniteSet(N)
          BY <4>1, WorkFinite, PhysicalIsSound, FS_Subset
        <4>4. Cardinality(N) \in Nat /\ Cardinality(N) # 0
          BY <4>2, <4>3, FS_EmptySet, FS_CardinalityType
        <4>5. Cardinality(N) <= OvertimeBudget[m] /\ OvertimeBudget[m] \in Nat
          BY <4>1, MachineWork, ShopTypes DEF KeepsCalendar
        <4> QED BY <4>4, <4>5
      <3> QED BY <1>3, <3>2, <3>3, DayOpens
    <2>2. CASE ~NightPart(m, x)
      <3>1. d \in Nat
        BY DaysFinite
      <3>2. x \notin NightSlots(m, d)
        BY <1>1, <2>2, <3>1, NightOfDay
      <3> QED BY <1>3, <3>2, DayOpens
    <2> QED BY <2>1, <2>2
  <1>6. x \in OpenSpans(m)[d]
    BY <1>4, <1>5 DEF OpenSpans, Spans
  <1> QED BY <1>1, <1>4, <1>6 DEF OpenSlots, Union

\* What the rows say of a machine, as numbers of slots.
LEMMA RowsCounted ==
    ASSUME NEW s \in Schedules, Physical(s), NEW m \in Machines
    PROVE  /\ RunTime(On(m)) = Cardinality(Processed(s, m))
           /\ SetupSum(s, On(m)) = Cardinality(SetUp(s, m))
  <1>1. PICK g : g = [t \in On(m) |-> Operation[t].duration]
    OBVIOUS
  <1>2. PICK h : h = [t \in On(m) |-> SetupBefore(s, t)]
    OBVIOUS
  <1>3. Sizes(g, Processing(s, m), On(m)) /\ Sizes(h, SettingUp(s, m), On(m))
    <2> SUFFICES ASSUME NEW t \in On(m)
                 PROVE  /\ IsFiniteSet(Processing(s, m)[t]) /\ g[t] = Cardinality(Processing(s, m)[t])
                        /\ IsFiniteSet(SettingUp(s, m)[t]) /\ h[t] = Cardinality(SettingUp(s, m)[t])
      BY DEF Sizes
    <2>1. t \in Tasks
      BY ShopTypes
    <2>2. PICK a \in Nat, b \in Nat, c \in Nat, n \in Nat, k \in Nat :
            /\ a = SetupStart(s, t) /\ b = s[t] /\ c = End(s, t)
            /\ n = SetupBefore(s, t) /\ k = Operation[t].duration
      BY <2>1, TaskWork, PhysicalIsSound, ShopTypes
    <2>3. a + n = b /\ b + k = c
      BY <2>1, <2>2, TaskWork, PhysicalIsSound DEF End
    <2>4. Processing(s, m)[t] = b..(c - 1) /\ SettingUp(s, m)[t] = a..(b - 1)
      BY <2>2 DEF Processing, SettingUp, Spans
    <2>5. IsFiniteSet(b..(c - 1)) /\ Cardinality(b..(c - 1)) = k
      <3>1. b <= c /\ c - b = k /\ b \in Int /\ c \in Int
        BY <2>3
      <3> QED BY <3>1, SpanLength
    <2>6. IsFiniteSet(a..(b - 1)) /\ Cardinality(a..(b - 1)) = n
      <3>1. a <= b /\ b - a = n /\ a \in Int /\ b \in Int
        BY <2>3
      <3> QED BY <3>1, SpanLength
    <2> QED BY <1>1, <1>2, <2>2, <2>4, <2>5, <2>6
  <1>4. Apart(Processing(s, m), On(m)) /\ Apart(SettingUp(s, m), On(m))
    BY MinutesApart
  <1>5. IsFiniteSet(On(m))
    BY ShopTypes
  <1>6. Total(g, On(m)) = Cardinality(Processed(s, m))
    BY <1>3, <1>4, <1>5, SumOfSizes DEF Processed
  <1>7. Total(h, On(m)) = Cardinality(SetUp(s, m))
    BY <1>3, <1>4, <1>5, SumOfSizes DEF SetUp
  <1>8. \A t \in On(m) : g[t] \in Int /\ h[t] \in Int
    BY <1>3, FS_CardinalityType DEF Sizes
  <1>9. SumFunction(g) = Total(g, On(m)) /\ SumFunction(h) = Total(h, On(m))
    BY <1>1, <1>2, <1>5, <1>8, SumIsTotal
  <1> QED BY <1>1, <1>2, <1>6, <1>7, <1>9 DEF RunTime, SetupSum

LEMMA IntegralsExpanded ==
    ASSUME NEW s, NEW m
    PROVE  /\ Integral(s, m, ProcessedIn) =
                SumFunction([from \in Slices(s) |-> ProcessedIn(s, m, from, SliceEnd(s, from))])
           /\ Integral(s, m, SetUpIn) =
                SumFunction([from \in Slices(s) |-> SetUpIn(s, m, from, SliceEnd(s, from))])
           /\ Integral(s, m, IdleIn) =
                SumFunction([from \in Slices(s) |-> IdleIn(s, m, from, SliceEnd(s, from))])
  BY DEF Integral

\* The free slots of a machine: open and not worked.
Free(s, m) == (OpenSlots(m) \cap (0..(Makespan(s) - 1))) \ (Processed(s, m) \cup SetUp(s, m))

LEMMA IdleCounted ==
    ASSUME NEW s \in Schedules, Physical(s), NEW m \in Machines
    PROVE  /\ IsFiniteSet(Free(s, m)) /\ AnalyticIdle(s, m) = Cardinality(Free(s, m))
           /\ \A from \in Slices(s) : IdleIn(s, m, from, SliceEnd(s, from)) =
                Cardinality(Free(s, m) \cap Window(from, SliceEnd(s, from)))
  <1>1. PICK P : P = Processed(s, m)
    OBVIOUS
  <1>2. PICK U : U = SetUp(s, m)
    OBVIOUS
  <1>3. PICK e \in Nat \ {0} : e = Makespan(s)
    BY MakespanOfPlan
  <1>4. PICK O : O = OpenSlots(m) \cap (0..(e - 1))
    OBVIOUS
  <1>5. IsFiniteSet(O) /\ P \in SUBSET O /\ U \in SUBSET O /\ P \cap U = {}
    <2>1. P \cup U \subseteq O /\ P \cap U = {}
      BY <1>1, <1>2, <1>3, <1>4, WorkIsOpen, MachineMinutes
    <2>2. IsFiniteSet(O)
      BY <1>4, OpenMinutesCounted, FS_Subset
    <2> QED BY <2>1, <2>2
  <1>6. Free(s, m) = O \ (P \cup U)
    BY <1>1, <1>2, <1>3, <1>4 DEF Free
  <1>7. AnalyticIdle(s, m) = Cardinality(Free(s, m))
    <2>1. OpenMinutes(m, 0, e) = Cardinality(O)
      <3>1. 0 \in Int /\ e \in Int /\ Window(0, e) = 0..(e - 1)
        BY DEF Window
      <3> QED BY <1>4, <3>1, OpenMinutesCounted
    <2>2. AnalyticIdle(s, m) = Cardinality(O) - Cardinality(P) - Cardinality(U)
      BY <1>1, <1>2, <1>3, <2>1, RowsCounted DEF AnalyticIdle
    <2> QED BY <1>5, <1>6, <2>2, WhatIsLeft
  <1>8. ASSUME NEW from \in Slices(s)
        PROVE  IdleIn(s, m, from, SliceEnd(s, from)) =
                Cardinality(Free(s, m) \cap Window(from, SliceEnd(s, from)))
    <2>1. PICK to \in Nat : to = SliceEnd(s, from) /\ to <= e /\ from \in Nat
      BY <1>3, SliceTypes
    <2>2. PICK W : W = Window(from, to)
      OBVIOUS
    <2>3. W \subseteq 0..(e - 1)
      BY <2>1, <2>2 DEF Window
    <2>4. OpenMinutes(m, from, to) = Cardinality(O \cap W)
      <3>1. OpenSlots(m) \cap W = O \cap W
        BY <1>4, <2>3
      <3> QED BY <2>1, <2>2, <3>1, OpenMinutesCounted
    <2>5. ProcessedIn(s, m, from, to) = Cardinality(P \cap W)
      <3>1. from \in Int /\ to \in Int
        BY <2>1
      <3>2. ProcessedIn(s, m, from, to) = Cardinality(Processed(s, m) \cap Window(from, to))
        BY <3>1, MinutesIn
      <3> QED BY <1>1, <2>2, <3>2
    <2>6. SetUpIn(s, m, from, to) = Cardinality(U \cap W)
      <3>1. from \in Int /\ to \in Int
        BY <2>1
      <3>2. SetUpIn(s, m, from, to) = Cardinality(SetUp(s, m) \cap Window(from, to))
        BY <3>1, MinutesIn
      <3> QED BY <1>2, <2>2, <3>2
    <2>7. Cardinality(O \cap W) - Cardinality(P \cap W) - Cardinality(U \cap W) =
            Cardinality((O \cap W) \ ((P \cap W) \cup (U \cap W)))
      <3>1. /\ IsFiniteSet(O \cap W) /\ P \cap W \in SUBSET (O \cap W)
            /\ U \cap W \in SUBSET (O \cap W) /\ (P \cap W) \cap (U \cap W) = {}
        BY <1>5, FS_Subset
      <3> QED BY <3>1, WhatIsLeft
    <2>8. PICK n : n = Cardinality(Free(s, m) \cap W)
      OBVIOUS
    <2>9. (O \cap W) \ ((P \cap W) \cup (U \cap W)) = Free(s, m) \cap W
      BY <1>6
    <2>10. n \in Nat
      <3>1. IsFiniteSet(Free(s, m) \cap W)
        BY <1>5, <1>6, FS_Subset
      <3> QED BY <2>8, <3>1, FS_CardinalityType
    <2>11. OpenMinutes(m, from, to) - ProcessedIn(s, m, from, to) - SetUpIn(s, m, from, to) = n
      BY <2>4, <2>5, <2>6, <2>7, <2>8, <2>9
    <2>12. Max({0, n}) = n
      <3>1. 0 \in Int /\ n \in Int
        BY <2>10
      <3> QED BY <2>10, <3>1, Larger
    <2>13. IdleIn(s, m, from, to) = n
      BY <2>11, <2>12 DEF IdleIn
    <2> QED BY <2>1, <2>2, <2>8, <2>13
  <1>9. IsFiniteSet(Free(s, m))
    BY <1>5, <1>6, FS_Subset
  <1> QED BY <1>7, <1>8, <1>9

\* The integrated minutes of a machine are those of its rows and calendar.
LEMMA IntegralsAgree ==
    ASSUME NEW s \in Schedules, Physical(s), NEW m \in Machines
    PROVE  /\ Integral(s, m, ProcessedIn) = RunTime(On(m))
           /\ Integral(s, m, SetUpIn) = SetupSum(s, On(m))
           /\ Integral(s, m, IdleIn) = AnalyticIdle(s, m)
           /\ AnalyticIdle(s, m) \in Nat /\ RunTime(On(m)) \in Nat /\ SetupSum(s, On(m)) \in Nat
  <1>1. PICK p : p = [from \in Slices(s) |-> ProcessedIn(s, m, from, SliceEnd(s, from))]
    OBVIOUS
  <1>2. PICK u : u = [from \in Slices(s) |-> SetUpIn(s, m, from, SliceEnd(s, from))]
    OBVIOUS
  <1>3. PICK i : i = [from \in Slices(s) |-> IdleIn(s, m, from, SliceEnd(s, from))]
    OBVIOUS
  <1>4. \A from \in Slices(s) : from \in Int /\ SliceEnd(s, from) \in Int
    BY SliceTypes
  <1>5. CountsIn(p, Processed(s, m), s) /\ DOMAIN p = Slices(s)
    BY <1>1, <1>4, MinutesIn DEF CountsIn
  <1>6. CountsIn(u, SetUp(s, m), s) /\ DOMAIN u = Slices(s)
    BY <1>2, <1>4, MinutesIn DEF CountsIn
  <1>7. CountsIn(i, Free(s, m), s) /\ DOMAIN i = Slices(s)
    BY <1>3, IdleCounted DEF CountsIn
  <1>8. /\ IsFiniteSet(Processed(s, m)) /\ Processed(s, m) \subseteq 0..(Makespan(s) - 1)
        /\ IsFiniteSet(SetUp(s, m)) /\ SetUp(s, m) \subseteq 0..(Makespan(s) - 1)
        /\ IsFiniteSet(Free(s, m)) /\ Free(s, m) \subseteq 0..(Makespan(s) - 1)
    BY MachineMinutes, WorkIsOpen, IdleCounted DEF Free
  <1>9. /\ SumFunction(p) = Cardinality(Processed(s, m)) /\ SumFunction(u) = Cardinality(SetUp(s, m))
        /\ SumFunction(i) = Cardinality(Free(s, m))
    BY <1>5, <1>6, <1>7, <1>8, SlicesAddUp
  <1>10. Cardinality(Processed(s, m)) \in Nat /\ Cardinality(SetUp(s, m)) \in Nat /\ Cardinality(Free(s, m)) \in Nat
    BY <1>8, FS_CardinalityType
  <1> QED BY <1>1, <1>2, <1>3, <1>9, <1>10, RowsCounted, IdleCounted, IntegralsExpanded

LEMMA ProcessingEnergyTypes ==
    ASSUME NEW m \in Machines
    PROVE  ProcessingEnergy(m) \in Int
  <1>1. PICK g : g = [t \in On(m) |-> Operation[t].duration * Power[m].base + Operation[t].energy]
    OBVIOUS
  <1>2. \A t \in On(m) : g[t] \in Int
    <2> SUFFICES ASSUME NEW t \in On(m) PROVE g[t] \in Int
      OBVIOUS
    <2>1. PICK a \in Int, b \in Int, c \in Int :
            a = Operation[t].duration /\ b = Power[m].base /\ c = Operation[t].energy
      BY ShopTypes, EconomicsAssumption
    <2>2. a * b \in Int
      BY ProductTypes
    <2>3. g[t] = a * b + c
      BY <1>1, <2>1
    <2> QED BY <2>2, <2>3
  <1>3. IsFiniteSet(On(m)) /\ DOMAIN g = On(m)
    BY <1>1, ShopTypes
  <1> QED BY <1>1, <1>2, <1>3, SumIsTotal, TotalStep DEF ProcessingEnergy

LEMMA AnalyticEnergyTypes ==
    ASSUME NEW s \in Schedules, Physical(s)
    PROVE  AnalyticEnergy(s) \in Int
  <1>1. PICK g : g = [m \in Machines |->
                        ProcessingEnergy(m) + Power[m].setup * SetupSum(s, On(m))
                            + Power[m].idle * Max({0, AnalyticIdle(s, m)})]
    OBVIOUS
  <1>2. \A m \in Machines : g[m] \in Int
    <2> SUFFICES ASSUME NEW m \in Machines PROVE g[m] \in Int
      OBVIOUS
    <2>1. PICK a \in Int, b \in Int, c \in Int, d \in Int :
            a = ProcessingEnergy(m) /\ b = Power[m].setup /\ c = SetupSum(s, On(m)) /\ d = Power[m].idle
      BY ProcessingEnergyTypes, IntegralsAgree, EconomicsAssumption
    <2>2. PICK i \in Int : i = Max({0, AnalyticIdle(s, m)})
      <3>1. 0 \in Int /\ AnalyticIdle(s, m) \in Int
        BY IntegralsAgree
      <3> QED BY <3>1, Larger
    <2>3. b * c \in Int /\ d * i \in Int
      BY ProductTypes
    <2>4. g[m] = a + b * c + d * i
      BY <1>1, <2>1, <2>2
    <2> QED BY <2>3, <2>4
  <1>3. IsFiniteSet(Machines) /\ DOMAIN g = Machines
    BY <1>1, ShopFloorAssumption
  <1>4. SumFunction(g) = Total(g, Machines)
    BY <1>2, <1>3, SumIsTotal
  <1>5. Total(g, Machines) \in Int
    BY <1>2, <1>3, TotalStep
  <1> QED BY <1>1, <1>4, <1>5 DEF AnalyticEnergy

LEMMA EnergyTotalsAgree ==
    ASSUME NEW s \in Schedules, Physical(s)
    PROVE  GrandTotal(s) = AnalyticEnergy(s)
  <1>1. ASSUME NEW m \in Machines
        PROVE  MachineEnergyKpi(s, m) =
                ProcessingEnergy(m) + Power[m].setup * SetupSum(s, On(m))
                    + Power[m].idle * Max({0, AnalyticIdle(s, m)})
    <2>1. Max({0, AnalyticIdle(s, m)}) = AnalyticIdle(s, m)
      <3>1. 0 \in Int /\ AnalyticIdle(s, m) \in Int /\ AnalyticIdle(s, m) >= 0
        BY IntegralsAgree
      <3> QED BY <3>1, Larger
    <2> QED BY <2>1, IntegralsAgree DEF MachineEnergyKpi
  <1> QED BY <1>1 DEF GrandTotal, AnalyticEnergy

\* Rounding the makespan to a step moves it by half a step at most.
LEMMA RoundingError ==
    ASSUME NEW s \in Schedules
    PROVE  /\ RoundedMakespan(s) \in Int
           /\ 2 * (RoundedMakespan(s) - Makespan(s)) <= KpiStep
           /\ 2 * (Makespan(s) - RoundedMakespan(s)) <= KpiStep
  <1>1. PICK e \in Nat, k \in Nat \ {0} : e = Makespan(s) /\ k = KpiStep
    BY MakespanOfPlan, EconomicsAssumption
  <1>2. PICK n \in Nat, d \in Nat \ {0} : n = 2 * e + k /\ d = 2 * k
    BY <1>1
  <1>3. PICK q \in Nat : q = n \div d /\ q * d <= n /\ n < q * d + d
    BY <1>2, QuotientOrder
  <1>4. PICK r \in Nat : r = k * q /\ q * d = 2 * r
    <2>1. k * q \in Nat /\ q * d = 2 * (k * q)
      BY <1>1, <1>2, <1>3
    <2> QED BY <2>1
  <1>5. RoundedMakespan(s) = r
    BY <1>1, <1>2, <1>3, <1>4 DEF RoundedMakespan
  <1>6. 2 * r <= n /\ n < 2 * r + d
    BY <1>3, <1>4
  <1>7. 2 * (r - e) <= k /\ 2 * (e - r) <= k
    BY <1>1, <1>2, <1>4, <1>6
  <1> QED BY <1>1, <1>4, <1>5, <1>7

LEMMA EmissionsAgree ==
    ASSUME NEW s \in Schedules, Physical(s)
    PROVE  2 * Max({CarbonKpi(s) - Emissions(s), Emissions(s) - CarbonKpi(s)}) <= Rates.forklift * KpiStep
  <1>1. PICK f \in Nat, g \in Nat, k \in Nat : f = Rates.forklift /\ g = Rates.grid /\ k = KpiStep
    BY EconomicsAssumption
  <1>2. PICK a \in Int, e \in Int, r \in Int :
            a = AnalyticEnergy(s) /\ e = Makespan(s) /\ r = RoundedMakespan(s)
    BY AnalyticEnergyTypes, MakespanOfPlan, RoundingError
  <1>3. PICK x \in Int, y \in Int, z \in Int : x = f * r /\ y = f * e /\ z = g * a
    BY <1>1, <1>2, ProductTypes
  <1>4. CarbonKpi(s) = x + z /\ Emissions(s) = y + z
    BY <1>1, <1>2, <1>3, EnergyTotalsAgree DEF CarbonKpi, Emissions
  <1>5. 2 * (x - y) <= f * k /\ 2 * (y - x) <= f * k
    <2>1. f * (2 * (r - e)) <= f * k /\ f * (2 * (e - r)) <= f * k
      BY <1>1, <1>2, RoundingError, TimesOrder
    <2>2. f * (2 * (r - e)) = 2 * (x - y) /\ f * (2 * (e - r)) = 2 * (y - x)
      BY <1>1, <1>2, <1>3
    <2> QED BY <2>1, <2>2
  <1>6. Max({x - y, y - x}) = IF x - y >= y - x THEN x - y ELSE y - x
    <2>1. x - y \in Int /\ y - x \in Int
      BY <1>3
    <2> QED BY <2>1, Larger
  <1>7. CarbonKpi(s) - Emissions(s) = x - y /\ Emissions(s) - CarbonKpi(s) = y - x
    BY <1>3, <1>4
  <1>8. 2 * Max({x - y, y - x}) <= f * k
    BY <1>5, <1>6
  <1> QED BY <1>1, <1>7, <1>8

\* The energy books agree on every plan the model admits.
LEMMA EnergyOfAdmitted ==
    ASSUME NEW s \in Schedules, Physical(s)
    PROVE  EnergyAgrees(s)
  <1>1. ASSUME NEW m \in Machines
        PROVE  /\ Integral(s, m, ProcessedIn) = RunTime(On(m))
               /\ Integral(s, m, SetUpIn) = SetupSum(s, On(m))
               /\ AnalyticIdle(s, m) >= 0
    <2>1. AnalyticIdle(s, m) \in Nat
      BY IntegralsAgree
    <2> QED BY <2>1, IntegralsAgree
  <1> QED BY <1>1, EnergyTotalsAgree, EmissionsAgree DEF EnergyAgrees

\* The energy profile integrated by slices, the analytic report and the carbon
\* report (energy_analytics.py, schedule_cost.py, carbon_analytics.py) agree on
\* every plan a version ever publishes, on any shop floor, for any length of
\* slice, and no machine has negative idle time: what the solver admits is
\* inside the calendar the reports read.
THEOREM EnergyIsBookedOnce == Spec => []EnergyBooksAgree
  <1>1. \A s \in PhysicalSchedules : s \in EnergyAgreedPlans
    <2> SUFFICES ASSUME NEW s \in PhysicalSchedules PROVE s \in EnergyAgreedPlans
      OBVIOUS
    <2>1. s \in Schedules /\ Physical(s)
      BY DEF PhysicalSchedules
    <2>2. EnergyAgrees(s)
      BY <2>1, EnergyOfAdmitted
    <2> QED BY <2>2 DEF EnergyAgreedPlans
  <1>2. IInv => EnergyBooksAgree
    BY <1>1 DEF IInv, OwnContext, EnergyBooksAgree
  <1> QED BY <1>2, Inductive, PTL

-----------------------------------------------------------------------------
(* The solver's objective and the report's cost.                           *)

LEMMA LotsFinite == IsFiniteSet(Lots)
  <1>1. PICK g : g = [t \in Tasks |-> Operation[t].lot]
    OBVIOUS
  <1>2. IsFiniteSet({g[t] : t \in Tasks})
    BY ShopTypes, FiniteImage
  <1>3. {g[t] : t \in Tasks} = Lots
    BY <1>1 DEF Lots
  <1> QED BY <1>2, <1>3

LEMMA LotShape ==
    ASSUME NEW l \in Lots
    PROVE  /\ LotOf(l) \subseteq Tasks /\ IsFiniteSet(LotOf(l))
           /\ LastOf(l) \in LotOf(l) /\ \A u \in LotOf(l) : Operation[u].seq <= Operation[LastOf(l)].seq
           /\ FirstOf(l) \in LotOf(l) /\ \A u \in LotOf(l) : Operation[FirstOf(l)].seq <= Operation[u].seq
  <1>1. PICK t \in Tasks : l = Operation[t].lot
    BY DEF Lots
  <1>2. /\ LotOf(l) \subseteq Tasks /\ IsFiniteSet(LotOf(l))
        /\ \E u \in LotOf(l) : \A v \in LotOf(l) : Operation[u].seq <= Operation[v].seq
        /\ \E u \in LotOf(l) : \A v \in LotOf(l) : Operation[v].seq <= Operation[u].seq
    BY <1>1, LotEnds
  <1> QED BY <1>2 DEF LastOf, FirstOf

\* A lot is finished with its last operation and begun with its first.
LEMMA LotTimes ==
    ASSUME NEW s \in Schedules, Physical(s), NEW l \in Lots
    PROVE  /\ Max({End(s, t) : t \in LotOf(l)}) = End(s, LastOf(l))
           /\ Min({s[t] : t \in LotOf(l)}) = s[FirstOf(l)]
  <1>1. PICK last \in LotOf(l) : last = LastOf(l) /\ \A u \in LotOf(l) : Operation[u].seq <= Operation[last].seq
    BY LotShape
  <1>2. PICK first \in LotOf(l) : first = FirstOf(l) /\ \A u \in LotOf(l) : Operation[first].seq <= Operation[u].seq
    BY LotShape
  <1>3. ASSUME NEW t \in LotOf(l)
        PROVE  /\ t \in Tasks /\ Operation[t].lot = l /\ Operation[t].seq \in Int
               /\ s[t] \in Nat /\ End(s, t) \in Nat /\ s[t] < End(s, t)
    BY LotShape, ShopTypes, ScheduleTypes DEF LotOf
  <1>4. ASSUME NEW t \in LotOf(l), NEW u \in LotOf(l), Operation[t].seq < Operation[u].seq
        PROVE  s[u] >= End(s, t)
    BY <1>3, <1>4 DEF Physical, RouteHolds
  <1>5. \A t, u \in LotOf(l) : Operation[t].seq = Operation[u].seq => t = u
    BY <1>3, ShopFloorAssumption
  <1>6. \A t \in LotOf(l) : End(s, t) <= End(s, last)
    <2> SUFFICES ASSUME NEW t \in LotOf(l) PROVE End(s, t) <= End(s, last)
      OBVIOUS
    <2>1. CASE t = last
      BY <1>3, <2>1
    <2>2. CASE t # last
      <3>1. Operation[t].seq < Operation[last].seq
        BY <1>1, <1>3, <1>5, <2>2
      <3>2. s[last] >= End(s, t)
        BY <1>4, <3>1
      <3> QED BY <1>3, <3>2
    <2> QED BY <2>1, <2>2
  <1>7. \A t \in LotOf(l) : s[first] <= s[t]
    <2> SUFFICES ASSUME NEW t \in LotOf(l) PROVE s[first] <= s[t]
      OBVIOUS
    <2>1. CASE t = first
      BY <1>3, <2>1
    <2>2. CASE t # first
      <3>1. Operation[first].seq < Operation[t].seq
        BY <1>2, <1>3, <1>5, <2>2
      <3>2. s[t] >= End(s, first)
        BY <1>4, <3>1
      <3> QED BY <1>3, <3>2
    <2> QED BY <2>1, <2>2
  <1>8. Max({End(s, t) : t \in LotOf(l)}) = End(s, last)
    <2>1. PICK ends : ends = {End(s, t) : t \in LotOf(l)}
      OBVIOUS
    <2>2. End(s, last) \in ends /\ \A y \in ends : y <= End(s, last) /\ y \in Nat
      BY <1>3, <1>6, <2>1
    <2>3. Max(ends) = End(s, last)
      <3>1. \A x \in ends : (\A y \in ends : x >= y) => x = End(s, last)
        BY <2>2
      <3>2. \A y \in ends : End(s, last) >= y
        BY <2>2
      <3> QED BY <2>2, <3>1, <3>2 DEF Max
    <2> QED BY <2>1, <2>3
  <1>9. Min({s[t] : t \in LotOf(l)}) = s[first]
    <2>1. PICK starts : starts = {s[t] : t \in LotOf(l)}
      OBVIOUS
    <2>2. s[first] \in starts /\ \A y \in starts : s[first] <= y /\ y \in Nat
      BY <1>3, <1>7, <2>1
    <2>3. Min(starts) = s[first]
      <3>1. \A x \in starts : (\A y \in starts : x <= y) => x = s[first]
        BY <2>2
      <3>2. \A y \in starts : s[first] <= y
        BY <2>2
      <3> QED BY <2>2, <3>1, <3>2 DEF Min
    <2> QED BY <2>1, <2>3
  <1> QED BY <1>1, <1>2, <1>8, <1>9

LEMMA JobShown ==
    ASSUME NEW s \in Schedules, Physical(s), NEW l \in Lots
    PROVE  /\ JobSummary(s, l).completion = End(s, LastOf(l)) /\ JobSummary(s, l).start = s[FirstOf(l)]
           /\ JobSummary(s, l).run = RunTime(LotOf(l)) /\ JobSummary(s, l).setup = SetupSum(s, LotOf(l))
           /\ JobSummary(s, l).units = Operation[FirstOf(l)].units
           /\ JobSummary(s, l).due = Operation[LastOf(l)].due
           /\ JobSummary(s, l).weight = Operation[LastOf(l)].weight
           /\ Completion(s, l) = End(s, LastOf(l))
           /\ End(s, LastOf(l)) \in Nat /\ s[FirstOf(l)] \in Nat
           /\ Operation[FirstOf(l)].units \in Nat
           /\ Operation[LastOf(l)].due \in Nat /\ Operation[LastOf(l)].weight \in Nat
  <1>1. /\ LastOf(l) \in Tasks /\ Operation[LastOf(l)].lot = l
        /\ FirstOf(l) \in Tasks /\ Operation[FirstOf(l)].lot = l
    BY LotShape DEF LotOf
  <1>2. /\ Operation[FirstOf(l)].due = Operation[LastOf(l)].due
        /\ Operation[FirstOf(l)].weight = Operation[LastOf(l)].weight
    BY <1>1, EconomicsAssumption
  <1>3. JobSummary(s, l) =
            [completion |-> Max({End(s, t) : t \in LotOf(l)}), start |-> Min({s[t] : t \in LotOf(l)}),
             run |-> RunTime(LotOf(l)), setup |-> SetupSum(s, LotOf(l)),
             units |-> Operation[FirstOf(l)].units,
             due |-> Operation[FirstOf(l)].due, weight |-> Operation[FirstOf(l)].weight]
    BY DEF JobSummary, FirstOf
  <1>4. /\ End(s, LastOf(l)) \in Nat /\ s[FirstOf(l)] \in Nat /\ Operation[FirstOf(l)].units \in Nat
        /\ Operation[LastOf(l)].due \in Nat /\ Operation[LastOf(l)].weight \in Nat
    BY <1>1, ScheduleTypes, EconomicsAssumption
  <1> QED BY <1>2, <1>3, <1>4, LotTimes DEF Completion

\* Tardiness in the objective, the KPIs and the service level is one number.
LEMMA TardinessShown ==
    ASSUME NEW s \in Schedules, Physical(s), NEW l \in Lots
    PROVE  /\ Tardiness(JobSummary(s, l)) = TardinessTerm(s, l) /\ TardinessTerm(s, l) \in Int
           /\ \A t \in LotOf(l) :
                Max({0, Completion(s, l) - Operation[t].due}) * Operation[t].weight = TardinessTerm(s, l)
  <1>1. PICK last \in LotOf(l) : last = LastOf(l) /\ last \in Tasks /\ Operation[last].lot = l
    BY LotShape DEF LotOf
  <1>2. PICK w \in Nat, x \in Int : w = Operation[last].weight /\ x = Max({0, End(s, last) - Operation[last].due})
    <2>1. PICK late \in Int : late = End(s, last) - Operation[last].due
      BY <1>1, JobShown
    <2>2. 0 \in Int
      OBVIOUS
    <2>3. Max({0, late}) \in Int
      BY <2>1, <2>2, Larger
    <2> QED BY <1>1, <2>1, <2>3, JobShown
  <1>3. w * x = x * w /\ w * x \in Int
    OBVIOUS
  <1>4. TardinessTerm(s, l) = w * x
    BY <1>1, <1>2 DEF TardinessTerm
  <1>5. Tardiness(JobSummary(s, l)) = x * w
    BY <1>1, <1>2, JobShown DEF Tardiness
  <1>6. ASSUME NEW t \in LotOf(l)
        PROVE  Max({0, Completion(s, l) - Operation[t].due}) * Operation[t].weight = x * w
    <2>1. t \in Tasks /\ Operation[t].lot = l
      BY LotShape DEF LotOf
    <2>2. Operation[t].due = Operation[last].due /\ Operation[t].weight = Operation[last].weight
      BY <1>1, <2>1, EconomicsAssumption
    <2> QED BY <1>1, <1>2, <2>2, JobShown
  <1> QED BY <1>3, <1>4, <1>5, <1>6

LEMMA TardinessAgrees ==
    ASSUME NEW s \in Schedules, Physical(s)
    PROVE  /\ WeightedTardiness(s) = ScheduleKpis(s).tardiness
           /\ ServiceLevel(s).weighted = ScheduleKpis(s).tardiness
           /\ ServiceLevel(s).late = {l \in Lots : End(s, LastOf(l)) > Operation[LastOf(l)].due}
  <1>1. PICK g : g = [l \in Lots |-> TardinessTerm(s, l)]
    OBVIOUS
  <1>2. WeightedTardiness(s) = SumFunction(g)
    BY <1>1 DEF WeightedTardiness
  <1>3. ServiceLevel(s).weighted = SumFunction(g)
    <2>1. [l \in Lots |-> Tardiness(JobSummary(s, l))] = g
      BY <1>1, TardinessShown
    <2> QED BY <2>1 DEF ServiceLevel
  <1>4. ScheduleKpis(s).tardiness = SumFunction(g)
    <2>1. ASSUME NEW l \in Lots
          PROVE  (LET t == CHOOSE t \in LotOf(l) : TRUE IN
                   Max({0, Completion(s, l) - Operation[t].due}) * Operation[t].weight) = TardinessTerm(s, l)
      <3>1. PICK t : t = CHOOSE u \in LotOf(l) : TRUE
        OBVIOUS
      <3>2. t \in LotOf(l)
        BY <3>1, LotShape
      <3>3. Max({0, Completion(s, l) - Operation[t].due}) * Operation[t].weight = TardinessTerm(s, l)
        BY <3>2, TardinessShown
      <3> QED BY <3>1, <3>3
    <2>2. [l \in Lots |-> LET t == CHOOSE t \in LotOf(l) : TRUE IN
             Max({0, Completion(s, l) - Operation[t].due}) * Operation[t].weight] = g
      BY <1>1, <2>1
    <2> QED BY <2>2 DEF ScheduleKpis
  <1>5. ServiceLevel(s).late = {l \in Lots : End(s, LastOf(l)) > Operation[LastOf(l)].due}
    <2>1. ServiceLevel(s).late = {l \in Lots : JobSummary(s, l).completion > JobSummary(s, l).due}
      BY DEF ServiceLevel
    <2>2. \A l \in Lots : JobSummary(s, l).completion = End(s, LastOf(l)) /\ JobSummary(s, l).due = Operation[LastOf(l)].due
      BY JobShown
    <2> QED BY <2>1, <2>2
  <1> QED BY <1>2, <1>3, <1>4, <1>5

\* The setups of the arcs are the rows' setups.
LEMMA SolverSetups ==
    ASSUME NEW s \in Schedules, Physical(s), NEW m \in Machines
    PROVE  SolverSetup(s, m) = SetupSum(s, On(m))
  <1>1. PICK c \in Circuits(m) : c = SolverCircuit(s, m) /\ ArcsHold(s, m, c)
    <2>1. \E c \in Circuits(m) : ArcsHold(s, m, c)
      BY DEF Physical
    <2> QED BY <2>1 DEF SolverCircuit
  <1>2. PICK n \in Nat : n = Cardinality(On(m))
    BY ShopTypes
  <1>3. PICK h : h = [i \in 1..n |-> SelectedSetup(m, c, i)]
    OBVIOUS
  <1>4. PICK g : g = [t \in On(m) |-> SetupBefore(s, t)]
    OBVIOUS
  <1>5. c \in Bijection(1..n, On(m)) /\ \A i \in 1..n : c[i] \in On(m)
    <2>1. c \in Bijection(1..n, On(m))
      BY <1>1, <1>2, CircuitOrder
    <2> QED BY <2>1 DEF Bijection, Injection
  <1>6. IntegersOn(g, On(m))
    <2>1. \A t \in On(m) : SetupBefore(s, t) \in Int
      BY MachineWork
    <2> QED BY <1>4, <2>1 DEF IntegersOn
  <1>7. \A i \in 1..n : h[i] = g[c[i]]
    BY <1>1, <1>2, <1>3, <1>4, <1>5, CircuitSetups
  <1>8. IsFiniteSet(1..n) /\ IsFiniteSet(On(m)) /\ DOMAIN h = 1..n /\ DOMAIN g = On(m)
    <2>1. IsFiniteSet(1..n)
      BY FS_Interval
    <2> QED BY <1>3, <1>4, <2>1, ShopTypes
  <1>9. IntegersOn(h, 1..n) /\ Total(h, 1..n) = Total(g, On(m))
    BY <1>5, <1>6, <1>7, <1>8, TotalRenamed
  <1>10. SumFunction(h) = Total(h, 1..n)
    BY <1>8, <1>9, SumIsTotal DEF IntegersOn
  <1>11. SumFunction(g) = Total(g, On(m))
    BY <1>6, <1>8, SumIsTotal DEF IntegersOn
  <1> QED BY <1>1, <1>2, <1>3, <1>4, <1>9, <1>10, <1>11 DEF SolverSetup, SetupSum

\* The nights of the first week, as intervals.
NightSpans(m, D) == Spans([d \in D |-> d * DayLength], [d \in D |-> d * DayLength + Night[m]], D)

LEMMA NightSpanTypes ==
    ASSUME NEW m \in Machines, NEW D \in SUBSET Days
    PROVE  /\ IsFiniteSet(D)
           /\ IntegersOn([d \in D |-> d * DayLength], D)
           /\ IntegersOn([d \in D |-> d * DayLength + Night[m]], D)
           /\ \A d \in D : NightSpans(m, D)[d] = NightSlots(m, d)
           /\ Apart(NightSpans(m, D), D)
  <1>1. IsFiniteSet(D)
    BY DaysFinite, FS_Subset
  <1>2. ASSUME NEW d \in D PROVE d * DayLength \in Int /\ d * DayLength + Night[m] \in Int /\ d \in Nat
    <2>1. PICK k \in Nat, n \in Nat : k = DayLength /\ n = Night[m]
      BY ShopTypes
    <2>2. d \in Nat
      BY DaysFinite
    <2>3. d * k \in Int
      BY <2>2
    <2> QED BY <2>1, <2>2, <2>3
  <1>3. ASSUME NEW d \in D PROVE NightSpans(m, D)[d] = NightSlots(m, d)
    <2>1. PICK a : a = [e \in D |-> e * DayLength]
      OBVIOUS
    <2>2. PICK b : b = [e \in D |-> e * DayLength + Night[m]]
      OBVIOUS
    <2>3. NightSpans(m, D)[d] = a[d]..(b[d] - 1)
      BY <2>1, <2>2 DEF NightSpans, Spans
    <2>4. a[d] = d * DayLength /\ b[d] = d * DayLength + Night[m]
      BY <2>1, <2>2
    <2>5. PICK q \in Int, n \in Nat : q = d * DayLength /\ n = Night[m]
      BY <1>2, ShopTypes
    <2>6. NightSpans(m, D)[d] = q..(q + n - 1)
      BY <2>3, <2>4, <2>5
    <2> QED BY <2>5, <2>6 DEF NightSlots
  <1>4. Apart(NightSpans(m, D), D)
    <2> SUFFICES ASSUME NEW d \in D, NEW e \in D, d # e,
                        NEW x, x \in NightSpans(m, D)[d], x \in NightSpans(m, D)[e]
                 PROVE  FALSE
      BY DEF Apart
    <2>1. d \in Nat /\ e \in Nat /\ x \in NightSlots(m, d) /\ x \in NightSlots(m, e)
      BY <1>2, <1>3
    <2>2. x \in Nat /\ x \div DayLength = d /\ x \div DayLength = e
      BY <2>1, NightOfDay
    <2> QED BY <2>2
  <1>5. /\ IntegersOn([d \in D |-> d * DayLength], D)
        /\ IntegersOn([d \in D |-> d * DayLength + Night[m]], D)
    BY <1>2 DEF IntegersOn
  <1> QED BY <1>1, <1>3, <1>4, <1>5

LEMMA NightOverlapCounted ==
    ASSUME NEW m \in Machines, NEW from \in Int, NEW to \in Int
    PROVE  NightOverlap(m, from, to) = Cardinality(FirstNights(m) \cap Window(from, to))
  <1>1. PICK D \in SUBSET Days : D = FirstWeekDays
    BY DEF FirstWeekDays
  <1>2. PICK a : a = [d \in D |-> d * DayLength]
    OBVIOUS
  <1>3. PICK b : b = [d \in D |-> d * DayLength + Night[m]]
    OBVIOUS
  <1>4. PICK g : g = [d \in D |-> Shared(d * DayLength, d * DayLength + Night[m], from, to)]
    OBVIOUS
  <1>5. Overlaps(g, a, b, D, from, to)
    BY <1>2, <1>3, <1>4, SharedIsInCommon DEF Overlaps
  <1>6. NightSpans(m, D) = Spans(a, b, D)
    BY <1>2, <1>3 DEF NightSpans
  <1>7. IsFiniteSet(D) /\ IntegersOn(a, D) /\ IntegersOn(b, D) /\ Apart(Spans(a, b, D), D)
    BY <1>2, <1>3, <1>6, NightSpanTypes
  <1>8. \A d \in D : g[d] \in Int
    BY <1>5, <1>7, OverlapsAddUp
  <1>9. Total(g, D) = Cardinality(Union(Spans(a, b, D), D) \cap Window(from, to))
    BY <1>5, <1>7, OverlapsAddUp
  <1>10. Union(Spans(a, b, D), D) = FirstNights(m)
    <2>1. \A d \in D : Spans(a, b, D)[d] = NightSlots(m, d)
      BY <1>6, NightSpanTypes
    <2>2. {Spans(a, b, D)[d] : d \in D} = {NightSlots(m, d) : d \in D}
      BY <2>1
    <2> QED BY <1>1, <2>2 DEF Union, FirstNights
  <1>11. NightOverlap(m, from, to) = SumFunction(g) /\ DOMAIN g = D
    BY <1>1, <1>4 DEF NightOverlap
  <1>12. SumFunction(g) = Total(g, D)
    BY <1>7, <1>8, <1>11, SumIsTotal
  <1> QED BY <1>9, <1>10, <1>11, <1>12

\* The overtime the solver pays is the rows' overtime.
LEMMA OvertimePaid ==
    ASSUME NEW s \in Schedules, Physical(s), NEW t \in Tasks
    PROVE  /\ OvertimeTerm(s, t) = Rates.labor * ProductionOvertime(s, t) + Rates.setup * SetupOvertime(s, t)
           /\ ProductionOvertime(s, t) \in Int /\ SetupOvertime(s, t) \in Int
  <1>1. PICK m \in Machines : m = Operation[t].machine /\ t \in On(m)
    BY ShopTypes
  <1>2. PICK a \in Int, b \in Int, c \in Int :
            a = SetupStart(s, t) /\ b = s[t] /\ c = End(s, t) /\ a <= b /\ b < c
    BY TaskWork, PhysicalIsSound
  <1>3. ASSUME NEW x \in WorkSlots(s, t)
        PROVE  NightPart(m, x) <=> x \in FirstNights(m)
    <2>1. PICK open \in SUBSET FirstWeekDays : \A u \in On(m) : WorkSlots(s, u) \cap Breaks(m, open) = {}
      BY MachineWork DEF KeepsCalendar
    <2>2. NightPart(m, x) => x \in FirstNights(m)
      <3> SUFFICES ASSUME NightPart(m, x) PROVE x \in FirstNights(m)
        OBVIOUS
      <3>1. x \div DayLength \in open /\ x \in NightSlots(m, x \div DayLength)
        BY <1>1, <2>1, NightOpened
      <3> QED BY <3>1 DEF FirstNights
    <2>3. x \in FirstNights(m) => NightPart(m, x)
      <3> SUFFICES ASSUME x \in FirstNights(m) PROVE NightPart(m, x)
        OBVIOUS
      <3>1. PICK d \in FirstWeekDays : x \in NightSlots(m, d)
        BY DEF FirstNights
      <3>2. d \in Nat
        BY DaysFinite DEF FirstWeekDays
      <3>3. x \in Nat
        BY <3>1, <3>2, NightOfDay
      <3> QED BY <3>1, <3>2, <3>3, NightOfDay
    <2> QED BY <2>2, <2>3
  <1>4. WorkSlots(s, t) = a..(c - 1)
    BY <1>2 DEF WorkSlots
  <1>5. {x \in s[t]..(End(s, t) - 1) : NightPart(Operation[t].machine, x)} = FirstNights(m) \cap Window(b, c)
    <2>1. Window(b, c) = s[t]..(End(s, t) - 1) /\ Window(b, c) \subseteq WorkSlots(s, t)
      BY <1>2, <1>4 DEF Window
    <2> QED BY <1>1, <1>3, <2>1
  <1>6. {x \in SetupStart(s, t)..(s[t] - 1) : NightPart(Operation[t].machine, x)} = FirstNights(m) \cap Window(a, b)
    <2>1. Window(a, b) = SetupStart(s, t)..(s[t] - 1) /\ Window(a, b) \subseteq WorkSlots(s, t)
      BY <1>2, <1>4 DEF Window
    <2> QED BY <1>1, <1>3, <2>1
  <1>7. ProductionOvertime(s, t) = NightOverlap(m, b, c) /\ SetupOvertime(s, t) = NightOverlap(m, a, b)
    BY <1>5, <1>6, NightOverlapCounted DEF ProductionOvertime, SetupOvertime
  <1>8. ProductionOvertime(s, t) \in Int /\ SetupOvertime(s, t) \in Int
    <2>1. IsFiniteSet(FirstNights(m) \cap Window(b, c)) /\ IsFiniteSet(FirstNights(m) \cap Window(a, b))
      <3>1. IsFiniteSet(Window(b, c)) /\ IsFiniteSet(Window(a, b))
        BY FS_Interval DEF Window
      <3> QED BY <3>1, FS_Subset
    <2>2. /\ Cardinality(FirstNights(m) \cap Window(b, c)) \in Nat
          /\ Cardinality(FirstNights(m) \cap Window(a, b)) \in Nat
      BY <2>1, FS_CardinalityType
    <2>3. ProductionOvertime(s, t) \in Nat
      BY <1>5, <2>2 DEF ProductionOvertime
    <2>4. SetupOvertime(s, t) \in Nat
      BY <1>6, <2>2 DEF SetupOvertime
    <2> QED BY <2>3, <2>4
  <1> QED BY <1>1, <1>2, <1>7, <1>8 DEF OvertimeTerm

\* Open time of the objective, as prefixes of the makespan.
LEMMA PrefixIsCommon ==
    ASSUME NEW e \in Nat, NEW h \in Nat, e <= h, NEW a \in Nat, NEW b \in Nat
    PROVE  PrefixOverlap(e, a, Min({b, h})) = InCommon(a, b, 0, e)
  <1>1. Min({b, h}) = IF b <= h THEN b ELSE h
    BY Larger
  <1>2. PICK r \in Int : r = Min({b, h})
    BY <1>1
  <1>3. Min({e - a, r - a}) = IF e - a <= r - a THEN e - a ELSE r - a
    <2>1. e - a \in Int /\ r - a \in Int
      OBVIOUS
    <2> QED BY <2>1, Larger
  <1>4. Min({b, e}) = IF b <= e THEN b ELSE e
    BY Larger
  <1>5. Max({a, 0}) = a
    <2>1. a \in Int /\ 0 \in Int
      OBVIOUS
    <2>2. Max({a, 0}) = IF a >= 0 THEN a ELSE 0
      BY <2>1, Larger
    <2> QED BY <2>2
  <1>6. PICK x \in Int, y \in Int : x = Min({e - a, r - a}) /\ y = Min({b, e})
    BY <1>3, <1>4
  <1>7. x = y - a
    BY <1>1, <1>2, <1>3, <1>4, <1>6
  <1>8. PrefixOverlap(e, a, Min({b, h})) = Max({0, x})
    BY <1>2, <1>6 DEF PrefixOverlap
  <1>9. InCommon(a, b, 0, e) = Max({0, y - a})
    BY <1>5, <1>6 DEF InCommon
  <1> QED BY <1>7, <1>8, <1>9

ShiftDays(m) == {d \in Days : ~Closed(d) /\ d * DayLength + Night[m] < Horizon}
ShiftSpans(m) ==
    Spans([d \in ShiftDays(m) |-> d * DayLength + Night[m]],
          [d \in ShiftDays(m) |-> (d + 1) * DayLength], ShiftDays(m))

LEMMA ShiftOfDay ==
    ASSUME NEW m \in Machines, NEW d \in Days
    PROVE  /\ d \in Nat /\ d * DayLength \in Nat /\ d * DayLength + Night[m] \in Nat /\ (d + 1) * DayLength \in Nat
           /\ (d * DayLength + Night[m])..((d + 1) * DayLength - 1) = DaySlots(d) \ NightSlots(m, d)
  <1>1. d \in Nat
    BY DaysFinite
  <1>2. PICK k \in Nat, q \in Nat, n \in Nat : k = DayLength /\ q = d * k /\ n = Night[m] /\ n < k
    <2>1. DayLength \in Nat /\ d * DayLength \in Nat /\ Night[m] \in Nat /\ Night[m] < DayLength
      BY <1>1, ShopTypes
    <2> QED BY <2>1
  <1>3. (d + 1) * DayLength = q + k
    BY <1>1, <1>2
  <1>4. NightSlots(m, d) = q..(q + n - 1) /\ DaySlots(d) = q..(q + k - 1)
    BY <1>2 DEF NightSlots, DaySlots
  <1>5. (q + n)..(q + k - 1) = (q..(q + k - 1)) \ (q..(q + n - 1))
    BY <1>2
  <1>6. (d * DayLength + Night[m])..((d + 1) * DayLength - 1) = (q + n)..(q + k - 1)
    BY <1>2, <1>3
  <1> QED BY <1>1, <1>2, <1>3, <1>4, <1>5, <1>6

LEMMA ShiftSpanTypes ==
    ASSUME NEW m \in Machines
    PROVE  /\ IsFiniteSet(ShiftDays(m))
           /\ IntegersOn([d \in ShiftDays(m) |-> d * DayLength + Night[m]], ShiftDays(m))
           /\ IntegersOn([d \in ShiftDays(m) |-> (d + 1) * DayLength], ShiftDays(m))
           /\ \A d \in ShiftDays(m) : ShiftSpans(m)[d] = DaySlots(d) \ NightSlots(m, d)
           /\ Apart(ShiftSpans(m), ShiftDays(m))
  <1>1. PICK D \in SUBSET Days : D = ShiftDays(m)
    BY DEF ShiftDays
  <1>2. IsFiniteSet(D)
    BY DaysFinite, FS_Subset
  <1>3. PICK a : a = [d \in D |-> d * DayLength + Night[m]]
    OBVIOUS
  <1>4. PICK b : b = [d \in D |-> (d + 1) * DayLength]
    OBVIOUS
  <1>5. ASSUME NEW d \in D
        PROVE  a[d] \in Int /\ b[d] \in Int /\ ShiftSpans(m)[d] = DaySlots(d) \ NightSlots(m, d) /\ d \in Nat
    <2>1. a[d] = d * DayLength + Night[m] /\ b[d] = (d + 1) * DayLength
      BY <1>3, <1>4
    <2>2. ShiftSpans(m)[d] = a[d]..(b[d] - 1)
      BY <1>1, <1>3, <1>4 DEF ShiftSpans, Spans
    <2>3. d \in Days
      BY <1>1
    <2> QED BY <2>1, <2>2, <2>3, ShiftOfDay
  <1>6. Apart(ShiftSpans(m), D)
    <2> SUFFICES ASSUME NEW d \in D, NEW e \in D, d # e,
                        NEW x, x \in ShiftSpans(m)[d], x \in ShiftSpans(m)[e]
                 PROVE  FALSE
      BY DEF Apart
    <2>1. d \in Nat /\ e \in Nat /\ x \in DaySlots(d) /\ x \in DaySlots(e)
      BY <1>5
    <2>2. x \in Nat
      BY <2>1, NightOfDay
    <2> QED BY <2>1, <2>2, DayOfSlot
  <1>7. IntegersOn(a, D) /\ IntegersOn(b, D)
    BY <1>5 DEF IntegersOn
  <1> QED BY <1>1, <1>2, <1>3, <1>4, <1>5, <1>6, <1>7

LEMMA ShiftPrefixes ==
    ASSUME NEW s \in Schedules, NEW m \in Machines
    PROVE  SumFunction([d \in {d \in Days : ~Closed(d) /\ d * DayLength + Night[m] < Horizon} |->
                PrefixOverlap(Makespan(s), d * DayLength + Night[m], Min({(d + 1) * DayLength, Horizon}))])
            = Cardinality(Union(ShiftSpans(m), ShiftDays(m)) \cap Window(0, Makespan(s)))
  <1>1. PICK e \in Nat, h \in Nat : e = Makespan(s) /\ h = Horizon /\ e <= h
    BY MakespanOfPlan, ShopTypes
  <1>2. PICK D \in SUBSET Days : D = ShiftDays(m)
    BY DEF ShiftDays
  <1>3. PICK a : a = [d \in D |-> d * DayLength + Night[m]]
    OBVIOUS
  <1>4. PICK b : b = [d \in D |-> (d + 1) * DayLength]
    OBVIOUS
  <1>5. PICK g : g = [d \in D |->
                PrefixOverlap(Makespan(s), d * DayLength + Night[m], Min({(d + 1) * DayLength, Horizon}))]
    OBVIOUS
  <1>6. Overlaps(g, a, b, D, 0, e)
    <2> SUFFICES ASSUME NEW d \in D PROVE g[d] = InCommon(a[d], b[d], 0, e)
      BY DEF Overlaps
    <2>1. PICK p \in Nat, q \in Nat : p = d * DayLength + Night[m] /\ q = (d + 1) * DayLength
      BY ShiftOfDay
    <2>2. a[d] = p /\ b[d] = q /\ g[d] = PrefixOverlap(e, p, Min({q, h}))
      BY <1>1, <1>3, <1>4, <1>5, <2>1
    <2>3. PrefixOverlap(e, p, Min({q, h})) = InCommon(p, q, 0, e)
      BY <1>1, <2>1, PrefixIsCommon
    <2> QED BY <2>2, <2>3
  <1>7. ShiftSpans(m) = Spans(a, b, D)
    BY <1>2, <1>3, <1>4 DEF ShiftSpans
  <1>8. IsFiniteSet(D) /\ IntegersOn(a, D) /\ IntegersOn(b, D) /\ Apart(Spans(a, b, D), D)
    BY <1>2, <1>3, <1>4, <1>7, ShiftSpanTypes
  <1>9. 0 \in Int /\ e \in Int
    BY <1>1
  <1>10. \A d \in D : g[d] \in Int
    BY <1>6, <1>8, <1>9, OverlapsAddUp
  <1>11. Total(g, D) = Cardinality(Union(Spans(a, b, D), D) \cap Window(0, e))
    BY <1>6, <1>8, <1>9, OverlapsAddUp
  <1>12. DOMAIN g = D
    BY <1>5
  <1>13. SumFunction(g) = Total(g, D)
    BY <1>8, <1>10, <1>12, SumIsTotal
  <1>14. D = {d \in Days : ~Closed(d) /\ d * DayLength + Night[m] < Horizon}
    BY <1>2 DEF ShiftDays
  <1>15. SumFunction(g) = Cardinality(Union(ShiftSpans(m), ShiftDays(m)) \cap Window(0, Makespan(s)))
    BY <1>1, <1>2, <1>7, <1>11, <1>13
  <1> QED BY <1>5, <1>14, <1>15

LEMMA NightPrefixes ==
    ASSUME NEW s \in Schedules, NEW m \in Machines
    PROVE  SumFunction([d \in NightsCounted(m) |->
                PrefixOverlap(Makespan(s), d * DayLength, Min({d * DayLength + Night[m], Horizon}))])
            = Cardinality(Union(NightSpans(m, NightsCounted(m)), NightsCounted(m)) \cap Window(0, Makespan(s)))
  <1>1. PICK e \in Nat, h \in Nat : e = Makespan(s) /\ h = Horizon /\ e <= h
    BY MakespanOfPlan, ShopTypes
  <1>2. PICK D \in SUBSET Days : D = NightsCounted(m)
    BY DEF NightsCounted, FirstWeekDays
  <1>3. PICK a : a = [d \in D |-> d * DayLength]
    OBVIOUS
  <1>4. PICK b : b = [d \in D |-> d * DayLength + Night[m]]
    OBVIOUS
  <1>5. PICK g : g = [d \in D |->
                PrefixOverlap(Makespan(s), d * DayLength, Min({d * DayLength + Night[m], Horizon}))]
    OBVIOUS
  <1>6. Overlaps(g, a, b, D, 0, e)
    <2> SUFFICES ASSUME NEW d \in D PROVE g[d] = InCommon(a[d], b[d], 0, e)
      BY DEF Overlaps
    <2>1. PICK p \in Nat, q \in Nat : p = d * DayLength /\ q = d * DayLength + Night[m]
      BY ShiftOfDay
    <2>2. a[d] = p /\ b[d] = q /\ g[d] = PrefixOverlap(e, p, Min({q, h}))
      BY <1>1, <1>3, <1>4, <1>5, <2>1
    <2>3. PrefixOverlap(e, p, Min({q, h})) = InCommon(p, q, 0, e)
      BY <1>1, <2>1, PrefixIsCommon
    <2> QED BY <2>2, <2>3
  <1>7. NightSpans(m, D) = Spans(a, b, D)
    BY <1>3, <1>4 DEF NightSpans
  <1>8. IsFiniteSet(D) /\ IntegersOn(a, D) /\ IntegersOn(b, D) /\ Apart(Spans(a, b, D), D)
    BY <1>3, <1>4, <1>7, NightSpanTypes
  <1>9. 0 \in Int /\ e \in Int
    BY <1>1
  <1>10. \A d \in D : g[d] \in Int
    BY <1>6, <1>8, <1>9, OverlapsAddUp
  <1>11. Total(g, D) = Cardinality(Union(Spans(a, b, D), D) \cap Window(0, e))
    BY <1>6, <1>8, <1>9, OverlapsAddUp
  <1>12. DOMAIN g = D
    BY <1>5
  <1>13. SumFunction(g) = Total(g, D)
    BY <1>8, <1>10, <1>12, SumIsTotal
  <1>14. SumFunction(g) = Cardinality(Union(NightSpans(m, D), D) \cap Window(0, Makespan(s)))
    BY <1>1, <1>7, <1>11, <1>13
  <1> QED BY <1>2, <1>5, <1>14

LEMMA OpenTimeAgrees ==
    ASSUME NEW s \in Schedules, NEW m \in Machines
    PROVE  OpenTime(s, m) = OpenMinutes(m, 0, Makespan(s))
  <1>1. PICK e \in Nat, h \in Nat : e = Makespan(s) /\ h = Horizon /\ e <= h
    BY MakespanOfPlan, ShopTypes
  <1>2. PICK W : W = Window(0, e)
    OBVIOUS
  <1>3. PICK A : A = Union(ShiftSpans(m), ShiftDays(m)) \cap W
    OBVIOUS
  <1>4. PICK B : B = Union(NightSpans(m, NightsCounted(m)), NightsCounted(m)) \cap W
    OBVIOUS
  <1>5. OpenTime(s, m) = Cardinality(A) + Cardinality(B)
    BY <1>1, <1>2, <1>3, <1>4, ShiftPrefixes, NightPrefixes DEF OpenTime
  <1>6. OpenMinutes(m, 0, Makespan(s)) = Cardinality(OpenSlots(m) \cap W)
    <2>1. 0 \in Int /\ e \in Int
      BY <1>1
    <2> QED BY <1>1, <1>2, <2>1, OpenMinutesCounted
  <1>7. \A x : x \in A <=> x \in W /\ \E d \in ShiftDays(m) : x \in DaySlots(d) /\ x \notin NightSlots(m, d)
    BY <1>3, ShiftSpanTypes DEF Union
  <1>8. \A x : x \in B <=> x \in W /\ \E d \in NightsCounted(m) : x \in NightSlots(m, d)
    <2>1. NightsCounted(m) \in SUBSET Days
      BY DEF NightsCounted, FirstWeekDays
    <2> QED BY <1>4, <2>1, NightSpanTypes DEF Union
  <1>9. \A x : x \in OpenSlots(m) <=>
            \E d \in OpenDayset : x \in OpensAt(m, d)..((d + 1) * DayLength - 1)
    BY DEF OpenSlots, OpenSpans, Spans, Union
  <1>10. \A d \in Days : d \in Nat
    BY DaysFinite
  <1>11. A \cap B = {}
    <2> SUFFICES ASSUME NEW x, x \in A, x \in B PROVE FALSE
      OBVIOUS
    <2>1. PICK d \in ShiftDays(m) : x \in DaySlots(d) /\ x \notin NightSlots(m, d)
      BY <1>7
    <2>2. PICK f \in NightsCounted(m) : x \in NightSlots(m, f)
      BY <1>8
    <2>3. d \in Nat /\ f \in Nat
      BY <1>10 DEF ShiftDays, NightsCounted, FirstWeekDays
    <2>4. x \in Nat /\ x \div DayLength = f
      BY <2>2, <2>3, NightOfDay
    <2>5. x \div DayLength = d
      BY <2>1, <2>3, <2>4, DayOfSlot
    <2> QED BY <2>1, <2>2, <2>4, <2>5
  <1>12. A \cup B = OpenSlots(m) \cap W
    <2>1. ASSUME NEW x, x \in A PROVE x \in OpenSlots(m) \cap W
      <3>1. PICK d \in ShiftDays(m) : x \in DaySlots(d) /\ x \notin NightSlots(m, d)
        BY <1>7, <2>1
      <3>2. d \in Days /\ d \in OpenDayset
        BY DEF ShiftDays, OpenDayset
      <3>3. x \in OpensAt(m, d)..((d + 1) * DayLength - 1)
        BY <3>1, <3>2, DayOpens
      <3> QED BY <1>7, <1>9, <2>1, <3>2, <3>3
    <2>2. ASSUME NEW x, x \in B PROVE x \in OpenSlots(m) \cap W
      <3>1. PICK d \in NightsCounted(m) : x \in NightSlots(m, d)
        BY <1>8, <2>2
      <3>2. d \in Days /\ d \in OpenDayset /\ FirstWeek(d) /\ OvertimeBudget[m] > 0 /\ d \in Nat
        BY <1>10 DEF NightsCounted, FirstWeekDays, OpenDayset
      <3>3. x \in DaySlots(d)
        BY <3>1, <3>2, NightOfDay
      <3>4. x \in OpensAt(m, d)..((d + 1) * DayLength - 1)
        BY <3>2, <3>3, DayOpens
      <3> QED BY <1>8, <1>9, <2>2, <3>2, <3>4
    <2>3. ASSUME NEW x, x \in OpenSlots(m), x \in W PROVE x \in A \/ x \in B
      <3>1. PICK d \in OpenDayset : x \in OpensAt(m, d)..((d + 1) * DayLength - 1)
        BY <1>9, <2>3
      <3>2. d \in Days /\ ~Closed(d) /\ d \in Nat
        BY <1>10 DEF OpenDayset
      <3>3. CASE x \in NightSlots(m, d)
        <4>1. FirstWeek(d) /\ OvertimeBudget[m] > 0
          BY <3>1, <3>2, <3>3, DayOpens
        <4>2. d \in NightsCounted(m)
          BY <3>2, <4>1 DEF NightsCounted, FirstWeekDays
        <4> QED BY <1>8, <2>3, <3>3, <4>2
      <3>4. CASE x \notin NightSlots(m, d)
        <4>1. x \in DaySlots(d) /\ x \notin NightSlots(m, d)
          BY <3>1, <3>2, <3>4, DayOpens
        <4>2. x \in (d * DayLength + Night[m])..((d + 1) * DayLength - 1)
          BY <3>2, <4>1, ShiftOfDay
        <4>3. PICK p \in Nat : p = d * DayLength + Night[m]
          BY <3>2, ShiftOfDay
        <4>4. x \in 0..(e - 1) /\ x >= p
          BY <1>2, <2>3, <4>2, <4>3 DEF Window
        <4>5. p < h
          BY <1>1, <4>3, <4>4
        <4>6. d \in ShiftDays(m)
          BY <1>1, <3>2, <4>3, <4>5 DEF ShiftDays
        <4> QED BY <1>7, <2>3, <4>1, <4>6
      <3> QED BY <3>3, <3>4
    <2> QED BY <2>1, <2>2, <2>3
  <1>13. Cardinality(A) + Cardinality(B) = Cardinality(A \cup B)
    <2>1. IsFiniteSet(W)
      BY <1>2, FS_Interval DEF Window
    <2>2. IsFiniteSet(A) /\ IsFiniteSet(B)
      BY <1>3, <1>4, <2>1, FS_Subset
    <2>3. Cardinality(A \cup B) = Cardinality(A) + Cardinality(B) - Cardinality(A \cap B)
      BY <2>2, FS_Union
    <2>4. Cardinality(A \cap B) = 0 /\ Cardinality(A) \in Nat /\ Cardinality(B) \in Nat
      BY <1>11, <2>2, FS_EmptySet, FS_CardinalityType
    <2> QED BY <2>3, <2>4
  <1> QED BY <1>5, <1>6, <1>12, <1>13

\* The solver's energy term is the report's.
LEMMA SolverEnergyAgrees ==
    ASSUME NEW s \in Schedules, Physical(s)
    PROVE  SumFunction([m \in Machines |-> SolverEnergy(s, m)]) = AnalyticEnergy(s)
  <1>1. ASSUME NEW m \in Machines
        PROVE  SolverEnergy(s, m) =
                ProcessingEnergy(m) + Power[m].setup * SetupSum(s, On(m))
                    + Power[m].idle * Max({0, AnalyticIdle(s, m)})
    <2>1. Max({0, AnalyticIdle(s, m)}) = AnalyticIdle(s, m)
      <3>1. 0 \in Int /\ AnalyticIdle(s, m) \in Int /\ AnalyticIdle(s, m) >= 0
        BY IntegralsAgree
      <3> QED BY <3>1, Larger
    <2>2. OpenTime(s, m) - RunTime(On(m)) - SolverSetup(s, m) = AnalyticIdle(s, m)
      BY OpenTimeAgrees, SolverSetups DEF AnalyticIdle
    <2> QED BY <2>1, <2>2, SolverSetups DEF SolverEnergy
  <1> QED BY <1>1 DEF AnalyticEnergy

\* Sums over the tasks, by machine and by lot.
PartSums(h, g, F, K) == \A x \in K : h[x] = SumFunction([t \in F[x] |-> g[t]])

LEMMA SumOfParts ==
    ASSUME NEW K, IsFiniteSet(K), NEW F, Apart(F, K), Union(F, K) = Tasks,
           NEW g, IntegersOn(g, Tasks), NEW h, PartSums(h, g, F, K)
    PROVE  /\ IntegersOn(h, K) /\ Total(h, K) = SumFunction([t \in Tasks |-> g[t]])
           /\ Total(h, K) \in Int
  <1>1. PartTotals(h, g, F, K)
    <2> SUFFICES ASSUME NEW x \in K
                 PROVE  IsFiniteSet(F[x]) /\ IntegersOn(g, F[x]) /\ h[x] = Total(g, F[x])
      BY DEF PartTotals
    <2>1. F[x] \subseteq Tasks
      BY DEF Union
    <2>2. IsFiniteSet(F[x]) /\ IntegersOn(g, F[x])
      BY <2>1, ShopTypes, FS_Subset DEF IntegersOn
    <2> QED BY <2>2, SumOverSet DEF PartSums
  <1>2. IntegersOn(h, K) /\ Total(h, K) = Total(g, Tasks)
    BY <1>1, PartsAddUp
  <1> QED BY <1>2, ShopTypes, SumOverSet

LEMMA LotParts ==
    ASSUME NEW F, F = [l \in Lots |-> LotOf(l)]
    PROVE  Apart(F, Lots) /\ Union(F, Lots) = Tasks
  <1>1. Apart(F, Lots)
    BY DEF Apart, LotOf
  <1>2. Union(F, Lots) = Tasks
    <2>1. \A t \in Tasks : Operation[t].lot \in Lots /\ t \in LotOf(Operation[t].lot)
      BY DEF LotOf, Lots
    <2>2. \A l \in Lots : LotOf(l) \subseteq Tasks
      BY DEF LotOf
    <2>3. \A t \in Tasks : \E l \in Lots : t \in F[l]
      BY <2>1
    <2>4. \A l \in Lots : F[l] \subseteq Tasks
      BY <2>2
    <2> QED BY <2>3, <2>4 DEF Union
  <1> QED BY <1>1, <1>2

LEMMA MachineParts ==
    ASSUME NEW F, F = [m \in Machines |-> On(m)]
    PROVE  Apart(F, Machines) /\ Union(F, Machines) = Tasks
  <1>1. Apart(F, Machines)
    BY DEF Apart, On
  <1>2. Union(F, Machines) = Tasks
    <2>1. \A t \in Tasks : Operation[t].machine \in Machines /\ t \in On(Operation[t].machine)
      BY ShopTypes
    <2>2. \A m \in Machines : On(m) \subseteq Tasks
      BY DEF On
    <2> QED BY <2>1, <2>2 DEF Union
  <1> QED BY <1>1, <1>2

LEMMA TaskTotals ==
    ASSUME NEW s \in Schedules, Physical(s)
    PROVE  /\ RunTime(Tasks) \in Int /\ SetupSum(s, Tasks) \in Int
           /\ SumFunction([m \in Machines |-> SolverSetup(s, m)]) = SetupSum(s, Tasks)
           /\ \A run : run = [l \in Lots |-> RunTime(LotOf(l))] =>
                IntegersOn(run, Lots) /\ Total(run, Lots) = RunTime(Tasks)
           /\ \A setup : setup = [l \in Lots |-> SetupSum(s, LotOf(l))] =>
                IntegersOn(setup, Lots) /\ Total(setup, Lots) = SetupSum(s, Tasks)
  <1>1. PICK d : d = [t \in Tasks |-> Operation[t].duration]
    OBVIOUS
  <1>2. PICK u : u = [t \in Tasks |-> SetupBefore(s, t)]
    OBVIOUS
  <1>3. IntegersOn(d, Tasks) /\ IntegersOn(u, Tasks)
    <2>1. \A t \in Tasks : Operation[t].duration \in Int /\ SetupBefore(s, t) \in Int
      BY ShopTypes, TaskWork, PhysicalIsSound
    <2> QED BY <1>1, <1>2, <2>1 DEF IntegersOn
  <1>4. ASSUME NEW S \in SUBSET Tasks
        PROVE  /\ RunTime(S) = SumFunction([t \in S |-> d[t]])
               /\ SetupSum(s, S) = SumFunction([t \in S |-> u[t]])
    <2>1. [t \in S |-> d[t]] = [t \in S |-> Operation[t].duration]
      BY <1>1
    <2>2. [t \in S |-> u[t]] = [t \in S |-> SetupBefore(s, t)]
      BY <1>2
    <2> QED BY <2>1, <2>2 DEF RunTime, SetupSum
  <1>5. PICK F : F = [l \in Lots |-> LotOf(l)]
    OBVIOUS
  <1>6. PICK G : G = [m \in Machines |-> On(m)]
    OBVIOUS
  <1>7. RunTime(Tasks) \in Int /\ SetupSum(s, Tasks) \in Int
    <2>1. Tasks \in SUBSET Tasks /\ IsFiniteSet(Tasks)
      BY ShopTypes
    <2>2. SumFunction([t \in Tasks |-> d[t]]) \in Int /\ SumFunction([t \in Tasks |-> u[t]]) \in Int
      BY <1>3, <2>1, SumOverSet
    <2> QED BY <1>4, <2>1, <2>2
  <1>8. ASSUME NEW run, run = [l \in Lots |-> RunTime(LotOf(l))]
        PROVE  IntegersOn(run, Lots) /\ Total(run, Lots) = RunTime(Tasks)
    <2>1. PartSums(run, d, F, Lots)
      BY <1>4, <1>5, <1>8, LotShape DEF PartSums
    <2>2. IntegersOn(run, Lots) /\ Total(run, Lots) = SumFunction([t \in Tasks |-> d[t]])
      BY <1>3, <1>5, <2>1, LotParts, LotsFinite, SumOfParts
    <2> QED BY <1>4, <2>2
  <1>9. ASSUME NEW setup, setup = [l \in Lots |-> SetupSum(s, LotOf(l))]
        PROVE  IntegersOn(setup, Lots) /\ Total(setup, Lots) = SetupSum(s, Tasks)
    <2>1. PartSums(setup, u, F, Lots)
      BY <1>4, <1>5, <1>9, LotShape DEF PartSums
    <2>2. IntegersOn(setup, Lots) /\ Total(setup, Lots) = SumFunction([t \in Tasks |-> u[t]])
      BY <1>3, <1>5, <2>1, LotParts, LotsFinite, SumOfParts
    <2> QED BY <1>4, <2>2
  <1>10. SumFunction([m \in Machines |-> SolverSetup(s, m)]) = SetupSum(s, Tasks)
    <2>1. PICK h : h = [m \in Machines |-> SolverSetup(s, m)]
      OBVIOUS
    <2>2. PartSums(h, u, G, Machines)
      <3> SUFFICES ASSUME NEW m \in Machines PROVE h[m] = SumFunction([t \in G[m] |-> u[t]])
        BY DEF PartSums
      <3>1. h[m] = SetupSum(s, On(m)) /\ On(m) \subseteq Tasks /\ G[m] = On(m)
        BY <1>6, <2>1, SolverSetups, ShopTypes
      <3> QED BY <1>4, <3>1
    <2>3. IsFiniteSet(Machines)
      BY ShopFloorAssumption
    <2>4. IntegersOn(h, Machines) /\ Total(h, Machines) = SumFunction([t \in Tasks |-> u[t]])
      BY <1>3, <1>6, <2>2, <2>3, MachineParts, SumOfParts
    <2>5. DOMAIN h = Machines /\ \A m \in Machines : h[m] \in Int
      BY <2>1, <2>4 DEF IntegersOn
    <2>6. SumFunction(h) = Total(h, Machines)
      BY <2>3, <2>5, SumIsTotal
    <2> QED BY <1>4, <2>1, <2>4, <2>6
  <1> QED BY <1>7, <1>8, <1>9, <1>10

\* What the orders cost, summed over the lots.
Held(s, l) == Operation[FirstOf(l)].units * (End(s, LastOf(l)) - s[FirstOf(l)])
HeldTotal(s) == SumFunction([l \in Lots |-> Held(s, l)])

LEMMA OneOrderCost ==
    ASSUME NEW s \in Schedules, Physical(s), NEW l \in Lots
    PROVE  /\ Held(s, l) \in Int
           /\ CostToServe(s, l) =
                Rates.labor * RunTime(LotOf(l)) +
                    (Rates.setup * SetupSum(s, LotOf(l)) +
                        (Rates.tardiness * TardinessTerm(s, l) + Rates.holding * Held(s, l)))
  <1>1. PICK a \in Int, b \in Int, c \in Int, d \in Int :
            a = Rates.labor /\ b = Rates.setup /\ c = Rates.tardiness /\ d = Rates.holding
    BY EconomicsAssumption
  <1>2. PICK w \in Int, x \in Int, y \in Int :
            w = Operation[FirstOf(l)].units /\ x = End(s, LastOf(l)) /\ y = s[FirstOf(l)]
    BY JobShown
  <1>3. PICK q \in Int : q = w * (x - y)
    OBVIOUS
  <1>4. Held(s, l) = q
    BY <1>2, <1>3 DEF Held
  <1>5. PICK p \in Int : p = TardinessTerm(s, l)
    BY TardinessShown
  <1>6. PICK r \in Int, u \in Int : r = RunTime(LotOf(l)) /\ u = SetupSum(s, LotOf(l))
    <2>1. PICK run : run = [k \in Lots |-> RunTime(LotOf(k))]
      OBVIOUS
    <2>2. PICK setup : setup = [k \in Lots |-> SetupSum(s, LotOf(k))]
      OBVIOUS
    <2>3. IntegersOn(run, Lots) /\ IntegersOn(setup, Lots)
      BY <2>1, <2>2, TaskTotals
    <2> QED BY <2>1, <2>2, <2>3 DEF IntegersOn
  <1>7. PICK job : job = JobSummary(s, l)
    OBVIOUS
  <1>8. /\ job.run = r /\ job.setup = u /\ Tardiness(job) = p
        /\ job.units = w /\ job.completion = x /\ job.start = y
    BY <1>2, <1>5, <1>6, <1>7, JobShown, TardinessShown
  <1>9. CostToServe(s, l) = r * a + u * b + p * c + w * (x - y) * d
    <2>1. CostToServe(s, l) = job.run * Rates.labor + job.setup * Rates.setup + Tardiness(job) * Rates.tardiness
                                + job.units * (job.completion - job.start) * Rates.holding
      BY <1>7 DEF CostToServe
    <2> QED BY <1>1, <1>8, <2>1
  <1>10. r * a + u * b + p * c + q * d = a * r + (b * u + (c * p + d * q))
    <2>1. r * a = a * r /\ u * b = b * u /\ p * c = c * p /\ q * d = d * q
      OBVIOUS
    <2>2. PICK e \in Int, f \in Int, g \in Int, h \in Int : e = a * r /\ f = b * u /\ g = c * p /\ h = d * q
      OBVIOUS
    <2>3. e + f + g + h = e + (f + (g + h))
      OBVIOUS
    <2> QED BY <2>1, <2>2, <2>3
  <1> QED BY <1>1, <1>3, <1>4, <1>5, <1>6, <1>9, <1>10

LEMMA OrdersCost ==
    ASSUME NEW s \in Schedules, Physical(s)
    PROVE  /\ HeldTotal(s) \in Int /\ WeightedTardiness(s) \in Int
           /\ SumFunction([l \in Lots |-> CostToServe(s, l)]) =
                Rates.labor * RunTime(Tasks) +
                    (Rates.setup * SetupSum(s, Tasks) +
                        (Rates.tardiness * WeightedTardiness(s) + Rates.holding * HeldTotal(s)))
  <1>1. PICK a \in Int, b \in Int, c \in Int, d \in Int :
            a = Rates.labor /\ b = Rates.setup /\ c = Rates.tardiness /\ d = Rates.holding
    BY EconomicsAssumption
  <1>2. PICK run : run = [l \in Lots |-> RunTime(LotOf(l))]
    OBVIOUS
  <1>3. PICK setup : setup = [l \in Lots |-> SetupSum(s, LotOf(l))]
    OBVIOUS
  <1>4. PICK late : late = [l \in Lots |-> TardinessTerm(s, l)]
    OBVIOUS
  <1>5. PICK held : held = [l \in Lots |-> Held(s, l)]
    OBVIOUS
  <1>6. PICK cost : cost = [l \in Lots |-> CostToServe(s, l)]
    OBVIOUS
  <1>7. /\ IntegersOn(run, Lots) /\ Total(run, Lots) = RunTime(Tasks)
        /\ IntegersOn(setup, Lots) /\ Total(setup, Lots) = SetupSum(s, Tasks)
    BY <1>2, <1>3, TaskTotals
  <1>8. IntegersOn(late, Lots) /\ IntegersOn(held, Lots)
    BY <1>4, <1>5, TardinessShown, OneOrderCost DEF IntegersOn
  <1>9. SumFunction(late) = Total(late, Lots) /\ SumFunction(held) = Total(held, Lots)
    <2>1. DOMAIN late = Lots /\ DOMAIN held = Lots
      BY <1>4, <1>5
    <2> QED BY <1>8, <2>1, LotsFinite, SumIsTotal DEF IntegersOn
  <1>10. WeightedTardiness(s) = Total(late, Lots) /\ HeldTotal(s) = Total(held, Lots)
    BY <1>4, <1>5, <1>9 DEF WeightedTardiness, HeldTotal
  <1>11. Total(late, Lots) \in Int /\ Total(held, Lots) \in Int
    BY <1>8, LotsFinite, TotalStep DEF IntegersOn
  <1>12. PICK f : f = [l \in Lots |-> d * held[l]]
    OBVIOUS
  <1>13. Total(f, Lots) = d * Total(held, Lots) /\ IntegersOn(f, Lots)
    BY <1>8, <1>12, LotsFinite, TotalScaled
  <1>14. PICK g : g = [l \in Lots |-> c * late[l] + f[l]]
    OBVIOUS
  <1>15. Total(g, Lots) = c * Total(late, Lots) + Total(f, Lots) /\ IntegersOn(g, Lots)
    <2>1. Combines(g, c, late, f, Lots)
      BY <1>14 DEF Combines
    <2>2. Total(g, Lots) = c * Total(late, Lots) + Total(f, Lots)
      BY <1>8, <1>13, <2>1, LotsFinite, TotalLinear
    <2>3. IntegersOn(g, Lots)
      <3> SUFFICES ASSUME NEW l \in Lots PROVE g[l] \in Int
        BY DEF IntegersOn
      <3>1. PICK x \in Int, y \in Int : x = late[l] /\ y = f[l]
        BY <1>8, <1>13 DEF IntegersOn
      <3>2. c * x \in Int /\ g[l] = c * x + y
        BY <1>14, <3>1, ProductTypes
      <3> QED BY <3>1, <3>2
    <2> QED BY <2>2, <2>3
  <1>16. PICK h : h = [l \in Lots |-> b * setup[l] + g[l]]
    OBVIOUS
  <1>17. Total(h, Lots) = b * Total(setup, Lots) + Total(g, Lots) /\ IntegersOn(h, Lots)
    <2>1. Combines(h, b, setup, g, Lots)
      BY <1>16 DEF Combines
    <2>2. Total(h, Lots) = b * Total(setup, Lots) + Total(g, Lots)
      BY <1>7, <1>15, <2>1, LotsFinite, TotalLinear
    <2>3. IntegersOn(h, Lots)
      <3> SUFFICES ASSUME NEW l \in Lots PROVE h[l] \in Int
        BY DEF IntegersOn
      <3>1. PICK x \in Int, y \in Int : x = setup[l] /\ y = g[l]
        BY <1>7, <1>15 DEF IntegersOn
      <3>2. b * x \in Int /\ h[l] = b * x + y
        BY <1>16, <3>1, ProductTypes
      <3> QED BY <3>1, <3>2
    <2> QED BY <2>2, <2>3
  <1>18. Combines(cost, a, run, h, Lots)
    <2> SUFFICES ASSUME NEW l \in Lots PROVE cost[l] = a * run[l] + h[l]
      BY DEF Combines
    <2>1. h[l] = b * setup[l] + (c * late[l] + d * held[l])
      BY <1>12, <1>14, <1>16
    <2>2. cost[l] = a * run[l] + (b * setup[l] + (c * late[l] + d * held[l]))
      BY <1>1, <1>2, <1>3, <1>4, <1>5, <1>6, OneOrderCost
    <2> QED BY <2>1, <2>2
  <1>19. Total(cost, Lots) = a * Total(run, Lots) + Total(h, Lots)
    BY <1>7, <1>17, <1>18, LotsFinite, TotalLinear
  <1>20. SumFunction(cost) = Total(cost, Lots)
    <2>1. \A l \in Lots : a * run[l] \in Int /\ h[l] \in Int
      BY <1>7, <1>17, ProductTypes DEF IntegersOn
    <2>2. \A l \in Lots : cost[l] \in Int
      BY <1>18, <2>1 DEF Combines
    <2>3. DOMAIN cost = Lots
      BY <1>6
    <2> QED BY <2>2, <2>3, LotsFinite, SumIsTotal
  <1>21. SumFunction(cost) = a * Total(run, Lots) + (b * Total(setup, Lots) + (c * Total(late, Lots) + d * Total(held, Lots)))
    BY <1>13, <1>15, <1>17, <1>19, <1>20
  <1> QED BY <1>1, <1>6, <1>7, <1>10, <1>11, <1>21

LEMMA OvertimeTotal ==
    ASSUME NEW s \in Schedules, Physical(s)
    PROVE  /\ SumFunction([t \in Tasks |-> OvertimeTerm(s, t)]) \in Int
           /\ OvertimePremium(s) = Rates.premium * SumFunction([t \in Tasks |-> OvertimeTerm(s, t)])
  <1>1. PICK g : g = [t \in Tasks |-> OvertimeTerm(s, t)]
    OBVIOUS
  <1>2. \A t \in Tasks : g[t] \in Int
    <2> SUFFICES ASSUME NEW t \in Tasks PROVE g[t] \in Int
      OBVIOUS
    <2>1. PICK a \in Int, b \in Int, x \in Int, y \in Int :
            /\ a = Rates.labor /\ b = Rates.setup
            /\ x = ProductionOvertime(s, t) /\ y = SetupOvertime(s, t)
      BY OvertimePaid, EconomicsAssumption
    <2>2. g[t] = a * x + b * y
      BY <1>1, <2>1, OvertimePaid
    <2>3. a * x \in Int /\ b * y \in Int
      BY ProductTypes
    <2> QED BY <2>2, <2>3
  <1>3. DOMAIN g = Tasks /\ IsFiniteSet(Tasks)
    BY <1>1, ShopTypes
  <1>4. SumFunction(g) \in Int
    BY <1>2, <1>3, SumIsTotal, TotalStep
  <1>5. g = [t \in Tasks |-> Rates.labor * ProductionOvertime(s, t) + Rates.setup * SetupOvertime(s, t)]
    BY <1>1, OvertimePaid
  <1> QED BY <1>1, <1>4, <1>5 DEF OvertimePremium

LEMMA CostOfAdmitted ==
    ASSUME NEW s \in Schedules, Physical(s)
    PROVE  CostAgrees(s)
  <1>1. PICK energy \in Int : energy = AnalyticEnergy(s)
    BY AnalyticEnergyTypes
  <1>2. PICK premium \in Int : premium = SumFunction([t \in Tasks |-> OvertimeTerm(s, t)])
    BY OvertimeTotal
  <1>3. PICK a \in Int, b \in Int, c \in Int, d \in Int :
            /\ a = Rates.labor * RunTime(Tasks) /\ b = Rates.setup * SetupSum(s, Tasks)
            /\ c = Rates.tardiness * WeightedTardiness(s) /\ d = Rates.holding * HeldTotal(s)
    <2>1. PICK p \in Int, q \in Int, r \in Int, u \in Int :
            p = Rates.labor /\ q = Rates.setup /\ r = Rates.tardiness /\ u = Rates.holding
      BY EconomicsAssumption
    <2>2. PICK x \in Int, y \in Int, z \in Int, w \in Int :
            x = RunTime(Tasks) /\ y = SetupSum(s, Tasks) /\ z = WeightedTardiness(s) /\ w = HeldTotal(s)
      BY TaskTotals, OrdersCost
    <2>3. p * x \in Int /\ q * y \in Int /\ r * z \in Int /\ u * w \in Int
      BY ProductTypes
    <2> QED BY <2>1, <2>2, <2>3
  <1>4. PICK e \in Int, f \in Int, g \in Int :
            /\ e = Rates.premium * premium /\ f = Rates.energy * energy
            /\ g = Rates.carbon * (Rates.forklift * Makespan(s) + Rates.grid * energy)
    <2> PICK p \in Int, q \in Int, r \in Int :
            p = Rates.premium /\ q = Rates.energy /\ r = Rates.carbon
      BY EconomicsAssumption
    <2> PICK u \in Int, v \in Int : u = Rates.forklift /\ v = Rates.grid
      BY EconomicsAssumption
    <2>1. PICK m \in Int : m = Makespan(s)
      BY MakespanOfPlan
    <2>2. p * premium \in Int /\ q * energy \in Int /\ u * m \in Int /\ v * energy \in Int
      BY ProductTypes
    <2>3. PICK n \in Int : n = u * m + v * energy
      BY <2>2
    <2>4. r * n \in Int
      BY ProductTypes
    <2> QED BY <2>1, <2>2, <2>3, <2>4
  <1>5. MonetaryObjective(s) = a + b + e + c + d + f + g
    BY <1>1, <1>2, <1>3, <1>4, SolverEnergyAgrees, TaskTotals DEF MonetaryObjective, HeldTotal, Held
  <1>6. TotalManufacturingCost(s) = (a + (b + (c + d))) + e + f + g
    BY <1>1, <1>2, <1>3, <1>4, OrdersCost, OvertimeTotal DEF TotalManufacturingCost, Emissions
  <1>7. MonetaryObjective(s) = TotalManufacturingCost(s)
    BY <1>5, <1>6
  <1> QED BY <1>7, TardinessAgrees DEF CostAgrees

\* Minimising the monetary objective minimises the reported cost: on every plan
\* a version ever publishes, on any shop floor and for any rates, the objective
\* of build_monetary_objective is evaluate_schedule_cost's total of the emitted
\* rows, and the tardiness figures of the KPIs and the service level are the
\* objective's.
THEOREM CostIsTheObjective == Spec => []CostBooksAgree
  <1>1. \A s \in PhysicalSchedules : s \in CostAgreedPlans
    <2> SUFFICES ASSUME NEW s \in PhysicalSchedules PROVE s \in CostAgreedPlans
      OBVIOUS
    <2>1. s \in Schedules /\ Physical(s)
      BY DEF PhysicalSchedules
    <2>2. CostAgrees(s)
      BY <2>1, CostOfAdmitted
    <2> QED BY <2>2 DEF CostAgreedPlans
  <1>2. IInv => CostBooksAgree
    BY <1>1 DEF IInv, OwnContext, CostBooksAgree
  <1> QED BY <1>2, Inductive, PTL

-----------------------------------------------------------------------------
(* The converse: what the audits accept is what the model admits.          *)

LEMMA KnownProduct ==
    ASSUME NEW s \in Schedules, NEW t \in Tasks
    PROVE  \/ LastProduct(s, t) = InitialProduct[Operation[t].machine]
           \/ \E u \in Tasks : LastProduct(s, t) = Operation[u].product
  <1>1. PICK m \in Machines : m = Operation[t].machine /\ t \in On(m)
    BY ShopTypes
  <1>2. PICK before : before = {u \in On(m) : s[u] < s[t]}
    OBVIOUS
  <1>3. LastProduct(s, t) = IF before = {} THEN InitialProduct[m]
            ELSE Operation[CHOOSE u \in before : \A v \in before : s[v] <= s[u]].product
    BY <1>1, <1>2 DEF LastProduct
  <1>4. before \subseteq Tasks /\ IsFiniteSet(before) /\ \A u \in before : s[u] \in Int
    <2>1. before \subseteq On(m) /\ On(m) \subseteq Tasks /\ IsFiniteSet(On(m))
      BY <1>2, ShopTypes
    <2>2. IsFiniteSet(before)
      BY <2>1, FS_Subset
    <2> QED BY <2>1, <2>2, ScheduleTypes
  <1>5. LastProduct(s, t) = InitialProduct[m] \/ \E u \in Tasks : LastProduct(s, t) = Operation[u].product
    <2>1. CASE before = {}
      BY <1>3, <2>1
    <2>2. CASE before # {}
      <3>1. PICK u \in before : \A v \in before : s[u] >= s[v]
        BY <1>4, <2>2, FirstAndLast
      <3>2. \A v \in before : s[v] <= s[u]
        BY <1>4, <3>1
      <3>3. (CHOOSE w \in before : \A v \in before : s[v] <= s[w]) \in before
        BY <3>2
      <3> QED BY <1>3, <1>4, <2>2, <3>3
    <2> QED BY <2>1, <2>2
  <1> QED BY <1>1, <1>5

LEMMA SetupBeforeNatural ==
    ASSUME NEW s \in Schedules, NEW t \in Tasks
    PROVE  SetupBefore(s, t) \in Nat
  <1>1. PICK m \in Machines : m = Operation[t].machine /\ t \in On(m)
    BY ShopTypes
  <1> QED BY <1>1, KnownProduct, SetupTypes DEF SetupBefore

\* The tasks of a machine in the order of their starts.
StartsInOrder(s, c, n) == \A j, k \in 1..n : j < k => s[c[j]] < s[c[k]]

LEMMA MachineInOrder ==
    ASSUME NEW s \in Schedules, Placed(s), NEW m \in Machines, NEW n \in Nat, n = Cardinality(On(m))
    PROVE  \E c \in SetToSeqs(On(m)) : StartsInOrder(s, c, n) /\ c \in Bijection(1..n, On(m))
  <1>1. PICK B : B = {pair \in On(m) \X On(m) : s[pair[1]] < s[pair[2]]}
    OBVIOUS
  <1>2. \A t \in On(m) : t \in Tasks /\ s[t] \in Nat
    BY ShopTypes, ScheduleTypes
  <1>3. \A t, u \in On(m) : <<t, u>> \in B <=> s[t] < s[u]
    BY <1>1
  <1>4. Orders2(B, On(m))
    <2>1. \A t, u \in On(m) : t # u => s[t] < s[u] \/ s[u] < s[t]
      BY PlacedMachine DEF InSequence, OneAfterOther
    <2> QED BY <1>2, <1>3, <2>1 DEF Orders2
  <1>5. IsFiniteSet(On(m))
    BY ShopTypes
  <1>6. PICK c \in SetToSeqs(On(m)) : \A i, j \in DOMAIN c : i < j => <<c[i], c[j]>> \in B
    BY <1>4, <1>5, SortedSequence
  <1>7. c \in [1..n -> On(m)] /\ (\A x \in On(m) : \E i \in 1..n : c[i] = x)
            /\ \A i, j \in 1..n : i # j => c[i] # c[j]
    BY <1>5, SequenceOfAll DEF SetToSeqs
  <1>8. StartsInOrder(s, c, n)
    BY <1>3, <1>6, <1>7 DEF StartsInOrder
  <1>9. c \in Bijection(1..n, On(m))
    BY <1>7 DEF Bijection, Injection, Surjection, IsInjective
  <1> QED BY <1>8, <1>9

\* That order is a circuit whose arcs hold.
LEMMA OrderIsCircuit ==
    ASSUME NEW s \in Schedules, Placed(s), NEW m \in Machines, NEW n \in Nat, n = Cardinality(On(m)),
           NEW c \in Bijection(1..n, On(m)), StartsInOrder(s, c, n)
    PROVE  /\ \A i \in 1..n : SetupBefore(s, c[i]) = SelectedSetup(m, c, i)
           /\ \A i \in 1..n : SetupStart(s, c[i]) >= IF i = 1 THEN 0 ELSE End(s, c[i - 1])
           /\ c \in Circuits(m) /\ ArcsHold(s, m, c)
  <1>1. \A i \in 1..n : SetupBefore(s, c[i]) = SelectedSetup(m, c, i)
    BY OrderedSetups DEF StartsInOrder
  <1>2. DOMAIN c = 1..n /\ (\A i \in 1..n : c[i] \in On(m) /\ c[i] \in Tasks)
            /\ \A i, j \in 1..n : i # j => c[i] # c[j]
    BY ShopTypes DEF Bijection, Injection, Surjection, IsInjective
  <1>3. ASSUME NEW i \in 1..n
        PROVE  SetupStart(s, c[i]) >= IF i = 1 THEN 0 ELSE End(s, c[i - 1])
    <2>1. CASE i = 1
      <3>1. SetupStart(s, c[i]) \in Nat
        BY <1>2, PlacedMachine
      <3> QED BY <2>1, <3>1
    <2>2. CASE i # 1
      <3>1. PICK k \in 1..n : k = i - 1 /\ k < i
        BY <2>2
      <3>2. s[c[k]] < s[c[i]] /\ s[c[k]] \in Nat /\ s[c[i]] \in Nat
        BY <1>2, <3>1, ScheduleTypes DEF StartsInOrder
      <3>3. OneAfterOther(s, c[k], c[i]) \/ OneAfterOther(s, c[i], c[k])
        BY <1>2, <3>1, PlacedMachine DEF InSequence
      <3>4. End(s, c[k]) <= SetupStart(s, c[i]) /\ SetupStart(s, c[i]) \in Nat /\ End(s, c[k]) \in Nat
        BY <1>2, <3>2, <3>3, TaskWork DEF OneAfterOther
      <3> QED BY <2>2, <3>1, <3>4
    <2> QED BY <2>1, <2>2
  <1>4. c \in Circuits(m)
    BY DEF Circuits
  <1>5. ArcsHold(s, m, c)
    BY <1>1, <1>2, <1>3 DEF ArcsHold, SetupStart
  <1> QED BY <1>1, <1>3, <1>4, <1>5

LEMMA SoundIsPhysical ==
    ASSUME NEW s \in Schedules, Sound(s), SublotsInOrder(s)
    PROVE  Physical(s)
  <1>1. Placed(s) /\ RouteHolds(s) /\ Undisturbed(s, PlannedStops)
    BY DEF Sound
  <1>2. ASSUME NEW m \in Machines
        PROVE  \E circuit \in Circuits(m) : ArcsHold(s, m, circuit) /\ CalendarHolds(s, m, circuit)
    <2>1. PICK n \in Nat : n = Cardinality(On(m))
      BY ShopTypes
    <2>2. PICK c \in SetToSeqs(On(m)) : StartsInOrder(s, c, n) /\ c \in Bijection(1..n, On(m))
      BY <1>1, <2>1, MachineInOrder
    <2>3. /\ \A i \in 1..n : SetupBefore(s, c[i]) = SelectedSetup(m, c, i)
          /\ c \in Circuits(m) /\ ArcsHold(s, m, c)
      BY <1>1, <2>1, <2>2, OrderIsCircuit
    <2>4. Busy(s, m, c) = WorkOf(s, m)
      BY <2>2, <2>3, BusyIsWork
    <2>5. PICK open \in SUBSET FirstWeekDays :
            /\ Cardinality(open) <= MaxNights(m)
            /\ \A t \in On(m) : WorkSlots(s, t) \cap Breaks(m, open) = {}
      BY DEF Sound, KeepsCalendar
    <2>6. WorkOf(s, m) \cap Breaks(m, open) = {}
      BY <2>5, WorkInNights
    <2>7. Cardinality(WorkOf(s, m) \cap FirstNights(m)) <= OvertimeBudget[m]
      BY DEF Sound, KeepsCalendar, WorkOf
    <2>8. CalendarHolds(s, m, c)
      BY <2>4, <2>5, <2>6, <2>7 DEF CalendarHolds, Charged, FirstNights
    <2> QED BY <2>3, <2>8
  <1> QED BY <1>1, <1>2 DEF Physical

\* Windows no row reaches into are free of work.
LEMMA StopsRead ==
    ASSUME NEW s \in Schedules, Placed(s), NEW new, ShowsPlan(new, s),
           NEW W, TypedStops(W), StopsValid(new, W)
    PROVE  Undisturbed(s, PlannedStops) /\ Undisturbed(s, W)
  <1>1. ASSUME NEW w \in PlannedStops \cup W, NEW t \in On(w.machine), NEW x \in WorkSlots(s, t),
               x \in w.from..(w.to - 1)
        PROVE  FALSE
    <2>1. t \in Tasks
      BY ShopTypes
    <2>2. PICK a \in Nat, b \in Nat : a = SetupStart(s, t) /\ b = End(s, t)
      BY <2>1, TaskWork
    <2>3. PICK from \in Nat, to \in Nat : from = w.from /\ to = w.to
      BY ShopFloorAssumption DEF TypedStops
    <2>4. x \in a..(b - 1) /\ x \in from..(to - 1)
      BY <1>1, <2>2, <2>3 DEF WorkSlots
    <2>5. a < to /\ from < b
      BY <2>4
    <2>6. ~(a < to /\ from < b)
      BY <2>1, <2>2, <2>3 DEF StopsValid, ShowsPlan
    <2> QED BY <2>5, <2>6
  <1> QED BY <1>1 DEF Undisturbed

\* What audit_reschedule_candidate accepts of the rows alone.
LEMMA PlacedByAudit ==
    ASSUME NEW s \in Schedules, NEW new, ShowsPlan(new, s),
           TimingValid(new), OccupancyValid(new), RoutesValid(new)
    PROVE  Placed(s) /\ RouteHolds(s)
  <1>1. ASSUME NEW t \in Tasks
        PROVE  /\ new[t].start = s[t] /\ new[t].end = End(s, t) /\ new[t].setupStart = SetupStart(s, t)
               /\ s[t] \in Nat /\ End(s, t) \in Nat /\ s[t] < End(s, t) /\ s[t] >= Operation[t].release
               /\ SetupBefore(s, t) \in Nat /\ SetupStart(s, t) \in Nat /\ SetupStart(s, t) <= s[t]
    <2>1. /\ new[t].start = s[t] /\ new[t].end = End(s, t) /\ new[t].setup = SetupBefore(s, t)
          /\ new[t].setupStart = SetupStart(s, t)
      BY DEF ShowsPlan
    <2>2. s[t] \in Nat /\ End(s, t) \in Nat /\ s[t] < End(s, t)
      BY ScheduleTypes
    <2>3. SetupBefore(s, t) \in Nat
      BY SetupBeforeNatural
    <2>4. new[t].start >= Operation[t].release /\ new[t].setupStart >= 0
      BY DEF TimingValid
    <2>5. SetupStart(s, t) \in Nat /\ SetupStart(s, t) <= s[t]
      BY <2>1, <2>2, <2>3, <2>4 DEF SetupStart
    <2> QED BY <2>1, <2>2, <2>3, <2>4, <2>5
  <1>2. ASSUME NEW t \in Tasks, NEW u \in Tasks, t # u, Operation[t].machine = Operation[u].machine,
               ~OccupiesEarlier(new[u], new[t])
        PROVE  OneAfterOther(s, t, u)
    <2>1. new[u].setupStart >= new[t].end
      BY <1>2 DEF OccupancyValid
    <2>2. PICK x \in Nat, y \in Nat, z \in Nat, w \in Nat :
            x = SetupStart(s, u) /\ y = End(s, t) /\ z = s[t] /\ w = s[u]
      BY <1>1
    <2>3. x >= y /\ z < y /\ x <= w
      BY <1>1, <2>1, <2>2
    <2> QED BY <2>2, <2>3 DEF OneAfterOther
  <1>3. ASSUME NEW m \in Machines, NEW t \in On(m), NEW u \in On(m), t # u
        PROVE  OneAfterOther(s, t, u) \/ OneAfterOther(s, u, t)
    <2>1. t \in Tasks /\ u \in Tasks /\ Operation[t].machine = Operation[u].machine
      BY DEF On
    <2>2. ~OccupiesEarlier(new[u], new[t]) \/ ~OccupiesEarlier(new[t], new[u])
      <3>1. PICK a \in Nat, b \in Nat, c \in Nat, d \in Nat :
                a = SetupStart(s, t) /\ b = End(s, t) /\ c = SetupStart(s, u) /\ d = End(s, u)
        BY <1>1, <2>1
      <3>2. new[t].setupStart = a /\ new[t].end = b /\ new[u].setupStart = c /\ new[u].end = d
        BY <1>1, <2>1, <3>1
      <3> QED BY <3>2 DEF OccupiesEarlier
    <2> QED BY <1>2, <1>3, <2>1, <2>2
  <1>4. Placed(s)
    BY <1>1, <1>3, ShopTypes DEF Placed, InSequence
  <1>5. RouteHolds(s)
    <2>1. ASSUME NEW t \in Tasks, NEW u \in Tasks, Operation[t].lot = Operation[u].lot,
                 Operation[t].seq < Operation[u].seq
          PROVE  s[u] >= End(s, t)
      BY <1>1, <2>1 DEF RoutesValid, Follows
    <2> QED BY <1>1, <2>1 DEF RouteHolds
  <1> QED BY <1>4, <1>5

LEMMA SoundByAudit ==
    ASSUME NEW s \in Schedules, NEW new, ShowsPlan(new, s), PhysicsValid(new),
           NEW W, TypedStops(W), StopsValid(new, W)
    PROVE  Sound(s) /\ Undisturbed(s, W)
  <1>1. Placed(s) /\ RouteHolds(s)
    BY PlacedByAudit DEF PhysicsValid
  <1>2. Undisturbed(s, PlannedStops) /\ Undisturbed(s, W)
    BY <1>1, StopsRead
  <1>3. \A m \in Machines : CalendarKept(m, WorkOf(s, m))
    BY <1>1, CalendarRead DEF PhysicsValid
  <1>4. \A m \in Machines : KeepsCalendar(s, m)
    BY <1>3, CalendarIsKept
  <1> QED BY <1>1, <1>2, <1>4 DEF Sound

-----------------------------------------------------------------------------
(* audit_hot_order_schedule: the same schedules, read another way.         *)

\* The pieces of a row cover its work and share no slot.
PieceSlots(p) == p.from..(p.to - 1)

LEMMA PiecesOfRow ==
    ASSUME NEW s \in Schedules, Placed(s), NEW new, ShowsPlan(new, s), NEW t \in Tasks
    PROVE  /\ IsFiniteSet(Pieces(new[t]))
           /\ \A p \in Pieces(new[t]) : /\ p.from \in Nat /\ p.to \in Nat /\ p.from < p.to
                                        /\ PieceSlots(p) \subseteq WorkSlots(s, t)
           /\ \A x \in WorkSlots(s, t) : \E p \in Pieces(new[t]) : x \in PieceSlots(p)
           /\ \A p, q \in Pieces(new[t]) : p # q => PieceSlots(p) \cap PieceSlots(q) = {}
  <1>1. PICK a \in Nat, b \in Nat, c \in Nat :
            a = SetupStart(s, t) /\ b = s[t] /\ c = End(s, t) /\ a <= b /\ b < c
    BY TaskWork
  <1>2. PICK setup, task : setup = [from |-> a, to |-> b] /\ task = [from |-> b, to |-> c]
    OBVIOUS
  <1>3. new[t].setupStart = a /\ new[t].start = b /\ new[t].end = c
    BY <1>1 DEF ShowsPlan
  <1>4. Pieces(new[t]) = {p \in {setup, task} : 0 <= p.from /\ p.from < p.to}
    BY <1>2, <1>3 DEF Pieces
  <1>5. /\ setup.from = a /\ setup.to = b /\ task.from = b /\ task.to = c
        /\ PieceSlots(setup) = a..(b - 1) /\ PieceSlots(task) = b..(c - 1)
    BY <1>2 DEF PieceSlots
  <1>6. WorkSlots(s, t) = a..(c - 1)
    BY <1>1 DEF WorkSlots
  <1>7. IsFiniteSet(Pieces(new[t]))
    <2>1. IsFiniteSet({setup, task, setup, task})
      BY FourFinite
    <2>2. Pieces(new[t]) \subseteq {setup, task, setup, task}
      BY <1>4
    <2> QED BY <2>1, <2>2, FS_Subset
  <1>8. ASSUME NEW p \in Pieces(new[t])
        PROVE  p.from \in Nat /\ p.to \in Nat /\ p.from < p.to /\ PieceSlots(p) \subseteq WorkSlots(s, t)
    <2>1. p.from < p.to /\ (p = setup \/ p = task)
      BY <1>4
    <2>2. CASE p = setup
      BY <1>1, <1>5, <1>6, <2>1, <2>2
    <2>3. CASE p = task
      BY <1>1, <1>5, <1>6, <2>1, <2>3
    <2> QED BY <2>1, <2>2, <2>3
  <1>9. ASSUME NEW x \in WorkSlots(s, t) PROVE \E p \in Pieces(new[t]) : x \in PieceSlots(p)
    <2>1. x \in a..(c - 1)
      BY <1>6
    <2>2. CASE x < b
      <3>1. a < b /\ x \in a..(b - 1)
        BY <1>1, <2>1, <2>2
      <3>2. setup \in Pieces(new[t])
        BY <1>4, <1>5, <3>1
      <3> QED BY <1>5, <3>1, <3>2
    <2>3. CASE ~(x < b)
      <3>1. x \in b..(c - 1)
        BY <1>1, <2>1, <2>3
      <3>2. task \in Pieces(new[t])
        BY <1>1, <1>4, <1>5
      <3> QED BY <1>5, <3>1, <3>2
    <2> QED BY <2>2, <2>3
  <1>10. ASSUME NEW p \in Pieces(new[t]), NEW q \in Pieces(new[t]), p # q
         PROVE  PieceSlots(p) \cap PieceSlots(q) = {}
    <2>1. (a..(b - 1)) \cap (b..(c - 1)) = {}
      BY <1>1
    <2>2. (p = setup /\ q = task) \/ (p = task /\ q = setup)
      BY <1>4, <1>10
    <2> QED BY <1>5, <2>1, <2>2
  <1> QED BY <1>7, <1>8, <1>9, <1>10

PiecesOn(new, m) == UNION {Pieces(new[t]) : t \in On(m)}
SlotsOf(P) == [p \in P |-> PieceSlots(p)]
TypedPieces(P) == \A p \in P : p.from \in Nat /\ p.to \in Nat

LEMMA PiecesOfMachine ==
    ASSUME NEW s \in Schedules, Placed(s), NEW new, ShowsPlan(new, s), NEW m \in Machines,
           NEW P, P = PiecesOn(new, m)
    PROVE  /\ IsFiniteSet(P) /\ TypedPieces(P)
           /\ Apart(SlotsOf(P), P) /\ FiniteEach(SlotsOf(P), P)
           /\ Union(SlotsOf(P), P) = WorkOf(s, m)
  <1>1. \A t \in On(m) : t \in Tasks
    BY ShopTypes
  <1>2. \A p : p \in P <=> \E t \in On(m) : p \in Pieces(new[t])
    BY DEF PiecesOn
  <1>3. IsFiniteSet(P)
    <2>1. PICK g : g = [t \in On(m) |-> Pieces(new[t])]
      OBVIOUS
    <2>2. IsFiniteSet(On(m)) /\ \A t \in On(m) : IsFiniteSet(g[t])
      BY <1>1, <2>1, PiecesOfRow, ShopTypes
    <2>3. IsFiniteSet({g[t] : t \in On(m)})
      BY <2>2, FiniteImage
    <2>4. PICK family : family = {g[t] : t \in On(m)}
      OBVIOUS
    <2>5. \A F \in family : IsFiniteSet(F)
      BY <2>2, <2>4
    <2>6. IsFiniteSet(UNION family)
      BY <2>3, <2>4, <2>5, FS_UNION
    <2>7. \A p : p \in UNION family <=> p \in P
      BY <1>2, <2>1, <2>4
    <2>8. UNION family = P
      BY <2>7
    <2> QED BY <2>6, <2>8
  <1>4. TypedPieces(P)
    BY <1>1, <1>2, PiecesOfRow DEF TypedPieces
  <1>5. Apart(SlotsOf(P), P)
    <2> SUFFICES ASSUME NEW p \in P, NEW q \in P, p # q, NEW x, x \in PieceSlots(p), x \in PieceSlots(q)
                 PROVE  FALSE
      BY DEF Apart, SlotsOf
    <2>1. PICK t \in On(m) : p \in Pieces(new[t])
      BY <1>2
    <2>2. PICK u \in On(m) : q \in Pieces(new[u])
      BY <1>2
    <2>3. x \in WorkSlots(s, t) /\ x \in WorkSlots(s, u)
      BY <1>1, <2>1, <2>2, PiecesOfRow
    <2>4. t = u
      BY <2>3, WorkApart
    <2> QED BY <1>1, <2>1, <2>2, <2>4, PiecesOfRow
  <1>6. FiniteEach(SlotsOf(P), P)
    <2> SUFFICES ASSUME NEW p \in P PROVE IsFiniteSet(PieceSlots(p))
      BY DEF FiniteEach, SlotsOf
    <2>1. p.from \in Int /\ p.to - 1 \in Int
      BY <1>4 DEF TypedPieces
    <2> QED BY <2>1, FS_Interval DEF PieceSlots
  <1>7. Union(SlotsOf(P), P) = WorkOf(s, m)
    <2>1. ASSUME NEW x PROVE x \in Union(SlotsOf(P), P) <=> \E p \in P : x \in PieceSlots(p)
      BY DEF Union, SlotsOf
    <2>2. ASSUME NEW p \in P, NEW x \in PieceSlots(p) PROVE x \in WorkOf(s, m)
      <3>1. PICK t \in On(m) : p \in Pieces(new[t])
        BY <1>2
      <3>2. x \in WorkSlots(s, t)
        BY <1>1, <3>1, PiecesOfRow
      <3> QED BY <3>2, WorkInNights
    <2>3. ASSUME NEW x \in WorkOf(s, m) PROVE \E p \in P : x \in PieceSlots(p)
      <3>1. PICK t \in On(m) : x \in WorkSlots(s, t)
        BY WorkInNights
      <3>2. PICK p \in Pieces(new[t]) : x \in PieceSlots(p)
        BY <1>1, <3>1, PiecesOfRow
      <3> QED BY <1>2, <3>2
    <2> QED BY <2>1, <2>2, <2>3
  <1> QED BY <1>3, <1>4, <1>5, <1>6, <1>7

LEMMA CommonShown ==
    ASSUME NEW p, p.from \in Nat, p.to \in Nat, NEW from \in Int, NEW to \in Int
    PROVE  /\ Common(p, from, to) = Cardinality(PieceSlots(p) \cap (from..(to - 1)))
           /\ Common(p, from, to) = 0 <=> PieceSlots(p) \cap (from..(to - 1)) = {}
           /\ Common(p, from, to) > 0 <=> PieceSlots(p) \cap (from..(to - 1)) # {}
  <1>1. PICK a \in Int, b \in Int : a = p.from /\ b = p.to
    OBVIOUS
  <1>2. PICK X : X = PieceSlots(p) \cap (from..(to - 1))
    OBVIOUS
  <1>3. Common(p, from, to) = InCommon(a, b, from, to) /\ X = (a..(b - 1)) \cap (from..(to - 1))
    BY <1>1, <1>2 DEF Common, InCommon, PieceSlots
  <1>4. IsFiniteSet(X) /\ Cardinality(X) = Common(p, from, to) /\ Common(p, from, to) \in Nat
    BY <1>3, CommonSlots
  <1>5. Cardinality(X) = 0 <=> X = {}
    BY <1>4, FS_EmptySet
  <1>6. Common(p, from, to) > 0 <=> Common(p, from, to) # 0
    BY <1>4
  <1> QED BY <1>2, <1>4, <1>5, <1>6

\* Its calendar, of pieces instead of rows, is that of the slots worked.
StopsFree(m, W) == \A w \in PlannedStops : w.machine = m => W \cap (w.from..(w.to - 1)) = {}

LEMMA HotCalendarRead ==
    ASSUME NEW s \in Schedules, Placed(s), NEW new, ShowsPlan(new, s), NEW m \in Machines
    PROVE  HotCalendarValid(new, m) <=> CalendarKept(m, WorkOf(s, m)) /\ StopsFree(m, WorkOf(s, m))
  <1>1. PICK P, W : P = PiecesOn(new, m) /\ W = WorkOf(s, m)
    OBVIOUS
  <1>2. /\ IsFiniteSet(P) /\ TypedPieces(P)
        /\ Apart(SlotsOf(P), P) /\ FiniteEach(SlotsOf(P), P) /\ Union(SlotsOf(P), P) = W
    BY <1>1, PiecesOfMachine
  <1>3. PICK nights, used :
            /\ nights = {d \in Days : \E p \in P : AtNight(p, m, d) > 0}
            /\ used = SumFunction([p \in P |-> SumFunction([d \in nights |-> AtNight(p, m, d)])])
    OBVIOUS
  <1>4. HotCalendarValid(new, m) <=>
            /\ \A p \in P :
                /\ \A w \in {w \in PlannedStops : w.machine = m} : Common(p, w.from, w.to) = 0
                /\ \A d \in Days : Closed(d) => Common(p, d * DayLength, (d + 1) * DayLength) = 0
            /\ \A d \in nights : FirstWeek(d)
            /\ used <= OvertimeBudget[m]
            /\ Cardinality(nights) <= MaxNights(m)
    BY <1>1, <1>3 DEF HotCalendarValid, PiecesOn
  <1>5. \A N : W \cap N = {} <=> \A p \in P : PieceSlots(p) \cap N = {}
    <2>1. \A x : x \in W <=> \E p \in P : x \in PieceSlots(p)
      BY <1>2 DEF Union, SlotsOf
    <2> QED BY <2>1
  <1>6. ASSUME NEW w \in PlannedStops
        PROVE  (\A p \in P : Common(p, w.from, w.to) = 0) <=> W \cap (w.from..(w.to - 1)) = {}
    <2>1. PICK from \in Int, to \in Int : from = w.from /\ to = w.to
      <3>1. w.from \in Nat /\ w.to \in Nat
        BY ShopFloorAssumption
      <3> QED BY <3>1
    <2>2. ASSUME NEW p \in P
          PROVE  Common(p, from, to) = 0 <=> PieceSlots(p) \cap (from..(to - 1)) = {}
      <3>1. p.from \in Nat /\ p.to \in Nat
        BY <1>2 DEF TypedPieces
      <3> QED BY <3>1, CommonShown
    <2>3. (\A p \in P : Common(p, from, to) = 0) <=> W \cap (from..(to - 1)) = {}
      BY <1>5, <2>2
    <2> QED BY <2>1, <2>3
  <1>7. ASSUME NEW d \in Days
        PROVE  /\ (\A p \in P : Common(p, d * DayLength, (d + 1) * DayLength) = 0) <=> W \cap DaySlots(d) = {}
               /\ \A p \in P : AtNight(p, m, d) = Cardinality(PieceSlots(p) \cap NightSlots(m, d))
               /\ (\E p \in P : AtNight(p, m, d) > 0) <=> W \cap NightSlots(m, d) # {}
    <2>1. PICK from \in Int, to \in Int, night \in Int :
              /\ from = d * DayLength /\ to = (d + 1) * DayLength /\ to = from + DayLength
              /\ night = from + Night[m]
      <3>1. d \in Int /\ DayLength \in Int /\ Night[m] \in Int
        BY ShopTypes DEF Days
      <3>2. d * DayLength \in Int /\ (d + 1) * DayLength = d * DayLength + DayLength
        BY <3>1
      <3> QED BY <3>1, <3>2
    <2>2. DaySlots(d) = from..(to - 1) /\ NightSlots(m, d) = from..(night - 1)
      <3>1. d \in Int /\ DayLength \in Int /\ Night[m] \in Int
        BY ShopTypes DEF Days
      <3>2. d * DayLength = from /\ from + DayLength - 1 = to - 1 /\ from + Night[m] - 1 = night - 1
        BY <2>1, <3>1
      <3>3. DaySlots(d) = from..(from + DayLength - 1)
        BY <3>2 DEF DaySlots
      <3>4. NightSlots(m, d) = from..(from + Night[m] - 1)
        BY <3>2 DEF NightSlots
      <3> QED BY <3>2, <3>3, <3>4
    <2>3. ASSUME NEW p \in P
          PROVE  /\ Common(p, from, to) = 0 <=> PieceSlots(p) \cap (from..(to - 1)) = {}
                 /\ Common(p, from, night) = Cardinality(PieceSlots(p) \cap (from..(night - 1)))
                 /\ Common(p, from, night) > 0 <=> PieceSlots(p) \cap (from..(night - 1)) # {}
      <3>1. p.from \in Nat /\ p.to \in Nat
        BY <1>2 DEF TypedPieces
      <3> QED BY <3>1, CommonShown
    <2>4. \A p \in P : AtNight(p, m, d) = Common(p, from, night)
      BY <2>1 DEF AtNight
    <2>5. (\A p \in P : Common(p, from, to) = 0) <=> W \cap DaySlots(d) = {}
      BY <1>5, <2>2, <2>3
    <2>6. \A p \in P : AtNight(p, m, d) = Cardinality(PieceSlots(p) \cap NightSlots(m, d))
      BY <2>2, <2>3, <2>4
    <2>7. (\E p \in P : AtNight(p, m, d) > 0) <=> W \cap NightSlots(m, d) # {}
      <3>1. W \cap NightSlots(m, d) = {} <=> \A p \in P : PieceSlots(p) \cap NightSlots(m, d) = {}
        BY <1>5
      <3>2. \A p \in P : AtNight(p, m, d) > 0 <=> PieceSlots(p) \cap NightSlots(m, d) # {}
        BY <2>2, <2>3, <2>4
      <3> QED BY <3>1, <3>2
    <2> QED BY <2>1, <2>5, <2>6, <2>7
  <1>8. nights = WorkedNights(m, W)
    BY <1>3, <1>7 DEF WorkedNights
  <1>9. used = Cardinality(W \cap NightsIn(m, Days))
    <2>1. nights \in SUBSET Days
      BY <1>3
    <2>2. PICK g : g = [p \in P |-> [d \in nights |-> AtNight(p, m, d)]]
      OBVIOUS
    <2>3. CountsNights(g, SlotsOf(P), m, nights, P)
      BY <1>7, <2>1, <2>2 DEF CountsNights, SlotsOf
    <2>4. SumFunction([p \in P |-> SumFunction([d \in nights |-> g[p][d]])])
            = Cardinality(W \cap NightsIn(m, nights))
      BY <1>2, <2>1, <2>3, NightMinutes
    <2>5. \A p \in P : [d \in nights |-> g[p][d]] = [d \in nights |-> AtNight(p, m, d)]
      BY <2>2
    <2>6. [p \in P |-> SumFunction([d \in nights |-> g[p][d]])]
            = [p \in P |-> SumFunction([d \in nights |-> AtNight(p, m, d)])]
      BY <2>5
    <2>7. W \cap NightsIn(m, nights) = W \cap NightsIn(m, Days)
      BY <1>8, <2>1 DEF NightsIn, WorkedNights
    <2> QED BY <1>3, <2>4, <2>6, <2>7
  <1>10. (\A p \in P :
                /\ \A w \in {w \in PlannedStops : w.machine = m} : Common(p, w.from, w.to) = 0
                /\ \A d \in Days : Closed(d) => Common(p, d * DayLength, (d + 1) * DayLength) = 0)
         <=> StopsFree(m, W) /\ \A d \in Days : Closed(d) => W \cap DaySlots(d) = {}
    BY <1>6, <1>7 DEF StopsFree
  <1> QED BY <1>1, <1>4, <1>8, <1>9, <1>10 DEF CalendarKept

\* The walk along a machine checks the arcs of a circuit.
LEMMA WalkIsCircuit ==
    ASSUME NEW s, NEW new, ShowsPlan(new, s), NEW m \in Machines,
           NEW n \in Nat, NEW c \in Bijection(1..n, On(m))
    PROVE  WalkPasses(new, m, c) <=>
            \A i \in 1..n : /\ SetupBefore(s, c[i]) = SelectedSetup(m, c, i)
                            /\ SetupStart(s, c[i]) >= IF i = 1 THEN 0 ELSE End(s, c[i - 1])
  <1>1. DOMAIN c = 1..n /\ \A i \in 1..n : c[i] \in Tasks
    BY ShopTypes DEF Bijection, Injection, Surjection
  <1>2. ASSUME NEW i \in 1..n, NEW before,
               before = IF i = 1 THEN [product |-> InitialProduct[m], end |-> 0]
                        ELSE [product |-> Operation[c[i - 1]].product, end |-> new[c[i - 1]].end]
        PROVE  /\ new[c[i]].setup = SetupBefore(s, c[i]) /\ new[c[i]].setupStart = SetupStart(s, c[i])
               /\ SetupTime(m, before.product, Operation[c[i]].product) = SelectedSetup(m, c, i)
               /\ before.end = IF i = 1 THEN 0 ELSE End(s, c[i - 1])
    <2>1. new[c[i]].setup = SetupBefore(s, c[i]) /\ new[c[i]].setupStart = SetupStart(s, c[i])
      BY <1>1 DEF ShowsPlan
    <2>2. CASE i = 1
      BY <1>2, <2>1, <2>2 DEF SelectedSetup, ProductBefore
    <2>3. CASE i # 1
      <3>1. i - 1 \in 1..n
        BY <2>3
      <3>2. new[c[i - 1]].end = End(s, c[i - 1])
        BY <1>1, <3>1 DEF ShowsPlan
      <3> QED BY <1>2, <2>1, <2>3, <3>2 DEF SelectedSetup, ProductBefore
    <2> QED BY <2>2, <2>3
  <1>3. ASSUME NEW i \in 1..n, NEW before,
               before = IF i = 1 THEN [product |-> InitialProduct[m], end |-> 0]
                        ELSE [product |-> Operation[c[i - 1]].product, end |-> new[c[i - 1]].end]
        PROVE  (/\ new[c[i]].setup = SetupTime(m, before.product, Operation[c[i]].product)
                /\ new[c[i]].setupStart >= before.end)
               <=> (/\ SetupBefore(s, c[i]) = SelectedSetup(m, c, i)
                    /\ SetupStart(s, c[i]) >= IF i = 1 THEN 0 ELSE End(s, c[i - 1]))
    BY <1>2, <1>3
  <1> QED BY <1>1, <1>3 DEF WalkPasses

\* The steps of a lot, in the order of its route.
LEMMA LotSteps ==
    ASSUME NEW l \in {Operation[t].lot : t \in Tasks}
    PROVE  /\ DOMAIN StepsOf = {Operation[t].lot : t \in Tasks}
           /\ StepsOf[l] = {steps \in SetToSeqs(LotOf(l)) :
                \A i, j \in DOMAIN steps : i < j => Operation[steps[i]].seq < Operation[steps[j]].seq}
           /\ StepsOf[l] # {} /\ IsFiniteSet(LotOf(l)) /\ LotOf(l) \subseteq Tasks
  <1>1. /\ DOMAIN StepsOf = {Operation[t].lot : t \in Tasks}
        /\ StepsOf[l] = {steps \in SetToSeqs(LotOf(l)) :
             \A i, j \in DOMAIN steps : i < j => Operation[steps[i]].seq < Operation[steps[j]].seq}
    BY TabulatedIsIt DEF StepsOf
  <1>2. LotOf(l) \subseteq Tasks /\ IsFiniteSet(LotOf(l))
    <2>1. LotOf(l) \subseteq Tasks
      BY DEF LotOf
    <2> QED BY <2>1, ShopTypes, FS_Subset
  <1>3. PICK B : B = {pair \in LotOf(l) \X LotOf(l) : Operation[pair[1]].seq < Operation[pair[2]].seq}
    OBVIOUS
  <1>4. \A t, u \in LotOf(l) : <<t, u>> \in B <=> Operation[t].seq < Operation[u].seq
    BY <1>3
  <1>5. Orders2(B, LotOf(l))
    <2>1. \A t \in LotOf(l) : t \in Tasks /\ Operation[t].lot = l /\ Operation[t].seq \in Int
      BY ShopTypes DEF LotOf
    <2>2. \A t, u \in LotOf(l) : t # u => Operation[t].seq # Operation[u].seq
      BY <2>1, ShopFloorAssumption
    <2> QED BY <1>4, <2>1, <2>2 DEF Orders2
  <1>6. PICK steps \in SetToSeqs(LotOf(l)) : \A i, j \in DOMAIN steps : i < j => <<steps[i], steps[j]>> \in B
    BY <1>2, <1>5, SortedSequence
  <1>7. \A i \in DOMAIN steps : steps[i] \in LotOf(l)
    BY <1>2, SequenceOfAll
  <1>8. steps \in StepsOf[l]
    BY <1>1, <1>4, <1>6, <1>7
  <1> QED BY <1>1, <1>2, <1>8

LEMMA StepsShown ==
    ASSUME NEW s \in Schedules, NEW new, ShowsPlan(new, s)
    PROVE  /\ RouteHolds(s) => \A l \in DOMAIN StepsOf : StepsInOrder(new, l)
           /\ (\A l \in DOMAIN StepsOf : StepsInOrder(new, l)) =>
                \A t, u \in Tasks : Operation[t].lot = Operation[u].lot /\ Operation[t].seq < Operation[u].seq
                                        => s[u] >= End(s, t)
  <1>0. \A l \in DOMAIN StepsOf : l \in {Operation[t].lot : t \in Tasks}
    BY TabulatedIsIt DEF StepsOf
  <1>1. ASSUME RouteHolds(s), NEW l \in DOMAIN StepsOf PROVE StepsInOrder(new, l)
    <2>1. l \in {Operation[t].lot : t \in Tasks}
      BY <1>0
    <2>2. PICK steps : steps \in StepsOf[l]
      BY <2>1, LotSteps
    <2>3. PICK n \in Nat : n = Cardinality(LotOf(l))
      BY <2>1, LotSteps, FS_CardinalityType
    <2>4. /\ steps \in [1..n -> LotOf(l)] /\ Len(steps) = n
          /\ \A i, j \in 1..n : i < j => Operation[steps[i]].seq < Operation[steps[j]].seq
      <3>1. steps \in SetToSeqs(LotOf(l)) /\ IsFiniteSet(LotOf(l))
        BY <2>1, <2>2, LotSteps
      <3>2. steps \in [1..n -> LotOf(l)]
        BY <2>3, <3>1, SequenceOfAll
      <3>3. \A i, j \in DOMAIN steps : i < j => Operation[steps[i]].seq < Operation[steps[j]].seq
        BY <2>1, <2>2, LotSteps
      <3> QED BY <3>2, <3>3
    <2>5. ASSUME NEW i \in 1..(Len(steps) - 1) PROVE new[steps[i + 1]].start >= new[steps[i]].end
      <3>1. i \in 1..n /\ i + 1 \in 1..n /\ i < i + 1
        BY <2>4
      <3>2. steps[i] \in Tasks /\ steps[i + 1] \in Tasks
                /\ Operation[steps[i]].lot = Operation[steps[i + 1]].lot
        BY <2>4, <3>1 DEF LotOf
      <3>3. s[steps[i + 1]] >= End(s, steps[i])
        BY <1>1, <2>4, <3>1, <3>2 DEF RouteHolds
      <3> QED BY <3>2, <3>3 DEF ShowsPlan
    <2> QED BY <2>2, <2>5 DEF StepsInOrder
  <1>2. ASSUME \A l \in DOMAIN StepsOf : StepsInOrder(new, l),
               NEW t \in Tasks, NEW u \in Tasks, Operation[t].lot = Operation[u].lot,
               Operation[t].seq < Operation[u].seq
        PROVE  s[u] >= End(s, t)
    <2>1. PICK l : l = Operation[t].lot /\ l \in {Operation[v].lot : v \in Tasks} /\ l \in DOMAIN StepsOf
      BY LotSteps
    <2>2. PICK steps \in StepsOf[l] :
            \A i \in 1..(Len(steps) - 1) : new[steps[i + 1]].start >= new[steps[i]].end
      BY <1>2, <2>1 DEF StepsInOrder
    <2>3. PICK n \in Nat : n = Cardinality(LotOf(l))
      BY <2>1, LotSteps, FS_CardinalityType
    <2>4. /\ steps \in [1..n -> LotOf(l)] /\ Len(steps) = n
          /\ \A x \in LotOf(l) : \E i \in 1..n : steps[i] = x
          /\ \A i, j \in 1..n : i < j => Operation[steps[i]].seq < Operation[steps[j]].seq
      <3>1. steps \in SetToSeqs(LotOf(l)) /\ IsFiniteSet(LotOf(l))
        BY <2>1, <2>2, LotSteps
      <3>2. steps \in [1..n -> LotOf(l)] /\ \A x \in LotOf(l) : \E i \in 1..n : steps[i] = x
        BY <2>3, <3>1, SequenceOfAll
      <3>3. \A i, j \in DOMAIN steps : i < j => Operation[steps[i]].seq < Operation[steps[j]].seq
        BY <2>1, <2>2, LotSteps
      <3> QED BY <3>2, <3>3
    <2>5. t \in LotOf(l) /\ u \in LotOf(l)
      BY <1>2, <2>1 DEF LotOf
    <2>6. PICK i \in 1..n, j \in 1..n : steps[i] = t /\ steps[j] = u
      BY <2>4, <2>5
    <2>7. i < j
      <3>1. Operation[t].seq \in Int /\ Operation[u].seq \in Int
        BY ShopTypes
      <3>2. i # j /\ ~(j < i)
        BY <1>2, <2>4, <2>6, <3>1
      <3> QED BY <3>2
    <2>8. \A k \in 1..n : steps[k] \in Tasks /\ s[steps[k]] \in Nat /\ End(s, steps[k]) \in Nat
                            /\ s[steps[k]] < End(s, steps[k])
      BY <2>4, ScheduleTypes DEF LotOf
    <2> DEFINE T == {k \in 0..(j - i - 1) : s[steps[i + 1 + k]] >= End(s, t)}
    <2>9. ASSUME NEW k \in 1..n, NEW h \in 1..n, h = k + 1 PROVE s[steps[h]] >= End(s, steps[k])
      <3>1. k \in 1..(Len(steps) - 1)
        BY <2>4, <2>9
      <3>2. new[steps[h]].start >= new[steps[k]].end
        BY <2>2, <2>9, <3>1
      <3> QED BY <2>8, <3>2 DEF ShowsPlan
    <2>10. 0 \in T
      <3>1. i + 1 \in 1..n /\ i + 1 + 0 = i + 1 /\ 0 \in 0..(j - i - 1)
        BY <2>7
      <3> QED BY <2>6, <2>9, <3>1
    <2>11. ASSUME NEW k \in 0..(j - i - 1 - 1), k \in T PROVE k + 1 \in T
      <3>1. PICK a \in 1..n, b \in 1..n : a = i + 1 + k /\ b = i + 1 + (k + 1) /\ b = a + 1
        BY <2>7
      <3>2. s[steps[b]] >= End(s, steps[a])
        BY <2>9, <3>1
      <3>3. s[steps[a]] >= End(s, t)
        BY <2>11, <3>1
      <3>4. End(s, t) \in Nat
        BY ScheduleTypes
      <3>5. s[steps[b]] >= End(s, t)
        BY <2>8, <3>2, <3>3, <3>4
      <3> QED BY <3>1, <3>5
    <2>12. j - i - 1 \in Nat /\ i + 1 + (j - i - 1) = j
      BY <2>7
    <2> HIDE DEF T
    <2>13. j - i - 1 \in T
      BY <2>10, <2>11, <2>12, CountUp
    <2> QED BY <2>6, <2>12, <2>13 DEF T
  <1> QED BY <1>1, <1>2

LEMMA SoundPassesHotAudit ==
    ASSUME NEW s \in Schedules, Sound(s), NEW new, ShowsPlan(new, s)
    PROVE  HotPhysicsValid(new)
  <1>1. Placed(s) /\ RouteHolds(s) /\ Undisturbed(s, PlannedStops)
    BY DEF Sound
  <1>2. HotRowsValid(new)
    <2> SUFFICES ASSUME NEW t \in Tasks
                 PROVE  /\ new[t].start >= 0 /\ new[t].start >= Operation[t].release
                        /\ new[t].end = new[t].start + Operation[t].duration
                        /\ new[t].setup >= 0 /\ new[t].setupStart = new[t].start - new[t].setup
      BY DEF HotRowsValid
    <2>1. s[t] >= Operation[t].release
      BY <1>1, ReleaseKept
    <2>2. s[t] \in Nat /\ SetupBefore(s, t) \in Nat /\ SetupStart(s, t) = s[t] - SetupBefore(s, t)
      BY <1>1, TaskWork
    <2> QED BY <2>1, <2>2 DEF ShowsPlan, End
  <1>3. \A l \in DOMAIN StepsOf : StepsInOrder(new, l)
    BY <1>1, StepsShown
  <1>4. ASSUME NEW m \in Machines PROVE WalkValid(new, m)
    <2>1. PICK n \in Nat : n = Cardinality(On(m))
      BY ShopTypes
    <2>2. PICK c \in SetToSeqs(On(m)) : StartsInOrder(s, c, n) /\ c \in Bijection(1..n, On(m))
      BY <1>1, <2>1, MachineInOrder
    <2>3. WalkPasses(new, m, c)
      BY <1>1, <2>1, <2>2, OrderIsCircuit, WalkIsCircuit
    <2>4. ASSUME NEW i \in DOMAIN c, NEW j \in DOMAIN c, i < j
          PROVE  new[c[i]].start <= new[c[j]].start
      <3>1. i \in 1..n /\ j \in 1..n /\ c[i] \in Tasks /\ c[j] \in Tasks
        BY <2>2, ShopTypes DEF Bijection, Injection, Surjection
      <3>2. s[c[i]] < s[c[j]] /\ s[c[i]] \in Nat /\ s[c[j]] \in Nat
        BY <2>2, <2>4, <3>1, ScheduleTypes DEF StartsInOrder
      <3> QED BY <3>1, <3>2 DEF ShowsPlan
    <2>5. c \in RowsOf[m]
      BY TabulatedIsIt DEF RowsOf
    <2> QED BY <2>3, <2>4, <2>5 DEF WalkValid
  <1>5. ASSUME NEW m \in Machines PROVE HotCalendarValid(new, m)
    <2>1. CalendarKept(m, WorkOf(s, m))
      BY CalendarIsKept DEF Sound
    <2>2. StopsFree(m, WorkOf(s, m))
      <3> SUFFICES ASSUME NEW w \in PlannedStops, w.machine = m
                   PROVE  WorkOf(s, m) \cap (w.from..(w.to - 1)) = {}
        BY DEF StopsFree
      <3>1. \A t \in On(m) : WorkSlots(s, t) \cap (w.from..(w.to - 1)) = {}
        BY <1>1 DEF Undisturbed
      <3> QED BY <3>1, WorkInNights
    <2> QED BY <1>1, <2>1, <2>2, HotCalendarRead
  <1> QED BY <1>2, <1>3, <1>4, <1>5 DEF HotPhysicsValid

LEMMA SoundByHotAudit ==
    ASSUME NEW s \in Schedules, NEW new, ShowsPlan(new, s), HotPhysicsValid(new)
    PROVE  Sound(s)
  <1>1. ASSUME NEW m \in Machines
        PROVE  InSequence(s, m) /\ \A t \in On(m) : SetupBefore(s, t) \in Nat /\ SetupStart(s, t) \in Nat
    <2>1. PICK n \in Nat : n = Cardinality(On(m))
      BY ShopTypes
    <2>2. RowsOf[m] = SetToSeqs(On(m))
      BY TabulatedIsIt DEF RowsOf
    <2>3. PICK c \in SetToSeqs(On(m)) : WalkPasses(new, m, c)
      BY <2>2 DEF HotPhysicsValid, WalkValid
    <2>4. c \in Bijection(1..n, On(m)) /\ DOMAIN c = 1..n
      <3>1. c \in [1..n -> On(m)] /\ (\A x \in On(m) : \E i \in 1..n : c[i] = x)
                /\ \A i, j \in 1..n : i # j => c[i] # c[j]
        BY <2>1, SequenceOfAll, ShopTypes DEF SetToSeqs
      <3> QED BY <3>1 DEF Bijection, Injection, Surjection, IsInjective
    <2>5. \A i \in 1..n : /\ SetupBefore(s, c[i]) = SelectedSetup(m, c, i)
                          /\ SetupStart(s, c[i]) >= IF i = 1 THEN 0 ELSE End(s, c[i - 1])
      BY <2>3, <2>4, WalkIsCircuit
    <2>6. c \in Circuits(m) /\ ArcsHold(s, m, c)
      BY <2>1, <2>4, <2>5 DEF Circuits, ArcsHold, SetupStart
    <2> QED BY <2>6, CircuitPlaces
  <1>2. Placed(s)
    BY <1>1 DEF Placed
  <1>3. RouteHolds(s)
    <2>1. \A t \in Tasks : s[t] >= Operation[t].release
      BY DEF HotPhysicsValid, HotRowsValid, ShowsPlan
    <2>2. \A t, u \in Tasks : Operation[t].lot = Operation[u].lot /\ Operation[t].seq < Operation[u].seq
                                => s[u] >= End(s, t)
      BY StepsShown DEF HotPhysicsValid
    <2> QED BY <2>1, <2>2 DEF RouteHolds
  <1>4. ASSUME NEW m \in Machines PROVE CalendarKept(m, WorkOf(s, m)) /\ StopsFree(m, WorkOf(s, m))
    BY <1>2, HotCalendarRead DEF HotPhysicsValid
  <1>5. \A m \in Machines : KeepsCalendar(s, m)
    BY <1>4, CalendarIsKept
  <1>6. Undisturbed(s, PlannedStops)
    <2> SUFFICES ASSUME NEW w \in PlannedStops, NEW t \in On(w.machine)
                 PROVE  WorkSlots(s, t) \cap (w.from..(w.to - 1)) = {}
      BY DEF Undisturbed
    <2>1. w.machine \in Machines
      BY ShopFloorAssumption
    <2>2. WorkOf(s, w.machine) \cap (w.from..(w.to - 1)) = {}
      BY <1>4, <2>1 DEF StopsFree
    <2> QED BY <2>1, <2>2, WorkInNights
  <1> QED BY <1>2, <1>3, <1>5, <1>6 DEF Sound

-----------------------------------------------------------------------------
(* What a faulty solver could pass the audit with.                         *)

LEMMA AuditedRows ==
    ASSUME NEW s
    PROVE  /\ s \in AuditedSchedules <=> s \in Schedules /\ PhysicsValid(PhysicalRows(s))
           /\ s \in HotAuditedSchedules <=> s \in Schedules /\ HotPhysicsValid(PhysicalRows(s))
           /\ ShowsPlan(PhysicalRows(s), s)
  <1>1. PhysicalRows(s) = [t \in Tasks |-> PhysicalRow(s, t)]
    BY TabulatedIsIt DEF PhysicalRows
  <1>2. ShowsPlan(PhysicalRows(s), s)
    BY <1>1 DEF ShowsPlan, PhysicalRow
  <1>3. s \in AuditedSchedules <=> s \in Schedules /\ PhysicsValid(PhysicalRows(s))
    <2>1. ASSUME NEW r PROVE r \in AllRows <=> \E x \in Schedules : r = [schedule |-> x, rows |-> PhysicalRows(x)]
      BY DEF AllRows
    <2>2. ASSUME s \in AuditedSchedules PROVE s \in Schedules /\ PhysicsValid(PhysicalRows(s))
      <3>1. PICK r \in AllRows : PhysicsValid(r.rows) /\ s = r.schedule
        BY <2>2 DEF AuditedSchedules
      <3>2. PICK x \in Schedules : r = [schedule |-> x, rows |-> PhysicalRows(x)]
        BY <2>1
      <3>3. s = x /\ r.rows = PhysicalRows(x)
        BY <3>1, <3>2
      <3> QED BY <3>1, <3>3
    <2>3. ASSUME s \in Schedules, PhysicsValid(PhysicalRows(s)) PROVE s \in AuditedSchedules
      <3>1. PICK r : r = [schedule |-> s, rows |-> PhysicalRows(s)]
        OBVIOUS
      <3>2. r \in AllRows /\ r.schedule = s /\ r.rows = PhysicalRows(s)
        BY <2>1, <2>3, <3>1
      <3> QED BY <2>3, <3>2 DEF AuditedSchedules
    <2> QED BY <2>2, <2>3
  <1>4. s \in HotAuditedSchedules <=> s \in Schedules /\ HotPhysicsValid(PhysicalRows(s))
    <2>1. ASSUME NEW r PROVE r \in AllRows <=> \E x \in Schedules : r = [schedule |-> x, rows |-> PhysicalRows(x)]
      BY DEF AllRows
    <2>2. ASSUME s \in HotAuditedSchedules PROVE s \in Schedules /\ HotPhysicsValid(PhysicalRows(s))
      <3>1. PICK r \in AllRows : HotPhysicsValid(r.rows) /\ s = r.schedule
        BY <2>2 DEF HotAuditedSchedules
      <3>2. PICK x \in Schedules : r = [schedule |-> x, rows |-> PhysicalRows(x)]
        BY <2>1
      <3>3. s = x /\ r.rows = PhysicalRows(x)
        BY <3>1, <3>2
      <3> QED BY <3>1, <3>3
    <2>3. ASSUME s \in Schedules, HotPhysicsValid(PhysicalRows(s)) PROVE s \in HotAuditedSchedules
      <3>1. PICK r : r = [schedule |-> s, rows |-> PhysicalRows(s)]
        OBVIOUS
      <3>2. r \in AllRows /\ r.schedule = s /\ r.rows = PhysicalRows(s)
        BY <2>1, <2>3, <3>1
      <3> QED BY <2>3, <3>2 DEF HotAuditedSchedules
    <2> QED BY <2>2, <2>3
  <1> QED BY <1>2, <1>3, <1>4

LEMMA BothAuditsAgree == SamePhysics
  <1> SUFFICES ASSUME NEW s
               PROVE  s \in HotAuditedSchedules
                        <=> s \in AuditedSchedules /\ StopsValid(PhysicalRows(s), {})
    BY DEF SamePhysics
  <1>1. TypedStops({}) /\ ShowsPlan(PhysicalRows(s), s)
    BY AuditedRows DEF TypedStops
  <1>2. ASSUME s \in HotAuditedSchedules PROVE s \in AuditedSchedules /\ StopsValid(PhysicalRows(s), {})
    <2>1. s \in Schedules /\ Sound(s)
      BY <1>1, <1>2, AuditedRows, SoundByHotAudit
    <2>2. PhysicsValid(PhysicalRows(s))
      BY <1>1, <2>1, SoundPassesAudit
    <2>3. Undisturbed(s, {}) /\ Placed(s) /\ Undisturbed(s, PlannedStops)
      BY <2>1 DEF Undisturbed, Sound
    <2>4. StopsValid(PhysicalRows(s), {})
      BY <1>1, <2>1, <2>3, StopsClear
    <2> QED BY <2>1, <2>2, <2>4, AuditedRows
  <1>3. ASSUME s \in AuditedSchedules, StopsValid(PhysicalRows(s), {}) PROVE s \in HotAuditedSchedules
    <2>1. s \in Schedules /\ PhysicsValid(PhysicalRows(s))
      BY <1>3, AuditedRows
    <2>2. Sound(s)
      BY <1>1, <1>3, <2>1, SoundByAudit
    <2> QED BY <1>1, <2>1, <2>2, AuditedRows, SoundPassesHotAudit
  <1> QED BY <1>2, <1>3

LEMMA AcceptedIsAdmitted ==
    ASSUME OwnContext, NEW e \in Triggers, NEW s \in AuditedSchedules, AuditAccepts(e, s), ~AuditGap(e, s)
    PROVE  Certified(s, Job(e, FrozenPositions(e)))
  <1>1. s \in Schedules /\ PhysicsValid(PhysicalRows(s)) /\ ShowsPlan(PhysicalRows(s), s)
    BY AuditedRows
  <1>2. ShowsPlan(Rows(e, s), s)
    BY FullRows DEF ShowsPlan
  <1>3. /\ StopsValid(Rows(e, s), OutageWindows(e)) /\ TypedStops(OutageWindows(e))
        /\ CommitmentsKept(BaselineRows, Rows(e, s), reported, e, TRUE)
    BY OutageTypes DEF AuditAccepts
  <1>4. Placed(s)
    BY <1>1, PlacedByAudit DEF PhysicsValid
  <1>5. StopsValid(PhysicalRows(s), OutageWindows(e))
    BY <1>1, <1>2, <1>3, ShopTypes DEF StopsValid, ShowsPlan
  <1>6. Sound(s) /\ Undisturbed(s, OutageWindows(e))
    BY <1>1, <1>3, <1>5, SoundByAudit
  <1>7. s \in PhysicalSchedules
    <2>1. Physical(s)
      BY <1>1, <1>6, SoundIsPhysical DEF AuditGap
    <2> QED BY <1>1, <2>1 DEF PhysicalSchedules
  <1>8. ASSUME NEW t \in FrozenBy(e)
        PROVE  s[t] = start[t] /\ SetupBefore(s, t) = SetupBefore(start, t)
    <2>1. t \in Tasks
      BY FrozenTypes
    <2>2. HeldRow(BaselineRows[t], t, reported, e, TRUE)
      BY <2>1, BaseRows, TriggerTypes DEF BaselineRows, HeldRow, CommittedRow, FrozenBy
    <2>3. FrozenKept(BaselineRows, Rows(e, s), t, e)
      BY <1>3, <2>1, <2>2 DEF CommitmentsKept
    <2>4. Rows(e, s)[t].start = s[t] /\ BaselineRows[t].start = start[t]
      BY <2>1, FullRows, BaseRows DEF BaselineRows
    <2>5. s[t] = start[t]
      BY <2>3, <2>4 DEF FrozenKept
    <2> QED BY <2>5 DEF AuditGap
  <1>9. ASSUME NEW t \in DOMAIN FlexibleWindows(e)
        PROVE  s[t] \in FlexibleWindows(e)[t].lower..FlexibleWindows(e)[t].upper
    <2>1. t \in Tasks /\ t \notin FrozenBy(e) /\ start[t] < FlexibleLimit(e)
      BY WindowTypes
    <2>2. BaselineRows[t].start = start[t] /\ BaselineRows[t].state = IF t \in frozen THEN "FROZEN" ELSE "OTHER"
      BY <2>1, BaseRows DEF BaselineRows
    <2>3. ~HeldRow(BaselineRows[t], t, reported, e, TRUE)
      BY <2>1, <2>2, TriggerTypes DEF HeldRow, CommittedRow, FrozenBy
    <2>4. FlexibleKept(BaselineRows, Rows(e, s), t, e)
      BY <1>3, <2>1, <2>2, <2>3 DEF CommitmentsKept
    <2>5. PICK low : low = IF e.now > start[t] - e.shift THEN e.now ELSE start[t] - e.shift
      OBVIOUS
    <2>6. Rows(e, s)[t].start = s[t]
      BY <2>1, FullRows
    <2>7. low <= s[t] /\ s[t] <= start[t] + e.shift
      BY <2>2, <2>4, <2>5, <2>6 DEF FlexibleKept, WithinShift
    <2>8. FlexibleWindows(e)[t].lower = low /\ FlexibleWindows(e)[t].upper = start[t] + e.shift
      BY <2>5, WindowTypes
    <2>9. FlexibleWindows(e)[t].lower \in Int /\ FlexibleWindows(e)[t].upper \in Int /\ s[t] \in Int
      BY <1>1, <2>1, WindowTypes, ScheduleTypes
    <2> QED BY <2>7, <2>8, <2>9
  <1>10. ASSUME NEW t \in Tasks \ FrozenBy(e) PROVE s[t] >= e.now
    <2>1. ~(s[t] < e.now)
      BY DEF AuditGap
    <2> QED BY <1>1, <2>1, ScheduleTypes, TriggerTypes
  <1>11. Committed(s, Job(e, FrozenPositions(e)))
    <2>1. FrozenBy(e) \subseteq Tasks
      BY FrozenTypes
    <2> QED BY <1>8, <1>9, <1>10, <2>1 DEF Committed, Job, FrozenPositions, BoundByEvent
  <1> QED BY <1>6, <1>7, <1>11 DEF Certified, Job

\* What the audit would miss of a faulty solver: a candidate it accepts, for
\* any event and on any shop floor, satisfies every constraint of the model but
\* the order of transfer sublots, the earliest start of free tasks and the setups
\* of frozen ones; and the audit of hot-order candidates accepts the same rows
\* (audit_reschedule_candidate, audit_hot_order_schedule).
THEOREM AuditsCatchFaults == Spec => []AuditCatches
  <1>1. OwnContext => AuditCatches
    BY BothAuditsAgree, AcceptedIsAdmitted DEF AuditCatches
  <1>2. IInv => AuditCatches
    BY <1>1 DEF IInv
  <1> QED BY <1>2, Inductive, PTL
-----------------------------------------------------------------------------
(* Dispatch rules: the ranks contradict neither routes nor sublots, so that *)
(* where there is room there is a schedule in their order.                  *)

\* Whatever was ranked, some task is ready: the one with the least place in
\* its route, and of those the least sublot.
LEMMA SomeReady ==
    ASSUME NEW S \in SUBSET Tasks, S # Tasks
    PROVE  \E t \in Tasks \ S : RankedBefore(t) \subseteq S
  <1>1. PICK R : R = Tasks \ S /\ R # {} /\ IsFiniteSet(R)
    <2>1. IsFiniteSet(Tasks) /\ Tasks \ S \subseteq Tasks
      BY ShopTypes
    <2>2. IsFiniteSet(Tasks \ S)
      BY <2>1, FS_Subset
    <2> QED BY <2>2
  <1>2. \A t \in R : t \in Tasks /\ Operation[t].seq \in Int /\ Operation[t].sub \in Int
    BY <1>1, ShopFloorAssumption
  <1>3. PICK g : g = [t \in R |-> Operation[t].seq]
    OBVIOUS
  <1>4. PICK x \in R : \A u \in R : g[x] <= g[u]
    <2>1. \A t \in R : g[t] \in Int
      BY <1>2, <1>3
    <2> QED BY <1>1, <2>1, FirstAndLast
  <1>5. PICK R2 : R2 = {t \in R : Operation[t].seq = Operation[x].seq} /\ R2 # {} /\ IsFiniteSet(R2)
    <2>1. PICK R2 : R2 = {t \in R : Operation[t].seq = Operation[x].seq}
      OBVIOUS
    <2>2. R2 \subseteq R /\ x \in R2
      BY <2>1
    <2>3. IsFiniteSet(R2)
      BY <1>1, <2>2, FS_Subset
    <2> QED BY <2>1, <2>2, <2>3
  <1>6. PICK g2 : g2 = [t \in R2 |-> Operation[t].sub]
    OBVIOUS
  <1>7. PICK t \in R2 : \A u \in R2 : g2[t] <= g2[u]
    <2>1. \A u \in R2 : g2[u] \in Int
      BY <1>2, <1>5, <1>6
    <2> QED BY <1>5, <2>1, FirstAndLast
  <1>8. ASSUME NEW u \in RankedBefore(t), u \notin S PROVE FALSE
    <2>1. u \in R
      BY <1>1, <1>8 DEF RankedBefore
    <2>2. Operation[t].seq = Operation[x].seq /\ Operation[x].seq <= Operation[u].seq
      BY <1>3, <1>4, <1>5, <2>1
    <2>3. ~(Operation[u].seq < Operation[t].seq)
      BY <1>2, <1>5, <2>1, <2>2
    <2>4. Operation[u].seq = Operation[t].seq /\ Operation[u].sub < Operation[t].sub
      BY <1>8, <2>3 DEF RankedBefore
    <2>5. u \in R2
      BY <1>5, <2>1, <2>2, <2>4
    <2>6. Operation[t].sub <= Operation[u].sub
      BY <1>6, <1>7, <2>5
    <2> QED BY <1>2, <1>5, <2>1, <2>4, <2>6
  <1> QED BY <1>1, <1>5, <1>8

LEMMA EstimateTypes ==
    ASSUME NEW S \in SUBSET Tasks, NEW ends \in [S -> Nat], NEW t \in Tasks
    PROVE  EstimatedStart(ends, t) \in Nat
  <1>1. PICK P : P = S \cap (On(Operation[t].machine) \cup RankedBefore(t))
    OBVIOUS
  <1>2. PICK E : E = {ends[u] : u \in P}
    OBVIOUS
  <1>3. PICK base : base = {0, Operation[t].release}
    OBVIOUS
  <1>4. IsFiniteSet(E) /\ E \subseteq Nat
    <2>1. IsFiniteSet(P)
      BY <1>1, ShopTypes, FS_Subset
    <2> QED BY <1>1, <1>2, <2>1, FiniteImage
  <1>5. IsFiniteSet(base) /\ base \subseteq Nat /\ base # {}
    <2>1. PICK x \in Nat : x = Operation[t].release
      BY ShopTypes
    <2>2. base = {0, x, 0, 0}
      BY <1>3, <2>1
    <2>3. IsFiniteSet(base)
      BY <2>2, FourFinite
    <2> QED BY <2>1, <2>2, <2>3
  <1>6. PICK T : T = base \cup E
    OBVIOUS
  <1>7. IsFiniteSet(T) /\ T \subseteq Nat /\ T # {}
    BY <1>4, <1>5, <1>6, FS_Union
  <1>8. Max(T) \in T
    <2>1. T \subseteq Int
      BY <1>7
    <2> QED BY <1>7, <2>1, MaxOfFinite
  <1>9. EstimatedStart(ends, t) = Max(T)
    BY <1>1, <1>2, <1>3, <1>6 DEF EstimatedStart
  <1> QED BY <1>7, <1>8, <1>9

LEMMA KeyTypes ==
    ASSUME NEW rule \in DispatchRules, NEW S \in SUBSET Tasks, NEW ends \in [S -> Nat], NEW t \in Tasks
    PROVE  DispatchKey(rule, ends, t) \in Int
  <1>1. /\ Operation[t].release \in Nat /\ Operation[t].duration \in Nat /\ Operation[t].due \in Nat
        /\ EstimatedStart(ends, t) \in Nat
    BY ShopTypes, EconomicsAssumption, EstimateTypes
  <1>2. EstimatedStart(ends, t) + Operation[t].duration \in Int
    BY <1>1
  <1>3. CASE rule = "FIFO"
    BY <1>1, <1>3 DEF DispatchKey
  <1>4. CASE rule = "EDD"
    BY <1>1, <1>4 DEF DispatchKey
  <1>5. CASE rule = "SPT"
    BY <1>1, <1>5 DEF DispatchKey
  <1>6. CASE rule = "Greedy"
    BY <1>2, <1>6 DEF DispatchKey
  <1> QED BY <1>3, <1>4, <1>5, <1>6 DEF DispatchRules

LEMMA NextIsReady ==
    ASSUME NEW rule \in DispatchRules, NEW S \in SUBSET Tasks, S # Tasks, NEW ends \in [S -> Nat],
           NEW t, t = NextRanked(rule, TaskOrder, ends)
    PROVE  t \in Tasks \ S /\ RankedBefore(t) \subseteq S
  <1>1. PICK ready : ready = {u \in Tasks \ S : RankedBefore(u) \subseteq S}
    OBVIOUS
  <1>2. ready # {} /\ IsFiniteSet(ready) /\ ready \subseteq Tasks
    <2>1. ready \subseteq Tasks
      BY <1>1
    <2>2. ready # {}
      BY <1>1, SomeReady
    <2> QED BY <2>1, <2>2, ShopTypes, FS_Subset
  <1>3. PICK g : g = [u \in ready |-> DispatchKey(rule, ends, u)]
    OBVIOUS
  <1>4. PICK x \in ready : \A u \in ready : g[x] <= g[u]
    <2>1. \A u \in ready : g[u] \in Int
      BY <1>2, <1>3, KeyTypes
    <2> QED BY <1>2, <2>1, FirstAndLast
  <1>5. PICK least : least = {u \in ready : \A v \in ready : DispatchKey(rule, ends, u) <= DispatchKey(rule, ends, v)}
    OBVIOUS
  <1>6. x \in least /\ least \subseteq ready
    BY <1>3, <1>4, <1>5
  <1>7. PICK I : I = {i \in DOMAIN TaskOrder : TaskOrder[i] \in least}
    OBVIOUS
  <1>8. TaskOrder \in Seq(Tasks) /\ Range(TaskOrder) = Tasks
    BY ReschedulingAssumption
  <1>9. I \subseteq Nat /\ I # {}
    <2>1. DOMAIN TaskOrder \subseteq Nat
      BY <1>8
    <2>2. x \in Range(TaskOrder)
      BY <1>2, <1>8
    <2>3. PICK i \in DOMAIN TaskOrder : TaskOrder[i] = x
      BY <2>2 DEF Range
    <2> QED BY <1>6, <1>7, <2>1, <2>3
  <1>10. Min(I) \in I
    BY <1>9, SmallestOf
  <1>11. t = TaskOrder[Min(I)]
    <2>1. DOMAIN ends = S
      OBVIOUS
    <2> QED BY <1>1, <1>5, <1>7, <2>1 DEF NextRanked
  <1>12. t \in ready
    BY <1>6, <1>7, <1>10, <1>11
  <1> QED BY <1>1, <1>12

\* The first k ranks: nothing twice, and everything behind what it waits for.
RanksOf(q, k) ==
    /\ q \in [1..k -> Tasks] /\ q \in Seq(Tasks)
    /\ \A i, j \in 1..k : i # j => q[i] # q[j]
    /\ \A i \in 1..k : \A u \in RankedBefore(q[i]) : \E j \in 1..(i - 1) : u = q[j]
RankedStates(k) ==
    {r \in [ends : UNION {[S -> Nat] : S \in SUBSET Tasks}, ranked : Seq(Tasks)] :
        RanksOf(r.ranked, k) /\ DOMAIN r.ends = {r.ranked[i] : i \in 1..k}}

LEMMA RankState ==
    ASSUME NEW k \in Nat, NEW r \in RankedStates(k)
    PROVE  /\ RanksOf(r.ranked, k)
           /\ \E S \in SUBSET Tasks : S = {r.ranked[i] : i \in 1..k} /\ r.ends \in [S -> Nat]
  <1>1. PICK S \in SUBSET Tasks : r.ends \in [S -> Nat]
    BY DEF RankedStates
  <1>2. RanksOf(r.ranked, k) /\ DOMAIN r.ends = {r.ranked[i] : i \in 1..k}
    BY DEF RankedStates
  <1> QED BY <1>1, <1>2

LEMMA RankGrows ==
    ASSUME NEW rule \in DispatchRules, NEW k \in 0..(Cardinality(Tasks) - 1), NEW r \in RankedStates(k)
    PROVE  RankNext(rule, TaskOrder, r) \in RankedStates(k + 1)
  <1>1. PICK q : q = r.ranked
    OBVIOUS
  <1>2. RanksOf(q, k) /\ k \in Nat
    BY <1>1, RankState
  <1>3. PICK S \in SUBSET Tasks : S = {q[i] : i \in 1..k} /\ r.ends \in [S -> Nat]
    <2>1. \E S \in SUBSET Tasks : S = {r.ranked[i] : i \in 1..k} /\ r.ends \in [S -> Nat]
      BY <1>2, RankState
    <2> QED BY <1>1, <2>1
  <1>4. S # Tasks
    <2> SUFFICES ASSUME S = Tasks PROVE FALSE
      OBVIOUS
    <2>1. q \in Surjection(1..k, Tasks)
      BY <1>2, <1>3 DEF RanksOf, Surjection
    <2>2. IsFiniteSet(1..k) /\ Cardinality(1..k) = k
      BY <1>2, FS_Interval
    <2>3. Cardinality(Tasks) <= k
      BY <2>1, <2>2, FS_Surjection
    <2>4. Cardinality(Tasks) \in Nat
      BY ShopTypes, FS_CardinalityType
    <2> QED BY <1>2, <2>3, <2>4
  <1>5. PICK t, ends : ends = r.ends /\ t = NextRanked(rule, TaskOrder, ends)
    OBVIOUS
  <1>6. t \in Tasks \ S /\ RankedBefore(t) \subseteq S
    <2>1. ends \in [S -> Nat]
      BY <1>3, <1>5
    <2> QED BY <1>4, <1>5, <2>1, NextIsReady
  <1>7. PICK q2 : q2 = Append(q, t)
    OBVIOUS
  <1>8. /\ q2 \in Seq(Tasks) /\ q2 \in [1..(k + 1) -> Tasks]
        /\ q2[k + 1] = t /\ \A i \in 1..k : q2[i] = q[i]
    <2>1. q \in Seq(Tasks) /\ q \in [1..k -> Tasks]
      BY <1>2 DEF RanksOf
    <2>2. Len(q) = k /\ t \in Tasks
      BY <1>2, <1>6, <2>1
    <2>3. q2 \in Seq(Tasks) /\ Len(q2) = k + 1
      BY <1>7, <2>1, <2>2
    <2>4. q2[k + 1] = t
      BY <1>7, <2>1, <2>2
    <2>5. \A i \in 1..k : q2[i] = q[i]
      BY <1>7, <2>1, <2>2
    <2>6. q2 \in [1..(k + 1) -> Tasks]
      BY <2>3
    <2> QED BY <2>3, <2>4, <2>5, <2>6
  <1>9. PICK x \in Nat : x = EstimatedStart(r.ends, t) + Operation[t].duration
    <2>1. EstimatedStart(r.ends, t) \in Nat /\ Operation[t].duration \in Nat
      <3>1. ends \in [S -> Nat] /\ t \in Tasks
        BY <1>3, <1>5, <1>6
      <3>2. EstimatedStart(ends, t) \in Nat
        BY <3>1, EstimateTypes
      <3> QED BY <1>5, <3>1, <3>2, ShopTypes
    <2> QED BY <2>1
  <1>10. PICK ends2 : ends2 = [u \in S \cup {t} |-> IF u = t THEN x ELSE r.ends[u]]
    OBVIOUS
  <1>11. RankNext(rule, TaskOrder, r) = [ends |-> ends2, ranked |-> q2]
    <2>1. DOMAIN r.ends = S
      BY <1>3
    <2> QED BY <1>1, <1>5, <1>7, <1>9, <1>10, <2>1 DEF RankNext
  <1>12. ends2 \in [S \cup {t} -> Nat] /\ S \cup {t} \in SUBSET Tasks
    BY <1>3, <1>6, <1>9, <1>10
  <1>13. \A i \in 1..(k + 1) : i \in 1..k \/ i = k + 1
    BY <1>2
  <1>14. S \cup {t} = {q2[i] : i \in 1..(k + 1)}
    <2>1. \A i \in 1..k : i \in 1..(k + 1)
      BY <1>2
    <2>2. k + 1 \in 1..(k + 1)
      BY <1>2
    <2> QED BY <1>3, <1>8, <1>13, <2>1, <2>2
  <1>15. RanksOf(q2, k + 1)
    <2>1. ASSUME NEW i \in 1..(k + 1), NEW j \in 1..(k + 1), i # j PROVE q2[i] # q2[j]
      <3>1. \A n \in 1..k : q2[n] = q[n] /\ q[n] \in S /\ q[n] # t
        BY <1>3, <1>6, <1>8
      <3>2. \A n, p \in 1..k : n # p => q[n] # q[p]
        BY <1>2 DEF RanksOf
      <3> QED BY <1>8, <1>13, <2>1, <3>1, <3>2
    <2>2. ASSUME NEW i \in 1..(k + 1), NEW u \in RankedBefore(q2[i]) PROVE \E j \in 1..(i - 1) : u = q2[j]
      <3>1. CASE i = k + 1
        <4>1. u \in S
          BY <1>6, <1>8, <2>2, <3>1
        <4>2. PICK j \in 1..k : u = q[j]
          BY <1>3, <4>1
        <4> QED BY <1>2, <1>8, <3>1, <4>2
      <3>2. CASE i \in 1..k
        <4>1. PICK j \in 1..(i - 1) : u = q[j]
          BY <1>2, <1>8, <2>2, <3>2 DEF RanksOf
        <4>2. j \in 1..k
          BY <1>2, <3>2
        <4> QED BY <1>8, <4>1, <4>2
      <3> QED BY <1>13, <3>1, <3>2
    <2> QED BY <1>8, <2>1, <2>2 DEF RanksOf
  <1>16. PICK r2 : r2 = [ends |-> ends2, ranked |-> q2]
    OBVIOUS
  <1>17. /\ r2.ends = ends2 /\ r2.ranked = q2
         /\ r2 \in [ends : UNION {[U -> Nat] : U \in SUBSET Tasks}, ranked : Seq(Tasks)]
    BY <1>8, <1>12, <1>16
  <1>18. DOMAIN ends2 = {q2[i] : i \in 1..(k + 1)}
    BY <1>10, <1>14
  <1>19. r2 \in RankedStates(k + 1)
    BY <1>15, <1>17, <1>18 DEF RankedStates
  <1> QED BY <1>11, <1>16, <1>19

LEMMA RanksExist ==
    ASSUME NEW rule \in DispatchRules, NEW n \in Nat, n = Cardinality(Tasks),
           NEW q, q = Ranking(rule, TaskOrder)
    PROVE  RanksOf(q, n) /\ \A t \in Tasks : \E i \in 1..n : t = q[i]
  <1> DEFINE All == [ends : UNION {[S -> Nat] : S \in SUBSET Tasks}, ranked : Seq(Tasks)]
  <1>1. NoneRanked \in RankedStates(0)
    <2>1. PICK none : none = [t \in {} |-> 0]
      OBVIOUS
    <2>2. none \in [{} -> Nat] /\ {} \in SUBSET Tasks /\ DOMAIN none = {}
      BY <2>1
    <2>3. <<>> \in Seq(Tasks) /\ <<>> \in [1..0 -> Tasks]
      OBVIOUS
    <2>4. PICK r : r = [ends |-> none, ranked |-> <<>>]
      OBVIOUS
    <2>5. r.ends = none /\ r.ranked = <<>> /\ r \in All
      BY <2>2, <2>3, <2>4
    <2>6. 1..0 = {} /\ RanksOf(<<>>, 0)
      BY <2>3 DEF RanksOf
    <2>7. DOMAIN r.ends = {r.ranked[i] : i \in 1..0}
      BY <2>2, <2>5, <2>6
    <2>8. r \in RankedStates(0)
      BY <2>5, <2>6, <2>7 DEF RankedStates
    <2> QED BY <2>1, <2>4, <2>8 DEF NoneRanked
  <1>2. \A k \in 0..n : RankedStates(k) \subseteq All
    BY DEF RankedStates
  <1>3. Len(TaskOrder) = n
    <2>1. TaskOrder \in Seq(Tasks) /\ Range(TaskOrder) = Tasks /\ IsInjective(TaskOrder)
      BY ReschedulingAssumption
    <2>2. PICK k \in Nat : k = Len(TaskOrder) /\ DOMAIN TaskOrder = 1..k
      BY <2>1
    <2>3. TaskOrder \in [1..k -> Tasks]
      BY <2>1, <2>2
    <2>4. \A t \in Tasks : \E i \in 1..k : TaskOrder[i] = t
      BY <2>1, <2>2 DEF Range
    <2>5. \A i, j \in 1..k : TaskOrder[i] = TaskOrder[j] => i = j
      BY <2>1, <2>2 DEF IsInjective
    <2>6. TaskOrder \in Surjection(1..k, Tasks)
      BY <2>3, <2>4 DEF Surjection
    <2>7. TaskOrder \in Injection(1..k, Tasks)
      BY <2>3, <2>5 DEF Injection, IsInjective
    <2>8. IsFiniteSet(1..k) /\ Cardinality(1..k) = k
      <3>1. 1 \in Int /\ k \in Int /\ k \in Nat
        BY <2>2
      <3>2. IsFiniteSet(1..k) /\ Cardinality(1..k) = IF 1 > k THEN 0 ELSE k - 1 + 1
        BY <3>1, FS_Interval
      <3> QED BY <3>1, <3>2
    <2>9. Cardinality(Tasks) = k
      BY <2>6, <2>7, <2>8, FS_Surjection
    <2> QED BY <2>2, <2>9
  <1> DEFINE Steps(h) == h = [k \in 0..n |-> IF k = 0 THEN NoneRanked ELSE RankNext(rule, TaskOrder, h[k - 1])]
  <1>4. \E h : Steps(h)
    <2> DEFINE D == 0..n
               m == [d \in D |-> d]
               pred == [d \in D |-> d - 1]
               key == [d \in D |-> 0]
               B == [d \in D |-> NoneRanked]
               F == [p \in {0} \X All |-> RankNext(rule, TaskOrder, p[2])]
    <2>1. \A d \in D : m[d] \in 0..n /\ (m[d] # 0 => pred[d] \in D /\ m[pred[d]] < m[d])
      OBVIOUS
    <2>2. PICK h : Recursive(h, D, m, pred, key, B, F)
      <3> HIDE DEF D, m, pred, key, B, F, All
      <3> QED BY <2>1, RecursionExists
    <2>3. h = [d \in 0..n |-> IF d = 0 THEN NoneRanked ELSE F[<<0, h[d - 1]>>]]
      BY <2>2 DEF Recursive
    <2>4. \A d \in 0..n : h[d] = IF d = 0 THEN NoneRanked ELSE F[<<0, h[d - 1]>>]
      BY <2>3
    <2> HIDE DEF All
    <2>5. \A r \in All : F[<<0, r>>] = RankNext(rule, TaskOrder, r)
      OBVIOUS
    <2> HIDE DEF F
    <2> DEFINE T == {k \in 0..n : h[k] \in RankedStates(k)}
    <2>6. 0 \in T
      <3>1. 0 \in 0..n
        OBVIOUS
      <3>2. h[0] = NoneRanked
        BY <2>4, <3>1
      <3> QED BY <1>1, <3>1, <3>2
    <2>7. ASSUME NEW k \in 0..(n - 1), k \in T PROVE k + 1 \in T
      <3>1. k + 1 \in 0..n /\ k \in 0..n /\ k + 1 # 0 /\ (k + 1) - 1 = k
        OBVIOUS
      <3>2. h[k + 1] = F[<<0, h[k]>>]
        BY <2>4, <3>1
      <3>3. h[k] \in RankedStates(k) /\ h[k] \in All
        BY <1>2, <2>7, <3>1
      <3>4. k \in 0..(Cardinality(Tasks) - 1)
        OBVIOUS
      <3>5. RankNext(rule, TaskOrder, h[k]) \in RankedStates(k + 1)
        BY <3>3, <3>4, RankGrows
      <3> QED BY <2>5, <3>1, <3>2, <3>3, <3>5
    <2> HIDE DEF T
    <2>8. \A k \in 0..n : k \in T
      BY <2>6, <2>7, CountUp
    <2>9. \A k \in 0..n : h[k] \in All
      BY <1>2, <2>8 DEF T
    <2>10. \A k \in 0..n : k # 0 => F[<<0, h[k - 1]>>] = RankNext(rule, TaskOrder, h[k - 1])
      <3> SUFFICES ASSUME NEW k \in 0..n, k # 0 PROVE F[<<0, h[k - 1]>>] = RankNext(rule, TaskOrder, h[k - 1])
        OBVIOUS
      <3>1. k - 1 \in 0..n
        OBVIOUS
      <3> QED BY <2>5, <2>9, <3>1
    <2>11. Steps(h)
      BY <2>3, <2>10
    <2> QED BY <2>11
  <1> HIDE DEF All
  <1> DEFINE steps == CHOOSE h : Steps(h)
  <1>5. Steps(steps)
    <2> HIDE DEF Steps
    <2> QED BY <1>4
  <1>6. q = steps[n].ranked
    BY <1>3 DEF Ranking
  <1>7. PICK h : h = steps
    OBVIOUS
  <1>8. \A k \in 0..n : h[k] = IF k = 0 THEN NoneRanked ELSE RankNext(rule, TaskOrder, h[k - 1])
    BY <1>5, <1>7
  <1> HIDE DEF Steps, steps
  <1> DEFINE T == {k \in 0..n : h[k] \in RankedStates(k)}
  <1>9. 0 \in T
    BY <1>1, <1>8
  <1>10. ASSUME NEW k \in 0..(n - 1), k \in T PROVE k + 1 \in T
    <2>1. k + 1 \in 0..n /\ k + 1 # 0 /\ (k + 1) - 1 = k
      OBVIOUS
    <2>2. h[k + 1] = RankNext(rule, TaskOrder, h[k]) /\ h[k] \in RankedStates(k)
      BY <1>8, <1>10, <2>1
    <2>3. k \in 0..(Cardinality(Tasks) - 1)
      OBVIOUS
    <2>4. RankNext(rule, TaskOrder, h[k]) \in RankedStates(k + 1)
      BY <2>2, <2>3, RankGrows
    <2> QED BY <2>1, <2>2, <2>4
  <1> HIDE DEF T
  <1>11. \A k \in 0..n : k \in T
    BY <1>9, <1>10, CountUp
  <1>12. h[n] \in RankedStates(n)
    BY <1>11 DEF T
  <1>13. RanksOf(q, n)
    BY <1>6, <1>7, <1>12, RankState
  <1>14. \A t \in Tasks : \E i \in 1..n : t = q[i]
    <2>1. q \in Injection(1..n, Tasks)
      BY <1>13 DEF RanksOf, Injection, IsInjective
    <2>2. IsFiniteSet(1..n) /\ Cardinality(1..n) = n
      BY FS_Interval
    <2>3. q \in Surjection(1..n, Tasks)
      BY <2>1, <2>2, ShopTypes, FS_Injection
    <2> QED BY <2>3 DEF Surjection
  <1> QED BY <1>13, <1>14

\* Room for the longest of schedules: every operation fits a regular shift with
\* any setup, and there are as many open days without a stop as operations, all
\* after the releases and inside the horizon.  The code asks only the first, and
\* of the processing alone, so this is a hypothesis and not an assumption.
RoomForAll ==
    /\ \A t \in Tasks : \A p \in {InitialProduct[Operation[t].machine]} \cup {Operation[u].product : u \in Tasks} :
        SetupTime(Operation[t].machine, p, Operation[t].product) + Operation[t].duration
            <= DayLength - Night[Operation[t].machine]
    /\ \E day \in [1..Cardinality(Tasks) -> Days] :
        /\ \A i, j \in 1..Cardinality(Tasks) : i < j => day[i] < day[j]
        /\ \A i \in 1..Cardinality(Tasks) :
            /\ ~Closed(day[i]) /\ (day[i] + 1) * DayLength <= Horizon
            /\ \A w \in PlannedStops : DaySlots(day[i]) \cap (w.from..(w.to - 1)) = {}
            /\ \A t \in Tasks : Operation[t].release <= day[i] * DayLength + Night[Operation[t].machine]

\* A schedule with a day for each task, at whose end it works.
AtDayEnds(on) == [t \in Tasks |-> (on[t] + 1) * DayLength - Operation[t].duration]
DaysFor(on) ==
    /\ on \in [Tasks -> Days]
    /\ \A t \in Tasks :
        /\ ~Closed(on[t]) /\ (on[t] + 1) * DayLength <= Horizon
        /\ \A w \in PlannedStops : DaySlots(on[t]) \cap (w.from..(w.to - 1)) = {}
        /\ Operation[t].release <= on[t] * DayLength + Night[Operation[t].machine]

LEMMA DayTypes ==
    ASSUME NEW on, DaysFor(on), NEW t \in Tasks
    PROVE  \E a \in Nat, n \in Nat, k \in Nat : \E d \in Nat :
              /\ d = on[t] /\ d \in Days /\ k = DayLength /\ a = d * k /\ (d + 1) * k = a + k
              /\ n = Night[Operation[t].machine]
  <1>1. on[t] \in Nat /\ on[t] \in Days
    BY DEF DaysFor, Days
  <1>2. Operation[t].machine \in Machines /\ DayLength \in Nat
    BY ShopTypes
  <1>3. Night[Operation[t].machine] \in Nat
    BY <1>2, ShopTypes
  <1>4. PICK d \in Nat, k \in Nat : d = on[t] /\ k = DayLength
    BY <1>1, <1>2
  <1>5. d * k \in Nat /\ (d + 1) * k = d * k + k
    OBVIOUS
  <1> QED BY <1>1, <1>3, <1>4, <1>5

LEMMA DaySchedule ==
    ASSUME RoomForAll, NEW on, DaysFor(on), NEW s, s = AtDayEnds(on)
    PROVE  s \in Schedules
  <1> SUFFICES ASSUME NEW t \in Tasks
               PROVE  s[t] \in 0..Horizon /\ s[t] + Operation[t].duration <= Horizon
    BY DEF Schedules, AtDayEnds
  <1>1. PICK a \in Nat, n \in Nat, k \in Nat : \E d \in Nat :
              /\ d = on[t] /\ d \in Days /\ k = DayLength /\ a = d * k /\ (d + 1) * k = a + k
              /\ n = Night[Operation[t].machine]
    BY DayTypes
  <1>2. (on[t] + 1) * DayLength = a + k /\ k = DayLength /\ n = Night[Operation[t].machine]
    BY <1>1
  <1>3. PICK m \in Machines : m = Operation[t].machine /\ t \in On(m)
    BY ShopTypes
  <1>4. PICK x \in Nat : x = SetupTime(m, InitialProduct[m], Operation[t].product)
    BY <1>3, SetupTypes
  <1>5. PICK y \in Nat : y = Operation[t].duration /\ y # 0
    BY ShopTypes
  <1>6. x + y <= k - n
    <2>1. InitialProduct[m] \in {InitialProduct[Operation[t].machine]} \cup {Operation[u].product : u \in Tasks}
      BY <1>3
    <2>2. SetupTime(Operation[t].machine, InitialProduct[m], Operation[t].product) + Operation[t].duration
            <= DayLength - Night[Operation[t].machine]
      BY <2>1 DEF RoomForAll
    <2> QED BY <1>2, <1>3, <1>4, <1>5, <2>2
  <1>7. s[t] = a + k - y
    BY <1>2, <1>5 DEF AtDayEnds
  <1>8. a + k <= Horizon /\ Horizon \in Nat
    BY <1>2, ShopTypes DEF DaysFor
  <1> QED BY <1>1, <1>4, <1>5, <1>6, <1>7, <1>8

\* It works inside the regular shift of its day.
LEMMA DayWork ==
    ASSUME RoomForAll, NEW on, DaysFor(on), NEW s, s = AtDayEnds(on), NEW t \in Tasks
    PROVE  /\ s[t] \in Nat /\ End(s, t) = (on[t] + 1) * DayLength /\ End(s, t) <= Horizon
           /\ s[t] < End(s, t) /\ End(s, t) \in Nat
           /\ SetupBefore(s, t) \in Nat /\ SetupStart(s, t) \in Nat
           /\ on[t] * DayLength + Night[Operation[t].machine] <= SetupStart(s, t)
           /\ SetupStart(s, t) <= s[t]
  <1>1. PICK a \in Nat, n \in Nat, k \in Nat : \E d \in Nat :
              /\ d = on[t] /\ d \in Days /\ k = DayLength /\ a = d * k /\ (d + 1) * k = a + k
              /\ n = Night[Operation[t].machine]
    BY DayTypes
  <1>2. a = on[t] * DayLength /\ (on[t] + 1) * DayLength = a + k
    BY <1>1
  <1>3. PICK p : p = LastProduct(s, t) /\ p \in {InitialProduct[Operation[t].machine]} \cup {Operation[u].product : u \in Tasks}
    BY DaySchedule, KnownProduct
  <1>4. SetupTime(Operation[t].machine, p, Operation[t].product) \in Nat
    <2>1. t \in On(Operation[t].machine) /\ Operation[t].machine \in Machines
      BY ShopTypes
    <2> QED BY <1>3, <2>1, SetupTypes
  <1>5. PICK x \in Nat, y \in Nat : /\ x = SetupBefore(s, t) /\ y = Operation[t].duration
                                    /\ y # 0 /\ x + y <= k - n
    <2>1. SetupBefore(s, t) = SetupTime(Operation[t].machine, p, Operation[t].product)
      BY <1>3 DEF SetupBefore
    <2>2. SetupTime(Operation[t].machine, p, Operation[t].product) + Operation[t].duration
            <= DayLength - Night[Operation[t].machine]
      BY <1>3 DEF RoomForAll
    <2> QED BY <1>1, <1>4, <2>1, <2>2, ShopTypes
  <1>6. s[t] = a + k - y
    BY <1>2, <1>5 DEF AtDayEnds
  <1>7. s[t] \in Nat /\ End(s, t) = a + k /\ SetupStart(s, t) = a + k - y - x
    BY <1>1, <1>5, <1>6 DEF End, SetupStart
  <1>8. a + k <= Horizon
    BY <1>2 DEF DaysFor
  <1> QED BY <1>1, <1>2, <1>5, <1>6, <1>7, <1>8

\* Its work touches no night and no closed day.
LEMMA DayCalendar ==
    ASSUME RoomForAll, NEW on, DaysFor(on), NEW s, s = AtDayEnds(on), NEW t \in Tasks, NEW m, m = Operation[t].machine
    PROVE  /\ WorkSlots(s, t) \subseteq DaySlots(on[t])
           /\ WorkSlots(s, t) \cap Breaks(m, {}) = {}
           /\ WorkSlots(s, t) \cap FirstNights(m) = {}
  <1>1. PICK a \in Nat, n \in Nat, k \in Nat : \E d \in Nat :
              /\ d = on[t] /\ d \in Days /\ k = DayLength /\ a = d * k /\ (d + 1) * k = a + k
              /\ n = Night[Operation[t].machine]
    BY DayTypes
  <1>2. PICK d \in Nat : d = on[t] /\ d \in Days /\ a = d * DayLength /\ k = DayLength /\ n = Night[m]
                         /\ (d + 1) * DayLength = a + k
    BY <1>1
  <1>3. PICK b \in Nat, e \in Nat : b = SetupStart(s, t) /\ e = End(s, t) /\ a + n <= b /\ e = a + k
    BY <1>2, DayWork
  <1>4. WorkSlots(s, t) = b..(e - 1)
    BY <1>3 DEF WorkSlots
  <1>5. DaySlots(d) = a..(a + k - 1) /\ NightSlots(m, d) = a..(a + n - 1)
    BY <1>2 DEF DaySlots, NightSlots
  <1>6. WorkSlots(s, t) \subseteq DaySlots(d)
    BY <1>3, <1>4, <1>5
  <1>7. WorkSlots(s, t) \cap NightSlots(m, d) = {}
    BY <1>3, <1>4, <1>5
  <1>8. m \in Machines
    BY ShopTypes
  <1>9. ASSUME NEW c \in Days, c # d PROVE WorkSlots(s, t) \cap DaySlots(c) = {} /\ WorkSlots(s, t) \cap NightSlots(m, c) = {}
    <2>1. c \in Nat
      BY DEF Days
    <2>2. NightSlots(m, c) \subseteq DaySlots(c)
      BY <1>8, <2>1, NightOfDay
    <2>3. WorkSlots(s, t) \cap DaySlots(c) = {}
      <3> SUFFICES ASSUME NEW x, x \in DaySlots(d), x \in DaySlots(c) PROVE FALSE
        BY <1>6
      <3>1. x \in Nat
        BY <1>5
      <3>2. x \div DayLength = d /\ x \div DayLength = c
        BY <2>1, <3>1, DayOfSlot
      <3> QED BY <1>9, <3>2
    <2> QED BY <2>2, <2>3
  <1>10. ~Closed(d)
    BY <1>2 DEF DaysFor
  <1>11. WorkSlots(s, t) \cap Breaks(m, {}) = {}
    BY <1>7, <1>9, <1>10 DEF Breaks
  <1>12. WorkSlots(s, t) \cap FirstNights(m) = {}
    <2>1. FirstWeekDays \subseteq Days
      BY DEF FirstWeekDays
    <2> QED BY <1>7, <1>9, <2>1 DEF FirstNights
  <1> QED BY <1>2, <1>6, <1>11, <1>12

\* The audit's limit on overtime nights is never negative.
LEMMA MaxNightsNatural ==
    ASSUME NEW m \in Machines
    PROVE  MaxNights(m) \in Nat
  <1>1. Night[m] \in Nat /\ OvertimeBudget[m] \in Nat
    BY ShopTypes
  <1>2. CASE Night[m] = 0
    BY <1>2 DEF MaxNights
  <1>3. CASE Night[m] # 0
    <2>1. OvertimeBudget[m] + Night[m] - 1 \in Int /\ OvertimeBudget[m] + Night[m] - 1 >= 0 /\ Night[m] \in Nat \ {0}
      BY <1>1, <1>3
    <2>2. PICK q : q = (OvertimeBudget[m] + Night[m] - 1) \div Night[m]
      OBVIOUS
    <2>3. q \in Int /\ q >= 0
      BY <2>1, <2>2, Division
    <2>4. MaxNights(m) = q
      BY <1>3, <2>2 DEF MaxNights
    <2> QED BY <2>3, <2>4
  <1> QED BY <1>2, <1>3

\* One task a day, in an order that respects routes and sublots, is a plan.
LEMMA DaysArePlan ==
    ASSUME RoomForAll, NEW on, DaysFor(on), NEW s, s = AtDayEnds(on),
           \A t, u \in Tasks : t # u => on[t] # on[u],
           \A u \in Tasks : \A t \in RankedBefore(u) : on[t] < on[u]
    PROVE  /\ s \in PhysicalSchedules
           /\ \A t, u \in Tasks : on[t] < on[u] => End(s, t) <= s[u]
  <1>1. s \in Schedules
    BY DaySchedule
  <1>2. ASSUME NEW t \in Tasks, NEW u \in Tasks, on[t] < on[u]
        PROVE  End(s, t) <= SetupStart(s, u) /\ s[t] < s[u] /\ End(s, t) <= s[u]
    <2>1. PICK i \in Nat, j \in Nat : i = on[t] /\ j = on[u]
      BY DEF DaysFor, Days
    <2>2. PICK k \in Nat, n \in Nat : k = DayLength /\ n = Night[Operation[u].machine]
      <3>1. Operation[u].machine \in Machines /\ DayLength \in Nat
        BY ShopTypes
      <3>2. Night[Operation[u].machine] \in Nat
        BY <3>1, ShopTypes
      <3> QED BY <3>1, <3>2
    <2>3. k * (i + 1) <= k * j /\ k * (i + 1) = (i + 1) * k /\ k * j = j * k
      <3>1. i + 1 <= j /\ i + 1 \in Int /\ j \in Int
        BY <1>2, <2>1
      <3> QED BY <3>1, TimesOrder
    <2>4. End(s, t) = (i + 1) * k /\ j * k + n <= SetupStart(s, u)
      BY <2>1, <2>2, DayWork
    <2>5. /\ s[t] \in Nat /\ End(s, t) \in Nat /\ s[t] < End(s, t)
          /\ SetupStart(s, u) \in Nat /\ s[u] \in Nat /\ SetupStart(s, u) <= s[u]
      BY DayWork
    <2>6. j * k \in Nat /\ (i + 1) * k \in Nat
      OBVIOUS
    <2>7. End(s, t) <= SetupStart(s, u)
      BY <2>2, <2>3, <2>4, <2>5, <2>6
    <2> QED BY <2>5, <2>7
  <1>3. \A t \in Tasks : on[t] \in Int
    BY DEF DaysFor, Days
  <1>4. Placed(s)
    <2> SUFFICES ASSUME NEW m \in Machines
                 PROVE  InSequence(s, m) /\ \A t \in On(m) : SetupBefore(s, t) \in Nat /\ SetupStart(s, t) \in Nat
      BY DEF Placed
    <2>1. \A t \in On(m) : t \in Tasks
      BY ShopTypes
    <2>2. \A t, u \in On(m) : t # u => on[t] < on[u] \/ on[u] < on[t]
      BY <1>3, <2>1
    <2>3. InSequence(s, m)
      BY <1>2, <2>1, <2>2 DEF InSequence, OneAfterOther
    <2> QED BY <2>1, <2>3, DayWork
  <1>5. RouteHolds(s)
    <2>1. ASSUME NEW t \in Tasks, NEW u \in Tasks,
                 Operation[t].lot = Operation[u].lot, Operation[t].seq < Operation[u].seq
          PROVE  s[u] >= End(s, t)
      <3>1. t \in RankedBefore(u)
        BY <2>1 DEF RankedBefore
      <3> QED BY <1>2, <3>1, DayWork
    <2>2. ASSUME NEW t \in Tasks PROVE s[t] >= Operation[t].release
      <3>1. Operation[t].release <= on[t] * DayLength + Night[Operation[t].machine]
        BY DEF DaysFor
      <3>2. PICK a \in Nat, n \in Nat, k \in Nat : \E d \in Nat :
              /\ d = on[t] /\ d \in Days /\ k = DayLength /\ a = d * k /\ (d + 1) * k = a + k
              /\ n = Night[Operation[t].machine]
        BY DayTypes
      <3>3. Operation[t].release <= a + n /\ a + n <= SetupStart(s, t)
        BY <3>1, <3>2, DayWork
      <3>4. Operation[t].release \in Nat /\ SetupStart(s, t) \in Nat /\ s[t] \in Nat /\ SetupStart(s, t) <= s[t]
        BY ShopTypes, DayWork
      <3> QED BY <3>3, <3>4
    <2> QED BY <2>1, <2>2 DEF RouteHolds
  <1>6. SublotsInOrder(s)
    <2> SUFFICES ASSUME NEW t \in Tasks, NEW u \in Tasks,
                        Operation[t].parent = Operation[u].parent, Operation[t].product = Operation[u].product,
                        Operation[t].seq = Operation[u].seq, Operation[t].sub < Operation[u].sub
                 PROVE  s[u] >= s[t]
      BY DEF SublotsInOrder
    <2>1. t \in RankedBefore(u)
      BY DEF RankedBefore
    <2>2. s[t] < s[u] /\ s[t] \in Nat /\ s[u] \in Nat
      BY <1>2, <2>1, DayWork
    <2> QED BY <2>2
  <1>7. Undisturbed(s, PlannedStops)
    <2> SUFFICES ASSUME NEW w \in PlannedStops, NEW t \in On(w.machine)
                 PROVE  WorkSlots(s, t) \cap (w.from..(w.to - 1)) = {}
      BY DEF Undisturbed
    <2>1. t \in Tasks
      BY ShopTypes
    <2>2. WorkSlots(s, t) \subseteq DaySlots(on[t])
      BY <2>1, DayCalendar
    <2>3. DaySlots(on[t]) \cap (w.from..(w.to - 1)) = {}
      BY <2>1 DEF DaysFor
    <2> QED BY <2>2, <2>3
  <1>8. ASSUME NEW m \in Machines PROVE KeepsCalendar(s, m)
    <2>1. \A t \in On(m) : t \in Tasks /\ Operation[t].machine = m
      BY DEF On
    <2>2. \A t \in On(m) : WorkSlots(s, t) \cap Breaks(m, {}) = {} /\ WorkSlots(s, t) \cap FirstNights(m) = {}
      BY <2>1, DayCalendar
    <2>3. Union(Works(s, m), On(m)) \cap FirstNights(m) = {}
      BY <2>2 DEF Union, Works
    <2>4. Cardinality({}) = 0 /\ OvertimeBudget[m] \in Nat /\ {} \in SUBSET FirstWeekDays
      BY FS_EmptySet, ShopTypes
    <2>5. MaxNights(m) \in Nat
      BY MaxNightsNatural
    <2>6. Cardinality({}) <= MaxNights(m) /\ Cardinality({}) <= OvertimeBudget[m]
      BY <2>4, <2>5
    <2> QED BY <2>2, <2>3, <2>4, <2>6 DEF KeepsCalendar
  <1>9. Sound(s)
    BY <1>4, <1>5, <1>7, <1>8 DEF Sound
  <1>10. Physical(s)
    BY <1>1, <1>6, <1>9, SoundIsPhysical
  <1> QED BY <1>1, <1>2, <1>10 DEF PhysicalSchedules

LEMMA RulesFindPlans ==
    ASSUME RoomForAll, NEW rule \in DispatchRules
    PROVE  \E s \in PhysicalSchedules : s \in RuleSchedules[rule]
  <1>1. PICK n \in Nat : n = Cardinality(Tasks)
    BY ShopTypes, FS_CardinalityType
  <1>2. PICK q : q = Ranking(rule, TaskOrder)
    OBVIOUS
  <1>3. RanksOf(q, n) /\ \A t \in Tasks : \E i \in 1..n : t = q[i]
    BY <1>1, <1>2, RanksExist
  <1>4. PICK day \in [1..n -> Days] :
        /\ \A i, j \in 1..n : i < j => day[i] < day[j]
        /\ \A i \in 1..n :
            /\ ~Closed(day[i]) /\ (day[i] + 1) * DayLength <= Horizon
            /\ \A w \in PlannedStops : DaySlots(day[i]) \cap (w.from..(w.to - 1)) = {}
            /\ \A t \in Tasks : Operation[t].release <= day[i] * DayLength + Night[Operation[t].machine]
    BY <1>1 DEF RoomForAll
  <1>5. PICK rank : rank = [t \in Tasks |-> CHOOSE i \in 1..n : t = q[i]]
    OBVIOUS
  <1>6. \A t \in Tasks : rank[t] \in 1..n /\ t = q[rank[t]]
    BY <1>3, <1>5
  <1>7. q \in [1..n -> Tasks] /\ \A i, j \in 1..n : i # j => q[i] # q[j]
    BY <1>3 DEF RanksOf
  <1>8. \A i \in 1..n : rank[q[i]] = i
    BY <1>6, <1>7
  <1>9. PICK on : on = [t \in Tasks |-> day[rank[t]]]
    OBVIOUS
  <1>10. DaysFor(on)
    <2>1. on \in [Tasks -> Days]
      BY <1>4, <1>6, <1>9
    <2>2. \A t \in Tasks : on[t] = day[rank[t]] /\ rank[t] \in 1..n
      BY <1>6, <1>9
    <2> QED BY <1>4, <2>1, <2>2 DEF DaysFor
  <1>11. \A i \in 1..n : day[i] \in Int
    BY <1>4 DEF Days
  <1>12. ASSUME NEW t \in Tasks, NEW u \in Tasks, t # u PROVE on[t] # on[u]
    <2>1. rank[t] # rank[u] /\ rank[t] \in 1..n /\ rank[u] \in 1..n
      BY <1>6, <1>12
    <2>2. rank[t] < rank[u] \/ rank[u] < rank[t]
      BY <2>1
    <2> QED BY <1>4, <1>9, <1>11, <2>1, <2>2
  <1>13. ASSUME NEW u \in Tasks, NEW t \in RankedBefore(u) PROVE on[t] < on[u]
    <2>1. t \in Tasks
      BY DEF RankedBefore
    <2>2. PICK j \in 1..(rank[u] - 1) : t = q[j]
      BY <1>3, <1>6 DEF RanksOf
    <2>3. j \in 1..n /\ j < rank[u] /\ rank[u] \in 1..n
      BY <1>6
    <2>4. rank[t] = j
      BY <1>8, <2>2, <2>3
    <2> QED BY <1>4, <1>9, <2>1, <2>3, <2>4
  <1>14. PICK s : s = AtDayEnds(on)
    OBVIOUS
  <1>15. s \in PhysicalSchedules /\ \A t, u \in Tasks : on[t] < on[u] => End(s, t) <= s[u]
    BY <1>10, <1>12, <1>13, <1>14, DaysArePlan
  <1>16. InRankOrder(s, q)
    <2> SUFFICES ASSUME NEW i \in DOMAIN q, NEW j \in DOMAIN q, i < j
                 PROVE  s[q[j]] >= s[q[i]] + Operation[q[i]].duration
      BY DEF InRankOrder
    <2>1. i \in 1..n /\ j \in 1..n /\ q[i] \in Tasks /\ q[j] \in Tasks
      BY <1>7
    <2>2. on[q[i]] = day[i] /\ on[q[j]] = day[j]
      BY <1>8, <1>9, <2>1
    <2>3. End(s, q[i]) <= s[q[j]]
      BY <1>4, <1>15, <2>1, <2>2
    <2>4. s[q[j]] \in Nat /\ End(s, q[i]) \in Nat
      BY <1>10, <1>14, <2>1, DayWork
    <2>5. s[q[j]] >= End(s, q[i])
      BY <2>3, <2>4
    <2> QED BY <2>5 DEF End
  <1>17. s \in RuleSchedules[rule]
    <2>1. RuleSchedules = [r \in DispatchRules |->
            {x : x \in {x \in PhysicalSchedules : InRankOrder(x, Ranking(r, TaskOrder))}}]
      BY TabulatedIsIt DEF RuleSchedules
    <2>2. RuleSchedules[rule] = {x : x \in {x \in PhysicalSchedules : InRankOrder(x, q)}}
      BY <1>2, <2>1
    <2> QED BY <1>15, <1>16, <2>2
  <1> QED BY <1>15, <1>17

-----------------------------------------------------------------------------
(* Until the first event nothing is committed.                             *)

FirstPlan == version \in Nat /\ (version = 0 => frozen = {} /\ windows = NoTasks /\ earliest = 0 /\ stops = {})

LEMMA FirstPlanHolds == Spec => []FirstPlan
  <1>1. Init => FirstPlan
    BY DEF Init, FirstPlan
  <1>2. FirstPlan /\ [Next]_vars => FirstPlan'
    <2> SUFFICES ASSUME FirstPlan, [Next]_vars PROVE FirstPlan'
      OBVIOUS
    <2>1. ASSUME NEW t \in Tasks, Report(t) PROVE FirstPlan'
      BY <2>1 DEF Report, FirstPlan
    <2>2. ASSUME NEW e \in Triggers, NEW s, NEW tier, NEW claim, Publish(e, s, tier, claim) PROVE FirstPlan'
      <3>1. CASE AuditAccepts(e, s)
        <4>1. version' = version + 1
          BY <2>2, <3>1 DEF Publish
        <4>2. version' \in Nat /\ version' # 0
          BY <4>1 DEF FirstPlan
        <4> QED BY <4>2 DEF FirstPlan
      <3>2. CASE ~AuditAccepts(e, s)
        BY <2>2, <3>2 DEF Publish, FirstPlan
      <3> QED BY <3>1, <3>2
    <2>3. ASSUME NEW e \in Triggers, RepairLocally(e) PROVE FirstPlan'
      BY <2>2, <2>3 DEF RepairLocally
    <2>4. ASSUME NEW e \in Triggers, Reoptimise(e) PROVE FirstPlan'
      BY <2>2, <2>4 DEF Reoptimise
    <2>5. CASE UNCHANGED vars
      BY <2>5 DEF vars, FirstPlan
    <2> QED BY <2>1, <2>3, <2>4, <2>5 DEF Next
  <1> QED BY <1>1, <1>2, PTL DEF Spec

LEMMA AnyPlanReplays ==
    ASSUME FirstPlan, version = 0, NEW s \in PhysicalSchedules
    PROVE  s \in Replays
  <1>1. /\ DOMAIN Context.positions = {} /\ DOMAIN Context.windows = {} /\ Context.earliest = 0 /\ Context.stops = {}
    BY DEF Context, FirstPlan, NoTasks
  <1>2. \A t \in Tasks : s[t] >= 0
    BY ScheduleTypes DEF PhysicalSchedules
  <1>3. Committed(s, Context)
    BY <1>1, <1>2 DEF Committed, BoundByEvent
  <1>4. Undisturbed(s, Context.stops)
    BY <1>1 DEF Undisturbed
  <1> QED BY <1>3, <1>4 DEF Replays, Allowed, Certified

\* Where there is room for all, every dispatch rule finds a replay of the
\* pipeline's plan that the benchmark accepts: its ranks contradict neither the
\* routes nor the order of transfer sublots, on whatever machines those meet
\* (dispatch_rank, production_benchmark).  With the context that every version
\* keeps, that is all of ContextHonoured.
THEOREM RulesFindReplays == ASSUME RoomForAll PROVE Spec => []ContextHonoured
  <1>1. ContextOwn /\ FirstPlan => ContextHonoured
    <2> SUFFICES ASSUME ContextOwn, FirstPlan, version = 0, NEW rule \in DispatchRules
                 PROVE  RuleSchedules[rule] \cap Replays # {}
      BY DEF ContextHonoured
    <2>1. PICK s \in PhysicalSchedules : s \in RuleSchedules[rule]
      BY RulesFindPlans
    <2>2. s \in Replays
      BY AnyPlanReplays
    <2> QED BY <2>1, <2>2
  <1> QED BY <1>1, ContextIsOwn, FirstPlanHolds, PTL
==============================================================================
