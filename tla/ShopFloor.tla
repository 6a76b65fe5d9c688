------------------------------ MODULE ShopFloor ------------------------------
(***************************************************************************)
(* The data every scheduling module of src/src/scheduling works on: the    *)
(* operations of a schedule, the changeover matrix, the machines' shifts   *)
(* and their overtime authority.  Times are slots; a slot stands for a     *)
(* minute, and a day has as many of them as the configuration says.        *)
(***************************************************************************)
EXTENDS Integers, FiniteSets, FiniteSetsExt

CONSTANTS
    Tasks,
    Operation,       \* task -> its columns of production_schedule, see below
    Machines,
    Changeover,      \* <<machine, from, to>> -> setup time, after the ALL rule
    InitialProduct,  \* machine_state: machine -> the product it is set up for
    DayLength,       \* slots of a day
    WeekLength,      \* days of a week, the last of which is closed
    Night,           \* machine -> slots before its regular shift begins
    OvertimeBudget,  \* machine -> authorised overtime slots of the first week
    PlannedStops,    \* machine_maintenance: windows [machine, from, to]
    Horizon          \* bound: schedules end here

\* There is something to schedule; a lot's operations wait for one release and
\* have a place each in its route.
ASSUME ShopFloorAssumption ==
    /\ IsFiniteSet(Tasks) /\ Tasks # {} /\ IsFiniteSet(Machines)
    /\ \A t \in Tasks : /\ Operation[t].machine \in Machines /\ Operation[t].duration \in Nat \ {0}
                        /\ Operation[t].release \in Nat
                        /\ Operation[t].seq \in Int /\ Operation[t].sub \in Int
    /\ \A t, u \in Tasks :
        Operation[t].lot = Operation[u].lot =>
            /\ Operation[t].release = Operation[u].release
            /\ Operation[t].seq = Operation[u].seq => t = u
    /\ \A m \in Machines : \A p, q \in {InitialProduct[m]} \cup {Operation[t].product : t \in Tasks} :
        Changeover[m, p, q] \in Nat
    /\ DayLength \in Nat \ {0} /\ WeekLength \in Nat \ {0, 1} /\ Horizon \in Nat
    /\ \A m \in Machines : Night[m] \in 0..(DayLength - 1) /\ OvertimeBudget[m] \in Nat
    /\ \A w \in PlannedStops : w.machine \in Machines /\ w.from \in Nat /\ w.to \in Nat /\ w.from < w.to

\* The function f itself: comparing it makes TLC compute each value only once.
Tabulated(f) == CHOOSE g \in {f} : g = f

On(m) == {t \in Tasks : Operation[t].machine = m}
LotOf(l) == {t \in Tasks : Operation[t].lot = l}
SetupTime(m, before, after) == Changeover[m, before, after]

\* A schedule: where every operation starts.
Schedules == {s \in [Tasks -> 0..Horizon] :
                \A t \in Tasks : s[t] + Operation[t].duration <= Horizon}
End(s, t) == s[t] + Operation[t].duration

-----------------------------------------------------------------------------
\* The calendar: day 0 is the first working day, the last of a week is closed.
Days == 0..(Horizon \div DayLength)
Closed(day) == day % WeekLength = WeekLength - 1
FirstWeek(day) == day \div WeekLength = 0
NightSlots(m, day) == (day * DayLength)..(day * DayLength + Night[m] - 1)
DaySlots(day) == (day * DayLength)..(day * DayLength + DayLength - 1)

\* Nights that may be opened: ceil(budget / night).
MaxNights(m) ==
    IF Night[m] = 0 THEN 0 ELSE (OvertimeBudget[m] + Night[m] - 1) \div Night[m]
==============================================================================
