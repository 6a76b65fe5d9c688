---------------------------- MODULE ScheduleModel ----------------------------
(***************************************************************************)
(* What the constraints of run_cpsat_scheduling admit                      *)
(* (src/src/scheduling/schedule_cpsat.py), and the rows it emits for a     *)
(* solution.  The search is the library's: it may return any admitted      *)
(* schedule, and the objective is not modelled.  Intervals are sets of     *)
(* slots here; CandidateAudit states the same physics another way.         *)
(***************************************************************************)
EXTENDS ShopFloor, Functions

\* A circuit through the tasks of a machine: the sequence its arcs select.
Circuits(m) == Bijection(1..Cardinality(On(m)), On(m))

ProductBefore(m, circuit, i) ==
    IF i = 1 THEN InitialProduct[m] ELSE Operation[circuit[i - 1]].product
SelectedSetup(m, circuit, i) ==
    SetupTime(m, ProductBefore(m, circuit, i), Operation[circuit[i]].product)

\* The arcs: a setup ends as its task begins (just in time), and starts at or
\* after the end of the task before, or the start of the horizon.
ArcsHold(s, m, circuit) ==
    \A i \in DOMAIN circuit :
        s[circuit[i]] - SelectedSetup(m, circuit, i)
            >= IF i = 1 THEN 0 ELSE End(s, circuit[i - 1])

\* Work intervals of a machine: processing and setups.
Busy(s, m, circuit) ==
    UNION {(s[circuit[i]] - SelectedSetup(m, circuit, i))..(End(s, circuit[i]) - 1) :
                i \in DOMAIN circuit}

FirstWeekDays == {d \in Days : FirstWeek(d) /\ ~Closed(d)}

\* Calendar breaks, when the nights of the days in "open" are opened.
Breaks(m, open) ==
    (UNION {DaySlots(d) : d \in {d \in Days : Closed(d)}})
        \cup (UNION {NightSlots(m, d) : d \in {d \in Days : ~Closed(d)} \ open})

\* Week 1 may open as many nights as the budget covers, later weeks none, and
\* the minutes worked in them, processing and setup, stay within the budget.
\* (Mutant: the budget counts processing only.)
ProcessingOnly(s, m, circuit) == UNION {s[t]..(End(s, t) - 1) : t \in On(m)}
Charged(s, m, circuit) == Busy(s, m, circuit)
CalendarHolds(s, m, circuit) ==
    /\ \E open \in SUBSET FirstWeekDays :
        /\ Cardinality(open) <= MaxNights(m)
        /\ Busy(s, m, circuit) \cap Breaks(m, open) = {}
    /\ LET nights == UNION {NightSlots(m, d) : d \in FirstWeekDays} IN
       Cardinality(Charged(s, m, circuit) \cap nights) <= OvertimeBudget[m]

\* Route precedence within a lot, and first operations after material release.
RouteHolds(s) ==
    /\ \A t, u \in Tasks :
        Operation[t].lot = Operation[u].lot /\ Operation[t].seq < Operation[u].seq
            => s[u] >= End(s, t)
    /\ \A t \in Tasks :
        (\A u \in LotOf(Operation[t].lot) : Operation[t].seq <= Operation[u].seq)
            => s[t] >= Operation[t].release

\* Transfer sublots of one parent order start in their order.
SublotsInOrder(s) ==
    \A t, u \in Tasks :
        /\ Operation[t].parent = Operation[u].parent
        /\ Operation[t].product = Operation[u].product
        /\ Operation[t].seq = Operation[u].seq
        /\ Operation[t].sub < Operation[u].sub
        => s[u] >= s[t]

-----------------------------------------------------------------------------
(* The rows emitted for a solution.                                        *)

\* The product the machine is set up for when t begins: the rows of a machine
\* are sorted by start.
LastProduct(s, t) ==
    LET m == Operation[t].machine
        before == {u \in On(m) : s[u] < s[t]}
    IN  IF before = {} THEN InitialProduct[m]
        ELSE Operation[CHOOSE u \in before : \A v \in before : s[v] <= s[u]].product
SetupBefore(s, t) ==
    SetupTime(Operation[t].machine, LastProduct(s, t), Operation[t].product)
SetupStart(s, t) == s[t] - SetupBefore(s, t)

\* Overtime is the part of setup and processing before the shift's start of
\* its day, booked to the week it falls in (task_weekly_accounting).
NightPart(m, x) == x % DayLength < Night[m]
OvertimeIn(s, t, firstWeek) ==
    Cardinality({x \in SetupStart(s, t)..(End(s, t) - 1) :
                    /\ NightPart(Operation[t].machine, x)
                    /\ FirstWeek(x \div DayLength) = firstWeek})

\* Planned and event stops block processing and setup, closures or not.
WorkSlots(s, t) == SetupStart(s, t)..(End(s, t) - 1)
Undisturbed(s, stopped) ==
    \A w \in stopped : \A t \in On(w.machine) : WorkSlots(s, t) \cap (w.from..(w.to - 1)) = {}

\* Everything that does not depend on the event being handled.
Physical(s) ==
    /\ Undisturbed(s, PlannedStops)
    /\ RouteHolds(s)
    /\ SublotsInOrder(s)
    /\ \A m \in Machines : \E circuit \in Circuits(m) :
        /\ ArcsHold(s, m, circuit)
        /\ CalendarHolds(s, m, circuit)
\* An image of itself, which TLC enumerates once and keeps.
PhysicalSchedules == {s : s \in {s \in Schedules : Physical(s)}}

-----------------------------------------------------------------------------
(* What one call of the solver is asked for (solve_args): the frozen       *)
(* positions and their setups, the flexible windows, the earliest start    *)
(* of the others and the extra stops.                                      *)

\* (Mutant: the earliest start binds frozen tasks too.)
BoundByEventAll(job) == Tasks
BoundByEvent(job) == Tasks \ DOMAIN job.positions

Committed(s, job) ==
    /\ \A t \in DOMAIN job.positions :
        s[t] = job.positions[t] /\ SetupBefore(s, t) = job.setups[t]
    /\ \A t \in DOMAIN job.windows :
        s[t] \in job.windows[t].lower..job.windows[t].upper
    /\ \A t \in BoundByEvent(job) : s[t] >= job.earliest

\* The schedules the call may return: none if it is infeasible.
Certified(s, job) ==
    s \in PhysicalSchedules /\ Committed(s, job) /\ Undisturbed(s, job.stops)
==============================================================================
