---------------------------- MODULE CandidateAudit ----------------------------
(***************************************************************************)
(* audit_reschedule_candidate: the second opinion on a candidate before it *)
(* is published (src/src/scheduling/reschedule_candidate_audit.py).  It    *)
(* shares no code with the solver's model: it compares the rows with the   *)
(* baseline's and recomputes intervals, setups and the calendar from the   *)
(* source tables.  Rows carry [start, end, setup, setupStart, state,       *)
(* freezeUntil].  The comparisons of a row's identity, quantity, route     *)
(* and material fields with their tables are about data the scheduler      *)
(* only copies, and are left out.                                          *)
(***************************************************************************)
EXTENDS ShopFloor, Functions

Cutoff(trigger) == trigger.now + trigger.freeze
FlexibleLimit(trigger) == Cutoff(trigger) + trigger.flexible

\* is_frozen.  "done" are the tasks MES reports started or completed, "old"
\* the baseline's rows; "begun" is enforce_started_at_current_time.
CommittedRow(row, t, done) == t \in done \/ row.state = "FROZEN"
HeldRow(row, t, done, trigger, begun) ==
    \/ row.start < Cutoff(trigger)
    \/ begun /\ row.start <= trigger.now
    \/ CommittedRow(row, t, done)

FrozenKept(old, new, t, trigger) ==
    /\ new[t].start = old[t].start /\ new[t].end = old[t].end
    /\ new[t].state = "FROZEN"
    /\ new[t].freezeUntil = Cutoff(trigger)

WithinShift(new, t, low, high) == low <= new[t].start /\ new[t].start <= high
FlexibleKept(old, new, t, trigger) ==
    LET lowest == IF trigger.now > old[t].start - trigger.shift
                    THEN trigger.now ELSE old[t].start - trigger.shift
    IN  /\ WithinShift(new, t, lowest, old[t].start + trigger.shift)
        /\ new[t].state = "FLEXIBLE"

CommitmentsKept(old, new, done, trigger, begun) ==
    \A t \in Tasks :
        /\ new[t].end - new[t].start = old[t].end - old[t].start
        /\ IF HeldRow(old[t], t, done, trigger, begun) THEN FrozenKept(old, new, t, trigger)
           ELSE old[t].start < FlexibleLimit(trigger) => FlexibleKept(old, new, t, trigger)

-----------------------------------------------------------------------------
\* _audit_core_intervals: each row in itself, machine occupancy from setup to
\* end, and the lots' routes.
TimingValid(new) ==
    \A t \in Tasks :
        /\ new[t].start >= 0 /\ new[t].start >= Operation[t].release
        /\ new[t].end - new[t].start = Operation[t].duration
        /\ new[t].setup >= 0 /\ new[t].setupStart >= 0
        /\ new[t].start - new[t].setupStart = new[t].setup

\* sorted(operations): by occupied start, then end; the end to pass is the
\* latest of those before.
OccupiesEarlier(a, b) ==
    \/ a.setupStart < b.setupStart
    \/ a.setupStart = b.setupStart /\ a.end < b.end
OccupancyValid(new) ==
    \A t, u \in Tasks :
        /\ t # u /\ Operation[t].machine = Operation[u].machine
        /\ ~OccupiesEarlier(new[u], new[t])
        => new[u].setupStart >= new[t].end

\* (Mutant: only the operations' order of starting is compared.)
StartsAfter(new, u, t) == new[u].start >= new[t].start
Follows(new, u, t) == new[u].start >= new[t].end
RoutesValid(new) ==
    \A t, u \in Tasks :
        Operation[t].lot = Operation[u].lot /\ Operation[t].seq < Operation[u].seq
            => Follows(new, u, t)

\* _audit_setup_transitions: every setup recomputed in the order of starts.
SetupsValid(new) ==
    \A t \in Tasks :
        LET m == Operation[t].machine
            earlier == {u \in On(m) : new[u].start < new[t].start}
            previous == IF earlier = {} THEN InitialProduct[m]
                        ELSE Operation[CHOOSE u \in earlier :
                                         \A v \in earlier : new[v].start <= new[u].start].product
        IN  new[t].setup = SetupTime(m, previous, Operation[t].product)

\* _audit_calendar_occupancy: minutes of [from, to) a row occupies.
Overlap(row, from, to) ==
    LET left == Max({row.setupStart, from})
        right == Min({row.end, to})
    IN  IF right > left THEN right - left ELSE 0
InDay(row, day) == Overlap(row, day * DayLength, (day + 1) * DayLength)
InNight(row, m, day) == Overlap(row, day * DayLength, day * DayLength + Night[m])

CalendarValid(new) ==
    \A m \in Machines :
        LET worked == {d \in Days : \E t \in On(m) : InNight(new[t], m, d) > 0}
            used == SumFunction([t \in On(m) |-> SumFunction([d \in Days |-> InNight(new[t], m, d)])])
        IN  /\ \A d \in Days : Closed(d) => \A t \in On(m) : InDay(new[t], d) = 0
            /\ \A d \in worked : FirstWeek(d)
            /\ used <= OvertimeBudget[m]
            /\ Cardinality(worked) <= MaxNights(m)

\* _audit_maintenance_intervals, over planned stops and event overrides.
StopsValid(new, overrides) ==
    \A w \in PlannedStops \cup overrides : \A t \in On(w.machine) :
        ~(new[t].setupStart < w.to /\ w.from < new[t].end)

\* The part of the audit that looks at the candidate alone.
PhysicsValid(new) ==
    /\ TimingValid(new)
    /\ OccupancyValid(new)
    /\ RoutesValid(new)
    /\ SetupsValid(new)
    /\ CalendarValid(new)
==============================================================================
