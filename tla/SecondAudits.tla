----------------------------- MODULE SecondAudits -----------------------------
(***************************************************************************)
(* The two other readers of a finished schedule.  The audit of hot-order   *)
(* candidates (src/src/scheduling/hot_order_schedule_audit.py) restates    *)
(* the physics once more: it charges setup and task apart, and walks each  *)
(* machine from its initial state.  The audit of benchmark replays         *)
(* (audit_reference_benchmark_candidate) shares the physics of the         *)
(* reschedule audit, but takes its commitments from the stored context of  *)
(* a version instead of from an event.                                     *)
(***************************************************************************)
EXTENDS CandidateAudit, SequencesExt

\* audit_hot_order_schedule: each row, and each lot's steps in route order.
HotRowsValid(new) ==
    \A t \in Tasks :
        /\ new[t].start >= 0 /\ new[t].start >= Operation[t].release
        /\ new[t].end = new[t].start + Operation[t].duration
        /\ new[t].setup >= 0 /\ new[t].setupStart = new[t].start - new[t].setup
\* sorted: the rows of each lot in the order of its route, which is refused if
\* two have one place in it.
StepsOf == Tabulated([l \in {Operation[t].lot : t \in Tasks} |->
    {steps \in SetToSeqs(LotOf(l)) :
        \A i, j \in DOMAIN steps : i < j => Operation[steps[i]].seq < Operation[steps[j]].seq}])
StepsInOrder(new, l) ==
    \E steps \in StepsOf[l] :
        \A i \in 1..(Len(steps) - 1) : new[steps[i + 1]].start >= new[steps[i]].end

\* One pass over a machine's rows in the order of their starts: the setup from
\* the product before, nothing before the end of the row before.  Rows starting
\* together are refused in either order: an operation takes time.
RowsOf == Tabulated([m \in Machines |-> SetToSeqs(On(m))])
WalkPasses(new, m, order) ==
    \A i \in DOMAIN order :
        LET before == IF i = 1 THEN [product |-> InitialProduct[m], end |-> 0]
                      ELSE [product |-> Operation[order[i - 1]].product, end |-> new[order[i - 1]].end]
        IN  /\ new[order[i]].setup = SetupTime(m, before.product, Operation[order[i]].product)
            /\ new[order[i]].setupStart >= before.end
WalkValid(new, m) ==
    \E order \in RowsOf[m] :
        /\ \A i, j \in DOMAIN order : i < j => new[order[i]].start <= new[order[j]].start
        /\ WalkPasses(new, m, order)

\* _audit_calendar: the setup and the task of a row, where they take time.
Pieces(row) ==
    {p \in {[from |-> row.setupStart, to |-> row.start], [from |-> row.start, to |-> row.end]} :
        0 <= p.from /\ p.from < p.to}
Common(p, from, to) == Max({0, Min({p.to, to}) - Max({p.from, from})})
AtNight(p, m, day) == Common(p, day * DayLength, day * DayLength + Night[m])

HotCalendarValid(new, m) ==
    LET pieces == UNION {Pieces(new[t]) : t \in On(m)}
        nights == {d \in Days : \E p \in pieces : AtNight(p, m, d) > 0}
        used == SumFunction([p \in pieces |-> SumFunction([d \in nights |-> AtNight(p, m, d)])])
    IN  /\ \A p \in pieces :
            /\ \A w \in {w \in PlannedStops : w.machine = m} : Common(p, w.from, w.to) = 0
            /\ \A d \in Days : Closed(d) => Common(p, d * DayLength, (d + 1) * DayLength) = 0
        /\ \A d \in nights : FirstWeek(d)
        /\ used <= OvertimeBudget[m]
        /\ Cardinality(nights) <= MaxNights(m)

HotPhysicsValid(new) ==
    /\ HotRowsValid(new)
    /\ \A l \in DOMAIN StepsOf : StepsInOrder(new, l)
    /\ \A m \in Machines : WalkValid(new, m) /\ HotCalendarValid(new, m)

-----------------------------------------------------------------------------
\* audit_reference_benchmark_candidate: what a replay of the version with rows
\* "old" owes its context [positions, windows, earliest].
ContextKept(new, context) ==
    /\ \A t \in DOMAIN context.positions : new[t].start = context.positions[t]
    /\ \A t \in Tasks \ DOMAIN context.positions : new[t].start >= context.earliest
    /\ \A t \in DOMAIN context.windows :
        WithinShift(new, t, context.windows[t].lower, context.windows[t].upper)

-----------------------------------------------------------------------------
(* dispatch_rank (src/src/scheduling/dispatch.py): the machine sequences   *)
(* of a dispatch rule, which the solver then only places.                  *)

DispatchRules == {"FIFO", "EDD", "SPT", "Greedy"}

\* The step before in the lot's route, and the transfer sublot before.
RankedBefore(t) ==
    {u \in Tasks :
        \/ Operation[u].lot = Operation[t].lot /\ Operation[u].seq < Operation[t].seq
        \/ /\ Operation[u].parent = Operation[t].parent
           /\ Operation[u].product = Operation[t].product
           /\ Operation[u].seq = Operation[t].seq
           /\ Operation[u].sub < Operation[t].sub}

\* The estimate behind the ranks: no setups, no calendar.
EstimatedStart(ends, t) ==
    Max({0, Operation[t].release}
            \cup {ends[u] : u \in DOMAIN ends \cap (On(Operation[t].machine) \cup RankedBefore(t))})
DispatchKey(rule, ends, t) ==
    CASE rule = "FIFO" -> Operation[t].release
      [] rule = "EDD" -> Operation[t].due
      [] rule = "SPT" -> Operation[t].duration
      [] rule = "Greedy" -> EstimatedStart(ends, t) + Operation[t].duration

\* The ready task of the least key is ranked next; "rows" is the tasks in the
\* order of their rows, which decides between equal keys.
NextRanked(rule, rows, ends) ==
    LET ready == {t \in Tasks \ DOMAIN ends : RankedBefore(t) \subseteq DOMAIN ends}
        least == {t \in ready : \A u \in ready : DispatchKey(rule, ends, t) <= DispatchKey(rule, ends, u)}
    IN  rows[Min({i \in DOMAIN rows : rows[i] \in least})]
NoneRanked == [ends |-> [t \in {} |-> 0], ranked |-> <<>>]
RankNext(rule, rows, done) ==
    LET t == NextRanked(rule, rows, done.ends)
    IN  [ends |-> [u \in DOMAIN done.ends \cup {t} |->
                    IF u = t THEN EstimatedStart(done.ends, t) + Operation[t].duration
                    ELSE done.ends[u]],
         ranked |-> Append(done.ranked, t)]
Ranking(rule, rows) ==
    LET done[k \in 0..Len(rows)] ==
            IF k = 0 THEN NoneRanked ELSE RankNext(rule, rows, done[k - 1])
    IN  done[Len(rows)].ranked

\* run_cpsat_scheduling with a dispatch rule: every machine works its tasks in
\* the order of their ranks.
InRankOrder(s, ranked) ==
    \A i, j \in DOMAIN ranked :
        i < j /\ Operation[ranked[i]].machine = Operation[ranked[j]].machine
            => s[ranked[j]] >= s[ranked[i]] + Operation[ranked[i]].duration
==============================================================================
