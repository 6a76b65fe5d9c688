----------------------------- MODULE Rescheduling -----------------------------
(***************************************************************************)
(* A chain of reschedules: what DynamicRescheduler._execute_reschedule     *)
(* (src/src/scheduling/rescheduler.py) asks of the solver, the local       *)
(* repair it tries first (dispatch.py), the audit of the result, and the   *)
(* context the new version leaves to the next one (model_context.py).      *)
(* Publication, with its crashes and locks, is RunPublication's: here a    *)
(* reschedule is one step.  A call that fails changes nothing.             *)
(***************************************************************************)
EXTENDS SolverStages, ValidationGate, SecondAudits, TLC

CONSTANTS
    Triggers,     \* events: [now, freeze, flexible, shift, machine, delay]
    MaxVersions,  \* bound: versions published after the first
    MaxReports,   \* bound: tasks reported started
    FirstCalls,   \* how the first plan may be asked for: {<<policy, hierarchical>>}
    TaskOrder     \* the tasks in the order of their numbers

ASSUME ReschedulingAssumption ==
    /\ MaxVersions \in Nat /\ MaxReports \in Nat
    /\ TaskOrder \in Seq(Tasks) /\ Range(TaskOrder) = Tasks /\ IsInjective(TaskOrder)
    /\ \A e \in Triggers :
        /\ e.now \in Nat /\ e.freeze \in Nat /\ e.flexible \in Nat
        /\ e.shift \in Nat /\ e.delay \in Nat

VARIABLES
    start,      \* start_min of the ACTIVE schedule's rows
    frozen,     \* its rows with schedule_state = FROZEN
    reported,   \* tasks mes_order_tracking has IN_PROGRESS or COMPLETED
    stops,      \* maintenance_overrides of the version's model context
    earliest,   \* earliest_start_min of the version's model context
    windows,    \* flexible_windows of the version's model context
    version,
    outcome,    \* how the last call ended
    proof,      \* the call whose optimum the version's metadata claims it is
    declared    \* history: every stop an event asked for

vars == <<start, frozen, reported, stops, earliest, windows, version, outcome, proof, declared>>

Tiers == {"VALIDATED_LOCAL_REPAIR", "CPSAT_REOPTIMIZATION"}

NoTasks == [t \in {} |-> 0]

\* The metadata says FEASIBLE, or OPTIMAL of the call.  "sequence" is what a
\* dispatch rule chains on each machine; without a rule nothing is.
NoProof == [policy |-> "NONE"]
FreeSequence == [m \in Machines |-> <<>>]
Call(policy, hierarchical, job, sequence) ==
    [policy |-> policy, hierarchical |-> hierarchical, job |-> job, sequence |-> sequence]
Claimed(status, call) == IF status = "OPTIMAL" THEN call ELSE NoProof
Allowed(job) == {s \in PhysicalSchedules : Certified(s, job)}
Sequenced(S, sequence) == {s \in S : \A m \in Machines : InRankOrder(s, sequence[m])}

\* The pipeline's call: nothing is committed yet.
FreeJob == [positions |-> NoTasks, windows |-> NoTasks, setups |-> NoTasks, earliest |-> 0, stops |-> {}]
FirstAnswers ==
    UNION {{<<r.schedule, Claimed(r.status, Call(c[1], c[2], FreeJob, FreeSequence))>> :
                r \in Answers(c[1], c[2], Allowed(FreeJob))} : c \in FirstCalls}

\* The first plan comes from the pipeline.
Init ==
    /\ \E answer \in FirstAnswers : start = answer[1] /\ proof = answer[2]
    /\ frozen = {} /\ reported = {}
    /\ stops = {} /\ declared = {}
    /\ earliest = 0 /\ windows = NoTasks /\ version = 0
    /\ outcome = "PLANNED"

\* MES reports that a task has started: any of them, early or late.
Report(t) ==
    /\ t \notin reported /\ Cardinality(reported) < MaxReports
    /\ reported' = reported \cup {t}
    /\ UNCHANGED <<start, frozen, stops, earliest, windows, version, outcome, proof, declared>>

-----------------------------------------------------------------------------
(* What the event makes of the ACTIVE schedule.                            *)

\* _build_frozen_positions.
FrozenBy(e) ==
    {t \in Tasks : start[t] < e.now + e.freeze \/ start[t] <= e.now}
        \cup reported \cup frozen
FrozenPositions(e) == [t \in FrozenBy(e) |-> start[t]]

FlexibleWindows(e) ==
    [t \in {t \in Tasks \ FrozenBy(e) : start[t] < e.now + e.freeze + e.flexible} |->
        [lower |-> Max({e.now, start[t] - e.shift}), upper |-> start[t] + e.shift]]

\* The delay is queued after the machine's committed work.
\* (Mutant: every event is taken to have one.)
AlwaysDelayed(e) == TRUE
Delayed(e) == e.delay > 0
OutageFrom(e) == Max({e.now} \cup {End(start, t) : t \in FrozenBy(e) \cap On(e.machine)})
Outage(e) ==
    IF Delayed(e)
    THEN {[machine |-> e.machine, from |-> OutageFrom(e), to |-> OutageFrom(e) + e.delay]}
    ELSE {}

\* Earlier versions' outages still hold.
\* (Mutant: the context of the baseline is not loaded.)
NotInherited == {}
Inherited == stops
OutageWindows(e) == Inherited \cup Outage(e)

\* solve_args, with the positions to keep.
Job(e, positions) ==
    [positions |-> positions, windows |-> FlexibleWindows(e), earliest |-> e.now,
     setups |-> [t \in Tasks |-> SetupBefore(start, t)],
     stops |-> OutageWindows(e)]

-----------------------------------------------------------------------------
(* local_repair_candidate: keep each machine's order, move only what must. *)

MachineBefore(t) == {u \in On(Operation[t].machine) : start[u] < start[t]}
LotBefore(t) == {u \in LotOf(Operation[t].lot) : Operation[u].seq < Operation[t].seq}
LatestEnd(placed, S) == Max({0} \cup {End(placed, u) : u \in S})

\* A start the calendar search can stop at: setup and task within one regular
\* shift of an open day, clear of every stop.  Its jumps skip no such start.
\* (Mutant: the setup is not part of the block.)
BlockWithoutSetup(x, setup) == x
BlockStart(x, setup) == x - setup
FitsShift(t, x, setup, stopped) ==
    LET m == Operation[t].machine
        block == BlockStart(x, setup)
        day == block \div DayLength
        done == x + Operation[t].duration
    IN  /\ ~Closed(day)
        /\ block >= day * DayLength + Night[m]
        /\ done <= (day + 1) * DayLength
        /\ \A w \in {w \in stopped : w.machine = m} : ~(block < w.to /\ done > w.from)

\* Where the repair puts t after "placed": the positions it may take, at most
\* one, none where the code raises.  Starts past the horizon are left to the
\* solver to refuse.
RepairStarts(e, placed, t) ==
    LET setup == SetupBefore(start, t)
        available == LatestEnd(placed, MachineBefore(t))
        previous == LatestEnd(placed, MachineBefore(t) \cup LotBefore(t))
        flexible == FlexibleWindows(e)
        stopped == PlannedStops \cup OutageWindows(e)
        from == Max({e.now, Operation[t].release, previous, available + setup}
                      \cup {flexible[u].lower : u \in {t} \cap DOMAIN flexible})
        fitting == {x \in from..Horizon : FitsShift(t, x, setup, stopped)}
    IN  IF t \in FrozenBy(e)
        THEN {x \in {start[t]} : x >= previous /\ x - setup >= available}
        ELSE {x \in fitting : /\ \A y \in fitting : x <= y
                              /\ t \in DOMAIN flexible => x <= flexible[t].upper}

\* The ready task with the earliest old start is placed next.
PlaceNext(e, placed) ==
    LET ready == {t \in Tasks \ DOMAIN placed :
                    MachineBefore(t) \cup LotBefore(t) \subseteq DOMAIN placed}
        next == CHOOSE t \in ready : \A u \in ready : start[t] <= start[u]
        starts == RepairStarts(e, placed, next)
    IN  IF ready = {} \/ starts = {} THEN placed
        ELSE [t \in DOMAIN placed \cup {next} |->
                IF t = next THEN CHOOSE x \in starts : TRUE ELSE placed[t]]

\* The candidate, defined on all tasks unless the repair gave up.
LocalRepair(e) ==
    LET placed[k \in 0..Cardinality(Tasks)] ==
            IF k = 0 THEN NoTasks ELSE PlaceNext(e, placed[k - 1])
    IN  placed[Cardinality(Tasks)]

\* Without a delay the baseline itself is the candidate.
RepairCandidates(e) ==
    IF ~Delayed(e) THEN {start} ELSE {s \in {LocalRepair(e)} : DOMAIN s = Tasks}

\* A candidate is published if the exact model certifies all its positions.
CertifiedRepairs(e) == {s \in RepairCandidates(e) : Certified(s, Job(e, s))}

\* The certificate fixes every position, so its own status says nothing about
\* the plan, and the metadata of a repair claims no optimum.
\* (Mutant: the certificate's status is published.)
CertificateStatus(e) == Call("BALANCED", FALSE, Job(e, FrozenPositions(e)), FreeSequence)
RepairProof(e) == NoProof

\* Full reoptimisation: also when the certificate timed out.
FullJob(e) == Job(e, FrozenPositions(e))

\* Where no local repair is allowed, experimental_dispatch_rule may be asked for:
\* it ranks the baseline's rows, which the query orders by their start only.
\* One table of what the rules chain, for every order of the rows.
ChainedOn(m, ranked) == SelectSeq(ranked, LAMBDA t : t \in On(m))
RowOrders == SetToSeqs(Tasks)
RuleSequences ==
    Tabulated([q \in RowOrders |->
        {[m \in Machines |-> ChainedOn(m, Ranking(rule, q))] : rule \in DispatchRules}])
BaselineOrders ==
    {q \in RowOrders : \A i \in 2..Len(q) : start[q[i - 1]] <= start[q[i]]}
Sequences == {FreeSequence} \cup UNION {RuleSequences[q] : q \in BaselineOrders}

\* What the solver may answer, with what the metadata claims of it.
NewAnswers(e) ==
    LET job == FullJob(e)
        all == Allowed(job)
    IN  UNION {{<<r.schedule, Claimed(r.status, Call("BALANCED", FALSE, job, q))>> :
                    r \in Answers("BALANCED", FALSE, Sequenced(all, q))} : q \in Sequences}

-----------------------------------------------------------------------------
(* The candidate's rows, its audit and its publication.                    *)

StateOf(e, t) ==
    IF t \in FrozenBy(e) THEN "FROZEN"
    ELSE IF t \in DOMAIN FlexibleWindows(e) THEN "FLEXIBLE" ELSE "FREE"
PhysicalRow(s, t) ==
    [start |-> s[t], end |-> End(s, t),
     setup |-> SetupBefore(s, t), setupStart |-> SetupStart(s, t)]
PhysicalRows(s) == Tabulated([t \in Tasks |-> PhysicalRow(s, t)])
\* With the columns for the commitments.
FullRow(s, t, state, until) ==
    [start |-> s[t], end |-> End(s, t),
     setup |-> SetupBefore(s, t), setupStart |-> SetupStart(s, t),
     state |-> state, freezeUntil |-> until]
Rows(e, s) ==
    Tabulated([t \in Tasks |->
        FullRow(s, t, StateOf(e, t), IF t \in FrozenBy(e) THEN e.now + e.freeze ELSE 0)])
RowsBefore(s, held) ==
    Tabulated([t \in Tasks |-> [start |-> s[t], end |-> End(s, t),
                              state |-> IF t \in held THEN "FROZEN" ELSE "OTHER"]])
BaselineRows == RowsBefore(start, frozen)

\* Every schedule with its rows, and those whose rows the audit of the
\* candidate alone finds in order; the audit of hot-order candidates likewise.
AllRows == {[schedule |-> s, rows |-> PhysicalRows(s)] : s \in Schedules}
AuditedSchedules == {r.schedule : r \in {r \in AllRows : PhysicsValid(r.rows)}}
HotAuditedSchedules == {r.schedule : r \in {r \in AllRows : HotPhysicsValid(r.rows)}}

AuditAccepts(e, s) ==
    /\ s \in AuditedSchedules
    /\ LET rows == Rows(e, s) IN
       /\ CommitmentsKept(BaselineRows, rows, reported, e, TRUE)
       /\ StopsValid(rows, OutageWindows(e))

Publish(e, s, tier, claim) ==
    IF AuditAccepts(e, s)
    THEN /\ start' = s
         /\ frozen' = FrozenBy(e)
         /\ stops' = OutageWindows(e)
         /\ earliest' = e.now
         /\ windows' = FlexibleWindows(e)
         /\ version' = version + 1
         /\ outcome' = tier
         /\ proof' = claim
         /\ declared' = declared \cup Outage(e)
         /\ UNCHANGED reported
    ELSE /\ outcome' = "AUDIT_REJECTED"
         /\ UNCHANGED <<start, frozen, reported, stops, earliest, windows, version, proof, declared>>

RepairLocally(e) ==
    /\ version < MaxVersions
    /\ \E s \in CertifiedRepairs(e) : Publish(e, s, "VALIDATED_LOCAL_REPAIR", RepairProof(e))
Reoptimise(e) ==
    /\ version < MaxVersions
    /\ \E answer \in NewAnswers(e) :
        Publish(e, answer[1], "CPSAT_REOPTIMIZATION", answer[2])

-----------------------------------------------------------------------------
(* production_benchmark: the version solved again under its stored context,*)
(* in a copy; a dispatch rule fixes the sequence on every machine.         *)

Context ==
    [positions |-> [t \in frozen |-> start[t]], windows |-> windows, earliest |-> earliest,
     setups |-> [t \in Tasks |-> SetupBefore(start, t)], stops |-> stops]
Replays == Allowed(Context)
\* One table per rule: the ranks do not depend on the version.
RuleSchedules ==
    Tabulated([rule \in DispatchRules |->
        {s : s \in {s \in PhysicalSchedules : InRankOrder(s, Ranking(rule, TaskOrder))}}])
BenchmarkAccepts(s) ==
    /\ s \in AuditedSchedules
    /\ LET rows == PhysicalRows(s) IN ContextKept(rows, Context) /\ StopsValid(rows, stops)

-----------------------------------------------------------------------------
(* simulate_breakdown: baseline and scenario are both solved from nothing, *)
(* in a copy, and the reschedule audit is asked without any commitment.    *)

NoCommitment == [now |-> 0, freeze |-> 0, flexible |-> 0, shift |-> 0]
Breakdowns == {[machine |-> e.machine, from |-> e.now, to |-> e.now + e.delay] :
                    e \in {e \in Triggers : Delayed(e)}}
\* The two solutions' rows.
ScenarioRows(s) ==
    Tabulated([t \in Tasks |-> FullRow(s, t, "FREE", 0)])
\* What starts at time zero is not taken to have started.
CountsAsBegun == FALSE
BaselineSolutions == {RowsBefore(s, {}) : s \in Allowed(FreeJob)}
BreakdownAccepted(w) ==
    \A s \in Allowed([FreeJob EXCEPT !.stops = {w}]) :
        LET rows == ScenarioRows(s) IN
        /\ s \in AuditedSchedules /\ StopsValid(rows, {w})
        /\ \A base \in BaselineSolutions :
            CommitmentsKept(base, rows, {}, NoCommitment, CountsAsBegun)
AcceptedBreakdowns == {w : w \in {w \in Breakdowns : BreakdownAccepted(w)}}

-----------------------------------------------------------------------------
Next ==
    \/ \E t \in Tasks : Report(t)
    \/ \E e \in Triggers : RepairLocally(e)
    \/ \E e \in Triggers : Reoptimise(e)

Spec == Init /\ [][Next]_vars

-----------------------------------------------------------------------------
TypeOK ==
    /\ start \in Schedules
    /\ frozen \subseteq Tasks /\ reported \subseteq Tasks
    /\ \A w \in stops \cup declared : w.machine \in Machines /\ w.from < w.to
    /\ earliest \in Nat /\ version \in 0..MaxVersions
    /\ outcome \in Tiers \cup {"PLANNED", "AUDIT_REJECTED"}

\* Images of themselves, enumerated once.
GatedPlans == {s : s \in {s \in PhysicalSchedules : GatePasses(s)}}
EnergyAgreedPlans == {s : s \in {s \in PhysicalSchedules : EnergyAgrees(s)}}
CostAgreedPlans == {s : s \in {s \in PhysicalSchedules : CostAgrees(s)}}

\* The three independent statements of the physics agree on everything the
\* solver returns.  The audit never turns down a schedule of the production
\* model, whatever the chain of events that led to it, nor the scenario of a
\* breakdown that is only imagined; and validate_pipeline_run, called on the
\* version before its promotion, finds its own reading of occupancy and of
\* overtime by week satisfied.
SolverPassesAudit ==
    /\ outcome # "AUDIT_REJECTED"
    /\ Breakdowns \subseteq AcceptedBreakdowns
    /\ start \in GatedPlans

\* A version honours what it inherits.  It works or sets up in no outage any
\* earlier event of the chain declared, though each call names only its own;
\* and the context stored with it is its own: a benchmark that replays the
\* version under it may find the version itself, its audit accepts whatever
\* the replay finds, and the pipeline's plan has a replay for every rule.
ContextOwn ==
    /\ Undisturbed(start, declared)
    /\ start \in Replays
    /\ \A s \in Replays : BenchmarkAccepts(s)
ContextHonoured ==
    /\ ContextOwn
    /\ version = 0 => \A rule \in DispatchRules : RuleSchedules[rule] \cap Replays # {}

\* An event without a delay can never fail: the ACTIVE schedule, with all its
\* commitments and inherited outages, is itself certified and accepted.
QuietEventKeepsPlan ==
    \A e \in {e \in Triggers : ~Delayed(e)} :
        Certified(start, Job(e, start)) /\ AuditAccepts(e, start)

\* The checks the local repair makes are enough: the certificate only ever
\* turns a repair down for the order of transfer sublots, which it ignores.
RepairIsCertified ==
    \A e \in {e \in Triggers : Delayed(e)} :
        \A s \in RepairCandidates(e) :
            SublotsInOrder(s) /\ s \in Schedules => Certified(s, Job(e, s))

\* What the audit would miss of a faulty solver: candidates it accepts satisfy
\* every constraint of the production model but three.  It does not look at
\* the order of transfer sublots, at tasks beyond the flexible zone moved to
\* before the event, nor at a setup inserted before a frozen task.  The audit
\* of hot-order candidates, written apart, accepts the same physics.
AuditGap(e, s) ==
    \/ ~SublotsInOrder(s)
    \/ \E t \in Tasks \ FrozenBy(e) : s[t] < e.now
    \/ \E t \in FrozenBy(e) : SetupBefore(s, t) # SetupBefore(start, t)
SamePhysics ==
    HotAuditedSchedules = {s \in AuditedSchedules : StopsValid(PhysicalRows(s), {})}
AuditCatches ==
    version = 0 =>
        /\ SamePhysics
        /\ \A e \in Triggers : \A s \in AuditedSchedules :
            AuditAccepts(e, s) /\ ~AuditGap(e, s)
                => Certified(s, Job(e, FrozenPositions(e)))

\* The energy profile, the analytic report and the carbon report of a plan
\* agree, and none of the readers of the calendar finds work outside it.
EnergyBooksAgree == start \in EnergyAgreedPlans

\* Minimising the monetary objective minimises the reported cost: the two are
\* equal on every plan, as are the tardiness figures of the three reports.
CostBooksAgree == start \in CostAgreedPlans

\* A plan published as OPTIMAL is the best there was: of all plans for the
\* first one, lexicographically so in the hierarchical mode, and of those the
\* event and the commitments left for a later version; under a dispatch rule,
\* of those that work every machine in the sequence the rule chose, which is
\* the scope the metadata names.
ProvenMeansBest ==
    proof # NoProof =>
        start \in Best(proof.policy, proof.hierarchical,
                       Sequenced(Allowed(proof.job), proof.sequence))

\* docs/run-isolation-and-rescheduling.md: "New work cannot begin before the
\* event time."  A setup is work; one that the baseline did not have there may
\* not begin before the event.
NewWorkAfterEvent ==
    [][version' # version =>
         \A t \in Tasks \ frozen' :
            \/ SetupStart(start, t)' >= earliest'
            \/ SetupStart(start, t)' = SetupStart(start, t)]_vars
==============================================================================
