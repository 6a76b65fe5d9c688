-------------------------- MODULE ExecutionTracking --------------------------
(***************************************************************************)
(* What happens to a task between the plan and the shop floor: the         *)
(* production_schedule of each run version, the frozen zone the            *)
(* rescheduler keeps (src/src/scheduling/rescheduler.py) and the           *)
(* mes_order_tracking rows the MES service keeps                           *)
(* (src/src/integration/mes_service.py).  Every action is one publication  *)
(* or one transaction under the mutation lock.                             *)
(***************************************************************************)
EXTENDS Naturals

CONSTANTS
    Tasks,
    Machines,
    LastSlot,    \* bound: operations start in slots 0..LastSlot
    MaxRun,      \* bound: run versions 1..MaxRun
    None         \* an absent tracking row

Runs == 1..MaxRun
NoRun == 0
Slots == 0..LastSlot
Positions == [machine : Machines, start : Slots]

VARIABLES
    active,       \* the ACTIVE run
    plan,         \* production_schedule: [Runs -> [Tasks -> Positions]]
    frozen,       \* its schedule_state = FROZEN: [Runs -> SUBSET Tasks]
    underway,     \* its execution_status # SCHEDULED: [Runs -> SUBSET Tasks]
    tracking,     \* mes_order_tracking: [Runs -> [Tasks -> None or a row]]
    baseline,     \* the run a reschedule started from, NoRun for a pipeline
    nextRun,
    committed,    \* history: where a task was when MES first reported on it
    initialized   \* history: runs initialize_tracking was called for

vars == <<active, plan, frozen, underway, tracking, baseline, nextRun,
          committed, initialized>>

TrackingRows == [position : Positions,
                 status : {"SCHEDULED", "IN_PROGRESS", "COMPLETED"}]

ASSUME TrackingAssumption ==
    /\ LastSlot \in Nat /\ MaxRun \in Nat \ {0}
    /\ None \notin TrackingRows

TypeOK ==
    /\ active \in Runs
    /\ plan \in [Runs -> [Tasks -> Positions]]
    /\ frozen \in [Runs -> SUBSET Tasks]
    /\ underway \in [Runs -> SUBSET Tasks]
    /\ tracking \in [Runs -> [Tasks -> TrackingRows \cup {None}]]
    /\ baseline \in [Runs -> Runs \cup {NoRun}]
    /\ nextRun \in 1..(MaxRun + 1)
    /\ committed \in [Tasks -> Positions \cup {None}]
    /\ initialized \in SUBSET Runs

\* A schedule puts one operation at a time on a machine.
Feasible(p) == \A t, u \in Tasks : p[t] = p[u] => t = u
Plans == {p \in [Tasks -> Positions] : Feasible(p)}

Untracked == [t \in Tasks |-> None]

Init ==
    /\ active = 1
    /\ \E p \in Plans : plan = [r \in Runs |-> p]
    /\ frozen = [r \in Runs |-> {}]
    /\ underway = [r \in Runs |-> {}]
    /\ tracking = [r \in Runs |-> Untracked]
    /\ baseline = [r \in Runs |-> NoRun]
    /\ nextRun = 2
    /\ committed = Untracked
    /\ initialized = {}

-----------------------------------------------------------------------------
\* The pipeline publishes a schedule of its own, which nobody works on yet.
PublishPipeline ==
    /\ nextRun \in Runs
    /\ \E p \in Plans : plan' = [plan EXCEPT ![nextRun] = p]
    /\ active' = nextRun
    /\ nextRun' = nextRun + 1
    /\ committed' = Untracked
    /\ UNCHANGED <<frozen, underway, tracking, baseline, initialized>>

Tracked(r, t) == tracking[r][t] # None
\* Tasks mes_order_tracking reports IN_PROGRESS or COMPLETED.
\* (Mutant: the rescheduler does not read the tracking table.)
NothingReported(r) == {}
Reported(r) == {t \in Tasks : Tracked(r, t) /\ tracking[r][t].status # "SCHEDULED"}

\* _build_frozen_positions: what the clock and the reports freeze, and what the
\* baseline had frozen already.
\* (FrozenNow alone is the mutant that forgets the latter.)
FrozenNow(r, now, horizon) ==
    {t \in Tasks : plan[r][t].start < now + horizon \/ plan[r][t].start <= now}
        \cup Reported(r) \cup underway[r]
FrozenTasks(r, now, horizon) == FrozenNow(r, now, horizon) \cup frozen[r]

\* RUN_SCOPED_INPUT_TABLES: the tracking rows are copied to the new version.
TrackingCloned(r) == tracking[r]

\* _execute_reschedule, published: frozen tasks keep machine and start, others
\* start no earlier than the trigger.  The caller chooses the trigger's time.
Reschedule(now, horizon) ==
    LET kept == FrozenTasks(active, now, horizon) IN
    /\ nextRun \in Runs
    /\ \E p \in Plans :
        /\ \A t \in kept : p[t] = plan[active][t]
        /\ \A t \in Tasks \ kept : p[t].start >= now
        /\ plan' = [plan EXCEPT ![nextRun] = p]
    /\ frozen' = [frozen EXCEPT ![nextRun] = kept]
    /\ underway' = [underway EXCEPT ![nextRun] = Reported(active)]
    /\ tracking' = [tracking EXCEPT ![nextRun] = TrackingCloned(active)]
    /\ baseline' = [baseline EXCEPT ![nextRun] = active]
    /\ active' = nextRun
    /\ nextRun' = nextRun + 1
    /\ UNCHANGED <<committed, initialized>>

-----------------------------------------------------------------------------
\* initialize_tracking_from_schedule: INSERT OR IGNORE, of the schedule of the
\* service's own run.  A service follows the ACTIVE run; the dashboard's button
\* names the run of the page, which may have been archived since it was shown.
\* (Mutant: the schedule is read without its run.)
Published == 1..(nextRun - 1)
LatestSchedule(r) == plan[active]
ScheduleOf(r) == plan[r]
InsertOrIgnore(row, p) ==
    IF row = None THEN [position |-> p, status |-> "SCHEDULED"] ELSE row

InitializeTracking(r) ==
    /\ r \in Published
    /\ tracking' = [tracking EXCEPT ![r] =
          [t \in Tasks |-> InsertOrIgnore(tracking[r][t], ScheduleOf(r)[t])]]
    /\ initialized' = initialized \cup {r}
    /\ UNCHANGED <<active, plan, frozen, underway, baseline, nextRun, committed>>

\* record_event for a tracked task: TASK_START and TASK_COMPLETE set the status
\* whatever it was (an untracked task is refused, or recorded without a trace in
\* the tracking table).
Report(t, status) ==
    /\ Tracked(active, t)
    /\ tracking' = [tracking EXCEPT ![active][t].status = status]
    /\ committed' = IF committed[t] = None
                    THEN [committed EXCEPT ![t] = plan[active][t]] ELSE committed
    /\ UNCHANGED <<active, plan, frozen, underway, baseline, nextRun, initialized>>

TaskStart(t) == Report(t, "IN_PROGRESS")
TaskComplete(t) == Report(t, "COMPLETED")

Next ==
    \/ PublishPipeline
    \/ \E now \in Slots, horizon \in 0..1 : Reschedule(now, horizon)
    \/ \E r \in Runs : InitializeTracking(r)
    \/ \E t \in Tasks : TaskStart(t) \/ TaskComplete(t)

Spec == Init /\ [][Next]_vars

-----------------------------------------------------------------------------
\* Work that MES reported as begun or done is never moved by a reschedule, nor by
\* any later one, however the triggers' clocks run: its operation stays on the
\* machine and at the start it had when it was first reported.
CommittedNeverMoves ==
    \A t \in Tasks : committed[t] # None => plan[active][t] = committed[t]

\* The frozen zone only grows along a chain of reschedules: a trigger with an
\* earlier clock cannot release what an earlier version froze.
FrozenOnlyGrows ==
    \A r \in Runs : baseline[r] # NoRun =>
        \A t \in frozen[baseline[r]] :
            t \in frozen[r] /\ plan[r][t] = plan[baseline[r]][t]

\* A tracking row, cloned by every reschedule and never overwritten, says where
\* its own run or one it descends from had the task, and that run's tracking was
\* loaded: never where an unrelated run has it.  It need not be where the run's
\* own plan has the task: a cloned row keeps the machine and the times of the
\* plan before, and initialising the new run's tracking does not renew it.
Ancestral == {S \in SUBSET Runs : \A q \in S : baseline[q] # NoRun => baseline[q] \in S}
Ancestry(r) == {q \in Runs : \A S \in Ancestral : r \in S => q \in S}

TrackingExplained ==
    \A r \in Runs, t \in Tasks : Tracked(r, t) =>
        \E q \in Ancestry(r) \cap initialized : tracking[r][t].position = plan[q][t]
==============================================================================
