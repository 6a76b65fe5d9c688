# TLA+ models of the factory decision intelligence runtime

The program plans, schedules and re-plans a factory. Its results are *run
versions*: rows of some thirty SQLite tables scoped by `run_id`, a registry row
with a status, and a bundle of files. A run is built by the end-to-end pipeline
or by the dynamic rescheduler, becomes the one ACTIVE run, receives shop-floor
feedback (MES), is superseded, and is finally removed by a retention policy.
All of that happens in one SQLite file that several processes share: the API
server, the dashboard, the pipeline, the MES dispatcher and operator scripts.

The models here cover two things. The first is that life cycle: who may write
when, what a reader of the database can ever see, what a crash or an exception at
any step leaves behind, and which promises of the documentation survive it. The
second is the planning itself: from the forecast to weekly batches, material
orders, transfer lots, schedules, reschedules, and the books of energy and cost.
The program computes nearly everything there twice, in code written apart, and
lets one reading judge the other; the models state both readings and compare
them. What the solvers optimise is a choice among what their constraints admit.

Paths below are relative to the repository; its Python package is itself called
`src`, so `PROJECT.json` names e.g. `src/src/utils/lineage.py`, and `src/main.py`
is the repository's `main.py`.

## The system

| Component | State it keeps | Operations | Talks to |
|---|---|---|---|
| Run registry (`src/utils/lineage.py`) | `pipeline_runs`, run-scoped tables, bundles under `artifacts/runs` | start, update status, validate, promote, look up ACTIVE, retention | everybody |
| Pipeline (`main.py`) | a private copy of the database, a staging directory | copy, eight stages, validate, bundle, promote, `os.replace`, retention, failure handler | registry, bundle |
| Rescheduler (`src/scheduling/rescheduler.py`) | a new run version in the canonical file | baseline, solve or local repair, clone, persist, audit, advance, seal, promote, fail | registry, bundle, CP-SAT |
| Run bundle (`src/utils/run_bundle.py`) | `artifacts/runs/<run_id>` and its manifest | export, seal, verify | pipeline, rescheduler, freeze |
| Locks (`src/utils/runtime_lock.py`, `solver_slot.py`, `src/api/server.py`) | one RLock per path and process, thread-local ownership, two `flock` files, a semaphore | enter, nest, refuse, leave | every writer |
| MES service (`src/integration/mes_service.py`) | events, inbox, outbox, order tracking | record, redeliver, migrate, list, acknowledge, initialise tracking | registry, dispatcher |
| Dispatcher (`src/integration/mes_reschedule_dispatcher.py`) | none | hand one pending intent to the rescheduler, acknowledge it | MES service, rescheduler |
| Reference freeze (`scripts/freeze_reference.py`) | `artifacts/reference`, `reference_backup`, `reference_runs` | copy, check, two renames | registry, retention |
| Facade (`src/integration/rescheduler.py`) | the run it saw when it was built or last committed | record a breakdown, reschedule, simulate | MES service, rescheduler |
| What-if and scenarios (`src/scheduling/what_if.py`, `src/scenarios/scenario_engine.py`) | a private copy of the database in memory | copy, solve again, compare | scheduling, audits |
| Weekly plan (`src/planning/aggregate_planning.py`) | tables of a run: family plan, product plan, capacity | programme, split, feed overloads back, repair | forecast, MRP |
| Materials (`src/inventory/bom_mrp.py`) | `mrp_plan` | week by week: net, lot, release, message | weekly plan, scheduling |
| Scheduling (`src/scheduling/schedule_cpsat.py`, `dispatch.py`, `calendar_service.py`) | `production_schedule`, the model context of a version | lots, release times, constraints, objectives, solve in one or two stages | audits, rescheduler |
| Audits and gate (`reschedule_candidate_audit.py`, `hot_order_schedule_audit.py`, `validate_pipeline_run`) | none | recompute lots, commitments, intervals, setups, calendar | rescheduler, what-if, pipeline |
| Books (`src/energy`, `src/carbon`, `src/economics`, `schedule_metrics.py`, `service_level.py`) | KPI tables | integrate, add up | schedule rows |
| Replays (`src/execution/synthetic_replay.py`, `src/integration/local_message_replay.py`) | none between calls | read messages one by one, refuse or release | files of a pilot |
| Closed loop, bootstrap, dashboard, API | cached runs, results in memory | entry points that nest the locks | all of the above |
| Contracts, adapters, pilot intake (`src/contracts`, `src/integration`) | none | validate, convert | MES service |

`PROJECT.json` lists the components one by one with what is modelled of each.

What is hard in it:

* **Two ways of publishing.** The pipeline works on a private copy and publishes
  with one rename; the rescheduler works on the canonical file in seven commits.
  The copy is minutes old when it is renamed over the path.
* **Failure handlers that run late.** The pipeline's handler also runs for an
  error after the rename; the rescheduler's opens a second connection while the
  first may hold a transaction.
* **Locks in opposite orders.** The API takes the solver slot and then the
  mutation lock, the dispatcher the mutation lock and then the slot.
* **At-least-once delivery.** External MES messages are redelivered, predate the
  outbox, outlive their run; the process may die between publishing a
  reschedule and acknowledging its intent.
* **Clocks.** Reschedule triggers carry their own time; timestamps of two text
  formats are compared as text.
* **Several physics.** The solver's constraints, two audits, the local repair, a
  dispatch estimate and the gate each restate what a machine can do;
  commitments of one reschedule bind every later one, through a stored context.
* **Several books.** The objective the solver minimises, the energy profile, the
  analytic cost report and the KPIs read the calendar and the rows each their
  own way.
* **Numbers that are names.** A task's number is its position in a list; reports,
  comparisons and frozen rows refer to it after the list has changed.
* **Splitting and rounding.** Family batches go to products by largest
  remainders, overloads are repaired by loads read before another repair, lots
  are cut by shift length, orders come in lots.
* **Stale readers.** Facade, dashboard and what-if act on a run they saw earlier.
* **Late deliveries.** Pilot messages come late, twice and out of order, and the
  result must not depend on it.
* **Retention** deletes what other components still need: events, audits,
  bundles, the run of the frozen reference, which is replaced without the lock.

Correctness per component:

* registry: one ACTIVE run from the first publication on; only legal transitions;
* pipeline and rescheduler: a published run is whole; no acknowledged feedback is
  lost by a publication; every error path leaves the lock;
* locks: mutual exclusion across threads and processes, nothing leaked, no
  deadlock, released in the end;
* MES: messages and intents are kept, an event is solved at most once, an
  acknowledgement has proof, a crash is recoverable;
* tracking and frozen zone: reported work never moves, a tracking row has an
  explanation in the run's ancestry, whoever acts late acts on a real run;
* rescheduling: model, audits and gate agree, what one event commits no later one
  breaks, a plan called optimal is;
* planning: the split is fair, the plan fits its capacity, the published figures
  are of one plan, orders cover it, lots
  carry it and wait for material, both audits rebuild the lots, a replayed
  schedule keeps its tasks;
* books: one schedule has one energy, one cost and one tardiness;
* replays: neither order nor repetition makes a difference, and accounts balance;
* retention: survivors keep their bundles, a reference keeps a whole snapshot
  unless the freeze of that very run died in its copy, age decides what is deleted.

## Modules

| Module | Models | State |
|---|---|---|
| `Lineage` | the registry's operators: transition table, start, update, promote, sole-ACTIVE lookup, the set of runs retention may delete | (operators only) |
| `RunLifecycle` | *abstract specification* of a registry: a run appears, moves along the transition table, is promoted while the previous ACTIVE run is archived, is removed unless ACTIVE | `registry` |
| `RunPublication` | pipeline, rescheduler and MES writers as processes on one path | see below |
| `RunPublication_proofs` | the theorems about it and the life cycle it implements | |
| `RuntimeLocks`, `MCRuntimeLocks` | both locks and the semaphore, and every entry point's nesting of them | locks, and each thread's open blocks |
| `RuntimeLocks_proofs` | the theorems about it | |
| `MesOutbox`, `MesOutbox_proofs` | inbox, outbox, audits, dispatcher, API reschedules, retention; the theorems about it | tables as functions, the reschedule under way |
| `ExecutionTracking` | plan, frozen zone and MES tracking along chains of versions | per run: plan, frozen set, tracking rows |
| `PlantOperations` | `ExecutionTracking` composed with the facade and with the comparisons on a copy | as above, the facade's run, the copy's run |
| `MessageReplay` | both replays of pilot messages | what each has seen, buffered, released |
| `ExecutionTracking_proofs` | the theorems about tracking, plant and replays | |
| `MCExecutionTracking` | an instance of the three | |
| `RunRetention` | retention with timestamp text, foreign keys, a sweep that fails half-way, and the freeze script running beside it | registry, timestamps, bundles, reference |
| `RunRetention_proofs` | the theorems about it | |
| `AggregatePlanning` | programme, split, feedback of overloads, last repair | plan tables of a run |
| `PlanningChain` | material orders, release times, transfer lots, comparison of schedule and plan | orders, lots |
| `HotOrder`, `MCPlanningChain` | the rush-order what-if on a planned run: its lots, task numbers, both audits' reading of the lots | the rush order |
| `PlanningChain_proofs` | the theorems about planning, from the split to both audits | |
| `ShopFloor` | operations, changeovers, shifts and overtime authority: the data the scheduling modules share | (operators only) |
| `ScheduleModel` | the hard constraints of the CP-SAT model and the rows emitted for a solution | (operators only) |
| `SolverStages` | objective policies, the two stages of the hierarchical mode, the status that is published | (operators only) |
| `ScheduleEconomics` | the books of a schedule and the monetary objective | (operators only) |
| `CandidateAudit` | the audit of a candidate of a reschedule, which restates the physics from the rows | (operators only) |
| `SecondAudits` | the audit of hot-order candidates, the audit of benchmark replays, dispatch rules | (operators only) |
| `ValidationGate` | what `validate_pipeline_run` asks of the rows of one schedule | (operators only) |
| `Rescheduling`, `MCRescheduling` | frozen and flexible zones, outages, local repair, full solve, audit, gate, stored context, along a chain of events | the ACTIVE schedule, its frozen rows and stored context, reported tasks |
| `Rescheduling_proofs` | the theorems about scheduling, repair, audit and books | |
| `FiniteLemmas` | lemmas the other proofs share: induction stated about sets, sums over functions, slots and windows, circuits, division | |

`Lineage` is extended by every module with a registry; `RunPublication`
instantiates `RunLifecycle` with `registry <- canon`, the registry behind the
canonical path, and is shown to implement it. `Rescheduling` composes the
scheduling modules: `ScheduleModel` (through `SolverStages`, `ValidationGate` and
`ScheduleEconomics`) on one side, `CandidateAudit` (through `SecondAudits`) on the
other, which share only the data of `ShopFloor`. `HotOrder` extends
`PlanningChain`, which extends `AggregatePlanning`: one behaviour runs from the
forecast to a simulated rush order. `PlantOperations` extends
`ExecutionTracking`.

### RunPublication

A database file is an inode. `path` is the inode the canonical path names;
`status`, `rows` and `feedback` say what each inode's `pipeline_runs`,
run-scoped tables and MES tables hold; `bundle` is the state of each
`artifacts/runs/<run_id>`. A pipeline's private file is numbered like its run.
`pc[p]` names the statement a process is at, `handle[p]` the inode its
connection refers to, which a rename does not change.

* `StartPipeline ... SweepBundles` follow `_run_end_to_end_pipeline`. The eight
  stages are one step, since nobody else sees the private file; they may leave
  the run's tables incomplete, which is what the validation gate refuses.
  `ReplaceCanonical` is `os.replace`.
* `FailPipeline` and `RecordFailure` are the failure handler: an INITIALIZED row
  when the canonical registry has none, then FAILED when the transition is legal.
  It may run after the rename (`pc = "retain"`), when the run is ACTIVE.
  An exception before the `try` leaves no trace (`AbortCopy`).
* `ReadBaseline ... ActivateVersion` follow `_execute_reschedule`, one action per
  commit. `FailVersion` is its handler. `AbortPersist` is the handler meeting
  "database is locked" because the failed transaction is still open on the other
  connection: the row keeps its RUNNING status.
* `OpenCanonical`, `RecordFeedback`: `_canonical_writer` opens the connection
  inside the lock and attributes the event to the sole ACTIVE run.
* `Crash` may come between any two steps and loses lock, handle and place.

Not in this module: the order retention prefers runs in (any choice of the right
size is allowed here; `RunRetention` has the order), `ingest_mes_actuals` (it
names its run itself; its lock is in `RuntimeLocks`, the foreign key of its rows in
`RunRetention` and `MesOutbox`), the content of the tables
beyond "inputs only" and "full", and concurrent readers, which see `canon`.

### RuntimeLocks

`WriterBlocks`, `SolverBlocks`, `EngineBlocks`, `BootstrapBlocks`, `FacadeBlocks`,
`DispatchBlocks`, `RescheduleBlocks` and `WhatIfBlocks` list the with-blocks of each
entry point in program order, `Plan` is the record of them. A mutation block takes the process-wide RLock, then, unless the thread owns the path
already, the `flock`; a slot block takes a non-blocking process-wide Lock and a
non-blocking `flock`; a request block takes the API's semaphore. A refusal is an
exception that unwinds the open blocks (`Unwind`, `Closing`), a killed process
loses everything its threads held (`Kill`). The pipeline's own CP-SAT call takes
no slot, so `Exclusion` is about the calls the slot admits. `LeaveMutation`
is one step because the RLock, released last, keeps every other thread of the
process out and the `flock` every other process.

### MesOutbox

A transaction under the mutation lock is one action; a reschedule is a job of
several actions, so a crash may come between promotion and acknowledgement. A
reschedule draws a fresh run and a fresh audit, so the audit is named by its
run. Backfill (`_ensure_reschedule_outbox`) is part of every action that calls
it. Answers of `dispatch_one` that change nothing are stutters.
`published` is a history variable: the runs a dispatch of each event promoted.
`actuals` is the set of runs that `mes_production_actuals` has rows of. Like the
inbox's rows, those refer to their run by a foreign key without a cascade, so that
`ForeignKeysHold` refuses a deletion of either.

### ExecutionTracking and PlantOperations

Tasks have a position (machine, start slot) in each version's plan. A reschedule
keeps frozen tasks where they are and moves others no earlier than the
trigger's own clock, which the caller chooses; it clones the tracking rows of its
baseline. `committed` remembers where a task was when MES first reported on it.
Unlike the code's minutes, slots are as long as an operation, so a feasible plan
is one without two tasks in one slot of one machine. `initialize_tracking` may be
called for any published run, as the dashboard does with the run of its page.

`TrackingExplained` says how far a tracking row can be trusted. After a
reschedule the cloned row keeps machine and times of the plan before, and
initialising the new run does not renew it (INSERT OR IGNORE): variance and
acceptance of later events are judged by an ancestor's plan, never by an
unrelated one's. No document promises more.

`PlantOperations` adds those who look once and act later. The facade keeps the
run it saw and commits the breakdown event for it before it asks the rescheduler,
which works on the run that is ACTIVE by then. What-if and scenarios copy the
database and look the ACTIVE run up again, in the copy, at every solution.

### MessageReplay

One step reads one message. `replay_local_messages` refuses what is late beyond
the limit, early, unexpected or contradicts what it knows, drops repetitions, and
releases buffered operations in route order; `replay_execution` is a state
machine of one operation with quantities. `sent` and `occurred` remember what was
read, so that the result can be compared with a definition over the set of
messages. The two and the plant share no state; `MCExecutionTracking` runs each
from the initial states of the others.

### RunRetention

Time is a number of ticks; a timestamp is what its text compares by: date,
separator, time of day. `IsoLocal` is `datetime.now().isoformat()` (pipeline),
`SqlUtc` is SQLite's `datetime('now')` (rescheduler, failure handler).
`pinned` is the set of runs a foreign key refuses to delete: those with a MES event
some inbox row names (`RecordExternal`), and those with rows in
`mes_production_actuals` (`IngestActuals`). A retention is read - transaction - sweep, and may stop
after each; the freeze script takes its steps in between.

A snapshot in `reference_runs` is none, torn or whole. The script copies when
there is none and compares manifests when there is one. A freeze that dies in its copy
after the manifest therefore leaves a partial copy that the next freeze of the
same run takes for a whole one, and nothing completes it. The history variable `cut`
names the runs this happened to, and `WholeCopyUnlessCut` promises nothing for
them. It says that nothing else damages a copy: no freeze of another run, no failed
swap, no crash elsewhere, no retention.

### Planning: AggregatePlanning, PlanningChain, HotOrder

The linear programme may return any integer production within capacity, with the
least overtime it needs: overtime costs and nothing else uses it. Times are
integers of which `TimeScale` make a minute; `Rounded` is Python's rounding of a
quotient, half to even. Then every step is the code's: largest remainders with
ties by product order, the capacity table in tenths of an hour, cuts fed back
until the rounds run out, the greedy repair with its stale loads, the recursion of
inventory and backlog. Of the capacity table, `utilized` and `bottleneck` are
variables: before a repair the hours are of the programme's average mix and the flags of
its duals, and `Repair` computes the hours anew, sets the prices to zero and leaves
the flags. `PublishedFiguresAgree` asks that stock and backlog, utilised hours, prices
and, where the prices are valid, the flags follow from the published plan: the hours
exactly after a repair, and within a batch of every product before, since they are of the
mix and not of the split. It asks nothing of `is_bottleneck` after a
repair, which the code leaves as the old duals had it
(`aggregate_planning.py:554-571`). `RunMrpEngine` is the weekly recursion with lot sizes; the
safety stock, a statistic, is a constant. `ScheduleLots` cuts the first week into
transfer lots; `CompareWeekOne` may refuse. `SimulateHotOrder` adds the lots of a
rush order to a planned run and numbers the tasks, as positions for a fresh
baseline, by the reference schedule's numbers for a replayed one.

`AuditsRebuildLots` has two exceptions the code really has. When a product's plan
holds no batch at all in week 1, it is a key of the audits' sums over the plan and
of none over the lots, so that both audits refuse every schedule of such a plan,
and with it every reschedule and rush order. And the audit of rush orders looks
every product of its route table up in the bill of materials: it refuses as soon
as one product consumes no material.

### Scheduling: ShopFloor, ScheduleModel, SolverStages, ScheduleEconomics

A slot stands for a minute, a day has `DayLength` of them, the last day of a week
is closed; `Night` slots of a day are overtime, opened in week 1 only.
`Physical` is the solver's model: a circuit through the tasks of each machine
selects the setups, which end as their task begins. `Answers` is what one call
may return: an optimum of its objective, called OPTIMAL, or any admitted schedule,
called FEASIBLE. In the hierarchical mode a second stage keeps the service level
of the first; `FinalStatus` says what is published then.

`ScheduleEconomics` states each book as its code computes it: the energy profile
by slices of the horizon, carbon from the rounded makespan, the analytic report
from totals, cost per order, planned KPIs, service level, and the monetary
objective on the solver's own circuit and calendar prefixes. Rates are integers.
The carbon KPI rounds the makespan to a tenth of an hour and the cost report does
not, so `EnergyBooksAgree` bounds their difference instead of denying it.

### Rescheduling

`Job` is what `_execute_reschedule` passes to the model (positions to keep with
their setups, flexible windows, earliest start, stops). `LocalRepair` places one
ready task after the other as `local_repair_candidate` does; its search loop,
which jumps over closed time and stops, is the first start at which setup and
task fit. A repair is published if the solver certifies all its positions;
otherwise, or when the certificate runs out of its three seconds, any full
solution may be. `AuditAccepts` computes the rows of a schedule and judges them by
`CandidateAudit`, from the baseline's rows, never from the solver's constraints.
A rule given as `experimental_dispatch_rule` fixes the order of the tasks, and the
solver's answer is then the best of that order: `Sequences` are the orders the call may
fix, `FreeSequence` is none. The rules rank the baseline's rows, which are read in the
order of their starts only, so rows of equal start come in any order.
`proof` is what the version's metadata claims to be optimal, and of which call,
its sequence included: `docs/run-isolation-and-rescheduling.md:39` says that an
OPTIMAL of such a call is one of the chosen sequence, and `ProvenMeansBest` compares
within it.
`Context` is what the version leaves to its successor and to
`production_benchmark`, which solves it again in a copy (`Replays`). The
breakdown what-if solves baseline and scenario from nothing and asks the same
audit without commitments (`BreakdownAccepted`); it uses none of the ACTIVE run's
context.

`PhysicalSchedules`, `AuditedSchedules` and the tables of `SolverStages` depend on
no event; TLC computes each once.

## Runs

| Run | Module, configuration | Question | Result |
|---|---|---|---|
| `publication` | `RunPublication` | Do readers always see whole runs, one ACTIVE run, all acknowledged feedback, and a legal life cycle, and does every writer leave the lock? | holds |
| `locks` | `MCRuntimeLocks`, `RuntimeLocks` | Do the locks exclude, leak nothing, never wait on each other, in any mixture of entry points, and is the mutation lock given back? | holds |
| `outbox` | `MesOutbox` | Are intents kept, solved once, acknowledged with proof, and recoverable until runs are deleted? | holds |
| `outbox_retention` | `MesOutbox`, `MesOutboxRetention` | Is the recovery after a crash always possible? | violated |
| `tracking` | `MCExecutionTracking`, `ExecutionTracking` | Does reported work stay put along chains of reschedules, are tracking rows and late readers explained by real runs, and do replays depend on neither order nor repetition? | holds |
| `whatif_tasks` | `MCPlanningChain`, `HotOrder` | Does a comparison pair each task with itself? | violated |
| `retention` | `RunRetention` | Do survivors keep their bundles, and references whole snapshots but for a freeze cut off in its copy; how wrong can the age order be? | holds |
| `retention_order` | `RunRetention`, `RunRetentionOrder` | Are the newest runs kept? | violated |
| `retention_mes` | `RunRetention`, `RunRetentionMes` | Does a retention that runs delete old runs? | violated |
| `rescheduling` | `MCRescheduling`, `Rescheduling` | Do solver, repair, audits, gate and books agree, are outages, commitments and contexts honoured by later versions, and does OPTIMAL mean best? | holds |
| `rescheduling_setup` | `MCRescheduling`, `ReschedulingSetup` | Does new work begin after the event? | violated |
| `planning` | `MCPlanningChain`, `PlanningChain` | Is the plan split fairly, feasible, booked in tables that agree, covered by orders and carried by lots that wait for material and that both audits rebuild? | holds |

The violated ones are disagreements between the code and its own documents; the
counterexamples are:

* **outbox_retention**. A dispatch publishes run 2 for an event of run 1 and the
  process dies before the acknowledgement. A pipeline publishes run 3; its
  retention deletes run 2 together with its audit row, while run 1 stays because
  the reference protects it. The intent is still PENDING, no audit proves the
  publication, run 1 is no longer ACTIVE: every later dispatch answers
  STALE_BASELINE. `docs/g5-reschedule-dispatcher.md:9` promises the recovery.
* **whatif_tasks**. On a fresh baseline the tasks are numbered by position, product
  after product. A rush order for the first product adds its tasks behind that
  product's and shifts the numbers of all the others; the comparison, which pairs
  equal numbers, sets one product's operation against another's and counts the
  last ones of the list as new. With the baseline replayed from the ACTIVE
  schedule (`reuse_active_baseline`) this cannot happen (`ReplayKeepsTasks`), but
  the API and the dashboard ask for a fresh one.
* **retention_order**. Even at UTC, `2026-01-01 10:00:00` sorts before
  `2026-01-01T09:00:00`: a rescheduled run loses against every pipeline run of
  the same day. `AgeErrorBounded`, which holds, says how far that can go: less
  than a day plus the UTC offset.
* **retention_mes**. Once an external MES event was recorded for a run, the
  foreign key of the inbox refuses its deletion, as that of `mes_production_actuals`
  (`build_database_and_eda.py:641`) does once actuals were ingested for it; the transaction is rolled back
  and the pipeline swallows the exception: no run is deleted any more.
* **rescheduling_setup**. An event at minute 3 lets a task start at minute 3 that
  needs a setup, which the published row begins at minute 2, before the event.
  Solver, repair and audit all bound the task's start only.

`AuditCatches` says how strong the audit is: from any first plan and for any
event, every schedule it accepts satisfies all constraints of the production
model, except three it does not look at, named by `AuditGap`: the order of
transfer sublots, unfrozen tasks beyond the flexible zone that were moved before
the event, and setups of frozen tasks that a change before them altered; without any
one of the three exceptions TLC finds a counterexample. The audit of hot-order
candidates accepts the same physics. It is evaluated on the initial plans only,
where it compares each with every schedule; `SolverPassesAudit`, the converse, is
checked along the chains, with the gate; both are proved (`AuditsCatchFaults`,
`SolverAlwaysPasses`). `RepairIsCertified` says that the
repair's own checks suffice, but for the order of sublots; a repair that ends past
`Horizon` is left out.

Of the gate's checks one shows nothing and is left out: the plant's energy is
compared with the sum of its machines', which is how it was computed.

### Bounds

* `publication`: two processes and three runs. Two processes because the lock
  admits one at a time and a third only repeats the second; three runs because
  it takes a run to archive, a run to replace it and a run whose retention
  deletes. One observation: each is written and checked alone. `KeepLastN = 1`
  makes the third publication delete (the code passes 20).
* `locks`: two threads of one process and one of another show both kinds of
  contention; every entry point is served by a thread of the program that has it.
* `outbox*`: a message from before the outbox and a new one, four runs: the
  baseline, a dispatched one, one more, and one whose retention deletes. Actuals are
  ingested for any one run (`MaxIngested`): one row is enough to refuse a deletion.
* `tracking`: one task, since a task's history does not depend on another's but for
  the place it takes (two machines and three slots leave room to move), three
  versions: a reschedule of a reschedule, whose clock may be earlier than the first
  one's. `SandboxRun` is an identifier that is never published. Replays: three
  operations in a route, a lag limit of 3, four deliveries, so that one can be
  repeated; among them late, early, unexpected and contradicting ones. Six events
  of one operation of two units: the shortest complete history with an
  interruption and scrap.
* `retention*`: three runs, a day of two ticks and four ticks of time: runs of the
  same day, of consecutive days, and across the UTC boundary. The order needs two
  runs besides the ACTIVE one. Deadlock is not checked here: clock and run identifiers
  run out.
* `rescheduling*`: four tasks, because it takes two sublots, a lot of another
  product on the same machine (setups), and a second operation on another machine
  (routes, stops). The horizon of 15 slots has two working days, a closed one and
  the start of the second week; machine A may use one of a night's two slots, so
  that budget and number of nights differ, machine B has no overtime. Two
  versions, one reported task, and five events: quiet and delaying ones, with
  clocks that go forward and back, with and without freeze and flexible zones. The
  first plan is any answer of five calls, with and without the hierarchical mode
  and the monetary objective. A chain ends when its versions are used up, so
  deadlock is not checked.
* `planning`, `whatif_tasks`: three products in two families (one split, one not),
  two machines of which one product uses both, two weeks (a backlog to carry), two
  forecasts, one of them with a week without demand for a family. Capacity for less
  than the demand, so that overtime, cuts and the repair happen; three batches. Two
  rounds for the `planning` run: one programme is solved under cut capacities, and the
  repair after it adds to cuts that are there already; a third would only cut again,
  and the theorems hold for any number. Two materials, one with a lead time over a
  week; a delay of the material; lots of at most three batches, less where the shift is shorter; a rush
  order that does not fill its last batch. A behaviour ends with the schedule, so
  deadlock is not checked.

### Fairness

`RunPublication` assumes weak fairness of the steps of a process inside the
lock: it is an ordinary running program without a wait inside the lock (SQLite's
busy timeout raises). Nothing obliges a process to start, or to win the lock.
`RuntimeLocks` assumes weak fairness of acquiring or releasing by a thread inside
a call; `flock` and `RLock` promise no order among waiters, so nothing is claimed
about a thread that waits, only about the holder. `MesOutbox` has no fairness: an
intent is dispatched only when an operator calls the dispatcher.

## Proofs

TLC checks the instances above; the theorems below hold for every value of the
constants: any number of runs, processes, threads, messages, tasks, products,
machines, weeks.

The proof of each invariant has one lemma per action, and under it one step per
conjunct the action can disturb. Identifiers, labels and statuses are kept opaque
behind lemmas such as `Identifiers` and `LabelNames`, so that a step sees only
that they differ.

### What is assumed

Each module names what it asks of its constants, TLC evaluates it on the instance,
and the code gives the reason:

* `PublicationAssumption`, `RetentionAssumption`, `OutboxAssumption`: a positive
  retention limit (`apply_run_retention_policy` refuses less), natural bounds, and markers
  for "no row" or "no process" that are no row or process. A day has a positive
  length and the plant is not west of UTC. There may be any number of messages from
  before the outbox, each with its own number.
* `LocksAssumption`, `ServesAssumption`: a thread belongs to one process and serves
  some entry points.
* `TrackingAssumption`, `SandboxAssumption`: "no tracking row" is none, and a
  comparison's run is never a published one (it has a prefix of its own).
* `ReplayAssumption`: the expected operations are in route order without repetition,
  an actual ends no earlier than it began (the contract refuses both otherwise), times
  of arrival and quantities are natural.
* `PlanAssumption`, `MaterialAssumption`, `HotAssumption`: products, families and
  machines are listed once and no family is empty; cycle times, demands and stocks
  are natural, lot sizes, batch sizes and limits positive. The allowed overtime is a
  multiple of a tenth of an hour (the calendar's 48.0 h), to which the capacity table
  rounds, and a shift is a whole number of minutes.
* `ShopFloorAssumption`: an operation runs on one of the machines for a positive time,
  the operations of a lot share its release time (`release_minute_by_lot`), changeover
  times are natural for every pair of products that can meet on a machine, a night is
  shorter than a day, operations and sublots are numbered with integers. A lot has one operation of each number: it is the primary key
  of the routing table with the product, and both audits refuse a second one
  (`DUPLICATE_LOT_OPERATION`, `DUPLICATE_ROUTE_OPERATION`).
* `ReschedulingAssumption`: the audit's list of tasks is a sequence that names each once,
  and the numbers of a trigger are natural (`RescheduleTriggerEvent` has `ge=0` on each).
* `EconomicsAssumption`: rates and powers are natural, slices positive; the operations of
  a lot share its due date and weight.

### The life cycle of a run

`RunPublication_proofs`

* `TypeCorrect`: `Spec => []TypeOK`, for every value of the constants, which is why no
  run asks for it.
* `PublicationInvariant`: `Spec => []PublicationInv`. `PublishedIsWhole`,
  `NoLostFeedback` and `FeedbackOnPublished` are not inductive: they speak of the
  canonical file, and `ReplaceCanonical` makes the private file canonical. The
  invariant therefore asks the same (`Sound`) of the private file from the copy
  to the rename, knows how far the row and the bundle are at every label
  (`PipelineAt`, `VersionAt`), that only the lock holder is anywhere but idle
  (`Mutex`), and that identifiers are fresh (`FreshRuns`, `OwnRun`), so that
  nothing written for one run touches another's.
* `PublishedWhole`, `FeedbackSurvives`, `FeedbackAttributed` follow from it.

Of the life cycle, in the same module:

* `RegistryInvariant`: `Spec => []RegistryInv`, which adds that the private file
  differs from the canonical one in the pipeline's own run only (`PrivateCopy`).
  This is what makes the rename, one step that changes the whole file, a single
  promotion of the abstract life cycle.
* `LifecycleImplemented`: `Spec => Lifecycle!Spec`.
* `ActiveKept`: `Spec => ActiveNeverLost`.

`RunRetention_proofs`

* `RowsKeepTheirBundles`, `CopyWholeUnlessCut` (with the exception `cut` names, as
  under RunRetention above), from `RetentionInv`. A timestamp
  tells when its run was written (`StampsTell`), rows only of runs that were started
  (`FreshRuns`), the ACTIVE run is protected while a sweep is under way
  (`ActiveProtected`), what the sweep is about to remove has no row any more
  (`DoomedHaveNoRow`), and each step of the freeze script knows which of the
  target, its backup and the staged copy exist (`FreezeInv`).
* `AgeErrorIsBounded`: the text order of two timestamps contradicts their times
  only if these are less than a day and the UTC offset apart, for every length of day
  and every offset; by cases on the two formats and on equal or different dates.
* `ActiveRunStays`: no step deletes or fails the ACTIVE run.

### Locks

`RuntimeLocks_proofs`: the invariant `LocksInv` is about one thread at a time. Its
open blocks are those its entry point has opened and not closed at its position
(`WellNested`), a thread outside a call has none (`OutsideHoldsNothing`), and each
lock is held exactly as often as the open blocks and the phase of the acquisition
or release say: the RLock and its count, `owned` and the mutation file
(`MutationMatches`), the slot's mutex and file (`SlotMatches`), the semaphore
(`RequestMatches`). Then `WritersExcludeEachOther` and `NoLockOutlivesItsCall` are
consequences, and so is `HolderDoesNotWait`: the holder of the mutation file never
meets a condition under which an acquisition waits. The run's `HolderNeverWaits` says
the same with ENABLED.

### MES

`MesOutbox_proofs`: `OutboxInv` relates the tables: what has not been numbered is
unused (`Unused`), an inbox row keeps its event (`InboxKept`), an audit's source is
a run that was published (`SourcesPublished`), an event has one promoted audit on
its source (`OneSuccessor`), an intent is answered by that audit (`AnsweredOnce`), and
the reschedule under way works for a pending intent on the ACTIVE run
(`JobUnderWay`). From it `AcceptedIsKept`, `OneAnswer`, and as action properties
`AcknowledgedWithProof` and `RecoveryOutlivesAllButRetention`: the weaker promise the
code does keep where `outbox_retention` shows the stronger to fail.

### Tracking and replays

`ExecutionTracking_proofs` proves `TrackingInv` of `ExecutionTracking`: types, runs not
yet numbered are empty (`Fresh`), and the three properties, which are inductive only
together: a reported task is where it was because it is frozen in every later
version (`Committed`, `FrozenOnlyGrows`), and a tracking row is explained along
`parent`. `PlantTracks` shows step by step that the plant with its facade and
comparisons implements the tracking model, so the three hold of it too
(`PlantKeepsItsWord`); `LateReadersReadOneRun` is about what the plant adds.

Of the replays, in the same module:

* `AccountIsOfTheEvents`: the state machine of one operation agrees with a sum over
  the set of its events (`AccountInv`), for any events and repetitions.
* `OrderOfArrivalIsIrrelevant`: for messages in any order, late and repeated,
  `LocalInv` says what the replay has learned from the prefix it read (`Learned`,
  `OneMessageEach`, `InTime`) and that the buffer holds what was received and not
  released, the released operations being a prefix of the route (`Buffered`).

### Planning

`PlanningChain_proofs` is about one behaviour from the forecast to the rush order, in
two invariants. `PlanInv` is of the weekly plan whatever round planning is in: types
(`TypesKept`), the split of each family and week (`SplitKept`), loads against capacity
(`LoadsKept`), the recursion of stock and backlog (`BookKept`), prices that go with
their plan (`PricesKept`), and the hours and flags of the capacity table (`CapacityKept`). `ChainInv` is of what follows: orders (`OrdersKept`), lots
(`LotsKept`), the rush order (`HotKept`).

* `SplitFair`: largest remainders assign every batch and miss no product's share by one.
  The number of remaining batches is smaller than the number of products because the
  remainders add up to it.
* `CapacityRespected`: the repair reads the loads of all machines before it repairs the
  first. It suffices because removing batches never raises a load; the greedy walk over
  the sorted candidates is argued by its prefixes, each of which either covers the excess
  or has removed all it could, and a machine has nothing left to exceed with when all are
  removed.
* `OnePlanPublished`, `OrdersSuffice`, `LotsWait`, `LotsComplete`, `AuditsAgree`: the family
  book with the hours, prices and flags that go with it, the recursion of orders with lots rounded up, release times, the cutting of
  plans into lots and its inversion by the two audits.
* `ReplaysKeepTasks`: lots listed once with routes listed once make a flattened list that names
  each operation once (`Flattened`); numbers are positions in it, so a counter that goes on
  after the reference's largest meets none of them, whatever the order of the new lots.

The provers have no induction over data. The sums, folds and recursive functions of
these modules are reached in two ways. A function a module defines by recursion is
shown to exist (`FoldExists`, `RecursionExists` of `FiniteLemmas`), so that its defining equation can be
used; and a fact about it for every argument is proved by the least counterexample,
with the induction over numbers and over finite sets (`CountUp`, `GrowSet`) stated
about a *set* of arguments instead of a predicate.

### Rescheduling

`Rescheduling_proofs` is about any shop floor, any chain of events, and every policy. Its
invariant is short: the ACTIVE schedule satisfies the context stored with it, in whose stops
are all that any event declared (`OwnContext`), no event was turned down by the audit, and
a published proof is about the schedule it is published with (`ProvenMeansBest`). The work
is in what one schedule satisfies.

* `SolverAlwaysPasses`: rows emitted for a schedule with `Physical` pass each check of
  `CandidateAudit`, of the gate and of the audit of imagined breakdowns, one lemma per
  check. A circuit is the order of the starts (`PlacesInOrder`), so that the setup the
  solver selects is the one the row before shows; the nights opened are the slots the
  audit counts, day by day, against the budget (`NightOfDay`, `SumOfSizes`).
* `AuditsCatchFaults`: the way back, for any schedule whatever. Of a schedule, `Sound`
  says all that the model demands but the order of sublots. What either audit accepts of
  the rows is `Sound` (`SoundByAudit`, `SoundByHotAudit`) and what is `Sound` passes both
  (`SoundPassesAudit`, `SoundPassesHotAudit`), so they agree. From the rows to the model:
  the audits charge each row the setup from the one before, so that the order of the starts
  is a circuit whose arcs hold (`OrderIsCircuit`), and the nights in which rows work are
  the nights to open. One audit reads them row by row, the other by pieces, setup and task
  apart, which may share no slot only because rows do not (`PiecesOfMachine`); both come
  to what is worked on a machine, a set of slots (`CalendarKept`). `AuditGap` is used three
  times, once for each exception, and each is needed.
* `ClaimedOptimumIsBest`: what is published as OPTIMAL is best in its own call, by cases on the
  call's stages and statuses, with `Inductive` for every event. Where a rule fixed the
  order it is best among the schedules of that order.
* `ContextIsOwn`: the part of `ContextHonoured` about outages and the stored context.
* `RulesFindReplays`: all of `ContextHonoured`, where there is room (`RoomForAll`). A rule's
  ranking never stops half way: of the tasks not ranked, one with the least operation number
  and then the least sublot number waits for no other (`SomeReady`), so each step ranks one more
  (`RankGrows`), and the ranks are an order of all tasks that respects routes and
  sublots (`RanksExist`). One task a day in this order, each at the end of an open day
  without a stop, breaks no rule of the floor (`DaysArePlan`). `RoomForAll` asks that every
  operation fits a regular shift with any setup, and that the horizon has as many open
  days without a stop, after the releases, as there are tasks. It is a hypothesis of this
  theorem, not an assumption on the constants: `schedule_cpsat.py:366-376` fits only the
  processing of a sublot into a shift, and the horizon at `:552` grows with the work, not
  with the closed days. The floor of the runs satisfies it from 32 slots on (not with 31);
  their own 15 are fewer, so the run checks a case the theorem leaves open.
* `QuietEventsNeverFail`: for an event without a delay the ACTIVE schedule keeps every
  frozen position and satisfies the new job, whatever led to it.
* `RepairsAreCertified`: along the placing of one ready task after the other, each placed
  task keeps what the certificate asks of it, since a later one begins after all before it
  on its machine; frozen tasks are where the baseline has them.
* `EnergyIsBookedOnce`: the slices of the profile partition the plan's slots
  (`PartsAddUp`), work and setup lie in open slots, what is open and unused is idle;
  the two carbon reports differ by the rounding of the makespan, at most half a step.
* `CostIsTheObjective`: the solver's objective and the report add up one cost. Setups
  are counted along the circuit on one side and by rows on the other, which a
  renaming relates (`TotalRenamed`); nights and opening time are numbers of slots;
  sums by task, lot and machine are sums of parts; tardiness is read from the last operation
  of a lot and holding from its first.

### What is not proved

* `WriterLeaves`, `MutationReleased`: liveness under fairness is out of the prover's
  reach, and ENABLED with it (`HolderNeverWaits`, but see `HolderDoesNotWait`).
* Of `ContextHonoured`, that a dispatch rule finds a schedule the audits accept on a floor
  without `RoomForAll`: whether it does depends on stops, nights and horizon, on which the
  code sets no bound; the run shows it for a calendar tighter than the theorem's.
* The violated properties, of course, and that the bounds on runs and versions do
  not matter for liveness.

## Plan

Written: the publication protocol with its abstract life cycle; locks; inbox and
outbox; tracking with facade and comparisons; retention and freeze; scheduling, audits,
books and the chain of reschedules; planning from forecast to rush order; replays.
Proved: every property of a passing run but the parts named in "What is not proved".

What is left to prove is a hypothesis weaker than `RoomForAll`, close to the least
horizon in which a dispatch rule always finds a schedule; the code states none.

## Not modelled

* Forecasting: model training in floating point, without protocol or state. Its
  result is the constant `Forecasts`.
* The business case: arithmetic on totals of the modelled books.
* The CP-SAT and LP searches: libraries. Their results are any plan their
  constraints admit, optimal when they say so; hints and the warm start only speed
  them up.
* Contracts, adapters, schemas, pilot file intake: field validation and conversion.
* Restore rehearsals, benchmarks and probes other than `production_benchmark`, the
  dashboard's display: programs outside the system's operation.
* Run manifests, metadata files, hashes of bundles and lineage of input files:
  content, written in one step of a publication and read by people.
* Of a reschedule: the nervousness figures and the decision texts; of the closed
  loop: the arithmetic of variances and `record_execution_feedback`, which decides by
  two tolerances whether to report a breakdown.
* The safety stock, a standard deviation, and all percentages and roundings that are
  only displayed.
* Authentication of the API, read endpoints: no effect on the shared state.
* `freeze_canonical_reference`: called from tests only. Unlike its docstring says, it
  removes the target and then moves the new one there; the script that operators
  use is `freeze_reference.py`, which is modelled.
