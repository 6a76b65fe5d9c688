--------------------- MODULE ExecutionTracking_proofs ---------------------
(***************************************************************************)
(* Proofs about what comes back from the shop floor.  ExecutionTracking    *)
(* and PlantOperations: what MES reported never moves, tracking rows are   *)
(* explained by the ancestry of their run, late readers stay with real     *)
(* runs.  MessageReplay: the account of an operation is that of the set of *)
(* its events, and the buffered replay of a lot accepts exactly the        *)
(* manifests that are sound as a set.                                      *)
(***************************************************************************)
EXTENDS PlantOperations, MessageReplay, FiniteLemmas, SequenceTheorems

\* NoRun is not a run.
LEMMA RunNumbers ==
    /\ Runs \subseteq Nat \ {0} /\ NoRun = 0 /\ NoRun \notin Runs
    /\ \A r \in Runs : r + 1 \in 1..(MaxRun + 1)
  BY TrackingAssumption DEF Runs, NoRun

LEMMA PublishedRuns ==
    ASSUME TypeOK
    PROVE  Published = {r \in Runs : r < nextRun}
  <1>1. nextRun \in 1..(MaxRun + 1)
    BY DEF TypeOK
  <1> QED BY <1>1, TrackingAssumption DEF Published, Runs

-----------------------------------------------------------------------------
(* Types.                                                                  *)

LEMMA TypeInit == Init => TypeOK
  <1> SUFFICES ASSUME Init PROVE TypeOK
    OBVIOUS
  <1>1. PICK p \in Plans : plan = [r \in Runs |-> p]
    BY DEF Init
  <1>2. plan \in [Runs -> [Tasks -> Positions]]
    BY <1>1 DEF Plans
  <1>3. active \in Runs /\ nextRun \in 1..(MaxRun + 1)
    BY TrackingAssumption DEF Init, Runs
  <1> QED BY <1>2, <1>3 DEF Init, TypeOK, Untracked

LEMMA TypePipeline == TypeOK /\ PublishPipeline => TypeOK'
  <1> SUFFICES ASSUME TypeOK, PublishPipeline PROVE TypeOK'
    OBVIOUS
  <1>1. plan' \in [Runs -> [Tasks -> Positions]]
    BY DEF TypeOK, PublishPipeline, Plans
  <1>2. active' \in Runs /\ nextRun' \in 1..(MaxRun + 1)
    BY RunNumbers DEF TypeOK, PublishPipeline
  <1> QED BY <1>1, <1>2 DEF TypeOK, PublishPipeline, Untracked

LEMMA TypeReschedule ==
    ASSUME TypeOK, NEW now, NEW horizon, Reschedule(now, horizon)
    PROVE  TypeOK'
  <1>1. plan' \in [Runs -> [Tasks -> Positions]]
    BY DEF TypeOK, Reschedule, Plans
  <1>2. active' \in Runs /\ nextRun' \in 1..(MaxRun + 1)
    BY RunNumbers DEF TypeOK, Reschedule
  <1>3. FrozenTasks(active, now, horizon) \subseteq Tasks /\ Reported(active) \subseteq Tasks
    BY DEF TypeOK, FrozenTasks, FrozenNow, Reported
  <1>4. frozen' \in [Runs -> SUBSET Tasks] /\ underway' \in [Runs -> SUBSET Tasks]
    BY <1>3 DEF TypeOK, Reschedule
  <1>5. /\ tracking' \in [Runs -> [Tasks -> TrackingRows \cup {None}]]
        /\ baseline' \in [Runs -> Runs \cup {NoRun}]
    BY DEF TypeOK, Reschedule, TrackingCloned
  <1> QED BY <1>1, <1>2, <1>4, <1>5 DEF TypeOK, Reschedule

LEMMA TypeInitialize ==
    ASSUME TypeOK, NEW r, InitializeTracking(r)
    PROVE  TypeOK'
  <1>1. r \in Runs
    BY PublishedRuns DEF InitializeTracking
  <1>2. ASSUME NEW t \in Tasks
        PROVE  InsertOrIgnore(tracking[r][t], ScheduleOf(r)[t]) \in TrackingRows \cup {None}
    BY <1>1 DEF TypeOK, InsertOrIgnore, ScheduleOf, TrackingRows
  <1>3. tracking' \in [Runs -> [Tasks -> TrackingRows \cup {None}]]
    BY <1>2 DEF TypeOK, InitializeTracking
  <1> QED BY <1>1, <1>3 DEF TypeOK, InitializeTracking

LEMMA ReportedRow ==
    ASSUME TypeOK, NEW t \in Tasks, NEW status \in {"IN_PROGRESS", "COMPLETED"}, Report(t, status)
    PROVE  \E row \in TrackingRows :
              /\ row.position = tracking[active][t].position
              /\ row.status = status
              /\ tracking' = [tracking EXCEPT ![active] = [tracking[active] EXCEPT ![t] = row]]
  <1> DEFINE row == [tracking[active][t] EXCEPT !.status = status]
  <1>1. tracking[active][t] \in TrackingRows
    BY DEF TypeOK, Report, Tracked
  <1>2. row \in TrackingRows /\ row.position = tracking[active][t].position /\ row.status = status
    BY <1>1 DEF TrackingRows
  <1>3. tracking' = [tracking EXCEPT ![active] = [tracking[active] EXCEPT ![t] = row]]
    BY DEF Report
  <1> QED BY <1>2, <1>3

LEMMA TypeReport ==
    ASSUME TypeOK, NEW t \in Tasks, NEW status \in {"IN_PROGRESS", "COMPLETED"}, Report(t, status)
    PROVE  TypeOK'
  <1>1. PICK row \in TrackingRows :
            tracking' = [tracking EXCEPT ![active] = [tracking[active] EXCEPT ![t] = row]]
    BY ReportedRow
  <1>2. [tracking[active] EXCEPT ![t] = row] \in [Tasks -> TrackingRows \cup {None}]
    BY DEF TypeOK
  <1>3. tracking' \in [Runs -> [Tasks -> TrackingRows \cup {None}]]
    BY <1>1, <1>2 DEF TypeOK
  <1>4. committed' \in [Tasks -> Positions \cup {None}]
    BY DEF TypeOK, Report
  <1> QED BY <1>3, <1>4 DEF TypeOK, Report

LEMMA TypeStep == TypeOK /\ [Next]_vars => TypeOK'
  <1> SUFFICES ASSUME TypeOK, [Next]_vars PROVE TypeOK'
    OBVIOUS
  <1>1. CASE PublishPipeline
    BY <1>1, TypePipeline
  <1>2. ASSUME NEW now, NEW horizon, Reschedule(now, horizon) PROVE TypeOK'
    BY <1>2, TypeReschedule
  <1>3. ASSUME NEW r, InitializeTracking(r) PROVE TypeOK'
    BY <1>3, TypeInitialize
  <1>4. ASSUME NEW t \in Tasks, TaskStart(t) \/ TaskComplete(t) PROVE TypeOK'
    BY <1>4, TypeReport DEF TaskStart, TaskComplete
  <1>5. CASE UNCHANGED vars
    BY <1>5 DEF vars, TypeOK
  <1> QED BY <1>1, <1>2, <1>3, <1>4, <1>5 DEF Next

\* Every reachable state of the tracking model has its types.
THEOREM TrackingTyped == Spec => []TypeOK
  BY TypeInit, TypeStep, PTL DEF Spec

-----------------------------------------------------------------------------
(* The inductive invariant.                                                *)

\* Versions that are still to come have neither a past nor tracking rows, and
\* a version was made from an earlier one.
Fresh ==
    /\ active < nextRun
    /\ \A r \in Runs : baseline[r] # NoRun => baseline[r] < r /\ r < nextRun
    /\ \A r \in Runs, t \in Tasks : Tracked(r, t) => r < nextRun
    /\ \A r \in initialized : r < nextRun

\* What was reported is frozen in the ACTIVE version, or will be when the next
\* one is made, since its row was cloned with its status.
Committed ==
    \A t \in Tasks : committed[t] # None =>
        /\ plan[active][t] = committed[t]
        /\ t \in Reported(active) \cup frozen[active]

TrackingInv == TypeOK /\ Fresh /\ Committed /\ FrozenOnlyGrows /\ TrackingExplained

LEMMA InvInit == Init => TrackingInv
  <1> SUFFICES ASSUME Init PROVE TrackingInv
    OBVIOUS
  <1>1. Fresh /\ FrozenOnlyGrows /\ TrackingExplained
    BY RunNumbers DEF Init, Fresh, FrozenOnlyGrows, TrackingExplained, Tracked, Untracked
  <1>2. Committed
    BY DEF Init, Committed, Untracked
  <1> QED BY <1>1, <1>2, TypeInit DEF TrackingInv

\* Identifiers as numbers, which the steps below compare.
LEMMA Numbers ==
    ASSUME TypeOK
    PROVE  active \in Runs /\ active \in Nat /\ nextRun \in Nat /\ nextRun < nextRun + 1
  BY RunNumbers, TrackingAssumption DEF TypeOK

LEMMA FreshStep == TypeOK /\ Fresh /\ [Next]_vars => Fresh'
  <1> SUFFICES ASSUME TypeOK, Fresh, [Next]_vars PROVE Fresh'
    OBVIOUS
  <1>1. active \in Runs /\ active \in Nat /\ nextRun \in Nat /\ Runs \subseteq Nat
    BY Numbers, RunNumbers
  <1>2. CASE PublishPipeline
    BY <1>1, <1>2 DEF TypeOK, Fresh, PublishPipeline, Tracked
  <1>3. ASSUME NEW now, NEW horizon, Reschedule(now, horizon) PROVE Fresh'
    <2>1. baseline' = [baseline EXCEPT ![nextRun] = active] /\ nextRun' = nextRun + 1
          /\ active' = nextRun /\ initialized' = initialized /\ nextRun \in Runs
      BY <1>3 DEF Reschedule
    <2>2. \A r \in Runs : r # nextRun => tracking'[r] = tracking[r]
      BY <1>3 DEF TypeOK, Reschedule
    <2>3. ASSUME NEW r \in Runs, baseline'[r] # NoRun
          PROVE  baseline'[r] < r /\ r < nextRun'
      <3>1. CASE r = nextRun
        BY <1>1, <2>1, <3>1 DEF TypeOK, Fresh
      <3>2. CASE r # nextRun
        BY <1>1, <2>1, <2>3, <3>2 DEF TypeOK, Fresh
      <3> QED BY <3>1, <3>2
    <2>4. ASSUME NEW r \in Runs, NEW t \in Tasks, Tracked(r, t)'
          PROVE  r < nextRun'
      BY <1>1, <2>1, <2>2, <2>4 DEF Fresh, Tracked
    <2>5. \A r \in initialized' : r < nextRun'
      BY <1>1, <2>1 DEF TypeOK, Fresh
    <2> QED BY <1>1, <2>1, <2>3, <2>4, <2>5 DEF Fresh
  <1>4. ASSUME NEW r, InitializeTracking(r) PROVE Fresh'
    <2>1. r \in Runs /\ r < nextRun
      BY <1>4, PublishedRuns DEF InitializeTracking
    <2>2. \A q \in Runs : q # r => tracking'[q] = tracking[q]
      BY <1>4 DEF TypeOK, InitializeTracking
    <2> QED BY <1>1, <1>4, <2>1, <2>2 DEF TypeOK, Fresh, Tracked, InitializeTracking
  <1>5. ASSUME NEW t, NEW status, Report(t, status) PROVE Fresh'
    <2>1. \A q \in Runs : q # active => tracking'[q] = tracking[q]
      BY <1>5 DEF TypeOK, Report
    <2> QED BY <1>1, <1>5, <2>1 DEF TypeOK, Fresh, Tracked, Report
  <1>6. CASE UNCHANGED vars
    BY <1>6 DEF vars, Fresh, Tracked
  <1> QED BY <1>2, <1>3, <1>4, <1>5, <1>6 DEF Next, TaskStart, TaskComplete

-----------------------------------------------------------------------------
(* Committed: what MES reported stays where it was.                        *)

LEMMA CommittedReschedule ==
    ASSUME TypeOK, Committed, NEW now, NEW horizon, Reschedule(now, horizon)
    PROVE  Committed'
  <1> DEFINE kept == FrozenTasks(active, now, horizon)
  <1>1. PICK p \in Plans : /\ \A t \in kept : p[t] = plan[active][t]
                          /\ plan' = [plan EXCEPT ![nextRun] = p]
    BY DEF Reschedule
  <1>2. nextRun \in Runs /\ active' = nextRun /\ committed' = committed
        /\ frozen' = [frozen EXCEPT ![nextRun] = kept]
    BY DEF Reschedule
  <1>3. plan'[active'] = p /\ frozen'[active'] = kept
    BY <1>1, <1>2 DEF TypeOK
  <1>4. ASSUME NEW t \in Tasks, committed[t] # None
        PROVE  t \in kept /\ plan[active][t] = committed[t]
    BY <1>4 DEF Committed, FrozenTasks, FrozenNow
  <1> QED BY <1>1, <1>2, <1>3, <1>4 DEF Committed

LEMMA CommittedInitialize ==
    ASSUME TypeOK, Committed, NEW r, InitializeTracking(r)
    PROVE  Committed'
  <1>1. r \in Runs /\ active \in Runs
    BY PublishedRuns DEF InitializeTracking, TypeOK
  <1>2. ASSUME NEW t \in Tasks, Tracked(active, t)
        PROVE  tracking'[active][t] = tracking[active][t]
    BY <1>1, <1>2 DEF TypeOK, InitializeTracking, InsertOrIgnore, Tracked
  <1>3. Reported(active) \subseteq Reported(active)'
    BY <1>2 DEF Reported, Tracked, InitializeTracking
  <1> QED BY <1>3 DEF Committed, InitializeTracking

LEMMA CommittedReport ==
    ASSUME TypeOK, Committed, NEW t \in Tasks, NEW status \in {"IN_PROGRESS", "COMPLETED"},
           Report(t, status)
    PROVE  Committed'
  <1>1. PICK row \in TrackingRows :
            /\ row.status = status
            /\ tracking' = [tracking EXCEPT ![active] = [tracking[active] EXCEPT ![t] = row]]
    BY ReportedRow
  <1>2. row # None /\ row.status # "SCHEDULED"
    BY <1>1, TrackingAssumption
  <1>3. /\ tracking'[active][t] = row
        /\ \A u \in Tasks : u # t => tracking'[active][u] = tracking[active][u]
    BY <1>1 DEF TypeOK
  <1>4. t \in Reported(active)' /\ Reported(active) \subseteq Reported(active)'
    BY <1>2, <1>3 DEF Reported, Tracked, Report
  <1>5. \A u \in Tasks : committed'[u] # None =>
            \/ u = t /\ committed[t] = None /\ committed'[u] = plan[active][u]
            \/ committed'[u] = committed[u] /\ committed[u] # None
    BY DEF TypeOK, Report
  <1> QED BY <1>4, <1>5 DEF Committed, Report

LEMMA CommittedStep == TypeOK /\ Committed /\ [Next]_vars => Committed'
  <1> SUFFICES ASSUME TypeOK, Committed, [Next]_vars PROVE Committed'
    OBVIOUS
  <1>1. CASE PublishPipeline
    BY <1>1 DEF PublishPipeline, Committed, Untracked
  <1>2. ASSUME NEW now, NEW horizon, Reschedule(now, horizon) PROVE Committed'
    BY <1>2, CommittedReschedule
  <1>3. ASSUME NEW r, InitializeTracking(r) PROVE Committed'
    BY <1>3, CommittedInitialize
  <1>4. ASSUME NEW t \in Tasks, TaskStart(t) \/ TaskComplete(t) PROVE Committed'
    BY <1>4, CommittedReport DEF TaskStart, TaskComplete
  <1>5. CASE UNCHANGED vars
    BY <1>5 DEF vars, Committed, Reported, Tracked
  <1> QED BY <1>1, <1>2, <1>3, <1>4, <1>5 DEF Next

-----------------------------------------------------------------------------
(* FrozenOnlyGrows: a version keeps the frozen zone of the one it came from. *)

\* Publishing a version changes the plan and the frozen zone of no other.
LEMMA OthersStay ==
    ASSUME TypeOK, PublishPipeline \/ \E now \in Slots, horizon \in 0..1 : Reschedule(now, horizon)
    PROVE  \A r \in Runs : r # nextRun =>
               plan'[r] = plan[r] /\ frozen'[r] = frozen[r] /\ tracking'[r] = tracking[r]
                   /\ baseline'[r] = baseline[r]
  BY DEF TypeOK, PublishPipeline, Reschedule

LEMMA FrozenReschedule ==
    ASSUME TypeOK, Fresh, FrozenOnlyGrows,
           NEW now \in Slots, NEW horizon \in 0..1, Reschedule(now, horizon)
    PROVE  FrozenOnlyGrows'
  <1> DEFINE kept == FrozenTasks(active, now, horizon)
  <1> SUFFICES ASSUME NEW r \in Runs, baseline'[r] # NoRun, NEW t \in frozen'[baseline'[r]]
               PROVE  t \in frozen'[r] /\ plan'[r][t] = plan'[baseline'[r]][t]
    BY DEF FrozenOnlyGrows
  <1>1. PICK p \in Plans : /\ \A u \in kept : p[u] = plan[active][u]
                          /\ plan' = [plan EXCEPT ![nextRun] = p]
    BY DEF Reschedule
  <1>2. nextRun \in Runs /\ frozen' = [frozen EXCEPT ![nextRun] = kept]
        /\ baseline' = [baseline EXCEPT ![nextRun] = active]
    BY DEF Reschedule
  <1>3. active \in Runs /\ active # nextRun
    BY Numbers DEF TypeOK, Fresh
  <1>4. CASE r = nextRun
    <2>1. baseline'[r] = active /\ frozen'[active] = frozen[active]
      BY <1>2, <1>3, <1>4 DEF TypeOK
    <2>2. plan'[active] = plan[active] /\ plan'[r] = p /\ frozen'[r] = kept
      BY <1>1, <1>2, <1>3, <1>4 DEF TypeOK
    <2> QED BY <1>1, <2>1, <2>2 DEF FrozenTasks
  <1>5. CASE r # nextRun
    <2>1. baseline'[r] = baseline[r]
      BY <1>5, OthersStay
    <2>2. baseline[r] \in Runs
      BY <2>1 DEF TypeOK
    <2>3. baseline[r] < r /\ r < nextRun
      BY <2>1 DEF Fresh
    <2>4. baseline[r] # nextRun
      BY <2>2, <2>3, Numbers, RunNumbers
    <2> QED BY <1>5, <2>1, <2>2, <2>4, OthersStay DEF FrozenOnlyGrows
  <1> QED BY <1>4, <1>5

LEMMA FrozenStep == TypeOK /\ Fresh /\ FrozenOnlyGrows /\ [Next]_vars => FrozenOnlyGrows'
  <1> SUFFICES ASSUME TypeOK, Fresh, FrozenOnlyGrows, [Next]_vars PROVE FrozenOnlyGrows'
    OBVIOUS
  <1>1. CASE PublishPipeline
    <2> SUFFICES ASSUME NEW r \in Runs, baseline[r] # NoRun, NEW t \in frozen[baseline[r]]
                 PROVE  t \in frozen[r] /\ plan'[r][t] = plan'[baseline[r]][t]
      BY <1>1 DEF FrozenOnlyGrows, PublishPipeline
    <2>1. r # nextRun /\ baseline[r] \in Runs /\ baseline[r] # nextRun
      BY Numbers, RunNumbers DEF TypeOK, Fresh
    <2> QED BY <1>1, <2>1, OthersStay DEF FrozenOnlyGrows
  <1>2. ASSUME NEW now \in Slots, NEW horizon \in 0..1, Reschedule(now, horizon)
        PROVE  FrozenOnlyGrows'
    BY <1>2, FrozenReschedule
  <1>3. ASSUME NEW r, InitializeTracking(r) PROVE FrozenOnlyGrows'
    BY <1>3 DEF InitializeTracking, FrozenOnlyGrows
  <1>4. ASSUME NEW t \in Tasks, TaskStart(t) \/ TaskComplete(t) PROVE FrozenOnlyGrows'
    BY <1>4 DEF TaskStart, TaskComplete, Report, FrozenOnlyGrows
  <1>5. CASE UNCHANGED vars
    BY <1>5 DEF vars, FrozenOnlyGrows
  <1> QED BY <1>1, <1>2, <1>3, <1>4, <1>5 DEF Next

-----------------------------------------------------------------------------
(* TrackingExplained: the ancestry of a version.                           *)

\* A version descends from itself.
LEMMA AncestryOfSelf == \A r \in Runs : r \in Ancestry(r)
  BY DEF Ancestry

\* An ancestry is never cut: a past once written is kept.
LEMMA AncestryKept ==
    ASSUME \A q \in Runs : baseline[q] # NoRun => baseline'[q] = baseline[q], NEW r
    PROVE  Ancestry(r) \subseteq Ancestry(r)'
  <1>1. Ancestral' \subseteq Ancestral
    BY DEF Ancestral
  <1> QED BY <1>1 DEF Ancestry

\* A version descends from what the version it was made from descends from.
LEMMA AncestryGrows ==
    ASSUME TypeOK, Fresh, NEW now, NEW horizon, Reschedule(now, horizon),
           NEW r, r = nextRun, NEW base, base = active
    PROVE  Ancestry(base) \subseteq Ancestry(r)'
  <1>1. r \in Runs /\ baseline'[r] = base /\ base # NoRun
    BY Numbers, RunNumbers DEF TypeOK, Reschedule
  <1>2. baseline[r] = NoRun
    BY <1>1, Numbers DEF Fresh
  <1>3. \A q \in Runs : baseline[q] # NoRun => baseline'[q] = baseline[q]
    BY <1>2 DEF TypeOK, Reschedule
  <1>4. Ancestral' \subseteq Ancestral
    BY <1>3 DEF Ancestral
  <1>5. \A S \in Ancestral' : r \in S => base \in S
    BY <1>1 DEF Ancestral
  <1>6. ASSUME NEW q \in Ancestry(base), NEW S \in Ancestral', r \in S
        PROVE  q \in S
    BY <1>4, <1>5, <1>6 DEF Ancestry
  <1> QED BY <1>6 DEF Ancestry

\* A row that was explained stays explained.
LEMMA StillExplained ==
    ASSUME NEW r \in Runs, NEW t \in Tasks, NEW r2 \in Runs,
           \E q \in Ancestry(r) \cap initialized : tracking[r][t].position = plan[q][t],
           tracking'[r2][t].position = tracking[r][t].position,
           Ancestry(r) \subseteq Ancestry(r2)',
           initialized \subseteq initialized',
           \A q \in initialized : plan'[q] = plan[q]
    PROVE  \E q \in Ancestry(r2)' \cap initialized' : tracking'[r2][t].position = plan'[q][t]
  OBVIOUS

LEMMA ExplainedPipeline ==
    ASSUME TypeOK, Fresh, TrackingExplained, PublishPipeline
    PROVE  TrackingExplained'
  <1>1. \A q \in initialized : q \in Runs /\ q # nextRun
    BY Numbers, RunNumbers DEF TypeOK, Fresh
  <1>2. \A q \in initialized : plan'[q] = plan[q]
    BY <1>1, OthersStay
  <1>3. \A r : Ancestry(r) \subseteq Ancestry(r)'
    BY AncestryKept DEF PublishPipeline
  <1>4. ASSUME NEW r \in Runs, NEW t \in Tasks, Tracked(r, t)'
        PROVE  \E q \in Ancestry(r)' \cap initialized' : tracking'[r][t].position = plan'[q][t]
    <2>1. \E q \in Ancestry(r) \cap initialized : tracking[r][t].position = plan[q][t]
      BY <1>4 DEF TrackingExplained, Tracked, PublishPipeline
    <2>2. tracking' = tracking /\ initialized' = initialized
      BY DEF PublishPipeline
    <2> QED BY <1>2, <1>3, <2>1, <2>2
  <1> QED BY <1>4 DEF TrackingExplained

LEMMA ExplainedReschedule ==
    ASSUME TypeOK, Fresh, TrackingExplained,
           NEW now \in Slots, NEW horizon \in 0..1, Reschedule(now, horizon)
    PROVE  TrackingExplained'
  <1>1. \A q \in initialized : q \in Runs /\ q # nextRun
    BY Numbers, RunNumbers DEF TypeOK, Fresh
  <1>2. \A q \in initialized : plan'[q] = plan[q]
    BY <1>1, OthersStay
  <1>3. nextRun \in Runs /\ initialized' = initialized
        /\ tracking' = [tracking EXCEPT ![nextRun] = tracking[active]]
    BY DEF Reschedule, TrackingCloned
  <1>4. ASSUME NEW r \in Runs, NEW t \in Tasks, Tracked(r, t)'
        PROVE  \E q \in Ancestry(r)' \cap initialized' : tracking'[r][t].position = plan'[q][t]
    <2>1. CASE r = nextRun
      <3>1. active \in Runs /\ tracking'[r] = tracking[active]
        BY <1>3, <2>1, Numbers DEF TypeOK
      <3>2. \E q \in Ancestry(active) \cap initialized : tracking[active][t].position = plan[q][t]
        BY <1>4, <3>1 DEF TrackingExplained, Tracked
      <3>3. Ancestry(active) \subseteq Ancestry(r)'
        BY <2>1, AncestryGrows
      <3> QED BY <1>2, <1>3, <3>1, <3>2, <3>3
    <2>2. CASE r # nextRun
      <3>1. tracking'[r] = tracking[r]
        BY <2>2, OthersStay
      <3>2. \E q \in Ancestry(r) \cap initialized : tracking[r][t].position = plan[q][t]
        BY <1>4, <3>1 DEF TrackingExplained, Tracked
      <3>3. baseline[nextRun] = NoRun
        BY <1>3, Numbers DEF Fresh
      <3>4. \A q \in Runs : baseline[q] # NoRun => baseline'[q] = baseline[q]
        BY <3>3, OthersStay
      <3>5. Ancestry(r) \subseteq Ancestry(r)'
        BY <3>4, AncestryKept
      <3> QED BY <1>2, <1>3, <3>1, <3>2, <3>5
    <2> QED BY <2>1, <2>2
  <1> QED BY <1>4 DEF TrackingExplained

LEMMA ExplainedInitialize ==
    ASSUME TypeOK, TrackingExplained, NEW r, InitializeTracking(r)
    PROVE  TrackingExplained'
  <1>1. r \in Runs
    BY PublishedRuns DEF InitializeTracking
  <1>2. \A q : Ancestry(q) \subseteq Ancestry(q)'
    BY AncestryKept DEF InitializeTracking
  <1>3. plan' = plan /\ initialized' = initialized \cup {r}
    BY DEF InitializeTracking
  <1>4. ASSUME NEW s \in Runs, NEW t \in Tasks, Tracked(s, t)'
        PROVE  \E q \in Ancestry(s)' \cap initialized' : tracking'[s][t].position = plan'[q][t]
    <2>1. CASE Tracked(s, t)
      <3>1. tracking'[s][t] = tracking[s][t]
        BY <1>1, <2>1 DEF TypeOK, InitializeTracking, InsertOrIgnore, Tracked
      <3> QED BY <1>2, <1>3, <2>1, <3>1 DEF TrackingExplained
    <2>2. CASE ~Tracked(s, t)
      <3>1. s = r
        BY <1>4, <2>2 DEF TypeOK, InitializeTracking, Tracked
      <3>2. tracking'[s][t].position = plan[r][t]
        BY <1>1, <2>2, <3>1 DEF TypeOK, InitializeTracking, InsertOrIgnore, Tracked, ScheduleOf
      <3>3. r \in Ancestry(s)' \cap initialized'
        BY <1>1, <1>2, <1>3, <3>1, AncestryOfSelf
      <3> QED BY <1>3, <3>2, <3>3
    <2> QED BY <2>1, <2>2
  <1> QED BY <1>4 DEF TrackingExplained

LEMMA ExplainedReport ==
    ASSUME TypeOK, TrackingExplained,
           NEW t \in Tasks, NEW status \in {"IN_PROGRESS", "COMPLETED"}, Report(t, status)
    PROVE  TrackingExplained'
  <1>1. PICK row \in TrackingRows :
            /\ row.position = tracking[active][t].position
            /\ tracking' = [tracking EXCEPT ![active] = [tracking[active] EXCEPT ![t] = row]]
    BY ReportedRow
  <1>2. \A q : Ancestry(q) \subseteq Ancestry(q)'
    BY AncestryKept DEF Report
  <1>3. plan' = plan /\ initialized' = initialized
    BY DEF Report
  <1>4. ASSUME NEW s \in Runs, NEW u \in Tasks, Tracked(s, u)'
        PROVE  Tracked(s, u) /\ tracking'[s][u].position = tracking[s][u].position
    <2>1. CASE s = active /\ u = t
      BY <1>1, <2>1 DEF TypeOK, Report
    <2>2. CASE ~(s = active /\ u = t)
      BY <1>1, <1>4, <2>2 DEF TypeOK, Tracked
    <2> QED BY <2>1, <2>2
  <1> QED BY <1>2, <1>3, <1>4 DEF TrackingExplained

LEMMA ExplainedStep ==
    TypeOK /\ Fresh /\ TrackingExplained /\ [Next]_vars => TrackingExplained'
  <1> SUFFICES ASSUME TypeOK, Fresh, TrackingExplained, [Next]_vars PROVE TrackingExplained'
    OBVIOUS
  <1>1. CASE PublishPipeline
    BY <1>1, ExplainedPipeline
  <1>2. ASSUME NEW now \in Slots, NEW horizon \in 0..1, Reschedule(now, horizon)
        PROVE  TrackingExplained'
    BY <1>2, ExplainedReschedule
  <1>3. ASSUME NEW r, InitializeTracking(r) PROVE TrackingExplained'
    BY <1>3, ExplainedInitialize
  <1>4. ASSUME NEW t \in Tasks, TaskStart(t) \/ TaskComplete(t) PROVE TrackingExplained'
    BY <1>4, ExplainedReport DEF TaskStart, TaskComplete
  <1>5. CASE UNCHANGED vars
    BY <1>5 DEF vars, TrackingExplained, Tracked, Ancestry, Ancestral
  <1> QED BY <1>1, <1>2, <1>3, <1>4, <1>5 DEF Next

-----------------------------------------------------------------------------
(* The theorems.                                                           *)

LEMMA InvStep == TrackingInv /\ [Next]_vars => TrackingInv'
  BY TypeStep, FreshStep, CommittedStep, FrozenStep, ExplainedStep DEF TrackingInv

LEMMA TrackingInductive == Spec => []TrackingInv
  BY InvInit, InvStep, PTL DEF Spec

\* What MES reported as begun or done stays where it was when it was reported,
\* through any chain of reschedules.
THEOREM ReportedWorkStays == Spec => []CommittedNeverMoves
  <1>1. TrackingInv => CommittedNeverMoves
    BY DEF TrackingInv, Committed, CommittedNeverMoves
  <1> QED BY <1>1, TrackingInductive, PTL

\* No reschedule releases what the version it started from had frozen.
THEOREM FrozenZoneGrows == Spec => []FrozenOnlyGrows
  <1>1. TrackingInv => FrozenOnlyGrows
    BY DEF TrackingInv
  <1> QED BY <1>1, TrackingInductive, PTL

\* A tracking row comes from a loaded run its own run descends from.
THEOREM TrackingRowsExplained == Spec => []TrackingExplained
  <1>1. TrackingInv => TrackingExplained
    BY DEF TrackingInv
  <1> QED BY <1>1, TrackingInductive, PTL

-----------------------------------------------------------------------------
(* PlantOperations: the plant's steps are the tracking model's, so all that *)
(* is proved of the latter holds of the former.                            *)

LEMMA PlantStepIsStep == [PlantNext]_plantVars => [Next]_vars
  <1> SUFFICES ASSUME PlantNext \/ UNCHANGED plantVars PROVE Next \/ UNCHANGED vars
    OBVIOUS
  <1>1. CASE \E now \in Slots, horizon \in 0..1 : BreakdownRescheduled(now, horizon)
    BY <1>1 DEF BreakdownRescheduled, Next
  <1> QED BY <1>1 DEF PlantNext, plantVars, OpenFacade, BreakdownUnsolved, BreakdownSandboxed,
                      TakeSnapshot, EvaluateScenario, FinishComparison

\* Pipelines, breakdowns and comparisons together still are a run of the
\* tracking model: nothing the late readers do is a step of their own on it.
THEOREM PlantTracks == PlantSpec => Spec
  <1>1. PlantInit => Init
    BY DEF PlantInit
  <1> QED BY <1>1, PlantStepIsStep, PTL DEF PlantSpec, Spec

\* What the facade holds was published, and a comparison that has no snapshot
\* has no results.
PlantInv ==
    /\ TypeOK
    /\ facade \in Published \cup {NoRun}
    /\ breakdowns \subseteq Published
    /\ IF snapshot = NoRun THEN compared = {} ELSE compared \subseteq {snapshot}

LEMMA PlantInvInit == PlantInit => PlantInv
  BY TypeInit DEF PlantInit, PlantInv

\* Versions are only ever added.
LEMMA PublishedGrows == TypeOK /\ TypeOK' /\ [Next]_vars => Published \subseteq Published'
  <1> SUFFICES ASSUME TypeOK, TypeOK', [Next]_vars PROVE Published \subseteq Published'
    OBVIOUS
  <1>1. nextRun \in Nat /\ nextRun' \in Nat
    BY Numbers, TrackingAssumption DEF TypeOK
  <1>2. nextRun' = nextRun \/ nextRun' = nextRun + 1
    BY DEF Next, vars, PublishPipeline, Reschedule, InitializeTracking, TaskStart, TaskComplete, Report
  <1>3. nextRun <= nextRun'
    BY <1>1, <1>2
  <1>4. Published = 1..(nextRun - 1) /\ Published' = 1..(nextRun' - 1)
    BY DEF Published
  <1>5. ASSUME NEW m \in Nat, NEW n \in Nat, m <= n PROVE 1..(m - 1) \subseteq 1..(n - 1)
    BY <1>5
  <1> QED BY <1>1, <1>3, <1>4, <1>5

LEMMA PlantInvStep == PlantInv /\ [PlantNext]_plantVars => PlantInv'
  <1> SUFFICES ASSUME PlantInv, [PlantNext]_plantVars PROVE PlantInv'
    OBVIOUS
  <1>1. TypeOK' /\ Published \subseteq Published'
    BY PlantStepIsStep, TypeStep, PublishedGrows DEF PlantInv
  <1>2. CASE UNCHANGED <<facade, breakdowns, snapshot, compared>>
    BY <1>1, <1>2 DEF PlantInv
  <1>3. ASSUME NEW r, OpenFacade(r) PROVE PlantInv'
    BY <1>1, <1>3 DEF PlantInv, OpenFacade
  <1>4. ASSUME NEW now, NEW horizon, BreakdownRescheduled(now, horizon) PROVE PlantInv'
    <2>1. nextRun \in Published'
      <3>1. nextRun' = nextRun + 1 /\ nextRun \in Runs
        BY <1>4 DEF BreakdownRescheduled, Reschedule
      <3> QED BY <3>1, RunNumbers DEF Published
    <2> QED BY <1>1, <1>4, <2>1 DEF PlantInv, BreakdownRescheduled, CacheCommitted
  <1>5. CASE BreakdownUnsolved
    BY <1>1, <1>5 DEF PlantInv, BreakdownUnsolved
  <1>6. CASE BreakdownSandboxed
    BY <1>1, <1>6 DEF PlantInv, BreakdownSandboxed, CacheCommitted
  <1>7. CASE TakeSnapshot
    BY <1>1, <1>7 DEF PlantInv, TakeSnapshot
  <1>8. CASE EvaluateScenario
    BY <1>1, <1>8 DEF PlantInv, EvaluateScenario, ActiveInCopy
  <1>9. CASE FinishComparison
    BY <1>1, <1>9 DEF PlantInv, FinishComparison
  <1> QED BY <1>2, <1>3, <1>4, <1>5, <1>6, <1>7, <1>8, <1>9 DEF PlantNext, plantVars

\* Breakdowns name real runs and a comparison's results come from one run.
THEOREM LateReadersReadOneRun == PlantSpec => []LateReadersConsistent
  <1>1. PlantInv => LateReadersConsistent
    BY DEF PlantInv, LateReadersConsistent
  <1> QED BY <1>1, PlantInvInit, PlantInvStep, PTL DEF PlantSpec

\* In the plant as a whole, too, reported work stays, the frozen zone grows and
\* tracking rows are explained.
THEOREM PlantKeepsItsWord ==
    PlantSpec => [](CommittedNeverMoves /\ FrozenOnlyGrows /\ TrackingExplained)
  BY PlantTracks, ReportedWorkStays, FrozenZoneGrows, TrackingRowsExplained, PTL


-----------------------------------------------------------------------------
(* Sequences that grow at the end, and functions that learn.               *)

LEMMA AppendFacts ==
    ASSUME NEW S, NEW s \in Seq(S), NEW x \in S
    PROVE  /\ Append(s, x) \in Seq(S) /\ Len(s) \in Nat
           /\ Len(Append(s, x)) = Len(s) + 1
           /\ DOMAIN s = 1..Len(s) /\ DOMAIN Append(s, x) = 1..Len(s) \cup {Len(s) + 1}
           /\ \A i \in 1..Len(s) : Append(s, x)[i] = s[i] /\ s[i] \in S
           /\ Append(s, x)[Len(s) + 1] = x
  OBVIOUS

LEMMA NumbersUpTo ==
    ASSUME NEW n \in Nat
    PROVE  IsFiniteSet(1..n) /\ Cardinality(1..n) = n
  <1>1. 1 \in Int /\ n \in Int
    OBVIOUS
  <1>2. IsFiniteSet(1..n)
    BY <1>1, FS_Interval
  <1>3. Cardinality(1..n) = IF 1 > n THEN 0 ELSE n - 1 + 1
    BY <1>1, FS_Interval
  <1>4. (IF 1 > n THEN 0 ELSE n - 1 + 1) = n
    OBVIOUS
  <1> QED BY <1>2, <1>3, <1>4

LEMMA AppendRange ==
    ASSUME NEW S, NEW s \in Seq(S), NEW x \in S
    PROVE  Range(Append(s, x)) = Range(s) \cup {x} /\ IsFiniteSet(Range(s)) /\ Range(s) \subseteq S
  <1>1. Len(s) + 1 \notin 1..Len(s)
    BY AppendFacts
  <1>2. Range(Append(s, x)) = Range(s) \cup {x} /\ Range(s) \subseteq S
    BY <1>1, AppendFacts DEF Range
  <1>3. IsFiniteSet(Range(s))
    <2>1. IsFiniteSet(1..Len(s))
      BY AppendFacts, NumbersUpTo
    <2>2. s \in Surjection(1..Len(s), Range(s))
      BY AppendFacts DEF Range, Surjection
    <2> QED BY <2>1, <2>2, FS_Surjection
  <1> QED BY <1>2, <1>3

-----------------------------------------------------------------------------
(* replay_execution: the account of one operation.                         *)

LEMMA PiecesFacts ==
    ASSUME NEW S, IsFiniteSet(S), NEW e, e \notin S, e.quantity \in Nat,
           \A x \in S : x.quantity \in Nat
    PROVE  /\ IsFiniteSet(Pieces(S)) /\ Cardinality(Pieces(S)) \in Nat
           /\ Cardinality(Pieces(S \cup {e})) = Cardinality(Pieces(S)) + e.quantity
  <1> DEFINE own(x) == {x} \X (1..x.quantity)
             parts == [x \in S |-> own(x)]
  <1>1. ASSUME NEW x, x.quantity \in Nat
        PROVE  IsFiniteSet(own(x)) /\ Cardinality(own(x)) = x.quantity
    <2>1. IsFiniteSet(1..x.quantity) /\ Cardinality(1..x.quantity) = x.quantity
      BY <1>1, NumbersUpTo
    <2>2. IsFiniteSet({x}) /\ Cardinality({x}) = 1
      BY FS_Singleton
    <2> QED BY <1>1, <2>1, <2>2, FS_Product
  <1>2. IsFiniteSet(Pieces(S))
    <2>1. parts \in Surjection(S, {own(x) : x \in S})
      BY DEF Surjection
    <2>2. IsFiniteSet({own(x) : x \in S})
      BY <2>1, FS_Surjection
    <2>3. \A T \in {own(x) : x \in S} : IsFiniteSet(T)
      BY <1>1
    <2>4. IsFiniteSet(UNION {own(x) : x \in S})
      BY <2>2, <2>3, FS_UNION
    <2> QED BY <2>4 DEF Pieces
  <1>3. Pieces(S \cup {e}) = Pieces(S) \cup own(e)
    BY DEF Pieces
  <1>4. Pieces(S) \cap own(e) = {}
    BY DEF Pieces
  <1>5. Cardinality(Pieces(S)) \in Nat
    BY <1>2, FS_CardinalityType
  <1> HIDE DEF own
  <1>6. Cardinality(Pieces(S) \cup own(e))
            = Cardinality(Pieces(S)) + Cardinality(own(e)) - Cardinality(Pieces(S) \cap own(e))
    BY <1>1, <1>2, FS_Union
  <1>7. Cardinality(own(e)) = e.quantity /\ Cardinality(Pieces(S) \cap own(e)) = 0
    BY <1>1, <1>4, FS_EmptySet
  <1>8. PICK a \in Nat, b \in Nat : a = Cardinality(Pieces(S)) /\ b = e.quantity
    BY <1>5
  <1>9. Cardinality(Pieces(S \cup {e})) = a + b - 0
    BY <1>3, <1>6, <1>7, <1>8
  <1> QED BY <1>2, <1>5, <1>8, <1>9

EventIds == {e.id : e \in FloorEvents}
States == {"NOT_STARTED", "RUNNING", "INTERRUPTED", "COMPLETED"}

AccountTypes ==
    /\ occurred \in Seq(FloorEvents)
    /\ account \in [rejected : BOOLEAN, state : States, good : Nat, scrap : Nat,
                    seen : UNION {[ids -> FloorEvents] : ids \in SUBSET EventIds}, last : Nat]

\* What is remembered is the set of the events read so far.
EventsRemembered ==
    /\ DOMAIN account.seen = {e.id : e \in Range(occurred)}
    /\ \A e \in Range(occurred) : account.seen[e.id] = e

AccountInv ==
    /\ AccountTypes
    /\ ~account.rejected => EventsRemembered /\ AccountBalances

LEMMA NothingOccurred == occurred = <<>> /\ account = NotStarted => AccountInv
  <1> SUFFICES ASSUME occurred = <<>>, account = NotStarted PROVE AccountInv
    OBVIOUS
  <1>1. Range(occurred) = {}
    BY DEF Range
  <1>2. NothingSeen \in UNION {[ids -> FloorEvents] : ids \in SUBSET EventIds} /\ DOMAIN NothingSeen = {}
    <2>1. NothingSeen \in [{} -> FloorEvents]
      BY DEF NothingSeen
    <2> QED BY <2>1
  <1>3. AccountTypes
    <2>1. account.seen = NothingSeen
      BY DEF NotStarted
    <2>2. occurred \in Seq(FloorEvents)
      OBVIOUS
    <2>3. account \in [rejected : BOOLEAN, state : States, good : Nat, scrap : Nat,
                      seen : {NothingSeen}, last : Nat]
      BY DEF NotStarted, States
    <2> HIDE DEF NothingSeen
    <2> QED BY <1>2, <2>2, <2>3 DEF AccountTypes
  <1>4. EventsRemembered
    BY <1>1, <1>2 DEF EventsRemembered, NotStarted
  <1>5. Units("PRODUCE") = 0 /\ Units("SCRAP") = 0 /\ Count("INTERRUPT") = 0 /\ Count("RESUME") = 0
    BY <1>1, FS_EmptySet DEF Units, Pieces, Count
  <1>6. AccountBalances
    BY <1>5, ReplayAssumption DEF AccountBalances, NotStarted
  <1> QED BY <1>3, <1>4, <1>6 DEF AccountInv

\* The events of one type, before and after a new event is read.
OfType(S, type) == {e \in S : e.type = type}

LEMMA NewEvent ==
    ASSUME AccountTypes, NEW e \in FloorEvents, e \notin Range(occurred),
           occurred' = Append(occurred, e), NEW type
    PROVE  /\ Units(type) \in Nat /\ Count(type) \in Nat
           /\ Units(type)' = IF e.type = type THEN Units(type) + e.quantity ELSE Units(type)
           /\ Count(type)' = IF e.type = type THEN Count(type) + 1 ELSE Count(type)
  <1> DEFINE old == OfType(Range(occurred), type)
  <1>1. /\ Range(occurred)' = Range(occurred) \cup {e}
        /\ IsFiniteSet(Range(occurred)) /\ Range(occurred) \subseteq FloorEvents
    BY AppendRange DEF AccountTypes
  <1>2. IsFiniteSet(old) /\ e \notin old /\ \A x \in old : x \in FloorEvents
    <2>1. old \in SUBSET Range(occurred)
      BY DEF OfType
    <2> QED BY <1>1, <2>1, FS_Subset DEF OfType
  <1>3. OfType(Range(occurred)', type) = IF e.type = type THEN old \cup {e} ELSE old
    BY <1>1 DEF OfType
  <1>4. /\ Units(type) = Cardinality(Pieces(old)) /\ Count(type) = Cardinality(old)
        /\ Units(type)' = Cardinality(Pieces(OfType(Range(occurred)', type)))
        /\ Count(type)' = Cardinality(OfType(Range(occurred)', type))
    BY DEF Units, Count, OfType, Pieces
  <1> HIDE DEF old
  <1>5. e.quantity \in Nat /\ \A x \in old : x.quantity \in Nat
    BY <1>2, ReplayAssumption
  <1>6. /\ Cardinality(Pieces(old)) \in Nat
        /\ Cardinality(Pieces(old \cup {e})) = Cardinality(Pieces(old)) + e.quantity
    BY <1>2, <1>5, PiecesFacts
  <1>7. Cardinality(old) \in Nat /\ Cardinality(old \cup {e}) = Cardinality(old) + 1
    BY <1>2, FS_AddElement, FS_CardinalityType
  <1> QED BY <1>3, <1>4, <1>6, <1>7

\* A legal event is one that was not read before, and changes the account so.
LEMMA LegalFacts ==
    ASSUME AccountTypes, NEW e \in FloorEvents, OccurLegally(e)
    PROVE  /\ account'.rejected = account.rejected
           /\ account'.seen = Learn(account.seen, e.id, e)
           /\ account'.good = IF e.type = "PRODUCE" THEN account.good + e.quantity ELSE account.good
           /\ account'.scrap = IF e.type = "SCRAP" THEN account.scrap + e.quantity ELSE account.scrap
           /\ account'.last = e.at
           /\ \/ /\ e.type \in Quantities /\ account'.state = account.state /\ account.state = "RUNNING"
                 /\ account.good + account.scrap + e.quantity <= PlannedUnits
              \/ /\ e.type \notin Quantities
                 /\ <<account.state, e.type, account'.state>> \in Transitions
                 /\ e.type = "COMPLETE" => account.good + account.scrap = PlannedUnits
  <1>1. PICK next : next = CHOOSE s \in Targets(e) : TRUE
    OBVIOUS
  <1>2. account' = [account EXCEPT
            !.good = IF e.type = "PRODUCE" THEN account.good + e.quantity ELSE account.good,
            !.scrap = IF e.type = "SCRAP" THEN account.scrap + e.quantity ELSE account.scrap,
            !.state = IF e.type \in Quantities THEN account.state ELSE next,
            !.seen = Learn(account.seen, e.id, e),
            !.last = e.at]
    BY <1>1 DEF OccurLegally, Remembered
  <1>3. /\ account'.rejected = account.rejected
        /\ account'.seen = Learn(account.seen, e.id, e)
        /\ account'.good = IF e.type = "PRODUCE" THEN account.good + e.quantity ELSE account.good
        /\ account'.scrap = IF e.type = "SCRAP" THEN account.scrap + e.quantity ELSE account.scrap
        /\ account'.state = IF e.type \in Quantities THEN account.state ELSE next
        /\ account'.last = e.at
    BY <1>2 DEF AccountTypes
  <1>4. CASE e.type \in Quantities
    BY <1>3, <1>4 DEF OccurLegally, Legal
  <1>5. CASE e.type \notin Quantities
    <2>1. Targets(e) # {}
      BY <1>5 DEF OccurLegally, Legal
    <2>2. next \in Targets(e)
      BY <1>1, <2>1
    <2>3. <<account.state, e.type, next>> \in Transitions
      BY <2>2 DEF Targets, Transitions
    <2> QED BY <1>3, <1>5, <2>3 DEF OccurLegally, Legal
  <1> QED BY <1>3, <1>4, <1>5

LEMMA LearnedTypes ==
    ASSUME AccountTypes, NEW e \in FloorEvents
    PROVE  Learn(account.seen, e.id, e) \in UNION {[ids -> FloorEvents] : ids \in SUBSET EventIds}
  <1>1. PICK ids \in SUBSET EventIds : account.seen \in [ids -> FloorEvents]
    BY DEF AccountTypes
  <1>2. e.id \in EventIds
    BY DEF EventIds
  <1>3. Learn(account.seen, e.id, e) \in [ids \cup {e.id} -> FloorEvents]
    BY <1>1 DEF Learn
  <1> QED BY <1>2, <1>3

LEMMA LegalTypes ==
    ASSUME AccountTypes, NEW e \in FloorEvents, OccurLegally(e)
    PROVE  account' \in [rejected : BOOLEAN, state : States, good : Nat, scrap : Nat,
                seen : UNION {[ids -> FloorEvents] : ids \in SUBSET EventIds}, last : Nat]
  <1>1. /\ account'.rejected \in BOOLEAN /\ account'.good \in Nat /\ account'.scrap \in Nat
        /\ account'.last \in Nat
    <2>1. e.at \in Nat /\ e.quantity \in Nat
      BY ReplayAssumption
    <2>2. PICK good \in Nat, scrap \in Nat, q \in Nat :
            good = account.good /\ scrap = account.scrap /\ q = e.quantity
      BY <2>1 DEF AccountTypes
    <2>3. good + q \in Nat /\ scrap + q \in Nat
      OBVIOUS
    <2> QED BY <2>1, <2>2, <2>3, LegalFacts DEF AccountTypes
  <1>2. account'.seen \in UNION {[ids -> FloorEvents] : ids \in SUBSET EventIds}
    BY LegalFacts, LearnedTypes
  <1>3. account'.state \in States
    <2>1. CASE account'.state = account.state
      BY <2>1 DEF AccountTypes
    <2>2. CASE <<account.state, e.type, account'.state>> \in Transitions
      BY <2>2 DEF Transitions, States
    <2> QED BY <2>1, <2>2, LegalFacts
  <1>4. account' = [rejected |-> account'.rejected, state |-> account'.state, good |-> account'.good,
                    scrap |-> account'.scrap, seen |-> account'.seen, last |-> account'.last]
    BY DEF OccurLegally, AccountTypes
  <1> QED BY <1>1, <1>2, <1>3, <1>4

LEMMA InvOccurLegally ==
    ASSUME AccountInv, ~account.rejected, NEW e \in FloorEvents, OccurLegally(e),
           occurred' = Append(occurred, e)
    PROVE  AccountInv'
  <1>1. AccountTypes /\ EventsRemembered /\ AccountBalances
    BY DEF AccountInv
  <1>2. e \notin Range(occurred)
    BY <1>1 DEF OccurLegally, Legal, EventsRemembered
  <1>3. AccountTypes'
    BY <1>1, LegalTypes, AppendFacts DEF AccountTypes
  <1>4. Range(occurred)' = Range(occurred) \cup {e}
    BY <1>1, AppendRange DEF AccountTypes
  <1>5. EventsRemembered'
    <2>1. /\ DOMAIN account'.seen = DOMAIN account.seen \cup {e.id}
          /\ account'.seen[e.id] = e
          /\ \A i \in DOMAIN account.seen \ {e.id} : account'.seen[i] = account.seen[i]
      <3>1. PICK f, g : f = account.seen /\ g = account'.seen
        OBVIOUS
      <3>2. g = Learn(f, e.id, e)
        BY <1>1, <3>1, LegalFacts
      <3>3. DOMAIN g = DOMAIN f \cup {e.id} /\ g[e.id] = e /\ \A i \in DOMAIN f \ {e.id} : g[i] = f[i]
        BY <3>2 DEF Learn
      <3> QED BY <3>1, <3>3
    <2>2. DOMAIN account'.seen = {x.id : x \in Range(occurred)'}
      BY <1>1, <1>4, <2>1 DEF EventsRemembered
    <2>3. ASSUME NEW x \in Range(occurred)' PROVE account'.seen[x.id] = x
      <3>1. CASE x = e
        BY <2>1, <3>1
      <3>2. CASE x # e
        <4>1. x \in Range(occurred) /\ x.id \in DOMAIN account.seen /\ x.id # e.id
          BY <1>1, <1>4, <3>2 DEF EventsRemembered, OccurLegally, Legal
        <4> QED BY <1>1, <2>1, <4>1 DEF EventsRemembered
      <3> QED BY <3>1, <3>2
    <2> QED BY <2>2, <2>3 DEF EventsRemembered
  <1>6. e.quantity \in Nat
    BY ReplayAssumption
  <1>7. /\ account.good = Units("PRODUCE") /\ account.scrap = Units("SCRAP")
        /\ account.good + account.scrap <= PlannedUnits
        /\ account.state = "COMPLETED" => account.good + account.scrap = PlannedUnits
        /\ Count("INTERRUPT") =
                Count("RESUME") + (IF account.state = "INTERRUPTED" THEN 1 ELSE 0)
        /\ account.good \in Nat /\ account.scrap \in Nat
    BY <1>1 DEF AccountInv, AccountBalances, AccountTypes
  <1>8. account'.good = Units("PRODUCE")' /\ account'.scrap = Units("SCRAP")'
    BY <1>1, <1>2, <1>7, LegalFacts, NewEvent
  <1>9. Count("RESUME") \in Nat /\ Count("INTERRUPT") \in Nat
    BY <1>1, <1>2, NewEvent
  <1>10. PICK a \in Nat, b \in Nat : a = account'.good /\ b = account'.scrap
    BY <1>3 DEF AccountTypes
  <1>11. /\ a + b <= PlannedUnits
         /\ account'.state = "COMPLETED" => a + b = PlannedUnits
    <2>1. CASE e.type \in Quantities
      <3>1. a + b = account.good + account.scrap + e.quantity
        <4>1. PICK g \in Nat, c \in Nat, q \in Nat :
                g = account.good /\ c = account.scrap /\ q = e.quantity
          BY <1>6, <1>7
        <4>2. \/ e.type = "PRODUCE" /\ a = g + q /\ b = c
              \/ e.type = "SCRAP" /\ a = g /\ b = c + q
          BY <1>1, <1>10, <2>1, <4>1, LegalFacts DEF Quantities
        <4>3. a + b = (g + c) + q
          BY <4>2
        <4> QED BY <4>1, <4>3
      <3>2. /\ account.good + account.scrap + e.quantity <= PlannedUnits
            /\ account'.state = "RUNNING"
        BY <1>1, <2>1, LegalFacts
      <3> QED BY <3>1, <3>2
    <2>2. CASE e.type \notin Quantities
      <3>1. a = account.good /\ b = account.scrap
        BY <1>1, <1>10, <2>2, LegalFacts DEF Quantities
      <3>2. <<account.state, e.type, account'.state>> \in Transitions
            /\ (e.type = "COMPLETE" => account.good + account.scrap = PlannedUnits)
        BY <1>1, <2>2, LegalFacts
      <3>3. account'.state = "COMPLETED" => e.type = "COMPLETE"
        BY <3>2 DEF Transitions
      <3> QED BY <1>7, <3>1, <3>2, <3>3
    <2> QED BY <2>1, <2>2
  <1>12. Count("INTERRUPT")' =
            Count("RESUME")' + (IF account'.state = "INTERRUPTED" THEN 1 ELSE 0)
    <2>1. /\ Count("INTERRUPT")' = IF e.type = "INTERRUPT" THEN Count("INTERRUPT") + 1 ELSE Count("INTERRUPT")
          /\ Count("RESUME")' = IF e.type = "RESUME" THEN Count("RESUME") + 1 ELSE Count("RESUME")
      BY <1>1, <1>2, NewEvent
    <2>2. CASE e.type \in Quantities
      BY <1>1, <1>7, <2>1, <2>2, LegalFacts DEF Quantities
    <2>3. CASE e.type \notin Quantities
      <3>1. <<account.state, e.type, account'.state>> \in Transitions
        BY <1>1, <2>3, LegalFacts
      <3>2. \/ account.state = "NOT_STARTED" /\ e.type = "START" /\ account'.state = "RUNNING"
            \/ account.state = "RUNNING" /\ e.type = "INTERRUPT" /\ account'.state = "INTERRUPTED"
            \/ account.state = "INTERRUPTED" /\ e.type = "RESUME" /\ account'.state = "RUNNING"
            \/ account.state = "RUNNING" /\ e.type = "COMPLETE" /\ account'.state = "COMPLETED"
        BY <3>1 DEF Transitions
      <3> QED BY <1>7, <1>9, <2>1, <3>2
    <2> QED BY <2>2, <2>3
  <1>13. AccountBalances'
    BY <1>8, <1>10, <1>11, <1>12 DEF AccountBalances
  <1> QED BY <1>3, <1>5, <1>13 DEF AccountInv

\* What does not touch the set of the events leaves the balance alone.
LEMMA SameEvents ==
    ASSUME AccountInv, account' = account, Range(occurred)' = Range(occurred),
           occurred' \in Seq(FloorEvents)
    PROVE  AccountInv'
  <1>1. \A type : Units(type)' = Units(type) /\ Count(type)' = Count(type)
    BY DEF Units, Count, Pieces
  <1> QED BY <1>1 DEF AccountInv, AccountTypes, EventsRemembered, AccountBalances

LEMMA AccountStep == AccountInv /\ [ReplayNext]_replayVars => AccountInv'
  <1> SUFFICES ASSUME AccountInv, [ReplayNext]_replayVars PROVE AccountInv'
    OBVIOUS
  <1>1. AccountTypes
    BY DEF AccountInv
  <1>2. CASE UNCHANGED <<occurred, account>>
    <2>1. Range(occurred)' = Range(occurred) /\ occurred' \in Seq(FloorEvents)
      BY <1>1, <1>2 DEF AccountTypes
    <2> QED BY <1>2, <2>1, SameEvents
  <1>3. ASSUME NEW e \in FloorEvents, Occur(e) PROVE AccountInv'
    <2>1. ~account.rejected /\ occurred' = Append(occurred, e)
      BY <1>3 DEF Occur
    <2>2. occurred' \in Seq(FloorEvents) /\ Range(occurred)' = Range(occurred) \cup {e}
      BY <1>1, <2>1, AppendFacts, AppendRange DEF AccountTypes
    <2>3. CASE OccurLegally(e)
      BY <2>1, <2>3, InvOccurLegally
    <2>4. CASE OccurAgain(e)
      <3>1. e \in Range(occurred) /\ account' = account
        BY <2>1, <2>4 DEF OccurAgain, Known, AccountInv, EventsRemembered
      <3>2. Range(occurred)' = Range(occurred)
        BY <2>2, <3>1
      <3> QED BY <2>2, <3>1, <3>2, SameEvents
    <2>5. CASE OccurRefused(e)
      <3>1. account' = [account EXCEPT !.rejected = TRUE]
        BY <2>5 DEF OccurRefused
      <3> QED BY <1>1, <2>2, <3>1 DEF AccountInv, AccountTypes
    <2> QED BY <1>3, <2>3, <2>4, <2>5 DEF Occur
  <1>4. CASE EndExecutionReplay
    <2>1. (occurred = <<>> /\ account = NotStarted)'
      BY <1>4 DEF EndExecutionReplay, NotStarted, NothingSeen
    <2>2. (occurred = <<>> /\ account = NotStarted)' => AccountInv'
      BY NothingOccurred, PTL
    <2> QED BY <2>1, <2>2
  <1>5. CASE EndLocalReplay \/ (\E m \in Envelopes : Deliver(m)) \/ UNCHANGED replayVars
    BY <1>2, <1>5 DEF EndLocalReplay, Deliver, replayVars
  <1> QED BY <1>3, <1>4, <1>5 DEF ReplayNext

LEMMA AccountInit == ReplayInit => AccountInv
  BY NothingOccurred DEF ReplayInit

\* What replay_execution reports is the account of the set of the events it read,
\* however often an event was repeated: each quantity is counted once, no more
\* units than planned are made, completion means exactly the plan, and no
\* interruption but the last is open.
THEOREM AccountIsOfTheEvents == ReplaySpec => []AccountBalances
  <1>1. AccountInv => AccountBalances
    BY DEF AccountInv, AccountBalances
  <1> QED BY <1>1, AccountInit, AccountStep, PTL DEF ReplaySpec

-----------------------------------------------------------------------------
(* Least and greatest numbers, and chains.                                 *)

\* Each actual ends before the next begins: then it ends before all later ones.
LEMMA Chain ==
    ASSUME NEW A, NEW n \in Nat,
           \A k \in 1..n : A[k].from \in Int /\ A[k].to \in Int /\ A[k].from <= A[k].to,
           \A k \in 1..(n - 1) : A[k].to <= A[k + 1].from,
           NEW j \in 1..n, NEW k \in 1..n, j < k
    PROVE  A[j].to <= A[k].from
  <1> DEFINE T == {l \in (j + 1)..n : ~(A[j].to <= A[l].from)}
  <1>1. SUFFICES ASSUME T # {} PROVE FALSE
    BY DEF T
  <1>2. PICK l \in T : \A y \in T : l <= y
    <2>1. \A l \in (j + 1)..n : l \in Nat
      OBVIOUS
    <2>2. T \subseteq Nat
      BY <2>1
    <2> QED BY <1>1, <2>2, Least
  <1>3. CASE l = j + 1
    BY <1>3
  <1>4. CASE l # j + 1
    <2>1. PICK i \in Nat : i = l - 1 /\ l = i + 1
      BY <1>4
    <2>2. i \in (j + 1)..n /\ i \in 1..(n - 1) /\ i < l
      BY <1>4, <2>1
    <2>3. i \notin T
      BY <1>2, <2>2
    <2>4. A[j].to <= A[i].from
      BY <2>2, <2>3
    <2>5. A[i].to <= A[l].from
      BY <2>1, <2>2
    <2>6. A[i].from <= A[i].to /\ A[i].from \in Int /\ A[i].to \in Int /\ A[l].from \in Int /\ A[j].to \in Int
      BY <2>2
    <2>7. A[j].to <= A[l].from
      BY <2>4, <2>5, <2>6
    <2> QED BY <2>7
  <1> QED BY <1>3, <1>4

-----------------------------------------------------------------------------
(* replay_local_messages: one lot's actuals, buffered and released.        *)

N == Len(ExpectedOps)

LEMMA ExpectedFacts ==
    /\ N \in Nat \ {0} /\ DOMAIN ExpectedOps = 1..N
    /\ \A k \in 1..N : ExpectedOps[k] \in Int
    /\ \A j, k \in 1..N : ExpectedOps[j] < ExpectedOps[k] <=> j < k
    /\ \A j, k \in 1..N : ExpectedOps[j] = ExpectedOps[k] => j = k
    /\ Range(ExpectedOps) = {ExpectedOps[k] : k \in 1..N}
  <1>1. N \in Nat \ {0} /\ DOMAIN ExpectedOps = 1..N /\ \A k \in 1..N : ExpectedOps[k] \in Int
    BY ReplayAssumption DEF N
  <1>2. \A j, k \in 1..N : j < k => ExpectedOps[j] < ExpectedOps[k]
    BY <1>1, ReplayAssumption
  <1>3. ASSUME NEW j \in 1..N, NEW k \in 1..N
        PROVE  /\ ExpectedOps[j] < ExpectedOps[k] <=> j < k
               /\ ExpectedOps[j] = ExpectedOps[k] => j = k
    <2>1. ExpectedOps[j] \in Int /\ ExpectedOps[k] \in Int
      BY <1>1
    <2>2. CASE j < k
      BY <1>2, <2>1, <2>2
    <2>3. CASE k < j
      <3>1. ExpectedOps[k] < ExpectedOps[j]
        BY <1>2, <2>3
      <3> QED BY <2>1, <2>3, <3>1
    <2>4. CASE j = k
      BY <2>1, <2>4
    <2> QED BY <2>2, <2>3, <2>4
  <1> QED BY <1>1, <1>3 DEF Range

\* What a call releases: the expected operations from the next one on, up to the
\* first that does not wait.
Releases(ops, pending, n, r) ==
    /\ ops \in Seq(Int) /\ Len(ops) = r - n
    /\ \A i \in 1..(r - n) : ops[i] = ExpectedOps[n + i]
    /\ \A j \in (n + 1)..r : ExpectedOps[j] \in DOMAIN pending
    /\ r < N => ExpectedOps[r + 1] \notin DOMAIN pending

LEMMA ReleasedFacts ==
    ASSUME NEW pending, NEW n \in 0..N, n = Len(local.applied)
    PROVE  \E r \in n..N : Releases(Released(pending), pending, n, r)
  <1> DEFINE ready == {k \in n..N : \A j \in (n + 1)..k : ExpectedOps[j] \in DOMAIN pending}
  <1>1. N \in Nat /\ n \in Nat /\ n \in ready
    BY ExpectedFacts
  <1>2. Max(ready) \in ready /\ \A y \in ready : Max(ready) >= y
    <2>1. ready \subseteq n..N /\ ready # {}
      BY <1>1
    <2> QED BY <1>1, <2>1, Greatest
  <1>3. PICK r \in n..N : r = Max(ready)
    BY <1>2
  <1>4. Released(pending) = SubSeq(ExpectedOps, n + 1, r)
    BY <1>3 DEF Released, N
  <1>5. \A j \in (n + 1)..r : ExpectedOps[j] \in DOMAIN pending
    BY <1>2, <1>3
  <1>6. r < N => ExpectedOps[r + 1] \notin DOMAIN pending
    <2>1. SUFFICES ASSUME r < N, ExpectedOps[r + 1] \in DOMAIN pending PROVE FALSE
      OBVIOUS
    <2>2. r \in Nat /\ r + 1 \in n..N /\ \A j \in (n + 1)..(r + 1) : j \in (n + 1)..r \/ j = r + 1
      BY <1>1, <2>1
    <2>3. r + 1 \in ready
      BY <1>5, <2>1, <2>2
    <2>4. r >= r + 1
      BY <1>2, <1>3, <2>3
    <2> QED BY <2>2, <2>4
  <1>7. /\ SubSeq(ExpectedOps, n + 1, r) \in Seq(Int)
        /\ Len(SubSeq(ExpectedOps, n + 1, r)) = r - n
        /\ \A i \in 1..(r - n) : SubSeq(ExpectedOps, n + 1, r)[i] = ExpectedOps[n + i]
    <2>1. PICK m \in Nat : m = n + 1
      BY <1>1
    <2>2. r \in Int /\ \A i \in m..r : ExpectedOps[i] \in Int
      BY <1>1, <2>1, ExpectedFacts
    <2>3. /\ SubSeq(ExpectedOps, m, r) \in Seq(Int)
          /\ Len(SubSeq(ExpectedOps, m, r)) = IF m <= r THEN r - m + 1 ELSE 0
          /\ \A i \in 1..(r - m + 1) : SubSeq(ExpectedOps, m, r)[i] = ExpectedOps[m + i - 1]
      BY <2>2, SubSeqProperties
    <2>4. r - m + 1 = r - n /\ (~(m <= r) => r - n = 0)
      BY <1>1, <2>1
    <2>5. PICK sub : sub = SubSeq(ExpectedOps, n + 1, r) /\ sub = SubSeq(ExpectedOps, m, r)
      BY <2>1
    <2>6. sub \in Seq(Int) /\ Len(sub) = r - n
      BY <2>3, <2>4, <2>5
    <2>7. ASSUME NEW i \in 1..(r - n) PROVE sub[i] = ExpectedOps[n + i]
      <3>1. i \in 1..(r - m + 1) /\ m + i - 1 = n + i
        BY <1>1, <2>1, <2>4
      <3>2. sub[i] = ExpectedOps[m + i - 1]
        BY <2>3, <2>5, <3>1
      <3> QED BY <3>1, <3>2
    <2> QED BY <2>5, <2>6, <2>7
  <1>8. Releases(SubSeq(ExpectedOps, n + 1, r), pending, n, r)
    BY <1>5, <1>6, <1>7 DEF Releases
  <1> QED BY <1>3, <1>4, <1>8

Actuals == {m.actual : m \in Envelopes}

LEMMA ActualFacts ==
    \A a \in Actuals : a.op \in Int /\ a.from \in Int /\ a.to \in Int /\ a.from <= a.to
  BY ReplayAssumption DEF Actuals

\* The actuals told by the messages seen, and their operations.
Told(seen) == {seen[i] : i \in DOMAIN seen}
OpsOf(seen) == {seen[i].op : i \in DOMAIN seen}

\* Applied are the first expected operations, waiting the other reported ones.
Holding(seen, pending, applied) ==
    /\ Len(applied) \in 0..N
    /\ \A k \in 1..Len(applied) : applied[k] \in Told(seen) /\ applied[k].op = ExpectedOps[k]
    /\ DOMAIN pending = OpsOf(seen) \ {ExpectedOps[k] : k \in 1..Len(applied)}
    /\ \A op \in DOMAIN pending : pending[op] \in Told(seen) /\ pending[op].op = op

\* ... and the next expected one is not waiting.
Buffer(seen, pending, applied) ==
    /\ Holding(seen, pending, applied)
    /\ Len(applied) < N => ExpectedOps[Len(applied) + 1] \notin DOMAIN pending

LEMMA LearnTold ==
    ASSUME NEW seen, NEW id, id \notin DOMAIN seen, NEW x
    PROVE  /\ Told(Learn(seen, id, x)) = Told(seen) \cup {x}
           /\ OpsOf(Learn(seen, id, x)) = OpsOf(seen) \cup {x.op}
  <1>1. PICK new : new = Learn(seen, id, x)
    OBVIOUS
  <1>2. /\ DOMAIN new = DOMAIN seen \cup {id} /\ new[id] = x
        /\ \A i \in DOMAIN seen : new[i] = seen[i]
    BY <1>1 DEF Learn
  <1>3. Told(new) = Told(seen) \cup {x}
    BY <1>2 DEF Told
  <1>4. OpsOf(new) = OpsOf(seen) \cup {x.op}
    BY <1>2 DEF OpsOf
  <1> QED BY <1>1, <1>3, <1>4

LEMMA HoldsNew ==
    ASSUME NEW seen, NEW pending, NEW applied, Holding(seen, pending, applied),
           NEW id, id \notin DOMAIN seen, NEW x, x.op \notin OpsOf(seen)
    PROVE  Holding(Learn(seen, id, x), Learn(pending, x.op, x), applied)
  <1>1. PICK new, rest : new = Learn(seen, id, x) /\ rest = Learn(pending, x.op, x)
    OBVIOUS
  <1>2. Told(new) = Told(seen) \cup {x} /\ OpsOf(new) = OpsOf(seen) \cup {x.op}
    BY <1>1, LearnTold
  <1>3. /\ DOMAIN rest = DOMAIN pending \cup {x.op} /\ rest[x.op] = x
        /\ \A op \in DOMAIN pending \ {x.op} : rest[op] = pending[op]
    BY <1>1 DEF Learn
  <1>4. x.op \notin {ExpectedOps[k] : k \in 1..Len(applied)}
    BY DEF Holding, Told, OpsOf
  <1>5. DOMAIN rest = OpsOf(new) \ {ExpectedOps[k] : k \in 1..Len(applied)}
    BY <1>2, <1>3, <1>4 DEF Holding
  <1>6. \A op \in DOMAIN rest : rest[op] \in Told(new) /\ rest[op].op = op
    BY <1>2, <1>3 DEF Holding
  <1>7. Len(applied) \in 0..N
        /\ \A k \in 1..Len(applied) : applied[k] \in Told(new) /\ applied[k].op = ExpectedOps[k]
    BY <1>2 DEF Holding
  <1>8. Holding(new, rest, applied)
    BY <1>5, <1>6, <1>7 DEF Holding
  <1> QED BY <1>1, <1>8

\* The actuals of the operations released, and those that keep waiting.
BatchOf(ops, pending) == [k \in DOMAIN ops |-> pending[ops[k]]]
RestOf(ops, pending) == [op \in DOMAIN pending \ Range(ops) |-> pending[op]]

\* The release moves the next operations from the waiting to the applied ones.
LEMMA HoldsReleased ==
    ASSUME NEW seen, NEW pending, NEW applied \in Seq(Actuals), Holding(seen, pending, applied),
           \A op \in DOMAIN pending : pending[op] \in Actuals,
           NEW n \in 0..N, n = Len(applied), NEW r \in n..N,
           NEW ops, Releases(ops, pending, n, r),
           NEW batch, batch = BatchOf(ops, pending), NEW rest, rest = RestOf(ops, pending)
    PROVE  /\ applied \o batch \in Seq(Actuals) /\ Len(applied \o batch) = r
           /\ Buffer(seen, rest, applied \o batch)
  <1> USE DEF BatchOf, RestOf, Releases
  <1>1. n \in Nat /\ r \in Nat /\ N \in Nat /\ r - n \in Nat /\ n <= r
    BY ExpectedFacts
  <1>2. DOMAIN ops = 1..(r - n) /\ DOMAIN batch = 1..(r - n)
    OBVIOUS
  <1>3. \A i \in 1..(r - n) : n + i \in (n + 1)..r
    BY <1>1
  <1>4. \A j \in (n + 1)..r : j - n \in 1..(r - n) /\ n + (j - n) = j /\ j \in 1..r /\ j \in 1..N
    BY <1>1
  <1>5. \A i \in 1..(r - n) : batch[i] = pending[ExpectedOps[n + i]] /\ batch[i] \in Actuals
    BY <1>2, <1>3
  <1>6. batch \in Seq(Actuals) /\ Len(batch) = r - n
    <2>1. PICK l \in Nat : l = r - n
      BY <1>1
    <2>2. batch \in [1..l -> Actuals]
      BY <1>2, <1>5, <2>1
    <2> QED BY <2>1, <2>2
  <1>7. /\ applied \o batch \in Seq(Actuals) /\ Len(applied \o batch) = n + (r - n)
        /\ \A k \in 1..(n + (r - n)) :
              (applied \o batch)[k] = IF k <= n THEN applied[k] ELSE batch[k - n]
    BY <1>6, ConcatProperties
  <1>8. PICK all : all = applied \o batch
    OBVIOUS
  <1>9. /\ Len(all) = r
        /\ \A k \in 1..n : all[k] = applied[k]
        /\ \A j \in (n + 1)..r : all[j] = pending[ExpectedOps[j]]
    <2>1. n + (r - n) = r /\ \A k \in 1..n : k \in 1..r /\ k <= n
      BY <1>1
    <2>2. \A k \in 1..r : all[k] = IF k <= n THEN applied[k] ELSE batch[k - n]
      BY <1>7, <1>8, <2>1
    <2>3. ASSUME NEW j \in (n + 1)..r PROVE all[j] = pending[ExpectedOps[j]]
      <3>1. PICK i \in 1..(r - n) : i = j - n /\ n + i = j
        BY <1>4
      <3>2. ~(j <= n) /\ j \in 1..r
        BY <1>1, <1>4
      <3>3. all[j] = batch[i]
        BY <2>2, <3>1, <3>2
      <3>4. batch[i] = pending[ExpectedOps[n + i]]
        BY <1>5
      <3>5. batch[i] = pending[ExpectedOps[j]]
        BY <3>1, <3>4
      <3> QED BY <3>3, <3>5
    <2> QED BY <1>7, <1>8, <2>1, <2>2, <2>3
  <1>10. 1..r = 1..n \cup (n + 1)..r
    BY <1>1
  <1>11. \A k \in 1..r : all[k] \in Told(seen) /\ all[k].op = ExpectedOps[k]
    <2> SUFFICES ASSUME NEW k \in 1..r PROVE all[k] \in Told(seen) /\ all[k].op = ExpectedOps[k]
      OBVIOUS
    <2>1. CASE k \in 1..n
      BY <1>9, <2>1 DEF Holding
    <2>2. CASE k \in (n + 1)..r
      <3>1. ExpectedOps[k] \in DOMAIN pending /\ all[k] = pending[ExpectedOps[k]]
        BY <1>9, <2>2
      <3> QED BY <3>1 DEF Holding
    <2> QED BY <1>10, <2>1, <2>2
  <1> DEFINE next == {ExpectedOps[j] : j \in (n + 1)..r}
  <1>12. Range(ops) = next
    <2>1. ASSUME NEW op \in Range(ops) PROVE op \in next
      <3>1. PICK i \in 1..(r - n) : op = ops[i]
        BY <1>2 DEF Range
      <3>2. op = ExpectedOps[n + i] /\ n + i \in (n + 1)..r
        BY <1>3, <3>1
      <3> QED BY <3>2
    <2>2. ASSUME NEW op \in next PROVE op \in Range(ops)
      <3>1. PICK j \in (n + 1)..r : op = ExpectedOps[j]
        OBVIOUS
      <3>2. PICK i \in 1..(r - n) : n + i = j
        BY <1>4
      <3>3. op = ops[i] /\ i \in DOMAIN ops
        BY <1>2, <3>1, <3>2
      <3> QED BY <3>3 DEF Range
    <2> HIDE DEF next
    <2> QED BY <2>1, <2>2
  <1>13. DOMAIN rest = OpsOf(seen) \ {ExpectedOps[k] : k \in 1..r}
    <2>1. DOMAIN rest = DOMAIN pending \ Range(ops)
      OBVIOUS
    <2>2. {ExpectedOps[k] : k \in 1..r}
              = {ExpectedOps[k] : k \in 1..n} \cup {ExpectedOps[j] : j \in (n + 1)..r}
      BY <1>10
    <2>3. DOMAIN pending = OpsOf(seen) \ {ExpectedOps[k] : k \in 1..n}
      BY DEF Holding
    <2> QED BY <1>12, <2>1, <2>2, <2>3
  <1>14. \A op \in DOMAIN rest : rest[op] \in Told(seen) /\ rest[op].op = op
    BY DEF Holding
  <1>15. r < N => ExpectedOps[r + 1] \notin DOMAIN rest
    OBVIOUS
  <1>16. Buffer(seen, rest, all)
    BY <1>1, <1>9, <1>11, <1>13, <1>14, <1>15 DEF Buffer, Holding
  <1> QED BY <1>7, <1>8, <1>9, <1>16
MessageIds == {m.id : m \in Envelopes}
ActualOps == {a.op : a \in Actuals}

LocalTypes ==
    /\ sent \in Seq(Envelopes)
    /\ local \in [rejected : BOOLEAN,
                  seen : UNION {[ids -> Actuals] : ids \in SUBSET MessageIds},
                  pending : UNION {[ops -> Actuals] : ops \in SUBSET ActualOps},
                  applied : Seq(Actuals), last : Nat]

\* What is seen is what was sent, and each message was sent a first time.
Learned ==
    /\ \A k \in 1..Len(sent) :
        sent[k].id \in DOMAIN local.seen /\ local.seen[sent[k].id] = sent[k].actual
    /\ \A id \in DOMAIN local.seen : \E k \in Firsts : sent[k].id = id

\* No two messages report one operation, and each reports an expected one.
OneMessageEach ==
    /\ \A i, j \in DOMAIN local.seen : local.seen[i].op = local.seen[j].op => i = j
    /\ OpsOf(local.seen) \subseteq Range(ExpectedOps)

InTime ==
    /\ \A k \in 2..Len(sent) : sent[k - 1].received <= sent[k].received
    /\ local.last = IF sent = <<>> THEN 0 ELSE sent[Len(sent)].received
    /\ \A k \in Firsts : Lag(sent[k]) \in 0..LagLimit

Buffered == Buffer(local.seen, local.pending, local.applied)

LocalInv ==
    /\ LocalTypes
    /\ IF local.rejected THEN ~Deliverable
       ELSE Learned /\ OneMessageEach /\ InTime /\ Buffered /\ InPrecedence(local.applied)

LEMMA SentFacts ==
    ASSUME LocalTypes
    PROVE  /\ Len(sent) \in Nat /\ DOMAIN sent = 1..Len(sent)
           /\ \A k \in 1..Len(sent) : sent[k] \in Envelopes /\ Actual(k) \in Actuals
           /\ Firsts \subseteq 1..Len(sent) /\ IsFiniteSet(Firsts)
           /\ \A j, k \in Firsts : sent[j].id = sent[k].id => j = k
  <1>1. /\ Len(sent) \in Nat /\ DOMAIN sent = 1..Len(sent)
        /\ \A k \in 1..Len(sent) : sent[k] \in Envelopes
    BY DEF LocalTypes
  <1>2. \A k \in 1..Len(sent) : Actual(k) \in Actuals
    BY <1>1 DEF Actual, Actuals
  <1>3. Firsts \subseteq 1..Len(sent)
    BY <1>1 DEF Firsts
  <1>4. IsFiniteSet(Firsts)
    <2>1. IsFiniteSet(1..Len(sent))
      BY <1>1, NumbersUpTo
    <2> QED BY <1>3, <2>1, FS_Subset
  <1>5. ASSUME NEW j \in Firsts, NEW k \in Firsts, sent[j].id = sent[k].id
        PROVE  j = k
    <2>1. j \in Nat /\ k \in Nat /\ j >= 1 /\ k >= 1
      BY <1>1, <1>3
    <2>2. ~(j < k)
      <3>1. SUFFICES ASSUME j < k PROVE FALSE
        OBVIOUS
      <3>2. j \in 1..(k - 1)
        BY <2>1, <3>1
      <3> QED BY <1>5, <3>2 DEF Firsts
    <2>3. ~(k < j)
      <3>1. SUFFICES ASSUME k < j PROVE FALSE
        OBVIOUS
      <3>2. k \in 1..(j - 1)
        BY <2>1, <3>1
      <3> QED BY <1>5, <3>2 DEF Firsts
    <2> QED BY <2>1, <2>2, <2>3
  <1> QED BY <1>1, <1>2, <1>3, <1>4, <1>5

\* As many different messages as expected operations: a bijection, or none.
LEMMA ExpectedCount == IsFiniteSet(Range(ExpectedOps)) /\ Cardinality(Range(ExpectedOps)) = N
  <1>1. ExpectedOps \in Surjection(1..N, Range(ExpectedOps))
    BY ExpectedFacts, ReplayAssumption DEF Surjection, Range
  <1>2. ExpectedOps \in Injection(1..N, Range(ExpectedOps))
    BY <1>1, ExpectedFacts DEF Injection, Surjection, IsInjective
  <1>3. IsFiniteSet(1..N) /\ Cardinality(1..N) = N
    BY ExpectedFacts, NumbersUpTo
  <1> QED BY <1>1, <1>2, <1>3, FS_Surjection

FirstOps == [k \in Firsts |-> Actual(k).op]

LEMMA OneReportEach ==
    ASSUME LocalTypes, {Actual(k).op : k \in Firsts} = Range(ExpectedOps)
    PROVE  Cardinality(Firsts) = N
                <=> \A j, k \in Firsts : Actual(j).op = Actual(k).op => j = k
  <1>1. FirstOps \in Surjection(Firsts, Range(ExpectedOps))
    <2>1. FirstOps \in [Firsts -> Range(ExpectedOps)]
      BY DEF FirstOps
    <2>2. \A op \in Range(ExpectedOps) : \E k \in Firsts : FirstOps[k] = op
      BY DEF FirstOps
    <2> QED BY <2>1, <2>2 DEF Surjection
  <1>2. IsFiniteSet(Firsts)
    BY SentFacts
  <1>3. N = Cardinality(Firsts) <=> FirstOps \in Injection(Firsts, Range(ExpectedOps))
    BY <1>1, <1>2, ExpectedCount, FS_Surjection
  <1>4. FirstOps \in Injection(Firsts, Range(ExpectedOps))
            <=> \A j, k \in Firsts : Actual(j).op = Actual(k).op => j = k
    <2>1. FirstOps \in [Firsts -> Range(ExpectedOps)]
      BY <1>1 DEF Surjection
    <2>2. \A k \in Firsts : FirstOps[k] = Actual(k).op
      BY DEF FirstOps
    <2> QED BY <2>1, <2>2 DEF Injection, IsInjective
  <1> QED BY <1>3, <1>4

\* What is seen under an identifier is the actual of the first that carries it.
LEMMA FirstSeen ==
    ASSUME LocalTypes, Learned
    PROVE  /\ \A k \in Firsts : sent[k].id \in DOMAIN local.seen /\ Actual(k) = local.seen[sent[k].id]
           /\ Told(local.seen) = {Actual(k) : k \in Firsts}
           /\ OpsOf(local.seen) = {Actual(k).op : k \in Firsts}
  <1>1. \A k \in Firsts : sent[k].id \in DOMAIN local.seen /\ Actual(k) = local.seen[sent[k].id]
    BY SentFacts DEF Learned, Actual
  <1>2. \A id \in DOMAIN local.seen : \E k \in Firsts : sent[k].id = id /\ Actual(k) = local.seen[id]
    BY <1>1 DEF Learned
  <1>3. Told(local.seen) = {Actual(k) : k \in Firsts}
    BY <1>1, <1>2 DEF Told
  <1>4. OpsOf(local.seen) = {Actual(k).op : k \in Firsts}
    BY <1>1, <1>2 DEF OpsOf
  <1> QED BY <1>1, <1>3, <1>4
\* The applied actuals are those of the first deliveries, in route order.
LEMMA AppliedFacts ==
    ASSUME LocalTypes, Learned, Buffered, NEW n, n = Len(local.applied)
    PROVE  /\ n \in Nat /\ n <= N
           /\ \A k \in 1..n :
                /\ local.applied[k].op = ExpectedOps[k]
                /\ \E f \in Firsts : Actual(f) = local.applied[k]
                /\ local.applied[k] \in Actuals
  <1>1. n \in Nat /\ n <= N
    BY ExpectedFacts DEF Buffered, Buffer, Holding
  <1>2. \A k \in 1..n : local.applied[k] \in Told(local.seen) /\ local.applied[k].op = ExpectedOps[k]
    BY DEF Buffered, Buffer, Holding
  <1>3. \A k \in 1..n : \E f \in Firsts : Actual(f) = local.applied[k]
    BY <1>2, FirstSeen
  <1>4. \A f \in Firsts : Actual(f) \in Actuals
    BY SentFacts
  <1> QED BY <1>1, <1>2, <1>3, <1>4

\* What cannot be released in order cannot be delivered in order.
LEMMA BrokenOrder ==
    LocalTypes /\ Learned /\ Buffered /\ ~InPrecedence(local.applied) => ~Deliverable
  <1> SUFFICES ASSUME LocalTypes, Learned, Buffered, ~InPrecedence(local.applied), Deliverable
               PROVE  FALSE
    OBVIOUS
  <1>1. PICK n : n = Len(local.applied)
    OBVIOUS
  <1>2. PICK k \in 1..(n - 1) : ~(local.applied[k].to <= local.applied[k + 1].from)
    BY <1>1 DEF InPrecedence
  <1>3. n \in Nat /\ n <= N /\ N \in Nat
    BY <1>1, AppliedFacts, ExpectedFacts
  <1>4. PICK l : l = k + 1
    OBVIOUS
  <1>5. k \in 1..n /\ l \in 1..n /\ k \in 1..N /\ l \in 1..N /\ k < l
    BY <1>2, <1>3, <1>4
  <1>6. PICK f, g \in Firsts : Actual(f) = local.applied[k] /\ Actual(g) = local.applied[l]
    BY <1>1, <1>5, AppliedFacts
  <1>7. Actual(f).op = ExpectedOps[k] /\ Actual(g).op = ExpectedOps[l]
    BY <1>1, <1>5, <1>6, AppliedFacts
  <1>8. Actual(f).op < Actual(g).op
    BY <1>5, <1>7, ExpectedFacts
  <1>9. f \in DOMAIN sent /\ g \in DOMAIN sent
    BY <1>6, SentFacts
  <1>10. Actual(f).to <= Actual(g).from
    BY <1>6, <1>8 DEF Deliverable
  <1> QED BY <1>2, <1>4, <1>6, <1>10

\* All is applied: then the manifest is sound as a set ...
LEMMA AcceptedIsDeliverable ==
    ASSUME LocalInv, ~local.rejected, Len(local.applied) = N
    PROVE  Deliverable
  <1>1. LocalTypes /\ Learned /\ OneMessageEach /\ InTime /\ Buffered /\ InPrecedence(local.applied)
    BY DEF LocalInv
  <1>2. /\ \A k \in 1..N :
            /\ local.applied[k].op = ExpectedOps[k]
            /\ \E f \in Firsts : Actual(f) = local.applied[k]
            /\ local.applied[k] \in Actuals
        /\ N \in Nat
    BY <1>1, AppliedFacts, ExpectedFacts
  <1>3. \A k \in 2..Len(sent) : sent[k - 1].received <= sent[k].received
    BY <1>1 DEF InTime
  <1>4. \A j, k \in DOMAIN sent : sent[j].id = sent[k].id => Actual(j) = Actual(k)
    BY <1>1, SentFacts, SMTT(30) DEF Learned, Actual
  <1>5. {Actual(k).op : k \in Firsts} = Range(ExpectedOps)
    <2>1. {Actual(k).op : k \in Firsts} \subseteq Range(ExpectedOps)
      BY <1>1, FirstSeen DEF OneMessageEach
    <2>2. ASSUME NEW op \in Range(ExpectedOps) PROVE \E f \in Firsts : Actual(f).op = op
      <3>1. PICK k \in 1..N : op = ExpectedOps[k]
        BY ExpectedFacts
      <3> QED BY <1>2, <3>1
    <2> QED BY <2>1, <2>2
  <1>6. \A j, k \in Firsts : Actual(j).op = Actual(k).op => j = k
    <2>1. \A j, k \in Firsts : Actual(j).op = Actual(k).op => sent[j].id = sent[k].id
      BY <1>1, FirstSeen DEF OneMessageEach
    <2> QED BY <1>1, <2>1, SentFacts
  <1>7. Cardinality(Firsts) = Len(ExpectedOps)
    BY <1>1, <1>5, <1>6, OneReportEach DEF N
  <1>8. \A k \in Firsts : Lag(sent[k]) \in 0..LagLimit
    BY <1>1 DEF InTime
  <1>9. ASSUME NEW j \in Firsts, NEW k \in Firsts, Actual(j).op < Actual(k).op
        PROVE  Actual(j).to <= Actual(k).from
    <2>1. PICK p \in 1..N, q \in 1..N : Actual(j).op = ExpectedOps[p] /\ Actual(k).op = ExpectedOps[q]
      <3>1. Actual(j).op \in Range(ExpectedOps) /\ Actual(k).op \in Range(ExpectedOps)
        BY <1>5
      <3> QED BY <3>1, ExpectedFacts
    <2>2. p < q
      BY <1>9, <2>1, ExpectedFacts
    <2>3. local.applied[p] = Actual(j) /\ local.applied[q] = Actual(k)
      BY <1>2, <1>6, <2>1
    <2>4. \A l \in 1..N : /\ local.applied[l].from \in Int /\ local.applied[l].to \in Int
                          /\ local.applied[l].from <= local.applied[l].to
      BY <1>2, ActualFacts
    <2>5. \A l \in 1..(N - 1) : local.applied[l].to <= local.applied[l + 1].from
      BY <1>1 DEF InPrecedence
    <2>6. local.applied[p].to <= local.applied[q].from
      BY <1>2, <2>2, <2>4, <2>5, Chain
    <2> QED BY <2>3, <2>6
  <1> QED BY <1>3, <1>4, <1>5, <1>7, <1>8, <1>9 DEF Deliverable

\* ... a sound set leaves nothing unapplied ...
LEMMA DeliverableIsApplied ==
    ASSUME LocalInv, ~local.rejected, Deliverable
    PROVE  Len(local.applied) = N
  <1>1. LocalTypes /\ Learned /\ Buffered
    BY DEF LocalInv
  <1>2. PICK n : n = Len(local.applied)
    OBVIOUS
  <1>3. n \in Nat /\ n <= N /\ N \in Nat
    BY <1>1, <1>2, AppliedFacts, ExpectedFacts
  <1>4. SUFFICES ASSUME n < N PROVE FALSE
    BY <1>2, <1>3
  <1>5. n + 1 \in 1..N /\ n + 1 \notin 1..n
    BY <1>3, <1>4
  <1>6. ExpectedOps[n + 1] \notin {ExpectedOps[k] : k \in 1..n}
    <2>1. \A k \in 1..n : k \in 1..N
      BY <1>3
    <2> QED BY <1>5, <2>1, ExpectedFacts
  <1>7. ExpectedOps[n + 1] \notin DOMAIN local.pending
    BY <1>1, <1>2, <1>4 DEF Buffered, Buffer
  <1>8. DOMAIN local.pending = OpsOf(local.seen) \ {ExpectedOps[k] : k \in 1..n}
    BY <1>1, <1>2 DEF Buffered, Buffer, Holding
  <1>9. ExpectedOps[n + 1] \in Range(ExpectedOps)
    BY <1>5, ExpectedFacts
  <1>10. ExpectedOps[n + 1] \in OpsOf(local.seen)
    BY <1>1, <1>9, FirstSeen DEF Deliverable
  <1> QED BY <1>6, <1>7, <1>8, <1>10

\* ... and what is applied is what was sent, in route order.
LEMMA AppliedInRouteOrder ==
    ASSUME LocalInv, ~local.rejected, Len(local.applied) = N
    PROVE  local.applied = InRouteOrder
  <1>1. LocalTypes /\ Learned /\ OneMessageEach /\ Buffered
    BY DEF LocalInv
  <1>2. ASSUME NEW k \in 1..N
        PROVE  local.applied[k] = (CHOOSE m \in Range(sent) : m.actual.op = ExpectedOps[k]).actual
    <2>1. PICK f \in Firsts : Actual(f) = local.applied[k] /\ Actual(f).op = ExpectedOps[k]
      BY <1>1, AppliedFacts
    <2>2. sent[f] \in Range(sent) /\ sent[f].actual.op = ExpectedOps[k]
      BY <1>1, <2>1, SentFacts DEF Range, Actual
    <2>3. PICK m : m = CHOOSE c \in Range(sent) : c.actual.op = ExpectedOps[k]
      OBVIOUS
    <2>4. m \in Range(sent) /\ m.actual.op = ExpectedOps[k]
      BY <2>2, <2>3
    <2>5. PICK x \in 1..Len(sent) : m = sent[x]
      BY <1>1, <2>4, SentFacts DEF Range
    <2>6. /\ m.id \in DOMAIN local.seen /\ local.seen[m.id] = m.actual
          /\ sent[f].id \in DOMAIN local.seen /\ local.seen[sent[f].id] = Actual(f)
      BY <1>1, <2>5, FirstSeen DEF Learned
    <2>7. m.actual = Actual(f)
      BY <1>1, <2>1, <2>4, <2>6 DEF OneMessageEach
    <2> QED BY <2>1, <2>3, <2>7
  <1>3. local.applied = [k \in 1..N |-> local.applied[k]]
    <2>1. local.applied \in Seq(Actuals)
      BY <1>1 DEF LocalTypes
    <2> QED BY <2>1
  <1>4. InRouteOrder = [k \in 1..N |->
            (CHOOSE m \in Range(sent) : m.actual.op = ExpectedOps[k]).actual]
    BY ExpectedFacts DEF InRouteOrder
  <1> QED BY <1>2, <1>3, <1>4

LEMMA OrderMakesNoDifference == LocalInv => ArrivalOrderIrrelevant
  <1> SUFFICES ASSUME LocalInv PROVE ArrivalOrderIrrelevant
    OBVIOUS
  <1>1. CASE local.rejected
    BY <1>1 DEF LocalInv, ArrivalOrderIrrelevant, Accepted
  <1>2. CASE ~local.rejected
    <2>1. Accepted <=> Len(local.applied) = N
      BY <1>2 DEF Accepted, N
    <2>2. Accepted <=> Deliverable
      BY <1>2, <2>1, AcceptedIsDeliverable, DeliverableIsApplied
    <2>3. Accepted => local.applied = InRouteOrder
      BY <1>2, <2>1, AppliedInRouteOrder
    <2> QED BY <2>2, <2>3 DEF ArrivalOrderIrrelevant
  <1> QED BY <1>1, <1>2
LEMMA NothingSent == sent = <<>> /\ local = Waiting => LocalInv
  <1> SUFFICES ASSUME sent = <<>>, local = Waiting PROVE LocalInv
    OBVIOUS
  <1>1. NothingSeen \in [{} -> Actuals] /\ DOMAIN NothingSeen = {}
    BY DEF NothingSeen
  <1>2. local = [rejected |-> FALSE, seen |-> NothingSeen, pending |-> NothingSeen,
                 applied |-> <<>>, last |-> 0]
    BY DEF Waiting
  <1> HIDE DEF NothingSeen
  <1>3. /\ ~local.rejected /\ local.seen = NothingSeen /\ local.pending = NothingSeen
        /\ local.applied = <<>> /\ local.last = 0 /\ Len(local.applied) = 0
    BY <1>2
  <1>4. LocalTypes
    <2>1. /\ NothingSeen \in UNION {[ids -> Actuals] : ids \in SUBSET MessageIds}
          /\ NothingSeen \in UNION {[ops -> Actuals] : ops \in SUBSET ActualOps}
      BY <1>1
    <2>2. sent \in Seq(Envelopes) /\ <<>> \in Seq(Actuals)
      OBVIOUS
    <2> QED BY <1>2, <2>1, <2>2 DEF LocalTypes
  <1>5. Firsts = {} /\ Len(sent) = 0
    BY DEF Firsts
  <1>6. Learned
    BY <1>1, <1>3, <1>5 DEF Learned
  <1>7. Told(local.seen) = {} /\ OpsOf(local.seen) = {}
    BY <1>1, <1>3 DEF Told, OpsOf
  <1>8. OneMessageEach
    BY <1>1, <1>3, <1>7 DEF OneMessageEach
  <1>9. InTime
    BY <1>3, <1>5 DEF InTime
  <1>10. Buffered
    <2>1. 1..0 = {} /\ 0 \in 0..N
      BY ExpectedFacts
    <2> QED BY <1>1, <1>3, <1>7, <2>1 DEF Buffered, Buffer, Holding
  <1>11. InPrecedence(local.applied)
    <2>1. 1..(0 - 1) = {}
      OBVIOUS
    <2> QED BY <1>3, <2>1 DEF InPrecedence
  <1> QED BY <1>3, <1>4, <1>6, <1>8, <1>9, <1>10, <1>11 DEF LocalInv

\* One delivery more: the new one is a first unless its identifier was sent.
LEMMA NewDelivery ==
    ASSUME LocalTypes, NEW m \in Envelopes, sent' = Append(sent, m), NEW n, n = Len(sent)
    PROVE  /\ n \in Nat /\ Len(sent)' = n + 1 /\ sent' \in Seq(Envelopes)
           /\ \A k \in 1..n : sent'[k] = sent[k]
           /\ sent'[n + 1] = m
           /\ Firsts' = IF \E k \in 1..n : sent[k].id = m.id THEN Firsts ELSE Firsts \cup {n + 1}
  <1>1. /\ n \in Nat /\ Len(sent)' = n + 1 /\ sent' \in Seq(Envelopes)
        /\ DOMAIN sent = 1..n /\ DOMAIN sent' = 1..n \cup {n + 1}
        /\ \A k \in 1..n : sent'[k] = sent[k]
        /\ sent'[n + 1] = m
    BY AppendFacts DEF LocalTypes
  <1>2. Firsts' = {k \in 1..n \cup {n + 1} : \A j \in 1..(k - 1) : sent'[j].id # sent'[k].id}
    BY <1>1 DEF Firsts
  <1>3. ASSUME NEW k \in 1..n
        PROVE  (\A j \in 1..(k - 1) : sent'[j].id # sent'[k].id) <=> k \in Firsts
    <2>1. \A j \in 1..(k - 1) : j \in 1..n
      BY <1>1
    <2> QED BY <1>1, <2>1 DEF Firsts
  <1>4. (\A j \in 1..((n + 1) - 1) : sent'[j].id # sent'[n + 1].id)
            <=> ~\E k \in 1..n : sent[k].id = m.id
    <2>1. (n + 1) - 1 = n
      BY <1>1
    <2> QED BY <1>1, <2>1
  <1>5. Firsts \subseteq 1..n
    BY <1>1 DEF Firsts
  <1>6. CASE \E k \in 1..n : sent[k].id = m.id
    <2>1. \A k \in 1..n \cup {n + 1} : k \in Firsts' <=> k \in Firsts
      <3>1. n + 1 \notin Firsts'
        BY <1>2, <1>4, <1>6
      <3>2. n + 1 \notin Firsts
        BY <1>1, <1>5
      <3> QED BY <1>2, <1>3, <3>1, <3>2
    <2>2. Firsts' = Firsts
      BY <1>2, <1>5, <2>1
    <2> QED BY <1>1, <1>6, <2>2
  <1>7. CASE ~\E k \in 1..n : sent[k].id = m.id
    <2>1. n + 1 \in Firsts'
      BY <1>2, <1>4, <1>7
    <2>2. \A k \in 1..n : k \in Firsts' <=> k \in Firsts
      BY <1>2, <1>3
    <2>3. Firsts' = Firsts \cup {n + 1}
      BY <1>2, <1>5, <2>1, <2>2
    <2> QED BY <1>1, <1>7, <2>3
  <1> QED BY <1>6, <1>7

\* A message whose identifier was not seen was not sent: it is a first.
LEMMA NewFirst ==
    ASSUME LocalTypes, Learned, NEW m \in Envelopes, sent' = Append(sent, m), NEW n, n = Len(sent)
    PROVE  /\ m.id \notin DOMAIN local.seen => Firsts' = Firsts \cup {n + 1}
           /\ m.id \in DOMAIN local.seen => Firsts' = Firsts
  <1>1. n \in Nat /\ Firsts \subseteq 1..n
    BY SentFacts
  <1>2. m.id \in DOMAIN local.seen <=> \E k \in 1..n : sent[k].id = m.id
    BY <1>1 DEF Learned
  <1> QED BY <1>2, NewDelivery

\* A delivery that is not too early for its predecessor keeps the times in order.
LEMMA TimesGoOn ==
    ASSUME LocalTypes, InTime, NEW m \in Envelopes, sent' = Append(sent, m),
           NEW n, n = Len(sent), m.received >= local.last
    PROVE  \A k \in 2..(n + 1) : sent'[k - 1].received <= sent'[k].received
  <1>1. /\ n \in Nat /\ sent'[n + 1] = m
        /\ \A k \in 1..n : sent'[k] = sent[k]
    BY NewDelivery
  <1>2. \A k \in 2..n : k \in 1..n /\ k - 1 \in 1..n
    BY <1>1
  <1>3. \A k \in 2..n : sent'[k - 1].received <= sent'[k].received
    BY <1>1, <1>2 DEF InTime
  <1>4. ASSUME n + 1 \in 2..(n + 1) PROVE sent'[n].received <= sent'[n + 1].received
    <2>1. n \in 1..n /\ n # 0
      BY <1>1, <1>4
    <2>2. sent # <<>>
      BY <2>1
    <2>3. local.last = sent[n].received
      BY <2>2 DEF InTime
    <2>4. sent'[n].received = local.last /\ local.last \in Nat /\ m.received \in Nat
      BY <1>1, <2>1, <2>3, ReplayAssumption DEF LocalTypes
    <2> QED BY <1>1, <2>4
  <1>5. ASSUME NEW k \in 2..(n + 1) PROVE sent'[k - 1].received <= sent'[k].received
    <2>1. CASE k \in 2..n
      BY <1>3, <2>1
    <2>2. CASE k = n + 1
      <3>1. (n + 1) - 1 = n
        BY <1>1
      <3> QED BY <1>4, <2>2, <3>1
    <2> QED BY <1>1, <2>1, <2>2
  <1> QED BY <1>5

LEMMA InvDeliverAgain ==
    ASSUME LocalInv, ~local.rejected, NEW m \in Envelopes, sent' = Append(sent, m), DeliverAgain(m)
    PROVE  LocalInv'
  <1>1. LocalTypes /\ Learned /\ OneMessageEach /\ InTime /\ Buffered /\ InPrecedence(local.applied)
    BY DEF LocalInv
  <1>2. PICK n : n = Len(sent)
    OBVIOUS
  <1>3. /\ n \in Nat /\ Len(sent)' = n + 1 /\ sent' \in Seq(Envelopes)
        /\ \A k \in 1..n : sent'[k] = sent[k]
        /\ sent'[n + 1] = m
    BY <1>1, <1>2, NewDelivery
  <1>4. /\ m.id \in DOMAIN local.seen /\ local.seen[m.id] = m.actual /\ m.received >= local.last
        /\ m.received \in Nat /\ local.last \in Nat
    <2>1. m.received \in Nat /\ local.last \in Nat
      BY <1>1, ReplayAssumption DEF LocalTypes
    <2> QED BY <2>1 DEF DeliverAgain, Refused, Repeated
  <1>5. Firsts' = Firsts
    BY <1>1, <1>2, <1>4, NewFirst
  <1>6. local' = [local EXCEPT !.last = m.received]
    BY DEF DeliverAgain
  <1>7. /\ local'.rejected = local.rejected /\ local'.seen = local.seen
        /\ local'.pending = local.pending /\ local'.applied = local.applied
        /\ local'.last = m.received
    BY <1>1, <1>6 DEF LocalTypes
  <1>8. LocalTypes'
    BY <1>1, <1>3, <1>4, <1>6 DEF LocalTypes
  <1>9. Firsts \subseteq 1..n
    BY <1>1, <1>2, SentFacts
  <1>10. 1..(n + 1) = 1..n \cup {n + 1}
    BY <1>3
  <1>11. Learned'
    <2>1. \A k \in 1..n : /\ sent[k].id \in DOMAIN local.seen
                          /\ local.seen[sent[k].id] = sent[k].actual
      BY <1>1, <1>2 DEF Learned
    <2>2. \A k \in 1..(n + 1) : /\ sent'[k].id \in DOMAIN local.seen
                                /\ local.seen[sent'[k].id] = sent'[k].actual
      BY <1>3, <1>4, <1>10, <2>1
    <2>3. \A id \in DOMAIN local.seen : \E k \in Firsts : sent'[k].id = id
      BY <1>1, <1>3, <1>9 DEF Learned
    <2>4. \A k \in 1..Len(sent') : /\ sent'[k].id \in DOMAIN local'.seen
                                   /\ local'.seen[sent'[k].id] = sent'[k].actual
      BY <1>3, <1>7, <2>2
    <2>5. \A id \in DOMAIN local'.seen : \E k \in Firsts' : sent'[k].id = id
      BY <1>5, <1>7, <2>3
    <2> QED BY <2>4, <2>5 DEF Learned
  <1>12. OneMessageEach'
    BY <1>1, <1>7 DEF OneMessageEach, OpsOf
  <1>13. InTime'
    <2>1. \A k \in Firsts' : Lag(sent[k])' \in 0..LagLimit
      <3>1. \A k \in Firsts : sent'[k] = sent[k] /\ Lag(sent[k]) \in 0..LagLimit
        BY <1>1, <1>3, <1>9 DEF InTime
      <3> QED BY <1>5, <3>1 DEF Lag
    <2>2. \A k \in 2..(n + 1) : sent'[k - 1].received <= sent'[k].received
      BY <1>1, <1>2, <1>4, TimesGoOn
    <2>3. sent' # <<>> /\ local'.last = sent'[Len(sent')].received
      BY <1>3, <1>7
    <2> QED BY <1>3, <2>1, <2>2, <2>3 DEF InTime
  <1>14. Buffered' /\ InPrecedence(local.applied)'
    BY <1>1, <1>7, SMTT(30) DEF Buffered, Buffer, Holding, Told, OpsOf, InPrecedence
  <1> QED BY <1>7, <1>8, <1>11, <1>12, <1>13, <1>14 DEF LocalInv
\* Two first deliveries of one operation: then another operation is not delivered.
OneFirstEach == \A j, k \in Firsts : Actual(j).op = Actual(k).op => j = k

LEMMA OneDeliveryEach == LocalTypes /\ Deliverable => OneFirstEach
  BY OneReportEach DEF Deliverable, OneFirstEach, N

\* Whatever a message is refused for spoils the set that is sent.
LEMMA InvDeliverRefused ==
    ASSUME LocalInv, ~local.rejected, NEW m \in Envelopes, sent' = Append(sent, m), DeliverRefused(m)
    PROVE  LocalInv'
  <1>1. LocalTypes /\ Learned /\ OneMessageEach /\ InTime
    BY DEF LocalInv
  <1>2. PICK n : n = Len(sent)
    OBVIOUS
  <1>3. /\ n \in Nat /\ Len(sent') = n + 1 /\ sent' \in Seq(Envelopes)
        /\ \A k \in 1..n : sent'[k] = sent[k]
        /\ sent'[n + 1] = m
        /\ DOMAIN sent' = 1..(n + 1) /\ n + 1 \in 1..(n + 1) /\ \A k \in 1..n : k \in 1..(n + 1)
    BY <1>1, <1>2, NewDelivery
  <1>4. local' = [local EXCEPT !.rejected = TRUE]
    BY DEF DeliverRefused
  <1>5. LocalTypes' /\ local'.rejected
    BY <1>1, <1>3, <1>4 DEF LocalTypes
  <1>6. SUFFICES ASSUME Deliverable' PROVE FALSE
    BY <1>5 DEF LocalInv
  <1>7. /\ m.received \in Nat /\ local.last \in Nat /\ m.actual.to \in Int /\ LagLimit \in Nat
    BY <1>1, ReplayAssumption DEF LocalTypes
  <1>8. CASE m.received < local.last
    <2>1. sent # <<>> /\ local.last = sent[n].received
      BY <1>1, <1>2, <1>7, <1>8 DEF InTime
    <2>2. n # 0
      BY <1>1, <1>2, <2>1 DEF LocalTypes
    <2>3. n \in 1..n /\ n + 1 \in 2..(n + 1) /\ (n + 1) - 1 = n
      BY <1>3, <2>2
    <2>4. \A k \in 2..(n + 1) : sent'[k - 1].received <= sent'[k].received
      BY <1>3, <1>6 DEF Deliverable
    <2>5. sent'[n].received <= sent'[n + 1].received
      BY <2>3, <2>4
    <2>6. sent[n].received <= m.received
      BY <1>3, <2>3, <2>5
    <2> QED BY <1>7, <1>8, <2>1, <2>6
  <1>9. CASE m.id \in DOMAIN local.seen /\ local.seen[m.id] # m.actual
    <2>1. PICK k \in Firsts : sent[k].id = m.id
      BY <1>1, <1>9 DEF Learned
    <2>2. k \in 1..n /\ sent[k].actual = local.seen[m.id]
      BY <1>1, <1>2, <2>1, FirstSeen, SentFacts DEF Actual
    <2>3. sent'[k].id = sent'[n + 1].id /\ sent'[k].actual # sent'[n + 1].actual
      BY <1>3, <1>9, <2>1, <2>2
    <2>4. \A j, l \in 1..(n + 1) : sent'[j].id = sent'[l].id => sent'[j].actual = sent'[l].actual
      <3>1. \A j, l \in DOMAIN sent' : sent'[j].id = sent'[l].id => sent'[j].actual = sent'[l].actual
        BY <1>6 DEF Deliverable, Actual
      <3> QED BY <1>3, <3>1
    <2> QED BY <1>3, <2>2, <2>3, <2>4
  <1>10. CASE m.id \notin DOMAIN local.seen /\ ~(m.received < local.last)
    <2>1. Firsts' = Firsts \cup {n + 1}
      BY <1>1, <1>2, <1>10, NewFirst
    <2>2. \/ m.actual.op \notin Range(ExpectedOps)
          \/ m.actual.op \in OpsOf(local.seen)
          \/ ~(Lag(m) \in 0..LagLimit)
      BY <1>7, <1>10 DEF DeliverRefused, Refused, Repeated, ReportedOps, OpsOf, Lag
    <2>3. CASE m.actual.op \notin Range(ExpectedOps)
      <3>1. {sent'[k].actual.op : k \in Firsts'} = Range(ExpectedOps)
        BY <1>6 DEF Deliverable, Actual
      <3>2. sent'[n + 1].actual.op \in {sent'[k].actual.op : k \in Firsts'}
        BY <2>1
      <3> QED BY <1>3, <2>3, <3>1, <3>2
    <2>4. CASE m.actual.op \in OpsOf(local.seen)
      <3>1. PICK k \in Firsts : Actual(k).op = m.actual.op
        BY <1>1, <2>4, FirstSeen
      <3>2. k \in 1..n /\ k # n + 1
        BY <1>1, <1>2, <1>3, SentFacts
      <3>3. sent'[k].actual.op = sent'[n + 1].actual.op
        BY <1>3, <3>1, <3>2 DEF Actual
      <3>4. LocalTypes' /\ Deliverable' => OneFirstEach'
        BY OneDeliveryEach, PTL
      <3>5. \A j, l \in Firsts' : sent'[j].actual.op = sent'[l].actual.op => j = l
        BY <1>5, <1>6, <3>4 DEF Actual, OneFirstEach
      <3> QED BY <2>1, <3>2, <3>3, <3>5
    <2>5. CASE ~(Lag(m) \in 0..LagLimit)
      <3>1. \A k \in Firsts' : Lag(sent'[k]) \in 0..LagLimit
        BY <1>6 DEF Deliverable, Lag
      <3> QED BY <1>3, <2>1, <2>5, <3>1
    <2> QED BY <2>2, <2>3, <2>4, <2>5
  <1>11. \/ m.received < local.last
         \/ m.id \in DOMAIN local.seen /\ local.seen[m.id] # m.actual
         \/ m.id \notin DOMAIN local.seen /\ ~(m.received < local.last)
    BY DEF DeliverRefused, Refused, Repeated
  <1> QED BY <1>8, <1>9, <1>10, <1>11
LEMMA LearnedActuals ==
    ASSUME NEW Ids, NEW seen \in UNION {[ids -> Actuals] : ids \in SUBSET Ids},
           NEW id \in Ids, NEW x \in Actuals
    PROVE  Learn(seen, id, x) \in UNION {[ids -> Actuals] : ids \in SUBSET Ids}
  <1>1. PICK ids \in SUBSET Ids : seen \in [ids -> Actuals]
    OBVIOUS
  <1>2. Learn(seen, id, x) \in [ids \cup {id} -> Actuals]
    BY <1>1 DEF Learn
  <1> QED BY <1>2

\* What a first delivery does to the buffer: it is learned, and what follows the
\* applied operations without a gap is released.
LEMMA FirstReleased ==
    ASSUME LocalTypes, Buffered, NEW m \in Envelopes,
           m.id \notin DOMAIN local.seen, m.actual.op \notin OpsOf(local.seen), DeliverFirst(m)
    PROVE  /\ local' \in [rejected : BOOLEAN,
                  seen : UNION {[ids -> Actuals] : ids \in SUBSET MessageIds},
                  pending : UNION {[ops -> Actuals] : ops \in SUBSET ActualOps},
                  applied : Seq(Actuals), last : Nat]
           /\ local'.seen = Learn(local.seen, m.id, m.actual) /\ local'.last = m.received
           /\ local'.rejected = ~InPrecedence(local'.applied)
           /\ Buffer(local'.seen, local'.pending, local'.applied)
  <1>1. PICK x : x = m.actual
    OBVIOUS
  <1>2. PICK pending : pending = Learn(local.pending, x.op, x)
    OBVIOUS
  <1>3. PICK ops : ops = Released(pending)
    OBVIOUS
  <1>4. PICK batch : batch = BatchOf(ops, pending)
    OBVIOUS
  <1>5. PICK rest : rest = RestOf(ops, pending)
    OBVIOUS
  <1>6. PICK seen : seen = Learn(local.seen, m.id, x)
    OBVIOUS
  <1>7. PICK all : all = local.applied \o batch
    OBVIOUS
  <1>8. local' = [rejected |-> ~InPrecedence(all), seen |-> seen, pending |-> rest,
                  applied |-> all, last |-> m.received]
    BY <1>1, <1>2, <1>3, <1>4, <1>5, <1>6, <1>7 DEF DeliverFirst, OrderedRelease, BatchOf, RestOf
  <1>9. /\ x \in Actuals /\ m.id \in MessageIds /\ x.op \in ActualOps /\ m.received \in Nat
        /\ local.applied \in Seq(Actuals)
    BY <1>1, ReplayAssumption DEF Actuals, MessageIds, ActualOps, LocalTypes
  <1>10. seen \in UNION {[ids -> Actuals] : ids \in SUBSET MessageIds}
    BY <1>6, <1>9, LearnedActuals DEF LocalTypes
  <1>11. pending \in UNION {[o -> Actuals] : o \in SUBSET ActualOps}
    BY <1>2, <1>9, LearnedActuals DEF LocalTypes
  <1>12. Holding(seen, pending, local.applied)
    BY <1>1, <1>2, <1>6, HoldsNew DEF Buffered, Buffer
  <1>13. \A op \in DOMAIN pending : pending[op] \in Actuals
    BY <1>11
  <1>14. PICK n \in 0..N : n = Len(local.applied)
    BY <1>12 DEF Holding
  <1>15. PICK r \in n..N : Releases(ops, pending, n, r)
    BY <1>3, <1>14, ReleasedFacts
  <1>16. all \in Seq(Actuals) /\ Buffer(seen, rest, all)
    <2>1. PICK applied \in Seq(Actuals) : applied = local.applied
      BY <1>9
    <2>2. Holding(seen, pending, applied) /\ n = Len(applied) /\ all = applied \o batch
      BY <1>7, <1>12, <1>14, <2>1
    <2>3. applied \o batch \in Seq(Actuals) /\ Buffer(seen, rest, applied \o batch)
      BY <1>4, <1>5, <1>13, <1>15, <2>2, HoldsReleased
    <2> QED BY <2>2, <2>3
  <1>17. rest \in UNION {[o -> Actuals] : o \in SUBSET ActualOps}
    <2>1. PICK o \in SUBSET ActualOps : pending \in [o -> Actuals]
      BY <1>11
    <2>2. rest \in [o \ Range(ops) -> Actuals]
      BY <1>5, <2>1 DEF RestOf
    <2> QED BY <2>2
  <1>18. /\ local'.seen = seen /\ local'.last = m.received /\ local'.pending = rest
         /\ local'.applied = all /\ local'.rejected = ~InPrecedence(all)
    BY <1>8
  <1>19. (~InPrecedence(all)) \in BOOLEAN
    BY DEF InPrecedence
  <1> QED BY <1>1, <1>6, <1>8, <1>9, <1>10, <1>16, <1>17, <1>18, <1>19

LEMMA InvDeliverFirst ==
    ASSUME LocalInv, ~local.rejected, NEW m \in Envelopes, sent' = Append(sent, m), DeliverFirst(m)
    PROVE  LocalInv'
  <1>1. LocalTypes /\ Learned /\ OneMessageEach /\ InTime /\ Buffered
    BY DEF LocalInv
  <1>2. PICK n : n = Len(sent)
    OBVIOUS
  <1>3. /\ n \in Nat /\ Len(sent') = n + 1 /\ sent' \in Seq(Envelopes)
        /\ \A k \in 1..n : sent'[k] = sent[k]
        /\ sent'[n + 1] = m
        /\ 1..(n + 1) = 1..n \cup {n + 1}
    BY <1>1, <1>2, NewDelivery
  <1>4. /\ m.id \notin DOMAIN local.seen /\ m.actual.op \in Range(ExpectedOps)
        /\ m.actual.op \notin OpsOf(local.seen)
        /\ ~(m.received < local.last) /\ ~(m.received < m.actual.to) /\ ~(Lag(m) > LagLimit)
    BY DEF DeliverFirst, Refused, Repeated, ReportedOps, OpsOf
  <1>5. m.received >= local.last /\ Lag(m) \in 0..LagLimit
    <2>1. m.received \in Nat /\ local.last \in Nat /\ m.actual.to \in Int /\ LagLimit \in Nat
      BY <1>1, ReplayAssumption DEF LocalTypes
    <2> QED BY <1>4, <2>1 DEF Lag
  <1>6. Firsts' = Firsts \cup {n + 1} /\ Firsts \subseteq 1..n
    BY <1>1, <1>2, <1>4, NewFirst, SentFacts
  <1>7. PICK seen : seen = Learn(local.seen, m.id, m.actual)
    OBVIOUS
  <1>8. /\ local'.seen = seen /\ local'.last = m.received
        /\ local'.rejected = ~InPrecedence(local'.applied)
    BY <1>1, <1>4, <1>7, FirstReleased
  <1>9. LocalTypes' /\ Buffered'
    BY <1>1, <1>3, <1>4, FirstReleased DEF LocalTypes, Buffered
  <1>10. /\ DOMAIN seen = DOMAIN local.seen \cup {m.id} /\ seen[m.id] = m.actual
         /\ \A i \in DOMAIN local.seen : seen[i] = local.seen[i]
    BY <1>4, <1>7 DEF Learn
  <1>11. Learned'
    <2>1. \A k \in 1..n : sent[k].id \in DOMAIN local.seen /\ local.seen[sent[k].id] = sent[k].actual
      BY <1>1, <1>2 DEF Learned
    <2>2. \A k \in 1..(n + 1) : sent'[k].id \in DOMAIN seen /\ seen[sent'[k].id] = sent'[k].actual
      BY <1>3, <1>10, <2>1
    <2>3. \A id \in DOMAIN local.seen : \E k \in Firsts : sent'[k].id = id
      BY <1>1, <1>3, <1>6 DEF Learned
    <2>4. \A id \in DOMAIN seen : \E k \in Firsts \cup {n + 1} : sent'[k].id = id
      BY <1>3, <1>10, <2>3
    <2>5. \A k \in 1..Len(sent') : /\ sent'[k].id \in DOMAIN local'.seen
                                   /\ local'.seen[sent'[k].id] = sent'[k].actual
      BY <1>3, <1>8, <2>2
    <2>6. \A id \in DOMAIN local'.seen : \E k \in Firsts' : sent'[k].id = id
      BY <1>6, <1>8, <2>4
    <2> QED BY <2>5, <2>6 DEF Learned
  <1>12. OneMessageEach'
    <2>1. OpsOf(seen) = OpsOf(local.seen) \cup {m.actual.op}
      BY <1>4, <1>7, LearnTold
    <2>2. OpsOf(seen) \subseteq Range(ExpectedOps)
      BY <1>1, <1>4, <2>1 DEF OneMessageEach
    <2>3. \A i \in DOMAIN local.seen : local.seen[i].op # m.actual.op
      BY <1>4 DEF OpsOf
    <2>4. \A i, j \in DOMAIN seen : seen[i].op = seen[j].op => i = j
      BY <1>1, <1>10, <2>3 DEF OneMessageEach
    <2> QED BY <1>8, <2>2, <2>4 DEF OneMessageEach
  <1>13. InTime'
    <2>1. \A k \in Firsts' : Lag(sent'[k]) \in 0..LagLimit
      <3>1. \A k \in Firsts : sent'[k] = sent[k] /\ Lag(sent[k]) \in 0..LagLimit
        BY <1>1, <1>3, <1>6 DEF InTime
      <3> QED BY <1>3, <1>5, <1>6, <3>1
    <2>2. \A k \in 2..(n + 1) : sent'[k - 1].received <= sent'[k].received
      BY <1>1, <1>2, <1>5, TimesGoOn
    <2>3. sent' # <<>> /\ local'.last = sent'[Len(sent')].received
      BY <1>3, <1>8
    <2> QED BY <1>3, <2>1, <2>2, <2>3 DEF InTime, Lag
  <1>14. CASE InPrecedence(local'.applied)
    BY <1>8, <1>9, <1>11, <1>12, <1>13, <1>14 DEF LocalInv
  <1>15. CASE ~InPrecedence(local'.applied)
    <2>1. LocalTypes' /\ Learned' /\ Buffered' /\ ~InPrecedence(local.applied)' => ~Deliverable'
      BY BrokenOrder, PTL
    <2>2. ~Deliverable'
      BY <1>9, <1>11, <1>15, <2>1
    <2> QED BY <1>8, <1>9, <1>15, <2>2 DEF LocalInv
  <1> QED BY <1>14, <1>15

LEMMA LocalStep == LocalInv /\ [ReplayNext]_replayVars => LocalInv'
  <1> SUFFICES ASSUME LocalInv, [ReplayNext]_replayVars PROVE LocalInv'
    OBVIOUS
  <1>1. ASSUME NEW m \in Envelopes, Deliver(m) PROVE LocalInv'
    <2>1. ~local.rejected /\ sent' = Append(sent, m)
      BY <1>1 DEF Deliver
    <2>2. DeliverFirst(m) \/ DeliverAgain(m) \/ DeliverRefused(m)
      BY <1>1 DEF Deliver
    <2> QED BY <2>1, <2>2, InvDeliverFirst, InvDeliverAgain, InvDeliverRefused
  <1>2. CASE EndLocalReplay
    <2>1. (sent = <<>> /\ local = Waiting)'
      BY <1>2 DEF EndLocalReplay, Waiting, NothingSeen
    <2>2. (sent = <<>> /\ local = Waiting)' => LocalInv'
      BY NothingSent, PTL
    <2> QED BY <2>1, <2>2
  <1>3. CASE UNCHANGED <<sent, local>>
    <2>1. Firsts' = Firsts /\ sent' = sent /\ local' = local
      BY <1>3 DEF Firsts
    <2>2. LocalTypes' = LocalTypes /\ Learned' = Learned /\ OneMessageEach' = OneMessageEach
      BY <2>1 DEF LocalTypes, Learned, OneMessageEach, OpsOf
    <2>3. InTime' = InTime /\ Deliverable' = Deliverable
      BY <2>1 DEF InTime, Deliverable, Lag, Actual
    <2>4. Buffered' = Buffered /\ InPrecedence(local.applied)' = InPrecedence(local.applied)
      BY <2>1 DEF Buffered, Buffer, Holding, Told, OpsOf, InPrecedence
    <2> QED BY <2>1, <2>2, <2>3, <2>4 DEF LocalInv
  <1>4. CASE EndExecutionReplay \/ (\E e \in FloorEvents : Occur(e)) \/ UNCHANGED replayVars
    BY <1>3, <1>4 DEF EndExecutionReplay, Occur, replayVars
  <1> QED BY <1>1, <1>2, <1>4 DEF ReplayNext

\* replay_local_messages buffers what comes early and releases what has its turn,
\* and so accepts exactly the manifests that are sound as a set, and hands the
\* actuals on in route order: neither the order of arrival nor repetition makes
\* a difference, for any operations, messages, times and lengths.
THEOREM OrderOfArrivalIsIrrelevant == ReplaySpec => []ArrivalOrderIrrelevant
  <1>1. ReplayInit => LocalInv
    BY NothingSent DEF ReplayInit
  <1> QED BY <1>1, LocalStep, OrderMakesNoDifference, PTL DEF ReplaySpec
==============================================================================
