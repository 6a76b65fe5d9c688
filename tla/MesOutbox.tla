------------------------------ MODULE MesOutbox ------------------------------
(***************************************************************************)
(* The durable MES inbox and reschedule outbox                             *)
(* (src/src/integration/mes_service.py) and the dispatcher that hands one  *)
(* pending intent to the rescheduler                                       *)
(* (src/src/integration/mes_reschedule_dispatcher.py).                     *)
(*                                                                         *)
(* Every writer runs inside run_mutation_lock, so a transaction is one     *)
(* action; the dispatcher and the API rescheduler hold the lock across     *)
(* several commits, between which their process may die ("job").  Each     *)
(* reschedule draws a fresh run and a fresh audit, so an audit is named by *)
(* its new run.                                                            *)
(***************************************************************************)
EXTENDS Lineage

CONSTANTS
    Messages,        \* (source_system, external_message_id) pairs
    LegacyMessages,  \* those whose inbox row predates the outbox
    MaxEvent,        \* bound: event_id 1..MaxEvent (AUTOINCREMENT)
    MaxRun,          \* bound: run identifiers 1..MaxRun
    MaxIngested,     \* bound: runs with actuals
    KeepLastN,       \* keep_last_n of the retention policy
    ReferenceRun,    \* the run the reference manifest protects, or 0
    None             \* an absent row

\* What an external message reports: a machine outage with or without its
\* duration, a task event more than 60 minutes late, or one that is not.
Kinds == {"measuredOutage", "openOutage", "lateTask", "taskOnTime"}
Triggers(kind) == kind # "taskOnTime"

Runs == 1..MaxRun
EventIds == 1..MaxEvent
NoEvent == 0
NoRun == 0

VARIABLES
    registry,    \* pipeline_runs of the canonical database
    events,      \* mes_execution_events: [EventIds -> None or its run and kind]
    inbox,       \* mes_external_inbox: [Messages -> None or payload and event]
    outbox,      \* mes_reschedule_outbox: [EventIds -> None or intent]
    actuals,     \* runs that rows of mes_production_actuals name
    audits,      \* reschedule_audit_log: [Runs -> None or trigger and baseline]
    job,         \* the reschedule that holds the mutation lock, or None
    nextEvent,
    nextRun,
    published    \* runs ever promoted by a dispatch of each event (history)

dbVars == <<registry, events, inbox, outbox, actuals, audits>>
vars == <<dbVars, job, nextEvent, nextRun, published>>

EventRows == [run : Runs, kind : Kinds]
InboxRows == [kind : Kinds, event : EventIds]
Intents == [run : Runs, status : {"PENDING", "ACKED"}, audit : Runs \cup {NoRun}]
\* A trigger id that is not an event_id is NoEvent: the API accepts any text.
Audits == [trigger : EventIds \cup {NoEvent}, previous : Runs]
Jobs == [new : Runs, acks : BOOLEAN]

ASSUME OutboxAssumption ==
    /\ LegacyMessages \subseteq Messages
    /\ IsFiniteSet(LegacyMessages) /\ Cardinality(LegacyMessages) <= MaxEvent
    /\ MaxEvent \in Nat \ {0} /\ MaxRun \in Nat \ {0} /\ MaxIngested \in Nat
    /\ KeepLastN \in Nat \ {0} /\ ReferenceRun \in Nat
    /\ None \notin Kinds \cup EventRows \cup InboxRows \cup Intents \cup Audits \cup Jobs

TypeOK ==
    /\ registry \in [Runs -> Statuses \cup {NoRow}]
    /\ events \in [EventIds -> EventRows \cup {None}]
    /\ inbox \in [Messages -> InboxRows \cup {None}]
    /\ outbox \in [EventIds -> Intents \cup {None}]
    /\ actuals \subseteq Runs
    /\ audits \in [Runs -> Audits \cup {None}]
    /\ job \in Jobs \cup {None}
    /\ nextEvent \in 1..(MaxEvent + 1)
    /\ nextRun \in 1..(MaxRun + 1)
    /\ published \in [EventIds -> SUBSET Runs]

\* One ACTIVE run; the legacy messages were recorded for it, one event each, before
\* the outbox existed.
Init ==
    /\ registry = [r \in Runs |-> IF r = 1 THEN "ACTIVE" ELSE NoRow]
    /\ \E kind \in [1..Cardinality(LegacyMessages) -> Kinds],
          number \in {f \in [LegacyMessages -> 1..Cardinality(LegacyMessages)] :
                        \A m, n \in LegacyMessages : f[m] = f[n] => m = n} :
        /\ events = [e \in EventIds |->
                        IF e \in DOMAIN kind THEN [run |-> 1, kind |-> kind[e]] ELSE None]
        /\ inbox = [m \in Messages |->
                        IF m \in LegacyMessages THEN [kind |-> kind[number[m]], event |-> number[m]]
                        ELSE None]
    /\ outbox = [e \in EventIds |-> None]
    /\ actuals = {} /\ audits = [r \in Runs |-> None]
    /\ job = None
    /\ nextEvent = Cardinality(LegacyMessages) + 1
    /\ nextRun = 2
    /\ published = [e \in EventIds |-> {}]

-----------------------------------------------------------------------------
(* The inbox and the outbox.                                               *)

LockFree == job = None
Pending(r) == [run |-> r, status |-> "PENDING", audit |-> NoRun]

\* _ensure_reschedule_outbox: a triggering inbox row without an outbox row
\* gets a pending one.
Backfilled ==
    [e \in EventIds |->
        IF outbox[e] = None
           /\ \E m \in Messages : inbox[m] # None /\ inbox[m].event = e
                                    /\ Triggers(inbox[m].kind)
        THEN Pending(events[e].run) ELSE outbox[e]]

\* record_event for a new identity: event, intent and inbox row are committed
\* together, for the ACTIVE run.
AddIntent(e, r, kind) ==
    outbox' = IF Triggers(kind) THEN [Backfilled EXCEPT ![e] = Pending(r)]
              ELSE Backfilled

Record(m, kind) ==
    /\ LockFree
    /\ inbox[m] = None
    /\ nextEvent \in EventIds
    /\ \E r \in Runs :
        /\ IsActiveRun(registry, r)
        /\ events' = [events EXCEPT ![nextEvent] = [run |-> r, kind |-> kind]]
        /\ AddIntent(nextEvent, r, kind)
    /\ inbox' = [inbox EXCEPT ![m] = [kind |-> kind, event |-> nextEvent]]
    /\ nextEvent' = nextEvent + 1
    /\ UNCHANGED <<registry, actuals, audits, job, nextRun, published>>

\* ingest_mes_actuals (src/src/scenarios/closed_loop.py): rows that name any run
\* of the registry.
IngestActuals(r) ==
    /\ LockFree
    /\ r \in Rows(registry)
    /\ Cardinality(actuals \cup {r}) <= MaxIngested
    /\ actuals' = actuals \cup {r}
    /\ UNCHANGED <<registry, events, inbox, outbox, audits, job, nextEvent, nextRun, published>>

\* A redelivery with the same payload and list_pending_reschedule_intents only
\* commit the backfill; another payload is refused and rolled back.
Migrate ==
    /\ LockFree
    /\ outbox' = Backfilled
    /\ UNCHANGED <<registry, events, inbox, actuals, audits, job, nextEvent, nextRun, published>>

\* An audit of this event and of the run the event was recorded for, whose new
\* run was promoted.
\* (Mutant: only while that run is still the ACTIVE one.)
ActiveAudits(e, source) ==
    {n \in Runs : audits[n] = [trigger |-> e, previous |-> source]
                  /\ registry[n] = "ACTIVE"}
PromotedAudits(e, source) ==
    {n \in Runs : audits[n] = [trigger |-> e, previous |-> source]
                  /\ registry[n] \in {"ACTIVE", "ARCHIVED"}}

\* ack_reschedule_intent: idempotent for the same audit, refused for another.
\* (Mutant: the audit's run is not looked up.)
AnyAudit(e, n) == audits[n] # None /\ audits[n].trigger = e
Acknowledges(e, n) == n \in PromotedAudits(e, Backfilled[e].run)

Ack(e, n) ==
    /\ Backfilled[e] # None
    /\ Backfilled[e].status = "PENDING"
    /\ Acknowledges(e, n)
    /\ outbox' = [Backfilled EXCEPT ![e].status = "ACKED", ![e].audit = n]

AckByOperator(e, n) ==
    /\ LockFree
    /\ Ack(e, n)
    /\ UNCHANGED <<registry, events, inbox, actuals, audits, job, nextEvent, nextRun, published>>

-----------------------------------------------------------------------------
(* Rescheduling.  The new run and its audit entry are one commit.          *)

\* The rescheduler's baseline is the sole ACTIVE run, read under the lock.
Baseline(r) == IsActiveRun(registry, r)

CreateVersion(trigger, acks) ==
    /\ nextRun \in Runs
    /\ \E r \in Runs :
        /\ Baseline(r)
        /\ audits' = [audits EXCEPT ![nextRun] = [trigger |-> trigger, previous |-> r]]
    /\ registry' = Started(registry, nextRun)
    /\ job' = [new |-> nextRun, acks |-> acks]
    /\ nextRun' = nextRun + 1

\* dispatch_one on a pending intent without a promoted audit: the source run
\* must still be the ACTIVE one and the outage duration known.
\* (Mutant: a stale baseline is not noticed.)
StaleAccepted(source) == TRUE
FreshBaseline(source) == IsActiveRun(registry, source)

Dispatch(e, durationGiven) ==
    /\ LockFree
    /\ Backfilled[e] # None
    /\ Backfilled[e].status = "PENDING"
    /\ PromotedAudits(e, Backfilled[e].run) = {}
    /\ FreshBaseline(Backfilled[e].run)
    /\ \/ events[e].kind = "measuredOutage" /\ ~durationGiven
       \/ events[e].kind = "openOutage" /\ durationGiven
    /\ CreateVersion(e, TRUE)
    /\ outbox' = Backfilled
    /\ UNCHANGED <<events, inbox, actuals, nextEvent, published>>

\* dispatch_one when one promoted audit exists: the acknowledgement a crash
\* prevented is made up for, without a second solve.
Recover(e) ==
    /\ LockFree
    /\ Backfilled[e] # None
    /\ Cardinality(PromotedAudits(e, Backfilled[e].run)) = 1
    /\ \E n \in Runs : Ack(e, n)
    /\ UNCHANGED <<registry, events, inbox, actuals, audits, job, nextEvent, nextRun, published>>

\* POST /schedule/reschedule with any trigger.event_id; nothing is acknowledged.
ApiReschedule(trigger) ==
    /\ LockFree
    /\ CreateVersion(trigger, FALSE)
    /\ UNCHANGED <<events, inbox, outbox, actuals, nextEvent, published>>

\* STAGING, VALIDATE, COMPLETED (three commits of the same row).
CompleteVersion ==
    /\ job # None
    /\ registry[job.new] = "RUNNING"
    /\ registry' = Updated(registry, job.new, "COMPLETED")
    /\ UNCHANGED <<events, inbox, outbox, actuals, audits, job, nextEvent, nextRun, published>>

PromoteVersion ==
    /\ job # None
    /\ CanPromote(registry, job.new)
    /\ registry' = Promoted(registry, job.new)
    /\ job' = IF job.acks THEN job ELSE None
    /\ published' = IF job.acks
                    THEN [published EXCEPT ![audits[job.new].trigger] = @ \cup {job.new}]
                    ELSE published
    /\ UNCHANGED <<events, inbox, outbox, actuals, audits, nextEvent, nextRun>>

FailVersion ==
    /\ job # None
    /\ registry[job.new] \in {"RUNNING", "COMPLETED"}
    /\ registry' = Updated(registry, job.new, "FAILED")
    /\ job' = None
    /\ UNCHANGED <<events, inbox, outbox, actuals, audits, nextEvent, nextRun, published>>

\* dispatch_one acknowledges the run it has just promoted.
AckDispatched ==
    /\ job # None
    /\ registry[job.new] = "ACTIVE"
    /\ Ack(audits[job.new].trigger, job.new)
    /\ job' = None
    /\ UNCHANGED <<registry, events, inbox, actuals, audits, nextEvent, nextRun, published>>

\* The process dies, or the acknowledgement is refused.
Crash ==
    /\ job # None
    /\ job' = None
    /\ UNCHANGED <<dbVars, nextEvent, nextRun, published>>

-----------------------------------------------------------------------------
(* The pipeline: a new ACTIVE run, then the retention policy.              *)

PublishPipeline ==
    /\ LockFree
    /\ nextRun \in Runs
    /\ registry' = Promoted(registry, nextRun)
    /\ nextRun' = nextRun + 1
    /\ UNCHANGED <<events, inbox, outbox, actuals, audits, job, nextEvent, published>>

\* The foreign keys of the inbox and the outbox forbid deleting an event they
\* name, and that of mes_production_actuals a run it names; the whole retention is
\* then rolled back.
\* (Mutant: a connection that does not enforce foreign keys.)
Unenforced(old) == TRUE
ForeignKeysHold(old) ==
    /\ old \cap actuals = {}
    /\ \A e \in EventIds :
        events[e] # None /\ events[e].run \in old
            => \A m \in Messages : inbox[m] = None \/ inbox[m].event # e

\* apply_run_retention_policy (its order of runs is left open, as in
\* RunPublication): the rows, events and audits of old runs go.
Retain ==
    /\ LockFree
    /\ \E old \in OldRuns(registry, KeepLastN, {ReferenceRun}) :
        /\ old # {}
        /\ ForeignKeysHold(old)
        /\ registry' = Pruned(registry, old)
        /\ events' = [e \in EventIds |->
                        IF events[e] # None /\ events[e].run \in old THEN None ELSE events[e]]
        /\ audits' = [n \in Runs |->
                        IF audits[n] # None /\ (n \in old \/ audits[n].previous \in old)
                        THEN None ELSE audits[n]]
    /\ UNCHANGED <<inbox, outbox, actuals, job, nextEvent, nextRun, published>>

-----------------------------------------------------------------------------
Next ==
    \/ \E m \in Messages, kind \in Kinds : Record(m, kind)
    \/ \E r \in Runs : IngestActuals(r)
    \/ Migrate
    \/ \E e \in EventIds, n \in Runs : AckByOperator(e, n)
    \/ \E e \in EventIds, durationGiven \in BOOLEAN : Dispatch(e, durationGiven)
    \/ \E e \in EventIds : Recover(e)
    \/ \E trigger \in EventIds \cup {NoEvent} : ApiReschedule(trigger)
    \/ CompleteVersion
    \/ PromoteVersion
    \/ FailVersion
    \/ AckDispatched
    \/ Crash
    \/ PublishPipeline
    \/ Retain

Spec == Init /\ [][Next]_vars

-----------------------------------------------------------------------------
\* A message that was accepted keeps its event, and its reschedule intent when
\* it asked for one, across crashes, run changes and retention; only a row from
\* before the outbox may still wait for its migration.
IntentKept ==
    \A m \in Messages : inbox[m] # None =>
        /\ events[inbox[m].event] # None
        /\ Triggers(inbox[m].kind) /\ outbox[inbox[m].event] = None
            => m \in LegacyMessages

\* An intent is acknowledged only by an audit of this event on the run the event
\* was recorded for, whose new run was promoted, and an acknowledgement is final:
\* no redelivery, migration, second dispatch or operator call changes it.
AckedWithProof ==
    [][\A e \in EventIds : outbox[e] # None =>
        \/ outbox'[e] = outbox[e]
        \/ /\ outbox[e].status = "PENDING"
           /\ outbox'[e].status = "ACKED"
           /\ audits[outbox'[e].audit] = [trigger |-> e, previous |-> outbox[e].run]
           /\ registry[outbox'[e].audit] \in {"ACTIVE", "ARCHIVED"}]_vars

\* One event gets one answer.  The dispatcher publishes at most one new schedule
\* for it, whatever is redelivered, crashes before the acknowledgement or is
\* dispatched again; and it never meets two promoted audits of the event and its
\* source run (CONFLICTING_AUDITS, which needs a human), even when API clients
\* reuse the event_id as their own trigger identity.
SolvedOnce == \A e \in EventIds :
    /\ Cardinality(published[e]) <= 1
    /\ outbox[e] # None => Cardinality(PromotedAudits(e, outbox[e].run)) <= 1

\* An intent whose reschedule was published but whose acknowledgement a crash
\* prevented is recoverable: the next dispatch finds the promoted audit.
Recoverable(e) ==
    published[e] # {} /\ outbox[e].status = "PENDING"
        => PromotedAudits(e, outbox[e].run) # {}

\* Whatever the pipeline, other reschedules, redeliveries and crashes do between
\* the publication and the next dispatch, the recovery stays possible: only a
\* step that deletes runs can take it away.
OnlyRetentionBreaksRecovery ==
    [][Rows(registry) \subseteq Rows(registry)'
        => \A e \in EventIds : Recoverable(e) => Recoverable(e)']_vars

\* VIOLATED.  The recovery is always possible
\* (docs/g5-reschedule-dispatcher.md promises it).
CrashRecoverable == \A e \in EventIds : Recoverable(e)
==============================================================================
