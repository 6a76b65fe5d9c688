--------------------------- MODULE MesOutbox_proofs ---------------------------
(***************************************************************************)
(* Proofs about MesOutbox: accepted messages keep their intent, one event  *)
(* gets one answer, acknowledgements are final and carry a proof, and only *)
(* retention takes a recovery away - for any number of messages, events    *)
(* and runs.                                                               *)
(***************************************************************************)
EXTENDS MesOutbox, FiniteSetTheorems, TLAPS

LEMMA Identifiers ==
    /\ Runs \subseteq Nat \ {0} /\ NoRun = 0 /\ NoRun \notin Runs
    /\ EventIds \subseteq Nat \ {0} /\ NoEvent = 0 /\ NoEvent \notin EventIds
    /\ \A r \in Runs : r + 1 \in 1..(MaxRun + 1)
    /\ \A e \in EventIds : e + 1 \in 1..(MaxEvent + 1)
  BY OutboxAssumption DEF Runs, EventIds, NoRun, NoEvent

\* An absent row is none of the rows.
LEMMA NoneIsNoRow ==
    /\ None \notin EventRows /\ None \notin InboxRows /\ None \notin Intents
    /\ None \notin Audits /\ None \notin Jobs /\ None \notin Kinds
  BY OutboxAssumption

\* A set whose members are all equal has at most one.
LEMMA AtMostOne ==
    ASSUME NEW S, \A x, y \in S : x = y
    PROVE  Cardinality(S) <= 1
  <1>1. CASE S = {}
    BY <1>1, FS_EmptySet
  <1>2. CASE S # {}
    <2>1. PICK x : x \in S
      BY <1>2
    <2>2. S = {x}
      BY <2>1
    <2> QED BY <2>2, FS_Singleton
  <1> QED BY <1>1, <1>2

-----------------------------------------------------------------------------
(* The invariant.                                                          *)

HasBeenActive == {"ACTIVE", "ARCHIVED"}

\* Identifiers not yet handed out have left no trace.
Unused ==
    /\ \A r \in Runs : ~(r < nextRun) => registry[r] = NoRow /\ audits[r] = None
    /\ \A e \in EventIds : ~(e < nextEvent) => outbox[e] = None

\* An inbox row keeps its event, and its intent unless it predates the outbox.
InboxKept ==
    \A m \in Messages : inbox[m] # None =>
        /\ events[inbox[m].event] # None
        /\ inbox[m].event < nextEvent
        /\ Triggers(inbox[m].kind) /\ outbox[inbox[m].event] = None => m \in LegacyMessages

\* Events and audits name runs that were promoted, and go with them; an intent
\* may outlive its run.
SourcesPublished ==
    /\ \A e \in EventIds : events[e] # None => registry[events[e].run] \in HasBeenActive
    /\ \A n \in Runs : audits[n] # None => registry[audits[n].previous] \in HasBeenActive
    /\ \A e \in EventIds : outbox[e] # None =>
          outbox[e].run < nextRun /\ registry[outbox[e].run] \in HasBeenActive \cup {NoRow}

\* A version that was promoted has archived the run it was made from, so no
\* other one made from that run can be promoted.
OneSuccessor ==
    /\ \A n \in Runs : audits[n] # None /\ registry[n] \in HasBeenActive =>
          registry[audits[n].previous] = "ARCHIVED"
    /\ \A n, o \in Runs :
          /\ audits[n] # None /\ registry[n] \in HasBeenActive
          /\ audits[o] # None /\ registry[o] \in HasBeenActive
          /\ audits[n].previous = audits[o].previous
          => n = o

\* Nor is the source of an event that was answered ACTIVE again.
AnsweredOnce ==
    \A e \in EventIds :
        /\ published[e] # {} => outbox[e] # None /\ registry[outbox[e].run] # "ACTIVE"
        /\ \A n, o \in published[e] : n = o

\* The reschedule under way: its baseline stays ACTIVE until it is promoted, and
\* a dispatch is for an intent of that baseline.
JobUnderWay ==
    job # None =>
        /\ audits[job.new] # None
        /\ \/ /\ registry[job.new] \in {"RUNNING", "COMPLETED"}
              /\ registry[audits[job.new].previous] = "ACTIVE"
           \/ registry[job.new] = "ACTIVE" /\ job.acks
        /\ job.acks =>
              /\ audits[job.new].trigger \in EventIds
              /\ outbox[audits[job.new].trigger] # None
              /\ outbox[audits[job.new].trigger].run = audits[job.new].previous

OutboxInv ==
    TypeOK /\ Unused /\ InboxKept /\ SourcesPublished /\ OneSuccessor /\ AnsweredOnce /\ JobUnderWay

-----------------------------------------------------------------------------
(* What a step does to the outbox.                                         *)

\* The backfill adds intents of recorded events and changes none.
LEMMA BackfillAdds ==
    ASSUME TypeOK, InboxKept
    PROVE  /\ Backfilled \in [EventIds -> Intents \cup {None}]
           /\ \A e \in EventIds : outbox[e] # None => Backfilled[e] = outbox[e]
           /\ \A e \in EventIds : outbox[e] = None /\ Backfilled[e] # None =>
                 /\ events[e] \in EventRows /\ e < nextEvent
                 /\ Backfilled[e] = Pending(events[e].run)
  <1>1. ASSUME NEW e \in EventIds, NEW m \in Messages, inbox[m] # None, inbox[m].event = e
        PROVE  events[e] \in EventRows /\ e < nextEvent
    BY <1>1 DEF TypeOK, InboxKept
  <1>2. \A r \in Runs : Pending(r) \in Intents
    BY DEF Pending, Intents
  <1>3. \A i \in EventRows : i.run \in Runs
    BY DEF EventRows
  <1>4. ASSUME NEW e \in EventIds
        PROVE  /\ Backfilled[e] \in Intents \cup {None}
               /\ outbox[e] # None => Backfilled[e] = outbox[e]
               /\ outbox[e] = None /\ Backfilled[e] # None =>
                    /\ events[e] \in EventRows /\ e < nextEvent
                    /\ Backfilled[e] = Pending(events[e].run)
    BY <1>1, <1>2, <1>3 DEF Backfilled, TypeOK
  <1> QED BY <1>4 DEF Backfilled

\* An intent that is there stays, or is acknowledged with a proof; a new one is
\* that of an event.
IntentStep ==
    /\ outbox' \in [EventIds -> Intents \cup {None}]
    /\ \A e \in EventIds :
        \/ outbox'[e] = outbox[e]
        \/ /\ outbox[e] = None
           /\ outbox'[e] # None /\ events'[e] # None /\ e < nextEvent'
           /\ outbox'[e].run = events'[e].run
        \/ /\ outbox[e] # None /\ outbox'[e] # None
           /\ outbox[e].status = "PENDING" /\ outbox'[e].status = "ACKED"
           /\ outbox'[e].run = outbox[e].run
           /\ audits[outbox'[e].audit] = [trigger |-> e, previous |-> outbox[e].run]
           /\ registry[outbox'[e].audit] \in HasBeenActive

LEMMA BackfillIsIntentStep ==
    ASSUME TypeOK, InboxKept, outbox' = Backfilled, UNCHANGED <<events, nextEvent>>
    PROVE  IntentStep
  <1>1. \A r : Pending(r).run = r
    BY DEF Pending
  <1>2. \A i \in EventRows : i # None
    BY NoneIsNoRow
  <1> QED BY <1>1, <1>2, BackfillAdds DEF IntentStep

LEMMA AckRow ==
    ASSUME TypeOK, InboxKept, NEW e \in EventIds, NEW n \in Runs, Ack(e, n)
    PROVE  \E row \in Intents :
              /\ row.run = Backfilled[e].run /\ row.status = "ACKED" /\ row.audit = n
              /\ outbox' = [Backfilled EXCEPT ![e] = row]
  <1> DEFINE row == [Backfilled[e] EXCEPT !.status = "ACKED", !.audit = n]
  <1>1. Backfilled[e] \in Intents
    BY BackfillAdds DEF Ack
  <1>2. row \in Intents /\ row.run = Backfilled[e].run /\ row.status = "ACKED" /\ row.audit = n
    BY <1>1 DEF Intents
  <1>3. outbox' = [Backfilled EXCEPT ![e] = row]
    BY DEF Ack
  <1> QED BY <1>2, <1>3

LEMMA AckIsIntentStep ==
    ASSUME TypeOK, InboxKept, NEW e \in EventIds, NEW n \in Runs, Ack(e, n),
           UNCHANGED <<events, nextEvent>>
    PROVE  IntentStep
  <1>1. PICK row \in Intents :
            /\ row.run = Backfilled[e].run /\ row.status = "ACKED" /\ row.audit = n
            /\ outbox' = [Backfilled EXCEPT ![e] = row]
    BY AckRow
  <1>2. outbox' \in [EventIds -> Intents \cup {None}]
    BY <1>1, BackfillAdds
  <1>3. \A r : Pending(r).run = r
    BY DEF Pending
  <1>4. row # None /\ \A i \in EventRows : i # None
    BY NoneIsNoRow
  <1>5. /\ outbox'[e] = row
        /\ \A d \in EventIds : d # e => outbox'[d] = Backfilled[d]
    BY <1>1, BackfillAdds
  <1>6. /\ Backfilled[e] # None /\ Backfilled[e].status = "PENDING"
        /\ audits[n] = [trigger |-> e, previous |-> Backfilled[e].run]
        /\ registry[n] \in HasBeenActive
    BY DEF Ack, Acknowledges, PromotedAudits, HasBeenActive
  <1>7. ASSUME NEW d \in EventIds, d # e
        PROVE  \/ outbox'[d] = outbox[d]
               \/ /\ outbox[d] = None /\ outbox'[d] # None
                  /\ events'[d] # None /\ d < nextEvent' /\ outbox'[d].run = events'[d].run
    BY <1>3, <1>4, <1>5, <1>7, BackfillAdds
  <1>8. CASE outbox[e] = None
    BY <1>1, <1>2, <1>3, <1>4, <1>5, <1>6, <1>7, <1>8, BackfillAdds DEF IntentStep
  <1>9. CASE outbox[e] # None
    <2>1. Backfilled[e] = outbox[e]
      BY <1>9, BackfillAdds
    <2> QED BY <1>1, <1>2, <1>4, <1>5, <1>6, <1>7, <1>9, <2>1 DEF IntentStep
  <1> QED BY <1>8, <1>9

LEMMA RecordedRow ==
    ASSUME TypeOK, NEW m \in Messages, NEW kind \in Kinds, Record(m, kind)
    PROVE  \E r \in Runs :
              /\ registry[r] = "ACTIVE"
              /\ events' = [events EXCEPT ![nextEvent] = [run |-> r, kind |-> kind]]
              /\ AddIntent(nextEvent, r, kind)
  <1>1. PICK r \in Runs :
              /\ IsActiveRun(registry, r)
              /\ events' = [events EXCEPT ![nextEvent] = [run |-> r, kind |-> kind]]
              /\ AddIntent(nextEvent, r, kind)
    BY DEF Record
  <1> QED BY <1>1 DEF IsActiveRun, Active

\* The new event gets an intent when it asks for one.
LEMMA RecordIsIntentStep ==
    ASSUME TypeOK, Unused, InboxKept, NEW m \in Messages, NEW kind \in Kinds, Record(m, kind)
    PROVE  /\ IntentStep
           /\ Triggers(kind) => outbox'[nextEvent] # None
  <1>1. PICK r \in Runs :
              /\ events' = [events EXCEPT ![nextEvent] = [run |-> r, kind |-> kind]]
              /\ AddIntent(nextEvent, r, kind)
    BY RecordedRow
  <1>2. nextEvent \in EventIds /\ nextEvent \in Nat /\ nextEvent' = nextEvent + 1
    BY Identifiers DEF Record
  <1>3. /\ Pending(r) \in Intents /\ \A x : Pending(x).run = x
        /\ [run |-> r, kind |-> kind] \in EventRows
    BY DEF Pending, Intents, EventRows
  <1>4. \A i \in EventRows : i # None
    BY NoneIsNoRow
  <1>5. Pending(r) # None
    BY <1>3, NoneIsNoRow
  <1>6. /\ events'[nextEvent] = [run |-> r, kind |-> kind]
        /\ \A e \in EventIds : e # nextEvent => events'[e] = events[e]
    BY <1>1, <1>2 DEF TypeOK
  <1>7. outbox[nextEvent] = None /\ Backfilled[nextEvent] = None
    BY <1>2, BackfillAdds DEF Unused
  <1>8. /\ \A e \in EventIds : e # nextEvent => outbox'[e] = Backfilled[e]
        /\ outbox'[nextEvent] = IF Triggers(kind) THEN Pending(r) ELSE None
        /\ outbox' \in [EventIds -> Intents \cup {None}]
    BY <1>1, <1>2, <1>3, <1>7, BackfillAdds DEF AddIntent
  <1>9. ASSUME NEW e \in EventIds, e # nextEvent
        PROVE  \/ outbox'[e] = outbox[e]
               \/ /\ outbox[e] = None
                  /\ outbox'[e] # None /\ events'[e] # None /\ e < nextEvent'
                  /\ outbox'[e].run = events'[e].run
    <2>1. CASE outbox[e] # None \/ Backfilled[e] = None
      BY <1>8, <1>9, <2>1, BackfillAdds
    <2>2. CASE outbox[e] = None /\ Backfilled[e] # None
      <3>1. events[e] \in EventRows /\ e < nextEvent /\ Backfilled[e] = Pending(events[e].run)
        BY <2>2, BackfillAdds
      <3>2. e < nextEvent'
        BY <1>2, <3>1, Identifiers
      <3> QED BY <1>3, <1>4, <1>6, <1>8, <1>9, <2>2, <3>1, <3>2
    <2> QED BY <2>1, <2>2
  <1>10. \/ outbox'[nextEvent] = outbox[nextEvent]
         \/ /\ outbox[nextEvent] = None
            /\ outbox'[nextEvent] # None /\ events'[nextEvent] # None /\ nextEvent < nextEvent'
            /\ outbox'[nextEvent].run = events'[nextEvent].run
    BY <1>2, <1>3, <1>4, <1>5, <1>6, <1>7, <1>8
  <1>11. IntentStep
    BY <1>8, <1>9, <1>10 DEF IntentStep
  <1>12. Triggers(kind) => outbox'[nextEvent] # None
    BY <1>5, <1>8
  <1> QED BY <1>11, <1>12

-----------------------------------------------------------------------------
(* Types.                                                                  *)

LEMMA TypeInit == Init => TypeOK
  <1> SUFFICES ASSUME Init PROVE TypeOK
    OBVIOUS
  <1>1. 1 \in Runs /\ 1 \in EventIds
    BY OutboxAssumption DEF Runs, EventIds
  <1>0. PICK n \in 0..MaxEvent : n = Cardinality(LegacyMessages) /\ nextEvent = n + 1
    BY FS_CardinalityType, OutboxAssumption DEF Init
  <1>2. PICK kind \in [1..n -> Kinds], number \in [LegacyMessages -> 1..n] :
        /\ events = [e \in EventIds |->
                        IF e \in DOMAIN kind THEN [run |-> 1, kind |-> kind[e]] ELSE None]
        /\ inbox = [m \in Messages |->
                        IF m \in LegacyMessages THEN [kind |-> kind[number[m]], event |-> number[m]]
                        ELSE None]
    <2>1. PICK k \in [1..Cardinality(LegacyMessages) -> Kinds],
               f \in {g \in [LegacyMessages -> 1..Cardinality(LegacyMessages)] :
                        \A m, o \in LegacyMessages : g[m] = g[o] => m = o} :
        /\ events = [e \in EventIds |->
                        IF e \in DOMAIN k THEN [run |-> 1, kind |-> k[e]] ELSE None]
        /\ inbox = [m \in Messages |->
                        IF m \in LegacyMessages THEN [kind |-> k[f[m]], event |-> f[m]]
                        ELSE None]
      BY DEF Init
    <2>2. k \in [1..n -> Kinds] /\ f \in [LegacyMessages -> 1..n]
      BY <1>0
    <2> QED BY <2>1, <2>2
  <1>7. 1..n \subseteq EventIds
    BY <1>0, OutboxAssumption DEF EventIds
  <1>3. events \in [EventIds -> EventRows \cup {None}]
    BY <1>1, <1>2 DEF EventRows
  <1>4. inbox \in [Messages -> InboxRows \cup {None}]
    BY <1>2, <1>7 DEF InboxRows
  <1>5. registry \in [Runs -> Statuses \cup {NoRow}]
    BY DEF Init, Statuses
  <1>6. nextEvent \in 1..(MaxEvent + 1) /\ nextRun \in 1..(MaxRun + 1)
    BY <1>0, OutboxAssumption DEF Init
  <1> QED BY <1>3, <1>4, <1>5, <1>6 DEF Init, TypeOK

LEMMA TypeRecord ==
    ASSUME TypeOK, Unused, InboxKept, NEW m \in Messages, NEW kind \in Kinds, Record(m, kind)
    PROVE  TypeOK'
  <1>1. outbox' \in [EventIds -> Intents \cup {None}]
    BY RecordIsIntentStep DEF IntentStep
  <1>2. PICK r \in Runs : events' = [events EXCEPT ![nextEvent] = [run |-> r, kind |-> kind]]
    BY RecordedRow
  <1>3. events' \in [EventIds -> EventRows \cup {None}]
    BY <1>2 DEF TypeOK, EventRows
  <1>4. nextEvent \in EventIds /\ nextEvent' \in 1..(MaxEvent + 1)
    BY Identifiers DEF Record
  <1>5. inbox' \in [Messages -> InboxRows \cup {None}]
    BY <1>4 DEF TypeOK, Record, InboxRows
  <1> QED BY <1>1, <1>3, <1>4, <1>5 DEF TypeOK, Record

LEMMA TypeCreate ==
    ASSUME TypeOK, IntentStep, NEW trigger \in EventIds \cup {NoEvent}, NEW acks \in BOOLEAN,
           CreateVersion(trigger, acks), UNCHANGED <<events, inbox, actuals, nextEvent, published>>
    PROVE  TypeOK'
  <1>1. nextRun \in Runs /\ nextRun' \in 1..(MaxRun + 1)
    BY Identifiers DEF CreateVersion
  <1>2. audits' \in [Runs -> Audits \cup {None}]
    BY <1>1 DEF TypeOK, CreateVersion, Audits
  <1>3. registry' \in [Runs -> Statuses \cup {NoRow}]
    BY <1>1 DEF TypeOK, CreateVersion, Started, Statuses
  <1>4. job' \in Jobs
    BY <1>1 DEF CreateVersion, Jobs
  <1> QED BY <1>1, <1>2, <1>3, <1>4 DEF TypeOK, IntentStep

\* The reschedule under way under names of its own.
LEMMA Job ==
    ASSUME OutboxInv, job # None
    PROVE  \E n \in Runs, a \in Audits :
              /\ job \in Jobs /\ job.new = n /\ audits[n] = a /\ a # None /\ a.previous \in Runs
              /\ \/ registry[n] \in {"RUNNING", "COMPLETED"} /\ registry[a.previous] = "ACTIVE"
                 \/ registry[n] = "ACTIVE" /\ job.acks
              /\ job.acks => /\ a.trigger \in EventIds /\ outbox[a.trigger] # None
                             /\ outbox[a.trigger].run = a.previous
                             /\ a = [trigger |-> a.trigger, previous |-> a.previous]
  <1>1. job \in Jobs /\ job.new \in Runs
    BY DEF OutboxInv, TypeOK, Jobs
  <1>2. audits[job.new] \in Audits /\ audits[job.new] # None
    BY <1>1 DEF OutboxInv, JobUnderWay, TypeOK
  <1>3. \A a \in Audits : a.previous \in Runs /\ a = [trigger |-> a.trigger, previous |-> a.previous]
    BY DEF Audits
  <1> QED BY <1>1, <1>2, <1>3 DEF OutboxInv, JobUnderWay

LEMMA TypeJob ==
    ASSUME OutboxInv, CompleteVersion \/ PromoteVersion \/ FailVersion
    PROVE  TypeOK'
  <1>1. PICK n \in Runs, a \in Audits :
            /\ job \in Jobs /\ job.new = n /\ audits[n] = a
            /\ job.acks => a.trigger \in EventIds
    BY Job DEF CompleteVersion, PromoteVersion, FailVersion
  <1>2. registry' \in [Runs -> Statuses \cup {NoRow}]
    BY <1>1 DEF OutboxInv, TypeOK, CompleteVersion, PromoteVersion, FailVersion,
                Updated, Promoted, Statuses
  <1>3. published' \in [EventIds -> SUBSET Runs]
    BY <1>1 DEF OutboxInv, TypeOK, CompleteVersion, PromoteVersion, FailVersion
  <1>4. job' \in Jobs \cup {None}
    BY DEF OutboxInv, TypeOK, CompleteVersion, PromoteVersion, FailVersion
  <1> QED BY <1>2, <1>3, <1>4 DEF OutboxInv, TypeOK, CompleteVersion, PromoteVersion, FailVersion

LEMMA TypePipeline ==
    ASSUME TypeOK, PublishPipeline \/ Retain
    PROVE  TypeOK'
  <1>1. CASE PublishPipeline
    <2>1. registry' \in [Runs -> Statuses \cup {NoRow}]
      BY <1>1 DEF TypeOK, PublishPipeline, Promoted, Statuses
    <2>2. nextRun' \in 1..(MaxRun + 1)
      BY <1>1, Identifiers DEF PublishPipeline
    <2> QED BY <1>1, <2>1, <2>2 DEF TypeOK, PublishPipeline
  <1>2. CASE Retain
    <2>1. registry' \in [Runs -> Statuses \cup {NoRow}]
      BY <1>2 DEF TypeOK, Retain, Pruned
    <2>2. events' \in [EventIds -> EventRows \cup {None}]
      BY <1>2 DEF TypeOK, Retain
    <2>3. audits' \in [Runs -> Audits \cup {None}]
      BY <1>2 DEF TypeOK, Retain
    <2> QED BY <1>2, <2>1, <2>2, <2>3 DEF TypeOK, Retain
  <1> QED BY <1>1, <1>2

-----------------------------------------------------------------------------
(* The invariant is inductive.                                             *)

LEMMA InvInit == Init => OutboxInv
  <1> SUFFICES ASSUME Init PROVE OutboxInv
    OBVIOUS
  <1>1. TypeOK
    BY TypeInit
  <1>2. Unused /\ OneSuccessor /\ AnsweredOnce /\ JobUnderWay
    BY Identifiers DEF Init, Unused, OneSuccessor, AnsweredOnce, JobUnderWay
  <1>3. PICK n \in 0..MaxEvent : n = Cardinality(LegacyMessages) /\ nextEvent = n + 1
    BY FS_CardinalityType, OutboxAssumption DEF Init
  <1>4. PICK kind \in [1..n -> Kinds], number \in [LegacyMessages -> 1..n] :
        /\ events = [e \in EventIds |->
                        IF e \in DOMAIN kind THEN [run |-> 1, kind |-> kind[e]] ELSE None]
        /\ inbox = [m \in Messages |->
                        IF m \in LegacyMessages THEN [kind |-> kind[number[m]], event |-> number[m]]
                        ELSE None]
    <2>1. PICK k \in [1..Cardinality(LegacyMessages) -> Kinds],
               f \in {g \in [LegacyMessages -> 1..Cardinality(LegacyMessages)] :
                        \A m, o \in LegacyMessages : g[m] = g[o] => m = o} :
        /\ events = [e \in EventIds |->
                        IF e \in DOMAIN k THEN [run |-> 1, kind |-> k[e]] ELSE None]
        /\ inbox = [m \in Messages |->
                        IF m \in LegacyMessages THEN [kind |-> k[f[m]], event |-> f[m]]
                        ELSE None]
      BY DEF Init
    <2>2. k \in [1..n -> Kinds] /\ f \in [LegacyMessages -> 1..n]
      BY <1>3
    <2> QED BY <2>1, <2>2
  <1>5. 1 \in Runs /\ 1..n \subseteq EventIds
    BY <1>3, OutboxAssumption DEF Runs, EventIds
  <1>6. ASSUME NEW m \in Messages, inbox[m] # None
        PROVE  m \in LegacyMessages /\ inbox[m].event \in 1..n
    BY <1>4, <1>6
  <1>7. ASSUME NEW e \in 1..n PROVE events[e] # None
    <2>1. events[e] = [run |-> 1, kind |-> kind[e]] /\ kind[e] \in Kinds
      BY <1>4, <1>5
    <2>2. events[e] \in EventRows
      BY <1>5, <2>1 DEF EventRows
    <2> QED BY <2>2, NoneIsNoRow
  <1>8. InboxKept
    <2>1. \A e \in 1..n : e < nextEvent
      BY <1>3
    <2> QED BY <1>6, <1>7, <2>1 DEF InboxKept
  <1>9. \A e \in EventIds : events[e] # None => events[e].run = 1
    BY <1>4
  <1>10. SourcesPublished
    BY <1>5, <1>9 DEF Init, SourcesPublished, HasBeenActive
  <1> QED BY <1>1, <1>2, <1>8, <1>10 DEF OutboxInv

\* An intent that is there keeps its run.
LEMMA IntentsStay ==
    ASSUME TypeOK, IntentStep
    PROVE  /\ \A e \in EventIds : outbox[e] # None =>
                 outbox'[e] # None /\ outbox'[e].run = outbox[e].run
           /\ \A e \in EventIds : outbox[e] = None /\ outbox'[e] # None =>
                 events'[e] # None /\ e < nextEvent' /\ outbox'[e].run = events'[e].run
  BY DEF IntentStep

\* Steps that leave the registry alone and end without a reschedule under way:
\* recording, migration, acknowledgement, crash.
LEMMA QuietKeeps ==
    ASSUME OutboxInv, TypeOK', IntentStep,
           UNCHANGED <<registry, audits, nextRun, published>>, job' = None,
           nextEvent' \in {nextEvent, nextEvent + 1},
           \A e \in EventIds : events'[e] # None => registry[events'[e].run] \in HasBeenActive
    PROVE  Unused' /\ SourcesPublished' /\ OneSuccessor' /\ AnsweredOnce' /\ JobUnderWay'
  <1>1. nextEvent \in Nat /\ EventIds \subseteq Nat /\ nextRun \in Nat /\ Runs \subseteq Nat
    BY Identifiers, OutboxAssumption DEF OutboxInv, TypeOK
  <1>2. Unused'
    <2>1. ASSUME NEW e \in EventIds, outbox'[e] # None
          PROVE  e < nextEvent'
      BY <1>1, <2>1, IntentsStay DEF OutboxInv, Unused
    <2> QED BY <2>1 DEF OutboxInv, Unused
  <1>3. ASSUME NEW e \in EventIds, outbox'[e] # None
        PROVE  outbox'[e].run < nextRun /\ registry[outbox'[e].run] \in HasBeenActive \cup {NoRow}
    <2>1. CASE outbox[e] # None
      BY <2>1, IntentsStay DEF OutboxInv, SourcesPublished
    <2>2. CASE outbox[e] = None
      <3>1. /\ events'[e] \in EventRows /\ outbox'[e].run = events'[e].run
            /\ registry[events'[e].run] \in HasBeenActive
        BY <1>3, <2>2, IntentsStay DEF OutboxInv, TypeOK
      <3>2. events'[e].run \in Runs
        BY <3>1 DEF EventRows
      <3>3. registry[events'[e].run] # NoRow
        BY <3>1 DEF HasBeenActive, NoRow
      <3> QED BY <3>1, <3>2, <3>3 DEF OutboxInv, Unused
    <2> QED BY <2>1, <2>2
  <1>4. SourcesPublished'
    BY <1>3 DEF OutboxInv, SourcesPublished
  <1>5. OneSuccessor'
    BY DEF OutboxInv, OneSuccessor
  <1>6. AnsweredOnce'
    BY IntentsStay DEF OutboxInv, AnsweredOnce
  <1> QED BY <1>2, <1>4, <1>5, <1>6 DEF JobUnderWay

LEMMA InvRecord ==
    ASSUME OutboxInv, NEW m \in Messages, NEW kind \in Kinds, Record(m, kind)
    PROVE  OutboxInv'
  <1>1. TypeOK /\ Unused /\ InboxKept
    BY DEF OutboxInv
  <1>2. IntentStep /\ (Triggers(kind) => outbox'[nextEvent] # None) /\ TypeOK'
    BY <1>1, RecordIsIntentStep, TypeRecord
  <1>3. PICK r \in Runs :
            /\ registry[r] = "ACTIVE"
            /\ events' = [events EXCEPT ![nextEvent] = [run |-> r, kind |-> kind]]
    BY <1>1, RecordedRow
  <1>4. nextEvent \in EventIds /\ nextEvent \in Nat /\ nextEvent' = nextEvent + 1
    BY Identifiers DEF Record
  <1>5. /\ events'[nextEvent] = [run |-> r, kind |-> kind]
        /\ \A e \in EventIds : e # nextEvent => events'[e] = events[e]
    BY <1>1, <1>3, <1>4 DEF TypeOK
  <1>6. events'[nextEvent] # None
    <2>1. events'[nextEvent] \in EventRows
      BY <1>5 DEF EventRows
    <2> QED BY <2>1, NoneIsNoRow
  <1>7. \A e \in EventIds : events'[e] # None => registry[events'[e].run] \in HasBeenActive
    BY <1>3, <1>5 DEF OutboxInv, SourcesPublished, HasBeenActive
  <1>8. Unused' /\ SourcesPublished' /\ OneSuccessor' /\ AnsweredOnce' /\ JobUnderWay'
    BY <1>2, <1>4, <1>7, QuietKeeps DEF Record, LockFree
  <1>9. ASSUME NEW w \in Messages, inbox'[w] # None
        PROVE  /\ events'[inbox'[w].event] # None
               /\ inbox'[w].event < nextEvent'
               /\ Triggers(inbox'[w].kind) /\ outbox'[inbox'[w].event] = None => w \in LegacyMessages
    <2>1. CASE w = m
      <3>1. inbox'[w] = [kind |-> kind, event |-> nextEvent]
        BY <1>1, <2>1 DEF TypeOK, Record
      <3> QED BY <1>2, <1>4, <1>6, <3>1
    <2>2. CASE w # m
      <3>1. inbox'[w] = inbox[w] /\ inbox[w] \in InboxRows
        BY <1>1, <1>9, <2>2 DEF TypeOK, Record
      <3>2. inbox[w].event \in EventIds
        BY <3>1 DEF InboxRows
      <3>3. /\ events[inbox[w].event] # None /\ inbox[w].event < nextEvent
            /\ Triggers(inbox[w].kind) /\ outbox[inbox[w].event] = None => w \in LegacyMessages
        BY <1>1, <1>9, <3>1 DEF InboxKept
      <3>4. \A e \in EventIds : e < nextEvent => e < nextEvent'
        BY <1>4, Identifiers
      <3> QED BY <1>1, <1>2, <1>5, <1>6, <3>1, <3>2, <3>3, <3>4, IntentsStay
    <2> QED BY <2>1, <2>2
  <1>10. InboxKept'
    BY <1>9 DEF InboxKept
  <1> QED BY <1>2, <1>8, <1>10 DEF OutboxInv

\* Steps that leave the inbox and the events alone keep InboxKept.
LEMMA InboxStays ==
    ASSUME TypeOK, InboxKept, IntentStep, UNCHANGED <<inbox, events, nextEvent>>
    PROVE  InboxKept'
  <1>1. \A i \in InboxRows : i.event \in EventIds
    BY DEF InboxRows
  <1> QED BY <1>1, IntentsStay DEF TypeOK, InboxKept

\* Migration, actuals, acknowledgements, and a process that dies.
LEMMA InvQuiet ==
    ASSUME OutboxInv,
           \/ Migrate \/ AckDispatched \/ Crash \/ \E r \in Runs : IngestActuals(r)
           \/ \E e \in EventIds : Recover(e) \/ \E n \in Runs : AckByOperator(e, n)
    PROVE  OutboxInv' /\ IntentStep
  <1>1. TypeOK /\ InboxKept
    BY DEF OutboxInv
  <1>2. /\ UNCHANGED <<registry, audits, nextRun, published, events, inbox, nextEvent>>
        /\ job' = None
    BY DEF Migrate, IngestActuals, AckDispatched, Crash, Recover, AckByOperator, LockFree, dbVars
  <1>3. IntentStep
    <2>1. CASE Migrate
      BY <1>1, <1>2, <2>1, BackfillIsIntentStep DEF Migrate
    <2>2. CASE AckDispatched
      <3>1. PICK n \in Runs, a \in Audits :
                job.new = n /\ audits[n] = a
                /\ (registry[n] \in {"RUNNING", "COMPLETED"} \/ job.acks)
                /\ (job.acks => a.trigger \in EventIds)
        BY <2>2, Job DEF AckDispatched
      <3>2. Ack(a.trigger, n) /\ a.trigger \in EventIds
        BY <2>2, <3>1 DEF AckDispatched
      <3> QED BY <1>1, <1>2, <3>2, AckIsIntentStep
    <2>3. CASE Crash
      BY <1>1, <2>3 DEF Crash, dbVars, IntentStep, TypeOK
    <2>4. ASSUME NEW e \in EventIds, NEW n \in Runs, Ack(e, n) PROVE IntentStep
      BY <1>1, <1>2, <2>4, AckIsIntentStep
    <2>5. CASE \E r \in Runs : IngestActuals(r)
      BY <1>1, <2>5 DEF IngestActuals, IntentStep, TypeOK
    <2> QED BY <2>1, <2>2, <2>3, <2>4, <2>5 DEF Recover, AckByOperator
  <1>4. TypeOK'
    <2>1. actuals \subseteq Runs
      BY <1>1 DEF TypeOK
    <2>2. actuals' \subseteq Runs
      <3>1. CASE \E r \in Runs : IngestActuals(r)
        BY <2>1, <3>1 DEF IngestActuals
      <3>2. CASE actuals' = actuals
        BY <2>1, <3>2
      <3> QED BY <3>1, <3>2 DEF Migrate, AckDispatched, Crash, Recover, AckByOperator, dbVars
    <2> QED BY <1>1, <1>2, <1>3, <2>2 DEF TypeOK, IntentStep
  <1>5. \A e \in EventIds : events'[e] # None => registry[events'[e].run] \in HasBeenActive
    BY <1>2 DEF OutboxInv, SourcesPublished
  <1>6. Unused' /\ SourcesPublished' /\ OneSuccessor' /\ AnsweredOnce' /\ JobUnderWay'
    BY <1>2, <1>3, <1>4, <1>5, QuietKeeps
  <1> QED BY <1>1, <1>2, <1>3, <1>4, <1>6, InboxStays DEF OutboxInv

\* A new version: its audit names the run that is ACTIVE, and a dispatch is for
\* an intent of that run.
LEMMA InvCreate ==
    ASSUME OutboxInv, IntentStep, NEW trigger \in EventIds \cup {NoEvent}, NEW acks \in BOOLEAN,
           NEW source \in Runs, IsActiveRun(registry, source),
           CreateVersion(trigger, acks), UNCHANGED <<events, inbox, actuals, nextEvent, published>>,
           acks => /\ trigger \in EventIds /\ outbox'[trigger] # None
                   /\ outbox'[trigger].run = source
    PROVE  OutboxInv'
  <1> DEFINE audit == [trigger |-> trigger, previous |-> source]
  <1>1. TypeOK /\ TypeOK' /\ InboxKept
    BY TypeCreate DEF OutboxInv
  <1>2. InboxKept'
    BY <1>1, InboxStays
  <1>3. /\ nextRun \in Runs /\ nextRun' = nextRun + 1 /\ nextRun \in Nat /\ Runs \subseteq Nat
        /\ registry' = [registry EXCEPT ![nextRun] = "RUNNING"]
        /\ job' = [new |-> nextRun, acks |-> acks]
    BY Identifiers DEF CreateVersion, Started
  <1>4. registry[source] = "ACTIVE" /\ \A r \in Runs : IsActiveRun(registry, r) => r = source
    BY DEF IsActiveRun, Active
  <1>5. audits' = [audits EXCEPT ![nextRun] = audit]
    BY <1>4 DEF CreateVersion, Baseline
  <1>6. registry[nextRun] = NoRow /\ audits[nextRun] = None /\ source # nextRun
    BY <1>3, <1>4 DEF OutboxInv, Unused, NoRow
  <1>7. audit \in Audits /\ audit # None
    BY NoneIsNoRow DEF Audits
  <1>8. /\ registry'[nextRun] = "RUNNING" /\ audits'[nextRun] = audit
        /\ \A r \in Runs : r # nextRun => registry'[r] = registry[r] /\ audits'[r] = audits[r]
    BY <1>1, <1>3, <1>5 DEF TypeOK
  <1>9. Unused'
    <2>1. ASSUME NEW r \in Runs, ~(r < nextRun') PROVE registry'[r] = NoRow /\ audits'[r] = None
      <3>1. r \in Nat /\ nextRun \in Nat /\ ~(r < nextRun + 1)
        BY <1>3, <2>1
      <3>2. r # nextRun /\ ~(r < nextRun)
        BY <3>1
      <3> QED BY <1>8, <3>2 DEF OutboxInv, Unused
    <2>2. ASSUME NEW e \in EventIds, ~(e < nextEvent) PROVE outbox'[e] = None
      BY <2>2, <1>1, IntentsStay DEF OutboxInv, Unused
    <2> QED BY <2>1, <2>2 DEF Unused
  <1>10. \A r \in Runs : registry[r] \in HasBeenActive => registry'[r] = registry[r] /\ r # nextRun
    BY <1>6, <1>8 DEF HasBeenActive, NoRow
  <1>11. \A r \in Runs : registry'[r] \in HasBeenActive => registry'[r] = registry[r] /\ audits'[r] = audits[r]
    BY <1>8 DEF HasBeenActive
  <1>12. /\ \A i \in EventRows : i.run \in Runs
         /\ \A i \in Audits : i.previous \in Runs
         /\ \A i \in Intents : i.run \in Runs
    BY DEF EventRows, Audits, Intents
  <1>13. \A e \in EventIds : events[e] # None =>
            events[e] \in EventRows /\ registry[events[e].run] \in HasBeenActive
    BY <1>1 DEF OutboxInv, SourcesPublished, TypeOK
  <1>14. \A n \in Runs : audits[n] # None =>
            audits[n] \in Audits /\ registry[audits[n].previous] \in HasBeenActive
    BY <1>1 DEF OutboxInv, SourcesPublished, TypeOK
  <1>15. SourcesPublished'
    <2>1. \A e \in EventIds : events'[e] # None => registry'[events'[e].run] \in HasBeenActive
      BY <1>10, <1>12, <1>13
    <2>2. ASSUME NEW n \in Runs, audits'[n] # None PROVE registry'[audits'[n].previous] \in HasBeenActive
      <3>1. CASE n = nextRun
        BY <1>4, <1>8, <1>10, <3>1 DEF HasBeenActive
      <3>2. CASE n # nextRun
        BY <1>8, <1>10, <1>12, <1>14, <2>2, <3>2
      <3> QED BY <3>1, <3>2
    <2>3. ASSUME NEW e \in EventIds, outbox'[e] # None
          PROVE  outbox'[e].run < nextRun' /\ registry'[outbox'[e].run] \in HasBeenActive \cup {NoRow}
      <3>1. PICK r \in Runs : r = outbox'[e].run
        BY <1>1, <1>12, <2>3 DEF TypeOK
      <3>2. r < nextRun /\ registry[r] \in HasBeenActive \cup {NoRow}
        <4>1. CASE outbox[e] # None
          BY <1>1, <3>1, <4>1, IntentsStay DEF OutboxInv, SourcesPublished
        <4>2. CASE outbox[e] = None
          <5>1. events[e] # None /\ r = events[e].run
            BY <1>1, <2>3, <3>1, <4>2, IntentsStay
          <5>2. registry[r] \in HasBeenActive /\ registry[r] # NoRow
            BY <1>13, <5>1 DEF HasBeenActive, NoRow
          <5> QED BY <5>2 DEF OutboxInv, Unused
        <4> QED BY <4>1, <4>2
      <3>3. r # nextRun /\ r < nextRun'
        BY <1>3, <3>2
      <3> QED BY <1>8, <3>1, <3>2, <3>3
    <2> QED BY <2>1, <2>2, <2>3 DEF SourcesPublished
  <1>16. OneSuccessor'
    <2>1. ASSUME NEW n \in Runs, audits'[n] # None, registry'[n] \in HasBeenActive
          PROVE  /\ audits'[n] = audits[n] /\ registry[n] \in HasBeenActive
                 /\ registry'[audits'[n].previous] = "ARCHIVED"
      <3>1. audits'[n] = audits[n] /\ registry[n] \in HasBeenActive
        BY <1>11, <2>1
      <3>2. registry[audits[n].previous] = "ARCHIVED" /\ audits[n].previous \in Runs
        BY <1>12, <1>14, <2>1, <3>1 DEF OutboxInv, OneSuccessor
      <3> QED BY <1>10, <3>1, <3>2 DEF HasBeenActive
    <2> QED BY <2>1 DEF OutboxInv, OneSuccessor
  <1>17. AnsweredOnce'
    <2>1. ASSUME NEW e \in EventIds, published[e] # {}
          PROVE  outbox'[e] # None /\ registry'[outbox'[e].run] # "ACTIVE"
      <3>1. /\ outbox[e] # None /\ registry[outbox[e].run] # "ACTIVE"
            /\ outbox'[e] # None /\ outbox'[e].run = outbox[e].run
        BY <1>1, <2>1, IntentsStay DEF OutboxInv, AnsweredOnce
      <3>2. outbox[e].run \in Runs
        BY <1>1, <1>12, <3>1 DEF TypeOK
      <3> QED BY <1>8, <3>1, <3>2
    <2> QED BY <2>1 DEF OutboxInv, AnsweredOnce
  <1>18. JobUnderWay'
    <2>1. job'.new = nextRun /\ job'.acks = acks
      BY <1>3
    <2>2. registry'[source] = "ACTIVE"
      BY <1>4, <1>6, <1>8
    <2> QED BY <1>7, <1>8, <2>1, <2>2 DEF JobUnderWay
  <1> QED BY <1>1, <1>2, <1>9, <1>15, <1>16, <1>17, <1>18 DEF OutboxInv

LEMMA InvReschedule ==
    ASSUME OutboxInv,
           \/ \E e \in EventIds, durationGiven \in BOOLEAN : Dispatch(e, durationGiven)
           \/ \E trigger \in EventIds \cup {NoEvent} : ApiReschedule(trigger)
    PROVE  OutboxInv' /\ IntentStep
  <1>1. TypeOK /\ InboxKept
    BY DEF OutboxInv
  <1>2. ASSUME NEW e \in EventIds, NEW durationGiven, Dispatch(e, durationGiven)
        PROVE  OutboxInv' /\ IntentStep
    <2>1. /\ Backfilled[e] # None /\ IsActiveRun(registry, Backfilled[e].run)
          /\ CreateVersion(e, TRUE) /\ outbox' = Backfilled
          /\ UNCHANGED <<events, inbox, actuals, nextEvent, published>>
      BY <1>2 DEF Dispatch, FreshBaseline
    <2>2. Backfilled[e].run \in Runs
      BY <1>1, <2>1, BackfillAdds DEF Intents
    <2>3. IntentStep
      BY <1>1, <2>1, BackfillIsIntentStep
    <2> QED BY <2>1, <2>2, <2>3, InvCreate
  <1>3. ASSUME NEW trigger \in EventIds \cup {NoEvent}, ApiReschedule(trigger)
        PROVE  OutboxInv' /\ IntentStep
    <2>1. /\ CreateVersion(trigger, FALSE) /\ outbox' = outbox
          /\ UNCHANGED <<events, inbox, actuals, nextEvent, published>>
      BY <1>3 DEF ApiReschedule
    <2>2. PICK source \in Runs : IsActiveRun(registry, source)
      BY <2>1 DEF CreateVersion, Baseline
    <2>3. IntentStep
      BY <1>1, <2>1 DEF IntentStep, TypeOK
    <2> QED BY <2>1, <2>2, <2>3, InvCreate
  <1> QED BY <1>2, <1>3

\* Steps that change the status of runs but delete none.
LEMMA RegistryMoves ==
    ASSUME OutboxInv, TypeOK', UNCHANGED <<events, inbox, outbox, audits, nextEvent>>,
           nextRun' \in {nextRun, nextRun + 1},
           \A r \in Runs : registry[r] \in HasBeenActive => registry'[r] \in HasBeenActive,
           \A r \in Runs : r < nextRun /\ registry[r] = NoRow => registry'[r] = NoRow,
           \A r \in Runs : ~(r < nextRun') => registry'[r] = NoRow
    PROVE  Unused' /\ InboxKept' /\ SourcesPublished'
  <1>1. nextRun \in Nat /\ Runs \subseteq Nat
    BY Identifiers, OutboxAssumption DEF OutboxInv, TypeOK
  <1>2. /\ \A i \in EventRows : i.run \in Runs
        /\ \A i \in Audits : i.previous \in Runs
        /\ \A i \in Intents : i.run \in Runs
    BY DEF EventRows, Audits, Intents
  <1>3. \A r \in Runs : r < nextRun => r < nextRun'
    BY <1>1
  <1>4. Unused'
    BY <1>3 DEF OutboxInv, Unused
  <1>5. InboxKept'
    BY DEF OutboxInv, InboxKept
  <1>6. SourcesPublished'
    BY <1>2, <1>3 DEF OutboxInv, TypeOK, SourcesPublished
  <1> QED BY <1>4, <1>5, <1>6

\* A promotion, of the reschedule's version or of the pipeline's.
LEMMA PromotedValues ==
    ASSUME TypeOK, NEW n \in Runs, registry' = Promoted(registry, n)
    PROVE  /\ registry'[n] = "ACTIVE"
           /\ \A r \in Runs : r # n =>
                 registry'[r] = IF registry[r] = "ACTIVE" THEN "ARCHIVED" ELSE registry[r]
  BY DEF TypeOK, Promoted

\* What OneSuccessor and AnsweredOnce need of a version that is not promoted yet.
LEMMA NotASource ==
    ASSUME OutboxInv, NEW n \in Runs, registry[n] \notin HasBeenActive
    PROVE  /\ \A o \in Runs : audits[o] # None => audits[o].previous \in Runs \ {n}
           /\ \A e \in EventIds : outbox[e] # None =>
                 outbox[e].run \in Runs /\ (registry[n] # NoRow => outbox[e].run # n)
  <1>1. /\ \A i \in Audits : i.previous \in Runs
        /\ \A i \in Intents : i.run \in Runs
    BY DEF Audits, Intents
  <1> QED BY <1>1 DEF OutboxInv, TypeOK, SourcesPublished

LEMMA InvComplete ==
    ASSUME OutboxInv, CompleteVersion \/ FailVersion
    PROVE  OutboxInv'
  <1>1. TypeOK /\ TypeOK'
    BY TypeJob DEF OutboxInv
  <1>2. PICK n \in Runs, a \in Audits :
            /\ job.new = n /\ audits[n] = a /\ a # None /\ a.previous \in Runs
            /\ \/ registry[n] \in {"RUNNING", "COMPLETED"} /\ registry[a.previous] = "ACTIVE"
               \/ registry[n] = "ACTIVE" /\ job.acks
    BY Job DEF CompleteVersion, FailVersion
  <1>3. PICK s \in {"COMPLETED", "FAILED"} :
            /\ registry' = [registry EXCEPT ![n] = s]
            /\ registry[n] \in {"RUNNING", "COMPLETED"}
            /\ job' = None \/ (job' = job /\ s = "COMPLETED")
    BY <1>2 DEF CompleteVersion, FailVersion, Updated
  <1>4. UNCHANGED <<events, inbox, outbox, audits, nextEvent, nextRun, published>>
    BY DEF CompleteVersion, FailVersion
  <1>5. /\ registry'[n] = s
        /\ \A r \in Runs : r # n => registry'[r] = registry[r]
    BY <1>1, <1>3 DEF TypeOK
  <1>6. registry[n] \notin HasBeenActive /\ registry[n] # NoRow /\ s \notin HasBeenActive /\ s # "ACTIVE"
    BY <1>3 DEF HasBeenActive, NoRow
  <1>7. n < nextRun
    BY <1>6 DEF OutboxInv, Unused
  <1>8. Unused' /\ InboxKept' /\ SourcesPublished'
    <2>1. \A r \in Runs : ~(r < nextRun) => registry[r] = NoRow
      BY DEF OutboxInv, Unused
    <2> QED BY <1>1, <1>4, <1>5, <1>6, <1>7, <2>1, RegistryMoves
  <1>9. OneSuccessor'
    BY <1>4, <1>5, <1>6, NotASource DEF OutboxInv, OneSuccessor
  <1>10. AnsweredOnce'
    BY <1>4, <1>5, <1>6, NotASource DEF OutboxInv, AnsweredOnce
  <1>11. JobUnderWay'
    <2>1. a.previous # n /\ registry'[a.previous] = "ACTIVE"
      BY <1>2, <1>3, <1>5, <1>6 DEF HasBeenActive
    <2> QED BY <1>2, <1>3, <1>4, <1>5, <2>1 DEF OutboxInv, JobUnderWay
  <1> QED BY <1>1, <1>8, <1>9, <1>10, <1>11 DEF OutboxInv

\* The promotion answers the event of a dispatch: nobody answered it before,
\* since its source run was ACTIVE until now, and nobody will again.
LEMMA InvPromote ==
    ASSUME OutboxInv, PromoteVersion
    PROVE  OutboxInv'
  <1>1. TypeOK /\ TypeOK'
    BY TypeJob DEF OutboxInv
  <1>2. PICK n \in Runs, a \in Audits :
            /\ job.new = n /\ audits[n] = a /\ a # None /\ a.previous \in Runs
            /\ \/ registry[n] \in {"RUNNING", "COMPLETED"} /\ registry[a.previous] = "ACTIVE"
               \/ registry[n] = "ACTIVE" /\ job.acks
            /\ job.acks => /\ a.trigger \in EventIds /\ outbox[a.trigger] # None
                           /\ outbox[a.trigger].run = a.previous
    BY Job DEF PromoteVersion
  <1>3. /\ registry[n] = "COMPLETED" /\ registry' = Promoted(registry, n)
        /\ UNCHANGED <<events, inbox, outbox, audits, nextEvent, nextRun>>
        /\ job' = IF job.acks THEN job ELSE None
        /\ published' = IF job.acks
                        THEN [published EXCEPT ![a.trigger] = published[a.trigger] \cup {n}]
                        ELSE published
    BY <1>2 DEF PromoteVersion, CanPromote
  <1>4. /\ registry'[n] = "ACTIVE"
        /\ \A r \in Runs : r # n =>
              registry'[r] = IF registry[r] = "ACTIVE" THEN "ARCHIVED" ELSE registry[r]
    BY <1>1, <1>3, PromotedValues
  <1>5. registry[n] \notin HasBeenActive /\ registry[n] # NoRow
    BY <1>3 DEF HasBeenActive, NoRow
  <1>6. a.previous # n /\ registry[a.previous] = "ACTIVE" /\ registry'[a.previous] = "ARCHIVED"
    BY <1>2, <1>3, <1>4
  <1>7. Unused' /\ InboxKept' /\ SourcesPublished'
    <2>1. n < nextRun /\ \A r \in Runs : ~(r < nextRun) => registry[r] = NoRow
      BY <1>5 DEF OutboxInv, Unused
    <2>2. \A r \in Runs : registry[r] = NoRow => registry'[r] = NoRow
      BY <1>4, <1>5 DEF NoRow
    <2>3. \A r \in Runs : registry[r] \in HasBeenActive => registry'[r] \in HasBeenActive
      BY <1>4, <1>5 DEF HasBeenActive
    <2> QED BY <1>1, <1>3, <2>1, <2>2, <2>3, RegistryMoves
  <1>8. OneSuccessor'
    <2>1. ASSUME NEW o \in Runs, audits[o] # None, registry'[o] \in HasBeenActive, o # n
          PROVE  /\ registry[o] \in HasBeenActive /\ registry[audits[o].previous] = "ARCHIVED"
                 /\ registry'[audits[o].previous] = "ARCHIVED"
      <3>1. registry[o] \in HasBeenActive
        BY <1>4, <2>1 DEF HasBeenActive
      <3>2. registry[audits[o].previous] = "ARCHIVED" /\ audits[o].previous \in Runs \ {n}
        BY <1>5, <2>1, <3>1, NotASource DEF OutboxInv, OneSuccessor
      <3> QED BY <1>4, <3>1, <3>2
    <2>2. \A o \in Runs : audits[o] # None /\ registry'[o] \in HasBeenActive /\ o # n
            => audits[o].previous # a.previous
      BY <1>6, <2>1
    <2> QED BY <1>2, <1>3, <1>6, <2>1, <2>2 DEF OutboxInv, OneSuccessor
  <1>9. AnsweredOnce'
    <2>1. ASSUME NEW e \in EventIds, outbox[e] # None, registry[outbox[e].run] # "ACTIVE"
          PROVE  registry'[outbox[e].run] # "ACTIVE"
      BY <1>4, <1>5, <2>1, NotASource
    <2>2. job.acks => published[a.trigger] = {}
      BY <1>2, <1>6 DEF OutboxInv, AnsweredOnce
    <2>3. job.acks => /\ published'[a.trigger] = {n}
                      /\ \A e \in EventIds : e # a.trigger => published'[e] = published[e]
      BY <1>1, <1>2, <1>3, <2>2 DEF TypeOK
    <2>4. ~job.acks => published' = published
      BY <1>3
    <2>5. ASSUME NEW e \in EventIds
          PROVE  /\ published'[e] # {} => outbox'[e] # None /\ registry'[outbox'[e].run] # "ACTIVE"
                 /\ \A x, y \in published'[e] : x = y
      <3>1. CASE job.acks /\ e = a.trigger
        BY <1>2, <1>3, <1>6, <2>3, <3>1
      <3>2. CASE ~(job.acks /\ e = a.trigger)
        BY <1>3, <2>1, <2>3, <2>4, <3>2 DEF OutboxInv, AnsweredOnce
      <3> QED BY <3>1, <3>2
    <2> QED BY <2>5 DEF AnsweredOnce
  <1>10. JobUnderWay'
    BY <1>2, <1>3, <1>4 DEF OutboxInv, JobUnderWay
  <1> QED BY <1>1, <1>7, <1>8, <1>9, <1>10 DEF OutboxInv

LEMMA InvPipeline ==
    ASSUME OutboxInv, PublishPipeline
    PROVE  OutboxInv'
  <1>1. TypeOK /\ TypeOK'
    BY TypePipeline DEF OutboxInv
  <1>2. PICK n \in Runs : n = nextRun
    BY DEF PublishPipeline
  <1>3. /\ registry' = Promoted(registry, n) /\ nextRun' = nextRun + 1
        /\ UNCHANGED <<events, inbox, outbox, audits, nextEvent, published>> /\ job' = None
    BY <1>2 DEF PublishPipeline, LockFree
  <1>4. /\ registry'[n] = "ACTIVE"
        /\ \A r \in Runs : r # n =>
              registry'[r] = IF registry[r] = "ACTIVE" THEN "ARCHIVED" ELSE registry[r]
    BY <1>1, <1>3, PromotedValues
  <1>5. nextRun \in Nat /\ n \in Nat /\ Runs \subseteq Nat
    BY <1>2, Identifiers
  <1>6. registry[n] = NoRow /\ audits[n] = None
    BY <1>2, <1>5 DEF OutboxInv, Unused
  <1>7. Unused' /\ InboxKept' /\ SourcesPublished'
    <2>1. ASSUME NEW r \in Runs, ~(r < nextRun') PROVE registry'[r] = NoRow
      <3>1. r # n /\ ~(r < nextRun)
        BY <1>2, <1>3, <1>5, <2>1
      <3> QED BY <1>4, <3>1 DEF OutboxInv, Unused, NoRow
    <2>2. \A r \in Runs : r < nextRun /\ registry[r] = NoRow => registry'[r] = NoRow
      BY <1>2, <1>4, <1>5 DEF NoRow
    <2>3. \A r \in Runs : registry[r] \in HasBeenActive => registry'[r] \in HasBeenActive
      BY <1>4 DEF HasBeenActive
    <2> QED BY <1>1, <1>3, <2>1, <2>2, <2>3, RegistryMoves
  <1>8. registry[n] \notin HasBeenActive
    BY <1>6 DEF HasBeenActive, NoRow
  <1>9. OneSuccessor'
    <2>1. ASSUME NEW o \in Runs, audits[o] # None, registry'[o] \in HasBeenActive
          PROVE  registry[o] \in HasBeenActive /\ registry'[audits[o].previous] = "ARCHIVED"
      <3>1. o # n
        BY <1>6, <2>1
      <3>2. registry[o] \in HasBeenActive
        BY <1>4, <2>1, <3>1 DEF HasBeenActive
      <3>3. registry[audits[o].previous] = "ARCHIVED" /\ audits[o].previous \in Runs \ {n}
        BY <1>8, <2>1, <3>2, NotASource DEF OutboxInv, OneSuccessor
      <3> QED BY <1>4, <3>2, <3>3
    <2> QED BY <1>3, <2>1 DEF OutboxInv, OneSuccessor
  <1>10. AnsweredOnce'
    <2>1. ASSUME NEW e \in EventIds, outbox[e] # None, registry[outbox[e].run] # "ACTIVE"
          PROVE  registry'[outbox[e].run] # "ACTIVE"
      <3>1. PICK r \in Runs : r = outbox[e].run /\ r < nextRun
        BY <1>8, <2>1, NotASource DEF OutboxInv, SourcesPublished
      <3>2. r # n
        BY <1>2, <1>5, <3>1
      <3> QED BY <1>4, <2>1, <3>1, <3>2
    <2> QED BY <1>3, <2>1 DEF OutboxInv, AnsweredOnce
  <1> QED BY <1>1, <1>3, <1>7, <1>9, <1>10 DEF OutboxInv, JobUnderWay

\* Retention deletes runs that are not ACTIVE.
LEMMA OldRunsAreOld ==
    ASSUME TypeOK, NEW old \in OldRuns(registry, KeepLastN, {ReferenceRun})
    PROVE  old \subseteq Rows(registry) /\ \A r \in old : r \in Runs /\ registry[r] # "ACTIVE"
  BY DEF TypeOK, OldRuns, Rows, Active

LEMMA InvRetain ==
    ASSUME OutboxInv, Retain
    PROVE  OutboxInv'
  <1>1. TypeOK /\ TypeOK'
    BY TypePipeline DEF OutboxInv
  <1>2. PICK old \in OldRuns(registry, KeepLastN, {ReferenceRun}) :
          /\ ForeignKeysHold(old)
          /\ registry' = Pruned(registry, old)
          /\ events' = [e \in EventIds |->
                          IF events[e] # None /\ events[e].run \in old THEN None ELSE events[e]]
          /\ audits' = [n \in Runs |->
                          IF audits[n] # None /\ (n \in old \/ audits[n].previous \in old)
                          THEN None ELSE audits[n]]
    BY DEF Retain
  <1>3. UNCHANGED <<inbox, outbox, nextEvent, nextRun, published>> /\ job' = None
    BY DEF Retain, LockFree
  <1>4. \A r \in Runs : registry'[r] = IF r \in old THEN NoRow ELSE registry[r]
    BY <1>1, <1>2 DEF TypeOK, Pruned
  <1>5. /\ \A e \in EventIds : events'[e] # None => events'[e] = events[e] /\ events[e].run \notin old
        /\ \A n \in Runs : audits'[n] # None =>
              audits'[n] = audits[n] /\ n \notin old /\ audits[n].previous \notin old
    BY <1>2
  <1>6. /\ \A i \in EventRows : i.run \in Runs
        /\ \A i \in InboxRows : i.event \in EventIds
        /\ \A i \in Audits : i.previous \in Runs
        /\ \A i \in Intents : i.run \in Runs
    BY DEF EventRows, InboxRows, Audits, Intents
  <1>7. Unused'
    BY <1>3, <1>4, <1>5 DEF OutboxInv, Unused
  <1>8. InboxKept'
    <2>1. ASSUME NEW m \in Messages, inbox[m] # None PROVE events'[inbox[m].event] # None
      <3>1. inbox[m].event \in EventIds /\ events[inbox[m].event] # None
        BY <1>1, <1>6, <2>1 DEF OutboxInv, InboxKept, TypeOK
      <3> QED BY <1>2, <2>1, <3>1 DEF ForeignKeysHold
    <2> QED BY <1>3, <2>1 DEF OutboxInv, InboxKept
  <1>9. SourcesPublished'
    <2>1. ASSUME NEW e \in EventIds, events'[e] # None PROVE registry'[events'[e].run] \in HasBeenActive
      BY <1>1, <1>4, <1>5, <1>6, <2>1 DEF OutboxInv, SourcesPublished, TypeOK
    <2>2. ASSUME NEW n \in Runs, audits'[n] # None PROVE registry'[audits'[n].previous] \in HasBeenActive
      BY <1>1, <1>4, <1>5, <1>6, <2>2 DEF OutboxInv, SourcesPublished, TypeOK
    <2>3. ASSUME NEW e \in EventIds, outbox[e] # None
          PROVE  outbox[e].run < nextRun /\ registry'[outbox[e].run] \in HasBeenActive \cup {NoRow}
      BY <1>1, <1>4, <1>6, <2>3 DEF OutboxInv, SourcesPublished, TypeOK
    <2> QED BY <1>3, <2>1, <2>2, <2>3 DEF SourcesPublished
  <1>10. OneSuccessor'
    <2>1. ASSUME NEW n \in Runs, audits'[n] # None, registry'[n] \in HasBeenActive
          PROVE  /\ audits'[n] = audits[n] /\ registry[n] \in HasBeenActive
                 /\ registry'[audits'[n].previous] = "ARCHIVED"
      BY <1>1, <1>4, <1>5, <1>6, <2>1 DEF OutboxInv, OneSuccessor, TypeOK
    <2> QED BY <2>1 DEF OutboxInv, OneSuccessor
  <1>11. AnsweredOnce'
    <2>1. ASSUME NEW e \in EventIds, outbox[e] # None, registry[outbox[e].run] # "ACTIVE"
          PROVE  registry'[outbox[e].run] # "ACTIVE"
      BY <1>1, <1>4, <1>6, <2>1 DEF TypeOK, NoRow
    <2> QED BY <1>3, <2>1 DEF OutboxInv, AnsweredOnce
  <1> QED BY <1>1, <1>3, <1>7, <1>8, <1>9, <1>10, <1>11 DEF OutboxInv, JobUnderWay

\* The steps by what they do to the outbox and the registry.
LEMMA StepCases ==
    ASSUME Next
    PROVE  \/ \E m \in Messages, kind \in Kinds : Record(m, kind)
           \/ Migrate \/ AckDispatched \/ Crash \/ \E r \in Runs : IngestActuals(r)
           \/ \E e \in EventIds : Recover(e) \/ \E n \in Runs : AckByOperator(e, n)
           \/ \E e \in EventIds, durationGiven \in BOOLEAN : Dispatch(e, durationGiven)
           \/ \E trigger \in EventIds \cup {NoEvent} : ApiReschedule(trigger)
           \/ CompleteVersion \/ FailVersion \/ PromoteVersion \/ PublishPipeline \/ Retain
  BY DEF Next

LEMMA InvStep == OutboxInv /\ [Next]_vars => OutboxInv'
  <1> SUFFICES ASSUME OutboxInv, [Next]_vars PROVE OutboxInv'
    OBVIOUS
  <1>1. CASE UNCHANGED vars
    BY <1>1 DEF vars, dbVars, OutboxInv, TypeOK, Unused, InboxKept, SourcesPublished,
                OneSuccessor, AnsweredOnce, JobUnderWay
  <1>2. CASE Next
    BY <1>2, StepCases, InvRecord, InvQuiet, InvReschedule, InvComplete, InvPromote,
       InvPipeline, InvRetain
  <1> QED BY <1>1, <1>2

\* The invariant of the outbox holds in every reachable state.
THEOREM OutboxInvariant == Spec => []OutboxInv
  BY InvInit, InvStep, PTL DEF Spec

-----------------------------------------------------------------------------
(* What it implies.                                                        *)

\* Accepted messages keep their event and their intent.
THEOREM AcceptedIsKept == Spec => []IntentKept
  <1>1. OutboxInv => IntentKept
    BY DEF OutboxInv, InboxKept, IntentKept
  <1> QED BY <1>1, OutboxInvariant, PTL

\* An event is answered at most once, by at most one promoted audit.
THEOREM OneAnswer == Spec => []SolvedOnce
  <1>1. OutboxInv => SolvedOnce
    <2> SUFFICES ASSUME OutboxInv, NEW e \in EventIds
                 PROVE  /\ Cardinality(published[e]) <= 1
                        /\ outbox[e] # None => Cardinality(PromotedAudits(e, outbox[e].run)) <= 1
      BY DEF SolvedOnce
    <2>1. Cardinality(published[e]) <= 1
      BY AtMostOne DEF OutboxInv, AnsweredOnce
    <2>2. ASSUME outbox[e] # None,
                 NEW n \in PromotedAudits(e, outbox[e].run), NEW o \in PromotedAudits(e, outbox[e].run)
          PROVE  n = o
      <3>1. /\ n \in Runs /\ o \in Runs
            /\ audits[n] = [trigger |-> e, previous |-> outbox[e].run]
            /\ audits[o] = [trigger |-> e, previous |-> outbox[e].run]
            /\ registry[n] \in HasBeenActive /\ registry[o] \in HasBeenActive
        BY DEF PromotedAudits, HasBeenActive
      <3>2. outbox[e].run \in Runs
        BY <2>2 DEF OutboxInv, TypeOK, Intents
      <3>3. audits[n] # None /\ audits[o] # None
        BY <3>1, <3>2, NoneIsNoRow DEF Audits
      <3> QED BY <3>1, <3>3 DEF OutboxInv, OneSuccessor
    <2>3. outbox[e] # None => Cardinality(PromotedAudits(e, outbox[e].run)) <= 1
      BY <2>2, AtMostOne
    <2> QED BY <2>1, <2>3
  <1> QED BY <1>1, OutboxInvariant, PTL

\* Every step is a step on the intents.
LEMMA EveryStepIsIntentStep == OutboxInv /\ [Next]_vars => IntentStep
  <1> SUFFICES ASSUME OutboxInv, [Next]_vars PROVE IntentStep
    OBVIOUS
  <1>1. TypeOK /\ Unused /\ InboxKept
    BY DEF OutboxInv
  <1>2. ASSUME outbox' = outbox PROVE IntentStep
    BY <1>1, <1>2 DEF TypeOK, IntentStep
  <1>3. CASE UNCHANGED vars
    BY <1>2, <1>3 DEF vars, dbVars
  <1>4. CASE CompleteVersion \/ FailVersion \/ PromoteVersion \/ PublishPipeline \/ Retain
    BY <1>2, <1>4 DEF CompleteVersion, FailVersion, PromoteVersion, PublishPipeline, Retain
  <1>5. CASE \E m \in Messages, kind \in Kinds : Record(m, kind)
    BY <1>1, <1>5, RecordIsIntentStep
  <1>6. CASE Next
    BY <1>4, <1>5, <1>6, StepCases, InvQuiet, InvReschedule
  <1> QED BY <1>3, <1>6

\* An acknowledgement carries the proof of a promoted audit and is final.
THEOREM AcknowledgedWithProof == Spec => AckedWithProof
  <1>1. OutboxInv /\ [Next]_vars =>
          [\A e \in EventIds : outbox[e] # None =>
            \/ outbox'[e] = outbox[e]
            \/ /\ outbox[e].status = "PENDING"
               /\ outbox'[e].status = "ACKED"
               /\ audits[outbox'[e].audit] = [trigger |-> e, previous |-> outbox[e].run]
               /\ registry[outbox'[e].audit] \in {"ACTIVE", "ARCHIVED"}]_vars
    BY EveryStepIsIntentStep DEF IntentStep, HasBeenActive
  <1> QED BY <1>1, OutboxInvariant, PTL DEF Spec, AckedWithProof

\* A promoted audit stays, except through retention.
LEMMA AuditsStay ==
    ASSUME OutboxInv, Next, ~Retain, NEW n \in Runs, audits[n] # None, registry[n] \in HasBeenActive
    PROVE  audits'[n] = audits[n] /\ registry'[n] \in HasBeenActive
  <1>1. TypeOK /\ n < nextRun
    BY DEF OutboxInv, Unused
  <1>2. ASSUME UNCHANGED <<registry, audits>> PROVE audits'[n] = audits[n] /\ registry'[n] \in HasBeenActive
    BY <1>2
  <1>3. ASSUME NEW trigger, NEW acks, CreateVersion(trigger, acks)
        PROVE  audits'[n] = audits[n] /\ registry'[n] \in HasBeenActive
    <2>1. n # nextRun /\ nextRun \in Runs
      BY <1>1, <1>3, Identifiers DEF CreateVersion
    <2> QED BY <1>1, <1>3, <2>1 DEF TypeOK, CreateVersion, Started
  <1>4. ASSUME NEW o \in Runs, registry' = Promoted(registry, o), audits' = audits
        PROVE  audits'[n] = audits[n] /\ registry'[n] \in HasBeenActive
    BY <1>1, <1>4, PromotedValues DEF HasBeenActive
  <1>5. CASE CompleteVersion \/ FailVersion
    <2>1. job.new \in Runs /\ registry[job.new] \in {"RUNNING", "COMPLETED"} /\ audits' = audits
      BY <1>5, Job DEF CompleteVersion, FailVersion
    <2>2. job.new # n
      BY <2>1 DEF HasBeenActive
    <2> QED BY <1>1, <1>5, <2>1, <2>2 DEF TypeOK, CompleteVersion, FailVersion, Updated
  <1>6. CASE PromoteVersion
    BY <1>4, <1>6, Job DEF PromoteVersion
  <1>7. CASE PublishPipeline
    BY <1>4, <1>7 DEF PublishPipeline
  <1>8. CASE \/ \E e \in EventIds, durationGiven \in BOOLEAN : Dispatch(e, durationGiven)
            \/ \E trigger \in EventIds \cup {NoEvent} : ApiReschedule(trigger)
    BY <1>3, <1>8 DEF Dispatch, ApiReschedule
  <1>9. CASE \/ \E m \in Messages, kind \in Kinds : Record(m, kind)
            \/ Migrate \/ AckDispatched \/ Crash \/ \E r \in Runs : IngestActuals(r)
            \/ \E e \in EventIds : Recover(e) \/ \E o \in Runs : AckByOperator(e, o)
    BY <1>2, <1>9 DEF Record, Migrate, IngestActuals, AckDispatched, Crash, Recover, AckByOperator, dbVars
  <1> QED BY <1>5, <1>6, <1>7, <1>8, <1>9, StepCases

\* Only a promotion by a dispatch publishes an answer, and it leaves the audit
\* that a recovery looks for.
LEMMA AnswersLeaveAudit ==
    ASSUME OutboxInv, Next, NEW e \in EventIds, published'[e] # published[e]
    PROVE  \E n \in PromotedAudits(e, outbox[e].run)' : TRUE
  <1>1. PromoteVersion
    BY StepCases DEF Record, Migrate, IngestActuals, AckDispatched, Crash, Recover, AckByOperator, Dispatch, ApiReschedule,
       CompleteVersion, FailVersion, PublishPipeline, Retain
  <1>2. PICK n \in Runs, a \in Audits :
            /\ job.new = n /\ audits[n] = a
            /\ job.acks => /\ a.trigger \in EventIds /\ outbox[a.trigger].run = a.previous
                           /\ a = [trigger |-> a.trigger, previous |-> a.previous]
    BY <1>1, Job DEF PromoteVersion
  <1>3. /\ registry' = Promoted(registry, n) /\ UNCHANGED <<outbox, audits>>
        /\ published' = IF job.acks
                        THEN [published EXCEPT ![a.trigger] = published[a.trigger] \cup {n}]
                        ELSE published
    BY <1>1, <1>2 DEF PromoteVersion
  <1>4. job.acks /\ e = a.trigger
    BY <1>2, <1>3 DEF OutboxInv, TypeOK
  <1>5. registry'[n] = "ACTIVE"
    BY <1>3, PromotedValues DEF OutboxInv
  <1>6. n \in PromotedAudits(e, outbox[e].run)'
    BY <1>2, <1>3, <1>4, <1>5 DEF PromotedAudits
  <1> QED BY <1>6

LEMMA RecoveryStays ==
    ASSUME OutboxInv, Next, Rows(registry) \subseteq Rows(registry)',
           NEW e \in EventIds, Recoverable(e)
    PROVE  Recoverable(e)'
  <1>1. TypeOK /\ TypeOK' /\ IntentStep
    BY InvStep, EveryStepIsIntentStep DEF OutboxInv
  <1>2. ~Retain
    <2> SUFFICES ASSUME Retain PROVE FALSE
      OBVIOUS
    <2>1. PICK old \in OldRuns(registry, KeepLastN, {ReferenceRun}) :
              old # {} /\ registry' = Pruned(registry, old)
      BY DEF Retain
    <2>2. PICK r \in old : r \in Rows(registry)
      BY <1>1, <2>1, OldRunsAreOld
    <2>3. registry'[r] = NoRow
      BY <2>1, <2>2 DEF Rows, Pruned
    <2> QED BY <2>2, <2>3 DEF Rows
  <1> SUFFICES ASSUME published'[e] # {}, outbox'[e].status = "PENDING"
               PROVE  PromotedAudits(e, outbox[e].run)' # {}
    BY DEF Recoverable
  <1>3. CASE published'[e] # published[e]
    BY <1>3, AnswersLeaveAudit
  <1>4. CASE published'[e] = published[e]
    <2>1. outbox[e] # None
      BY <1>4 DEF OutboxInv, AnsweredOnce
    <2>2. outbox'[e].run = outbox[e].run /\ outbox[e].status = "PENDING"
      BY <1>1, <2>1 DEF IntentStep
    <2>3. PICK n \in PromotedAudits(e, outbox[e].run) : TRUE
      BY <1>4, <2>2 DEF Recoverable
    <2>4. /\ n \in Runs /\ registry[n] \in HasBeenActive
          /\ audits[n] = [trigger |-> e, previous |-> outbox[e].run]
      BY <2>3 DEF PromotedAudits, HasBeenActive
    <2>5. audits[n] # None
      BY <1>1, <2>1, <2>4, NoneIsNoRow DEF TypeOK, Intents, Audits
    <2>6. audits'[n] = audits[n] /\ registry'[n] \in HasBeenActive
      BY <1>2, <2>4, <2>5, AuditsStay
    <2> QED BY <2>2, <2>4, <2>6 DEF PromotedAudits, HasBeenActive
  <1> QED BY <1>3, <1>4

\* A recovery that is possible stays possible until runs are deleted.
THEOREM RecoveryOutlivesAllButRetention == Spec => OnlyRetentionBreaksRecovery
  <1>1. OutboxInv /\ [Next]_vars =>
          [Rows(registry) \subseteq Rows(registry)'
            => \A e \in EventIds : Recoverable(e) => Recoverable(e)']_vars
    BY RecoveryStays
  <1> QED BY <1>1, OutboxInvariant, PTL DEF Spec, OnlyRetentionBreaksRecovery
===============================================================================
