---------------------------- MODULE MessageReplay ----------------------------
(***************************************************************************)
(* Two read-only replays of what the shop floor sends, one step for one    *)
(* message.  replay_local_messages (local_message_replay.py) takes the     *)
(* actuals of one lot's operations, delivered late, twice or out of order, *)
(* and releases them in route order.  replay_execution                     *)
(* (synthetic_replay.py) takes the events of one operation.  Both stop at  *)
(* the first message they refuse.  Envelopes and XML are parsed before:    *)
(* a message is an identifier, a time and its content.                     *)
(***************************************************************************)
EXTENDS Integers, Sequences, Functions, FiniteSetsExt

CONSTANTS
    ExpectedOps,     \* expected_operation_seqs, in order
    LagLimit,        \* max_delivery_lag_min
    Envelopes,       \* deliveries: [id, received, actual], actual [op, from, to]
    MaxDeliveries,   \* bound: deliveries of one replay
    PlannedUnits,    \* planned_units of the operation
    FloorEvents,     \* events: [id, type, at, quantity]
    MaxEvents        \* bound: events of one replay

ASSUME ReplayAssumption ==
    /\ ExpectedOps \in Seq(Int) /\ ExpectedOps # <<>>
    /\ \A j, k \in DOMAIN ExpectedOps : j < k => ExpectedOps[j] < ExpectedOps[k]
    /\ LagLimit \in Nat /\ MaxDeliveries \in Nat /\ MaxEvents \in Nat
    /\ \A m \in Envelopes :
        /\ m.received \in Nat /\ m.actual.op \in Int
        /\ m.actual.from \in Int /\ m.actual.to \in Int /\ m.actual.from <= m.actual.to
    /\ PlannedUnits \in Nat
    /\ \A e \in FloorEvents : e.at \in Nat /\ e.quantity \in Nat

VARIABLES
    sent,      \* history: the deliveries of the manifest read so far
    local,     \* [rejected, seen, pending, applied, last] of replay_local_messages
    occurred,  \* history: the events of the case read so far
    account    \* [rejected, state, good, scrap, seen, last] of replay_execution

replayVars == <<sent, local, occurred, account>>

NothingSeen == [id \in {} |-> 0]
Learn(seen, id, content) ==
    [i \in DOMAIN seen \cup {id} |-> IF i = id THEN content ELSE seen[i]]

Waiting == [rejected |-> FALSE, seen |-> NothingSeen, pending |-> NothingSeen,
            applied |-> <<>>, last |-> 0]
NotStarted == [rejected |-> FALSE, state |-> "NOT_STARTED", good |-> 0, scrap |-> 0,
               seen |-> NothingSeen, last |-> 0]

ReplayInit ==
    /\ sent = <<>> /\ local = Waiting
    /\ occurred = <<>> /\ account = NotStarted

-----------------------------------------------------------------------------
(* replay_local_messages.                                                  *)

\* Seen by its identifier and by its content, whenever it is sent again.
Repeated(m) == m.id \in DOMAIN local.seen /\ local.seen[m.id] = m.actual
ReportedOps == {local.seen[id].op : id \in DOMAIN local.seen}
Lag(m) == m.received - m.actual.to
Refused(m) ==
    \/ m.received < local.last
    \/ ~Repeated(m) /\
        \/ m.id \in DOMAIN local.seen
        \/ m.actual.op \notin Range(ExpectedOps)
        \/ m.actual.op \in ReportedOps
        \/ m.received < m.actual.to
        \/ Lag(m) > LagLimit

\* The operations released: as many of the next expected ones as wait.
Released(pending) ==
    LET done == Len(local.applied)
        ready == {k \in done..Len(ExpectedOps) :
                    \A j \in (done + 1)..k : ExpectedOps[j] \in DOMAIN pending}
    IN  SubSeq(ExpectedOps, done + 1, Max(ready))

InPrecedence(actuals) ==
    \A k \in 1..(Len(actuals) - 1) : actuals[k].to <= actuals[k + 1].from
\* (Mutant: only what is released together is compared.)
OrderedBatch(batch) == InPrecedence(batch)
OrderedRelease(batch) == InPrecedence(local.applied \o batch)

DeliverFirst(m) ==
    LET pending == Learn(local.pending, m.actual.op, m.actual)
        ops == Released(pending)
        batch == [k \in DOMAIN ops |-> pending[ops[k]]]
    IN  /\ ~Refused(m) /\ ~Repeated(m)
        /\ local' = [rejected |-> ~OrderedRelease(batch),
                     seen |-> Learn(local.seen, m.id, m.actual),
                     pending |-> [op \in DOMAIN pending \ Range(ops) |-> pending[op]],
                     applied |-> local.applied \o batch,
                     last |-> m.received]
DeliverAgain(m) ==
    /\ ~Refused(m) /\ Repeated(m)
    /\ local' = [local EXCEPT !.last = m.received]
DeliverRefused(m) ==
    /\ Refused(m)
    /\ local' = [local EXCEPT !.rejected = TRUE]

Deliver(m) ==
    /\ ~local.rejected /\ Len(sent) < MaxDeliveries
    /\ sent' = Append(sent, m)
    /\ DeliverFirst(m) \/ DeliverAgain(m) \/ DeliverRefused(m)
    /\ UNCHANGED <<occurred, account>>

\* The verdict on a manifest that ends here.
Accepted == ~local.rejected /\ Len(local.applied) = Len(ExpectedOps)

\* The report is written; the next manifest is read.
EndLocalReplay ==
    /\ sent # <<>>
    /\ sent' = <<>> /\ local' = Waiting
    /\ UNCHANGED <<occurred, account>>

-----------------------------------------------------------------------------
(* replay_execution.                                                       *)

Quantities == {"PRODUCE", "SCRAP"}
Transitions ==
    {<<"NOT_STARTED", "START", "RUNNING">>, <<"RUNNING", "INTERRUPT", "INTERRUPTED">>,
     <<"INTERRUPTED", "RESUME", "RUNNING">>, <<"RUNNING", "COMPLETE", "COMPLETED">>}

\* (Mutant: only the events that change the state are remembered.)
RememberedChanges(e) ==
    IF e.type \in Quantities THEN account.seen ELSE Learn(account.seen, e.id, e)
Remembered(e) == Learn(account.seen, e.id, e)

Known(e) == e.id \in DOMAIN account.seen /\ account.seen[e.id] = e
Targets(e) == {t[3] : t \in {t \in Transitions : t[1] = account.state /\ t[2] = e.type}}
Legal(e) ==
    /\ e.id \notin DOMAIN account.seen
    /\ e.at >= account.last
    /\ (e.type \in Quantities) <=> (e.quantity > 0)
    /\ IF e.type \in Quantities
       THEN account.state = "RUNNING" /\ account.good + account.scrap + e.quantity <= PlannedUnits
       ELSE /\ Targets(e) # {}
            /\ e.type = "COMPLETE" => account.good + account.scrap = PlannedUnits

OccurLegally(e) ==
    /\ Legal(e)
    /\ account' =
        [account EXCEPT
            !.good = IF e.type = "PRODUCE" THEN @ + e.quantity ELSE @,
            !.scrap = IF e.type = "SCRAP" THEN @ + e.quantity ELSE @,
            !.state = IF e.type \in Quantities THEN @ ELSE CHOOSE s \in Targets(e) : TRUE,
            !.seen = Remembered(e),
            !.last = e.at]
OccurAgain(e) == Known(e) /\ UNCHANGED account
OccurRefused(e) ==
    /\ ~Legal(e) /\ ~Known(e)
    /\ account' = [account EXCEPT !.rejected = TRUE]

Occur(e) ==
    /\ ~account.rejected /\ Len(occurred) < MaxEvents
    /\ occurred' = Append(occurred, e)
    /\ OccurLegally(e) \/ OccurAgain(e) \/ OccurRefused(e)
    /\ UNCHANGED <<sent, local>>

EndExecutionReplay ==
    /\ occurred # <<>>
    /\ occurred' = <<>> /\ account' = NotStarted
    /\ UNCHANGED <<sent, local>>

-----------------------------------------------------------------------------
ReplayNext ==
    \/ \E m \in Envelopes : Deliver(m)
    \/ EndLocalReplay
    \/ \E e \in FloorEvents : Occur(e)
    \/ EndExecutionReplay

ReplaySpec == ReplayInit /\ [][ReplayNext]_replayVars

-----------------------------------------------------------------------------
\* What was sent, whatever the order: the first delivery of each message.
Firsts == {k \in DOMAIN sent : \A j \in 1..(k - 1) : sent[j].id # sent[k].id}
Actual(k) == sent[k].actual
Deliverable ==
    /\ \A k \in 2..Len(sent) : sent[k - 1].received <= sent[k].received
    /\ \A j, k \in DOMAIN sent : sent[j].id = sent[k].id => Actual(j) = Actual(k)
    /\ {Actual(k).op : k \in Firsts} = Range(ExpectedOps)
    /\ Cardinality(Firsts) = Len(ExpectedOps)
    /\ \A k \in Firsts : Lag(sent[k]) \in 0..LagLimit
    /\ \A j, k \in Firsts : Actual(j).op < Actual(k).op => Actual(j).to <= Actual(k).from
InRouteOrder ==
    [k \in DOMAIN ExpectedOps |->
        (CHOOSE m \in Range(sent) : m.actual.op = ExpectedOps[k]).actual]

\* The replay, which buffers and releases as it goes, accepts exactly the
\* manifests that are sound as a set, and then hands the actuals on in route
\* order: neither the order of arrival nor repetition makes a difference.
ArrivalOrderIrrelevant ==
    /\ Accepted <=> Deliverable
    /\ Accepted => local.applied = InRouteOrder

\* The units that events report, one by one.
Pieces(events) == UNION {{e} \X (1..e.quantity) : e \in events}
Units(type) == Cardinality(Pieces({e \in Range(occurred) : e.type = type}))
Count(type) == Cardinality({e \in Range(occurred) : e.type = type})

\* An operation's account is that of the set of its events, however they are
\* repeated: every quantity is counted once, nothing is made beyond the plan, a
\* completed operation made or scrapped exactly the plan, and no interruption
\* is left open but the last.
AccountBalances ==
    ~account.rejected =>
        /\ account.good = Units("PRODUCE") /\ account.scrap = Units("SCRAP")
        /\ account.good + account.scrap <= PlannedUnits
        /\ account.state = "COMPLETED" => account.good + account.scrap = PlannedUnits
        /\ Count("INTERRUPT") =
            Count("RESUME") + (IF account.state = "INTERRUPTED" THEN 1 ELSE 0)
==============================================================================
