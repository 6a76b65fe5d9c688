------------------------- MODULE MCExecutionTracking -------------------------
(***************************************************************************)
(* A small instance of PlantOperations and ExecutionTracking for TLC, and  *)
(* the deliveries of three operations and the events of one, for           *)
(* MessageReplay.  The replays share no state with the plant, nor with     *)
(* each other: a property of one is not affected by steps of another, and  *)
(* each is run from the initial states of the others.                      *)
(***************************************************************************)
EXTENDS PlantOperations, MessageReplay, TLC

Symmetry == Permutations(Tasks) \cup Permutations(Machines)

MCExpectedOps == <<1, 2, 3>>

Work(op, from, to) == [op |-> op, from |-> from, to |-> to]
Sent(id, actual, times) == {[id |-> id, received |-> t, actual |-> actual] : t \in times}
\* In time, late (5 after 1) and early (2 before 3); an operation reported twice,
\* one that starts too soon, one that is not expected, an identifier used twice.
MCEnvelopes ==
    Sent("a", Work(1, 0, 1), {1, 3, 5}) \cup Sent("b", Work(2, 1, 2), {2, 4})
        \cup Sent("c", Work(3, 2, 3), {2, 3, 4}) \cup Sent("d", Work(3, 1, 3), {3})
        \cup Sent("a", Work(2, 1, 2), {3}) \cup Sent("e", Work(9, 0, 1), {2})

FloorEvent(id, type, at, quantity) == [id |-> id, type |-> type, at |-> at, quantity |-> quantity]
MCFloorEvents == {
    FloorEvent("start", "START", 0, 0), FloorEvent("restart", "START", 2, 0),
    FloorEvent("good", "PRODUCE", 1, 1), FloorEvent("good", "PRODUCE", 2, 1),
    FloorEvent("goods", "PRODUCE", 1, 2), FloorEvent("bad", "SCRAP", 1, 1),
    FloorEvent("stop", "INTERRUPT", 1, 0), FloorEvent("go", "RESUME", 2, 0), FloorEvent("done", "COMPLETE", 2, 0)}

MCInit == PlantInit /\ ReplayInit
MCNext ==
    \/ ReplayInit /\ PlantNext /\ UNCHANGED replayVars
    \/ /\ PlantInit /\ (sent = <<>> \/ occurred = <<>>)
       /\ ReplayNext /\ (sent' = <<>> \/ occurred' = <<>>) /\ UNCHANGED plantVars
MCSpec == MCInit /\ [][MCNext]_<<plantVars, replayVars>>
==============================================================================
