----------------------------- MODULE RunLifecycle -----------------------------
(***************************************************************************)
(* What the run registry promises its readers, whatever files, commits and *)
(* crashes lie behind it: a run follows the state machine of               *)
(* src/src/utils/lineage.py, is published by one atomic switch, and leaves *)
(* the table only when it is not the published one.                        *)
(***************************************************************************)
EXTENDS Lineage

CONSTANT Runs
VARIABLE registry

Init == registry = [r \in Runs |-> NoRow]

\* A run appears: RUNNING in the canonical database, or INITIALIZED by the
\* failure handler of a pipeline that worked elsewhere.
Register(r) ==
    /\ registry[r] = NoRow
    /\ \E s \in {"RUNNING", "INITIALIZED"} : registry' = [registry EXCEPT ![r] = s]

\* One legal transition that does not touch the published run.
Advance(r) ==
    /\ registry[r] \notin {NoRow, "ACTIVE"}
    /\ \E s \in ValidStatusTransitions[registry[r]] \ {"ACTIVE"} :
        registry' = Updated(registry, r, s)

\* A version is switched in, and the previous ACTIVE one archived with it: a
\* COMPLETED row, or a run built in a private file, which readers see for the
\* first time as ACTIVE.
Publish(r) ==
    /\ registry[r] \in {"COMPLETED", NoRow}
    /\ registry' = Promoted(registry, r)

\* Retention forgets runs, never the ACTIVE one.
Forget(old) == registry' = Pruned(registry, old)

Next ==
    \/ \E r \in Runs : Register(r) \/ Advance(r) \/ Publish(r)
    \/ \E old \in SUBSET (Runs \ Active(registry)) : Forget(old)

Spec == Init /\ [][Next]_registry

\* At most one run is ACTIVE.
SoleActive == \A a, b \in Active(registry) : a = b
==============================================================================
