------------------------------- MODULE Lineage -------------------------------
(***************************************************************************)
(* The run registry of src/src/utils/lineage.py: the pipeline_runs table   *)
(* and the functions that read and change it.  A registry is a function    *)
(* from run identifiers to a status, or NoRow where the table has no row.  *)
(***************************************************************************)
EXTENDS Naturals, FiniteSets

NoRow == "NO_ROW"

Statuses == {"INITIALIZED", "RUNNING", "STAGING", "VALIDATE", "COMPLETED",
             "ACTIVE", "ARCHIVED", "FAILED"}

\* (Mutant: an ACTIVE run can fail.)
TransitionsFailingActive ==
    [INITIALIZED |-> {"RUNNING", "STAGING", "FAILED"},
     RUNNING     |-> {"STAGING", "FAILED"},
     STAGING     |-> {"VALIDATE", "FAILED"},
     VALIDATE    |-> {"COMPLETED", "FAILED"},
     COMPLETED   |-> {"ACTIVE", "FAILED"},
     ACTIVE      |-> {"ARCHIVED", "FAILED"},
     ARCHIVED    |-> {},
     FAILED      |-> {}]
ValidStatusTransitions ==
    [INITIALIZED |-> {"RUNNING", "STAGING", "FAILED"},
     RUNNING     |-> {"STAGING", "FAILED"},
     STAGING     |-> {"VALIDATE", "FAILED"},
     VALIDATE    |-> {"COMPLETED", "FAILED"},
     COMPLETED   |-> {"ACTIVE", "FAILED"},
     ACTIVE      |-> {"ARCHIVED"},
     ARCHIVED    |-> {},
     FAILED      |-> {}]

Rows(reg) == {r \in DOMAIN reg : reg[r] # NoRow}
Active(reg) == {r \in DOMAIN reg : reg[r] = "ACTIVE"}

\* get_active_run_id: the one ACTIVE run, or an error when none or several.
IsActiveRun(reg, r) == Active(reg) = {r}

\* start_pipeline_run and _create_new_run_record insert a RUNNING row; both
\* refuse an identifier the table already has.
CanStart(reg, r) == reg[r] = NoRow
Started(reg, r) == [reg EXCEPT ![r] = "RUNNING"]

\* update_pipeline_run_status: a missing row or an illegal transition is an
\* error, the current status is a no-op.
CanUpdate(reg, r, s) ==
    /\ reg[r] # NoRow
    /\ s = reg[r] \/ s \in ValidStatusTransitions[reg[r]]
Updated(reg, r, s) == [reg EXCEPT ![r] = s]

\* promote_run_to_active: one transaction archives every other ACTIVE run and
\* activates a COMPLETED one.
CanPromote(reg, r) == reg[r] = "COMPLETED"
Promoted(reg, r) ==
    [q \in DOMAIN reg |->
        IF q = r THEN "ACTIVE"
        ELSE IF reg[q] = "ACTIVE" THEN "ARCHIVED" ELSE reg[q]]

\* apply_run_retention_policy keeps the ACTIVE and the protected runs and, of
\* the other rows, as many as the limit leaves room for; the choice of which
\* others is left to the module that knows their order.
KeepNonActive(reg, keepLastN) ==
    IF keepLastN > Cardinality(Active(reg))
    THEN keepLastN - Cardinality(Active(reg)) ELSE 0
OldRuns(reg, keepLastN, protected) ==
    LET others == Rows(reg) \ Active(reg)
        keep == KeepNonActive(reg, keepLastN)
    IN  {(others \ kept) \ protected :
            kept \in {k \in SUBSET others :
                        (k = others /\ Cardinality(k) < keep) \/ Cardinality(k) = keep}}
Pruned(reg, old) == [r \in DOMAIN reg |-> IF r \in old THEN NoRow ELSE reg[r]]
==============================================================================
