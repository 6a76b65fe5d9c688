-------------------------- MODULE RunRetention_proofs --------------------------
(***************************************************************************)
(* Proofs about RunRetention: what retention may delete, how wrong the     *)
(* text order of the timestamps can be, and what stays behind a frozen     *)
(* reference, for any number of runs, any clock, any length of the day,    *)
(* any offset of the local time and any keep_last_n.                       *)
(***************************************************************************)
EXTENDS RunRetention, TLAPS

-----------------------------------------------------------------------------
(* The registry and the timestamps.                                        *)

RowStates == Statuses \cup {NoRow}

\* A new row, published or not, takes no other row away and puts no other run
\* among the published ones.
LEMMA NewRow ==
    ASSUME NEW reg \in [Runs -> RowStates], NEW n \in Runs, NEW new,
           \/ new = Promoted(reg, n)
           \/ \E s \in {"FAILED", "RUNNING"} : new = [reg EXCEPT ![n] = s]
    PROVE  /\ new \in [Runs -> RowStates]
           /\ \A r \in Runs : reg[r] # NoRow => new[r] # NoRow
           /\ \A r \in Runs \ {n} :
                new[r] \in {"ACTIVE", "ARCHIVED"} => reg[r] \in {"ACTIVE", "ARCHIVED"}
           /\ new = Promoted(reg, n) \/ new[n] \in {"FAILED", "RUNNING"}
           /\ \A r \in Runs \ {n} : reg[r] = NoRow => new[r] = NoRow
           /\ \A r \in Runs \ {n} : reg[r] = "ACTIVE" => new[r] \in {"ACTIVE", "ARCHIVED"}
  <1>1. CASE new = Promoted(reg, n)
    BY <1>1 DEF Promoted, RowStates, Statuses, NoRow
  <1>2. CASE \E s \in {"FAILED", "RUNNING"} : new = [reg EXCEPT ![n] = s]
    BY <1>2 DEF RowStates, Statuses, NoRow
  <1> QED BY <1>1, <1>2

LEMMA PrunedRows ==
    ASSUME NEW reg \in [Runs -> RowStates], NEW old
    PROVE  /\ Pruned(reg, old) \in [Runs -> RowStates]
           /\ \A r \in Runs : Pruned(reg, old)[r] = IF r \in old THEN NoRow ELSE reg[r]
  BY DEF Pruned, RowStates

\* The date in a timestamp is that of its moment, in UTC or in local time.
LEMMA StampTypes ==
    ASSUME NEW t \in Nat
    PROVE  IsoLocal(t) \in Stamps /\ SqlUtc(t) \in Stamps
  <1>1. /\ t \div DayLength \in Nat /\ t % DayLength \in Nat
    BY RetentionAssumption
  <1>2. t + UtcOffset \in Nat
    BY RetentionAssumption
  <1>3. (t + UtcOffset) \div DayLength \in Nat /\ (t + UtcOffset) % DayLength \in Nat
    BY <1>2, RetentionAssumption
  <1> QED BY <1>1, <1>3 DEF IsoLocal, SqlUtc, Stamps

LEMMA StampDays ==
    ASSUME NEW t \in Nat
    PROVE  /\ IsoLocal(t).day = (t + UtcOffset) \div DayLength
           /\ SqlUtc(t).day = t \div DayLength
  <1>1. ASSUME NEW x, NEW y, NEW z PROVE [day |-> x, sep |-> y, time |-> z].day = x
    OBVIOUS
  <1> QED BY <1>1 DEF IsoLocal, SqlUtc

\* Dates that are not in the wrong order bound how far the moments are apart.
LEMMA DaysApart ==
    ASSUME NEW a \in Nat, NEW b \in Nat, NEW day \in Nat \ {0}, b \div day <= a \div day
    PROVE  b < a + day
  OBVIOUS

LEMMA DivMonotone ==
    ASSUME NEW a \in Nat, NEW off \in Nat, NEW day \in Nat \ {0}
    PROVE  a \div day <= (a + off) \div day
  OBVIOUS

-----------------------------------------------------------------------------
(* The invariant.                                                          *)

RegistryTypes ==
    /\ registry \in [Runs -> RowStates]
    /\ stamp \in [Runs -> Stamps]
    /\ born \in [Runs -> 0..MaxClock]
    /\ clock \in 0..MaxClock
    /\ pinned \subseteq Runs
    /\ nextRun \in 1..(MaxRun + 1)

RetentionTypes ==
    /\ bundle \in [Runs -> {"absent", "open", "sealed"}]
    /\ phase \in {"idle", "due", "prune", "sweep", "raised"}
    /\ protected \subseteq Runs /\ doomed \subseteq Runs

ReferenceTypes ==
    /\ reference \in Runs \cup {NoRun} /\ backup \in Runs \cup {NoRun}
    /\ snapshot \in [Runs -> {"absent", "headless", "torn", "whole"}]
    /\ cut \subseteq Runs
    /\ freezer \in Freezers

LEMMA TypeParts == TypeOK <=> RegistryTypes /\ RetentionTypes /\ ReferenceTypes
  BY DEF TypeOK, RegistryTypes, RetentionTypes, ReferenceTypes, RowStates

\* Every row carries the moment it was written at, as one of the two texts.
StampsTell == \A r \in Runs : stamp[r] \in {IsoLocal(born[r]), SqlUtc(born[r])}

\* Identifiers not yet given out have no row.
FreshRuns == \A r \in Runs : r >= nextRun => registry[r] = NoRow

\* The ACTIVE run is among the protected ones when the rows are chosen, since
\* no other writer comes between: the pipeline still holds the mutation lock.
ActiveProtected == phase = "prune" => Active(registry) \subseteq protected

\* The bundles a sweep may take have no row any more.
DoomedHaveNoRow == phase = "sweep" => doomed \cap Rows(registry) = {}

\* What the reference is, was, or is about to become has its copy, whole unless a
\* freeze of that run was cut short.  Every partial copy was.
HasSnapshot(r) == snapshot[r] = "whole" \/ (r \in cut /\ snapshot[r] = "torn")
PartialWasCut == \A r \in Runs : snapshot[r] \in {"headless", "torn"} => r \in cut
FreezeInv ==
    /\ PartialWasCut
    /\ reference # NoRun => HasSnapshot(reference)
    /\ backup # NoRun => HasSnapshot(backup)
    /\ freezer.step # "idle" => freezer.run \in Runs
    /\ freezer.step \in {"aside", "swap"} => HasSnapshot(freezer.run)

RetentionInv ==
    /\ RegistryTypes /\ RetentionTypes /\ ReferenceTypes
    /\ StampsTell
    /\ FreshRuns
    /\ ActiveProtected
    /\ DoomedHaveNoRow
    /\ SurvivorsKeepBundles
    /\ FreezeInv

LEMMA RunFacts == NoRun \notin Runs /\ Runs \subseteq 1..(MaxRun + 1) /\ 0 \in 0..MaxClock
  BY RetentionAssumption DEF Runs, NoRun

LEMMA InvInit == Init => RetentionInv
  <1> SUFFICES ASSUME Init PROVE RetentionInv
    OBVIOUS
  <1>1. SqlUtc(0) \in Stamps
    BY StampTypes
  <1>2. 1 \in 1..(MaxRun + 1)
    BY RetentionAssumption
  <1>3. RegistryTypes
    BY <1>1, <1>2, RunFacts DEF Init, RegistryTypes, RowStates
  <1>4. RetentionTypes
    BY DEF Init, RetentionTypes
  <1>5. ReferenceTypes
    BY RunFacts DEF Init, ReferenceTypes, Freezers, IdleFreezer
  <1>6. StampsTell /\ FreshRuns
    BY DEF Init, StampsTell, FreshRuns
  <1>7. ActiveProtected /\ DoomedHaveNoRow
    BY DEF Init, ActiveProtected, DoomedHaveNoRow
  <1>8. SurvivorsKeepBundles
    BY DEF Init, SurvivorsKeepBundles, Published, NoRow
  <1>9. FreezeInv
    BY DEF Init, FreezeInv, PartialWasCut, IdleFreezer
  <1> QED BY <1>3, <1>4, <1>5, <1>6, <1>7, <1>8, <1>9 DEF RetentionInv

-----------------------------------------------------------------------------
(* A freeze touches nothing of the registry, and registry steps nothing of *)
(* the reference.                                                          *)

LEMMA RegistryUntouched ==
    ASSUME RetentionInv, UNCHANGED <<registry, stamp, born, pinned, nextRun>>,
           UNCHANGED <<bundle, phase, protected, doomed>>, clock' \in 0..MaxClock
    PROVE  /\ RegistryTypes' /\ RetentionTypes'
           /\ StampsTell' /\ FreshRuns' /\ ActiveProtected' /\ DoomedHaveNoRow'
           /\ SurvivorsKeepBundles'
  BY DEF RetentionInv, RegistryTypes, RetentionTypes, StampsTell, FreshRuns, ActiveProtected,
     DoomedHaveNoRow, SurvivorsKeepBundles, Published

LEMMA ReferenceUntouched ==
    ASSUME RetentionInv, UNCHANGED <<reference, backup, snapshot, cut, freezer>>
    PROVE  ReferenceTypes' /\ FreezeInv'
  BY DEF RetentionInv, ReferenceTypes, FreezeInv, PartialWasCut, HasSnapshot

FreezeActions ==
    BeginFreeze \/ KeepSnapshot \/ SetAside \/ SwapIn \/ SwapFails \/ FreezeDies

\* A snapshot that is there stays there, and a partial one is noted.
LEMMA InvSnapshot ==
    ASSUME RetentionInv, freezer.step = "copy", NEW s \in {"headless", "torn", "whole"},
           snapshot[freezer.run] = "absent",
           snapshot' = [snapshot EXCEPT ![freezer.run] = s],
           cut' = IF s = "whole" THEN cut ELSE cut \cup {freezer.run}
    PROVE  /\ snapshot' \in [Runs -> {"absent", "headless", "torn", "whole"}]
           /\ snapshot'[freezer.run] = s
           /\ cut' \subseteq Runs /\ PartialWasCut'
           /\ \A r \in Runs : HasSnapshot(r) => HasSnapshot(r)'
  <1>1. PICK run \in Runs : run = freezer.run
    BY DEF RetentionInv, FreezeInv
  <1>2. snapshot \in [Runs -> {"absent", "headless", "torn", "whole"}] /\ cut \subseteq Runs
        /\ PartialWasCut
    BY DEF RetentionInv, ReferenceTypes, FreezeInv
  <1>3. /\ snapshot' \in [Runs -> {"absent", "headless", "torn", "whole"}]
        /\ snapshot'[run] = s /\ snapshot[run] = "absent"
        /\ \A r \in Runs \ {run} : snapshot'[r] = snapshot[r]
    BY <1>1, <1>2
  <1>4. cut' \subseteq Runs /\ cut \subseteq cut' /\ (s # "whole" => run \in cut')
    BY <1>1, <1>2
  <1>5. PartialWasCut'
    BY <1>2, <1>3, <1>4 DEF PartialWasCut
  <1>6. \A r \in Runs : HasSnapshot(r) => HasSnapshot(r)'
    BY <1>3, <1>4 DEF HasSnapshot
  <1> QED BY <1>1, <1>3, <1>4, <1>5, <1>6

LEMMA InvFreeze == RetentionInv /\ FreezeActions => RetentionInv'
  <1> SUFFICES ASSUME RetentionInv, FreezeActions PROVE RetentionInv'
    OBVIOUS
  <1>1. UNCHANGED <<registry, stamp, born, pinned, nextRun, clock, bundle, phase, protected, doomed>>
    BY DEF FreezeActions, BeginFreeze, KeepSnapshot, SetAside, SwapIn, SwapFails, FreezeDies,
       runVars, retentionVars
  <1>2. /\ RegistryTypes' /\ RetentionTypes'
        /\ StampsTell' /\ FreshRuns' /\ ActiveProtected' /\ DoomedHaveNoRow'
        /\ SurvivorsKeepBundles'
    <2>1. clock' \in 0..MaxClock
      BY <1>1 DEF RetentionInv, RegistryTypes
    <2> QED BY <1>1, <2>1, RegistryUntouched
  <1>3. PICK st, run : freezer = [step |-> st, run |-> run]
    BY DEF RetentionInv, ReferenceTypes, Freezers
  <1>4. /\ st \in {"idle", "copy", "aside", "swap"} /\ run \in Runs \cup {NoRun}
        /\ freezer.step = st /\ freezer.run = run
    BY <1>3 DEF RetentionInv, ReferenceTypes, Freezers
  <1>5. /\ reference # NoRun => HasSnapshot(reference)
        /\ backup # NoRun => HasSnapshot(backup)
        /\ st # "idle" => run \in Runs
        /\ st \in {"aside", "swap"} => HasSnapshot(run)
        /\ reference \in Runs \cup {NoRun} /\ backup \in Runs \cup {NoRun}
        /\ snapshot \in [Runs -> {"absent", "headless", "torn", "whole"}]
        /\ cut \subseteq Runs /\ PartialWasCut
    BY <1>4 DEF RetentionInv, FreezeInv, ReferenceTypes
  <1>6. CASE BeginFreeze
    <2>1. PICK r \in Runs : freezer' = [step |-> "copy", run |-> r]
      BY <1>6 DEF BeginFreeze, Active, RetentionInv, RegistryTypes
    <2>2. UNCHANGED <<reference, backup, snapshot, cut>>
      BY <1>6 DEF BeginFreeze
    <2>3. ReferenceTypes' /\ FreezeInv'
      BY <1>5, <2>1, <2>2 DEF ReferenceTypes, FreezeInv, PartialWasCut, HasSnapshot, Freezers
    <2> QED BY <1>2, <2>3 DEF RetentionInv
  <1>7. CASE KeepSnapshot
    <2>1. /\ freezer' = [step |-> "aside", run |-> run] /\ st = "copy" /\ run \in Runs
          /\ UNCHANGED <<reference, backup, cut>> /\ snapshot[run] # "headless"
          /\ snapshot' = IF snapshot[run] = "absent" THEN [snapshot EXCEPT ![run] = "whole"]
                         ELSE snapshot
      BY <1>3, <1>4, <1>5, <1>7 DEF KeepSnapshot, FreezeStep
    <2>2. /\ snapshot' \in [Runs -> {"absent", "headless", "torn", "whole"}]
          /\ HasSnapshot(run)' /\ PartialWasCut'
          /\ \A r \in Runs : HasSnapshot(r) => HasSnapshot(r)'
      <3>1. CASE snapshot[run] = "absent"
        BY <1>4, <2>1, <3>1, InvSnapshot DEF HasSnapshot
      <3>2. CASE snapshot[run] # "absent"
        BY <1>5, <2>1, <3>2 DEF HasSnapshot, PartialWasCut
      <3> QED BY <3>1, <3>2
    <2>3. ReferenceTypes' /\ FreezeInv'
      BY <1>5, <2>1, <2>2 DEF ReferenceTypes, FreezeInv, PartialWasCut, HasSnapshot, Freezers
    <2> QED BY <1>2, <2>3 DEF RetentionInv
  <1>8. CASE SetAside
    <2>1. /\ freezer' = [step |-> "swap", run |-> run] /\ st = "aside"
          /\ backup' = reference /\ reference' = NoRun /\ UNCHANGED <<snapshot, cut>>
      BY <1>3, <1>4, <1>8 DEF SetAside, FreezeStep
    <2>2. ReferenceTypes' /\ FreezeInv'
      BY <1>4, <1>5, <2>1 DEF ReferenceTypes, FreezeInv, PartialWasCut, HasSnapshot, Freezers
    <2> QED BY <1>2, <2>2 DEF RetentionInv
  <1>9. CASE SwapIn \/ SwapFails
    <2>1. /\ freezer' = IdleFreezer /\ st = "swap" /\ backup' = NoRun /\ UNCHANGED <<snapshot, cut>>
          /\ reference' = run \/ reference' = backup
      BY <1>4, <1>9 DEF SwapIn, SwapFails
    <2>2. ReferenceTypes' /\ FreezeInv'
      BY <1>4, <1>5, <2>1 DEF ReferenceTypes, FreezeInv, PartialWasCut, HasSnapshot, Freezers, IdleFreezer
    <2> QED BY <1>2, <2>2 DEF RetentionInv
  <1>10. CASE FreezeDies
    <2>1. freezer' = IdleFreezer /\ UNCHANGED <<reference, backup>>
      BY <1>10 DEF FreezeDies
    <2>2. /\ snapshot' \in [Runs -> {"absent", "headless", "torn", "whole"}]
          /\ cut' \subseteq Runs /\ PartialWasCut'
          /\ \A r \in Runs : HasSnapshot(r) => HasSnapshot(r)'
      <3>1. CASE UNCHANGED <<snapshot, cut>>
        BY <1>5, <3>1 DEF HasSnapshot, PartialWasCut
      <3>2. CASE /\ freezer.step = "copy" /\ snapshot[freezer.run] = "absent"
                 /\ \E s \in {"headless", "torn"} :
                      snapshot' = [snapshot EXCEPT ![freezer.run] = s]
                 /\ cut' = cut \cup {freezer.run}
        BY <3>2, InvSnapshot
      <3> QED BY <1>10, <3>1, <3>2 DEF FreezeDies
    <2>3. ReferenceTypes' /\ FreezeInv'
      BY <1>5, <2>1, <2>2 DEF ReferenceTypes, FreezeInv, PartialWasCut, HasSnapshot, Freezers, IdleFreezer
    <2> QED BY <1>2, <2>3 DEF RetentionInv
  <1> QED BY <1>6, <1>7, <1>8, <1>9, <1>10 DEF FreezeActions

-----------------------------------------------------------------------------
(* The writers.                                                            *)

\* A writer's commit: a new row with its stamp, and its bundle sealed before
\* the row is published.
LEMMA InvAddRun ==
    ASSUME RetentionInv, NEW text \in {IsoLocal(clock), SqlUtc(clock)}, AddRun(text),
           Publish \/ \E s \in {"FAILED", "RUNNING"} : LeaveRow(s),
           \/ SetBundle("sealed")
           \/ ~Publish /\ (bundle' = bundle \/ \E b \in {"absent", "open", "sealed"} : SetBundle(b)),
           phase' \in {"idle", "due"},
           UNCHANGED <<clock, pinned, protected, doomed, reference, backup, snapshot, cut, freezer>>
    PROVE  /\ RetentionInv'
           /\ \A r \in Runs : registry[r] # NoRow => registry'[r] # NoRow
           /\ \A r \in Runs : registry[r] = "ACTIVE" => registry'[r] \in {"ACTIVE", "ARCHIVED"}
  <1>1. PICK n \in Runs : n = nextRun
    BY DEF AddRun
  <1>2. n + 1 \in 1..(MaxRun + 1)
    BY RetentionAssumption DEF Runs
  <1>3. clock \in Nat /\ clock \in 0..MaxClock
    BY RetentionAssumption DEF RetentionInv, RegistryTypes
  <1>4. text \in Stamps
    BY <1>3, StampTypes
  <1>5. /\ registry' \in [Runs -> RowStates]
        /\ \A r \in Runs : registry[r] # NoRow => registry'[r] # NoRow
        /\ \A r \in Runs \ {n} :
             registry'[r] \in {"ACTIVE", "ARCHIVED"} => registry[r] \in {"ACTIVE", "ARCHIVED"}
        /\ registry' = Promoted(registry, n) \/ registry'[n] \in {"FAILED", "RUNNING"}
        /\ \A r \in Runs \ {n} : registry[r] = NoRow => registry'[r] = NoRow
        /\ \A r \in Runs \ {n} : registry[r] = "ACTIVE" => registry'[r] \in {"ACTIVE", "ARCHIVED"}
    <2>1. \/ registry' = Promoted(registry, n)
          \/ \E s \in {"FAILED", "RUNNING"} : registry' = [registry EXCEPT ![n] = s]
      BY <1>1 DEF Publish, LeaveRow
    <2>2. registry \in [Runs -> RowStates]
      BY DEF RetentionInv, RegistryTypes
    <2> QED BY <2>1, <2>2, NewRow
  <1>6. /\ stamp' \in [Runs -> Stamps] /\ born' \in [Runs -> 0..MaxClock]
        /\ stamp'[n] = text /\ born'[n] = clock
        /\ \A r \in Runs \ {n} : stamp'[r] = stamp[r] /\ born'[r] = born[r]
        /\ nextRun' = n + 1
    BY <1>1, <1>3, <1>4 DEF AddRun, RetentionInv, RegistryTypes
  <1>7. /\ bundle' \in [Runs -> {"absent", "open", "sealed"}]
        /\ \A r \in Runs \ {n} : bundle'[r] = bundle[r]
        /\ registry' = Promoted(registry, n) => bundle'[n] = "sealed"
    BY <1>1 DEF SetBundle, RetentionInv, RetentionTypes, Publish
  <1>8. RegistryTypes' /\ RetentionTypes'
    <2>1. RegistryTypes'
      BY <1>2, <1>5, <1>6 DEF RetentionInv, RegistryTypes
    <2>2. RetentionTypes'
      BY <1>7 DEF RetentionInv, RetentionTypes
    <2> QED BY <2>1, <2>2
  <1>9. StampsTell' /\ FreshRuns'
    <2>3. \A r \in Runs : r >= n + 1 => r # n /\ r >= n /\ r \in 1..MaxRun
      BY DEF Runs
    <2>4. FreshRuns'
      BY <1>1, <1>6, <1>5, <2>3 DEF RetentionInv, FreshRuns
    <2>1. stamp'[n] \in {IsoLocal(born'[n]), SqlUtc(born'[n])}
      BY <1>6
    <2>2. \A r \in Runs \ {n} : stamp'[r] \in {IsoLocal(born'[r]), SqlUtc(born'[r])}
      BY <1>6 DEF RetentionInv, StampsTell
    <2> QED BY <2>1, <2>2, <2>4 DEF StampsTell
  <1>10. ActiveProtected' /\ DoomedHaveNoRow'
    BY DEF ActiveProtected, DoomedHaveNoRow
  <1>11. SurvivorsKeepBundles'
    BY <1>5, <1>7 DEF RetentionInv, SurvivorsKeepBundles, Published
  <1>12. ReferenceTypes' /\ FreezeInv'
    BY ReferenceUntouched
  <1>13. registry[n] # "ACTIVE"
    BY <1>1 DEF RetentionInv, RegistryTypes, FreshRuns, Runs, NoRow
  <1> QED BY <1>5, <1>8, <1>9, <1>10, <1>11, <1>12, <1>13 DEF RetentionInv

WriterActions ==
    PipelinePublishes \/ PipelineFails \/ ReschedulePublishes \/ RescheduleFails

LEMMA InvWriters ==
    ASSUME RetentionInv, WriterActions
    PROVE  /\ RetentionInv'
           /\ \A r \in Runs : registry[r] # NoRow => registry'[r] # NoRow
           /\ \A r \in Runs : registry[r] = "ACTIVE" => registry'[r] \in {"ACTIVE", "ARCHIVED"}
  <1>1. CASE PipelinePublishes
    BY <1>1, InvAddRun DEF PipelinePublishes, referenceVars
  <1>2. CASE PipelineFails
    <2>1. ~Publish
      BY <1>2 DEF PipelineFails, AddRun, LeaveRow, Publish, Promoted, RetentionInv, RegistryTypes
    <2> QED BY <1>2, <2>1, InvAddRun DEF PipelineFails, retentionVars, referenceVars, AddRun
  <1>3. CASE ReschedulePublishes
    BY <1>3, InvAddRun DEF ReschedulePublishes, retentionVars, referenceVars, AddRun
  <1>4. CASE RescheduleFails
    <2>1. ~Publish
      BY <1>4 DEF RescheduleFails, AddRun, LeaveRow, Publish, Promoted, RetentionInv, RegistryTypes
    <2> QED BY <1>4, <2>1, InvAddRun DEF RescheduleFails, retentionVars, referenceVars, AddRun
  <1> QED BY <1>1, <1>2, <1>3, <1>4 DEF WriterActions

-----------------------------------------------------------------------------
(* Retention itself.                                                       *)

\* What the query chooses: a deleted row was neither ACTIVE nor protected, and
\* comes after every kept one in the text order.
LEMMA Chosen ==
    ASSUME NEW old \in OldRunSets
    PROVE  /\ old \subseteq Rows(registry) \ Active(registry)
           /\ old \cap protected = {}
           /\ \A d \in old, k \in (Rows(registry) \ Active(registry)) \ (old \cup protected) :
                 NotBefore(k, d)
  <1>1. PICK kept \in WithinLimit :
            /\ old = (Others \ kept) \ protected
            /\ \A a \in kept, b \in Others \ kept : NotBefore(a, b)
    BY DEF OldRunSets
  <1> QED BY <1>1 DEF Others

LEMMA InvPrune ==
    ASSUME RetentionInv, Prune
    PROVE  RetentionInv'
  <1>1. PICK old \in OldRunSets :
            /\ registry' = Pruned(registry, old)
            /\ stamp' = [r \in Runs |-> IF r \in old THEN SqlUtc(0) ELSE stamp[r]]
            /\ born' = [r \in Runs |-> IF r \in old THEN 0 ELSE born[r]]
            /\ doomed' = old
    BY DEF Prune
  <1>2. /\ phase' = "sweep" /\ UNCHANGED <<nextRun, clock, pinned, bundle, protected>>
        /\ UNCHANGED <<reference, backup, snapshot, cut, freezer>>
    BY DEF Prune, referenceVars
  <1>3. old \subseteq Runs
    BY Chosen DEF Rows, RetentionInv, RegistryTypes
  <1>4. /\ registry' \in [Runs -> RowStates]
        /\ \A r \in Runs : registry'[r] = IF r \in old THEN NoRow ELSE registry[r]
    BY <1>1, PrunedRows DEF RetentionInv, RegistryTypes
  <1>5. RegistryTypes'
    <2>1. stamp' \in [Runs -> Stamps]
      BY <1>1, StampTypes DEF RetentionInv, RegistryTypes
    <2>2. born' \in [Runs -> 0..MaxClock]
      BY <1>1, RunFacts DEF RetentionInv, RegistryTypes
    <2> QED BY <1>2, <1>4, <2>1, <2>2 DEF RetentionInv, RegistryTypes
  <1>6. RetentionTypes'
    BY <1>1, <1>2, <1>3 DEF RetentionInv, RetentionTypes
  <1>7. StampsTell' /\ FreshRuns'
    BY <1>1, <1>2, <1>4 DEF RetentionInv, StampsTell, FreshRuns
  <1>8. ActiveProtected'
    BY <1>2 DEF ActiveProtected
  <1>9. DoomedHaveNoRow'
    BY <1>1, <1>4 DEF DoomedHaveNoRow, Rows
  <1>10. SurvivorsKeepBundles'
    BY <1>2, <1>4 DEF RetentionInv, SurvivorsKeepBundles, Published, NoRow
  <1>11. ReferenceTypes' /\ FreezeInv'
    BY <1>2, ReferenceUntouched
  <1> QED BY <1>5, <1>6, <1>7, <1>8, <1>9, <1>10, <1>11 DEF RetentionInv

\* Only bundles without a row are swept.
LEMMA SweptHaveNoRow ==
    ASSUME RetentionInv, phase = "sweep"
    PROVE  Swept \subseteq Runs /\ Swept \cap Rows(registry) = {}
  BY DEF RetentionInv, RetentionTypes, DoomedHaveNoRow, Swept

\* Retention ends, its sweep done, cut short or never begun.
LEMMA InvLeave ==
    ASSUME RetentionInv, Sweep \/ AbandonRetention
    PROVE  RetentionInv'
  <1>1. /\ phase' = "idle" /\ protected' = {} /\ doomed' = {}
        /\ UNCHANGED <<registry, stamp, born, nextRun, clock, pinned>>
        /\ UNCHANGED <<reference, backup, snapshot, cut, freezer>>
    BY DEF Sweep, AbandonRetention, Leave, runVars, referenceVars
  <1>2. /\ bundle' \in [Runs -> {"absent", "open", "sealed"}]
        /\ \A r \in Runs : registry[r] # NoRow => bundle'[r] = bundle[r]
    <2>1. CASE bundle' = bundle
      BY <2>1 DEF RetentionInv, RetentionTypes
    <2>2. CASE Sweep
      <3>1. phase = "sweep"
        BY <2>2 DEF Sweep, Leave
      <3>2. \A r \in Runs : registry[r] # NoRow => r \notin Swept
        BY <3>1, SweptHaveNoRow DEF Rows, RetentionInv, RegistryTypes
      <3> QED BY <2>2, <3>2 DEF Sweep, RetentionInv, RetentionTypes
    <2>3. CASE AbandonRetention /\ bundle' # bundle
      <3>1. /\ phase = "sweep"
            /\ \E gone \in SUBSET Swept, torn \in SUBSET Swept :
                  bundle' = [r \in Runs |-> IF r \in torn /\ bundle[r] # "absent" THEN "open"
                                            ELSE IF r \in gone THEN "absent" ELSE bundle[r]]
        BY <2>3 DEF AbandonRetention, Leave
      <3>2. \A r \in Runs : registry[r] # NoRow => r \notin Swept
        BY <3>1, SweptHaveNoRow DEF Rows, RetentionInv, RegistryTypes
      <3> QED BY <3>1, <3>2 DEF RetentionInv, RetentionTypes
    <2> QED BY <2>1, <2>2, <2>3
  <1>3. RegistryTypes' /\ RetentionTypes'
    BY <1>1, <1>2 DEF RetentionInv, RegistryTypes, RetentionTypes
  <1>4. StampsTell' /\ FreshRuns' /\ ActiveProtected' /\ DoomedHaveNoRow'
    BY <1>1 DEF RetentionInv, StampsTell, FreshRuns, ActiveProtected, DoomedHaveNoRow
  <1>5. SurvivorsKeepBundles'
    BY <1>1, <1>2 DEF RetentionInv, SurvivorsKeepBundles, Published, NoRow
  <1>6. ReferenceTypes' /\ FreezeInv'
    BY <1>1, ReferenceUntouched
  <1> QED BY <1>3, <1>4, <1>5, <1>6 DEF RetentionInv

\* Steps that change no row, no bundle and no snapshot.
LEMMA InvQuietSteps ==
    ASSUME RetentionInv, Tick \/ RecordExternal \/ (\E r \in Runs : IngestActuals(r)) \/ ReadProtected \/ RefusePrune
    PROVE  RetentionInv'
  <1>1. UNCHANGED <<registry, stamp, born, nextRun, bundle, doomed, reference, backup, snapshot, cut, freezer>>
    BY DEF Tick, RecordExternal, IngestActuals, ReadProtected, RefusePrune, runVars, retentionVars,
           referenceVars
  <1>2. /\ clock' \in 0..MaxClock /\ pinned' \subseteq Runs /\ protected' \subseteq Runs
        /\ \/ UNCHANGED <<phase, protected>>
           \/ phase' = "prune" /\ Active(registry) \subseteq protected'
           \/ phase' = "raised"
        /\ phase' \in {"idle", "due", "prune", "sweep", "raised"}
    <2>1. Active(registry) \subseteq Runs
      BY DEF Active, RetentionInv, RegistryTypes
    <2>2. CASE Tick
      BY <2>2, RetentionAssumption
         DEF Tick, runVars, retentionVars, RetentionInv, RegistryTypes, RetentionTypes
    <2>3. CASE RecordExternal
      BY <2>1, <2>3 DEF RecordExternal, retentionVars, RetentionInv, RegistryTypes, RetentionTypes
    <2>4. CASE ReadProtected
      BY <2>1, <2>4 DEF ReadProtected, RetentionInv, RegistryTypes, ReferenceTypes
    <2>5. CASE RefusePrune
      BY <2>5 DEF RefusePrune, RetentionInv, RegistryTypes, RetentionTypes
    <2>6. CASE \E r \in Runs : IngestActuals(r)
      BY <2>6 DEF IngestActuals, retentionVars, RetentionInv, RegistryTypes, RetentionTypes
    <2> QED BY <2>2, <2>3, <2>4, <2>5, <2>6
  <1>3. RegistryTypes' /\ RetentionTypes'
    BY <1>1, <1>2 DEF RetentionInv, RegistryTypes, RetentionTypes
  <1>4. StampsTell' /\ FreshRuns'
    BY <1>1 DEF RetentionInv, StampsTell, FreshRuns
  <1>5. ActiveProtected' /\ DoomedHaveNoRow'
    BY <1>1, <1>2 DEF RetentionInv, ActiveProtected, DoomedHaveNoRow
  <1>6. SurvivorsKeepBundles'
    BY <1>1 DEF RetentionInv, SurvivorsKeepBundles, Published
  <1>7. ReferenceTypes' /\ FreezeInv'
    BY <1>1, ReferenceUntouched
  <1> QED BY <1>3, <1>4, <1>5, <1>6, <1>7 DEF RetentionInv

LEMMA InvStep == RetentionInv /\ [Next]_vars => RetentionInv'
  <1> SUFFICES ASSUME RetentionInv, [Next]_vars PROVE RetentionInv'
    OBVIOUS
  <1>1. CASE FreezeActions
    BY <1>1, InvFreeze
  <1>2. CASE WriterActions
    BY <1>2, InvWriters
  <1>3. CASE Prune
    BY <1>3, InvPrune
  <1>4. CASE Sweep \/ AbandonRetention
    BY <1>4, InvLeave
  <1>5. CASE Tick \/ RecordExternal \/ (\E r \in Runs : IngestActuals(r)) \/ ReadProtected \/ RefusePrune
    BY <1>5, InvQuietSteps
  <1>6. CASE UNCHANGED vars
    <2>1. /\ UNCHANGED <<registry, stamp, born, pinned, nextRun, clock>>
          /\ UNCHANGED <<bundle, phase, protected, doomed>>
          /\ UNCHANGED <<reference, backup, snapshot, cut, freezer>>
      BY <1>6 DEF vars, runVars, retentionVars, referenceVars
    <2>2. clock' \in 0..MaxClock
      BY <2>1 DEF RetentionInv, RegistryTypes
    <2> QED BY <2>1, <2>2, RegistryUntouched, ReferenceUntouched DEF RetentionInv
  <1> QED BY <1>1, <1>2, <1>3, <1>4, <1>5, <1>6 DEF Next, FreezeActions, WriterActions

LEMMA Invariant == Spec => []RetentionInv
  BY InvInit, InvStep, PTL DEF Spec

-----------------------------------------------------------------------------
(* What follows.                                                           *)

\* Registry, timestamps, bundles, retention and freeze keep their types.
THEOREM RetentionTyped == Spec => []TypeOK
  <1>1. RetentionInv => TypeOK
    BY TypeParts DEF RetentionInv
  <1> QED BY <1>1, Invariant, PTL

\* A published run that is still in the registry has its sealed bundle, whichever
\* sweep of apply_run_retention_policy failed or died half-way.
THEOREM RowsKeepTheirBundles == Spec => []SurvivorsKeepBundles
  <1>1. RetentionInv => SurvivorsKeepBundles
    BY DEF RetentionInv
  <1> QED BY <1>1, Invariant, PTL

\* Wherever freezes raise, die or are undone (freeze_reference_atomic), the
\* reference and its backup have a whole copy under reference_runs unless a freeze
\* of the same run was cut short in that very copy; then the copy may be partial,
\* and the theorem promises no whole one.
THEOREM CopyWholeUnlessCut == Spec => []WholeCopyUnlessCut
  <1>1. RetentionInv => WholeCopyUnlessCut
    BY DEF RetentionInv, FreezeInv, HasSnapshot, WholeCopyUnlessCut
  <1> QED BY <1>1, Invariant, PTL

\* Only the retention transaction takes a row away.
LEMMA OnlyPruneDeletes ==
    ASSUME RetentionInv, [Next]_vars, Deleted # {}
    PROVE  Prune
  <1>1. CASE WriterActions
    <2>1. RetentionInv'
      BY <1>1, InvWriters
    <2>2. Deleted = {}
      BY <1>1, <2>1, InvWriters DEF Deleted, Rows, RetentionInv, RegistryTypes
    <2> QED BY <2>2
  <1>2. CASE Next /\ ~WriterActions /\ ~Prune
    <2>1. registry' = registry
      BY <1>2 DEF Next, WriterActions, Tick, RecordExternal, IngestActuals, ReadProtected, RefusePrune,
         Sweep, AbandonRetention, BeginFreeze, KeepSnapshot, SetAside, SwapIn, SwapFails, FreezeDies, runVars
    <2> QED BY <2>1 DEF Deleted, Rows
  <1>3. CASE UNCHANGED vars
    <2>1. registry' = registry
      BY <1>3 DEF vars, runVars
    <2> QED BY <2>1 DEF Deleted, Rows
  <1> QED BY <1>1, <1>2, <1>3

LEMMA InvAge ==
    ASSUME RetentionInv, [Next]_vars, NEW d \in Deleted, NEW k \in Kept
    PROVE  born[d] < born[k] + DayLength + UtcOffset
  <1>1. Prune
    BY OnlyPruneDeletes
  <1>2. PICK old \in OldRunSets : registry' = Pruned(registry, old)
    BY <1>1 DEF Prune
  <1>3. Active(registry) \subseteq protected
    BY <1>1 DEF Prune, RetentionInv, ActiveProtected
  <1>4. \A r \in Rows(registry) : r \in Runs /\ (r \in Rows(registry)' <=> r \notin old)
    BY <1>2, PrunedRows DEF Rows, RetentionInv, RegistryTypes
  <1>5. d \in old /\ d \in Runs
    BY <1>4 DEF Deleted
  <1>6. k \in (Rows(registry) \ Active(registry)) \ (old \cup protected) /\ k \in Runs
    BY <1>3, <1>4 DEF Kept
  <1>7. NotBefore(k, d)
    BY <1>5, <1>6, Chosen
  <1>8. PICK b \in Nat, a \in Nat : b = born[d] /\ a = born[k]
    BY <1>5, <1>6, RetentionAssumption DEF RetentionInv, RegistryTypes
  <1>9. PICK x \in Nat, y \in Nat : x = stamp[k].day /\ y = stamp[d].day
    BY <1>5, <1>6 DEF RetentionInv, RegistryTypes, Stamps
  <1>10. b \div DayLength <= y
    <2>1. stamp[d] \in {IsoLocal(b), SqlUtc(b)}
      BY <1>5, <1>8 DEF RetentionInv, StampsTell
    <2>2. y \in {(b + UtcOffset) \div DayLength, b \div DayLength}
      BY <1>9, <2>1, StampDays
    <2>3. b \div DayLength <= (b + UtcOffset) \div DayLength /\ b \div DayLength \in Nat
      BY DivMonotone, RetentionAssumption
    <2> QED BY <2>2, <2>3
  <1>11. x <= (a + UtcOffset) \div DayLength
    <2>1. stamp[k] \in {IsoLocal(a), SqlUtc(a)}
      BY <1>6, <1>8 DEF RetentionInv, StampsTell
    <2>2. x \in {(a + UtcOffset) \div DayLength, a \div DayLength}
      BY <1>9, <2>1, StampDays
    <2>3. a \div DayLength <= (a + UtcOffset) \div DayLength
      BY DivMonotone, RetentionAssumption
    <2>4. a + UtcOffset \in Nat
      BY RetentionAssumption
    <2>5. (a + UtcOffset) \div DayLength \in Nat
      BY <2>4, RetentionAssumption
    <2> QED BY <2>2, <2>3, <2>5
  <1>12. y <= x
    <2>1. x > y \/ x = y
      BY <1>7, <1>9 DEF NotBefore
    <2> QED BY <2>1
  <1>13. b \div DayLength <= (a + UtcOffset) \div DayLength
    <2>1. a + UtcOffset \in Nat
      BY RetentionAssumption
    <2>2. PICK m \in Nat, n \in Nat : m = b \div DayLength /\ n = (a + UtcOffset) \div DayLength
      BY <2>1, RetentionAssumption
    <2> QED BY <1>10, <1>11, <1>12, <2>2
  <1>14. b < (a + UtcOffset) + DayLength
    <2>1. a + UtcOffset \in Nat
      BY RetentionAssumption
    <2> QED BY <1>13, <2>1, DaysApart, RetentionAssumption
  <1> QED BY <1>8, <1>14, RetentionAssumption

\* Retention, which orders runs by the text of local and of UTC timestamps, deletes
\* no run that is younger than an unprotected one it keeps by a day and the offset
\* or more.
THEOREM AgeErrorIsBounded == Spec => AgeErrorBounded
  <1>1. RetentionInv /\ [Next]_vars =>
          [\A d \in Deleted, k \in Kept : born[d] < born[k] + DayLength + UtcOffset]_vars
    BY InvAge
  <1> QED BY <1>1, Invariant, PTL DEF Spec, AgeErrorBounded

LEMMA InvActiveStays ==
    ASSUME RetentionInv, [Next]_vars, NEW r \in Runs, registry[r] = "ACTIVE"
    PROVE  registry'[r] \in {"ACTIVE", "ARCHIVED"}
  <1>1. CASE WriterActions
    BY <1>1, InvWriters
  <1>2. CASE Prune
    <2>1. PICK old \in OldRunSets : registry' = Pruned(registry, old)
      BY <1>2 DEF Prune
    <2>2. r \notin old
      BY Chosen DEF Active, RetentionInv, RegistryTypes
    <2>3. registry'[r] = registry[r]
      BY <2>1, <2>2, PrunedRows DEF RetentionInv, RegistryTypes
    <2> QED BY <2>3
  <1>3. CASE registry' = registry
    BY <1>3
  <1> QED BY <1>1, <1>2, <1>3 DEF Next, WriterActions, Tick, RecordExternal, IngestActuals, ReadProtected,
          RefusePrune, Sweep, AbandonRetention, BeginFreeze, KeepSnapshot, SetAside, SwapIn,
          SwapFails, FreezeDies, vars, runVars

\* The ACTIVE run is never taken away or failed: every step, retention included,
\* leaves it ACTIVE or archives it.
THEOREM ActiveRunStays ==
    Spec => [][\A r \in Runs : registry[r] = "ACTIVE" => registry'[r] \in {"ACTIVE", "ARCHIVED"}]_vars
  <1>1. RetentionInv /\ [Next]_vars =>
          [\A r \in Runs : registry[r] = "ACTIVE" => registry'[r] \in {"ACTIVE", "ARCHIVED"}]_vars
    BY InvActiveStays
  <1> QED BY <1>1, Invariant, PTL DEF Spec
==============================================================================
