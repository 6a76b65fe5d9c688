----------------------------- MODULE RuntimeLocks -----------------------------
(***************************************************************************)
(* The locks around one canonical database: the blocking, re-entrant       *)
(* run_mutation_lock (src/src/utils/runtime_lock.py), the non-blocking     *)
(* solver_slot (src/src/utils/solver_slot.py) and the request semaphore of *)
(* the API (src/src/api/server.py), used by threads of several processes.  *)
(* run_mutation_lock is a process-wide RLock, a per-thread set of paths    *)
(* already owned, and a flock taken once per thread; solver_slot is a      *)
(* process-wide Lock and a flock of its own.                               *)
(***************************************************************************)
EXTENDS Naturals, Sequences, FiniteSets

CONSTANTS
    Threads,
    Processes,
    ProcessOf,     \* [Threads -> Processes]
    Serves,        \* [Threads -> entry points its program calls]
    NoThread

ASSUME LocksAssumption ==
    /\ ProcessOf \in [Threads -> Processes]
    /\ NoThread \notin Threads

\* The nesting of with-blocks in each entry point: "mutation", "slot" and
\* "request" open a block, "end" closes the innermost one.

\* A writer of MESIntegrationService, ingest_mes_actuals, the pipeline of main.py.
WriterBlocks == <<"mutation", "end">>
\* A solver call that publishes nothing: WhatIfEngine, the dashboard's buttons.
SolverBlocks == <<"slot", "end">>
\* execute_reschedule, guarded by admitted_solver_call.
EngineBlocks == <<"slot">> \o WriterBlocks \o <<"end">>
\* scripts/bootstrap_runtime.py around the pipeline.
BootstrapBlocks == <<"mutation">> \o WriterBlocks \o <<"end">>
\* ClosedLoopRescheduler's _serialized around execute_reschedule.
FacadeBlocks == <<"mutation">> \o EngineBlocks \o <<"end">>
\* dispatch_one: the backfill, execute_reschedule, the acknowledgement.
DispatchBlocks == <<"mutation">> \o WriterBlocks \o EngineBlocks \o WriterBlocks \o <<"end">>
\* POST /schedule/reschedule and POST /schedule/what-if/...
RescheduleBlocks == <<"request">> \o EngineBlocks \o <<"end">>
WhatIfBlocks == <<"request">> \o SolverBlocks \o <<"end">>

Plan == [write |-> WriterBlocks, bootstrap |-> BootstrapBlocks, facade |-> FacadeBlocks,
         dispatch |-> DispatchBlocks, reschedule |-> RescheduleBlocks,
         whatif |-> WhatIfBlocks, simulate |-> SolverBlocks]

EntryPoints == DOMAIN Plan

ASSUME ServesAssumption == Serves \in [Threads -> SUBSET EntryPoints]

NoCall == "none"

VARIABLES
    call,        \* the entry point each thread is in, or NoCall
    position,    \* its next step in Plan
    blocks,      \* the with-blocks it is inside, innermost last
    phase,       \* "run", inside an acquisition, or unwinding an exception
    owned,       \* _owned.paths: the thread holds the mutation flock's path
    rlock,       \* [Processes -> [owner, count]]: the RLock in _locks
    mutationFile, \* the thread whose descriptor holds .factory.db.run.lock
    slotLock,    \* [Processes -> thread]: the Lock of solver_slot
    slotFile,    \* the thread whose descriptor holds .factory.db.solver.lock
    semaphore    \* [Processes -> thread]: _solver_slots of an API process

threadVars == <<call, position, blocks, phase>>
mutationVars == <<owned, rlock, mutationFile>>
slotVars == <<slotLock, slotFile>>
vars == <<threadVars, mutationVars, slotVars, semaphore>>

Phases == {"run", "rlocked", "slotLocked", "unwind"}
\* A "nested" block is a mutation block that found its path in _owned.paths.
Blocks == {"mutation", "nested", "slot", "request"}
MaxDepth == 4

TypeOK ==
    /\ call \in [Threads -> EntryPoints \cup {NoCall}]
    /\ position \in [Threads -> 1..11]
    /\ \A t \in Threads : blocks[t] \in Seq(Blocks) /\ Len(blocks[t]) <= MaxDepth
    /\ phase \in [Threads -> Phases]
    /\ owned \in [Threads -> BOOLEAN]
    /\ rlock \in [Processes -> [owner : Threads \cup {NoThread}, count : 0..MaxDepth]]
    /\ mutationFile \in Threads \cup {NoThread}
    /\ slotLock \in [Processes -> Threads \cup {NoThread}]
    /\ slotFile \in Threads \cup {NoThread}
    /\ semaphore \in [Processes -> Threads \cup {NoThread}]

FreeRLock == [owner |-> NoThread, count |-> 0]

Init ==
    /\ call = [t \in Threads |-> NoCall]
    /\ position = [t \in Threads |-> 1]
    /\ blocks = [t \in Threads |-> << >>]
    /\ phase = [t \in Threads |-> "run"]
    /\ owned = [t \in Threads |-> FALSE]
    /\ rlock = [p \in Processes |-> FreeRLock]
    /\ mutationFile = NoThread
    /\ slotLock = [p \in Processes |-> NoThread]
    /\ slotFile = NoThread
    /\ semaphore = [p \in Processes |-> NoThread]

-----------------------------------------------------------------------------
InCall(t) == call[t] # NoCall
Finished(t) == position[t] > Len(Plan[call[t]])

\* The thread runs its body and the next with-statement asks for "kind".
Asks(t, kind) ==
    /\ InCall(t)
    /\ phase[t] = "run"
    /\ ~Finished(t)
    /\ Plan[call[t]][position[t]] = kind

\* The block is entered: the next statement of the body runs.
EnterBlock(t, block) ==
    /\ blocks' = [blocks EXCEPT ![t] = Append(@, block)]
    /\ position' = [position EXCEPT ![t] = @ + 1]
    /\ phase' = [phase EXCEPT ![t] = "run"]
    /\ UNCHANGED call

MoveTo(t, ph) ==
    /\ phase' = [phase EXCEPT ![t] = ph]
    /\ UNCHANGED <<call, position, blocks>>

Call(t) ==
    /\ call[t] = NoCall
    /\ \E c \in Serves[t] : call' = [call EXCEPT ![t] = c]
    /\ UNCHANGED <<position, blocks, phase, mutationVars, slotVars, semaphore>>

\* "with thread_lock": blocks until no other thread of the process holds it.
TakeRLock(t) ==
    LET p == ProcessOf[t] IN
    /\ Asks(t, "mutation")
    /\ rlock[p].owner \in {NoThread, t}
    /\ rlock' = [rlock EXCEPT ![p] = [owner |-> t, count |-> @.count + 1]]
    /\ MoveTo(t, "rlocked")
    /\ UNCHANGED <<owned, mutationFile, slotVars, semaphore>>

\* The path is in _owned.paths already: the outer block holds the flock.
\* (Mutant: _owned is not consulted, so a nested block opens the file again.)
NeverOwned(t) == FALSE
AlreadyOwned(t) == owned[t]

EnterNested(t) ==
    /\ phase[t] = "rlocked"
    /\ AlreadyOwned(t)
    /\ EnterBlock(t, "nested")
    /\ UNCHANGED <<mutationVars, slotVars, semaphore>>

\* flock(LOCK_EX): blocks until no other descriptor holds the file.
\* (Mutant: only the threads of one process exclude each other.)
FileIgnored == TRUE
FileFree == mutationFile = NoThread

EnterMutation(t) ==
    /\ phase[t] = "rlocked"
    /\ ~AlreadyOwned(t)
    /\ FileFree
    /\ mutationFile' = t
    /\ owned' = [owned EXCEPT ![t] = TRUE]
    /\ EnterBlock(t, "mutation")
    /\ UNCHANGED <<rlock, slotVars, semaphore>>

-----------------------------------------------------------------------------
\* thread_lock.acquire(blocking=False): a busy lock is an exception.
TakeSlotLock(t) ==
    /\ Asks(t, "slot")
    /\ slotLock[ProcessOf[t]] = NoThread
    /\ slotLock' = [slotLock EXCEPT ![ProcessOf[t]] = t]
    /\ MoveTo(t, "slotLocked")
    /\ UNCHANGED <<mutationVars, slotFile, semaphore>>

\* (Mutant: the caller waits for the slot.)
SlotWaits(t) == FALSE
SlotRefuses(t) == slotLock[ProcessOf[t]] # NoThread

RefuseSlotLock(t) ==
    /\ Asks(t, "slot")
    /\ SlotRefuses(t)
    /\ MoveTo(t, "unwind")
    /\ UNCHANGED <<mutationVars, slotVars, semaphore>>

\* flock(LOCK_EX | LOCK_NB), and the finally that gives the Lock back.
SlotFileFree == slotFile = NoThread

EnterSlot(t) ==
    /\ phase[t] = "slotLocked"
    /\ SlotFileFree
    /\ slotFile' = t
    /\ EnterBlock(t, "slot")
    /\ UNCHANGED <<mutationVars, slotLock, semaphore>>

\* (Mutant: a refused flock leaves the process-wide Lock taken.)
KeepSlotLock(t) == UNCHANGED slotLock
GiveBackSlotLock(t) == slotLock' = [slotLock EXCEPT ![ProcessOf[t]] = NoThread]

RefuseSlotFile(t) ==
    /\ phase[t] = "slotLocked"
    /\ slotFile # NoThread
    /\ GiveBackSlotLock(t)
    /\ MoveTo(t, "unwind")
    /\ UNCHANGED <<mutationVars, slotFile, semaphore>>

\* acquire_solver_slot: _solver_slots.acquire(blocking=False), or a 429.
EnterRequest(t) ==
    /\ Asks(t, "request")
    /\ semaphore[ProcessOf[t]] = NoThread
    /\ semaphore' = [semaphore EXCEPT ![ProcessOf[t]] = t]
    /\ EnterBlock(t, "request")
    /\ UNCHANGED <<mutationVars, slotVars>>

RefuseRequest(t) ==
    /\ Asks(t, "request")
    /\ semaphore[ProcessOf[t]] # NoThread
    /\ MoveTo(t, "unwind")
    /\ UNCHANGED <<mutationVars, slotVars, semaphore>>

-----------------------------------------------------------------------------
\* The body returns early or raises: every open block is closed in turn.
Unwind(t) ==
    /\ InCall(t)
    /\ phase[t] = "run"
    /\ blocks[t] # << >>
    /\ MoveTo(t, "unwind")
    /\ UNCHANGED <<mutationVars, slotVars, semaphore>>

Closing(t, block) ==
    /\ phase[t] = "unwind" \/ Asks(t, "end")
    /\ blocks[t] # << >>
    /\ blocks[t][Len(blocks[t])] = block

CloseBlock(t) ==
    /\ blocks' = [blocks EXCEPT ![t] = SubSeq(@, 1, Len(@) - 1)]
    /\ position' = [position EXCEPT ![t] = IF phase[t] = "run" THEN @ + 1 ELSE @]
    /\ UNCHANGED <<call, phase>>

ReleaseRLock(t) ==
    LET p == ProcessOf[t] IN
    rlock' = [rlock EXCEPT ![p] =
                 IF @.count = 1 THEN FreeRLock ELSE [@ EXCEPT !.count = rlock[p].count - 1]]

LeaveNested(t) ==
    /\ Closing(t, "nested")
    /\ CloseBlock(t)
    /\ ReleaseRLock(t)
    /\ UNCHANGED <<owned, mutationFile, slotVars, semaphore>>

\* LOCK_UN, _owned.paths restored, the RLock released, in one scheduling step:
\* no other thread can tell them apart, since the RLock goes last.
LeaveMutation(t) ==
    /\ Closing(t, "mutation")
    /\ CloseBlock(t)
    /\ mutationFile' = NoThread
    /\ owned' = [owned EXCEPT ![t] = FALSE]
    /\ ReleaseRLock(t)
    /\ UNCHANGED <<slotVars, semaphore>>

LeaveSlot(t) ==
    /\ Closing(t, "slot")
    /\ CloseBlock(t)
    /\ slotFile' = NoThread
    /\ GiveBackSlotLock(t)
    /\ UNCHANGED <<mutationVars, semaphore>>

LeaveRequest(t) ==
    /\ Closing(t, "request")
    /\ CloseBlock(t)
    /\ semaphore' = [semaphore EXCEPT ![ProcessOf[t]] = NoThread]
    /\ UNCHANGED <<mutationVars, slotVars>>

Return(t) ==
    /\ InCall(t)
    /\ blocks[t] = << >>
    /\ phase[t] = "unwind" \/ (phase[t] = "run" /\ Finished(t))
    /\ call' = [call EXCEPT ![t] = NoCall]
    /\ position' = [position EXCEPT ![t] = 1]
    /\ phase' = [phase EXCEPT ![t] = "run"]
    /\ UNCHANGED <<blocks, mutationVars, slotVars, semaphore>>

-----------------------------------------------------------------------------
\* A process dies with all its threads: the kernel drops its flocks.
Kill(p) ==
    LET dead == {t \in Threads : ProcessOf[t] = p}
        Survivor(t) == IF t \in dead THEN NoThread ELSE t
    IN
    /\ \E t \in dead : InCall(t)
    /\ call' = [t \in Threads |-> IF t \in dead THEN NoCall ELSE call[t]]
    /\ position' = [t \in Threads |-> IF t \in dead THEN 1 ELSE position[t]]
    /\ blocks' = [t \in Threads |-> IF t \in dead THEN << >> ELSE blocks[t]]
    /\ phase' = [t \in Threads |-> IF t \in dead THEN "run" ELSE phase[t]]
    /\ owned' = [t \in Threads |-> t \notin dead /\ owned[t]]
    /\ rlock' = [rlock EXCEPT ![p] = FreeRLock]
    /\ mutationFile' = Survivor(mutationFile)
    /\ slotLock' = [slotLock EXCEPT ![p] = NoThread]
    /\ slotFile' = Survivor(slotFile)
    /\ semaphore' = [semaphore EXCEPT ![p] = NoThread]

Acquire(t) ==
    \/ TakeRLock(t)
    \/ EnterNested(t)
    \/ EnterMutation(t)
    \/ TakeSlotLock(t)
    \/ RefuseSlotLock(t)
    \/ EnterSlot(t)
    \/ RefuseSlotFile(t)
    \/ EnterRequest(t)
    \/ RefuseRequest(t)

Release(t) ==
    \/ LeaveNested(t)
    \/ LeaveMutation(t)
    \/ LeaveSlot(t)
    \/ LeaveRequest(t)
    \/ Return(t)

Step(t) == Acquire(t) \/ Release(t) \/ Unwind(t)

Next ==
    \/ \E t \in Threads : Call(t) \/ Step(t)
    \/ \E p \in Processes : Kill(p)

\* A thread inside a call is scheduled again and again; nothing obliges it to
\* raise, and a blocked acquisition is served in no particular order.
Fairness == \A t \in Threads : WF_vars(Acquire(t) \/ Release(t))

Spec == Init /\ [][Next]_vars
FairSpec == Spec /\ Fairness

-----------------------------------------------------------------------------
Inside(t, block) == \E i \in 1..Len(blocks[t]) : blocks[t][i] = block

\* Two writers of one canonical database are never both past the mutation
\* lock, and two solvers never both past the slot, be they threads of one process
\* or of two, nested or not, and however an exception or a killed process left
\* the locks.
Writing(t) == Inside(t, "mutation") \/ Inside(t, "nested")
Solving(t) == Inside(t, "slot")
Exclusion ==
    \A t, u \in Threads : t # u => ~(Writing(t) /\ Writing(u)) /\ ~(Solving(t) /\ Solving(u))

\* A thread that left its call holds no lock, whichever acquisition was refused
\* and whichever body raised: nothing is leaked that would refuse or block
\* everyone after it.
NothingLeaked ==
    \A t \in Threads : ~InCall(t) =>
        /\ mutationFile # t /\ slotFile # t /\ ~owned[t]
        /\ \A p \in Processes : rlock[p].owner # t /\ slotLock[p] # t /\ semaphore[p] # t

\* A thread that holds the mutation file never waits for anything: the nested
\* block finds its path owned, and the solver slot, which an API request holds
\* while it waits for the mutation lock, refuses instead of blocking.
HolderNeverWaits == \A t \in Threads : mutationFile = t => ENABLED (Acquire(t) \/ Release(t))

\* Under fair scheduling whoever takes the mutation file gives it back, so a
\* waiting publication is delayed but not blocked for ever by the holder.
MutationReleased ==
    \A t \in Threads : mutationFile = t ~> mutationFile # t
==============================================================================
