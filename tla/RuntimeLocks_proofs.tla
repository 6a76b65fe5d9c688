------------------------- MODULE RuntimeLocks_proofs -------------------------
(***************************************************************************)
(* Proofs about RuntimeLocks: mutual exclusion of writers and of solvers,  *)
(* and that no lock outlives the call that took it, for any number of      *)
(* threads and processes, any assignment of entry points to threads, and   *)
(* any nesting of with-blocks (nothing below opens Plan).                  *)
(***************************************************************************)
EXTENDS RuntimeLocks, FiniteSetTheorems, SequenceTheorems, TLAPS

-----------------------------------------------------------------------------
(* Sequences of with-blocks.                                               *)

Has(s, block) == \E i \in 1..Len(s) : s[i] = block
Once(s, block) == \A i, j \in 1..Len(s) : s[i] = block /\ s[j] = block => i = j

\* Only the outermost mutation block took the flock, and the slot and the
\* request are never opened twice.
WellNested(s) ==
    /\ Once(s, "mutation") /\ Once(s, "slot") /\ Once(s, "request")
    /\ \A i \in 1..Len(s) : s[i] = "nested" => \E j \in 1..Len(s) : j < i /\ s[j] = "mutation"

\* How often the sequence holds the re-entrant lock.
TakesRLock(s) == {i \in 1..Len(s) : s[i] \in {"mutation", "nested"}}
Depth(s) == Cardinality(TakesRLock(s))

Popped(s) == SubSeq(s, 1, Len(s) - 1)

LEMMA AppendFacts ==
    ASSUME NEW s \in Seq(Blocks), NEW b \in Blocks
    PROVE  /\ Append(s, b) \in Seq(Blocks) /\ Len(s) \in Nat
           /\ Len(Append(s, b)) = Len(s) + 1
           /\ 1..Len(Append(s, b)) = 1..Len(s) \cup {Len(s) + 1}
           /\ \A i \in 1..Len(s) : Append(s, b)[i] = s[i]
           /\ Append(s, b)[Len(s) + 1] = b
  OBVIOUS

LEMMA PopFacts ==
    ASSUME NEW s \in Seq(Blocks), s # << >>
    PROVE  /\ Popped(s) \in Seq(Blocks) /\ Len(s) \in Nat \ {0}
           /\ Len(Popped(s)) = Len(s) - 1
           /\ 1..Len(Popped(s)) = 1..Len(s) \ {Len(s)}
           /\ \A i \in 1..Len(Popped(s)) : Popped(s)[i] = s[i]
  <1>1. Len(s) \in Nat \ {0} /\ \A i \in 1..Len(s) : s[i] \in Blocks
    OBVIOUS
  <1>2. 1 \in Int /\ Len(s) - 1 \in Nat /\ 1..(Len(s) - 1) = 1..Len(s) \ {Len(s)}
    BY <1>1
  <1>3. \A i \in 1..(Len(s) - 1) : s[i] \in Blocks
    BY <1>1, <1>2
  <1>4. /\ Popped(s) \in Seq(Blocks) /\ Len(Popped(s)) = Len(s) - 1
        /\ \A i \in 1..(Len(s) - 1) : Popped(s)[i] = s[i]
    <2>1. PICK n \in Nat : n = Len(s) - 1
      BY <1>2
    <2>2. /\ SubSeq(s, 1, n) \in Seq(Blocks)
          /\ Len(SubSeq(s, 1, n)) = IF 1 <= n THEN n - 1 + 1 ELSE 0
          /\ \A i \in 1..(n - 1 + 1) : SubSeq(s, 1, n)[i] = s[1 + i - 1]
      BY <1>3, <2>1, SubSeqProperties
    <2>3. n - 1 + 1 = n /\ (~(1 <= n) => n = 0) /\ \A i \in 1..n : 1 + i - 1 = i
      OBVIOUS
    <2> QED BY <2>1, <2>2, <2>3 DEF Popped
  <1> QED BY <1>1, <1>2, <1>4

\* Entering a block.
LEMMA AppendHas ==
    ASSUME NEW s \in Seq(Blocks), NEW b \in Blocks, NEW c
    PROVE  Has(Append(s, b), c) <=> Has(s, c) \/ b = c
  <1>1. Len(s) + 1 \notin 1..Len(s)
    BY AppendFacts
  <1> QED BY <1>1, AppendFacts DEF Has

LEMMA AppendNests ==
    ASSUME NEW s \in Seq(Blocks), NEW b \in Blocks, WellNested(s),
           b \in {"mutation", "slot", "request"} => ~Has(s, b),
           b = "nested" => Has(s, "mutation")
    PROVE  WellNested(Append(s, b))
  <1> DEFINE new == Append(s, b)
  <1>1. /\ 1..Len(new) = 1..Len(s) \cup {Len(s) + 1} /\ Len(s) \in Nat
        /\ \A i \in 1..Len(s) : new[i] = s[i]
        /\ new[Len(s) + 1] = b
    BY AppendFacts
  <1>2. \A i \in 1..Len(s) : i < Len(s) + 1
    BY <1>1
  <1> HIDE DEF new
  <1>3. ASSUME NEW c \in {"mutation", "slot", "request"} PROVE Once(new, c)
    BY <1>1, <1>3 DEF Once, WellNested, Has
  <1>4. ASSUME NEW i \in 1..Len(new), new[i] = "nested"
        PROVE  \E j \in 1..Len(new) : j < i /\ new[j] = "mutation"
    <2>1. CASE i \in 1..Len(s)
      BY <1>1, <1>4, <2>1 DEF WellNested
    <2>2. CASE i = Len(s) + 1
      BY <1>1, <1>2, <1>4, <2>2 DEF Has
    <2> QED BY <1>1, <2>1, <2>2
  <1> QED BY <1>3, <1>4 DEF WellNested, new

LEMMA DepthIsNat ==
    ASSUME NEW s \in Seq(Blocks)
    PROVE  /\ IsFiniteSet(TakesRLock(s)) /\ Depth(s) \in Nat
           /\ Depth(s) = 0 <=> ~Has(s, "mutation") /\ ~Has(s, "nested")
  <1>1. Len(s) \in Nat
    OBVIOUS
  <1>2. IsFiniteSet(1..Len(s))
    BY <1>1, FS_Interval
  <1>3. IsFiniteSet(TakesRLock(s))
    BY <1>2, FS_Subset DEF TakesRLock
  <1>4. TakesRLock(s) = {} <=> ~Has(s, "mutation") /\ ~Has(s, "nested")
    BY DEF TakesRLock, Has
  <1> QED BY <1>3, <1>4, FS_EmptySet, FS_CardinalityType DEF Depth

LEMMA AppendDepth ==
    ASSUME NEW s \in Seq(Blocks), NEW b \in Blocks
    PROVE  Depth(Append(s, b)) = IF b \in {"mutation", "nested"} THEN Depth(s) + 1 ELSE Depth(s)
  <1>1. /\ 1..Len(Append(s, b)) = 1..Len(s) \cup {Len(s) + 1}
        /\ \A i \in 1..Len(s) : Append(s, b)[i] = s[i]
        /\ Append(s, b)[Len(s) + 1] = b
    BY AppendFacts
  <1>2. Len(s) + 1 \notin 1..Len(s)
    BY AppendFacts
  <1>3. TakesRLock(Append(s, b)) = IF b \in {"mutation", "nested"}
                                   THEN TakesRLock(s) \cup {Len(s) + 1} ELSE TakesRLock(s)
    BY <1>1, <1>2 DEF TakesRLock
  <1>4. Len(s) + 1 \notin TakesRLock(s)
    BY <1>2 DEF TakesRLock
  <1> QED BY <1>3, <1>4, DepthIsNat, FS_AddElement DEF Depth

\* Leaving the innermost block.
LEMMA PopHas ==
    ASSUME NEW s \in Seq(Blocks), s # << >>, WellNested(s), NEW b, s[Len(s)] = b
    PROVE  /\ WellNested(Popped(s))
           /\ \A c : c # b => (Has(Popped(s), c) <=> Has(s, c))
           /\ b \in {"mutation", "slot", "request"} => ~Has(Popped(s), b)
           /\ b = "mutation" => ~Has(Popped(s), "nested")
           /\ Has(s, b)
           /\ Has(s, "nested") => Has(s, "mutation")
  <1> DEFINE rest == Popped(s)
  <1>1. /\ 1..Len(rest) = 1..Len(s) \ {Len(s)} /\ Len(s) \in 1..Len(s)
        /\ \A i \in 1..Len(rest) : rest[i] = s[i]
    BY PopFacts
  <1>2. \A i, j \in 1..Len(s) : j < i => j \in 1..Len(rest)
    BY PopFacts
  <1> HIDE DEF rest
  <1>3. WellNested(rest)
    BY <1>1, <1>2, SMTT(30) DEF WellNested, Once
  <1>4. \A c : c # b => (Has(rest, c) <=> Has(s, c))
    BY <1>1 DEF Has
  <1>5. b \in {"mutation", "slot", "request"} => ~Has(rest, b)
    BY <1>1 DEF Has, WellNested, Once
  <1>6. b = "mutation" => ~Has(rest, "nested")
    BY <1>3, <1>5 DEF Has, WellNested
  <1>7. Has(s, b) /\ (Has(s, "nested") => Has(s, "mutation"))
    BY <1>1 DEF Has, WellNested
  <1> QED BY <1>3, <1>4, <1>5, <1>6, <1>7 DEF rest

LEMMA PopDepth ==
    ASSUME NEW s \in Seq(Blocks), s # << >>, NEW b, s[Len(s)] = b
    PROVE  Depth(s) = IF b \in {"mutation", "nested"} THEN Depth(Popped(s)) + 1 ELSE Depth(Popped(s))
  <1>1. /\ Popped(s) \in Seq(Blocks) /\ Len(s) \in 1..Len(s)
        /\ 1..Len(Popped(s)) = 1..Len(s) \ {Len(s)}
        /\ \A i \in 1..Len(Popped(s)) : Popped(s)[i] = s[i]
    BY PopFacts
  <1>2. TakesRLock(s) = IF b \in {"mutation", "nested"}
                        THEN TakesRLock(Popped(s)) \cup {Len(s)} ELSE TakesRLock(Popped(s))
    BY <1>1 DEF TakesRLock
  <1>3. Len(s) \notin TakesRLock(Popped(s))
    BY <1>1 DEF TakesRLock
  <1> QED BY <1>1, <1>2, <1>3, DepthIsNat, FS_AddElement DEF Depth

LEMMA NoBlocks ==
    /\ << >> \in Seq(Blocks) /\ WellNested(<< >>) /\ Depth(<< >>) = 0
    /\ \A c : ~Has(<< >>, c)
  <1>1. 1..Len(<< >>) = {}
    OBVIOUS
  <1>2. TakesRLock(<< >>) = {}
    BY <1>1 DEF TakesRLock
  <1> QED BY <1>1, <1>2, FS_EmptySet DEF WellNested, Once, Has, Depth

-----------------------------------------------------------------------------
(* The invariant: a thread's with-blocks say which locks it holds.         *)

LocksTypes ==
    /\ call \in [Threads -> EntryPoints \cup {NoCall}]
    /\ blocks \in [Threads -> Seq(Blocks)]
    /\ phase \in [Threads -> Phases]
    /\ owned \in [Threads -> BOOLEAN]
    /\ rlock \in [Processes -> [owner : Threads \cup {NoThread}, count : Nat]]
    /\ \A p \in Processes : rlock[p].owner = NoThread => rlock[p].count = 0
    /\ mutationFile \in Threads \cup {NoThread}
    /\ slotLock \in [Processes -> Threads \cup {NoThread}]
    /\ slotFile \in Threads \cup {NoThread}
    /\ semaphore \in [Processes -> Threads \cup {NoThread}]

\* How often a thread holds its process's RLock.
Held(t) == IF phase[t] = "rlocked" THEN Depth(blocks[t]) + 1 ELSE Depth(blocks[t])

OutsideHoldsNothing(t) == ~InCall(t) => blocks[t] = << >> /\ phase[t] = "run"

MutationMatches(t) ==
    /\ owned[t] <=> Has(blocks[t], "mutation")
    /\ mutationFile = t <=> Has(blocks[t], "mutation")
    /\ Has(blocks[t], "nested") => Has(blocks[t], "mutation")
    /\ \A p \in Processes : rlock[p].owner = t <=> p = ProcessOf[t] /\ Held(t) # 0
    /\ Held(t) # 0 => rlock[ProcessOf[t]].count = Held(t)

SlotMatches(t) ==
    /\ slotFile = t <=> Has(blocks[t], "slot")
    /\ \A p \in Processes : slotLock[p] = t <=>
          p = ProcessOf[t] /\ (Has(blocks[t], "slot") \/ phase[t] = "slotLocked")
    /\ phase[t] = "slotLocked" => ~Has(blocks[t], "slot")

RequestMatches(t) ==
    \A p \in Processes : semaphore[p] = t <=> p = ProcessOf[t] /\ Has(blocks[t], "request")

ThreadInv(t) ==
    /\ WellNested(blocks[t])
    /\ OutsideHoldsNothing(t)
    /\ MutationMatches(t)
    /\ SlotMatches(t)
    /\ RequestMatches(t)

LocksInv == LocksTypes /\ \A t \in Threads : ThreadInv(t)

LEMMA InvInit == Init => LocksInv
  <1> SUFFICES ASSUME Init PROVE LocksInv
    OBVIOUS
  <1>1. \A t \in Threads : t # NoThread /\ ProcessOf[t] \in Processes
    BY LocksAssumption
  <1>2. LocksTypes
    BY NoBlocks DEF Init, LocksTypes, Phases, FreeRLock
  <1>3. ASSUME NEW t \in Threads PROVE ThreadInv(t)
    <2>1. blocks[t] = << >> /\ phase[t] = "run" /\ owned[t] = FALSE
      BY DEF Init
    <2>2. Held(t) = 0
      BY <2>1, NoBlocks DEF Held
    <2>3. /\ mutationFile # t /\ slotFile # t
          /\ \A p \in Processes : rlock[p].owner # t /\ slotLock[p] # t /\ semaphore[p] # t
      BY <1>1 DEF Init, FreeRLock
    <2> QED BY <2>1, <2>2, <2>3, NoBlocks DEF ThreadInv, OutsideHoldsNothing, MutationMatches,
            SlotMatches, RequestMatches
  <1> QED BY <1>2, <1>3 DEF LocksInv

\* A step of t leaves what the other threads are and hold alone.
Frame(t) ==
    \A u \in Threads \ {t} :
        /\ call'[u] = call[u] /\ blocks'[u] = blocks[u]
        /\ phase'[u] = phase[u] /\ owned'[u] = owned[u]
        /\ mutationFile' = u <=> mutationFile = u
        /\ slotFile' = u <=> slotFile = u
        /\ \A p \in Processes :
              /\ slotLock'[p] = u <=> slotLock[p] = u
              /\ semaphore'[p] = u <=> semaphore[p] = u
              /\ rlock'[p].owner = u <=> rlock[p].owner = u
              /\ rlock[p].owner = u => rlock'[p] = rlock[p]

LEMMA FrameSuffices ==
    ASSUME LocksInv, NEW t \in Threads, Frame(t), LocksTypes', ThreadInv(t)'
    PROVE  LocksInv'
  <1>1. ASSUME NEW u \in Threads \ {t} PROVE ThreadInv(u)'
    <2>1. ThreadInv(u) /\ ProcessOf[u] \in Processes
      BY LocksAssumption DEF LocksInv
    <2>2. /\ call'[u] = call[u] /\ blocks'[u] = blocks[u]
          /\ phase'[u] = phase[u] /\ owned'[u] = owned[u]
      BY DEF Frame
    <2>3. WellNested(blocks[u])' /\ OutsideHoldsNothing(u)'
      BY <2>1, <2>2 DEF ThreadInv, OutsideHoldsNothing, InCall
    <2>4. Held(u)' = Held(u)
      BY <2>2 DEF Held
    <2>5. MutationMatches(u)'
      BY <2>1, <2>2, <2>4 DEF ThreadInv, MutationMatches, Frame
    <2>6. SlotMatches(u)' /\ RequestMatches(u)'
      BY <2>1, <2>2 DEF ThreadInv, SlotMatches, RequestMatches, Frame
    <2> QED BY <2>3, <2>5, <2>6 DEF ThreadInv
  <1> QED BY <1>1 DEF LocksInv

-----------------------------------------------------------------------------
(* What a step does to the thread itself.                                  *)

LEMMA Enters ==
    ASSUME LocksInv, NEW t \in Threads, NEW b \in Blocks, EnterBlock(t, b)
    PROVE  /\ call' = call /\ blocks' \in [Threads -> Seq(Blocks)] /\ phase' \in [Threads -> Phases]
           /\ blocks'[t] = Append(blocks[t], b) /\ phase'[t] = "run"
           /\ \A u \in Threads \ {t} : blocks'[u] = blocks[u] /\ phase'[u] = phase[u]
  <1>1. blocks[t] \in Seq(Blocks) /\ Append(blocks[t], b) \in Seq(Blocks)
    BY AppendFacts DEF LocksInv, LocksTypes
  <1> QED BY <1>1 DEF LocksInv, LocksTypes, EnterBlock, Phases

LEMMA MovesTo ==
    ASSUME LocksInv, NEW t \in Threads, NEW ph \in Phases, MoveTo(t, ph)
    PROVE  /\ call' = call /\ blocks' = blocks /\ phase' \in [Threads -> Phases]
           /\ phase'[t] = ph
           /\ \A u \in Threads \ {t} : phase'[u] = phase[u]
  BY DEF LocksInv, LocksTypes, MoveTo

LEMMA Closes ==
    ASSUME LocksInv, NEW t \in Threads, NEW b \in Blocks, Closing(t, b), CloseBlock(t)
    PROVE  /\ call' = call /\ phase' = phase /\ blocks' \in [Threads -> Seq(Blocks)]
           /\ blocks[t] # << >> /\ blocks[t][Len(blocks[t])] = b
           /\ blocks'[t] = Popped(blocks[t])
           /\ phase[t] \in {"run", "unwind"} /\ InCall(t)
           /\ \A u \in Threads \ {t} : blocks'[u] = blocks[u]
  <1>1. blocks[t] # << >> /\ blocks[t][Len(blocks[t])] = b /\ phase[t] \in {"run", "unwind"}
    BY DEF Closing, Asks
  <1>2. blocks[t] \in Seq(Blocks) /\ Popped(blocks[t]) \in Seq(Blocks)
    BY <1>1, PopFacts DEF LocksInv, LocksTypes
  <1>3. InCall(t)
    BY <1>1 DEF LocksInv, ThreadInv, OutsideHoldsNothing
  <1> QED BY <1>1, <1>2, <1>3 DEF LocksInv, LocksTypes, CloseBlock, Popped

\* What the invariant says of one thread, its blocks under a name of their own.
LEMMA Myself ==
    ASSUME LocksInv, NEW t \in Threads
    PROVE  /\ ThreadInv(t) /\ ProcessOf[t] \in Processes /\ t # NoThread
           /\ blocks[t] \in Seq(Blocks) /\ Depth(blocks[t]) \in Nat
           /\ Depth(blocks[t]) = 0 <=> ~Has(blocks[t], "mutation") /\ ~Has(blocks[t], "nested")
  <1>1. blocks[t] \in Seq(Blocks)
    BY DEF LocksInv, LocksTypes
  <1> QED BY <1>1, LocksAssumption, DepthIsNat DEF LocksInv

\* The steps in groups: what a step leaves alone, the thread keeps.
LEMMA SlotUntouched ==
    ASSUME LocksInv, NEW t \in Threads, SlotMatches(t), UNCHANGED slotVars,
           Has(blocks'[t], "slot") <=> Has(blocks[t], "slot"),
           phase[t] # "slotLocked", phase'[t] # "slotLocked"
    PROVE  SlotMatches(t)'
  BY DEF SlotMatches, slotVars

LEMMA MutationUntouched ==
    ASSUME LocksInv, NEW t \in Threads, MutationMatches(t), UNCHANGED mutationVars,
           Has(blocks'[t], "mutation") <=> Has(blocks[t], "mutation"),
           Has(blocks'[t], "nested") <=> Has(blocks[t], "nested"),
           Depth(blocks'[t]) = Depth(blocks[t]),
           phase[t] # "rlocked", phase'[t] # "rlocked"
    PROVE  MutationMatches(t)'
  <1>1. Held(t)' = Held(t)
    BY DEF Held
  <1> QED BY <1>1 DEF MutationMatches, mutationVars

LEMMA RequestUntouched ==
    ASSUME LocksInv, NEW t \in Threads, RequestMatches(t), UNCHANGED semaphore,
           Has(blocks'[t], "request") <=> Has(blocks[t], "request")
    PROVE  RequestMatches(t)'
  BY DEF RequestMatches

-----------------------------------------------------------------------------
(* The mutation lock.                                                      *)

LEMMA InvTakeRLock ==
    ASSUME LocksInv, NEW t \in Threads, TakeRLock(t)
    PROVE  LocksInv'
  <1> DEFINE p == ProcessOf[t]
  <1>1. /\ ThreadInv(t) /\ p \in Processes /\ t # NoThread /\ Depth(blocks[t]) \in Nat
        /\ phase[t] = "run" /\ InCall(t)
    BY Myself DEF TakeRLock, Asks
  <1>2. /\ call' = call /\ blocks' = blocks /\ phase' \in [Threads -> Phases]
        /\ phase'[t] = "rlocked" /\ \A u \in Threads \ {t} : phase'[u] = phase[u]
    BY MovesTo DEF TakeRLock, Phases
  <1>3. rlock[p] \in [owner : Threads \cup {NoThread}, count : Nat] /\ rlock[p].owner \in {NoThread, t}
    BY <1>1 DEF LocksInv, LocksTypes, TakeRLock
  <1>4. rlock[p].count = Depth(blocks[t])
    <2>1. Held(t) = Depth(blocks[t])
      BY <1>1 DEF Held
    <2> QED BY <1>1, <1>3, <2>1 DEF ThreadInv, MutationMatches, LocksInv, LocksTypes
  <1>5. rlock' = [rlock EXCEPT ![p] = [owner |-> t, count |-> Depth(blocks[t]) + 1]]
    BY <1>4 DEF TakeRLock
  <1>6. /\ rlock'[p] = [owner |-> t, count |-> Depth(blocks[t]) + 1]
        /\ \A q \in Processes : q # p => rlock'[q] = rlock[q]
        /\ rlock' \in [Processes -> [owner : Threads \cup {NoThread}, count : Nat]]
    BY <1>1, <1>5 DEF LocksInv, LocksTypes
  <1>7. UNCHANGED <<owned, mutationFile, slotVars, slotLock, slotFile, semaphore>>
    BY DEF TakeRLock, slotVars
  <1>8. LocksTypes'
    <2>1. \A q \in Processes : rlock'[q].owner = NoThread => rlock'[q].count = 0
      <3>1. rlock'[p].owner # NoThread
        BY <1>1, <1>6
      <3>2. ASSUME NEW q \in Processes, q # p
            PROVE  rlock'[q].owner = NoThread => rlock'[q].count = 0
        BY <1>6, <3>2 DEF LocksInv, LocksTypes
      <3> QED BY <3>1, <3>2
    <2> QED BY <1>1, <1>2, <1>6, <1>7, <2>1 DEF LocksInv, LocksTypes
  <1>9. Frame(t)
    <2>1. \A u \in Threads \ {t} : rlock[p].owner # u /\ rlock'[p].owner # u
      BY <1>3, <1>6, LocksAssumption
    <2> QED BY <1>1, <1>2, <1>6, <1>7, <2>1 DEF Frame
  <1>10. ThreadInv(t)'
    <2>1. Held(t)' = Depth(blocks[t]) + 1 /\ Depth(blocks[t]) + 1 # 0
      BY <1>1, <1>2 DEF Held
    <2>2. MutationMatches(t)'
      BY <1>1, <1>2, <1>6, <1>7, <2>1 DEF ThreadInv, MutationMatches
    <2>3. SlotMatches(t)' /\ RequestMatches(t)'
      BY <1>1, <1>2, <1>7, SlotUntouched, RequestUntouched DEF ThreadInv
    <2>4. WellNested(blocks[t])' /\ OutsideHoldsNothing(t)'
      BY <1>1, <1>2 DEF ThreadInv, OutsideHoldsNothing, InCall
    <2> QED BY <2>2, <2>3, <2>4 DEF ThreadInv
  <1> QED BY <1>8, <1>9, <1>10, FrameSuffices

LEMMA InvEnterMutation ==
    ASSUME LocksInv, NEW t \in Threads, EnterNested(t) \/ EnterMutation(t)
    PROVE  LocksInv'
  <1> DEFINE p == ProcessOf[t]
             s == blocks[t]
  <1>1. PICK b \in {"nested", "mutation"} :
            /\ EnterBlock(t, b) /\ UNCHANGED <<rlock, slotVars, slotLock, slotFile, semaphore>>
            /\ \/ b = "nested" /\ owned[t] /\ UNCHANGED <<owned, mutationFile>>
               \/ /\ b = "mutation" /\ ~owned[t] /\ mutationFile = NoThread /\ mutationFile' = t
                  /\ owned' = [owned EXCEPT ![t] = TRUE]
    BY DEF EnterNested, EnterMutation, AlreadyOwned, FileFree, mutationVars, slotVars
  <1>2. /\ ThreadInv(t) /\ p \in Processes /\ t # NoThread /\ s \in Seq(Blocks) /\ Depth(s) \in Nat
        /\ phase[t] = "rlocked" /\ InCall(t)
    <2>1. phase[t] = "rlocked"
      BY DEF EnterNested, EnterMutation
    <2> QED BY <2>1, Myself DEF ThreadInv, OutsideHoldsNothing
  <1>3. /\ call' = call /\ blocks' \in [Threads -> Seq(Blocks)] /\ phase' \in [Threads -> Phases]
        /\ blocks'[t] = Append(s, b) /\ phase'[t] = "run"
        /\ \A u \in Threads \ {t} : blocks'[u] = blocks[u] /\ phase'[u] = phase[u]
    BY <1>1, Enters DEF Blocks
  <1>4. /\ \A c : Has(blocks'[t], c) <=> Has(s, c) \/ b = c
        /\ Depth(blocks'[t]) = Depth(s) + 1
    BY <1>2, <1>3, AppendHas, AppendDepth DEF Blocks
  <1>5. WellNested(blocks'[t])
    <2>1. b = "mutation" => ~Has(s, b)
      BY <1>1, <1>2 DEF ThreadInv, MutationMatches
    <2>2. b = "nested" => Has(s, "mutation")
      BY <1>1, <1>2 DEF ThreadInv, MutationMatches
    <2> QED BY <1>1, <1>2, <1>3, <2>1, <2>2, AppendNests DEF ThreadInv, Blocks
  <1>6. /\ owned' \in [Threads -> BOOLEAN] /\ owned'[t] = TRUE
        /\ \A u \in Threads \ {t} : owned'[u] = owned[u]
    BY <1>1 DEF LocksInv, LocksTypes
  <1>7. mutationFile' = t /\ \A u \in Threads \ {t} : mutationFile # u
    BY <1>1, <1>2, LocksAssumption DEF ThreadInv, MutationMatches
  <1>8. LocksTypes'
    BY <1>1, <1>3, <1>6, <1>7 DEF LocksInv, LocksTypes
  <1>9. Frame(t)
    BY <1>1, <1>3, <1>6, <1>7 DEF Frame
  <1>10. ThreadInv(t)'
    <2>1. Held(t)' = Held(t)
      BY <1>2, <1>3, <1>4 DEF Held
    <2>2. Has(blocks'[t], "mutation")
      BY <1>1, <1>2, <1>4 DEF ThreadInv, MutationMatches
    <2>3. MutationMatches(t)'
      BY <1>1, <1>2, <1>6, <1>7, <2>1, <2>2 DEF ThreadInv, MutationMatches
    <2>4. SlotMatches(t)' /\ RequestMatches(t)'
      BY <1>1, <1>2, <1>3, <1>4, SlotUntouched, RequestUntouched DEF ThreadInv
    <2>5. OutsideHoldsNothing(t)'
      BY <1>2, <1>3 DEF OutsideHoldsNothing, InCall
    <2> QED BY <1>5, <2>3, <2>4, <2>5 DEF ThreadInv
  <1> QED BY <1>8, <1>9, <1>10, FrameSuffices

LEMMA InvLeaveMutation ==
    ASSUME LocksInv, NEW t \in Threads, LeaveNested(t) \/ LeaveMutation(t)
    PROVE  LocksInv'
  <1> DEFINE p == ProcessOf[t]
             s == blocks[t]
  <1>1. PICK b \in {"nested", "mutation"} :
            /\ Closing(t, b) /\ CloseBlock(t) /\ ReleaseRLock(t)
            /\ UNCHANGED <<slotVars, slotLock, slotFile, semaphore>>
            /\ \/ b = "nested" /\ UNCHANGED <<owned, mutationFile>>
               \/ /\ b = "mutation" /\ mutationFile' = NoThread
                  /\ owned' = [owned EXCEPT ![t] = FALSE]
    BY DEF LeaveNested, LeaveMutation, slotVars
  <1>2. /\ ThreadInv(t) /\ p \in Processes /\ t # NoThread /\ s \in Seq(Blocks) /\ Depth(s) \in Nat
    BY Myself
  <1>3. /\ call' = call /\ phase' = phase /\ blocks' \in [Threads -> Seq(Blocks)]
        /\ s # << >> /\ s[Len(s)] = b
        /\ blocks'[t] = Popped(s)
        /\ phase[t] \in {"run", "unwind"} /\ InCall(t)
        /\ \A u \in Threads \ {t} : blocks'[u] = blocks[u]
    BY <1>1, Closes DEF Blocks
  <1>4. /\ WellNested(Popped(s)) /\ Has(s, b)
        /\ \A c : c # b => (Has(Popped(s), c) <=> Has(s, c))
        /\ b = "mutation" => ~Has(Popped(s), "mutation") /\ ~Has(Popped(s), "nested")
        /\ Has(s, "nested") => Has(s, "mutation")
    BY <1>2, <1>3, PopHas DEF ThreadInv
  <1>5. Depth(s) = Depth(Popped(s)) + 1 /\ Depth(Popped(s)) \in Nat
    <2>1. Popped(s) \in Seq(Blocks)
      BY <1>2, <1>3, PopFacts
    <2> QED BY <1>2, <1>3, <2>1, PopDepth, DepthIsNat
  <1>6. Has(s, "mutation") /\ owned[t] /\ mutationFile = t
    BY <1>1, <1>2, <1>4 DEF ThreadInv, MutationMatches
  <1>7. Held(t) = Depth(s) /\ Held(t)' = Depth(Popped(s))
    BY <1>3 DEF Held
  <1>8. rlock[p] \in [owner : Threads \cup {NoThread}, count : Nat]
        /\ rlock[p].owner = t /\ rlock[p].count = Depth(Popped(s)) + 1
    BY <1>2, <1>5, <1>7 DEF LocksInv, LocksTypes, ThreadInv, MutationMatches
  <1>9. PICK new : /\ rlock' = [rlock EXCEPT ![p] = new]
                   /\ new = IF Depth(Popped(s)) = 0 THEN FreeRLock
                            ELSE [owner |-> t, count |-> Depth(Popped(s))]
    <2>1. PICK d \in Nat : d = Depth(Popped(s))
      BY <1>5
    <2>2. rlock[p] = [owner |-> t, count |-> d + 1]
      BY <1>8, <2>1
    <2>3. rlock' = [rlock EXCEPT ![p] = IF rlock[p].count = 1 THEN FreeRLock
                                        ELSE [rlock[p] EXCEPT !.count = rlock[p].count - 1]]
      BY <1>1 DEF ReleaseRLock
    <2>4. (IF rlock[p].count = 1 THEN FreeRLock ELSE [rlock[p] EXCEPT !.count = rlock[p].count - 1])
            = IF d = 0 THEN FreeRLock ELSE [owner |-> t, count |-> d]
      BY <2>2
    <2> QED BY <2>1, <2>3, <2>4
  <1>10. new \in [owner : Threads \cup {NoThread}, count : Nat]
         /\ (new.owner = NoThread => new.count = 0)
    BY <1>2, <1>5, <1>9 DEF FreeRLock
  <1>11. /\ rlock'[p] = new /\ \A q \in Processes : q # p => rlock'[q] = rlock[q]
         /\ rlock' \in [Processes -> [owner : Threads \cup {NoThread}, count : Nat]]
    BY <1>2, <1>9, <1>10 DEF LocksInv, LocksTypes
  <1>12. /\ owned' \in [Threads -> BOOLEAN] /\ owned'[t] = (b # "mutation")
         /\ \A u \in Threads \ {t} : owned'[u] = owned[u]
    BY <1>1, <1>6 DEF LocksInv, LocksTypes
  <1>13. mutationFile' = IF b = "mutation" THEN NoThread ELSE t
    BY <1>1, <1>6
  <1>14. LocksTypes'
    BY <1>1, <1>3, <1>10, <1>11, <1>12, <1>13 DEF LocksInv, LocksTypes
  <1>15. Frame(t)
    <2>1. \A u \in Threads \ {t} : new.owner # u
      BY <1>9, LocksAssumption DEF FreeRLock
    <2>2. \A u \in Threads \ {t} : mutationFile' # u /\ mutationFile # u
      BY <1>6, <1>13, LocksAssumption
    <2> QED BY <1>1, <1>3, <1>8, <1>11, <1>12, <2>1, <2>2 DEF Frame
  <1>16. ThreadInv(t)'
    <2>1. Has(blocks'[t], "mutation") <=> b # "mutation"
      BY <1>1, <1>3, <1>4, <1>6
    <2>2. Has(blocks'[t], "nested") => Has(blocks'[t], "mutation")
      BY <1>3, <1>4, <2>1
    <2>3. \A q \in Processes : rlock'[q].owner = t <=> q = p /\ Depth(Popped(s)) # 0
      <3>1. \A q \in Processes : rlock[q].owner = t => q = p
        BY <1>2 DEF ThreadInv, MutationMatches
      <3> QED BY <1>2, <1>9, <1>11, <3>1 DEF FreeRLock
    <2>4. Depth(Popped(s)) # 0 => rlock'[p].count = Depth(Popped(s))
      BY <1>9, <1>11
    <2>5. MutationMatches(t)'
      BY <1>2, <1>7, <1>12, <1>13, <2>1, <2>2, <2>3, <2>4 DEF MutationMatches
    <2>6. SlotMatches(t)' /\ RequestMatches(t)'
      BY <1>1, <1>2, <1>3, <1>4, SlotUntouched, RequestUntouched DEF ThreadInv
    <2>7. OutsideHoldsNothing(t)'
      BY <1>3 DEF OutsideHoldsNothing, InCall
    <2> QED BY <1>3, <1>4, <2>5, <2>6, <2>7 DEF ThreadInv
  <1> QED BY <1>14, <1>15, <1>16, FrameSuffices

-----------------------------------------------------------------------------
(* The solver slot.                                                        *)

\* Steps outside the mutation lock and the semaphore that open no block.
LEMMA InvSlotMoves ==
    ASSUME LocksInv, NEW t \in Threads,
           TakeSlotLock(t) \/ RefuseSlotLock(t) \/ RefuseSlotFile(t)
    PROVE  LocksInv'
  <1> DEFINE p == ProcessOf[t]
  <1>1. /\ ThreadInv(t) /\ p \in Processes /\ t # NoThread
        /\ UNCHANGED <<mutationVars, slotFile, semaphore>>
        /\ InCall(t) /\ phase[t] \in {"run", "slotLocked"}
    <2>1. phase[t] = "slotLocked" => InCall(t)
      BY Myself DEF ThreadInv, OutsideHoldsNothing
    <2> QED BY <2>1, Myself DEF TakeSlotLock, RefuseSlotLock, RefuseSlotFile, Asks, slotVars
  <1>2. PICK ph \in {"slotLocked", "unwind"} :
            /\ MoveTo(t, ph)
            /\ \/ /\ ph = "slotLocked" /\ slotLock[p] = NoThread /\ phase[t] = "run"
                  /\ slotLock' = [slotLock EXCEPT ![p] = t]
               \/ ph = "unwind" /\ phase[t] = "run" /\ slotLock' = slotLock
               \/ /\ ph = "unwind" /\ phase[t] = "slotLocked"
                  /\ slotLock' = [slotLock EXCEPT ![p] = NoThread]
    BY DEF TakeSlotLock, RefuseSlotLock, RefuseSlotFile, Asks, slotVars, GiveBackSlotLock
  <1>3. /\ call' = call /\ blocks' = blocks /\ phase' \in [Threads -> Phases]
        /\ phase'[t] = ph /\ \A u \in Threads \ {t} : phase'[u] = phase[u]
    BY <1>2, MovesTo DEF Phases
  <1>4. /\ slotLock' \in [Processes -> Threads \cup {NoThread}]
        /\ \A q \in Processes : q # p => slotLock'[q] = slotLock[q]
        /\ slotLock'[p] = IF ph = "slotLocked" THEN t
                          ELSE IF phase[t] = "slotLocked" THEN NoThread ELSE slotLock[p]
    BY <1>1, <1>2 DEF LocksInv, LocksTypes
  <1>5. LocksTypes'
    BY <1>1, <1>3, <1>4 DEF LocksInv, LocksTypes, mutationVars
  <1>6. phase[t] = "slotLocked" => slotLock[p] = t
    BY <1>1 DEF ThreadInv, SlotMatches
  <1>7. Frame(t)
    <2>1. \A u \in Threads \ {t} : slotLock'[p] = u <=> slotLock[p] = u
      BY <1>2, <1>4, <1>6, LocksAssumption
    <2> QED BY <1>1, <1>3, <1>4, <2>1 DEF Frame, mutationVars
  <1>8. ThreadInv(t)'
    <2>1. MutationMatches(t)' /\ RequestMatches(t)'
      BY <1>1, <1>2, <1>3, MutationUntouched, RequestUntouched DEF ThreadInv
    <2>2. \A q \in Processes : slotLock[q] = t <=>
            q = p /\ (Has(blocks[t], "slot") \/ phase[t] = "slotLocked")
      BY <1>1 DEF ThreadInv, SlotMatches
    <2>3. \A q \in Processes : slotLock'[q] = t <=>
            q = p /\ (Has(blocks[t], "slot") \/ ph = "slotLocked")
      <3>1. phase[t] = "slotLocked" => ~Has(blocks[t], "slot")
        BY <1>1 DEF ThreadInv, SlotMatches
      <3> QED BY <1>1, <1>2, <1>4, <2>2, <3>1
    <2>4. ph = "slotLocked" => ~Has(blocks[t], "slot")
      BY <1>1, <1>2, <2>2
    <2>5. SlotMatches(t)'
      BY <1>1, <1>3, <2>3, <2>4 DEF ThreadInv, SlotMatches
    <2>6. WellNested(blocks[t])' /\ OutsideHoldsNothing(t)'
      BY <1>1, <1>3 DEF ThreadInv, OutsideHoldsNothing, InCall
    <2> QED BY <2>1, <2>5, <2>6 DEF ThreadInv
  <1> QED BY <1>5, <1>7, <1>8, FrameSuffices

LEMMA InvEnterSlot ==
    ASSUME LocksInv, NEW t \in Threads, EnterSlot(t)
    PROVE  LocksInv'
  <1> DEFINE p == ProcessOf[t]
             s == blocks[t]
  <1>1. /\ ThreadInv(t) /\ p \in Processes /\ t # NoThread /\ s \in Seq(Blocks) /\ Depth(s) \in Nat
        /\ phase[t] = "slotLocked" /\ InCall(t)
    <2>1. phase[t] = "slotLocked"
      BY DEF EnterSlot
    <2> QED BY <2>1, Myself DEF ThreadInv, OutsideHoldsNothing
  <1>2. /\ EnterBlock(t, "slot") /\ slotFile = NoThread /\ slotFile' = t
        /\ UNCHANGED <<mutationVars, slotLock, semaphore>>
    BY DEF EnterSlot, SlotFileFree
  <1>3. /\ call' = call /\ blocks' \in [Threads -> Seq(Blocks)] /\ phase' \in [Threads -> Phases]
        /\ blocks'[t] = Append(s, "slot") /\ phase'[t] = "run"
        /\ \A u \in Threads \ {t} : blocks'[u] = blocks[u] /\ phase'[u] = phase[u]
    BY <1>2, Enters DEF Blocks
  <1>4. /\ \A c : Has(blocks'[t], c) <=> Has(s, c) \/ "slot" = c
        /\ Depth(blocks'[t]) = Depth(s)
    BY <1>1, <1>3, AppendHas, AppendDepth DEF Blocks
  <1>5. ~Has(s, "slot") /\ WellNested(blocks'[t])
    <2>1. ~Has(s, "slot")
      BY <1>1 DEF ThreadInv, SlotMatches
    <2> QED BY <1>1, <1>3, <2>1, AppendNests DEF ThreadInv, Blocks
  <1>6. LocksTypes'
    BY <1>2, <1>3 DEF LocksInv, LocksTypes, mutationVars
  <1>7. Frame(t)
    BY <1>2, <1>3, LocksAssumption DEF Frame, mutationVars
  <1>8. ThreadInv(t)'
    <2>1. MutationMatches(t)' /\ RequestMatches(t)'
      BY <1>1, <1>2, <1>3, <1>4, MutationUntouched, RequestUntouched DEF ThreadInv
    <2>2. SlotMatches(t)'
      BY <1>1, <1>2, <1>3, <1>4, <1>5 DEF ThreadInv, SlotMatches
    <2>3. OutsideHoldsNothing(t)'
      BY <1>1, <1>3 DEF OutsideHoldsNothing, InCall
    <2> QED BY <1>5, <2>1, <2>2, <2>3 DEF ThreadInv
  <1> QED BY <1>6, <1>7, <1>8, FrameSuffices

LEMMA InvLeaveSlot ==
    ASSUME LocksInv, NEW t \in Threads, LeaveSlot(t)
    PROVE  LocksInv'
  <1> DEFINE p == ProcessOf[t]
             s == blocks[t]
  <1>1. /\ ThreadInv(t) /\ p \in Processes /\ t # NoThread /\ s \in Seq(Blocks)
    BY Myself
  <1>2. /\ Closing(t, "slot") /\ CloseBlock(t) /\ slotFile' = NoThread
        /\ slotLock' = [slotLock EXCEPT ![p] = NoThread]
        /\ UNCHANGED <<mutationVars, semaphore>>
    BY DEF LeaveSlot, GiveBackSlotLock
  <1>3. /\ call' = call /\ phase' = phase /\ blocks' \in [Threads -> Seq(Blocks)]
        /\ s # << >> /\ s[Len(s)] = "slot" /\ blocks'[t] = Popped(s)
        /\ phase[t] \in {"run", "unwind"} /\ InCall(t)
        /\ \A u \in Threads \ {t} : blocks'[u] = blocks[u]
    BY <1>2, Closes DEF Blocks
  <1>4. /\ WellNested(Popped(s)) /\ Has(s, "slot") /\ ~Has(Popped(s), "slot")
        /\ \A c : c # "slot" => (Has(Popped(s), c) <=> Has(s, c))
        /\ Depth(Popped(s)) = Depth(s)
    BY <1>1, <1>3, PopHas, PopDepth DEF ThreadInv
  <1>5. slotFile = t /\ slotLock[p] = t
    BY <1>1, <1>4 DEF ThreadInv, SlotMatches
  <1>6. /\ slotLock' \in [Processes -> Threads \cup {NoThread}] /\ slotLock'[p] = NoThread
        /\ \A q \in Processes : q # p => slotLock'[q] = slotLock[q]
    BY <1>1, <1>2 DEF LocksInv, LocksTypes
  <1>7. LocksTypes'
    BY <1>2, <1>3, <1>6 DEF LocksInv, LocksTypes, mutationVars
  <1>8. Frame(t)
    <2>1. \A u \in Threads \ {t} : slotLock'[p] # u /\ slotLock[p] # u /\ slotFile' # u /\ slotFile # u
      BY <1>2, <1>5, <1>6, LocksAssumption
    <2> QED BY <1>2, <1>3, <1>6, <2>1 DEF Frame, mutationVars
  <1>9. ThreadInv(t)'
    <2>1. MutationMatches(t)' /\ RequestMatches(t)'
      BY <1>1, <1>2, <1>3, <1>4, MutationUntouched, RequestUntouched DEF ThreadInv
    <2>2. SlotMatches(t)'
      BY <1>1, <1>2, <1>3, <1>4, <1>6 DEF ThreadInv, SlotMatches
    <2>3. OutsideHoldsNothing(t)'
      BY <1>3 DEF OutsideHoldsNothing, InCall
    <2> QED BY <1>3, <1>4, <2>1, <2>2, <2>3 DEF ThreadInv
  <1> QED BY <1>7, <1>8, <1>9, FrameSuffices

-----------------------------------------------------------------------------
(* The request semaphore, and steps that take and give no lock.            *)

LEMMA InvRequest ==
    ASSUME LocksInv, NEW t \in Threads, EnterRequest(t) \/ LeaveRequest(t)
    PROVE  LocksInv'
  <1> DEFINE p == ProcessOf[t]
             s == blocks[t]
  <1>1. /\ ThreadInv(t) /\ p \in Processes /\ t # NoThread /\ s \in Seq(Blocks)
    BY Myself
  <1>2. PICK new \in {t, NoThread} :
            /\ semaphore' = [semaphore EXCEPT ![p] = new] /\ UNCHANGED <<mutationVars, slotVars>>
            /\ \/ /\ new = t /\ Asks(t, "request") /\ semaphore[p] = NoThread
                  /\ EnterBlock(t, "request")
               \/ new = NoThread /\ Closing(t, "request") /\ CloseBlock(t)
    BY DEF EnterRequest, LeaveRequest
  <1>3. /\ semaphore' \in [Processes -> Threads \cup {NoThread}] /\ semaphore'[p] = new
        /\ \A q \in Processes : q # p => semaphore'[q] = semaphore[q]
    BY <1>1, <1>2 DEF LocksInv, LocksTypes
  <1>4. /\ call' = call /\ phase' \in [Threads -> Phases] /\ blocks' \in [Threads -> Seq(Blocks)]
        /\ InCall(t) /\ phase[t] \in {"run", "unwind"} /\ phase'[t] \in {"run", "unwind"}
        /\ \A u \in Threads \ {t} : blocks'[u] = blocks[u] /\ phase'[u] = phase[u]
        /\ \/ new = t /\ blocks'[t] = Append(s, "request")
           \/ /\ new = NoThread /\ blocks'[t] = Popped(s)
              /\ s # << >> /\ s[Len(s)] = "request"
    <2>1. CASE new = t
      BY <1>1, <1>2, <2>1, Enters DEF Asks, Blocks
    <2>2. CASE new = NoThread
      BY <1>1, <1>2, <2>2, Closes DEF Blocks, LocksInv, LocksTypes
    <2> QED BY <2>1, <2>2
  <1>5. ~Has(s, "request") <=> new = t
    <2>1. CASE new = t
      BY <1>1, <1>2, <2>1 DEF ThreadInv, RequestMatches
    <2>2. CASE new = NoThread
      BY <1>1, <1>4, <2>2, PopHas DEF ThreadInv
    <2> QED BY <1>1, <2>1, <2>2
  <1>6. /\ WellNested(blocks'[t]) /\ Depth(blocks'[t]) = Depth(s)
        /\ \A c : c # "request" => (Has(blocks'[t], c) <=> Has(s, c))
        /\ Has(blocks'[t], "request") <=> new = t
    <2>1. CASE new = t
      <3>1. blocks'[t] = Append(s, "request") /\ "request" \in Blocks /\ ~Has(s, "request")
        BY <1>1, <1>4, <1>5, <2>1 DEF Blocks
      <3>2. WellNested(blocks'[t])
        BY <1>1, <3>1, AppendNests DEF ThreadInv
      <3>3. Depth(blocks'[t]) = Depth(s)
        BY <1>1, <3>1, AppendDepth
      <3>4. \A c : Has(blocks'[t], c) <=> Has(s, c) \/ "request" = c
        BY <1>1, <3>1, AppendHas
      <3> QED BY <2>1, <3>2, <3>3, <3>4
    <2>2. CASE new = NoThread
      BY <1>1, <1>4, <2>2, PopHas, PopDepth DEF ThreadInv
    <2> QED BY <2>1, <2>2
  <1>7. LocksTypes'
    BY <1>2, <1>3, <1>4 DEF LocksInv, LocksTypes, mutationVars, slotVars
  <1>8. Frame(t)
    <2>1. semaphore[p] \in {t, NoThread}
      BY <1>1, <1>2, <1>5 DEF ThreadInv, RequestMatches
    <2>2. \A u \in Threads \ {t} : semaphore'[p] # u /\ semaphore[p] # u
      BY <1>3, <2>1, LocksAssumption
    <2> QED BY <1>2, <1>3, <1>4, <2>2 DEF Frame, mutationVars, slotVars
  <1>9. ThreadInv(t)'
    <2>1. MutationMatches(t)' /\ SlotMatches(t)'
      BY <1>1, <1>2, <1>4, <1>6, MutationUntouched, SlotUntouched DEF ThreadInv
    <2>2. RequestMatches(t)'
      BY <1>1, <1>3, <1>6 DEF ThreadInv, RequestMatches
    <2>3. OutsideHoldsNothing(t)'
      BY <1>4 DEF OutsideHoldsNothing, InCall
    <2> QED BY <1>6, <2>1, <2>2, <2>3 DEF ThreadInv
  <1> QED BY <1>7, <1>8, <1>9, FrameSuffices

LEMMA InvMoves ==
    ASSUME LocksInv, NEW t \in Threads, Call(t) \/ RefuseRequest(t) \/ Unwind(t) \/ Return(t)
    PROVE  LocksInv'
  <1>1. ThreadInv(t)
    BY Myself
  <1>2. UNCHANGED <<blocks, mutationVars, slotVars, semaphore>>
    BY DEF Call, RefuseRequest, Unwind, Return, MoveTo
  <1>3. /\ phase[t] \in {"run", "unwind"} /\ phase'[t] \in {"run", "unwind"}
        /\ phase' \in [Threads -> Phases] /\ call' \in [Threads -> EntryPoints \cup {NoCall}]
        /\ \A u \in Threads \ {t} : phase'[u] = phase[u] /\ call'[u] = call[u]
    <2>1. CASE Call(t)
      <3>1. phase[t] = "run" /\ phase' = phase
        BY <1>1, <2>1 DEF Call, ThreadInv, OutsideHoldsNothing, InCall
      <3>2. PICK c \in Serves[t] : call' = [call EXCEPT ![t] = c]
        BY <2>1 DEF Call
      <3>3. c \in EntryPoints
        BY <3>2, ServesAssumption
      <3> QED BY <3>1, <3>2, <3>3 DEF LocksInv, LocksTypes
    <2>2. CASE RefuseRequest(t) \/ Unwind(t)
      BY <2>2, MovesTo DEF RefuseRequest, Unwind, Asks, Phases, LocksInv, LocksTypes
    <2>3. CASE Return(t)
      BY <2>3 DEF Return, LocksInv, LocksTypes, Phases
    <2> QED BY <2>1, <2>2, <2>3
  <1>4. OutsideHoldsNothing(t)'
    <2>1. CASE Call(t)
      BY <1>1, <2>1 DEF Call, ThreadInv, OutsideHoldsNothing, InCall
    <2>2. CASE RefuseRequest(t) \/ Unwind(t)
      BY <2>2 DEF RefuseRequest, Unwind, Asks, MoveTo, OutsideHoldsNothing, InCall
    <2>3. CASE Return(t)
      BY <2>3 DEF Return, OutsideHoldsNothing, InCall, LocksInv, LocksTypes
    <2> QED BY <2>1, <2>2, <2>3
  <1>5. LocksTypes'
    BY <1>2, <1>3 DEF LocksInv, LocksTypes, mutationVars, slotVars
  <1>6. Frame(t)
    BY <1>2, <1>3 DEF Frame, mutationVars, slotVars
  <1>7. MutationMatches(t)' /\ SlotMatches(t)' /\ RequestMatches(t)'
    BY <1>1, <1>2, <1>3, MutationUntouched, SlotUntouched, RequestUntouched DEF ThreadInv
  <1>8. ThreadInv(t)'
    BY <1>1, <1>2, <1>4, <1>7 DEF ThreadInv
  <1> QED BY <1>5, <1>6, <1>8, FrameSuffices

-----------------------------------------------------------------------------
(* A process dies: its threads start over, the other processes see nothing *)
(* but its locks free.                                                     *)

LEMMA InvKill ==
    ASSUME LocksInv, NEW p \in Processes, Kill(p)
    PROVE  LocksInv'
  <1> DEFINE dead == {t \in Threads : ProcessOf[t] = p}
  <1>1. /\ call' = [t \in Threads |-> IF t \in dead THEN NoCall ELSE call[t]]
        /\ blocks' = [t \in Threads |-> IF t \in dead THEN << >> ELSE blocks[t]]
        /\ phase' = [t \in Threads |-> IF t \in dead THEN "run" ELSE phase[t]]
        /\ owned' = [t \in Threads |-> t \notin dead /\ owned[t]]
        /\ mutationFile' = (IF mutationFile \in dead THEN NoThread ELSE mutationFile)
        /\ slotFile' = (IF slotFile \in dead THEN NoThread ELSE slotFile)
    BY DEF Kill
  <1>2. /\ rlock' \in [Processes -> [owner : Threads \cup {NoThread}, count : Nat]]
        /\ rlock'[p] = FreeRLock /\ \A q \in Processes : q # p => rlock'[q] = rlock[q]
    <2>1. FreeRLock \in [owner : Threads \cup {NoThread}, count : Nat]
      BY DEF FreeRLock
    <2> QED BY <2>1 DEF Kill, LocksInv, LocksTypes
  <1>3. /\ slotLock' \in [Processes -> Threads \cup {NoThread}]
        /\ slotLock'[p] = NoThread /\ \A q \in Processes : q # p => slotLock'[q] = slotLock[q]
        /\ semaphore' \in [Processes -> Threads \cup {NoThread}]
        /\ semaphore'[p] = NoThread /\ \A q \in Processes : q # p => semaphore'[q] = semaphore[q]
    BY DEF Kill, LocksInv, LocksTypes
  <1>4. NoThread \notin dead /\ NoThread \notin Threads
    BY LocksAssumption
  <1>5. LocksTypes'
    <2>1. call' \in [Threads -> EntryPoints \cup {NoCall}] /\ phase' \in [Threads -> Phases]
      BY <1>1 DEF LocksInv, LocksTypes, Phases
    <2>2. blocks' \in [Threads -> Seq(Blocks)]
      <3>1. \A t \in Threads : (IF t \in dead THEN << >> ELSE blocks[t]) \in Seq(Blocks)
        BY NoBlocks DEF LocksInv, LocksTypes
      <3> QED BY <1>1, <3>1
    <2>3. /\ owned' \in [Threads -> BOOLEAN]
          /\ mutationFile' \in Threads \cup {NoThread} /\ slotFile' \in Threads \cup {NoThread}
      BY <1>1 DEF LocksInv, LocksTypes
    <2>4. \A q \in Processes : rlock'[q].owner = NoThread => rlock'[q].count = 0
      <3>1. rlock'[p].count = 0
        BY <1>2 DEF FreeRLock
      <3>2. ASSUME NEW q \in Processes, q # p
            PROVE  rlock'[q].owner = NoThread => rlock'[q].count = 0
        BY <1>2, <3>2 DEF LocksInv, LocksTypes
      <3> QED BY <3>1, <3>2
    <2> QED BY <1>2, <1>3, <2>1, <2>2, <2>3, <2>4 DEF LocksTypes
  <1>6. ASSUME NEW t \in Threads PROVE ThreadInv(t)'
    <2>1. ThreadInv(t) /\ ProcessOf[t] \in Processes /\ t # NoThread
      BY Myself
    <2>2. CASE t \in dead
      <3>1. blocks'[t] = << >> /\ phase'[t] = "run" /\ owned'[t] = FALSE
        BY <1>1, <2>2
      <3>2. Held(t)' = 0
        BY <3>1, NoBlocks DEF Held
      <3>3. mutationFile' # t /\ slotFile' # t
        BY <1>1, <2>1, <2>2
      <3>4. ASSUME NEW q \in Processes
            PROVE  rlock'[q].owner # t /\ slotLock'[q] # t /\ semaphore'[q] # t
        <4>1. CASE q = p
          BY <1>2, <1>3, <2>1, <4>1 DEF FreeRLock
        <4>2. CASE q # p
          <5>1. rlock[q].owner # t /\ slotLock[q] # t /\ semaphore[q] # t
            BY <2>1, <2>2, <4>2 DEF ThreadInv, MutationMatches, SlotMatches, RequestMatches
          <5> QED BY <1>2, <1>3, <4>2, <5>1
        <4> QED BY <4>1, <4>2
      <3>5. MutationMatches(t)'
        BY <3>1, <3>2, <3>3, <3>4, NoBlocks DEF MutationMatches
      <3>6. SlotMatches(t)' /\ RequestMatches(t)'
        BY <3>1, <3>3, <3>4, NoBlocks DEF SlotMatches, RequestMatches
      <3> QED BY <3>1, <3>5, <3>6, NoBlocks DEF ThreadInv, OutsideHoldsNothing
    <2>3. CASE t \notin dead
      <3>1. /\ call'[t] = call[t] /\ blocks'[t] = blocks[t]
            /\ phase'[t] = phase[t] /\ owned'[t] = owned[t] /\ ProcessOf[t] # p
        BY <1>1, <2>3 DEF LocksInv, LocksTypes
      <3>2. (mutationFile' = t <=> mutationFile = t) /\ (slotFile' = t <=> slotFile = t)
        BY <1>1, <2>1, <2>3
      <3>3. rlock[p].owner # t /\ slotLock[p] # t /\ semaphore[p] # t
        BY <2>1, <3>1 DEF ThreadInv, MutationMatches, SlotMatches, RequestMatches
      <3>4. rlock'[p].owner # t /\ slotLock'[p] # t /\ semaphore'[p] # t
        BY <1>2, <1>3, <2>1 DEF FreeRLock
      <3>5. Held(t)' = Held(t)
        BY <3>1 DEF Held
      <3>6. MutationMatches(t)'
        <4>1. \A q \in Processes : rlock'[q].owner = t <=> q = ProcessOf[t] /\ Held(t) # 0
          BY <1>2, <2>1, <3>3, <3>4 DEF ThreadInv, MutationMatches
        <4>2. Held(t) # 0 => rlock'[ProcessOf[t]].count = Held(t)
          BY <1>2, <2>1, <3>1 DEF ThreadInv, MutationMatches
        <4> QED BY <2>1, <3>1, <3>2, <3>5, <4>1, <4>2 DEF ThreadInv, MutationMatches
      <3>7. SlotMatches(t)' /\ RequestMatches(t)'
        BY <1>3, <2>1, <3>1, <3>2, <3>3, <3>4 DEF ThreadInv, SlotMatches, RequestMatches
      <3> QED BY <2>1, <3>1, <3>6, <3>7 DEF ThreadInv, OutsideHoldsNothing, InCall
    <2> QED BY <2>2, <2>3
  <1> QED BY <1>5, <1>6 DEF LocksInv

-----------------------------------------------------------------------------
(* Every step, and what the invariant is for.                              *)

LEMMA InvStep == LocksInv /\ [Next]_vars => LocksInv'
  <1> SUFFICES ASSUME LocksInv, [Next]_vars PROVE LocksInv'
    OBVIOUS
  <1>1. ASSUME NEW t \in Threads, Call(t) \/ Unwind(t) PROVE LocksInv'
    BY <1>1, InvMoves
  <1>2. ASSUME NEW t \in Threads, Acquire(t) PROVE LocksInv'
    BY <1>2, InvTakeRLock, InvEnterMutation, InvSlotMoves, InvEnterSlot, InvRequest, InvMoves
       DEF Acquire
  <1>3. ASSUME NEW t \in Threads, Release(t) PROVE LocksInv'
    BY <1>3, InvLeaveMutation, InvLeaveSlot, InvRequest, InvMoves DEF Release
  <1>4. ASSUME NEW p \in Processes, Kill(p) PROVE LocksInv'
    BY <1>4, InvKill
  <1>5. CASE UNCHANGED vars
    <2>1. /\ UNCHANGED <<call, blocks, phase, owned, rlock, mutationFile>>
          /\ UNCHANGED <<slotLock, slotFile, semaphore>>
      BY <1>5 DEF vars, threadVars, mutationVars, slotVars
    <2>2. LocksTypes'
      BY <2>1 DEF LocksInv, LocksTypes
    <2>3. ASSUME NEW t \in Threads PROVE ThreadInv(t)'
      BY <2>1 DEF LocksInv, ThreadInv, OutsideHoldsNothing, InCall, MutationMatches, Held,
         SlotMatches, RequestMatches
    <2> QED BY <2>2, <2>3 DEF LocksInv
  <1> QED BY <1>1, <1>2, <1>3, <1>4, <1>5 DEF Next, Step

\* In every reachable state the with-blocks a thread is inside are exactly the
\* locks it holds: the RLock as often as it has mutation blocks open, the flock
\* once, the slot's Lock and flock together, the request's permit; and a thread
\* between two calls is inside nothing.
THEOREM LocksInvariant == Spec => []LocksInv
  BY InvInit, InvStep, PTL DEF Spec

LEMMA InvExcludes == LocksInv => Exclusion
  <1> SUFFICES ASSUME LocksInv, NEW t \in Threads, NEW u \in Threads, t # u
               PROVE  ~(Writing(t) /\ Writing(u)) /\ ~(Solving(t) /\ Solving(u))
    BY DEF Exclusion
  <1>1. ASSUME NEW v \in Threads
        PROVE  (Writing(v) => mutationFile = v) /\ (Solving(v) => slotFile = v)
    <2>1. ThreadInv(v)
      BY DEF LocksInv
    <2> QED BY <2>1 DEF ThreadInv, MutationMatches, SlotMatches, Writing, Solving, Inside, Has
  <1> QED BY <1>1

LEMMA InvLeaksNothing == LocksInv => NothingLeaked
  <1> SUFFICES ASSUME LocksInv, NEW t \in Threads, ~InCall(t)
               PROVE  /\ mutationFile # t /\ slotFile # t /\ ~owned[t]
                      /\ \A p \in Processes :
                            rlock[p].owner # t /\ slotLock[p] # t /\ semaphore[p] # t
    BY DEF NothingLeaked
  <1>1. ThreadInv(t) /\ blocks[t] = << >> /\ phase[t] = "run"
    BY DEF LocksInv, ThreadInv, OutsideHoldsNothing
  <1>2. Held(t) = 0 /\ \A c : ~Has(blocks[t], c)
    BY <1>1, NoBlocks DEF Held
  <1> QED BY <1>1, <1>2 DEF ThreadInv, MutationMatches, SlotMatches, RequestMatches

\* No two threads are past run_mutation_lock of one database at once, and no two
\* past solver_slot, for any number of threads in any number of processes, with
\* nested blocks, refused acquisitions, exceptions and killed processes.
THEOREM WritersExcludeEachOther == Spec => []Exclusion
  BY LocksInvariant, InvExcludes, PTL

\* A thread that left its call, by return, refusal, exception or the death of its
\* process, holds no lock of the three in any process.
THEOREM NoLockOutlivesItsCall == Spec => []NothingLeaked
  BY LocksInvariant, InvLeaksNothing, PTL

\* The two acquisitions that wait: the RLock of another thread of the process,
\* and the flock, which a thread opens anew when its path is not owned.
Waits(t) ==
    \/ Asks(t, "mutation") /\ rlock[ProcessOf[t]].owner \notin {NoThread, t}
    \/ phase[t] = "rlocked" /\ ~AlreadyOwned(t) /\ ~FileFree

LEMMA InvServesHolder == LocksInv => \A t \in Threads : mutationFile = t => ~Waits(t)
  <1> SUFFICES ASSUME LocksInv, NEW t \in Threads, mutationFile = t
               PROVE  ~Waits(t)
    OBVIOUS
  <1>1. ThreadInv(t) /\ ProcessOf[t] \in Processes /\ Has(blocks[t], "mutation")
    BY Myself DEF ThreadInv, MutationMatches
  <1>2. owned[t]
    BY <1>1 DEF ThreadInv, MutationMatches
  <1>3. rlock[ProcessOf[t]].owner = t
    <2>1. Depth(blocks[t]) \in Nat /\ Depth(blocks[t]) # 0
      BY <1>1, Myself
    <2>2. Held(t) # 0
      BY <2>1 DEF Held
    <2> QED BY <1>1, <2>2 DEF ThreadInv, MutationMatches
  <1> QED BY <1>2, <1>3 DEF Waits, AlreadyOwned

\* The holder of the mutation file is never the one that waits: its own RLock
\* lets it in again and a nested block does not open the file, so no thread
\* waits in a circle through run_mutation_lock.
THEOREM HolderDoesNotWait == Spec => [](\A t \in Threads : mutationFile = t => ~Waits(t))
  BY LocksInvariant, InvServesHolder, PTL
==============================================================================
