---------------------------- MODULE RuntimeProofs ----------------------------
(***************************************************************************)
(* The running program for every heap, and the single mutator runtime.cc   *)
(* starts: the composition keeps to the handshake, gives the collector the *)
(* stopped program and the roots it takes for granted, and does not forget *)
(* the heap limit.                                                         *)
(***************************************************************************)
EXTENDS ManagedRuntime, FiniteSetTheorems, TLAPS

(* What is proved of the two parts by themselves.                          *)
PP == INSTANCE SafepointProofs
HP == INSTANCE MarkSweepProofs WITH held <- Held

(* Two instances of one definition differ in name only: the initial states *)
(* of the protocol, ...                                                    *)
LEMMA SameInit == P!Init <=> PP!Init
  BY DEF P!Init, PP!Init

(* ... the steps of its mutators, ...                                      *)
LEMMA SameMutatorSteps ==
    \A m \in Mutators :
        P!MutatorStep(m) \/ P!ProgramStep(m) <=> PP!MutatorStep(m) \/ PP!ProgramStep(m)
  BY DEF P!MutatorStep, PP!MutatorStep, P!ProgramStep, PP!ProgramStep,
     P!Goto, PP!Goto, P!flags, PP!flags, P!lifecycle, PP!lifecycle,
     P!counts, PP!counts, P!cycle, PP!cycle,
     P!MarkMutatorStarted, PP!MarkMutatorStarted,
     P!InstallStackMapRegistry, PP!InstallStackMapRegistry,
     P!ClearRequestAtStart, PP!ClearRequestAtStart,
     P!ReturnFromInvoke, PP!ReturnFromInvoke,
     P!MarkMutatorStopped, PP!MarkMutatorStopped,
     P!RaiseRequest, PP!RaiseRequest,
     P!RequestByAllocation, PP!RequestByAllocation,
     P!RequestExplicitly, PP!RequestExplicitly,
     P!RepeatRequest, PP!RepeatRequest, P!Notifying, PP!Notifying,
     P!AfterNotify, PP!AfterNotify, P!NotifyGCRequested, PP!NotifyGCRequested,
     P!HandleOwnRequest, PP!HandleOwnRequest, P!Poll, PP!Poll,
     P!RecheckRequest, PP!RecheckRequest, P!CheckRegistry, PP!CheckRegistry,
     P!ScanRoots, PP!ScanRoots, P!ParkAtSafepoint, PP!ParkAtSafepoint,
     P!StayParked, PP!StayParked, P!Resume, PP!Resume

(* ... those of the other threads, ...                                     *)
LEMMA SameOtherSteps ==
    /\ P!Main <=> PP!Main
    /\ P!VMThread <=> PP!VMThread
    /\ P!SpuriousWakeup <=> PP!SpuriousWakeup
    /\ P!Terminated <=> PP!Terminated
    /\ P!vars = PP!vars /\ (P!vars)' = (PP!vars)'
  BY DEF P!Main, PP!Main, P!VMThread, PP!VMThread, P!SpuriousWakeup,
     PP!SpuriousWakeup, P!Terminated, PP!Terminated, P!vars, PP!vars,
     P!flags, PP!flags, P!lifecycle, PP!lifecycle,
     P!counts, PP!counts, P!cycle, PP!cycle, P!MainStep, PP!MainStep,
     P!ConstructRuntimeThreads, PP!ConstructRuntimeThreads,
     P!InstallRuntimeThreads, PP!InstallRuntimeThreads,
     P!SpawnMutators, PP!SpawnMutators, P!JoinMutators, PP!JoinMutators,
     P!ClearRuntimeThreads, PP!ClearRuntimeThreads,
     P!RequestStop, PP!RequestStop, P!JoinVMThread, PP!JoinVMThread,
     P!VMAwake, PP!VMAwake, P!WorldParked, PP!WorldParked,
     P!VMExit, PP!VMExit, P!VMWaitForRequest, PP!VMWaitForRequest,
     P!VMWaitForMutators, PP!VMWaitForMutators,
     P!BeginCollection, PP!BeginCollection,
     P!ClearServedRequest, PP!ClearServedRequest, P!FinishCycle, PP!FinishCycle

(* ... and its invariants.                                                 *)
LEMMA SameInvariants ==
    /\ P!SafepointInv <=> PP!SafepointInv
    /\ P!RootsCoverAllMutators <=> PP!RootsCoverAllMutators
  BY DEF P!SafepointInv, PP!SafepointInv, P!TypeOK, PP!TypeOK,
     P!MutatorStates, PP!MutatorStates, P!PendingStates, PP!PendingStates,
     P!Active, PP!Active, P!Parked, PP!Parked, P!Unparked, PP!Unparked,
     P!Registered, PP!Registered, P!Notifying, PP!Notifying,
     P!Collecting, PP!Collecting, P!CountsAgree, PP!CountsAgree,
     P!MutexHeldToCollect, PP!MutexHeldToCollect,
     P!EpochsPassed, PP!EpochsPassed, P!LifecycleInv, PP!LifecycleInv,
     P!WorldStopped, PP!WorldStopped, P!VMNeverSpins, PP!VMNeverSpins,
     P!NoSwallowedRequest, PP!NoSwallowedRequest,
     P!NoStrandedPark, PP!NoStrandedPark,
     P!RootsOfThisCycle, PP!RootsOfThisCycle,
     P!RootsCoverAllMutators, PP!RootsCoverAllMutators,
     P!Cardinality, PP!Cardinality

(* What SafepointProofs proves, for the protocol in here.                  *)
LEMMA ProtocolInvariants ==
    ASSUME \A m, n \in Mutators : m = n
    PROVE  P!Spec => []P!SafepointInv /\ []P!RootsCoverAllMutators
<1>1. PP!IsFiniteSet(Mutators) /\ VM \notin Mutators /\ MaxEpoch \in Nat
  BY ThreadsAssumption DEF IsFiniteSet, PP!IsFiniteSet
<1>2. PP!Spec => []PP!SafepointInv
  BY <1>1, PP!SafepointInvariant DEF PP!SafepointInvariant
<1>3. PP!Spec => []PP!RootsCoverAllMutators
  BY <1>1, PP!SingleMutatorRoots DEF PP!SingleMutatorRoots
<1>4. [P!Next]_(P!vars) <=> [PP!Next]_(PP!vars)
  BY SameMutatorSteps, SameOtherSteps DEF P!Next, PP!Next
<1>. QED
  BY <1>2, <1>3, <1>4, SameInit, SameInvariants, PTL DEF P!Spec, PP!Spec

-----------------------------------------------------------------------------
(* Every step of the composition is one of the protocol or leaves it alone.*)
LEMMA ProtocolStep == [Next]_vars => [P!Next]_(P!vars)
<1>. SUFFICES ASSUME [Next]_vars PROVE P!Next \/ UNCHANGED protocol
  BY DEF protocol, P!vars, P!flags, P!lifecycle, P!counts, P!cycle
<1>1. ASSUME NEW m \in Mutators, ProgramStep(m)
      PROVE  P!ProgramStep(m) \/ UNCHANGED protocol
  BY <1>1 DEF ProgramStep, HeapStep, Allocate, Drop, Load, Store, Request,
     Return, P!ProgramStep
<1>2. ASSUME NEW m \in Mutators, PollPasses(m) PROVE UNCHANGED protocol
  BY <1>2 DEF PollPasses
<1>3. ASSUME NEW m \in Mutators, MutatorStep(m) PROVE P!MutatorStep(m)
  BY <1>3 DEF MutatorStep
<1>4. ASSUME VMThread PROVE P!VMThread \/ UNCHANGED protocol
  BY <1>4 DEF VMThread, Wait, BeginCollection, Collect, EndCycle, P!VMThread
<1>5. ASSUME Surroundings PROVE P!Main \/ P!SpuriousWakeup \/ P!Terminated
  BY <1>5 DEF Surroundings
<1>6. ASSUME UNCHANGED vars PROVE UNCHANGED protocol
  BY <1>6 DEF vars
<1>. QED
  BY <1>1, <1>2, <1>3, <1>4, <1>5, <1>6 DEF Next, P!Next

(* So the handshake keeps its promises whatever the program does.          *)
LEMMA HandshakeKept ==
    ASSUME \A m, n \in Mutators : m = n
    PROVE  Spec => []P!SafepointInv /\ []P!RootsCoverAllMutators
<1>1. Init => P!Init
  BY DEF Init
<1>. QED
  BY <1>1, ProtocolStep, ProtocolInvariants, PTL DEF Spec, P!Spec

-----------------------------------------------------------------------------
(* A mutator that is started and not parked keeps the collector out.       *)
LEMMA NotWhileRunning ==
    ASSUME P!SafepointInv, CollectsInCycle, NEW m \in Mutators,
           pc[m] \notin {"new", "ready", "done", "parked"}
    PROVE  phase = "mutate" /\ vmPc \notin {"collect", "finish"}
  BY DEF P!SafepointInv, P!WorldStopped, P!Collecting, P!Unparked, P!Active,
     P!Parked, CollectsInCycle

(* The number of allocations is within what the heap can hold.             *)
LEMMA LiveCount ==
    ASSUME NEW S \in SUBSET Objects
    PROVE  IsFiniteSet(S) /\ Cardinality(S) \in 0 .. Cardinality(Objects)
<1>1. IsFiniteSet(S) /\ Cardinality(S) <= Cardinality(Objects)
  BY HeapAssumption, FS_Subset
<1>2. Cardinality(S) \in Nat /\ Cardinality(Objects) \in Nat
  BY <1>1, HeapAssumption, FS_CardinalityType
<1>. QED
  BY <1>1, <1>2

(* An empty heap and a thread that was not started satisfy the invariant.  *)
LEMMA RuntimeInit == Init => RuntimeInv
<1>. SUFFICES ASSUME Init PROVE RuntimeInv
  OBVIOUS
<1>1. Cardinality({}) = 0 /\ Cardinality(Objects) \in Nat
  BY LiveCount, FS_EmptySet, FS_CardinalityType, HeapAssumption
<1>2. P!TypeOK
  <2>1. P!Cardinality(Mutators) \in Nat
    BY ThreadsAssumption, FS_CardinalityType DEF P!Cardinality, Cardinality
  <2>2. pc \in [Mutators -> P!MutatorStates] /\ cycleEpoch \in [Mutators -> Nat]
    BY DEF Init, P!Init, P!MutatorStates
  <2>3. /\ asleep \subseteq Mutators \cup {VM} /\ pendingRoots \subseteq Mutators
        /\ activeMutatorCount \in 0 .. P!Cardinality(Mutators)
        /\ parkedMutatorCount \in 0 .. P!Cardinality(Mutators)
    BY <2>1 DEF Init, P!Init
  <2>4. /\ gcRequested \in BOOLEAN /\ stackMapRegistry \in BOOLEAN
        /\ stopRequested \in BOOLEAN /\ gcPending \in BOOLEAN
        /\ fatal \in BOOLEAN /\ gcCycleEpoch \in Nat
    BY DEF Init, P!Init
  <2>. QED
    BY <2>2, <2>3, <2>4 DEF Init, P!Init, P!TypeOK
<1>3. H!TypeOK
  BY DEF Init, H!Init, H!TypeOK, H!Word
<1>4. TypeOK
  BY <1>1, <1>2, <1>3 DEF Init, TypeOK
<1>. QED
  BY <1>1, <1>4, HeapLimitAssumption DEF Init, P!Init, H!Init, RuntimeInv,
     LimitHonoured, CollectsInCycle, InvokedInRegistry, SummaryOfFrames,
     UsageWithinHeap, OverduePursued, Overdue, Running

(* The program's use of the heap. Only an allocation counts, and one that  *)
(* reaches the limit leaves with the request up and its poll ahead.        *)
LEMMA RuntimeHeapStep ==
    ASSUME RuntimeInv, P!SafepointInv, P!TypeOK', NEW m \in Mutators, HeapStep(m),
           \A n \in Mutators : n = m
    PROVE  RuntimeInv'
<1>1. PICK o \in Objects :
         \/ Allocate(m, o) \/ Drop(m, o)
         \/ \E s \in Slots : Load(m, o, s) \/ \E v \in H!Word : Store(m, o, s, v)
  BY DEF HeapStep
<1>2. /\ Running(m) /\ UNCHANGED <<collector, rootValues, survivedBytes>>
      /\ frames' \in [Mutators -> SUBSET Objects]
  <2>1. ASSUME NEW s \in Slots, Load(m, o, s) PROVE words[o][s] \in Objects
    BY <2>1 DEF Load, RuntimeInv, TypeOK, H!TypeOK, H!Word
  <2>2. /\ Running(m) /\ UNCHANGED <<collector, rootValues, survivedBytes>>
        /\ \E v \in SUBSET Objects : frames' = [frames EXCEPT ![m] = v] \/ frames' = frames
    <3>1. CASE Allocate(m, o) \/ Drop(m, o)
      BY <3>1 DEF Allocate, Drop, usage, RuntimeInv, TypeOK
    <3>2. CASE \E s \in Slots : Load(m, o, s)
      BY <3>2, <2>1 DEF Load, usage, RuntimeInv, TypeOK
    <3>3. CASE \E s \in Slots, v \in H!Word : Store(m, o, s, v)
      BY <3>3 DEF Store, usage
    <3>. QED
      BY <1>1, <3>1, <3>2, <3>3
  <2>. QED
    BY <2>2 DEF RuntimeInv, TypeOK
<1>3. pc[m] = "run" /\ phase = "mutate" /\ vmPc \notin {"collect", "finish"}
  BY <1>2, NotWhileRunning DEF Running, RuntimeInv
<1>4. m \notin pendingRoots
  BY <1>3 DEF P!SafepointInv, P!RootsOfThisCycle, P!Parked
<1>5. CASE Allocate(m, o)
  <2>. USE <1>5 DEF Allocate
  <2>1. /\ stackMapRegistry' = stackMapRegistry /\ pendingRoots' = pendingRoots
        /\ vmPc' = vmPc /\ cycleEpoch' = cycleEpoch /\ gcCycleEpoch' = gcCycleEpoch
        /\ pc'[m] \in {"run", "notifyAllocation"}
        /\ heapBytes' >= HeapLimit => gcRequested'
    BY <1>3 DEF protocol, P!RequestByAllocation, P!RaiseRequest, P!Goto, P!flags,
       P!lifecycle, P!counts, P!cycle, P!SafepointInv, P!TypeOK, LimitReached
  <2>2. Cardinality(live') = Cardinality(live) + 1
    BY LiveCount, FS_AddElement DEF RuntimeInv, TypeOK, H!TypeOK
  <2>3. live' \in SUBSET Objects
    BY DEF RuntimeInv, TypeOK, H!TypeOK
  <2>4. heapBytes' <= Cardinality(live') /\ heapBytes' \in 0 .. Cardinality(Objects)
    BY <1>3, <2>2, <2>3, LiveCount DEF RuntimeInv, TypeOK, UsageWithinHeap
  <2>5. H!TypeOK'
    <3>1. PICK content \in [Slots -> H!Word] : words' = [words EXCEPT ![o] = content]
      OBVIOUS
    <3>2. words' \in [Objects -> [Slots -> H!Word]]
      BY <3>1 DEF RuntimeInv, TypeOK, H!TypeOK
    <3>3. Held' \subseteq Objects
      BY <1>2 DEF Held
    <3>. QED
      BY <1>2, <2>3, <3>2, <3>3 DEF RuntimeInv, TypeOK, H!TypeOK, collector, H!Word
  <2>6. TypeOK'
    BY <1>2, <2>4, <2>5 DEF RuntimeInv, TypeOK
  <2>7. InvokedInRegistry'
    BY <1>3, <2>1 DEF RuntimeInv, InvokedInRegistry
  <2>8. SummaryOfFrames'
    BY <1>2, <1>4, <2>1 DEF RuntimeInv, SummaryOfFrames
  <2>9. CollectsInCycle' /\ UsageWithinHeap' /\ LimitHonoured'
    BY <1>2, <1>3, <2>1, <2>4 DEF CollectsInCycle, UsageWithinHeap, collector,
       LimitHonoured, Running
  <2>10. OverduePursued'
    BY <1>3, <2>1 DEF OverduePursued, Overdue
  <2>. QED
    BY <2>6, <2>7, <2>8, <2>9, <2>10 DEF RuntimeInv
<1>6. CASE ~Allocate(m, o)
  <2>1. UNCHANGED <<protocol, live, mustPoll, heapBytes>>
    BY <1>1, <1>6 DEF Drop, Load, Store, heap, usage
  <2>2. \A n \in pendingRoots : frames'[n] = frames[n]
    BY <1>4 DEF P!SafepointInv, P!TypeOK
  <2>3. H!TypeOK'
    <3>1. words' \in [Objects -> [Slots -> H!Word]] /\ written' \subseteq Objects \X Slots
      <4>1. CASE \E s \in Slots, v \in H!Word : Store(m, o, s, v)
        <5>1. PICK s \in Slots, v \in H!Word : Store(m, o, s, v)
          BY <4>1
        <5>2. words' = [words EXCEPT ![o] = [words[o] EXCEPT ![s] = v]]
          BY <5>1 DEF Store, RuntimeInv, TypeOK, H!TypeOK
        <5>3. [words[o] EXCEPT ![s] = v] \in [Slots -> H!Word]
          BY DEF RuntimeInv, TypeOK, H!TypeOK
        <5>4. written' \subseteq Objects \X Slots
          BY <5>1 DEF Store, RuntimeInv, TypeOK, H!TypeOK
        <5>. QED
          BY <5>2, <5>3, <5>4 DEF RuntimeInv, TypeOK, H!TypeOK
      <4>2. CASE Drop(m, o) \/ \E s \in Slots : Load(m, o, s)
        BY <4>2 DEF Drop, Load, heap, RuntimeInv, TypeOK, H!TypeOK
      <4>. QED
        BY <1>1, <1>6, <4>1, <4>2
    <3>2. Held' \subseteq Objects
      BY <1>2 DEF Held
    <3>. QED
      BY <1>2, <2>1, <3>1, <3>2 DEF RuntimeInv, TypeOK, H!TypeOK, collector, H!Word
  <2>4. TypeOK'
    BY <1>2, <2>1, <2>3 DEF RuntimeInv, TypeOK
  <2>5. SummaryOfFrames'
    <3>1. {frames'[n] : n \in pendingRoots} = {frames[n] : n \in pendingRoots}
      BY <2>2
    <3>. QED
      BY <1>2, <2>1, <3>1 DEF RuntimeInv, SummaryOfFrames, protocol
  <2>6. InvokedInRegistry'
    BY <1>3, <2>1 DEF RuntimeInv, InvokedInRegistry, protocol
  <2>7. (LimitHonoured /\ CollectsInCycle /\ UsageWithinHeap /\ OverduePursued)'
    BY <1>2, <2>1 DEF RuntimeInv, LimitHonoured, Running, CollectsInCycle,
       UsageWithinHeap, OverduePursued, Overdue, protocol, collector
  <2>. QED
    BY <2>4, <2>5, <2>6, <2>7 DEF RuntimeInv
<1>. QED
  BY <1>5, <1>6

(* The program's calls, and a poll that finds the flag down: what is past  *)
(* a poll is not overdue, and a poll that is due finds the flag up.        *)
LEMMA RuntimeCalls ==
    ASSUME RuntimeInv, P!SafepointInv, P!TypeOK', NEW m \in Mutators,
           Request(m) \/ Return(m) \/ PollPasses(m),
           \A n \in Mutators : n = m
    PROVE  RuntimeInv'
<1>1. pc[m] = "run" /\ ~fatal /\ phase = "mutate" /\ vmPc \notin {"collect", "finish"}
  <2>1. pc[m] = "run" /\ ~fatal
    BY DEF Request, Return, PollPasses, Running
  <2>. QED
    BY <2>1, NotWhileRunning DEF RuntimeInv
<1>2. UNCHANGED <<heap, collector, frames, rootValues, usage, vmPc, pendingRoots>>
  BY DEF Request, Return, PollPasses, protocol, P!RequestExplicitly,
     P!RaiseRequest, P!RepeatRequest, P!ReturnFromInvoke, P!cycle
<1>3. ~Overdue
  <2>1. CASE Running(m)
    BY <2>1 DEF RuntimeInv, LimitHonoured, Overdue
  <2>2. CASE PollPasses(m)
    BY <1>1, <2>2 DEF RuntimeInv, OverduePursued, PollPasses
  <2>. QED
    BY <2>1, <2>2 DEF Request, Return
<1>4. mustPoll' \subseteq Mutators
  BY DEF Request, Return, PollPasses, RuntimeInv, TypeOK
<1>5. TypeOK'
  BY <1>2, <1>4 DEF RuntimeInv, TypeOK, H!TypeOK, Held, heap, collector, usage
<1>6. InvokedInRegistry'
  <2>1. CASE Return(m)
    BY <1>1, <1>2, <2>1 DEF Return, P!ReturnFromInvoke, P!Goto, InvokedInRegistry,
       P!SafepointInv, P!TypeOK
  <2>2. CASE Request(m) \/ PollPasses(m)
    BY <1>1, <1>2, <2>2 DEF Request, PollPasses, P!RequestExplicitly,
       P!RaiseRequest, P!RepeatRequest, P!Goto, P!flags, protocol, RuntimeInv,
       InvokedInRegistry, P!SafepointInv, P!TypeOK
  <2>. QED
    BY <2>1, <2>2
<1>7. (SummaryOfFrames /\ CollectsInCycle /\ UsageWithinHeap)'
  BY <1>1, <1>2 DEF RuntimeInv, SummaryOfFrames, CollectsInCycle,
     UsageWithinHeap, heap, collector, usage
<1>8. (LimitHonoured /\ OverduePursued)'
  BY <1>2, <1>3 DEF LimitHonoured, OverduePursued, Overdue, usage
<1>. QED
  BY <1>5, <1>6, <1>7, <1>8 DEF RuntimeInv

(* The steps of a started thread. What is overdue goes from its poll to    *)
(* the wait at the safepoint, and does not leave it before the cycle ends. *)
LEMMA RuntimeMutatorStep ==
    ASSUME RuntimeInv, P!SafepointInv, P!TypeOK', NEW m \in Mutators, MutatorStep(m),
           \A n \in Mutators : n = m
    PROVE  RuntimeInv'
<1>. USE DEF P!Goto, P!flags, P!cycle
<1>1. P!MutatorStep(m) /\ UNCHANGED <<heap, collector, frames, vmPc, gcCycleEpoch>>
  BY DEF MutatorStep, P!MutatorStep, P!MarkMutatorStarted,
     P!InstallStackMapRegistry, P!ClearRequestAtStart, P!MarkMutatorStopped,
     P!NotifyGCRequested, P!HandleOwnRequest, P!Poll, P!RecheckRequest,
     P!CheckRegistry, P!ScanRoots, P!ParkAtSafepoint, P!StayParked, P!Resume
<1>2. /\ P!Poll(m) => pc[m] = "run"
      /\ P!ParkAtSafepoint(m) => pc[m] = "park"
      /\ P!MarkMutatorStopped(m) => pc[m] = "stop"
      /\ P!ClearRequestAtStart(m) => pc[m] = "clear"
  BY DEF P!Poll, P!ParkAtSafepoint, P!MarkMutatorStopped, P!ClearRequestAtStart
<1>3. pc \in [Mutators -> P!MutatorStates] /\ cycleEpoch \in [Mutators -> Nat]
  BY DEF P!SafepointInv, P!TypeOK
<1>4. /\ frames[m] \subseteq Objects /\ mustPoll \subseteq Mutators
      /\ heapBytes \in Nat /\ survivedBytes \in Nat /\ HeapLimit \in Nat \ {0}
      /\ rootValues \subseteq Objects /\ pendingRoots \subseteq Mutators
  <2>1. Cardinality(Objects) \in Nat
    BY FS_CardinalityType, HeapAssumption
  <2>. QED
    BY <2>1, HeapLimitAssumption DEF RuntimeInv, TypeOK, P!SafepointInv, P!TypeOK
<1>5. (InvokedInRegistry /\ LimitHonoured /\ OverduePursued)'
  <2>1. CASE P!MarkMutatorStarted(m)
    <3>1. /\ pc[m] = "ready" /\ pc'[m] = "install"
          /\ stackMapRegistry' = stackMapRegistry
          /\ gcRequested' = gcRequested
          /\ mustPoll' = mustPoll
          /\ UNCHANGED usage
      BY <1>2, <1>3, <2>1 DEF P!MarkMutatorStarted, MutatorStep
    <3>. QED
      BY <1>1, <1>4, <3>1 DEF RuntimeInv, InvokedInRegistry, OverduePursued, Overdue,
         LimitHonoured, Running, usage, collector
  <2>2. CASE P!InstallStackMapRegistry(m)
    <3>1. /\ pc[m] = "install" /\ pc'[m] = "clear" /\ stackMapRegistry'
          /\ gcRequested' = gcRequested
          /\ mustPoll' = mustPoll
          /\ UNCHANGED usage
      BY <1>2, <1>3, <2>2 DEF P!InstallStackMapRegistry, MutatorStep
    <3>. QED
      BY <1>1, <1>4, <3>1 DEF RuntimeInv, InvokedInRegistry, OverduePursued, Overdue,
         LimitHonoured, Running, usage, collector
  <2>3. CASE P!ClearRequestAtStart(m)
    <3>1. /\ pc[m] = "clear" /\ pc'[m] = "run"
          /\ stackMapRegistry' = stackMapRegistry
          /\ mustPoll' = mustPoll
          /\ heapBytes' = 0 /\ survivedBytes' = 0
      BY <1>2, <1>3, <2>3 DEF P!ClearRequestAtStart, MutatorStep
    <3>. QED
      BY <1>1, <1>4, <3>1 DEF RuntimeInv, InvokedInRegistry, OverduePursued, Overdue,
         LimitHonoured, Running, usage, collector
  <2>4. CASE P!MarkMutatorStopped(m)
    <3>1. /\ pc[m] = "stop" /\ pc'[m] = "done"
          /\ stackMapRegistry' = stackMapRegistry
          /\ gcRequested' = gcRequested
          /\ mustPoll' = mustPoll
          /\ UNCHANGED usage
      BY <1>2, <1>3, <2>4 DEF P!MarkMutatorStopped, MutatorStep
    <3>. QED
      BY <1>1, <1>4, <3>1 DEF RuntimeInv, InvokedInRegistry, OverduePursued, Overdue,
         LimitHonoured, Running, usage, collector
  <2>5. CASE P!NotifyGCRequested(m)
    <3>1. /\ \/ pc[m] = "notifyAllocation" /\ pc'[m] = "run"
             \/ pc[m] = "notifyExplicit" /\ pc'[m] = "explicit"
          /\ stackMapRegistry' = stackMapRegistry
          /\ gcRequested' = gcRequested
          /\ mustPoll' = mustPoll
          /\ UNCHANGED usage
      BY <1>2, <1>3, <2>5 DEF P!NotifyGCRequested, MutatorStep, P!Notifying, P!AfterNotify
    <3>. QED
      BY <1>1, <1>4, <3>1 DEF RuntimeInv, InvokedInRegistry, OverduePursued, Overdue,
         LimitHonoured, Running, usage, collector
  <2>6. CASE P!HandleOwnRequest(m)
    <3>1. /\ pc[m] = "explicit" /\ pc'[m] \in {"handle", "run"}
          /\ stackMapRegistry' = stackMapRegistry
          /\ gcRequested' = gcRequested
          /\ mustPoll' = mustPoll
          /\ UNCHANGED usage
      BY <1>2, <1>3, <2>6 DEF P!HandleOwnRequest, MutatorStep
    <3>. QED
      BY <1>1, <1>4, <3>1 DEF RuntimeInv, InvokedInRegistry, OverduePursued, Overdue,
         LimitHonoured, Running, usage, collector
  <2>7. CASE P!Poll(m)
    <3>1. /\ pc[m] = "run" /\ pc'[m] = "handle" /\ gcRequested
          /\ stackMapRegistry' = stackMapRegistry
          /\ gcRequested' = gcRequested
          /\ mustPoll' = mustPoll \ {m}
          /\ UNCHANGED usage
      BY <1>2, <1>3, <2>7 DEF P!Poll, MutatorStep
    <3>. QED
      BY <1>1, <1>4, <3>1 DEF RuntimeInv, InvokedInRegistry, OverduePursued, Overdue,
         LimitHonoured, Running, usage, collector
  <2>8. CASE P!RecheckRequest(m)
    <3>1. /\ pc[m] = "handle" /\ pc'[m] = IF gcRequested THEN "registry" ELSE "run"
          /\ stackMapRegistry' = stackMapRegistry
          /\ gcRequested' = gcRequested
          /\ mustPoll' = mustPoll
          /\ UNCHANGED usage
      BY <1>2, <1>3, <2>8 DEF P!RecheckRequest, MutatorStep
    <3>. QED
      BY <1>1, <1>4, <3>1 DEF RuntimeInv, InvokedInRegistry, OverduePursued, Overdue,
         LimitHonoured, Running, usage, collector
  <2>9. CASE P!CheckRegistry(m)
    <3>1. /\ pc[m] = "registry" /\ pc'[m] = IF stackMapRegistry THEN "scan" ELSE "run"
          /\ stackMapRegistry' = stackMapRegistry
          /\ mustPoll' = mustPoll
          /\ UNCHANGED usage
      BY <1>2, <1>3, <2>9 DEF P!CheckRegistry, MutatorStep
    <3>. QED
      BY <1>1, <1>4, <3>1 DEF RuntimeInv, InvokedInRegistry, OverduePursued, Overdue,
         LimitHonoured, Running, usage, collector
  <2>10. CASE P!ScanRoots(m)
    <3>1. /\ pc[m] = "scan" /\ pc'[m] = IF stackMapRegistry THEN "park" ELSE "scan"
          /\ stackMapRegistry' = stackMapRegistry
          /\ gcRequested' = gcRequested
          /\ mustPoll' = mustPoll
          /\ UNCHANGED usage
      BY <1>2, <1>3, <2>10 DEF P!ScanRoots, MutatorStep
    <3>. QED
      BY <1>1, <1>4, <3>1 DEF RuntimeInv, InvokedInRegistry, OverduePursued, Overdue,
         LimitHonoured, Running, usage, collector
  <2>11. CASE P!ParkAtSafepoint(m)
    <3>1. /\ pc[m] = "park" /\ pc'[m] = "parked" /\ cycleEpoch'[m] = gcCycleEpoch
          /\ stackMapRegistry' = stackMapRegistry
          /\ gcRequested' = gcRequested
          /\ mustPoll' = mustPoll
          /\ UNCHANGED usage
      BY <1>2, <1>3, <2>11 DEF P!ParkAtSafepoint, MutatorStep
    <3>. QED
      BY <1>1, <1>4, <3>1 DEF RuntimeInv, InvokedInRegistry, OverduePursued, Overdue,
         LimitHonoured, Running, usage, collector
  <2>12. CASE P!StayParked(m)
    <3>1. /\ pc[m] = "parked" /\ pc'[m] = "parked" /\ cycleEpoch' = cycleEpoch
          /\ stackMapRegistry' = stackMapRegistry
          /\ gcRequested' = gcRequested
          /\ mustPoll' = mustPoll
          /\ UNCHANGED usage
      BY <1>2, <1>3, <2>12 DEF P!StayParked, MutatorStep
    <3>. QED
      BY <1>1, <1>4, <3>1 DEF RuntimeInv, InvokedInRegistry, OverduePursued, Overdue,
         LimitHonoured, Running, usage, collector
  <2>13. CASE P!Resume(m)
    <3>1. /\ pc[m] = "parked" /\ pc'[m] = "run" /\ cycleEpoch[m] # gcCycleEpoch
          /\ stackMapRegistry' = stackMapRegistry
          /\ gcRequested' = gcRequested
          /\ mustPoll' = mustPoll
          /\ UNCHANGED usage
      BY <1>2, <1>3, <2>13 DEF P!Resume, MutatorStep
    <3>. QED
      BY <1>1, <1>4, <3>1 DEF RuntimeInv, InvokedInRegistry, OverduePursued, Overdue,
         LimitHonoured, Running, usage, collector
  <2>. QED
    BY <1>1, <2>1, <2>2, <2>3, <2>4, <2>5, <2>6, <2>7, <2>8, <2>9, <2>10, <2>11, <2>12, <2>13 DEF P!MutatorStep
<1>6. SummaryOfFrames'
  <2>1. CASE P!ParkAtSafepoint(m)
    <3>1. rootValues' = rootValues \cup frames[m] /\ pendingRoots' = pendingRoots \cup {m}
      BY <2>1 DEF MutatorStep, P!ParkAtSafepoint
    <3>. QED
      BY <1>1, <3>1 DEF RuntimeInv, SummaryOfFrames
  <2>2. CASE P!MarkMutatorStopped(m)
    BY <1>1, <1>2, <2>2 DEF MutatorStep, P!MarkMutatorStopped, RuntimeInv, SummaryOfFrames
  <2>3. CASE ~P!ParkAtSafepoint(m) /\ ~P!MarkMutatorStopped(m)
    <3>1. UNCHANGED <<rootValues, pendingRoots>>
      BY <1>1, <2>3 DEF MutatorStep, P!MutatorStep, P!MarkMutatorStarted,
         P!InstallStackMapRegistry, P!ClearRequestAtStart, P!NotifyGCRequested,
         P!HandleOwnRequest, P!Poll, P!RecheckRequest, P!CheckRegistry,
         P!ScanRoots, P!StayParked, P!Resume
    <3>. QED
      BY <1>1, <3>1 DEF RuntimeInv, SummaryOfFrames
  <2>. QED
    BY <2>1, <2>2, <2>3
<1>7. /\ rootValues' \subseteq Objects /\ mustPoll' \subseteq Mutators
      /\ (heapBytes' = 0 /\ survivedBytes' = 0) \/ UNCHANGED usage
  BY <1>4 DEF MutatorStep
<1>8. TypeOK'
  <2>1. H!TypeOK'
    BY <1>1 DEF RuntimeInv, TypeOK, H!TypeOK, Held, heap, collector
  <2>2. 0 \in 0 .. Cardinality(Objects)
    BY FS_CardinalityType, HeapAssumption
  <2>. QED
    BY <1>1, <1>7, <2>1, <2>2 DEF RuntimeInv, TypeOK, usage
<1>9. CollectsInCycle' /\ UsageWithinHeap'
  <2>1. Cardinality(live) \in Nat
    BY LiveCount DEF RuntimeInv, TypeOK, H!TypeOK
  <2>. QED
    BY <1>1, <1>7, <2>1 DEF RuntimeInv, CollectsInCycle, UsageWithinHeap, heap,
       collector, usage
<1>. QED
  BY <1>5, <1>6, <1>8, <1>9 DEF RuntimeInv

(* What one step of the collector changes of its own state.                *)
LEMMA CollectorStep ==
    ASSUME H!TypeOK, H!Collector
    PROVE  /\ live' \subseteq live /\ words' = words /\ written' = written /\ Held' = Held
           /\ roots' \subseteq Objects /\ marked' \subseteq Objects
           /\ worklist' \subseteq Objects /\ unswept' \subseteq Objects
           /\ phase # "mutate" /\ phase' \in {"mutate", "roots", "trace", "sweep"}
           /\ phase' = "mutate" => H!EndCollection /\ live' = live
<1>. USE DEF H!program, H!TypeOK
<1>1. CASE H!BeginTrace \/ H!BeginSweep \/ H!EndCollection
  BY <1>1 DEF H!BeginTrace, H!BeginSweep, H!EndCollection
<1>2. CASE \E o \in Objects : H!MarkRoot(o)
  BY <1>2 DEF H!MarkRoot, H!MarkAddresses
<1>3. CASE \E o \in Objects : H!Trace(o)
  BY <1>3 DEF H!Trace, H!MarkAddresses
<1>4. CASE \E o \in Objects : H!Sweep(o)
  BY <1>4 DEF H!Sweep
<1>. QED
  BY <1>1, <1>2, <1>3, <1>4 DEF H!Collector

(* The VM thread. A collection starts with the usage at the limit or below *)
(* and ends with what survived; the cycle ends after it.                   *)
LEMMA RuntimeVMThread ==
    ASSUME RuntimeInv, P!SafepointInv, P!TypeOK', VMThread
    PROVE  RuntimeInv'
<1>1. CASE Wait
  <2>1. /\ vmPc # "collect" /\ vmPc' \notin {"collect", "finish"}
        /\ UNCHANGED <<pc, stackMapRegistry, gcRequested, pendingRoots, cycleEpoch,
                       gcCycleEpoch, fatal, heap, collector, frames, rootValues,
                       mustPoll, usage>>
    BY <1>1 DEF Wait, P!VMExit, P!VMWaitForRequest, P!VMWaitForMutators,
       P!VMAwake, P!flags, P!cycle
  <2>2. TypeOK'
    BY <2>1 DEF RuntimeInv, TypeOK, H!TypeOK, Held, heap, collector, usage
  <2>3. (CollectsInCycle /\ InvokedInRegistry /\ SummaryOfFrames /\ UsageWithinHeap)'
    BY <2>1 DEF RuntimeInv, CollectsInCycle, InvokedInRegistry, SummaryOfFrames,
       UsageWithinHeap, heap, collector, usage
  <2>4. (LimitHonoured /\ OverduePursued)'
    BY <2>1 DEF RuntimeInv, LimitHonoured, Running, OverduePursued, Overdue, usage
  <2>. QED
    BY <2>2, <2>3, <2>4 DEF RuntimeInv
<1>2. CASE BeginCollection
  <2>1. /\ vmPc \notin {"collect", "finish"} /\ vmPc' \in {"collect", "spin"}
        /\ UNCHANGED <<pc, stackMapRegistry, gcRequested, pendingRoots, cycleEpoch,
                       gcCycleEpoch, fatal, heap, marked, worklist, unswept, frames,
                       rootValues, mustPoll, usage>>
        /\ IF vmPc' = "collect" THEN phase' = "roots" /\ roots' = rootValues
                                ELSE phase' = phase /\ roots' = roots
    BY <1>2 DEF BeginCollection, P!BeginCollection, P!VMAwake, P!flags, P!cycle
  <2>2. phase = "mutate"
    BY <2>1 DEF RuntimeInv, CollectsInCycle
  <2>3. TypeOK'
    <3>1. H!TypeOK'
      BY <2>1, <2>2 DEF RuntimeInv, TypeOK, H!TypeOK, Held, heap
    <3>. QED
      BY <2>1, <3>1 DEF RuntimeInv, TypeOK, usage
  <2>4. (CollectsInCycle /\ InvokedInRegistry /\ SummaryOfFrames /\ UsageWithinHeap)'
    BY <2>1, <2>2 DEF RuntimeInv, CollectsInCycle, InvokedInRegistry,
       SummaryOfFrames, UsageWithinHeap, heap, usage
  <2>5. (LimitHonoured /\ OverduePursued)'
    BY <2>1, <2>2 DEF RuntimeInv, LimitHonoured, Running, OverduePursued, Overdue, usage
  <2>. QED
    BY <2>3, <2>4, <2>5 DEF RuntimeInv
<1>3. CASE Collect
  <2>1. /\ vmPc = "collect" /\ H!Collector
        /\ UNCHANGED <<protocol, frames, rootValues, mustPoll>>
        /\ H!EndCollection => heapBytes' = Cardinality(live) /\ survivedBytes' = heapBytes'
        /\ ~H!EndCollection => UNCHANGED usage
    BY <1>3 DEF Collect
  <2>2. /\ H!TypeOK /\ live' \subseteq live /\ words' = words /\ written' = written
        /\ Held' = Held
        /\ roots' \subseteq Objects /\ marked' \subseteq Objects
        /\ worklist' \subseteq Objects /\ unswept' \subseteq Objects
        /\ phase # "mutate" /\ phase' \in {"mutate", "roots", "trace", "sweep"}
        /\ phase' = "mutate" => H!EndCollection /\ live' = live
    BY <2>1, CollectorStep DEF RuntimeInv, TypeOK
  <2>3. Cardinality(live) \in 0 .. Cardinality(Objects)
    BY <2>2, LiveCount DEF H!TypeOK
  <2>4. TypeOK'
    <3>1. H!TypeOK'
      BY <2>2 DEF H!TypeOK, H!Word
    <3>2. heapBytes' \in 0 .. Cardinality(Objects) /\ survivedBytes' \in 0 .. Cardinality(Objects)
      BY <2>1, <2>3 DEF RuntimeInv, TypeOK, usage
    <3>. QED
      BY <2>1, <3>1, <3>2 DEF RuntimeInv, TypeOK, protocol
  <2>5. (CollectsInCycle /\ InvokedInRegistry /\ SummaryOfFrames)'
    BY <2>1, <2>2 DEF RuntimeInv, CollectsInCycle, InvokedInRegistry,
       SummaryOfFrames, protocol
  <2>6. UsageWithinHeap'
    <3>1. phase' = "mutate" => heapBytes' = Cardinality(live')
      BY <2>1, <2>2
    <3>. QED
      BY <2>2, <2>3, <3>1 DEF UsageWithinHeap
  <2>7. (LimitHonoured /\ OverduePursued)'
    <3>1. CASE H!EndCollection
      BY <2>1, <3>1 DEF LimitHonoured, OverduePursued, Overdue
    <3>2. CASE ~H!EndCollection
      BY <2>1, <2>2, <3>2 DEF RuntimeInv, LimitHonoured, Running, OverduePursued,
         Overdue, usage, protocol
    <3>. QED
      BY <3>1, <3>2
  <2>. QED
    BY <2>4, <2>5, <2>6, <2>7 DEF RuntimeInv
<1>4. CASE EndCycle
  <2>1. /\ phase = "mutate" /\ vmPc \in {"collect", "finish"}
        /\ UNCHANGED <<pc, stackMapRegistry, cycleEpoch, fatal, heap, collector,
                       frames, mustPoll, usage>>
        /\ \/ UNCHANGED <<pendingRoots, rootValues>>
           \/ pendingRoots' = {} /\ rootValues' = {}
    BY <1>4 DEF EndCycle, P!ClearServedRequest, P!FinishCycle, P!flags, P!cycle
  <2>2. ~Overdue
    BY <2>1 DEF RuntimeInv, OverduePursued
  <2>3. TypeOK'
    BY <2>1 DEF RuntimeInv, TypeOK, H!TypeOK, Held, heap, collector, usage
  <2>4. (CollectsInCycle /\ InvokedInRegistry /\ SummaryOfFrames /\ UsageWithinHeap)'
    BY <2>1 DEF RuntimeInv, CollectsInCycle, InvokedInRegistry, SummaryOfFrames,
       UsageWithinHeap, heap, collector, usage
  <2>5. (LimitHonoured /\ OverduePursued)'
    BY <2>1, <2>2 DEF LimitHonoured, OverduePursued, Overdue, usage
  <2>. QED
    BY <2>3, <2>4, <2>5 DEF RuntimeInv
<1>. QED
  BY <1>1, <1>2, <1>3, <1>4 DEF VMThread

(* The main thread starts threads that have no frames yet; nothing else    *)
(* around them touches the program's state.                                *)
LEMMA RuntimeSurroundings ==
    ASSUME RuntimeInv, P!SafepointInv, P!TypeOK', Surroundings \/ UNCHANGED vars
    PROVE  RuntimeInv'
<1>1. /\ UNCHANGED <<heap, collector, frames, rootValues, mustPoll, usage>>
      /\ P!Main \/ P!SpuriousWakeup \/ P!Terminated \/ UNCHANGED protocol
  BY DEF Surroundings, vars
<1>2. /\ UNCHANGED <<stackMapRegistry, gcRequested, pendingRoots, cycleEpoch,
                     gcCycleEpoch, fatal>>
      /\ vmPc' = vmPc \/ (vmPc = "none" /\ vmPc' = "outer")
      /\ pc' = pc \/ \A m \in Mutators : pc[m] = "new" /\ pc'[m] = "ready"
  BY <1>1 DEF protocol, P!Main, P!SpuriousWakeup, P!Terminated, P!vars, P!flags,
     P!lifecycle, P!counts, P!cycle, P!MainStep, P!ConstructRuntimeThreads,
     P!InstallRuntimeThreads, P!SpawnMutators, P!JoinMutators,
     P!ClearRuntimeThreads, P!RequestStop, P!JoinVMThread, P!SafepointInv,
     P!LifecycleInv
<1>3. TypeOK'
  BY <1>1 DEF RuntimeInv, TypeOK, H!TypeOK, Held, heap, collector, usage
<1>4. (CollectsInCycle /\ InvokedInRegistry /\ SummaryOfFrames /\ UsageWithinHeap)'
  BY <1>1, <1>2 DEF RuntimeInv, CollectsInCycle, InvokedInRegistry,
     SummaryOfFrames, UsageWithinHeap, heap, collector, usage
<1>5. (LimitHonoured /\ OverduePursued)'
  BY <1>1, <1>2 DEF RuntimeInv, LimitHonoured, Running, OverduePursued, Overdue,
     usage, collector
<1>. QED
  BY <1>3, <1>4, <1>5 DEF RuntimeInv

(* Every step of a single-mutator program preserves the invariant.         *)
LEMMA RuntimeNext ==
    ASSUME \A m, n \in Mutators : m = n
    PROVE  RuntimeInv /\ P!SafepointInv /\ P!SafepointInv' /\ [Next]_vars => RuntimeInv'
<1>. SUFFICES ASSUME RuntimeInv, P!SafepointInv, P!SafepointInv', [Next]_vars
              PROVE  RuntimeInv'
  OBVIOUS
<1>1. P!TypeOK'
  BY DEF P!SafepointInv
<1>2. CASE \E m \in Mutators : ProgramStep(m) \/ PollPasses(m) \/ MutatorStep(m)
  BY <1>1, <1>2, RuntimeHeapStep, RuntimeCalls, RuntimeMutatorStep DEF ProgramStep
<1>. QED
  BY <1>1, <1>2, RuntimeVMThread, RuntimeSurroundings DEF Next

(* RuntimeInv for the one mutator of runtime.cc and any heap and limit: in *)
(* particular LimitHonoured, what recordManagedAllocation and the polls    *)
(* together promise.                                                       *)
THEOREM RuntimeInvariant ==
    ASSUME \A m, n \in Mutators : m = n
    PROVE  Spec => []RuntimeInv
<1>1. Spec => []P!SafepointInv
  BY HandshakeKept, PTL
<1>. QED
  BY <1>1, RuntimeInit, RuntimeNext, PTL DEF Spec

-----------------------------------------------------------------------------
(* The composition implements the collector's view of the program: the     *)
(* mutator uses the heap between collections only, ...                     *)
LEMMA MutatorRefinement ==
    ASSUME RuntimeInv, P!SafepointInv, NEW m \in Mutators, HeapStep(m),
           \A n \in Mutators : n = m
    PROVE  H!Mutator
<1>1. PICK o \in Objects :
         \/ Allocate(m, o) \/ Drop(m, o)
         \/ \E s \in Slots : Load(m, o, s) \/ \E v \in H!Word : Store(m, o, s, v)
  BY DEF HeapStep
<1>2. Running(m)
  BY <1>1 DEF Allocate, Drop, Load, Store
<1>3. phase = "mutate"
  BY <1>2, NotWhileRunning DEF Running, RuntimeInv
<1>4. Held = frames[m] /\ Held' = frames'[m] /\ frames \in [Mutators -> SUBSET Objects]
  BY DEF Held, RuntimeInv, TypeOK
<1>5. CASE Allocate(m, o)
  <2>1. H!Allocate(o)
    BY <1>3, <1>4, <1>5 DEF Allocate, H!Allocate, H!collector, collector
  <2>. QED
    BY <2>1 DEF H!Mutator
<1>6. CASE Drop(m, o)
  <2>1. H!Drop(o)
    BY <1>3, <1>4, <1>6 DEF Drop, H!Drop, H!collector, collector, heap
  <2>. QED
    BY <2>1 DEF H!Mutator
<1>7. ASSUME NEW s \in Slots, Load(m, o, s) PROVE H!Mutator
  <2>1. H!Load(o, s)
    BY <1>3, <1>4, <1>7 DEF Load, H!Load, H!collector, collector, heap
  <2>. QED
    BY <2>1 DEF H!Mutator
<1>8. ASSUME NEW s \in Slots, NEW v \in H!Word, Store(m, o, s, v) PROVE H!Mutator
  <2>1. H!Store(o, s, v)
    BY <1>3, <1>4, <1>8 DEF Store, H!Store, H!collector, collector
  <2>. QED
    BY <2>1 DEF H!Mutator
<1>. QED
  BY <1>1, <1>5, <1>6, <1>7, <1>8

(* ... and a collection starts with all references in its frames, because  *)
(* every thread that has frames has published them.                        *)
LEMMA RootsRefinement ==
    ASSUME RuntimeInv, P!SafepointInv, P!RootsCoverAllMutators', BeginCollection
    PROVE  H!BeginCollection \/ UNCHANGED H!vars
<1>1. /\ P!BeginCollection /\ UNCHANGED <<pc, pendingRoots, frames>>
      /\ UNCHANGED <<heap, marked, worklist, unswept>>
  BY DEF BeginCollection, P!BeginCollection, P!cycle
<1>2. phase = "mutate"
  BY <1>1 DEF P!BeginCollection, P!VMAwake, RuntimeInv, CollectsInCycle
<1>3. CASE vmPc' = "collect"
  <2>1. P!Active \subseteq pendingRoots
    BY <1>1, <1>3 DEF P!RootsCoverAllMutators, P!Active
  <2>2. \A m \in Mutators \ pendingRoots : frames[m] = {}
    BY <2>1 DEF P!Active, RuntimeInv, InvokedInRegistry
  <2>3. rootValues = Held
    BY <2>2 DEF RuntimeInv, SummaryOfFrames, Held, P!SafepointInv, P!TypeOK
  <2>. QED
    BY <1>1, <1>2, <1>3, <2>3 DEF BeginCollection, H!BeginCollection, H!program,
       heap, Held
<1>4. CASE vmPc' # "collect"
  BY <1>1, <1>4 DEF BeginCollection, H!vars, H!program, heap, Held
<1>. QED
  BY <1>3, <1>4

(* Every step is one of MarkSweep or leaves its state alone.               *)
LEMMA RefinementStep ==
    ASSUME \A m, n \in Mutators : m = n,
           RuntimeInv, P!SafepointInv, P!RootsCoverAllMutators', [Next]_vars
    PROVE  [H!Next]_(H!vars)
<1>1. ASSUME NEW m \in Mutators, HeapStep(m) PROVE H!Next
  BY <1>1, MutatorRefinement DEF H!Next
<1>2. CASE BeginCollection
  BY <1>2, RootsRefinement DEF H!Next
<1>3. CASE Collect
  BY <1>3 DEF Collect, H!Next
<1>4. ASSUME NEW m \in Mutators,
             Request(m) \/ Return(m) \/ PollPasses(m) \/ MutatorStep(m)
      PROVE  UNCHANGED H!vars
  BY <1>4 DEF Request, Return, PollPasses, MutatorStep, heap, collector, H!vars,
     H!program, Held
<1>5. CASE Wait \/ EndCycle \/ Surroundings \/ UNCHANGED vars
  BY <1>5 DEF Wait, EndCycle, Surroundings, vars, heap, collector, H!vars,
     H!program, Held
<1>. QED
  BY <1>1, <1>2, <1>3, <1>4, <1>5 DEF Next, ProgramStep, VMThread

(* ImplementsMarkSweep: the roots the collector is given are all the       *)
(* references the program has, and the program stands still while it runs. *)
THEOREM ImplementsCollector ==
    ASSUME \A m, n \in Mutators : m = n
    PROVE  Spec => ImplementsMarkSweep
<1>1. Init => H!Init
  BY DEF Init
<1>2. Spec => []RuntimeInv
  BY RuntimeInvariant
<1>3. Spec => []P!SafepointInv /\ []P!RootsCoverAllMutators
  BY HandshakeKept
<1>. QED
  BY <1>1, <1>2, <1>3, RefinementStep, PTL DEF Spec, ImplementsMarkSweep, H!Spec

-----------------------------------------------------------------------------
(* So what is proved of the collector holds in the running program. The    *)
(* two instances of MarkSweep are the same.                                *)
LEMMA SameCollector ==
    /\ H!Init <=> HP!Init
    /\ [H!Next]_(H!vars) <=> [HP!Next]_(HP!vars)
    /\ H!NoDanglingReference <=> HP!NoDanglingReference
  BY DEF H!Init, HP!Init, H!Next, HP!Next, H!vars, HP!vars, H!program,
     HP!program, H!collector, HP!collector, H!Word, HP!Word,
     H!Mutator, HP!Mutator, H!Allocate, HP!Allocate, H!Drop, HP!Drop,
     H!Load, HP!Load, H!Store, HP!Store, H!BeginCollection, HP!BeginCollection,
     H!Collector, HP!Collector, H!MarkAddresses, HP!MarkAddresses,
     H!MarkRoot, HP!MarkRoot, H!BeginTrace, HP!BeginTrace,
     H!ScanAllocationPayload, HP!ScanAllocationPayload, H!Trace, HP!Trace,
     H!BeginSweep, HP!BeginSweep, H!Sweep, HP!Sweep,
     H!EndCollection, HP!EndCollection, H!Survivors, HP!Survivors,
     H!NoDanglingReference, HP!NoDanglingReference

(* No reference a running program has in its frames, or can load from an   *)
(* initialised slot, is to an allocation that a collection reclaimed.      *)
THEOREM ProgramNeverDangles ==
    ASSUME \A m, n \in Mutators : m = n
    PROVE  Spec => []H!NoDanglingReference
<1>1. HP!Spec => []HP!NoDanglingReference
  BY HeapAssumption, HP!NothingDangles DEF HP!NothingDangles
<1>2. Spec => H!Spec
  BY ImplementsCollector DEF ImplementsMarkSweep
<1>. QED
  BY <1>1, <1>2, SameCollector, PTL DEF H!Spec, HP!Spec

(* The two instances of the abstract heap are the same.                    *)
LEMMA SameAbstraction ==
    /\ H!Abs!Init <=> HP!Abs!Init
    /\ [H!Abs!Next]_(H!Abs!vars) <=> [HP!Abs!Next]_(HP!Abs!vars)
  BY DEF H!Abs!Init, HP!Abs!Init, H!Abs!Next, HP!Abs!Next, H!Abs!vars, HP!Abs!vars,
     H!Abs!Collect, HP!Abs!Collect, H!Abs!ReachableIn, HP!Abs!ReachableIn,
     H!Abs!Closed, HP!Abs!Closed, H!Abs!Allocate, HP!Abs!Allocate,
     H!Abs!Drop, HP!Abs!Drop, H!Abs!Load, HP!Abs!Load,
     H!Abs!Store, HP!Abs!Store, H!Survivors, HP!Survivors

(* To a running program every collection, requested and served across      *)
(* three threads, is one step that keeps exactly what it can reach.        *)
THEOREM ProgramSeesAbstractHeap ==
    ASSUME \A m, n \in Mutators : m = n
    PROVE  Spec => H!CollectsAtomically
<1>1. HP!Spec => HP!CollectsAtomically
  BY HeapAssumption, HP!ImplementsAbstractHeap DEF HP!ImplementsAbstractHeap
<1>2. Spec => H!Spec
  BY ImplementsCollector DEF ImplementsMarkSweep
<1>. QED
  BY <1>1, <1>2, SameCollector, SameAbstraction, PTL
     DEF H!Spec, HP!Spec, H!CollectsAtomically, HP!CollectsAtomically,
         H!Abs!Spec, HP!Abs!Spec
=============================================================================
