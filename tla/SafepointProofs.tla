------------------------- MODULE SafepointProofs ---------------------------
(***************************************************************************)
(* The safety of the safepoint handshake for every finite set of mutators. *)
(* SafepointInv is inductive; the properties are conjuncts of it, except   *)
(* RootsCoverAllMutators, which needs a single mutator and one more fact.  *)
(***************************************************************************)
EXTENDS SafepointProtocol, FiniteSetTheorems, TLAPS

(* A set of mutators is finite and its size is within the counters' range. *)
LEMMA SubsetCount ==
    ASSUME NEW S \in SUBSET Mutators
    PROVE  IsFiniteSet(S) /\ Cardinality(S) \in 0 .. Cardinality(Mutators)
<1>1. IsFiniteSet(Mutators)
  BY MutatorsAssumption
<1>2. IsFiniteSet(S) /\ Cardinality(S) <= Cardinality(Mutators)
  BY <1>1, FS_Subset
<1>3. Cardinality(S) \in Nat /\ Cardinality(Mutators) \in Nat
  BY <1>1, <1>2, FS_CardinalityType
<1>. QED
  BY <1>2, <1>3

(* A started mutator is counted once more than before.                     *)
LEMMA CountAdd ==
    ASSUME NEW S \in SUBSET Mutators, NEW m \in Mutators \ S
    PROVE  Cardinality(S \cup {m}) = Cardinality(S) + 1
  BY SubsetCount, FS_AddElement

(* A stopped one is counted once less.                                     *)
LEMMA CountRemove ==
    ASSUME NEW S \in SUBSET Mutators, NEW m \in S
    PROVE  Cardinality(S \ {m}) = Cardinality(S) - 1
  BY SubsetCount, FS_RemoveElement

(* Equal counts mean the same threads: parked >= active is stop-the-world. *)
LEMMA AllParked ==
    ASSUME SafepointInv, WorldParked
    PROVE  Active = Parked
<1>1. Parked \subseteq Active /\ Active \subseteq Mutators
  BY DEF Parked, Active
<1>2. Cardinality(Parked) >= Cardinality(Active)
  BY DEF SafepointInv, CountsAgree, WorldParked
<1>3. IsFiniteSet(Active) /\ Cardinality(Active) \in Nat /\ Cardinality(Parked) \in Nat
  BY <1>1, SubsetCount
<1>4. Cardinality(Parked) <= Cardinality(Active)
  BY <1>1, <1>3, FS_Subset
<1>. QED
  BY <1>1, <1>2, <1>3, <1>4, FS_Subset

(* The initial state satisfies the inductive invariant.                    *)
LEMMA InvInit == Init => SafepointInv
<1>. SUFFICES ASSUME Init PROVE SafepointInv
  OBVIOUS
<1>1. Active = {} /\ Parked = {}
  BY DEF Init, Active, Parked
<1>2. Cardinality(Active) = 0 /\ Cardinality(Parked) = 0
  BY <1>1, FS_EmptySet
<1>3. Cardinality(Mutators) \in Nat
  BY MutatorsAssumption, FS_CardinalityType
<1>4. TypeOK
  <2>1. pc \in [Mutators -> MutatorStates] /\ cycleEpoch \in [Mutators -> Nat]
    BY DEF Init, MutatorStates
  <2>2. /\ asleep \subseteq Mutators \cup {VM} /\ pendingRoots \subseteq Mutators
        /\ activeMutatorCount \in 0 .. Cardinality(Mutators)
        /\ parkedMutatorCount \in 0 .. Cardinality(Mutators)
    BY <1>3 DEF Init
  <2>3. /\ gcRequested \in BOOLEAN /\ stackMapRegistry \in BOOLEAN
        /\ stopRequested \in BOOLEAN /\ gcPending \in BOOLEAN
        /\ fatal \in BOOLEAN /\ gcCycleEpoch \in Nat
    BY DEF Init
  <2>. QED
    BY <2>1, <2>2, <2>3 DEF Init, TypeOK
<1>. QED
  BY <1>1, <1>2, <1>4 DEF Init, SafepointInv, CountsAgree, MutexHeldToCollect,
     EpochsPassed, LifecycleInv, WorldStopped, VMNeverSpins,
     NoSwallowedRequest, NoStrandedPark, RootsOfThisCycle, Collecting,
     Registered, Notifying, Unparked

(* Steps of a mutator that neither start, park, resume nor stop it.        *)
LEMMA InvRequestSteps ==
    ASSUME SafepointInv, NEW m \in Mutators,
           \/ InstallStackMapRegistry(m) \/ ClearRequestAtStart(m)
           \/ ReturnFromInvoke(m) \/ RequestByAllocation(m)
           \/ RequestExplicitly(m) \/ RepeatRequest(m) \/ NotifyGCRequested(m)
           \/ HandleOwnRequest(m) \/ Poll(m) \/ RecheckRequest(m)
           \/ CheckRegistry(m) \/ ScanRoots(m)
    PROVE  SafepointInv'
<1>. USE DEF Goto, RaiseRequest, AfterNotify, flags, lifecycle, counts, cycle
<1>1. /\ pc[m] \notin {"new", "ready", "done", "parked"}
      /\ pc' \in [Mutators -> MutatorStates]
      /\ pc'[m] \notin {"new", "ready", "done", "parked"}
      /\ \A n \in Mutators \ {m} : pc'[n] = pc[n]
  BY DEF SafepointInv, TypeOK, MutatorStates, PendingStates,
     InstallStackMapRegistry, ClearRequestAtStart, ReturnFromInvoke,
     RequestByAllocation, RequestExplicitly, RepeatRequest,
     NotifyGCRequested, HandleOwnRequest, Poll, RecheckRequest,
     CheckRegistry, ScanRoots, Notifying
<1>2. Active' = Active /\ Parked' = Parked /\ m \in Unparked
  BY <1>1 DEF Active, Parked, Unparked
<1>3. UNCHANGED <<lifecycle, mutex, counts, gcCycleEpoch, pendingRoots,
                  cycleEpoch, vmPc>>
  BY DEF InstallStackMapRegistry, ClearRequestAtStart, ReturnFromInvoke,
     RequestByAllocation, RequestExplicitly, RepeatRequest,
     NotifyGCRequested, HandleOwnRequest, Poll, RecheckRequest,
     CheckRegistry, ScanRoots
<1>4. /\ asleep' \in {asleep, {}} /\ fatal' \in BOOLEAN
      /\ gcRequested' \in BOOLEAN /\ stackMapRegistry' \in BOOLEAN
      /\ gcPending' \in {gcPending, TRUE}
  BY DEF SafepointInv, TypeOK, InstallStackMapRegistry, ClearRequestAtStart,
     ReturnFromInvoke, RequestByAllocation, RequestExplicitly, RepeatRequest,
     NotifyGCRequested, HandleOwnRequest, Poll, RecheckRequest,
     CheckRegistry, ScanRoots
<1>5. TypeOK'
  BY <1>1, <1>3, <1>4 DEF SafepointInv, TypeOK
<1>6. (CountsAgree /\ MutexHeldToCollect /\ EpochsPassed /\ WorldStopped)'
  BY <1>2, <1>3 DEF SafepointInv, CountsAgree, MutexHeldToCollect,
     EpochsPassed, WorldStopped, Collecting
<1>7. (VMNeverSpins /\ RootsOfThisCycle)'
  BY <1>2, <1>3 DEF SafepointInv, VMNeverSpins, RootsOfThisCycle, Unparked
<1>8. (gcPending \/ Notifying # {}) /\ ~NotifyGCRequested(m)
        => (gcPending \/ Notifying # {})'
  BY <1>1, <1>4 DEF Notifying, InstallStackMapRegistry, ClearRequestAtStart,
     ReturnFromInvoke, RequestByAllocation, RequestExplicitly, RepeatRequest,
     HandleOwnRequest, Poll, RecheckRequest, CheckRegistry, ScanRoots
<1>9. NoSwallowedRequest'
  <2>1. CASE ClearRequestAtStart(m) \/ NotifyGCRequested(m)
    BY <2>1 DEF NoSwallowedRequest, ClearRequestAtStart, NotifyGCRequested
  <2>2. CASE RequestByAllocation(m) \/ RequestExplicitly(m)
    <3>1. pc'[m] \in {"notifyAllocation", "notifyExplicit"}
      BY <2>2, <1>1 DEF RequestByAllocation, RequestExplicitly, SafepointInv,
         TypeOK
    <3>. QED
      BY <3>1 DEF NoSwallowedRequest, Notifying
  <2>3. CASE \/ InstallStackMapRegistry(m) \/ ReturnFromInvoke(m)
             \/ RepeatRequest(m) \/ HandleOwnRequest(m) \/ Poll(m)
             \/ RecheckRequest(m) \/ CheckRegistry(m) \/ ScanRoots(m)
    <3>1. gcRequested' => gcRequested
      BY <2>3 DEF InstallStackMapRegistry, ReturnFromInvoke, RepeatRequest,
         HandleOwnRequest, Poll, RecheckRequest, CheckRegistry, ScanRoots
    <3>2. Registered' = Registered
      <4>1. pc[m] \in {"install", "clear"} <=> pc'[m] \in {"install", "clear"}
        BY <1>1, <2>3 DEF SafepointInv, TypeOK,
           InstallStackMapRegistry, ReturnFromInvoke, RepeatRequest,
           HandleOwnRequest, Poll, RecheckRequest, CheckRegistry, ScanRoots
      <4>. QED
        BY <1>1, <1>2, <4>1 DEF Registered, Unparked, Active
    <3>3. ~NotifyGCRequested(m)
      BY <2>3 DEF NotifyGCRequested, Notifying, InstallStackMapRegistry,
         ReturnFromInvoke, RepeatRequest, HandleOwnRequest, Poll,
         RecheckRequest, CheckRegistry, ScanRoots
    <3>. QED
      BY <1>8, <3>1, <3>2, <3>3 DEF SafepointInv, NoSwallowedRequest
  <2>. QED
    BY <2>1, <2>2, <2>3
<1>10. NoStrandedPark'
  <2>. DEFINE Bound(n) == \/ pc[n] \in {"registry", "scan", "park"}
                          \/ pc[n] = "parked" /\ cycleEpoch[n] = gcCycleEpoch
  <2>1. CASE NotifyGCRequested(m)
    BY <2>1 DEF NotifyGCRequested, NoStrandedPark
  <2>2. CASE RecheckRequest(m) /\ gcRequested
    <3>1. m \in Registered
      BY <2>2 DEF RecheckRequest, Registered, Active
    <3>. QED
      BY <1>8, <2>2, <3>1 DEF SafepointInv, NoSwallowedRequest,
         NoStrandedPark, RecheckRequest, NotifyGCRequested, Notifying
  <2>3. CASE ~NotifyGCRequested(m) /\ ~(RecheckRequest(m) /\ gcRequested)
    <3>1. Bound(m)' => Bound(m)
      BY <1>1, <2>3 DEF SafepointInv, TypeOK,
         InstallStackMapRegistry, ClearRequestAtStart, ReturnFromInvoke,
         RequestByAllocation, RequestExplicitly, RepeatRequest,
         HandleOwnRequest, Poll, RecheckRequest, CheckRegistry, ScanRoots
    <3>2. \A n \in Mutators : Bound(n)' => Bound(n)
      BY <1>1, <1>3, <3>1
    <3>3. ASSUME NEW n \in Mutators, Bound(n)' PROVE (gcPending \/ Notifying # {})'
      <4>1. Bound(n)
        BY <3>2, <3>3
      <4>2. gcPending \/ Notifying # {}
        BY <4>1 DEF SafepointInv, NoStrandedPark
      <4>. QED
        BY <1>8, <2>3, <4>2
    <3>. QED
      BY <3>3 DEF NoStrandedPark
  <2>. QED
    BY <2>1, <2>2, <2>3
<1>11. LifecycleInv'
  BY <1>1, <1>3 DEF SafepointInv, LifecycleInv, TypeOK
<1>. QED
  BY <1>5, <1>6, <1>7, <1>9, <1>10, <1>11 DEF SafepointInv

(* A mutator thread starts.                                                *)
LEMMA InvStart ==
    ASSUME SafepointInv, NEW m \in Mutators, MarkMutatorStarted(m)
    PROVE  SafepointInv'
<1>. USE DEF MarkMutatorStarted, Goto, flags, lifecycle, cycle
<1>1. /\ pc[m] = "ready" /\ pc' \in [Mutators -> MutatorStates]
      /\ pc'[m] = "install" /\ \A n \in Mutators \ {m} : pc'[n] = pc[n]
  BY DEF SafepointInv, TypeOK, MutatorStates
<1>2. Active' = Active \cup {m} /\ m \notin Active /\ Parked' = Parked
  BY <1>1 DEF Active, Parked
<1>3. activeMutatorCount' = Cardinality(Active')
  BY <1>2, CountAdd DEF SafepointInv, CountsAgree, Active
<1>4. Cardinality(Active') \in 0 .. Cardinality(Mutators)
  BY SubsetCount DEF Active
<1>5. TypeOK'
  BY <1>1, <1>3, <1>4 DEF SafepointInv, TypeOK
<1>6. ~Collecting /\ vmPc # "spin"
  BY DEF SafepointInv, MutexHeldToCollect, Collecting
<1>7. (CountsAgree /\ MutexHeldToCollect /\ EpochsPassed /\ WorldStopped
        /\ VMNeverSpins /\ RootsOfThisCycle)'
  BY <1>1, <1>2, <1>3, <1>6 DEF SafepointInv, CountsAgree, MutexHeldToCollect,
     EpochsPassed, WorldStopped, VMNeverSpins, RootsOfThisCycle, Collecting,
     Unparked
<1>8. Registered' = Registered /\ Notifying' = Notifying
  BY <1>1, <1>2 DEF Registered, Notifying
<1>9. (NoSwallowedRequest /\ NoStrandedPark)'
  BY <1>1, <1>8 DEF SafepointInv, NoSwallowedRequest, NoStrandedPark
<1>10. LifecycleInv'
  BY <1>1 DEF SafepointInv, LifecycleInv, TypeOK
<1>. QED
  BY <1>5, <1>7, <1>9, <1>10 DEF SafepointInv

(* A mutator thread stops; with the last one the pending request goes.     *)
LEMMA InvStop ==
    ASSUME SafepointInv, NEW m \in Mutators, MarkMutatorStopped(m)
    PROVE  SafepointInv'
<1>. USE DEF MarkMutatorStopped, Goto, flags, lifecycle
<1>1. /\ pc[m] = "stop" /\ pc' \in [Mutators -> MutatorStates]
      /\ pc'[m] = "done" /\ \A n \in Mutators \ {m} : pc'[n] = pc[n]
  BY DEF SafepointInv, TypeOK, MutatorStates
<1>2. Active' = Active \ {m} /\ m \in Active /\ Parked' = Parked
  BY <1>1 DEF Active, Parked
<1>3. /\ activeMutatorCount # 0 /\ activeMutatorCount' = Cardinality(Active')
      /\ Cardinality(Active') \in 0 .. Cardinality(Mutators)
  <2>1. Cardinality(Active') = Cardinality(Active) - 1
    BY <1>2, CountRemove DEF Active
  <2>2. /\ Cardinality(Active) \in Nat
        /\ Cardinality(Active') \in 0 .. Cardinality(Mutators)
    BY SubsetCount DEF Active
  <2>. QED
    BY <2>1, <2>2 DEF SafepointInv, CountsAgree
<1>4. activeMutatorCount' = 0 <=> Active' = {}
  <2>1. IsFiniteSet(Active')
    BY SubsetCount DEF Active
  <2>. QED
    BY <1>3, <2>1, FS_EmptySet
<1>5. TypeOK'
  BY <1>1, <1>3 DEF SafepointInv, TypeOK
<1>6. ~Collecting /\ vmPc # "spin"
  BY DEF SafepointInv, MutexHeldToCollect, Collecting
<1>7. (CountsAgree /\ MutexHeldToCollect /\ EpochsPassed /\ WorldStopped
        /\ VMNeverSpins)'
  BY <1>1, <1>2, <1>3, <1>4, <1>6 DEF SafepointInv, CountsAgree,
     MutexHeldToCollect, EpochsPassed, WorldStopped, VMNeverSpins, Collecting,
     Unparked
<1>8. Registered' = Registered \ {m} /\ Notifying' = Notifying
  BY <1>1, <1>2 DEF Registered, Notifying
<1>9. Parked \subseteq Active' /\ Notifying \subseteq Active'
  BY <1>1, <1>2 DEF Active, Parked, Notifying
<1>10. RootsOfThisCycle'
  BY <1>2, <1>4, <1>9 DEF SafepointInv, RootsOfThisCycle
<1>11. Active' # {} => gcPending' = gcPending
  BY <1>4 DEF SafepointInv, TypeOK
<1>12. NoSwallowedRequest'
  BY <1>8, <1>11 DEF SafepointInv, NoSwallowedRequest, Registered
<1>13. NoStrandedPark'
  <2>. SUFFICES ASSUME NEW n \in Mutators,
                       \/ pc'[n] \in {"registry", "scan", "park"}
                       \/ pc'[n] = "parked" /\ cycleEpoch'[n] = gcCycleEpoch'
                PROVE  gcPending' \/ Notifying' # {}
    BY DEF NoStrandedPark
  <2>1. n # m /\ n \in Active'
    BY <1>1 DEF Active
  <2>. QED
    BY <1>1, <1>8, <1>11, <2>1 DEF SafepointInv, NoStrandedPark
<1>14. LifecycleInv'
  BY <1>1 DEF SafepointInv, LifecycleInv, TypeOK
<1>. QED
  BY <1>5, <1>7, <1>10, <1>12, <1>13, <1>14 DEF SafepointInv

(* A mutator parks: it is counted, and its roots join the summary.         *)
LEMMA InvPark ==
    ASSUME SafepointInv, NEW m \in Mutators, ParkAtSafepoint(m)
    PROVE  SafepointInv'
<1>. USE DEF ParkAtSafepoint, Goto, flags, lifecycle, counts, cycle
<1>1. /\ pc[m] = "park" /\ pc' \in [Mutators -> MutatorStates]
      /\ pc'[m] = "parked" /\ \A n \in Mutators \ {m} : pc'[n] = pc[n]
  BY DEF SafepointInv, TypeOK, MutatorStates, PendingStates
<1>2. Parked' = Parked \cup {m} /\ m \notin Parked /\ Active' = Active
  BY <1>1 DEF Active, Parked
<1>3. /\ cycleEpoch' \in [Mutators -> Nat] /\ cycleEpoch'[m] = gcCycleEpoch
      /\ \A n \in Mutators \ {m} : cycleEpoch'[n] = cycleEpoch[n]
  BY DEF SafepointInv, TypeOK
<1>4. /\ parkedMutatorCount' = Cardinality(Parked')
      /\ Cardinality(Parked') \in 0 .. Cardinality(Mutators)
  <2>1. Cardinality(Parked') = Cardinality(Parked) + 1
    BY <1>2, CountAdd DEF Parked
  <2>2. Cardinality(Parked') \in 0 .. Cardinality(Mutators)
    BY SubsetCount DEF Parked
  <2>. QED
    BY <2>1, <2>2 DEF SafepointInv, CountsAgree
<1>5. TypeOK'
  BY <1>1, <1>3, <1>4 DEF SafepointInv, TypeOK
<1>6. ~Collecting /\ vmPc # "spin"
  BY DEF SafepointInv, MutexHeldToCollect, Collecting
<1>7. (CountsAgree /\ MutexHeldToCollect /\ WorldStopped /\ VMNeverSpins)'
  BY <1>2, <1>4, <1>6 DEF SafepointInv, CountsAgree,
     MutexHeldToCollect, WorldStopped, VMNeverSpins, Collecting, Unparked
<1>8. EpochsPassed'
  BY <1>3 DEF SafepointInv, EpochsPassed, TypeOK
<1>9. RootsOfThisCycle'
  BY <1>2, <1>3 DEF SafepointInv, RootsOfThisCycle, Parked
<1>10. Registered' = Registered /\ Notifying' = Notifying
  BY <1>1, <1>2 DEF Registered, Notifying
<1>11. (NoSwallowedRequest /\ NoStrandedPark)'
  BY <1>1, <1>3, <1>10 DEF SafepointInv, NoSwallowedRequest, NoStrandedPark
<1>12. LifecycleInv'
  BY <1>1 DEF SafepointInv, LifecycleInv, TypeOK
<1>. QED
  BY <1>5, <1>7, <1>8, <1>9, <1>11, <1>12 DEF SafepointInv

(* A mutator whose cycle is over leaves its wait.                          *)
LEMMA InvResume ==
    ASSUME SafepointInv, NEW m \in Mutators, Resume(m)
    PROVE  SafepointInv'
<1>. USE DEF Resume, Goto, flags, lifecycle, counts, cycle
<1>1. /\ pc[m] = "parked" /\ pc' \in [Mutators -> MutatorStates]
      /\ pc'[m] = "run" /\ \A n \in Mutators \ {m} : pc'[n] = pc[n]
  BY DEF SafepointInv, TypeOK, MutatorStates
<1>2. Parked' = Parked \ {m} /\ m \in Parked /\ Active' = Active
  BY <1>1 DEF Active, Parked
<1>3. /\ parkedMutatorCount' = Cardinality(Parked')
      /\ Cardinality(Parked') \in 0 .. Cardinality(Mutators)
  <2>1. Cardinality(Parked') = Cardinality(Parked) - 1
    BY <1>2, CountRemove DEF Parked
  <2>2. Cardinality(Parked') \in 0 .. Cardinality(Mutators)
    BY SubsetCount DEF Parked
  <2>. QED
    BY <2>1, <2>2 DEF SafepointInv, CountsAgree
<1>4. TypeOK'
  BY <1>1, <1>3 DEF SafepointInv, TypeOK
<1>5. ~Collecting /\ vmPc # "spin"
  BY DEF SafepointInv, MutexHeldToCollect, Collecting
<1>6. (CountsAgree /\ MutexHeldToCollect /\ WorldStopped /\ VMNeverSpins
        /\ EpochsPassed)'
  BY <1>2, <1>3, <1>5 DEF SafepointInv, CountsAgree, EpochsPassed,
     MutexHeldToCollect, WorldStopped, VMNeverSpins, Collecting, Unparked
<1>7. RootsOfThisCycle'
  BY <1>2 DEF SafepointInv, RootsOfThisCycle, Parked
<1>8. Registered' = Registered /\ Notifying' = Notifying
  BY <1>1, <1>2 DEF Registered, Notifying
<1>9. (NoSwallowedRequest /\ NoStrandedPark)'
  BY <1>1, <1>8 DEF SafepointInv, NoSwallowedRequest, NoStrandedPark
<1>10. LifecycleInv'
  BY <1>1 DEF SafepointInv, LifecycleInv, TypeOK
<1>. QED
  BY <1>4, <1>6, <1>7, <1>9, <1>10 DEF SafepointInv

(* Steps that move no mutator and do not touch the state of a cycle.       *)
LEMMA InvWaits ==
    ASSUME SafepointInv,
           \/ ConstructRuntimeThreads \/ InstallRuntimeThreads \/ JoinMutators
           \/ ClearRuntimeThreads \/ RequestStop \/ JoinVMThread
           \/ (\E m \in Mutators : StayParked(m))
           \/ VMExit \/ VMWaitForRequest \/ VMWaitForMutators \/ SpuriousWakeup
           \/ Terminated
    PROVE  SafepointInv'
<1>. USE DEF MainStep, flags, lifecycle, counts, cycle
<1>1. UNCHANGED <<flags, counts, cycle, cycleEpoch, pc, mutex, fatal>>
  BY DEF ConstructRuntimeThreads, InstallRuntimeThreads, JoinMutators,
     ClearRuntimeThreads, RequestStop, JoinVMThread, StayParked, VMExit,
     VMWaitForRequest, VMWaitForMutators, SpuriousWakeup, Terminated, vars
<1>2. Active' = Active /\ Parked' = Parked
  BY <1>1 DEF Active, Parked
<1>3. /\ Collecting' = Collecting /\ vmPc' # "spin" /\ vmPc # "spin"
      /\ vmPc' = "finish" <=> vmPc = "finish"
  BY DEF SafepointInv, VMNeverSpins, LifecycleInv, Collecting,
     ConstructRuntimeThreads, InstallRuntimeThreads, JoinMutators,
     ClearRuntimeThreads, RequestStop, JoinVMThread, StayParked, VMExit,
     VMWaitForRequest, VMWaitForMutators, VMAwake, SpuriousWakeup,
     Terminated, vars
<1>4. TypeOK'
  <2>1. asleep' \subseteq Mutators \cup {VM}
    BY DEF SafepointInv, TypeOK,
       ConstructRuntimeThreads, InstallRuntimeThreads, JoinMutators,
       ClearRuntimeThreads, RequestStop, JoinVMThread, StayParked, VMExit,
       VMWaitForRequest, VMWaitForMutators, SpuriousWakeup, Terminated, vars
  <2>2. /\ runtimeThreads' \in {"none", "built", "installed"}
        /\ stopRequested' \in BOOLEAN
        /\ vmPc' \in {"none", "outer", "inner", "collect", "finish", "spin",
                      "exited"}
        /\ mainPc' \in {"construct", "install", "spawn", "join", "uninstall",
                        "stop", "joinVM", "done"}
    BY DEF SafepointInv, TypeOK,
       ConstructRuntimeThreads, InstallRuntimeThreads, JoinMutators,
       ClearRuntimeThreads, RequestStop, JoinVMThread, StayParked, VMExit,
       VMWaitForRequest, VMWaitForMutators, SpuriousWakeup, Terminated, vars
  <2>. QED
    BY <1>1, <2>1, <2>2 DEF SafepointInv, TypeOK
<1>5. (CountsAgree /\ MutexHeldToCollect /\ EpochsPassed /\ WorldStopped
        /\ VMNeverSpins /\ RootsOfThisCycle)'
  BY <1>1, <1>2, <1>3 DEF SafepointInv, CountsAgree, MutexHeldToCollect,
     EpochsPassed, WorldStopped, VMNeverSpins, RootsOfThisCycle, Collecting,
     Unparked
<1>6. (NoSwallowedRequest /\ NoStrandedPark)'
  BY <1>1, <1>2 DEF SafepointInv, NoSwallowedRequest, NoStrandedPark,
     Registered, Notifying
<1>7. LifecycleInv'
  BY <1>1 DEF SafepointInv, LifecycleInv, TypeOK, VMAwake,
     ConstructRuntimeThreads, InstallRuntimeThreads, JoinMutators,
     ClearRuntimeThreads, RequestStop, JoinVMThread, StayParked, VMExit,
     VMWaitForRequest, VMWaitForMutators, SpuriousWakeup, Terminated, vars
<1>. QED
  BY <1>4, <1>5, <1>6, <1>7 DEF SafepointInv

(* The main thread creates the mutator threads.                            *)
LEMMA InvSpawn == SafepointInv /\ SpawnMutators => SafepointInv'
<1>. SUFFICES ASSUME SafepointInv, SpawnMutators PROVE SafepointInv'
  OBVIOUS
<1>. USE DEF SpawnMutators, MainStep, flags, counts, cycle
<1>1. \A m \in Mutators : pc[m] = "new" /\ pc'[m] = "ready"
  BY DEF SafepointInv, LifecycleInv
<1>2. /\ Active' = Active /\ Parked' = Parked
      /\ Registered' = Registered /\ Notifying' = Notifying
  BY <1>1 DEF Active, Parked, Registered, Notifying
<1>3. TypeOK'
  BY DEF SafepointInv, TypeOK, MutatorStates
<1>4. (CountsAgree /\ MutexHeldToCollect /\ EpochsPassed /\ WorldStopped
        /\ VMNeverSpins /\ RootsOfThisCycle)'
  BY <1>2 DEF SafepointInv, CountsAgree, MutexHeldToCollect,
     EpochsPassed, WorldStopped, VMNeverSpins, RootsOfThisCycle, Collecting,
     Unparked
<1>5. (NoSwallowedRequest /\ NoStrandedPark /\ LifecycleInv)'
  BY <1>1, <1>2 DEF SafepointInv, NoSwallowedRequest, NoStrandedPark,
     LifecycleInv
<1>. QED
  BY <1>3, <1>4, <1>5 DEF SafepointInv

(* The three steps of a collection.                                        *)
LEMMA InvBegin == SafepointInv /\ BeginCollection => SafepointInv'
<1>. SUFFICES ASSUME SafepointInv, BeginCollection PROVE SafepointInv'
  OBVIOUS
<1>. USE DEF BeginCollection, VMAwake, flags, lifecycle, counts, cycle
<1>1. Active' = Active /\ Parked' = Parked /\ Active = Parked
  BY AllParked DEF Active, Parked
<1>2. activeMutatorCount # 0
  <2>1. IsFiniteSet(Active)
    BY SubsetCount DEF Active
  <2>. QED
    BY <2>1, FS_EmptySet DEF SafepointInv, CountsAgree, VMNeverSpins
<1>3. TypeOK'
  BY DEF SafepointInv, TypeOK
<1>4. (CountsAgree /\ MutexHeldToCollect /\ EpochsPassed /\ WorldStopped
        /\ VMNeverSpins /\ RootsOfThisCycle /\ LifecycleInv)'
  BY <1>1, <1>2 DEF SafepointInv, CountsAgree, MutexHeldToCollect, LifecycleInv,
     EpochsPassed, WorldStopped, VMNeverSpins, RootsOfThisCycle, Collecting,
     Unparked
<1>5. (NoSwallowedRequest /\ NoStrandedPark)'
  BY <1>1 DEF SafepointInv, NoSwallowedRequest, NoStrandedPark, Registered,
     Notifying
<1>. QED
  BY <1>3, <1>4, <1>5 DEF SafepointInv

(* The second: the request flag goes down, the mutex stays held.           *)
LEMMA InvClearServed == SafepointInv /\ ClearServedRequest => SafepointInv'
<1>. SUFFICES ASSUME SafepointInv, ClearServedRequest PROVE SafepointInv'
  OBVIOUS
<1>. USE DEF ClearServedRequest, lifecycle, counts, cycle
<1>1. Active' = Active /\ Parked' = Parked
  BY DEF Active, Parked
<1>2. TypeOK'
  BY DEF SafepointInv, TypeOK
<1>3. (CountsAgree /\ MutexHeldToCollect /\ EpochsPassed /\ WorldStopped
        /\ VMNeverSpins /\ RootsOfThisCycle /\ LifecycleInv)'
  BY <1>1 DEF SafepointInv, CountsAgree, MutexHeldToCollect, LifecycleInv,
     EpochsPassed, WorldStopped, VMNeverSpins, RootsOfThisCycle, Collecting,
     Unparked
<1>4. (NoSwallowedRequest /\ NoStrandedPark)'
  BY <1>1 DEF SafepointInv, NoSwallowedRequest, NoStrandedPark, Notifying
<1>. QED
  BY <1>2, <1>3, <1>4 DEF SafepointInv

(* The end of a cycle passes the epoch of every parked mutator.            *)
LEMMA InvFinish == SafepointInv /\ FinishCycle => SafepointInv'
<1>. SUFFICES ASSUME SafepointInv, FinishCycle PROVE SafepointInv'
  OBVIOUS
<1>. USE DEF FinishCycle, flags, lifecycle, counts
<1>1. /\ Active' = Active /\ Parked' = Parked
      /\ Registered' = Registered /\ Notifying' = Notifying
  BY DEF Active, Parked, Registered, Notifying
<1>2. TypeOK'
  <2>1. gcCycleEpoch' \in Nat
    BY DEF SafepointInv, TypeOK
  <2>5. gcPending' \in BOOLEAN
    OBVIOUS
  <2>2. asleep' \subseteq Mutators \cup {VM} /\ pendingRoots' \subseteq Mutators
    OBVIOUS
  <2>3. UNCHANGED <<gcRequested, stackMapRegistry, runtimeThreads,
                    stopRequested, mainPc, activeMutatorCount,
                    parkedMutatorCount, cycleEpoch, pc, fatal>>
    OBVIOUS
  <2>. HIDE DEF FinishCycle
  <2>4. vmPc' = "outer" /\ mutex' = "free"
    BY DEF FinishCycle
  <2>. QED
    BY <2>1, <2>2, <2>3, <2>4, <2>5 DEF SafepointInv, TypeOK
<1>3. \A m \in Mutators : cycleEpoch[m] < gcCycleEpoch'
  BY DEF SafepointInv, TypeOK, EpochsPassed
<1>4. Unparked = {} /\ Active \subseteq Parked /\ ~gcRequested
  BY DEF SafepointInv, WorldStopped, Collecting, Unparked, MutexHeldToCollect
<1>5. (CountsAgree /\ MutexHeldToCollect /\ WorldStopped /\ VMNeverSpins
        /\ LifecycleInv)'
  BY <1>1 DEF SafepointInv, CountsAgree, MutexHeldToCollect, LifecycleInv,
     WorldStopped, VMNeverSpins, Collecting
<1>6. (EpochsPassed /\ RootsOfThisCycle)'
  BY <1>1, <1>3 DEF SafepointInv, TypeOK, EpochsPassed, RootsOfThisCycle, Parked
<1>7. NoSwallowedRequest'
  BY <1>4 DEF NoSwallowedRequest
<1>8. NoStrandedPark'
  <2>. SUFFICES ASSUME NEW m \in Mutators PROVE
                pc[m] \notin {"registry", "scan", "park"} /\ cycleEpoch[m] # gcCycleEpoch'
    BY DEF NoStrandedPark
  <2>1. pc[m] \notin {"registry", "scan", "park"}
    BY <1>4 DEF Active, Parked
  <2>2. cycleEpoch[m] # gcCycleEpoch'
    BY <1>3 DEF SafepointInv, TypeOK
  <2>. QED
    BY <2>1, <2>2
<1>. QED
  BY <1>2, <1>5, <1>6, <1>7, <1>8 DEF SafepointInv

(* A step in which nothing changes.                                        *)
LEMMA InvStutter == SafepointInv /\ UNCHANGED vars => SafepointInv'
  BY DEF vars, flags, lifecycle, counts, cycle, SafepointInv, TypeOK,
     CountsAgree, MutexHeldToCollect, EpochsPassed, LifecycleInv, WorldStopped,
     VMNeverSpins, NoSwallowedRequest, NoStrandedPark, RootsOfThisCycle,
     Active, Parked, Unparked, Registered, Notifying, Collecting

(* Every step preserves the invariant.                                     *)
LEMMA InvNext == SafepointInv /\ [Next]_vars => SafepointInv'
  BY InvRequestSteps, InvStart, InvStop, InvPark, InvResume, InvWaits, InvSpawn,
     InvBegin, InvClearServed, InvFinish, InvStutter
     DEF Next, Main, MutatorStep, ProgramStep, VMThread

(* The invariant holds for every finite set of mutators.                   *)
THEOREM SafepointInvariant == Spec => []SafepointInv
  BY InvInit, InvNext, PTL DEF Spec

(* The counters stay within the number of mutators, the flags Boolean.     *)
THEOREM TypeCorrect == Spec => []TypeOK
  BY SafepointInvariant, PTL DEF SafepointInv

(* No mutator runs managed code while the VM thread collects.              *)
THEOREM CollectsInStoppedWorld == Spec => []WorldStopped
  BY SafepointInvariant, PTL DEF SafepointInv

(* Requests are neither swallowed nor left to a VM thread that spins.      *)
THEOREM RequestsReachTheVMThread ==
    Spec => []NoSwallowedRequest /\ []VMNeverSpins
<1>1. SafepointInv => NoSwallowedRequest /\ VMNeverSpins
  BY DEF SafepointInv
<1>. QED
  BY <1>1, SafepointInvariant, PTL

(* A mutator parks only for a cycle that is pending.                       *)
THEOREM ParksForAPendingCycle == Spec => []NoStrandedPark
  BY SafepointInvariant, PTL DEF SafepointInv

(* The summary holds the roots published since the last cycle, no others.  *)
THEOREM SummaryIsOfThisCycle == Spec => []RootsOfThisCycle
  BY SafepointInvariant, PTL DEF SafepointInv

(* The RuntimeThreads object outlives the mutators.                        *)
THEOREM OutlivesMutators == Spec => []RuntimeThreadsAlive
<1>1. SafepointInv => RuntimeThreadsAlive
  BY DEF SafepointInv, TypeOK, LifecycleInv, RuntimeThreadsAlive, Active
<1>. QED
  BY <1>1, SafepointInvariant, PTL

-----------------------------------------------------------------------------
(* With one mutator, a cycle only starts with its roots in the summary.    *)
LEMMA SingleStep ==
    ASSUME \A m, n \in Mutators : m = n,
           SafepointInv, ResumesBeforeNextRequest, [Next]_vars
    PROVE  ResumesBeforeNextRequest'
<1>. USE DEF ResumesBeforeNextRequest, flags, lifecycle, counts, cycle
<1>1. CASE \E m \in Mutators : NotifyGCRequested(m)
  <2>. PICK m \in Mutators : NotifyGCRequested(m)
    BY <1>1
  <2>1. pc[m] # "parked" /\ AfterNotify(m) # "parked"
    BY DEF NotifyGCRequested, Notifying, AfterNotify
  <2>2. Parked' = {}
    BY <2>1 DEF NotifyGCRequested, Parked, SafepointInv, TypeOK
  <2>3. gcPending'
    BY DEF NotifyGCRequested
  <2>. QED
    BY <2>2, <2>3
<1>2. CASE \E m \in Mutators : MarkMutatorStopped(m)
  BY <1>2 DEF MarkMutatorStopped, Parked, SafepointInv, TypeOK, Goto,
     Collecting, MutexHeldToCollect
<1>3. CASE \E m \in Mutators : ParkAtSafepoint(m)
  BY <1>3 DEF ParkAtSafepoint, Parked, SafepointInv, TypeOK, Goto, Collecting
<1>4. CASE \E m \in Mutators :
             \/ MarkMutatorStarted(m) \/ InstallStackMapRegistry(m)
             \/ ClearRequestAtStart(m) \/ HandleOwnRequest(m) \/ Poll(m)
             \/ RecheckRequest(m) \/ CheckRegistry(m) \/ ScanRoots(m)
             \/ StayParked(m) \/ Resume(m) \/ ProgramStep(m)
  <2>1. UNCHANGED <<cycle, cycleEpoch, vmPc>>
    BY <1>4 DEF MarkMutatorStarted, InstallStackMapRegistry, HandleOwnRequest,
       ClearRequestAtStart, Poll, RecheckRequest, CheckRegistry, ScanRoots,
       StayParked, Resume, ProgramStep, RequestByAllocation,
       RequestExplicitly, RaiseRequest, RepeatRequest, ReturnFromInvoke
  <2>2. Parked' \subseteq Parked
    BY <1>4 DEF MarkMutatorStarted, InstallStackMapRegistry, HandleOwnRequest,
       ClearRequestAtStart, Poll, RecheckRequest, CheckRegistry, ScanRoots,
       StayParked, Resume, ProgramStep, RequestByAllocation, RequestExplicitly,
       RaiseRequest, RepeatRequest, ReturnFromInvoke, Goto, Parked,
       SafepointInv, TypeOK
  <2>. QED
    BY <2>1, <2>2 DEF Collecting
<1>5. CASE Main \/ SpuriousWakeup \/ Terminated \/ UNCHANGED vars
  <2>1. UNCHANGED <<cycle, cycleEpoch>> /\ Parked' = Parked
    BY <1>5 DEF Main, ConstructRuntimeThreads, InstallRuntimeThreads, JoinMutators,
       ClearRuntimeThreads, RequestStop, JoinVMThread, SpuriousWakeup,
       Terminated, vars, SpawnMutators, Parked, SafepointInv, LifecycleInv,
       MainStep
  <2>2. Collecting' = Collecting
    BY <1>5 DEF Main, ConstructRuntimeThreads, InstallRuntimeThreads, JoinMutators,
       ClearRuntimeThreads, RequestStop, JoinVMThread, SpuriousWakeup,
       Terminated, vars, SpawnMutators, SafepointInv, LifecycleInv, MainStep,
       Collecting
  <2>. QED
    BY <2>1, <2>2
<1>6. CASE VMExit \/ VMWaitForRequest \/ VMWaitForMutators \/ BeginCollection
           \/ ClearServedRequest
  BY <1>6 DEF VMExit, VMWaitForRequest, VMWaitForMutators, BeginCollection,
     ClearServedRequest, Collecting, Parked, VMAwake
<1>7. CASE FinishCycle
  BY <1>7 DEF FinishCycle, Collecting, Parked
<1>. QED
  BY <1>1, <1>2, <1>3, <1>4, <1>5, <1>6, <1>7 DEF Next, MutatorStep, VMThread

(* The single mutator of runtime.cc never loses a root to a collection.    *)
THEOREM SingleMutatorRoots ==
    ASSUME \A m, n \in Mutators : m = n
    PROVE  Spec => []RootsCoverAllMutators
<1>1. Init => ResumesBeforeNextRequest
  BY DEF Init, ResumesBeforeNextRequest, Parked, Collecting
<1>2. SafepointInv /\ ResumesBeforeNextRequest /\ [Next]_vars
        => ResumesBeforeNextRequest'
  BY SingleStep
<1>3. SafepointInv /\ ResumesBeforeNextRequest => RootsCoverAllMutators
  BY DEF SafepointInv, WorldStopped, RootsOfThisCycle, Collecting, Unparked,
     ResumesBeforeNextRequest, RootsCoverAllMutators
<1>. QED
  BY <1>1, <1>2, <1>3, SafepointInvariant, PTL DEF Spec

-----------------------------------------------------------------------------
(* Every step of the protocol is a step of StopTheWorld or a stutter.      *)
LEMMA RefinementStep ==
    ASSUME SafepointInv, [Next]_vars
    PROVE  [STW!Next]_(STW!vars)
<1>. USE DEF STW!vars, flags, lifecycle, counts, cycle
<1>1. ASSUME NEW m \in Mutators, MarkMutatorStarted(m) \/ Resume(m)
      PROVE  STW!Enter(m)
  <2>1. Unparked' = Unparked \cup {m} /\ m \notin Unparked
    BY <1>1 DEF MarkMutatorStarted, Resume, Goto, Unparked, Active, Parked,
       SafepointInv, TypeOK
  <2>2. ~Collecting /\ Collecting' = Collecting
    BY <1>1 DEF MarkMutatorStarted, Resume, SafepointInv, MutexHeldToCollect,
       Collecting
  <2>. QED
    BY <2>1, <2>2 DEF STW!Enter
<1>2. ASSUME NEW m \in Mutators, MarkMutatorStopped(m) \/ ParkAtSafepoint(m)
      PROVE  STW!Leave(m)
  <2>1. Unparked' = Unparked \ {m} /\ m \in Unparked
    BY <1>2 DEF MarkMutatorStopped, ParkAtSafepoint, Goto, Unparked, Active,
       Parked, SafepointInv, TypeOK
  <2>2. Collecting' = Collecting
    BY <1>2 DEF MarkMutatorStopped, ParkAtSafepoint, Collecting
  <2>. QED
    BY <2>1, <2>2 DEF STW!Leave
<1>3. ASSUME BeginCollection PROVE STW!BeginCollection
  <2>1. Unparked' = Unparked /\ ~Collecting
    BY <1>3 DEF BeginCollection, VMAwake, Unparked, Active, Parked, Collecting
  <2>2. Unparked = {}
    BY <1>3, AllParked DEF BeginCollection, Unparked
  <2>3. Collecting'
    BY <1>3, InvBegin DEF SafepointInv, VMNeverSpins, BeginCollection, Collecting
  <2>. QED
    BY <2>1, <2>2, <2>3 DEF STW!BeginCollection, Collecting
<1>4. ASSUME FinishCycle PROVE STW!EndCollection
  BY <1>4 DEF FinishCycle, STW!EndCollection, Collecting, Unparked, Active,
     Parked
<1>5. ASSUME \/ VMExit \/ VMWaitForRequest \/ VMWaitForMutators
             \/ ClearServedRequest \/ SpuriousWakeup \/ Terminated
             \/ UNCHANGED vars
      PROVE  UNCHANGED <<Unparked, Collecting>>
  BY <1>5 DEF VMExit, VMWaitForRequest, VMWaitForMutators, VMAwake,
     ClearServedRequest, SpuriousWakeup, Terminated, vars, Unparked, Active,
     Parked, Collecting
<1>6. ASSUME Main PROVE UNCHANGED <<Unparked, Collecting>>
  BY <1>6 DEF Main, ConstructRuntimeThreads, InstallRuntimeThreads,
     JoinMutators, ClearRuntimeThreads, RequestStop, JoinVMThread,
     SpawnMutators, SafepointInv, LifecycleInv, MainStep, Unparked, Active,
     Parked, Collecting
<1>7. ASSUME NEW m \in Mutators,
             \/ InstallStackMapRegistry(m) \/ ClearRequestAtStart(m)
             \/ NotifyGCRequested(m) \/ HandleOwnRequest(m) \/ Poll(m)
             \/ RecheckRequest(m) \/ CheckRegistry(m) \/ ScanRoots(m)
             \/ StayParked(m) \/ ProgramStep(m)
      PROVE  UNCHANGED <<Unparked, Collecting>>
  <2>1. UNCHANGED Collecting
    BY <1>7 DEF InstallStackMapRegistry, ClearRequestAtStart, Collecting,
       NotifyGCRequested, HandleOwnRequest, Poll, RecheckRequest,
       CheckRegistry, ScanRoots, StayParked, ProgramStep, RequestByAllocation,
       RequestExplicitly, RaiseRequest, RepeatRequest, ReturnFromInvoke
  <2>2. \A n \in Mutators :
          /\ pc[n] = "parked" <=> pc'[n] = "parked"
          /\ pc[n] \in {"new", "ready", "done"} <=> pc'[n] \in {"new", "ready", "done"}
    BY <1>7 DEF InstallStackMapRegistry, ClearRequestAtStart, Goto,
       NotifyGCRequested, HandleOwnRequest, Poll, RecheckRequest,
       CheckRegistry, ScanRoots, StayParked, ProgramStep, RequestByAllocation,
       RequestExplicitly, RaiseRequest, RepeatRequest, ReturnFromInvoke,
       AfterNotify, Notifying, SafepointInv, TypeOK
  <2>. QED
    BY <2>1, <2>2 DEF Unparked, Active, Parked
<1>. QED
  BY <1>1, <1>2, <1>3, <1>4, <1>5, <1>6, <1>7 DEF Next, MutatorStep, VMThread,
     STW!Next

(* The handshake implements stop-the-world, for any number of mutators.    *)
THEOREM ImplementsStopTheWorld == Spec => StopsTheWorld
<1>1. Init => STW!Init
  BY DEF Init, STW!Init, Unparked, Active, Collecting
<1>. QED
  BY <1>1, RefinementStep, SafepointInvariant, PTL DEF Spec, StopsTheWorld, STW!Spec
=============================================================================
