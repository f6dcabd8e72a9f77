------------------------- MODULE SafepointProtocol -------------------------
(***************************************************************************)
(* The safepoint handshake between the main thread (runtime.cc), the       *)
(* mutator threads (the lambda of runtime.cc, the polls of gc.cc) and the  *)
(* VM thread (runtime_threads.cc).                                         *)
(*                                                                         *)
(* One action is what a thread does between two points where another       *)
(* thread can intervene: a critical section of RuntimeThreads::mutex_ is   *)
(* one action, except that of a collection, which the VM thread spends     *)
(* with the mutex held while it clears gcRequested, an atomic the other    *)
(* threads use without the mutex.                                          *)
(*                                                                         *)
(* The condition variable is modelled by the set of its sleepers: wait     *)
(* puts the caller into asleep, notify_all empties it, and a thread that   *)
(* was woken tests its predicate again once the mutex is free.             *)
(*                                                                         *)
(* runtime.cc starts one mutator; the class counts any number of them, so  *)
(* Mutators is a parameter and the properties say for which of its values  *)
(* they hold.                                                              *)
(***************************************************************************)
EXTENDS Naturals, FiniteSets

CONSTANTS Mutators,     \* the mutator threads runManagedProgram starts
          VM,           \* the thread of RuntimeThreads::vmThreadMain
          MaxEpoch      \* bound: no request is raised after so many cycles

ASSUME MutatorsAssumption == IsFiniteSet(Mutators) /\ VM \notin Mutators
ASSUME MaxEpochAssumption == MaxEpoch \in Nat

VARIABLES
    gcRequested,            \* the atomic flag of gc.cc
    stackMapRegistry,       \* a registry is installed (a global of gc.cc)
    runtimeThreads,         \* "none", "built" or "installed"
    stopRequested,          \* the stop token of vmThread_
    mutex,                  \* mutex_: "free", or "vm" during a collection
    asleep,                 \* the threads blocked in condition_.wait
    activeMutatorCount, parkedMutatorCount, gcPending, gcCycleEpoch,
    pendingRoots,           \* the mutators merged into pendingRootSummary_
    cycleEpoch,             \* the epoch each mutator captured when it parked
    pc, vmPc, mainPc,       \* where each thread is
    fatal                   \* report_fatal_error ended the process

flags == <<gcRequested, stackMapRegistry>>
lifecycle == <<runtimeThreads, stopRequested, mainPc>>
counts == <<activeMutatorCount, parkedMutatorCount>>
cycle == <<gcPending, gcCycleEpoch, pendingRoots>>
vars == <<flags, lifecycle, mutex, asleep, counts, cycle, cycleEpoch, pc,
          vmPc, fatal>>

PendingStates == {"park", "parked"}
MutatorStates ==
    {"new", "ready", "install", "clear", "run", "notifyAllocation",
     "notifyExplicit", "explicit", "handle", "registry", "scan", "stop",
     "done"} \cup PendingStates

(* The mutators counted by markMutatorStarted and not yet by               *)
(* markMutatorStopped, and those inside parkCurrentMutatorAtSafepoint.     *)
Active == {m \in Mutators : pc[m] \notin {"new", "ready", "done"}}
Parked == {m \in Mutators : pc[m] = "parked"}

(* The mutators that could allocate, load or store in the managed heap.    *)
Unparked == Active \ Parked

(* The mutators past the clearGCRequest at their start.                    *)
Registered == {m \in Active : pc[m] \notin {"install", "clear"}}
Notifying == {m \in Mutators : pc[m] \in {"notifyAllocation", "notifyExplicit"}}
Collecting == vmPc \in {"collect", "finish"}

TypeOK ==
    /\ gcRequested \in BOOLEAN /\ stackMapRegistry \in BOOLEAN
    /\ runtimeThreads \in {"none", "built", "installed"}
    /\ stopRequested \in BOOLEAN
    /\ mutex \in {"free", "vm"}
    /\ asleep \subseteq Mutators \cup {VM}
    /\ activeMutatorCount \in 0 .. Cardinality(Mutators)
    /\ parkedMutatorCount \in 0 .. Cardinality(Mutators)
    /\ gcPending \in BOOLEAN /\ gcCycleEpoch \in Nat
    /\ pendingRoots \subseteq Mutators
    /\ cycleEpoch \in [Mutators -> Nat]
    /\ pc \in [Mutators -> MutatorStates]
    /\ vmPc \in {"none", "outer", "inner", "collect", "finish", "spin", "exited"}
    /\ mainPc \in {"construct", "install", "spawn", "join", "uninstall",
                   "stop", "joinVM", "done"}
    /\ fatal \in BOOLEAN

Init ==
    /\ gcRequested = FALSE /\ stackMapRegistry = FALSE
    /\ runtimeThreads = "none" /\ stopRequested = FALSE
    /\ mutex = "free" /\ asleep = {}
    /\ activeMutatorCount = 0 /\ parkedMutatorCount = 0
    /\ gcPending = FALSE /\ gcCycleEpoch = 0 /\ pendingRoots = {}
    /\ cycleEpoch = [m \in Mutators |-> 0]
    /\ pc = [m \in Mutators |-> "new"]
    /\ vmPc = "none" /\ mainPc = "construct"
    /\ fatal = FALSE

(* Every step needs a process that has not been ended by fatal.            *)
Goto(m, from, to) == ~fatal /\ pc[m] = from /\ pc' = [pc EXCEPT ![m] = to]

-----------------------------------------------------------------------------
(* The main thread: runManagedProgram from the construction of             *)
(* RuntimeThreads to its destruction.                                      *)
MainStep(from, to) == ~fatal /\ mainPc = from /\ mainPc' = to

ConstructRuntimeThreads ==
    /\ MainStep("construct", "install")
    /\ runtimeThreads' = "built"
    /\ vmPc' = "outer"
    /\ UNCHANGED <<flags, stopRequested, mutex, asleep, counts, cycle,
                   cycleEpoch, pc, fatal>>

InstallRuntimeThreads ==
    /\ MainStep("install", "spawn")
    /\ runtimeThreads' = "installed"
    /\ UNCHANGED <<flags, stopRequested, mutex, asleep, counts, cycle,
                   cycleEpoch, pc, vmPc, fatal>>

SpawnMutators ==
    /\ MainStep("spawn", "join")
    /\ pc' = [m \in Mutators |-> "ready"]
    /\ UNCHANGED <<flags, runtimeThreads, stopRequested, mutex, asleep,
                   counts, cycle, cycleEpoch, vmPc, fatal>>

JoinWithoutWaiting ==
    /\ MainStep("join", "uninstall")
    /\ UNCHANGED <<flags, runtimeThreads, stopRequested, mutex, asleep,
                   counts, cycle, cycleEpoch, pc, vmPc, fatal>>

JoinMutators ==
    /\ MainStep("join", "uninstall")
    /\ \A m \in Mutators : pc[m] = "done"
    /\ UNCHANGED <<flags, runtimeThreads, stopRequested, mutex, asleep,
                   counts, cycle, cycleEpoch, pc, vmPc, fatal>>

ClearRuntimeThreads ==
    /\ MainStep("uninstall", "stop")
    /\ runtimeThreads' = "built"
    /\ UNCHANGED <<flags, stopRequested, mutex, asleep, counts, cycle,
                   cycleEpoch, pc, vmPc, fatal>>

StopWithoutNotify ==
    /\ MainStep("stop", "joinVM")
    /\ stopRequested' = TRUE
    /\ UNCHANGED <<flags, runtimeThreads, mutex, asleep, counts, cycle,
                   cycleEpoch, pc, vmPc, fatal>>

(* ~RuntimeThreads: request_stop and notify_all, without the mutex. The    *)
(* waits take the stop token, whose callback notifies as well: a stop      *)
(* between the test and the sleep of a wait is not missed.                 *)
RequestStop ==
    /\ MainStep("stop", "joinVM")
    /\ stopRequested' = TRUE
    /\ asleep' = {}
    /\ UNCHANGED <<flags, runtimeThreads, mutex, counts, cycle, cycleEpoch,
                   pc, vmPc, fatal>>

JoinVMThread ==
    /\ MainStep("joinVM", "done")
    /\ vmPc = "exited"
    /\ runtimeThreads' = "none"
    /\ UNCHANGED <<flags, stopRequested, mutex, asleep, counts, cycle,
                   cycleEpoch, pc, vmPc, fatal>>

Main ==
    \/ ConstructRuntimeThreads \/ InstallRuntimeThreads \/ SpawnMutators
    \/ JoinMutators \/ ClearRuntimeThreads \/ RequestStop \/ JoinVMThread

-----------------------------------------------------------------------------
(* A mutator thread: the lambda of runManagedProgram around invoke.        *)
MarkMutatorStarted(m) ==
    /\ Goto(m, "ready", "install")
    /\ mutex = "free"
    /\ activeMutatorCount' = activeMutatorCount + 1
    /\ asleep' = {}
    /\ UNCHANGED <<flags, lifecycle, mutex, parkedMutatorCount, cycle,
                   cycleEpoch, vmPc, fatal>>

InstallStackMapRegistry(m) ==
    /\ Goto(m, "install", "clear")
    /\ stackMapRegistry' = TRUE
    /\ UNCHANGED <<gcRequested, lifecycle, mutex, asleep, counts, cycle,
                   cycleEpoch, vmPc, fatal>>

(* registerMutatorThread sets a thread-local that holds exactly from here  *)
(* to the return of invoke, so the "not a mutator" branches of gc.cc are   *)
(* not taken by these threads.                                             *)
ClearRequestAtStart(m) ==
    /\ Goto(m, "clear", "run")
    /\ gcRequested' = FALSE
    /\ UNCHANGED <<stackMapRegistry, lifecycle, mutex, asleep, counts, cycle,
                   cycleEpoch, vmPc, fatal>>

(* invoke returns; clearGCStackMapRegistry follows at once.                *)
ReturnFromInvoke(m) ==
    /\ Goto(m, "run", "stop")
    /\ stackMapRegistry' = FALSE
    /\ UNCHANGED <<gcRequested, lifecycle, mutex, asleep, counts, cycle,
                   cycleEpoch, vmPc, fatal>>

MarkMutatorStopped(m) ==
    /\ Goto(m, "stop", "done")
    /\ mutex = "free"
    /\ activeMutatorCount' =
         IF activeMutatorCount # 0 THEN activeMutatorCount - 1 ELSE 0
    /\ gcPending' = (gcPending /\ activeMutatorCount' # 0)
    /\ pendingRoots' = IF activeMutatorCount' = 0 THEN {} ELSE pendingRoots
    /\ asleep' = {}
    /\ UNCHANGED <<flags, lifecycle, mutex, parkedMutatorCount, gcCycleEpoch,
                   cycleEpoch, vmPc, fatal>>

-----------------------------------------------------------------------------
(* requestGC: the exchange, then notifyRuntimeGCRequested if the flag was  *)
(* down. recordManagedAllocation calls it when the heap limit is reached;  *)
(* an allocation that finds the flag up changes nothing here.              *)
RaiseRequest(m, to) ==
    /\ Goto(m, "run", to)
    /\ ~gcRequested /\ gcCycleEpoch < MaxEpoch
    /\ gcRequested' = TRUE
    /\ UNCHANGED <<stackMapRegistry, lifecycle, mutex, asleep, counts, cycle,
                   cycleEpoch, vmPc, fatal>>

RequestByAllocation(m) == RaiseRequest(m, "notifyAllocation")
RequestExplicitly(m) == RaiseRequest(m, "notifyExplicit")

(* __mvm_request_gc while the flag is already up.                          *)
RepeatRequest(m) ==
    /\ Goto(m, "run", "explicit")
    /\ gcRequested
    /\ UNCHANGED <<flags, lifecycle, mutex, asleep, counts, cycle,
                   cycleEpoch, vmPc, fatal>>

AfterNotify(m) == IF pc[m] = "notifyExplicit" THEN "explicit" ELSE "run"

NotifyGCRequested(m) ==
    /\ ~fatal /\ m \in Notifying
    /\ mutex = "free"
    /\ gcPending' = TRUE
    /\ asleep' = {}
    /\ pc' = [pc EXCEPT ![m] = AfterNotify(m)]
    /\ UNCHANGED <<flags, lifecycle, mutex, counts, gcCycleEpoch,
                   pendingRoots, cycleEpoch, vmPc, fatal>>

(* __mvm_request_gc handles its own request when a registry is installed.  *)
HandleOwnRequest(m) ==
    /\ Goto(m, "explicit", IF stackMapRegistry THEN "handle" ELSE "run")
    /\ UNCHANGED <<flags, lifecycle, mutex, asleep, counts, cycle,
                   cycleEpoch, vmPc, fatal>>

(* __mvm_gc_safepoint_poll that finds the flag up; one that finds it down  *)
(* changes nothing.                                                        *)
Poll(m) ==
    /\ Goto(m, "run", "handle")
    /\ gcRequested
    /\ UNCHANGED <<flags, lifecycle, mutex, asleep, counts, cycle,
                   cycleEpoch, vmPc, fatal>>

(* handlePendingRuntimeGCSafepoint reads the flag again.                   *)
RecheckRequest(m) ==
    /\ Goto(m, "handle", IF gcRequested THEN "registry" ELSE "run")
    /\ UNCHANGED <<flags, lifecycle, mutex, asleep, counts, cycle,
                   cycleEpoch, vmPc, fatal>>

(* No registry: the request is dropped, although gcPending stays up.       *)
CheckRegistry(m) ==
    /\ Goto(m, "registry", IF stackMapRegistry THEN "scan" ELSE "run")
    /\ gcRequested' = (gcRequested /\ stackMapRegistry)
    /\ UNCHANGED <<stackMapRegistry, lifecycle, mutex, asleep, counts, cycle,
                   cycleEpoch, vmPc, fatal>>

(* The scan reads the registry once more, and its absence is now fatal.    *)
ScanRoots(m) ==
    /\ Goto(m, "scan", IF stackMapRegistry THEN "park" ELSE "scan")
    /\ fatal' = ~stackMapRegistry
    /\ UNCHANGED <<flags, lifecycle, mutex, asleep, counts, cycle,
                   cycleEpoch, vmPc>>

-----------------------------------------------------------------------------
(* parkCurrentMutatorAtSafepoint up to its wait, whose predicate is false  *)
(* at first.                                                               *)
ParkForgettingRoots(m) ==
    /\ Goto(m, "park", "parked")
    /\ mutex = "free"
    /\ cycleEpoch' = [cycleEpoch EXCEPT ![m] = gcCycleEpoch]
    /\ parkedMutatorCount' = parkedMutatorCount + 1
    /\ asleep' = {m}
    /\ UNCHANGED <<flags, lifecycle, mutex, activeMutatorCount, cycle, vmPc,
                   fatal>>

ParkSilently(m) ==
    /\ Goto(m, "park", "parked")
    /\ mutex = "free"
    /\ cycleEpoch' = [cycleEpoch EXCEPT ![m] = gcCycleEpoch]
    /\ parkedMutatorCount' = parkedMutatorCount + 1
    /\ pendingRoots' = pendingRoots \cup {m}
    /\ asleep' = asleep \cup {m}
    /\ UNCHANGED <<flags, lifecycle, mutex, activeMutatorCount, gcPending,
                   gcCycleEpoch, vmPc, fatal>>

ParkAtSafepoint(m) ==
    /\ Goto(m, "park", "parked")
    /\ mutex = "free"
    /\ cycleEpoch' = [cycleEpoch EXCEPT ![m] = gcCycleEpoch]
    /\ parkedMutatorCount' = parkedMutatorCount + 1
    /\ pendingRoots' = pendingRoots \cup {m}
    /\ asleep' = {m}
    /\ UNCHANGED <<flags, lifecycle, mutex, activeMutatorCount, gcPending,
                   gcCycleEpoch, vmPc, fatal>>

(* The wait's predicate is still false: sleep again.                       *)
StayParked(m) ==
    /\ ~fatal /\ pc[m] = "parked" /\ m \notin asleep
    /\ mutex = "free"
    /\ gcCycleEpoch = cycleEpoch[m]
    /\ asleep' = asleep \cup {m}
    /\ UNCHANGED <<flags, lifecycle, mutex, counts, cycle, cycleEpoch, pc,
                   vmPc, fatal>>

ResumeUncounted(m) ==
    /\ Goto(m, "parked", "run")
    /\ m \notin asleep /\ mutex = "free"
    /\ gcCycleEpoch # cycleEpoch[m]
    /\ asleep' = {}
    /\ UNCHANGED <<flags, lifecycle, mutex, counts, cycle, cycleEpoch, vmPc,
                   fatal>>

Resume(m) ==
    /\ Goto(m, "parked", "run")
    /\ m \notin asleep /\ mutex = "free"
    /\ gcCycleEpoch # cycleEpoch[m]
    /\ parkedMutatorCount' = parkedMutatorCount - 1
    /\ asleep' = {}
    /\ UNCHANGED <<flags, lifecycle, mutex, activeMutatorCount, cycle,
                   cycleEpoch, vmPc, fatal>>

(* The steps a running thread takes without a choice of the program.       *)
MutatorStep(m) ==
    \/ MarkMutatorStarted(m) \/ InstallStackMapRegistry(m)
    \/ ClearRequestAtStart(m) \/ MarkMutatorStopped(m)
    \/ NotifyGCRequested(m) \/ HandleOwnRequest(m)
    \/ Poll(m) \/ RecheckRequest(m) \/ CheckRegistry(m) \/ ScanRoots(m)
    \/ ParkAtSafepoint(m) \/ StayParked(m) \/ Resume(m)

(* The steps the managed program chooses.                                  *)
ProgramStep(m) ==
    \/ RequestByAllocation(m) \/ RequestExplicitly(m) \/ RepeatRequest(m)
    \/ ReturnFromInvoke(m)

-----------------------------------------------------------------------------
(* The VM thread. Both waits of vmThreadMain test under the mutex, so a    *)
(* wait that ends goes on to the next test in the same action.             *)
VMAwake ==
    ~fatal /\ vmPc \in {"outer", "inner"} /\ VM \notin asleep /\ mutex = "free"

WorldParked == parkedMutatorCount >= activeMutatorCount

SomeoneParked == parkedMutatorCount > 0

VMExit ==
    /\ VMAwake /\ stopRequested
    /\ vmPc' = "exited"
    /\ UNCHANGED <<flags, lifecycle, mutex, asleep, counts, cycle,
                   cycleEpoch, pc, fatal>>

(* Nothing is pending: (back) to the outer wait. The inner wait only gets  *)
(* here once its own predicate holds.                                      *)
VMWaitForRequest ==
    /\ VMAwake /\ ~stopRequested /\ ~gcPending
    /\ vmPc = "inner" => WorldParked
    /\ vmPc' = "outer"
    /\ asleep' = asleep \cup {VM}
    /\ UNCHANGED <<flags, lifecycle, mutex, counts, cycle, cycleEpoch, pc,
                   fatal>>

VMWaitForMutators ==
    /\ VMAwake /\ ~stopRequested
    /\ gcPending \/ vmPc = "inner"
    /\ ~WorldParked
    /\ vmPc' = "inner"
    /\ asleep' = asleep \cup {VM}
    /\ UNCHANGED <<flags, lifecycle, mutex, counts, cycle, cycleEpoch, pc,
                   fatal>>

BeginBeforeAllParked ==
    /\ VMAwake /\ ~stopRequested
    /\ gcPending /\ SomeoneParked
    /\ vmPc' = "collect" /\ mutex' = "vm"
    /\ UNCHANGED <<flags, lifecycle, asleep, counts, cycle, cycleEpoch, pc,
                   fatal>>

(* Both waits are over. With a request but no mutator, continue leads back *)
(* to the outer wait, which returns at once: the thread would spin, and    *)
(* never release the mutex.                                                *)
BeginCollection ==
    /\ VMAwake /\ ~stopRequested
    /\ gcPending /\ WorldParked
    /\ vmPc' = IF activeMutatorCount # 0 THEN "collect" ELSE "spin"
    /\ mutex' = "vm"
    /\ UNCHANGED <<flags, lifecycle, asleep, counts, cycle, cycleEpoch, pc,
                   fatal>>

CollectKeepingRequest ==
    /\ ~fatal /\ vmPc = "collect"
    /\ vmPc' = "finish"
    /\ UNCHANGED <<flags, lifecycle, mutex, asleep, counts, cycle,
                   cycleEpoch, pc, fatal>>

(* collectManagedHeap and recordLastRootScanSummary, then clearGCRequest.  *)
ClearServedRequest ==
    /\ ~fatal /\ vmPc = "collect"
    /\ gcRequested' = FALSE
    /\ vmPc' = "finish"
    /\ UNCHANGED <<stackMapRegistry, lifecycle, mutex, asleep, counts, cycle,
                   cycleEpoch, pc, fatal>>

FinishKeepingRoots ==
    /\ ~fatal /\ vmPc = "finish"
    /\ gcPending' = FALSE
    /\ gcCycleEpoch' = gcCycleEpoch + 1
    /\ asleep' = {}
    /\ mutex' = "free" /\ vmPc' = "outer"
    /\ UNCHANGED <<flags, lifecycle, counts, pendingRoots, cycleEpoch, pc,
                   fatal>>

FinishWithoutEpoch ==
    /\ ~fatal /\ vmPc = "finish"
    /\ gcPending' = FALSE /\ pendingRoots' = {}
    /\ asleep' = {}
    /\ mutex' = "free" /\ vmPc' = "outer"
    /\ UNCHANGED <<flags, lifecycle, counts, gcCycleEpoch, cycleEpoch, pc,
                   fatal>>

(* The rest of the cycle. The loop then tests stop and gcPending without   *)
(* having released the mutex; testing them once it is free again is a      *)
(* sleep that a notification ends at once.                                 *)
FinishCycle ==
    /\ ~fatal /\ vmPc = "finish"
    /\ gcPending' = FALSE /\ pendingRoots' = {}
    /\ gcCycleEpoch' = gcCycleEpoch + 1
    /\ asleep' = {}
    /\ mutex' = "free" /\ vmPc' = "outer"
    /\ UNCHANGED <<flags, lifecycle, counts, cycleEpoch, pc, fatal>>

VMThread ==
    \/ VMExit \/ VMWaitForRequest \/ VMWaitForMutators
    \/ BeginCollection \/ ClearServedRequest \/ FinishCycle

(* condition_variable_any may wake a waiter without a notification.        *)
SpuriousWakeup ==
    /\ ~fatal
    /\ \E t \in asleep : asleep' = asleep \ {t}
    /\ UNCHANGED <<flags, lifecycle, mutex, counts, cycle, cycleEpoch, pc,
                   vmPc, fatal>>

Terminated == (mainPc = "done" \/ fatal) /\ UNCHANGED vars

Next ==
    \/ Main
    \/ \E m \in Mutators : MutatorStep(m) \/ ProgramStep(m)
    \/ VMThread
    \/ SpuriousWakeup
    \/ Terminated

(* Every thread is scheduled, and a managed program reaches a poll as long *)
(* as it runs: gc.cc puts one after each allocation and in each loop. What *)
(* the program chooses (allocate, request, return) is not forced on it.    *)
Fairness ==
    /\ WF_vars(Main)
    /\ WF_vars(VMThread)
    /\ \A m \in Mutators : WF_vars(MutatorStep(m))

Spec == Init /\ [][Next]_vars

FairSpec == Spec /\ Fairness

-----------------------------------------------------------------------------
(* The counters of RuntimeThreads are the numbers of threads they stand    *)
(* for, across every start, park, resume and stop.                         *)
CountsAgree ==
    /\ activeMutatorCount = Cardinality(Active)
    /\ parkedMutatorCount = Cardinality(Parked)

(* While the VM thread collects, every started mutator is inside its wait  *)
(* at a safepoint: none can touch the heap, nor wake up in the middle.     *)
WorldStopped == Collecting => Unparked = {}

(* A request never outlives the last mutator: the VM thread cannot spin on *)
(* it with the mutex held and keep the next markMutatorStarted out.        *)
VMNeverSpins == vmPc # "spin" /\ (gcPending => Active # {})

(* A request flag that is up is one the VM thread knows of or is about to  *)
(* be told: otherwise requestGC, which only notifies when it raises the    *)
(* flag, would swallow every later request.                                *)
NoSwallowedRequest ==
    gcRequested /\ Registered # {} => gcPending \/ Notifying # {}

(* A mutator that is going to park, or waits for the cycle of the epoch it *)
(* captured, does so for a cycle that is pending.                          *)
NoStrandedPark ==
    \A m \in Mutators :
        \/ pc[m] \in {"registry", "scan", "park"}
        \/ pc[m] = "parked" /\ cycleEpoch[m] = gcCycleEpoch
        => gcPending \/ Notifying # {}

(* The summary the VM thread hands to the collector holds the roots of the *)
(* mutators parked since the last cycle, of all of them, and none a        *)
(* mutator published for an earlier cycle.                                 *)
RootsOfThisCycle ==
    pendingRoots = {m \in Parked : cycleEpoch[m] = gcCycleEpoch}

(* RuntimeThreads outlives its users: as long as a mutator is started, the *)
(* object its polls reach through installedRuntimeThreads exists.          *)
RuntimeThreadsAlive == Active # {} => runtimeThreads = "installed"

(* A collection that starts marking has the roots of every started         *)
(* mutator. This needs the single mutator of runtime.cc: with two, one     *)
(* that has not yet left its wait for the last cycle still counts as       *)
(* parked for the next, and its roots are not in the new summary.          *)
RootsCoverAllMutators == vmPc = "collect" => Active \subseteq pendingRoots

(* A mutator that parks gets to run again.                                 *)
ParkedMutatorResumes ==
    \A m \in Mutators : pc[m] = "parked" ~> pc[m] = "run"

(* A request the VM thread was told of is served, or its mutators end.     *)
RequestServed == gcPending ~> ~gcPending

(* Once the mutators have ended, runManagedProgram returns: the VM thread  *)
(* notices the stop request in whichever wait it is.                       *)
ShutdownCompletes ==
    (\A m \in Mutators : pc[m] = "done") ~> mainPc = "done"

(* The handshake implements stop-the-world: while a collection runs no     *)
(* mutator starts, resumes or stops.                                       *)
STW == INSTANCE StopTheWorld WITH running <- Unparked, collecting <- Collecting

StopsTheWorld == STW!Spec

(* What RootsCoverAllMutators rests on: the only mutator cannot have asked *)
(* for another cycle before it left its wait for the last one.             *)
ResumesBeforeNextRequest ==
    /\ \A m \in Parked : cycleEpoch[m] # gcCycleEpoch => ~gcPending
    /\ Collecting => gcPending

(* The inductive invariant, for any number of mutators.                    *)
MutexHeldToCollect ==
    /\ mutex = "vm" <=> vmPc \in {"collect", "finish", "spin"}
    /\ vmPc = "finish" => ~gcRequested

EpochsPassed == \A m \in Mutators : cycleEpoch[m] <= gcCycleEpoch

(* Mutators run only between SpawnMutators and JoinMutators.               *)
LifecycleInv ==
    /\ mainPc = "construct" => vmPc = "none"
    /\ mainPc \in {"construct", "install", "spawn"}
         => \A m \in Mutators : pc[m] = "new"
    /\ mainPc \in {"spawn", "join"} => runtimeThreads = "installed"
    /\ mainPc \in {"uninstall", "stop", "joinVM", "done"}
         => \A m \in Mutators : pc[m] = "done"

SafepointInv ==
    /\ TypeOK /\ CountsAgree /\ MutexHeldToCollect /\ EpochsPassed /\ LifecycleInv
    /\ WorldStopped /\ VMNeverSpins /\ NoSwallowedRequest /\ NoStrandedPark
    /\ RootsOfThisCycle
=============================================================================
