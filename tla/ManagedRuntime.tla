--------------------------- MODULE ManagedRuntime ---------------------------
(***************************************************************************)
(* A running managed program: the mutators' use of the heap, the heap      *)
(* limit, the safepoint handshake and the collector together.              *)
(*                                                                         *)
(* SafepointProtocol (P) tells when a thread may take which step, and      *)
(* MarkSweep (H) what the collector does. MarkSweep takes for granted that *)
(* the program stands still during a collection and that the collector is  *)
(* given all references in its frames. Nothing here grants that: a mutator *)
(* uses the heap whenever it runs, and the collector gets the summary the  *)
(* parked mutators have published. That the two fit is ImplementsMarkSweep.*)
(***************************************************************************)
EXTENDS Integers, FiniteSets

CONSTANTS Mutators, VM, MaxEpoch,       \* as in SafepointProtocol
          Objects, Slots, Null,         \* as in MarkSweep
          HeapLimit                     \* gcHeapLimitBytes, in allocations

ASSUME ThreadsAssumption ==
    IsFiniteSet(Mutators) /\ VM \notin Mutators /\ MaxEpoch \in Nat
ASSUME HeapAssumption == IsFiniteSet(Objects) /\ Null \notin Objects
ASSUME HeapLimitAssumption == HeapLimit \in Nat \ {0}

VARIABLES
    gcRequested, stackMapRegistry, runtimeThreads, stopRequested, mutex,
    asleep, activeMutatorCount, parkedMutatorCount, gcPending, gcCycleEpoch,
    pendingRoots, cycleEpoch, pc, vmPc, mainPc, fatal,
    live, words, written, phase, roots, marked, worklist, unswept,
    frames,         \* the references in the frames of each mutator
    rootValues,     \* pendingRootSummary_.rootValues
    mustPoll,       \* the mutators between an allocation and its poll
    heapBytes,      \* gcTrackedHeapBytes: every payload counts for one
    survivedBytes   \* history: what heapBytes was set to at last

Held == UNION {frames[m] : m \in Mutators}

P == INSTANCE SafepointProtocol
H == INSTANCE MarkSweep WITH held <- Held

protocol ==
    <<gcRequested, stackMapRegistry, runtimeThreads, stopRequested, mutex,
      asleep, activeMutatorCount, parkedMutatorCount, gcPending, gcCycleEpoch,
      pendingRoots, cycleEpoch, pc, vmPc, mainPc, fatal>>
heap == <<live, words, written>>
collector == <<phase, roots, marked, worklist, unswept>>
usage == <<heapBytes, survivedBytes>>
vars == <<protocol, heap, collector, frames, rootValues, mustPoll, usage>>

Init ==
    /\ frames = [m \in Mutators |-> {}]
    /\ P!Init /\ H!Init
    /\ rootValues = {} /\ mustPoll = {}
    /\ heapBytes = 0 /\ survivedBytes = 0

-----------------------------------------------------------------------------
(* The managed program, between two polls.                                 *)
Running(m) == ~fatal /\ pc[m] = "run" /\ m \notin mustPoll

LimitExceeded(bytes) == bytes > HeapLimit

LimitReached(bytes) == bytes >= HeapLimit

(* An allocation and recordManagedAllocation: at the limit it raises the   *)
(* request, unless one is up. The poll after it is next.                   *)
Allocate(m, o) ==
    /\ Running(m)
    /\ o \notin live
    /\ live' = live \cup {o}
    /\ \E content \in [Slots -> H!Word] : words' = [words EXCEPT ![o] = content]
    /\ written' = written \ ({o} \X Slots)
    /\ frames' = [frames EXCEPT ![m] = @ \cup {o}]
    /\ mustPoll' = mustPoll \cup {m}
    /\ heapBytes' = heapBytes + 1
    /\ IF LimitReached(heapBytes') /\ ~gcRequested
       THEN P!RequestByAllocation(m)
       ELSE UNCHANGED protocol
    /\ UNCHANGED <<collector, rootValues, survivedBytes>>

Store(m, o, s, v) ==
    /\ Running(m)
    /\ o \in frames[m] /\ v \in frames[m] \cup {Null}
    /\ words' = [words EXCEPT ![o][s] = v]
    /\ written' = written \cup {<<o, s>>}
    /\ UNCHANGED <<protocol, live, collector, frames, rootValues, mustPoll, usage>>

Load(m, o, s) ==
    /\ Running(m)
    /\ o \in frames[m] /\ <<o, s>> \in written /\ words[o][s] # Null
    /\ frames' = [frames EXCEPT ![m] = @ \cup {words[o][s]}]
    /\ UNCHANGED <<protocol, heap, collector, rootValues, mustPoll, usage>>

Drop(m, o) ==
    /\ Running(m)
    /\ o \in frames[m]
    /\ frames' = [frames EXCEPT ![m] = @ \ {o}]
    /\ UNCHANGED <<protocol, heap, collector, rootValues, mustPoll, usage>>

Request(m) ==
    /\ Running(m)
    /\ P!RequestExplicitly(m) \/ P!RepeatRequest(m)
    /\ UNCHANGED <<heap, collector, frames, rootValues, mustPoll, usage>>

(* invoke returns once the last managed frame has been left.               *)
Return(m) ==
    /\ Running(m) /\ frames[m] = {}
    /\ P!ReturnFromInvoke(m)
    /\ UNCHANGED <<heap, collector, frames, rootValues, mustPoll, usage>>

HeapStep(m) ==
    \E o \in Objects :
        \/ Allocate(m, o) \/ Drop(m, o)
        \/ \E s \in Slots : Load(m, o, s) \/ \E v \in H!Word : Store(m, o, s, v)

ProgramStep(m) == HeapStep(m) \/ Request(m) \/ Return(m)

-----------------------------------------------------------------------------
(* The poll that finds the flag down.                                      *)
PollPasses(m) ==
    /\ ~fatal /\ pc[m] = "run" /\ m \in mustPoll
    /\ ~gcRequested
    /\ mustPoll' = mustPoll \ {m}
    /\ UNCHANGED <<protocol, heap, collector, frames, rootValues, usage>>

(* A thread that starts resets the usage. One that parks adds the roots of *)
(* its scan to what other mutators have published; the last one to stop    *)
(* discards them all.                                                      *)
MutatorStep(m) ==
    /\ P!MutatorStep(m)
    /\ mustPoll' = IF P!Poll(m) THEN mustPoll \ {m} ELSE mustPoll
    /\ rootValues' = IF P!ParkAtSafepoint(m) THEN rootValues \cup frames[m]
                     ELSE IF P!MarkMutatorStopped(m) /\ activeMutatorCount' = 0 THEN {}
                     ELSE rootValues
    /\ IF P!ClearRequestAtStart(m)
       THEN heapBytes' = 0 /\ survivedBytes' = 0
       ELSE UNCHANGED usage
    /\ UNCHANGED <<heap, collector, frames>>

-----------------------------------------------------------------------------
(* The VM thread: collectManagedHeap runs between BeginCollection and      *)
(* ClearServedRequest.                                                     *)
BeginCollection ==
    /\ P!BeginCollection
    /\ IF vmPc' = "collect"
       THEN phase' = "roots" /\ roots' = rootValues
       ELSE UNCHANGED <<phase, roots>>
    /\ UNCHANGED <<heap, marked, worklist, unswept, frames, rootValues,
                   mustPoll, usage>>

(* A step of collectManagedHeap; the last one is updateManagedHeapUsage.   *)
Collect ==
    /\ vmPc = "collect"
    /\ UNCHANGED <<protocol, frames, rootValues, mustPoll>>
    /\ H!Collector
    /\ IF H!EndCollection
       THEN heapBytes' = Cardinality(live) /\ survivedBytes' = heapBytes'
       ELSE UNCHANGED usage

EndCycleKeepingRoots ==
    /\ phase = "mutate"
    /\ P!ClearServedRequest \/ P!FinishCycle
    /\ UNCHANGED <<heap, collector, frames, rootValues, mustPoll, usage>>

EndCycle ==
    /\ phase = "mutate"
    /\ P!ClearServedRequest \/ P!FinishCycle
    /\ rootValues' = IF vmPc = "finish" THEN {} ELSE rootValues
    /\ UNCHANGED <<heap, collector, frames, mustPoll, usage>>

Wait ==
    /\ P!VMExit \/ P!VMWaitForRequest \/ P!VMWaitForMutators
    /\ UNCHANGED <<heap, collector, frames, rootValues, mustPoll, usage>>

VMThread == Wait \/ BeginCollection \/ Collect \/ EndCycle

Surroundings ==
    /\ P!Main \/ P!SpuriousWakeup \/ P!Terminated
    /\ UNCHANGED <<heap, collector, frames, rootValues, mustPoll, usage>>

Next ==
    \/ \E m \in Mutators : ProgramStep(m) \/ PollPasses(m) \/ MutatorStep(m)
    \/ VMThread
    \/ Surroundings

Main == P!Main /\ UNCHANGED <<heap, collector, frames, rootValues, mustPoll, usage>>

Spec == Init /\ [][Next]_vars

(* The fairness of SafepointProtocol: every thread is scheduled, a running *)
(* mutator reaches a poll, and the collector is a call of the VM thread.   *)
FairSpec ==
    /\ Spec
    /\ WF_vars(Main) /\ WF_vars(VMThread)
    /\ \A m \in Mutators : WF_vars(PollPasses(m) \/ MutatorStep(m))

-----------------------------------------------------------------------------
(* The parts are well-formed together.                                     *)
TypeOK ==
    /\ P!TypeOK /\ H!TypeOK
    /\ frames \in [Mutators -> SUBSET Objects]
    /\ rootValues \subseteq Objects /\ mustPoll \subseteq Mutators
    /\ heapBytes \in 0 .. Cardinality(Objects)
    /\ survivedBytes \in 0 .. Cardinality(Objects)

(* The runtime grants the collector what it takes for granted: the roots   *)
(* it starts with are all references in the frames of the program, which   *)
(* takes no step from then until the sweep is over.                        *)
ImplementsMarkSweep == H!Spec

(* The heap limit is soft, but not forgotten: a program that is past a     *)
(* poll and at the limit has allocated nothing since the last collection,  *)
(* so what fills the heap are the survivors.                               *)
LimitHonoured ==
    \A m \in Mutators :
        Running(m) /\ heapBytes >= HeapLimit => heapBytes = survivedBytes

(* The inductive invariant, for the single mutator of runtime.cc. The heap *)
(* is being collected only while the VM thread is at it; references are in *)
(* the frames of threads that are in managed code, where the registry is   *)
(* installed; and the summary is what is in the frames of those who        *)
(* published it.                                                           *)
CollectsInCycle == phase # "mutate" => vmPc = "collect"

InvokedInRegistry ==
    \A m \in Mutators :
        /\ pc[m] \in {"new", "ready", "install", "clear", "stop", "done"} => frames[m] = {}
        /\ pc[m] \notin {"new", "ready", "install", "stop", "done"} => stackMapRegistry

SummaryOfFrames == rootValues = UNION {frames[m] : m \in pendingRoots}

UsageWithinHeap == phase = "mutate" => heapBytes <= Cardinality(live)

(* Memory allocated at the limit is on its way to a collection: its poll   *)
(* is ahead and finds the request up, or leads to the end of this cycle.   *)
Overdue == heapBytes >= HeapLimit /\ heapBytes # survivedBytes

OverduePursued ==
    Overdue =>
        /\ vmPc # "finish" /\ (vmPc = "collect" => phase # "mutate")
        /\ \A m \in Mutators :
              \/ pc[m] \in {"notifyAllocation", "run"} /\ m \in mustPoll /\ gcRequested
              \/ pc[m] \in {"handle", "registry"} /\ gcRequested
              \/ pc[m] \in {"scan", "park"}
              \/ pc[m] = "parked" /\ cycleEpoch[m] = gcCycleEpoch

RuntimeInv ==
    /\ TypeOK /\ LimitHonoured
    /\ CollectsInCycle /\ InvokedInRegistry /\ SummaryOfFrames
    /\ UsageWithinHeap /\ OverduePursued

(* An allocation that reached the limit is followed by a sweep, unless the *)
(* program ends.                                                           *)
FullHeapIsSwept ==
    (\E m \in Mutators : pc[m] = "notifyAllocation")
        ~> phase = "sweep" \/ \A m \in Mutators : pc[m] = "done"

(* A collection ends, whatever cycles the heap has, and hands the program  *)
(* back its heap.                                                          *)
CollectionEnds == phase # "mutate" ~> phase = "mutate"
=============================================================================
