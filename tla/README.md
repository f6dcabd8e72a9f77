# Verification of the managed runtime

TLA+ specifications of `lona-mvm`, the JIT runtime of the managed target of
lona: what is modelled, what TLC checks on small instances, what TLAPS proves for
every instance, and what is left.

| component | abstract | detailed | proofs | configurations |
|---|---|---|---|---|
| safepoint handshake | `StopTheWorld` | `SafepointProtocol` | `SafepointProofs` | `MCSafepointMany`, `MCSafepointOne` |
| collector | `AbstractHeap` | `MarkSweep` | `MarkSweepProofs` | `MCMarkSweep` |
| the running program | `MarkSweep` | `ManagedRuntime` (composes `SafepointProtocol` and `MarkSweep`) | `RuntimeProofs` | `MCManagedRuntime` |
| heap storage | | `ManagedHeap` | `ManagedHeapProofs` | `MCManagedHeap` |
| leaf inference, statepoints, stack scan | reference definitions | `LeafInference`, `RootScan` | `LeafInferenceProofs`, `RootScanProofs` | `MCRootScan` |
| stack-map registration | | `StackMapRegistration` | `RegistrationProofs` | `MCStackMapRegistration` |
| dispatch specialisation | | `ManagedDispatch` | `PassProofs` | `MCManagedDispatch` |
| state analysis, pointer lowering | what values hold at run time | `PointerStates`, `PointerLowering` | `PassProofs` | `MCPointerLowering`, `MCPointerProvenance` |
| heap layouts, bounds checks | what an access touches | `HeapLayout`, `BoundsChecks` | `PassProofs` | `MCBoundsChecks`, `MCProvenBases` |

`PROJECT.json` maps every definition to the lines it models and names the
hazard each property is for. Paths below are relative to `src/`, file names
without a directory are in `src/src/mvm/`.

## 1. Inventory

### How a program runs

`main` → `parseCommandLine` (`cli.cc`) → `runManagedProgram` (`runtime.cc`):

1. **Load**: `loadBitcodeModule` (`bitcode.cc`), `ManagedVerifier` (`verifier.cc`).
2. **Compile** (`pipeline.cc`, one fixed sequence on one thread): bounds checks
   → LLVM's own optimisation pipeline → dispatch specialisation → heap layout
   descriptors → lowering of managed pointers → state annotation → the GC passes of
   `gc.cc` (leaf inference, polls, allocation marking, `RewriteStatepointsForGC`).
3. **Link**: `JitExecutor::addModule` (`jit.cc`) hands the module over; the lookup
   in `invoke`, on the mutator thread, compiles and loads it. A loaded object's stack
   map is registered with `GCStackMapRegistry` (`gc.cc`); an error there is kept
   and makes `invoke` refuse to start.
4. **Execute**: `runManagedProgram` builds `RuntimeThreads`, which owns the VM
   thread, installs it in a global of `runtime_threads.cc`, and runs the program in a mutator
   thread. Main joins the mutator, uninstalls and destroys `RuntimeThreads`.

Three kinds of threads share state while a program runs: main, the mutator and
the VM thread. They interact through

- the atomic `gcRequested` (`gc.cc`), used without a lock;
- the pointers to the installed registry (`gc.cc`) and to the installed `RuntimeThreads`
  (`runtime_threads.cc`), each read and replaced under a mutex of its own, which is
  not held while what they point to is used;
- the fields of `RuntimeThreads` under `mutex_`, and its condition variable;
- the heap under `allocationRegistryMutex`.

Managed code calls the runtime (`__mvm_malloc_typed`, `__mvm_array_malloc_typed`,
`__mvm_request_gc`, the polls); the runtime never calls managed code except
through `invoke`, but native functions the program calls may.

### Components

| component | state | operations | what makes it correct |
|---|---|---|---|
| runtime threads (`runtime_threads.cc`) | counts of active and parked mutators, `gcPending_`, `gcCycleEpoch_`, the merged root summary, stop token | mutator started/stopped, notify, park, the loop of the VM thread, destruction | a collection runs only while no mutator does, has all roots, and ends; requests are not lost; shutdown ends |
| requests and polls (`gc.cc`) | `gcRequested`, the installed registry and threads | `requestGC`, poll, `__mvm_request_gc`, `handlePendingRuntimeGCSafepoint` | a raised flag always has a cycle behind it; a parking mutator is always woken |
| collector (`runtime_memory.cc`) | marks, worklist | `collectManagedHeap` | keeps what the roots reach, and frees the rest |
| heap storage (`runtime_memory.cc`) | active list, slab pages and their free lists, list of pages with room, system allocations, usage | two allocators, reclaim, sweep, owner lookup | no slot used twice or lost, the lists exact while they are being taken apart |
| leaf inference, polls, statepoints (`gc.cc`) | attributes of functions and calls | fixpoint, poll insertion, metadata | a leaf never allocates, never reaches a safepoint and ends; every loop outside leaves polls |
| stack-map registration (`gc.cc`, `jit.cc`) | records by id and address, `managedFunctionOrder`, the pending error | `recordManagedFunctionOrder`, `registerObject`, `takeRegistrationError` | every record at the address its call returns to, all of an object's records or none |
| stack scan (`gc.cc`) | registry, frame pointers | by id, by return address, walk | the right record for every managed frame |
| dispatch specialisation (`managed_dispatch.cc`) | the module, `callMap` of a round | clone, redirect, rounds | a clone only sees its kind of pointer; the rounds end |
| state analysis (`managed_state.cc`) | states of SSA values, parameters, returns, fields | fixpoint, metadata | an over-approximation of the pointers that arrive |
| pointer lowering (`managed_pointer_lowering.cc`) | replaced functions, values, phis | type of each value, checks of stores, phis and indirect calls | a module it accepts has every reference typed as one |
| heap layouts (`heap_layout.cc`) | descriptors | name to type, offsets of the pointers in a type | every pointer field is listed, and nothing else |
| bounds checks (`bounds_instrumentation.cc`) | the dominator tree of the function | search for array bases, insertion of checks | what passes the checks is in the payload; only arrays are asked for their length |
| command line, bitcode, verifier, JIT wrapper, pipeline, errors | | sequential | |

### What is hard to test

The full list with lines is under `hazards` in `PROJECT.json`. In short:

- **Interleavings of the handshake**: the test "all are parked" against starting,
  resuming and stopping mutators; the separate steps in which the flag, `gcPending_`
  and the epoch are set and cleared; a stop between a test and its sleep.
- **Long sequences of heap operations**: a reclaim during the walk over the list
  it changes, the last slot of a page, a page unmapped and mapped again, headers
  read in memory that was never initialised.
- **Garbage as input**: payloads are not cleared, and are scanned conservatively
  before the program initialises them.
- **Agreement of compile time and run time**: the leaf inference decides where
  records exist, the scan must find them, and the registration must give them
  their addresses from whatever relocations the object has.
- **Fixpoints** over cyclic call graphs that have to end and to be exact, and over
  instructions in whatever order the module has them.
- **Types by local decisions**: each value is given its type by itself; that the
  types fit and miss no reference is a property of all of them together.
- **An analysis that outlives what it describes**: the dominator tree while checks
  split the blocks.

## 2. What is modelled

### Safepoint handshake: `StopTheWorld`, `SafepointProtocol`

`SafepointProtocol` models `RuntimeThreads` completely, with the flag and the
safepoint path of `gc.cc` and the part of `runManagedProgram` that decides the
lifetimes. Variables carry the names of the fields. `mainPc`, `pc[m]` and `vmPc` are
the places of the threads. One action is what runs between two points where
another thread can intervene:

| code | actions |
|---|---|
| `runManagedProgram` (`runtime.cc`) | `ConstructRuntimeThreads` … `JoinVMThread` |
| the mutator lambda | `MarkMutatorStarted`, `InstallStackMapRegistry`, `ClearRequestAtStart`, `ReturnFromInvoke`, `MarkMutatorStopped` |
| `requestGC`, `recordManagedAllocation`, `__mvm_request_gc` | `RequestByAllocation`, `RequestExplicitly`, `RepeatRequest`, `NotifyGCRequested`, `HandleOwnRequest` |
| poll, `handlePendingRuntimeGCSafepoint` | `Poll`, `RecheckRequest`, `CheckRegistry`, `ScanRoots` |
| `parkCurrentMutatorAtSafepoint` | `ParkAtSafepoint`, `StayParked`, `Resume` |
| `vmThreadMain` | `VMExit`, `VMWaitForRequest`, `VMWaitForMutators`, `BeginCollection`, `ClearServedRequest`, `FinishCycle` |

A critical section of `mutex_` is one action, with one exception: a collection
holds the mutex, but clears `gcRequested`, which mutators use without it, so it is
three. The condition variable is the set `asleep`: `wait` enters it, `notify_all`
empties it, `SpuriousWakeup` takes anyone out. The stop token's callback wakes a
waiter, so a stop is never missed. `fatal` is `report_fatal_error`.

`gcPending` with no mutator would make the loop of the VM thread `continue`
without waiting while it holds the mutex. The model has that place (`vmPc =
"spin"`), and `VMNeverSpins` says it is not reached.

`StopTheWorld` is the promise to the collector, without locks or counts:
collections begin only when nobody runs and nobody enters until they end. The
refinement maps `running` to the started mutators that are not inside their wait.

### Collector: `AbstractHeap`, `MarkSweep`

`MarkSweep` is a program that allocates, stores, loads and drops references, and
`collectManagedHeap` with one loop iteration per action (`MarkRoot`, `Trace`,
`Sweep`). A word in a slot or a root is the allocation `findOwningAllocation` finds
for it; it may name one that no longer exists. A new payload holds any words: the code
does not clear it. The program initialises a slot before it loads from it
(`written` is a history variable for that), which is the language's own rule; the
collector cannot know and scans all slots.

`AbstractHeap` collects in one step: `allocated' = ReachableIn(...)`, with
reachability as the least closed set. The refinement maps `allocated` to
`Survivors`, what the collection in progress will leave; the abstract step is
taken when the sweep begins.

Mutators are stopped during a collection in this module, and the collector is
given all roots; `ManagedRuntime` shows that the runtime grants both. With `ScanPrecise` a
thread's summary has every managed frame the walk promises.

### The running program: `ManagedRuntime`

The composition of `SafepointProtocol` (as `P`) and `MarkSweep` (as `H`), with what lies
between them: the references in the frames of each mutator, the summary that
parked mutators merge into `pendingRootSummary_.rootValues`, the usage and the heap limit.
Nothing in it forbids a mutator to touch the heap during a collection and nothing
gives the collector a root that no summary has. A mutator uses the heap whenever it
runs; an allocation raises the request at the limit (`recordManagedAllocation`) and is
followed by its poll; `Collect` is a step of `collectManagedHeap` while the VM
thread is between `BeginCollection` and `ClearServedRequest`, and its last step
stores the usage.

`ImplementsMarkSweep` says that this is a behaviour of `MarkSweep`: the collection
starts with all references of the frames and the program takes no step until it is
over. `LimitHonoured` (in `RuntimeInv`) is what the soft limit comes to: a program that has
passed its polls and is at the limit has allocated nothing since the last
collection. `survivedBytes` is a history variable for it.

The usage counts every payload for one byte; a request and the allocation that raises it are one
step, since nobody else can act on the usage in between with the mutators of `runtime.cc`.

### Heap storage: `ManagedHeap`

Headers live inside the memory they describe. `next` serves the active list while a
header is live and the free list of its page afterwards, and survives the page's
release in the memory of the next page at the same address. The model keeps these
facts: `next`, `live` and the other header fields are functions over all headers
and are not reset when a page goes. A sweep is one action for each header;
allocation and reclaim are one each, as the mutex makes them. There is one slab class
(classes share nothing but the list of active headers), and arrays have one-byte
elements. Choosing the class, the search in the page table and the address
arithmetic of a slot are abstracted.

Headers of slots that were never used are read by `findOwningSlabAllocation`.
`malloc` memory is taken to hold what earlier pages left there and no other words
that look like a live header; see section 6.

### Leaf inference, polls and stack scan: `LeafInference`, `RootScan`

`LeafInference` takes every program of a bounded size and runs the rounds of
`inferManagedGCLeafFunctions`. The reference definition is about chains of calls:
no chain reaches a loop or a call out of the module, and none goes round.

`RootScan` then runs the program with the polls and records that follow from
the leaves: calls, loops, allocations, native functions that request a collection
or call back, a bounded stack. At a safepoint it models `scanCurrentSafepointByID`
(polls) and `scanCurrentSafepoint` (the probe from `__mvm_request_gc`), exact and
nearest lookup with its maximal distance, and the walk with its depth limit, one caller per
action. A frame stands for its roots; a frame counts as scanned correctly when
it is scanned with the record of the call it is suspended in.

### Stack-map registration: `StackMapRegistration`

Continues from the leaves: the object's stack map lists the functions with
records; each gets its address from a relocation against its symbol, one against
the section (whose addend the code does not read), the metadata list by position, or
the symbol at or below the address in the field. The model takes every mix of
these, names with and without the platform's prefix, a malformed record, and
library calls LLVM treats as leaves. Records are published together at the end;
an error is kept, and `invoke` rejects the program.

### Dispatch specialisation: `ManagedDispatch`

Functions have one pointer parameter and calls with arguments of a known state or
their own parameter. A round computes the states (`ParamStates`, the fixpoint of
the analysis restricted to parameters and direct calls), records the signature of
each call, then clones and redirects one function per action. The code takes
functions in the order of the module; the model takes any order, which includes it.
Callees come later in the module than callers: no recursion, see section 6.

### State analysis and pointer lowering: `PointerStates`, `PointerLowering`

`PointerStates` is `ManagedStateAnalysis` by instruction: what each visit learns of the
value, of the location it addresses and, for a store, of its operand. Slots, aggregates on the stack, the
addresses of pointer fields (`gep`) and of other elements (`offset`), phis, selects, parameters, direct calls
and native results are instructions of a program. A parameter has the arguments of two
calls and a call a function with two returns; for the lowering, the type of the call is that of what the
function returns (`TypeOf`).

`PointerLowering` runs the rounds for several orders of the module at once, and beside
them the reference: what each value may point to in a run of the program, as the
least fixpoint of a flow through memory (`Flow`). Then it gives types as `lowerLoad`,
`lowerPhi`, `lowerGEP`, … do, and decides whether the module is accepted (`Accepted`: the checks of
stores and phis, and that the function is lowered at all).

`ReferencesTyped` is the soundness of analysis and lowering together, of any module: it has no condition on what
the program does elsewhere. It says of which references the code keeps track, by following them
(`FollowedReferences`). `Arrives` goes from value to value, `IsBehind` through memory:

- in the heap a reference is followed whatever name it was stored under, if it is loaded through the address of a field, or
  through an address under which no pointer is stored, as an allocation or a loaded pointer that is
  read at its first word;
- where pointers are stored through an allocation itself (a store to the first field, whose zero `gep` the
  optimiser removes before this pass), one of those stored under that name has to be a reference;
- on the stack and in globals, aggregates included, it is followed under the name it was stored under.

Each value so reached is of managed type, unless the analysis takes it for several kinds. What the two
definitions leave out is where the code loses references: a load through a name of heap memory under which only
nulls and native pointers are stored, a load from the stack under another name than the store's, a field of a
base of mixed kinds, and the second operand of a select whose types disagree (`SelectAgrees`, which the
code leaves to an assertion of LLVM). The property asks for no acceptance: the checks of stores and phis are not needed for it.
`LoadsKeepProvenance` is what the documentation says of the first two of these places and is violated, see section 6. In it,
`ReferencesApart` keeps modules out that mix native pointers and references.

`OrderIrrelevant` compares orders: where one finds no mix of kinds (`Definite`), none finds a kind that it did
not, and all those without a mix decide alike. Without `Definite` it would not hold, see section 6.

### Heap layouts and bounds checks: `HeapLayout`, `BoundsChecks`

`HeapLayout` goes from the name of a type (with its suffixes) to the type, the offsets of its
pointers, and the words `scanAllocationPayload` reads by them. Sizes and offsets of fields are
LLVM's: they are constants (`SizeOf`, `OffsetOf`) of which `LayoutAssumption` says what LLVM
promises, and `MCBoundsChecks` gives them the natural layout. `BoundsChecks` runs
`injectBoundsChecks` over a function in a chain of blocks, with the dominator
tree becoming outdated as it does and a slot that may escape, and then an access: an array of any length, an index
of either width for the element and for each array on the way into the type, with
addresses computed by sign-extension and checks by zero-extension (`Signed`,
`NormalizeIndex`). An access that passes lies in the payload
(`CheckedAccessInPayload`); a pointer is stored only where a collection
looks, and a collection looks at nothing else (`PointersAreScanned`): the descriptor is
checked against the accesses that use the type.

## 3. What the runs check

| run | instance | states | shows |
|---|---|---|---|
| `safepoint_many` | 3 mutators, 2 epochs, symmetry | 11 k | `SafepointInv`; the world is stopped while the VM thread collects, requests are not swallowed, nobody parks for a cycle that will not come, the summary is that of this cycle, `RuntimeThreads` outlives its users; refinement of `StopTheWorld` |
| `safepoint_one` | 1 mutator, 3 epochs, fairness | 0.2 k | roots of all mutators; parked mutators resume, requests are served, shutdown completes |
| `mark_sweep` | 4 objects, 1 slot, symmetry | 354 k | `MarkSweepInv` (tri-colour, marks exact), no dangling reference, survivors = reachable; refinement of `AbstractHeap` |
| `managed_runtime` | 1 mutator, 2 epochs, 3 objects, 1 slot, limit 2, fairness | 357 k | refinement of `MarkSweep`; the limit is honoured; a heap at its limit is swept, collections end |
| `managed_heap` | 2 pages × 2 slots, 1 block, arrays of 0 and 3 bytes, fairness | 86 k | lists, free lists, pages, owners and usage exact at each header of a sweep; sweeps end |
| `root_scan` | 2 functions, 2 calls, 4 frames, walk and probe of 2, fairness | 157 k | leaf inference exact; scans precise; a record is always found; managed code reaches a safepoint or its end |
| `stack_map_registration` | 2 functions, 1 call | 659 k | started only with exact records; all or nothing |
| `managed_dispatch` | 3 functions, 2 calls, fairness | 75 k | clones keep their kind, kinds arrive, rounds end |
| `pointer_lowering` | 11 instructions, 2 orders | 564 k | references that can be followed are typed as references; the order does not matter |
| `bounds_checks` | 10 instructions or a type nested three deep, arrays of 0 to 3 elements, indices of 2 and 4 bits | 166 k | checked accesses stay in the payload, pointers are where the collector looks, the length is asked of arrays only |
| `pointer_provenance` | 7 instructions | | **violated**: loads from memory that holds references are managed |
| `proven_bases` | as `bounds_checks` | | **violated**: a base that can be proven an array is checked |

Every property of every run has a mutant in `PROJECT.json`: a plausible bug in a
modelled definition that the run detects. The operators the mutants use are kept in
the modules, next to the definitions they vary (`ParkForgettingRoots`,
`BeginBeforeAllParked`, `SweepReadingNextLate`, `PublishAtOnce`, …); no specification
uses them.

### Why the bounds are enough

- *Mutators* (3): one to park, one to resume and one to start or stop meanwhile.
  One mutator is the real program; the proofs remove the bound for everything but liveness.
- *MaxEpoch* (2, 3): a cycle, its successor with somebody still waking from the first,
  and one more. It stops raising requests and nothing else; a cycle that is
  under way finishes. `cycleEpoch` is only ever compared with the current epoch.
- *Objects and slots*: chains, sharing, cycles and a self-reference next to garbage
  need three objects, the fourth is a stale word's target. A second slot adds no
  shape of sharing the fourth object does not have; the proofs cover all numbers of both.
- *Pages and slots*: a page can be fresh, partly used, full with and without a free
  list, and released; two pages give every position in a list of two, and the
  system block a third kind of neighbour in the active list.
- *Functions, calls, frames*: two functions give a leaf and a non-leaf, self and
  mutual recursion; four frames exceed a walk of two below a probe of two, which
  stand for 256 and 8. A distance of 40 covers all of the managed code and none of the
  native address, as 4096 does for small modules.
- *Composition*: with three objects and a limit of two the limit is reached once
  before and once after a collection; the two epochs make the second collection start with
  what the first left. One mutator is the real
  program; section 6 says what two change.
- *Lowering*: two stores and two loads are the least for a fact to travel through
  memory twice, the join can be cyclic (through its own address), and two opposite
  orders see each fact early and late. Stores go to the object's own name, to the slot, a field or the
  join, with a native pointer among what is stored, or to a field of an aggregate on the stack; the loads are from the
  object, the slot, the field, the join and an address in it, whatever was stored where. The proofs remove the bounds.
- *Bounds*: 2 and 4 bits have indices that are negative in one width and not in the
  other, and lengths of three reach past the positive half of two bits. Two blocks before the
  last access, each with something that splits it, give every position of a store to a split.
  The proofs remove the bounds on functions, types, lengths and widths.
- *Registration*: two functions are the least for a list to be shifted.
- *Dispatch*: three functions let a kind pass through a middle one, two calls let
  two kinds meet.

`SYMMETRY` is used only in configurations without liveness; `CHECK_DEADLOCK` is
never switched off. A terminated program stutters by an explicit disjunct.

### Fairness

- `SafepointProtocol`: weak fairness of `Main`, of `VMThread` and of each
  `MutatorStep(m)`: the operating system schedules every thread, a free mutex is obtained, and a
  running mutator that sees the flag up reaches a poll, since there is one after each allocation
  and in each loop (`SafepointReached` is the check of this assumption). What the program
  chooses, to allocate, request or return, is not forced, nor are spurious wakeups.
- `ManagedRuntime`: the same, with the poll after an allocation among the steps of a mutator and the
  collector among those of the VM thread, a sequential call. The uses of the heap are not forced.
- `ManagedHeap`: weak fairness of the sweep, a sequential call.
- `RootScan`: weak fairness of `Execute`: managed code runs on. Native code is part of
  it, so a native function that never returns is outside this property.
- `ManagedDispatch`: weak fairness of `Next`, a sequential pass.

## 4. What is proved

TLAPS checks these for all values of the constants, from the named assumptions of the
modules only:

| assumption | says |
|---|---|
| `MutatorsAssumption`, `MaxEpochAssumption`, `ThreadsAssumption` | finitely many mutators, the VM thread is none of them; a number of cycles |
| `NullAssumption`, `HeapAssumption`, `HeapLimitAssumption` | the null word is no object; in the composition finitely many objects and a positive limit |
| `PagesAssumption`, `SizesAssumption` | finitely many pages and blocks, at least one slot to a page, all different from each other and from the null pointer; objects have a size |
| `FunctionCountAssumption`, `ArgumentsAssumption` | functions and the calls of each are numbered; arguments have a state |
| `LimitsAssumption` | the walk and the distance have limits, and the probe looks at two frames or more (the constant in the code is 8, `gc.cc:1416`) |
| `SectionBaseAssumption` | the address of the section is not null |
| `ModulesAssumption` | modules are well-formed, and a round of the analysis visits every instruction |
| `TypesAssumption`, `LayoutAssumption` | no type contains itself; elements lie without gaps, fields in their order, side by side and within the struct, with or without padding |
| `CasesAssumption`, `WidthAssumption` | functions are well-formed; indices have two widths, one narrower |

**The handshake**, `SafepointProofs`: `SafepointInvariant` (`Spec => []SafepointInv`) and from it
`TypeCorrect`, `CollectsInStoppedWorld`, `RequestsReachTheVMThread`,
`ParksForAPendingCycle`, `SummaryIsOfThisCycle`, `OutlivesMutators`; then
`SingleMutatorRoots` and `ImplementsStopTheWorld`.

None of the safety properties is inductive alone. `WorldStopped` follows when a
collection begins from the counters, so `CountsAgree` says that they are the
cardinalities of the sets of threads they stand for: finite-set lemmas
(`CountAdd`, `CountRemove`, `AllParked`) turn `parked >= active` into "everybody active
is parked". It then stays true because nobody can start, resume or stop
without the mutex (`MutexHeldToCollect`). `NoSwallowedRequest`, `NoStrandedPark` and
`VMNeverSpins` rest on each other: the flag implies a pending cycle or a notifier, a
pending cycle implies an active mutator, a cycle ends for all parked at its epoch
(`EpochsPassed`). `LifecycleInv` says that mutators live between `SpawnMutators` and
`JoinMutators`. There is one lemma for each group of actions that disturb the
same conjuncts; `InvNext` combines them.

`SingleMutatorRoots` assumes at most one mutator and proves that a
collection has the roots of every started one, through `ResumesBeforeNextRequest`. The
assumption is needed, see section 6.

**The collector**, `MarkSweepProofs`: `CollectorInvariant` (`Spec => []MarkSweepInv`), from it
`NothingDangles` and `SweepsExactly`, then `ImplementsAbstractHeap`. The
invariant adds to the tri-colour property what each phase knows (`CollectionInv`)
and that marks are a subset of the reachable objects. Reachability is a least
closed set, so that no induction is needed: when the worklist is empty the
marked objects are closed and contain the roots, hence contain `Reachable`, and
`OnlyReachableMarked` is the converse.

**The running program**, `RuntimeProofs`, for any heap, limit and number of cycles and at most
one mutator (`\A m, n \in Mutators : m = n`, the program of `runtime.cc`; observation 1 in
section 6 is why): `RuntimeInvariant`, and `ImplementsCollector`, which is `Spec => ImplementsMarkSweep`.
The composition's steps are steps of the handshake (`HandshakeKept`), so that
`SafepointInv` and `RootsCoverAllMutators` are at hand. `RuntimeInv` adds what ties the two parts together:
the heap is under collection only in the VM thread's place for it (`CollectsInCycle`),
the summary is the frames of those who published it (`SummaryOfFrames`), and an
allocation at the limit is being pursued by a poll, a parked thread or a collection
(`OverduePursued`, without which `LimitHonoured` is not inductive). With both refinements two
results about the collector alone become results about the program: `ProgramNeverDangles`, that no
reference it holds or can load is to a reclaimed allocation, and
`ProgramSeesAbstractHeap`, that to it a collection is one step of `AbstractHeap`.

**Heap storage**, `ManagedHeapProofs`: `HeapInvariant`, then `ActiveListIsExact`, `PagesAreExact`,
`NonFullListIsExact`, `OwnersLive`, `SweepKeeps` and `UsageTracks`. The invariants of the module
say with `Chain` what following the links finds. That is nothing to do induction on; `HeapInv` says instead
that there is a sequence which enumerates the members and which the links follow (`IsDoubleList`,
`IsList`). Lemmas that know nothing of the heap (`PushFrontDouble`, `PopFront`, `Unlink`, …) say what becomes
of the sequence, and `ChainOfList` leads back to `Chain`. The parts of `HeapInv`: the active list; for each page its free list, which
with its live slots makes up the used ones; the pages with room, the links of
all others being clear; and `SweepRemains`, that the links from the cursor on list live
headers with all marked ones among them. The last is what makes it safe to reclaim from the list under the
walk: the header after the cursor is read before its link is reused, and no link of the rest leads to the reclaimed header.
For the usage, a sum of payloads is the number of pairs of a header and a byte of it (`Total`); a sum
over a set that grows is then a fact about cardinalities, and `HeapBytesIsSum` shows that the
fold `HeapBytes` comes to it in whatever order it chooses.

**Leaf inference and scan**, `LeafInferenceProofs` and `RootScanProofs`: `InferenceIsExact`,
`RecordAlwaysFound`, `ScanIsPrecise`. `LeafInv` gives each leaf a rank, in the order in which
they were found; a leaf has no loop and calls nothing but leaves of lower rank (`Ranked`), so that no
chain of calls from it goes round or leaves the leaves. `RoundComplete` is the converse: when a round finds nothing, each
other function has a callee that keeps it from being a leaf, which gives the chain the
reference definition asks for. `RootInv` says of the stack that each frame below the top waits at a call of
the one above it (`StackOK`), hence has a record unless that is a leaf, and a leaf never comes to
a safepoint; and of a scan in progress that it has done the frames from the
newest one down to its own (`ScannedTo`).

**Registration**, `RegistrationProofs`: `RegistersAllOrNothing` and `RegistersExactly`. `RegInv` says that what was
loaded so far are records of the functions dealt with so far, each at the address its relocation gives, and
that nothing is published before all are. Where `Resolvable` holds, addresses are those of the functions; that the
list by position is not shifted there follows from both lists being the functions in order (`Sorted`).

**Dispatch**, `PassProofs`: `ClonesSeeTheirKind` and `KindsArrive`. The states of a round are the least
ones closed under calls (`StatesFixed`, `StatesLeast`), because calls go down the module. In the middle of a
round they are not those of the module as it is then, half redirected. So `DispatchInv` does not
speak of them: it says that *some* assignment of states is closed under the calls and fits the kinds of
the clones and the signatures recorded for calls (`Witness`); the least one is below it. The calls of functions still
pending are as they were recorded (`RecordsOK`), and a round that changed nothing had nothing to
clone (`NothingToClone`); at the end of the last one this gives `KindsArrive`.

**Lowering**, `PassProofs`: `ReferencesAreTyped` and `OrderDoesNotMatter`, of `LoweringSpec` (the specifications
of the passes have names of their own, so that one module can extend them all). A visit only adds to what is known
(`VisitGrows`), so that a round which changes nothing is one in which no visit does (`RoundSettles`): at the
end the analysis is `Settled`. What is known of a settled analysis is enough for the references: an
address that a reference is followed to is known to hold pointers of some managed kind, and a value to be of one
(`FollowedOK`). Each step of following keeps that (`FollowKeeps`): where a reference arrives from, it
arrives as one (`ArrivesTyped`), and behind an address it was stored under it is known, because of the entry the
store made or, where there is none, because a managed address stands for its own kind (`BehindKnown`, `NoEntry`).
No invariant about the flow through the rest of memory is needed, and so no condition on it. For the
order, `OrderInv` says that whatever was learned in some order exceeds no settled definite knowledge: a visit that learns from less
learns no more (`VisitNoMore`), although what an address and a store learn does not simply grow with what is known of
their operands. Two orders that end definite exceed neither the other, up to null, which no kind and no type
depends on (`SameLowering`).

**Bounds checks**, `PassProofs`: `ChecksKeepToPayload`, `PointersScanned` and `LengthsOfArrays`, of `BoundsSpec`.
Neither of the first two says anything before an address is complete. `AccessInv` speaks of the way to it: the part of the payload
that the indices so far have chosen lies within the payload, and its pointers by type are those a collection
scans there (`InPart`). An index or a field leads from such a part to a smaller one (`ElementInside`, `IndexInside`,
`FieldInside`), since elements and fields lie apart (`ElementsApart`), pointers within their type (`OffsetsInside`), and the same type
further on has its pointers further on (`OffsetsMoved`), which are inductions over the nesting of types. The checks come in with
`SignedIs`: a pattern below a length that the positive half of its type can hold is the same number sign-extended.
`LengthsOfArrays` gives each recognised base a certificate that does not mention the search, a set of values of which each is an allocation, or a
load, phi or select of values of the set (`Certified`). `SearchSound` finds it for a search that succeeded, whatever was
visited before and whatever dominator tree it asked; `CertifiedIsArray` follows the values at run time back along it.

The library's induction theorems are out of reach here, since they take a predicate as a parameter.
Where induction over numbers is needed it is over a set: one that has 0 and, with each
number, the next is `Nat` (`SetInduction`), from the well-foundedness of `<` (`NatLessThanWellFounded`, `WFMin`). With that recursive
*functions* can be reasoned about, once one shows that a function with the recursion equation
exists (`Recursion`, `Iteration`): `Chain`, `ParamStates`, `Search`, `CollectPointerOffsets`, the folds.

### Only model-checked

- **Liveness**: `ParkedMutatorResumes`, `RequestServed`, `ShutdownCompletes`, `FullHeapIsSwept`,
  `CollectionEnds`, `SweepEnds`, `SafepointReached`, `SpecializationEnds`. Weak fairness is said with `ENABLED`,
  which the prover does not expand.
- The **composition with two mutators or more** does not have the properties proved for one.

## 5. What is not modelled

- **The metadata and the text** the state analysis and the passes write for readers of the IR.
- **In the lowering**: cloning of functions and instructions, comparisons of
  pointers, and the modules refused for an address-taken function or an invoke.
- **Vectors and types of no size** in layouts and bounds checks. Packed structs are in no run; the proofs
  hold for them, as for any layout with its fields in order.
- **`parseHeapSize`** and the rest of the command line: sequential, without state; a saturated
  limit is larger than any heap.
- **Bitcode, verifier, JIT wrapper, command line, pipeline, errors**: sequential
  calls of LLVM or the C library without state of their own.
- **LLVM's own passes** are outside `src/` and are modelled by their effect:
  `RewriteStatepointsForGC` gives a record to each call that is not the call of a leaf.
- **Decoding the root locations** of a record is abstracted to "this frame's roots".

## 6. Observations

Two contradict the documentation and are the project's findings, each with a run
that TLC refutes:

- **Provenance of loads** (`pointer_provenance`). `docs/architecture.md:302` has managed states
  propagated through slot loads and stores, phis and calls. A slot
  whose address went through a phi or a parameter is not told of stores through
  it (`managed_state.cc:379`): after `store null, slot; p = phi slot; store
  object, p` a load of the slot is taken to yield null only. Likewise, a null stored through an
  allocation itself replaces what `getLocationState` assumes of managed memory
  (`managed_state.cc:134`), and a later load does not see what came in by another
  name: a first field, since its zero `gep` is gone by then, that is initialised with null and set elsewhere.
  What the stack holds under other names is lost in the same way, aggregates included: a load
  through an address of an aggregate gives what was stored under that address, and is raw otherwise
  (`managed_state.cc:139`). The load is lowered as a raw pointer, without an error, and is no root.
- **Proven array bases** (`proven_bases`). `README.md:198` and `docs/architecture.md:207`
  have every access checked that is rooted in `__mvm_array_malloc`, or whose base can be
  proven to be. `injectBoundsChecks` computes the dominator tree once
  (`bounds_instrumentation.cc:289`) and each check splits a block behind its back: a store
  after a check counts as unreachable, dominates nothing, and the base loaded from its
  slot is not recognised, although it was before the injection.

The others contradict no document or comment; they are conditions the properties above hold
under.

1. **More than one mutator.** `parkedMutatorCount_` is decremented by the mutator
   that wakes up (`runtime_threads.cc:73`), not by the cycle that ends. With
   two mutators, one that has not yet left its wait counts as parked for the next
   cycle, while its roots are not in the new summary. The world is stopped
   (`WorldStopped` is proved for any number), but its roots are missing.
   `runtime.cc` starts a single mutator, for which `SingleMutatorRoots` is proved. The second
   reading of the registry on the way to a scan (`gc.cc:554`, after `gc.cc:1620`) would be
   fatal with a second mutator, which clears it when it stops; with one nobody does. In the
   composition `ImplementsMarkSweep` holds for two mutators up to the end of the first collection, and
   the second then starts without the roots of one of them. A second mutator that starts clears the request of the first
   (`ClearRequestAtStart`) while `gcPending_` stays, and resets the usage, so that `RuntimeInv` and
   `FullHeapIsSwept` need the single one, too.
2. **Recursive functions in dispatch specialisation.** A recursive function called with two
   kinds of pointer is cloned again each round: its clone calls the original
   with its own kind, which then again has calls of different kinds. Termination is
   checked for acyclic programs.
3. **Uninitialised payloads and headers.** Payloads are scanned before they are
   initialised, so a stale word may keep garbage alive
   (`OnlyReachableMarked` counts such words as references). A slot never used has
   its header read in `malloc` memory (`runtime_memory.cc:540`).
4. **Lost frames.** The walk stops after 256 callers and at the first frame without a
   record, so deeper frames and those below a native function that called back
   are not scanned (`gc.cc:1290`). `ScanPrecise` states what is found and promises no
   more. The probe of `__mvm_request_gc` looks at eight frames.
5. **Irreducible loops** are not seen by `functionHasLoop` (`gc.cc:181`).
6. **Registration by section or position.** The addend of a section-relative relocation
   is not read (`gc.cc:1015`), so functions with local symbols, dispatch
   clones among them, would share the address of the section. The positional fallback is
   shifted by a managed function without records (`gc.cc:1072`).
   `Resolvable` is the condition under which addresses are promised.
7. **Heap limit.** It triggers a request and limits nothing: a heap of survivors at the
   limit stays there (`LimitHonoured`), with a request after each allocation. An empty array counts for
   no bytes when it is allocated and for one after it survived a collection
   (`UsageTracksPayloads`).
8. **Mixed kinds.** A value that may be an object or an array is of no kind and
   lowered raw (`OfOneKind` excludes it). Nothing is known of the fields behind an address whose base is of
   mixed kinds (`managed_state.cc:398`), and what is loaded from them is raw (`IsBehind` does not follow it).
   The types of selects, call arguments and returned values are not compared with what their users
   expect, unlike those of stores and phis. A select takes the type of its first operand, whatever its own kind
   (`managed_pointer_lowering.cc:622`): with a raw one, from a field of which nothing was known, it is raw although its
   second operand is a reference. LLVM has an assertion against it, release builds do not (`SelectAgrees`).
9. **Order of mixed kinds.** A pointer stored into managed memory is taken to be of the kind of its place
   (`managed_state.cc:246`), which depends on what is known of the place and of the pointer at that
   time. Of an object stored to a pointer that was loaded from an array, the order of the program finds that it
   is an object, and an order in which the store comes between the load and the allocation that it may be either. `OrderIrrelevant` is said of modules without such a mix (`Definite`).
10. **The search for array bases** keeps its set of visited values across branches:
   a select or phi with the same operand twice, or a phi of itself, is no array to it. Such bases are
   never proven and make no finding; their accesses have no check.
11. **Narrow indices** are zero-extended for the check and sign-extended for the address
   (`bounds_instrumentation.cc:45`). The two differ where an index is negative, which the check refuses
   as long as the length fits the positive half of the type (`run.fits`).

## 7. Plan

Done so far, most important first: the handshake, the collector, storage, leaf inference and scan,
registration, dispatch, the composition of handshake and collector, state analysis and lowering,
layouts and bounds checks; and the proofs of all of these.

Left: `SafepointProtocol` for many mutators, if the runtime comes to start them: a
cycle that ends would have to reset `parkedMutatorCount_`.

## 8. Running

    tlasany SafepointProtocol.tla
    tlc -workers 2 -config MCSafepointMany.cfg MCSafepoint
    tlapm SafepointProofs.tla

`RootScan`, `ManagedHeap`, `ManagedRuntime`, `ManagedDispatch` and `StackMapRegistration` are
instantiated by their configurations directly: they need no definitions beyond numbers and sets. Each
configuration finishes within a minute or two.
