------------------------------ MODULE MarkSweep ------------------------------
(***************************************************************************)
(* The mutator's use of the managed heap and collectManagedHeap of         *)
(* runtime_memory.cc, one iteration of its loops per action.               *)
(*                                                                         *)
(* A word in a reference slot or in a root stands for the allocation that  *)
(* findOwningAllocation finds for it, interior pointers included; it may   *)
(* name an allocation that no longer exists, and then nothing owns it. The *)
(* allocations' storage, their sizes and the order of the active list are  *)
(* the subject of ManagedHeap. Mutators are stopped during a collection:   *)
(* that is what SafepointProtocol establishes.                             *)
(***************************************************************************)
EXTENDS Naturals

CONSTANTS Objects,      \* the allocations the heap can hold
          Slots,        \* the reference slots of an allocation
          Null

ASSUME NullAssumption == Null \notin Objects

VARIABLES
    live,           \* the allocations on the active list
    words,          \* the content of their reference slots
    written,        \* history: the slots the program has initialised
    held,           \* the references in the mutator's frames
    phase,          \* where collectManagedHeap is
    roots,          \* the root values still to be marked
    marked,         \* the headers whose mark is set
    worklist,       \* the payloads still to be scanned
    unswept         \* the headers the sweep has not visited

program == <<words, written, held>>
vars == <<live, program, phase, roots, marked, worklist, unswept>>

Word == Objects \cup {Null}

(* What the collection under way leaves on the active list.                *)
Survivors == live \ (unswept \ marked)

Abs == INSTANCE AbstractHeap WITH allocated <- Survivors

Reachable == Abs!ReachableIn(live, words, held)

TypeOK ==
    /\ live \subseteq Objects
    /\ words \in [Objects -> [Slots -> Word]]
    /\ written \subseteq Objects \X Slots
    /\ held \subseteq Objects
    /\ phase \in {"mutate", "roots", "trace", "sweep"}
    /\ roots \subseteq Objects
    /\ marked \subseteq Objects /\ worklist \subseteq Objects
    /\ unswept \subseteq Objects

Init ==
    /\ live = {} /\ held = {} /\ written = {}
    /\ words = [o \in Objects |-> [s \in Slots |-> Null]]
    /\ phase = "mutate"
    /\ roots = {} /\ marked = {} /\ worklist = {} /\ unswept = {}

collector == <<phase, roots, marked, worklist, unswept>>

-----------------------------------------------------------------------------
(* __mvm_malloc_typed and __mvm_array_malloc_typed: the payload keeps what *)
(* its memory held before, so a slot starts with any word.                 *)
Allocate(o) ==
    /\ phase = "mutate"
    /\ o \notin live
    /\ live' = live \cup {o}
    /\ held' = held \cup {o}
    /\ written' = written \ ({o} \X Slots)
    /\ \E content \in [Slots -> Word] : words' = [words EXCEPT ![o] = content]
    /\ UNCHANGED collector

(* The managed program: it initialises a slot before it loads from it.     *)
Store(o, s, v) ==
    /\ phase = "mutate"
    /\ o \in held /\ v \in held \cup {Null}
    /\ words' = [words EXCEPT ![o][s] = v]
    /\ written' = written \cup {<<o, s>>}
    /\ UNCHANGED <<live, held, collector>>

Load(o, s) ==
    /\ phase = "mutate"
    /\ o \in held /\ <<o, s>> \in written /\ words[o][s] # Null
    /\ held' = held \cup {words[o][s]}
    /\ UNCHANGED <<live, words, written, collector>>

Drop(o) ==
    /\ phase = "mutate"
    /\ held' = held \ {o}
    /\ UNCHANGED <<live, words, written, collector>>

-----------------------------------------------------------------------------
(* markAddress on a set of words, on top of what is already queued: their  *)
(* owners are marked and, unless they were before, queued for scanning.    *)
MarkWithoutQueueing(targets, queue) ==
    /\ marked' = marked \cup (targets \cap live)
    /\ worklist' = queue

MarkUnowned(targets, queue) ==
    LET fresh == (targets \ {Null}) \ marked
    IN  /\ marked' = marked \cup fresh
        /\ worklist' = queue \cup fresh

MarkAgain(targets, queue) ==
    LET fresh == targets \cap live
    IN  /\ marked' = marked \cup fresh
        /\ worklist' = queue \cup fresh

MarkAddresses(targets, queue) ==
    LET fresh == (targets \cap live) \ marked
    IN  /\ marked' = marked \cup fresh
        /\ worklist' = queue \cup fresh

(* The VM thread hands the summary of the parked mutators to the collector *)
(* (the loop that counts the heap before is left out).                     *)
BeginCollection ==
    /\ phase = "mutate"
    /\ phase' = "roots"
    /\ roots' = held
    /\ UNCHANGED <<live, program, marked, worklist, unswept>>

MarkRoot(r) ==
    /\ phase = "roots" /\ r \in roots
    /\ roots' = roots \ {r}
    /\ MarkAddresses({r}, worklist)
    /\ UNCHANGED <<live, program, phase, unswept>>

BeginTrace ==
    /\ phase = "roots" /\ roots = {}
    /\ phase' = "trace"
    /\ UNCHANGED <<live, program, roots, marked, worklist, unswept>>

(* One payload popped and scanned: every reference slot of the descriptor, *)
(* of every element of an array.                                           *)
ScanAllocationPayload(o) == {words[o][s] : s \in Slots}

Trace(o) ==
    /\ phase = "trace" /\ o \in worklist
    /\ MarkAddresses(ScanAllocationPayload(o), worklist \ {o})
    /\ UNCHANGED <<live, program, phase, roots, unswept>>

BeginSweepEarly ==
    /\ phase = "trace"
    /\ phase' = "sweep" /\ unswept' = live /\ worklist' = {}
    /\ UNCHANGED <<live, program, roots, marked>>

BeginSweep ==
    /\ phase = "trace" /\ worklist = {}
    /\ phase' = "sweep" /\ unswept' = live
    /\ UNCHANGED <<live, program, roots, marked, worklist>>

SweepKeepingAll(o) ==
    /\ phase = "sweep" /\ o \in unswept
    /\ unswept' = unswept \ {o}
    /\ marked' = marked \ {o}
    /\ UNCHANGED <<live, program, phase, roots, worklist>>

(* A marked header loses its mark, an unmarked one is reclaimed.           *)
Sweep(o) ==
    /\ phase = "sweep" /\ o \in unswept
    /\ unswept' = unswept \ {o}
    /\ marked' = marked \ {o}
    /\ live' = IF o \in marked THEN live ELSE live \ {o}
    /\ UNCHANGED <<program, phase, roots, worklist>>

EndCollection ==
    /\ phase = "sweep" /\ unswept = {}
    /\ phase' = "mutate"
    /\ UNCHANGED <<live, program, roots, marked, worklist, unswept>>

Collector ==
    \/ BeginTrace \/ BeginSweep \/ EndCollection
    \/ \E o \in Objects : MarkRoot(o) \/ Trace(o) \/ Sweep(o)

Mutator ==
    \E o \in Objects :
        \/ Allocate(o) \/ Drop(o)
        \/ \E s \in Slots : Load(o, s) \/ \E v \in Word : Store(o, s, v)

Next == Mutator \/ BeginCollection \/ Collector

Spec == Init /\ [][Next]_vars

-----------------------------------------------------------------------------
(* What the program can name exists: the references in its frames, and the *)
(* initialised slots of whatever the collector leaves.                     *)
NoDanglingReference ==
    /\ held \subseteq Survivors
    /\ \A o \in Survivors, s \in Slots :
          <<o, s>> \in written => words[o][s] \in Survivors \cup {Null}

(* Marks do not outlive a collection: markAllocation would take a stale    *)
(* mark for an object already queued, and never scan it.                   *)
MarksOnlyInCollection ==
    phase = "mutate" => marked = {} /\ worklist = {} /\ unswept = {} /\ roots = {}

(* A marked object that is not queued has no unmarked successor, and no    *)
(* root is forgotten.                                                      *)
TriColour ==
    phase \in {"roots", "trace"} =>
        /\ held \cap live \subseteq marked \cup roots
        /\ \A o \in marked \ worklist, s \in Slots :
              words[o][s] \in live => words[o][s] \in marked

(* Only what the roots reach is marked: garbage is never kept by the marks *)
(* themselves, although a stale word in an uninitialised slot may keep it. *)
OnlyReachableMarked ==
    phase \in {"roots", "trace"} => marked \subseteq Reachable

(* Once the sweep begins the survivors are exactly the reachable objects,  *)
(* however far it has got.                                                 *)
SurvivorsReachable == phase = "sweep" => Survivors = Reachable

(* The inductive invariant.                                                *)
CollectionInv ==
    /\ worklist \subseteq marked
    /\ marked \subseteq live
    /\ phase \in {"roots", "trace"} => unswept = {}
    /\ IF phase = "roots" THEN roots \subseteq held ELSE roots = {}
    /\ phase = "sweep" => worklist = {} /\ marked \subseteq unswept
    /\ unswept \subseteq live

MarkSweepInv ==
    /\ TypeOK /\ CollectionInv /\ NoDanglingReference
    /\ MarksOnlyInCollection /\ TriColour /\ OnlyReachableMarked
    /\ SurvivorsReachable

(* To the program a collection is one step.                                *)
CollectsAtomically == Abs!Spec
=============================================================================
