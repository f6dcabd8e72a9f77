---------------------------- MODULE AbstractHeap ----------------------------
(***************************************************************************)
(* The managed heap as a program sees it: objects with reference slots,    *)
(* the references a mutator holds, and a collector that in one step keeps  *)
(* what those references reach and nothing else. MarkSweep is shown to     *)
(* implement it.                                                           *)
(***************************************************************************)
CONSTANTS Objects,      \* the allocations the heap can hold
          Slots,        \* the reference slots of an object
          Null

VARIABLES allocated,    \* the objects that exist
          words,        \* the content of every slot
          held          \* the references in the mutator's frames

vars == <<allocated, words, held>>

(* A set of objects is closed when it holds the roots and whatever its     *)
(* members' slots refer to; the objects in every closed set are those      *)
(* reachable from the roots.                                               *)
Closed(S, alive, content, roots) ==
    /\ roots \cap alive \subseteq S
    /\ \A o \in S, s \in Slots : content[o][s] \in alive => content[o][s] \in S

ReachableIn(alive, content, roots) ==
    {o \in alive : \A S \in SUBSET alive : Closed(S, alive, content, roots) => o \in S}

Init == allocated = {} /\ held = {} /\ words = [o \in Objects |-> [s \in Slots |-> Null]]

(* The payload of a new object is not cleared.                             *)
Allocate(o) ==
    /\ o \notin allocated
    /\ allocated' = allocated \cup {o}
    /\ held' = held \cup {o}
    /\ \E content \in [Slots -> Objects \cup {Null}] :
          words' = [words EXCEPT ![o] = content]

Store(o, s, v) ==
    /\ o \in held /\ v \in held \cup {Null}
    /\ words' = [words EXCEPT ![o][s] = v]
    /\ UNCHANGED <<allocated, held>>

Load(o, s) ==
    /\ o \in held /\ words[o][s] \in allocated
    /\ held' = held \cup {words[o][s]}
    /\ UNCHANGED <<allocated, words>>

Drop(o) == held' = held \ {o} /\ UNCHANGED <<allocated, words>>

Collect ==
    /\ allocated' = ReachableIn(allocated, words, held)
    /\ UNCHANGED <<words, held>>

Next ==
    \/ Collect
    \/ \E o \in Objects :
         \/ Allocate(o) \/ Drop(o)
         \/ \E s \in Slots : Load(o, s) \/ \E v \in Objects \cup {Null} : Store(o, s, v)

Spec == Init /\ [][Next]_vars
=============================================================================
