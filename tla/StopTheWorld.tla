---------------------------- MODULE StopTheWorld ----------------------------
(***************************************************************************)
(* What the safepoint protocol of runtime_threads.cc and gc.cc promises to *)
(* the collector, without locks, counters or condition variables: a        *)
(* collection begins only when no mutator executes managed code, and no    *)
(* mutator starts or resumes managed code until that collection is over.   *)
(* SafepointProtocol is shown to implement this specification.             *)
(***************************************************************************)
CONSTANT Mutators

VARIABLES running,      \* the mutators that may touch the managed heap
          collecting    \* TRUE while the VM thread owns the heap

vars == <<running, collecting>>

Init == running = {} /\ collecting = FALSE

(* A mutator thread starts, or resumes after a safepoint.                  *)
Enter(m) ==
    /\ ~collecting
    /\ m \in Mutators \ running
    /\ running' = running \cup {m}
    /\ UNCHANGED collecting

(* A mutator parks at a safepoint, or its thread ends.                     *)
Leave(m) ==
    /\ m \in running
    /\ running' = running \ {m}
    /\ UNCHANGED collecting

BeginCollection ==
    /\ ~collecting
    /\ running = {}
    /\ collecting' = TRUE
    /\ UNCHANGED running

EndCollection ==
    /\ collecting
    /\ collecting' = FALSE
    /\ UNCHANGED running

Next ==
    \/ \E m \in Mutators : Enter(m) \/ Leave(m)
    \/ BeginCollection
    \/ EndCollection

Spec == Init /\ [][Next]_vars
=============================================================================
