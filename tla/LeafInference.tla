--------------------------- MODULE LeafInference ---------------------------
(***************************************************************************)
(* inferManagedGCLeafFunctions of gc.cc: which managed functions need no   *)
(* safepoint. A call of a leaf function is not a statepoint, so nothing    *)
(* below it on the stack could be scanned while it runs: whatever it does  *)
(* must end, and reach neither an allocation nor a safepoint.              *)
(*                                                                         *)
(* A function is its sequence of calls, straight or as the body of a loop. *)
(* Calls of intrinsics and of __mvm_array_length are left out; "native"    *)
(* stands for every callee the module does not define, and for inline      *)
(* assembly and calls through a pointer, which are treated alike.          *)
(***************************************************************************)
EXTENDS Naturals, Sequences, FiniteSets

CONSTANTS FunctionCount,    \* the functions the module defines
          MaxCalls          \* bound: the calls in a function's body

ASSUME FunctionCountAssumption == FunctionCount \in Nat /\ MaxCalls \in Nat

Functions == 1 .. FunctionCount
Native == 0

Calls ==
    [kind : {"call"}, target : Functions]
        \cup [kind : {"allocate", "request", "native"}, target : {Native}]

VARIABLES
    code,           \* the calls of each function
    loops,          \* the functions with a (natural) loop
    leaf,           \* the functions with the attribute gc-leaf-function
    unvisited,      \* the functions this round has still to look at
    changed,        \* this round has found one
    phase           \* "infer" or "run"

program == <<code, loops>>
inference == <<leaf, unvisited, changed, phase>>

Init ==
    /\ code \in [Functions -> UNION {[1 .. n -> Calls] : n \in 0 .. MaxCalls}]
    /\ loops \in SUBSET Functions
    /\ leaf = {} /\ unvisited = Functions /\ changed = FALSE
    /\ phase = "infer"

-----------------------------------------------------------------------------
(* An allocation is a leaf call for LLVM but not for its caller: the poll  *)
(* that follows it is a safepoint.                                         *)
CallUnlessRequest(call) == call.kind # "request" /\ call.kind # "allocate"
                           /\ (call.kind = "call" => call.target \in leaf)

CallCanRemainLeaf(call) == call.kind = "call" /\ call.target \in leaf

CanRemainLeafDespiteLoop(f) ==
    \A i \in DOMAIN code[f] : CallCanRemainLeaf(code[f][i])

CanRemainLeaf(f) ==
    /\ f \notin loops
    /\ \A i \in DOMAIN code[f] : CallCanRemainLeaf(code[f][i])

VisitFunction(f) ==
    /\ phase = "infer" /\ f \in unvisited
    /\ unvisited' = unvisited \ {f}
    /\ IF f \notin leaf /\ CanRemainLeaf(f)
       THEN leaf' = leaf \cup {f} /\ changed' = TRUE
       ELSE UNCHANGED <<leaf, changed>>
    /\ UNCHANGED <<program, phase>>

NextRound ==
    /\ phase = "infer" /\ unvisited = {} /\ changed
    /\ unvisited' = Functions /\ changed' = FALSE
    /\ UNCHANGED <<program, leaf, phase>>

EndAfterFirstRound ==
    /\ phase = "infer" /\ unvisited = {}
    /\ phase' = "run"
    /\ UNCHANGED <<program, leaf, unvisited, changed>>

EndInference ==
    /\ phase = "infer" /\ unvisited = {} /\ ~changed
    /\ phase' = "run"
    /\ UNCHANGED <<program, leaf, unvisited, changed>>

-----------------------------------------------------------------------------
(* The reference: f runs to its end without a safepoint when no chain of   *)
(* calls from f reaches a loop or a call out of the module, and none is    *)
(* longer than the number of functions, so that none goes round in a       *)
(* circle.                                                                 *)
Callees(f) == {code[f][i].target : i \in DOMAIN code[f]}

Harmless(f) ==
    f \notin loops /\ \A i \in DOMAIN code[f] : code[f][i].kind = "call"

Chains(f) ==
    {c \in UNION {[0 .. n -> Functions] : n \in 0 .. FunctionCount} :
        /\ c[0] = f
        /\ \A i \in 1 .. FunctionCount :
              i \in DOMAIN c => c[i] \in Callees(c[i - 1])}

EndsWithoutSafepoint(f) ==
    \A c \in Chains(f) :
        Cardinality(DOMAIN c) <= FunctionCount /\ \A i \in DOMAIN c : Harmless(c[i])

(* The rounds find all the functions that need no safepoint, and no other: *)
(* in particular none that recurses, although the code looks for loops in  *)
(* a function's body only.                                                 *)
InferenceExact ==
    /\ \A f \in leaf : EndsWithoutSafepoint(f)
    /\ phase = "run" => leaf = {f \in Functions : EndsWithoutSafepoint(f)}
=============================================================================
