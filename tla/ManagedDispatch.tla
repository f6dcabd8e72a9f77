-------------------------- MODULE ManagedDispatch --------------------------
(***************************************************************************)
(* specializeManagedDispatch of managed_dispatch.cc, and the part of       *)
(* ManagedStateAnalysis it rests on: the kinds of pointer that reach the   *)
(* parameter of each function through direct calls.                        *)
(*                                                                         *)
(* A function has one pointer parameter and is the sequence of its calls,  *)
(* each with an argument the analysis knows the state of, or the function's*)
(* own parameter. Functions call functions further down the module: the    *)
(* rounds need not end for a recursive function, whose clones call it.     *)
(***************************************************************************)
EXTENDS Naturals, Sequences, FiniteSets

CONSTANTS FunctionCount,    \* the specializable functions of the module
          MaxCalls,         \* bound: the calls in a function's body
          Arguments         \* the states arguments have, and "param"

Kinds == {"raw", "object", "array"}

ASSUME ArgumentsAssumption ==
    /\ FunctionCount \in Nat /\ MaxCalls \in Nat
    /\ Arguments \subseteq Kinds \cup {"null", "param"}

VARIABLES
    code,           \* the calls of each function of the module
    functions,      \* the functions and their clones
    target,         \* the function each call in them calls
    records,        \* callMap of the round: the target and signature of calls
    pending,        \* the functions this round has still to look at
    phase           \* "analyse", "specialize" or "done"

vars == <<code, functions, target, records, pending, phase>>

Original(n) == [name |-> n, clones |-> <<>>]
CallsOf(f) == {f} \X DOMAIN code[f.name]
AllCalls(fs) == UNION {CallsOf(f) : f \in fs}
Argument(c) == code[c[1].name][c[2]].argument

Programs ==
    {p \in [1 .. FunctionCount -> UNION {[1 .. n -> [callee : 1 .. FunctionCount,
                                                     argument : Arguments]]
                                         : n \in 0 .. MaxCalls}] :
        \A f \in DOMAIN p : \A i \in DOMAIN p[f] : p[f][i].callee > f}

Init ==
    /\ code \in Programs
    /\ functions = {Original(n) : n \in 1 .. FunctionCount}
    /\ target = [c \in AllCalls(functions) |-> Original(code[c[1].name][c[2]].callee)]
    /\ records = <<>> /\ pending = {} /\ phase = "analyse"

-----------------------------------------------------------------------------
(* getValueState of a call's argument, given the states of the parameters. *)
ArgumentState(c, states) ==
    IF Argument(c) = "param" THEN states[c[1]] ELSE {Argument(c)}

(* ManagedStateAnalysis::run: the state of a parameter is the union of     *)
(* what its calls pass, taken until nothing changes; no chain of calls is  *)
(* longer than the number of functions.                                    *)
CallsTo(f) == {c \in AllCalls(functions) : target[c] = f}
Passed(states) ==
    [f \in functions |-> UNION {ArgumentState(c, states) : c \in CallsTo(f)}]

ParamStates ==
    LET state[n \in 0 .. Cardinality(functions)] ==
          IF n = 0 THEN [f \in functions |-> {}] ELSE Passed(state[n - 1])
    IN  state[Cardinality(functions)]

(* toDispatchArgKind: null is compatible with any kind, a mix is generic.  *)
DispatchArgKind(state) ==
    IF \E k \in Kinds : state \cap Kinds = {k}
    THEN CHOOSE k \in Kinds : k \in state ELSE "generic"

(* buildDispatchSignature of a call.                                       *)
Signature(c, states) == DispatchArgKind(ArgumentState(c, states))

BeginRound ==
    /\ phase = "analyse"
    /\ LET states == ParamStates
       IN  records' = [c \in AllCalls(functions) |->
                         [target |-> target[c], kind |-> Signature(c, states)]]
    /\ pending' = functions
    /\ phase' = "specialize"
    /\ UNCHANGED <<code, functions, target>>

(* What the round knows of the calls of f, and the kinds to clone f for: a *)
(* function all of whose calls agree is left alone.                        *)
Recorded(f) == {c \in DOMAIN records : records[c].target = f}

KindsToClone(f) ==
    LET kinds == {records[c].kind : c \in Recorded(f)}
    IN  IF Cardinality(kinds) <= 1 THEN {} ELSE kinds \ {"generic"}

(* setName makes a name unique by a number behind it.                      *)
Clone(f, n, kind) == [name |-> f.name, clones |-> Append(f.clones, <<n, kind>>)]

CloneName(f, kind) ==
    Clone(f, CHOOSE n \in 0 .. Cardinality(functions) : Clone(f, n, kind) \notin functions,
          kind)

(* A function is cloned for its kinds, with its calls as they are by now,  *)
(* and the recorded calls are redirected to the clones.                    *)
RedirectAllTo(f, kinds, c) ==
    IF c \in Recorded(f) /\ kinds # {}
    THEN CloneName(f, CHOOSE k \in kinds : TRUE) ELSE target[c]

Redirect(f, kinds, c) ==
    IF c \in Recorded(f) /\ records[c].kind \in kinds
    THEN CloneName(f, records[c].kind) ELSE target[c]

SpecializeFunction(f) ==
    /\ phase = "specialize" /\ f \in pending
    /\ pending' = pending \ {f}
    /\ LET kinds == KindsToClone(f)
           clones == {CloneName(f, k) : k \in kinds}
       IN  /\ functions' = functions \cup clones
           /\ target' = [c \in AllCalls(functions') |->
                           IF c[1] \in clones THEN target[<<f, c[2]>>]
                           ELSE Redirect(f, kinds, c)]
    /\ UNCHANGED <<code, records, phase>>

EndRoundAsChanged ==
    /\ phase = "specialize" /\ pending = {}
    /\ phase' = "analyse" /\ records' = <<>>
    /\ UNCHANGED <<code, functions, target, pending>>

EndAfterOneRound ==
    /\ phase = "specialize" /\ pending = {}
    /\ phase' = "done" /\ records' = <<>>
    /\ UNCHANGED <<code, functions, target, pending>>

(* A round that cloned nothing is the last.                                *)
EndRound ==
    /\ phase = "specialize" /\ pending = {}
    /\ phase' = IF \A c \in DOMAIN records : records[c].target = target[c]
                THEN "done" ELSE "analyse"
    /\ records' = <<>>
    /\ UNCHANGED <<code, functions, target, pending>>

Terminated == phase = "done" /\ UNCHANGED vars

Next ==
    \/ BeginRound \/ EndRound
    \/ \E f \in pending : SpecializeFunction(f)
    \/ Terminated

Spec == Init /\ [][Next]_vars

FairSpec == Spec /\ WF_vars(Next)

-----------------------------------------------------------------------------
(* A clone is only ever entered with pointers of the kind it is named for, *)
(* whatever was cloned and redirected later in its round and after it.     *)
ClonesKeepTheirKind ==
    LET states == ParamStates
    IN  \A f \in functions :
          f.clones # <<>> => states[f] \subseteq {f.clones[Len(f.clones)][2], "null"}

(* In the end a pointer of a known kind arrives at a parameter of that     *)
(* kind: no call with another kind, or with none, dilutes it.              *)
KindsArriveUndiluted ==
    phase = "done" =>
        LET states == ParamStates
        IN  \A c \in AllCalls(functions) :
              Signature(c, states) # "generic"
                => DispatchArgKind(states[target[c]]) = Signature(c, states)

(* Without recursion the rounds come to an end.                            *)
SpecializationEnds == <>(phase = "done")
=============================================================================
