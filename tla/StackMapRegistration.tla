------------------------ MODULE StackMapRegistration ------------------------
(***************************************************************************)
(* GCStackMapRegistry::registerObject of gc.cc and its callers in jit.cc:  *)
(* how the records of a JIT-compiled object's stack map get the addresses  *)
(* that RootScan looks them up by.                                         *)
(*                                                                         *)
(* The stack map lists the functions that have records, in the order of    *)
(* the module, each with an address that a relocation fills in. A function *)
(* whose relocation is missing is taken for the one at the same place of   *)
(* the module's list of managed functions, which is all that are not       *)
(* leaves. A record is its function and the position of its call or poll.  *)
(***************************************************************************)
EXTENDS LeafInference

CONSTANT SectionBase        \* where the text section was loaded

ASSUME SectionBaseAssumption == SectionBase \in Nat \ {0}

VARIABLES
    library,        \* the functions whose native calls LLVM knows as leaves
    relocations,    \* what each function's relocation refers to
    applied,        \* the address fields hold the object's addresses
    prefixed,       \* the object's symbols are not named as in the module
    malformed,      \* the functions with a record parseRootPairs refuses
    managedFunctionOrder,
    stage,          \* "compile", "load", "register", "invoke", "invoked"
                    \* or "rejected"
    functionIndex,  \* the functions of the stack map dealt with
    loadedSafepoints, safepoints,
    pendingRegistrationError

object == <<library, relocations, applied, prefixed, malformed>>
registry == <<managedFunctionOrder, safepoints, pendingRegistrationError>>
vars == <<program, inference, object, registry, stage, functionIndex,
          loadedSafepoints>>

(* Functions lie one after the other from the start of the text section.   *)
FunctionBytes == MaxCalls + 2
ObjectAddress(f) == (f - 1) * FunctionBytes
LoadedAddress(f) == SectionBase + ObjectAddress(f)

(* The functions of a set in the order of the module.                      *)
Sorted(fs) ==
    CHOOSE s \in [1 .. Cardinality(fs) -> fs] :
        /\ \A f \in fs : \E i \in DOMAIN s : s[i] = f
        /\ \A i, j \in DOMAIN s : i < j => s[i] < s[j]

(* RewriteStatepointsForGC: the calls of f that get a record, and its polls *)
(* behind allocations and in a loop's latch.                               *)
RecordsOf(f) ==
    IF f \in leaf THEN {}
    ELSE {i \in DOMAIN code[f] :
            /\ ~CallCanRemainLeaf(code[f][i])
            /\ ~(code[f][i].kind = "native" /\ f \in library)}
         \cup (IF f \in loops THEN {Len(code[f]) + 1} ELSE {})

StackMapFunctions == Sorted({f \in Functions : RecordsOf(f) # {}})

InitRegistration ==
    /\ Init
    /\ library \in SUBSET Functions
    /\ relocations \in [Functions -> {"symbol", "section", "none"}]
    /\ applied \in BOOLEAN /\ prefixed \in BOOLEAN
    /\ malformed \in {{}} \cup {{f} : f \in Functions}
    /\ managedFunctionOrder = <<>>
    /\ stage = "compile" /\ functionIndex = 0
    /\ loadedSafepoints = {} /\ safepoints = {}
    /\ pendingRegistrationError = FALSE

-----------------------------------------------------------------------------
(* annotateManagedGCMetadata lists the functions with the GC strategy, and *)
(* addModule records their names.                                          *)
RecordEveryFunction ==
    /\ phase = "run" /\ stage = "compile"
    /\ managedFunctionOrder' = Sorted(Functions)
    /\ stage' = "load"
    /\ UNCHANGED <<program, inference, object, safepoints, functionIndex,
                   loadedSafepoints, pendingRegistrationError>>

RecordManagedFunctionOrder ==
    /\ phase = "run" /\ stage = "compile"
    /\ managedFunctionOrder' = Sorted(Functions \ leaf)
    /\ stage' = "load"
    /\ UNCHANGED <<program, inference, object, safepoints, functionIndex,
                   loadedSafepoints, pendingRegistrationError>>

(* The lookup of the entry symbol loads the object.                        *)
LoadObject ==
    /\ stage = "load"
    /\ stage' = "register"
    /\ UNCHANGED <<program, inference, object, registry, functionIndex,
                   loadedSafepoints>>

(* The address a function of the stack map is given: a relocation against  *)
(* the section has the function's offset in its addend, which is not read; *)
(* the last resort is the symbol at or below the address in the field.     *)
RelocatedAddress(f) ==
    IF relocations[f] = "symbol" THEN LoadedAddress(f) ELSE SectionBase

FunctionAddress(index) ==
    LET f == StackMapFunctions[index]
    IN  IF relocations[f] # "none" THEN RelocatedAddress(f)
        ELSE IF ~prefixed /\ index <= Len(managedFunctionOrder)
             THEN LoadedAddress(managedFunctionOrder[index])
             ELSE SectionBase + (IF applied THEN ObjectAddress(f) ELSE 0)

Safepoint(f, i, address) == [fn |-> f, at |-> i, address |-> address + i]

PublishAtOnce ==
    /\ stage = "register" /\ functionIndex < Len(StackMapFunctions)
    /\ LET f == StackMapFunctions[functionIndex + 1]
           records == {Safepoint(f, i, FunctionAddress(functionIndex + 1)) :
                         i \in RecordsOf(f)}
       IN  IF f \in malformed
           THEN /\ pendingRegistrationError' = TRUE
                /\ stage' = "invoke"
                /\ UNCHANGED <<safepoints, functionIndex>>
           ELSE /\ safepoints' = safepoints \cup records
                /\ functionIndex' = functionIndex + 1
                /\ UNCHANGED <<stage, pendingRegistrationError>>
    /\ UNCHANGED <<program, inference, object, managedFunctionOrder, loadedSafepoints>>

(* One function of the stack map; its first error is returned to the       *)
(* notification, which records it.                                         *)
RegisterFunction ==
    /\ stage = "register" /\ functionIndex < Len(StackMapFunctions)
    /\ LET f == StackMapFunctions[functionIndex + 1]
           records == {Safepoint(f, i, FunctionAddress(functionIndex + 1)) :
                         i \in RecordsOf(f)}
       IN  IF f \in malformed
           THEN /\ pendingRegistrationError' = TRUE
                /\ stage' = "invoke"
                /\ UNCHANGED <<loadedSafepoints, functionIndex>>
           ELSE /\ loadedSafepoints' = loadedSafepoints \cup records
                /\ functionIndex' = functionIndex + 1
                /\ UNCHANGED <<stage, pendingRegistrationError>>
    /\ UNCHANGED <<program, inference, object, managedFunctionOrder, safepoints>>

PublishSafepoints ==
    /\ stage = "register" /\ functionIndex = Len(StackMapFunctions)
    /\ safepoints' = safepoints \cup loadedSafepoints
    /\ stage' = "invoke"
    /\ UNCHANGED <<program, inference, object, managedFunctionOrder,
                   functionIndex, loadedSafepoints, pendingRegistrationError>>

(* JitExecutor::invoke behind its lookup.                                  *)
TakeRegistrationError ==
    /\ stage = "invoke"
    /\ stage' = IF pendingRegistrationError THEN "rejected" ELSE "invoked"
    /\ pendingRegistrationError' = FALSE
    /\ UNCHANGED <<program, inference, object, managedFunctionOrder,
                   functionIndex, loadedSafepoints, safepoints>>

Register ==
    \/ RecordManagedFunctionOrder \/ LoadObject \/ RegisterFunction
    \/ PublishSafepoints \/ TakeRegistrationError

others == <<object, registry, stage, functionIndex, loadedSafepoints>>

Next ==
    \/ \E f \in Functions : VisitFunction(f) /\ UNCHANGED others
    \/ NextRound /\ UNCHANGED others
    \/ EndInference /\ UNCHANGED others
    \/ Register
    \/ stage \in {"invoked", "rejected"} /\ UNCHANGED vars

Spec == InitRegistration /\ [][Next]_vars

-----------------------------------------------------------------------------
(* What a stack scan needs: each call and poll with the address it has.    *)
AllRecords == UNION {{f} \X RecordsOf(f) : f \in Functions}

(* The address of f's records does not depend on a relocation against the  *)
(* section, nor on the place of f in the list where the list has functions *)
(* without records, or names the object does not have.                     *)
Resolvable(f) ==
    \/ relocations[f] = "symbol"
    \/ relocations[f] = "none" /\ IF prefixed THEN applied ELSE library = {}

(* Managed code starts with exactly the records of all its functions, each *)
(* at its own address. Where relocations are missing this rests on the     *)
(* leaf inference: every function that it does not take for a leaf has a   *)
(* record, so the list of managed functions is that of the stack map.      *)
InvokedWithExactRecords ==
    stage = "invoked" =>
        /\ {<<r.fn, r.at>> : r \in safepoints} = AllRecords
        /\ \A r \in safepoints :
              Resolvable(r.fn) => r.address = LoadedAddress(r.fn) + r.at

(* An object that fails to register leaves nothing behind for a scan to    *)
(* find, and its error keeps the program from being started.               *)
AllOrNothing ==
    /\ safepoints # {} => {<<r.fn, r.at>> : r \in safepoints} = AllRecords
    /\ stage \in {"invoked", "rejected"} =>
         (stage = "rejected" <=> \E f \in malformed : RecordsOf(f) # {})
=============================================================================
