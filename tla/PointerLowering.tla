-------------------------- MODULE PointerLowering --------------------------
(***************************************************************************)
(* lowerManagedPointers of managed_pointer_lowering.cc: the analysis runs  *)
(* over the module until it learns nothing more, then every value gets a   *)
(* raw or a managed type, or the module is refused. Only values of managed *)
(* type are roots of a collection, and follow their object when it moves.  *)
(*                                                                         *)
(* The analysis is run for every order the functions and blocks of the     *)
(* module may be in, side by side.                                         *)
(***************************************************************************)
EXTENDS PointerStates

CONSTANTS Modules,      \* sequences of the instructions of PointerStates
          Orders(_)     \* the orders a module's instructions may be visited in

(* verifyModule has found the module well-formed: operands are pointers,   *)
(* and only phis, parameters and results use a value defined after them.    *)
WellFormed(m) ==
    /\ m \in Seq([op : Operations, a : Nat, b : Nat])
    /\ \A i \in DOMAIN m :
         /\ {m[i].a, m[i].b} \subseteq {0} \cup Defines(m)
         /\ m[i].op \in {"gep", "offset", "select"} => m[i].a < i /\ m[i].b < i

(* Every instruction is visited in a round.                                *)
IsOrderOf(order, m) ==
    /\ order \in Seq(DOMAIN m)
    /\ \A i \in DOMAIN m : \E n \in DOMAIN order : order[n] = i

ASSUME ModulesAssumption ==
    \A m \in Modules : WellFormed(m) /\ \A order \in Orders(m) : IsOrderOf(order, m)

VARIABLES
    program,
    known,      \* what the analysis has learned, in each order
    may,        \* what its values may point to at run time
    stage       \* "analyse" or "lower"

LoweringVars == <<program, known, may, stage>>

LoweringInit ==
    /\ program \in Modules
    /\ known = [order \in Orders(program) |-> NothingKnown(program)]
    /\ may = [v \in 0 .. Len(program) |-> {}]
    /\ stage = "analyse"

-----------------------------------------------------------------------------
(* What a run of the program can make of it. A value may point to the      *)
(* first word of a site (an allocation, a slot or an aggregate, native     *)
(* memory) or to a field further in; fields are not told apart. Native     *)
(* memory holds pointers to native memory to begin with, the rest nothing. *)
Sites == {i \in DOMAIN program : program[i].op \in Managed \cup {"native", "aggregate", "slot"}}

Content(m, location) ==
    (UNION {m[program[i].a] : i \in {j \in Stores(program) : location \in m[program[j].b]}})
    \cup {l \in {<<location[1], 0>>} : program[l[1]].op = "native"}

Flow(m) ==
    [v \in DOMAIN m |->
        IF v = 0 THEN {}
        ELSE LET ins == program[v]
             IN  CASE v \in Sites -> {<<v, 0>>}
                   [] ins.op \in {"gep", "offset"} -> {<<l[1], 1>> : l \in m[ins.a]}
                   [] ins.op = "load" -> UNION {Content(m, l) : l \in m[ins.a]}
                   [] ins.op \in {"phi", "select", "param", "call"} -> m[ins.a] \cup m[ins.b]
                   [] ins.op = "store" -> {}]

-----------------------------------------------------------------------------
(* ManagedStateAnalysis::run: rounds until one changes nothing.            *)
NextRound(k) == [order \in DOMAIN k |-> VisitModule(program, order, k[order])]

AnalyseOnce ==
    /\ stage = "analyse"
    /\ known' = NextRound(known)
    /\ may' = Flow(may)
    /\ stage' = IF may' = may THEN "lower" ELSE "analyse"
    /\ UNCHANGED program

Analyse ==
    /\ stage = "analyse"
    /\ known' = NextRound(known)
    /\ may' = Flow(may)
    /\ stage' = IF known' = known /\ may' = may THEN "lower" ELSE "analyse"
    /\ UNCHANGED program

Lowered == stage = "lower" /\ UNCHANGED LoweringVars

LoweringNext == Analyse \/ Lowered

LoweringSpec == LoweringInit /\ [][LoweringNext]_LoweringVars

-----------------------------------------------------------------------------
(* The type lowerInstruction gives a value: its kind decides for a load, a *)
(* phi and a parameter, that of what its function returns for a call; an   *)
(* address has the address space of its base, a select that of its first   *)
(* operand. The type of null is whatever the user expects.                 *)
TypeOfKind(state) == IF IsConcreteManagedKind(state) THEN "managed" ELSE "raw"

TypeOf(k, type, v) ==
    LET ins == program[v]
    IN  CASE ins.op \in Managed -> "managed"
          [] ins.op \in {"native", "aggregate", "slot"} -> "raw"
          [] ins.op \in {"load", "phi", "param"} -> TypeOfKind(k.value[v])
          [] ins.op = "call" -> TypeOfKind(k.value[ins.a] \cup k.value[ins.b])
          [] ins.op \in {"gep", "offset"} -> type[ins.a]
          [] ins.op = "select" -> IF ins.a = 0 THEN TypeOfKind(k.value[v]) ELSE type[ins.a]
          [] ins.op = "store" -> "any"

TypesOf(k) ==
    LET type[v \in 0 .. Len(program)] == IF v = 0 THEN "any" ELSE TypeOf(k, type, v)
    IN  type

(* lowerStore: the type it expects of the stored pointer.                  *)
StoreType(k, v, address) ==
    IF \/ IsConcreteManagedKind(LocationState(program, k, address))
       \/ ~IsSlot(program, address) /\ IsConcreteManagedKind(k.value[v])
    THEN "managed" ELSE "raw"

Fits(type, expected) == type \in {expected, "any"}

(* functionNeedsLowering. An allocation in a function that is left alone   *)
(* keeps using the declaration that was replaced, which is an error.       *)
NeedsLowering(k) ==
    \E v \in Defines(program) :
        \/ IsConcreteManagedKind(k.value[v])
        \/ IsSlot(program, v) /\ IsConcreteManagedKind(k.location[v])

(* Stores and phis are checked against the types of their operands.        *)
Accepted(k) ==
    LET type == TypesOf(k)
    IN  /\ NeedsLowering(k)
        /\ \A i \in DOMAIN program :
             LET ins == program[i]
             IN  /\ ins.op = "store" => Fits(type[ins.a], StoreType(k, ins.a, ins.b))
                 /\ ins.op = "phi" => Fits(type[ins.a], type[i]) /\ Fits(type[ins.b], type[i])

-----------------------------------------------------------------------------
(* lowerCall refuses an indirect call with a managed argument.             *)
RefusesIndirectCallWith(k, v) == IsConcreteManagedKind(k.value[v])

-----------------------------------------------------------------------------
IsManagedSite(location) == program[location[1]].op \in Managed
MayBeReference(v) == \E l \in may[v] : IsManagedSite(l)

(* The language does not mix references with pointers into native memory.  *)
ReferencesApart ==
    \A v \in Defines(program) : MayBeReference(v) => \A l \in may[v] : IsManagedSite(l)

OfOneKind(state) == \A x, y \in state \ {"null"} : x = y

Final == stage = "lower"

(* The operands of a select have the type of its first. lowerSelect leaves *)
(* that to an assertion of SelectInst::Create, which a release build of    *)
(* LLVM does not have.                                                     *)
SelectAgrees(type, v) ==
    Fits(type[program[v].a], type[v]) /\ Fits(type[program[v].b], type[v])

(* How a reference can be followed through the program: from value to      *)
(* value, ...                                                              *)
Arrives(type, followed, v) ==
    LET ins == program[v]
    IN  \/ ins.op \in Managed
        \/ ins.op \in {"gep", "offset"} /\ ins.a \in followed.values
        \/ ins.op = "load" /\ ins.a \in followed.addresses
        \/ /\ ins.op \in {"phi", "param", "call"}
           /\ ins.a \in followed.values \/ ins.b \in followed.values
        \/ /\ ins.op = "select"
           /\ \/ ins.a \in followed.values
              \/ ins.b \in followed.values /\ SelectAgrees(type, v)

(* ... and through memory. In the heap any store to the place counts,      *)
(* under whatever name, for the address of a field of a base of one kind   *)
(* and for an address under which no pointer is stored. Otherwise it has   *)
(* to be stored under the same name: on the stack and in globals, and      *)
(* where a null or a native pointer is stored through an address in the    *)
(* heap that is not that of a field.                                       *)
HoldsReference(v) ==
    \E l \in may[v] : IsManagedSite(l) /\ \E r \in Content(may, l) : IsManagedSite(r)

StoredUnder(v) == {program[i].a : i \in {j \in Stores(program) : program[j].b = v}}

IsBehind(k, followed, v) ==
    LET ins == program[v]
    IN  \/ \E x \in StoredUnder(v) : x \in followed.values
        \/ ins.op = "gep" /\ IsConcreteManagedKind(k.value[ins.a]) /\ HoldsReference(v)
        \/ /\ ins.op \notin {"gep", "phi", "select", "slot"}
           /\ v \in followed.values /\ StoredUnder(v) = {} /\ HoldsReference(v)
        \/ /\ ins.op \in {"phi", "select"}
           /\ ins.a \in followed.addresses \/ ins.b \in followed.addresses

(* The values references arrive at that way, and the addresses of memory   *)
(* they are found behind, after n steps; twice the values are enough.      *)
Follow(k, type, followed) ==
    [values |-> {v \in Defines(program) : Arrives(type, followed, v)},
     addresses |-> {v \in Defines(program) : IsBehind(k, followed, v)}]

FollowedReferences(k) ==
    LET type == TypesOf(k)
        followed[n \in 0 .. 2 * Len(program)] ==
            IF n = 0 THEN [values |-> {}, addresses |-> {}] ELSE Follow(k, type, followed[n - 1])
    IN  followed[2 * Len(program)]

(* Every value a reference to managed memory can be followed to is of      *)
(* managed type, so that a collection knows it for a root, and no indirect *)
(* callee gets it, unless the analysis takes it for several kinds. What    *)
(* the rest of the program does to its memory makes no difference: of all  *)
(* modules, a reference is lost only at the places Arrives and IsBehind    *)
(* leave out.                                                              *)
ReferencesTyped ==
    Final =>
        \A order \in DOMAIN known :
            LET k == known[order]
            IN  \A v \in FollowedReferences(k).values :
                  OfOneKind(k.value[v])
                    => TypesOf(k)[v] = "managed" /\ RefusesIndirectCallWith(k, v)

(* No value and no place is of several kinds, and a place in managed       *)
(* memory is known to hold pointers of the kind of its object.             *)
Definite(k) ==
    \A v \in Defines(program) :
        /\ OfOneKind(k.value[v]) /\ OfOneKind(k.location[v])
        /\ k.value[v] \cap Managed \subseteq LocationState(program, k, v)

KnowsNoMore(k, l) ==
    \A v \in DOMAIN k.value :
        /\ k.value[v] \ {"null"} \subseteq l.value[v]
        /\ k.location[v] \ {"null"} \subseteq l.location[v]

(* What the analysis finds does not depend on the order of the functions   *)
(* and blocks, although what a place is taken to hold depends on what is   *)
(* known of its base and of the place at that time: when one order finds   *)
(* no mix of kinds, no other finds a kind it did not find, and another     *)
(* without a mix accepts the same programs, with the same types.           *)
OrderIrrelevant ==
    Final =>
        \A p, q \in DOMAIN known :
            Definite(known[p]) =>
                /\ KnowsNoMore(known[q], known[p])
                /\ Definite(known[q]) =>
                     /\ Accepted(known[q]) = Accepted(known[p])
                     /\ TypesOf(known[q]) = TypesOf(known[p])

(* docs/architecture.md has managed provenance propagated through loads and*)
(* stores: what is loaded from memory that holds references only is        *)
(* managed, under whatever name they were stored. Yet a slot is not told of*)
(* stores through its address in a phi or a parameter, and a null stored   *)
(* through the allocation itself hides what is stored under other names.   *)
LoadsKeepProvenance ==
    Final /\ ReferencesApart =>
        \A order \in DOMAIN known :
            LET k == known[order]
            IN  Accepted(k) =>
                  \A v \in Defines(program) :
                      program[v].op = "load" /\ MayBeReference(v) /\ OfOneKind(k.value[v])
                        => IsConcreteManagedKind(k.value[v])
=============================================================================
