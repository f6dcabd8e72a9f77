---------------------------- MODULE PointerStates ----------------------------
(***************************************************************************)
(* ManagedStateAnalysis of managed_state.cc, instruction by instruction.   *)
(*                                                                         *)
(* A program is a sequence of instructions [op, a, b]. Instruction i       *)
(* defines value i, unless it is a store (of a to the address b). Value 0  *)
(* is the null constant.                                                   *)
(*                                                                         *)
(*   object, array     the two managed allocations                         *)
(*   native            what the analysis takes for raw: the result of a    *)
(*                     declared or indirect callee, a parameter of an      *)
(*                     address-taken function                              *)
(*   aggregate         an alloca or global of another type, raw as well    *)
(*   slot              an alloca or global of pointer type                 *)
(*   gep a             the address of a pointer field behind a             *)
(*   offset a          an address whose element is not a pointer           *)
(*   load a            a pointer loaded from a                             *)
(*   phi a b           a phi                                               *)
(*   select a b        a select, or a freeze when a = b                    *)
(*   param a b         a parameter with the arguments of two direct calls  *)
(*   call a b          a direct call of a function with two returns        *)
(*                                                                         *)
(* The state of a value is the set of bits of PointerState.                *)
(***************************************************************************)
EXTENDS Naturals, Sequences

Bits == {"null", "raw", "object", "array"}
Managed == {"object", "array"}
NoState == {}

(* dispatchKind; a pointer of more than one kind is of none.               *)
DispatchKind(state) ==
    LET concrete == state \ {"null"}
    IN  IF \E kind \in Bits : concrete = {kind}
        THEN CHOOSE kind \in Bits : concrete = {kind}
        ELSE "unknown"

IsConcreteManagedKind(state) == DispatchKind(state) \in Managed
HasManaged(state) == state \cap Managed # {}

Operations ==
    Managed \cup {"native", "aggregate", "slot", "gep", "offset", "load",
                  "phi", "select", "param", "call", "store"}
Stores(program) == {i \in DOMAIN program : program[i].op = "store"}
Defines(program) == DOMAIN program \ Stores(program)

(* What is known of the values, and of the pointers in the memory they     *)
(* address (locationStates_, and slotStates_ for a slot).                  *)
NothingKnown(program) ==
    [value |-> [i \in 0 .. Len(program) |-> IF i = 0 THEN {"null"} ELSE NoState],
     location |-> [i \in 0 .. Len(program) |-> NoState]]

(* getTrackedSlot, for an address.                                         *)
IsSlot(program, v) == v # 0 /\ program[v].op = "slot"

(* getLocationState: without an entry for the address, a managed one is    *)
(* taken to hold pointers of its own kind; a slot only holds what was      *)
(* stored.                                                                 *)
StoredState(program, known, v) == known.location[v]

LocationState(program, known, v) ==
    IF known.location[v] = NoState /\ HasManaged(known.value[v]) /\ ~IsSlot(program, v)
    THEN known.value[v]
    ELSE known.location[v]

LearnValue(known, v, state) ==
    IF v = 0 THEN known ELSE [known EXCEPT !.value[v] = @ \cup state]
LearnLocation(known, v, state) ==
    IF v = 0 THEN known ELSE [known EXCEPT !.location[v] = @ \cup state]

(* getAggregateFieldState: a field of a managed object, as long as the     *)
(* object is of one kind.                                                  *)
FieldState(state) == IF IsConcreteManagedKind(state) THEN state ELSE NoState

(* A store tells what its location holds; when that is managed, the stored *)
(* pointer is of the kind of the location as well.                         *)
VisitStore(program, known, v, address) ==
    LET stored == LearnLocation(known, address, known.value[v])
        location == LocationState(program, stored, address)
    IN  IF HasManaged(location) THEN LearnValue(stored, v, location) ELSE stored

VisitJoin(program, known, i, a, b) ==
    LearnLocation(
        LearnValue(known, i, known.value[a] \cup known.value[b]), i,
        LocationState(program, known, a) \cup LocationState(program, known, b))

(* visitInstruction *)
Visit(program, known, i) ==
    LET ins == program[i]
    IN  CASE ins.op \in Managed -> LearnValue(known, i, {ins.op})
          [] ins.op \in {"native", "aggregate", "slot"} -> LearnValue(known, i, {"raw"})
          [] ins.op = "gep" ->
               LearnLocation(LearnValue(known, i, known.value[ins.a]), i,
                             FieldState(known.value[ins.a]))
          [] ins.op = "offset" -> LearnValue(known, i, known.value[ins.a])
          [] ins.op \in {"phi", "select"} ->
               VisitJoin(program, known, i, ins.a, ins.b)
          [] ins.op \in {"param", "call"} ->
               LearnValue(known, i, known.value[ins.a] \cup known.value[ins.b])
          [] ins.op = "load" ->
               LearnValue(known, i, LocationState(program, known, ins.a))
          [] ins.op = "store" -> VisitStore(program, known, ins.a, ins.b)

(* One round of run: every instruction, in the order of the module, in     *)
(* which neither functions nor blocks are sorted by the flow of the data.  *)
VisitModule(program, order, known) ==
    LET after[n \in 0 .. Len(order)] ==
          IF n = 0 THEN known ELSE Visit(program, after[n - 1], order[n])
    IN  after[Len(order)]
=============================================================================
