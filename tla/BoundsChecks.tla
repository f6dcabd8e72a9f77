---------------------------- MODULE BoundsChecks ----------------------------
(***************************************************************************)
(* injectBoundsChecks of bounds_instrumentation.cc on one function, and a  *)
(* run of one of the function's accesses to a managed allocation.          *)
(*                                                                         *)
(* A function is a sequence of instructions [op, a, b, block] in a chain of*)
(* blocks, the last of which may branch back: a block dominates itself and *)
(* the later ones. Instruction i defines value i:                          *)
(*                                                                         *)
(*   alloc             __mvm_array_malloc                                  *)
(*   other             a pointer to one object                             *)
(*   store a, load     to and from one alloca of pointer type, the slot    *)
(*   escape            another use of the slot: a call or a store that is  *)
(*                     given its address, or a getelementptr from it       *)
(*   phi a b, select a b                                                   *)
(*   field             a getelementptr into an array on the stack, with a  *)
(*                     variable index                                      *)
(*   access a          a getelementptr from a to a scalar or pointer of a  *)
(*                     managed allocation, with an index for the element   *)
(*                     and one for each array and struct in its type       *)
(***************************************************************************)
EXTENDS HeapLayout

Operators ==
    {"alloc", "other", "store", "load", "escape", "phi", "select", "field", "access"}

CONSTANTS Cases,        \* pairs of a function and the type of its allocations
          MaxCount,     \* bound: the elements of an array
          NarrowBits,   \* the width of the narrow type of indices
          WideBits      \* the width of a pointer, and of the other indices

(* A function is well-formed: operands are values of it.                   *)
IsFunction(f) ==
    /\ f \in Seq([op : Operators, a : Nat, b : Nat, block : Nat])
    /\ \A i \in DOMAIN f :
         /\ f[i].op \in {"store", "phi", "select", "access"} => f[i].a \in DOMAIN f
         /\ f[i].op \in {"phi", "select"} => f[i].b \in DOMAIN f

ASSUME CasesAssumption ==
    \A case \in Cases : IsFunction(case[1]) /\ case[2] \in Types

ASSUME WidthAssumption ==
    NarrowBits \in Nat /\ WideBits \in Nat /\ 0 < NarrowBits /\ NarrowBits < WideBits

VARIABLES
    function,
    type,
    next,       \* the instruction the injection has come to
    unplaced,   \* the instructions in blocks the dominator tree does not know
    dynamic,    \* the accesses that check their first index
    run         \* the access being run

BoundsVars == <<function, type, next, unplaced, dynamic, run>>

NotRun == [access |-> 0]

BoundsInit ==
    /\ \E case \in Cases : function = case[1] /\ type = case[2]
    /\ next = 1 /\ unplaced = {} /\ dynamic = {} /\ run = NotRun

Indexes(op) == {i \in DOMAIN function : function[i].op = op}

-----------------------------------------------------------------------------
(* DominatorTree::dominates for instructions; one in a block the tree has  *)
(* lost counts as unreachable, is dominated by all and dominates none.     *)
DominatesAsWritten(i, j) ==
    \/ function[i].block < function[j].block
    \/ function[i].block = function[j].block /\ i < j

Dominates(lost, i, j) ==
    \/ j \in lost
    \/ i \notin lost /\ DominatesAsWritten(i, j)

(* isManagedArrayBaseStoredInAlloca: the slot is stored and loaded only,   *)
(* every store dominates the load, and all store the same value.           *)
SlotEscapes == Indexes("escape") # {}

AStoredValue(lost, load) ==
    LET stored == {function[s].a : s \in Indexes("store")}
    IN  IF /\ stored # {} /\ ~SlotEscapes
           /\ \A s \in Indexes("store") : Dominates(lost, s, load)
        THEN {CHOOSE v \in stored : TRUE} ELSE {}

TheStoredValue(lost, load) ==
    LET stored == {function[s].a : s \in Indexes("store")}
    IN  IF /\ stored # {} /\ ~SlotEscapes /\ \A v, w \in stored : v = w
           /\ \A s \in Indexes("store") : Dominates(lost, s, load)
        THEN stored ELSE {}

(* isManagedArrayBaseImpl, given the calls it makes. The set of visited    *)
(* values is shared by all branches; the result is paired with it.         *)
SearchBoth(search, visited, a, b) ==
    LET first == search[visited][a]
    IN  IF first.found THEN search[first.visited][b] ELSE first

SearchFrom(lost, search, visited, v) ==
    LET ins == function[v]
        seen == visited \cup {v}
        Result(found) == [found |-> found, visited |-> seen]
    IN  IF v \in visited THEN [found |-> FALSE, visited |-> visited]
        ELSE CASE ins.op = "alloc" -> Result(TRUE)
               [] ins.op = "load" ->
                    LET stored == TheStoredValue(lost, v)
                    IN  IF stored = {} THEN Result(FALSE)
                        ELSE search[seen][CHOOSE s \in stored : TRUE]
               [] ins.op \in {"phi", "select"} -> SearchBoth(search, seen, ins.a, ins.b)
               [] OTHER -> Result(FALSE)

(* Each call but the last finds a value that was not visited, so that no   *)
(* chain of them is longer than the function.                              *)
Search(lost) ==
    LET search[n \in 0 .. Len(function)] ==
          [visited \in SUBSET DOMAIN function |-> [v \in DOMAIN function |->
              IF n = 0 THEN [found |-> FALSE, visited |-> visited]
              ELSE SearchFrom(lost, search[n - 1], visited, v)]]
    IN  search[Len(function)]

IsManagedArrayBase(lost, v) == Search(lost)[{}][v].found

-----------------------------------------------------------------------------
(* collectStaticChecks: the indices of the arrays in a type are checked.   *)
HasArray(t) ==
    LET has[part \in Types] == part.kind = "array" \/ \E p \in Parts(part) : has[p]
    IN  has[t]

HasStaticChecks(i) ==
    \/ function[i].op = "field"
    \/ function[i].op = "access" /\ HasArray(type)

(* instrumentGEP: a check splits the block before the access, and nobody   *)
(* tells the dominator tree.                                               *)
SplitBefore(i) ==
    {j \in DOMAIN function : j >= i /\ function[j].block = function[i].block}

InstrumentGEP(i) ==
    LET checked == function[i].op = "access" /\ IsManagedArrayBase(unplaced, function[i].a)
    IN  /\ dynamic' = IF checked THEN dynamic \cup {i} ELSE dynamic
        /\ unplaced' = IF checked \/ HasStaticChecks(i)
                       THEN unplaced \cup SplitBefore(i) ELSE unplaced

(* injectBoundsChecks: every getelementptr in the order of the function.   *)
Inject ==
    /\ next <= Len(function)
    /\ next' = next + 1
    /\ IF function[next].op \in {"field", "access"}
       THEN InstrumentGEP(next) ELSE UNCHANGED <<dynamic, unplaced>>
    /\ UNCHANGED <<function, type, run>>

-----------------------------------------------------------------------------
(* What a value may be at run time: an array, an object, or undefined when *)
(* the slot is loaded before it is stored. A slot that escapes can be given*)
(* anything elsewhere.                                                     *)
MayBeFrom(may, v) ==
    LET ins == function[v]
    IN  CASE ins.op = "alloc" -> {"array"}
          [] ins.op = "other" -> {"object"}
          [] ins.op = "load" ->
               (UNION {may[function[s].a] : s \in Indexes("store")})
               \cup (IF \E s \in Indexes("store") : DominatesAsWritten(s, v)
                     THEN {} ELSE {"undefined"})
               \cup (IF SlotEscapes THEN {"array", "object"} ELSE {})
          [] ins.op \in {"phi", "select"} -> may[ins.a] \cup may[ins.b]
          [] OTHER -> {}

MayBe(v) ==
    LET may[n \in 0 .. Len(function)] ==
          [x \in DOMAIN function |-> IF n = 0 THEN {} ELSE MayBeFrom(may[n - 1], x)]
    IN  may[Len(function)][v]

Bases(access) == MayBe(function[access].a)

(* Pointers are as wide as the widest index; a narrower one is extended    *)
(* with its sign for the address, but with zeroes for the comparison.      *)
Pow2(n) ==
    LET pow[k \in 0 .. n] == IF k = 0 THEN 1 ELSE 2 * pow[k - 1]
    IN  pow[n]

Signed(bits, pattern) ==
    IF pattern >= Pow2(bits - 1) THEN pattern - Pow2(bits) ELSE pattern

NormalizeIndex(bits, pattern) == pattern

OutOfBoundsFromLast(bits, pattern, length) == NormalizeIndex(bits, pattern) > length

OutOfBounds(bits, pattern, length) == NormalizeIndex(bits, pattern) >= length

(* The language indexes arrays only: the first index of an access to an    *)
(* object is 0.                                                            *)
Execute(i, base, count) ==
    /\ next > Len(function) /\ run = NotRun
    /\ i \in Indexes("access") /\ base \in Bases(i) \ {"undefined"}
    /\ SizeOf(type) > 0
    /\ base = "object" => count = 1
    /\ run' = [access |-> i, base |-> base, count |-> count, started |-> FALSE,
               at |-> type, offset |-> 0, trap |-> FALSE, fits |-> TRUE]
    /\ UNCHANGED <<function, type, next, unplaced, dynamic>>

(* The index of the element, checked against __mvm_array_length.           *)
IndexElement(bits, pattern) ==
    /\ run # NotRun /\ ~run.started
    /\ run.base = "object" => pattern = 0
    /\ run' = [run EXCEPT
                 !.started = TRUE,
                 !.offset = Signed(bits, pattern) * SizeOf(type),
                 !.trap = run.access \in dynamic /\ OutOfBounds(bits, pattern, run.count),
                 !.fits = run.count <= Pow2(bits - 1)]
    /\ UNCHANGED <<function, type, next, unplaced, dynamic>>

(* The index of an array in the type, checked against its length.          *)
IndexArray(bits, pattern) ==
    /\ run # NotRun /\ run.started /\ run.at.kind = "array"
    /\ run' = [run EXCEPT
                 !.at = run.at.of,
                 !.offset = @ + Signed(bits, pattern) * SizeOf(run.at.of),
                 !.trap = @ \/ OutOfBounds(bits, pattern, run.at.length),
                 !.fits = @ /\ run.at.length <= Pow2(bits - 1)]
    /\ UNCHANGED <<function, type, next, unplaced, dynamic>>

SelectField(field) ==
    /\ run # NotRun /\ run.started /\ run.at.kind = "struct"
    /\ field \in DOMAIN run.at.fields
    /\ run' = [run EXCEPT !.at = run.at.fields[field],
                          !.offset = @ + OffsetOf(run.at, field)]
    /\ UNCHANGED <<function, type, next, unplaced, dynamic>>

(* The address is complete, or the function never gets that far.           *)
Accessible == run # NotRun /\ run.started /\ run.at.kind \in {"scalar", "pointer"}

Finished ==
    /\ next > Len(function)
    /\ \/ Accessible
       \/ run = NotRun /\ (SizeOf(type) = 0 \/ \A i \in Indexes("access") : Bases(i) \subseteq {"undefined"})
       \/ run # NotRun /\ run.at.kind = "struct" /\ run.at.fields = <<>>
    /\ UNCHANGED BoundsVars

BoundsNext ==
    \/ Inject
    \/ \E i \in Indexes("access"), base \in {"array", "object"}, count \in 0 .. MaxCount :
           Execute(i, base, count)
    \/ \E bits \in {NarrowBits, WideBits} : \E pattern \in 0 .. Pow2(bits) - 1 :
           IndexElement(bits, pattern) \/ IndexArray(bits, pattern)
    \/ run # NotRun /\ run.started /\ run.at.kind = "struct"
         /\ \E field \in DOMAIN run.at.fields : SelectField(field)
    \/ Finished

BoundsSpec == BoundsInit /\ [][BoundsNext]_BoundsVars

-----------------------------------------------------------------------------
(* An access that passes its checks lies in the payload, if its base is an *)
(* object or was recognised as an array, and no index is of a type that    *)
(* would have to be negative within the bounds.                            *)
CheckedAccessInPayload ==
    Accessible /\ ~run.trap /\ run.fits
      /\ (run.base = "object" \/ run.access \in dynamic)
        => /\ 0 <= run.offset
           /\ run.offset + SizeOf(run.at) <= run.count * SizeOf(type)

(* A collection finds a reference wherever such an access can have stored  *)
(* it, and takes nothing else for a reference.                             *)
PointersAreScanned ==
    Accessible /\ ~run.trap /\ run.fits
      /\ (run.base = "object" \/ run.access \in dynamic)
        => (run.at = Pointer <=>
              run.offset \in ScannedOffsets(Descriptor(type), run.count))

(* The length is only ever asked of arrays: __mvm_array_length ends the    *)
(* program otherwise.                                                      *)
LengthOfArraysOnly ==
    \A i \in dynamic : Bases(i) \subseteq {"array", "undefined"}

(* README.md and docs/architecture.md: every access is checked whose base  *)
(* can be proven to come from __mvm_array_malloc. A check before it in the *)
(* function leaves the dominator tree out of date.                         *)
ProvenBasesChecked ==
    next > Len(function) =>
        \A i \in Indexes("access") :
            IsManagedArrayBase({}, function[i].a) => i \in dynamic
=============================================================================
