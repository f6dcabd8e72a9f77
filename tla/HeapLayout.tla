----------------------------- MODULE HeapLayout -----------------------------
(***************************************************************************)
(* The types of managed allocations, the descriptors heap_layout.cc makes  *)
(* of them, and the words of a payload a collection reads by a descriptor  *)
(* (scanAllocationPayload of runtime_memory.cc).                           *)
(*                                                                         *)
(* A type is a record: an integer or float [kind, size], a pointer, an     *)
(* array [kind, length, of] or a struct [kind, fields].                    *)
(***************************************************************************)
EXTENDS Integers, Sequences

CONSTANTS NamedTypes,       \* the scalar and struct types, by name
          Types,            \* the types of a module, with those they consist of
          Nesting(_),       \* how deep a type nests, up to MaxNesting
          MaxNesting,
          SizeOf(_),        \* getTypeAllocSize and getElementOffset of LLVM's
          OffsetOf(_, _)    \* DataLayout

Word == 8               \* sizeof(uintptr_t), and of every pointer

Pointer == [kind |-> "pointer"]
Scalar(size) == [kind |-> "scalar", size |-> size]
ArrayOf(length, type) == [kind |-> "array", length |-> length, of |-> type]
StructOf(fields) == [kind |-> "struct", fields |-> fields]

Parts(type) ==
    CASE type.kind = "array" -> {type.of}
      [] type.kind = "struct" -> {type.fields[i] : i \in DOMAIN type.fields}
      [] OTHER -> {}

(* A type does not contain itself.                                         *)
ASSUME TypesAssumption ==
    /\ MaxNesting \in Nat
    /\ \A t \in Types :
         /\ \/ t = Pointer
            \/ t.kind = "scalar" /\ t = Scalar(t.size)
            \/ t.kind = "array" /\ t = ArrayOf(t.length, t.of) /\ t.length \in Nat
            \/ t.kind = "struct" /\ t = StructOf(t.fields) /\ t.fields \in Seq(Types)
         /\ Parts(t) \subseteq Types
         /\ Nesting(t) \in 0 .. MaxNesting
         /\ \A part \in Parts(t) : Nesting(part) < Nesting(t)

(* What LLVM promises of a layout: elements without gaps, fields in their  *)
(* order, side by side and within the struct.                              *)
ASSUME LayoutAssumption ==
    \A t \in Types :
        /\ SizeOf(t) \in Nat
        /\ t.kind = "pointer" => SizeOf(t) = Word
        /\ t.kind = "scalar" => SizeOf(t) > 0
        /\ t.kind = "array" => SizeOf(t) = t.length * SizeOf(t.of)
        /\ t.kind = "struct" =>
             \A i \in DOMAIN t.fields :
                 /\ OffsetOf(t, i) \in Nat
                 /\ OffsetOf(t, i) + SizeOf(t.fields[i]) <= SizeOf(t)
                 /\ \A j \in DOMAIN t.fields :
                      i < j => OffsetOf(t, i) + SizeOf(t.fields[i]) <= OffsetOf(t, j)

(* resolveTypeName. A name is that of a scalar or struct with suffixes, the*)
(* last of which decides: Star stands for "*" and "[*]", n for "[n]".      *)
Star == -1

ResolveTypeName(base, suffixes) ==
    LET type[n \in 0 .. Len(suffixes)] ==
          IF n = 0 THEN NamedTypes[base]
          ELSE IF suffixes[n] = Star THEN Pointer
          ELSE ArrayOf(suffixes[n], type[n - 1])
    IN  type[Len(suffixes)]

-----------------------------------------------------------------------------
(* collectPointerOffsets of a type at a base, given those of its parts.    *)
OffsetsInPartsAt(type, base, offsets) ==
    CASE type.kind = "pointer" -> {base}
      [] type.kind = "scalar" -> {}
      [] type.kind = "array" ->
           UNION {offsets[type.of][base + i * SizeOf(type.of)] : i \in 0 .. type.length - 1}
      [] type.kind = "struct" ->
           UNION {offsets[type.fields[i]][OffsetOf(type, i)] : i \in DOMAIN type.fields}

OffsetsIgnoringBase(type, base) ==
    LET offsets[t \in Types] == [at \in Nat |-> OffsetsInPartsAt(t, at, offsets)]
    IN  offsets[type][base]

OffsetsInParts(type, base, offsets) ==
    CASE type.kind = "pointer" -> {base}
      [] type.kind = "scalar" -> {}
      [] type.kind = "array" ->
           UNION {offsets[type.of][base + i * SizeOf(type.of)] : i \in 0 .. type.length - 1}
      [] type.kind = "struct" ->
           UNION {offsets[type.fields[i]][base + OffsetOf(type, i)] : i \in DOMAIN type.fields}

CollectPointerOffsets(type, base) ==
    LET offsets[t \in Types] == [at \in Nat |-> OffsetsInParts(t, at, offsets)]
    IN  offsets[type][base]

(* getOrCreateDescriptor                                                   *)
Descriptor(type) ==
    [size |-> SizeOf(type), offsets |-> CollectPointerOffsets(type, 0)]

(* The words of an allocation of count elements that are read for          *)
(* references.                                                             *)
ScannedOffsets(descriptor, count) ==
    {element * descriptor.size + offset :
        element \in 0 .. count - 1,
        offset \in {o \in descriptor.offsets : o + Word <= descriptor.size}}
=============================================================================
