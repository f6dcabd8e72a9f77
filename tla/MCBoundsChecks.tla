--------------------------- MODULE MCBoundsChecks ---------------------------
(* Instances of BoundsChecks for TLC.                                      *)
EXTENDS BoundsChecks, FiniteSetsExt

I(op, a, b, block) == [op |-> op, a |-> a, b |-> b, block |-> block]

(* Two blocks before and one after: an array and another pointer, the slot,*)
(* a phi or select of them, and accesses at three places.                  *)
Functions ==
    {<<I("alloc", 0, 0, 1), I(second, 0, 0, 1), I(check, 0, 0, 1), I("store", s, 0, 1),
       I(join[1], join[2], join[3], 2), I("load", 0, 0, 2), I("access", base, 0, 2),
       I(last, 1, 0, 2), I("load", 0, 0, 3), I("access", 9, 0, 3)>> :
         second \in {"alloc", "other"}, check \in {"field", "other"}, s \in {1, 2},
         join \in ({"phi", "select"} \X {1, 2} \X {1, 2}) \cup ({"phi"} \X {1, 2} \X {6}),
         base \in {1, 5, 6}, last \in {"store", "other", "escape"}}

OneAccess == <<I("alloc", 0, 0, 1), I("other", 0, 0, 1), I("access", 1, 0, 1),
               I("access", 2, 0, 1)>>

MCNamedTypes ==
    [u8 |-> Scalar(1), i32 |-> Scalar(4), u64 |-> Scalar(8),
     Node |-> StructOf(<<Scalar(1), Pointer, Scalar(4)>>),
     Pair |-> StructOf(<<Pointer, StructOf(<<Scalar(4), ArrayOf(2, Pointer)>>)>>),
     Table |-> StructOf(<<Scalar(4), ArrayOf(2, StructOf(<<Pointer, Scalar(1)>>)), Scalar(1)>>),
     Unit |-> StructOf(<<>>)]

TypeNames == (DOMAIN MCNamedTypes) \X
    {<<>>, <<Star>>, <<0>>, <<2>>, <<3>>, <<Star, 2>>, <<2, Star>>, <<2, 3>>, <<3, Star, 2>>}

MCCases ==
    (Functions \X {Scalar(4)})
    \cup ({OneAccess} \X {ResolveTypeName(n[1], n[2]) : n \in TypeNames})

-----------------------------------------------------------------------------
(* The layout of LLVM's DataLayout: naturally aligned fields, sizes padded *)
(* to the alignment.                                                       *)
AlignUp(n, alignment) == ((n + alignment - 1) \div alignment) * alignment

RECURSIVE AlignOf(_)
AlignOf(t) ==
    CASE t.kind = "pointer" -> Word
      [] t.kind = "scalar" -> t.size
      [] OTHER -> Max({1} \cup {AlignOf(part) : part \in Parts(t)})

RECURSIVE NaturalSize(_), NaturalOffset(_, _)
NaturalSize(t) ==
    CASE t.kind = "pointer" -> Word
      [] t.kind = "scalar" -> t.size
      [] t.kind = "array" -> t.length * NaturalSize(t.of)
      [] t.kind = "struct" ->
           LET n == Len(t.fields)
           IN  IF n = 0 THEN 0
               ELSE AlignUp(NaturalOffset(t, n) + NaturalSize(t.fields[n]), AlignOf(t))

NaturalOffset(t, i) ==
    IF i = 1 THEN 0
    ELSE AlignUp(NaturalOffset(t, i - 1) + NaturalSize(t.fields[i - 1]), AlignOf(t.fields[i]))

RECURSIVE WithParts(_), Depth(_)
WithParts(t) == {t} \cup UNION {WithParts(part) : part \in Parts(t)}
Depth(t) == Max({0} \cup {Depth(part) + 1 : part \in Parts(t)})

MCTypes == UNION {WithParts(case[2]) : case \in MCCases}
=============================================================================
