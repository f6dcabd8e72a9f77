------------------------- MODULE MCPointerLowering -------------------------
(* Instances of PointerLowering for TLC: a fixed frame of allocations,     *)
(* slot, addresses, loads and a join, whose operands and stores vary.      *)
EXTENDS PointerLowering

I(op, a, b) == [op |-> op, a |-> a, b |-> b]

Pairs == {0, 1, 2, 5, 7} \X {0, 1, 2, 5, 7}

(* Only a select tells its operands apart.                                 *)
Joins ==
    {I("select", p[1], p[2]) : p \in Pairs}
    \cup {I("phi", p[1], p[2]) : p \in {q \in Pairs : q[1] <= q[2]}}
    \cup {I(op, p[1], p[2]) : op \in {"param", "call"},
                              p \in {<<0, 7>>, <<1, 2>>, <<1, 7>>, <<5, 7>>}}

(* A field of the object or of an aggregate on the stack, or an address in *)
(* the object that is not that of a pointer.                               *)
Outsides ==
    {<<I("native", 0, 0), I("gep", 1, 0)>>, <<I("native", 0, 0), I("offset", 1, 0)>>,
     <<I("aggregate", 0, 0), I("gep", 3, 0)>>}

(* Stores under the object's own name, to the slot and to the field.       *)
FirstStores == ({0, 1, 2} \X {1, 5}) \cup {<<1, 4>>, <<2, 4>>, <<3, 1>>}
SecondStores == ({1, 8} \X {1, 4, 5, 8, 9}) \cup {<<7, 5>>, <<7, 9>>}

FramePrograms ==
    {<<I("object", 0, 0), I("array", 0, 0), o[1], I("slot", 0, 0),
       o[2], I("store", s1[1], s1[2]), I("load", l1, 0),
       join, I("gep", 8, 0), I("store", s2[1], s2[2]), I("load", l2, 0)>> :
       o \in Outsides, s1 \in FirstStores, l1 \in {1, 4, 5}, join \in Joins,
       s2 \in SecondStores, l2 \in {8, 9}}

(* A null stored first, an object through another name for the place, and  *)
(* a load.                                                                 *)
AliasPrograms ==
    {<<I("object", 0, 0), I("object", 0, 0), I("slot", 0, 0), I("store", 0, place),
       I(j, place, place), I("store", 2, 5), I("load", place, 0)>> :
       place \in {1, 3}, j \in {"phi", "param"}}

(* A store through a pointer that was loaded: whether the object it stores *)
(* is taken for what the array holds depends on which is visited first.    *)
LatePrograms ==
    {<<I("object", 0, 0), I("array", 0, 0), I("load", base, 0), I("store", 1, 3), I("load", 3, 0)>> :
       base \in {1, 2}}

MCModules == FramePrograms \cup LatePrograms

(* The order of the program, the reverse, and one in which the first       *)
(* allocation comes last.                                                  *)
MCOrders(p) ==
    {[i \in DOMAIN p |-> i], [i \in DOMAIN p |-> Len(p) + 1 - i]}
    \cup (IF p \in LatePrograms THEN {[i \in DOMAIN p |-> (i % Len(p)) + 1]} ELSE {})

ProgramOrder(p) == {[i \in DOMAIN p |-> i]}
=============================================================================
