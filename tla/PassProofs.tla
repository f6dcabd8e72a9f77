----------------------------- MODULE PassProofs -----------------------------
(***************************************************************************)
(* Proofs about the passes over managed code: dispatch specialisation, for *)
(* any number of functions and any code without recursion; pointer         *)
(* lowering, for modules of any size in any order; bounds checks, for any  *)
(* function, type, layout and width of indices.                            *)
(***************************************************************************)
EXTENDS ManagedDispatch, PointerLowering, BoundsChecks, FiniteSetTheorems, WellFoundedInduction,
        SequenceTheorems, TLAPS

(* A set of natural numbers has a least element.                           *)
LEMMA LeastElement ==
    ASSUME NEW T \in SUBSET Nat, T # {}
    PROVE  \E x \in T : \A y \in T : x <= y
<1>1. IsWellFoundedOn(OpToRel(<, Nat), Nat)
  BY NatLessThanWellFounded
<1>2. PICK x \in T : \A y \in T : ~(<<y, x>> \in OpToRel(<, Nat))
  BY <1>1, WFMin
<1>3. \A y \in T : ~(y < x)
  BY <1>2 DEF OpToRel
<1>. QED
  BY <1>3

(* What holds of 0, and of n + 1 when it holds of n, holds of all.         *)
LEMMA SetInduction ==
    ASSUME NEW S \in SUBSET Nat, 0 \in S, \A n \in S : n + 1 \in S
    PROVE  S = Nat
<1>. SUFFICES ASSUME Nat \ S # {} PROVE FALSE
  OBVIOUS
<1>1. PICK x \in Nat \ S : \A y \in Nat \ S : x <= y
  BY LeastElement
<1>2. x # 0 /\ x - 1 \in S
  BY <1>1
<1>. QED
  BY <1>1, <1>2

-----------------------------------------------------------------------------
States == SUBSET (Kinds \cup {"null"})

(* The functions and their clones, and calls that go down the module.      *)
FunctionsOK ==
    /\ functions \subseteq [name : 1 .. FunctionCount, clones : Seq(Nat \X Kinds)]
    /\ IsFiniteSet(functions)
    /\ \A n \in 1 .. FunctionCount : Original(n) \in functions

TargetsOK ==
    /\ target \in [AllCalls(functions) -> functions]
    /\ \A c \in AllCalls(functions) : target[c].name > c[1].name

ModuleOK == code \in Programs /\ FunctionsOK /\ TargetsOK

(* States of the parameters that no call adds to.                          *)
Closed(states) ==
    \A c \in AllCalls(functions) : ArgumentState(c, states) \subseteq states[target[c]]

(* The states after n rounds of the analysis, for each n up to N.          *)
Iterated(g, N) ==
    g = [n \in 0 .. N |->
           IF n = 0 THEN [f \in functions |-> {}] ELSE Passed(g[n - 1])]

-----------------------------------------------------------------------------
(* A call is one of a function of the module, at a position of its code.   *)
LEMMA CallFacts ==
    ASSUME code \in Programs, FunctionsOK, NEW c \in AllCalls(functions)
    PROVE  /\ c = <<c[1], c[2]>> /\ c[1] \in functions
           /\ c[1].name \in 1 .. FunctionCount
           /\ c[2] \in DOMAIN code[c[1].name]
           /\ Argument(c) \in Kinds \cup {"null", "param"}
           /\ code[c[1].name][c[2]].callee \in 1 .. FunctionCount
           /\ code[c[1].name][c[2]].callee > c[1].name
<1>1. PICK f \in functions : c \in {f} \X DOMAIN code[f.name]
  BY DEF AllCalls, CallsOf
<1>2. c = <<c[1], c[2]>> /\ c[1] = f /\ c[2] \in DOMAIN code[f.name]
  BY <1>1
<1>3. f.name \in 1 .. FunctionCount
  BY DEF FunctionsOK
<1>. PICK body : body = code[f.name]
  OBVIOUS
<1>4. body \in UNION {[1 .. n -> [callee : 1 .. FunctionCount, argument : Arguments]]
                        : n \in 0 .. MaxCalls}
  BY <1>3 DEF Programs
<1>5. body[c[2]] \in [callee : 1 .. FunctionCount, argument : Arguments]
  BY <1>2, <1>4
<1>6. body[c[2]].callee > f.name
  BY <1>2, <1>3 DEF Programs
<1>7. Argument(c) \in Arguments
  BY <1>2, <1>5 DEF Argument
<1>. QED
  BY <1>1, <1>2, <1>3, <1>5, <1>6, <1>7, ArgumentsAssumption

(* What a call passes is a state, and it depends on its caller's only.     *)
LEMMA ArgumentTypes ==
    ASSUME code \in Programs, FunctionsOK, NEW c \in AllCalls(functions),
           NEW states \in [functions -> States]
    PROVE  ArgumentState(c, states) \in States
  BY CallFacts DEF ArgumentState, States

(* Every function of the module has a name up to their number.             *)
LEMMA NamesBounded ==
    ASSUME FunctionsOK
    PROVE  Cardinality(functions) \in Nat /\ FunctionCount <= Cardinality(functions)
<1>. PICK C : C = Cardinality(functions)
  OBVIOUS
<1>. DEFINE originals == {Original(n) : n \in 1 .. FunctionCount}
<1>1. IsFiniteSet(1 .. FunctionCount) /\ Cardinality(1 .. FunctionCount) = FunctionCount
  BY ArgumentsAssumption, FS_Interval
<1>2. originals \subseteq functions
  BY DEF FunctionsOK
<1>3. IsFiniteSet(originals) /\ Cardinality(originals) <= C
  BY <1>2, FS_Subset DEF FunctionsOK
<1>. DEFINE name == [n \in 1 .. FunctionCount |-> Original(n)]
<1>4. name \in Bijection(1 .. FunctionCount, originals)
  <2>1. \A m, n \in 1 .. FunctionCount : name[m] = name[n] => m = n
    BY DEF Original
  <2>. QED
    BY <2>1 DEF Bijection, Injection, Surjection, IsInjective
<1>5. Cardinality(originals) = FunctionCount
  <2>1. ExistsBijection(1 .. FunctionCount, originals)
    BY <1>4 DEF ExistsBijection
  <2>. HIDE DEF originals
  <2>. QED
    BY <1>1, <2>1, FS_Bijection
<1>6. C \in Nat
  BY FS_CardinalityType DEF FunctionsOK
<1>. QED
  BY <1>3, <1>5, <1>6, ArgumentsAssumption

(* The rounds of the analysis can be told one after the other.             *)
LEMMA RoundsExist == \A N \in Nat : \E g : Iterated(g, N)
<1>. DEFINE P == {N \in Nat : \E g : Iterated(g, N)}
<1>1. 0 \in P
  <2>. DEFINE g == [n \in 0 .. 0 |-> [f \in functions |-> {}]]
  <2>1. Iterated(g, 0)
    BY DEF Iterated
  <2>. QED
    BY <2>1
<1>2. ASSUME NEW N \in P PROVE N + 1 \in P
  <2>1. PICK g : Iterated(g, N)
    OBVIOUS
  <2>. DEFINE h == [n \in 0 .. N + 1 |-> IF n = N + 1 THEN Passed(g[N]) ELSE g[n]]
  <2>2. \A n \in 0 .. N : g[n] = IF n = 0 THEN [f \in functions |-> {}] ELSE Passed(g[n - 1])
    BY <2>1 DEF Iterated
  <2>3. \A n \in 0 .. N + 1 :
          h[n] = IF n = 0 THEN [f \in functions |-> {}] ELSE Passed(h[n - 1])
    <3>. SUFFICES ASSUME NEW n \in 0 .. N + 1
                  PROVE  h[n] = IF n = 0 THEN [f \in functions |-> {}] ELSE Passed(h[n - 1])
      OBVIOUS
    <3>1. CASE n = N + 1
      BY <3>1
    <3>2. CASE n # N + 1
      <4>1. n \in 0 .. N /\ h[n] = g[n] /\ (n # 0 => h[n - 1] = g[n - 1])
        BY <3>2
      <4>. QED
        BY <2>2, <4>1
    <3>. QED
      BY <3>1, <3>2
  <2>4. h = [n \in 0 .. N + 1 |-> h[n]]
    OBVIOUS
  <2>. HIDE DEF h
  <2>5. Iterated(h, N + 1)
    BY <2>3, <2>4 DEF Iterated
  <2>. QED
    BY <2>5
<1>. HIDE DEF P
<1>3. P \in SUBSET Nat
  BY DEF P
<1>4. P = Nat
  BY <1>1, <1>2, <1>3, SetInduction
<1>. QED
  BY <1>4 DEF P

(* The states of the parameters are those of the last round.               *)
LEMMA StatesIterated ==
    ASSUME Cardinality(functions) \in Nat
    PROVE  \E g : /\ Iterated(g, Cardinality(functions))
                  /\ ParamStates = g[Cardinality(functions)]
<1>. PICK N \in Nat : N = Cardinality(functions)
  OBVIOUS
<1>. DEFINE g == CHOOSE g : Iterated(g, N)
<1>1. Iterated(g, N)
  BY RoundsExist
<1>2. ParamStates = g[N]
  BY DEF ParamStates, Iterated
<1>. QED
  BY <1>1, <1>2

(* One round: the states of the parameters that the calls pass.            *)
LEMMA PassedTypes ==
    ASSUME code \in Programs, FunctionsOK, NEW states \in [functions -> States]
    PROVE  Passed(states) \in [functions -> States]
<1>1. ASSUME NEW f \in functions
      PROVE  UNION {ArgumentState(c, states) : c \in CallsTo(f)} \in States
  <2>1. \A c \in CallsTo(f) : ArgumentState(c, states) \in States
    BY ArgumentTypes DEF CallsTo
  <2>. QED
    BY <2>1 DEF States
<1>. QED
  BY <1>1 DEF Passed

(* Every round has states of every parameter.                              *)
LEMMA RoundTypes ==
    ASSUME code \in Programs, FunctionsOK, NEW N \in Nat, NEW g, Iterated(g, N)
    PROVE  \A n \in 0 .. N : g[n] \in [functions -> States]
<1>. DEFINE P == {n \in Nat : n <= N => g[n] \in [functions -> States]}
<1>0. \A n \in 0 .. N : g[n] = IF n = 0 THEN [f \in functions |-> {}] ELSE Passed(g[n - 1])
  BY DEF Iterated
<1>1. 0 \in P
  BY <1>0 DEF States
<1>2. ASSUME NEW n \in P PROVE n + 1 \in P
  <2>. SUFFICES ASSUME n + 1 <= N PROVE g[n + 1] \in [functions -> States]
    OBVIOUS
  <2>1. g[n + 1] = Passed(g[n]) /\ g[n] \in [functions -> States]
    BY <1>0
  <2>. QED
    BY <2>1, PassedTypes
<1>. HIDE DEF P
<1>3. P \in SUBSET Nat
  BY DEF P
<1>4. P = Nat
  BY <1>1, <1>2, <1>3, SetInduction
<1>. QED
  BY <1>4 DEF P

(* Calls go down the module, so that n rounds settle the states of its     *)
(* first n + 1 functions and their clones.                                 *)
LEMMA RoundsSettle ==
    ASSUME ModuleOK, NEW N \in Nat, NEW g, Iterated(g, N)
    PROVE  \A n \in 0 .. N : \A f \in functions :
              f.name <= n + 1 => g[n][f] = Passed(g[n])[f]
<1>. DEFINE P == {n \in Nat : n <= N =>
                    \A f \in functions : f.name <= n + 1 =>
                       g[n][f] = Passed(g[n])[f]}
<1>0. \A n \in 0 .. N : g[n] = IF n = 0 THEN [f \in functions |-> {}] ELSE Passed(g[n - 1])
  BY DEF Iterated
<1>1. 0 \in P
  <2>. SUFFICES ASSUME NEW f \in functions, f.name <= 1 PROVE g[0][f] = Passed(g[0])[f]
    OBVIOUS
  <2>1. CallsTo(f) = {}
    <3>. SUFFICES ASSUME NEW c \in AllCalls(functions), target[c] = f PROVE FALSE
      BY DEF CallsTo
    <3>1. c[1].name \in 1 .. FunctionCount /\ f.name > c[1].name
      BY CallFacts DEF ModuleOK, TargetsOK
    <3>2. f.name \in 1 .. FunctionCount
      BY DEF ModuleOK, FunctionsOK
    <3>. QED
      BY <3>1, <3>2
  <2>2. Passed(g[0])[f] = {}
    BY <2>1 DEF Passed
  <2>3. g[0][f] = {}
    BY <1>0
  <2>. QED
    BY <2>2, <2>3
<1>2. ASSUME NEW n \in P PROVE n + 1 \in P
  <2>. SUFFICES ASSUME n + 1 <= N, NEW f \in functions, f.name <= n + 2
                PROVE  g[n + 1][f] = Passed(g[n + 1])[f]
    OBVIOUS
  <2>1. n \in Nat /\ g[n + 1] = Passed(g[n])
    BY <1>0
  <2>2. \A h \in functions : h.name <= n + 1 => g[n][h] = g[n + 1][h]
    BY <2>1
  <2>3. ASSUME NEW c \in CallsTo(f) PROVE ArgumentState(c, g[n]) = ArgumentState(c, g[n + 1])
    <3>1. c \in AllCalls(functions) /\ target[c] = f
      BY DEF CallsTo
    <3>2. c[1] \in functions /\ c[1].name \in 1 .. FunctionCount /\ f.name > c[1].name
      BY <3>1, CallFacts DEF ModuleOK, TargetsOK
    <3>3. f.name \in 1 .. FunctionCount
      BY DEF ModuleOK, FunctionsOK
    <3>4. c[1].name <= n + 1
      BY <2>1, <3>2, <3>3, ArgumentsAssumption
    <3>. QED
      BY <2>2, <3>2, <3>4 DEF ArgumentState
  <2>4. Passed(g[n])[f] = Passed(g[n + 1])[f]
    BY <2>3 DEF Passed
  <2>. QED
    BY <2>1, <2>4
<1>. HIDE DEF P
<1>3. P \in SUBSET Nat
  BY DEF P
<1>4. P = Nat
  BY <1>1, <1>2, <1>3, SetInduction
<1>. QED
  BY <1>4 DEF P

(* The states of the parameters are what the calls pass.                   *)
LEMMA StatesFixed ==
    ASSUME ModuleOK
    PROVE  /\ ParamStates \in [functions -> States]
           /\ \A f \in functions :
                ParamStates[f] = UNION {ArgumentState(c, ParamStates) : c \in CallsTo(f)}
<1>. PICK N : N = Cardinality(functions)
  OBVIOUS
<1>1. N \in Nat /\ FunctionCount <= N
  BY NamesBounded DEF ModuleOK
<1>2. PICK g : Iterated(g, N) /\ ParamStates = g[N]
  BY <1>1, StatesIterated
<1>3. ParamStates \in [functions -> States]
  BY <1>1, <1>2, RoundTypes DEF ModuleOK
<1>4. ASSUME NEW f \in functions PROVE ParamStates[f] = Passed(ParamStates)[f]
  <2>1. f.name \in 1 .. FunctionCount
    BY DEF ModuleOK, FunctionsOK
  <2>2. N \in 0 .. N /\ f.name <= N + 1
    BY <1>1, <2>1, ArgumentsAssumption
  <2>3. \A n \in 0 .. N : \A h \in functions : h.name <= n + 1 => g[n][h] = Passed(g[n])[h]
    BY <1>1, <1>2, RoundsSettle
  <2>. QED
    BY <1>2, <2>2, <2>3
<1>. QED
  BY <1>3, <1>4 DEF Passed

(* No call adds to the states of the parameters.                           *)
LEMMA StatesClosed ==
    ASSUME ModuleOK
    PROVE  Closed(ParamStates)
<1>. SUFFICES ASSUME NEW c \in AllCalls(functions)
              PROVE  ArgumentState(c, ParamStates) \subseteq ParamStates[target[c]]
  BY DEF Closed
<1>1. target[c] \in functions /\ c \in CallsTo(target[c])
  BY DEF ModuleOK, TargetsOK, CallsTo
<1>. QED
  BY <1>1, StatesFixed

(* They are the least such states.                                         *)
LEMMA StatesLeast ==
    ASSUME ModuleOK, NEW states \in [functions -> States], Closed(states),
           NEW f \in functions
    PROVE  ParamStates[f] \subseteq states[f]
<1>. PICK N : N = Cardinality(functions)
  OBVIOUS
<1>1. N \in Nat
  BY NamesBounded DEF ModuleOK
<1>2. PICK g : Iterated(g, N) /\ ParamStates = g[N]
  BY <1>1, StatesIterated
<1>3. \A n \in 0 .. N : g[n] = IF n = 0 THEN [h \in functions |-> {}] ELSE Passed(g[n - 1])
  BY <1>2 DEF Iterated
<1>. DEFINE P == {n \in Nat : n <= N => \A h \in functions : g[n][h] \subseteq states[h]}
<1>4. 0 \in P
  BY <1>3
<1>5. ASSUME NEW n \in P PROVE n + 1 \in P
  <2>. SUFFICES ASSUME n + 1 <= N, NEW h \in functions PROVE g[n + 1][h] \subseteq states[h]
    OBVIOUS
  <2>1. /\ g[n + 1] = Passed(g[n])
        /\ \A k \in functions : g[n][k] \subseteq states[k]
    <3>1. n \in Nat /\ n <= N /\ n + 1 \in 0 .. N /\ n + 1 # 0 /\ (n + 1) - 1 = n
      BY <1>1
    <3>2. \A k \in functions : g[n][k] \subseteq states[k]
      BY <3>1
    <3>. QED
      BY <1>3, <3>1, <3>2
  <2>2. ASSUME NEW c \in CallsTo(h) PROVE ArgumentState(c, g[n]) \subseteq states[h]
    <3>1. c \in AllCalls(functions) /\ target[c] = h
      BY DEF CallsTo
    <3>2. c[1] \in functions
      BY <3>1, CallFacts DEF ModuleOK
    <3>3. ArgumentState(c, states) \subseteq states[h]
      BY <3>1 DEF Closed
    <3>. QED
      BY <2>1, <3>2, <3>3 DEF ArgumentState
  <2>. QED
    BY <2>1, <2>2 DEF Passed
<1>. HIDE DEF P
<1>6. P \in SUBSET Nat
  BY DEF P
<1>7. P = Nat
  BY <1>4, <1>5, <1>6, SetInduction
<1>8. N \in P
  BY <1>1, <1>7
<1>. QED
  BY <1>2, <1>8 DEF P

-----------------------------------------------------------------------------
LastClone(f) == f.clones[Len(f.clones)]
KindOf(f) == LastClone(f)[2]

(* States that witness what the clones are named for: no call adds to      *)
(* them, each clone has its kind, and so do the calls recorded with one.   *)
Witness(states) ==
    /\ Closed(states)
    /\ \A f \in functions : f.clones # <<>> => states[f] \subseteq {KindOf(f), "null"}
    /\ \A c \in DOMAIN records : records[c].kind # "generic" =>
          ArgumentState(c, states) \subseteq {records[c].kind, "null"}

(* The calls of a function still to be looked at are as they were recorded.*)
RecordsOK ==
    /\ phase \in {"analyse", "specialize", "done"}
    /\ phase # "specialize" => records = <<>>
    /\ DOMAIN records \subseteq AllCalls(functions)
    /\ \A c \in DOMAIN records :
          /\ records[c].target \in functions /\ records[c].kind \in Kinds \cup {"generic"}
          /\ records[c].target \in pending => target[c] = records[c].target
    /\ pending \subseteq functions

(* A round that has changed nothing so far has found nothing to clone.     *)
Unchanged == \A c \in DOMAIN records : target[c] = records[c].target
NothingToClone ==
    phase = "specialize" /\ Unchanged =>
        /\ DOMAIN records = AllCalls(functions)
        /\ \A c \in AllCalls(functions) : records[c].kind = Signature(c, ParamStates)
        /\ \A f \in functions \ pending : KindsToClone(f) = {}

DispatchInv ==
    /\ ModuleOK /\ RecordsOK /\ NothingToClone /\ KindsArriveUndiluted
    /\ \E states \in [functions -> States] : Witness(states)

(* There are finitely many kinds.                                          *)
LEMMA KindsFinite == IsFiniteSet(Kinds) /\ IsFiniteSet(Kinds \cup {"generic"})
<1>1. IsFiniteSet({"raw"})
  BY FS_Singleton
<1>2. IsFiniteSet({"raw"} \cup {"object"})
  BY <1>1, FS_AddElement
<1>3. IsFiniteSet(({"raw"} \cup {"object"}) \cup {"array"})
  BY <1>2, FS_AddElement
<1>4. Kinds = ({"raw"} \cup {"object"}) \cup {"array"}
  BY DEF Kinds
<1>. QED
  BY <1>3, <1>4, FS_AddElement

(* A state is of a kind when it has that kind and no other.                *)
LEMMA KindFacts ==
    ASSUME NEW state \in States
    PROVE  /\ DispatchArgKind(state) \in Kinds \cup {"generic"}
           /\ DispatchArgKind(state) # "generic" =>
                /\ state \cap Kinds = {DispatchArgKind(state)}
                /\ state \subseteq {DispatchArgKind(state), "null"}
           /\ \A k \in Kinds : state \cap Kinds = {k} => DispatchArgKind(state) = k
<1>1. "generic" \notin Kinds
  BY DEF Kinds
<1>2. CASE \E k \in Kinds : state \cap Kinds = {k}
  <2>1. PICK k \in Kinds : state \cap Kinds = {k}
    BY <1>2
  <2>2. k \in state /\ \A j \in Kinds : j \in state => j = k
    BY <2>1
  <2>3. (CHOOSE j \in Kinds : j \in state) = k
    BY <2>2
  <2>4. DispatchArgKind(state) = k
    BY <1>2, <2>3 DEF DispatchArgKind
  <2>. QED
    BY <2>1, <2>4 DEF States
<1>3. CASE ~\E k \in Kinds : state \cap Kinds = {k}
  BY <1>1, <1>3 DEF DispatchArgKind
<1>. QED
  BY <1>2, <1>3

(* A clone is a new function, of the kind it is made for.                  *)
LEMMA CloneFacts ==
    ASSUME FunctionsOK, NEW f \in functions, NEW k \in Kinds
    PROVE  /\ CloneName(f, k) \notin functions
           /\ CloneName(f, k) \in [name : 1 .. FunctionCount, clones : Seq(Nat \X Kinds)]
           /\ CloneName(f, k).name = f.name
           /\ CloneName(f, k).clones # <<>>
           /\ KindOf(CloneName(f, k)) = k
<1>. PICK C \in Nat : C = Cardinality(functions)
  BY NamesBounded
<1>0. f \in [name : 1 .. FunctionCount, clones : Seq(Nat \X Kinds)]
  BY DEF FunctionsOK
<1>. PICK s \in Seq(Nat \X Kinds) : s = f.clones
  BY <1>0
<1>1. ASSUME NEW n \in Nat
      PROVE  /\ Append(s, <<n, k>>) \in Seq(Nat \X Kinds) /\ Append(s, <<n, k>>) # <<>>
             /\ Append(s, <<n, k>>)[Len(Append(s, <<n, k>>))] = <<n, k>>
  <2>1. <<n, k>> \in Nat \X Kinds
    OBVIOUS
  <2>. QED
    BY <2>1
<1>2. ASSUME NEW n \in Nat
      PROVE  /\ Clone(f, n, k) \in [name : 1 .. FunctionCount, clones : Seq(Nat \X Kinds)]
             /\ Clone(f, n, k).name = f.name
             /\ Clone(f, n, k).clones # <<>>
             /\ LastClone(Clone(f, n, k)) = <<n, k>>
  BY <1>0, <1>1 DEF Clone, LastClone
<1>3. \E n \in 0 .. C : Clone(f, n, k) \notin functions
  <2>. SUFFICES ASSUME \A n \in 0 .. C : Clone(f, n, k) \in functions PROVE FALSE
    OBVIOUS
  <2>. DEFINE clones == {Clone(f, n, k) : n \in 0 .. C}
  <2>. DEFINE clone == [n \in 0 .. C |-> Clone(f, n, k)]
  <2>1. \A m, n \in 0 .. C : clone[m] = clone[n] => m = n
    <3>. SUFFICES ASSUME NEW m \in 0 .. C, NEW n \in 0 .. C, Clone(f, m, k) = Clone(f, n, k)
                  PROVE  m = n
      OBVIOUS
    <3>1. m \in Nat /\ n \in Nat
      OBVIOUS
    <3>2. LastClone(Clone(f, m, k)) = <<m, k>> /\ LastClone(Clone(f, n, k)) = <<n, k>>
      BY <1>2, <3>1
    <3>. QED
      BY <3>2
  <2>2. clone \in Bijection(0 .. C, clones)
    BY <2>1 DEF Bijection, Injection, Surjection, IsInjective
  <2>3. ExistsBijection(0 .. C, clones)
    BY <2>2 DEF ExistsBijection
  <2>4. clones \subseteq functions
    OBVIOUS
  <2>. HIDE DEF clones
  <2>5. IsFiniteSet(0 .. C) /\ Cardinality(0 .. C) = C + 1
    BY FS_Interval
  <2>6. Cardinality(clones) = C + 1
    BY <2>3, <2>5, FS_Bijection
  <2>7. Cardinality(clones) <= C
    BY <2>4, FS_Subset DEF FunctionsOK
  <2>. QED
    BY <2>6, <2>7
<1>4. PICK n \in 0 .. C : CloneName(f, k) = Clone(f, n, k) /\ Clone(f, n, k) \notin functions
  BY <1>3 DEF CloneName
<1>5. n \in Nat
  OBVIOUS
<1>6. KindOf(Clone(f, n, k)) = <<n, k>>[2]
  BY <1>2, <1>5 DEF KindOf
<1>. QED
  BY <1>2, <1>4, <1>5, <1>6

-----------------------------------------------------------------------------
(* A step of SpecializeFunction, with the kinds and clones it is about.    *)
Specializes(f, kinds, clones) ==
    /\ kinds = KindsToClone(f) /\ clones = {CloneName(f, k) : k \in kinds}
    /\ SpecializeFunction(f)

(* The clones are new functions, one for each of the recorded kinds.       *)
LEMMA SpecializeKinds ==
    ASSUME FunctionsOK, RecordsOK, NEW f \in functions, NEW kinds, NEW clones,
           Specializes(f, kinds, clones)
    PROVE  /\ kinds \subseteq Kinds /\ IsFiniteSet(clones)
           /\ \A k \in kinds : CloneName(f, k) \in clones
           /\ \A k \in kinds : \E c \in Recorded(f) : records[c].kind = k
           /\ \A h \in clones :
                /\ h \notin functions /\ h.name = f.name /\ h.clones # <<>>
                /\ h \in [name : 1 .. FunctionCount, clones : Seq(Nat \X Kinds)]
                /\ KindOf(h) \in kinds /\ h = CloneName(f, KindOf(h))
<1>1. \A k \in kinds : k # "generic" /\ \E c \in Recorded(f) : records[c].kind = k
  BY DEF Specializes, KindsToClone
<1>2. kinds \subseteq Kinds
  BY <1>1 DEF RecordsOK, Recorded
<1>3. IsFiniteSet(clones)
  <2>1. IsFiniteSet(kinds)
    BY <1>2, KindsFinite, FS_Subset
  <2>. DEFINE clone == [k \in kinds |-> CloneName(f, k)]
  <2>2. clone \in Surjection(kinds, clones)
    BY DEF Surjection, Specializes
  <2>. QED
    BY <2>1, <2>2, FS_Surjection
<1>4. ASSUME NEW h \in clones
      PROVE  /\ h \notin functions /\ h.name = f.name /\ h.clones # <<>>
             /\ h \in [name : 1 .. FunctionCount, clones : Seq(Nat \X Kinds)]
             /\ KindOf(h) \in kinds /\ h = CloneName(f, KindOf(h))
  <2>1. PICK k \in kinds : h = CloneName(f, k)
    BY DEF Specializes
  <2>. QED
    BY <1>2, <2>1, CloneFacts
<1>. QED
  BY <1>1, <1>2, <1>3, <1>4 DEF Specializes

(* Each call of the module is redirected or left alone, and a clone calls  *)
(* what f called.                                                          *)
LEMMA SpecializeCalls ==
    ASSUME code \in Programs, FunctionsOK, RecordsOK, NEW f \in functions,
           NEW kinds, NEW clones, Specializes(f, kinds, clones)
    PROVE  /\ functions' = functions \cup clones /\ code' = code
           /\ records' = records /\ pending' = pending \ {f}
           /\ phase = "specialize" /\ phase' = phase /\ f \in pending
           /\ AllCalls(functions)' = AllCalls(functions) \cup AllCalls(clones)
           /\ target' = [c \in AllCalls(functions)' |-> target'[c]]
           /\ \A c \in AllCalls(functions) : target'[c] = Redirect(f, kinds, c)
           /\ \A c \in AllCalls(clones) :
                /\ c \notin AllCalls(functions) /\ c[1] \in clones
                /\ <<f, c[2]>> \in AllCalls(functions)
                /\ target'[c] = target[<<f, c[2]>>]
                /\ Argument(c) = Argument(<<f, c[2]>>)
<1>. PICK calls : calls = AllCalls(functions \cup clones)
  OBVIOUS
<1>1. /\ functions' = functions \cup clones /\ code' = code
      /\ records' = records /\ pending' = pending \ {f}
      /\ phase = "specialize" /\ phase' = phase /\ f \in pending
      /\ target' = [c \in calls |-> IF c[1] \in clones THEN target[<<f, c[2]>>]
                                    ELSE Redirect(f, kinds, c)]
  BY DEF Specializes, SpecializeFunction
<1>2. calls = AllCalls(functions) \cup AllCalls(clones) /\ AllCalls(functions)' = calls
  BY <1>1 DEF AllCalls, CallsOf
<1>3. ASSUME NEW c \in AllCalls(functions)
      PROVE  target'[c] = Redirect(f, kinds, c)
  <2>1. c[1] \in functions
    BY CallFacts
  <2>2. c[1] \notin clones
    BY <2>1, SpecializeKinds
  <2>. QED
    BY <1>1, <1>2, <2>2
<1>4. ASSUME NEW c \in AllCalls(clones)
      PROVE  /\ c \notin AllCalls(functions) /\ c[1] \in clones
             /\ <<f, c[2]>> \in AllCalls(functions)
             /\ target'[c] = target[<<f, c[2]>>]
             /\ Argument(c) = Argument(<<f, c[2]>>)
  <2>1. PICK h \in clones : c \in {h} \X DOMAIN code[h.name]
    BY DEF AllCalls, CallsOf
  <2>2. c[1] = h /\ c[2] \in DOMAIN code[h.name] /\ h.name = f.name /\ h \notin functions
    BY <2>1, SpecializeKinds
  <2>3. c \notin AllCalls(functions)
    BY <2>2, CallFacts
  <2>4. <<f, c[2]>> \in AllCalls(functions)
    BY <2>2 DEF AllCalls, CallsOf
  <2>5. Argument(c) = Argument(<<f, c[2]>>)
    BY <2>2 DEF Argument
  <2>. QED
    BY <1>1, <1>2, <2>2, <2>3, <2>4, <2>5
<1>5. target' = [c \in AllCalls(functions)' |-> target'[c]]
  BY <1>1, <1>2
<1>. QED
  BY <1>1, <1>2, <1>3, <1>4, <1>5

(* A recorded call of the function looked at goes where it went, or to a   *)
(* clone of the kind it is recorded with.                                  *)
LEMMA RedirectFacts ==
    ASSUME FunctionsOK, RecordsOK, NEW f \in functions, NEW kinds, NEW clones,
           Specializes(f, kinds, clones), NEW c \in AllCalls(functions)
    PROVE  \/ Redirect(f, kinds, c) = target[c]
           \/ /\ c \in DOMAIN records /\ records[c].target = f
              /\ records[c].kind \in kinds
              /\ Redirect(f, kinds, c) \in clones
              /\ KindOf(Redirect(f, kinds, c)) = records[c].kind
<1>. SUFFICES ASSUME c \in Recorded(f) /\ records[c].kind \in kinds
              PROVE  /\ Redirect(f, kinds, c) \in clones
                     /\ KindOf(Redirect(f, kinds, c)) = records[c].kind
  BY DEF Redirect, Recorded
<1>1. Redirect(f, kinds, c) = CloneName(f, records[c].kind)
  BY DEF Redirect
<1>2. CloneName(f, records[c].kind) \in clones /\ records[c].kind \in Kinds
  BY SpecializeKinds
<1>3. KindOf(CloneName(f, records[c].kind)) = records[c].kind
  BY <1>2, CloneFacts
<1>. QED
  BY <1>1, <1>2, <1>3

(* The clones are functions of the module, below the callers of f.         *)
LEMMA SpecializeModule ==
    ASSUME ModuleOK, RecordsOK, NEW f \in functions, NEW kinds, NEW clones,
           Specializes(f, kinds, clones)
    PROVE  ModuleOK' /\ RecordsOK'
<1>. USE DEF ModuleOK
<1>1. /\ functions' = functions \cup clones /\ code' = code
      /\ records' = records /\ pending' = pending \ {f}
      /\ phase = "specialize" /\ phase' = phase /\ f \in pending
      /\ AllCalls(functions)' = AllCalls(functions) \cup AllCalls(clones)
      /\ target' = [c \in AllCalls(functions)' |-> target'[c]]
  BY SpecializeCalls
<1>2. FunctionsOK'
  <2>1. IsFiniteSet(functions')
    BY <1>1, SpecializeKinds, FS_Union DEF FunctionsOK
  <2>2. functions' \subseteq [name : 1 .. FunctionCount, clones : Seq(Nat \X Kinds)]
    BY <1>1, SpecializeKinds DEF FunctionsOK
  <2>. QED
    BY <1>1, <2>1, <2>2 DEF FunctionsOK
<1>3. ASSUME NEW c \in AllCalls(functions)
      PROVE  /\ target'[c] \in functions' /\ target'[c].name > c[1].name
             /\ target'[c] = target[c] \/ (c \in DOMAIN records /\ records[c].target = f)
  <2>1. target[c] \in functions /\ target[c].name > c[1].name
    BY DEF TargetsOK
  <2>2. target'[c] = Redirect(f, kinds, c)
    BY SpecializeCalls
  <2>3. CASE Redirect(f, kinds, c) = target[c]
    BY <1>1, <2>1, <2>2, <2>3
  <2>4. CASE /\ c \in DOMAIN records /\ records[c].target = f
             /\ Redirect(f, kinds, c) \in clones
    <3>1. target[c] = f
      BY <1>1, <2>4 DEF RecordsOK
    <3>2. Redirect(f, kinds, c).name = f.name
      BY <2>4, SpecializeKinds
    <3>. QED
      BY <1>1, <2>1, <2>2, <2>4, <3>1, <3>2
  <2>. QED
    BY <2>3, <2>4, RedirectFacts
<1>4. ASSUME NEW c \in AllCalls(clones)
      PROVE  target'[c] \in functions' /\ target'[c].name > c[1].name
  <2>1. /\ c[1] \in clones /\ <<f, c[2]>> \in AllCalls(functions)
        /\ target'[c] = target[<<f, c[2]>>]
    BY SpecializeCalls
  <2>2. c[1].name = f.name
    BY <2>1, SpecializeKinds
  <2>3. target[<<f, c[2]>>] \in functions /\ target[<<f, c[2]>>].name > <<f, c[2]>>[1].name
    BY <2>1 DEF TargetsOK
  <2>. QED
    BY <1>1, <2>1, <2>2, <2>3
<1>5. TargetsOK'
  <2>1. \A c \in AllCalls(functions)' : target'[c] \in functions' /\ target'[c].name > c[1].name
    BY <1>1, <1>3, <1>4
  <2>. QED
    BY <1>1, <2>1 DEF TargetsOK
<1>6. RecordsOK'
  <2>1. ASSUME NEW c \in DOMAIN records, records[c].target \in pending \ {f}
        PROVE  target'[c] = records[c].target
    BY <1>3, <2>1 DEF RecordsOK
  <2>. QED
    BY <1>1, <2>1 DEF RecordsOK
<1>. QED
  BY <1>1, <1>2, <1>5, <1>6

(* Once f is cloned the round has changed something.                       *)
LEMMA SpecializeNothing ==
    ASSUME ModuleOK, RecordsOK, NothingToClone, NEW f \in functions, NEW kinds, NEW clones,
           Specializes(f, kinds, clones)
    PROVE  NothingToClone'
<1>. SUFFICES ASSUME Unchanged'
              PROVE  /\ DOMAIN records' = AllCalls(functions)'
                     /\ \A c \in AllCalls(functions)' : records'[c].kind = Signature(c, ParamStates)'
                     /\ \A h \in functions' \ pending' : KindsToClone(h)' = {}
  BY DEF NothingToClone
<1>1. /\ functions' = functions \cup clones /\ code' = code
      /\ records' = records /\ pending' = pending \ {f}
      /\ phase = "specialize" /\ f \in pending
      /\ AllCalls(functions)' = AllCalls(functions) \cup AllCalls(clones)
      /\ target' = [c \in AllCalls(functions)' |-> target'[c]]
  BY SpecializeCalls DEF ModuleOK
<1>2. kinds = {}
  <2>. SUFFICES ASSUME NEW k \in kinds PROVE FALSE
    OBVIOUS
  <2>1. PICK c \in Recorded(f) : records[c].kind = k
    BY SpecializeKinds DEF ModuleOK
  <2>2. c \in AllCalls(functions) /\ c \in DOMAIN records /\ records[c].target = f
    BY <2>1 DEF Recorded, RecordsOK
  <2>3. target'[c] = CloneName(f, k)
    BY <2>1, <2>2, SpecializeCalls DEF ModuleOK, Redirect
  <2>4. CloneName(f, k) \notin functions
    BY SpecializeKinds DEF ModuleOK
  <2>. QED
    BY <1>1, <2>2, <2>3, <2>4 DEF Unchanged
<1>3. clones = {} /\ functions' = functions
  BY <1>1, <1>2 DEF Specializes
<1>4. AllCalls(functions)' = AllCalls(functions)
  BY <1>1, <1>3 DEF AllCalls, CallsOf
<1>5. target' = target
  <2>1. \A c \in AllCalls(functions) : target'[c] = target[c]
    BY <1>2, SpecializeCalls DEF ModuleOK, Redirect
  <2>2. target = [c \in AllCalls(functions) |-> target[c]]
    BY DEF ModuleOK, TargetsOK
  <2>. QED
    BY <1>1, <1>4, <2>1, <2>2
<1>6. Unchanged
  BY <1>1, <1>5 DEF Unchanged
<1>7. \A c \in AllCalls(functions) : Signature(c, ParamStates)' = Signature(c, ParamStates)
  <2>1. ParamStates' = ParamStates
    BY <1>1, <1>3, <1>5
       DEF ParamStates, Passed, CallsTo, AllCalls, CallsOf, ArgumentState, Argument
  <2>. QED
    BY <1>1, <2>1 DEF Signature, ArgumentState, Argument
<1>8. \A h \in functions : KindsToClone(h)' = KindsToClone(h)
  BY <1>1 DEF KindsToClone, Recorded
<1>9. KindsToClone(f) = {}
  BY <1>2 DEF Specializes
<1>. QED
  BY <1>1, <1>3, <1>4, <1>6, <1>7, <1>8, <1>9 DEF NothingToClone

(* A clone has what f has, as far as it is of the clone's kind: the calls  *)
(* redirected to it pass no more, and its own calls pass no more than f's. *)
LEMMA SpecializeWitness ==
    ASSUME ModuleOK, RecordsOK, NEW f \in functions, NEW kinds, NEW clones,
           Specializes(f, kinds, clones),
           NEW states \in [functions -> States], Witness(states)
    PROVE  \E states2 \in [functions' -> States] : Witness(states2)'
<1>. USE DEF ModuleOK
<1>. PICK more : more = functions \cup clones
  OBVIOUS
<1>0. PICK states2 :
        states2 = [h \in more |-> IF h \in functions THEN states[h]
                                  ELSE states[f] \cap {KindOf(h), "null"}]
  OBVIOUS
<1>1. /\ functions' = more /\ code' = code
      /\ records' = records
      /\ AllCalls(functions)' = AllCalls(functions) \cup AllCalls(clones)
      /\ f \in pending
  BY SpecializeCalls
<1>2. /\ states2 \in [more -> States]
      /\ \A h \in functions : states2[h] = states[h]
      /\ \A h \in clones : states2[h] = states[f] \cap {KindOf(h), "null"}
  BY <1>0, SpecializeKinds DEF States
<1>3. ASSUME NEW c \in AllCalls(functions)
      PROVE  ArgumentState(c, states2) = ArgumentState(c, states)
  BY <1>2, CallFacts DEF ArgumentState
<1>4. ASSUME NEW c \in AllCalls(functions)
      PROVE  ArgumentState(c, states2) \subseteq states2[target'[c]]
  <2>1. ArgumentState(c, states) \subseteq states[target[c]] /\ target[c] \in functions
    BY DEF Witness, Closed, TargetsOK
  <2>2. target'[c] = Redirect(f, kinds, c)
    BY SpecializeCalls
  <2>3. CASE Redirect(f, kinds, c) = target[c]
    BY <1>2, <1>3, <2>1, <2>2, <2>3
  <2>4. CASE /\ c \in DOMAIN records /\ records[c].target = f
             /\ records[c].kind \in kinds
             /\ Redirect(f, kinds, c) \in clones
             /\ KindOf(Redirect(f, kinds, c)) = records[c].kind
    <3>1. target[c] = f
      BY <1>1, <2>4 DEF RecordsOK
    <3>2. records[c].kind # "generic"
      BY <2>4, SpecializeKinds DEF Kinds
    <3>3. ArgumentState(c, states) \subseteq {records[c].kind, "null"}
      BY <2>4, <3>2 DEF Witness
    <3>. QED
      BY <1>2, <1>3, <2>1, <2>2, <2>4, <3>1, <3>3
  <2>. QED
    BY <2>3, <2>4, RedirectFacts
<1>5. ASSUME NEW c \in AllCalls(clones)
      PROVE  ArgumentState(c, states2) \subseteq states2[target'[c]]
  <2>. PICK d : d = <<f, c[2]>>
    OBVIOUS
  <2>1. /\ c[1] \in clones /\ d \in AllCalls(functions)
        /\ target'[c] = target[d] /\ Argument(c) = Argument(d)
    BY SpecializeCalls
  <2>2. ArgumentState(d, states) \subseteq states[target[d]] /\ target[d] \in functions
    BY <2>1 DEF Witness, Closed, TargetsOK
  <2>3. states2[c[1]] \subseteq states[f] /\ d[1] = f
    BY <1>2, <2>1
  <2>4. ArgumentState(c, states2) \subseteq ArgumentState(d, states)
    BY <2>1, <2>3 DEF ArgumentState
  <2>. QED
    BY <1>2, <2>1, <2>2, <2>4
<1>6. Closed(states2)'
  <2>1. \A c \in AllCalls(functions)' : ArgumentState(c, states2) \subseteq states2[target'[c]]
    BY <1>1, <1>4, <1>5
  <2>2. \A c : ArgumentState(c, states2)' = ArgumentState(c, states2)
    BY <1>1 DEF ArgumentState, Argument
  <2>. QED
    BY <2>1, <2>2 DEF Closed
<1>7. ASSUME NEW h \in functions', h.clones # <<>>
      PROVE  states2[h] \subseteq {KindOf(h), "null"}
  BY <1>1, <1>2, <1>7 DEF Witness
<1>8. ASSUME NEW c \in DOMAIN records, records[c].kind # "generic"
      PROVE  ArgumentState(c, states2)' \subseteq {records[c].kind, "null"}
  <2>1. c \in AllCalls(functions)
    BY DEF RecordsOK
  <2>2. ArgumentState(c, states2)' = ArgumentState(c, states2)
    BY <1>1 DEF ArgumentState, Argument
  <2>. QED
    BY <1>3, <1>8, <2>1, <2>2 DEF Witness
<1>9. Witness(states2)'
  BY <1>1, <1>6, <1>7, <1>8 DEF Witness
<1>. QED
  BY <1>1, <1>2, <1>9

-----------------------------------------------------------------------------
(* The states follow from the module: what leaves it alone leaves them.    *)
LEMMA StatesFrame ==
    ASSUME UNCHANGED <<code, functions, target>>
    PROVE  /\ ParamStates' = ParamStates /\ AllCalls(functions)' = AllCalls(functions)
           /\ \A c, states : ArgumentState(c, states)' = ArgumentState(c, states')
           /\ \A c : Signature(c, ParamStates)' = Signature(c, ParamStates)
           /\ ModuleOK' = ModuleOK
<1>1. AllCalls(functions)' = AllCalls(functions)
  BY DEF AllCalls, CallsOf
<1>2. ParamStates' = ParamStates
  BY DEF ParamStates, Passed, CallsTo, AllCalls, CallsOf, ArgumentState, Argument
<1>3. \A c : Signature(c, ParamStates)' = Signature(c, ParamStates)
  BY <1>2 DEF Signature, ArgumentState, Argument
<1>4. ModuleOK' = ModuleOK
  BY <1>1 DEF ModuleOK, FunctionsOK, TargetsOK
<1>. QED
  BY <1>1, <1>2, <1>3, <1>4 DEF ArgumentState, Argument

(* The module before the first round.                                      *)
LEMMA DispatchInit == Init => DispatchInv
<1>. SUFFICES ASSUME Init PROVE DispatchInv
  OBVIOUS
<1>1. FunctionsOK
  <2>1. functions \subseteq [name : 1 .. FunctionCount, clones : Seq(Nat \X Kinds)]
    <3>1. <<>> \in Seq(Nat \X Kinds)
      BY EmptySeq
    <3>2. \A n \in 1 .. FunctionCount :
            Original(n) \in [name : 1 .. FunctionCount, clones : Seq(Nat \X Kinds)]
      BY <3>1 DEF Original
    <3>. QED
      BY <3>2 DEF Init
  <2>2. IsFiniteSet(functions)
    <3>. DEFINE original == [n \in 1 .. FunctionCount |-> Original(n)]
    <3>1. original \in Surjection(1 .. FunctionCount, functions)
      BY DEF Init, Surjection
    <3>2. IsFiniteSet(1 .. FunctionCount)
      BY ArgumentsAssumption, FS_Interval
    <3>. QED
      BY <3>1, <3>2, FS_Surjection
  <2>. QED
    BY <2>1, <2>2 DEF FunctionsOK, Init
<1>2. TargetsOK
  <2>1. \A c \in AllCalls(functions) :
          target[c] = Original(code[c[1].name][c[2]].callee)
    BY DEF Init
  <2>2. ASSUME NEW c \in AllCalls(functions)
        PROVE  target[c] \in functions /\ target[c].name > c[1].name
    <3>1. /\ code[c[1].name][c[2]].callee \in 1 .. FunctionCount
          /\ code[c[1].name][c[2]].callee > c[1].name
      BY <1>1, CallFacts DEF Init
    <3>2. \A n \in 1 .. FunctionCount : Original(n) \in functions /\ Original(n).name = n
      BY <1>1 DEF FunctionsOK, Original
    <3>. QED
      BY <2>1, <3>1, <3>2
  <2>3. target = [c \in AllCalls(functions) |-> target[c]]
    BY DEF Init
  <2>. QED
    BY <2>2, <2>3 DEF TargetsOK
<1>3. ModuleOK
  BY <1>1, <1>2 DEF ModuleOK, Init
<1>4. RecordsOK /\ NothingToClone /\ KindsArriveUndiluted
  BY DEF Init, RecordsOK, NothingToClone, KindsArriveUndiluted
<1>5. \A f \in functions : f.clones = <<>>
  BY DEF Init, Original
<1>6. Witness(ParamStates)
  BY <1>3, <1>5, StatesClosed DEF Witness, Init
<1>. QED
  BY <1>3, <1>4, <1>6, StatesFixed DEF DispatchInv

(* A round begins with the states as the analysis finds them.              *)
LEMMA BeginStep ==
    ASSUME DispatchInv, BeginRound
    PROVE  DispatchInv'
<1>. PICK states : states = ParamStates
  OBVIOUS
<1>1. /\ UNCHANGED <<code, functions, target>>
      /\ records' = [c \in AllCalls(functions) |->
                       [target |-> target[c], kind |-> Signature(c, states)]]
      /\ pending' = functions /\ phase' = "specialize"
  BY DEF BeginRound
<1>2. ModuleOK /\ ModuleOK' /\ AllCalls(functions)' = AllCalls(functions)
  BY <1>1, StatesFrame DEF DispatchInv
<1>3. states \in [functions -> States] /\ Closed(states)
  BY <1>2, StatesFixed, StatesClosed
<1>4. ASSUME NEW c \in AllCalls(functions)
      PROVE  /\ Signature(c, states) \in Kinds \cup {"generic"}
             /\ Signature(c, states) # "generic" =>
                  ArgumentState(c, states) \subseteq {Signature(c, states), "null"}
  <2>1. ArgumentState(c, states) \in States
    BY <1>2, <1>3, ArgumentTypes DEF ModuleOK
  <2>. QED
    BY <2>1, KindFacts DEF Signature
<1>5. RecordsOK'
  <2>1. \A c \in AllCalls(functions) : target[c] \in functions
    BY <1>2 DEF ModuleOK, TargetsOK
  <2>. QED
    BY <1>1, <1>2, <1>4, <2>1 DEF RecordsOK
<1>6. NothingToClone'
  <2>1. \A c \in AllCalls(functions) : Signature(c, ParamStates)' = Signature(c, ParamStates)
    BY <1>1, StatesFrame
  <2>2. \A c \in AllCalls(functions) : records'[c].kind = Signature(c, ParamStates)
    BY <1>1
  <2>3. \A c \in AllCalls(functions)' : records'[c].kind = Signature(c, ParamStates)'
    BY <1>2, <2>1, <2>2
  <2>. QED
    BY <1>1, <1>2, <2>3 DEF NothingToClone
<1>7. Witness(states)'
  <2>1. \A f \in functions : f.clones # <<>> => states[f] \subseteq {KindOf(f), "null"}
    <3>1. PICK old \in [functions -> States] : Witness(old)
      BY DEF DispatchInv
    <3>2. \A f \in functions : states[f] \subseteq old[f]
      BY <1>2, <3>1, StatesLeast DEF Witness
    <3>. QED
      BY <3>1, <3>2 DEF Witness
  <2>2. \A c : ArgumentState(c, states)' = ArgumentState(c, states)
    BY <1>1 DEF ArgumentState, Argument
  <2>3. Closed(states)'
    BY <1>1, <1>2, <1>3, <2>2 DEF Closed
  <2>. QED
    BY <1>1, <1>4, <2>1, <2>2, <2>3 DEF Witness
<1>8. KindsArriveUndiluted'
  BY <1>1 DEF KindsArriveUndiluted
<1>9. states \in [functions' -> States]
  BY <1>1, <1>3
<1>. QED
  BY <1>2, <1>5, <1>6, <1>7, <1>8, <1>9 DEF DispatchInv

(* Where there is nothing to clone, the calls of a function agree, and so  *)
(* does its parameter with them.                                           *)
LEMMA KindsAgree ==
    ASSUME ModuleOK, RecordsOK, NothingToClone, phase = "specialize", pending = {},
           Unchanged, NEW c \in AllCalls(functions), Signature(c, ParamStates) # "generic"
    PROVE  DispatchArgKind(ParamStates[target[c]]) = Signature(c, ParamStates)
<1>. PICK f : f = target[c]
  OBVIOUS
<1>. PICK states : states = ParamStates
  OBVIOUS
<1>. PICK k : k = Signature(c, states)
  OBVIOUS
<1>0. /\ states \in [functions -> States] /\ f \in functions
      /\ states[f] = UNION {ArgumentState(d, states) : d \in CallsTo(f)}
  BY StatesFixed DEF ModuleOK, TargetsOK
<1>1. /\ DOMAIN records = AllCalls(functions)
      /\ \A d \in AllCalls(functions) : records[d].kind = Signature(d, states)
      /\ KindsToClone(f) = {}
  BY <1>0 DEF NothingToClone
<1>2. CallsTo(f) = Recorded(f)
  BY <1>1 DEF CallsTo, Recorded, Unchanged
<1>. PICK kinds : kinds = {records[d].kind : d \in Recorded(f)}
  OBVIOUS
<1>3. c \in CallsTo(f) /\ k \in kinds
  BY <1>1, <1>2 DEF CallsTo
<1>4. kinds = {k}
  <2>1. Cardinality(kinds) <= 1
    BY <1>1, <1>3 DEF KindsToClone
  <2>2. IsFiniteSet(kinds)
    <3>1. kinds \subseteq Kinds \cup {"generic"}
      BY DEF RecordsOK, Recorded
    <3>. QED
      BY <3>1, KindsFinite, FS_Subset
  <2>3. Cardinality(kinds) = 1
    <3>1. Cardinality(kinds) \in Nat /\ Cardinality(kinds) # 0
      BY <1>3, <2>2, FS_CardinalityType, FS_EmptySet
    <3>. QED
      BY <2>1, <3>1
  <2>4. \E x : kinds = {x}
    BY <2>2, <2>3, FS_Singleton
  <2>. QED
    BY <1>3, <2>4
<1>5. ASSUME NEW d \in CallsTo(f) PROVE ArgumentState(d, states) \cap Kinds = {k}
  <2>1. d \in AllCalls(functions) /\ Signature(d, states) = k
    BY <1>1, <1>2, <1>4 DEF CallsTo
  <2>2. ArgumentState(d, states) \in States
    BY <1>0, <2>1, ArgumentTypes DEF ModuleOK
  <2>. QED
    BY <2>1, <2>2, KindFacts DEF Signature
<1>6. states[f] \cap Kinds = {k}
  BY <1>0, <1>3, <1>5
<1>7. states[f] \in States /\ k \in Kinds
  BY <1>0, <1>6
<1>. QED
  BY <1>6, <1>7, KindFacts

(* A round that changed nothing is the last; any other starts over.        *)
LEMMA EndStep ==
    ASSUME DispatchInv, EndRound
    PROVE  DispatchInv'
<1>1. /\ UNCHANGED <<code, functions, target, pending>>
      /\ records' = <<>> /\ phase = "specialize" /\ pending = {}
      /\ phase' \in {"analyse", "done"}
      /\ phase' = "done" => Unchanged
  BY DEF EndRound, Unchanged
<1>2. /\ ModuleOK' /\ AllCalls(functions)' = AllCalls(functions)
      /\ ParamStates' = ParamStates
      /\ \A c : Signature(c, ParamStates)' = Signature(c, ParamStates)
  BY <1>1, StatesFrame DEF DispatchInv
<1>3. RecordsOK' /\ NothingToClone'
  BY <1>1 DEF RecordsOK, NothingToClone, DispatchInv
<1>4. KindsArriveUndiluted'
  <2>. SUFFICES ASSUME phase' = "done", NEW c \in AllCalls(functions),
                       Signature(c, ParamStates) # "generic"
                PROVE  DispatchArgKind(ParamStates[target[c]]) = Signature(c, ParamStates)
    BY <1>1, <1>2 DEF KindsArriveUndiluted, DispatchArgKind
  <2>. QED
    BY <1>1, KindsAgree DEF DispatchInv
<1>5. \E states \in [functions' -> States] : Witness(states)'
  <2>1. PICK states \in [functions -> States] : Witness(states)
    BY DEF DispatchInv
  <2>2. \A c : ArgumentState(c, states)' = ArgumentState(c, states)
    BY <1>1 DEF ArgumentState, Argument
  <2>3. Witness(states)'
    BY <1>1, <1>2, <2>1, <2>2 DEF Witness, Closed
  <2>. QED
    BY <1>1, <2>3
<1>. QED
  BY <1>2, <1>3, <1>4, <1>5 DEF DispatchInv

(* Every step keeps the invariant.                                         *)
LEMMA DispatchNext == DispatchInv /\ [Next]_vars => DispatchInv'
<1>. SUFFICES ASSUME DispatchInv, [Next]_vars PROVE DispatchInv'
  OBVIOUS
<1>1. CASE BeginRound
  BY <1>1, BeginStep
<1>2. CASE EndRound
  BY <1>2, EndStep
<1>3. ASSUME NEW f \in pending, SpecializeFunction(f) PROVE DispatchInv'
  <2>. PICK kinds : kinds = KindsToClone(f)
    OBVIOUS
  <2>. PICK clones : clones = {CloneName(f, k) : k \in kinds}
    OBVIOUS
  <2>1. Specializes(f, kinds, clones) /\ f \in functions
    BY <1>3 DEF Specializes, DispatchInv, RecordsOK
  <2>2. ModuleOK' /\ RecordsOK' /\ NothingToClone'
    BY <2>1, SpecializeModule, SpecializeNothing DEF DispatchInv
  <2>3. \E states \in [functions' -> States] : Witness(states)'
    BY <2>1, SpecializeWitness DEF DispatchInv
  <2>4. KindsArriveUndiluted'
    BY <1>3 DEF SpecializeFunction, KindsArriveUndiluted
  <2>. QED
    BY <2>2, <2>3, <2>4 DEF DispatchInv
<1>4. CASE UNCHANGED vars
  <2>1. /\ UNCHANGED <<code, functions, target>> /\ records' = records
        /\ pending' = pending /\ phase' = phase
    BY <1>4 DEF vars
  <2>2. /\ ModuleOK' /\ AllCalls(functions)' = AllCalls(functions)
        /\ ParamStates' = ParamStates
        /\ \A c : Signature(c, ParamStates)' = Signature(c, ParamStates)
    BY <2>1, StatesFrame DEF DispatchInv
  <2>3. RecordsOK'
    BY <2>1, <2>2 DEF RecordsOK, DispatchInv
  <2>4. NothingToClone'
    <3>1. /\ Unchanged' = Unchanged
          /\ \A f \in functions : KindsToClone(f)' = KindsToClone(f)
      BY <2>1 DEF Unchanged, KindsToClone, Recorded
    <3>. QED
      BY <2>1, <2>2, <3>1 DEF NothingToClone, DispatchInv
  <2>5. KindsArriveUndiluted'
    BY <2>1, <2>2 DEF KindsArriveUndiluted, DispatchArgKind, DispatchInv
  <2>6. \E states \in [functions' -> States] : Witness(states)'
    <3>1. PICK states \in [functions -> States] : Witness(states)
      BY DEF DispatchInv
    <3>2. \A c : ArgumentState(c, states)' = ArgumentState(c, states)
      BY <2>1 DEF ArgumentState, Argument
    <3>3. Witness(states)'
      BY <2>1, <2>2, <3>1, <3>2 DEF Witness, Closed
    <3>. QED
      BY <2>1, <3>3
  <2>. QED
    BY <2>2, <2>3, <2>4, <2>5, <2>6 DEF DispatchInv
<1>. QED
  BY <1>1, <1>2, <1>3, <1>4 DEF Next, Terminated

(* Throughout the specialisation there are states of the parameters that   *)
(* respect the kinds of all clones and recorded calls.                     *)
THEOREM DispatchInvariant == Spec => []DispatchInv
<1>1. Init => DispatchInv
  BY DispatchInit
<1>2. DispatchInv /\ [Next]_vars => DispatchInv'
  BY DispatchNext
<1>. QED
  BY <1>1, <1>2, PTL DEF Spec

(* A clone is only entered with pointers of the kind it is named for, in   *)
(* the middle of a round too, for any module without recursion.            *)
THEOREM ClonesSeeTheirKind == Spec => []ClonesKeepTheirKind
<1>1. DispatchInv => ClonesKeepTheirKind
  <2>. SUFFICES ASSUME DispatchInv, NEW f \in functions, f.clones # <<>>
                PROVE  ParamStates[f] \subseteq {f.clones[Len(f.clones)][2], "null"}
    BY DEF ClonesKeepTheirKind
  <2>1. PICK states \in [functions -> States] : Witness(states)
    BY DEF DispatchInv
  <2>2. ParamStates[f] \subseteq states[f]
    BY <2>1, StatesLeast DEF DispatchInv, Witness
  <2>3. states[f] \subseteq {KindOf(f), "null"}
    BY <2>1 DEF Witness
  <2>. QED
    BY <2>2, <2>3 DEF KindOf, LastClone
<1>. QED
  BY <1>1, DispatchInvariant, PTL

(* When the rounds have ended, a call of a known kind arrives at a         *)
(* parameter of that kind.                                                 *)
THEOREM KindsArrive == Spec => []KindsArriveUndiluted
<1>1. DispatchInv => KindsArriveUndiluted
  BY DEF DispatchInv
<1>. QED
  BY <1>1, DispatchInvariant, PTL

-----------------------------------------------------------------------------
(* Pointer lowering: what the analysis knows of the values of a module m,  *)
(* and of the places they address.                                         *)
Knowledge(m) == [value : [0 .. Len(m) -> SUBSET Bits],
                 location : [0 .. Len(m) -> SUBSET Bits]]

(* Only an address, a join, or what is stored to has an entry of its own.  *)
HasEntry(m, v) ==
    m[v].op \in {"gep", "phi", "select"} \/ \E i \in Stores(m) : m[i].b = v

Sane(m, k) ==
    /\ k \in Knowledge(m)
    /\ k.value[0] = {"null"} /\ k.location[0] = {}
    /\ \A v \in DOMAIN m : k.location[v] # {} => HasEntry(m, v)

(* Nothing is left to learn.                                               *)
Settled(m, k) == Sane(m, k) /\ \A i \in DOMAIN m : Visit(m, k, i) = k

Grown(k, l) ==
    \A v \in DOMAIN k.value :
        k.value[v] \subseteq l.value[v] /\ k.location[v] \subseteq l.location[v]

(* What a visit adds: s to the value v and t to the place w.               *)
Learned(k, v, s, w, t) ==
    [value |-> [x \in DOMAIN k.value |->
                  IF x = v /\ v # 0 THEN k.value[x] \cup s ELSE k.value[x]],
     location |-> [x \in DOMAIN k.location |->
                     IF x = w /\ w # 0 THEN k.location[x] \cup t ELSE k.location[x]]]

-----------------------------------------------------------------------------
(* A recursion over 1 .. N, with values in S: G gives a value from those   *)
(* before it.                                                              *)
Recursive(N, S, G) ==
    \A n \in 1 .. N : \A f, g \in [0 .. N -> S] :
        (\A j \in 0 .. n - 1 : f[j] = g[j]) => G[n][f] = G[n][g]

Solves(f, N, s0, G) == f[0] = s0 /\ \A n \in 1 .. N : f[n] = G[n][f]

(* A function defined by recursion exists.                                 *)
LEMMA Recursion ==
    ASSUME NEW N, N \in Nat, NEW S, NEW s0, s0 \in S,
           NEW G, G \in [1 .. N -> [[0 .. N -> S] -> S]],
           Recursive(N, S, G)
    PROVE  \E f \in [0 .. N -> S] : Solves(f, N, s0, G)
<1>. DEFINE Upto(f, m) == f[0] = s0 /\ \A n \in 1 .. m : f[n] = G[n][f]
            Exists(m) == \E f \in [0 .. N -> S] : Upto(f, m)
            P == {m \in Nat : m <= N => Exists(m)}
<1>0. \A n \in 1 .. N : \A f \in [0 .. N -> S] : G[n][f] \in S
  OBVIOUS
<1>1. Exists(0)
  <2>1. [n \in 0 .. N |-> s0] \in [0 .. N -> S]
    OBVIOUS
  <2>2. Upto([n \in 0 .. N |-> s0], 0)
    OBVIOUS
  <2>. QED
    BY <2>1, <2>2
<1>2. ASSUME NEW m \in Nat, m + 1 <= N, Exists(m) PROVE Exists(m + 1)
  <2>1. PICK f \in [0 .. N -> S] : Upto(f, m)
    BY <1>2
  <2>2. PICK s \in S : s = G[m + 1][f]
    BY <1>0, <1>2
  <2>. DEFINE g == [f EXCEPT ![m + 1] = s]
  <2>3. g \in [0 .. N -> S] /\ g[m + 1] = s /\ \A j \in 0 .. m : g[j] = f[j]
    BY <1>2
  <2>. HIDE DEF g
  <2>4. g[0] = s0
    BY <2>1, <2>3
  <2>. m \in 0 .. N - 1
    BY <1>2
  <2>5. ASSUME NEW n \in 1 .. m PROVE g[n] = G[n][g]
    <3>1. n \in 1 .. N /\ f[n] = G[n][f] /\ g[n] = f[n]
      BY <1>2, <2>1, <2>3
    <3>2. G[n][f] = G[n][g]
      <4>1. \A j \in 0 .. n - 1 : f[j] = g[j]
        BY <2>3
      <4>. QED
        BY <3>1, <4>1, <2>3 DEF Recursive
    <3>. QED
      BY <3>1, <3>2
  <2>6. g[m + 1] = G[m + 1][g]
    <3>1. \A j \in 0 .. (m + 1) - 1 : f[j] = g[j]
      BY <2>3
    <3>2. PICK n \in 1 .. N : n = m + 1
      BY <1>2
    <3>3. G[n][f] = G[n][g]
      BY <3>1, <3>2, <2>3 DEF Recursive
    <3>. QED
      BY <3>2, <3>3, <2>2, <2>3
  <2>7. 1 .. (m + 1) = (1 .. m) \cup {m + 1}
    OBVIOUS
  <2>. QED
    BY <2>3, <2>4, <2>5, <2>6, <2>7
<1>. HIDE DEF Exists
<1>3. 0 \in P /\ \A m \in P : m + 1 \in P
  BY <1>1, <1>2
<1>4. P = Nat
  <2>. HIDE DEF P
  <2>. QED
    BY <1>3, SetInduction, P \subseteq Nat DEF P
<1>5. Exists(N)
  BY <1>4
<1>. QED
  BY <1>5 DEF Exists, Solves

(* A function defined by recursion from the value before exists.           *)
Follows(f, N, s0, H) == f[0] = s0 /\ \A n \in 1 .. N : f[n] = H[f[n - 1]]

LEMMA Iteration ==
    ASSUME NEW N, N \in Nat, NEW S, NEW s0, s0 \in S, NEW H, H \in [S -> S]
    PROVE  \E f \in [0 .. N -> S] : Follows(f, N, s0, H)
<1>. DEFINE G == [n \in 1 .. N |-> [f \in [0 .. N -> S] |-> H[f[n - 1]]]]
<1>1. G \in [1 .. N -> [[0 .. N -> S] -> S]]
  OBVIOUS
<1>2. Recursive(N, S, G)
  BY DEF Recursive
<1>3. \A n \in 1 .. N : \A f \in [0 .. N -> S] : G[n][f] = H[f[n - 1]]
  OBVIOUS
<1>. HIDE DEF G
<1>4. PICK f \in [0 .. N -> S] : Solves(f, N, s0, G)
  BY <1>1, <1>2, Recursion
<1>. QED
  BY <1>3, <1>4 DEF Solves, Follows

(* The instructions of a module.                                           *)
LEMMA ModuleFacts ==
    ASSUME NEW m, WellFormed(m)
    PROVE  /\ Len(m) \in Nat /\ DOMAIN m = 1 .. Len(m)
           /\ \A i \in DOMAIN m :
                /\ m[i].op \in Operations
                /\ m[i].a \in 0 .. Len(m) /\ m[i].b \in 0 .. Len(m)
                /\ m[i].a \in {0} \cup Defines(m) /\ m[i].b \in {0} \cup Defines(m)
                /\ m[i].op \in {"gep", "offset", "select"} => m[i].a < i /\ m[i].b < i
<1>1. /\ m \in Seq([op : Operations, a : Nat, b : Nat])
      /\ \A i \in DOMAIN m :
           /\ {m[i].a, m[i].b} \subseteq {0} \cup Defines(m)
           /\ m[i].op \in {"gep", "offset", "select"} => m[i].a < i /\ m[i].b < i
  BY DEF WellFormed
<1>2. Len(m) \in Nat /\ DOMAIN m = 1 .. Len(m)
  BY <1>1
<1>3. \A i \in DOMAIN m : m[i] \in [op : Operations, a : Nat, b : Nat]
  <2>. DEFINE R == [op : Operations, a : Nat, b : Nat]
  <2>. HIDE DEF R
  <2>1. \A q \in Seq(R) : \A i \in DOMAIN q : q[i] \in R
    OBVIOUS
  <2>. QED
    BY <1>1, <2>1 DEF R
<1>4. {0} \cup Defines(m) \subseteq 0 .. Len(m)
  BY <1>2 DEF Defines
<1>. QED
  BY <1>1, <1>2, <1>3, <1>4

-----------------------------------------------------------------------------
(* The states the operators of the analysis compute.                       *)
LEMMA StateTypes ==
    ASSUME NEW m, NEW k, k \in Knowledge(m), NEW v, v \in 0 .. Len(m)
    PROVE  /\ k.value[v] \in SUBSET Bits /\ k.location[v] \in SUBSET Bits
           /\ LocationState(m, k, v) \in SUBSET Bits
           /\ FieldState(k.value[v]) \in SUBSET Bits
           /\ k.location[v] \subseteq LocationState(m, k, v)
BY DEF Knowledge, LocationState, FieldState, NoState

(* Learning adds to one value, or to what one place holds.                 *)
LEMMA LearnForms ==
    ASSUME NEW m, Len(m) \in Nat, NEW k, k \in Knowledge(m),
           NEW v, v \in 0 .. Len(m), NEW s, s \in SUBSET Bits
    PROVE  /\ LearnValue(k, v, s) = Learned(k, v, s, 0, {})
           /\ LearnLocation(k, v, s) = Learned(k, 0, {}, v, s)
           /\ LearnValue(k, v, s) \in Knowledge(m) /\ LearnLocation(k, v, s) \in Knowledge(m)
<1>0. k = [value |-> k.value, location |-> k.location]
      /\ k.value \in [0 .. Len(m) -> SUBSET Bits] /\ k.location \in [0 .. Len(m) -> SUBSET Bits]
  BY DEF Knowledge
<1>1. LearnValue(k, v, s).value = Learned(k, v, s, 0, {}).value
  BY <1>0 DEF LearnValue, Learned
<1>2. LearnValue(k, v, s).location = Learned(k, v, s, 0, {}).location
  BY <1>0 DEF LearnValue, Learned
<1>3. LearnLocation(k, v, s).value = Learned(k, 0, {}, v, s).value
  BY <1>0 DEF LearnLocation, Learned
<1>4. LearnLocation(k, v, s).location = Learned(k, 0, {}, v, s).location
  BY <1>0 DEF LearnLocation, Learned
<1>5. LearnValue(k, v, s) \in Knowledge(m) /\ LearnLocation(k, v, s) \in Knowledge(m)
  BY <1>0 DEF LearnValue, LearnLocation, Knowledge
<1>6. Learned(k, v, s, 0, {}) \in Knowledge(m) /\ Learned(k, 0, {}, v, s) \in Knowledge(m)
  BY <1>0 DEF Learned, Knowledge
<1>7. /\ LearnValue(k, v, s) = Learned(k, v, s, 0, {})
      /\ LearnLocation(k, v, s) = Learned(k, 0, {}, v, s)
  BY <1>1, <1>2, <1>3, <1>4, <1>5, <1>6 DEF Knowledge
<1>. QED
  BY <1>5, <1>7

(* Learning of a value and of its place.                                   *)
LEMMA LearnTwice ==
    ASSUME NEW m, Len(m) \in Nat, NEW k, k \in Knowledge(m),
           NEW v, v \in 0 .. Len(m), NEW s, s \in SUBSET Bits,
           NEW w, w \in 0 .. Len(m), NEW t, t \in SUBSET Bits
    PROVE  LearnLocation(LearnValue(k, v, s), w, t) = Learned(k, v, s, w, t)
<1>0. k.value \in [0 .. Len(m) -> SUBSET Bits] /\ k.location \in [0 .. Len(m) -> SUBSET Bits]
  BY DEF Knowledge
<1>1. Learned(k, v, s, 0, {}) \in Knowledge(m)
  BY <1>0 DEF Learned, Knowledge
<1>2. LearnLocation(LearnValue(k, v, s), w, t) = Learned(Learned(k, v, s, 0, {}), 0, {}, w, t)
  BY <1>1, LearnForms
<1>3. Learned(Learned(k, v, s, 0, {}), 0, {}, w, t) = Learned(k, v, s, w, t)
  BY <1>0 DEF Learned
<1>. QED
  BY <1>2, <1>3


-----------------------------------------------------------------------------
(* A store adds to the place, and perhaps to the stored pointer.           *)
LEMMA StoreForm ==
    ASSUME NEW m, Len(m) \in Nat, NEW k, k \in Knowledge(m),
           NEW a, a \in 0 .. Len(m), NEW b, b \in 0 .. Len(m)
    PROVE  \E v \in 0 .. Len(m), s \in SUBSET Bits :
              VisitStore(m, k, a, b) = Learned(k, v, s, b, k.value[a])
<1>. DEFINE c == k.value[a]
            stored == LearnLocation(k, b, c)
            s == LocationState(m, stored, b)
<1>1. c \in SUBSET Bits
  BY StateTypes
<1>. HIDE DEF c
<1>2. stored = Learned(k, 0, {}, b, c) /\ stored \in Knowledge(m)
  BY <1>1, LearnForms
<1>3. s \in SUBSET Bits
  <2>. HIDE DEF stored
  <2>. QED
    BY <1>2, StateTypes
<1>4. VisitStore(m, k, a, b) = IF HasManaged(s) THEN LearnValue(stored, a, s) ELSE stored
  BY DEF VisitStore, c
<1>. HIDE DEF s
<1>. HIDE DEF stored
<1>5. LearnValue(stored, a, s) = Learned(k, a, s, b, c)
  <2>1. LearnValue(stored, a, s) = Learned(stored, a, s, 0, {})
    BY <1>2, <1>3, LearnForms
  <2>2. Learned(Learned(k, 0, {}, b, c), a, s, 0, {}) = Learned(k, a, s, b, c)
    <3>1. /\ k.value \in [0 .. Len(m) -> SUBSET Bits]
          /\ k.location \in [0 .. Len(m) -> SUBSET Bits]
      BY DEF Knowledge
    <3>. QED
      BY <3>1 DEF Learned
  <2>. QED
    BY <1>2, <2>1, <2>2
<1>6. {} \in SUBSET Bits /\ 0 \in 0 .. Len(m)
  OBVIOUS
<1>7. CASE HasManaged(s)
  BY <1>3, <1>4, <1>5, <1>7 DEF c
<1>8. CASE ~HasManaged(s)
  BY <1>2, <1>4, <1>6, <1>8 DEF c
<1>. QED
  BY <1>7, <1>8

(* Every visit adds to one value and to one place, which then has an entry.*)
LEMMA VisitForm ==
    ASSUME NEW m, WellFormed(m), NEW k, Sane(m, k), NEW i \in DOMAIN m
    PROVE  \E v, w \in 0 .. Len(m), s, t \in SUBSET Bits :
              /\ Visit(m, k, i) = Learned(k, v, s, w, t)
              /\ t # {} /\ w # 0 => HasEntry(m, w)
<1>. DEFINE ins == m[i]
<1>0. /\ Len(m) \in Nat /\ DOMAIN m = 1 .. Len(m) /\ i \in 0 .. Len(m) /\ i # 0
      /\ ins.op \in Operations /\ ins.a \in 0 .. Len(m) /\ ins.b \in 0 .. Len(m)
      /\ k \in Knowledge(m)
  BY ModuleFacts DEF Sane
<1>. PICK a, b : a = ins.a /\ b = ins.b
  OBVIOUS
<1>1. /\ a \in 0 .. Len(m) /\ b \in 0 .. Len(m)
      /\ k.value[a] \in SUBSET Bits /\ k.value[b] \in SUBSET Bits
      /\ LocationState(m, k, a) \in SUBSET Bits /\ LocationState(m, k, b) \in SUBSET Bits
      /\ FieldState(k.value[a]) \in SUBSET Bits
  BY <1>0, StateTypes
<1>2. ASSUME NEW s \in SUBSET Bits, Visit(m, k, i) = LearnValue(k, i, s)
      PROVE  Visit(m, k, i) = Learned(k, i, s, 0, {})
  BY <1>0, <1>2, LearnForms
<1>3. CASE ins.op \in Managed \cup {"native", "aggregate", "slot", "offset", "param", "call",
                                     "load"}
  <2>1. \E s \in SUBSET Bits : Visit(m, k, i) = LearnValue(k, i, s)
    <3>1. CASE ins.op \in Managed
      BY <3>1 DEF Visit, Managed, Bits
    <3>2. CASE ins.op \in {"native", "aggregate", "slot"}
      BY <3>2 DEF Visit, Managed, Bits
    <3>3. CASE ins.op \in {"offset", "param", "call"}
      BY <1>1, <3>3 DEF Visit, Managed
    <3>4. CASE ins.op = "load"
      BY <1>1, <3>4 DEF Visit, Managed
    <3>. QED
      BY <1>3, <3>1, <3>2, <3>3, <3>4
  <2>2. PICK s \in SUBSET Bits : Visit(m, k, i) = Learned(k, i, s, 0, {})
    BY <1>2, <2>1
  <2>3. {} \in SUBSET Bits /\ 0 \in 0 .. Len(m)
    BY <1>0
  <2>. QED
    BY <1>0, <2>2, <2>3
<1>4. CASE ins.op = "gep"
  <2>1. Visit(m, k, i) = Learned(k, i, k.value[a], i, FieldState(k.value[a]))
    <3>1. Visit(m, k, i)
            = LearnLocation(LearnValue(k, i, k.value[a]), i, FieldState(k.value[a]))
      BY <1>4 DEF Visit, Managed
    <3>. QED
      BY <1>0, <1>1, <3>1, LearnTwice
  <2>2. HasEntry(m, i)
    BY <1>4 DEF HasEntry
  <2>. QED
    BY <1>0, <1>1, <2>1, <2>2
<1>5. CASE ins.op \in {"phi", "select"}
  <2>. PICK s \in SUBSET Bits, t \in SUBSET Bits :
           /\ s = k.value[a] \cup k.value[b]
           /\ t = LocationState(m, k, a) \cup LocationState(m, k, b)
    BY <1>1
  <2>1. Visit(m, k, i) = Learned(k, i, s, i, t)
    <3>1. Visit(m, k, i) = LearnLocation(LearnValue(k, i, s), i, t)
      BY <1>5 DEF Visit, VisitJoin, Managed
    <3>. QED
      BY <1>0, <3>1, LearnTwice
  <2>2. HasEntry(m, i)
    BY <1>5 DEF HasEntry
  <2>. QED
    BY <1>0, <2>1, <2>2
<1>6. CASE ins.op = "store"
  <2>1. Visit(m, k, i) = VisitStore(m, k, a, b)
    BY <1>6 DEF Visit, Managed
  <2>2. /\ Len(m) \in Nat /\ k \in Knowledge(m)
        /\ a \in 0 .. Len(m) /\ b \in 0 .. Len(m)
    BY <1>0, <1>1
  <2>3. \E v \in 0 .. Len(m), s \in SUBSET Bits :
           VisitStore(m, k, a, b) = Learned(k, v, s, b, k.value[a])
    BY <2>2, StoreForm
  <2>4. HasEntry(m, b)
    BY <1>6 DEF HasEntry, Stores
  <2>. QED
    BY <1>1, <2>1, <2>3, <2>4
<1>. QED
  BY <1>0, <1>3, <1>4, <1>5, <1>6 DEF Operations

(* A visit keeps the knowledge sane and forgets nothing.                   *)
LEMMA VisitGrows ==
    ASSUME NEW m, WellFormed(m), NEW k, Sane(m, k), NEW i \in DOMAIN m
    PROVE  Sane(m, Visit(m, k, i)) /\ Grown(k, Visit(m, k, i))
<1>0. Len(m) \in Nat /\ DOMAIN m = 1 .. Len(m) /\ k \in Knowledge(m)
  BY ModuleFacts DEF Sane
<1>. PICK v \in 0 .. Len(m), w \in 0 .. Len(m), s \in SUBSET Bits, t \in SUBSET Bits :
         /\ Visit(m, k, i) = Learned(k, v, s, w, t)
         /\ t # {} /\ w # 0 => HasEntry(m, w)
  BY VisitForm
<1>. PICK l : l = Learned(k, v, s, w, t)
  OBVIOUS
<1>1. /\ l \in Knowledge(m) /\ Grown(k, l)
      /\ \A x \in 0 .. Len(m) :
           /\ l.value[x] = IF x = v /\ v # 0 THEN k.value[x] \cup s ELSE k.value[x]
           /\ l.location[x] = IF x = w /\ w # 0 THEN k.location[x] \cup t ELSE k.location[x]
  BY <1>0 DEF Knowledge, Learned, Grown
<1>2. Sane(m, l)
  <2>0. k.value[0] = {"null"} /\ k.location[0] = {} /\ 0 \in 0 .. Len(m)
    BY <1>0 DEF Sane
  <2>1. l.value[0] = {"null"} /\ l.location[0] = {}
    BY <1>1, <2>0
  <2>2. ASSUME NEW x \in DOMAIN m, l.location[x] # {} PROVE HasEntry(m, x)
    <3>1. CASE k.location[x] # {}
      BY <3>1 DEF Sane
    <3>2. CASE k.location[x] = {}
      <4>1. x \in 0 .. Len(m)
        BY <1>0
      <4>2. x = w /\ w # 0
        BY <1>1, <2>2, <3>2, <4>1
      <4>3. t # {}
        BY <1>1, <2>2, <3>2, <4>1, <4>2
      <4>. QED
        BY <4>2, <4>3
    <3>. QED
      BY <3>1, <3>2
  <2>. QED
    BY <1>1, <2>1, <2>2 DEF Sane
<1>. QED
  BY <1>1, <1>2

(* What is sane and grows both ways is the same.                           *)
LEMMA GrownBothWays ==
    ASSUME NEW m, NEW k \in Knowledge(m), NEW l \in Knowledge(m), Grown(k, l), Grown(l, k)
    PROVE  k = l
<1>0. /\ k.value \in [0 .. Len(m) -> SUBSET Bits] /\ l.value \in [0 .. Len(m) -> SUBSET Bits]
      /\ k.location \in [0 .. Len(m) -> SUBSET Bits]
      /\ l.location \in [0 .. Len(m) -> SUBSET Bits]
  BY DEF Knowledge
<1>1. \A x \in 0 .. Len(m) : k.value[x] = l.value[x] /\ k.location[x] = l.location[x]
  <2>1. DOMAIN k.value = 0 .. Len(m) /\ DOMAIN l.value = 0 .. Len(m)
    BY <1>0
  <2>2. \A x \in 0 .. Len(m) :
           /\ k.value[x] \subseteq l.value[x] /\ k.location[x] \subseteq l.location[x]
           /\ l.value[x] \subseteq k.value[x] /\ l.location[x] \subseteq k.location[x]
    BY <2>1 DEF Grown
  <2>. QED
    BY <2>2
<1>2. \A f, g \in [0 .. Len(m) -> SUBSET Bits] : (\A x \in 0 .. Len(m) : f[x] = g[x]) => f = g
  OBVIOUS
<1>3. k.value = l.value
  BY <1>0, <1>1, <1>2
<1>4. k.location = l.location
  BY <1>0, <1>1, <1>2
<1>. QED
  BY <1>3, <1>4 DEF Knowledge

(* What grows on what has grown has grown.                                 *)
LEMMA GrownTransitive ==
    ASSUME NEW m, NEW j \in Knowledge(m), NEW k \in Knowledge(m), NEW l \in Knowledge(m),
           Grown(j, k), Grown(k, l)
    PROVE  Grown(j, l)
BY DEF Knowledge, Grown

-----------------------------------------------------------------------------
(* A round is the sequence of its visits.                                  *)
LEMMA RoundVisits ==
    ASSUME NEW m, WellFormed(m), NEW order, IsOrderOf(order, m), NEW k, Sane(m, k)
    PROVE  \E a \in [0 .. Len(order) -> {l \in Knowledge(m) : Sane(m, l)}] :
              /\ a[0] = k /\ VisitModule(m, order, k) = a[Len(order)]
              /\ \A n \in 1 .. Len(order) :
                    order[n] \in DOMAIN m /\ a[n] = Visit(m, a[n - 1], order[n])
<1>. DEFINE S == {l \in Knowledge(m) : Sane(m, l)}
            N == Len(order)
            G == [n \in 1 .. N |-> [f \in [0 .. N -> S] |-> Visit(m, f[n - 1], order[n])]]
            Step(f) == [n \in 0 .. N |-> IF n = 0 THEN k ELSE Visit(m, f[n - 1], order[n])]
<1>1. N \in Nat /\ \A n \in 1 .. N : order[n] \in DOMAIN m
  BY DEF IsOrderOf
<1>2. k \in S
  BY DEF Sane
<1>3. \A l \in S, i \in DOMAIN m : Visit(m, l, i) \in S
  BY VisitGrows DEF Sane
<1>4. \A n \in 1 .. N : \A f \in [0 .. N -> S] :
         n - 1 \in 0 .. N /\ f[n - 1] \in S /\ Visit(m, f[n - 1], order[n]) \in S
  <2>. HIDE DEF S
  <2>. QED
    BY <1>1, <1>3
<1>5. G \in [1 .. N -> [[0 .. N -> S] -> S]]
  <2>. HIDE DEF S
  <2>. QED
    BY <1>4
<1>6. PICK f \in [0 .. N -> S] : f[0] = k /\ \A n \in 1 .. N : f[n] = G[n][f]
  <2>1. ASSUME NEW n \in 1 .. N, NEW f \in [0 .. N -> S], NEW g \in [0 .. N -> S],
               \A j \in 0 .. n - 1 : f[j] = g[j]
        PROVE  G[n][f] = G[n][g]
    <3>1. f[n - 1] = g[n - 1]
      BY <1>1, <2>1
    <3>. QED
      BY <3>1
  <2>2. Recursive(N, S, G)
    BY <2>1 DEF Recursive
  <2>. HIDE DEF S, G, N
  <2>3. \E f \in [0 .. N -> S] : Solves(f, N, k, G)
    BY <1>1, <1>2, <1>5, <2>2, Recursion
  <2>. QED
    BY <2>3 DEF Solves
<1>7. \A n \in 1 .. N : f[n] = Visit(m, f[n - 1], order[n])
  BY <1>6
<1>8. f = Step(f)
  <2>. HIDE DEF S
  <2>. QED
    BY <1>1, <1>6, <1>7
<1>. DEFINE a == CHOOSE g : g = Step(g)
<1>9. a = Step(a) /\ VisitModule(m, order, k) = a[N]
  <2>1. VisitModule(m, order, k) = a[N]
    BY DEF VisitModule
  <2>. HIDE DEF Step
  <2>. QED
    BY <1>8, <2>1
<1>. HIDE DEF a
<1>10. a[0] = k /\ \A n \in 1 .. N : a[n] = Visit(m, a[n - 1], order[n])
  BY <1>1, <1>9
<1>11. \A n \in 0 .. N : a[n] \in S
  <2>. DEFINE P == {n \in Nat : n <= N => a[n] \in S}
  <2>1. 0 \in P
    BY <1>2, <1>10
  <2>2. ASSUME NEW n \in P PROVE n + 1 \in P
    <3>. SUFFICES ASSUME n + 1 <= N PROVE a[n + 1] \in S
      OBVIOUS
    <3>1. n + 1 \in 1 .. N /\ a[n] \in S /\ a[n + 1] = Visit(m, a[n], order[n + 1])
      BY <1>1, <1>10
    <3>. QED
      BY <1>1, <1>3, <3>1
  <2>. HIDE DEF P
  <2>3. P = Nat
    BY <2>1, <2>2, SetInduction, P \subseteq Nat DEF P
  <2>. QED
    BY <2>3, <1>1 DEF P
<1>12. a \in [0 .. N -> S]
  <2>. HIDE DEF S
  <2>. QED
    BY <1>9, <1>11
<1>. QED
  BY <1>1, <1>9, <1>10, <1>12

(* What every visit keeps, a round keeps.                                  *)
LEMMA RoundKeeps ==
    ASSUME NEW m, WellFormed(m), NEW order, IsOrderOf(order, m), NEW k, Sane(m, k),
           NEW T, k \in T,
           \A l \in T, i \in DOMAIN m : Sane(m, l) => Visit(m, l, i) \in T
    PROVE  VisitModule(m, order, k) \in T /\ Sane(m, VisitModule(m, order, k))
<1>. PICK a \in [0 .. Len(order) -> {l \in Knowledge(m) : Sane(m, l)}] :
         /\ a[0] = k /\ VisitModule(m, order, k) = a[Len(order)]
         /\ \A n \in 1 .. Len(order) :
               order[n] \in DOMAIN m /\ a[n] = Visit(m, a[n - 1], order[n])
  BY RoundVisits
<1>1. Len(order) \in Nat /\ \A n \in 0 .. Len(order) : Sane(m, a[n])
  <2>1. Len(order) \in Nat
    BY DEF IsOrderOf
  <2>. QED
    BY <2>1
<1>. DEFINE P == {n \in Nat : n <= Len(order) => a[n] \in T}
<1>2. 0 \in P
  OBVIOUS
<1>3. ASSUME NEW n \in P PROVE n + 1 \in P
  <2>. SUFFICES ASSUME n + 1 <= Len(order) PROVE a[n + 1] \in T
    OBVIOUS
  <2>1. /\ n \in 0 .. Len(order) /\ n + 1 \in 1 .. Len(order) /\ a[n] \in T
        /\ order[n + 1] \in DOMAIN m /\ a[n + 1] = Visit(m, a[n], order[n + 1])
    BY <1>1
  <2>. QED
    BY <1>1, <2>1
<1>4. P = Nat
  <2>. HIDE DEF P
  <2>. QED
    BY <1>2, <1>3, SetInduction, P \subseteq Nat DEF P
<1>. QED
  BY <1>1, <1>4

(* A round forgets nothing.                                                *)
LEMMA RoundGrows ==
    ASSUME NEW m, WellFormed(m), NEW order, IsOrderOf(order, m), NEW k, Sane(m, k)
    PROVE  /\ Sane(m, VisitModule(m, order, k))
           /\ Grown(k, VisitModule(m, order, k))
<1>. DEFINE T == {l \in Knowledge(m) : Grown(k, l)}
<1>1. k \in T
  BY DEF Sane, Grown
<1>2. ASSUME NEW l \in T, NEW i \in DOMAIN m, Sane(m, l) PROVE Visit(m, l, i) \in T
  <2>1. /\ Visit(m, l, i) \in Knowledge(m) /\ l \in Knowledge(m) /\ k \in Knowledge(m)
        /\ Grown(k, l) /\ Grown(l, Visit(m, l, i))
    BY <1>2, VisitGrows DEF Sane
  <2>. QED
    BY <2>1, GrownTransitive
<1>. HIDE DEF T
<1>3. VisitModule(m, order, k) \in T /\ Sane(m, VisitModule(m, order, k))
  BY <1>1, <1>2, RoundKeeps
<1>. QED
  BY <1>3 DEF T

(* When a round learns nothing, no visit does.                             *)
LEMMA RoundSettles ==
    ASSUME NEW m, WellFormed(m), NEW order, IsOrderOf(order, m), NEW k, Sane(m, k),
           VisitModule(m, order, k) = k
    PROVE  Settled(m, k)
<1>. PICK a \in [0 .. Len(order) -> {l \in Knowledge(m) : Sane(m, l)}] :
         /\ a[0] = k /\ VisitModule(m, order, k) = a[Len(order)]
         /\ \A n \in 1 .. Len(order) :
               order[n] \in DOMAIN m /\ a[n] = Visit(m, a[n - 1], order[n])
  BY RoundVisits
<1>. DEFINE N == Len(order)
<1>1. N \in Nat /\ a[N] = k
  BY DEF IsOrderOf
<1>2. \A n \in 0 .. N : a[n] \in Knowledge(m) /\ Sane(m, a[n])
  OBVIOUS
<1>3. \A n \in 1 .. N : Grown(a[n - 1], a[n])
  <2>1. \A n \in 1 .. N : n - 1 \in 0 .. N
    BY <1>1
  <2>. QED
    BY <1>2, <2>1, VisitGrows
<1>4. \A n \in 0 .. N : Grown(k, a[n])
  <2>. DEFINE P == {n \in Nat : n <= N => Grown(k, a[n])}
  <2>1. 0 \in P
    BY DEF Grown
  <2>2. ASSUME NEW n \in P PROVE n + 1 \in P
    <3>. SUFFICES ASSUME n + 1 <= N PROVE Grown(k, a[n + 1])
      OBVIOUS
    <3>1. /\ n \in 0 .. N /\ n + 1 \in 0 .. N /\ n + 1 \in 1 .. N
          /\ Grown(k, a[n]) /\ (n + 1) - 1 = n
      BY <1>1
    <3>2. Grown(a[n], a[n + 1])
      BY <1>3, <3>1
    <3>3. a[n] \in Knowledge(m) /\ a[n + 1] \in Knowledge(m) /\ k \in Knowledge(m)
      BY <1>2, <3>1 DEF Sane
    <3>. QED
      BY <3>1, <3>2, <3>3, GrownTransitive
  <2>. HIDE DEF P
  <2>3. P = Nat
    BY <2>1, <2>2, SetInduction, P \subseteq Nat DEF P
  <2>. QED
    BY <2>3, <1>1 DEF P
<1>5. \A n \in 0 .. N : Grown(a[n], k)
  <2>. DEFINE P == {n \in Nat : n <= N => Grown(a[N - n], k)}
  <2>1. 0 \in P
    <3>1. N - 0 = N
      BY <1>1
    <3>. QED
      BY <1>1, <3>1 DEF Grown
  <2>2. ASSUME NEW n \in P PROVE n + 1 \in P
    <3>. SUFFICES ASSUME n + 1 <= N PROVE Grown(a[N - (n + 1)], k)
      OBVIOUS
    <3>. PICK j : j = N - n
      OBVIOUS
    <3>1. /\ j \in 1 .. N /\ j \in 0 .. N /\ j - 1 \in 0 .. N
          /\ Grown(a[j], k) /\ N - (n + 1) = j - 1
      BY <1>1
    <3>2. Grown(a[j - 1], a[j])
      BY <1>3, <3>1
    <3>3. a[j - 1] \in Knowledge(m) /\ a[j] \in Knowledge(m) /\ k \in Knowledge(m)
      BY <1>2, <3>1 DEF Sane
    <3>. QED
      BY <3>1, <3>2, <3>3, GrownTransitive
  <2>. HIDE DEF P
  <2>3. P = Nat
    BY <2>1, <2>2, SetInduction, P \subseteq Nat DEF P
  <2>4. ASSUME NEW n \in 0 .. N PROVE Grown(a[n], k)
    <3>1. N - n \in Nat /\ N - n <= N /\ N - (N - n) = n
      BY <1>1
    <3>2. N - n \in P
      BY <2>3, <3>1
    <3>. QED
      BY <3>1, <3>2 DEF P
  <2>. QED
    BY <2>4
<1>6. \A n \in 0 .. N : a[n] = k
  <2>1. k \in Knowledge(m)
    BY DEF Sane
  <2>. QED
    BY <1>2, <1>4, <1>5, <2>1, GrownBothWays
<1>7. ASSUME NEW i \in DOMAIN m PROVE Visit(m, k, i) = k
  <2>1. PICK n \in DOMAIN order : order[n] = i
    BY DEF IsOrderOf
  <2>2. n \in 1 .. N /\ n \in 0 .. N /\ n - 1 \in 0 .. N
    BY <1>1 DEF IsOrderOf
  <2>. QED
    BY <1>6, <2>1, <2>2
<1>. QED
  BY <1>7 DEF Settled

-----------------------------------------------------------------------------
(* The kinds of states.                                                    *)
LEMMA StateKinds ==
    ASSUME NEW s, s \in SUBSET Bits
    PROVE  /\ IsConcreteManagedKind(s) => HasManaged(s) /\ OfOneKind(s)
           /\ HasManaged(s) /\ OfOneKind(s) => IsConcreteManagedKind(s)
<1>0. "null" \notin Managed /\ Managed \subseteq Bits /\ "unknown" \notin Managed
  BY DEF Managed, Bits
<1>1. ASSUME IsConcreteManagedKind(s) PROVE HasManaged(s) /\ OfOneKind(s)
  <2>. DEFINE c == s \ {"null"}
  <2>1. PICK kind \in Bits : c = {kind} /\ kind \in Managed
    <3>1. CASE \E kind \in Bits : c = {kind}
      BY <1>1, <3>1 DEF IsConcreteManagedKind, DispatchKind
    <3>2. CASE ~\E kind \in Bits : c = {kind}
      <4>1. DispatchKind(s) = "unknown"
        BY <3>2 DEF DispatchKind
      <4>. QED
        BY <1>0, <1>1, <4>1 DEF IsConcreteManagedKind
    <3>. QED
      BY <3>1, <3>2
  <2>. QED
    BY <2>1 DEF OfOneKind, HasManaged
<1>2. ASSUME HasManaged(s), OfOneKind(s) PROVE IsConcreteManagedKind(s)
  <2>1. PICK kind \in Managed : kind \in s
    BY <1>2 DEF HasManaged
  <2>2. s \ {"null"} = {kind} /\ kind \in Bits
    BY <1>0, <1>2, <2>1 DEF OfOneKind
  <2>. QED
    BY <2>1, <2>2 DEF IsConcreteManagedKind, DispatchKind
<1>. QED
  BY <1>1, <1>2

-----------------------------------------------------------------------------
(* What has been learned is known.                                         *)
LEMMA LearnedKnown ==
    ASSUME NEW m, Len(m) \in Nat, NEW k, k \in Knowledge(m),
           NEW v, v \in 0 .. Len(m), NEW s, s \in SUBSET Bits,
           NEW w, w \in 0 .. Len(m), NEW t, t \in SUBSET Bits,
           NEW l, l = Learned(k, v, s, w, t)
    PROVE  (v # 0 => s \subseteq l.value[v]) /\ (w # 0 => t \subseteq l.location[w])
<1>0. k.value \in [0 .. Len(m) -> SUBSET Bits] /\ k.location \in [0 .. Len(m) -> SUBSET Bits]
  BY DEF Knowledge
<1>. QED
  BY <1>0 DEF Learned

(* What is known once nothing is left to learn, of a plain value, ...      *)
LEMMA SettledValues ==
    ASSUME NEW m, WellFormed(m), NEW k, Settled(m, k), NEW i \in DOMAIN m
    PROVE  /\ m[i].op \in Managed => m[i].op \in k.value[i]
           /\ m[i].op \in {"native", "aggregate", "slot"} => "raw" \in k.value[i]
           /\ m[i].op = "offset" => k.value[m[i].a] \subseteq k.value[i]
           /\ m[i].op \in {"param", "call"} =>
                k.value[m[i].a] \cup k.value[m[i].b] \subseteq k.value[i]
           /\ m[i].op = "load" => LocationState(m, k, m[i].a) \subseteq k.value[i]
<1>. PICK a, b : a = m[i].a /\ b = m[i].b
  OBVIOUS
<1>0. /\ Len(m) \in Nat /\ i \in 0 .. Len(m) /\ i # 0 /\ k \in Knowledge(m)
      /\ a \in 0 .. Len(m) /\ b \in 0 .. Len(m)
      /\ {} \in SUBSET Bits /\ 0 \in 0 .. Len(m)
  BY ModuleFacts DEF Settled, Sane
<1>. PICK after : after = Visit(m, k, i)
  OBVIOUS
<1>9. after = k
  BY DEF Settled
<1>1. /\ k.value[a] \in SUBSET Bits /\ k.value[b] \in SUBSET Bits
      /\ LocationState(m, k, a) \in SUBSET Bits
  BY <1>0, StateTypes
<1>2. ASSUME NEW s, s \in SUBSET Bits, Visit(m, k, i) = LearnValue(k, i, s)
      PROVE  s \subseteq k.value[i]
  <2>1. after = Learned(k, i, s, 0, {})
    BY <1>0, <1>2, LearnForms
  <2>2. s \subseteq after.value[i]
    BY <1>0, <1>2, <2>1, LearnedKnown
  <2>. QED
    BY <1>9, <2>2
<1>3. ASSUME m[i].op \in Managed PROVE m[i].op \in k.value[i]
  <2>1. Visit(m, k, i) = LearnValue(k, i, {m[i].op}) /\ {m[i].op} \in SUBSET Bits
    BY <1>3 DEF Visit, Managed, Bits
  <2>. QED
    BY <1>2, <2>1
<1>4. ASSUME m[i].op \in {"native", "aggregate", "slot"} PROVE "raw" \in k.value[i]
  <2>1. Visit(m, k, i) = LearnValue(k, i, {"raw"}) /\ {"raw"} \in SUBSET Bits
    BY <1>4 DEF Visit, Managed, Bits
  <2>. QED
    BY <1>2, <2>1
<1>7. ASSUME m[i].op = "offset" PROVE k.value[a] \subseteq k.value[i]
  <2>1. Visit(m, k, i) = LearnValue(k, i, k.value[a])
    BY <1>7 DEF Visit, Managed
  <2>. QED
    BY <1>1, <1>2, <2>1
<1>5. ASSUME m[i].op \in {"param", "call"} PROVE k.value[a] \cup k.value[b] \subseteq k.value[i]
  <2>1. Visit(m, k, i) = LearnValue(k, i, k.value[a] \cup k.value[b])
    BY <1>5 DEF Visit, Managed
  <2>. QED
    BY <1>1, <1>2, <2>1
<1>6. ASSUME m[i].op = "load" PROVE LocationState(m, k, a) \subseteq k.value[i]
  <2>1. Visit(m, k, i) = LearnValue(k, i, LocationState(m, k, a))
    BY <1>6 DEF Visit, Managed
  <2>. QED
    BY <1>1, <1>2, <2>1
<1>. QED
  BY <1>3, <1>4, <1>5, <1>6, <1>7

(* ... of a value with an entry for what it points to, ...                 *)
LEMMA SettledPlaces ==
    ASSUME NEW m, WellFormed(m), NEW k, Settled(m, k), NEW i \in DOMAIN m
    PROVE  /\ m[i].op = "gep" =>
                /\ k.value[m[i].a] \subseteq k.value[i]
                /\ FieldState(k.value[m[i].a]) \subseteq k.location[i]
           /\ m[i].op \in {"phi", "select"} =>
                /\ k.value[m[i].a] \cup k.value[m[i].b] \subseteq k.value[i]
                /\ LocationState(m, k, m[i].a) \cup LocationState(m, k, m[i].b)
                     \subseteq k.location[i]
<1>. PICK a, b : a = m[i].a /\ b = m[i].b
  OBVIOUS
<1>0. /\ Len(m) \in Nat /\ i \in 0 .. Len(m) /\ i # 0 /\ k \in Knowledge(m)
      /\ a \in 0 .. Len(m) /\ b \in 0 .. Len(m)
  BY ModuleFacts DEF Settled, Sane
<1>. PICK after : after = Visit(m, k, i)
  OBVIOUS
<1>9. after = k
  BY DEF Settled
<1>1. /\ k.value[a] \in SUBSET Bits /\ k.value[b] \in SUBSET Bits
      /\ LocationState(m, k, a) \in SUBSET Bits /\ LocationState(m, k, b) \in SUBSET Bits
      /\ FieldState(k.value[a]) \in SUBSET Bits
  BY <1>0, StateTypes
<1>2. ASSUME NEW s, s \in SUBSET Bits, NEW t, t \in SUBSET Bits,
             Visit(m, k, i) = LearnLocation(LearnValue(k, i, s), i, t)
      PROVE  s \subseteq k.value[i] /\ t \subseteq k.location[i]
  <2>1. after = Learned(k, i, s, i, t)
    BY <1>0, <1>2, LearnTwice
  <2>2. s \subseteq after.value[i] /\ t \subseteq after.location[i]
    BY <1>0, <1>2, <2>1, LearnedKnown
  <2>. QED
    BY <1>9, <2>2
<1>3. ASSUME m[i].op = "gep"
      PROVE  k.value[a] \subseteq k.value[i] /\ FieldState(k.value[a]) \subseteq k.location[i]
  <2>1. Visit(m, k, i)
          = LearnLocation(LearnValue(k, i, k.value[a]), i, FieldState(k.value[a]))
    BY <1>3 DEF Visit, Managed
  <2>. QED
    BY <1>1, <1>2, <2>1
<1>4. ASSUME m[i].op \in {"phi", "select"}
      PROVE  /\ k.value[a] \cup k.value[b] \subseteq k.value[i]
             /\ LocationState(m, k, a) \cup LocationState(m, k, b) \subseteq k.location[i]
  <2>. PICK s, t : /\ s = k.value[a] \cup k.value[b]
                   /\ t = LocationState(m, k, a) \cup LocationState(m, k, b)
    OBVIOUS
  <2>1. Visit(m, k, i) = LearnLocation(LearnValue(k, i, s), i, t)
    BY <1>4 DEF Visit, VisitJoin, Managed
  <2>2. s \in SUBSET Bits /\ t \in SUBSET Bits
    BY <1>1
  <2>. QED
    BY <1>2, <2>1, <2>2
<1>. QED
  BY <1>3, <1>4

(* What a store learns.                                                    *)
LEMMA LearnStored ==
    ASSUME NEW m, Len(m) \in Nat, NEW k, k \in Knowledge(m),
           NEW a, a \in 0 .. Len(m), NEW b, b \in 0 .. Len(m),
           NEW c, c \in SUBSET Bits, NEW s, s \in SUBSET Bits
    PROVE  /\ b # 0 => c \subseteq LearnLocation(k, b, c).location[b]
           /\ b # 0 => c \subseteq LearnValue(LearnLocation(k, b, c), a, s).location[b]
           /\ a # 0 => s \subseteq LearnValue(k, a, s).value[a]
           /\ (b # 0 => c \subseteq k.location[b]) => LearnLocation(k, b, c) = k
<1>0. /\ k = [value |-> k.value, location |-> k.location]
      /\ k.value \in [0 .. Len(m) -> SUBSET Bits] /\ k.location \in [0 .. Len(m) -> SUBSET Bits]
  BY DEF Knowledge
<1>1. b # 0 => c \subseteq LearnLocation(k, b, c).location[b]
  BY <1>0 DEF LearnLocation
<1>2. b # 0 => c \subseteq LearnValue(LearnLocation(k, b, c), a, s).location[b]
  BY <1>0 DEF LearnLocation, LearnValue
<1>3. a # 0 => s \subseteq LearnValue(k, a, s).value[a]
  BY <1>0 DEF LearnValue
<1>4. ASSUME b # 0, c \subseteq k.location[b] PROVE LearnLocation(k, b, c) = k
  <2>1. k.location[b] \cup c = k.location[b]
    BY <1>4
  <2>2. [k.location EXCEPT ![b] = k.location[b] \cup c] = k.location
    BY <1>0, <2>1
  <2>3. LearnLocation(k, b, c)
          = [k EXCEPT !.location = [k.location EXCEPT ![b] = k.location[b] \cup c]]
    BY <1>0, <1>4 DEF LearnLocation
  <2>. QED
    BY <1>0, <2>2, <2>3
<1>5. b = 0 => LearnLocation(k, b, c) = k
  BY DEF LearnLocation
<1>. QED
  BY <1>1, <1>2, <1>3, <1>4, <1>5

(* A store that learns nothing.                                            *)
LEMMA StoreKnown ==
    ASSUME NEW m, Len(m) \in Nat, NEW k, k \in Knowledge(m),
           NEW a, a \in 0 .. Len(m), NEW b, b \in 0 .. Len(m),
           VisitStore(m, k, a, b) = k
    PROVE  /\ b # 0 => k.value[a] \subseteq k.location[b]
           /\ a # 0 /\ HasManaged(LocationState(m, k, b)) =>
                LocationState(m, k, b) \subseteq k.value[a]
<1>. DEFINE stored == LearnLocation(k, b, k.value[a])
            s == LocationState(m, stored, b)
<1>1. k.value[a] \in SUBSET Bits
  BY StateTypes
<1>2. stored \in Knowledge(m)
  BY <1>1, LearnForms
<1>3. s \in SUBSET Bits
  BY <1>2, StateTypes
<1>4. k = IF HasManaged(s) THEN LearnValue(stored, a, s) ELSE stored
  BY DEF VisitStore
<1>. HIDE DEF s
<1>5. b # 0 => k.value[a] \subseteq stored.location[b]
  BY <1>1, LearnStored
<1>6. b # 0 => k.value[a] \subseteq LearnValue(stored, a, s).location[b]
  BY <1>1, <1>3, LearnStored
<1>7. b # 0 => k.value[a] \subseteq k.location[b]
  <2>. HIDE DEF stored
  <2>. QED
    BY <1>4, <1>5, <1>6
<1>8. stored = k
  BY <1>1, <1>7, LearnStored
<1>9. a # 0 => s \subseteq LearnValue(k, a, s).value[a]
  BY <1>3, LearnStored
<1>10. a # 0 /\ HasManaged(s) => s \subseteq k.value[a]
  <2>. HIDE DEF stored
  <2>. QED
    BY <1>4, <1>8, <1>9
<1>11. s = LocationState(m, k, b)
  <2>. HIDE DEF stored
  <2>. QED
    BY <1>8 DEF s
<1>. QED
  BY <1>7, <1>10, <1>11

(* ... and of what is stored.                                              *)
LEMMA SettledStores ==
    ASSUME NEW m, WellFormed(m), NEW k, Settled(m, k), NEW i \in Stores(m)
    PROVE  /\ m[i].b # 0 => k.value[m[i].a] \subseteq k.location[m[i].b]
           /\ m[i].a # 0 /\ HasManaged(LocationState(m, k, m[i].b)) =>
                LocationState(m, k, m[i].b) \subseteq k.value[m[i].a]
<1>1. /\ Len(m) \in Nat /\ i \in DOMAIN m /\ m[i].op = "store" /\ k \in Knowledge(m)
      /\ m[i].a \in 0 .. Len(m) /\ m[i].b \in 0 .. Len(m)
  BY ModuleFacts DEF Settled, Sane, Stores
<1>2. Visit(m, k, i) = VisitStore(m, k, m[i].a, m[i].b) /\ Visit(m, k, i) = k
  BY <1>1 DEF Visit, Managed, Settled
<1>. QED
  BY <1>1, <1>2, StoreKnown

-----------------------------------------------------------------------------
(* The types of the values, by the instructions that define them.          *)
TypeNames == {"any", "managed", "raw"}

LEMMA TypeIn ==
    ASSUME WellFormed(program), NEW k, NEW v, v \in 1 .. Len(program),
           NEW tag, tag \in [0 .. Len(program) -> TypeNames]
    PROVE  TypeOf(k, tag, v) \in TypeNames
<1>1. /\ program[v].op \in Operations /\ program[v].a \in 0 .. Len(program)
  BY ModuleFacts
<1>2. tag[program[v].a] \in TypeNames
  BY <1>1
<1>. QED
  BY <1>1, <1>2 DEF TypeOf, TypeNames, TypeOfKind, Operations, Managed

LEMMA TypesUnfold ==
    ASSUME WellFormed(program), NEW k
    PROVE  /\ TypesOf(k) \in [0 .. Len(program) -> TypeNames]
           /\ TypesOf(k)[0] = "any"
           /\ \A v \in 1 .. Len(program) : TypesOf(k)[v] = TypeOf(k, TypesOf(k), v)
<1>. DEFINE N == Len(program)
            G == [n \in 1 .. N |-> [f \in [0 .. N -> TypeNames] |-> TypeOf(k, f, n)]]
            Step(f) == [v \in 0 .. N |-> IF v = 0 THEN "any" ELSE TypeOf(k, f, v)]
<1>1. N \in Nat /\ DOMAIN program = 1 .. N
  BY ModuleFacts
<1>2. G \in [1 .. N -> [[0 .. N -> TypeNames] -> TypeNames]]
  BY TypeIn
<1>3. ASSUME NEW n \in 1 .. N, NEW f \in [0 .. N -> TypeNames], NEW g \in [0 .. N -> TypeNames],
             \A j \in 0 .. n - 1 : f[j] = g[j]
      PROVE  TypeOf(k, f, n) = TypeOf(k, g, n)
  <2>1. program[n].op \in {"gep", "offset", "select"} => f[program[n].a] = g[program[n].a]
    <3>1. program[n].op \in {"gep", "offset", "select"} => program[n].a \in 0 .. n - 1
      BY <1>1, ModuleFacts
    <3>. QED
      BY <1>3, <3>1
  <2>. QED
    BY <2>1 DEF TypeOf, Managed
<1>4. Recursive(N, TypeNames, G)
  BY <1>3 DEF Recursive
<1>5. PICK f \in [0 .. N -> TypeNames] : f[0] = "any" /\ \A n \in 1 .. N : f[n] = G[n][f]
  <2>. HIDE DEF G, N
  <2>1. \E f \in [0 .. N -> TypeNames] : Solves(f, N, "any", G)
    <3>1. "any" \in TypeNames
      BY DEF TypeNames
    <3>. QED
      BY <1>1, <1>2, <1>4, <3>1, Recursion
  <2>. QED
    BY <2>1 DEF Solves
<1>6. \A n \in 1 .. N : f[n] = TypeOf(k, f, n)
  BY <1>5
<1>7. f = Step(f)
  BY <1>1, <1>5, <1>6
<1>. DEFINE a == CHOOSE g : g = Step(g)
<1>8. a = Step(a) /\ TypesOf(k) = a
  <2>1. TypesOf(k) = a
    BY DEF TypesOf
  <2>. HIDE DEF Step
  <2>. QED
    BY <1>7, <2>1
<1>. HIDE DEF a
<1>9. a[0] = "any" /\ \A n \in 1 .. N : a[n] = TypeOf(k, a, n)
  BY <1>1, <1>8
<1>10. \A n \in 0 .. N : a[n] = f[n]
  <2>. DEFINE P == {n \in Nat : n <= N => \A j \in 0 .. n : a[j] = f[j]}
  <2>1. 0 \in P
    BY <1>5, <1>9
  <2>2. ASSUME NEW n \in P PROVE n + 1 \in P
    <3>. SUFFICES ASSUME n + 1 <= N PROVE \A j \in 0 .. n + 1 : a[j] = f[j]
      OBVIOUS
    <3>1. /\ n + 1 \in 1 .. N /\ \A j \in 0 .. n : a[j] = f[j]
      BY <1>1
    <3>. PICK x : x = n + 1
      OBVIOUS
    <3>2. TypeOf(k, a, x) = TypeOf(k, f, x)
      <4>1. program[x].op \in {"gep", "offset", "select"} => program[x].a \in 0 .. n
        BY <1>1, <3>1, ModuleFacts
      <4>2. program[x].op \in {"gep", "offset", "select"} => a[program[x].a] = f[program[x].a]
        BY <3>1, <4>1
      <4>. QED
        BY <4>2 DEF TypeOf, Managed
    <3>3. a[x] = f[x]
      BY <1>6, <1>9, <3>1, <3>2
    <3>. QED
      BY <3>1, <3>3
  <2>. HIDE DEF P
  <2>3. P = Nat
    BY <2>1, <2>2, SetInduction, P \subseteq Nat DEF P
  <2>. QED
    BY <2>3, <1>1 DEF P
<1>11. a = f
  BY <1>1, <1>5, <1>8, <1>10
<1>. QED
  BY <1>1, <1>5, <1>8, <1>9, <1>11

-----------------------------------------------------------------------------
(* Where a value may point to, of any m that says so.                      *)
Places == Sites \X {0, 1}
MayOf == [0 .. Len(program) -> SUBSET Places]

(* The flow, by the instructions.                                          *)
LEMMA FlowIs ==
    ASSUME WellFormed(program), NEW m, m \in MayOf, NEW v, v \in DOMAIN program
    PROVE  /\ v \in Sites => Flow(m)[v] = {<<v, 0>>}
           /\ program[v].op \in {"gep", "offset"} => Flow(m)[v] = {<<l[1], 1>> : l \in m[program[v].a]}
           /\ program[v].op = "load" =>
                Flow(m)[v] = UNION {Content(m, l) : l \in m[program[v].a]}
           /\ program[v].op \in {"phi", "select", "param", "call"} =>
                Flow(m)[v] = m[program[v].a] \cup m[program[v].b]
           /\ program[v].op = "store" => Flow(m)[v] = {}
<1>1. v \in DOMAIN m /\ v # 0
  BY ModuleFacts DEF MayOf
<1>2. v \in Sites => program[v].op \in {"object", "array", "native", "aggregate", "slot"}
  BY DEF Sites, Managed
<1>3. program[v].op \in {"gep", "offset", "load", "phi", "select", "param", "call", "store"}
        => v \notin Sites
  BY DEF Sites, Managed
<1>4. v \in Sites => Flow(m)[v] = {<<v, 0>>}
  BY <1>1, <1>2 DEF Flow
<1>5. program[v].op \in {"gep", "offset"} => Flow(m)[v] = {<<l[1], 1>> : l \in m[program[v].a]}
  BY <1>1, <1>3 DEF Flow
<1>6. program[v].op = "load" =>
                Flow(m)[v] = UNION {Content(m, l) : l \in m[program[v].a]}
  BY <1>1, <1>3 DEF Flow
<1>7. program[v].op \in {"phi", "select", "param", "call"} =>
                Flow(m)[v] = m[program[v].a] \cup m[program[v].b]
  BY <1>1, <1>3 DEF Flow
<1>8. program[v].op = "store" => Flow(m)[v] = {}
  BY <1>1, <1>3 DEF Flow
<1>. QED
  BY <1>4, <1>5, <1>6, <1>7, <1>8

(* The flow stays among the places, and null points nowhere.               *)
LEMMA FlowPlaces ==
    ASSUME WellFormed(program), NEW m, m \in MayOf
    PROVE  Flow(m) \in MayOf /\ Flow(m)[0] = {}
<1>1. Len(program) \in Nat /\ DOMAIN program = 1 .. Len(program) /\ DOMAIN m = 0 .. Len(program)
  BY ModuleFacts DEF MayOf
<1>2. ASSUME NEW l, l \in Places PROVE Content(m, l) \subseteq Places
  <2>1. l[1] \in Sites /\ <<l[1], 0>> \in Places
    BY <1>2 DEF Places
  <2>2. \A i \in Stores(program) : m[program[i].a] \subseteq Places
    BY <1>1, ModuleFacts DEF MayOf, Stores
  <2>. DEFINE U == UNION {m[program[i].a] : i \in {j \in Stores(program) : l \in m[program[j].b]}}
              E == {x \in {<<l[1], 0>>} : program[x[1]].op = "native"}
  <2>3. U \subseteq Places
    BY <2>2
  <2>4. E \subseteq Places
    BY <2>1
  <2>5. Content(m, l) = U \cup E
    BY DEF Content
  <2>. HIDE DEF U, E
  <2>. QED
    BY <2>3, <2>4, <2>5
<1>3. ASSUME NEW v \in DOMAIN program PROVE Flow(m)[v] \subseteq Places
  <2>0. /\ program[v].op \in Operations
        /\ m[program[v].a] \subseteq Places /\ m[program[v].b] \subseteq Places
    BY <1>1, ModuleFacts DEF MayOf
  <2>1. CASE v \in Sites
    BY <2>1, FlowIs DEF Places
  <2>2. CASE program[v].op \in {"gep", "offset"}
    <3>1. \A l \in m[program[v].a] : <<l[1], 1>> \in Places
      BY <2>0 DEF Places
    <3>. QED
      BY <2>2, <3>1, FlowIs
  <2>3. CASE program[v].op = "load"
    <3>1. \A l \in m[program[v].a] : Content(m, l) \subseteq Places
      BY <1>2, <2>0
    <3>. QED
      BY <2>3, <3>1, FlowIs
  <2>4. CASE program[v].op \in {"phi", "select", "param", "call"}
    BY <2>0, <2>4, FlowIs
  <2>5. CASE program[v].op = "store"
    BY <2>5, FlowIs
  <2>. QED
    BY <2>0, <2>1, <2>2, <2>3, <2>4, <2>5 DEF Operations, Sites
<1>4. Flow(m)[0] = {}
  BY <1>1 DEF Flow
<1>5. DOMAIN Flow(m) = 0 .. Len(program) /\ Flow(m) = [v \in 0 .. Len(program) |-> Flow(m)[v]]
  BY <1>1 DEF Flow
<1>6. \A v \in 0 .. Len(program) : Flow(m)[v] \in SUBSET Places
  BY <1>1, <1>3, <1>4
<1>7. [v \in 0 .. Len(program) |-> Flow(m)[v]] \in MayOf
  BY <1>6 DEF MayOf
<1>. QED
  BY <1>4, <1>5, <1>7

-----------------------------------------------------------------------------
(* The state of the lowering, and what makes it the last one.              *)
LoweringTypeOK ==
    /\ program \in Modules
    /\ known \in [Orders(program) -> Knowledge(program)]
    /\ \A order \in Orders(program) : Sane(program, known[order])
    /\ may \in MayOf /\ may[0] = {}
    /\ Final => NextRound(known) = known /\ Flow(may) = may

LEMMA LoweringStarts ==
    LoweringInit => LoweringTypeOK
<1>. SUFFICES ASSUME LoweringInit PROVE LoweringTypeOK
  OBVIOUS
<1>0. WellFormed(program) /\ program \in Modules
  BY ModulesAssumption DEF LoweringInit
<1>1. Len(program) \in Nat /\ DOMAIN program = 1 .. Len(program)
  BY <1>0, ModuleFacts
<1>2. may \in MayOf /\ \A v \in 0 .. Len(program) : may[v] = {}
  BY DEF LoweringInit, MayOf
<1>3. may[0] = {} /\ ~Final
  BY <1>1, <1>2 DEF LoweringInit, Final
<1>4. NothingKnown(program) \in Knowledge(program) /\ Sane(program, NothingKnown(program))
  <2>1. NothingKnown(program) \in Knowledge(program)
    BY DEF NothingKnown, Knowledge, NoState, Bits
  <2>2. NothingKnown(program).value[0] = {"null"}
    BY <1>1 DEF NothingKnown
  <2>3. \A v \in 0 .. Len(program) : NothingKnown(program).location[v] = {}
    BY DEF NothingKnown, NoState
  <2>. QED
    BY <1>1, <2>1, <2>2, <2>3 DEF Sane
<1>. QED
  BY <1>0, <1>2, <1>3, <1>4 DEF LoweringTypeOK, LoweringInit

(* A round of the analysis of every order.                                 *)
LEMMA AnalysisRound ==
    ASSUME LoweringTypeOK
    PROVE  /\ NextRound(known) \in [Orders(program) -> Knowledge(program)]
           /\ \A order \in Orders(program) :
                /\ NextRound(known)[order] = VisitModule(program, order, known[order])
                /\ Sane(program, NextRound(known)[order])
<1>1. WellFormed(program) /\ \A order \in Orders(program) : IsOrderOf(order, program)
  BY ModulesAssumption DEF LoweringTypeOK
<1>2. DOMAIN known = Orders(program)
  BY DEF LoweringTypeOK
<1>3. ASSUME NEW order \in Orders(program)
      PROVE  Sane(program, VisitModule(program, order, known[order]))
  <2>1. Sane(program, known[order]) /\ IsOrderOf(order, program)
    BY <1>1 DEF LoweringTypeOK
  <2>. QED
    BY <1>1, <2>1, RoundGrows
<1>4. \A order \in Orders(program) :
         VisitModule(program, order, known[order]) \in Knowledge(program)
  BY <1>3 DEF Sane
<1>5. NextRound(known)
        = [order \in Orders(program) |-> VisitModule(program, order, known[order])]
  BY <1>2 DEF NextRound
<1>. QED
  BY <1>3, <1>4, <1>5

LEMMA LoweringKeeps ==
    LoweringTypeOK /\ [LoweringNext]_LoweringVars => LoweringTypeOK'
<1>. SUFFICES ASSUME LoweringTypeOK, [LoweringNext]_LoweringVars PROVE LoweringTypeOK'
  OBVIOUS
<1>0. WellFormed(program)
  BY ModulesAssumption DEF LoweringTypeOK
<1>1. CASE UNCHANGED LoweringVars
  <2>1. /\ program' = program /\ known' = known /\ may' = may /\ stage' = stage
        /\ NextRound(known)' = NextRound(known)
    BY <1>1 DEF LoweringVars, NextRound
  <2>2. Flow(may)' = Flow(may) /\ MayOf' = MayOf
    BY <2>1 DEF Flow, Content, Sites, MayOf, Places
  <2>. QED
    BY <2>1, <2>2 DEF LoweringTypeOK, Final
<1>2. CASE Analyse
  <2>1. /\ program' = program /\ known' = NextRound(known) /\ may' = Flow(may)
        /\ stage' = IF known' = known /\ may' = may THEN "lower" ELSE "analyse"
    BY <1>2 DEF Analyse
  <2>2. may' \in MayOf /\ may'[0] = {} /\ may \in MayOf /\ may[0] = {}
    BY <1>0, <2>1, FlowPlaces DEF LoweringTypeOK
  <2>3. Final' => NextRound(known') = known' /\ Flow(may') = may'
    BY <2>1 DEF Final
  <2>4. NextRound(known)' = NextRound(known') /\ Flow(may)' = Flow(may') /\ MayOf' = MayOf
    BY <2>1 DEF NextRound, Flow, Content, Sites, MayOf, Places
  <2>. QED
    BY <2>1, <2>2, <2>3, <2>4, AnalysisRound DEF LoweringTypeOK
<1>3. CASE Lowered
  BY <1>1, <1>3 DEF Lowered
<1>. QED
  BY <1>1, <1>2, <1>3 DEF LoweringNext

-----------------------------------------------------------------------------
(* A name of managed memory without an entry stands for its own kind.      *)
LEMMA NoEntry ==
    ASSUME WellFormed(program), NEW k, Settled(program, k), NEW v, v \in Defines(program),
           program[v].op \notin {"gep", "phi", "select", "slot"}, StoredUnder(v) = {},
           HasManaged(k.value[v])
    PROVE  HasManaged(LocationState(program, k, v))
<1>1. v \in DOMAIN program /\ v # 0
  BY ModuleFacts DEF Defines
<1>2. ~HasEntry(program, v)
  BY DEF StoredUnder, HasEntry
<1>3. k.location[v] = {}
  BY <1>1, <1>2 DEF Settled, Sane
<1>. QED
  BY <1>1, <1>3 DEF LocationState, IsSlot, NoState

-----------------------------------------------------------------------------
(* What is known of the values and addresses a reference is followed to.   *)
Followed == [values : SUBSET Defines(program), addresses : SUBSET Defines(program)]

FollowedOK(k, f) ==
    /\ f \in Followed
    /\ \A v \in f.values :
         /\ HasManaged(k.value[v])
         /\ OfOneKind(k.value[v]) => TypesOf(k)[v] = "managed"
    /\ \A v \in f.addresses : HasManaged(LocationState(program, k, v))

(* Where a reference arrives from, it arrives as one ...                   *)
LEMMA ArrivesTyped ==
    ASSUME WellFormed(program), NEW k, Settled(program, k), NEW f, FollowedOK(k, f),
           NEW v, v \in Defines(program), Arrives(TypesOf(k), f, v)
    PROVE  HasManaged(k.value[v]) /\ (OfOneKind(k.value[v]) => TypesOf(k)[v] = "managed")
<1>. PICK a, b : a = program[v].a /\ b = program[v].b
  OBVIOUS
<1>0. /\ Len(program) \in Nat /\ DOMAIN program = 1 .. Len(program)
      /\ v \in DOMAIN program /\ v \in 1 .. Len(program)
      /\ program[v].op \in Operations /\ program[v].op # "store"
      /\ a \in 0 .. Len(program) /\ b \in 0 .. Len(program)
      /\ k \in Knowledge(program)
  BY ModuleFacts DEF Defines, Stores, Settled, Sane
<1>1. k.value[v] \in SUBSET Bits /\ k.value[a] \in SUBSET Bits /\ k.value[b] \in SUBSET Bits
  BY <1>0, StateTypes
<1>2. TypesOf(k)[v] = TypeOf(k, TypesOf(k), v)
  BY <1>0, TypesUnfold
<1>3. \A x \in f.values : /\ x # 0 /\ HasManaged(k.value[x])
                          /\ OfOneKind(k.value[x]) => TypesOf(k)[x] = "managed"
  BY <1>0 DEF FollowedOK, Followed, Defines
<1>4. ASSUME HasManaged(k.value[v]), OfOneKind(k.value[v]) PROVE TypeOfKind(k.value[v]) = "managed"
  BY <1>1, <1>4, StateKinds DEF TypeOfKind
<1>5. CASE program[v].op \in Managed
  <2>1. program[v].op \in k.value[v]
    BY <1>0, <1>5, SettledValues
  <2>2. TypesOf(k)[v] = "managed"
    BY <1>2, <1>5 DEF TypeOf, Managed
  <2>. QED
    BY <1>5, <2>1, <2>2 DEF HasManaged
<1>6. CASE program[v].op \in {"gep", "offset"}
  <2>1. a \in f.values
    BY <1>6 DEF Arrives, Managed
  <2>2. k.value[a] \subseteq k.value[v]
    BY <1>0, <1>6, SettledValues, SettledPlaces
  <2>3. TypesOf(k)[v] = TypesOf(k)[a]
    BY <1>2, <1>6 DEF TypeOf, Managed
  <2>. QED
    BY <1>3, <2>1, <2>2, <2>3 DEF HasManaged, OfOneKind
<1>7. CASE program[v].op = "load"
  <2>1. HasManaged(LocationState(program, k, a))
    BY <1>7 DEF Arrives, Managed, FollowedOK
  <2>2. LocationState(program, k, a) \subseteq k.value[v]
    BY <1>0, <1>7, SettledValues
  <2>3. TypesOf(k)[v] = TypeOfKind(k.value[v])
    BY <1>2, <1>7 DEF TypeOf, Managed
  <2>. QED
    BY <1>4, <2>1, <2>2, <2>3 DEF HasManaged
<1>8. CASE program[v].op \in {"phi", "param", "call"}
  <2>1. PICK x \in {a, b} : x \in f.values
    BY <1>8 DEF Arrives, Managed
  <2>2. k.value[a] \cup k.value[b] \subseteq k.value[v]
    BY <1>0, <1>8, SettledValues, SettledPlaces
  <2>3. HasManaged(k.value[a] \cup k.value[b]) /\ HasManaged(k.value[v])
    BY <1>3, <2>1, <2>2 DEF HasManaged
  <2>4. ASSUME OfOneKind(k.value[v]) PROVE TypesOf(k)[v] = "managed"
    <3>1. CASE program[v].op \in {"phi", "param"}
      <4>1. TypesOf(k)[v] = TypeOfKind(k.value[v])
        BY <1>2, <3>1 DEF TypeOf, Managed
      <4>. QED
        BY <1>4, <2>3, <2>4, <4>1
    <3>2. CASE program[v].op = "call"
      <4>. PICK s : s = k.value[a] \cup k.value[b]
        OBVIOUS
      <4>1. TypesOf(k)[v] = TypeOfKind(s)
        BY <1>2, <3>2 DEF TypeOf, Managed
      <4>2. s \in SUBSET Bits /\ HasManaged(s) /\ OfOneKind(s)
        BY <1>1, <2>2, <2>3, <2>4 DEF OfOneKind
      <4>. QED
        BY <4>1, <4>2, StateKinds DEF TypeOfKind
    <3>. QED
      BY <1>8, <3>1, <3>2
  <2>. QED
    BY <2>3, <2>4
<1>9. CASE program[v].op = "select"
  <2>1. \/ a \in f.values
        \/ b \in f.values /\ SelectAgrees(TypesOf(k), v)
    BY <1>9 DEF Arrives, Managed
  <2>2. k.value[a] \subseteq k.value[v] /\ k.value[b] \subseteq k.value[v]
    BY <1>0, <1>9, SettledPlaces
  <2>3. HasManaged(k.value[v])
    BY <1>3, <2>1, <2>2 DEF HasManaged
  <2>4. ASSUME OfOneKind(k.value[v]) PROVE TypesOf(k)[v] = "managed"
    <3>1. OfOneKind(k.value[a]) /\ OfOneKind(k.value[b])
      BY <2>2, <2>4 DEF OfOneKind
    <3>2. TypesOf(k)[v] = IF a = 0 THEN TypeOfKind(k.value[v]) ELSE TypesOf(k)[a]
      BY <1>2, <1>9 DEF TypeOf, Managed
    <3>3. CASE a \in f.values
      BY <1>3, <3>1, <3>2, <3>3
    <3>4. CASE b \in f.values /\ SelectAgrees(TypesOf(k), v)
      BY <1>3, <3>1, <3>4 DEF SelectAgrees, Fits
    <3>. QED
      BY <2>1, <3>3, <3>4
  <2>. QED
    BY <2>3, <2>4
<1>10. program[v].op \in Managed \cup {"gep", "offset", "load", "phi", "param", "call", "select"}
  <2>. HIDE DEF Managed
  <2>. QED
    BY DEF Arrives
<1>. QED
  BY <1>5, <1>6, <1>7, <1>8, <1>9, <1>10

(* ... and what is found behind an address is known to be one.             *)
LEMMA BehindKnown ==
    ASSUME WellFormed(program), NEW k, Settled(program, k), NEW f, FollowedOK(k, f),
           NEW v, v \in Defines(program), IsBehind(k, f, v)
    PROVE  HasManaged(LocationState(program, k, v))
<1>. PICK a, b : a = program[v].a /\ b = program[v].b
  OBVIOUS
<1>0. /\ v \in DOMAIN program /\ v \in 0 .. Len(program) /\ v # 0
      /\ a \in 0 .. Len(program) /\ b \in 0 .. Len(program)
      /\ k \in Knowledge(program)
  BY ModuleFacts DEF Defines, Settled, Sane
<1>1. k.location[v] \subseteq LocationState(program, k, v) /\ k.value[a] \in SUBSET Bits
  BY <1>0, StateTypes
<1>2. CASE \E x \in StoredUnder(v) : x \in f.values
  <2>1. PICK i \in Stores(program) : program[i].b = v /\ program[i].a \in f.values
    BY <1>2 DEF StoredUnder
  <2>2. HasManaged(k.value[program[i].a])
    BY <2>1 DEF FollowedOK
  <2>3. k.value[program[i].a] \subseteq k.location[v]
    BY <1>0, <2>1, SettledStores
  <2>. QED
    BY <1>1, <2>2, <2>3 DEF HasManaged
<1>3. CASE program[v].op = "gep" /\ IsConcreteManagedKind(k.value[a])
  <2>1. FieldState(k.value[a]) = k.value[a] /\ HasManaged(k.value[a])
    BY <1>1, <1>3, StateKinds DEF FieldState
  <2>2. FieldState(k.value[a]) \subseteq k.location[v]
    BY <1>0, <1>3, SettledPlaces
  <2>. QED
    BY <1>1, <2>1, <2>2 DEF HasManaged
<1>4. CASE /\ program[v].op \notin {"gep", "phi", "select", "slot"}
           /\ v \in f.values /\ StoredUnder(v) = {}
  <2>1. HasManaged(k.value[v])
    BY <1>4 DEF FollowedOK
  <2>. QED
    BY <1>4, <2>1, NoEntry
<1>5. CASE program[v].op \in {"phi", "select"} /\ (a \in f.addresses \/ b \in f.addresses)
  <2>1. HasManaged(LocationState(program, k, a)) \/ HasManaged(LocationState(program, k, b))
    BY <1>5 DEF FollowedOK
  <2>2. LocationState(program, k, a) \cup LocationState(program, k, b) \subseteq k.location[v]
    BY <1>0, <1>5, SettledPlaces
  <2>. QED
    BY <1>1, <2>1, <2>2 DEF HasManaged
<1>. QED
  BY <1>2, <1>3, <1>4, <1>5 DEF IsBehind

LEMMA FollowKeeps ==
    ASSUME WellFormed(program), NEW k, Settled(program, k), NEW f, FollowedOK(k, f)
    PROVE  FollowedOK(k, Follow(k, TypesOf(k), f))
<1>. DEFINE V == {v \in Defines(program) : Arrives(TypesOf(k), f, v)}
            A == {v \in Defines(program) : IsBehind(k, f, v)}
<1>1. Follow(k, TypesOf(k), f) = [values |-> V, addresses |-> A]
  BY DEF Follow
<1>2. /\ V \in SUBSET Defines(program)
      /\ \A v \in V : /\ HasManaged(k.value[v])
                      /\ OfOneKind(k.value[v]) => TypesOf(k)[v] = "managed"
  BY ArrivesTyped
<1>3. /\ A \in SUBSET Defines(program)
      /\ \A v \in A : HasManaged(LocationState(program, k, v))
  BY BehindKnown
<1>. HIDE DEF V, A
<1>. QED
  BY <1>1, <1>2, <1>3 DEF FollowedOK, Followed

(* Every value a reference is followed to is typed as one, if of one kind. *)
LEMMA FollowedTyped ==
    ASSUME WellFormed(program), NEW k, Settled(program, k)
    PROVE  \A v \in FollowedReferences(k).values :
              OfOneKind(k.value[v])
                => TypesOf(k)[v] = "managed" /\ RefusesIndirectCallWith(k, v)
<1>. DEFINE S == {f \in Followed : FollowedOK(k, f)}
            N == 2 * Len(program)
            s0 == [values |-> {}, addresses |-> {}]
            H == [f \in S |-> Follow(k, TypesOf(k), f)]
            Step(g) == [n \in 0 .. N |-> IF n = 0 THEN s0 ELSE Follow(k, TypesOf(k), g[n - 1])]
<1>0. N \in Nat
  BY ModuleFacts
<1>1. s0 \in S
  BY DEF FollowedOK, Followed
<1>2. \A f \in S : Follow(k, TypesOf(k), f) \in S
  BY FollowKeeps DEF FollowedOK
<1>3. H \in [S -> S]
  <2>. HIDE DEF S
  <2>. QED
    BY <1>2
<1>4. PICK g \in [0 .. N -> S] : Follows(g, N, s0, H)
  <2>. HIDE DEF S, H, N, s0
  <2>. QED
    BY <1>0, <1>1, <1>3, Iteration
<1>5. g = Step(g)
  <2>1. g[0] = s0 /\ \A n \in 1 .. N : n - 1 \in 0 .. N /\ g[n - 1] \in S /\ g[n] = H[g[n - 1]]
    <3>. HIDE DEF S, H, s0
    <3>. QED
      BY <1>0, <1>4 DEF Follows
  <2>2. \A n \in 1 .. N : g[n] = Follow(k, TypesOf(k), g[n - 1])
    <3>. HIDE DEF S
    <3>. QED
      BY <2>1
  <2>. HIDE DEF S, H, s0, N
  <2>. QED
    BY <1>0, <2>1, <2>2
<1>. DEFINE h == CHOOSE x : x = Step(x)
<1>6. FollowedReferences(k) = h[N]
  BY DEF FollowedReferences
<1>7. h = Step(h)
  <2>. HIDE DEF Step
  <2>. QED
    BY <1>5
<1>. HIDE DEF h
<1>8. h[0] = s0 /\ \A n \in 1 .. N : h[n] = Follow(k, TypesOf(k), h[n - 1])
  <2>. HIDE DEF N, s0
  <2>. QED
    BY <1>0, <1>7
<1>. HIDE DEF N, s0, H, Step
<1>9. \A n \in 0 .. N : h[n] \in S
  <2>. HIDE DEF S
  <2>. DEFINE P == {n \in Nat : n <= N => h[n] \in S}
  <2>1. 0 \in P
    BY <1>1, <1>8
  <2>2. ASSUME NEW n \in P PROVE n + 1 \in P
    <3>. SUFFICES ASSUME n + 1 <= N PROVE h[n + 1] \in S
      OBVIOUS
    <3>1. n + 1 \in 1 .. N /\ h[n] \in S /\ h[n + 1] = Follow(k, TypesOf(k), h[n])
      BY <1>0, <1>8
    <3>. QED
      BY <1>2, <3>1
  <2>. HIDE DEF P
  <2>3. P = Nat
    BY <2>1, <2>2, SetInduction, P \subseteq Nat DEF P
  <2>. QED
    BY <1>0, <2>3 DEF P
<1>10. FollowedOK(k, FollowedReferences(k))
  BY <1>0, <1>6, <1>9
<1>. SUFFICES ASSUME NEW v \in FollowedReferences(k).values, OfOneKind(k.value[v])
              PROVE  TypesOf(k)[v] = "managed" /\ RefusesIndirectCallWith(k, v)
  OBVIOUS
<1>11. v \in Defines(program) /\ HasManaged(k.value[v]) /\ TypesOf(k)[v] = "managed"
  BY <1>10 DEF FollowedOK, Followed
<1>12. k.value[v] \in SUBSET Bits
  BY <1>11, ModuleFacts, StateTypes DEF Defines, Settled, Sane
<1>. QED
  BY <1>11, <1>12, StateKinds DEF RefusesIndirectCallWith

(* What the last round leaves has settled, in every order.                 *)
LEMMA FinalSettled ==
    ASSUME LoweringTypeOK, Final
    PROVE  \A order \in DOMAIN known : Settled(program, known[order])
<1>1. WellFormed(program) /\ \A order \in Orders(program) : IsOrderOf(order, program)
  BY ModulesAssumption DEF LoweringTypeOK
<1>2. DOMAIN known = Orders(program)
  BY DEF LoweringTypeOK
<1>3. ASSUME NEW order \in Orders(program) PROVE Settled(program, known[order])
  <2>1. Sane(program, known[order]) /\ IsOrderOf(order, program)
    BY <1>1 DEF LoweringTypeOK
  <2>2. VisitModule(program, order, known[order]) = known[order]
    BY AnalysisRound DEF LoweringTypeOK
  <2>. QED
    BY <1>1, <2>1, <2>2, RoundSettles
<1>. QED
  BY <1>2, <1>3

(* Both analyses of a module, what is known in each order and what the     *)
(* references flow to, stay within its values, states and places.          *)
THEOREM LoweringTypes == LoweringSpec => []LoweringTypeOK
<1>. QED
  BY LoweringStarts, LoweringKeeps, PTL DEF LoweringSpec

(* In every module the verifier lets pass, in whatever order it is         *)
(* analysed: a value that a reference to managed memory can be followed to *)
(* is of managed type, and no indirect callee gets it, unless the analysis *)
(* takes it for several kinds.                                             *)
THEOREM ReferencesAreTyped == LoweringSpec => []ReferencesTyped
<1>1. LoweringTypeOK => ReferencesTyped
  <2>. SUFFICES ASSUME LoweringTypeOK, Final, NEW order \in DOMAIN known
                PROVE  \A v \in FollowedReferences(known[order]).values :
                          OfOneKind(known[order].value[v])
                            => /\ TypesOf(known[order])[v] = "managed"
                               /\ RefusesIndirectCallWith(known[order], v)
    BY DEF ReferencesTyped
  <2>1. WellFormed(program) /\ Settled(program, known[order])
    BY ModulesAssumption, FinalSettled DEF LoweringTypeOK
  <2>. QED
    BY <2>1, FollowedTyped
<1>. QED
  BY LoweringStarts, LoweringKeeps, <1>1, PTL DEF LoweringSpec

-----------------------------------------------------------------------------
(* Of a definite state, nothing but null is known beside the one kind.     *)
LEMMA DefiniteFacts ==
    ASSUME WellFormed(program), NEW k, Settled(program, k), Definite(k),
           NEW v, v \in {0} \cup Defines(program), HasManaged(k.value[v])
    PROVE  /\ v # 0 /\ IsConcreteManagedKind(k.value[v])
           /\ k.value[v] \ {"null"} \subseteq LocationState(program, k, v)
<1>0. v \in 0 .. Len(program) /\ k \in Knowledge(program) /\ k.value[0] = {"null"}
  BY ModuleFacts DEF Defines, Settled, Sane
<1>1. v # 0
  BY <1>0 DEF HasManaged, Managed
<1>2. k.value[v] \in SUBSET Bits
  BY <1>0, StateTypes
<1>3. OfOneKind(k.value[v]) /\ k.value[v] \cap Managed \subseteq LocationState(program, k, v)
  BY <1>1 DEF Definite
<1>4. \A x, y \in k.value[v] \ {"null"} : x = y
  BY <1>3 DEF OfOneKind
<1>5. PICK z \in k.value[v] : z \in Managed
  BY DEF HasManaged
<1>6. z # "null"
  BY <1>5 DEF Managed
<1>7. k.value[v] \ {"null"} \subseteq k.value[v] \cap Managed
  BY <1>4, <1>5, <1>6
<1>. QED
  BY <1>1, <1>2, <1>3, <1>7, StateKinds

(* What knows no more of values and places knows no more of what there is  *)
(* behind an address.                                                      *)
LEMMA LocationNoMore ==
    ASSUME WellFormed(program), NEW k, Settled(program, k), Definite(k),
           NEW l, l \in Knowledge(program), KnowsNoMore(l, k),
           NEW v, v \in {0} \cup Defines(program)
    PROVE  LocationState(program, l, v) \ {"null"} \subseteq LocationState(program, k, v)
<1>0. /\ v \in 0 .. Len(program) /\ k \in Knowledge(program)
      /\ DOMAIN l.value = 0 .. Len(program)
  BY ModuleFacts DEF Defines, Settled, Sane, Knowledge
<1>1. /\ l.value[v] \ {"null"} \subseteq k.value[v]
      /\ l.location[v] \ {"null"} \subseteq k.location[v]
      /\ k.location[v] \subseteq LocationState(program, k, v)
  BY <1>0, StateTypes DEF KnowsNoMore
<1>2. CASE LocationState(program, l, v) = l.location[v]
  BY <1>1, <1>2
<1>3. CASE LocationState(program, l, v) = l.value[v] /\ HasManaged(l.value[v])
  <2>1. HasManaged(k.value[v])
    BY <1>1, <1>3 DEF HasManaged, Managed
  <2>2. k.value[v] \ {"null"} \subseteq LocationState(program, k, v)
    BY <2>1, DefiniteFacts
  <2>. QED
    BY <1>1, <1>3, <2>2
<1>. QED
  BY <1>2, <1>3 DEF LocationState

(* Learning what is known elsewhere.                                       *)
LEMMA LearnNoMore ==
    ASSUME NEW m, Len(m) \in Nat, NEW k, NEW l, l \in Knowledge(m), KnowsNoMore(l, k),
           NEW v, v \in 0 .. Len(m), NEW s, s \in SUBSET Bits
    PROVE  /\ (v # 0 => s \ {"null"} \subseteq k.value[v])
                => KnowsNoMore(LearnValue(l, v, s), k)
           /\ (v # 0 => s \ {"null"} \subseteq k.location[v])
                => KnowsNoMore(LearnLocation(l, v, s), k)
<1>0. /\ l.value \in [0 .. Len(m) -> SUBSET Bits] /\ l.location \in [0 .. Len(m) -> SUBSET Bits]
      /\ l = [value |-> l.value, location |-> l.location]
  BY DEF Knowledge
<1>1. \A x \in 0 .. Len(m) : l.value[x] \ {"null"} \subseteq k.value[x]
                             /\ l.location[x] \ {"null"} \subseteq k.location[x]
  BY <1>0 DEF KnowsNoMore
<1>2. ASSUME v # 0, s \ {"null"} \subseteq k.value[v] PROVE KnowsNoMore(LearnValue(l, v, s), k)
  <2>1. /\ LearnValue(l, v, s).value = [l.value EXCEPT ![v] = @ \cup s]
        /\ LearnValue(l, v, s).location = l.location
    BY <1>0, <1>2 DEF LearnValue
  <2>2. \A x \in 0 .. Len(m) : [l.value EXCEPT ![v] = @ \cup s][x] \ {"null"} \subseteq k.value[x]
    BY <1>0, <1>1, <1>2
  <2>. QED
    BY <1>0, <1>1, <2>1, <2>2 DEF KnowsNoMore
<1>3. ASSUME v # 0, s \ {"null"} \subseteq k.location[v]
      PROVE  KnowsNoMore(LearnLocation(l, v, s), k)
  <2>1. /\ LearnLocation(l, v, s).location = [l.location EXCEPT ![v] = @ \cup s]
        /\ LearnLocation(l, v, s).value = l.value
    BY <1>0, <1>3 DEF LearnLocation
  <2>2. \A x \in 0 .. Len(m) :
           [l.location EXCEPT ![v] = @ \cup s][x] \ {"null"} \subseteq k.location[x]
    BY <1>0, <1>1, <1>3
  <2>. QED
    BY <1>0, <1>1, <2>1, <2>2 DEF KnowsNoMore
<1>4. v = 0 => KnowsNoMore(LearnValue(l, v, s), k) /\ KnowsNoMore(LearnLocation(l, v, s), k)
  BY DEF LearnValue, LearnLocation
<1>. QED
  BY <1>2, <1>3, <1>4

(* A visit finds nothing that a definite order did not find.               *)
LEMMA VisitNoMore ==
    ASSUME WellFormed(program), NEW k, Settled(program, k), Definite(k),
           NEW l, l \in Knowledge(program), KnowsNoMore(l, k),
           NEW i, i \in DOMAIN program
    PROVE  KnowsNoMore(Visit(program, l, i), k)
<1>. PICK a, b : a = program[i].a /\ b = program[i].b
  OBVIOUS
<1>0. /\ Len(program) \in Nat /\ i \in 0 .. Len(program) /\ i # 0
      /\ program[i].op \in Operations
      /\ a \in 0 .. Len(program) /\ b \in 0 .. Len(program)
      /\ a \in {0} \cup Defines(program) /\ b \in {0} \cup Defines(program)
      /\ k \in Knowledge(program) /\ DOMAIN l.value = 0 .. Len(program)
  BY ModuleFacts DEF Settled, Sane, Knowledge
<1>1. /\ l.value[a] \in SUBSET Bits /\ l.value[b] \in SUBSET Bits
      /\ LocationState(program, l, a) \in SUBSET Bits
      /\ LocationState(program, l, b) \in SUBSET Bits
      /\ FieldState(l.value[a]) \in SUBSET Bits
  BY <1>0, StateTypes
<1>2. /\ l.value[a] \ {"null"} \subseteq k.value[a] /\ l.value[b] \ {"null"} \subseteq k.value[b]
      /\ LocationState(program, l, a) \ {"null"} \subseteq LocationState(program, k, a)
      /\ LocationState(program, l, b) \ {"null"} \subseteq LocationState(program, k, b)
  BY <1>0, LocationNoMore DEF KnowsNoMore
<1>3. ASSUME NEW s, s \in SUBSET Bits, Visit(program, l, i) = LearnValue(l, i, s),
             s \ {"null"} \subseteq k.value[i]
      PROVE  KnowsNoMore(Visit(program, l, i), k)
  BY <1>0, <1>3, LearnNoMore
<1>4. ASSUME NEW s, s \in SUBSET Bits, NEW t, t \in SUBSET Bits,
             Visit(program, l, i) = LearnLocation(LearnValue(l, i, s), i, t),
             s \ {"null"} \subseteq k.value[i], t \ {"null"} \subseteq k.location[i]
      PROVE  KnowsNoMore(Visit(program, l, i), k)
  <2>1. KnowsNoMore(LearnValue(l, i, s), k) /\ LearnValue(l, i, s) \in Knowledge(program)
    BY <1>0, <1>4, LearnNoMore, LearnForms
  <2>2. KnowsNoMore(LearnLocation(LearnValue(l, i, s), i, t), k)
    BY <1>0, <1>4, <2>1, LearnNoMore
  <2>. QED
    BY <1>4, <2>2
<1>5. CASE program[i].op \in Managed
  <2>1. Visit(program, l, i) = LearnValue(l, i, {program[i].op})
        /\ {program[i].op} \in SUBSET Bits
    BY <1>5 DEF Visit, Managed, Bits
  <2>2. program[i].op \in k.value[i]
    BY <1>5, SettledValues
  <2>. QED
    BY <1>3, <2>1, <2>2
<1>6. CASE program[i].op \in {"native", "aggregate", "slot"}
  <2>1. Visit(program, l, i) = LearnValue(l, i, {"raw"}) /\ {"raw"} \in SUBSET Bits
    BY <1>6 DEF Visit, Managed, Bits
  <2>2. "raw" \in k.value[i]
    BY <1>6, SettledValues
  <2>. QED
    BY <1>3, <2>1, <2>2
<1>7. CASE program[i].op \in {"param", "call"}
  <2>1. Visit(program, l, i) = LearnValue(l, i, l.value[a] \cup l.value[b])
    BY <1>7 DEF Visit, Managed
  <2>2. k.value[a] \cup k.value[b] \subseteq k.value[i]
    BY <1>7, SettledValues
  <2>3. (l.value[a] \cup l.value[b]) \in SUBSET Bits
        /\ (l.value[a] \cup l.value[b]) \ {"null"} \subseteq k.value[i]
    BY <1>1, <1>2, <2>2
  <2>. QED
    BY <1>3, <2>1, <2>3
<1>8. CASE program[i].op = "load"
  <2>1. Visit(program, l, i) = LearnValue(l, i, LocationState(program, l, a))
    BY <1>8 DEF Visit, Managed
  <2>2. LocationState(program, k, a) \subseteq k.value[i]
    BY <1>8, SettledValues
  <2>3. LocationState(program, l, a) \ {"null"} \subseteq k.value[i]
    BY <1>2, <2>2
  <2>. QED
    BY <1>1, <1>3, <2>1, <2>3
<1>12. CASE program[i].op = "offset"
  <2>1. Visit(program, l, i) = LearnValue(l, i, l.value[a])
    BY <1>12 DEF Visit, Managed
  <2>2. l.value[a] \ {"null"} \subseteq k.value[i]
    BY <1>2, <1>12, SettledValues
  <2>. QED
    BY <1>1, <1>3, <2>1, <2>2
<1>9. CASE program[i].op = "gep"
  <2>1. Visit(program, l, i)
          = LearnLocation(LearnValue(l, i, l.value[a]), i, FieldState(l.value[a]))
    BY <1>9 DEF Visit, Managed
  <2>2. k.value[a] \subseteq k.value[i] /\ FieldState(k.value[a]) \subseteq k.location[i]
    BY <1>9, SettledPlaces
  <2>3. FieldState(l.value[a]) \ {"null"} \subseteq k.location[i]
    <3>1. CASE IsConcreteManagedKind(l.value[a])
      <4>1. HasManaged(l.value[a])
        BY <1>1, <3>1, StateKinds
      <4>2. HasManaged(k.value[a])
        BY <1>2, <4>1 DEF HasManaged, Managed
      <4>3. FieldState(k.value[a]) = k.value[a]
        BY <1>0, <4>2, DefiniteFacts DEF FieldState
      <4>. QED
        BY <1>2, <2>2, <3>1, <4>3 DEF FieldState
    <3>2. CASE ~IsConcreteManagedKind(l.value[a])
      BY <3>2 DEF FieldState, NoState
    <3>. QED
      BY <3>1, <3>2
  <2>4. l.value[a] \ {"null"} \subseteq k.value[i]
    BY <1>2, <2>2
  <2>. QED
    BY <1>1, <1>4, <2>1, <2>3, <2>4
<1>10. CASE program[i].op \in {"phi", "select"}
  <2>. DEFINE s == l.value[a] \cup l.value[b]
              t == LocationState(program, l, a) \cup LocationState(program, l, b)
  <2>1. Visit(program, l, i) = LearnLocation(LearnValue(l, i, s), i, t)
    BY <1>10 DEF Visit, VisitJoin, Managed
  <2>2. /\ k.value[a] \cup k.value[b] \subseteq k.value[i]
        /\ LocationState(program, k, a) \cup LocationState(program, k, b)
             \subseteq k.location[i]
    BY <1>10, SettledPlaces
  <2>3. /\ s \in SUBSET Bits /\ t \in SUBSET Bits
        /\ s \ {"null"} \subseteq k.value[i] /\ t \ {"null"} \subseteq k.location[i]
    BY <1>1, <1>2, <2>2
  <2>. HIDE DEF s, t
  <2>. QED
    BY <1>4, <2>1, <2>3
<1>11. CASE program[i].op = "store"
  <2>. DEFINE stored == LearnLocation(l, b, l.value[a])
              s == LocationState(program, stored, b)
  <2>1. Visit(program, l, i) = IF HasManaged(s) THEN LearnValue(stored, a, s) ELSE stored
    BY <1>11 DEF Visit, VisitStore, Managed
  <2>2. i \in Stores(program)
    BY <1>11 DEF Stores
  <2>3. /\ b # 0 => k.value[a] \subseteq k.location[b]
        /\ a # 0 /\ HasManaged(LocationState(program, k, b)) =>
             LocationState(program, k, b) \subseteq k.value[a]
    BY <2>2, SettledStores
  <2>4. stored \in Knowledge(program)
    BY <1>0, <1>1, LearnForms
  <2>5. KnowsNoMore(stored, k)
    <3>1. b # 0 => l.value[a] \ {"null"} \subseteq k.location[b]
      BY <1>2, <2>3
    <3>. QED
      BY <1>0, <1>1, <3>1, LearnNoMore
  <2>. HIDE DEF stored
  <2>6. s \in SUBSET Bits /\ s \ {"null"} \subseteq LocationState(program, k, b)
    BY <1>0, <2>4, <2>5, StateTypes, LocationNoMore
  <2>. HIDE DEF s
  <2>7. ASSUME HasManaged(s) PROVE KnowsNoMore(LearnValue(stored, a, s), k)
    <3>1. HasManaged(LocationState(program, k, b))
      BY <2>6, <2>7 DEF HasManaged, Managed
    <3>2. a # 0 => s \ {"null"} \subseteq k.value[a]
      BY <2>3, <2>6, <3>1
    <3>. QED
      BY <1>0, <2>4, <2>5, <2>6, <3>2, LearnNoMore
  <2>. QED
    BY <2>1, <2>5, <2>7
<1>. QED
  BY <1>0, <1>5, <1>6, <1>7, <1>8, <1>9, <1>10, <1>11, <1>12 DEF Operations

-----------------------------------------------------------------------------
(* No order finds more than a settled and definite state of the analysis.  *)
OrderInv ==
    \A k \in Knowledge(program) :
        Settled(program, k) /\ Definite(k) =>
            \A order \in Orders(program) : KnowsNoMore(known[order], k)

LEMMA OrderStarts ==
    LoweringInit => OrderInv
<1>. SUFFICES ASSUME LoweringInit, NEW k \in Knowledge(program), Settled(program, k),
                     NEW order \in Orders(program)
              PROVE  KnowsNoMore(known[order], k)
  BY DEF OrderInv
<1>1. known[order] = NothingKnown(program)
  BY DEF LoweringInit
<1>2. k.value[0] = {"null"}
  BY DEF Settled, Sane
<1>3. \A v \in 0 .. Len(program) :
         /\ NothingKnown(program).value[v] \ {"null"} \subseteq k.value[v]
         /\ NothingKnown(program).location[v] = {}
  BY <1>2 DEF NothingKnown, NoState
<1>4. DOMAIN NothingKnown(program).value = 0 .. Len(program)
  BY DEF NothingKnown
<1>. QED
  BY <1>1, <1>3, <1>4 DEF KnowsNoMore

(* A round finds nothing that a definite order did not find.               *)
LEMMA RoundNoMore ==
    ASSUME WellFormed(program), NEW k, Settled(program, k), Definite(k),
           NEW order, IsOrderOf(order, program),
           NEW l, Sane(program, l), KnowsNoMore(l, k)
    PROVE  KnowsNoMore(VisitModule(program, order, l), k)
<1>. DEFINE T == {j \in Knowledge(program) : KnowsNoMore(j, k)}
<1>1. l \in T
  BY DEF Sane
<1>2. ASSUME NEW j \in T, NEW i \in DOMAIN program, Sane(program, j)
      PROVE  Visit(program, j, i) \in T
  <2>1. Visit(program, j, i) \in Knowledge(program)
    BY <1>2, VisitGrows DEF Sane
  <2>2. KnowsNoMore(Visit(program, j, i), k)
    BY <1>2, VisitNoMore
  <2>. QED
    BY <2>1, <2>2
<1>. HIDE DEF T
<1>3. VisitModule(program, order, l) \in T
  BY <1>1, <1>2, RoundKeeps
<1>. QED
  BY <1>3 DEF T

LEMMA OrderKeeps ==
    LoweringTypeOK /\ OrderInv /\ [LoweringNext]_LoweringVars => OrderInv'
<1>. SUFFICES ASSUME LoweringTypeOK, OrderInv, [LoweringNext]_LoweringVars PROVE OrderInv'
  OBVIOUS
<1>0. WellFormed(program) /\ \A order \in Orders(program) : IsOrderOf(order, program)
  BY ModulesAssumption DEF LoweringTypeOK
<1>1. program' = program
  BY DEF LoweringNext, Analyse, Lowered, LoweringVars
<1>2. \A k : Definite(k)' <=> Definite(k)
  BY <1>1 DEF Definite
<1>3. CASE known' = known
  BY <1>1, <1>2, <1>3 DEF OrderInv
<1>4. CASE known' = NextRound(known)
  <2>1. ASSUME NEW k \in Knowledge(program), Settled(program, k), Definite(k),
               NEW order \in Orders(program)
        PROVE  KnowsNoMore(known'[order], k)
    <3>1. /\ Sane(program, known[order]) /\ KnowsNoMore(known[order], k)
          /\ IsOrderOf(order, program)
      BY <1>0, <2>1 DEF LoweringTypeOK, OrderInv
    <3>2. known'[order] = VisitModule(program, order, known[order])
      BY <1>4, AnalysisRound
    <3>. QED
      BY <1>0, <2>1, <3>1, <3>2, RoundNoMore
  <2>. QED
    BY <1>1, <1>2, <2>1 DEF OrderInv
<1>. QED
  BY <1>3, <1>4 DEF LoweringNext, Analyse, Lowered, LoweringVars

-----------------------------------------------------------------------------
(* States that differ in null only are of one dispatch kind.               *)
SameKind(s, r) == IsConcreteManagedKind(s) <=> IsConcreteManagedKind(r)

LEMMA KindWithoutNull ==
    ASSUME NEW s, NEW r, s \ {"null"} \subseteq r, r \ {"null"} \subseteq s
    PROVE  SameKind(s, r)
<1>1. s \ {"null"} = r \ {"null"}
  OBVIOUS
<1>. QED
  BY <1>1 DEF SameKind, IsConcreteManagedKind, DispatchKind

(* Two definite states that know no more than each other lower the module  *)
(* the same way.                                                           *)
LEMMA SameLowering ==
    ASSUME WellFormed(program),
           NEW k, Settled(program, k), Definite(k), NEW l, Settled(program, l), Definite(l),
           KnowsNoMore(k, l), KnowsNoMore(l, k)
    PROVE  Accepted(l) = Accepted(k) /\ TypesOf(l) = TypesOf(k)
<1>0. /\ Len(program) \in Nat /\ DOMAIN program = 1 .. Len(program)
      /\ {0} \cup Defines(program) \subseteq 0 .. Len(program)
      /\ k \in Knowledge(program) /\ l \in Knowledge(program)
      /\ DOMAIN k.value = 0 .. Len(program) /\ DOMAIN l.value = 0 .. Len(program)
  BY ModuleFacts DEF Defines, Settled, Sane, Knowledge
<1>1. \A v \in 0 .. Len(program) :
         SameKind(k.value[v], l.value[v]) /\ SameKind(k.location[v], l.location[v])
  BY <1>0, KindWithoutNull DEF KnowsNoMore
<1>2. \A v \in {0} \cup Defines(program) :
         SameKind(LocationState(program, k, v), LocationState(program, l, v))
  BY <1>0, LocationNoMore, KindWithoutNull
<1>3. /\ \A v \in 0 .. Len(program) : TypeOfKind(k.value[v]) = TypeOfKind(l.value[v])
      /\ \A u, v \in 0 .. Len(program) :
           TypeOfKind(k.value[u] \cup k.value[v]) = TypeOfKind(l.value[u] \cup l.value[v])
  <2>1. ASSUME NEW u \in 0 .. Len(program), NEW v \in 0 .. Len(program)
        PROVE  SameKind(k.value[u] \cup k.value[v], l.value[u] \cup l.value[v])
    <3>1. /\ k.value[u] \ {"null"} \subseteq l.value[u] /\ l.value[u] \ {"null"} \subseteq k.value[u]
          /\ k.value[v] \ {"null"} \subseteq l.value[v] /\ l.value[v] \ {"null"} \subseteq k.value[v]
      BY <1>0 DEF KnowsNoMore
    <3>. QED
      BY <3>1, KindWithoutNull
  <2>. QED
    BY <1>1, <2>1 DEF TypeOfKind, SameKind
<1>4. NeedsLowering(k) <=> NeedsLowering(l)
  BY <1>0, <1>1 DEF NeedsLowering, SameKind
<1>5. \A v \in 0 .. Len(program), a \in {0} \cup Defines(program) :
         StoreType(k, v, a) = StoreType(l, v, a)
  BY <1>1, <1>2 DEF StoreType, SameKind
<1>6. TypesOf(k) = TypesOf(l)
  <2>. DEFINE f == TypesOf(k)
              g == TypesOf(l)
  <2>1. /\ f \in [0 .. Len(program) -> TypeNames] /\ g \in [0 .. Len(program) -> TypeNames]
        /\ f[0] = "any" /\ g[0] = "any"
        /\ \A v \in 1 .. Len(program) : f[v] = TypeOf(k, f, v) /\ g[v] = TypeOf(l, g, v)
    BY TypesUnfold
  <2>. HIDE DEF f, g
  <2>2. ASSUME NEW v \in 1 .. Len(program), \A u \in 0 .. v - 1 : f[u] = g[u]
        PROVE  f[v] = g[v]
    <3>1. program[v].op \in {"gep", "offset", "select"} => program[v].a \in 0 .. v - 1
      BY <1>0, ModuleFacts
    <3>2. program[v].op \in {"gep", "offset", "select"} => f[program[v].a] = g[program[v].a]
      BY <2>2, <3>1
    <3>3. /\ TypeOfKind(k.value[v]) = TypeOfKind(l.value[v])
          /\ TypeOfKind(k.value[program[v].a] \cup k.value[program[v].b])
               = TypeOfKind(l.value[program[v].a] \cup l.value[program[v].b])
      <4>1. /\ v \in 0 .. Len(program)
            /\ program[v].a \in 0 .. Len(program) /\ program[v].b \in 0 .. Len(program)
        BY <1>0, ModuleFacts
      <4>. QED
        BY <1>3, <4>1
    <3>4. TypeOf(k, f, v) = TypeOf(l, g, v)
      BY <3>2, <3>3 DEF TypeOf, Managed
    <3>. QED
      BY <2>1, <3>4
  <2>. DEFINE P == {n \in Nat : \A u \in 0 .. n : u <= Len(program) => f[u] = g[u]}
  <2>3. 0 \in P
    BY <2>1
  <2>4. ASSUME NEW n \in P PROVE n + 1 \in P
    <3>. SUFFICES ASSUME NEW u, u = n + 1, u <= Len(program) PROVE f[u] = g[u]
      <4>1. \A u \in 0 .. n + 1 : u \in 0 .. n \/ u = n + 1
        OBVIOUS
      <4>. QED
        BY <4>1
    <3>1. u \in 1 .. Len(program) /\ \A x \in 0 .. u - 1 : f[x] = g[x]
      BY <1>0
    <3>. QED
      BY <2>2, <3>1
  <2>. HIDE DEF P
  <2>5. P = Nat
    BY <2>3, <2>4, SetInduction, P \subseteq Nat DEF P
  <2>6. \A v \in 0 .. Len(program) : f[v] = g[v]
    BY <1>0, <2>5 DEF P
  <2>7. f = g
    BY <2>1, <2>6
  <2>. QED
    BY <2>7 DEF f, g
<1>7. Accepted(l) = Accepted(k)
  <2>1. \A i \in DOMAIN program :
           /\ program[i].a \in 0 .. Len(program) /\ program[i].b \in {0} \cup Defines(program)
           /\ StoreType(k, program[i].a, program[i].b)
                = StoreType(l, program[i].a, program[i].b)
    BY <1>5, ModuleFacts
  <2>2. Accepted(l) <=> Accepted(k)
    BY <1>4, <1>6, <2>1 DEF Accepted
  <2>3. Accepted(l) \in BOOLEAN /\ Accepted(k) \in BOOLEAN
    BY DEF Accepted
  <2>. QED
    BY <2>2, <2>3
<1>. QED
  BY <1>6, <1>7

LEMMA LoweringOrders ==
    ASSUME LoweringTypeOK, OrderInv
    PROVE  OrderIrrelevant
<1>. SUFFICES ASSUME Final, NEW p \in DOMAIN known, NEW q \in DOMAIN known, Definite(known[p])
              PROVE  /\ KnowsNoMore(known[q], known[p])
                     /\ Definite(known[q]) =>
                          /\ Accepted(known[q]) = Accepted(known[p])
                          /\ TypesOf(known[q]) = TypesOf(known[p])
  BY DEF OrderIrrelevant
<1>1. WellFormed(program) /\ DOMAIN known = Orders(program)
      /\ known[p] \in Knowledge(program) /\ known[q] \in Knowledge(program)
  BY ModulesAssumption DEF LoweringTypeOK
<1>2. Settled(program, known[p]) /\ Settled(program, known[q])
  BY FinalSettled
<1>3. KnowsNoMore(known[q], known[p])
  BY <1>1, <1>2 DEF OrderInv
<1>4. ASSUME Definite(known[q])
      PROVE  /\ Accepted(known[q]) = Accepted(known[p])
             /\ TypesOf(known[q]) = TypesOf(known[p])
  <2>1. KnowsNoMore(known[p], known[q])
    BY <1>1, <1>2, <1>4 DEF OrderInv
  <2>. QED
    BY <1>1, <1>2, <1>3, <1>4, <2>1, SameLowering
<1>. QED
  BY <1>3, <1>4

(* The order of functions and blocks makes no difference: where it leads   *)
(* to definite states, no other order finds another kind of pointer, and   *)
(* all that do so accept the module alike and give it the same types.      *)
THEOREM OrderDoesNotMatter == LoweringSpec => []OrderIrrelevant
<1>1. LoweringTypeOK /\ OrderInv => OrderIrrelevant
  BY LoweringOrders
<1>2. LoweringTypeOK /\ OrderInv /\ [LoweringNext]_LoweringVars
        => LoweringTypeOK' /\ OrderInv'
  BY LoweringKeeps, OrderKeeps
<1>. QED
  BY LoweringStarts, OrderStarts, <1>1, <1>2, PTL DEF LoweringSpec

-----------------------------------------------------------------------------
(* Widths of indices.                                                      *)
LEMMA PowersOfTwo ==
    ASSUME NEW n, n \in Nat
    PROVE  Pow2(n) \in Nat /\ Pow2(n) > 0
<1>. DEFINE S == Nat \ {0}
            H == [s \in S |-> 2 * s]
            Step(f) == [k \in 0 .. n |-> IF k = 0 THEN 1 ELSE 2 * f[k - 1]]
            pow == CHOOSE f : f = Step(f)
<1>1. H \in [S -> S] /\ 1 \in S /\ \A s \in S : H[s] = 2 * s
  OBVIOUS
<1>2. \E f : f = Step(f)
  <2>. HIDE DEF H, S
  <2>1. PICK f \in [0 .. n -> S] : Follows(f, n, 1, H)
    BY <1>1, Iteration
  <2>2. f[0] = 1 /\ \A k \in 1 .. n : f[k] = 2 * f[k - 1]
    <3>1. \A k \in 1 .. n : k - 1 \in 0 .. n
      OBVIOUS
    <3>. QED
      BY <1>1, <2>1, <3>1 DEF Follows
  <2>. QED
    BY <2>2
<1>3. pow = Step(pow) /\ Pow2(n) = pow[n]
  <2>1. Pow2(n) = pow[n]
    BY DEF Pow2
  <2>. HIDE DEF Step
  <2>. QED
    BY <1>2, <2>1
<1>. HIDE DEF pow
<1>4. pow[0] = 1 /\ \A k \in 1 .. n : pow[k] = 2 * pow[k - 1]
  BY <1>3
<1>. DEFINE P == {k \in Nat : k <= n => pow[k] \in S}
<1>5. 0 \in P /\ \A k \in P : k + 1 \in P
  <2>1. \A k \in Nat : k + 1 <= n => k + 1 \in 1 .. n /\ pow[k + 1] = 2 * pow[k]
    BY <1>4
  <2>. QED
    BY <1>4, <2>1
<1>6. P = Nat
  <2>. HIDE DEF P
  <2>. QED
    BY <1>5, SetInduction, P \subseteq Nat DEF P
<1>7. pow[n] \in S
  BY <1>6
<1>. QED
  BY <1>3, <1>7

(* A pattern below a length that the positive half of the type can hold.   *)
LEMMA SignedIs ==
    ASSUME NEW bits, bits \in {NarrowBits, WideBits}, NEW pattern, pattern \in Nat
    PROVE  /\ Signed(bits, pattern) \in Int
           /\ \A length \in Nat :
                /\ OutOfBounds(bits, pattern, length) \in BOOLEAN
                /\ ~OutOfBounds(bits, pattern, length) /\ length <= Pow2(bits - 1)
                     => pattern < length /\ Signed(bits, pattern) = pattern
           /\ pattern = 0 => Signed(bits, pattern) = 0
<1>1. bits \in Nat /\ bits - 1 \in Nat
  BY WidthAssumption
<1>2. /\ Pow2(bits) \in Nat /\ Pow2(bits - 1) \in Nat /\ Pow2(bits - 1) > 0
  BY <1>1, PowersOfTwo
<1>. QED
  BY <1>2 DEF Signed, OutOfBounds, NormalizeIndex

-----------------------------------------------------------------------------
(* Types, and the offsets of the pointers in them.                         *)
LEMMA TypeFacts ==
    ASSUME NEW t, t \in Types
    PROVE  /\ SizeOf(t) \in Nat /\ Nesting(t) \in 0 .. MaxNesting
           /\ t.kind \in {"pointer", "scalar", "array", "struct"}
           /\ t.kind = "pointer" => t = Pointer /\ SizeOf(t) = Word
           /\ t = Pointer => t.kind = "pointer"
           /\ t.kind = "scalar" => SizeOf(t) > 0
           /\ t.kind = "array" =>
                /\ t.of \in Types /\ Nesting(t.of) < Nesting(t)
                /\ t.length \in Nat /\ SizeOf(t) = t.length * SizeOf(t.of)
           /\ t.kind = "struct" =>
                \A i \in DOMAIN t.fields :
                    /\ i \in Nat /\ t.fields[i] \in Types /\ Nesting(t.fields[i]) < Nesting(t)
                    /\ OffsetOf(t, i) \in Nat
                    /\ OffsetOf(t, i) + SizeOf(t.fields[i]) <= SizeOf(t)
                    /\ \A j \in DOMAIN t.fields :
                         i < j => OffsetOf(t, i) + SizeOf(t.fields[i]) <= OffsetOf(t, j)
<1>1. /\ \/ t = Pointer
         \/ t.kind = "scalar" /\ t = Scalar(t.size)
         \/ t.kind = "array" /\ t = ArrayOf(t.length, t.of) /\ t.length \in Nat
         \/ t.kind = "struct" /\ t = StructOf(t.fields) /\ t.fields \in Seq(Types)
      /\ Parts(t) \subseteq Types /\ Nesting(t) \in 0 .. MaxNesting
      /\ \A part \in Parts(t) : Nesting(part) < Nesting(t)
  BY TypesAssumption
<1>2. /\ SizeOf(t) \in Nat
      /\ t.kind = "pointer" => SizeOf(t) = Word
      /\ t.kind = "scalar" => SizeOf(t) > 0
      /\ t.kind = "array" => SizeOf(t) = t.length * SizeOf(t.of)
  BY LayoutAssumption
<1>3. t = Pointer => t.kind = "pointer"
  BY DEF Pointer
<1>4. t.kind = "array" => t.of \in Types /\ Nesting(t.of) < Nesting(t)
  BY <1>1 DEF Parts
<1>5. ASSUME t.kind = "struct", NEW i \in DOMAIN t.fields
      PROVE  /\ i \in Nat /\ t.fields[i] \in Types /\ Nesting(t.fields[i]) < Nesting(t)
             /\ OffsetOf(t, i) \in Nat
             /\ OffsetOf(t, i) + SizeOf(t.fields[i]) <= SizeOf(t)
             /\ \A j \in DOMAIN t.fields :
                  i < j => OffsetOf(t, i) + SizeOf(t.fields[i]) <= OffsetOf(t, j)
  <2>1. t.fields[i] \in Parts(t)
    BY <1>5 DEF Parts
  <2>2. i \in Nat
    BY <1>1, <1>3, <1>5
  <2>3. /\ OffsetOf(t, i) \in Nat
        /\ OffsetOf(t, i) + SizeOf(t.fields[i]) <= SizeOf(t)
        /\ \A j \in DOMAIN t.fields :
             i < j => OffsetOf(t, i) + SizeOf(t.fields[i]) <= OffsetOf(t, j)
    BY <1>5, LayoutAssumption
  <2>. QED
    BY <1>1, <2>1, <2>2, <2>3
<1>. QED
  BY <1>1, <1>2, <1>3, <1>4, <1>5

(* The offsets in a type are those of its parts.                           *)
LEMMA PartsDecide ==
    ASSUME NEW t, t \in Types, NEW g, NEW h, \A part \in Parts(t) : g[part] = h[part], NEW base
    PROVE  OffsetsInParts(t, base, g) = OffsetsInParts(t, base, h)
<1>1. CASE t.kind = "array"
  <2>1. g[t.of] = h[t.of]
    BY <1>1 DEF Parts
  <2>. QED
    BY <1>1, <2>1 DEF OffsetsInParts
<1>2. CASE t.kind = "struct"
  <2>1. \A i \in DOMAIN t.fields : g[t.fields[i]] = h[t.fields[i]]
    BY <1>2 DEF Parts
  <2>. QED
    BY <1>2, <2>1 DEF OffsetsInParts
<1>3. CASE t.kind \in {"pointer", "scalar"}
  BY <1>3 DEF OffsetsInParts
<1>. QED
  BY <1>1, <1>2, <1>3, TypeFacts

OffsetMaps == [Types -> [Nat -> SUBSET Nat]]

LEMMA OffsetsTyped ==
    ASSUME NEW t, t \in Types, NEW g, g \in OffsetMaps, NEW base, base \in Nat
    PROVE  OffsetsInParts(t, base, g) \in SUBSET Nat
<1>1. CASE t.kind = "array"
  <2>1. t.of \in Types /\ SizeOf(t.of) \in Nat /\ t.length \in Nat
    BY <1>1, TypeFacts
  <2>2. \A i \in 0 .. t.length - 1 : base + i * SizeOf(t.of) \in Nat
    BY <2>1
  <2>3. \A i \in 0 .. t.length - 1 : g[t.of][base + i * SizeOf(t.of)] \in SUBSET Nat
    BY <2>1, <2>2 DEF OffsetMaps
  <2>. QED
    BY <1>1, <2>3 DEF OffsetsInParts
<1>2. CASE t.kind = "struct"
  <2>1. \A i \in DOMAIN t.fields : t.fields[i] \in Types /\ base + OffsetOf(t, i) \in Nat
    BY <1>2, TypeFacts
  <2>2. \A i \in DOMAIN t.fields : g[t.fields[i]][base + OffsetOf(t, i)] \in SUBSET Nat
    BY <2>1 DEF OffsetMaps
  <2>. QED
    BY <1>2, <2>2 DEF OffsetsInParts
<1>3. CASE t.kind \in {"pointer", "scalar"}
  BY <1>3 DEF OffsetsInParts
<1>. QED
  BY <1>1, <1>2, <1>3, TypeFacts

(* A function that gives the offsets in every type exists: types nest to a *)
(* limited depth, and as many rounds settle it.                            *)
OffsetRound(g) == [t \in Types |-> [base \in Nat |-> OffsetsInParts(t, base, g)]]

LEMMA OffsetsExist == \E g \in OffsetMaps : g = OffsetRound(g)
<1>. DEFINE N == MaxNesting + 2
            H == [g \in OffsetMaps |-> OffsetRound(g)]
            none == [t \in Types |-> [base \in Nat |-> {}]]
<1>0. MaxNesting \in Nat /\ N \in Nat
  BY TypesAssumption
<1>1. \A g \in OffsetMaps : OffsetRound(g) \in OffsetMaps
  <2>. SUFFICES ASSUME NEW g \in OffsetMaps PROVE OffsetRound(g) \in OffsetMaps
    OBVIOUS
  <2>1. \A t \in Types : \A base \in Nat : OffsetsInParts(t, base, g) \in SUBSET Nat
    BY OffsetsTyped
  <2>. QED
    BY <2>1 DEF OffsetMaps, OffsetRound
<1>2. H \in [OffsetMaps -> OffsetMaps] /\ none \in OffsetMaps
  BY <1>1 DEF OffsetMaps
<1>3. \A g \in OffsetMaps : H[g] = OffsetRound(g)
  OBVIOUS
<1>. HIDE DEF H, none
<1>4. PICK F \in [0 .. N -> OffsetMaps] : Follows(F, N, none, H)
  <2>. HIDE DEF N
  <2>. QED
    BY <1>0, <1>2, Iteration
<1>5. \A n \in 0 .. N - 1 : F[n + 1] = OffsetRound(F[n])
  <2>. SUFFICES ASSUME NEW n \in 0 .. N - 1 PROVE F[n + 1] = OffsetRound(F[n])
    OBVIOUS
  <2>1. n + 1 \in 1 .. N /\ (n + 1) - 1 = n /\ n \in 0 .. N
    BY <1>0
  <2>2. F[n + 1] = H[F[n]] /\ F[n] \in OffsetMaps
    BY <1>4, <2>1 DEF Follows
  <2>. QED
    BY <1>3, <2>2
<1>. DEFINE Same(n) == \A t \in Types : Nesting(t) < n => F[n][t] = F[n + 1][t]
            P == {n \in Nat : n + 1 <= N => Same(n)}
<1>6. 0 \in P
  BY TypeFacts, <1>0
<1>7. ASSUME NEW n \in P PROVE n + 1 \in P
  <2>. SUFFICES ASSUME n + 2 <= N, NEW t \in Types, Nesting(t) < n + 1
                PROVE  F[n + 1][t] = F[n + 2][t]
    BY <1>0
  <2>1. n \in Nat /\ Same(n)
    BY <1>0
  <2>2. \A part \in Parts(t) : F[n][part] = F[n + 1][part]
    <3>1. \A part \in Parts(t) : part \in Types /\ Nesting(part) \in Nat /\ Nesting(part) < n
      <4>1. Nesting(t) \in Nat
        BY TypeFacts
      <4>2. \A part \in Parts(t) : part \in Types /\ Nesting(part) < Nesting(t)
        BY TypesAssumption
      <4>3. \A part \in Parts(t) : Nesting(part) \in Nat
        BY <4>2, TypeFacts
      <4>. QED
        BY <2>1, <4>1, <4>2, <4>3
    <3>. QED
      BY <2>1, <3>1
  <2>3. F[n + 1] = OffsetRound(F[n]) /\ F[n + 2] = OffsetRound(F[n + 1])
    <3>1. n \in 0 .. N - 1 /\ n + 1 \in 0 .. N - 1 /\ (n + 1) + 1 = n + 2
      BY <1>0, <2>1
    <3>. QED
      BY <1>5, <3>1
  <2>4. \A base : OffsetsInParts(t, base, F[n]) = OffsetsInParts(t, base, F[n + 1])
    BY <2>2, PartsDecide
  <2>. QED
    BY <2>3, <2>4 DEF OffsetRound
<1>8. P = Nat
  <2>. HIDE DEF P
  <2>. QED
    BY <1>6, <1>7, SetInduction, P \subseteq Nat DEF P
<1>. DEFINE a == F[N - 1]
<1>9. Same(N - 1)
  <2>1. N - 1 \in Nat /\ (N - 1) + 1 <= N
    BY <1>0
  <2>. QED
    BY <1>8, <2>1
<1>10. /\ a \in OffsetMaps /\ OffsetRound(a) \in OffsetMaps /\ F[N] = OffsetRound(a)
  <2>1. N - 1 \in 0 .. N /\ N - 1 \in 0 .. N - 1 /\ (N - 1) + 1 = N
    BY <1>0
  <2>. QED
    BY <1>1, <1>5, <2>1
<1>11. \A t \in Types : a[t] = F[N][t]
  <2>1. (N - 1) + 1 = N /\ \A t \in Types : Nesting(t) < N - 1
    BY <1>0, TypeFacts
  <2>. QED
    BY <1>9, <2>1
<1>12. a = OffsetRound(a)
  <2>. HIDE DEF a
  <2>. QED
    BY <1>10, <1>11 DEF OffsetMaps
<1>. QED
  BY <1>10, <1>12

LEMMA OffsetsUnfold ==
    ASSUME NEW t, t \in Types, NEW base, base \in Nat
    PROVE  /\ t.kind = "pointer" => CollectPointerOffsets(t, base) = {base}
           /\ t.kind = "scalar" => CollectPointerOffsets(t, base) = {}
           /\ t.kind = "array" =>
                CollectPointerOffsets(t, base)
                  = UNION {CollectPointerOffsets(t.of, base + i * SizeOf(t.of)) :
                             i \in 0 .. t.length - 1}
           /\ t.kind = "struct" =>
                CollectPointerOffsets(t, base)
                  = UNION {CollectPointerOffsets(t.fields[i], base + OffsetOf(t, i)) :
                             i \in DOMAIN t.fields}
<1>. DEFINE a == CHOOSE g : g = OffsetRound(g)
<1>1. a = OffsetRound(a)
  BY OffsetsExist
<1>2. \A s, b : CollectPointerOffsets(s, b) = a[s][b]
  BY DEF CollectPointerOffsets, OffsetRound
<1>. HIDE DEF a
<1>3. CollectPointerOffsets(t, base) = OffsetsInParts(t, base, a)
  <2>1. OffsetRound(a)[t][base] = OffsetsInParts(t, base, a)
    BY DEF OffsetRound
  <2>. QED
    BY <1>1, <1>2, <2>1
<1>. QED
  BY <1>2, <1>3 DEF OffsetsInParts

(* Elements and fields lie apart.                                          *)
LEMMA ElementsApart ==
    ASSUME NEW i, i \in Nat, NEW j, j \in Nat, NEW size, size \in Nat, NEW o, o \in Int,
           i * size <= o, o < i * size + size, j * size <= o, o < j * size + size
    PROVE  i = j
<1>1. \A x, y \in Nat : x < y => x * size + size <= y * size
  OBVIOUS
<1>. QED
  BY <1>1

LEMMA ElementWithin ==
    ASSUME NEW i, i \in Nat, NEW length, length \in Nat, i < length, NEW size, size \in Nat
    PROVE  i * size \in Nat /\ i * size + size <= length * size
OBVIOUS

(* Pointers lie within their type.                                         *)
OffsetsWithin(t) ==
    \A base \in Nat : \A o \in CollectPointerOffsets(t, base) :
        o \in Nat /\ base <= o /\ o + Word <= base + SizeOf(t)

LEMMA OffsetsInside == \A t \in Types : OffsetsWithin(t)
<1>. DEFINE P == {n \in Nat : \A t \in Types : Nesting(t) < n => OffsetsWithin(t)}
<1>1. 0 \in P
  BY TypeFacts
<1>2. ASSUME NEW n \in P PROVE n + 1 \in P
  <2>. SUFFICES ASSUME NEW t \in Types, Nesting(t) < n + 1, NEW base \in Nat,
                       NEW o \in CollectPointerOffsets(t, base)
                PROVE  o \in Nat /\ base <= o /\ o + Word <= base + SizeOf(t)
    BY DEF OffsetsWithin
  <2>1. n \in Nat /\ \A s \in Types : Nesting(s) < n => OffsetsWithin(s)
    OBVIOUS
  <2>2. CASE t.kind = "array"
    <3>1. PICK i \in 0 .. t.length - 1 :
              o \in CollectPointerOffsets(t.of, base + i * SizeOf(t.of))
      BY <2>2, OffsetsUnfold
    <3>2. /\ t.of \in Types /\ Nesting(t.of) < n /\ SizeOf(t.of) \in Nat
          /\ t.length \in Nat /\ SizeOf(t) = t.length * SizeOf(t.of)
      BY <2>1, <2>2, TypeFacts
    <3>3. /\ i * SizeOf(t.of) \in Nat
          /\ i * SizeOf(t.of) + SizeOf(t.of) <= SizeOf(t)
      BY <3>2, ElementWithin
    <3>4. OffsetsWithin(t.of)
      BY <2>1, <3>2
    <3>. DEFINE at == base + i * SizeOf(t.of)
    <3>5. at \in Nat /\ base <= at /\ at + SizeOf(t.of) <= base + SizeOf(t)
      BY <3>2, <3>3, TypeFacts
    <3>. HIDE DEF at
    <3>6. o \in Nat /\ at <= o /\ o + Word <= at + SizeOf(t.of)
      BY <3>1, <3>4, <3>5 DEF OffsetsWithin, at
    <3>. QED
      BY <3>2, <3>5, <3>6, TypeFacts DEF Word
  <2>3. CASE t.kind = "struct"
    <3>1. PICK i \in DOMAIN t.fields :
              o \in CollectPointerOffsets(t.fields[i], base + OffsetOf(t, i))
      BY <2>3, OffsetsUnfold
    <3>2. /\ t.fields[i] \in Types /\ Nesting(t.fields[i]) < n /\ SizeOf(t.fields[i]) \in Nat
          /\ OffsetOf(t, i) \in Nat /\ OffsetOf(t, i) + SizeOf(t.fields[i]) <= SizeOf(t)
      BY <2>1, <2>3, TypeFacts
    <3>3. OffsetsWithin(t.fields[i])
      BY <2>1, <3>2
    <3>4. /\ o \in Nat /\ base + OffsetOf(t, i) <= o
          /\ o + Word <= base + OffsetOf(t, i) + SizeOf(t.fields[i])
      BY <3>1, <3>2, <3>3 DEF OffsetsWithin
    <3>. QED
      BY <3>2, <3>4, TypeFacts DEF Word
  <2>4. CASE t.kind = "pointer"
    BY <2>4, OffsetsUnfold, TypeFacts DEF Word
  <2>5. CASE t.kind = "scalar"
    BY <2>5, OffsetsUnfold
  <2>. QED
    BY <2>2, <2>3, <2>4, <2>5, TypeFacts
<1>3. P = Nat
  <2>. HIDE DEF P
  <2>. QED
    BY <1>1, <1>2, SetInduction, P \subseteq Nat DEF P
<1>. QED
  <2>. SUFFICES ASSUME NEW t \in Types PROVE OffsetsWithin(t)
    OBVIOUS
  <2>1. Nesting(t) \in Nat /\ Nesting(t) + 1 \in Nat /\ Nesting(t) < Nesting(t) + 1
    BY TypeFacts
  <2>. QED
    BY <1>3, <2>1

(* The same type further on has its pointers further on.                   *)
OffsetsMove(t) ==
    \A base, by \in Nat : \A o \in Nat :
        o + by \in CollectPointerOffsets(t, base + by) <=> o \in CollectPointerOffsets(t, base)

LEMMA OffsetsMoved == \A t \in Types : OffsetsMove(t)
<1>. DEFINE P == {n \in Nat : \A t \in Types : Nesting(t) < n => OffsetsMove(t)}
<1>1. 0 \in P
  BY TypeFacts
<1>2. ASSUME NEW n \in P PROVE n + 1 \in P
  <2>. SUFFICES ASSUME NEW t \in Types, Nesting(t) < n + 1,
                       NEW base \in Nat, NEW by \in Nat, NEW o \in Nat
                PROVE  o + by \in CollectPointerOffsets(t, base + by)
                         <=> o \in CollectPointerOffsets(t, base)
    BY DEF OffsetsMove
  <2>0. n \in Nat /\ (\A s \in Types : Nesting(s) < n => OffsetsMove(s)) /\ base + by \in Nat
    OBVIOUS
  <2>1. ASSUME NEW s, s \in Types, Nesting(s) < n, NEW at, at \in Nat
        PROVE  o + by \in CollectPointerOffsets(s, (base + by) + at)
                 <=> o \in CollectPointerOffsets(s, base + at)
    <3>1. OffsetsMove(s)
      BY <2>0, <2>1
    <3>2. (base + by) + at = (base + at) + by /\ base + at \in Nat
      BY <2>1
    <3>. QED
      BY <3>1, <3>2 DEF OffsetsMove
  <2>2. CASE t.kind = "array"
    <3>1. /\ t.of \in Types /\ Nesting(t.of) < n /\ SizeOf(t.of) \in Nat /\ t.length \in Nat
      BY <2>0, <2>2, TypeFacts
    <3>2. \A i \in 0 .. t.length - 1 : i * SizeOf(t.of) \in Nat
      BY <3>1
    <3>3. \A i \in 0 .. t.length - 1 :
              o + by \in CollectPointerOffsets(t.of, (base + by) + i * SizeOf(t.of))
                <=> o \in CollectPointerOffsets(t.of, base + i * SizeOf(t.of))
      BY <2>1, <3>1, <3>2
    <3>4. CollectPointerOffsets(t, base)
            = UNION {CollectPointerOffsets(t.of, base + i * SizeOf(t.of)) :
                       i \in 0 .. t.length - 1}
      BY <2>2, OffsetsUnfold
    <3>5. CollectPointerOffsets(t, base + by)
            = UNION {CollectPointerOffsets(t.of, (base + by) + i * SizeOf(t.of)) :
                       i \in 0 .. t.length - 1}
      BY <2>0, <2>2, OffsetsUnfold
    <3>. QED
      BY <3>3, <3>4, <3>5
  <2>3. CASE t.kind = "struct"
    <3>1. \A i \in DOMAIN t.fields :
              t.fields[i] \in Types /\ Nesting(t.fields[i]) < n /\ OffsetOf(t, i) \in Nat
      BY <2>0, <2>3, TypeFacts
    <3>3. \A i \in DOMAIN t.fields :
              o + by \in CollectPointerOffsets(t.fields[i], (base + by) + OffsetOf(t, i))
                <=> o \in CollectPointerOffsets(t.fields[i], base + OffsetOf(t, i))
      BY <2>1, <3>1
    <3>4. CollectPointerOffsets(t, base)
            = UNION {CollectPointerOffsets(t.fields[i], base + OffsetOf(t, i)) :
                       i \in DOMAIN t.fields}
      BY <2>3, OffsetsUnfold
    <3>5. CollectPointerOffsets(t, base + by)
            = UNION {CollectPointerOffsets(t.fields[i], (base + by) + OffsetOf(t, i)) :
                       i \in DOMAIN t.fields}
      BY <2>0, <2>3, OffsetsUnfold
    <3>. QED
      BY <3>3, <3>4, <3>5
  <2>4. CASE t.kind = "pointer"
    <3>1. CollectPointerOffsets(t, base) = {base}
          /\ CollectPointerOffsets(t, base + by) = {base + by}
      BY <2>0, <2>4, OffsetsUnfold
    <3>. QED
      BY <3>1
  <2>5. CASE t.kind = "scalar"
    BY <2>0, <2>5, OffsetsUnfold
  <2>. QED
    BY <2>2, <2>3, <2>4, <2>5, TypeFacts
<1>3. P = Nat
  <2>. HIDE DEF P
  <2>. QED
    BY <1>1, <1>2, SetInduction, P \subseteq Nat DEF P
<1>. QED
  <2>. SUFFICES ASSUME NEW t \in Types PROVE OffsetsMove(t)
    OBVIOUS
  <2>1. Nesting(t) \in Nat /\ Nesting(t) + 1 \in Nat /\ Nesting(t) < Nesting(t) + 1
    BY TypeFacts
  <2>. QED
    BY <1>3, <2>1

(* The pointers in an element of an allocation, in an element of an array  *)
(* and in a field of a struct are those of the whole there.                *)
LEMMA FirstElement ==
    ASSUME NEW t, t \in Types, NEW count, count \in Nat, NEW p, p \in Nat, p < count,
           NEW o, o \in Nat, p * SizeOf(t) <= o, o < p * SizeOf(t) + SizeOf(t)
    PROVE  o \in ScannedOffsets(Descriptor(t), count)
             <=> o \in CollectPointerOffsets(t, p * SizeOf(t))
<1>. DEFINE S == SizeOf(t)
            by == p * S
            Offsets == CollectPointerOffsets(t, 0)
<1>1. S \in Nat /\ by \in Nat /\ OffsetsMove(t) /\ OffsetsWithin(t)
  <2>1. S \in Nat
    BY TypeFacts
  <2>. QED
    BY <2>1, OffsetsMoved, OffsetsInside
<1>2. ScannedOffsets(Descriptor(t), count)
        = {element * S + offset : element \in 0 .. count - 1,
                                  offset \in {q \in Offsets : q + Word <= S}}
  BY DEF ScannedOffsets, Descriptor
<1>3. \A q \in Nat : q + by \in CollectPointerOffsets(t, by) <=> q \in Offsets
  <2>1. 0 \in Nat /\ 0 + by = by
    BY <1>1
  <2>. QED
    BY <1>1, <2>1 DEF OffsetsMove
<1>4. \A q \in Offsets : q \in Nat /\ q + Word <= S
  <2>1. 0 \in Nat /\ 0 + S = S
    BY <1>1
  <2>. QED
    BY <1>1, <2>1 DEF OffsetsWithin
<1>5. ASSUME o \in CollectPointerOffsets(t, by)
      PROVE  o \in ScannedOffsets(Descriptor(t), count)
  <2>1. PICK q \in Nat : q + by = o
    <3>1. o - by \in Nat /\ (o - by) + by = o
      BY <1>1
    <3>. QED
      BY <3>1
  <2>2. q \in Offsets /\ q + Word <= S
    BY <1>3, <1>4, <1>5, <2>1
  <2>3. p \in 0 .. count - 1 /\ o = p * S + q
    BY <1>1, <2>1
  <2>. HIDE DEF S, Offsets
  <2>. QED
    BY <1>2, <2>2, <2>3
<1>6. ASSUME o \in ScannedOffsets(Descriptor(t), count)
      PROVE  o \in CollectPointerOffsets(t, by)
  <2>. HIDE DEF Offsets
  <2>1. PICK element \in 0 .. count - 1, q \in {q \in Offsets : q + Word <= S} :
            o = element * S + q
    BY <1>2, <1>6
  <2>2. q \in Nat /\ q + Word <= S /\ element \in Nat
    BY <1>4
  <2>3. element * S \in Nat
    BY <1>1, <2>2
  <2>4. element * S <= o /\ o < element * S + S
    BY <1>1, <2>1, <2>2, <2>3 DEF Word
  <2>5. element = p
    <3>1. p * S <= o /\ o < p * S + S /\ o \in Int
      OBVIOUS
    <3>. HIDE DEF S
    <3>. QED
      BY <1>1, <2>2, <2>4, <3>1, ElementsApart
  <2>6. o = q + by
    BY <1>1, <2>1, <2>2, <2>5
  <2>. QED
    BY <1>3, <2>1, <2>2, <2>6
<1>. QED
  BY <1>5, <1>6

LEMMA ElementOf ==
    ASSUME NEW t, t \in Types, t.kind = "array", NEW base, base \in Nat,
           NEW p, p \in Nat, p < t.length,
           NEW o, o \in Nat, base + p * SizeOf(t.of) <= o,
           o < base + p * SizeOf(t.of) + SizeOf(t.of)
    PROVE  /\ p * SizeOf(t.of) \in Nat /\ p * SizeOf(t.of) + SizeOf(t.of) <= SizeOf(t)
           /\ o \in CollectPointerOffsets(t, base)
                <=> o \in CollectPointerOffsets(t.of, base + p * SizeOf(t.of))
<1>. DEFINE S == SizeOf(t.of)
<1>1. /\ t.of \in Types /\ S \in Nat /\ t.length \in Nat /\ SizeOf(t) = t.length * S
  BY TypeFacts
<1>2. p * S \in Nat /\ p * S + S <= SizeOf(t)
  BY <1>1, ElementWithin
<1>3. CollectPointerOffsets(t, base)
        = UNION {CollectPointerOffsets(t.of, base + i * S) : i \in 0 .. t.length - 1}
  BY OffsetsUnfold
<1>4. ASSUME NEW i \in 0 .. t.length - 1, o \in CollectPointerOffsets(t.of, base + i * S)
      PROVE  i = p
  <2>1. i \in Nat /\ i * S \in Nat /\ base + i * S \in Nat
    BY <1>1
  <2>2. base + i * S <= o /\ o + Word <= (base + i * S) + S
    BY <1>1, <1>4, <2>1, OffsetsInside DEF OffsetsWithin
  <2>. DEFINE q == o - base
  <2>3. q \in Int /\ i * S <= q /\ q < i * S + S /\ p * S <= q /\ q < p * S + S
    BY <1>1, <1>2, <2>1, <2>2 DEF Word
  <2>. HIDE DEF q, S
  <2>. QED
    BY <1>1, <2>1, <2>3, ElementsApart
<1>5. p \in 0 .. t.length - 1
  BY <1>1
<1>. HIDE DEF S
<1>6. o \in CollectPointerOffsets(t, base) <=> o \in CollectPointerOffsets(t.of, base + p * S)
  BY <1>3, <1>4, <1>5
<1>. QED
  BY <1>2, <1>6 DEF S

LEMMA FieldOf ==
    ASSUME NEW t, t \in Types, t.kind = "struct", NEW base, base \in Nat,
           NEW f, f \in DOMAIN t.fields,
           NEW o, o \in Nat, base + OffsetOf(t, f) <= o,
           o < base + OffsetOf(t, f) + SizeOf(t.fields[f])
    PROVE  o \in CollectPointerOffsets(t, base)
             <=> o \in CollectPointerOffsets(t.fields[f], base + OffsetOf(t, f))
<1>1. \A i \in DOMAIN t.fields :
        /\ i \in Nat /\ t.fields[i] \in Types /\ OffsetOf(t, i) \in Nat
        /\ SizeOf(t.fields[i]) \in Nat
        /\ \A j \in DOMAIN t.fields :
             i < j => OffsetOf(t, i) + SizeOf(t.fields[i]) <= OffsetOf(t, j)
  <2>1. \A i \in DOMAIN t.fields :
          /\ i \in Nat /\ t.fields[i] \in Types /\ OffsetOf(t, i) \in Nat
          /\ \A j \in DOMAIN t.fields :
               i < j => OffsetOf(t, i) + SizeOf(t.fields[i]) <= OffsetOf(t, j)
    BY TypeFacts
  <2>2. \A i \in DOMAIN t.fields : SizeOf(t.fields[i]) \in Nat
    BY <2>1, TypeFacts
  <2>. QED
    BY <2>1, <2>2
<1>2. CollectPointerOffsets(t, base)
        = UNION {CollectPointerOffsets(t.fields[i], base + OffsetOf(t, i)) :
                   i \in DOMAIN t.fields}
  BY OffsetsUnfold
<1>3. ASSUME NEW i, i \in DOMAIN t.fields,
             o \in CollectPointerOffsets(t.fields[i], base + OffsetOf(t, i))
      PROVE  i = f
  <2>1. base + OffsetOf(t, i) <= o /\ o + Word <= (base + OffsetOf(t, i)) + SizeOf(t.fields[i])
    <3>1. base + OffsetOf(t, i) \in Nat /\ OffsetsWithin(t.fields[i])
      BY <1>1, <1>3, OffsetsInside
    <3>. QED
      BY <1>3, <3>1 DEF OffsetsWithin
  <2>2. /\ i \in Nat /\ OffsetOf(t, i) \in Nat /\ SizeOf(t.fields[i]) \in Nat
        /\ f \in Nat /\ OffsetOf(t, f) \in Nat /\ SizeOf(t.fields[f]) \in Nat
        /\ i < f => OffsetOf(t, i) + SizeOf(t.fields[i]) <= OffsetOf(t, f)
        /\ f < i => OffsetOf(t, f) + SizeOf(t.fields[f]) <= OffsetOf(t, i)
    BY <1>1, <1>3
  <2>. QED
    BY <2>1, <2>2 DEF Word
<1>. QED
  BY <1>2, <1>3

(* A part of a payload, as the checks leave it: it lies in the payload, and*)
(* the pointers of its type are what a collection scans of it.             *)
InPart(t, count, at, offset) ==
    /\ 0 <= offset /\ offset + SizeOf(at) <= count * SizeOf(t)
    /\ \A o \in Nat :
         offset <= o /\ o < offset + SizeOf(at) =>
            (o \in ScannedOffsets(Descriptor(t), count) <=> o \in CollectPointerOffsets(at, offset))

LEMMA ElementInside ==
    ASSUME NEW t, t \in Types, NEW count, count \in Nat, NEW p, p \in Nat, p < count
    PROVE  InPart(t, count, t, p * SizeOf(t))
<1>1. SizeOf(t) \in Nat
  BY TypeFacts
<1>2. p * SizeOf(t) \in Nat /\ p * SizeOf(t) + SizeOf(t) <= count * SizeOf(t)
  BY <1>1, ElementWithin
<1>3. ASSUME NEW o, o \in Nat, p * SizeOf(t) <= o, o < p * SizeOf(t) + SizeOf(t)
      PROVE  o \in ScannedOffsets(Descriptor(t), count)
               <=> o \in CollectPointerOffsets(t, p * SizeOf(t))
  BY <1>3, FirstElement
<1>. QED
  BY <1>2, <1>3 DEF InPart

LEMMA IndexInside ==
    ASSUME NEW t, t \in Types, NEW count, NEW at, at \in Types, at.kind = "array",
           NEW offset, offset \in Int, InPart(t, count, at, offset),
           NEW p, p \in Nat, p < at.length, count * SizeOf(t) \in Int
    PROVE  InPart(t, count, at.of, offset + p * SizeOf(at.of))
<1>. DEFINE S == SizeOf(at.of)
            there == offset + p * S
<1>1. at.of \in Types /\ at.length \in Nat /\ SizeOf(at) \in Nat /\ SizeOf(at) = at.length * S
  BY TypeFacts
<1>2. S \in Nat
  BY <1>1, TypeFacts
<1>3. p * S \in Nat /\ p * S + S <= SizeOf(at)
  BY <1>1, <1>2, ElementWithin
<1>4. 0 <= offset /\ offset + SizeOf(at) <= count * SizeOf(t) /\ offset \in Nat
  BY DEF InPart
<1>5. 0 <= there /\ there + S <= count * SizeOf(t) /\ offset <= there
      /\ there + S <= offset + SizeOf(at) /\ there \in Nat
  BY <1>1, <1>2, <1>3, <1>4
<1>6. ASSUME NEW o \in Nat, there <= o, o < there + S
      PROVE  o \in ScannedOffsets(Descriptor(t), count) <=> o \in CollectPointerOffsets(at.of, there)
  <2>1. offset <= o /\ o < offset + SizeOf(at)
    BY <1>1, <1>2, <1>4, <1>5, <1>6
  <2>2. o \in ScannedOffsets(Descriptor(t), count) <=> o \in CollectPointerOffsets(at, offset)
    BY <2>1 DEF InPart
  <2>3. o \in CollectPointerOffsets(at, offset) <=> o \in CollectPointerOffsets(at.of, there)
    BY <1>4, <1>6, ElementOf
  <2>. QED
    BY <2>2, <2>3
<1>. QED
  BY <1>5, <1>6 DEF InPart

LEMMA FieldInside ==
    ASSUME NEW t, t \in Types, NEW count, NEW at, at \in Types, at.kind = "struct",
           NEW offset, offset \in Int, InPart(t, count, at, offset),
           NEW f, f \in DOMAIN at.fields, count * SizeOf(t) \in Int
    PROVE  InPart(t, count, at.fields[f], offset + OffsetOf(at, f))
<1>. DEFINE S == SizeOf(at.fields[f])
            there == offset + OffsetOf(at, f)
<1>1. /\ at.fields[f] \in Types /\ SizeOf(at) \in Nat /\ OffsetOf(at, f) \in Nat
      /\ OffsetOf(at, f) + S <= SizeOf(at)
  BY TypeFacts
<1>2. S \in Nat
  BY <1>1, TypeFacts
<1>4. 0 <= offset /\ offset + SizeOf(at) <= count * SizeOf(t) /\ offset \in Nat
  BY DEF InPart
<1>5. 0 <= there /\ there + S <= count * SizeOf(t) /\ offset <= there
      /\ there + S <= offset + SizeOf(at) /\ there \in Nat
  BY <1>1, <1>2, <1>4
<1>6. ASSUME NEW o \in Nat, there <= o, o < there + S
      PROVE  o \in ScannedOffsets(Descriptor(t), count)
               <=> o \in CollectPointerOffsets(at.fields[f], there)
  <2>1. offset <= o /\ o < offset + SizeOf(at)
    BY <1>1, <1>2, <1>4, <1>5, <1>6
  <2>2. o \in ScannedOffsets(Descriptor(t), count) <=> o \in CollectPointerOffsets(at, offset)
    BY <2>1 DEF InPart
  <2>3. o \in CollectPointerOffsets(at, offset) <=> o \in CollectPointerOffsets(at.fields[f], there)
    BY <1>4, <1>6, FieldOf
  <2>. QED
    BY <2>2, <2>3
<1>. QED
  BY <1>5, <1>6 DEF InPart

(* At a pointer there is a reference, at a scalar there is none.           *)
LEMMA LeafOfPart ==
    ASSUME NEW t, NEW count, NEW at, at \in Types, at.kind \in {"pointer", "scalar"},
           NEW offset, offset \in Int, InPart(t, count, at, offset)
    PROVE  at = Pointer <=> offset \in ScannedOffsets(Descriptor(t), count)
<1>1. offset \in Nat /\ SizeOf(at) \in Nat /\ SizeOf(at) > 0
  BY TypeFacts DEF InPart, Word
<1>2. offset \in ScannedOffsets(Descriptor(t), count) <=> offset \in CollectPointerOffsets(at, offset)
  BY <1>1 DEF InPart
<1>. QED
  BY <1>1, <1>2, OffsetsUnfold, TypeFacts

-----------------------------------------------------------------------------
(* The run of an access.                                                   *)
Runs ==
    [access : Nat \ {0}, base : {"array", "object"}, count : Nat, started : BOOLEAN,
     at : Types, offset : Int, trap : BOOLEAN, fits : BOOLEAN]

BoundsTypeOK ==
    /\ IsFunction(function) /\ type \in Types
    /\ next \in Nat \ {0} /\ dynamic \subseteq DOMAIN function
    /\ run = NotRun \/ run \in Runs

(* An access runs when the function is complete; an object is one element; *)
(* nothing is addressed before the first index.                            *)
RunInv ==
    run # NotRun =>
        /\ next > Len(function) /\ run.access \in DOMAIN function
        /\ function[run.access].op = "access"
        /\ run.base = "object" => run.count = 1
        /\ ~run.started => run.at = type

Checked(r) == r.started /\ ~r.trap /\ r.fits /\ (r.base = "object" \/ r.access \in dynamic)

AccessInv == run # NotRun /\ Checked(run) => InPart(type, run.count, run.at, run.offset)

BoundsInv == BoundsTypeOK /\ RunInv /\ AccessInv

LEMMA BoundsInitially == BoundsInit => BoundsInv
<1>. SUFFICES ASSUME BoundsInit PROVE BoundsInv
  OBVIOUS
<1>1. IsFunction(function) /\ type \in Types
  BY CasesAssumption DEF BoundsInit
<1>. QED
  BY <1>1 DEF BoundsInit, BoundsInv, BoundsTypeOK, RunInv, AccessInv

(* The injection runs before any access does.                              *)
LEMMA BoundsInjected ==
    ASSUME BoundsInv, Inject PROVE BoundsInv'
<1>1. /\ next <= Len(function) /\ next' = next + 1 /\ next \in Nat \ {0}
      /\ function' = function /\ type' = type /\ run' = run
      /\ IsFunction(function) /\ type \in Types /\ dynamic \subseteq DOMAIN function
  BY DEF BoundsInv, BoundsTypeOK, Inject
<1>2. Len(function) \in Nat /\ DOMAIN function = 1 .. Len(function)
  BY <1>1 DEF IsFunction
<1>3. dynamic' \subseteq DOMAIN function
  <2>1. next \in DOMAIN function
    BY <1>1, <1>2
  <2>2. dynamic' = dynamic \/ dynamic' = dynamic \cup {next}
    BY DEF Inject, InstrumentGEP
  <2>. QED
    BY <1>1, <2>1, <2>2
<1>4. run = NotRun
  BY <1>1, <1>2 DEF BoundsInv, RunInv
<1>. QED
  BY <1>1, <1>3, <1>4 DEF BoundsInv, BoundsTypeOK, RunInv, AccessInv

LEMMA BoundsExecuted ==
    ASSUME BoundsInv, NEW i \in Indexes("access"), NEW base \in {"array", "object"},
           NEW count \in 0 .. MaxCount, Execute(i, base, count)
    PROVE  BoundsInv'
<1>1. /\ next > Len(function) /\ i \in DOMAIN function /\ function[i].op = "access"
      /\ base = "object" => count = 1
      /\ run' = [access |-> i, base |-> base, count |-> count, started |-> FALSE,
                 at |-> type, offset |-> 0, trap |-> FALSE, fits |-> TRUE]
      /\ UNCHANGED <<function, type, next, unplaced, dynamic>>
  BY DEF Execute, Indexes
<1>2. BoundsTypeOK
  BY DEF BoundsInv
<1>3. i \in Nat \ {0} /\ count \in Nat
  BY <1>1, <1>2 DEF BoundsTypeOK, IsFunction
<1>4. run' \in Runs
  BY <1>1, <1>2, <1>3 DEF BoundsTypeOK, Runs
<1>. QED
  BY <1>1, <1>2, <1>3, <1>4 DEF BoundsInv, BoundsTypeOK, RunInv, AccessInv, Checked

LEMMA BoundsIndexed ==
    ASSUME BoundsInv, NEW bits \in {NarrowBits, WideBits}, NEW pattern \in 0 .. Pow2(bits) - 1,
           IndexElement(bits, pattern)
    PROVE  BoundsInv'
<1>. DEFINE trap == run.access \in dynamic /\ OutOfBounds(bits, pattern, run.count)
            fits == run.count <= Pow2(bits - 1)
<1>0. pattern \in Nat /\ bits - 1 \in Nat /\ Pow2(bits - 1) \in Nat /\ Pow2(bits - 1) > 0
  <2>1. bits \in Nat /\ bits - 1 \in Nat
    BY WidthAssumption
  <2>. QED
    BY <2>1, PowersOfTwo
<1>1. /\ run \in Runs /\ ~run.started
      /\ run.base = "object" => pattern = 0
      /\ run' = [run EXCEPT !.started = TRUE, !.offset = Signed(bits, pattern) * SizeOf(type),
                            !.trap = trap, !.fits = fits]
      /\ UNCHANGED <<function, type, next, unplaced, dynamic>>
  BY DEF IndexElement, BoundsInv, BoundsTypeOK
<1>2. BoundsTypeOK /\ RunInv /\ type \in Types /\ SizeOf(type) \in Nat
  BY TypeFacts DEF BoundsInv, BoundsTypeOK
<1>3. /\ run.count \in Nat /\ Signed(bits, pattern) \in Int /\ trap \in BOOLEAN /\ fits \in BOOLEAN
      /\ Signed(bits, pattern) * SizeOf(type) \in Int
      /\ pattern = 0 => Signed(bits, pattern) = 0
      /\ ~OutOfBounds(bits, pattern, run.count) /\ run.count <= Pow2(bits - 1)
           => pattern < run.count /\ Signed(bits, pattern) = pattern
  <2>1. run.count \in Nat
    BY <1>1 DEF Runs
  <2>2. /\ Signed(bits, pattern) \in Int /\ OutOfBounds(bits, pattern, run.count) \in BOOLEAN
        /\ pattern = 0 => Signed(bits, pattern) = 0
        /\ ~OutOfBounds(bits, pattern, run.count) /\ run.count <= Pow2(bits - 1)
             => pattern < run.count /\ Signed(bits, pattern) = pattern
    BY <1>0, <2>1, SignedIs
  <2>3. Signed(bits, pattern) * SizeOf(type) \in Int
    BY <1>2, <2>2
  <2>. QED
    BY <2>1, <2>2, <2>3
<1>. HIDE DEF trap, fits
<1>4. run' \in Runs
  BY <1>1, <1>3 DEF Runs
<1>5. /\ run'.started /\ run'.at = run.at /\ run'.count = run.count /\ run'.access = run.access
      /\ run'.base = run.base /\ run'.trap = trap /\ run'.fits = fits
      /\ run'.offset = Signed(bits, pattern) * SizeOf(type)
  BY <1>1 DEF Runs
<1>6. run # NotRun
  BY <1>1 DEF Runs, NotRun
<1>7. RunInv'
  BY <1>1, <1>2, <1>5, <1>6 DEF RunInv
<1>8. ASSUME Checked(run') PROVE InPart(type, run.count, type, run'.offset)
  <2>1. Signed(bits, pattern) = pattern /\ pattern < run.count
    <3>1. CASE run.base = "object"
      BY <1>1, <1>2, <1>3, <1>6, <3>1 DEF RunInv
    <3>2. CASE run.access \in dynamic
      <4>1. ~OutOfBounds(bits, pattern, run.count) /\ run.count <= Pow2(bits - 1)
        BY <1>1, <1>5, <1>8, <3>2 DEF Checked, trap, fits
      <4>. QED
        BY <1>3, <4>1
    <3>. QED
      BY <1>1, <1>5, <1>8, <3>1, <3>2 DEF Checked
  <2>. QED
    BY <1>0, <1>2, <1>3, <1>5, <2>1, ElementInside
<1>9. run.at = type
  BY <1>1, <1>2, <1>6 DEF RunInv
<1>10. AccessInv'
  BY <1>1, <1>5, <1>8, <1>9 DEF AccessInv, Checked
<1>. QED
  BY <1>1, <1>2, <1>4, <1>7, <1>10 DEF BoundsInv, BoundsTypeOK

LEMMA BoundsIndexedArray ==
    ASSUME BoundsInv, NEW bits \in {NarrowBits, WideBits}, NEW pattern \in 0 .. Pow2(bits) - 1,
           IndexArray(bits, pattern)
    PROVE  BoundsInv'
<1>. DEFINE at == run.at
            outside == OutOfBounds(bits, pattern, at.length)
            small == at.length <= Pow2(bits - 1)
            distance == Signed(bits, pattern) * SizeOf(at.of)
<1>0. pattern \in Nat /\ bits - 1 \in Nat /\ Pow2(bits - 1) \in Nat
  <2>1. bits \in Nat /\ bits - 1 \in Nat
    BY WidthAssumption
  <2>. QED
    BY <2>1, PowersOfTwo
<1>1. /\ run \in Runs /\ run.started /\ at.kind = "array"
      /\ run' = [run EXCEPT !.at = at.of, !.offset = @ + distance,
                            !.trap = @ \/ outside, !.fits = @ /\ small]
      /\ UNCHANGED <<function, type, next, unplaced, dynamic>>
  BY DEF IndexArray, BoundsInv, BoundsTypeOK
<1>2. BoundsTypeOK /\ RunInv /\ AccessInv /\ type \in Types
  BY DEF BoundsInv, BoundsTypeOK
<1>3. at \in Types /\ at.of \in Types /\ at.length \in Nat /\ SizeOf(at.of) \in Nat
  <2>1. at \in Types
    BY <1>1 DEF Runs
  <2>2. at.of \in Types /\ at.length \in Nat
    BY <1>1, <2>1, TypeFacts
  <2>. QED
    BY <2>1, <2>2, TypeFacts
<1>4. /\ distance \in Int /\ outside \in BOOLEAN /\ small \in BOOLEAN
      /\ ~outside /\ small => pattern < at.length /\ Signed(bits, pattern) = pattern
  <2>1. /\ Signed(bits, pattern) \in Int /\ outside \in BOOLEAN
        /\ ~outside /\ small => pattern < at.length /\ Signed(bits, pattern) = pattern
    BY <1>0, <1>3, SignedIs
  <2>2. distance \in Int
    BY <1>3, <2>1
  <2>. QED
    BY <1>0, <1>3, <2>1, <2>2
<1>. HIDE DEF outside, small, distance
<1>5. run' \in Runs
  <2>1. /\ run.offset \in Int /\ run.offset + distance \in Int
        /\ (run.trap \/ outside) \in BOOLEAN /\ (run.fits /\ small) \in BOOLEAN
    BY <1>1, <1>4 DEF Runs
  <2>. HIDE DEF at
  <2>. QED
    BY <1>1, <1>3, <2>1 DEF Runs
<1>6. /\ run'.started /\ run'.at = at.of /\ run'.count = run.count /\ run'.access = run.access
      /\ run'.base = run.base /\ run'.trap = (run.trap \/ outside)
      /\ run'.fits = (run.fits /\ small) /\ run'.offset = run.offset + distance
  BY <1>1 DEF Runs
<1>7. run # NotRun
  BY <1>1 DEF Runs, NotRun
<1>8. RunInv'
  BY <1>1, <1>2, <1>6, <1>7 DEF RunInv
<1>9. ASSUME Checked(run') PROVE InPart(type, run.count, at.of, run.offset + distance)
  <2>1. Checked(run) /\ ~outside /\ small
    BY <1>1, <1>6, <1>9 DEF Checked
  <2>2. InPart(type, run.count, at, run.offset)
    BY <1>2, <1>7, <2>1 DEF AccessInv
  <2>3. pattern < at.length /\ distance = pattern * SizeOf(at.of)
    BY <1>4, <2>1 DEF distance
  <2>4. run.offset \in Int /\ run.count * SizeOf(type) \in Int
    <3>1. run.offset \in Int /\ run.count \in Nat /\ SizeOf(type) \in Nat
      BY <1>1, <1>2, TypeFacts DEF Runs
    <3>. QED
      BY <3>1
  <2>. HIDE DEF at
  <2>5. InPart(type, run.count, at.of, run.offset + pattern * SizeOf(at.of))
    BY <1>0, <1>1, <1>2, <1>3, <2>2, <2>3, <2>4, IndexInside
  <2>. QED
    BY <2>3, <2>5
<1>10. AccessInv'
  BY <1>1, <1>6, <1>9 DEF AccessInv, Checked
<1>. QED
  BY <1>1, <1>2, <1>5, <1>8, <1>10 DEF BoundsInv, BoundsTypeOK

LEMMA BoundsSelected ==
    ASSUME BoundsInv, NEW field \in DOMAIN run.at.fields, SelectField(field)
    PROVE  BoundsInv'
<1>. DEFINE at == run.at
<1>1. /\ run \in Runs /\ run.started /\ at.kind = "struct"
      /\ run' = [run EXCEPT !.at = at.fields[field], !.offset = @ + OffsetOf(at, field)]
      /\ UNCHANGED <<function, type, next, unplaced, dynamic>>
  BY DEF SelectField, BoundsInv, BoundsTypeOK
<1>2. BoundsTypeOK /\ RunInv /\ AccessInv /\ type \in Types
  BY DEF BoundsInv, BoundsTypeOK
<1>3. at \in Types /\ at.fields[field] \in Types /\ OffsetOf(at, field) \in Nat
  <2>1. at \in Types
    BY <1>1 DEF Runs
  <2>. QED
    BY <1>1, <2>1, TypeFacts
<1>5. run' \in Runs
  <2>1. run.offset + OffsetOf(at, field) \in Int
    BY <1>1, <1>3 DEF Runs
  <2>. HIDE DEF at
  <2>. QED
    BY <1>1, <1>3, <2>1 DEF Runs
<1>6. /\ run'.started /\ run'.at = at.fields[field] /\ run'.count = run.count
      /\ run'.access = run.access /\ run'.base = run.base /\ run'.trap = run.trap
      /\ run'.fits = run.fits /\ run'.offset = run.offset + OffsetOf(at, field)
  BY <1>1 DEF Runs
<1>7. run # NotRun
  BY <1>1 DEF Runs, NotRun
<1>8. RunInv'
  BY <1>1, <1>2, <1>6, <1>7 DEF RunInv
<1>9. ASSUME Checked(run')
      PROVE  InPart(type, run.count, at.fields[field], run.offset + OffsetOf(at, field))
  <2>1. Checked(run)
    BY <1>1, <1>6, <1>9 DEF Checked
  <2>2. InPart(type, run.count, at, run.offset)
    BY <1>2, <1>7, <2>1 DEF AccessInv
  <2>3. run.offset \in Int /\ run.count * SizeOf(type) \in Int
    <3>1. run.offset \in Int /\ run.count \in Nat /\ SizeOf(type) \in Nat
      BY <1>1, <1>2, TypeFacts DEF Runs
    <3>. QED
      BY <3>1
  <2>4. field \in DOMAIN at.fields
    OBVIOUS
  <2>. HIDE DEF at
  <2>. QED
    BY <1>1, <1>2, <1>3, <2>2, <2>3, <2>4, FieldInside
<1>10. AccessInv'
  BY <1>1, <1>6, <1>9 DEF AccessInv, Checked
<1>. QED
  BY <1>1, <1>2, <1>5, <1>8, <1>10 DEF BoundsInv, BoundsTypeOK

LEMMA BoundsStep == BoundsInv /\ [BoundsNext]_BoundsVars => BoundsInv'
<1>. SUFFICES ASSUME BoundsInv, [BoundsNext]_BoundsVars PROVE BoundsInv'
  OBVIOUS
<1>1. CASE Inject
  BY <1>1, BoundsInjected
<1>2. CASE \E i \in Indexes("access"), base \in {"array", "object"}, count \in 0 .. MaxCount :
               Execute(i, base, count)
  BY <1>2, BoundsExecuted
<1>3. CASE \E bits \in {NarrowBits, WideBits} : \E pattern \in 0 .. Pow2(bits) - 1 :
               IndexElement(bits, pattern) \/ IndexArray(bits, pattern)
  BY <1>3, BoundsIndexed, BoundsIndexedArray
<1>4. CASE \E field \in DOMAIN run.at.fields : SelectField(field)
  BY <1>4, BoundsSelected
<1>5. CASE UNCHANGED BoundsVars
  BY <1>5 DEF BoundsVars, BoundsInv, BoundsTypeOK, RunInv, AccessInv, Checked
<1>6. CASE Finished
  BY <1>5, <1>6 DEF Finished
<1>. QED
  BY <1>1, <1>2, <1>3, <1>4, <1>5, <1>6 DEF BoundsNext

(* The state of the injection and of the access being run keeps its types. *)
THEOREM BoundsTypes == BoundsSpec => []BoundsTypeOK
<1>1. BoundsInit => BoundsInv
  BY BoundsInitially
<1>2. BoundsInv /\ [BoundsNext]_BoundsVars => BoundsInv'
  BY BoundsStep
<1>3. BoundsInv => BoundsTypeOK
  BY DEF BoundsInv
<1>. QED
  BY <1>1, <1>2, <1>3, PTL DEF BoundsSpec

(* injectBoundsChecks: an access that passes its checks lies in the        *)
(* payload, for every type, layout, function and width of indices.         *)
THEOREM ChecksKeepToPayload == BoundsSpec => []CheckedAccessInPayload
<1>1. BoundsInit => BoundsInv
  BY BoundsInitially
<1>2. BoundsInv /\ [BoundsNext]_BoundsVars => BoundsInv'
  BY BoundsStep
<1>3. BoundsInv => CheckedAccessInPayload
  BY DEF BoundsInv, AccessInv, Checked, InPart, CheckedAccessInPayload, Accessible
<1>. QED
  BY <1>1, <1>2, <1>3, PTL DEF BoundsSpec

(* collectPointerOffsets and scanAllocationPayload: a collection reads a   *)
(* word as a reference exactly when a checked access finds a pointer there.*)
THEOREM PointersScanned == BoundsSpec => []PointersAreScanned
<1>1. BoundsInit => BoundsInv
  BY BoundsInitially
<1>2. BoundsInv /\ [BoundsNext]_BoundsVars => BoundsInv'
  BY BoundsStep
<1>3. BoundsInv => PointersAreScanned
  <2>. SUFFICES ASSUME BoundsInv, Accessible, Checked(run)
                PROVE  run.at = Pointer
                         <=> run.offset \in ScannedOffsets(Descriptor(type), run.count)
    BY DEF PointersAreScanned, Accessible, Checked
  <2>1. run # NotRun /\ run.at.kind \in {"pointer", "scalar"}
    BY DEF Accessible
  <2>2. run \in Runs
    BY <2>1 DEF BoundsInv, BoundsTypeOK
  <2>3. run.at \in Types /\ run.offset \in Int
    BY <2>2 DEF Runs
  <2>4. InPart(type, run.count, run.at, run.offset)
    BY <2>1 DEF BoundsInv, AccessInv
  <2>. QED
    BY <2>1, <2>3, <2>4, LeafOfPart
<1>. QED
  BY <1>1, <1>2, <1>3, PTL DEF BoundsSpec

-----------------------------------------------------------------------------
(* A value that can only be an array: values from which no chain of loads, *)
(* phis and selects leads to anything but an __mvm_array_malloc.           *)
Grounded(c, C) ==
    \/ function[c].op = "alloc"
    \/ /\ function[c].op = "load" /\ Indexes("store") # {} /\ ~SlotEscapes
       /\ \A s \in Indexes("store") : function[s].a \in C
    \/ /\ function[c].op \in {"phi", "select"}
       /\ function[c].a \in C /\ function[c].b \in C

ClosedValues(C) == C \subseteq DOMAIN function /\ \A c \in C : Grounded(c, C)

Certified(v) == \E C : ClosedValues(C) /\ v \in C

LEMMA ClosedUnion ==
    ASSUME NEW A, ClosedValues(A), NEW B, ClosedValues(B) PROVE ClosedValues(A \cup B)
BY DEF ClosedValues, Grounded

LEMMA ClosedAdd ==
    ASSUME NEW A, ClosedValues(A), NEW v, v \in DOMAIN function, Grounded(v, A)
    PROVE  Certified(v)
<1>1. ClosedValues(A \cup {v})
  BY DEF ClosedValues, Grounded
<1>. QED
  BY <1>1 DEF Certified

LEMMA OperandsAreValues ==
    ASSUME IsFunction(function)
    PROVE  /\ Indexes("store") \subseteq DOMAIN function
           /\ \A s \in Indexes("store") : function[s].a \in DOMAIN function
           /\ \A v \in DOMAIN function :
                function[v].op \in {"phi", "select"} =>
                    function[v].a \in DOMAIN function /\ function[v].b \in DOMAIN function
BY DEF IsFunction, Indexes

(* The stored value a load is traced to is that of every store.            *)
LEMMA StoredValueIs ==
    ASSUME IsFunction(function), NEW lost, NEW v, TheStoredValue(lost, v) # {}
    PROVE  /\ Indexes("store") # {} /\ ~SlotEscapes
           /\ (CHOOSE s \in TheStoredValue(lost, v) : TRUE) \in DOMAIN function
           /\ \A s \in Indexes("store") :
                function[s].a = CHOOSE w \in TheStoredValue(lost, v) : TRUE
<1>. DEFINE stored == {function[s].a : s \in Indexes("store")}
            value == CHOOSE w \in TheStoredValue(lost, v) : TRUE
<1>1. /\ stored # {} /\ ~SlotEscapes /\ \A x, y \in stored : x = y
      /\ TheStoredValue(lost, v) = stored
  BY DEF TheStoredValue
<1>2. value \in stored
  BY <1>1
<1>3. stored \subseteq DOMAIN function
  BY OperandsAreValues
<1>. QED
  BY <1>1, <1>2, <1>3

(* The calls of a search.                                                  *)
SearchResults == [found : BOOLEAN, visited : SUBSET DOMAIN function]
Searches == [SUBSET DOMAIN function -> [DOMAIN function -> SearchResults]]

Sound(search) ==
    \A visited \in SUBSET DOMAIN function : \A v \in DOMAIN function :
        search[visited][v].found => Certified(v)

LEMMA SearchTyped ==
    ASSUME IsFunction(function), NEW lost, NEW g, g \in Searches,
           NEW visited, visited \in SUBSET DOMAIN function, NEW v, v \in DOMAIN function
    PROVE  SearchFrom(lost, g, visited, v) \in SearchResults
<1>. DEFINE seen == visited \cup {v}
<1>0. seen \in SUBSET DOMAIN function
  OBVIOUS
<1>1. \A found \in BOOLEAN : [found |-> found, visited |-> seen] \in SearchResults
  BY <1>0 DEF SearchResults
<1>2. [found |-> FALSE, visited |-> visited] \in SearchResults
  BY DEF SearchResults
<1>3. \A at \in SUBSET DOMAIN function : \A w \in DOMAIN function : g[at][w] \in SearchResults
  BY DEF Searches
<1>4. CASE v \in visited
  BY <1>2, <1>4 DEF SearchFrom
<1>5. CASE v \notin visited /\ function[v].op = "load"
  <2>1. CASE TheStoredValue(lost, v) = {}
    BY <1>1, <1>5, <2>1 DEF SearchFrom
  <2>2. CASE TheStoredValue(lost, v) # {}
    <3>1. (CHOOSE s \in TheStoredValue(lost, v) : TRUE) \in DOMAIN function
      BY <2>2, StoredValueIs
    <3>2. SearchFrom(lost, g, visited, v) = g[seen][CHOOSE s \in TheStoredValue(lost, v) : TRUE]
      BY <1>5, <2>2 DEF SearchFrom
    <3>. QED
      BY <1>0, <1>3, <3>1, <3>2
  <2>. QED
    BY <2>1, <2>2
<1>6. CASE v \notin visited /\ function[v].op \in {"phi", "select"}
  <2>. DEFINE a == function[v].a
              b == function[v].b
              first == g[seen][a]
  <2>1. a \in DOMAIN function /\ b \in DOMAIN function
    BY <1>6, OperandsAreValues
  <2>2. first \in SearchResults
    BY <1>0, <1>3, <2>1
  <2>3. g[first.visited][b] \in SearchResults
    <3>1. first.visited \in SUBSET DOMAIN function
      BY <2>2 DEF SearchResults
    <3>. QED
      BY <1>3, <2>1, <3>1
  <2>4. SearchFrom(lost, g, visited, v) = SearchBoth(g, seen, a, b)
    BY <1>6 DEF SearchFrom
  <2>. QED
    BY <2>2, <2>3, <2>4 DEF SearchBoth
<1>7. CASE v \notin visited /\ function[v].op = "alloc"
  BY <1>1, <1>7 DEF SearchFrom
<1>8. CASE v \notin visited /\ function[v].op \notin {"alloc", "load", "phi", "select"}
  BY <1>1, <1>8 DEF SearchFrom
<1>. QED
  BY <1>4, <1>5, <1>6, <1>7, <1>8

LEMMA SearchGrounded ==
    ASSUME IsFunction(function), NEW lost, NEW g, g \in Searches, Sound(g),
           NEW visited, visited \in SUBSET DOMAIN function, NEW v, v \in DOMAIN function,
           SearchFrom(lost, g, visited, v).found
    PROVE  Certified(v)
<1>. DEFINE seen == visited \cup {v}
<1>0. seen \in SUBSET DOMAIN function
  OBVIOUS
<1>1. v \notin visited
  BY DEF SearchFrom
<1>2. CASE function[v].op = "alloc"
  <2>1. ClosedValues({})
    BY DEF ClosedValues
  <2>2. Grounded(v, {})
    BY <1>2 DEF Grounded
  <2>. QED
    BY <2>1, <2>2, ClosedAdd
<1>3. CASE function[v].op = "load"
  <2>1. TheStoredValue(lost, v) # {}
    BY <1>1, <1>3 DEF SearchFrom
  <2>. DEFINE value == CHOOSE s \in TheStoredValue(lost, v) : TRUE
  <2>2. SearchFrom(lost, g, visited, v) = g[seen][value]
    BY <1>1, <1>3, <2>1 DEF SearchFrom
  <2>3. /\ Indexes("store") # {} /\ ~SlotEscapes /\ value \in DOMAIN function
        /\ \A s \in Indexes("store") : function[s].a = value
    BY <2>1, StoredValueIs
  <2>. HIDE DEF value
  <2>4. Certified(value)
    BY <1>0, <2>2, <2>3 DEF Sound
  <2>5. PICK C : ClosedValues(C) /\ value \in C
    BY <2>4 DEF Certified
  <2>6. Grounded(v, C)
    BY <1>3, <2>3, <2>5 DEF Grounded
  <2>. QED
    BY <2>5, <2>6, ClosedAdd
<1>4. CASE function[v].op \in {"phi", "select"}
  <2>. DEFINE a == function[v].a
              b == function[v].b
              first == g[seen][a]
  <2>1. a \in DOMAIN function /\ b \in DOMAIN function
    BY <1>4, OperandsAreValues
  <2>2. SearchFrom(lost, g, visited, v) = SearchBoth(g, seen, a, b)
    BY <1>1, <1>4 DEF SearchFrom
  <2>3. first \in SearchResults
    BY <1>0, <2>1 DEF Searches
  <2>4. first.visited \in SUBSET DOMAIN function /\ first.found \in BOOLEAN
    BY <2>3 DEF SearchResults
  <2>5. first.found /\ g[first.visited][b].found
    BY <2>2, <2>4 DEF SearchBoth
  <2>6. Certified(a) /\ Certified(b)
    BY <1>0, <2>1, <2>4, <2>5 DEF Sound
  <2>7. PICK A : ClosedValues(A) /\ a \in A
    BY <2>6 DEF Certified
  <2>8. PICK B : ClosedValues(B) /\ b \in B
    BY <2>6 DEF Certified
  <2>9. ClosedValues(A \cup B) /\ Grounded(v, A \cup B)
    BY <1>4, <2>7, <2>8, ClosedUnion DEF Grounded
  <2>. QED
    BY <2>9, ClosedAdd
<1>5. CASE function[v].op \notin {"alloc", "load", "phi", "select"}
  BY <1>1, <1>5 DEF SearchFrom
<1>. QED
  BY <1>2, <1>3, <1>4, <1>5

LEMMA SearchSound ==
    ASSUME IsFunction(function), NEW lost, NEW v, v \in DOMAIN function,
           IsManagedArrayBase(lost, v)
    PROVE  Certified(v)
<1>. DEFINE N == Len(function)
            D == DOMAIN function
            none == [visited \in SUBSET D |-> [w \in D |-> [found |-> FALSE, visited |-> visited]]]
            Round(g) == [visited \in SUBSET D |-> [w \in D |-> SearchFrom(lost, g, visited, w)]]
            H == [g \in Searches |-> Round(g)]
            At(f, n) == [visited \in SUBSET D |-> [w \in D |->
                           IF n = 0 THEN [found |-> FALSE, visited |-> visited]
                           ELSE SearchFrom(lost, f[n - 1], visited, w)]]
            Step(f) == [n \in 0 .. N |-> At(f, n)]
            search == CHOOSE f : f = Step(f)
<1>0. N \in Nat
  BY DEF IsFunction
<1>1. \A g \in Searches : Round(g) \in Searches
  BY SearchTyped DEF Searches
<1>2. none \in Searches /\ \A visited \in SUBSET D : \A w \in D : none[visited][w].found = FALSE
  BY DEF Searches, SearchResults
<1>3. H \in [Searches -> Searches] /\ \A g \in Searches : H[g] = Round(g)
  BY <1>1
<1>4. \E f : f = Step(f)
  <2>. HIDE DEF H, N
  <2>1. PICK f \in [0 .. N -> Searches] : Follows(f, N, none, H)
    BY <1>0, <1>2, <1>3, Iteration
  <2>2. f[0] = none /\ \A n \in 1 .. N : f[n] = Round(f[n - 1])
    <3>1. \A n \in 1 .. N : n - 1 \in 0 .. N
      BY <1>0
    <3>. HIDE DEF none, Round
    <3>. QED
      BY <1>3, <2>1, <3>1 DEF Follows
  <2>3. \A n \in 0 .. N : f[n] = At(f, n)
    <3>. SUFFICES ASSUME NEW n \in 0 .. N PROVE f[n] = At(f, n)
      OBVIOUS
    <3>1. CASE n = 0
      BY <2>2, <3>1
    <3>2. CASE n # 0
      <4>1. n \in 1 .. N
        BY <1>0, <3>2
      <4>2. f[n] = Round(f[n - 1])
        BY <2>2, <4>1
      <4>. QED
        BY <3>2, <4>2
    <3>. QED
      BY <3>1, <3>2
  <2>. HIDE DEF At
  <2>. QED
    BY <2>1, <2>3
<1>5. search = Step(search)
  <2>. HIDE DEF Step
  <2>. QED
    BY <1>4
<1>6. IsManagedArrayBase(lost, v) = search[N][{}][v].found
  BY DEF IsManagedArrayBase, Search
<1>. HIDE DEF search
<1>7. /\ search[0] = none
      /\ \A n \in Nat : n + 1 <= N => search[n + 1] = Round(search[n])
  <2>1. search[0] = none
    <3>1. 0 \in 0 .. N
      BY <1>0
    <3>2. Step(search)[0] = none
      BY <3>1
    <3>. QED
      BY <1>5, <3>2
  <2>2. ASSUME NEW n \in Nat, n + 1 <= N PROVE search[n + 1] = Round(search[n])
    <3>1. n + 1 \in 0 .. N /\ n + 1 # 0 /\ (n + 1) - 1 = n
      BY <1>0, <2>2
    <3>2. Step(search)[n + 1] = Round(search[n])
      BY <3>1
    <3>. QED
      BY <1>5, <3>2
  <2>. QED
    BY <2>1, <2>2
<1>. DEFINE P == {n \in Nat : n <= N => search[n] \in Searches /\ Sound(search[n])}
<1>8. 0 \in P
  BY <1>2, <1>7 DEF Sound
<1>9. ASSUME NEW n \in P PROVE n + 1 \in P
  <2>. SUFFICES ASSUME n + 1 <= N
                PROVE  search[n + 1] \in Searches /\ Sound(search[n + 1])
    OBVIOUS
  <2>1. search[n] \in Searches /\ Sound(search[n]) /\ search[n + 1] = Round(search[n])
    <3>. HIDE DEF none, Round
    <3>1. n \in Nat /\ n <= N
      BY <1>0
    <3>. QED
      BY <1>7, <3>1
  <2>2. \A visited \in SUBSET D : \A w \in D :
            Round(search[n])[visited][w] = SearchFrom(lost, search[n], visited, w)
    OBVIOUS
  <2>3. Sound(Round(search[n]))
    <3>. HIDE DEF Round
    <3>. QED
      BY <2>1, <2>2, SearchGrounded DEF Sound
  <2>. HIDE DEF Round
  <2>. QED
    BY <1>1, <2>1, <2>3
<1>10. P = Nat
  <2>. HIDE DEF P
  <2>. QED
    BY <1>8, <1>9, SetInduction, P \subseteq Nat DEF P
<1>11. Sound(search[N])
  <2>1. N \in P
    BY <1>0, <1>10
  <2>. QED
    BY <1>0, <2>1
<1>. HIDE DEF P
<1>. QED
  BY <1>6, <1>11 DEF Sound

-----------------------------------------------------------------------------
(* What a value may be.                                                    *)
Pointees == {"array", "object", "undefined"}

LEMMA MayBeTyped ==
    ASSUME IsFunction(function), NEW g, g \in [DOMAIN function -> SUBSET Pointees],
           NEW v, v \in DOMAIN function
    PROVE  MayBeFrom(g, v) \in SUBSET Pointees
<1>1. \A s \in Indexes("store") : g[function[s].a] \in SUBSET Pointees
  BY OperandsAreValues
<1>2. function[v].op \in {"phi", "select"} =>
        g[function[v].a] \in SUBSET Pointees /\ g[function[v].b] \in SUBSET Pointees
  BY OperandsAreValues
<1>3. CASE function[v].op = "load"
  <2>. DEFINE stored == UNION {g[function[s].a] : s \in Indexes("store")}
  <2>1. stored \in SUBSET Pointees
    BY <1>1
  <2>2. MayBeFrom(g, v) \subseteq stored \cup {"undefined", "array", "object"}
    BY <1>3 DEF MayBeFrom
  <2>. HIDE DEF stored
  <2>. QED
    BY <2>1, <2>2 DEF Pointees
<1>4. CASE function[v].op \in {"phi", "select"}
  BY <1>2, <1>4 DEF MayBeFrom
<1>5. CASE function[v].op \notin {"load", "phi", "select"}
  BY <1>5 DEF MayBeFrom, Pointees
<1>. QED
  BY <1>3, <1>4, <1>5

LEMMA CertifiedIsArray ==
    ASSUME IsFunction(function), NEW v, v \in DOMAIN function, Certified(v)
    PROVE  MayBe(v) \subseteq {"array", "undefined"}
<1>. DEFINE N == Len(function)
            D == DOMAIN function
            Mays == [D -> SUBSET Pointees]
            none == [x \in D |-> {}]
            Round(g) == [x \in D |-> MayBeFrom(g, x)]
            H == [g \in Mays |-> Round(g)]
            At(f, n) == [x \in D |-> IF n = 0 THEN {} ELSE MayBeFrom(f[n - 1], x)]
            Step(f) == [n \in 0 .. N |-> At(f, n)]
            kinds == CHOOSE f : f = Step(f)
<1>0. N \in Nat
  BY DEF IsFunction
<1>1. \A g \in Mays : Round(g) \in Mays
  BY MayBeTyped
<1>2. none \in Mays
  OBVIOUS
<1>3. H \in [Mays -> Mays] /\ \A g \in Mays : H[g] = Round(g)
  BY <1>1
<1>4. \E f : f = Step(f)
  <2>. HIDE DEF H, N, Mays
  <2>1. PICK f \in [0 .. N -> Mays] : Follows(f, N, none, H)
    BY <1>0, <1>2, <1>3, Iteration
  <2>2. f[0] = none /\ \A n \in 1 .. N : f[n] = Round(f[n - 1])
    <3>1. \A n \in 1 .. N : n - 1 \in 0 .. N
      BY <1>0
    <3>. HIDE DEF none, Round
    <3>. QED
      BY <1>3, <2>1, <3>1 DEF Follows
  <2>3. \A n \in 0 .. N : f[n] = At(f, n)
    <3>. SUFFICES ASSUME NEW n \in 0 .. N PROVE f[n] = At(f, n)
      OBVIOUS
    <3>1. CASE n = 0
      BY <2>2, <3>1
    <3>2. CASE n # 0
      <4>1. n \in 1 .. N
        BY <1>0, <3>2
      <4>2. f[n] = Round(f[n - 1])
        BY <2>2, <4>1
      <4>. QED
        BY <3>2, <4>2
    <3>. QED
      BY <3>1, <3>2
  <2>. HIDE DEF At
  <2>. QED
    BY <2>1, <2>3
<1>5. kinds = Step(kinds)
  <2>. HIDE DEF Step
  <2>. QED
    BY <1>4
<1>6. MayBe(v) = kinds[N][v]
  BY DEF MayBe
<1>. HIDE DEF kinds
<1>7. PICK C : ClosedValues(C) /\ v \in C
  BY DEF Certified
<1>. DEFINE P == {n \in Nat : n <= N => \A c \in C : kinds[n][c] \subseteq {"array", "undefined"}}
<1>8. 0 \in P
  <2>1. 0 \in 0 .. N /\ C \subseteq D
    BY <1>0, <1>7 DEF ClosedValues
  <2>2. \A c \in C : Step(kinds)[0][c] = {}
    BY <2>1
  <2>. QED
    BY <1>5, <2>2
<1>9. ASSUME NEW n \in P PROVE n + 1 \in P
  <2>. SUFFICES ASSUME n + 1 <= N, NEW c \in C
                PROVE  kinds[n + 1][c] \subseteq {"array", "undefined"}
    OBVIOUS
  <2>1. \A x \in C : kinds[n][x] \subseteq {"array", "undefined"}
    BY <1>0
  <2>2. kinds[n + 1][c] = MayBeFrom(kinds[n], c)
    <3>1. n + 1 \in 0 .. N /\ n + 1 # 0 /\ (n + 1) - 1 = n /\ c \in D
      BY <1>0, <1>7 DEF ClosedValues
    <3>2. Step(kinds)[n + 1][c] = MayBeFrom(kinds[n], c)
      BY <3>1
    <3>. QED
      BY <1>5, <3>2
  <2>3. Grounded(c, C)
    BY <1>7 DEF ClosedValues
  <2>4. CASE function[c].op = "alloc"
    BY <2>2, <2>4 DEF MayBeFrom
  <2>5. CASE function[c].op = "load"
    <3>1. \A s \in Indexes("store") : kinds[n][function[s].a] \subseteq {"array", "undefined"}
      BY <2>1, <2>3, <2>5 DEF Grounded
    <3>. DEFINE stored == UNION {kinds[n][function[s].a] : s \in Indexes("store")}
    <3>2. stored \subseteq {"array", "undefined"}
      BY <3>1
    <3>3. MayBeFrom(kinds[n], c) \subseteq stored \cup {"undefined"}
      BY <2>3, <2>5 DEF Grounded, MayBeFrom
    <3>. HIDE DEF stored
    <3>. QED
      BY <2>2, <3>2, <3>3
  <2>6. CASE function[c].op \in {"phi", "select"}
    <3>1. function[c].a \in C /\ function[c].b \in C
      BY <2>3, <2>6 DEF Grounded
    <3>. QED
      BY <2>1, <2>2, <2>6, <3>1 DEF MayBeFrom
  <2>. QED
    BY <2>3, <2>4, <2>5, <2>6 DEF Grounded
<1>10. P = Nat
  <2>. HIDE DEF P
  <2>. QED
    BY <1>8, <1>9, SetInduction, P \subseteq Nat DEF P
<1>. QED
  BY <1>0, <1>6, <1>7, <1>10

(* The accesses whose first index is checked.                              *)
DynamicInv ==
    \A i \in dynamic : function[i].a \in DOMAIN function /\ Certified(function[i].a)

LEMMA DynamicStep ==
    ASSUME BoundsTypeOK, DynamicInv, [BoundsNext]_BoundsVars PROVE DynamicInv'
<1>1. function' = function
  BY DEF BoundsNext, BoundsVars, Inject, Execute, IndexElement, IndexArray, SelectField, Finished
<1>2. ASSUME NEW i \in dynamic', i \notin dynamic
      PROVE  function[i].a \in DOMAIN function /\ Certified(function[i].a)
  <2>1. Inject
    BY <1>2 DEF BoundsNext, BoundsVars, Execute, IndexElement, IndexArray, SelectField, Finished
  <2>2. /\ next <= Len(function) /\ i = next /\ function[i].op = "access"
        /\ IsManagedArrayBase(unplaced, function[i].a)
    BY <1>2, <2>1 DEF Inject, InstrumentGEP
  <2>3. IsFunction(function) /\ i \in DOMAIN function
    BY <2>2 DEF BoundsTypeOK, IsFunction
  <2>4. function[i].a \in DOMAIN function
    BY <2>2, <2>3 DEF IsFunction
  <2>. QED
    BY <2>2, <2>3, <2>4, SearchSound
<1>3. \A i \in dynamic' : function[i].a \in DOMAIN function /\ Certified(function[i].a)
  BY <1>2 DEF DynamicInv
<1>. QED
  BY <1>1, <1>3 DEF DynamicInv, Certified, ClosedValues, Grounded, Indexes, SlotEscapes

(* isManagedArrayBase: whatever the search recognises can only be an array,*)
(* however out of date the dominator tree, through loops of phis, selects  *)
(* and the slot; __mvm_array_length is asked of nothing else.              *)
THEOREM LengthsOfArrays == BoundsSpec => []LengthOfArraysOnly
<1>1. BoundsInit => BoundsInv /\ DynamicInv
  BY BoundsInitially DEF BoundsInit, DynamicInv
<1>2. BoundsInv /\ DynamicInv /\ [BoundsNext]_BoundsVars => (BoundsInv /\ DynamicInv)'
  BY BoundsStep, DynamicStep DEF BoundsInv
<1>3. BoundsInv /\ DynamicInv => LengthOfArraysOnly
  BY CertifiedIsArray DEF BoundsInv, BoundsTypeOK, DynamicInv, LengthOfArraysOnly, Bases
<1>. QED
  BY <1>1, <1>2, <1>3, PTL DEF BoundsSpec
=============================================================================
