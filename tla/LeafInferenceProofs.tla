-------------------------- MODULE LeafInferenceProofs --------------------------
(***************************************************************************)
(* Proofs about the leaf inference for any number of functions and any     *)
(* program. The modules that run it as a part of theirs use InferInit and  *)
(* InferNext.                                                              *)
(***************************************************************************)
EXTENDS LeafInference, FiniteSetTheorems, WellFoundedInduction, TLAPS

(* A set of natural numbers has a least element.                           *)
LEMMA LeastElement ==
    ASSUME NEW T \in SUBSET Nat, T # {}
    PROVE  \E x \in T : \A y \in T : x <= y
<1>1. IsWellFoundedOn(OpToRel(<, Nat), Nat)
  BY NatLessThanWellFounded
<1>2. PICK x \in T : \A y \in T : ~(<<y, x>> \in OpToRel(<, Nat))
  BY <1>1, WFMin
<1>3. \A y \in T : ~(y < x)
  BY <1>2 DEF OpToRel
<1>. QED
  BY <1>3

(* What holds of 0, and of n + 1 when it holds of n, holds of all.         *)
LEMMA SetInduction ==
    ASSUME NEW S \in SUBSET Nat, 0 \in S, \A n \in S : n + 1 \in S
    PROVE  S = Nat
<1>. SUFFICES ASSUME Nat \ S # {} PROVE FALSE
  OBVIOUS
<1>1. PICK x \in Nat \ S : \A y \in Nat \ S : x <= y
  BY LeastElement
<1>2. x # 0 /\ x - 1 \in S
  BY <1>1
<1>. QED
  BY <1>1, <1>2

-----------------------------------------------------------------------------
(* The steps of the inference alone.                                       *)
Infer ==
    \/ \E f \in Functions : VisitFunction(f)
    \/ NextRound \/ EndInference

LeafTypeOK ==
    /\ code \in [Functions -> UNION {[1 .. n -> Calls] : n \in 0 .. MaxCalls}]
    /\ loops \subseteq Functions
    /\ leaf \subseteq Functions /\ unvisited \subseteq Functions
    /\ changed \in BOOLEAN /\ phase \in {"infer", "run"}

(* A leaf calls leaves that were found before it: its rank is how many     *)
(* there were when it was found, so calls go down in rank and no leaf      *)
(* recurses.                                                               *)
Ranked(rank) ==
    \A f \in leaf :
        /\ rank[f] < Cardinality(leaf) /\ f \notin loops
        /\ \A i \in DOMAIN code[f] :
              /\ code[f][i].kind = "call" /\ code[f][i].target \in leaf
              /\ rank[code[f][i].target] < rank[f]

LeavesRanked == \E rank \in [Functions -> Nat] : Ranked(rank)

(* What a round has visited without a change cannot be a leaf, and so it   *)
(* is for all functions when the rounds end.                               *)
RoundComplete ==
    /\ ~changed => \A f \in Functions \ unvisited : f \in leaf \/ ~CanRemainLeaf(f)
    /\ phase = "run" => unvisited = {} /\ ~changed

LeafInv == LeafTypeOK /\ LeavesRanked /\ RoundComplete

-----------------------------------------------------------------------------
(* There are FunctionCount functions.                                      *)
LEMMA FunctionsFinite ==
    /\ IsFiniteSet(Functions) /\ Cardinality(Functions) = FunctionCount
    /\ \A S \in SUBSET Functions :
          IsFiniteSet(S) /\ Cardinality(S) \in 0 .. FunctionCount
<1>1. IsFiniteSet(Functions) /\ Cardinality(Functions) = FunctionCount
  BY FunctionCountAssumption, FS_Interval DEF Functions
<1>2. ASSUME NEW S \in SUBSET Functions
      PROVE  IsFiniteSet(S) /\ Cardinality(S) \in 0 .. FunctionCount
  <2>1. IsFiniteSet(S) /\ Cardinality(S) <= FunctionCount
    BY <1>1, FS_Subset
  <2>2. Cardinality(S) \in Nat
    BY <2>1, FS_CardinalityType
  <2>. QED
    BY <2>1, <2>2, FunctionCountAssumption
<1>. QED
  BY <1>1, <1>2

(* What a call of a function is.                                           *)
LEMMA CallTypes ==
    ASSUME LeafTypeOK, NEW f \in Functions, NEW i \in DOMAIN code[f]
    PROVE  /\ code[f][i] \in Calls
           /\ code[f][i].kind = "call" => code[f][i].target \in Functions
<1>1. code[f][i] \in Calls
  BY DEF LeafTypeOK
<1>. QED
  BY <1>1 DEF Calls

(* The inference starts without a leaf.                                    *)
LEMMA InferInit == Init => LeafInv
<1>. SUFFICES ASSUME Init PROVE LeafInv
  OBVIOUS
<1>1. LeafTypeOK
  BY DEF Init, LeafTypeOK
<1>2. LeavesRanked
  <2>1. [f \in Functions |-> 0] \in [Functions -> Nat]
    OBVIOUS
  <2>2. Ranked([f \in Functions |-> 0])
    BY DEF Init, Ranked
  <2>. QED
    BY <2>1, <2>2 DEF LeavesRanked
<1>3. RoundComplete
  BY DEF Init, RoundComplete
<1>. QED
  BY <1>1, <1>2, <1>3 DEF LeafInv

(* Every step of the inference keeps the invariant.                        *)
LEMMA InferNext ==
    ASSUME LeafInv, Infer \/ UNCHANGED <<program, inference>>
    PROVE  LeafInv'
<1>. USE DEF program, inference
<1>1. ASSUME NEW f \in Functions, VisitFunction(f) PROVE LeafInv'
  <2>1. /\ phase = "infer" /\ f \in unvisited /\ unvisited' = unvisited \ {f}
        /\ code' = code /\ loops' = loops /\ phase' = phase
    BY <1>1 DEF VisitFunction
  <2>2. CASE f \notin leaf /\ CanRemainLeaf(f)
    <3>1. leaf' = leaf \cup {f} /\ changed' = TRUE
      BY <1>1, <2>2 DEF VisitFunction
    <3>2. LeavesRanked'
      <4>1. PICK rank \in [Functions -> Nat] : Ranked(rank)
        BY DEF LeafInv, LeavesRanked
      <4>2. /\ IsFiniteSet(leaf) /\ Cardinality(leaf) \in Nat
            /\ Cardinality(leaf') = Cardinality(leaf) + 1
        <5>1. IsFiniteSet(leaf) /\ Cardinality(leaf) \in Nat
          BY FunctionsFinite DEF LeafInv, LeafTypeOK
        <5>. QED
          BY <2>2, <3>1, <5>1, FS_AddElement
      <4>. PICK c \in Nat : c = Cardinality(leaf)
        BY <4>2
      <4>. DEFINE r == [rank EXCEPT ![f] = c]
      <4>3. r \in [Functions -> Nat] /\ r[f] = c /\ \A g \in leaf : r[g] = rank[g]
        BY <2>2 DEF LeafInv, LeafTypeOK
      <4>4. /\ f \notin loops
            /\ \A i \in DOMAIN code[f] : code[f][i].kind = "call" /\ code[f][i].target \in leaf
        BY <2>2 DEF CanRemainLeaf, CallCanRemainLeaf
      <4>. HIDE DEF r
      <4>5. \A g \in leaf : rank[g] < c /\ rank[g] \in Nat
        BY <4>1 DEF Ranked, LeafInv, LeafTypeOK
      <4>6. ASSUME NEW g \in leaf'
            PROVE  /\ r[g] < c + 1 /\ g \notin loops
                   /\ \A i \in DOMAIN code[g] :
                         /\ code[g][i].kind = "call" /\ code[g][i].target \in leaf
                         /\ r[code[g][i].target] < r[g]
        <5>1. CASE g = f
          BY <4>3, <4>4, <4>5, <5>1
        <5>2. CASE g \in leaf
          BY <4>1, <4>3, <4>5, <5>2 DEF Ranked
        <5>. QED
          BY <3>1, <5>1, <5>2
      <4>7. Cardinality(leaf') = c + 1 /\ leaf \subseteq leaf'
        BY <3>1, <4>2
      <4>8. Ranked(r)'
        BY <2>1, <4>6, <4>7 DEF Ranked
      <4>. QED
        BY <4>3, <4>8 DEF LeavesRanked
    <3>3. LeafTypeOK' /\ RoundComplete'
      BY <2>1, <3>1 DEF LeafInv, LeafTypeOK, RoundComplete
    <3>. QED
      BY <3>2, <3>3 DEF LeafInv
  <2>3. CASE ~(f \notin leaf /\ CanRemainLeaf(f))
    <3>1. leaf' = leaf /\ changed' = changed
      BY <1>1, <2>3 DEF VisitFunction
    <3>2. LeavesRanked'
      BY <2>1, <3>1 DEF LeafInv, LeavesRanked, Ranked
    <3>3. \A g \in Functions : CanRemainLeaf(g)' <=> CanRemainLeaf(g)
      BY <2>1, <3>1 DEF CanRemainLeaf, CallCanRemainLeaf
    <3>4. RoundComplete'
      BY <2>1, <2>3, <3>1, <3>3 DEF LeafInv, RoundComplete
    <3>5. LeafTypeOK'
      BY <2>1, <3>1 DEF LeafInv, LeafTypeOK
    <3>. QED
      BY <3>2, <3>4, <3>5 DEF LeafInv
  <2>. QED
    BY <2>2, <2>3
<1>2. CASE NextRound \/ EndInference \/ UNCHANGED <<program, inference>>
  <2>1. code' = code /\ loops' = loops /\ leaf' = leaf
    BY <1>2 DEF NextRound, EndInference
  <2>2. LeavesRanked'
    BY <2>1 DEF LeafInv, LeavesRanked, Ranked
  <2>3. \A g \in Functions : CanRemainLeaf(g)' <=> CanRemainLeaf(g)
    BY <2>1 DEF CanRemainLeaf, CallCanRemainLeaf
  <2>4. RoundComplete'
    BY <1>2, <2>1, <2>3 DEF LeafInv, RoundComplete, NextRound, EndInference
  <2>5. LeafTypeOK'
    BY <1>2, <2>1 DEF LeafInv, LeafTypeOK, NextRound, EndInference
  <2>. QED
    BY <2>2, <2>4, <2>5 DEF LeafInv
<1>. QED
  BY <1>1, <1>2 DEF Infer

-----------------------------------------------------------------------------
(* Along a chain of calls from a leaf there are leaves only, and their     *)
(* ranks go down, so it has no more functions than the module.             *)
LEMMA LeavesEnd ==
    ASSUME LeafInv, NEW f \in leaf
    PROVE  EndsWithoutSafepoint(f)
<1>. SUFFICES ASSUME NEW c \in Chains(f)
              PROVE  /\ Cardinality(DOMAIN c) <= FunctionCount
                     /\ \A i \in DOMAIN c : Harmless(c[i])
  BY DEF EndsWithoutSafepoint
<1>1. PICK rank \in [Functions -> Nat] : Ranked(rank)
  BY DEF LeafInv, LeavesRanked
<1>2. PICK n \in 0 .. FunctionCount : c \in [0 .. n -> Functions]
  BY DEF Chains
<1>3. n \in Nat /\ DOMAIN c = 0 .. n /\ c[0] = f
      /\ \A i \in 1 .. n : c[i] \in Callees(c[i - 1])
  <2>1. n \in Nat /\ n <= FunctionCount /\ DOMAIN c = 0 .. n
    BY <1>2, FunctionCountAssumption
  <2>2. \A i \in 1 .. n : i \in 1 .. FunctionCount /\ i \in DOMAIN c
    BY <2>1, FunctionCountAssumption
  <2>. QED
    BY <2>1, <2>2 DEF Chains
<1>. DEFINE P == {i \in Nat : i <= n => c[i] \in leaf /\ rank[c[i]] + i <= rank[f]}
<1>4. 0 \in P
  BY <1>1, <1>3 DEF LeafInv, LeafTypeOK
<1>5. ASSUME NEW i \in P PROVE i + 1 \in P
  <2>. SUFFICES ASSUME i + 1 <= n
                PROVE  c[i + 1] \in leaf /\ rank[c[i + 1]] + (i + 1) <= rank[f]
    OBVIOUS
  <2>1. c[i] \in leaf /\ rank[c[i]] + i <= rank[f]
    BY <1>3
  <2>2. i + 1 \in 1 .. n /\ (i + 1) - 1 = i
    BY <1>3
  <2>3. c[i + 1] \in Callees(c[i])
    BY <1>3, <2>2
  <2>4. c[i + 1] \in leaf /\ rank[c[i + 1]] < rank[c[i]]
    BY <1>1, <2>1, <2>3 DEF Callees, Ranked
  <2>5. rank[c[i]] \in Nat /\ rank[c[i + 1]] \in Nat /\ rank[f] \in Nat
    BY <1>1, <2>1, <2>4 DEF LeafInv, LeafTypeOK
  <2>. QED
    BY <2>1, <2>4, <2>5
<1>6. P = Nat
  <2>. HIDE DEF P
  <2>1. P \in SUBSET Nat
    BY DEF P
  <2>. QED
    BY <1>4, <1>5, <2>1, SetInduction
<1>7. \A i \in 0 .. n : c[i] \in leaf /\ rank[c[i]] + i <= rank[f]
  <2>. SUFFICES ASSUME NEW i \in 0 .. n
                PROVE  c[i] \in leaf /\ rank[c[i]] + i <= rank[f]
    OBVIOUS
  <2>1. i \in Nat /\ i <= n
    BY <1>3
  <2>2. i \in P
    BY <1>6, <2>1
  <2>. QED
    BY <2>1, <2>2
<1>8. \A i \in DOMAIN c : Harmless(c[i])
  BY <1>1, <1>3, <1>7 DEF Ranked, Harmless
<1>9. Cardinality(DOMAIN c) <= FunctionCount
  <2>1. rank[c[n]] + n <= rank[f] /\ c[n] \in leaf
    BY <1>3, <1>7
  <2>2. rank[f] < Cardinality(leaf)
    BY <1>1 DEF Ranked
  <2>3. rank[c[n]] \in Nat /\ rank[f] \in Nat
    BY <1>1, <2>1 DEF LeafInv, LeafTypeOK
  <2>4. Cardinality(leaf) \in Nat /\ Cardinality(leaf) <= FunctionCount
    BY FunctionsFinite, FunctionCountAssumption DEF LeafInv, LeafTypeOK
  <2>5. Cardinality(0 .. n) = n + 1
    BY <1>3, FS_Interval
  <2>. QED
    BY <1>3, <2>1, <2>2, <2>3, <2>4, <2>5, FunctionCountAssumption
<1>. QED
  BY <1>8, <1>9

(* A function that is none when the rounds have ended has a harmful chain, *)
(* or one that can be prolonged beyond the number of functions.            *)
LEMMA OthersDoNot ==
    ASSUME LeafInv, phase = "run", NEW f \in Functions \ leaf
    PROVE  ~EndsWithoutSafepoint(f)
<1>. SUFFICES ASSUME EndsWithoutSafepoint(f) PROVE FALSE
  OBVIOUS
<1>. DEFINE NonLeafChain(c, n) ==
              /\ c \in [0 .. n -> Functions] /\ c[0] = f /\ c[n] \notin leaf
              /\ \A i \in 1 .. n : c[i] \in Callees(c[i - 1])
            P == {n \in Nat : n <= FunctionCount => \E c : NonLeafChain(c, n)}
<1>1. ASSUME NEW n \in Nat, n <= FunctionCount, NEW c, NonLeafChain(c, n)
      PROVE  c \in Chains(f) /\ Cardinality(DOMAIN c) = n + 1
  <2>1. n \in 0 .. FunctionCount /\ DOMAIN c = 0 .. n
    BY <1>1, FunctionCountAssumption
  <2>2. \A i \in 1 .. FunctionCount : i \in DOMAIN c => i \in 1 .. n
    BY <1>1, <2>1, FunctionCountAssumption
  <2>. QED
    BY <1>1, <2>1, <2>2, FS_Interval DEF Chains
<1>2. 0 \in P
  <2>1. NonLeafChain([i \in 0 .. 0 |-> f], 0)
    OBVIOUS
  <2>. QED
    BY <2>1
<1>3. ASSUME NEW n \in P PROVE n + 1 \in P
  <2>. SUFFICES ASSUME n + 1 <= FunctionCount PROVE \E c : NonLeafChain(c, n + 1)
    OBVIOUS
  <2>1. n \in Nat /\ n <= FunctionCount
    BY FunctionCountAssumption
  <2>2. PICK c : NonLeafChain(c, n)
    BY <2>1
  <2>3. n \in DOMAIN c /\ c[n] \in Functions /\ c[n] \notin leaf
    BY <2>1, <2>2
  <2>4. Harmless(c[n])
    BY <1>1, <2>1, <2>2, <2>3 DEF EndsWithoutSafepoint
  <2>5. ~CanRemainLeaf(c[n])
    BY <2>3 DEF LeafInv, RoundComplete
  <2>6. PICK i \in DOMAIN code[c[n]] : code[c[n]][i].kind = "call" /\ code[c[n]][i].target \notin leaf
    BY <2>4, <2>5 DEF Harmless, CanRemainLeaf, CallCanRemainLeaf
  <2>7. code[c[n]][i].target \in Functions
    BY <2>3, <2>6, CallTypes DEF LeafInv
  <2>. PICK g : g = code[c[n]][i].target
    OBVIOUS
  <2>8. g \in Functions \ leaf /\ g \in Callees(c[n])
    BY <2>6, <2>7 DEF Callees
  <2>. DEFINE d == [j \in 0 .. n + 1 |-> IF j = n + 1 THEN g ELSE c[j]]
  <2>9. d \in [0 .. n + 1 -> Functions] /\ d[0] = f /\ d[n + 1] = g
    BY <2>1, <2>2, <2>8
  <2>10. ASSUME NEW j \in 1 .. n + 1 PROVE d[j] \in Callees(d[j - 1])
    <3>1. CASE j = n + 1
      BY <2>1, <2>8, <3>1
    <3>2. CASE j # n + 1
      BY <2>1, <2>2, <3>2
    <3>. QED
      BY <3>1, <3>2
  <2>. HIDE DEF d
  <2>11. NonLeafChain(d, n + 1)
    BY <2>8, <2>9, <2>10
  <2>. QED
    BY <2>11
<1>4. P = Nat
  <2>. HIDE DEF P
  <2>1. P \in SUBSET Nat
    BY DEF P
  <2>. QED
    BY <1>2, <1>3, <2>1, SetInduction
<1>5. PICK c : NonLeafChain(c, FunctionCount)
  <2>. HIDE DEF P, NonLeafChain
  <2>1. FunctionCount \in P /\ FunctionCount <= FunctionCount
    BY <1>4, FunctionCountAssumption
  <2>. QED
    BY <2>1 DEF P
<1>6. c \in Chains(f) /\ Cardinality(DOMAIN c) = FunctionCount + 1
  BY <1>1, <1>5, FunctionCountAssumption
<1>. QED
  BY <1>6, FunctionCountAssumption DEF EndsWithoutSafepoint

(* The leaf functions found so far need no safepoint, and at the end no    *)
(* other function does without: what InferenceExact says follows from the  *)
(* invariant, in whatever module the inference runs.                       *)
LEMMA LeafInvExact == LeafInv => InferenceExact
<1>. SUFFICES ASSUME LeafInv PROVE InferenceExact
  OBVIOUS
<1>1. leaf \subseteq Functions
  BY DEF LeafInv, LeafTypeOK
<1>2. \A f \in leaf : EndsWithoutSafepoint(f)
  BY LeavesEnd
<1>3. phase = "run" => \A f \in Functions \ leaf : ~EndsWithoutSafepoint(f)
  BY OthersDoNot
<1>. QED
  BY <1>1, <1>2, <1>3 DEF InferenceExact
================================================================================
