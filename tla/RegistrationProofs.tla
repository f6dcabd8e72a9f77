--------------------------- MODULE RegistrationProofs ---------------------------
(***************************************************************************)
(* Proofs about the registration of a stack map for any number of          *)
(* functions, any program, and any of the object's relocations.            *)
(***************************************************************************)
EXTENDS StackMapRegistration, LeafInferenceProofs, SequenceTheorems

(* s is the functions of fs in the order of the module.                    *)
InOrder(s, fs) ==
    /\ \A f \in fs : \E i \in DOMAIN s : s[i] = f
    /\ \A i, j \in DOMAIN s : i < j => s[i] < s[j]

(* The records of the first n functions of the stack map.                  *)
RecordsAt(index) ==
    {Safepoint(StackMapFunctions[index], i, FunctionAddress(index)) :
        i \in RecordsOf(StackMapFunctions[index])}
RecordsUpTo(n) == UNION {RecordsAt(j) : j \in 1 .. n}

Refused == \E f \in malformed : RecordsOf(f) # {}
Complete ==
    functionIndex = Len(StackMapFunctions) /\ safepoints = loadedSafepoints

(* What was loaded is the records of the functions dealt with, none of     *)
(* them malformed; and the code has not changed since the leaves were      *)
(* inferred, so it is the records of the stack map as it is now.           *)
LoadingExact ==
    /\ stage # "compile" => phase = "run" /\ managedFunctionOrder = Sorted(Functions \ leaf)
    /\ stage \in {"compile", "load"} => functionIndex = 0
    /\ functionIndex \in 0 .. Len(StackMapFunctions)
    /\ \A j \in 1 .. functionIndex : StackMapFunctions[j] \notin malformed
    /\ loadedSafepoints = RecordsUpTo(functionIndex)

(* The registry is empty until all of it is there, and stays so where an   *)
(* error is on its way or has arrived.                                     *)
PublishedExact ==
    /\ stage \in {"compile", "load", "register"} =>
         safepoints = {} /\ ~pendingRegistrationError
    /\ stage = "invoke" /\ ~pendingRegistrationError => Complete
    /\ stage = "invoked" => Complete
    /\ stage = "invoke" /\ pendingRegistrationError => safepoints = {} /\ Refused
    /\ stage = "rejected" => safepoints = {} /\ Refused

RegistrationTypeOK ==
    /\ malformed \subseteq Functions /\ library \subseteq Functions
    /\ relocations \in [Functions -> {"symbol", "section", "none"}]
    /\ pendingRegistrationError \in BOOLEAN
    /\ stage \in {"compile", "load", "register", "invoke", "invoked", "rejected"}

RegInv == LeafInv /\ RegistrationTypeOK /\ LoadingExact /\ PublishedExact

-----------------------------------------------------------------------------
(* There is a sequence of any set of functions in the order of the module. *)
LEMMA OrderExists ==
    ASSUME NEW fs \in SUBSET Functions
    PROVE  \E s \in [1 .. Cardinality(fs) -> fs] : InOrder(s, fs)
<1>. DEFINE P == {n \in Nat : \A gs \in SUBSET (1 .. n) :
                    \E s \in [1 .. Cardinality(gs) -> gs] : InOrder(s, gs)}
<1>1. 0 \in P
  <2>. SUFFICES ASSUME NEW gs \in SUBSET (1 .. 0)
                PROVE  \E s \in [1 .. Cardinality(gs) -> gs] : InOrder(s, gs)
    OBVIOUS
  <2>1. gs = {}
    OBVIOUS
  <2>2. Cardinality(gs) = 0
    BY <2>1, FS_EmptySet
  <2>. DEFINE s == [i \in 1 .. 0 |-> 0]
  <2>3. s \in [1 .. 0 -> gs] /\ InOrder(s, gs)
    BY <2>1 DEF InOrder
  <2>. QED
    BY <2>2, <2>3
<1>2. ASSUME NEW n \in P PROVE n + 1 \in P
  <2>. SUFFICES ASSUME NEW gs \in SUBSET (1 .. n + 1)
                PROVE  \E s \in [1 .. Cardinality(gs) -> gs] : InOrder(s, gs)
    OBVIOUS
  <2>0. n \in Nat
    OBVIOUS
  <2>1. CASE n + 1 \notin gs
    <3>1. gs \in SUBSET (1 .. n)
      BY <2>0, <2>1
    <3>. QED
      BY <3>1
  <2>2. CASE n + 1 \in gs
    <3>. DEFINE hs == gs \ {n + 1}
    <3>1. hs \in SUBSET (1 .. n) /\ gs = hs \cup {n + 1} /\ n + 1 \notin hs
      BY <2>2
    <3>2. IsFiniteSet(hs)
      <4>1. IsFiniteSet(1 .. n)
        BY <2>0, FS_Interval
      <4>. QED
        BY <3>1, <4>1, FS_Subset
    <3>3. Cardinality(hs) \in Nat /\ Cardinality(gs) = Cardinality(hs) + 1
      BY <3>1, <3>2, FS_CardinalityType, FS_AddElement
    <3>. HIDE DEF hs
    <3>4. PICK s \in [1 .. Cardinality(hs) -> hs] : InOrder(s, hs)
      BY <3>1
    <3>. PICK c \in Nat : c = Cardinality(hs)
      BY <3>3
    <3>. DEFINE t == [i \in 1 .. c + 1 |-> IF i = c + 1 THEN n + 1 ELSE s[i]]
    <3>5. /\ DOMAIN t = 1 .. c + 1 /\ t[c + 1] = n + 1
          /\ \A i \in 1 .. c : t[i] = s[i] /\ s[i] \in hs
      BY <3>4
    <3>6. t \in [1 .. c + 1 -> gs]
      BY <3>1, <3>4
    <3>. HIDE DEF t
    <3>7. InOrder(t, gs)
      <4>1. ASSUME NEW f \in gs PROVE \E i \in DOMAIN t : t[i] = f
        <5>1. CASE f = n + 1
          BY <3>5, <5>1
        <5>2. CASE f \in hs
          <6>1. PICK i \in 1 .. c : s[i] = f
            BY <3>4, <5>2 DEF InOrder
          <6>2. t[i] = f /\ i \in 1 .. c + 1
            BY <3>5, <6>1
          <6>. QED
            BY <3>5, <6>2
        <5>. QED
          BY <3>1, <5>1, <5>2
      <4>2. ASSUME NEW i \in DOMAIN t, NEW j \in DOMAIN t, i < j PROVE t[i] < t[j]
        <5>1. i \in 1 .. c + 1 /\ j \in 1 .. c + 1
          BY <3>5
        <5>2. i \in 1 .. c
          BY <4>2, <5>1
        <5>3. t[i] = s[i] /\ t[i] \in 1 .. n
          BY <3>1, <3>5, <5>2
        <5>4. CASE j = c + 1
          BY <2>0, <3>5, <5>3, <5>4
        <5>5. CASE j # c + 1
          <6>1. j \in 1 .. c /\ t[j] = s[j]
            BY <3>5, <5>1, <5>5
          <6>2. s[i] < s[j]
            BY <3>4, <4>2, <5>2, <6>1 DEF InOrder
          <6>. QED
            BY <5>3, <6>1, <6>2
        <5>. QED
          BY <5>4, <5>5
      <4>. QED
        BY <4>1, <4>2 DEF InOrder
    <3>. QED
      BY <3>3, <3>6, <3>7
  <2>. QED
    BY <2>1, <2>2
<1>. HIDE DEF P
<1>3. P \in SUBSET Nat
  BY DEF P
<1>4. P = Nat
  BY <1>1, <1>2, <1>3, SetInduction
<1>5. FunctionCount \in P
  BY <1>4, FunctionCountAssumption
<1>. QED
  BY <1>5 DEF P, Functions

(* The order of the module has each function of the set, at some place.    *)
LEMMA SortedFacts ==
    ASSUME NEW fs \in SUBSET Functions
    PROVE  /\ Len(Sorted(fs)) \in Nat
           /\ Sorted(fs) \in [1 .. Len(Sorted(fs)) -> fs]
           /\ \A f \in fs : \E i \in 1 .. Len(Sorted(fs)) : Sorted(fs)[i] = f
<1>1. Sorted(fs) \in [1 .. Cardinality(fs) -> fs] /\ InOrder(Sorted(fs), fs)
  BY OrderExists DEF Sorted, InOrder
<1>2. Cardinality(fs) \in Nat
  BY FunctionsFinite, FS_CardinalityType
<1>. PICK s : s = Sorted(fs)
  OBVIOUS
<1>. PICK c \in Nat : c = Cardinality(fs)
  BY <1>2
<1>3. s \in [1 .. c -> fs]
  BY <1>1
<1>4. s \in Seq(fs)
  BY <1>3
<1>5. Len(s) \in Nat /\ 1 .. Len(s) = 1 .. c
  BY <1>3, <1>4, LenProperties
<1>6. Len(s) = c
  BY <1>5
<1>. QED
  BY <1>1, <1>3, <1>6 DEF InOrder

(* The stack map lists the functions with records, each at some place.     *)
LEMMA StackMapFacts ==
    /\ Len(StackMapFunctions) \in Nat
    /\ \A j \in 1 .. Len(StackMapFunctions) :
          StackMapFunctions[j] \in Functions /\ RecordsOf(StackMapFunctions[j]) # {}
    /\ \A f \in Functions : RecordsOf(f) # {} =>
          \E j \in 1 .. Len(StackMapFunctions) : StackMapFunctions[j] = f
<1>1. \E fs \in SUBSET Functions :
        /\ fs = {f \in Functions : RecordsOf(f) # {}}
        /\ StackMapFunctions = Sorted(fs)
  BY DEF StackMapFunctions
<1>2. PICK fs \in SUBSET Functions :
        /\ \A f \in Functions : f \in fs <=> RecordsOf(f) # {}
        /\ StackMapFunctions = Sorted(fs)
  BY <1>1
<1>. PICK s : s = Sorted(fs)
  OBVIOUS
<1>3. /\ Len(s) \in Nat /\ s \in [1 .. Len(s) -> fs]
      /\ \A f \in fs : \E i \in 1 .. Len(s) : s[i] = f
  BY SortedFacts
<1>4. \A j \in 1 .. Len(s) : s[j] \in fs
  BY <1>3
<1>. QED
  BY <1>2, <1>3, <1>4

(* Nothing the stack map is made of changes after the inference.           *)
LEMMA LaterFrame ==
    ASSUME UNCHANGED <<program, inference, object>>
    PROVE  /\ StackMapFunctions' = StackMapFunctions
           /\ \A f \in Functions : RecordsOf(f)' = RecordsOf(f)
           /\ Refused' = Refused
<1>1. code' = code /\ loops' = loops /\ leaf' = leaf /\ library' = library
      /\ malformed' = malformed
  BY DEF program, inference, object
<1>2. \A f : RecordsOf(f)' = RecordsOf(f)
  BY <1>1 DEF RecordsOf, CallCanRemainLeaf
<1>3. StackMapFunctions' = StackMapFunctions
  BY <1>1, <1>2 DEF StackMapFunctions
<1>. QED
  BY <1>1, <1>2, <1>3 DEF Refused

(* Nor do the records, once the managed functions are listed.              *)
LEMMA RecordsFrame ==
    ASSUME UNCHANGED <<program, inference, object, managedFunctionOrder>>,
           NEW n
    PROVE  RecordsUpTo(n)' = RecordsUpTo(n)
<1>1. StackMapFunctions' = StackMapFunctions
  BY LaterFrame
<1>2. /\ code' = code /\ loops' = loops /\ leaf' = leaf /\ library' = library
      /\ relocations' = relocations /\ applied' = applied /\ prefixed' = prefixed
      /\ managedFunctionOrder' = managedFunctionOrder
  BY DEF program, inference, object
<1>3. \A f : RecordsOf(f)' = RecordsOf(f)
  BY <1>2 DEF RecordsOf, CallCanRemainLeaf
<1>4. \A j : FunctionAddress(j)' = FunctionAddress(j)
  BY <1>1, <1>2 DEF FunctionAddress, RelocatedAddress
<1>5. \A j : RecordsAt(j)' = RecordsAt(j)
  BY <1>1, <1>3, <1>4 DEF RecordsAt
<1>. QED
  BY <1>5 DEF RecordsUpTo

(* The records of no function are none.                                    *)
LEMMA NoRecords == RecordsUpTo(0) = {}
  BY DEF RecordsUpTo

(* The program starts its registration with nothing dealt with.            *)
LEMMA RegistrationInit == InitRegistration => RegInv
<1>. SUFFICES ASSUME InitRegistration PROVE RegInv
  OBVIOUS
<1>1. LeafInv
  BY InferInit DEF InitRegistration
<1>2. RegistrationTypeOK
  BY DEF InitRegistration, RegistrationTypeOK
<1>3. LoadingExact
  <2>1. Len(StackMapFunctions) \in Nat
    BY StackMapFacts
  <2>. QED
    BY <2>1, NoRecords DEF InitRegistration, LoadingExact
<1>4. PublishedExact
  BY DEF InitRegistration, PublishedExact
<1>. QED
  BY <1>1, <1>2, <1>3, <1>4 DEF RegInv

(* A step of the inference, which comes before the object.                 *)
LEMMA InferenceStep ==
    ASSUME RegInv, Infer, UNCHANGED others
    PROVE  RegInv'
<1>. USE DEF others, object, registry
<1>1. phase = "infer"
  BY DEF Infer, VisitFunction, NextRound, EndInference
<1>2. stage = "compile" /\ stage' = "compile"
  BY <1>1 DEF RegInv, LoadingExact, RegistrationTypeOK
<1>3. LeafInv'
  BY InferNext DEF RegInv
<1>4. RegistrationTypeOK'
  BY DEF RegInv, RegistrationTypeOK
<1>5. LoadingExact'
  <2>1. functionIndex = 0 /\ functionIndex' = 0 /\ loadedSafepoints' = loadedSafepoints
    BY <1>2 DEF RegInv, LoadingExact
  <2>2. loadedSafepoints' = {}
    BY <2>1, NoRecords DEF RegInv, LoadingExact
  <2>3. RecordsUpTo(0)' = {}
    BY DEF RecordsUpTo
  <2>4. Len(StackMapFunctions)' \in Nat
    <3>. PICK fs \in SUBSET Functions : fs = {f \in Functions : RecordsOf(f)' # {}}
      OBVIOUS
    <3>1. StackMapFunctions' = Sorted(fs)
      BY DEF StackMapFunctions
    <3>. QED
      BY <3>1, SortedFacts
  <2>5. functionIndex' \in 0 .. Len(StackMapFunctions)'
    BY <2>1, <2>4
  <2>6. loadedSafepoints' = RecordsUpTo(functionIndex)'
    BY <2>1, <2>2, <2>3 DEF RecordsUpTo
  <2>. QED
    BY <1>2, <2>1, <2>5, <2>6 DEF LoadingExact
<1>6. PublishedExact'
  BY <1>2 DEF RegInv, PublishedExact
<1>. QED
  BY <1>3, <1>4, <1>5, <1>6 DEF RegInv

(* A step that leaves the code alone leaves what was found out about it.   *)
LEMMA LeafUnchanged ==
    ASSUME LeafInv, UNCHANGED <<program, inference>>
    PROVE  LeafInv'
  BY InferNext

(* Listing the managed functions, loading the object.                      *)
LEMMA BeforeRegistration ==
    ASSUME RegInv, RecordManagedFunctionOrder \/ LoadObject
    PROVE  RegInv'
<1>1. /\ UNCHANGED <<program, inference, object, safepoints, functionIndex,
                     loadedSafepoints, pendingRegistrationError>>
      /\ stage \in {"compile", "load"} /\ stage' \in {"load", "register"}
  BY DEF RecordManagedFunctionOrder, LoadObject, registry
<1>2. LeafInv'
  BY <1>1, LeafUnchanged DEF RegInv
<1>3. RegistrationTypeOK'
  BY <1>1 DEF RegInv, RegistrationTypeOK, object
<1>4. phase' = "run" /\ managedFunctionOrder' = Sorted(Functions \ leaf')
  BY DEF RecordManagedFunctionOrder, LoadObject, registry, RegInv, LoadingExact, inference
<1>5. LoadingExact'
  <2>1. functionIndex = 0 /\ functionIndex' = 0 /\ loadedSafepoints' = {}
    BY <1>1, NoRecords DEF RegInv, LoadingExact
  <2>2. StackMapFunctions' = StackMapFunctions /\ Len(StackMapFunctions) \in Nat
    BY <1>1, LaterFrame, StackMapFacts
  <2>3. loadedSafepoints' = RecordsUpTo(functionIndex)'
    BY <2>1 DEF RecordsUpTo
  <2>. QED
    BY <1>1, <1>4, <2>1, <2>2, <2>3 DEF LoadingExact
<1>6. PublishedExact'
  BY <1>1 DEF RegInv, PublishedExact
<1>. QED
  BY <1>2, <1>3, <1>5, <1>6 DEF RegInv

(* A function of the stack map: its records are added, or refused.         *)
LEMMA RegisterStep ==
    ASSUME RegInv, RegisterFunction
    PROVE  RegInv'
<1>1. /\ UNCHANGED <<program, inference, object, managedFunctionOrder, safepoints>>
      /\ stage = "register" /\ functionIndex < Len(StackMapFunctions)
  BY DEF RegisterFunction
<1>2. LeafInv'
  BY <1>1, LeafUnchanged DEF RegInv
<1>3. RegistrationTypeOK'
  BY <1>1 DEF RegInv, RegistrationTypeOK, object, RegisterFunction
<1>4. /\ StackMapFunctions' = StackMapFunctions /\ Len(StackMapFunctions) \in Nat
      /\ Refused' = Refused /\ malformed' = malformed
      /\ phase' = phase /\ leaf' = leaf
  BY <1>1, LaterFrame, StackMapFacts DEF object, inference
<1>. PICK next : next = functionIndex + 1
  OBVIOUS
<1>5. /\ functionIndex \in Nat /\ next \in 1 .. Len(StackMapFunctions)
      /\ 1 .. next = (1 .. functionIndex) \cup {next}
  BY <1>1, <1>4 DEF RegInv, LoadingExact
<1>6. CASE StackMapFunctions[next] \in malformed
  <2>1. /\ pendingRegistrationError' = TRUE /\ stage' = "invoke"
        /\ UNCHANGED <<loadedSafepoints, functionIndex>>
    BY <1>6 DEF RegisterFunction
  <2>2. Refused
    BY <1>5, <1>6, StackMapFacts DEF Refused
  <2>3. PublishedExact'
    BY <1>1, <1>4, <2>1, <2>2 DEF RegInv, PublishedExact
  <2>4. RecordsUpTo(functionIndex)' = RecordsUpTo(functionIndex)
    <3>1. \A n : RecordsUpTo(n)' = RecordsUpTo(n)
      BY <1>1, RecordsFrame
    <3>. QED
      BY <2>1, <3>1 DEF RecordsUpTo
  <2>5. LoadingExact'
    BY <1>1, <1>4, <2>1, <2>4 DEF RegInv, LoadingExact
  <2>. QED
    BY <1>2, <1>3, <2>3, <2>5 DEF RegInv
<1>7. CASE StackMapFunctions[next] \notin malformed
  <2>1. /\ functionIndex' = next /\ loadedSafepoints' = loadedSafepoints \cup RecordsAt(next)
        /\ stage' = stage /\ pendingRegistrationError' = pendingRegistrationError
    BY <1>7 DEF RegisterFunction, RecordsAt
  <2>2. RecordsUpTo(next) = RecordsUpTo(functionIndex) \cup RecordsAt(next)
    BY <1>5 DEF RecordsUpTo
  <2>3. RecordsUpTo(functionIndex)' = RecordsUpTo(next)
    <3>1. RecordsUpTo(next)' = RecordsUpTo(next)
      BY <1>1, RecordsFrame
    <3>. QED
      BY <2>1, <3>1 DEF RecordsUpTo
  <2>4. LoadingExact'
    <3>1. \A j \in 1 .. next : StackMapFunctions[j] \notin malformed
      BY <1>5, <1>7 DEF RegInv, LoadingExact
    <3>2. loadedSafepoints' = RecordsUpTo(functionIndex)'
      BY <2>1, <2>2, <2>3 DEF RegInv, LoadingExact
    <3>. QED
      BY <1>1, <1>4, <1>5, <2>1, <3>1, <3>2 DEF RegInv, LoadingExact
  <2>5. PublishedExact'
    BY <1>1, <2>1 DEF RegInv, PublishedExact
  <2>. QED
    BY <1>2, <1>3, <2>4, <2>5 DEF RegInv
<1>. QED
  BY <1>6, <1>7

(* Publishing what was loaded, and the answer to the caller.               *)
LEMMA AfterRegistration ==
    ASSUME RegInv, PublishSafepoints \/ TakeRegistrationError
    PROVE  RegInv'
<1>1. /\ UNCHANGED <<program, inference, object, managedFunctionOrder,
                     functionIndex, loadedSafepoints>>
      /\ stage \in {"register", "invoke"}
      /\ stage' \in {"invoke", "invoked", "rejected"}
  BY DEF PublishSafepoints, TakeRegistrationError
<1>2. LeafInv'
  BY <1>1, LeafUnchanged DEF RegInv
<1>3. RegistrationTypeOK'
  BY <1>1 DEF RegInv, RegistrationTypeOK, object, PublishSafepoints, TakeRegistrationError
<1>4. /\ StackMapFunctions' = StackMapFunctions /\ Refused' = Refused
      /\ malformed' = malformed /\ phase' = phase /\ leaf' = leaf
  BY <1>1, LaterFrame DEF object, inference
<1>5. LoadingExact'
  <2>1. RecordsUpTo(functionIndex)' = RecordsUpTo(functionIndex)
    <3>1. \A n : RecordsUpTo(n)' = RecordsUpTo(n)
      BY <1>1, RecordsFrame
    <3>. QED
      BY <1>1, <3>1 DEF RecordsUpTo
  <2>. QED
    BY <1>1, <1>4, <2>1 DEF RegInv, LoadingExact
<1>6. PublishedExact'
  <2>1. CASE PublishSafepoints
    <3>1. /\ stage = "register" /\ stage' = "invoke" /\ safepoints' = safepoints \cup loadedSafepoints
          /\ functionIndex = Len(StackMapFunctions)
          /\ pendingRegistrationError' = pendingRegistrationError
      BY <2>1 DEF PublishSafepoints
    <3>2. safepoints = {} /\ ~pendingRegistrationError
      BY <3>1 DEF RegInv, PublishedExact
    <3>3. Complete'
      BY <1>1, <1>4, <3>1, <3>2 DEF Complete
    <3>. QED
      BY <3>1, <3>2, <3>3 DEF PublishedExact
  <2>2. CASE TakeRegistrationError
    <3>1. /\ stage = "invoke" /\ safepoints' = safepoints
          /\ stage' = IF pendingRegistrationError THEN "rejected" ELSE "invoked"
      BY <2>2 DEF TakeRegistrationError
    <3>2. Complete' = Complete
      BY <1>1, <1>4, <3>1 DEF Complete
    <3>. QED
      BY <1>4, <3>1, <3>2 DEF RegInv, PublishedExact
  <2>. QED
    BY <2>1, <2>2
<1>. QED
  BY <1>2, <1>3, <1>5, <1>6 DEF RegInv

(* Every step keeps the invariant.                                         *)
LEMMA RegistrationNext == RegInv /\ [Next]_vars => RegInv'
<1>. SUFFICES ASSUME RegInv, [Next]_vars PROVE RegInv'
  OBVIOUS
<1>1. CASE \/ \E f \in Functions : VisitFunction(f) /\ UNCHANGED others
           \/ NextRound /\ UNCHANGED others
           \/ EndInference /\ UNCHANGED others
  BY <1>1, InferenceStep DEF Infer
<1>2. CASE RecordManagedFunctionOrder \/ LoadObject
  BY <1>2, BeforeRegistration
<1>3. CASE RegisterFunction
  BY <1>3, RegisterStep
<1>4. CASE PublishSafepoints \/ TakeRegistrationError
  BY <1>4, AfterRegistration
<1>5. CASE UNCHANGED vars
  <2>1. /\ UNCHANGED <<program, inference, object, managedFunctionOrder, safepoints,
                       functionIndex, loadedSafepoints, pendingRegistrationError>>
        /\ stage' = stage
    BY <1>5 DEF vars, registry
  <2>2. LeafInv'
    BY <2>1, LeafUnchanged DEF RegInv
  <2>3. RegistrationTypeOK'
    BY <2>1 DEF RegInv, RegistrationTypeOK, object
  <2>4. /\ StackMapFunctions' = StackMapFunctions /\ Refused' = Refused
        /\ malformed' = malformed /\ phase' = phase /\ leaf' = leaf
    BY <2>1, LaterFrame DEF object, inference
  <2>5. RecordsUpTo(functionIndex)' = RecordsUpTo(functionIndex)
    <3>1. \A n : RecordsUpTo(n)' = RecordsUpTo(n)
      BY <2>1, RecordsFrame
    <3>. QED
      BY <2>1, <3>1 DEF RecordsUpTo
  <2>6. LoadingExact'
    BY <2>1, <2>4, <2>5 DEF RegInv, LoadingExact
  <2>7. PublishedExact'
    BY <2>1, <2>4 DEF RegInv, PublishedExact, Complete
  <2>. QED
    BY <2>2, <2>3, <2>6, <2>7 DEF RegInv
<1>. QED
  BY <1>1, <1>2, <1>3, <1>4, <1>5 DEF Next, Register

(* The registration of a stack map, for any number of functions, any code  *)
(* and any relocations: what is loaded is the records of the functions     *)
(* dealt with so far, and what is published is nothing or all of it.       *)
THEOREM RegistrationInvariant == Spec => []RegInv
<1>1. InitRegistration => RegInv
  BY RegistrationInit
<1>2. RegInv /\ [Next]_vars => RegInv'
  BY RegistrationNext
<1>. QED
  BY <1>1, <1>2, PTL DEF Spec

-----------------------------------------------------------------------------
(* Without calls LLVM takes for leaves, the functions with records are     *)
(* those that the inference did not take for leaves: the order of the      *)
(* stack map is that of the managed functions.                             *)
LEMMA ManagedHaveRecords ==
    ASSUME RegInv, phase = "run", library = {}, NEW f \in Functions
    PROVE  RecordsOf(f) # {} <=> f \notin leaf
<1>. SUFFICES ASSUME f \notin leaf PROVE RecordsOf(f) # {}
  BY DEF RecordsOf
<1>1. ~CanRemainLeaf(f)
  BY DEF RegInv, LeafInv, RoundComplete
<1>2. CASE f \in loops
  BY <1>2 DEF RecordsOf
<1>3. CASE \E i \in DOMAIN code[f] : ~CallCanRemainLeaf(code[f][i])
  BY <1>3 DEF RecordsOf
<1>. QED
  BY <1>1, <1>2, <1>3 DEF CanRemainLeaf

(* A function that the relocations let be told from the others is given    *)
(* the address it was loaded at.                                           *)
LEMMA AddressExact ==
    ASSUME RegInv, stage # "compile",
           NEW j \in 1 .. Len(StackMapFunctions), Resolvable(StackMapFunctions[j])
    PROVE  FunctionAddress(j) = LoadedAddress(StackMapFunctions[j])
<1>. PICK f \in Functions : f = StackMapFunctions[j]
  BY StackMapFacts
<1>1. CASE relocations[f] = "symbol"
  BY <1>1 DEF FunctionAddress, RelocatedAddress
<1>2. CASE relocations[f] = "none" /\ prefixed /\ applied
  BY <1>2 DEF FunctionAddress, LoadedAddress
<1>3. CASE relocations[f] = "none" /\ ~prefixed /\ library = {}
  <2>1. phase = "run" /\ managedFunctionOrder = Sorted(Functions \ leaf)
    BY DEF RegInv, LoadingExact
  <2>2. {g \in Functions : RecordsOf(g) # {}} = Functions \ leaf
    BY <1>3, <2>1, ManagedHaveRecords
  <2>3. managedFunctionOrder = StackMapFunctions
    BY <2>1, <2>2 DEF StackMapFunctions
  <2>4. j <= Len(managedFunctionOrder)
    BY <2>3, StackMapFacts
  <2>. QED
    BY <1>3, <2>3, <2>4 DEF FunctionAddress
<1>. QED
  BY <1>1, <1>2, <1>3 DEF Resolvable

(* All the functions of the stack map make all the records.                *)
LEMMA AllLoaded ==
    ASSUME RegInv
    PROVE  {<<r.fn, r.at>> : r \in RecordsUpTo(Len(StackMapFunctions))} = AllRecords
<1>. PICK K \in Nat : K = Len(StackMapFunctions)
  BY StackMapFacts
<1>1. ASSUME NEW r \in RecordsUpTo(K) PROVE <<r.fn, r.at>> \in AllRecords
  <2>1. PICK j \in 1 .. K : r \in RecordsAt(j)
    BY DEF RecordsUpTo
  <2>2. PICK i \in RecordsOf(StackMapFunctions[j]) :
          r = Safepoint(StackMapFunctions[j], i, FunctionAddress(j))
    BY <2>1 DEF RecordsAt
  <2>3. r.fn = StackMapFunctions[j] /\ r.at = i
    BY <2>2 DEF Safepoint
  <2>4. StackMapFunctions[j] \in Functions
    BY StackMapFacts
  <2>. QED
    BY <2>2, <2>3, <2>4 DEF AllRecords
<1>2. ASSUME NEW p \in AllRecords
      PROVE  \E r \in RecordsUpTo(K) : p = <<r.fn, r.at>>
  <2>1. PICK f \in Functions : p \in {f} \X RecordsOf(f)
    BY DEF AllRecords
  <2>2. PICK i \in RecordsOf(f) : p = <<f, i>>
    BY <2>1
  <2>3. PICK j \in 1 .. K : StackMapFunctions[j] = f
    BY <2>2, StackMapFacts
  <2>. DEFINE r == Safepoint(f, i, FunctionAddress(j))
  <2>4. r \in RecordsAt(j)
    BY <2>2, <2>3 DEF RecordsAt
  <2>5. r \in RecordsUpTo(K)
    BY <2>3, <2>4 DEF RecordsUpTo
  <2>6. p = <<r.fn, r.at>>
    BY <2>2 DEF Safepoint
  <2>. QED
    BY <2>5, <2>6
<1>. QED
  BY <1>1, <1>2

(* An object leaves all its records behind or none, and it is refused just *)
(* when a function with records has a malformed one.                       *)
THEOREM RegistersAllOrNothing == Spec => []AllOrNothing
<1>1. RegInv => AllOrNothing
  <2>. SUFFICES ASSUME RegInv PROVE AllOrNothing
    OBVIOUS
  <2>1. stage \in {"compile", "load", "register", "invoke", "invoked", "rejected"}
    BY DEF RegInv, RegistrationTypeOK
  <2>2. safepoints # {} => Complete
    BY <2>1 DEF RegInv, PublishedExact
  <2>3. Complete => {<<r.fn, r.at>> : r \in safepoints} = AllRecords
    BY AllLoaded DEF Complete, RegInv, LoadingExact
  <2>4. Complete => ~Refused
    <3>. SUFFICES ASSUME Complete, NEW f \in malformed, RecordsOf(f) # {} PROVE FALSE
      BY DEF Refused
    <3>1. f \in Functions
      BY DEF RegInv, RegistrationTypeOK
    <3>2. PICK j \in 1 .. Len(StackMapFunctions) : StackMapFunctions[j] = f
      BY <3>1, StackMapFacts
    <3>. QED
      BY <3>2 DEF Complete, RegInv, LoadingExact
  <2>5. stage \in {"invoked", "rejected"} => (stage = "rejected" <=> Refused)
    BY <2>4 DEF RegInv, PublishedExact
  <2>. QED
    BY <2>2, <2>3, <2>5 DEF AllOrNothing, Refused
<1>. QED
  BY <1>1, RegistrationInvariant, PTL

(* The program is invoked with the records of all its functions and no     *)
(* other, those of the functions that the relocations let be told from the *)
(* others at the addresses they were loaded at.                            *)
THEOREM RegistersExactly == Spec => []InvokedWithExactRecords
<1>1. RegInv => InvokedWithExactRecords
  <2>. SUFFICES ASSUME RegInv, stage = "invoked"
                PROVE  /\ {<<r.fn, r.at>> : r \in safepoints} = AllRecords
                       /\ \A r \in safepoints :
                             Resolvable(r.fn) => r.address = LoadedAddress(r.fn) + r.at
    BY DEF InvokedWithExactRecords
  <2>1. safepoints = RecordsUpTo(Len(StackMapFunctions))
    BY DEF RegInv, PublishedExact, LoadingExact, Complete
  <2>2. ASSUME NEW r \in safepoints, Resolvable(r.fn)
        PROVE  r.address = LoadedAddress(r.fn) + r.at
    <3>1. PICK j \in 1 .. Len(StackMapFunctions) : r \in RecordsAt(j)
      BY <2>1 DEF RecordsUpTo
    <3>2. PICK i \in RecordsOf(StackMapFunctions[j]) :
            r = Safepoint(StackMapFunctions[j], i, FunctionAddress(j))
      BY <3>1 DEF RecordsAt
    <3>3. r.fn = StackMapFunctions[j] /\ r.at = i /\ r.address = FunctionAddress(j) + i
      BY <3>2 DEF Safepoint
    <3>. QED
      BY <2>2, <3>3, AddressExact
  <2>. QED
    BY <2>1, <2>2, AllLoaded
<1>. QED
  BY <1>1, RegistrationInvariant, PTL
===============================================================================
