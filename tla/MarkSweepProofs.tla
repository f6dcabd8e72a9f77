-------------------------- MODULE MarkSweepProofs --------------------------
(***************************************************************************)
(* Safety of the collector for every set of objects and slots:             *)
(* MarkSweepInv is inductive, and a collection is, to the program, the one *)
(* step AbstractHeap!Collect.                                              *)
(***************************************************************************)
EXTENDS MarkSweep, TLAPS

(* What is reachable is itself closed, and it lies in every closed set.    *)
LEMMA ReachableClosed ==
    ASSUME NEW alive, NEW content, NEW rts
    PROVE  LET R == Abs!ReachableIn(alive, content, rts)
           IN  /\ R \subseteq alive
               /\ Abs!Closed(R, alive, content, rts)
               /\ \A S \in SUBSET alive :
                     Abs!Closed(S, alive, content, rts) => R \subseteq S
  BY DEF Abs!ReachableIn, Abs!Closed

(* Removing unreachable objects does not change what is reachable.         *)
LEMMA ReachableStable ==
    ASSUME NEW alive, NEW content, NEW rts, NEW less \in SUBSET alive,
           Abs!ReachableIn(alive, content, rts) \subseteq less
    PROVE  Abs!ReachableIn(less, content, rts) = Abs!ReachableIn(alive, content, rts)
<1>. DEFINE R == Abs!ReachableIn(alive, content, rts)
            Q == Abs!ReachableIn(less, content, rts)
<1>1. /\ R \subseteq alive /\ Abs!Closed(R, alive, content, rts)
      /\ \A S \in SUBSET alive : Abs!Closed(S, alive, content, rts) => R \subseteq S
  BY ReachableClosed
<1>2. /\ Q \subseteq less /\ Abs!Closed(Q, less, content, rts)
      /\ \A S \in SUBSET less : Abs!Closed(S, less, content, rts) => Q \subseteq S
  BY ReachableClosed
<1>3. R \subseteq less
  OBVIOUS
<1>. HIDE DEF R, Q
<1>4. Q \subseteq R
  <2>1. Abs!Closed(R, less, content, rts)
    BY <1>1, <1>3 DEF Abs!Closed
  <2>. QED
    BY <1>2, <1>3, <2>1
<1>5. R \subseteq Q
  <2>1. Abs!Closed(Q \cap R, alive, content, rts)
    BY <1>1, <1>2, <1>3 DEF Abs!Closed
  <2>. QED
    BY <1>1, <2>1
<1>. QED
  BY <1>4, <1>5 DEF R, Q

(* An empty heap satisfies the invariant.                                  *)
LEMMA InvInit == Init => MarkSweepInv
<1>. SUFFICES ASSUME Init PROVE MarkSweepInv
  OBVIOUS
<1>1. TypeOK
  BY DEF Init, TypeOK, Word
<1>2. Survivors = {}
  BY DEF Init, Survivors
<1>3. CollectionInv /\ NoDanglingReference /\ MarksOnlyInCollection
  BY <1>2 DEF Init, CollectionInv, NoDanglingReference, MarksOnlyInCollection
<1>4. TriColour /\ OnlyReachableMarked /\ SurvivorsReachable
  BY DEF Init, TriColour, OnlyReachableMarked, SurvivorsReachable
<1>. QED
  BY <1>1, <1>3, <1>4 DEF MarkSweepInv

(* The mutator runs between collections, where only the types, the marks   *)
(* and the references matter.                                              *)
LEMMA InvMutator ==
    ASSUME MarkSweepInv, Mutator
    PROVE  MarkSweepInv'
<1>1. PICK o \in Objects :
         \/ Allocate(o) \/ Drop(o)
         \/ \E s \in Slots : Load(o, s) \/ \E v \in Word : Store(o, s, v)
  BY DEF Mutator
<1>2. /\ phase = "mutate" /\ phase' = "mutate"
      /\ UNCHANGED <<roots, marked, worklist, unswept>>
  BY <1>1 DEF Allocate, Drop, Load, Store, collector
<1>3. Survivors = live /\ Survivors' = live'
  BY <1>2 DEF MarkSweepInv, MarksOnlyInCollection, Survivors
<1>4. CASE Allocate(o)
  <2>. PICK content \in [Slots -> Word] : words' = [words EXCEPT ![o] = content]
    BY <1>4 DEF Allocate
  <2>1. TypeOK'
    BY <1>2, <1>4 DEF MarkSweepInv, TypeOK, Allocate
  <2>2. \A p \in Objects \ {o} : words'[p] = words[p]
    BY DEF MarkSweepInv, TypeOK
  <2>3. NoDanglingReference'
    BY <1>3, <1>4, <2>2 DEF MarkSweepInv, TypeOK, NoDanglingReference, Allocate
  <2>. QED
    BY <1>2, <2>1, <2>3 DEF MarkSweepInv, CollectionInv, MarksOnlyInCollection,
       TriColour, OnlyReachableMarked, SurvivorsReachable
<1>5. CASE Drop(o)
  <2>1. TypeOK'
    BY <1>2, <1>5 DEF MarkSweepInv, TypeOK, Drop
  <2>2. NoDanglingReference'
    BY <1>3, <1>5 DEF MarkSweepInv, NoDanglingReference, Drop
  <2>. QED
    BY <1>2, <2>1, <2>2, <1>5 DEF MarkSweepInv, CollectionInv, Drop,
       MarksOnlyInCollection, TriColour, OnlyReachableMarked, SurvivorsReachable
<1>6. ASSUME NEW s \in Slots, Load(o, s) PROVE MarkSweepInv'
  <2>1. words[o][s] \in live
    BY <1>3, <1>6 DEF MarkSweepInv, NoDanglingReference, Load
  <2>2. TypeOK'
    BY <1>2, <1>6, <2>1 DEF MarkSweepInv, TypeOK, Load
  <2>3. NoDanglingReference'
    BY <1>3, <1>6, <2>1 DEF MarkSweepInv, NoDanglingReference, Load
  <2>. QED
    BY <1>2, <2>2, <2>3, <1>6 DEF MarkSweepInv, CollectionInv, Load,
       MarksOnlyInCollection, TriColour, OnlyReachableMarked, SurvivorsReachable
<1>7. ASSUME NEW s \in Slots, NEW v \in Word, Store(o, s, v) PROVE MarkSweepInv'
  <2>1. TypeOK'
    BY <1>2, <1>7 DEF MarkSweepInv, TypeOK, Store
  <2>2. \A p \in Objects, t \in Slots :
          words'[p][t] = IF p = o /\ t = s THEN v ELSE words[p][t]
    BY <1>7 DEF MarkSweepInv, TypeOK, Store
  <2>3. NoDanglingReference'
    BY <1>3, <1>7, <2>2 DEF MarkSweepInv, TypeOK, NoDanglingReference, Store
  <2>. QED
    BY <1>2, <2>1, <2>3, <1>7 DEF MarkSweepInv, CollectionInv, Store,
       MarksOnlyInCollection, TriColour, OnlyReachableMarked, SurvivorsReachable
<1>. QED
  BY <1>1, <1>4, <1>5, <1>6, <1>7

(* A step that marks reachable objects and changes no reference.           *)
LEMMA InvBegin ==
    ASSUME MarkSweepInv, BeginCollection
    PROVE  MarkSweepInv'
<1>. USE DEF BeginCollection, program
<1>1. Survivors' = Survivors
  BY DEF Survivors
<1>. QED
  BY <1>1 DEF MarkSweepInv, TypeOK, CollectionInv, NoDanglingReference,
     MarksOnlyInCollection, TriColour, OnlyReachableMarked, SurvivorsReachable

(* A root is marked and queued.                                            *)
LEMMA InvMarkRoot ==
    ASSUME MarkSweepInv, NEW r \in Objects, MarkRoot(r)
    PROVE  MarkSweepInv'
<1>. USE DEF MarkRoot, program
<1>1. /\ marked' = marked \cup ({r} \cap live)
      /\ worklist' = worklist \cup (({r} \cap live) \ marked)
  BY DEF MarkAddresses
<1>2. phase = "roots" /\ phase' = "roots" /\ roots' = roots \ {r} /\ r \in held
  BY DEF MarkSweepInv, CollectionInv
<1>3. Survivors' = Survivors
  BY <1>2 DEF MarkSweepInv, CollectionInv, Survivors
<1>4. TypeOK' /\ CollectionInv' /\ NoDanglingReference' /\ MarksOnlyInCollection'
  BY <1>1, <1>2, <1>3 DEF MarkSweepInv, TypeOK, CollectionInv,
     NoDanglingReference, MarksOnlyInCollection
<1>5. TriColour'
  BY <1>1, <1>2 DEF MarkSweepInv, TriColour
<1>6. Reachable' = Reachable
  BY DEF Reachable
<1>7. r \in live => r \in Reachable
  BY <1>2, ReachableClosed DEF Reachable, Abs!Closed
<1>8. OnlyReachableMarked'
  BY <1>1, <1>2, <1>6, <1>7 DEF MarkSweepInv, OnlyReachableMarked
<1>. QED
  BY <1>2, <1>4, <1>5, <1>8 DEF MarkSweepInv, SurvivorsReachable

(* With no root left every held object is marked.                          *)
LEMMA InvBeginTrace ==
    ASSUME MarkSweepInv, BeginTrace
    PROVE  MarkSweepInv'
<1>. USE DEF BeginTrace, program
<1>1. Survivors' = Survivors /\ Reachable' = Reachable
  BY DEF Survivors, Reachable
<1>. QED
  BY <1>1 DEF MarkSweepInv, TypeOK, CollectionInv, NoDanglingReference,
     MarksOnlyInCollection, TriColour, OnlyReachableMarked, SurvivorsReachable

(* A scanned object has only marked successors.                            *)
LEMMA InvTrace ==
    ASSUME MarkSweepInv, NEW o \in Objects, Trace(o)
    PROVE  MarkSweepInv'
<1>. USE DEF Trace, program
<1>. DEFINE found == {words[o][s] : s \in Slots} \cap live
<1>1. /\ marked' = marked \cup found
      /\ worklist' = (worklist \ {o}) \cup (found \ marked)
  BY DEF MarkAddresses, ScanAllocationPayload
<1>2. phase = "trace" /\ phase' = "trace" /\ o \in marked /\ o \in live
  BY DEF MarkSweepInv, CollectionInv
<1>3. Survivors' = Survivors
  BY <1>2 DEF MarkSweepInv, CollectionInv, Survivors
<1>4. found \subseteq live /\ found \subseteq Objects
  BY DEF MarkSweepInv, TypeOK
<1>5. TypeOK' /\ CollectionInv' /\ NoDanglingReference' /\ MarksOnlyInCollection'
  BY <1>1, <1>2, <1>3, <1>4 DEF MarkSweepInv, TypeOK, CollectionInv,
     NoDanglingReference, MarksOnlyInCollection
<1>6. TriColour'
  BY <1>1, <1>2 DEF MarkSweepInv, TriColour
<1>7. Reachable' = Reachable
  BY DEF Reachable
<1>8. found \subseteq Reachable
  <2>1. o \in Reachable
    BY <1>2 DEF MarkSweepInv, OnlyReachableMarked
  <2>. QED
    BY <2>1, ReachableClosed DEF Reachable, Abs!Closed
<1>9. OnlyReachableMarked'
  BY <1>1, <1>2, <1>7, <1>8 DEF MarkSweepInv, OnlyReachableMarked
<1>. QED
  BY <1>2, <1>5, <1>6, <1>9 DEF MarkSweepInv, SurvivorsReachable

(* When nothing is left to scan the marked objects are the reachable ones. *)
LEMMA MarkedReachable ==
    ASSUME MarkSweepInv, phase = "trace", worklist = {}
    PROVE  marked = Reachable
<1>1. marked \subseteq Reachable
  BY DEF MarkSweepInv, OnlyReachableMarked
<1>2. marked \in SUBSET live /\ Abs!Closed(marked, live, words, held)
  BY DEF MarkSweepInv, CollectionInv, TriColour, Abs!Closed
<1>3. Reachable \subseteq marked
  BY <1>2, ReachableClosed DEF Reachable
<1>. QED
  BY <1>1, <1>3

(* With an empty worklist the marked objects are the reachable ones.       *)
LEMMA InvBeginSweep ==
    ASSUME MarkSweepInv, BeginSweep
    PROVE  MarkSweepInv'
<1>. USE DEF BeginSweep, program
<1>1. marked = Reachable /\ Reachable' = Reachable
  BY MarkedReachable DEF Reachable
<1>2. Survivors = live /\ Survivors' = marked
  BY DEF MarkSweepInv, CollectionInv, Survivors
<1>3. NoDanglingReference'
  BY <1>2 DEF MarkSweepInv, CollectionInv, NoDanglingReference, TriColour, TypeOK
<1>. QED
  BY <1>1, <1>2, <1>3 DEF MarkSweepInv, TypeOK, CollectionInv,
     MarksOnlyInCollection, TriColour, OnlyReachableMarked, SurvivorsReachable

(* Reclaiming an unmarked object leaves the survivors alone.               *)
LEMMA InvSweep ==
    ASSUME MarkSweepInv, NEW o \in Objects, Sweep(o)
    PROVE  MarkSweepInv'
<1>. USE DEF Sweep, program
<1>1. phase = "sweep" /\ phase' = "sweep" /\ o \in unswept /\ o \in live
  BY DEF MarkSweepInv, CollectionInv
<1>2. Survivors' = Survivors
  BY <1>1 DEF Survivors
<1>3. Reachable' = Reachable
  <2>1. Reachable \subseteq live'
    BY <1>1, <1>2 DEF MarkSweepInv, SurvivorsReachable, Survivors
  <2>2. live' \in SUBSET live
    OBVIOUS
  <2>. QED
    BY <2>1, <2>2, ReachableStable DEF Reachable
<1>4. TypeOK' /\ CollectionInv' /\ NoDanglingReference' /\ MarksOnlyInCollection'
  BY <1>1, <1>2 DEF MarkSweepInv, TypeOK, CollectionInv, NoDanglingReference,
     MarksOnlyInCollection
<1>. QED
  BY <1>1, <1>2, <1>3, <1>4 DEF MarkSweepInv, TriColour, OnlyReachableMarked,
     SurvivorsReachable

(* The sweep has visited every header.                                     *)
LEMMA InvEnd ==
    ASSUME MarkSweepInv, EndCollection
    PROVE  MarkSweepInv'
<1>. USE DEF EndCollection, program
<1>1. Survivors' = Survivors /\ marked = {}
  BY DEF Survivors, MarkSweepInv, CollectionInv
<1>. QED
  BY <1>1 DEF MarkSweepInv, TypeOK, CollectionInv, NoDanglingReference,
     MarksOnlyInCollection, TriColour, OnlyReachableMarked, SurvivorsReachable

(* Every step preserves the invariant.                                     *)
LEMMA InvNext == MarkSweepInv /\ [Next]_vars => MarkSweepInv'
<1>. SUFFICES ASSUME MarkSweepInv, [Next]_vars PROVE MarkSweepInv'
  OBVIOUS
<1>1. CASE UNCHANGED vars
  BY <1>1 DEF vars, program, MarkSweepInv, TypeOK, CollectionInv, Survivors,
     NoDanglingReference, MarksOnlyInCollection, TriColour,
     OnlyReachableMarked, SurvivorsReachable, Reachable
<1>. QED
  BY <1>1, InvMutator, InvBegin, InvMarkRoot, InvBeginTrace, InvTrace,
     InvBeginSweep, InvSweep, InvEnd DEF Next, Collector

(* The invariant holds for every set of objects and slots.                 *)
THEOREM CollectorInvariant == Spec => []MarkSweepInv
  BY InvInit, InvNext, PTL DEF Spec

(* The collector never takes an object the program can still name.         *)
THEOREM NothingDangles == Spec => []NoDanglingReference
  BY CollectorInvariant, PTL DEF MarkSweepInv

(* A sweep leaves exactly what the roots reach.                            *)
THEOREM SweepsExactly == Spec => []SurvivorsReachable
  BY CollectorInvariant, PTL DEF MarkSweepInv

-----------------------------------------------------------------------------
(* The mutator's steps are those of the abstract program, the beginning of *)
(* the sweep is its Collect, and the other steps of a collection stutter.  *)
LEMMA RefinementStep ==
    ASSUME MarkSweepInv, [Next]_vars
    PROVE  [Abs!Next]_(Abs!vars)
<1>. USE DEF Abs!vars, program
<1>1. ASSUME NEW o \in Objects, Allocate(o) PROVE Abs!Allocate(o)
  BY <1>1 DEF Allocate, collector, Abs!Allocate, Survivors, Word, MarkSweepInv,
     MarksOnlyInCollection
<1>2. ASSUME NEW o \in Objects, Drop(o) PROVE Abs!Drop(o)
  BY <1>2 DEF Drop, collector, Abs!Drop, Survivors
<1>3. ASSUME NEW o \in Objects, NEW s \in Slots, Load(o, s) PROVE Abs!Load(o, s)
  <2>1. UNCHANGED <<Survivors, words>> /\ o \in held
    BY <1>3 DEF Load, collector, Survivors
  <2>2. words[o][s] \in Survivors
    BY <1>3 DEF Load, MarkSweepInv, NoDanglingReference
  <2>. QED
    BY <1>3, <2>1, <2>2 DEF Load, Abs!Load
<1>4. ASSUME NEW o \in Objects, NEW s \in Slots, NEW v \in Word, Store(o, s, v)
      PROVE  Abs!Store(o, s, v)
  BY <1>4 DEF Store, collector, Abs!Store, Survivors
<1>5. ASSUME BeginSweep PROVE Abs!Collect
  <2>1. Survivors = live /\ Survivors' = marked
    BY <1>5 DEF BeginSweep, MarkSweepInv, CollectionInv, Survivors
  <2>2. marked = Abs!ReachableIn(Survivors, words, held)
    BY <1>5, <2>1, MarkedReachable DEF BeginSweep, Reachable
  <2>. QED
    BY <1>5, <2>1, <2>2 DEF BeginSweep, Abs!Collect
<1>6. ASSUME \/ BeginCollection \/ BeginTrace \/ EndCollection
             \/ \E o \in Objects : MarkRoot(o) \/ Trace(o) \/ Sweep(o)
             \/ UNCHANGED vars
      PROVE  UNCHANGED <<Survivors, words, held>>
  <2>1. CASE BeginCollection \/ BeginTrace \/ EndCollection \/ UNCHANGED vars
    BY <2>1 DEF BeginCollection, BeginTrace, EndCollection, vars, Survivors
  <2>2. CASE \E o \in Objects : MarkRoot(o) \/ Trace(o)
    BY <2>2 DEF MarkRoot, Trace, MarkAddresses, Survivors, MarkSweepInv,
       CollectionInv
  <2>3. CASE \E o \in Objects : Sweep(o)
    BY <2>3 DEF Sweep, Survivors, MarkSweepInv, CollectionInv
  <2>. QED
    BY <1>6, <2>1, <2>2, <2>3
<1>. QED
  BY <1>1, <1>2, <1>3, <1>4, <1>5, <1>6 DEF Next, Mutator, Collector, Abs!Next, Word

(* To the program every collection is one step, for every heap.            *)
THEOREM ImplementsAbstractHeap == Spec => CollectsAtomically
<1>1. Init => Abs!Init
  BY DEF Init, Abs!Init, Survivors
<1>. QED
  BY <1>1, RefinementStep, CollectorInvariant, PTL DEF Spec, Abs!Spec,
     CollectsAtomically
=============================================================================
