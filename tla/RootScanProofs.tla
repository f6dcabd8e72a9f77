---------------------------- MODULE RootScanProofs ----------------------------
(***************************************************************************)
(* Proofs about the scan of the stack at a safepoint, for any program, any *)
(* depth of the stack and any limits of the walk.                          *)
(***************************************************************************)
EXTENDS RootScan, LeafInferenceProofs, SequenceTheorems

AnyFrame == [fn : Functions \cup {Native}, at : Nat, polling : BOOLEAN]

(* A frame that waits for a call of g: managed code at a call of it, or    *)
(* native code in the middle of its callback.                              *)
CallsOut(fr, g) ==
    /\ fr.fn \in Functions /\ fr.at \in DOMAIN code[fr.fn]
    /\ LET call == code[fr.fn][fr.at]
       IN  \/ call.kind = "call" /\ g = call.target
           \/ call.kind = "native" /\ g = Native

Waiting(fr, g) ==
    /\ ~fr.polling
    /\ CallsOut(fr, g) \/ (fr.fn = Native /\ fr.at = 1 /\ g \in Functions)

(* The poll a frame may be in: only functions that are no leaves have one. *)
PollPlace(fr) ==
    /\ fr.fn \notin leaf
    /\ IF fr.at \in DOMAIN code[fr.fn] THEN code[fr.fn][fr.at].kind = "allocate"
       ELSE fr.fn \in loops /\ fr.at = Len(code[fr.fn]) + 1

Executing(fr) ==
    \/ fr.fn = Native /\ ~fr.polling /\ fr.at \in {1, 2}
    \/ /\ fr.fn \in Functions /\ fr.at \in 1 .. Len(code[fr.fn]) + 1
       /\ fr.polling => PollPlace(fr)

(* The frames below the top wait for the calls the next ones stand for.    *)
StackOK(s) ==
    /\ s \in Seq(AnyFrame)
    /\ s # <<>> => s[1].fn \in Functions /\ Executing(s[Len(s)])
    /\ \A j \in 1 .. Len(s) - 1 : Waiting(s[j], s[j + 1].fn)

(* Where a scan starts: the safepoints that request or wait for one.       *)
SafepointFrame(fr) ==
    \/ fr.polling
    \/ fr.fn = Native /\ fr.at = 1
    \/ /\ fr.fn \in Functions /\ fr.at \in DOMAIN code[fr.fn]
       /\ code[fr.fn][fr.at].kind = "request"

IsNewest(n) ==
    /\ n \in 1 .. Len(stack) /\ stack[n].fn # Native
    /\ \A k \in n + 1 .. Len(stack) : stack[k].fn = Native

(* The scan has reached the frame at frame from the newest managed one, n, *)
(* and has scanned each on the way with its own record; it ends at its     *)
(* limit, at the oldest frame or above native code.                        *)
ScannedTo(n) ==
    /\ frame \in 1 .. n /\ walked = n - frame /\ walked <= MaxManagedFrameDepth
    /\ \A k \in frame .. n : stack[k].fn # Native
    /\ found = {<<k, FrameAddress(k)>> : k \in frame .. n}
    /\ mode = "scanned" =>
         walked = MaxManagedFrameDepth \/ frame = 1 \/ stack[frame - 1].fn = Native

ScanInv ==
    mode \in {"scan", "scanned"} =>
        /\ SafepointFrame(Top)
        /\ \E n \in 1 .. Len(stack) : IsNewest(n) /\ ScannedTo(n)

RootInv ==
    /\ LeafInv /\ StackOK(stack)
    /\ mode \in {"idle", "run", "scan", "scanned", "ended"}
    /\ mode = "idle" => stack = <<>>
    /\ mode # "idle" => phase = "run"
    /\ mode \in {"run", "scan", "scanned"} => stack # <<>>
    /\ ScanInv

-----------------------------------------------------------------------------
(* The calls of a function are a sequence.                                 *)
LEMMA CodeFacts ==
    ASSUME LeafTypeOK, NEW f \in Functions
    PROVE  /\ code[f] \in Seq(Calls) /\ Len(code[f]) \in 0 .. MaxCalls
           /\ DOMAIN code[f] = 1 .. Len(code[f])
<1>1. PICK n \in 0 .. MaxCalls : code[f] \in [1 .. n -> Calls]
  BY DEF LeafTypeOK
<1>. QED
  BY <1>1, FunctionCountAssumption

(* Native code is no function of the module.                               *)
LEMMA NativeIsNone == Native \notin Functions
  BY DEF Native, Functions

(* A call pushes a frame on one that waits for it.                         *)
LEMMA PushOK ==
    ASSUME LeafTypeOK, NEW s, StackOK(s), NEW g \in Functions \cup {Native},
           \/ s = <<>> /\ g \in Functions
           \/ s # <<>> /\ Waiting(s[Len(s)], g)
    PROVE  StackOK(Append(s, NewFrame(g))) /\ Append(s, NewFrame(g)) # <<>>
<1>. DEFINE t == Append(s, NewFrame(g))
<1>1. NewFrame(g) \in AnyFrame /\ NewFrame(g).fn = g /\ Executing(NewFrame(g))
  BY CodeFacts DEF NewFrame, AnyFrame, Executing
<1>2. s \in Seq(AnyFrame) /\ Len(s) \in Nat
  BY DEF StackOK
<1>3. /\ t \in Seq(AnyFrame) /\ Len(t) = Len(s) + 1 /\ t[Len(s) + 1] = NewFrame(g)
      /\ \A j \in 1 .. Len(s) : t[j] = s[j]
  BY <1>1, <1>2
<1>. HIDE DEF t
<1>4. t # <<>> /\ t[1].fn \in Functions
  <2>1. t # <<>>
    BY <1>2, <1>3
  <2>2. CASE s = <<>>
    <3>1. Len(s) = 0 /\ g \in Functions
      BY <2>2
    <3>. QED
      BY <1>1, <1>3, <2>1, <3>1
  <2>3. CASE s # <<>>
    <3>1. 1 \in 1 .. Len(s) /\ s[1].fn \in Functions
      BY <1>2, <2>3 DEF StackOK
    <3>. QED
      BY <1>3, <2>1, <3>1
  <2>. QED
    BY <2>2, <2>3
<1>5. ASSUME NEW j \in 1 .. Len(t) - 1 PROVE Waiting(t[j], t[j + 1].fn)
  <2>1. j \in 1 .. Len(s) /\ t[j] = s[j]
    BY <1>2, <1>3
  <2>2. CASE j = Len(s)
    <3>1. t[j + 1].fn = g /\ s # <<>>
      BY <1>1, <1>2, <1>3, <2>1, <2>2
    <3>. QED
      BY <2>1, <2>2, <3>1
  <2>3. CASE j # Len(s)
    <3>1. j \in 1 .. Len(s) - 1 /\ t[j + 1] = s[j + 1]
      BY <1>2, <1>3, <2>1, <2>3
    <3>. QED
      BY <2>1, <3>1 DEF StackOK
  <2>. QED
    BY <2>2, <2>3
<1>6. Executing(t[Len(t)])
  BY <1>1, <1>2, <1>3
<1>7. StackOK(t)
  BY <1>3, <1>4, <1>5, <1>6 DEF StackOK
<1>. QED
  BY <1>4, <1>7 DEF t

(* The newest frame goes on.                                               *)
ReplaceTop(s, fr) == [s EXCEPT ![Len(s)] = fr]

(* It stays a frame of its function.                                       *)
LEMMA ReplaceTopOK ==
    ASSUME NEW s, StackOK(s), s # <<>>, NEW fr \in AnyFrame,
           fr.fn = s[Len(s)].fn, Executing(fr)
    PROVE  StackOK(ReplaceTop(s, fr)) /\ ReplaceTop(s, fr) # <<>>
<1>. DEFINE t == ReplaceTop(s, fr)
<1>1. s \in Seq(AnyFrame) /\ Len(s) \in Nat /\ Len(s) # 0
  BY DEF StackOK
<1>2. /\ t \in Seq(AnyFrame) /\ Len(t) = Len(s) /\ t[Len(s)] = fr
      /\ \A j \in 1 .. Len(s) - 1 : t[j] = s[j]
      /\ \A j \in 1 .. Len(s) : t[j].fn = s[j].fn
  BY <1>1 DEF ReplaceTop
<1>. HIDE DEF t
<1>3. t # <<>> /\ t[1].fn \in Functions /\ Executing(t[Len(t)])
  BY <1>1, <1>2 DEF StackOK
<1>4. ASSUME NEW j \in 1 .. Len(t) - 1 PROVE Waiting(t[j], t[j + 1].fn)
  <2>1. j \in 1 .. Len(s) - 1 /\ j + 1 \in 1 .. Len(s)
    BY <1>1, <1>2
  <2>2. t[j] = s[j] /\ t[j + 1].fn = s[j + 1].fn
    BY <1>2, <2>1
  <2>. QED
    BY <2>1, <2>2 DEF StackOK
<1>5. StackOK(t)
  BY <1>2, <1>3, <1>4 DEF StackOK
<1>. QED
  BY <1>3, <1>5 DEF t

(* A frame at a call, or native code, goes on behind it.                   *)
LEMMA AdvancedOK ==
    ASSUME LeafTypeOK, NEW s, StackOK(s), s # <<>>,
           \/ s[Len(s)].fn \in Functions /\ s[Len(s)].at \in DOMAIN code[s[Len(s)].fn]
           \/ s[Len(s)].fn = Native /\ s[Len(s)].at = 1
    PROVE  StackOK(Advanced(s)) /\ Advanced(s) # <<>>
<1>. DEFINE fr == [fn |-> s[Len(s)].fn, at |-> s[Len(s)].at + 1, polling |-> FALSE]
<1>1. s[Len(s)] \in AnyFrame
  BY DEF StackOK
<1>2. fr \in AnyFrame /\ fr.fn = s[Len(s)].fn /\ fr.at = s[Len(s)].at + 1 /\ ~fr.polling
  BY <1>1 DEF AnyFrame
<1>. HIDE DEF fr
<1>3. Executing(fr)
  BY <1>2, CodeFacts DEF Executing
<1>4. Advanced(s) = ReplaceTop(s, fr)
  BY DEF Advanced, ReplaceTop, fr
<1>. QED
  BY <1>2, <1>3, <1>4, ReplaceTopOK

(* A return goes on with the frame below, behind its call.                 *)
LEMMA ReturnOK ==
    ASSUME LeafTypeOK, NEW s, StackOK(s), Len(s) > 1
    PROVE  /\ StackOK(Advanced(SubSeq(s, 1, Len(s) - 1)))
           /\ Advanced(SubSeq(s, 1, Len(s) - 1)) # <<>>
<1>. DEFINE t == SubSeq(s, 1, Len(s) - 1)
<1>1. s \in Seq(AnyFrame) /\ Len(s) \in Nat
  BY DEF StackOK
<1>2. /\ t \in Seq(AnyFrame) /\ Len(t) = Len(s) - 1 /\ Len(t) \in Nat /\ Len(t) # 0
      /\ \A j \in 1 .. Len(t) : t[j] = s[j]
  <2>1. 1 \in Int /\ Len(s) - 1 \in Int /\ \A j \in 1 .. Len(s) - 1 : s[j] \in AnyFrame
    BY <1>1
  <2>2. /\ t \in Seq(AnyFrame) /\ Len(t) = IF 1 <= Len(s) - 1 THEN Len(s) - 1 - 1 + 1 ELSE 0
        /\ \A j \in 1 .. Len(s) - 1 - 1 + 1 : t[j] = s[1 + j - 1]
    BY <2>1, SubSeqProperties
  <2>. HIDE DEF t
  <2>. QED
    BY <1>1, <2>2
<1>. HIDE DEF t
<1>0. PICK m : m = Len(t)
  OBVIOUS
<1>3. m \in 1 .. Len(s) - 1 /\ t[m] = s[m] /\ t # <<>>
  BY <1>0, <1>1, <1>2
<1>4. Waiting(t[m], s[m + 1].fn)
  BY <1>3 DEF StackOK
<1>5. Executing(t[m])
  <2>1. CASE CallsOut(t[m], s[m + 1].fn)
    BY <1>4, <2>1, CodeFacts DEF Executing, CallsOut, Waiting
  <2>2. CASE t[m].fn = Native /\ t[m].at = 1
    BY <1>4, <2>2 DEF Executing, Waiting
  <2>. QED
    BY <1>4, <2>1, <2>2 DEF Waiting
<1>6. StackOK(t)
  <2>0. Executing(t[Len(t)]) /\ t \in Seq(AnyFrame) /\ t # <<>>
    BY <1>0, <1>2, <1>3, <1>5
  <2>1. t[1].fn \in Functions
    BY <1>1, <1>2 DEF StackOK
  <2>2. ASSUME NEW j \in 1 .. Len(t) - 1 PROVE Waiting(t[j], t[j + 1].fn)
    <3>1. j \in 1 .. Len(s) - 1 /\ t[j] = s[j] /\ t[j + 1] = s[j + 1]
      BY <1>1, <1>2
    <3>. QED
      BY <3>1 DEF StackOK
  <2>. QED
    BY <2>0, <2>1, <2>2 DEF StackOK
<1>7. StackOK(Advanced(t)) /\ Advanced(t) # <<>>
  BY <1>0, <1>3, <1>4, <1>6, AdvancedOK DEF Waiting, CallsOut
<1>. QED
  BY <1>7 DEF t

-----------------------------------------------------------------------------
(* The newest frame, as the actions read it.                               *)
LEMMA TopFacts ==
    ASSUME RootInv, stack # <<>>
    PROVE  /\ Top \in AnyFrame /\ Executing(Top) /\ Len(stack) \in Nat \ {0}
           /\ stack \in Seq(AnyFrame) /\ LeafTypeOK /\ StackOK(stack)
           /\ stack[1].fn \in Functions /\ Top = stack[Len(stack)]
           /\ Top.fn = Native => Len(stack) > 1
<1>1. Len(stack) \in Nat \ {0} /\ stack \in Seq(AnyFrame)
  BY DEF RootInv, StackOK
<1>. QED
  BY <1>1, NativeIsNone DEF RootInv, StackOK, Top, LeafInv

(* Where managed code is.                                                  *)
LEMMA ManagedTop ==
    ASSUME RootInv, InManaged
    PROVE  /\ Top.fn \in Functions /\ ~Top.polling /\ mode = "run" /\ stack # <<>>
           /\ AtEnd <=> Top.at = Len(code[Top.fn]) + 1
           /\ ~AtEnd <=> Top.at \in DOMAIN code[Top.fn]
<1>1. stack # <<>> /\ Top.fn # Native /\ ~Top.polling /\ mode = "run"
  BY DEF InManaged
<1>2. Top.fn \in Functions /\ Top.at \in 1 .. Len(code[Top.fn]) + 1
  BY <1>1, TopFacts DEF Executing
<1>3. DOMAIN code[Top.fn] = 1 .. Len(code[Top.fn]) /\ Len(code[Top.fn]) \in Nat
  BY <1>1, <1>2, TopFacts, CodeFacts
<1>. QED
  BY <1>1, <1>2, <1>3 DEF AtEnd

(* The stack is well formed for the program that is still the same.        *)
LEMMA SameProgram ==
    ASSUME RootInv, UNCHANGED <<program, inference>>, StackOK(stack')
    PROVE  LeafInv' /\ StackOK(stack)' /\ phase' = phase
<1>1. LeafInv'
  BY InferNext DEF RootInv
<1>2. code' = code /\ loops' = loops /\ leaf' = leaf /\ phase' = phase
  BY DEF program, inference
<1>3. StackOK(stack)'
  BY <1>2 DEF StackOK, Executing, Waiting, CallsOut, PollPlace
<1>. QED
  BY <1>1, <1>2, <1>3

(* A step of the running program.                                          *)
LEMMA RunStep ==
    ASSUME RootInv, mode = "run", NEW s, Step(s), StackOK(s), s # <<>>
    PROVE  RootInv'
<1>1. stack' = s /\ mode' = mode /\ UNCHANGED <<program, inference>>
  BY DEF Step
<1>2. LeafInv' /\ StackOK(stack)' /\ phase' = phase
  BY <1>1, SameProgram
<1>. QED
  BY <1>1, <1>2 DEF RootInv, ScanInv

(* The calls that push a frame.                                            *)
LEMMA RootPush ==
    ASSUME RootInv, CallFunction \/ CallNative \/ \E f \in Functions : NativeCallBack(f)
    PROVE  RootInv'
<1>1. ASSUME NEW g \in Functions \cup {Native}, mode = "run", stack # <<>>,
             Waiting(Top, g), Step(Push(g))
      PROVE  RootInv'
  <2>1. StackOK(Push(g)) /\ Push(g) # <<>>
    BY <1>1, TopFacts, PushOK DEF Push
  <2>. QED
    BY <1>1, <2>1, RunStep
<1>2. CASE CallFunction
  <2>1. /\ InManaged /\ ~AtEnd /\ code[Top.fn][Top.at].kind = "call"
        /\ Step(Push(code[Top.fn][Top.at].target))
    BY <1>2 DEF CallFunction, AtCall
  <2>2. code[Top.fn][Top.at].target \in Functions
    BY <2>1, ManagedTop, TopFacts, CallTypes
  <2>3. Waiting(Top, code[Top.fn][Top.at].target)
    BY <2>1, ManagedTop DEF Waiting, CallsOut
  <2>. QED
    BY <1>1, <2>1, <2>2, <2>3, ManagedTop
<1>3. CASE CallNative
  <2>1. /\ InManaged /\ ~AtEnd /\ code[Top.fn][Top.at].kind = "native"
        /\ Step(Push(Native))
    BY <1>3 DEF CallNative, AtCall
  <2>2. Waiting(Top, Native)
    BY <2>1, ManagedTop DEF Waiting, CallsOut
  <2>. QED
    BY <1>1, <2>1, <2>2, ManagedTop
<1>4. ASSUME NEW f \in Functions, NativeCallBack(f) PROVE RootInv'
  <2>1. mode = "run" /\ stack # <<>> /\ Top.fn = Native /\ Top.at = 1 /\ Step(Push(f))
    BY <1>4 DEF NativeCallBack, Running
  <2>2. Waiting(Top, f)
    BY <2>1, TopFacts, NativeIsNone DEF Waiting, Executing
  <2>. QED
    BY <1>1, <2>1, <2>2
<1>. QED
  BY <1>2, <1>3, <1>4

(* The first call, from outside.                                           *)
LEMMA RootInvoke ==
    ASSUME RootInv, NEW f \in Functions, Invoke(f)
    PROVE  RootInv'
<1>1. /\ phase = "run" /\ stack = <<>> /\ mode' = "run" /\ stack' = Push(f)
      /\ UNCHANGED <<program, inference>>
  BY DEF Invoke, RootInv
<1>2. StackOK(Push(f)) /\ Push(f) # <<>>
  BY <1>1, PushOK DEF Push, RootInv, LeafInv
<1>3. LeafInv' /\ StackOK(stack)' /\ phase' = phase
  BY <1>1, <1>2, SameProgram
<1>. QED
  BY <1>1, <1>2, <1>3 DEF RootInv, ScanInv

(* A step that ends the program.                                           *)
LEMMA RootEnd ==
    ASSUME RootInv, mode = "run", mode' = "ended", StackOK(stack'),
           UNCHANGED <<program, inference>>
    PROVE  RootInv'
<1>1. LeafInv' /\ StackOK(stack)' /\ phase' = phase
  BY SameProgram
<1>. QED
  BY <1>1 DEF RootInv, ScanInv

(* The steps of one frame: to a poll, past it or round a loop.             *)
LEMMA RootTop ==
    ASSUME RootInv, Allocate \/ Latch \/ PassPoll
    PROVE  RootInv'
<1>1. mode = "run" /\ stack # <<>>
  BY DEF Allocate, Latch, PassPoll, AtCall, InManaged
<1>2. ASSUME NEW i \in Nat, NEW b \in BOOLEAN,
             Executing([fn |-> Top.fn, at |-> i, polling |-> b])
      PROVE  LET s == ReplaceTop(stack, [fn |-> Top.fn, at |-> i, polling |-> b])
             IN  StackOK(s) /\ s # <<>>
  <2>. DEFINE fr == [fn |-> Top.fn, at |-> i, polling |-> b]
  <2>1. fr \in AnyFrame /\ fr.fn = stack[Len(stack)].fn /\ Executing(fr)
    BY <1>1, <1>2, TopFacts DEF AnyFrame
  <2>. HIDE DEF fr
  <2>2. StackOK(ReplaceTop(stack, fr)) /\ ReplaceTop(stack, fr) # <<>>
    BY <1>1, <2>1, TopFacts, ReplaceTopOK
  <2>. QED
    BY <2>2 DEF fr
<1>3. [stack EXCEPT ![Len(stack)] = [fn |-> Top.fn, at |-> Top.at, polling |-> TRUE]]
        = ReplaceTop(stack, [fn |-> Top.fn, at |-> Top.at, polling |-> TRUE])
  BY DEF ReplaceTop
<1>4. [stack EXCEPT ![Len(stack)].at = 1]
        = ReplaceTop(stack, [fn |-> Top.fn, at |-> 1, polling |-> Top.polling])
  <2>1. [Top EXCEPT !.at = 1] = [fn |-> Top.fn, at |-> 1, polling |-> Top.polling]
    BY <1>1, TopFacts DEF AnyFrame
  <2>2. [stack EXCEPT ![Len(stack)].at = 1]
          = [stack EXCEPT ![Len(stack)] = [Top EXCEPT !.at = 1]]
    BY DEF Top
  <2>. QED
    BY <2>1, <2>2 DEF ReplaceTop
<1>5. [stack EXCEPT ![Len(stack)] = NewFrame(Top.fn)]
        = ReplaceTop(stack, [fn |-> Top.fn, at |-> 1, polling |-> FALSE])
  BY DEF ReplaceTop, NewFrame
<1>6. Top.at \in Nat
  BY <1>1, TopFacts DEF AnyFrame
<1>7. CASE Allocate
  <2>1. /\ InManaged /\ ~AtEnd /\ code[Top.fn][Top.at].kind = "allocate"
        /\ Step(PollOr(Advanced(stack)))
    BY <1>7 DEF Allocate, AtCall
  <2>2. StackOK(Advanced(stack)) /\ Advanced(stack) # <<>>
    BY <1>1, <2>1, TopFacts, ManagedTop, AdvancedOK
  <2>3. CASE Top.fn \notin leaf
    <3>1. Executing([fn |-> Top.fn, at |-> Top.at, polling |-> TRUE])
      BY <1>1, <2>1, <2>3, TopFacts, ManagedTop DEF Executing, PollPlace
    <3>2. LET s == ReplaceTop(stack, [fn |-> Top.fn, at |-> Top.at, polling |-> TRUE])
          IN  StackOK(s) /\ s # <<>>
      BY <1>2, <1>6, <3>1
    <3>3. PollOr(Advanced(stack))
            = ReplaceTop(stack, [fn |-> Top.fn, at |-> Top.at, polling |-> TRUE])
      BY <1>3, <2>3 DEF PollOr
    <3>. QED
      BY <1>1, <2>1, <3>2, <3>3, RunStep
  <2>4. CASE Top.fn \in leaf
    BY <1>1, <2>1, <2>2, <2>4, RunStep DEF PollOr
  <2>. QED
    BY <2>3, <2>4
<1>8. CASE Latch
  <2>. DEFINE next == [stack EXCEPT ![Len(stack)].at = 1]
  <2>1. InManaged /\ AtEnd /\ Top.fn \in loops /\ Step(PollOr(next))
    BY <1>8 DEF Latch
  <2>2. Len(code[Top.fn]) \in Nat /\ Top.fn \in Functions
    BY <1>1, <2>1, ManagedTop, TopFacts, CodeFacts
  <2>3. CASE Top.fn \notin leaf
    <3>1. Executing([fn |-> Top.fn, at |-> Top.at, polling |-> TRUE])
      BY <1>1, <2>1, <2>2, <2>3, TopFacts, ManagedTop DEF Executing, PollPlace
    <3>2. LET s == ReplaceTop(stack, [fn |-> Top.fn, at |-> Top.at, polling |-> TRUE])
          IN  StackOK(s) /\ s # <<>>
      BY <1>2, <1>6, <3>1
    <3>3. PollOr(next) = ReplaceTop(stack, [fn |-> Top.fn, at |-> Top.at, polling |-> TRUE])
      BY <1>3, <2>3 DEF PollOr
    <3>. QED
      BY <1>1, <2>1, <3>2, <3>3, RunStep
  <2>4. CASE Top.fn \in leaf
    <3>1. Executing([fn |-> Top.fn, at |-> 1, polling |-> FALSE])
      BY <2>2 DEF Executing
    <3>2. LET s == ReplaceTop(stack, [fn |-> Top.fn, at |-> 1, polling |-> FALSE])
          IN  StackOK(s) /\ s # <<>>
      BY <1>2, <3>1
    <3>3. PollOr(next) = ReplaceTop(stack, [fn |-> Top.fn, at |-> 1, polling |-> FALSE])
      <4>1. Top.polling = FALSE
        BY <1>1, <2>1, TopFacts, ManagedTop DEF AnyFrame
      <4>. QED
        BY <1>4, <2>4, <4>1 DEF PollOr
    <3>. QED
      BY <1>1, <2>1, <3>2, <3>3, RunStep
  <2>. QED
    BY <2>3, <2>4
<1>9. CASE PassPoll
  <2>1. Top.polling /\ Top.fn \in Functions /\ Top.at \in 1 .. Len(code[Top.fn]) + 1
    BY <1>1, <1>9, TopFacts DEF PassPoll, Executing
  <2>2. Len(code[Top.fn]) \in Nat /\ DOMAIN code[Top.fn] = 1 .. Len(code[Top.fn])
    BY <1>1, <2>1, TopFacts, CodeFacts
  <2>3. CASE AtEnd
    <3>1. Executing([fn |-> Top.fn, at |-> 1, polling |-> FALSE])
      BY <2>1, <2>2 DEF Executing
    <3>2. LET s == ReplaceTop(stack, [fn |-> Top.fn, at |-> 1, polling |-> FALSE])
          IN  StackOK(s) /\ s # <<>> /\ Step(s)
      BY <1>2, <1>5, <1>9, <2>3, <3>1 DEF PassPoll
    <3>. QED
      BY <1>1, <3>2, RunStep
  <2>4. CASE ~AtEnd
    <3>1. Top.at \in DOMAIN code[Top.fn]
      BY <2>1, <2>2, <2>4 DEF AtEnd
    <3>2. StackOK(Advanced(stack)) /\ Advanced(stack) # <<>>
      BY <1>1, <2>1, <3>1, TopFacts, AdvancedOK
    <3>. QED
      BY <1>1, <1>9, <2>4, <3>2, RunStep DEF PassPoll
  <2>. QED
    BY <2>3, <2>4
<1>. QED
  BY <1>7, <1>8, <1>9

(* The returns, and the overflow of the stack.                             *)
LEMMA RootReturn ==
    ASSUME RootInv, Return \/ NativeReturn \/ StackOverflow
    PROVE  RootInv'
<1>1. mode = "run" /\ stack # <<>>
  BY DEF Return, NativeReturn, StackOverflow, AtCall, InManaged, Running
<1>2. Len(stack) > 1 => StackOK(Advanced(Popped)) /\ Advanced(Popped) # <<>>
  BY <1>1, TopFacts, ReturnOK DEF Popped
<1>3. CASE NativeReturn
  <2>1. Len(stack) > 1 /\ Step(Advanced(Popped))
    BY <1>1, <1>3, TopFacts DEF NativeReturn, Running
  <2>. QED
    BY <1>1, <1>2, <2>1, RunStep
<1>4. CASE Return
  <2>1. CASE Len(stack) > 1
    <3>1. Step(Advanced(Popped))
      BY <1>4, <2>1 DEF Return, Step
    <3>. QED
      BY <1>1, <1>2, <2>1, <3>1, RunStep
  <2>2. CASE ~(Len(stack) > 1)
    <3>1. stack' = <<>> /\ mode' = "ended" /\ UNCHANGED <<program, inference>>
      BY <1>4, <2>2 DEF Return
    <3>2. StackOK(stack')
      BY <3>1 DEF StackOK
    <3>. QED
      BY <1>1, <3>1, <3>2, RootEnd
  <2>. QED
    BY <2>1, <2>2
<1>5. CASE StackOverflow
  <2>1. mode' = "ended" /\ stack' = stack /\ UNCHANGED <<program, inference>>
    BY <1>5 DEF StackOverflow
  <2>2. StackOK(stack')
    BY <2>1 DEF RootInv
  <2>. QED
    BY <1>1, <2>1, <2>2, RootEnd
<1>. QED
  BY <1>3, <1>4, <1>5

-----------------------------------------------------------------------------
(* A leaf calls leaves only, so the frames below one that is none are  *)
(* none either; a frame at a safepoint is none.                            *)
LEMMA NoLeafBelow ==
    ASSUME RootInv, stack # <<>>, SafepointFrame(Top), NEW j \in 1 .. Len(stack)
    PROVE  stack[j].fn \notin leaf
<1>1. /\ leaf \subseteq Functions
      /\ \A f \in leaf : \A i \in DOMAIN code[f] :
            code[f][i].kind = "call" /\ code[f][i].target \in leaf
  BY DEF RootInv, LeafInv, LeafTypeOK, LeavesRanked, Ranked
<1>2. Len(stack) \in Nat \ {0} /\ StackOK(stack) /\ Executing(Top) /\ Top = stack[Len(stack)]
  BY TopFacts
<1>3. Top.fn \notin leaf
  BY <1>1, <1>2, NativeIsNone DEF SafepointFrame, Executing, PollPlace
<1>. DEFINE P == {d \in Nat : d < Len(stack) => stack[Len(stack) - d].fn \notin leaf}
<1>4. 0 \in P
  BY <1>2, <1>3
<1>5. ASSUME NEW d \in P PROVE d + 1 \in P
  <2>. SUFFICES ASSUME d + 1 < Len(stack) PROVE stack[Len(stack) - (d + 1)].fn \notin leaf
    OBVIOUS
  <2>0. PICK k : k = Len(stack) - (d + 1)
    OBVIOUS
  <2>1. k \in 1 .. Len(stack) - 1 /\ k + 1 = Len(stack) - d /\ d < Len(stack)
    BY <1>2, <2>0
  <2>2. Waiting(stack[k], stack[k + 1].fn)
    BY <1>2, <2>1 DEF StackOK
  <2>3. stack[k + 1].fn \notin leaf
    BY <2>1
  <2>4. stack[k].fn \notin leaf
    BY <1>1, <2>2, <2>3, NativeIsNone DEF Waiting, CallsOut
  <2>. QED
    BY <2>0, <2>4
<1>6. P = Nat
  <2>. HIDE DEF P
  <2>1. P \in SUBSET Nat
    BY DEF P
  <2>. QED
    BY <1>4, <1>5, <2>1, SetInduction
<1>7. Len(stack) - j \in P /\ Len(stack) - j < Len(stack) /\ Len(stack) - (Len(stack) - j) = j
  <2>. HIDE DEF P
  <2>. QED
    BY <1>2, <1>6
<1>. QED
  BY <1>7

(* A waiting call of managed code has a record, and so has a poll.         *)
LEMMA HasRecord ==
    ASSUME LeafTypeOK, NEW fr \in AnyFrame, fr.fn \in Functions \ leaf,
           \/ fr.polling /\ PollPlace(fr)
           \/ /\ ~fr.polling /\ fr.at \in DOMAIN code[fr.fn]
              /\ code[fr.fn][fr.at].kind # "allocate"
              /\ ~CallCanRemainLeaf(code[fr.fn][fr.at])
    PROVE  ReturnAddress(fr.fn, fr.at, fr.polling) \in Safepoints
<1>1. CASE fr.polling
  <2>1. fr.polling = TRUE
    BY <1>1 DEF AnyFrame
  <2>2. fr.at \in {k \in DOMAIN code[fr.fn] : code[fr.fn][k].kind = "allocate"}
                  \cup {k \in {Len(code[fr.fn]) + 1} : fr.fn \in loops}
    BY <1>1 DEF PollPlace
  <2>3. ReturnAddress(fr.fn, fr.at, TRUE) \in PollRecords
    <3>. DEFINE Polls(f) == {k \in DOMAIN code[f] : code[f][k].kind = "allocate"}
                              \cup {k \in {Len(code[f]) + 1} : f \in loops}
    <3>1. PollRecords = UNION {{ReturnAddress(f, i, TRUE) : i \in Polls(f)} : f \in Functions \ leaf}
      BY DEF PollRecords
    <3>2. fr.at \in Polls(fr.fn)
      BY <2>2
    <3>. HIDE DEF Polls
    <3>3. ReturnAddress(fr.fn, fr.at, TRUE) \in {ReturnAddress(fr.fn, i, TRUE) : i \in Polls(fr.fn)}
      BY <3>2
    <3>4. {ReturnAddress(fr.fn, i, TRUE) : i \in Polls(fr.fn)}
            \in {{ReturnAddress(f, i, TRUE) : i \in Polls(f)} : f \in Functions \ leaf}
      OBVIOUS
    <3>. QED
      BY <3>1, <3>3, <3>4
  <2>. QED
    BY <2>1, <2>3 DEF Safepoints
<1>2. CASE ~fr.polling
  <2>1. fr.polling = FALSE
    BY <1>2 DEF AnyFrame
  <2>2. ReturnAddress(fr.fn, fr.at, FALSE) \in CallRecords
    <3>. DEFINE Recorded(f) == {k \in DOMAIN code[f] : /\ code[f][k].kind # "allocate"
                                                     /\ ~CallCanRemainLeaf(code[f][k])}
    <3>1. CallRecords = UNION {{ReturnAddress(f, i, FALSE) : i \in Recorded(f)} : f \in Functions \ leaf}
      BY DEF CallRecords
    <3>2. fr.at \in Recorded(fr.fn)
      BY <1>2
    <3>. HIDE DEF Recorded
    <3>3. ReturnAddress(fr.fn, fr.at, FALSE) \in {ReturnAddress(fr.fn, i, FALSE) : i \in Recorded(fr.fn)}
      BY <3>2
    <3>4. {ReturnAddress(fr.fn, i, FALSE) : i \in Recorded(fr.fn)}
            \in {{ReturnAddress(f, i, FALSE) : i \in Recorded(f)} : f \in Functions \ leaf}
      OBVIOUS
    <3>. QED
      BY <3>1, <3>3, <3>4
  <2>. QED
    BY <2>1, <2>2 DEF Safepoints
<1>. QED
  BY <1>1, <1>2

(* So at a safepoint the scan finds the record of each managed frame on    *)
(* the stack, and with its return address no other.                        *)
LEMMA FrameRecord ==
    ASSUME RootInv, stack # <<>>, SafepointFrame(Top), NEW j \in 1 .. Len(stack),
           stack[j].fn # Native
    PROVE  /\ FindSafepointRecord(FrameAddress(j)) = {FrameAddress(j)}
           /\ FindExactOrNearest(FrameAddress(j)) = {FrameAddress(j)}
<1>1. /\ Len(stack) \in Nat \ {0} /\ StackOK(stack) /\ Executing(Top)
      /\ Top = stack[Len(stack)] /\ LeafTypeOK /\ stack[j] \in AnyFrame
  BY TopFacts
<1>2. stack[j].fn \in Functions \ leaf
  BY <1>1, NoLeafBelow DEF AnyFrame
<1>3. ReturnAddress(stack[j].fn, stack[j].at, stack[j].polling) \in Safepoints
  <2>1. CASE j = Len(stack)
    BY <1>1, <1>2, <2>1, HasRecord, NativeIsNone
       DEF SafepointFrame, Executing, CallCanRemainLeaf
  <2>2. CASE j # Len(stack)
    <3>1. j \in 1 .. Len(stack) - 1 /\ j + 1 \in 1 .. Len(stack)
      BY <1>1, <2>2
    <3>2. Waiting(stack[j], stack[j + 1].fn) /\ stack[j + 1].fn \notin leaf
      BY <1>1, <3>1, NoLeafBelow DEF StackOK
    <3>3. /\ ~stack[j].polling /\ stack[j].at \in DOMAIN code[stack[j].fn]
          /\ code[stack[j].fn][stack[j].at].kind # "allocate"
          /\ ~CallCanRemainLeaf(code[stack[j].fn][stack[j].at])
      BY <3>2 DEF Waiting, CallsOut, CallCanRemainLeaf
    <3>. QED
      BY <1>1, <1>2, <3>3, HasRecord
  <2>. QED
    BY <2>1, <2>2
<1>4. FrameAddress(j) \in Safepoints
  BY <1>3 DEF FrameAddress
<1>. QED
  BY <1>4 DEF FindSafepointRecord, FindExactOrNearest

(* Native code has no record, and is too far from those of managed code.   *)
LEMMA NativeHasNone ==
    ASSUME LeafTypeOK
    PROVE  FindSafepointRecord(NativeAddress) = {} /\ FindExactOrNearest(NativeAddress) = {}
<1>1. ASSUME NEW r \in Safepoints
      PROVE  r \in Nat /\ r + MaxReturnAddressDistance < NativeAddress
  <2>1. PICK f \in Functions, i \in 1 .. MaxCalls + 1, b \in BOOLEAN : r = ReturnAddress(f, i, b)
    <3>1. CASE r \in CallRecords
      <4>1. PICK f \in Functions \ leaf : \E i \in DOMAIN code[f] : r = ReturnAddress(f, i, FALSE)
        BY <3>1 DEF CallRecords
      <4>2. PICK i \in DOMAIN code[f] : r = ReturnAddress(f, i, FALSE)
        BY <4>1
      <4>3. i \in 1 .. MaxCalls + 1
        BY <4>2, CodeFacts, FunctionCountAssumption
      <4>. QED
        BY <4>2, <4>3
    <3>2. CASE r \in PollRecords
      <4>1. PICK f \in Functions \ leaf :
              \E i \in DOMAIN code[f] \cup {Len(code[f]) + 1} : r = ReturnAddress(f, i, TRUE)
        BY <3>2 DEF PollRecords
      <4>2. PICK i \in DOMAIN code[f] \cup {Len(code[f]) + 1} : r = ReturnAddress(f, i, TRUE)
        BY <4>1
      <4>3. i \in 1 .. MaxCalls + 1
        BY <4>2, CodeFacts, FunctionCountAssumption
      <4>. QED
        BY <4>2, <4>3
    <3>. QED
      BY <3>1, <3>2 DEF Safepoints
  <2>2. PICK B \in Nat : B = FunctionBytes /\ B = 2 * MaxCalls + 4
    BY FunctionCountAssumption DEF FunctionBytes
  <2>3. r = f * B + 2 * i + (IF b THEN 1 ELSE 0)
    BY <2>1, <2>2, NativeIsNone DEF ReturnAddress
  <2>4. f \in Nat /\ f <= FunctionCount /\ i \in Nat /\ i <= MaxCalls + 1
    BY <2>1, FunctionCountAssumption DEF Functions
  <2>5. f * B <= FunctionCount * B /\ f * B \in Nat /\ FunctionCount * B \in Nat
    <3>1. PICK d \in Nat : FunctionCount = f + d
      <4>1. FunctionCount - f \in Nat /\ FunctionCount = f + (FunctionCount - f)
        BY <2>4, FunctionCountAssumption
      <4>. QED
        BY <4>1
    <3>2. FunctionCount * B = f * B + d * B
      BY <2>2, <2>4, <3>1
    <3>3. d * B \in Nat /\ f * B \in Nat
      BY <2>2, <2>4, <3>1
    <3>. QED
      BY <3>2, <3>3
  <2>6. NativeAddress = FunctionCount * B + B + MaxReturnAddressDistance + 1
    <3>1. (FunctionCount + 1) * B = FunctionCount * B + B
      BY <2>2, FunctionCountAssumption
    <3>. QED
      BY <2>2, <3>1 DEF NativeAddress
  <2>. PICK X \in Nat : X = f * B
    BY <2>5
  <2>. PICK Y \in Nat : Y = FunctionCount * B
    BY <2>5
  <2>7. r \in Nat /\ r <= X + 2 * MaxCalls + 3
    BY <2>3, <2>4, FunctionCountAssumption
  <2>8. X <= Y /\ NativeAddress = Y + B + MaxReturnAddressDistance + 1
    BY <2>5, <2>6
  <2>. QED
    BY <2>2, <2>7, <2>8, FunctionCountAssumption, LimitsAssumption
<1>2. NativeAddress \in Nat
  <2>1. FunctionBytes \in Nat
    BY FunctionCountAssumption DEF FunctionBytes
  <2>2. (FunctionCount + 1) * FunctionBytes \in Nat
    BY <2>1, FunctionCountAssumption
  <2>. QED
    BY <2>2, LimitsAssumption DEF NativeAddress
<1>3. \A r \in Safepoints : ~(r = NativeAddress) /\ ~(NativeAddress - r <= MaxReturnAddressDistance)
  <2>. SUFFICES ASSUME NEW r \in Safepoints
                PROVE  ~(r = NativeAddress) /\ ~(NativeAddress - r <= MaxReturnAddressDistance)
    OBVIOUS
  <2>1. r \in Nat /\ r + MaxReturnAddressDistance < NativeAddress
    BY <1>1
  <2>. QED
    BY <1>2, <2>1, LimitsAssumption
<1>. QED
  BY <1>3 DEF FindSafepointRecord, FindExactOrNearest, FindNearestRecord

-----------------------------------------------------------------------------
(* A scan begins at the newest managed frame.                              *)
LEMMA BeginScanOK ==
    ASSUME RootInv, mode = "run", stack # <<>>, SafepointFrame(Top),
           NEW n, IsNewest(n), BeginScan(n, FrameAddress(n))
    PROVE  RootInv'
<1>1. /\ mode' = "scan" /\ frame' = n /\ walked' = 0
      /\ found' = {<<n, FrameAddress(n)>>} /\ stack' = stack
      /\ UNCHANGED <<program, inference>>
  BY DEF BeginScan
<1>2. LeafInv' /\ StackOK(stack)' /\ phase' = phase
  <2>1. StackOK(stack')
    BY <1>1 DEF RootInv
  <2>. QED
    BY <1>1, <2>1, SameProgram
<1>3. n \in Nat \ {0} /\ n \in 1 .. Len(stack) /\ stack[n].fn # Native
  BY TopFacts DEF IsNewest
<1>4. IsNewest(n)' /\ SafepointFrame(Top)'
  BY <1>1 DEF IsNewest, SafepointFrame, Top, program
<1>5. \A k : FrameAddress(k)' = FrameAddress(k)
  BY <1>1 DEF FrameAddress
<1>6. ScannedTo(n)'
  <2>1. n .. n = {n} /\ n \in 1 .. n /\ n - n = 0
    BY <1>3
  <2>2. found' = {<<k, FrameAddress(k)'>> : k \in n .. n}
    BY <1>1, <1>5, <2>1
  <2>. QED
    BY <1>1, <1>3, <2>1, <2>2, LimitsAssumption DEF ScannedTo
<1>7. ScanInv'
  BY <1>1, <1>3, <1>4, <1>6 DEF ScanInv
<1>. QED
  BY <1>1, <1>2, <1>7 DEF RootInv

(* At a poll the scan has the record's id.                                 *)
LEMMA RootScanByID ==
    ASSUME RootInv, ScanByID
    PROVE  RootInv'
<1>1. /\ mode = "run" /\ stack # <<>> /\ Top.polling
      /\ BeginScan(Len(stack), FrameAddress(Len(stack)))
  BY DEF ScanByID
<1>2. SafepointFrame(Top) /\ IsNewest(Len(stack))
  BY <1>1, TopFacts, NativeIsNone DEF SafepointFrame, IsNewest, Executing
<1>. QED
  BY <1>1, <1>2, BeginScanOK

(* Elsewhere it probes: a request in managed code is found at once, one in *)
(* native code in the frame below, so the search never fails.              *)
LEMMA RootScanByReturnAddress ==
    ASSUME RootInv, ScanByReturnAddress
    PROVE  RootInv'
<1>. DEFINE hits == {j \in 0 .. Len(stack) :
                       Len(stack) - j < MaxStartFrameProbeDepth /\ ProbeMatches(j) # {}}
<1>1. /\ mode = "run" /\ stack # <<>>
      /\ IF hits = {}
         THEN mode' = "fatal" /\ UNCHANGED <<program, inference, stack, scan>>
         ELSE \E j \in hits : /\ \A k \in hits : k <= j
                              /\ \E r \in ProbeMatches(j) : BeginScan(j, r)
  BY DEF ScanByReturnAddress, AtCall, InManaged, Running
<1>2. /\ Len(stack) \in Nat \ {0} /\ Top = stack[Len(stack)] /\ LeafTypeOK
      /\ Top.fn = Native => Len(stack) > 1
      /\ StackOK(stack)
  BY <1>1, TopFacts
<1>3. \E n \in hits : /\ SafepointFrame(Top) /\ IsNewest(n)
                      /\ ProbeMatches(n) = {FrameAddress(n)}
                      /\ \A k \in hits : k <= n
  <2>1. CASE AtCall("request")
    <3>1. SafepointFrame(Top) /\ IsNewest(Len(stack)) /\ stack[Len(stack)].fn # Native
      BY <1>2, <2>1, ManagedTop, NativeIsNone DEF SafepointFrame, AtCall, IsNewest
    <3>2. ProbeMatches(Len(stack)) = {FrameAddress(Len(stack))}
      BY <1>1, <1>2, <3>1, FrameRecord DEF ProbeMatches
    <3>3. Len(stack) \in hits /\ \A k \in hits : k <= Len(stack)
      BY <1>2, <3>2, LimitsAssumption
    <3>. QED
      BY <3>1, <3>2, <3>3
  <2>2. CASE Running(Native) /\ Top.at = 1
    <3>0. PICK n \in Nat : n = Len(stack) - 1
      BY <1>2
    <3>1. /\ Top.fn = Native /\ SafepointFrame(Top) /\ n \in 1 .. Len(stack) - 1
          /\ n + 1 = Len(stack) /\ n \in 0 .. Len(stack) /\ n # Len(stack)
      BY <1>2, <2>2, <3>0 DEF Running, SafepointFrame
    <3>2. stack[n].fn # Native
      <4>1. Waiting(stack[n], Native)
        BY <1>2, <3>1 DEF StackOK
      <4>. QED
        BY <4>1, NativeIsNone DEF Waiting, CallsOut
    <3>3. IsNewest(n)
      <4>1. \A k \in n + 1 .. Len(stack) : k = Len(stack)
        BY <1>2, <3>1
      <4>. QED
        BY <1>2, <3>1, <3>2, <4>1 DEF IsNewest
    <3>4. ProbeMatches(n) = {FrameAddress(n)}
      BY <1>1, <3>1, <3>2, FrameRecord DEF ProbeMatches
    <3>5. ProbeMatches(Len(stack)) = {}
      BY <1>2, <3>1, NativeHasNone DEF ProbeMatches, FrameAddress, ReturnAddress
    <3>6. n \in hits /\ \A k \in hits : k <= n
      <4>1. Len(stack) - n < MaxStartFrameProbeDepth
        BY <1>2, <3>0, LimitsAssumption
      <4>2. ASSUME NEW k \in hits PROVE k <= n
        BY <1>2, <3>1, <3>5, <4>2
      <4>. QED
        BY <3>1, <3>4, <4>1, <4>2
    <3>. QED
      BY <3>1, <3>3, <3>4, <3>6
  <2>. QED
    BY <2>1, <2>2 DEF ScanByReturnAddress
<1>4. PICK n \in hits : /\ SafepointFrame(Top) /\ IsNewest(n)
                        /\ ProbeMatches(n) = {FrameAddress(n)}
                        /\ \A k \in hits : k <= n
  BY <1>3
<1>5. hits # {} /\ \A k \in hits : k \in Nat
  BY <1>2, <1>4
<1>. HIDE DEF hits
<1>6. BeginScan(n, FrameAddress(n))
  <2>1. PICK j \in hits : /\ \A k \in hits : k <= j
                          /\ \E r \in ProbeMatches(j) : BeginScan(j, r)
    BY <1>1, <1>5
  <2>2. j = n
    BY <1>4, <1>5, <2>1
  <2>. QED
    BY <1>4, <2>1, <2>2
<1>. QED
  BY <1>1, <1>4, <1>6, BeginScanOK

(* The walk scans the next caller with its own record, unless there is no  *)
(* caller, or native code, or it has walked far enough.                    *)
LEMMA RootScanCaller ==
    ASSUME RootInv, ScanCaller
    PROVE  RootInv'
<1>1. mode = "scan" /\ stack' = stack /\ UNCHANGED <<program, inference>>
  BY DEF ScanCaller
<1>2. stack # <<>> /\ SafepointFrame(Top)
  BY <1>1 DEF RootInv, ScanInv
<1>3. PICK n \in 1 .. Len(stack) : IsNewest(n) /\ ScannedTo(n)
  BY <1>1 DEF RootInv, ScanInv
<1>4. LeafInv' /\ StackOK(stack)' /\ phase' = phase
  <2>1. StackOK(stack')
    BY <1>1 DEF RootInv
  <2>. QED
    BY <1>1, <2>1, SameProgram
<1>5. IsNewest(n)' /\ SafepointFrame(Top)' /\ \A k : FrameAddress(k)' = FrameAddress(k)
  BY <1>1, <1>2, <1>3 DEF IsNewest, SafepointFrame, Top, program, FrameAddress
<1>6. /\ frame \in 1 .. n /\ walked = n - frame /\ walked <= MaxManagedFrameDepth
      /\ \A k \in frame .. n : stack[k].fn # Native
      /\ found = {<<k, FrameAddress(k)>> : k \in frame .. n}
      /\ n \in Nat /\ Len(stack) \in Nat /\ n <= Len(stack) /\ frame \in Nat
  BY <1>2, <1>3, TopFacts DEF ScannedTo
<1>7. PICK j : j = frame - 1
  OBVIOUS
<1>8. PICK matches : matches = FindExactOrNearest(FrameAddress(j))
  OBVIOUS
<1>9. IF walked = MaxManagedFrameDepth \/ matches = {}
      THEN mode' = "scanned" /\ UNCHANGED scan
      ELSE /\ \E r \in matches : found' = found \cup {<<j, r>>}
           /\ frame' = j /\ walked' = walked + 1 /\ mode' = mode
  <2>1. frame # 0
    BY <1>6
  <2>. QED
    BY <1>7, <1>8, <2>1 DEF ScanCaller
<1>10. matches # {} => /\ frame # 1 /\ j \in 1 .. Len(stack) /\ stack[j].fn # Native
                       /\ matches = {FrameAddress(j)}
  <2>1. frame = 1 \/ (j \in 1 .. Len(stack) /\ stack[j].fn = Native)
          => FrameAddress(j) = NativeAddress
    BY <1>6, <1>7 DEF FrameAddress, ReturnAddress
  <2>2. FindExactOrNearest(NativeAddress) = {}
    BY <1>2, TopFacts, NativeHasNone
  <2>3. frame = 1 \/ j \in 1 .. Len(stack)
    BY <1>6, <1>7
  <2>4. j \in 1 .. Len(stack) /\ stack[j].fn # Native => matches = {FrameAddress(j)}
    BY <1>2, <1>8, FrameRecord
  <2>. QED
    BY <1>6, <1>7, <1>8, <2>1, <2>2, <2>3, <2>4
<1>11. CASE walked = MaxManagedFrameDepth \/ matches = {}
  <2>1. mode' = "scanned" /\ frame' = frame /\ walked' = walked /\ found' = found
    BY <1>9, <1>11 DEF scan
  <2>2. matches = {} => frame = 1 \/ stack[frame - 1].fn = Native
    <3>1. ASSUME frame # 1, stack[frame - 1].fn # Native PROVE matches # {}
      <4>1. j \in 1 .. Len(stack) /\ stack[j].fn # Native
        BY <1>6, <1>7, <3>1
      <4>. QED
        BY <1>2, <1>8, <4>1, FrameRecord
    <3>. QED
      BY <3>1
  <2>3. ScannedTo(n)'
    BY <1>1, <1>5, <1>6, <1>11, <2>1, <2>2 DEF ScannedTo
  <2>4. ScanInv'
    BY <1>1, <1>3, <1>5, <2>3 DEF ScanInv
  <2>. QED
    BY <1>1, <1>2, <1>4, <2>1, <2>4 DEF RootInv
<1>12. CASE ~(walked = MaxManagedFrameDepth \/ matches = {})
  <2>1. /\ found' = found \cup {<<j, FrameAddress(j)>>}
        /\ frame' = j /\ walked' = walked + 1 /\ mode' = "scan"
    BY <1>1, <1>9, <1>10, <1>12
  <2>2. /\ j \in 1 .. n /\ n - j = walked + 1 /\ walked + 1 <= MaxManagedFrameDepth
        /\ j .. n = (frame .. n) \cup {j}
    BY <1>6, <1>7, <1>10, <1>12, LimitsAssumption
  <2>3. found' = {<<k, FrameAddress(k)'>> : k \in j .. n}
    BY <1>5, <1>6, <2>1, <2>2
  <2>4. \A k \in j .. n : stack'[k].fn # Native
    BY <1>1, <1>6, <1>10, <1>12, <2>2
  <2>5. ScannedTo(n)'
    BY <2>1, <2>2, <2>3, <2>4 DEF ScannedTo
  <2>6. ScanInv'
    BY <1>1, <1>3, <1>5, <2>5 DEF ScanInv
  <2>. QED
    BY <1>1, <1>2, <1>4, <2>1, <2>6 DEF RootInv
<1>. QED
  BY <1>11, <1>12

(* The mutator goes on from its safepoint.                                 *)
LEMMA RootResume ==
    ASSUME RootInv, Resume
    PROVE  RootInv'
<1>1. /\ mode = "scanned" /\ mode' = "run" /\ UNCHANGED <<program, inference>>
      /\ stack' = IF Top.polling /\ AtEnd
                  THEN [stack EXCEPT ![Len(stack)] = NewFrame(Top.fn)]
                  ELSE Advanced(stack)
  BY DEF Resume
<1>2. stack # <<>> /\ SafepointFrame(Top)
  BY <1>1 DEF RootInv, ScanInv
<1>3. /\ Executing(Top) /\ LeafTypeOK /\ StackOK(stack) /\ Top = stack[Len(stack)]
  BY <1>2, TopFacts
<1>4. Top.polling => /\ Top.fn \in Functions /\ Top.at \in 1 .. Len(code[Top.fn]) + 1
                     /\ Len(code[Top.fn]) \in Nat
                     /\ DOMAIN code[Top.fn] = 1 .. Len(code[Top.fn])
  BY <1>3, CodeFacts DEF Executing
<1>5. StackOK(stack') /\ stack' # <<>>
  <2>1. CASE Top.polling /\ AtEnd
    <3>1. /\ NewFrame(Top.fn) \in AnyFrame /\ NewFrame(Top.fn).fn = Top.fn
          /\ Executing(NewFrame(Top.fn))
      BY <1>4, <2>1 DEF NewFrame, AnyFrame, Executing
    <3>2. stack' = ReplaceTop(stack, NewFrame(Top.fn))
      BY <1>1, <2>1 DEF ReplaceTop
    <3>. QED
      BY <1>2, <1>3, <3>1, <3>2, ReplaceTopOK
  <2>2. CASE ~(Top.polling /\ AtEnd)
    <3>1. \/ Top.fn \in Functions /\ Top.at \in DOMAIN code[Top.fn]
          \/ Top.fn = Native /\ Top.at = 1
      BY <1>2, <1>4, <2>2 DEF SafepointFrame, AtEnd
    <3>2. stack' = Advanced(stack)
      BY <1>1, <2>2
    <3>. QED
      BY <1>2, <1>3, <3>1, <3>2, AdvancedOK
  <2>. QED
    BY <2>1, <2>2
<1>6. LeafInv' /\ StackOK(stack)' /\ phase' = phase
  BY <1>1, <1>5, SameProgram
<1>. QED
  BY <1>1, <1>5, <1>6 DEF RootInv, ScanInv

(* While the inference runs there is no stack yet.                         *)
LEMMA RootInfer ==
    ASSUME RootInv, Infer, UNCHANGED <<stack, mode, scan>>
    PROVE  RootInv'
<1>1. phase = "infer"
  BY DEF Infer, VisitFunction, NextRound, EndInference
<1>2. mode = "idle" /\ stack = <<>>
  BY <1>1 DEF RootInv
<1>3. LeafInv'
  BY InferNext DEF RootInv
<1>4. StackOK(stack)'
  BY <1>2 DEF StackOK
<1>. QED
  BY <1>2, <1>3, <1>4 DEF RootInv, ScanInv

(* Nothing changes.                                                        *)
LEMMA RootStutter ==
    ASSUME RootInv, UNCHANGED vars
    PROVE  RootInv'
<1>1. UNCHANGED <<program, inference, stack, mode, frame, walked, found>>
  BY DEF vars, scan
<1>2. LeafInv' /\ StackOK(stack)' /\ phase' = phase
  <2>1. StackOK(stack')
    BY <1>1 DEF RootInv
  <2>. QED
    BY <1>1, <2>1, SameProgram
<1>3. ScanInv'
  BY <1>1 DEF RootInv, ScanInv, SafepointFrame, Top, IsNewest, ScannedTo, FrameAddress, program
<1>. QED
  BY <1>1, <1>2, <1>3 DEF RootInv

(* Every step preserves the invariant.                                     *)
LEMMA RootNext == RootInv /\ [Next]_vars => RootInv'
<1>. SUFFICES ASSUME RootInv, [Next]_vars PROVE RootInv'
  OBVIOUS
<1>1. ASSUME Infer, UNCHANGED <<stack, mode, scan>> PROVE RootInv'
  BY <1>1, RootInfer
<1>2. CASE \E f \in Functions : VisitFunction(f) /\ UNCHANGED <<stack, mode, scan>>
  BY <1>1, <1>2 DEF Infer
<1>3. CASE (NextRound \/ EndInference) /\ UNCHANGED <<stack, mode, scan>>
  BY <1>1, <1>3 DEF Infer
<1>4. CASE \E f \in Functions : Invoke(f) \/ NativeCallBack(f)
  BY <1>4, RootInvoke, RootPush
<1>5. CASE Execute
  BY <1>5, RootPush, RootTop, RootReturn, RootScanByID, RootScanByReturnAddress,
     RootScanCaller, RootResume DEF Execute
<1>6. CASE Terminated \/ UNCHANGED vars
  BY <1>6, RootStutter DEF Terminated
<1>. QED
  BY <1>2, <1>3, <1>4, <1>5, <1>6 DEF Next

(* The stack and the scan of it are well formed in every program.          *)
THEOREM RootInvariant == Spec => []RootInv
<1>1. InitScan => RootInv
  <2>. SUFFICES ASSUME InitScan PROVE RootInv
    OBVIOUS
  <2>1. LeafInv
    BY InferInit DEF InitScan
  <2>2. StackOK(stack)
    BY DEF InitScan, StackOK
  <2>. QED
    BY <2>1, <2>2 DEF InitScan, RootInv, ScanInv
<1>2. RootInv /\ [Next]_vars => RootInv'
  BY RootNext
<1>. QED
  BY <1>1, <1>2, PTL DEF Spec

-----------------------------------------------------------------------------
(* The inference takes for leaves exactly the functions that end without a *)
(* safepoint, however many functions there are.                            *)
THEOREM InferenceIsExact == Spec => []InferenceExact
<1>1. RootInv => InferenceExact
  BY LeafInvExact DEF RootInv
<1>. QED
  BY <1>1, RootInvariant, PTL

(* A request at a safepoint always finds a record, provided the scan       *)
(* probes the caller of native code as well.                               *)
THEOREM RecordAlwaysFound == Spec => []RecordFound
<1>1. RootInv => RecordFound
  BY DEF RootInv, RecordFound
<1>. QED
  BY <1>1, RootInvariant, PTL

(* A scan applies to each frame its own record, and misses no managed      *)
(* frame between the safepoint and the first native one, within its limit. *)
THEOREM ScanIsPrecise == Spec => []ScanPrecise
<1>1. RootInv => ScanPrecise
  <2>. SUFFICES ASSUME RootInv, mode = "scanned"
                PROVE  /\ \A x \in found : /\ x[1] > 0 /\ stack[x[1]].fn # Native
                                           /\ x[2] = FrameAddress(x[1])
                       /\ \A j \in 1 .. Newest :
                             /\ Newest - j <= MaxManagedFrameDepth
                             /\ \A k \in j .. Newest : stack[k].fn # Native
                             => j \in {x[1] : x \in found}
    BY DEF ScanPrecise
  <2>1. PICK n \in 1 .. Len(stack) : IsNewest(n) /\ ScannedTo(n)
    BY DEF RootInv, ScanInv
  <2>2. Len(stack) \in Nat
    BY TopFacts DEF RootInv
  <2>3. Newest = n
    <3>1. ASSUME NEW m, IsNewest(m) PROVE m = n
      BY <2>1, <2>2, <3>1 DEF IsNewest
    <3>2. Newest = CHOOSE m \in 1 .. Len(stack) : /\ stack[m].fn # Native
                        /\ \A k \in m + 1 .. Len(stack) : stack[k].fn = Native
      BY DEF Newest
    <3>3. IsNewest(Newest)
      BY <2>1, <3>2 DEF IsNewest
    <3>. QED
      BY <3>1, <3>3
  <2>4. /\ frame \in 1 .. n /\ walked = n - frame
        /\ \A k \in frame .. n : stack[k].fn # Native
        /\ found = {<<k, FrameAddress(k)>> : k \in frame .. n}
        /\ walked = MaxManagedFrameDepth \/ frame = 1 \/ stack[frame - 1].fn = Native
        /\ frame \in Nat /\ n \in Nat
    BY <2>1, <2>2 DEF ScannedTo
  <2>5. ASSUME NEW x \in found
        PROVE  x[1] > 0 /\ stack[x[1]].fn # Native /\ x[2] = FrameAddress(x[1])
    BY <2>4
  <2>6. ASSUME NEW j \in 1 .. n, n - j <= MaxManagedFrameDepth,
               \A k \in j .. n : stack[k].fn # Native
        PROVE  j \in {x[1] : x \in found}
    <3>1. j >= frame
      <4>. SUFFICES ASSUME j < frame PROVE FALSE
        BY <2>4
      <4>1. frame - 1 \in j .. n /\ frame # 1 /\ walked # MaxManagedFrameDepth
        BY <2>4, <2>6, LimitsAssumption
      <4>. QED
        BY <2>4, <2>6, <4>1
    <3>2. <<j, FrameAddress(j)>> \in found
      BY <2>4, <3>1
    <3>. QED
      BY <3>2
  <2>. QED
    BY <2>3, <2>5, <2>6
<1>. QED
  BY <1>1, RootInvariant, PTL
===============================================================================
