------------------------------ MODULE RootScan ------------------------------
(***************************************************************************)
(* Managed code with the statepoints and polls gc.cc gives it, and the     *)
(* scan of its stack at a safepoint: the safepoint's own record is found   *)
(* by the poll's id or by return address, those of its callers by the      *)
(* return addresses along the frame pointers.                              *)
(*                                                                         *)
(* A frame stands for the roots in it: scanning it with the record of its  *)
(* suspended call yields its roots, with another record any words at all.  *)
(* Native code is compiled with frame pointers, may request a collection   *)
(* and may call back into managed code, once for each call.                *)
(***************************************************************************)
EXTENDS LeafInference

CONSTANTS MaxFrames,                    \* bound: the stack overflows there
          MaxManagedFrameDepth,         \* kMaxManagedFrameDepth
          MaxStartFrameProbeDepth,      \* kMaxStartFrameProbeDepth
          MaxReturnAddressDistance      \* kMaxReturnAddressDistance

ASSUME LimitsAssumption ==
    /\ MaxFrames \in Nat /\ MaxManagedFrameDepth \in Nat
    /\ MaxStartFrameProbeDepth \in Nat \ {0, 1}
    /\ MaxReturnAddressDistance \in Nat

VARIABLES
    stack,      \* the frames, the oldest first
    mode,       \* "idle", "run", "scan", "scanned", "ended" or "fatal"
    frame,      \* the frame scanned last
    walked,     \* the callers scanned
    found       \* the frames scanned, each with the record it was scanned with

scan == <<frame, walked, found>>
vars == <<program, inference, stack, mode, scan>>

(* at is the call a frame has reached, past the last one its end; polling  *)
(* that it is in the poll after that call, or in its loop's latch.         *)
Frames == [fn : Functions \cup {Native}, at : 1 .. MaxCalls + 1, polling : BOOLEAN]

NewFrame(f) == [fn |-> f, at |-> 1, polling |-> FALSE]
Top == stack[Len(stack)]
AtEnd == Top.at > Len(code[Top.fn])
Running(f) == mode = "run" /\ stack # <<>> /\ Top.fn = f
InManaged == mode = "run" /\ stack # <<>> /\ Top.fn # Native /\ ~Top.polling
AtCall(kind) == InManaged /\ ~AtEnd /\ code[Top.fn][Top.at].kind = kind

InitScan == Init /\ stack = <<>> /\ mode = "idle" /\ frame = 0 /\ walked = 0 /\ found = {}

-----------------------------------------------------------------------------
(* Return addresses: functions lie one after the other, in the order of    *)
(* the module, and native code is far from all of them.                    *)
FunctionBytes == 2 * MaxCalls + 4
NativeAddress == (FunctionCount + 1) * FunctionBytes + MaxReturnAddressDistance + 1

ReturnAddress(f, at, polling) ==
    IF f = Native THEN NativeAddress
    ELSE f * FunctionBytes + 2 * at + (IF polling THEN 1 ELSE 0)

(* The return address a frame waits for, and that into JitExecutor::invoke *)
(* below the oldest one.                                                   *)
FrameAddress(j) ==
    IF j = 0 THEN NativeAddress
    ELSE ReturnAddress(stack[j].fn, stack[j].at, stack[j].polling)

(* RewriteStatepointsForGC gives a record to every call in a function with *)
(* a GC strategy that is not the call of a leaf function.                  *)
CallRecords ==
    UNION {{ReturnAddress(f, i, FALSE) :
              i \in {k \in DOMAIN code[f] : /\ code[f][k].kind # "allocate"
                                           /\ ~CallCanRemainLeaf(code[f][k])}} :
           f \in Functions \ leaf}

(* insertManagedSafepointPolls: after each allocation and in each latch.   *)
PollRecords ==
    UNION {{ReturnAddress(f, i, TRUE) :
              i \in {k \in DOMAIN code[f] : code[f][k].kind = "allocate"}
                    \cup {k \in {Len(code[f]) + 1} : f \in loops}} :
           f \in Functions \ leaf}

Safepoints == CallRecords \cup PollRecords

(* findSafepointRecord and findSafepointRecordForReturnAddress: the record *)
(* of a return address, as the set of at most one.                         *)
FindSafepointRecord(address) == {r \in Safepoints : r = address}

FindNearestRecord(address) ==
    {r \in Safepoints :
        /\ r <= address /\ address - r <= MaxReturnAddressDistance
        /\ \A s \in Safepoints : s <= address => s <= r}

FindExactOrNearest(address) ==
    IF FindSafepointRecord(address) # {} THEN FindSafepointRecord(address)
    ELSE FindNearestRecord(address)

-----------------------------------------------------------------------------
(* The managed program.                                                    *)
Step(newStack) ==
    /\ stack' = newStack
    /\ UNCHANGED <<program, inference, mode, scan>>

Push(f) == Append(stack, NewFrame(f))
Advanced(s) ==
    [s EXCEPT ![Len(s)] = [fn |-> s[Len(s)].fn, at |-> s[Len(s)].at + 1, polling |-> FALSE]]
Popped == SubSeq(stack, 1, Len(stack) - 1)

Invoke(f) ==
    /\ phase = "run" /\ mode = "idle"
    /\ mode' = "run" /\ stack' = Push(f)
    /\ UNCHANGED <<program, inference, scan>>

CallFunction ==
    /\ AtCall("call") /\ Len(stack) < MaxFrames
    /\ Step(Push(code[Top.fn][Top.at].target))

CallNative ==
    /\ AtCall("native") /\ Len(stack) < MaxFrames
    /\ Step(Push(Native))

(* The guard page ends the process.                                        *)
StackOverflow ==
    /\ AtCall("call") \/ AtCall("native")
    /\ Len(stack) = MaxFrames
    /\ mode' = "ended"
    /\ UNCHANGED <<program, inference, stack, scan>>

(* An allocation and a loop's latch, up to the poll that follows them in a *)
(* function that is not a leaf.                                            *)
PollOr(next) ==
    IF Top.fn \in leaf THEN next
    ELSE [stack EXCEPT ![Len(stack)] = [fn |-> Top.fn, at |-> Top.at, polling |-> TRUE]]

Allocate ==
    /\ AtCall("allocate")
    /\ Step(PollOr(Advanced(stack)))

Latch ==
    /\ InManaged /\ AtEnd /\ Top.fn \in loops
    /\ Step(PollOr([stack EXCEPT ![Len(stack)].at = 1]))

(* A poll that finds no request.                                           *)
PassPoll ==
    /\ mode = "run" /\ stack # <<>> /\ Top.polling
    /\ Step(IF AtEnd THEN [stack EXCEPT ![Len(stack)] = NewFrame(Top.fn)]
            ELSE Advanced(stack))

Return ==
    /\ InManaged /\ AtEnd
    /\ IF Len(stack) > 1
       THEN stack' = Advanced(Popped) /\ UNCHANGED mode
       ELSE stack' = <<>> /\ mode' = "ended"
    /\ UNCHANGED <<program, inference, scan>>

NativeCallBack(f) ==
    /\ Running(Native) /\ Top.at = 1 /\ Len(stack) < MaxFrames
    /\ Step(Push(f))

NativeReturn ==
    /\ Running(Native)
    /\ Step(Advanced(Popped))

-----------------------------------------------------------------------------
BeginScan(j, record) ==
    /\ mode' = "scan"
    /\ frame' = j /\ walked' = 0 /\ found' = {<<j, record>>}
    /\ UNCHANGED <<program, inference, stack>>

(* scanCurrentSafepointByID: a poll's id is that of its own record.        *)
ScanByID ==
    /\ mode = "run" /\ stack # <<>> /\ Top.polling
    /\ BeginScan(Len(stack), FrameAddress(Len(stack)))

(* scanCurrentSafepoint, where the frames probed are those of native code  *)
(* between __mvm_request_gc and the managed call.                          *)
ProbeMatches(j) ==
    IF j = Len(stack) THEN FindSafepointRecord(FrameAddress(j))
    ELSE FindExactOrNearest(FrameAddress(j))

ScanByReturnAddress ==
    /\ AtCall("request") \/ (Running(Native) /\ Top.at = 1)
    /\ LET hits == {j \in 0 .. Len(stack) :
                      Len(stack) - j < MaxStartFrameProbeDepth /\ ProbeMatches(j) # {}}
       IN  IF hits = {}
           THEN mode' = "fatal" /\ UNCHANGED <<program, inference, stack, scan>>
           ELSE \E j \in hits : /\ \A k \in hits : k <= j
                                /\ \E r \in ProbeMatches(j) : BeginScan(j, r)

ScanTopFrameOnly ==
    /\ mode = "scan"
    /\ mode' = "scanned"
    /\ UNCHANGED <<program, inference, stack, scan>>

(* One iteration of the walk over the callers.                             *)
ScanCaller ==
    /\ mode = "scan"
    /\ LET j == frame - 1
           matches == IF frame = 0 THEN {} ELSE FindExactOrNearest(FrameAddress(j))
       IN  IF walked = MaxManagedFrameDepth \/ matches = {}
           THEN mode' = "scanned" /\ UNCHANGED scan
           ELSE /\ \E r \in matches : found' = found \cup {<<j, r>>}
                /\ frame' = j /\ walked' = walked + 1
                /\ UNCHANGED mode
    /\ UNCHANGED <<program, inference, stack>>

(* The mutator parks with the roots found, and goes on afterwards.         *)
Resume ==
    /\ mode = "scanned"
    /\ mode' = "run"
    /\ stack' = IF Top.polling /\ AtEnd
                THEN [stack EXCEPT ![Len(stack)] = NewFrame(Top.fn)]
                ELSE Advanced(stack)
    /\ frame' = 0 /\ walked' = 0 /\ found' = {}
    /\ UNCHANGED <<program, inference>>

Execute ==
    \/ CallFunction \/ CallNative \/ StackOverflow \/ Allocate \/ Latch
    \/ PassPoll \/ Return \/ NativeReturn
    \/ ScanByID \/ ScanByReturnAddress \/ ScanCaller \/ Resume

Terminated == mode \in {"ended", "fatal"} /\ UNCHANGED vars

Next ==
    \/ \E f \in Functions : VisitFunction(f) /\ UNCHANGED <<stack, mode, scan>>
    \/ NextRound /\ UNCHANGED <<stack, mode, scan>>
    \/ EndInference /\ UNCHANGED <<stack, mode, scan>>
    \/ \E f \in Functions : Invoke(f) \/ NativeCallBack(f)
    \/ Execute
    \/ Terminated

Spec == InitScan /\ [][Next]_vars

(* Managed code runs on.                                                   *)
FairSpec == Spec /\ WF_vars(Execute)

-----------------------------------------------------------------------------
(* A scan applies to every frame the record of its own suspended call, and *)
(* misses no managed frame between the safepoint and the first native one, *)
(* as long as there are no more of them than it walks: leaf functions have *)
(* no records, and none of them is ever in the middle of the stack. The    *)
(* frames that native code called back from, and those below the limit,    *)
(* are lost.                                                               *)
Newest == CHOOSE j \in 1 .. Len(stack) :
            /\ stack[j].fn # Native
            /\ \A k \in j + 1 .. Len(stack) : stack[k].fn = Native

ScanPrecise ==
    mode = "scanned" =>
        /\ \A x \in found : x[1] > 0 /\ stack[x[1]].fn # Native
                            /\ x[2] = FrameAddress(x[1])
        /\ \A j \in 1 .. Newest :
              /\ Newest - j <= MaxManagedFrameDepth
              /\ \A k \in j .. Newest : stack[k].fn # Native
              => j \in {x[1] : x \in found}

(* A request at a safepoint always finds a record: the scan's fatal error  *)
(* is never reported.                                                      *)
RecordFound == mode # "fatal"

(* Managed code reaches a poll, a safepoint or its end in finite time, so  *)
(* that a stopped world does not wait for it for ever.                     *)
AtSafepoint == mode # "run" \/ (stack # <<>> /\ Top.polling)

SafepointReached == []<>AtSafepoint
=============================================================================
