---------------------------- MODULE ManagedHeap ----------------------------
(***************************************************************************)
(* The storage of the managed heap in runtime_memory.cc: the list of       *)
(* active allocations, the slab pages of one slab class with their free    *)
(* lists, the list of pages with room, the system allocations, and the     *)
(* sweep that walks the active list while it reclaims.                     *)
(*                                                                         *)
(* Headers are in-place: a slot's header and its link fields outlive the   *)
(* allocation, and the page's malloc block, in the memory that the next    *)
(* page at this address finds. prev and next serve the active list while   *)
(* the header is live and next serves the page's free list afterwards.     *)
(* Every operation holds allocationRegistryMutex and is one action; a      *)
(* sweep is one action for each header it visits. Which headers are marked *)
(* is the subject of MarkSweep: here any set of them may be.               *)
(***************************************************************************)
EXTENDS Naturals, FiniteSetsExt

CONSTANTS Pages,            \* the blocks malloc can return for slab pages
          SlotsPerPage,     \* slots of a page of the slab class
          ObjectBytes,      \* its payload size
          Blocks,           \* the blocks malloc can return for the rest
          ArrayLengths,     \* the element counts arrays are created with
          Nil

SlotsOf(p) == {p} \X (1 .. SlotsPerPage)
SlabHeaders == Pages \X (1 .. SlotsPerPage)
Headers == SlabHeaders \cup Blocks
PageOf(h) == h[1]

ASSUME PagesAssumption ==
    /\ IsFiniteSet(Pages) /\ IsFiniteSet(Blocks)
    /\ SlotsPerPage \in Nat \ {0}
    /\ Blocks \cap SlabHeaders = {} /\ Nil \notin Pages \cup Headers
ASSUME SizesAssumption == ObjectBytes \in Nat \ {0} /\ ArrayLengths \subseteq Nat

VARIABLES
    activeHead, next, prev,         \* the active list
    live, marked, elementCount,     \* header fields
    mapped,                         \* slabPageStorage
    nextUnused, liveCount, freeList,
    nonFullPages, nextNonFull, prevNonFull,
    registered,                     \* systemHeadersByPage
    phase, cursor, bytesAfter,      \* the sweep of collectManagedHeap
    kept,                           \* history: what it started with marked
    trackedBytes,                   \* gcTrackedHeapBytes
    aborted                         \* runtimeAbort ended the process

active == <<activeHead, next, prev>>
slab == <<mapped, nextUnused, liveCount, freeList>>
nonFull == <<nonFullPages, nextNonFull, prevNonFull>>
sweep == <<phase, cursor, bytesAfter, kept>>
vars == <<active, live, marked, elementCount, slab, nonFull, registered,
          sweep, trackedBytes, aborted>>

Live == {h \in Headers : live[h]}

(* The payload size initializeHeader records: an array of no elements is   *)
(* given one byte (arrays here have elements of one byte).                 *)
PayloadBytes(h) ==
    IF h \in SlabHeaders THEN ObjectBytes
    ELSE IF elementCount[h] = 0 THEN 1 ELSE elementCount[h]

HeapBytes == MapThenSumSet(PayloadBytes, Live)

(* The nodes a chain of links visits, and whether it comes to its end.     *)
Chain(start, link, nodes) ==
    LET reached[n \in 0 .. Cardinality(nodes)] ==
          IF n = 0 THEN {start}
          ELSE reached[n - 1] \cup {link[x] : x \in reached[n - 1] \ {Nil}}
    IN  reached[Cardinality(nodes)]

ListOf(start, link, nodes) == Chain(start, link, nodes) \ {Nil}
Ends(start, link, nodes) == Nil \in Chain(start, link, nodes)

TypeOK ==
    /\ activeHead \in Headers \cup {Nil}
    /\ next \in [Headers -> Headers \cup {Nil}]
    /\ prev \in [Headers -> Headers \cup {Nil}]
    /\ live \in [Headers -> BOOLEAN] /\ marked \in [Headers -> BOOLEAN]
    /\ elementCount \in [Headers -> Nat]
    /\ mapped \subseteq Pages
    /\ nextUnused \in [Pages -> 0 .. SlotsPerPage]
    /\ liveCount \in [Pages -> 0 .. SlotsPerPage]
    /\ freeList \in [Pages -> SlabHeaders \cup {Nil}]
    /\ nonFullPages \in Pages \cup {Nil}
    /\ nextNonFull \in [Pages -> Pages \cup {Nil}]
    /\ prevNonFull \in [Pages -> Pages \cup {Nil}]
    /\ registered \subseteq Blocks
    /\ phase \in {"mutate", "sweep"} /\ cursor \in Headers \cup {Nil}
    /\ bytesAfter \in Nat /\ kept \subseteq Headers
    /\ trackedBytes \in Nat /\ aborted \in BOOLEAN

Init ==
    /\ activeHead = Nil
    /\ next = [h \in Headers |-> Nil] /\ prev = [h \in Headers |-> Nil]
    /\ live = [h \in Headers |-> FALSE] /\ marked = [h \in Headers |-> FALSE]
    /\ elementCount = [h \in Headers |-> 0]
    /\ mapped = {}
    /\ nextUnused = [p \in Pages |-> 0] /\ liveCount = [p \in Pages |-> 0]
    /\ freeList = [p \in Pages |-> Nil]
    /\ nonFullPages = Nil
    /\ nextNonFull = [p \in Pages |-> Nil]
    /\ prevNonFull = [p \in Pages |-> Nil]
    /\ registered = {}
    /\ phase = "mutate" /\ cursor = Nil /\ bytesAfter = 0 /\ kept = {}
    /\ trackedBytes = 0 /\ aborted = FALSE

-----------------------------------------------------------------------------
(* f with the value v at x, and f itself at Nil.                           *)
Set(f, x, v) == IF x = Nil THEN f ELSE [f EXCEPT ![x] = v]

(* linkActiveAllocation, initializeHeader.                                 *)
LinkActiveAllocation(h) ==
    /\ activeHead' = h
    /\ next' = [next EXCEPT ![h] = activeHead]
    /\ prev' = Set([prev EXCEPT ![h] = Nil], activeHead, h)

InitializeHeader(h, count) ==
    /\ live' = [live EXCEPT ![h] = TRUE]
    /\ marked' = [marked EXCEPT ![h] = FALSE]
    /\ elementCount' = [elementCount EXCEPT ![h] = count]
    /\ LinkActiveAllocation(h)

(* slabPageHasFreeSlots of a page in the state given.                      *)
HasFreeSlots(free, unused) == free # Nil \/ unused < SlotsPerPage

(* linkNonFullSlabPage and unlinkNonFullSlabPage.                          *)
LinkNonFullSlabPage(p) ==
    /\ nonFullPages' = p
    /\ nextNonFull' = [nextNonFull EXCEPT ![p] = nonFullPages]
    /\ prevNonFull' = Set([prevNonFull EXCEPT ![p] = Nil], nonFullPages, p)

IsSlabPageLinked(p) ==
    prevNonFull[p] # Nil \/ nextNonFull[p] # Nil \/ nonFullPages = p

UnlinkNonFullSlabPage(p) ==
    IF ~IsSlabPageLinked(p) THEN UNCHANGED nonFull
    ELSE /\ nonFullPages' = IF prevNonFull[p] = Nil /\ nonFullPages = p
                            THEN nextNonFull[p] ELSE nonFullPages
         /\ nextNonFull' =
              [Set(nextNonFull, prevNonFull[p], nextNonFull[p]) EXCEPT ![p] = Nil]
         /\ prevNonFull' =
              [Set(prevNonFull, nextNonFull[p], prevNonFull[p]) EXCEPT ![p] = Nil]

-----------------------------------------------------------------------------
(* allocateSlabTrackedLocked with a page that has room: the free list      *)
(* first, then the slots never used.                                       *)
TakeSlotAfterLinking(p, h) ==
    IF freeList[p] # Nil
    THEN /\ h = freeList[p]
         /\ freeList' = [freeList EXCEPT ![p] = activeHead]
         /\ UNCHANGED nextUnused
    ELSE /\ h = <<p, nextUnused[p] + 1>>
         /\ nextUnused' = [nextUnused EXCEPT ![p] = @ + 1]
         /\ UNCHANGED freeList

TakeSlot(p, h) ==
    IF freeList[p] # Nil
    THEN /\ h = freeList[p]
         /\ freeList' = [freeList EXCEPT ![p] = next[h]]
         /\ UNCHANGED nextUnused
    ELSE /\ h = <<p, nextUnused[p] + 1>>
         /\ nextUnused' = [nextUnused EXCEPT ![p] = @ + 1]
         /\ UNCHANGED freeList

AllocateInPage(h) ==
    /\ phase = "mutate" /\ ~aborted
    /\ nonFullPages # Nil
    /\ LET p == nonFullPages
       IN  /\ TakeSlot(p, h)
           /\ liveCount' = [liveCount EXCEPT ![p] = @ + 1]
           /\ IF HasFreeSlots(freeList'[p], nextUnused'[p])
              THEN UNCHANGED nonFull
              ELSE UnlinkNonFullSlabPage(p)
    /\ InitializeHeader(h, 1)
    /\ trackedBytes' = trackedBytes + ObjectBytes
    /\ UNCHANGED <<mapped, registered, sweep, aborted>>

(* The same with createSlabPage first: the new page is the list of pages   *)
(* with room until its only slot is taken.                                 *)
AllocateInNewPage(p) ==
    /\ phase = "mutate" /\ ~aborted
    /\ nonFullPages = Nil /\ p \notin mapped
    /\ mapped' = mapped \cup {p}
    /\ nextUnused' = [nextUnused EXCEPT ![p] = 1]
    /\ liveCount' = [liveCount EXCEPT ![p] = 1]
    /\ freeList' = [freeList EXCEPT ![p] = Nil]
    /\ nonFullPages' = IF SlotsPerPage > 1 THEN p ELSE Nil
    /\ nextNonFull' = [nextNonFull EXCEPT ![p] = Nil]
    /\ prevNonFull' = [prevNonFull EXCEPT ![p] = Nil]
    /\ InitializeHeader(<<p, 1>>, 1)
    /\ trackedBytes' = trackedBytes + ObjectBytes
    /\ UNCHANGED <<registered, sweep, aborted>>

(* allocateSystemTrackedLocked: arrays, and the objects no slab takes,     *)
(* which are arrays of count bytes as far as this module goes.             *)
AllocateUnregistered(b, count) ==
    /\ phase = "mutate" /\ ~aborted
    /\ b \notin registered /\ ~live[b]
    /\ InitializeHeader(b, count)
    /\ trackedBytes' = trackedBytes + count
    /\ UNCHANGED <<registered, slab, nonFull, sweep, aborted>>

AllocateSystem(b, count) ==
    /\ phase = "mutate" /\ ~aborted
    /\ b \notin registered
    /\ registered' = registered \cup {b}
    /\ InitializeHeader(b, count)
    /\ trackedBytes' = trackedBytes + count
    /\ UNCHANGED <<slab, nonFull, sweep, aborted>>

-----------------------------------------------------------------------------
(* unlinkActiveAllocation on its way to the free list: nextOfFreed is what *)
(* the freed header's next field ends up with.                             *)
UnlinkForwardOnly(h, nextOfFreed) ==
    /\ activeHead' = IF prev[h] = Nil /\ activeHead = h THEN next[h] ELSE activeHead
    /\ next' = [Set(next, prev[h], next[h]) EXCEPT ![h] = nextOfFreed]
    /\ prev' = [prev EXCEPT ![h] = Nil]

UnlinkActiveAllocation(h, nextOfFreed) ==
    /\ activeHead' = IF prev[h] = Nil /\ activeHead = h THEN next[h] ELSE activeHead
    /\ next' = [Set(next, prev[h], next[h]) EXCEPT ![h] = nextOfFreed]
    /\ prev' = [Set(prev, next[h], prev[h]) EXCEPT ![h] = Nil]

ReclaimSystem(b) ==
    /\ registered' = registered \ {b}
    /\ UnlinkActiveAllocation(b, Nil)
    /\ UNCHANGED <<slab, nonFull, aborted>>

(* The page is released with its last live slot.                           *)
ReleaseSlabPage(p) ==
    /\ mapped' = mapped \ {p}
    /\ UnlinkNonFullSlabPage(p)

ForgetRefilledPage(p) == UNCHANGED <<mapped, nonFull>>

(* A page that was full has room again.                                    *)
RelinkPage(p) ==
    /\ UNCHANGED mapped
    /\ IF HasFreeSlots(freeList[p], nextUnused[p])
       THEN UNCHANGED nonFull
       ELSE LinkNonFullSlabPage(p)

ReclaimSlot(h) ==
    LET p == PageOf(h)
    IN  /\ UnlinkActiveAllocation(h, freeList[p])
        /\ freeList' = [freeList EXCEPT ![p] = h]
        /\ aborted' = (liveCount[p] = 0)
        /\ liveCount' = [liveCount EXCEPT ![p] = IF @ = 0 THEN 0 ELSE @ - 1]
        /\ IF liveCount[p] = 1 THEN ReleaseSlabPage(p) ELSE RelinkPage(p)
        /\ UNCHANGED <<nextUnused, registered>>

ReclaimAllocation(h) ==
    /\ live' = [live EXCEPT ![h] = FALSE]
    /\ IF h \in Blocks THEN ReclaimSystem(h) ELSE ReclaimSlot(h)

(* Marking is over: the sweep of collectManagedHeap starts.                *)
BeginSweep(survivors) ==
    /\ phase = "mutate" /\ ~aborted
    /\ phase' = "sweep" /\ cursor' = activeHead /\ bytesAfter' = 0
    /\ marked' = [h \in Headers |-> h \in survivors]
    /\ kept' = survivors
    /\ UNCHANGED <<active, live, elementCount, slab, nonFull, registered,
                   trackedBytes, aborted>>

(* The header after the cursor is read before the reclaim reuses its link. *)
SweepReadingNextLate ==
    /\ phase = "sweep" /\ cursor # Nil /\ ~aborted
    /\ marked' = [marked EXCEPT ![cursor] = FALSE]
    /\ IF marked[cursor]
       THEN /\ bytesAfter' = bytesAfter + PayloadBytes(cursor)
            /\ UNCHANGED <<active, live, slab, nonFull, registered, aborted>>
       ELSE /\ ReclaimAllocation(cursor)
            /\ UNCHANGED bytesAfter
    /\ cursor' = next'[cursor]
    /\ UNCHANGED <<elementCount, phase, kept, trackedBytes>>

SweepHeader ==
    /\ phase = "sweep" /\ cursor # Nil /\ ~aborted
    /\ marked' = [marked EXCEPT ![cursor] = FALSE]
    /\ IF marked[cursor]
       THEN /\ bytesAfter' = bytesAfter + PayloadBytes(cursor)
            /\ UNCHANGED <<active, live, slab, nonFull, registered, aborted>>
       ELSE /\ ReclaimAllocation(cursor)
            /\ UNCHANGED bytesAfter
    /\ cursor' = next[cursor]
    /\ UNCHANGED <<elementCount, phase, kept, trackedBytes>>

EndWithoutUsage ==
    /\ phase = "sweep" /\ cursor = Nil
    /\ phase' = "mutate" /\ bytesAfter' = 0 /\ kept' = {}
    /\ UNCHANGED <<active, live, marked, elementCount, slab, nonFull,
                   registered, cursor, trackedBytes, aborted>>

(* updateManagedHeapUsage replaces what the allocations had added up.      *)
EndSweep ==
    /\ phase = "sweep" /\ cursor = Nil
    /\ phase' = "mutate" /\ bytesAfter' = 0 /\ kept' = {}
    /\ trackedBytes' = bytesAfter
    /\ UNCHANGED <<active, live, marked, elementCount, slab, nonFull,
                   registered, cursor, aborted>>

Next ==
    \/ \E h \in SlabHeaders : AllocateInPage(h)
    \/ \E p \in Pages : AllocateInNewPage(p)
    \/ \E b \in Blocks, count \in ArrayLengths : AllocateSystem(b, count)
    \/ \E survivors \in SUBSET Live : BeginSweep(survivors)
    \/ SweepHeader \/ EndSweep

Spec == Init /\ [][Next]_vars

FairSpec == Spec /\ WF_vars(SweepHeader \/ EndSweep)

-----------------------------------------------------------------------------
(* The active list holds the live headers, each once, in both directions,  *)
(* at every moment of a sweep as well.                                     *)
ActiveListExact ==
    /\ Ends(activeHead, next, Headers)
    /\ ListOf(activeHead, next, Headers) = Live
    /\ activeHead # Nil => prev[activeHead] = Nil
    /\ \A h \in Live : next[h] # Nil => prev[next[h]] = h

(* The used slots of a page are live or on its free list, never both, so   *)
(* no slot is handed out twice and none is lost; and the page's live count *)
(* is what decides that its memory is returned and never runs out first.   *)
SlotsAccountedFor ==
    ~aborted /\ \A p \in mapped :
        LET used == {h \in SlotsOf(p) : h[2] <= nextUnused[p]}
        IN  /\ Ends(freeList[p], next, Headers)
            /\ ListOf(freeList[p], next, Headers) = used \ Live
            /\ Live \cap SlotsOf(p) \subseteq used
            /\ liveCount[p] = Cardinality(Live \cap SlotsOf(p))

(* A page lives exactly as long as one of its slots does.                  *)
PagesHoldLiveSlots == mapped = {PageOf(h) : h \in Live \cap SlabHeaders}

(* Through every release and reuse of a page.                              *)
PagesExact == TypeOK /\ SlotsAccountedFor /\ PagesHoldLiveSlots

(* The list the allocator takes its page from holds the pages with room,   *)
(* all of them and only them, and no page that was released.               *)
NonFullListExact ==
    /\ Ends(nonFullPages, nextNonFull, Pages)
    /\ ListOf(nonFullPages, nextNonFull, Pages) =
         {p \in mapped : HasFreeSlots(freeList[p], nextUnused[p])}
    /\ nonFullPages # Nil => prevNonFull[nonFullPages] = Nil
    /\ \A p \in ListOf(nonFullPages, nextNonFull, Pages) :
         nextNonFull[p] # Nil => prevNonFull[nextNonFull[p]] = p

(* findOwningAllocation finds the owner of an address in a live payload,   *)
(* and takes no header left in recycled or freed memory for one.           *)
FoundByAddress(h) ==
    IF h \in SlabHeaders THEN PageOf(h) \in mapped /\ live[h] ELSE h \in registered

OwnersAreLive == {h \in Headers : FoundByAddress(h)} = Live

(* A sweep keeps what was marked when it began and visits everything else, *)
(* although it reclaims the list it walks.                                 *)
SweepKeepsMarked ==
    phase = "sweep" =>
        /\ ListOf(cursor, next, Headers) \subseteq Live
        /\ {h \in Headers : marked[h]} \subseteq ListOf(cursor, next, Headers)
        /\ Live \ {h \in ListOf(cursor, next, Headers) : ~marked[h]} = kept

(* Between collections the usage the trigger compares with the heap limit  *)
(* is the sum of the payload sizes, except that an empty array counts for  *)
(* nothing when it is allocated and for one byte once it survived.         *)
UsageTracksPayloads ==
    phase = "mutate" =>
        HeapBytes - trackedBytes
          \in 0 .. Cardinality({h \in Live : elementCount[h] = 0})

(* A sweep comes to the end of the list.                                   *)
SweepEnds == phase = "sweep" ~> phase = "mutate"
=============================================================================
