--------------------------- MODULE ManagedHeapProofs ---------------------------
(***************************************************************************)
(* Proofs about ManagedHeap, for any numbers of pages, slots and blocks.   *)
(* The inductive invariant HeapInv says of each list which headers or      *)
(* pages it holds, as a sequence of them; what the invariants of the       *)
(* module say with Chain, which follows the links, is derived from that.   *)
(* It begins with what the usual operations do to any linked list, and     *)
(* ends with the usage, whose invariant UsageInv adds up payloads.         *)
(***************************************************************************)
EXTENDS ManagedHeap, FiniteSetTheorems, WellFoundedInduction, TLAPS

-----------------------------------------------------------------------------
(* A linked list of the members of S: they are s[1] to s[K], each has the  *)
(* next one in its link and, in a doubly linked list, the one before it in *)
(* its back link.                                                          *)
Enumerates(s, K, S) ==
    /\ s \in [1 .. K -> S]
    /\ \A i, j \in 1 .. K : s[i] = s[j] => i = j
    /\ \A x \in S : \E i \in 1 .. K : s[i] = x

LinksForward(s, K, start, link, nil) ==
    /\ start = IF K = 0 THEN nil ELSE s[1]
    /\ \A i \in 1 .. K : link[s[i]] = IF i = K THEN nil ELSE s[i + 1]

LinksBack(s, K, back, nil) ==
    \A i \in 1 .. K : back[s[i]] = IF i = 1 THEN nil ELSE s[i - 1]

IsList(S, start, link, nil) ==
    \E K \in Nat : \E s \in [1 .. K -> S] :
        Enumerates(s, K, S) /\ LinksForward(s, K, start, link, nil)

IsDoubleList(S, start, link, back, nil) ==
    \E K \in Nat : \E s \in [1 .. K -> S] :
        /\ Enumerates(s, K, S)
        /\ LinksForward(s, K, start, link, nil) /\ LinksBack(s, K, back, nil)

(* An empty list.                                                          *)
LEMMA EmptyList ==
    ASSUME NEW link, NEW back, NEW nil
    PROVE  IsDoubleList({}, nil, link, back, nil)
<1>. DEFINE s == [i \in 1 .. 0 |-> nil]
<1>1. s \in [1 .. 0 -> {}]
  OBVIOUS
<1>2. Enumerates(s, 0, {}) /\ LinksForward(s, 0, nil, link, nil) /\ LinksBack(s, 0, back, nil)
  BY <1>1 DEF Enumerates, LinksForward, LinksBack
<1>. QED
  BY <1>1, <1>2 DEF IsDoubleList

(* A doubly linked list is a list.                                         *)
LEMMA DoubleIsSingle ==
    ASSUME NEW S, NEW start, NEW link, NEW back, NEW nil,
           IsDoubleList(S, start, link, back, nil)
    PROVE  IsList(S, start, link, nil)
  BY DEF IsDoubleList, IsList

(* The list depends on the links of its members only.                      *)
LEMMA ListFrame ==
    ASSUME NEW S, NEW start, NEW link, NEW link2, NEW nil,
           IsList(S, start, link, nil), \A x \in S : link2[x] = link[x]
    PROVE  IsList(S, start, link2, nil)
  BY DEF IsList, Enumerates, LinksForward

(* Where the list starts, and that no member comes before its first.       *)
LEMMA FirstOfList ==
    ASSUME NEW S, NEW start, NEW link, NEW nil, nil \notin S,
           IsList(S, start, link, nil)
    PROVE  /\ start = nil <=> S = {}
           /\ start # nil => start \in S
           /\ \A x \in S : link[x] \in (S \ {start}) \cup {nil} /\ link[x] # x
<1>0. PICK K \in Nat : \E s \in [1 .. K -> S] :
        Enumerates(s, K, S) /\ LinksForward(s, K, start, link, nil)
  BY DEF IsList
<1>1. PICK s \in [1 .. K -> S] :
        Enumerates(s, K, S) /\ LinksForward(s, K, start, link, nil)
  BY <1>0
<1>2. start = nil <=> K = 0
  BY <1>1 DEF LinksForward
<1>3. K = 0 <=> S = {}
  BY <1>1 DEF Enumerates
<1>4. ASSUME NEW x \in S PROVE link[x] \in (S \ {start}) \cup {nil} /\ link[x] # x
  <2>1. PICK i \in 1 .. K : s[i] = x
    BY <1>1 DEF Enumerates
  <2>. QED
    BY <1>1, <2>1 DEF Enumerates, LinksForward
<1>. QED
  BY <1>1, <1>2, <1>3, <1>4 DEF LinksForward

(* In a doubly linked list the back links undo the links.                  *)
LEMMA BackLinks ==
    ASSUME NEW S, NEW start, NEW link, NEW back, NEW nil, nil \notin S,
           IsDoubleList(S, start, link, back, nil), NEW x \in S
    PROVE  /\ back[x] \in S \cup {nil} /\ (back[x] = nil <=> x = start)
           /\ back[x] # nil => link[back[x]] = x
           /\ link[x] # nil => back[link[x]] = x
<1>0. PICK K \in Nat : \E s \in [1 .. K -> S] :
        /\ Enumerates(s, K, S)
        /\ LinksForward(s, K, start, link, nil) /\ LinksBack(s, K, back, nil)
  BY DEF IsDoubleList
<1>1. PICK s \in [1 .. K -> S] :
        /\ Enumerates(s, K, S)
        /\ LinksForward(s, K, start, link, nil) /\ LinksBack(s, K, back, nil)
  BY <1>0
<1>2. PICK i \in 1 .. K : s[i] = x
  BY <1>1 DEF Enumerates
<1>3. /\ s \in [1 .. K -> S] /\ \A j \in 1 .. K : s[i] = s[j] => i = j
      /\ K # 0 /\ start = s[1] /\ 1 \in 1 .. K
  BY <1>1 DEF Enumerates, LinksForward
<1>4. back[x] = IF i = 1 THEN nil ELSE s[i - 1]
  BY <1>1, <1>2 DEF LinksBack
<1>5. link[x] = IF i = K THEN nil ELSE s[i + 1]
  BY <1>1, <1>2 DEF LinksForward
<1>6. back[x] # nil => link[back[x]] = x
  <2>. SUFFICES ASSUME i # 1 PROVE link[s[i - 1]] = x
    BY <1>4
  <2>1. i - 1 \in 1 .. K /\ i - 1 # K /\ (i - 1) + 1 = i
    OBVIOUS
  <2>. QED
    BY <1>1, <1>2, <2>1 DEF LinksForward
<1>7. link[x] # nil => back[link[x]] = x
  <2>. SUFFICES ASSUME i # K PROVE back[s[i + 1]] = x
    BY <1>5
  <2>1. i + 1 \in 1 .. K /\ i + 1 # 1 /\ (i + 1) - 1 = i
    OBVIOUS
  <2>. QED
    BY <1>1, <1>2, <2>1 DEF LinksBack
<1>8. i = 1 <=> x = start
  BY <1>2, <1>3
<1>9. i # 1 => s[i - 1] \in S
  OBVIOUS
<1>. QED
  BY <1>4, <1>6, <1>7, <1>8, <1>9

(* A new member goes to the front.                                         *)
LEMMA PushFront ==
    ASSUME NEW S, NEW start, NEW link, NEW link2, NEW nil, NEW h,
           nil \notin S, h \notin S, IsList(S, start, link, nil),
           link2[h] = start, \A x \in S : link2[x] = link[x]
    PROVE  IsList(S \cup {h}, h, link2, nil)
<1>0. PICK K \in Nat : \E s \in [1 .. K -> S] :
        Enumerates(s, K, S) /\ LinksForward(s, K, start, link, nil)
  BY DEF IsList
<1>1. PICK s \in [1 .. K -> S] :
        Enumerates(s, K, S) /\ LinksForward(s, K, start, link, nil)
  BY <1>0
<1>. DEFINE t == [i \in 1 .. K + 1 |-> IF i = 1 THEN h ELSE s[i - 1]]
<1>2. t \in [1 .. K + 1 -> S \cup {h}] /\ K + 1 \in Nat
  OBVIOUS
<1>3. Enumerates(t, K + 1, S \cup {h})
  <2>1. ASSUME NEW x \in S \cup {h} PROVE \E i \in 1 .. K + 1 : t[i] = x
    <3>1. CASE x = h
      BY <3>1
    <3>2. CASE x \in S
      <4>1. PICK i \in 1 .. K : s[i] = x
        BY <1>1, <3>2 DEF Enumerates
      <4>2. i + 1 \in 1 .. K + 1 /\ t[i + 1] = x
        BY <4>1
      <4>. QED
        BY <4>2
    <3>. QED
      BY <3>1, <3>2
  <2>. QED
    BY <1>1, <1>2, <2>1 DEF Enumerates
<1>4. LinksForward(t, K + 1, h, link2, nil)
  <2>1. ASSUME NEW i \in 1 .. K + 1
        PROVE  link2[t[i]] = IF i = K + 1 THEN nil ELSE t[i + 1]
    <3>1. CASE i = 1
      BY <1>1, <3>1 DEF LinksForward
    <3>2. CASE i # 1
      <4>1. i - 1 \in 1 .. K /\ t[i] = s[i - 1] /\ (i - 1 = K <=> i = K + 1)
        BY <3>2
      <4>2. link2[t[i]] = IF i - 1 = K THEN nil ELSE s[(i - 1) + 1]
        BY <1>1, <4>1 DEF LinksForward
      <4>3. i # K + 1 => t[i + 1] = s[(i - 1) + 1]
        BY <3>2
      <4>. QED
        BY <4>1, <4>2, <4>3
    <3>. QED
      BY <3>1, <3>2
  <2>. HIDE DEF t
  <2>2. t[1] = h
    BY DEF t
  <2>. QED
    BY <2>1, <2>2 DEF LinksForward
<1>. QED
  BY <1>2, <1>3, <1>4 DEF IsList

(* h goes before the first: the new links in terms of the old ones.        *)
PushesFront(h, S, start, link, back, link2, back2, nil) ==
    /\ link2[h] = start /\ \A x \in S : link2[x] = link[x]
    /\ back2[h] = nil
    /\ \A x \in S : back2[x] = IF x = start THEN h ELSE back[x]

(* The same for a doubly linked list.                                      *)
LEMMA PushFrontDouble ==
    ASSUME NEW S, NEW start, NEW link, NEW back, NEW link2, NEW back2, NEW nil,
           NEW h, nil \notin S, h \notin S,
           IsDoubleList(S, start, link, back, nil),
           PushesFront(h, S, start, link, back, link2, back2, nil)
    PROVE  IsDoubleList(S \cup {h}, h, link2, back2, nil)
<1>. USE DEF PushesFront
<1>0. PICK K \in Nat : \E s \in [1 .. K -> S] :
        /\ Enumerates(s, K, S)
        /\ LinksForward(s, K, start, link, nil) /\ LinksBack(s, K, back, nil)
  BY DEF IsDoubleList
<1>1. PICK s \in [1 .. K -> S] :
        /\ Enumerates(s, K, S)
        /\ LinksForward(s, K, start, link, nil) /\ LinksBack(s, K, back, nil)
  BY <1>0
<1>. DEFINE t == [i \in 1 .. K + 1 |-> IF i = 1 THEN h ELSE s[i - 1]]
<1>2. t \in [1 .. K + 1 -> S \cup {h}] /\ K + 1 \in Nat
  OBVIOUS
<1>3. /\ t[1] = h /\ \A i \in 1 .. K : t[i + 1] = s[i]
      /\ \A i \in 1 .. K + 1 : i = 1 \/ (i - 1 \in 1 .. K /\ t[i] = s[i - 1])
  OBVIOUS
<1>. HIDE DEF t
<1>4. Enumerates(t, K + 1, S \cup {h})
  <2>1. ASSUME NEW x \in S \cup {h} PROVE \E i \in 1 .. K + 1 : t[i] = x
    <3>1. CASE x = h
      BY <1>3, <3>1
    <3>2. CASE x \in S
      <4>1. PICK i \in 1 .. K : s[i] = x
        BY <1>1, <3>2 DEF Enumerates
      <4>2. i + 1 \in 1 .. K + 1 /\ t[i + 1] = x
        BY <1>3, <4>1
      <4>. QED
        BY <4>2
    <3>. QED
      BY <3>1, <3>2
  <2>2. ASSUME NEW i \in 1 .. K + 1, NEW j \in 1 .. K + 1, t[i] = t[j] PROVE i = j
    <3>1. \A k \in 1 .. K + 1 : t[k] = h <=> k = 1
      BY <1>3
    <3>2. CASE i # 1 /\ j # 1
      <4>1. i - 1 \in 1 .. K /\ j - 1 \in 1 .. K /\ s[i - 1] = s[j - 1]
        BY <1>3, <2>2, <3>2
      <4>2. i - 1 = j - 1
        BY <1>1, <4>1 DEF Enumerates
      <4>. QED
        BY <4>2
    <3>. QED
      BY <1>3, <2>2, <3>1, <3>2
  <2>. QED
    BY <1>2, <2>1, <2>2 DEF Enumerates
<1>5. LinksForward(t, K + 1, h, link2, nil)
  <2>1. ASSUME NEW i \in 1 .. K + 1
        PROVE  link2[t[i]] = IF i = K + 1 THEN nil ELSE t[i + 1]
    <3>1. CASE i = 1
      BY <1>1, <1>3, <3>1 DEF LinksForward
    <3>2. CASE i # 1
      <4>1. i - 1 \in 1 .. K /\ t[i] = s[i - 1] /\ (i - 1 = K <=> i = K + 1)
        BY <1>3, <3>2
      <4>2. link2[t[i]] = IF i - 1 = K THEN nil ELSE s[(i - 1) + 1]
        BY <1>1, <4>1 DEF LinksForward
      <4>3. i # K + 1 => i \in 1 .. K /\ (i - 1) + 1 = i
        BY <3>2
      <4>. QED
        BY <1>3, <4>1, <4>2, <4>3
    <3>. QED
      BY <3>1, <3>2
  <2>. QED
    BY <1>3, <2>1 DEF LinksForward
<1>6. LinksBack(t, K + 1, back2, nil)
  <2>. SUFFICES ASSUME NEW i \in 1 .. K + 1
                PROVE  back2[t[i]] = IF i = 1 THEN nil ELSE t[i - 1]
    BY DEF LinksBack
  <2>1. CASE i = 1
    BY <1>3, <2>1
  <2>2. CASE i = 2
    <3>1. K # 0 /\ 1 \in 1 .. K /\ t[2] = s[1] /\ start = s[1]
      BY <1>1, <1>3, <2>2 DEF LinksForward
    <3>. QED
      BY <1>3, <2>2, <3>1
  <2>3. CASE i > 2
    <3>1. /\ i - 1 \in 1 .. K /\ i - 2 \in 1 .. K /\ t[i] = s[i - 1]
          /\ t[i - 1] = s[i - 2] /\ start = s[1] /\ 1 \in 1 .. K
      BY <1>1, <1>3, <2>3 DEF LinksForward
    <3>2. s[i - 1] # start /\ s[i - 1] \in S
      BY <1>1, <2>3, <3>1 DEF Enumerates
    <3>3. back[s[i - 1]] = s[(i - 1) - 1] /\ (i - 1) - 1 = i - 2
      BY <1>1, <2>3, <3>1 DEF LinksBack
    <3>. QED
      BY <2>3, <3>1, <3>2, <3>3
  <2>. QED
    BY <2>1, <2>2, <2>3
<1>. QED
  BY <1>2, <1>4, <1>5, <1>6 DEF IsDoubleList

(* The first member is taken off.                                          *)
LEMMA PopFront ==
    ASSUME NEW S, NEW start \in S, NEW link, NEW link2, NEW nil,
           nil \notin S, IsList(S, start, link, nil),
           \A x \in S \ {start} : link2[x] = link[x]
    PROVE  IsList(S \ {start}, link[start], link2, nil)
<1>0. PICK K \in Nat : \E s \in [1 .. K -> S] :
        Enumerates(s, K, S) /\ LinksForward(s, K, start, link, nil)
  BY DEF IsList
<1>1. PICK s \in [1 .. K -> S] :
        Enumerates(s, K, S) /\ LinksForward(s, K, start, link, nil)
  BY <1>0
<1>2. K # 0 /\ K - 1 \in Nat /\ start = s[1] /\ 1 \in 1 .. K
  BY <1>1 DEF LinksForward
<1>. DEFINE t == [i \in 1 .. K - 1 |-> s[i + 1]]
<1>3. \A i \in 1 .. K - 1 : i + 1 \in 1 .. K /\ t[i] = s[i + 1] /\ s[i + 1] \in S \ {start}
  BY <1>1, <1>2 DEF Enumerates
<1>4. t \in [1 .. K - 1 -> S \ {start}]
  BY <1>3
<1>. HIDE DEF t
<1>5. Enumerates(t, K - 1, S \ {start})
  <2>1. ASSUME NEW x \in S \ {start} PROVE \E i \in 1 .. K - 1 : t[i] = x
    <3>1. PICK i \in 1 .. K : s[i] = x
      BY <1>1 DEF Enumerates
    <3>2. i - 1 \in 1 .. K - 1 /\ (i - 1) + 1 = i
      BY <1>2, <3>1
    <3>3. t[i - 1] = x
      BY <1>3, <3>1, <3>2
    <3>. QED
      BY <3>2, <3>3
  <2>2. ASSUME NEW i \in 1 .. K - 1, NEW j \in 1 .. K - 1, t[i] = t[j] PROVE i = j
    <3>1. s[i + 1] = s[j + 1] /\ i + 1 \in 1 .. K /\ j + 1 \in 1 .. K
      BY <1>3, <2>2
    <3>2. i + 1 = j + 1
      BY <1>1, <3>1 DEF Enumerates
    <3>. QED
      BY <3>2
  <2>. QED
    BY <1>4, <2>1, <2>2 DEF Enumerates
<1>6. LinksForward(t, K - 1, link[start], link2, nil)
  <2>1. link[start] = IF K - 1 = 0 THEN nil ELSE t[1]
    <3>1. link[start] = IF 1 = K THEN nil ELSE s[1 + 1]
      BY <1>1, <1>2 DEF LinksForward
    <3>2. K - 1 # 0 => 1 \in 1 .. K - 1 /\ t[1] = s[1 + 1]
      BY <1>2, <1>3
    <3>. QED
      BY <1>2, <3>1, <3>2
  <2>2. ASSUME NEW i \in 1 .. K - 1
        PROVE  link2[t[i]] = IF i = K - 1 THEN nil ELSE t[i + 1]
    <3>1. i + 1 \in 1 .. K /\ t[i] = s[i + 1] /\ link2[t[i]] = link[s[i + 1]]
      BY <1>3
    <3>2. link[s[i + 1]] = IF i + 1 = K THEN nil ELSE s[(i + 1) + 1]
      BY <1>1, <3>1 DEF LinksForward
    <3>3. i # K - 1 => i + 1 \in 1 .. K - 1 /\ t[i + 1] = s[(i + 1) + 1]
      BY <1>2, <1>3
    <3>. QED
      BY <1>2, <3>1, <3>2, <3>3
  <2>. QED
    BY <2>1, <2>2 DEF LinksForward
<1>. QED
  BY <1>2, <1>4, <1>5, <1>6 DEF IsList

(* h goes: the new links in terms of the old ones.                         *)
Unlinks(h, S, start, start2, link, back, link2, back2, nil) ==
    /\ start2 = IF start = h THEN link[h] ELSE start
    /\ \A x \in S \ {h} : link2[x] = IF x = back[h] THEN link[h] ELSE link[x]
    /\ \A x \in S \ {h} : back2[x] = IF x = link[h] THEN back[h] ELSE back[x]

(* Any member can be taken out of a doubly linked list.                    *)
LEMMA Unlink ==
    ASSUME NEW S, NEW start, NEW start2, NEW link, NEW back, NEW link2, NEW back2,
           NEW nil, NEW h \in S, nil \notin S,
           IsDoubleList(S, start, link, back, nil),
           Unlinks(h, S, start, start2, link, back, link2, back2, nil)
    PROVE  IsDoubleList(S \ {h}, start2, link2, back2, nil)
<1>. USE DEF Unlinks
<1>0. PICK K \in Nat : \E s \in [1 .. K -> S] :
        /\ Enumerates(s, K, S)
        /\ LinksForward(s, K, start, link, nil) /\ LinksBack(s, K, back, nil)
  BY DEF IsDoubleList
<1>1. PICK s \in [1 .. K -> S] :
        /\ Enumerates(s, K, S)
        /\ LinksForward(s, K, start, link, nil) /\ LinksBack(s, K, back, nil)
  BY <1>0
<1>2. PICK k \in 1 .. K : s[k] = h
  BY <1>1 DEF Enumerates
<1>3. K # 0 /\ K - 1 \in Nat /\ start = s[1] /\ 1 \in 1 .. K
  BY <1>1, <1>2 DEF LinksForward
<1>4. /\ link[h] = IF k = K THEN nil ELSE s[k + 1]
      /\ back[h] = IF k = 1 THEN nil ELSE s[k - 1]
  BY <1>1, <1>2 DEF LinksForward, LinksBack
<1>5. \A i, j \in 1 .. K : s[i] = s[j] => i = j
  BY <1>1 DEF Enumerates
<1>6. \A i \in 1 .. K \ {k} : s[i] \in S \ {h}
  BY <1>2, <1>5
<1>7. /\ \A i \in 1 .. K : s[i] = back[h] <=> i = k - 1
      /\ \A i \in 1 .. K : s[i] = link[h] <=> i = k + 1
  <2>1. ASSUME NEW i \in 1 .. K PROVE s[i] = back[h] <=> i = k - 1
    <3>1. CASE k = 1
      BY <1>4, <3>1
    <3>2. CASE k # 1
      <4>1. k - 1 \in 1 .. K /\ back[h] = s[k - 1]
        BY <1>4, <3>2
      <4>. QED
        BY <1>5, <4>1
    <3>. QED
      BY <3>1, <3>2
  <2>2. ASSUME NEW i \in 1 .. K PROVE s[i] = link[h] <=> i = k + 1
    <3>1. CASE k = K
      BY <1>4, <3>1
    <3>2. CASE k # K
      <4>1. k + 1 \in 1 .. K /\ link[h] = s[k + 1]
        BY <1>4, <3>2
      <4>. QED
        BY <1>5, <4>1
    <3>. QED
      BY <3>1, <3>2
  <2>. QED
    BY <2>1, <2>2
<1>. DEFINE t == [i \in 1 .. K - 1 |-> IF i < k THEN s[i] ELSE s[i + 1]]
<1>8. \A i \in 1 .. K - 1 :
        /\ i < k => t[i] = s[i] /\ i \in 1 .. K
        /\ i >= k => t[i] = s[i + 1] /\ i + 1 \in 1 .. K
        /\ t[i] \in S \ {h}
  BY <1>6
<1>9. t \in [1 .. K - 1 -> S \ {h}]
  BY <1>8
<1>. HIDE DEF t
<1>10. Enumerates(t, K - 1, S \ {h})
  <2>1. ASSUME NEW x \in S \ {h} PROVE \E i \in 1 .. K - 1 : t[i] = x
    <3>1. PICK i \in 1 .. K : s[i] = x
      BY <1>1 DEF Enumerates
    <3>2. CASE i < k
      <4>1. i \in 1 .. K - 1 /\ t[i] = x
        BY <1>8, <3>1, <3>2
      <4>. QED
        BY <4>1
    <3>3. CASE i > k
      <4>1. i - 1 \in 1 .. K - 1 /\ i - 1 >= k /\ (i - 1) + 1 = i
        BY <3>3
      <4>2. t[i - 1] = x
        BY <1>8, <3>1, <4>1
      <4>. QED
        BY <4>1, <4>2
    <3>. QED
      BY <1>2, <3>1, <3>2, <3>3
  <2>2. ASSUME NEW i \in 1 .. K - 1, NEW j \in 1 .. K - 1, t[i] = t[j] PROVE i = j
    BY <1>5, <1>8, <2>2
  <2>. QED
    BY <1>9, <2>1, <2>2 DEF Enumerates
<1>11. LinksForward(t, K - 1, start2, link2, nil)
  <2>1. start2 = IF K - 1 = 0 THEN nil ELSE t[1]
    <3>1. start = h <=> k = 1
      BY <1>2, <1>3, <1>5
    <3>2. K - 1 # 0 => 1 \in 1 .. K - 1
      BY <1>3
    <3>3. CASE k = 1
      BY <1>3, <1>4, <1>8, <3>1, <3>2, <3>3
    <3>4. CASE k # 1
      BY <1>3, <1>8, <3>1, <3>2, <3>4
    <3>. QED
      BY <3>3, <3>4
  <2>2. ASSUME NEW i \in 1 .. K - 1
        PROVE  link2[t[i]] = IF i = K - 1 THEN nil ELSE t[i + 1]
    <3>1. CASE i >= k
      <4>1. t[i] = s[i + 1] /\ i + 1 \in 1 .. K /\ i + 1 # k - 1 /\ i + 1 # k
        BY <1>8, <3>1
      <4>2. link2[t[i]] = link[s[i + 1]]
        BY <1>7, <1>8, <4>1
      <4>3. link[s[i + 1]] = IF i + 1 = K THEN nil ELSE s[(i + 1) + 1]
        BY <1>1, <4>1 DEF LinksForward
      <4>4. i # K - 1 => i + 1 \in 1 .. K - 1 /\ t[i + 1] = s[(i + 1) + 1]
        BY <1>8, <3>1
      <4>. QED
        BY <4>2, <4>3, <4>4
    <3>2. CASE i = k - 1
      <4>1. t[i] = s[i] /\ i \in 1 .. K /\ s[i] = back[h]
        BY <1>7, <1>8, <3>2
      <4>2. link2[t[i]] = IF k = K THEN nil ELSE s[k + 1]
        BY <1>4, <1>8, <4>1
      <4>3. i # K - 1 => k \in 1 .. K - 1 /\ t[i + 1] = s[k + 1]
        BY <1>8, <3>2
      <4>. QED
        BY <3>2, <4>2, <4>3
    <3>3. CASE i < k - 1
      <4>1. t[i] = s[i] /\ i \in 1 .. K /\ i # K
        BY <1>8, <3>3
      <4>2. link2[t[i]] = link[s[i]]
        BY <1>7, <1>8, <3>3, <4>1
      <4>3. link[s[i]] = s[i + 1]
        BY <1>1, <4>1 DEF LinksForward
      <4>4. i + 1 \in 1 .. K - 1 /\ t[i + 1] = s[i + 1]
        BY <1>8, <3>3
      <4>. QED
        BY <3>3, <4>2, <4>3, <4>4
    <3>. QED
      BY <3>1, <3>2, <3>3
  <2>. QED
    BY <2>1, <2>2 DEF LinksForward
<1>12. LinksBack(t, K - 1, back2, nil)
  <2>. SUFFICES ASSUME NEW i \in 1 .. K - 1
                PROVE  back2[t[i]] = IF i = 1 THEN nil ELSE t[i - 1]
    BY DEF LinksBack
  <2>1. CASE i < k
    <3>1. t[i] = s[i] /\ i \in 1 .. K /\ back2[t[i]] = back[s[i]]
      BY <1>7, <1>8, <2>1
    <3>2. back[s[i]] = IF i = 1 THEN nil ELSE s[i - 1]
      BY <1>1, <3>1 DEF LinksBack
    <3>3. i # 1 => i - 1 \in 1 .. K - 1 /\ t[i - 1] = s[i - 1]
      BY <1>8, <2>1
    <3>. QED
      BY <3>1, <3>2, <3>3
  <2>2. CASE i = k
    <3>1. t[i] = s[k + 1] /\ k + 1 \in 1 .. K /\ back2[t[i]] = back[h]
      BY <1>7, <1>8, <2>2
    <3>2. i # 1 => i - 1 \in 1 .. K - 1 /\ t[i - 1] = s[k - 1]
      BY <1>8, <2>2
    <3>. QED
      BY <1>4, <2>2, <3>1, <3>2
  <2>3. CASE i > k
    <3>1. t[i] = s[i + 1] /\ i + 1 \in 1 .. K /\ back2[t[i]] = back[s[i + 1]]
      BY <1>7, <1>8, <2>3
    <3>2. back[s[i + 1]] = s[(i + 1) - 1]
      BY <1>1, <2>3, <3>1 DEF LinksBack
    <3>3. i - 1 \in 1 .. K - 1 /\ i - 1 >= k
      BY <2>3
    <3>4. t[i - 1] = s[(i - 1) + 1]
      BY <1>8, <3>3
    <3>. QED
      BY <2>3, <3>1, <3>2, <3>4
  <2>. QED
    BY <2>1, <2>2, <2>3
<1>. QED
  BY <1>3, <1>9, <1>10, <1>11, <1>12 DEF IsDoubleList
-----------------------------------------------------------------------------
(* A linked list is what Chain walks.                                      *)
LEMMA ChainOfList ==
    ASSUME NEW nodes, IsFiniteSet(nodes), Nil \notin nodes,
           NEW S \in SUBSET nodes, NEW start, NEW link,
           IsList(S, start, link, Nil)
    PROVE  ListOf(start, link, nodes) = S /\ Ends(start, link, nodes)
<1>. DEFINE C == Cardinality(nodes)
<1>0. PICK K \in Nat : \E s \in [1 .. K -> S] :
        Enumerates(s, K, S) /\ LinksForward(s, K, start, link, Nil)
  BY DEF IsList
<1>1. PICK s \in [1 .. K -> S] :
        Enumerates(s, K, S) /\ LinksForward(s, K, start, link, Nil)
  BY <1>0
<1>2. C \in Nat /\ K <= C
  <2>1. IsFiniteSet(1 .. K) /\ Cardinality(1 .. K) = K
    BY FS_Interval
  <2>2. s \in Injection(1 .. K, nodes)
    BY <1>1 DEF Enumerates, Injection, IsInjective
  <2>. QED
    BY <2>1, <2>2, FS_Injection, FS_CardinalityType
<1>. HIDE DEF C
<1>. DEFINE g == [n \in 0 .. C |->
                   {s[i] : i \in {j \in 1 .. K : j <= n + 1}} \cup (IF n >= K THEN {Nil} ELSE {})]
            Step(f) == [n \in 0 .. C |->
                         IF n = 0 THEN {start}
                         ELSE f[n - 1] \cup {link[x] : x \in f[n - 1] \ {Nil}}]
<1>3. g[0] = {start}
  <2>1. CASE K = 0
    BY <1>1, <1>2, <2>1 DEF LinksForward
  <2>2. CASE K # 0
    <3>1. {j \in 1 .. K : j <= 1} = {1} /\ start = s[1]
      BY <1>1, <2>2 DEF LinksForward
    <3>. QED
      BY <1>2, <2>2, <3>1
  <2>. QED
    BY <2>1, <2>2
<1>4. ASSUME NEW n \in 0 .. C, n # 0
      PROVE  g[n] = g[n - 1] \cup {link[x] : x \in g[n - 1] \ {Nil}}
  <2>1. n - 1 \in 0 .. C /\ (n - 1) + 1 = n
    BY <1>4, <1>2
  <2>2. g[n - 1] = {s[i] : i \in {j \in 1 .. K : j <= n}} \cup (IF n - 1 >= K THEN {Nil} ELSE {})
    BY <2>1
  <2>3. \A i \in 1 .. K : s[i] \in S /\ s[i] # Nil
    BY <1>1 DEF Enumerates
  <2>4. \A i \in 1 .. K : link[s[i]] = IF i = K THEN Nil ELSE s[i + 1]
    BY <1>1 DEF LinksForward
  <2>5. g[n] = {s[i] : i \in {j \in 1 .. K : j <= n + 1}} \cup (IF n >= K THEN {Nil} ELSE {})
    OBVIOUS
  <2>. HIDE DEF g
  <2>6. ASSUME NEW x \in g[n] PROVE x \in g[n - 1] \cup {link[y] : y \in g[n - 1] \ {Nil}}
    <3>1. CASE \E i \in 1 .. K : i <= n /\ x = s[i]
      BY <2>2, <3>1
    <3>2. CASE n + 1 \in 1 .. K /\ x = s[n + 1]
      <4>1. n \in 1 .. K /\ n # K /\ s[n] \in g[n - 1] \ {Nil}
        BY <1>4, <2>2, <2>3, <3>2
      <4>2. link[s[n]] = x
        BY <2>4, <3>2, <4>1
      <4>. QED
        BY <4>1, <4>2
    <3>3. CASE x = Nil /\ n >= K
      <4>1. CASE n - 1 >= K
        BY <2>2, <3>3, <4>1
      <4>2. CASE n = K
        <5>1. n \in 1 .. K /\ s[n] \in g[n - 1] \ {Nil}
          BY <1>4, <2>2, <2>3, <4>2
        <5>2. link[s[n]] = x
          BY <2>4, <3>3, <4>2, <5>1
        <5>. QED
          BY <5>1, <5>2
      <4>. QED
        BY <3>3, <4>1, <4>2
    <3>. QED
      BY <2>5, <3>1, <3>2, <3>3
  <2>7. ASSUME NEW x \in g[n - 1] PROVE x \in g[n]
    BY <2>2, <2>5
  <2>8. ASSUME NEW y \in g[n - 1] \ {Nil} PROVE link[y] \in g[n]
    <3>1. PICK i \in 1 .. K : i <= n /\ y = s[i]
      BY <2>2
    <3>2. CASE i = K
      BY <2>4, <2>5, <3>1, <3>2
    <3>3. CASE i # K
      <4>1. i + 1 \in 1 .. K /\ i + 1 <= n + 1 /\ link[y] = s[i + 1]
        BY <2>4, <3>1, <3>3
      <4>. QED
        BY <2>5, <4>1
    <3>. QED
      BY <3>2, <3>3
  <2>. QED
    BY <2>6, <2>7, <2>8
<1>5. g = Step(g)
  <2>1. g \in [0 .. C -> SUBSET (S \cup {Nil})]
    BY <1>1 DEF Enumerates
  <2>. HIDE DEF g
  <2>. QED
    BY <1>3, <1>4, <2>1
<1>6. ASSUME NEW f, f = Step(f) PROVE f[C] = g[C]
  <2>. DEFINE T == {n \in 0 .. C : f[n] # g[n]}
  <2>. HIDE DEF g
  <2>1. \A n \in 0 .. C : f[n] = IF n = 0 THEN {start}
                                  ELSE f[n - 1] \cup {link[x] : x \in f[n - 1] \ {Nil}}
    BY <1>6
  <2>. SUFFICES ASSUME T # {} PROVE FALSE
    BY <1>2
  <2>2. PICK n \in T : \A k \in T : ~(<<k, n>> \in OpToRel(<, Nat))
    <3>1. T \in SUBSET Nat
      BY <1>2
    <3>. QED
      BY <3>1, NatLessThanWellFounded, WFMin
  <2>3. n \in 0 .. C /\ n # 0
    BY <1>2, <1>3, <2>1
  <2>4. n - 1 \in 0 .. C /\ f[n - 1] = g[n - 1]
    <3>1. n - 1 \in 0 .. C /\ n - 1 < n /\ n - 1 \in Nat /\ n \in Nat
      BY <1>2, <2>3
    <3>2. <<n - 1, n>> \in OpToRel(<, Nat)
      BY <3>1 DEF OpToRel
    <3>. QED
      BY <2>2, <3>1, <3>2
  <2>5. f[n] = g[n]
    BY <1>4, <2>1, <2>3, <2>4
  <2>. QED
    BY <2>5
<1>7. g[C] = S \cup {Nil}
  <2>1. \A i \in 1 .. K : i <= C + 1
    BY <1>2
  <2>2. g[C] = {s[i] : i \in 1 .. K} \cup {Nil}
    BY <1>2, <2>1
  <2>3. S = {s[i] : i \in 1 .. K}
    BY <1>1 DEF Enumerates
  <2>. QED
    BY <2>2, <2>3
<1>8. Chain(start, link, nodes) = g[C]
  <2>. DEFINE f == CHOOSE f : f = Step(f)
  <2>. HIDE DEF g
  <2>1. f = Step(f)
    BY <1>5
  <2>2. Chain(start, link, nodes) = f[C]
    BY DEF Chain, C
  <2>. QED
    BY <1>6, <2>1, <2>2
<1>. QED
  BY <1>7, <1>8 DEF ListOf, Ends

-----------------------------------------------------------------------------
(* The used slots of a page, and the pages the allocator can take one from.*)
Used(p) == {h \in SlotsOf(p) : h[2] <= nextUnused[p]}
WithRoom == {p \in mapped : HasFreeSlots(freeList[p], nextUnused[p])}
Marked == {h \in Headers : marked[h]}

(* The inductive invariant, in named parts: the active list, ...           *)
ActiveList == IsDoubleList(Live, activeHead, next, prev, Nil)

(* ... the free list of each page, which with its live slots makes up the  *)
(* used ones, ...                                                          *)
PageAccounted(p) ==
    /\ IsList(Used(p) \ Live, freeList[p], next, Nil)
    /\ Live \cap SlotsOf(p) \subseteq Used(p)
    /\ liveCount[p] = Cardinality(Live \cap SlotsOf(p))

FreeLists == \A p \in mapped : PageAccounted(p)

(* ... the list of pages with room: the links of the others are cleared,   *)
(* which is how IsSlabPageLinked tells them apart, ...                     *)
NonFullList ==
    /\ IsDoubleList(WithRoom, nonFullPages, nextNonFull, prevNonFull, Nil)
    /\ \A p \in Pages \ WithRoom : nextNonFull[p] = Nil /\ prevNonFull[p] = Nil

(* ... and what is left to a sweep: the links from the cursor on still     *)
(* list headers that are live, all the marked ones among them.             *)
RemainsList(R) ==
    /\ IsList(R, cursor, next, Nil)
    /\ Marked \subseteq R /\ Live \ (R \ Marked) = kept

SweepRemains == phase = "sweep" => \E R \in SUBSET Live : RemainsList(R)

HeapInv ==
    /\ TypeOK /\ ~aborted
    /\ ActiveList /\ FreeLists /\ PagesHoldLiveSlots /\ NonFullList
    /\ registered = Live \cap Blocks
    /\ SweepRemains

-----------------------------------------------------------------------------
(* Slots of different pages differ, and a page has SlotsPerPage of them.   *)
LEMMA SlotFacts ==
    /\ \A h \in SlabHeaders : PageOf(h) \in Pages /\ h \in SlotsOf(PageOf(h))
    /\ \A p \in Pages : \A h \in SlotsOf(p) :
          h \in SlabHeaders /\ PageOf(h) = p /\ h[2] \in 1 .. SlotsPerPage /\ h = <<p, h[2]>>
    /\ \A h \in Blocks : h \notin SlabHeaders
    /\ Nil \notin Pages /\ Nil \notin Headers
  BY PagesAssumption DEF SlabHeaders, SlotsOf, PageOf

(* So the live slots of a page can be counted.                             *)
LEMMA SlotCount ==
    ASSUME NEW p \in Pages, NEW S \in SUBSET SlotsOf(p)
    PROVE  IsFiniteSet(S) /\ Cardinality(S) \in 0 .. SlotsPerPage
<1>. DEFINE f == [i \in 1 .. SlotsPerPage |-> <<p, i>>]
<1>1. f \in Surjection(1 .. SlotsPerPage, SlotsOf(p))
  <2>1. f \in [1 .. SlotsPerPage -> SlotsOf(p)]
    BY DEF SlotsOf
  <2>2. ASSUME NEW h \in SlotsOf(p) PROVE \E i \in 1 .. SlotsPerPage : f[i] = h
    BY SlotFacts DEF SlotsOf
  <2>. QED
    BY <2>1, <2>2 DEF Surjection
<1>2. IsFiniteSet(1 .. SlotsPerPage) /\ Cardinality(1 .. SlotsPerPage) = SlotsPerPage
  BY FS_Interval, PagesAssumption
<1>3. IsFiniteSet(SlotsOf(p)) /\ Cardinality(SlotsOf(p)) <= SlotsPerPage
  BY <1>1, <1>2, FS_Surjection
<1>4. IsFiniteSet(S) /\ Cardinality(S) <= Cardinality(SlotsOf(p))
  BY <1>3, FS_Subset
<1>5. Cardinality(S) \in Nat /\ Cardinality(SlotsOf(p)) \in Nat
  BY <1>3, <1>4, FS_CardinalityType
<1>. QED
  BY <1>3, <1>4, <1>5, PagesAssumption

(* There are finitely many headers.                                        *)
LEMMA HeadersFinite == IsFiniteSet(Headers) /\ IsFiniteSet(Pages)
<1>1. IsFiniteSet(1 .. SlotsPerPage)
  BY PagesAssumption, FS_Interval
<1>2. IsFiniteSet(SlabHeaders)
  BY <1>1, PagesAssumption, FS_Product DEF SlabHeaders
<1>. QED
  BY <1>2, PagesAssumption, FS_Union DEF Headers

(* initializeHeader: the header goes live at the front of the active list, *)
(* and no link changes that is not the list's.                             *)
LEMMA InitializeLists ==
    ASSUME TypeOK, ActiveList, NEW h \in Headers \ Live, NEW count \in Nat,
           InitializeHeader(h, count)
    PROVE  /\ Live' = Live \cup {h} /\ ActiveList'
           /\ \A x \in Headers \ {h} : next'[x] = next[x]
           /\ activeHead' \in Headers \cup {Nil}
           /\ next' \in [Headers -> Headers \cup {Nil}]
           /\ prev' \in [Headers -> Headers \cup {Nil}]
           /\ live' \in [Headers -> BOOLEAN] /\ marked' \in [Headers -> BOOLEAN]
           /\ elementCount' \in [Headers -> Nat]
<1>. USE DEF InitializeHeader, LinkActiveAllocation
<1>1. Live' = Live \cup {h}
  BY DEF TypeOK, Live
<1>2. \A x \in Headers \ {h} : next'[x] = next[x]
  BY DEF TypeOK
<1>3. activeHead # Nil => activeHead \in Live
  BY SlotFacts, DoubleIsSingle, FirstOfList DEF ActiveList, Live
<1>4. /\ prev'[h] = Nil
      /\ \A x \in Live : prev'[x] = IF x = activeHead THEN h ELSE prev[x]
  BY <1>3, SlotFacts DEF TypeOK, Set, Live
<1>5. next'[h] = activeHead /\ activeHead' = h
  BY DEF TypeOK
<1>6. ActiveList'
  <2>1. Nil \notin Live /\ h \notin Live /\ \A x \in Live : next'[x] = next[x]
    BY <1>2, SlotFacts DEF Live
  <2>2. PushesFront(h, Live, activeHead, next, prev, next', prev', Nil)
    BY <1>4, <1>5, <2>1 DEF PushesFront
  <2>3. IsDoubleList(Live \cup {h}, h, next', prev', Nil)
    BY <2>1, <2>2, PushFrontDouble DEF ActiveList
  <2>. QED
    BY <1>1, <1>5, <2>3 DEF ActiveList
<1>7. prev' \in [Headers -> Headers \cup {Nil}]
  BY <1>3 DEF TypeOK, Set, Live
<1>. QED
  BY <1>1, <1>2, <1>5, <1>6, <1>7 DEF TypeOK

(* unlinkActiveAllocation takes the header out of the active list, at      *)
(* whatever place it is.                                                   *)
LEMMA UnlinkLists ==
    ASSUME TypeOK, ActiveList, NEW h \in Live, NEW freed \in Headers \cup {Nil},
           UnlinkActiveAllocation(h, freed)
    PROVE  /\ IsDoubleList(Live \ {h}, activeHead', next', prev', Nil)
           /\ next'[h] = freed
           /\ \A x \in Headers \ {h} : x # prev[h] => next'[x] = next[x]
           /\ prev[h] \in Live \cup {Nil}
           /\ prev[h] # Nil => next[prev[h]] = h
           /\ activeHead' \in Headers \cup {Nil}
           /\ next' \in [Headers -> Headers \cup {Nil}]
           /\ prev' \in [Headers -> Headers \cup {Nil}]
<1>. USE DEF UnlinkActiveAllocation
<1>1. Live \subseteq Headers /\ Nil \notin Live /\ Nil \notin Headers
  BY SlotFacts DEF Live
<1>2. /\ prev[h] \in Live \cup {Nil} /\ (prev[h] = Nil <=> h = activeHead)
      /\ prev[h] # Nil => next[prev[h]] = h
  BY <1>1, BackLinks DEF ActiveList
<1>3. next[h] \in (Live \ {activeHead}) \cup {Nil} /\ next[h] # h
  BY <1>1, DoubleIsSingle, FirstOfList DEF ActiveList
<1>4. /\ \A x \in Headers \ {h} : next'[x] = IF x = prev[h] THEN next[h] ELSE next[x]
      /\ next'[h] = freed
  BY <1>1, <1>2 DEF TypeOK, Set
<1>5. \A x \in Headers \ {h} : prev'[x] = IF x = next[h] THEN prev[h] ELSE prev[x]
  BY <1>1, <1>3 DEF TypeOK, Set
<1>6. activeHead' = IF activeHead = h THEN next[h] ELSE activeHead
  BY <1>2
<1>7. IsDoubleList(Live \ {h}, activeHead', next', prev', Nil)
  <2>1. Unlinks(h, Live, activeHead, activeHead', next, prev, next', prev', Nil)
    BY <1>1, <1>4, <1>5, <1>6 DEF Unlinks
  <2>. QED
    BY <1>1, <2>1, Unlink DEF ActiveList
<1>8. /\ activeHead' \in Headers \cup {Nil}
      /\ next' \in [Headers -> Headers \cup {Nil}]
      /\ prev' \in [Headers -> Headers \cup {Nil}]
  BY <1>1, <1>2, <1>3 DEF TypeOK, Set
<1>. QED
  BY <1>2, <1>4, <1>7, <1>8

(* linkNonFullSlabPage and unlinkNonFullSlabPage do the same with pages.   *)
LEMMA LinkPage ==
    ASSUME TypeOK, NonFullList, NEW p \in Pages \ WithRoom, LinkNonFullSlabPage(p)
    PROVE  /\ IsDoubleList(WithRoom \cup {p}, nonFullPages', nextNonFull', prevNonFull', Nil)
           /\ \A q \in Pages \ (WithRoom \cup {p}) :
                 nextNonFull'[q] = Nil /\ prevNonFull'[q] = Nil
           /\ nonFullPages' \in Pages \cup {Nil}
           /\ nextNonFull' \in [Pages -> Pages \cup {Nil}]
           /\ prevNonFull' \in [Pages -> Pages \cup {Nil}]
<1>. USE DEF LinkNonFullSlabPage
<1>1. WithRoom \subseteq Pages /\ Nil \notin WithRoom /\ Nil \notin Pages
  BY SlotFacts DEF WithRoom, TypeOK
<1>2. nonFullPages # Nil => nonFullPages \in WithRoom
  BY <1>1, DoubleIsSingle, FirstOfList DEF NonFullList
<1>3. /\ prevNonFull'[p] = Nil
      /\ \A x \in Pages \ {p} : prevNonFull'[x] = IF x = nonFullPages THEN p ELSE prevNonFull[x]
  BY <1>1, <1>2 DEF TypeOK, Set
<1>4. /\ nextNonFull'[p] = nonFullPages /\ nonFullPages' = p
      /\ \A x \in Pages \ {p} : nextNonFull'[x] = nextNonFull[x]
  BY DEF TypeOK
<1>5. IsDoubleList(WithRoom \cup {p}, p, nextNonFull', prevNonFull', Nil)
  <2>1. PushesFront(p, WithRoom, nonFullPages, nextNonFull, prevNonFull,
                    nextNonFull', prevNonFull', Nil)
    BY <1>1, <1>3, <1>4 DEF PushesFront
  <2>2. IsDoubleList(WithRoom, nonFullPages, nextNonFull, prevNonFull, Nil)
    BY DEF NonFullList
  <2>. QED
    BY <1>1, <2>1, <2>2, PushFrontDouble
<1>6. ASSUME NEW q \in Pages \ (WithRoom \cup {p})
      PROVE  nextNonFull'[q] = Nil /\ prevNonFull'[q] = Nil
  <2>1. nextNonFull[q] = Nil /\ prevNonFull[q] = Nil
    BY DEF NonFullList
  <2>. QED
    BY <1>1, <1>2, <1>3, <1>4, <2>1
<1>7. prevNonFull' \in [Pages -> Pages \cup {Nil}] /\ nextNonFull' \in [Pages -> Pages \cup {Nil}]
  BY <1>1, <1>2 DEF TypeOK, Set
<1>. QED
  BY <1>4, <1>5, <1>6, <1>7

(* A page that is in no list is left alone, as its links are clear.        *)
LEMMA UnlinkPage ==
    ASSUME TypeOK, NonFullList, NEW p \in Pages, UnlinkNonFullSlabPage(p)
    PROVE  /\ IsDoubleList(WithRoom \ {p}, nonFullPages', nextNonFull', prevNonFull', Nil)
           /\ \A q \in Pages \ (WithRoom \ {p}) :
                 nextNonFull'[q] = Nil /\ prevNonFull'[q] = Nil
           /\ nonFullPages' \in Pages \cup {Nil}
           /\ nextNonFull' \in [Pages -> Pages \cup {Nil}]
           /\ prevNonFull' \in [Pages -> Pages \cup {Nil}]
<1>1. WithRoom \subseteq Pages /\ Nil \notin WithRoom /\ Nil \notin Pages
  BY SlotFacts DEF WithRoom, TypeOK
<1>2. nonFullPages # Nil => nonFullPages \in WithRoom
  BY <1>1, DoubleIsSingle, FirstOfList DEF NonFullList
<1>3. CASE p \notin WithRoom
  <2>1. nextNonFull[p] = Nil /\ prevNonFull[p] = Nil /\ nonFullPages # p
    BY <1>1, <1>2, <1>3 DEF NonFullList
  <2>2. UNCHANGED nonFull
    BY <2>1 DEF UnlinkNonFullSlabPage, IsSlabPageLinked
  <2>3. WithRoom \ {p} = WithRoom
    BY <1>3
  <2>. QED
    BY <2>2, <2>3 DEF NonFullList, TypeOK, nonFull
<1>4. CASE p \in WithRoom
  <2>1. /\ prevNonFull[p] \in WithRoom \cup {Nil} /\ (prevNonFull[p] = Nil <=> p = nonFullPages)
        /\ prevNonFull[p] # Nil => nextNonFull[prevNonFull[p]] = p
    BY <1>1, <1>4, BackLinks DEF NonFullList
  <2>2. nextNonFull[p] \in (WithRoom \ {nonFullPages}) \cup {Nil} /\ nextNonFull[p] # p
    BY <1>1, <1>4, DoubleIsSingle, FirstOfList DEF NonFullList
  <2>3. /\ nonFullPages' = IF nonFullPages = p THEN nextNonFull[p] ELSE nonFullPages
        /\ nextNonFull' =
             [Set(nextNonFull, prevNonFull[p], nextNonFull[p]) EXCEPT ![p] = Nil]
        /\ prevNonFull' =
             [Set(prevNonFull, nextNonFull[p], prevNonFull[p]) EXCEPT ![p] = Nil]
    BY <2>1 DEF UnlinkNonFullSlabPage, IsSlabPageLinked
  <2>4. /\ \A x \in Pages \ {p} :
             nextNonFull'[x] = IF x = prevNonFull[p] THEN nextNonFull[p] ELSE nextNonFull[x]
        /\ nextNonFull'[p] = Nil
    BY <1>1, <2>1, <2>3 DEF TypeOK, Set
  <2>5. /\ \A x \in Pages \ {p} :
             prevNonFull'[x] = IF x = nextNonFull[p] THEN prevNonFull[p] ELSE prevNonFull[x]
        /\ prevNonFull'[p] = Nil
    BY <1>1, <2>2, <2>3 DEF TypeOK, Set
  <2>6. IsDoubleList(WithRoom \ {p}, nonFullPages', nextNonFull', prevNonFull', Nil)
    <3>1. Unlinks(p, WithRoom, nonFullPages, nonFullPages', nextNonFull, prevNonFull,
                  nextNonFull', prevNonFull', Nil)
      BY <1>1, <2>3, <2>4, <2>5 DEF Unlinks
    <3>2. IsDoubleList(WithRoom, nonFullPages, nextNonFull, prevNonFull, Nil)
      BY DEF NonFullList
    <3>. QED
      BY <1>1, <1>4, <3>1, <3>2, Unlink
  <2>7. \A q \in Pages \ (WithRoom \ {p}) : nextNonFull'[q] = Nil /\ prevNonFull'[q] = Nil
    BY <1>1, <2>1, <2>2, <2>4, <2>5 DEF NonFullList
  <2>8. /\ nextNonFull' \in [Pages -> Pages \cup {Nil}]
        /\ prevNonFull' \in [Pages -> Pages \cup {Nil}]
        /\ nonFullPages' \in Pages \cup {Nil}
    BY <1>1, <1>2, <2>1, <2>2, <2>3 DEF TypeOK, Set
  <2>. QED
    BY <2>6, <2>7, <2>8
<1>. QED
  BY <1>3, <1>4

-----------------------------------------------------------------------------
(* An empty heap.                                                          *)
LEMMA HeapInit == Init => HeapInv
<1>. SUFFICES ASSUME Init PROVE HeapInv
  OBVIOUS
<1>1. TypeOK
  <2>1. 0 \in 0 .. SlotsPerPage
    BY PagesAssumption
  <2>2. /\ next \in [Headers -> Headers \cup {Nil}] /\ prev \in [Headers -> Headers \cup {Nil}]
        /\ live \in [Headers -> BOOLEAN] /\ marked \in [Headers -> BOOLEAN]
        /\ elementCount \in [Headers -> Nat]
    BY DEF Init
  <2>3. /\ nextUnused \in [Pages -> 0 .. SlotsPerPage]
        /\ liveCount \in [Pages -> 0 .. SlotsPerPage]
        /\ freeList \in [Pages -> SlabHeaders \cup {Nil}]
        /\ nextNonFull \in [Pages -> Pages \cup {Nil}]
        /\ prevNonFull \in [Pages -> Pages \cup {Nil}]
    BY <2>1 DEF Init
  <2>. QED
    BY <2>2, <2>3 DEF Init, TypeOK
<1>2. Live = {} /\ WithRoom = {}
  BY DEF Init, Live, WithRoom
<1>3. ActiveList /\ NonFullList
  BY <1>2, EmptyList DEF Init, ActiveList, NonFullList
<1>4. FreeLists /\ PagesHoldLiveSlots /\ SweepRemains
  BY <1>2 DEF Init, FreeLists, PagesHoldLiveSlots, SweepRemains
<1>. QED
  BY <1>1, <1>2, <1>3, <1>4 DEF Init, HeapInv

(* Pages are mapped from the set malloc chooses from.                      *)
LEMMA RoomFacts ==
    ASSUME HeapInv
    PROVE  /\ nonFullPages # Nil => nonFullPages \in WithRoom
           /\ nonFullPages = Nil => WithRoom = {}
           /\ WithRoom \subseteq mapped /\ mapped \subseteq Pages
<1>1. WithRoom \subseteq mapped /\ mapped \subseteq Pages /\ Nil \notin WithRoom
  BY SlotFacts DEF HeapInv, TypeOK, WithRoom
<1>2. IsList(WithRoom, nonFullPages, nextNonFull, Nil)
  BY DoubleIsSingle DEF HeapInv, NonFullList
<1>. QED
  BY <1>1, <1>2, FirstOfList

(* A page whose slots, counts and links a step leaves alone.               *)
LEMMA PageFrame ==
    ASSUME NEW q, PageAccounted(q), freeList'[q] = freeList[q],
           nextUnused'[q] = nextUnused[q], liveCount'[q] = liveCount[q],
           \A x \in SlotsOf(q) : x \in Live' <=> x \in Live,
           \A x \in SlotsOf(q) \ Live : next'[x] = next[x]
    PROVE  PageAccounted(q)'
<1>1. Used(q)' = Used(q) /\ Used(q) \subseteq SlotsOf(q)
  BY DEF Used
<1>2. Used(q)' \ Live' = Used(q) \ Live /\ Live' \cap SlotsOf(q) = Live \cap SlotsOf(q)
  BY <1>1
<1>3. \A x \in Used(q) \ Live : next'[x] = next[x]
  BY <1>1
<1>4. IsList(Used(q) \ Live, freeList[q], next', Nil)
  BY <1>3, ListFrame DEF PageAccounted
<1>. QED
  BY <1>1, <1>2, <1>4 DEF PageAccounted

(* A page with room yields a slot that is not live, and keeps its free     *)
(* list although the link of the slot now serves the active list.          *)
LEMMA TakesFreeSlot ==
    ASSUME HeapInv, NEW p \in WithRoom, NEW h, TakeSlot(p, h)
    PROVE  /\ h \in SlotsOf(p) \ Live /\ h \in Used(p)' /\ Used(p) \subseteq Used(p)'
           /\ freeList' \in [Pages -> SlabHeaders \cup {Nil}]
           /\ nextUnused' \in [Pages -> 0 .. SlotsPerPage]
           /\ \A q \in Pages \ {p} : freeList'[q] = freeList[q] /\ nextUnused'[q] = nextUnused[q]
           /\ (\A x \in Headers \ {h} : next'[x] = next[x])
                => IsList(Used(p)' \ (Live \cup {h}), freeList'[p], next', Nil)
<1>. DEFINE F == Used(p) \ Live
<1>1. p \in Pages /\ p \in mapped /\ PageAccounted(p)
  BY RoomFacts DEF HeapInv, FreeLists
<1>2. F \subseteq SlotsOf(p) /\ Nil \notin F /\ F \subseteq SlabHeaders /\ F \subseteq Headers
  BY <1>1, SlotFacts DEF Used, Headers
<1>3. IsList(F, freeList[p], next, Nil)
  BY <1>1 DEF PageAccounted
<1>4. CASE freeList[p] # Nil
  <2>1. h = freeList[p] /\ freeList' = [freeList EXCEPT ![p] = next[h]] /\ nextUnused' = nextUnused
    BY <1>4 DEF TakeSlot
  <2>2. h \in F /\ next[h] \in F \cup {Nil}
    BY <1>2, <1>3, <1>4, <2>1, FirstOfList
  <2>3. Used(p)' = Used(p)
    BY <2>1 DEF Used
  <2>4. freeList'[p] = next[h]
    BY <1>1, <2>1 DEF HeapInv, TypeOK
  <2>5. ASSUME \A x \in Headers \ {h} : next'[x] = next[x]
        PROVE  IsList(Used(p)' \ (Live \cup {h}), freeList'[p], next', Nil)
    <3>1. \A x \in F \ {h} : next'[x] = next[x]
      BY <1>2, <2>5
    <3>2. IsList(F \ {h}, next[h], next', Nil)
      BY <1>2, <1>3, <2>1, <2>2, <3>1, PopFront
    <3>3. Used(p)' \ (Live \cup {h}) = F \ {h}
      BY <2>3
    <3>. QED
      BY <2>4, <3>2, <3>3
  <2>6. freeList' \in [Pages -> SlabHeaders \cup {Nil}]
    BY <1>2, <2>1, <2>2 DEF HeapInv, TypeOK
  <2>7. \A q \in Pages \ {p} : freeList'[q] = freeList[q] /\ nextUnused'[q] = nextUnused[q]
    BY <2>1 DEF HeapInv, TypeOK
  <2>. QED
    BY <1>2, <2>1, <2>2, <2>3, <2>5, <2>6, <2>7 DEF HeapInv, TypeOK
<1>5. CASE freeList[p] = Nil
  <2>1. /\ h = <<p, nextUnused[p] + 1>> /\ freeList' = freeList
        /\ nextUnused' = [nextUnused EXCEPT ![p] = @ + 1]
    BY <1>5 DEF TakeSlot
  <2>2. F = {}
    BY <1>2, <1>3, <1>5, FirstOfList
  <2>3. nextUnused[p] \in Nat /\ nextUnused[p] + 1 \in 1 .. SlotsPerPage
    BY <1>1, <1>5, PagesAssumption DEF WithRoom, HasFreeSlots, HeapInv, TypeOK
  <2>4. h \in SlotsOf(p) /\ h[2] = nextUnused[p] + 1
    BY <2>1, <2>3 DEF SlotsOf
  <2>5. h \notin Used(p) /\ h \notin Live
    BY <1>1, <2>3, <2>4 DEF Used, PageAccounted
  <2>6. nextUnused'[p] = nextUnused[p] + 1
    BY <1>1, <2>1 DEF HeapInv, TypeOK
  <2>7. Used(p)' = Used(p) \cup {h}
    <3>1. ASSUME NEW x \in SlotsOf(p)
          PROVE  x[2] <= nextUnused[p] + 1 <=> x[2] <= nextUnused[p] \/ x = h
      <4>1. x[2] \in 1 .. SlotsPerPage /\ x = <<p, x[2]>>
        BY <1>1, SlotFacts
      <4>2. x = h <=> x[2] = nextUnused[p] + 1
        BY <2>1, <2>4, <4>1
      <4>. QED
        BY <2>3, <4>1, <4>2
    <3>. QED
      BY <2>4, <2>6, <3>1 DEF Used
  <2>8. Used(p)' \ (Live \cup {h}) = {} /\ freeList'[p] = Nil
    BY <1>5, <2>1, <2>2, <2>7
  <2>9. IsList({}, Nil, next', Nil)
    BY EmptyList, DoubleIsSingle
  <2>10. nextUnused' \in [Pages -> 0 .. SlotsPerPage]
    <3>1. nextUnused[p] + 1 \in 0 .. SlotsPerPage
      BY <2>3
    <3>. QED
      BY <2>1, <3>1 DEF HeapInv, TypeOK
  <2>11. \A q \in Pages \ {p} : freeList'[q] = freeList[q] /\ nextUnused'[q] = nextUnused[q]
    BY <2>1 DEF HeapInv, TypeOK
  <2>. QED
    BY <2>1, <2>4, <2>5, <2>7, <2>8, <2>9, <2>10, <2>11 DEF HeapInv, TypeOK
<1>. QED
  BY <1>4, <1>5

(* An allocation from a page with room.                                    *)
LEMMA HeapAllocateInPage ==
    ASSUME HeapInv, NEW h \in SlabHeaders, AllocateInPage(h)
    PROVE  HeapInv'
<1>0. PICK p : p = nonFullPages
  OBVIOUS
<1>1. p \in WithRoom /\ p \in mapped /\ p \in Pages /\ PageAccounted(p)
  BY <1>0, RoomFacts DEF AllocateInPage, HeapInv, FreeLists
<1>2. /\ TakeSlot(p, h) /\ InitializeHeader(h, 1)
      /\ liveCount' = [liveCount EXCEPT ![p] = @ + 1]
      /\ IF HasFreeSlots(freeList'[p], nextUnused'[p])
         THEN UNCHANGED nonFull ELSE UnlinkNonFullSlabPage(p)
      /\ trackedBytes' = trackedBytes + ObjectBytes
      /\ UNCHANGED <<mapped, registered, sweep, aborted>> /\ phase = "mutate"
  BY <1>0 DEF AllocateInPage
<1>3. /\ h \in SlotsOf(p) \ Live /\ h \in Used(p)' /\ Used(p) \subseteq Used(p)'
      /\ freeList' \in [Pages -> SlabHeaders \cup {Nil}]
      /\ nextUnused' \in [Pages -> 0 .. SlotsPerPage]
      /\ \A q \in Pages \ {p} : freeList'[q] = freeList[q] /\ nextUnused'[q] = nextUnused[q]
      /\ (\A x \in Headers \ {h} : next'[x] = next[x])
           => IsList(Used(p)' \ (Live \cup {h}), freeList'[p], next', Nil)
  BY <1>1, <1>2, TakesFreeSlot
<1>4. h \in Headers \ Live /\ h \notin Blocks /\ PageOf(h) = p
  BY <1>1, <1>3, SlotFacts DEF Headers
<1>5. /\ Live' = Live \cup {h} /\ ActiveList'
      /\ \A x \in Headers \ {h} : next'[x] = next[x]
      /\ activeHead' \in Headers \cup {Nil}
      /\ next' \in [Headers -> Headers \cup {Nil}]
      /\ prev' \in [Headers -> Headers \cup {Nil}]
      /\ live' \in [Headers -> BOOLEAN] /\ marked' \in [Headers -> BOOLEAN]
      /\ elementCount' \in [Headers -> Nat]
  BY <1>2, <1>4, InitializeLists DEF HeapInv
<1>6. /\ liveCount'[p] = Cardinality(Live' \cap SlotsOf(p))
      /\ liveCount'[p] \in 0 .. SlotsPerPage
      /\ \A q \in Pages \ {p} : liveCount'[q] = liveCount[q]
  <2>1. Live' \cap SlotsOf(p) = (Live \cap SlotsOf(p)) \cup {h}
    BY <1>3, <1>5
  <2>2. Cardinality(Live' \cap SlotsOf(p)) = Cardinality(Live \cap SlotsOf(p)) + 1
    <3>1. IsFiniteSet(Live \cap SlotsOf(p)) /\ h \notin Live \cap SlotsOf(p)
      BY <1>1, <1>3, SlotCount
    <3>. QED
      BY <2>1, <3>1, FS_AddElement
  <2>3. Cardinality(Live' \cap SlotsOf(p)) \in 0 .. SlotsPerPage
    BY <1>1, SlotCount
  <2>4. liveCount'[p] = liveCount[p] + 1 /\ \A q \in Pages \ {p} : liveCount'[q] = liveCount[q]
    BY <1>1, <1>2 DEF HeapInv, TypeOK
  <2>. QED
    BY <1>1, <2>2, <2>3, <2>4 DEF PageAccounted
<1>7. FreeLists'
  <2>1. PageAccounted(p)'
    <3>1. Live' \cap SlotsOf(p) \subseteq Used(p)'
      BY <1>1, <1>3, <1>5 DEF PageAccounted
    <3>2. IsList(Used(p)' \ Live', freeList'[p], next', Nil)
      BY <1>3, <1>5
    <3>. QED
      BY <1>6, <3>1, <3>2 DEF PageAccounted
  <2>2. ASSUME NEW q \in mapped, q # p PROVE PageAccounted(q)'
    <3>1. q \in Pages /\ PageAccounted(q)
      BY DEF HeapInv, FreeLists, TypeOK
    <3>2. h \notin SlotsOf(q) /\ SlotsOf(q) \subseteq Headers
      BY <1>4, <2>2, <3>1, SlotFacts DEF Headers
    <3>. QED
      BY <1>3, <1>5, <1>6, <2>2, <3>1, <3>2, PageFrame
  <2>. QED
    BY <1>2, <2>1, <2>2 DEF FreeLists
<1>8. NonFullList' /\ nonFullPages' \in Pages \cup {Nil}
      /\ nextNonFull' \in [Pages -> Pages \cup {Nil}]
      /\ prevNonFull' \in [Pages -> Pages \cup {Nil}]
  <2>1. CASE HasFreeSlots(freeList'[p], nextUnused'[p])
    <3>1. WithRoom' = WithRoom
      BY <1>1, <1>2, <1>3, <2>1, RoomFacts DEF WithRoom
    <3>. QED
      BY <1>2, <2>1, <3>1 DEF NonFullList, nonFull, HeapInv, TypeOK
  <2>2. CASE ~HasFreeSlots(freeList'[p], nextUnused'[p])
    <3>1. WithRoom' = WithRoom \ {p}
      BY <1>1, <1>2, <1>3, <2>2, RoomFacts DEF WithRoom
    <3>2. UnlinkNonFullSlabPage(p) /\ TypeOK /\ NonFullList
      BY <1>2, <2>2 DEF HeapInv
    <3>. QED
      BY <1>1, <3>1, <3>2, UnlinkPage DEF NonFullList
  <2>. QED
    BY <2>1, <2>2
<1>9. liveCount' \in [Pages -> 0 .. SlotsPerPage]
  BY <1>1, <1>2, <1>6 DEF HeapInv, TypeOK
<1>10. TypeOK'
  BY <1>2, <1>3, <1>5, <1>8, <1>9, SizesAssumption DEF HeapInv, TypeOK, sweep
<1>11. PagesHoldLiveSlots' /\ registered' = Live' \cap Blocks
  BY <1>1, <1>2, <1>4, <1>5 DEF HeapInv, PagesHoldLiveSlots
<1>. QED
  BY <1>2, <1>5, <1>7, <1>8, <1>10, <1>11 DEF HeapInv, SweepRemains, sweep

(* What the pages outside a step keep: it changed no page but p, and no    *)
(* link of a header that is not live elsewhere.                            *)
LEMMA OtherPages ==
    ASSUME HeapInv, NEW p, NEW q \in mapped, q # p,
           freeList'[q] = freeList[q], nextUnused'[q] = nextUnused[q],
           liveCount'[q] = liveCount[q],
           \A x \in SlotsOf(q) : x \in Live' <=> x \in Live,
           \A x \in SlotsOf(q) \ Live : next'[x] = next[x]
    PROVE  PageAccounted(q)'
<1>1. PageAccounted(q)
  BY DEF HeapInv, FreeLists
<1>. QED
  BY <1>1, PageFrame

(* An allocation that finds no page with room.                             *)
LEMMA HeapAllocateInNewPage ==
    ASSUME HeapInv, NEW p \in Pages, AllocateInNewPage(p)
    PROVE  HeapInv'
<1>. DEFINE h == <<p, 1>>
<1>1. /\ InitializeHeader(h, 1) /\ phase = "mutate" /\ nonFullPages = Nil /\ p \notin mapped
      /\ mapped' = mapped \cup {p}
      /\ nextUnused' = [nextUnused EXCEPT ![p] = 1]
      /\ liveCount' = [liveCount EXCEPT ![p] = 1]
      /\ freeList' = [freeList EXCEPT ![p] = Nil]
      /\ nonFullPages' = IF SlotsPerPage > 1 THEN p ELSE Nil
      /\ nextNonFull' = [nextNonFull EXCEPT ![p] = Nil]
      /\ prevNonFull' = [prevNonFull EXCEPT ![p] = Nil]
      /\ trackedBytes' = trackedBytes + ObjectBytes
      /\ UNCHANGED <<registered, sweep, aborted>>
  BY DEF AllocateInNewPage
<1>2. h \in SlotsOf(p) /\ h \in SlabHeaders /\ h[2] = 1 /\ PageOf(h) = p
  BY PagesAssumption DEF SlotsOf, SlabHeaders, PageOf
<1>. HIDE DEF h
<1>3. Live \cap SlotsOf(p) = {}
  BY <1>1, SlotFacts DEF HeapInv, PagesHoldLiveSlots
<1>4. h \in Headers \ Live /\ h \notin Blocks
  BY <1>2, <1>3, SlotFacts DEF Headers
<1>5. /\ Live' = Live \cup {h} /\ ActiveList'
      /\ \A x \in Headers \ {h} : next'[x] = next[x]
      /\ activeHead' \in Headers \cup {Nil}
      /\ next' \in [Headers -> Headers \cup {Nil}]
      /\ prev' \in [Headers -> Headers \cup {Nil}]
      /\ live' \in [Headers -> BOOLEAN] /\ marked' \in [Headers -> BOOLEAN]
      /\ elementCount' \in [Headers -> Nat]
  BY <1>1, <1>4, InitializeLists DEF HeapInv
<1>6. /\ freeList'[p] = Nil /\ nextUnused'[p] = 1 /\ liveCount'[p] = 1
      /\ \A q \in Pages \ {p} : /\ freeList'[q] = freeList[q]
                                /\ nextUnused'[q] = nextUnused[q]
                                /\ liveCount'[q] = liveCount[q]
      /\ freeList' \in [Pages -> SlabHeaders \cup {Nil}]
      /\ nextUnused' \in [Pages -> 0 .. SlotsPerPage]
      /\ liveCount' \in [Pages -> 0 .. SlotsPerPage]
  BY <1>1, PagesAssumption DEF HeapInv, TypeOK
<1>7. PageAccounted(p)'
  <2>1. Used(p)' = {h}
    <3>1. \A x \in SlotsOf(p) : x[2] <= 1 <=> x = h
      BY <1>2, SlotFacts
    <3>. QED
      BY <1>2, <1>6, <3>1 DEF Used
  <2>2. Live' \cap SlotsOf(p) = {h}
    BY <1>2, <1>3, <1>5
  <2>3. Cardinality({h}) = 1
    BY FS_Singleton
  <2>4. Used(p)' \ Live' = {} /\ IsList({}, Nil, next', Nil)
    BY <1>5, <2>1, EmptyList, DoubleIsSingle
  <2>. QED
    BY <1>6, <2>1, <2>2, <2>3, <2>4 DEF PageAccounted
<1>8. FreeLists'
  <2>1. ASSUME NEW q \in mapped PROVE PageAccounted(q)'
    <3>1. q \in Pages /\ q # p
      BY <1>1 DEF HeapInv, TypeOK
    <3>2. h \notin SlotsOf(q) /\ SlotsOf(q) \subseteq Headers
      BY <1>2, <3>1, SlotFacts DEF Headers
    <3>. QED
      BY <1>5, <1>6, <3>1, <3>2, OtherPages
  <2>. QED
    BY <1>1, <1>7, <2>1 DEF FreeLists
<1>9. NonFullList' /\ nonFullPages' \in Pages \cup {Nil}
      /\ nextNonFull' \in [Pages -> Pages \cup {Nil}]
      /\ prevNonFull' \in [Pages -> Pages \cup {Nil}]
  <2>1. WithRoom = {} /\ mapped \subseteq Pages
    BY <1>1, RoomFacts
  <2>2. WithRoom' = IF SlotsPerPage > 1 THEN {p} ELSE {}
    <3>1. \A q \in mapped : ~HasFreeSlots(freeList'[q], nextUnused'[q])
      BY <1>1, <1>6, <2>1 DEF WithRoom
    <3>2. HasFreeSlots(freeList'[p], nextUnused'[p]) <=> SlotsPerPage > 1
      BY <1>6, PagesAssumption DEF HasFreeSlots
    <3>. QED
      BY <1>1, <3>1, <3>2 DEF WithRoom
  <2>3. \A q \in Pages : nextNonFull'[q] = Nil /\ prevNonFull'[q] = Nil
    BY <1>1, <2>1 DEF NonFullList, HeapInv, TypeOK
  <2>4. IsDoubleList({p}, p, nextNonFull', prevNonFull', Nil)
    <3>1. PushesFront(p, {}, Nil, nextNonFull, prevNonFull, nextNonFull', prevNonFull', Nil)
      BY <2>3 DEF PushesFront
    <3>2. IsDoubleList({}, Nil, nextNonFull, prevNonFull, Nil)
      BY EmptyList
    <3>3. IsDoubleList({} \cup {p}, p, nextNonFull', prevNonFull', Nil)
      BY <3>1, <3>2, SlotFacts, PushFrontDouble
    <3>4. {} \cup {p} = {p}
      OBVIOUS
    <3>. QED
      BY <3>3, <3>4
  <2>5. IsDoubleList({}, Nil, nextNonFull', prevNonFull', Nil)
    BY EmptyList
  <2>6. IsDoubleList(WithRoom', nonFullPages', nextNonFull', prevNonFull', Nil)
    BY <1>1, <2>2, <2>4, <2>5
  <2>7. nextNonFull' \in [Pages -> Pages \cup {Nil}] /\ prevNonFull' \in [Pages -> Pages \cup {Nil}]
        /\ nonFullPages' \in Pages \cup {Nil}
    BY <1>1 DEF HeapInv, TypeOK
  <2>. QED
    BY <2>3, <2>6, <2>7 DEF NonFullList
<1>10. TypeOK'
  BY <1>1, <1>5, <1>6, <1>9, SizesAssumption DEF HeapInv, TypeOK, sweep
<1>11. PagesHoldLiveSlots' /\ registered' = Live' \cap Blocks
  BY <1>1, <1>2, <1>4, <1>5 DEF HeapInv, PagesHoldLiveSlots
<1>. QED
  BY <1>1, <1>5, <1>8, <1>9, <1>10, <1>11 DEF HeapInv, SweepRemains, sweep

(* The allocation of an array.                                             *)
LEMMA HeapAllocateSystem ==
    ASSUME HeapInv, NEW b \in Blocks, NEW count \in ArrayLengths, AllocateSystem(b, count)
    PROVE  HeapInv'
<1>1. /\ InitializeHeader(b, count) /\ phase = "mutate" /\ b \notin registered
      /\ registered' = registered \cup {b}
      /\ trackedBytes' = trackedBytes + count
      /\ UNCHANGED <<slab, nonFull, sweep, aborted>>
  BY DEF AllocateSystem
<1>2. b \in Headers \ Live /\ b \notin SlabHeaders /\ count \in Nat
  BY <1>1, SizesAssumption, SlotFacts DEF HeapInv, Headers
<1>3. /\ Live' = Live \cup {b} /\ ActiveList'
      /\ \A x \in Headers \ {b} : next'[x] = next[x]
      /\ activeHead' \in Headers \cup {Nil}
      /\ next' \in [Headers -> Headers \cup {Nil}]
      /\ prev' \in [Headers -> Headers \cup {Nil}]
      /\ live' \in [Headers -> BOOLEAN] /\ marked' \in [Headers -> BOOLEAN]
      /\ elementCount' \in [Headers -> Nat]
  BY <1>1, <1>2, InitializeLists DEF HeapInv
<1>4. FreeLists'
  <2>1. ASSUME NEW q \in mapped PROVE PageAccounted(q)'
    <3>1. q \in Pages /\ PageAccounted(q)
      BY DEF HeapInv, TypeOK, FreeLists
    <3>2. b \notin SlotsOf(q) /\ SlotsOf(q) \subseteq Headers
      BY <1>2, <3>1, SlotFacts DEF Headers
    <3>. QED
      BY <1>1, <1>3, <3>1, <3>2, PageFrame DEF slab
  <2>. QED
    BY <1>1, <2>1 DEF FreeLists, slab
<1>5. NonFullList'
  <2>1. WithRoom' = WithRoom
    BY <1>1 DEF WithRoom, slab
  <2>. QED
    BY <1>1, <2>1 DEF NonFullList, nonFull, HeapInv
<1>6. TypeOK'
  <2>1. registered' \subseteq Blocks /\ trackedBytes' \in Nat
    BY <1>1, <1>2 DEF HeapInv, TypeOK
  <2>. QED
    BY <1>1, <1>3, <2>1 DEF HeapInv, TypeOK, sweep, slab, nonFull
<1>7. PagesHoldLiveSlots' /\ registered' = Live' \cap Blocks
  BY <1>1, <1>2, <1>3 DEF HeapInv, PagesHoldLiveSlots, slab
<1>. QED
  BY <1>1, <1>3, <1>4, <1>5, <1>6, <1>7 DEF HeapInv, SweepRemains, sweep

(* Steps that touch neither the lists nor the pages.                       *)
LEMMA HeapStorageUnchanged ==
    ASSUME HeapInv, UNCHANGED <<active, live, slab, nonFull, registered, aborted>>
    PROVE  /\ Live' = Live /\ ~aborted'
           /\ ActiveList' /\ FreeLists' /\ PagesHoldLiveSlots' /\ NonFullList'
           /\ registered' = Live' \cap Blocks
<1>1. Live' = Live /\ WithRoom' = WithRoom
  BY DEF Live, WithRoom, slab
<1>2. ASSUME NEW q \in mapped PROVE PageAccounted(q)'
  <2>1. PageAccounted(q)
    BY DEF HeapInv, FreeLists
  <2>. QED
    BY <1>1, <2>1, PageFrame DEF slab, active
<1>3. FreeLists'
  BY <1>2 DEF FreeLists, slab
<1>. QED
  BY <1>1, <1>3 DEF HeapInv, ActiveList, NonFullList, PagesHoldLiveSlots, active, slab, nonFull

(* A sweep starts with the whole active list before it.                    *)
LEMMA HeapBeginSweep ==
    ASSUME HeapInv, NEW survivors \in SUBSET Live, BeginSweep(survivors)
    PROVE  HeapInv'
<1>1. /\ phase' = "sweep" /\ cursor' = activeHead /\ bytesAfter' = 0
      /\ marked' = [h \in Headers |-> h \in survivors]
      /\ kept' = survivors
      /\ UNCHANGED <<active, live, elementCount, slab, nonFull, registered,
                     trackedBytes, aborted>>
  BY DEF BeginSweep
<1>2. /\ Live' = Live /\ ~aborted'
      /\ ActiveList' /\ FreeLists' /\ PagesHoldLiveSlots' /\ NonFullList'
      /\ registered' = Live' \cap Blocks
  BY <1>1, HeapStorageUnchanged
<1>3. SweepRemains'
  <2>1. Marked' = survivors
    BY <1>1 DEF Marked, Live
  <2>2. IsList(Live, cursor', next', Nil)
    BY <1>1, DoubleIsSingle DEF HeapInv, ActiveList, active
  <2>3. RemainsList(Live)'
    BY <1>1, <1>2, <2>1, <2>2 DEF RemainsList
  <2>. QED
    BY <1>2, <2>3 DEF SweepRemains
<1>4. TypeOK'
  <2>1. marked' \in [Headers -> BOOLEAN] /\ survivors \subseteq Headers
    BY <1>1 DEF Live
  <2>. QED
    BY <1>1, <2>1 DEF HeapInv, TypeOK, active, slab, nonFull
<1>. QED
  BY <1>2, <1>3, <1>4 DEF HeapInv

-----------------------------------------------------------------------------
(* What a reclaim leaves: the lists and the pages are right without the    *)
(* header, and of the links of the others only the one to it has changed.  *)
Reclaimed(h) ==
    /\ Live' = Live \ {h} /\ ~aborted'
    /\ ActiveList' /\ FreeLists' /\ PagesHoldLiveSlots' /\ NonFullList'
    /\ registered' = Live' \cap Blocks
    /\ \A x \in Headers \ {h} : next[x] # h => next'[x] = next[x]

ReclaimTypes ==
    /\ activeHead' \in Headers \cup {Nil}
    /\ next' \in [Headers -> Headers \cup {Nil}]
    /\ prev' \in [Headers -> Headers \cup {Nil}]
    /\ live' \in [Headers -> BOOLEAN]
    /\ mapped' \subseteq Pages /\ nextUnused' \in [Pages -> 0 .. SlotsPerPage]
    /\ liveCount' \in [Pages -> 0 .. SlotsPerPage]
    /\ freeList' \in [Pages -> SlabHeaders \cup {Nil}]
    /\ nonFullPages' \in Pages \cup {Nil}
    /\ nextNonFull' \in [Pages -> Pages \cup {Nil}]
    /\ prevNonFull' \in [Pages -> Pages \cup {Nil}]
    /\ registered' \subseteq Blocks /\ aborted' \in BOOLEAN

(* A header is cleared and taken out of the active list, wherever the      *)
(* reclaim then puts it.                                                   *)
LEMMA UnlinksHeader ==
    ASSUME HeapInv, NEW h \in Live, NEW freed \in Headers \cup {Nil},
           live' = [live EXCEPT ![h] = FALSE], UnlinkActiveAllocation(h, freed)
    PROVE  /\ Live' = Live \ {h} /\ ActiveList' /\ next'[h] = freed
           /\ \A x \in Headers \ {h} : next[x] # h => next'[x] = next[x]
           /\ \A x \in Headers \ Live : x # h => next'[x] = next[x]
           /\ activeHead' \in Headers \cup {Nil}
           /\ next' \in [Headers -> Headers \cup {Nil}]
           /\ prev' \in [Headers -> Headers \cup {Nil}]
           /\ live' \in [Headers -> BOOLEAN]
<1>1. TypeOK /\ ActiveList
  BY DEF HeapInv
<1>2. Live' = Live \ {h} /\ live' \in [Headers -> BOOLEAN] /\ h \in Headers
  BY <1>1 DEF TypeOK, Live
<1>3. /\ IsDoubleList(Live \ {h}, activeHead', next', prev', Nil)
      /\ next'[h] = freed
      /\ \A x \in Headers \ {h} : x # prev[h] => next'[x] = next[x]
      /\ prev[h] \in Live \cup {Nil}
      /\ prev[h] # Nil => next[prev[h]] = h
      /\ activeHead' \in Headers \cup {Nil}
      /\ next' \in [Headers -> Headers \cup {Nil}]
      /\ prev' \in [Headers -> Headers \cup {Nil}]
  BY <1>1, UnlinkLists
<1>4. \A x \in Headers : x # Nil
  BY SlotFacts
<1>. QED
  BY <1>2, <1>3, <1>4 DEF ActiveList

(* The reclaim of an array.                                                *)
LEMMA HeapReclaimSystem ==
    ASSUME HeapInv, NEW h \in Live, h \in Blocks, ReclaimAllocation(h)
    PROVE  Reclaimed(h) /\ ReclaimTypes
<1>1. /\ live' = [live EXCEPT ![h] = FALSE] /\ UnlinkActiveAllocation(h, Nil)
      /\ registered' = registered \ {h} /\ UNCHANGED <<slab, nonFull, aborted>>
  BY DEF ReclaimAllocation, ReclaimSystem
<1>2. /\ Live' = Live \ {h} /\ ActiveList' /\ next'[h] = Nil
      /\ \A x \in Headers \ {h} : next[x] # h => next'[x] = next[x]
      /\ \A x \in Headers \ Live : x # h => next'[x] = next[x]
      /\ activeHead' \in Headers \cup {Nil}
      /\ next' \in [Headers -> Headers \cup {Nil}]
      /\ prev' \in [Headers -> Headers \cup {Nil}]
      /\ live' \in [Headers -> BOOLEAN]
  BY <1>1, UnlinksHeader
<1>3. FreeLists'
  <2>1. ASSUME NEW q \in mapped PROVE PageAccounted(q)'
    <3>1. q \in Pages /\ PageAccounted(q)
      BY DEF HeapInv, TypeOK, FreeLists
    <3>2. h \notin SlotsOf(q) /\ SlotsOf(q) \subseteq Headers
      BY <3>1, SlotFacts DEF Headers
    <3>3. \A x \in SlotsOf(q) : x \in Live' <=> x \in Live
      BY <1>2, <3>2
    <3>4. \A x \in SlotsOf(q) \ Live : next'[x] = next[x]
      BY <1>2, <3>2
    <3>. QED
      BY <1>1, <3>1, <3>3, <3>4, PageFrame DEF slab
  <2>. QED
    BY <1>1, <2>1 DEF FreeLists, slab
<1>4. NonFullList'
  <2>1. WithRoom' = WithRoom
    BY <1>1 DEF WithRoom, slab
  <2>. QED
    BY <1>1, <2>1 DEF NonFullList, nonFull, HeapInv
<1>5. PagesHoldLiveSlots' /\ registered' = Live' \cap Blocks
  BY <1>1, <1>2, SlotFacts DEF HeapInv, PagesHoldLiveSlots, slab
<1>6. ~aborted' /\ ReclaimTypes
  BY <1>1, <1>2 DEF HeapInv, TypeOK, ReclaimTypes, slab, nonFull
<1>. QED
  BY <1>2, <1>3, <1>4, <1>5, <1>6 DEF Reclaimed

(* The reclaim of a slot: it goes to the free list of its page, unless it  *)
(* was the last live one and the page goes.                                *)
LEMMA HeapReclaimSlot ==
    ASSUME HeapInv, NEW h \in Live, h \notin Blocks, ReclaimAllocation(h)
    PROVE  Reclaimed(h) /\ ReclaimTypes
<1>0. PICK p : p = PageOf(h)
  OBVIOUS
<1>1. h \in SlabHeaders /\ h \in Headers /\ p \in Pages /\ h \in SlotsOf(p)
  BY <1>0, SlotFacts DEF Live, Headers
<1>2. p \in mapped /\ PageAccounted(p)
  BY <1>0, <1>1 DEF HeapInv, PagesHoldLiveSlots, FreeLists
<1>3. /\ live' = [live EXCEPT ![h] = FALSE] /\ UnlinkActiveAllocation(h, freeList[p])
      /\ freeList' = [freeList EXCEPT ![p] = h]
      /\ aborted' = (liveCount[p] = 0)
      /\ liveCount' = [liveCount EXCEPT ![p] = IF @ = 0 THEN 0 ELSE @ - 1]
      /\ IF liveCount[p] = 1 THEN ReleaseSlabPage(p) ELSE RelinkPage(p)
      /\ UNCHANGED <<nextUnused, registered>>
  BY <1>0 DEF ReclaimAllocation, ReclaimSlot
<1>4. freeList[p] \in Headers \cup {Nil}
  BY <1>1 DEF HeapInv, TypeOK, Headers
<1>5. /\ Live' = Live \ {h} /\ ActiveList' /\ next'[h] = freeList[p]
      /\ \A x \in Headers \ {h} : next[x] # h => next'[x] = next[x]
      /\ \A x \in Headers \ Live : x # h => next'[x] = next[x]
      /\ activeHead' \in Headers \cup {Nil}
      /\ next' \in [Headers -> Headers \cup {Nil}]
      /\ prev' \in [Headers -> Headers \cup {Nil}]
      /\ live' \in [Headers -> BOOLEAN]
  BY <1>3, <1>4, UnlinksHeader
<1>6. /\ liveCount[p] # 0 /\ liveCount[p] = Cardinality(Live \cap SlotsOf(p))
      /\ Cardinality(Live' \cap SlotsOf(p)) = liveCount[p] - 1
      /\ liveCount[p] - 1 \in 0 .. SlotsPerPage
      /\ liveCount[p] = 1 => Live' \cap SlotsOf(p) = {}
      /\ liveCount[p] # 1 => Live' \cap SlotsOf(p) # {}
  <2>1. Live' \cap SlotsOf(p) = (Live \cap SlotsOf(p)) \ {h}
    BY <1>5
  <2>2. /\ IsFiniteSet(Live \cap SlotsOf(p)) /\ h \in Live \cap SlotsOf(p)
        /\ Cardinality(Live \cap SlotsOf(p)) \in 0 .. SlotsPerPage
    BY <1>1, SlotCount
  <2>3. Cardinality(Live' \cap SlotsOf(p)) = Cardinality(Live \cap SlotsOf(p)) - 1
    BY <2>1, <2>2, FS_RemoveElement
  <2>4. /\ IsFiniteSet(Live' \cap SlotsOf(p))
        /\ Cardinality(Live' \cap SlotsOf(p)) \in 0 .. SlotsPerPage
    BY <1>1, SlotCount
  <2>5. Cardinality(Live' \cap SlotsOf(p)) = 0 <=> Live' \cap SlotsOf(p) = {}
    BY <2>4, FS_EmptySet
  <2>6. liveCount[p] = Cardinality(Live \cap SlotsOf(p))
    BY <1>2 DEF PageAccounted
  <2>. QED
    BY <2>2, <2>3, <2>4, <2>5, <2>6
<1>7. /\ freeList'[p] = h /\ liveCount'[p] = liveCount[p] - 1 /\ nextUnused' = nextUnused
      /\ \A q \in Pages \ {p} : freeList'[q] = freeList[q] /\ liveCount'[q] = liveCount[q]
      /\ freeList' \in [Pages -> SlabHeaders \cup {Nil}]
      /\ liveCount' \in [Pages -> 0 .. SlotsPerPage]
  BY <1>1, <1>3, <1>6 DEF HeapInv, TypeOK
<1>8. PageAccounted(p)'
  <2>1. Used(p)' = Used(p) /\ Used(p) \subseteq SlotsOf(p) /\ SlotsOf(p) \subseteq Headers
    BY <1>1, <1>7, SlotFacts DEF Used, Headers
  <2>2. h \in Used(p)
    BY <1>1, <1>2 DEF PageAccounted
  <2>3. Used(p)' \ Live' = (Used(p) \ Live) \cup {h}
    BY <1>5, <2>1, <2>2
  <2>4. IsList(Used(p) \ Live, freeList[p], next, Nil)
    BY <1>2 DEF PageAccounted
  <2>5. \A x \in Used(p) \ Live : next'[x] = next[x]
    BY <1>5, <2>1
  <2>6. IsList(Used(p) \ Live, freeList[p], next', Nil)
    BY <2>4, <2>5, ListFrame
  <2>7. h \notin Used(p) \ Live /\ Nil \notin (Used(p) \ Live) \cup {h}
    BY <1>1, <2>1, SlotFacts
  <2>8. IsList((Used(p) \ Live) \cup {h}, h, next', Nil)
    BY <1>5, <2>6, <2>7, PushFront
  <2>9. Live' \cap SlotsOf(p) \subseteq Used(p)'
    BY <1>2, <1>5, <2>1 DEF PageAccounted
  <2>. QED
    BY <1>6, <1>7, <2>3, <2>8, <2>9 DEF PageAccounted
<1>9. ASSUME NEW q \in mapped, q # p PROVE PageAccounted(q)'
  <2>1. q \in Pages
    BY DEF HeapInv, TypeOK
  <2>2. h \notin SlotsOf(q) /\ SlotsOf(q) \subseteq Headers
    BY <1>0, <1>9, <2>1, SlotFacts DEF Headers
  <2>3. \A x \in SlotsOf(q) : x \in Live' <=> x \in Live
    BY <1>5, <2>2
  <2>4. \A x \in SlotsOf(q) \ Live : next'[x] = next[x]
    BY <1>5, <2>2
  <2>. QED
    BY <1>7, <1>9, <2>1, <2>3, <2>4, OtherPages
<1>10. HasFreeSlots(freeList'[p], nextUnused'[p])
  BY <1>1, <1>7, SlotFacts DEF HasFreeSlots, Headers
<1>11. registered' = Live' \cap Blocks /\ ~aborted'
  BY <1>3, <1>5, <1>6 DEF HeapInv
<1>12. \A q \in mapped \ {p} :
         HasFreeSlots(freeList'[q], nextUnused'[q]) <=> HasFreeSlots(freeList[q], nextUnused[q])
  BY <1>7 DEF HeapInv, TypeOK
<1>13. /\ mapped' \subseteq Pages /\ FreeLists' /\ PagesHoldLiveSlots' /\ NonFullList'
       /\ nonFullPages' \in Pages \cup {Nil}
       /\ nextNonFull' \in [Pages -> Pages \cup {Nil}]
       /\ prevNonFull' \in [Pages -> Pages \cup {Nil}]
  <2>1. CASE liveCount[p] = 1
    <3>1. mapped' = mapped \ {p} /\ UnlinkNonFullSlabPage(p)
      BY <1>3, <2>1 DEF ReleaseSlabPage
    <3>2. WithRoom' = WithRoom \ {p}
      BY <1>12, <3>1 DEF WithRoom
    <3>3. /\ IsDoubleList(WithRoom \ {p}, nonFullPages', nextNonFull', prevNonFull', Nil)
          /\ \A q \in Pages \ (WithRoom \ {p}) :
                nextNonFull'[q] = Nil /\ prevNonFull'[q] = Nil
          /\ nonFullPages' \in Pages \cup {Nil}
          /\ nextNonFull' \in [Pages -> Pages \cup {Nil}]
          /\ prevNonFull' \in [Pages -> Pages \cup {Nil}]
      BY <1>1, <3>1, UnlinkPage DEF HeapInv
    <3>4. NonFullList'
      BY <3>2, <3>3 DEF NonFullList
    <3>5. FreeLists'
      BY <1>9, <3>1 DEF FreeLists
    <3>6. PagesHoldLiveSlots'
      <4>1. mapped = {PageOf(x) : x \in Live \cap SlabHeaders}
        BY DEF HeapInv, PagesHoldLiveSlots
      <4>2. \A x \in Live' \cap SlabHeaders : PageOf(x) # p
        BY <1>6, <2>1, SlotFacts
      <4>3. \A x \in (Live \cap SlabHeaders) \ (Live' \cap SlabHeaders) : PageOf(x) = p
        BY <1>0, <1>5
      <4>4. Live' \subseteq Live
        BY <1>5
      <4>. QED
        BY <3>1, <4>1, <4>2, <4>3, <4>4 DEF PagesHoldLiveSlots
    <3>. QED
      BY <3>1, <3>3, <3>4, <3>5, <3>6 DEF HeapInv, TypeOK
  <2>2. CASE liveCount[p] # 1
    <3>1. /\ mapped' = mapped
          /\ IF HasFreeSlots(freeList[p], nextUnused[p])
             THEN UNCHANGED nonFull ELSE LinkNonFullSlabPage(p)
      BY <1>3, <2>2 DEF RelinkPage
    <3>2. WithRoom' = WithRoom \cup {p}
      BY <1>2, <1>10, <1>12, <3>1 DEF WithRoom
    <3>3. NonFullList' /\ nonFullPages' \in Pages \cup {Nil}
          /\ nextNonFull' \in [Pages -> Pages \cup {Nil}]
          /\ prevNonFull' \in [Pages -> Pages \cup {Nil}]
      <4>1. CASE HasFreeSlots(freeList[p], nextUnused[p])
        <5>1. WithRoom' = WithRoom
          BY <1>2, <3>2, <4>1 DEF WithRoom
        <5>. QED
          BY <3>1, <4>1, <5>1 DEF NonFullList, nonFull, HeapInv, TypeOK
      <4>2. CASE ~HasFreeSlots(freeList[p], nextUnused[p])
        <5>1. p \in Pages \ WithRoom /\ LinkNonFullSlabPage(p) /\ TypeOK /\ NonFullList
          BY <1>1, <3>1, <4>2 DEF WithRoom, HeapInv
        <5>. QED
          BY <3>2, <5>1, LinkPage DEF NonFullList
      <4>. QED
        BY <4>1, <4>2
    <3>4. FreeLists'
      BY <1>8, <1>9, <3>1 DEF FreeLists
    <3>5. PagesHoldLiveSlots'
      <4>1. mapped = {PageOf(x) : x \in Live \cap SlabHeaders}
        BY DEF HeapInv, PagesHoldLiveSlots
      <4>2. PICK x \in Live' : x \in SlotsOf(p)
        BY <1>6, <2>2
      <4>3. x \in Live' \cap SlabHeaders /\ PageOf(x) = p
        BY <1>1, <4>2, SlotFacts
      <4>4. Live' \subseteq Live /\ \A y \in Live \ Live' : PageOf(y) = p
        BY <1>0, <1>5
      <4>. QED
        BY <3>1, <4>1, <4>3, <4>4 DEF PagesHoldLiveSlots
    <3>. QED
      BY <3>1, <3>3, <3>4, <3>5 DEF HeapInv, TypeOK
  <2>. QED
    BY <2>1, <2>2
<1>14. ReclaimTypes
  <2>1. registered' \subseteq Blocks /\ aborted' \in BOOLEAN
        /\ nextUnused' \in [Pages -> 0 .. SlotsPerPage]
    BY <1>3 DEF HeapInv, TypeOK
  <2>. QED
    BY <1>5, <1>7, <1>13, <2>1 DEF ReclaimTypes
<1>. QED
  BY <1>5, <1>11, <1>13, <1>14 DEF Reclaimed

-----------------------------------------------------------------------------
(* A step of the sweep takes the first header of what is left, and no link *)
(* of the rest leads back to it.                                           *)
LEMMA HeapSweepHeader ==
    ASSUME HeapInv, SweepHeader
    PROVE  HeapInv'
<1>1. /\ phase = "sweep" /\ cursor # Nil /\ phase' = phase /\ kept' = kept
      /\ cursor' = next[cursor] /\ marked' = [marked EXCEPT ![cursor] = FALSE]
      /\ UNCHANGED <<elementCount, trackedBytes>>
  BY DEF SweepHeader
<1>2. PICK R \in SUBSET Live : RemainsList(R)
  BY <1>1 DEF HeapInv, SweepRemains
<1>3. Live \subseteq Headers /\ Nil \notin Live /\ Nil \notin R
  BY <1>2, SlotFacts DEF Live
<1>4. /\ cursor \in R /\ cursor \in Live /\ cursor \in Headers
      /\ \A x \in R : next[x] # cursor
  <2>1. IsList(R, cursor, next, Nil)
    BY <1>2 DEF RemainsList
  <2>2. cursor \in R /\ \A x \in R : next[x] \in (R \ {cursor}) \cup {Nil}
    BY <1>1, <1>3, <2>1, FirstOfList
  <2>. QED
    BY <1>1, <1>2, <1>3, <2>2
<1>5. PICK Rest : Rest = R \ {cursor}
  OBVIOUS
<1>6. Marked' = Marked \ {cursor}
  BY <1>1 DEF Marked, HeapInv, TypeOK
<1>7. /\ marked' \in [Headers -> BOOLEAN] /\ cursor' \in Headers \cup {Nil}
      /\ elementCount' \in [Headers -> Nat] /\ PayloadBytes(cursor) \in Nat
  BY <1>1, <1>4, SizesAssumption DEF HeapInv, TypeOK, PayloadBytes
<1>8. CASE marked[cursor]
  <2>1. /\ bytesAfter' = bytesAfter + PayloadBytes(cursor)
        /\ UNCHANGED <<active, live, slab, nonFull, registered, aborted>>
    BY <1>8 DEF SweepHeader
  <2>2. /\ Live' = Live /\ ~aborted'
        /\ ActiveList' /\ FreeLists' /\ PagesHoldLiveSlots' /\ NonFullList'
        /\ registered' = Live' \cap Blocks
    BY <2>1, HeapStorageUnchanged
  <2>3. RemainsList(Rest)'
    <3>1. IsList(R, cursor, next, Nil) /\ Marked \subseteq R /\ Live \ (R \ Marked) = kept
      BY <1>2 DEF RemainsList
    <3>2. \A x \in R \ {cursor} : next'[x] = next[x]
      BY <2>1 DEF active
    <3>3. IsList(R \ {cursor}, next[cursor], next', Nil)
      BY <1>3, <1>4, <3>1, <3>2, PopFront
    <3>4. cursor \in Marked
      BY <1>4, <1>8 DEF Marked
    <3>5. /\ Marked' \subseteq R \ {cursor}
          /\ Live' \ ((R \ {cursor}) \ Marked') = kept'
      BY <1>1, <1>6, <2>2, <3>1, <3>4
    <3>. QED
      BY <1>1, <1>5, <3>3, <3>5 DEF RemainsList
  <2>4. SweepRemains'
    BY <1>2, <1>5, <2>2, <2>3 DEF SweepRemains
  <2>5. TypeOK'
    BY <1>1, <1>7, <2>1 DEF HeapInv, TypeOK, active, slab, nonFull
  <2>. QED
    BY <2>2, <2>4, <2>5 DEF HeapInv
<1>9. CASE ~marked[cursor]
  <2>1. ReclaimAllocation(cursor) /\ bytesAfter' = bytesAfter
    BY <1>9 DEF SweepHeader
  <2>2. Reclaimed(cursor) /\ ReclaimTypes
    BY <1>4, <2>1, HeapReclaimSystem, HeapReclaimSlot
  <2>3. RemainsList(Rest)'
    <3>1. IsList(R, cursor, next, Nil) /\ Marked \subseteq R /\ Live \ (R \ Marked) = kept
      BY <1>2 DEF RemainsList
    <3>2. \A x \in R \ {cursor} : next'[x] = next[x]
      BY <1>2, <1>3, <1>4, <2>2 DEF Reclaimed
    <3>3. IsList(R \ {cursor}, next[cursor], next', Nil)
      BY <1>3, <1>4, <3>1, <3>2, PopFront
    <3>4. cursor \notin Marked /\ Live' = Live \ {cursor}
      BY <1>9, <2>2 DEF Marked, Reclaimed
    <3>5. /\ Marked' \subseteq R \ {cursor}
          /\ Live' \ ((R \ {cursor}) \ Marked') = kept'
      BY <1>1, <1>4, <1>6, <3>1, <3>4
    <3>. QED
      BY <1>1, <1>5, <3>3, <3>5 DEF RemainsList
  <2>4. SweepRemains'
    <3>1. Rest \subseteq Live'
      BY <1>2, <1>5, <2>2 DEF Reclaimed
    <3>. QED
      BY <2>3, <3>1 DEF SweepRemains
  <2>5. TypeOK'
    <3>1. kept' \subseteq Headers /\ phase' \in {"mutate", "sweep"} /\ bytesAfter' \in Nat
          /\ trackedBytes' \in Nat
      BY <1>1, <2>1 DEF HeapInv, TypeOK
    <3>. QED
      BY <1>7, <2>2, <3>1 DEF TypeOK, ReclaimTypes
  <2>. QED
    BY <2>2, <2>4, <2>5 DEF HeapInv, Reclaimed
<1>. QED
  BY <1>8, <1>9

(* The end of a sweep.                                                     *)
LEMMA HeapEndSweep ==
    ASSUME HeapInv, EndSweep
    PROVE  HeapInv'
<1>1. /\ phase' = "mutate" /\ bytesAfter' = 0 /\ kept' = {} /\ trackedBytes' = bytesAfter
      /\ UNCHANGED <<active, live, marked, elementCount, slab, nonFull, registered,
                     cursor, aborted>>
  BY DEF EndSweep
<1>2. /\ Live' = Live /\ ~aborted'
      /\ ActiveList' /\ FreeLists' /\ PagesHoldLiveSlots' /\ NonFullList'
      /\ registered' = Live' \cap Blocks
  BY <1>1, HeapStorageUnchanged
<1>3. TypeOK' /\ SweepRemains'
  BY <1>1 DEF HeapInv, TypeOK, SweepRemains, active, slab, nonFull
<1>. QED
  BY <1>2, <1>3 DEF HeapInv

(* Nothing changes.                                                        *)
LEMMA HeapStutter ==
    ASSUME HeapInv, UNCHANGED vars
    PROVE  HeapInv'
<1>1. /\ Live' = Live /\ ~aborted'
      /\ ActiveList' /\ FreeLists' /\ PagesHoldLiveSlots' /\ NonFullList'
      /\ registered' = Live' \cap Blocks
  BY HeapStorageUnchanged DEF vars
<1>2. Marked' = Marked
  BY DEF Marked, vars
<1>3. SweepRemains'
  BY <1>1, <1>2 DEF HeapInv, SweepRemains, RemainsList, vars, active, sweep
<1>4. TypeOK'
  BY DEF HeapInv, TypeOK, vars, active, slab, nonFull, sweep
<1>. QED
  BY <1>1, <1>3, <1>4 DEF HeapInv

(* Every step of the storage preserves the invariant.                      *)
LEMMA HeapNext == HeapInv /\ [Next]_vars => HeapInv'
<1>. SUFFICES ASSUME HeapInv, [Next]_vars PROVE HeapInv'
  OBVIOUS
<1>. QED
  BY HeapAllocateInPage, HeapAllocateInNewPage, HeapAllocateSystem, HeapBeginSweep,
     HeapSweepHeader, HeapEndSweep, HeapStutter DEF Next

(* The storage of the managed heap is consistent at every moment: the      *)
(* active list, the free list of every page, the list of pages with room   *)
(* and what is left to the sweep hold what they should, each once.         *)
THEOREM HeapInvariant == Spec => []HeapInv
<1>1. Init => HeapInv
  BY HeapInit
<1>2. HeapInv /\ [Next]_vars => HeapInv'
  BY HeapNext
<1>. QED
  BY <1>1, <1>2, PTL DEF Spec

-----------------------------------------------------------------------------
(* The active list holds the live headers in both directions, during a     *)
(* sweep as well.                                                          *)
THEOREM ActiveListIsExact == Spec => []ActiveListExact
<1>1. HeapInv => ActiveListExact
  <2>. SUFFICES ASSUME HeapInv PROVE ActiveListExact
    OBVIOUS
  <2>1. Live \subseteq Headers /\ Nil \notin Live /\ Nil \notin Headers
    BY SlotFacts DEF Live
  <2>2. IsDoubleList(Live, activeHead, next, prev, Nil)
    BY DEF HeapInv, ActiveList
  <2>3. IsList(Live, activeHead, next, Nil)
    BY <2>2, DoubleIsSingle
  <2>4. ListOf(activeHead, next, Headers) = Live /\ Ends(activeHead, next, Headers)
    BY <2>1, <2>3, ChainOfList, HeadersFinite
  <2>5. activeHead # Nil => activeHead \in Live
    BY <2>1, <2>3, FirstOfList
  <2>6. \A h \in Live : /\ prev[h] = Nil <=> h = activeHead
                        /\ next[h] # Nil => prev[next[h]] = h
    BY <2>1, <2>2, BackLinks
  <2>. QED
    BY <2>4, <2>5, <2>6 DEF ActiveListExact
<1>. QED
  BY <1>1, HeapInvariant, PTL

(* No slot of a mapped page is handed out twice or lost, no page outlives  *)
(* its last live slot or dies before it, and the live counts never run     *)
(* out, through every release and reuse of a page.                         *)
THEOREM PagesAreExact == Spec => []PagesExact
<1>1. HeapInv => PagesExact
  <2>. SUFFICES ASSUME HeapInv PROVE PagesExact
    OBVIOUS
  <2>1. ASSUME NEW p \in mapped
        PROVE  /\ Ends(freeList[p], next, Headers)
               /\ ListOf(freeList[p], next, Headers) = Used(p) \ Live
               /\ Live \cap SlotsOf(p) \subseteq Used(p)
               /\ liveCount[p] = Cardinality(Live \cap SlotsOf(p))
    <3>1. PageAccounted(p) /\ p \in Pages
      BY DEF HeapInv, FreeLists, TypeOK
    <3>2. Used(p) \ Live \subseteq Headers /\ Nil \notin Headers
      BY <3>1, SlotFacts DEF Used, Headers
    <3>3. IsList(Used(p) \ Live, freeList[p], next, Nil)
      BY <3>1 DEF PageAccounted
    <3>4. /\ ListOf(freeList[p], next, Headers) = Used(p) \ Live
          /\ Ends(freeList[p], next, Headers)
      BY <3>2, <3>3, ChainOfList, HeadersFinite
    <3>. QED
      BY <3>1, <3>4 DEF PageAccounted
  <2>2. SlotsAccountedFor
    BY <2>1 DEF SlotsAccountedFor, Used, HeapInv
  <2>. QED
    BY <2>2 DEF PagesExact, HeapInv
<1>. QED
  BY <1>1, HeapInvariant, PTL

(* The allocator's list of pages holds the mapped pages with room, and no  *)
(* page that was released.                                                 *)
THEOREM NonFullListIsExact == Spec => []NonFullListExact
<1>1. HeapInv => NonFullListExact
  <2>. SUFFICES ASSUME HeapInv PROVE NonFullListExact
    OBVIOUS
  <2>1. WithRoom \subseteq Pages /\ Nil \notin WithRoom /\ Nil \notin Pages
    BY RoomFacts, SlotFacts
  <2>2. IsDoubleList(WithRoom, nonFullPages, nextNonFull, prevNonFull, Nil)
    BY DEF HeapInv, NonFullList
  <2>3. IsList(WithRoom, nonFullPages, nextNonFull, Nil)
    BY <2>2, DoubleIsSingle
  <2>4. /\ ListOf(nonFullPages, nextNonFull, Pages) = WithRoom
        /\ Ends(nonFullPages, nextNonFull, Pages)
    BY <2>1, <2>3, ChainOfList, HeadersFinite
  <2>5. nonFullPages # Nil => nonFullPages \in WithRoom
    BY <2>1, <2>3, FirstOfList
  <2>6. \A p \in WithRoom : /\ prevNonFull[p] = Nil <=> p = nonFullPages
                            /\ nextNonFull[p] # Nil => prevNonFull[nextNonFull[p]] = p
    BY <2>1, <2>2, BackLinks
  <2>. QED
    BY <2>4, <2>5, <2>6 DEF NonFullListExact, WithRoom
<1>. QED
  BY <1>1, HeapInvariant, PTL

(* What findOwningAllocation finds is live, and every live header is found.*)
THEOREM OwnersLive == Spec => []OwnersAreLive
<1>1. HeapInv => OwnersAreLive
  <2>. SUFFICES ASSUME HeapInv PROVE OwnersAreLive
    OBVIOUS
  <2>1. \A h \in SlabHeaders : h \in Live => PageOf(h) \in mapped
    BY DEF HeapInv, PagesHoldLiveSlots
  <2>2. \A h \in Headers : FoundByAddress(h) <=> h \in Live
    BY <2>1 DEF FoundByAddress, Headers, HeapInv, Live
  <2>. QED
    BY <2>2 DEF OwnersAreLive, Live
<1>. QED
  BY <1>1, HeapInvariant, PTL

(* A sweep keeps exactly what was marked when it began, although it        *)
(* reclaims the list it walks.                                             *)
THEOREM SweepKeeps == Spec => []SweepKeepsMarked
<1>1. HeapInv => SweepKeepsMarked
  <2>. SUFFICES ASSUME HeapInv, phase = "sweep"
                PROVE  /\ ListOf(cursor, next, Headers) \subseteq Live
                       /\ Marked \subseteq ListOf(cursor, next, Headers)
                       /\ Live \ {h \in ListOf(cursor, next, Headers) : ~marked[h]} = kept
    BY DEF SweepKeepsMarked, Marked
  <2>1. PICK R \in SUBSET Live : RemainsList(R)
    BY DEF HeapInv, SweepRemains
  <2>2. R \subseteq Headers /\ Nil \notin Headers
    BY <2>1, SlotFacts DEF Live
  <2>3. ListOf(cursor, next, Headers) = R
    BY <2>1, <2>2, ChainOfList, HeadersFinite DEF RemainsList
  <2>4. {h \in R : ~marked[h]} = R \ Marked
    BY <2>2 DEF Marked
  <2>. QED
    BY <2>1, <2>3, <2>4 DEF RemainsList
<1>. QED
  BY <1>1, HeapInvariant, PTL

-----------------------------------------------------------------------------
(* Sums of payload sizes. A set of natural numbers has a least element.    *)
LEMMA LeastElement ==
    ASSUME NEW T \in SUBSET Nat, T # {}
    PROVE  \E x \in T : \A y \in T : x <= y
<1>1. IsWellFoundedOn(OpToRel(<, Nat), Nat)
  BY NatLessThanWellFounded
<1>2. PICK x \in T : \A y \in T : ~(<<y, x>> \in OpToRel(<, Nat))
  BY <1>1, WFMin
<1>3. \A y \in T : ~(y < x)
  BY <1>2 DEF OpToRel
<1>. QED
  BY <1>3

(* What holds of 0, and of n + 1 when it holds of n, holds of all.         *)
LEMMA SetInduction ==
    ASSUME NEW S \in SUBSET Nat, 0 \in S, \A n \in S : n + 1 \in S
    PROVE  S = Nat
<1>. SUFFICES ASSUME Nat \ S # {} PROVE FALSE
  OBVIOUS
<1>1. PICK x \in Nat \ S : \A y \in Nat \ S : x <= y
  BY LeastElement
<1>2. x # 0 /\ x - 1 \in S
  BY <1>1
<1>. QED
  BY <1>1, <1>2

-----------------------------------------------------------------------------
(* The sum of w over S: as many as there are pairs of a member of S and a  *)
(* number up to what w gives it.                                           *)
Units(S, w) == {u \in S \X Nat : u[2] \in 1 .. w[u[1]]}
Total(S, w) == Cardinality(Units(S, w))

(* The sum grows with each member, ...                                     *)
LEMMA TotalAdd ==
    ASSUME NEW S, NEW w, NEW h, h \notin S, IsFiniteSet(Units(S, w)), w[h] \in Nat
    PROVE  /\ IsFiniteSet(Units(S \cup {h}, w))
           /\ Total(S \cup {h}, w) = Total(S, w) + w[h]
<1>. DEFINE n == w[h]
            own == {h} \X (1 .. n)
<1>1. Units(S \cup {h}, w) = Units(S, w) \cup own
  BY DEF Units
<1>2. Units(S, w) \cap own = {}
  BY DEF Units
<1>3. IsFiniteSet(own) /\ Cardinality(own) = n
  <2>1. IsFiniteSet({h}) /\ Cardinality({h}) = 1
    BY FS_Singleton
  <2>2. IsFiniteSet(1 .. n) /\ Cardinality(1 .. n) = n
    BY FS_Interval
  <2>3. IsFiniteSet(own)
        /\ Cardinality(own) = Cardinality({h}) * Cardinality(1 .. n)
    BY <2>1, <2>2, FS_Product
  <2>4. Cardinality(own) = 1 * n
    BY <2>1, <2>2, <2>3
  <2>. QED
    BY <2>3, <2>4
<1>4. Cardinality(Units(S, w)) \in Nat /\ Cardinality(Units(S, w) \cap own) = 0
  BY <1>2, FS_CardinalityType, FS_EmptySet
<1>. HIDE DEF own, n
<1>5. /\ IsFiniteSet(Units(S, w) \cup own)
      /\ Cardinality(Units(S, w) \cup own) =
           Cardinality(Units(S, w)) + Cardinality(own) - Cardinality(Units(S, w) \cap own)
  BY <1>3, FS_Union
<1>6. n \in Nat /\ n = w[h]
  BY DEF n
<1>7. Cardinality(Units(S, w) \cup own) = Cardinality(Units(S, w)) + n
  BY <1>3, <1>4, <1>5, <1>6
<1>. QED
  BY <1>1, <1>5, <1>6, <1>7 DEF Total

(* ... is finite, ...                                                      *)
LEMMA TotalFinite ==
    ASSUME NEW S, IsFiniteSet(S), NEW w, \A h \in S : w[h] \in Nat
    PROVE  IsFiniteSet(Units(S, w)) /\ Total(S, w) \in Nat /\ Total({}, w) = 0
<1>. DEFINE Fine == {n \in Nat : \A s \in SUBSET S :
                        Cardinality(s) = n => IsFiniteSet(Units(s, w))}
<1>1. Units({}, w) = {} /\ IsFiniteSet(Units({}, w)) /\ Total({}, w) = 0
  <2>1. Units({}, w) = {}
    BY DEF Units
  <2>. QED
    BY <2>1, FS_EmptySet DEF Total
<1>2. 0 \in Fine
  BY <1>1, FS_Subset, FS_EmptySet
<1>3. ASSUME NEW n \in Fine PROVE n + 1 \in Fine
  <2>1. ASSUME NEW s \in SUBSET S, Cardinality(s) = n + 1 PROVE IsFiniteSet(Units(s, w))
    <3>1. IsFiniteSet(s) /\ s # {} /\ n \in Nat
      BY <2>1, FS_Subset, FS_EmptySet
    <3>2. PICK h : h \in s
      BY <3>1
    <3>3. Cardinality(s \ {h}) = Cardinality(s) - 1
      BY <3>1, <3>2, FS_RemoveElement
    <3>4. (s \ {h}) \cup {h} = s /\ h \notin s \ {h} /\ w[h] \in Nat
      BY <3>2
    <3>5. Cardinality(s \ {h}) = n
      BY <2>1, <3>1, <3>3
    <3>6. IsFiniteSet(Units(s \ {h}, w))
      BY <3>5
    <3>. QED
      BY <3>4, <3>6, TotalAdd
  <2>. QED
    BY <2>1
<1>4. Fine = Nat
  <2>. HIDE DEF Fine
  <2>. QED
    BY <1>2, <1>3, SetInduction, Fine \subseteq Nat DEF Fine
<1>5. Cardinality(S) \in Fine
  BY <1>4, FS_CardinalityType
<1>6. IsFiniteSet(Units(S, w))
  BY <1>5
<1>. QED
  BY <1>1, <1>6, FS_CardinalityType DEF Total

(* ... and depends on the values of the members only.                      *)
LEMMA TotalFrame ==
    ASSUME NEW S, NEW w, NEW v, \A h \in S : v[h] = w[h]
    PROVE  Total(S, v) = Total(S, w)
<1>1. Units(S, v) = Units(S, w)
  BY DEF Units
<1>. QED
  BY <1>1 DEF Total

(* The bytes of a set of headers, and the live arrays of no elements.      *)
Payloads == [h \in Headers |-> PayloadBytes(h)]
Bytes(S) == Total(S, Payloads)
EmptyArrays == {h \in Live : elementCount[h] = 0}

(* Sizes are numbers, and so are sums of them.                             *)
LEMMA PayloadFacts ==
    ASSUME TypeOK
    PROVE  /\ \A h \in Headers : PayloadBytes(h) \in Nat /\ Payloads[h] = PayloadBytes(h)
           /\ \A S \in SUBSET Headers :
                 IsFiniteSet(S) /\ IsFiniteSet(Units(S, Payloads)) /\ Bytes(S) \in Nat
           /\ Bytes({}) = 0
<1>1. \A h \in Headers : PayloadBytes(h) \in Nat /\ Payloads[h] = PayloadBytes(h)
  BY SizesAssumption DEF TypeOK, PayloadBytes, Payloads
<1>2. ASSUME NEW S \in SUBSET Headers
      PROVE  /\ IsFiniteSet(S) /\ IsFiniteSet(Units(S, Payloads))
             /\ Bytes(S) \in Nat /\ Bytes({}) = 0
  <2>1. IsFiniteSet(S) /\ \A h \in S : Payloads[h] \in Nat
    BY <1>1, HeadersFinite, FS_Subset
  <2>. QED
    BY <2>1, TotalFinite DEF Bytes
<1>. QED
  BY <1>1, <1>2

(* The fold HeapBytes takes, whatever header it chooses next, is this sum. *)
LEMMA HeapBytesIsSum ==
    ASSUME TypeOK
    PROVE  HeapBytes = Bytes(Live)
<1>. DEFINE c(s) == CHOOSE x \in s : TRUE
            Step(f) == [s \in SUBSET Live |->
                          IF s = {} THEN 0 ELSE PayloadBytes(c(s)) + f[s \ {c(s)}]]
            g == [s \in SUBSET Live |-> Bytes(s)]
            iter == CHOOSE f : f = Step(f)
<1>1. Live \subseteq Headers
  BY DEF Live
<1>2. ASSUME NEW s \in SUBSET Live
      PROVE  /\ IsFiniteSet(Units(s, Payloads)) /\ Bytes(s) \in Nat /\ Bytes({}) = 0
             /\ IsFiniteSet(s) /\ Cardinality(s) \in Nat
             /\ Cardinality(s) = 0 <=> s = {}
             /\ \A h \in s : PayloadBytes(h) \in Nat /\ Payloads[h] = PayloadBytes(h)
  BY <1>1, PayloadFacts, FS_CardinalityType, FS_EmptySet
<1>3. ASSUME NEW s \in SUBSET Live, s # {}
      PROVE  /\ c(s) \in s /\ s \ {c(s)} \in SUBSET Live
             /\ Bytes(s) = PayloadBytes(c(s)) + Bytes(s \ {c(s)})
             /\ Cardinality(s \ {c(s)}) = Cardinality(s) - 1
  <2>1. c(s) \in s
    BY <1>3
  <2>2. PICK h : h = c(s)
    OBVIOUS
  <2>3. (s \ {h}) \cup {h} = s /\ h \notin s \ {h} /\ s \ {h} \in SUBSET Live
        /\ PayloadBytes(h) \in Nat /\ Payloads[h] = PayloadBytes(h)
    BY <1>2, <2>1, <2>2
  <2>4. IsFiniteSet(Units(s \ {h}, Payloads)) /\ Bytes(s \ {h}) \in Nat
    BY <1>2, <2>3
  <2>5. Bytes(s) = Bytes(s \ {h}) + PayloadBytes(h)
    BY <2>3, <2>4, TotalAdd DEF Bytes
  <2>6. Cardinality(s \ {h}) = Cardinality(s) - 1
    BY <1>2, <2>1, <2>2, FS_RemoveElement
  <2>. HIDE DEF c
  <2>. QED
    BY <2>1, <2>2, <2>3, <2>4, <2>5, <2>6
<1>. HIDE DEF c
<1>4. g = Step(g)
  BY <1>2, <1>3
<1>5. iter = Step(iter)
  <2>. HIDE DEF Step, g
  <2>. QED
    BY <1>4
<1>. HIDE DEF iter
<1>. DEFINE Same == {n \in Nat : \A s \in SUBSET Live : Cardinality(s) = n => iter[s] = Bytes(s)}
<1>6. 0 \in Same
  <2>1. iter[{}] = 0
    BY <1>5
  <2>. QED
    BY <1>2, <2>1
<1>7. ASSUME NEW n \in Same PROVE n + 1 \in Same
  <2>1. ASSUME NEW s \in SUBSET Live, Cardinality(s) = n + 1 PROVE iter[s] = Bytes(s)
    <3>1. s # {}
      BY <1>2, <2>1
    <3>2. iter[s] = PayloadBytes(c(s)) + iter[s \ {c(s)}]
      BY <1>5, <3>1
    <3>3. iter[s \ {c(s)}] = Bytes(s \ {c(s)})
      BY <1>3, <2>1, <3>1
    <3>. QED
      BY <1>3, <3>1, <3>2, <3>3
  <2>. QED
    BY <2>1
<1>8. Same = Nat
  <2>. HIDE DEF Same
  <2>. QED
    BY <1>6, <1>7, SetInduction, Same \subseteq Nat DEF Same
<1>9. iter[Live] = Bytes(Live)
  BY <1>2, <1>8
<1>10. HeapBytes = iter[Live]
  BY DEF HeapBytes, MapThenSumSet, MapThenFoldSet, iter, Step, c
<1>. QED
  BY <1>9, <1>10

-----------------------------------------------------------------------------
(* The usage in a sweep: what it has kept so far has been added up.        *)
UsageInv ==
    /\ phase = "mutate" =>
         Bytes(Live) - trackedBytes \in 0 .. Cardinality(EmptyArrays)
    /\ phase = "sweep" => bytesAfter = Bytes(kept \ Marked)

(* An allocation adds its payload to the heap.                             *)
LEMMA AllocationAdds ==
    ASSUME TypeOK, NEW h \in Headers \ Live, NEW count \in Nat,
           InitializeHeader(h, count)
    PROVE  /\ Bytes(Live)' = Bytes(Live) + PayloadBytes(h)'
           /\ PayloadBytes(h)' = IF h \in SlabHeaders THEN ObjectBytes
                                 ELSE IF count = 0 THEN 1 ELSE count
           /\ EmptyArrays' = IF count = 0 THEN EmptyArrays \cup {h} ELSE EmptyArrays
           /\ IsFiniteSet(EmptyArrays) /\ h \notin EmptyArrays
<1>1. /\ Live' = Live \cup {h} /\ elementCount' = [elementCount EXCEPT ![h] = count]
      /\ Live \subseteq Headers
  BY DEF InitializeHeader, TypeOK, Live
<1>2. \A x \in Headers \ {h} : elementCount'[x] = elementCount[x]
  BY <1>1 DEF TypeOK
<1>3. elementCount'[h] = count
  BY <1>1 DEF TypeOK
<1>4. PayloadBytes(h)' = IF h \in SlabHeaders THEN ObjectBytes
                         ELSE IF count = 0 THEN 1 ELSE count
  BY <1>3 DEF PayloadBytes
<1>5. \A x \in Live : Payloads'[x] = Payloads[x]
  BY <1>1, <1>2 DEF Payloads, PayloadBytes
<1>6. Payloads'[h] = PayloadBytes(h)' /\ PayloadBytes(h)' \in Nat
  BY <1>4, SizesAssumption DEF Payloads
<1>7. IsFiniteSet(Live) /\ \A x \in Live : Payloads'[x] \in Nat
  BY <1>1, <1>5, PayloadFacts
<1>8. PICK w : w = Payloads'
  OBVIOUS
<1>9. IsFiniteSet(Units(Live, w)) /\ Total(Live, w) = Total(Live, Payloads)
  BY <1>5, <1>7, <1>8, TotalFinite, TotalFrame
<1>10. Total(Live \cup {h}, w) = Total(Live, Payloads) + w[h]
  BY <1>6, <1>8, <1>9, TotalAdd
<1>11. Bytes(Live)' = Bytes(Live) + PayloadBytes(h)'
  BY <1>1, <1>6, <1>8, <1>10 DEF Bytes
<1>12. EmptyArrays' = IF count = 0 THEN EmptyArrays \cup {h} ELSE EmptyArrays
  BY <1>1, <1>2, <1>3 DEF EmptyArrays
<1>13. IsFiniteSet(EmptyArrays) /\ h \notin EmptyArrays
  BY <1>7, FS_Subset DEF EmptyArrays
<1>. QED
  BY <1>4, <1>11, <1>12, <1>13

(* Allocations keep the count: an empty array is one more that is counted  *)
(* for nothing.                                                            *)
LEMMA UsageAllocate ==
    ASSUME TypeOK, UsageInv, phase = "mutate", phase' = "mutate",
           NEW h \in Headers \ Live, NEW count \in Nat, InitializeHeader(h, count),
           IF h \in SlabHeaders
           THEN count = 1 /\ trackedBytes' = trackedBytes + ObjectBytes
           ELSE trackedBytes' = trackedBytes + count
    PROVE  UsageInv'
<1>1. /\ Bytes(Live)' = Bytes(Live) + PayloadBytes(h)'
      /\ PayloadBytes(h)' = IF h \in SlabHeaders THEN ObjectBytes
                            ELSE IF count = 0 THEN 1 ELSE count
      /\ EmptyArrays' = IF count = 0 THEN EmptyArrays \cup {h} ELSE EmptyArrays
      /\ IsFiniteSet(EmptyArrays) /\ h \notin EmptyArrays
  BY AllocationAdds
<1>2. /\ Bytes(Live) - trackedBytes \in 0 .. Cardinality(EmptyArrays)
      /\ Bytes(Live) \in Nat /\ trackedBytes \in Nat
  BY PayloadFacts DEF UsageInv, TypeOK, Live
<1>3. Cardinality(EmptyArrays) \in Nat
  BY <1>1, FS_CardinalityType
<1>4. CASE h \in SlabHeaders \/ count # 0
  <2>1. Bytes(Live)' - trackedBytes' = Bytes(Live) - trackedBytes
    BY <1>1, <1>2, <1>4, SizesAssumption
  <2>2. EmptyArrays' = EmptyArrays
    BY <1>1, <1>4
  <2>. QED
    BY <1>2, <2>1, <2>2 DEF UsageInv
<1>5. CASE h \notin SlabHeaders /\ count = 0
  <2>1. Bytes(Live)' - trackedBytes' = Bytes(Live) - trackedBytes + 1
    BY <1>1, <1>2, <1>5
  <2>2. Cardinality(EmptyArrays \cup {h}) = Cardinality(EmptyArrays) + 1
    BY <1>1, FS_AddElement
  <2>3. Cardinality(EmptyArrays') = Cardinality(EmptyArrays) + 1
    BY <1>1, <1>5, <2>2
  <2>4. Bytes(Live)' - trackedBytes' \in 0 .. Cardinality(EmptyArrays')
    BY <1>2, <1>3, <2>1, <2>3
  <2>. QED
    BY <2>4 DEF UsageInv
<1>. QED
  BY <1>4, <1>5

(* A header the sweep keeps is one more that was added up, one it reclaims *)
(* was never going to be.                                                  *)
LEMMA UsageSweepHeader ==
    ASSUME HeapInv, UsageInv, SweepHeader
    PROVE  UsageInv'
<1>1. /\ phase = "sweep" /\ cursor # Nil /\ phase' = phase /\ kept' = kept
      /\ marked' = [marked EXCEPT ![cursor] = FALSE]
      /\ elementCount' = elementCount
      /\ bytesAfter' = IF marked[cursor] THEN bytesAfter + PayloadBytes(cursor)
                       ELSE bytesAfter
  BY DEF SweepHeader
<1>2. /\ TypeOK /\ cursor \in Headers /\ kept \subseteq Headers
      /\ Payloads' = Payloads
  BY <1>1 DEF HeapInv, TypeOK, Payloads, PayloadBytes
<1>3. Marked' = Marked \ {cursor}
  BY <1>1, <1>2 DEF Marked, TypeOK
<1>4. bytesAfter = Bytes(kept \ Marked)
  BY <1>1 DEF UsageInv
<1>5. CASE marked[cursor]
  <2>1. PICK R \in SUBSET Live : RemainsList(R)
    BY <1>1 DEF HeapInv, SweepRemains
  <2>2. cursor \in Marked /\ cursor \in kept
    BY <1>2, <1>5, <2>1 DEF RemainsList, Marked
  <2>3. kept' \ Marked' = (kept \ Marked) \cup {cursor} /\ cursor \notin kept \ Marked
    BY <1>1, <1>3, <2>2
  <2>4. IsFiniteSet(Units(kept \ Marked, Payloads)) /\ Payloads[cursor] \in Nat
        /\ Payloads[cursor] = PayloadBytes(cursor)
    BY <1>2, PayloadFacts
  <2>5. Total((kept \ Marked) \cup {cursor}, Payloads) = Bytes(kept \ Marked) + PayloadBytes(cursor)
    BY <2>3, <2>4, TotalAdd DEF Bytes
  <2>. QED
    BY <1>1, <1>2, <1>4, <1>5, <2>3, <2>5 DEF UsageInv, Bytes
<1>6. CASE ~marked[cursor]
  <2>1. Marked' = Marked
    BY <1>3, <1>6 DEF Marked
  <2>. QED
    BY <1>1, <1>2, <1>4, <1>6, <2>1 DEF UsageInv, Bytes
<1>. QED
  BY <1>5, <1>6

(* The invariant of the storage and the usage together.                    *)
LEMMA UsageNext == HeapInv /\ UsageInv /\ [Next]_vars => UsageInv'
<1>. SUFFICES ASSUME HeapInv, UsageInv, [Next]_vars PROVE UsageInv'
  OBVIOUS
<1>0. TypeOK
  BY DEF HeapInv
<1>1. ASSUME NEW h \in SlabHeaders, AllocateInPage(h) PROVE UsageInv'
  <2>1. PICK p : p = nonFullPages
    OBVIOUS
  <2>2. p \in WithRoom /\ TakeSlot(p, h) /\ InitializeHeader(h, 1)
    BY <1>1, <2>1, RoomFacts DEF AllocateInPage, HeapInv
  <2>3. h \in Headers \ Live
    BY <2>2, TakesFreeSlot DEF Headers
  <2>4. /\ phase = "mutate" /\ phase' = "mutate"
        /\ trackedBytes' = trackedBytes + ObjectBytes
    BY <1>1 DEF AllocateInPage, sweep
  <2>. QED
    BY <1>0, <1>1, <2>2, <2>3, <2>4, UsageAllocate
<1>2. ASSUME NEW p \in Pages, AllocateInNewPage(p) PROVE UsageInv'
  <2>1. PICK h : h = <<p, 1>>
    OBVIOUS
  <2>2. /\ p \notin mapped /\ InitializeHeader(h, 1)
        /\ phase = "mutate" /\ phase' = "mutate"
        /\ trackedBytes' = trackedBytes + ObjectBytes
    BY <1>2, <2>1 DEF AllocateInNewPage, sweep
  <2>3. h \in SlabHeaders /\ PageOf(h) = p
    BY <2>1, PagesAssumption DEF SlabHeaders, PageOf
  <2>4. h \in Headers \ Live
    BY <2>2, <2>3 DEF HeapInv, PagesHoldLiveSlots, Headers
  <2>. QED
    BY <1>0, <2>2, <2>3, <2>4, UsageAllocate
<1>3. ASSUME NEW b \in Blocks, NEW count \in ArrayLengths, AllocateSystem(b, count)
      PROVE  UsageInv'
  <2>1. /\ b \notin registered /\ InitializeHeader(b, count)
        /\ phase = "mutate" /\ phase' = "mutate"
        /\ trackedBytes' = trackedBytes + count
    BY <1>3 DEF AllocateSystem, sweep
  <2>2. b \in Headers \ Live /\ b \notin SlabHeaders /\ count \in Nat
    BY <2>1, SlotFacts, SizesAssumption DEF HeapInv, Headers
  <2>. QED
    BY <1>0, <2>1, <2>2, UsageAllocate
<1>4. ASSUME NEW survivors \in SUBSET Live, BeginSweep(survivors) PROVE UsageInv'
  <2>1. /\ phase' = "sweep" /\ bytesAfter' = 0 /\ kept' = survivors
        /\ marked' = [h \in Headers |-> h \in survivors] /\ elementCount' = elementCount
    BY <1>4 DEF BeginSweep
  <2>2. kept' \ Marked' = {} /\ Payloads' = Payloads
    BY <2>1 DEF Marked, Live, Payloads, PayloadBytes
  <2>3. Total({}, Payloads) = 0
    BY <1>0, PayloadFacts DEF Bytes
  <2>. QED
    BY <2>1, <2>2, <2>3 DEF UsageInv, Bytes
<1>5. ASSUME SweepHeader PROVE UsageInv'
  BY <1>5, UsageSweepHeader
<1>6. ASSUME EndSweep PROVE UsageInv'
  <2>1. /\ phase = "sweep" /\ cursor = Nil /\ phase' = "mutate"
        /\ trackedBytes' = bytesAfter
        /\ UNCHANGED <<live, elementCount>>
    BY <1>6 DEF EndSweep
  <2>2. PICK R \in SUBSET Live : RemainsList(R)
    BY <2>1 DEF HeapInv, SweepRemains
  <2>3. R = {}
    <3>1. IsList(R, cursor, next, Nil) /\ Nil \notin R
      BY <2>2, SlotFacts DEF RemainsList, Live
    <3>. QED
      BY <2>1, <3>1, FirstOfList
  <2>4. kept \ Marked = Live
    BY <2>2, <2>3 DEF RemainsList
  <2>5. Live' = Live /\ Payloads' = Payloads /\ EmptyArrays' = EmptyArrays
    BY <2>1 DEF Live, Payloads, PayloadBytes, EmptyArrays
  <2>6. trackedBytes' = Bytes(Live) /\ Bytes(Live)' = Bytes(Live)
    BY <2>1, <2>4, <2>5 DEF UsageInv, Bytes
  <2>7. Bytes(Live) \in Nat /\ Cardinality(EmptyArrays) \in Nat
    <3>1. IsFiniteSet(EmptyArrays)
      BY <1>0, PayloadFacts DEF EmptyArrays, Live
    <3>. QED
      BY <1>0, <3>1, PayloadFacts, FS_CardinalityType DEF Live
  <2>8. Bytes(Live)' - trackedBytes' \in 0 .. Cardinality(EmptyArrays')
    BY <2>5, <2>6, <2>7
  <2>. QED
    BY <2>1, <2>8 DEF UsageInv
<1>7. ASSUME UNCHANGED vars PROVE UsageInv'
  <2>1. /\ Live' = Live /\ Payloads' = Payloads /\ EmptyArrays' = EmptyArrays
        /\ Marked' = Marked /\ kept' = kept /\ phase' = phase
        /\ trackedBytes' = trackedBytes /\ bytesAfter' = bytesAfter
    BY <1>7 DEF vars, sweep, Live, Payloads, PayloadBytes, EmptyArrays, Marked
  <2>. QED
    BY <2>1 DEF UsageInv, Bytes
<1>. QED
  BY <1>1, <1>2, <1>3, <1>4, <1>5, <1>6, <1>7 DEF Next

(* Between collections the usage differs from the sum of the payloads by   *)
(* no more than the number of arrays allocated empty: recordAllocation     *)
(* adds their size as asked for, the sweep their payload.                  *)
THEOREM UsageTracks == Spec => []UsageTracksPayloads
<1>1. Init => HeapInv /\ UsageInv
  <2>. SUFFICES ASSUME Init PROVE UsageInv
    BY HeapInit
  <2>1. TypeOK /\ phase = "mutate" /\ trackedBytes = 0 /\ Live = {}
    BY HeapInit DEF HeapInv, Init, Live
  <2>2. EmptyArrays = {}
    BY <2>1 DEF EmptyArrays
  <2>. QED
    BY <2>1, <2>2, PayloadFacts, FS_EmptySet DEF UsageInv
<1>2. HeapInv /\ UsageInv /\ [Next]_vars => (HeapInv /\ UsageInv)'
  BY HeapNext, UsageNext
<1>3. HeapInv /\ UsageInv => UsageTracksPayloads
  <2>. SUFFICES ASSUME HeapInv, UsageInv PROVE UsageTracksPayloads
    OBVIOUS
  <2>1. HeapBytes = Bytes(Live)
    BY HeapBytesIsSum DEF HeapInv
  <2>. QED
    BY <2>1 DEF UsageInv, UsageTracksPayloads, EmptyArrays
<1>. QED
  BY <1>1, <1>2, <1>3, PTL DEF Spec
===============================================================================
