---------------------------- MODULE CJson_proofs ----------------------------
(***************************************************************************)
(* Proofs about cJSON, whatever the text and whichever malloc fails: every *)
(* block of its heap has one owner, what is parsed is the document that    *)
(* the text starts with, and printing an item gives its value.             *)
(***************************************************************************)
EXTENDS CJson, Integers, FiniteSetTheorems, SequenceTheorems, WellFoundedInduction, TLAPS

IsSeq(h) == \E S : h \in Seq(S)
Ids == 1 .. Len(heap)
ItemIds == {i \in Ids : IsItem(i)}
Others == {i \in Ids : ~IsItem(i)}

ItemSet == [type : {"Scalar", "String", "Array", "Object"}, value : Scalars,
            child : Nat, next : Nat, string : Nat, valuestring : Nat]

\* Whether the pointers of item i lead where they may: to later items, and
\* to blocks that are no items.
Linked(i) ==
  /\ heap[i] \in ItemSet
  /\ heap[i].child # 0 => heap[i].child \in ItemIds /\ heap[i].child > i
  /\ heap[i].next # 0 => heap[i].next \in ItemIds /\ heap[i].next > i
  /\ heap[i].string # 0 => heap[i].string \in Others
  /\ heap[i].valuestring # 0 => heap[i].valuestring \in Others

HeapInv ==
  /\ IsSeq(heap)
  /\ live \subseteq Ids
  /\ \A i \in ItemIds : Linked(i)
  /\ root \in ItemIds \cup {0} /\ ret \in Others \cup {0} /\ cur \in ItemIds \cup {0}
  /\ root # 0 => ItemIds \subseteq live

-----------------------------------------------------------------------------
\* What a new block does to the heap.
LEMMA Appended ==
  ASSUME IsSeq(heap), NEW b, heap' = Append(heap, b)
  PROVE  /\ IsSeq(heap')
         /\ Len(heap) \in Nat
         /\ Len(heap') = Len(heap) + 1
         /\ \A i \in Ids : heap'[i] = heap[i]
         /\ heap'[Len(heap) + 1] = b
<1>1. PICK S : heap \in Seq(S)
  BY DEF IsSeq
<1>2. heap \in Seq(S \cup {b})
  BY <1>1, SeqMonotonic
<1>3. heap' \in Seq(S \cup {b})
  BY <1>2
<1>4. IsSeq(heap')
  BY <1>3 DEF IsSeq
<1>5. QED
  BY <1>2, <1>4 DEF Ids

\* What a change of one block does.
LEMMA Changed ==
  ASSUME IsSeq(heap), NEW c \in Ids, NEW b, heap' = [heap EXCEPT ![c] = b]
  PROVE  /\ IsSeq(heap')
         /\ Len(heap') = Len(heap)
         /\ \A i \in Ids : heap'[i] = IF i = c THEN b ELSE heap[i]
<1>1. PICK S : heap \in Seq(S)
  BY DEF IsSeq
<1>2. heap \in Seq(S \cup {b}) /\ b \in S \cup {b}
  BY <1>1, SeqMonotonic
<1>3. /\ heap' \in Seq(S \cup {b})
      /\ Len(heap') = Len(heap)
      /\ \A i \in Ids : heap'[i] = IF i = c THEN b ELSE heap[i]
  BY <1>2, ExceptSeq DEF Ids
<1>4. QED
  BY <1>3 DEF IsSeq

\* What kind of block an item, a text and an array of pointers are.
LEMMA Kinds ==
  /\ \A i : i \in ItemSet => "type" \in DOMAIN i
  /\ NewItem \in ItemSet
  /\ \A t : "type" \notin DOMAIN Chars(t)
  /\ "type" \notin DOMAIN Pointers
BY TokensAssumption DEF NewItem, ItemSet, Chars, Pointers

-----------------------------------------------------------------------------
(* Owners, part by part.                                                   *)

LiveItems == {i \in live : IsItem(i)}
ItemOwners(b) == {l \in LiveItems \X Links : heap[l[1]][l[2]] = b}
PrintFrames == {n \in 1 .. Len(stack) : "arrays" \in DOMAIN stack[n]}
FrameOwners(b) == UNION {Held(stack[m], m, b) : m \in PrintFrames}
RootOwner(b) == IF root = b THEN {<<0, "root">>} ELSE {}
RetOwner(b) == IF ret = b THEN {<<0, "ret">>} ELSE {}

\* The owners of a block are its owners of each kind.
LEMMA OwnersAre ==
  ASSUME NEW b
  PROVE  /\ Owners(b) = ItemOwners(b) \cup FrameOwners(b) \cup RootOwner(b) \cup RetOwner(b)
         /\ Owners(b)' = ItemOwners(b)' \cup FrameOwners(b)' \cup RootOwner(b)' \cup RetOwner(b)'
BY DEF Owners, ItemOwners, FrameOwners, RootOwner, RetOwner, PrintFrames, LiveItems

\* The property, in a form that needs no counting.
OwnInv ==
  /\ \A b \in live : \E x : Owners(b) = {x}
  /\ \A b \in Ids : Owners(b) # {} => b \in live

\* One owner is what the property counts.
LEMMA OwnInvIsOneOwner == OwnInv => OneOwner
<1>1. ASSUME NEW b PROVE (\E x : Owners(b) = {x}) => Cardinality(Owners(b)) = 1
  BY FS_Singleton
<1>2. OwnInv => OneOwner
  BY <1>1 DEF OwnInv, OneOwner, Ids
<1>3. QED
  BY <1>2

-----------------------------------------------------------------------------
(* Steps of the parser.                                                    *)

\* The heap grows by block b, and item c becomes `item'.
Grows(c, item, b) ==
  /\ IsSeq(heap')
  /\ Len(heap') = Len(heap) + 1
  /\ heap'[New] = b
  /\ \A i \in Ids : heap'[i] = IF i = c THEN item ELSE heap[i]

\* An item is changed and a block allocated: what parse_string, parse_array and
\* parse_object do to the heap.
LEMMA Grown ==
  ASSUME IsSeq(heap), NEW c \in Ids, NEW item, NEW b,
         heap' = Append([heap EXCEPT ![c] = item], b)
  PROVE  Grows(c, item, b)
<1> DEFINE h == [heap EXCEPT ![c] = item]
<1>1. PICK S : heap \in Seq(S)
  BY DEF IsSeq
<1>2. heap \in Seq(S \cup {item}) /\ item \in S \cup {item}
  BY <1>1, SeqMonotonic
<1>3. /\ h \in Seq(S \cup {item})
      /\ Len(h) = Len(heap)
      /\ \A i \in Ids : h[i] = IF i = c THEN item ELSE heap[i]
  BY <1>2, ExceptSeq DEF Ids
<1> HIDE DEF h
<1>4. h \in Seq(S \cup {item} \cup {b}) /\ b \in S \cup {item} \cup {b}
  BY <1>3, SeqMonotonic
<1>5. heap' = Append(h, b)
  BY DEF h
<1>6. /\ heap' \in Seq(S \cup {item} \cup {b})
      /\ Len(heap') = Len(h) + 1
      /\ \A i \in 1 .. Len(h) : heap'[i] = h[i]
      /\ heap'[Len(h) + 1] = b
  <2>1. \A q : q = Append(h, b) =>
          /\ q \in Seq(S \cup {item} \cup {b}) /\ Len(q) = Len(h) + 1
          /\ \A i \in 1 .. Len(h) : q[i] = h[i]
          /\ q[Len(h) + 1] = b
    BY <1>4
  <2>2. QED
    BY <1>5, <2>1
<1>7. IsSeq(heap')
  BY <1>6 DEF IsSeq
<1>8. QED
  BY <1>3, <1>6, <1>7 DEF Grows, Ids, New

\* A pointer of an item that was NULL gets the new block: its only owner.
LEMMA LinkNew ==
  ASSUME HeapInv, OwnInv, root # 0, ret = 0, PrintFrames = {},
         NEW c \in ItemIds, NEW f \in Links, heap[c][f] = 0,
         NEW item \in ItemSet, item[f] = New, \A g \in Links \ {f} : item[g] = heap[c][g],
         NEW b, \/ b = NewItem /\ f \in {"child", "next"}
                \/ "type" \notin DOMAIN b /\ f \in {"string", "valuestring"},
         Grows(c, item, b),
         live' = live \cup {New}, root' = root, ret' = ret, PrintFrames' = {},
         cur' \in {cur, New}, cur' = New => b = NewItem
  PROVE  /\ HeapInv' /\ OwnInv'
         /\ ItemIds' = IF b = NewItem THEN ItemIds \cup {New} ELSE ItemIds
<1>1. /\ Len(heap) \in Nat /\ New \notin Ids /\ Ids' = Ids \cup {New} /\ New \in Nat
      /\ New > 0
  <2>1. Len(heap) \in Nat
    BY DEF HeapInv
  <2>2. QED
    BY <2>1 DEF Grows, New, Ids
<1>2. /\ ItemIds' = IF b = NewItem THEN ItemIds \cup {New} ELSE ItemIds
      /\ Others' = IF b = NewItem THEN Others ELSE Others \cup {New}
  BY <1>1, Kinds DEF Grows, ItemIds, Others, IsItem
<1>3. ASSUME NEW i \in ItemIds' PROVE Linked(i)'
  <2>1. CASE i = New
    <3>1. heap'[i] = NewItem /\ NewItem \in ItemSet
      BY <1>2, <1>1, <2>1, Kinds DEF Grows, ItemIds
    <3>2. QED
      BY <3>1 DEF Linked, NewItem
  <2>2. CASE i # New /\ i # c
    <3>1. i \in ItemIds /\ heap'[i] = heap[i] /\ Linked(i)
      BY <1>1, <1>2, <2>2 DEF Grows, HeapInv, ItemIds
    <3>2. QED
      BY <1>2, <3>1 DEF Linked
  <2>3. CASE i = c
    <3>1. heap'[i] = item /\ Linked(c) /\ c < New /\ c # New
      BY <1>1, <2>3 DEF Grows, HeapInv, ItemIds, Ids, New
    <3>2. /\ New \in ItemIds' <=> b = NewItem
          /\ New \in Others' <=> b # NewItem
          /\ ItemIds \subseteq ItemIds' /\ Others \subseteq Others'
      BY <1>1, <1>2 DEF ItemIds, Others
    <3>3. b = NewItem <=> f \in {"child", "next"}
      BY Kinds
    <3>4. \A g \in Links \ {f} : item[g] = heap[c][g]
      OBVIOUS
    <3>5. ASSUME NEW g \in {"child", "next"}
          PROVE  item[g] # 0 => item[g] \in ItemIds' /\ item[g] > c
      BY <1>1, <3>1, <3>2, <3>3, <3>4 DEF Linked, Links
    <3>6. ASSUME NEW g \in {"string", "valuestring"}
          PROVE  item[g] # 0 => item[g] \in Others'
      BY <3>1, <3>2, <3>3, <3>4 DEF Linked, Links
    <3>7. QED
      BY <2>3, <3>1, <3>5, <3>6 DEF Linked
  <2>4. QED
    BY <2>1, <2>2, <2>3
<1>4. HeapInv'
  <2>1. root' \in ItemIds' \cup {0} /\ ret' \in Others' \cup {0}
    BY <1>2 DEF HeapInv
  <2>2. cur' \in ItemIds' \cup {0}
    BY <1>2 DEF HeapInv
  <2>3. root' # 0 => ItemIds' \subseteq live'
    BY <1>2 DEF HeapInv
  <2>4. live' \subseteq Ids'
    BY <1>1 DEF HeapInv
  <2>5. QED
    BY <1>3, <2>1, <2>2, <2>3, <2>4 DEF HeapInv, Grows
<1>5. LiveItems' = IF b = NewItem THEN LiveItems \cup {New} ELSE LiveItems
  BY <1>1, <1>2, Kinds DEF LiveItems, HeapInv, ItemIds, IsItem, Grows
<1>6. ASSUME NEW a \in Ids PROVE Owners(a)' = Owners(a)
  <2>1. ItemOwners(a)' = ItemOwners(a)
    <3>1. ASSUME NEW i, NEW g \in Links
          PROVE  i \in LiveItems' /\ heap'[i][g] = a <=> i \in LiveItems /\ heap[i][g] = a
      <4>1. CASE i = New
        <5>1. i \in LiveItems' => heap'[i][g] = 0
          <6>1. i \in LiveItems' => heap'[i] = NewItem
            BY <1>1, <1>5, <4>1 DEF LiveItems, HeapInv, Grows
          <6>2. QED
            BY <6>1 DEF NewItem, Links
        <5>2. a # 0 /\ i \notin LiveItems
          BY <1>1, <4>1 DEF LiveItems, HeapInv, Ids
        <5>3. QED
          BY <5>1, <5>2
      <4>2. CASE i = c
        <5>1. heap'[i] = item /\ i \in LiveItems /\ i \in LiveItems' /\ a # New /\ a # 0
          BY <1>1, <1>5, <4>2 DEF Grows, LiveItems, HeapInv, ItemIds, Ids, New
        <5>2. QED
          BY <4>2, <5>1
      <4>3. CASE i # New /\ i # c
        <5>1. i \in LiveItems => heap'[i] = heap[i]
          BY <4>3 DEF Grows, LiveItems, HeapInv
        <5>2. QED
          BY <1>5, <4>3, <5>1
      <4>4. QED
        BY <4>1, <4>2, <4>3
    <3>2. ASSUME NEW l PROVE l \in ItemOwners(a)' <=> l \in ItemOwners(a)
      BY <3>1 DEF ItemOwners
    <3>3. QED
      BY <3>2
  <2>2. FrameOwners(a) = {} /\ FrameOwners(a)' = {}
    BY DEF FrameOwners
  <2>3. RootOwner(a)' = RootOwner(a) /\ RetOwner(a)' = RetOwner(a)
    BY DEF RootOwner, RetOwner
  <2>4. Owners(a)' = ItemOwners(a)' \cup FrameOwners(a)' \cup RootOwner(a)' \cup RetOwner(a)'
    BY OwnersAre
  <2>5. QED
    BY <2>1, <2>2, <2>3, <2>4, OwnersAre
<1>7. ASSUME NEW n, n = New PROVE Owners(n)' = {<<c, f>>}
  <2>1. ItemOwners(n)' = {<<c, f>>}
    <3>1. ASSUME NEW i \in LiveItems', NEW g \in Links, heap'[i][g] = n
          PROVE  i = c /\ g = f
      <4>1. i # New
        <5>1. i = New => heap'[i] = NewItem
          BY <1>5, <1>1 DEF Grows, LiveItems, HeapInv
        <5>2. QED
          BY <1>1, <1>7, <3>1, <5>1 DEF NewItem, Links
      <4>2. i \in ItemIds
        BY <1>5, <4>1 DEF LiveItems, HeapInv, ItemIds
      <4>3. \A h \in Links : heap[i][h] # n
        BY <1>1, <1>7, <4>2 DEF HeapInv, Linked, Links, ItemIds, Others
      <4>4. i = c
        BY <3>1, <4>2, <4>3 DEF Grows, ItemIds
      <4>5. heap'[i] = item
        BY <4>4 DEF Grows, ItemIds
      <4>6. QED
        BY <3>1, <4>3, <4>4, <4>5
    <3>2. c \in LiveItems' /\ heap'[c][f] = n
      BY <1>1, <1>7, <1>5 DEF Grows, ItemIds, HeapInv, LiveItems
    <3>3. <<c, f>> \in LiveItems' \X Links /\ <<c, f>>[1] = c /\ <<c, f>>[2] = f
      BY <3>2
    <3>4. <<c, f>> \in {l \in LiveItems' \X Links : heap'[l[1]][l[2]] = n}
      BY <3>2, <3>3
    <3>5. ASSUME NEW l \in LiveItems' \X Links, heap'[l[1]][l[2]] = n
          PROVE  l = <<c, f>>
      BY <3>1, <3>5
    <3>6. QED
      BY <3>4, <3>5 DEF ItemOwners
  <2>2. FrameOwners(n)' = {}
    BY DEF FrameOwners
  <2>3. RootOwner(n)' = {} /\ RetOwner(n)' = {}
    BY <1>1, <1>7 DEF RootOwner, RetOwner, HeapInv, ItemIds
  <2>4. Owners(n)' = ItemOwners(n)' \cup FrameOwners(n)' \cup RootOwner(n)' \cup RetOwner(n)'
    BY OwnersAre
  <2>5. QED
    BY <2>1, <2>2, <2>3, <2>4
<1>8. OwnInv'
  <2>1. \E n : n = New
    OBVIOUS
  <2>2. PICK n : n = New
    BY <2>1
  <2>3. Owners(n)' = {<<c, f>>}
    BY <1>7, <2>2
  <2>4. ASSUME NEW a \in live' PROVE \E x : Owners(a)' = {x}
    <3>1. a = n \/ (a \in live /\ a \in Ids)
      BY <2>2, <2>4 DEF HeapInv
    <3>2. CASE a = n
      BY <2>3, <3>2
    <3>3. CASE a \in live /\ a \in Ids
      BY <1>6, <3>3 DEF OwnInv
    <3>4. QED
      BY <3>1, <3>2, <3>3
  <2>5. ASSUME NEW a \in Ids', Owners(a)' # {} PROVE a \in live'
    <3>1. a = n \/ a \in Ids
      BY <1>1, <2>2, <2>5
    <3>2. CASE a \in Ids
      BY <1>6, <2>5, <3>2 DEF OwnInv
    <3>3. QED
      BY <2>2, <3>1, <3>2
  <2>6. QED
    BY <2>4, <2>5 DEF OwnInv
<1>9. QED
  BY <1>2, <1>4, <1>8

-----------------------------------------------------------------------------
(* Steps of the printer, which leave the tree alone.                       *)

\* The items stay; blocks that are no items may come and go.
TreeStays ==
  /\ IsSeq(heap')
  /\ Len(heap') \in Nat /\ Len(heap') >= Len(heap)
  /\ \A i \in Ids : heap'[i] = heap[i]
  /\ \A i \in Ids' \ Ids : "type" \notin DOMAIN heap'[i]
  /\ live' \subseteq Ids' /\ live' \cap ItemIds = live \cap ItemIds
  /\ root' = root

\* The items are those there were; what is new is none.
LEMMA TreeItems ==
  ASSUME HeapInv, TreeStays
  PROVE  ItemIds' = ItemIds /\ Others' = Others \cup (Ids' \ Ids)
<1>1. Len(heap) \in Nat /\ Ids \subseteq Ids'
  BY DEF HeapInv, TreeStays, Ids
<1>2. QED
  BY <1>1 DEF TreeStays, ItemIds, Others, IsItem

\* The tree's pointers are what they were.
LEMMA TreeKept ==
  ASSUME HeapInv, TreeStays, cur' \in ItemIds \cup {0}, ret' \in Others' \cup {0}
  PROVE  /\ HeapInv' /\ ItemIds' = ItemIds /\ Others' = Others \cup (Ids' \ Ids)
         /\ \A a \in Ids : /\ ItemOwners(a)' = ItemOwners(a)
                           /\ RootOwner(a)' = RootOwner(a)
         /\ \A a \in Ids' \ Ids : ItemOwners(a)' = {} /\ RootOwner(a)' = {}
<1>1. Len(heap) \in Nat /\ Ids \subseteq Ids'
  BY DEF HeapInv, TreeStays, Ids
<1>2. ItemIds' = ItemIds /\ Others' = Others \cup (Ids' \ Ids)
  BY TreeItems
<1>3. ASSUME NEW i \in ItemIds PROVE Linked(i)'
  <2>1. heap'[i] = heap[i] /\ Linked(i)
    BY DEF TreeStays, HeapInv, ItemIds
  <2>2. QED
    BY <1>2, <2>1 DEF Linked
<1>4. HeapInv'
  BY <1>1, <1>2, <1>3 DEF HeapInv, TreeStays
<1>5. LiveItems' = LiveItems /\ LiveItems \subseteq ItemIds
  BY <1>1, <1>2, <1>4 DEF LiveItems, HeapInv, TreeStays, ItemIds
<1>6. ASSUME NEW i \in LiveItems PROVE heap'[i] = heap[i]
  BY <1>5 DEF TreeStays, ItemIds
<1>7. ASSUME NEW a PROVE ItemOwners(a)' = ItemOwners(a)
  BY <1>5, <1>6 DEF ItemOwners
<1>8. ASSUME NEW a \in Ids' \ Ids PROVE ItemOwners(a) = {}
  <2>1. ASSUME NEW i \in ItemIds, NEW f \in Links PROVE heap[i][f] # a
    BY <1>1 DEF HeapInv, Linked, Links, ItemIds, Others, Ids
  <2>2. QED
    BY <1>5, <2>1 DEF ItemOwners
<1>9. ASSUME NEW a PROVE RootOwner(a)' = RootOwner(a)
  BY DEF RootOwner, TreeStays
<1>10. ASSUME NEW a \in Ids' \ Ids PROVE RootOwner(a) = {}
  BY <1>1 DEF RootOwner, HeapInv, ItemIds, Ids
<1>11. QED
  BY <1>2, <1>4, <1>7, <1>8, <1>9, <1>10

PrintFrame == [type : {"Array", "Object"}, child : Nat, item : Nat, arrays : SUBSET Nat,
               names : Seq(Nat), entries : Seq(Nat), fail : BOOLEAN]

\* What a frame of a print call holds.
FrameInv(f) ==
  /\ f \in PrintFrame
  /\ f.child \in ItemIds /\ f.item \in ItemIds
  /\ Scratch(f) \subseteq Others

\* What the frames below the top hold.
BelowOwners(a) == UNION {Held(stack[m], m, a) : m \in 1 .. Len(stack) - 1}

\* All frames of print calls hold something.
LEMMA AllHold ==
  /\ stack \in Seq(PrintFrame) => PrintFrames = 1 .. Len(stack)
  /\ stack' \in Seq(PrintFrame) => PrintFrames' = 1 .. Len(stack')
<1>1. \A f \in PrintFrame : "arrays" \in DOMAIN f
  BY DEF PrintFrame
<1>2. \A s : s \in Seq(PrintFrame) =>
        {n \in 1 .. Len(s) : "arrays" \in DOMAIN s[n]} = 1 .. Len(s)
  BY <1>1
<1>3. QED
  BY <1>2 DEF PrintFrames

\* A print call that starts adds what it holds.
LEMMA OwnersPushed ==
  ASSUME stack \in Seq(PrintFrame), NEW f \in PrintFrame, stack' = Append(stack, f), NEW a
  PROVE  FrameOwners(a)' = FrameOwners(a) \cup Held(f, Len(stack) + 1, a)
<1>1. stack' \in Seq(PrintFrame)
  OBVIOUS
<1>2. PrintFrames = 1 .. Len(stack) /\ PrintFrames' = 1 .. Len(stack')
  BY <1>1, AllHold
<1>3. /\ Len(stack') = Len(stack) + 1 /\ Len(stack) \in Nat
      /\ \A m \in 1 .. Len(stack) : stack'[m] = stack[m]
      /\ stack'[Len(stack) + 1] = f
  OBVIOUS
<1>4. QED
  BY <1>2, <1>3 DEF FrameOwners

\* What all print calls hold is what the innermost holds and the others.
LEMMA OwnersOfTop ==
  ASSUME stack \in Seq(PrintFrame), stack # <<>>, NEW a
  PROVE  FrameOwners(a) = BelowOwners(a) \cup Held(Top, Len(stack), a)
<1>1. PrintFrames = 1 .. Len(stack)
  BY AllHold
<1>2. Len(stack) \in Nat \ {0}
  OBVIOUS
<1>3. 1 .. Len(stack) = (1 .. Len(stack) - 1) \cup {Len(stack)}
  BY <1>2
<1>4. QED
  BY <1>1, <1>3 DEF FrameOwners, BelowOwners, Top

\* A change of the innermost call changes nothing the others hold.
LEMMA OwnersOfNewTop ==
  ASSUME stack \in Seq(PrintFrame), stack # <<>>, NEW f \in PrintFrame, stack' = SetTop(f), NEW a
  PROVE  /\ stack' \in Seq(PrintFrame) /\ Len(stack') = Len(stack)
         /\ \A m \in 1 .. Len(stack') : stack'[m] = IF m = Len(stack) THEN f ELSE stack[m]
         /\ FrameOwners(a)' = BelowOwners(a) \cup Held(f, Len(stack), a)
<1>1. /\ stack' \in Seq(PrintFrame) /\ Len(stack') = Len(stack)
      /\ \A m \in 1 .. Len(stack') : stack'[m] = IF m = Len(stack) THEN f ELSE stack[m]
  BY DEF SetTop
<1>2. PrintFrames' = 1 .. Len(stack)
  BY <1>1, AllHold
<1>3. 1 .. Len(stack) = (1 .. Len(stack) - 1) \cup {Len(stack)} /\ Len(stack) \in Nat \ {0}
  OBVIOUS
<1>4. \A m \in 1 .. Len(stack) - 1 : stack'[m] = stack[m]
  BY <1>1, <1>3
<1>5. stack'[Len(stack)] = f
  BY <1>1, <1>3
<1>6. QED
  BY <1>1, <1>2, <1>3, <1>4, <1>5 DEF FrameOwners, BelowOwners

\* A call that returns leaves the calls around it.
LEMMA Popped ==
  ASSUME NEW S, stack \in Seq(S), stack # <<>>, stack' = Pop
  PROVE  /\ stack' \in Seq(S) /\ Len(stack') = Len(stack) - 1
         /\ \A m \in 1 .. Len(stack') : stack'[m] = stack[m]
<1>1. /\ Len(stack) \in Nat \ {0} /\ 1 \in Int /\ Len(stack) - 1 \in Int
      /\ \A m \in 1 .. Len(stack) - 1 : stack[m] \in S
  OBVIOUS
<1>2. /\ Pop \in Seq(S)
      /\ Len(Pop) = IF 1 <= Len(stack) - 1 THEN Len(stack) - 1 - 1 + 1 ELSE 0
      /\ \A m \in 1 .. Len(stack) - 1 - 1 + 1 : Pop[m] = stack[1 + m - 1]
  BY <1>1, SubSeqProperties DEF Pop
<1>3. Len(Pop) = Len(stack) - 1
  <2>1. \A n \in Nat \ {0} : (IF 1 <= n - 1 THEN n - 1 - 1 + 1 ELSE 0) = n - 1
    OBVIOUS
  <2>2. QED
    BY <1>1, <1>2, <2>1
<1>4. \A m \in 1 .. Len(stack) - 1 : Pop[m] = stack[m]
  BY <1>1, <1>2
<1>5. QED
  BY <1>2, <1>3, <1>4

\* A print call that returns leaves what the others hold.
LEMMA OwnersPopped ==
  ASSUME stack \in Seq(PrintFrame), stack # <<>>, stack' = Pop, NEW a
  PROVE  FrameOwners(a)' = BelowOwners(a)
<1>1. /\ stack' \in Seq(PrintFrame) /\ Len(stack') = Len(stack) - 1
      /\ \A m \in 1 .. Len(stack') : stack'[m] = stack[m]
  BY Popped
<1>2. PrintFrames' = 1 .. Len(stack) - 1
  BY <1>1, AllHold
<1>3. QED
  BY <1>1, <1>2 DEF FrameOwners, BelowOwners

\* A frame holds what it is to free, nothing else.
LEMMA HeldIsScratch ==
  ASSUME NEW f \in PrintFrame, NEW m, NEW a, a # 0
  PROVE  Held(f, m, a) # {} <=> a \in Scratch(f)
<1>1. ASSUME NEW s PROVE At(s, a) # {} <=> a \in Listed(s)
  BY DEF At, Listed
<1>2. Held(f, m, a) # {} <=> a \in f.arrays \/ At(f.names, a) # {} \/ At(f.entries, a) # {}
  BY DEF Held
<1>3. QED
  BY <1>1, <1>2 DEF Scratch

\* No call holds what has not been allocated.
LEMMA NoneHeld ==
  ASSUME HeapInv, NEW a, a \notin Ids, a # 0, stack \in Seq(PrintFrame),
         \A m \in 1 .. Len(stack) : FrameInv(stack[m])
  PROVE  FrameOwners(a) = {} /\ BelowOwners(a) = {}
<1>1. Len(stack) \in Nat
  OBVIOUS
<1>2. ASSUME NEW m \in 1 .. Len(stack) PROVE Held(stack[m], m, a) = {}
  BY HeldIsScratch DEF FrameInv, Others
<1>3. FrameOwners(a) = {}
  BY <1>2, AllHold DEF FrameOwners
<1>4. BelowOwners(a) = {}
  BY <1>1, <1>2 DEF BelowOwners
<1>5. QED
  BY <1>3, <1>4

-----------------------------------------------------------------------------
(* What cJSON_Delete reaches.                                              *)

\* Every non-empty set of naturals has a least element.
LEMMA LeastNat ==
  ASSUME NEW S \in SUBSET Nat, S # {}
  PROVE  \E x \in S : \A y \in S : x <= y
<1> DEFINE Less == {p \in Nat \X Nat : p[1] < p[2]}
<1>1. IsWellFoundedOn(Less, Nat)
  BY NatLessThanWellFounded DEF OpToRel
<1>2. PICK x \in S : \A y \in S : <<y, x>> \notin Less
  BY <1>1, WFMin
<1>3. ASSUME NEW y \in S PROVE x <= y
  <2>1. <<y, x>> \in Nat \X Nat /\ <<y, x>>[1] = y /\ <<y, x>>[2] = x
    OBVIOUS
  <2>2. ~(y < x)
    BY <1>2, <2>1
  <2>3. QED
    BY <2>2
<1>4. QED
  BY <1>3

\* And every bounded one a greatest.
LEMMA GreatestNat ==
  ASSUME NEW n \in Nat, NEW S \in SUBSET (0 .. n), S # {}
  PROVE  \E x \in S : \A y \in S : y <= x
<1>1. {n - y : y \in S} \in SUBSET Nat /\ {n - y : y \in S} # {}
  <2>1. \A y \in S : n - y \in Nat
    OBVIOUS
  <2>2. PICK y \in S : TRUE
    OBVIOUS
  <2>3. n - y \in {n - z : z \in S}
    BY <2>2
  <2>4. QED
    BY <2>1, <2>3
<1>2. PICK z \in {n - y : y \in S} : \A w \in {n - y : y \in S} : z <= w
  BY <1>1, LeastNat
<1>3. PICK x \in S : z = n - x
  OBVIOUS
<1>4. ASSUME NEW y \in S PROVE y <= x
  <2>1. n - x <= n - y
    BY <1>2, <1>3
  <2>2. QED
    BY <2>1
<1>5. QED
  BY <1>4

\* One step of cJSON_Delete: the item, its child's list and the items behind.
BelowStep(f, i) ==
  IF i = 0 \/ ~IsItem(i) THEN {} ELSE {i} \cup f[heap[i].child] \cup f[heap[i].next]

\* The recursion of cJSON_Delete has a result: what lies in every set that
\* holds the item and with each item its child and next.
LEMMA BelowExists ==
  ASSUME HeapInv
  PROVE  \E f : f = [i \in 0 .. Len(heap) |-> BelowStep(f, i)]
<1> DEFINE Sub(x) == {heap[x].child, heap[x].next} \ {0}
           Closed(S) == \A x \in S : Sub(x) \subseteq S
           Reach(i) == {j \in ItemIds : \A S \in SUBSET ItemIds : Closed(S) /\ i \in S => j \in S}
           g == [i \in 0 .. Len(heap) |-> IF i = 0 \/ ~IsItem(i) THEN {} ELSE Reach(i)]
<1>1. Len(heap) \in Nat
  BY DEF HeapInv
<1>2. ASSUME NEW i \in ItemIds PROVE i \in 0 .. Len(heap) /\ i # 0 /\ IsItem(i)
  BY <1>1 DEF ItemIds, Ids
<1>3. ASSUME NEW i \in ItemIds
      PROVE  /\ Sub(i) \subseteq ItemIds
             /\ heap[i].child \in ItemIds \cup {0} /\ heap[i].next \in ItemIds \cup {0}
  BY DEF HeapInv, Linked
<1>4. g[0] = {}
  BY <1>1
<1>5. \A i \in ItemIds : g[i] = Reach(i)
  BY <1>2
<1> HIDE DEF g
<1>6. ASSUME NEW i \in ItemIds
      PROVE  Reach(i) = {i} \cup g[heap[i].child] \cup g[heap[i].next]
  <2> DEFINE T == {i} \cup g[heap[i].child] \cup g[heap[i].next]
  <2>1. ASSUME NEW c \in Sub(i) PROVE c \in ItemIds /\ g[c] = Reach(c)
    BY <1>3, <1>5
  <2>2. T \subseteq ItemIds
    BY <1>3, <1>4, <1>5
  <2>3. ASSUME NEW c \in ItemIds, NEW x \in Reach(c) PROVE Sub(x) \subseteq Reach(c)
    BY <1>3
  <2>4. ASSUME NEW c \in ItemIds PROVE c \in Reach(c)
    OBVIOUS
  <2>5. Closed(T)
    <3>1. ASSUME NEW x \in T PROVE Sub(x) \subseteq T
      <4>1. CASE x = i
        BY <2>1, <2>4, <4>1
      <4>2. CASE x \in g[heap[i].child]
        <5>1. heap[i].child \in Sub(i)
          BY <1>3, <1>4, <4>2
        <5>2. x \in Reach(heap[i].child) /\ Reach(heap[i].child) \subseteq T
          BY <2>1, <4>2, <5>1
        <5>3. Sub(x) \subseteq Reach(heap[i].child)
          BY <2>1, <2>3, <5>1, <5>2
        <5>4. QED
          BY <5>2, <5>3
      <4>3. CASE x \in g[heap[i].next]
        <5>1. heap[i].next \in Sub(i)
          BY <1>3, <1>4, <4>3
        <5>2. x \in Reach(heap[i].next) /\ Reach(heap[i].next) \subseteq T
          BY <2>1, <4>3, <5>1
        <5>3. Sub(x) \subseteq Reach(heap[i].next)
          BY <2>1, <2>3, <5>1, <5>2
        <5>4. QED
          BY <5>2, <5>3
      <4>4. QED
        BY <4>1, <4>2, <4>3
    <3>2. QED
      BY <3>1
  <2>6. Reach(i) \subseteq T
    BY <2>2, <2>5
  <2>7. ASSUME NEW c \in Sub(i) PROVE Reach(c) \subseteq Reach(i)
    OBVIOUS
  <2>8. T \subseteq Reach(i)
    <3>1. ASSUME NEW x \in T PROVE x \in Reach(i)
      <4>1. CASE x = i
        BY <2>4, <4>1
      <4>2. CASE x \in g[heap[i].child]
        <5>1. heap[i].child \in Sub(i)
          BY <1>3, <1>4, <4>2
        <5>2. QED
          BY <2>1, <2>7, <4>2, <5>1
      <4>3. CASE x \in g[heap[i].next]
        <5>1. heap[i].next \in Sub(i)
          BY <1>3, <1>4, <4>3
        <5>2. QED
          BY <2>1, <2>7, <4>3, <5>1
      <4>4. QED
        BY <4>1, <4>2, <4>3
    <3>2. QED
      BY <3>1
  <2>9. QED
    BY <2>6, <2>8
<1>7. ASSUME NEW i \in 0 .. Len(heap) PROVE g[i] = BelowStep(g, i)
  <2>1. CASE i = 0 \/ ~IsItem(i)
    BY <2>1 DEF BelowStep, g
  <2>2. CASE i # 0 /\ IsItem(i)
    <3>1. i \in ItemIds
      BY <2>2 DEF ItemIds, Ids
    <3>2. QED
      BY <1>5, <1>6, <2>2, <3>1 DEF BelowStep
  <2>3. QED
    BY <2>1, <2>2
<1>8. g = [i \in 0 .. Len(heap) |-> g[i]]
  BY DEF g
<1>9. g = [i \in 0 .. Len(heap) |-> BelowStep(g, i)]
  BY <1>7, <1>8
<1>10. QED
  BY <1>9

\* cJSON_Delete passes an item, what is below its child and what is behind it.
LEMMA ItemsStep ==
  ASSUME HeapInv
  PROVE  /\ Items(0) = {}
         /\ \A i \in ItemIds : Items(i) = {i} \cup Items(heap[i].child) \cup Items(heap[i].next)
<1> DEFINE Def(f) == [i \in 0 .. Len(heap) |->
                        IF i = 0 \/ ~IsItem(i) THEN {}
                        ELSE {i} \cup f[heap[i].child] \cup f[heap[i].next]]
           below == CHOOSE f : f = Def(f)
<1>1. PICK f : f = [i \in 0 .. Len(heap) |-> BelowStep(f, i)]
  BY BelowExists
<1>2. f = Def(f)
  BY <1>1 DEF BelowStep
<1>3. below = Def(below)
  BY <1>2
<1>4. ASSUME NEW c PROVE Items(c) = below[c]
  BY DEF Items
<1> HIDE DEF below
<1>5. \A i \in 0 .. Len(heap) : below[i] = BelowStep(below, i)
  BY <1>3 DEF BelowStep
<1>6. Len(heap) \in Nat
  BY DEF HeapInv
<1>7. ASSUME NEW i \in ItemIds PROVE i \in 0 .. Len(heap) /\ i # 0 /\ IsItem(i)
  BY <1>6 DEF ItemIds, Ids
<1>8. below[0] = {}
  <2>1. 0 \in 0 .. Len(heap)
    BY <1>6
  <2>2. QED
    BY <1>5, <2>1 DEF BelowStep
<1>9. ASSUME NEW i \in ItemIds
      PROVE  below[i] = {i} \cup below[heap[i].child] \cup below[heap[i].next]
  BY <1>5, <1>7 DEF BelowStep
<1>10. QED
  BY <1>4, <1>8, <1>9

\* With an item it passes its child and its next, and nothing but items.
LEMMA ItemsClosed ==
  ASSUME HeapInv, NEW i \in ItemIds
  PROVE  /\ i \in Items(i) /\ Items(i) \subseteq ItemIds
         /\ \A j \in Items(i) : {heap[j].child, heap[j].next} \ {0} \subseteq Items(i)
<1> DEFINE Good(k) == /\ Items(k) \subseteq ItemIds
                      /\ \A j \in Items(k) : {heap[j].child, heap[j].next} \ {0} \subseteq Items(k)
           bad == {k \in ItemIds : ~Good(k)}
<1>1. Len(heap) \in Nat /\ ItemIds \subseteq 0 .. Len(heap) /\ ItemIds \subseteq Nat
  BY DEF HeapInv, ItemIds, Ids
<1>2. ASSUME NEW k \in ItemIds
      PROVE  Items(k) = {k} \cup Items(heap[k].child) \cup Items(heap[k].next)
  BY ItemsStep
<1>3. ASSUME NEW k \in ItemIds PROVE k \in Items(k)
  BY <1>2
<1>4. bad = {}
  <2> SUFFICES ASSUME bad # {} PROVE FALSE
    OBVIOUS
  <2>1. PICK k \in bad : \A y \in bad : y <= k
    <3>1. bad \in SUBSET (0 .. Len(heap))
      BY <1>1
    <3>2. QED
      BY <1>1, <3>1, GreatestNat
  <2>2. k \in ItemIds /\ ~Good(k) /\ Linked(k)
    BY <2>1 DEF HeapInv
  <2>3. ASSUME NEW c \in {heap[k].child, heap[k].next}
        PROVE  /\ c = 0 \/ (c \in ItemIds /\ c \in Items(c))
               /\ Good(c)
    <3>1. CASE c = 0
      BY <3>1, ItemsStep
    <3>2. CASE c # 0
      <4>1. c \in ItemIds /\ c > k
        BY <2>2, <3>2 DEF Linked
      <4>2. c \notin bad
        BY <1>1, <2>1, <2>2, <4>1
      <4>3. QED
        BY <1>3, <4>1, <4>2
    <3>3. QED
      BY <3>1, <3>2
  <2> DEFINE a == heap[k].child
             b == heap[k].next
  <2>4. Items(k) = {k} \cup Items(a) \cup Items(b)
    BY <1>2, <2>2
  <2>5. Good(a) /\ Good(b) /\ (a = 0 \/ a \in Items(a)) /\ (b = 0 \/ b \in Items(b))
    BY <2>3
  <2>6. Items(k) \subseteq ItemIds
    BY <2>2, <2>4, <2>5
  <2>7. ASSUME NEW j \in Items(k) PROVE {heap[j].child, heap[j].next} \ {0} \subseteq Items(k)
    <3>1. CASE j = k
      BY <2>4, <2>5, <3>1
    <3>2. CASE j \in Items(a)
      BY <2>4, <2>5, <3>2
    <3>3. CASE j \in Items(b)
      BY <2>4, <2>5, <3>3
    <3>4. QED
      BY <2>4, <3>1, <3>2, <3>3
  <2>8. QED
    BY <2>2, <2>6, <2>7
<1>5. QED
  BY <1>3, <1>4

\* As long as the tree is there, every live block belongs to it, to a print
\* call or to the caller.
LEMMA AllReached ==
  ASSUME HeapInv, OwnInv, root # 0, \A a \in ItemIds : FrameOwners(a) = {}
  PROVE  /\ ItemIds \subseteq Items(root)
         /\ \A b \in live : FrameOwners(b) = {} => b \in Blocks(root) \cup {ret}
<1>1. root \in ItemIds /\ root \in Items(root) /\ Items(root) \subseteq ItemIds
  BY ItemsClosed DEF HeapInv
<1>2. \A j \in Items(root) : {heap[j].child, heap[j].next} \ {0} \subseteq Items(root)
  BY <1>1, ItemsClosed
<1>3. ItemIds \subseteq Nat /\ ItemIds \subseteq live /\ 0 \notin live /\ Others \cap ItemIds = {}
  BY DEF HeapInv, ItemIds, Ids, Others
<1>4. ASSUME NEW b \in live, FrameOwners(b) = {}, b # root, b # ret
      PROVE  \E i \in ItemIds, f \in Links : heap[i][f] = b
  <2>1. Owners(b) # {}
    BY DEF OwnInv
  <2>2. RootOwner(b) = {} /\ RetOwner(b) = {}
    BY <1>4 DEF RootOwner, RetOwner
  <2>3. ItemOwners(b) # {}
    BY <1>4, <2>1, <2>2, OwnersAre
  <2>4. QED
    BY <2>3 DEF ItemOwners, LiveItems, ItemIds, HeapInv
<1>5. ItemIds \subseteq Items(root)
  <2> DEFINE bad == ItemIds \ Items(root)
  <2> SUFFICES ASSUME bad # {} PROVE FALSE
    OBVIOUS
  <2>1. PICK b \in bad : \A y \in bad : b <= y
    <3>1. bad \in SUBSET Nat
      BY <1>3
    <3>2. QED
      BY <3>1, LeastNat
  <2>2. b \in live /\ FrameOwners(b) = {} /\ b # root /\ b # ret /\ b \notin Others /\ b # 0
    BY <1>1, <1>3, <2>1 DEF HeapInv
  <2>3. PICK i \in ItemIds, f \in Links : heap[i][f] = b
    BY <1>4, <2>2
  <2>4. f \in {"child", "next"} /\ b > i
    BY <2>2, <2>3 DEF HeapInv, Linked, Links
  <2>5. i \in Items(root)
    BY <1>3, <2>1, <2>3, <2>4
  <2>6. b \in Items(root)
    BY <1>2, <2>2, <2>3, <2>4, <2>5
  <2>7. QED
    BY <2>1, <2>6
<1>6. ASSUME NEW b \in live, FrameOwners(b) = {} PROVE b \in Blocks(root) \cup {ret}
  <2>1. \A j \in Items(root) : {j, heap[j].string, heap[j].valuestring} \ {0} \subseteq Blocks(root)
    BY DEF Blocks
  <2>2. CASE b \in ItemIds
    BY <1>3, <1>5, <2>1, <2>2
  <2>3. CASE b \notin ItemIds /\ b # ret
    <3>1. PICK i \in ItemIds, f \in Links : heap[i][f] = b
      BY <1>1, <1>4, <1>6, <2>3
    <3>2. f \in {"string", "valuestring"} /\ b # 0
      BY <1>3, <2>3, <3>1 DEF HeapInv, Linked, Links
    <3>3. QED
      BY <1>5, <2>1, <3>1, <3>2
  <2>4. QED
    BY <2>2, <2>3
<1>7. QED
  BY <1>5, <1>6

-----------------------------------------------------------------------------
(* The invariant.                                                          *)

Parsing == {"value", "name", "colon", "after", "parsed", "undefined"}
Printing == {"print", "printName", "printed", "compose"}

ParseFrame == [type : {"Array", "Object"}, child : Nat]

\* While the text is read, every container under way ends in an item that has
\* no next, and the item under way has no value yet.
ParseInv ==
  pc \in Parsing =>
    /\ root # 0 /\ ret = 0 /\ cur # 0
    /\ stack \in Seq(ParseFrame)
    /\ \A m \in 1 .. Len(stack) :
         stack[m].child \in ItemIds /\ heap[stack[m].child].next = 0
    /\ \A m, n \in 1 .. Len(stack) : m < n => stack[m].child < stack[n].child
    /\ pc \in {"value", "name", "colon"} => heap[cur].child = 0 /\ heap[cur].valuestring = 0
    /\ pc = "name" => heap[cur].string = 0
    /\ pc = "parsed" => stack = <<>>

\* While an item is printed, the frames hold texts and arrays of their own.
PrintInv ==
  pc \in Printing =>
    /\ root # 0
    /\ stack \in Seq(PrintFrame) /\ \A m \in 1 .. Len(stack) : FrameInv(stack[m])
    /\ pc # "printed" => ret = 0
    /\ pc \in {"printName", "compose"} => stack # <<>>

\* Before and after there is nothing.
IdleInv ==
  pc \in {"start", "null", "released"} =>
    live = {} /\ root = 0 /\ ret = 0 /\ stack = <<>> /\ (pc = "start" => heap = <<>> /\ cur = 0)

PhaseInv == pc \in Parsing \cup Printing \cup {"start", "null", "released"}

IInv == HeapInv /\ OwnInv /\ PhaseInv /\ ParseInv /\ PrintInv /\ IdleInv

\* The frames of the parser hold nothing.
LEMMA NoneHold ==
  /\ stack \in Seq(ParseFrame) => PrintFrames = {}
  /\ stack' \in Seq(ParseFrame) => PrintFrames' = {}
<1>1. \A f \in ParseFrame : "arrays" \notin DOMAIN f
  BY DEF ParseFrame
<1>2. \A s : s \in Seq(ParseFrame) => {n \in 1 .. Len(s) : "arrays" \in DOMAIN s[n]} = {}
  BY <1>1
<1>3. QED
  BY <1>2 DEF PrintFrames

\* A new type or value of an item changes no pointer.
LEMMA Retyped ==
  ASSUME HeapInv, OwnInv, PrintFrames = {}, PrintFrames' = {},
         NEW c \in ItemIds, NEW item \in ItemSet, \A g \in Links : item[g] = heap[c][g],
         IsSeq(heap'), Len(heap') = Len(heap),
         \A i \in Ids : heap'[i] = IF i = c THEN item ELSE heap[i],
         live' = live, root' = root, ret' = ret, cur' = cur
  PROVE  HeapInv' /\ OwnInv' /\ ItemIds' = ItemIds
<1>1. Ids' = Ids /\ Len(heap) \in Nat
  BY DEF Ids, HeapInv
<1>2. ItemIds' = ItemIds /\ Others' = Others
  BY <1>1, Kinds DEF ItemIds, Others, IsItem
<1>3. ASSUME NEW i \in ItemIds PROVE Linked(i)'
  <2>1. CASE i = c
    <3>1. heap'[i] = item /\ Linked(c)
      BY <2>1 DEF ItemIds, HeapInv
    <3>2. QED
      BY <1>2, <2>1, <3>1 DEF Linked, Links
  <2>2. CASE i # c
    <3>1. heap'[i] = heap[i] /\ Linked(i)
      BY <2>2 DEF ItemIds, HeapInv
    <3>2. QED
      BY <1>2, <3>1 DEF Linked
  <2>3. QED
    BY <2>1, <2>2
<1>4. HeapInv'
  BY <1>1, <1>2, <1>3 DEF HeapInv
<1>5. LiveItems' = LiveItems /\ LiveItems \subseteq Ids
  BY <1>1, <1>2, <1>4 DEF LiveItems, HeapInv, ItemIds
<1>6. \A i \in LiveItems, g \in Links : heap'[i][g] = heap[i][g]
  BY <1>5
<1>7. ASSUME NEW b PROVE Owners(b)' = Owners(b)
  <2>1. ItemOwners(b)' = ItemOwners(b)
    BY <1>5, <1>6 DEF ItemOwners
  <2>2. FrameOwners(b)' = FrameOwners(b)
    BY DEF FrameOwners
  <2>3. RootOwner(b)' = RootOwner(b) /\ RetOwner(b)' = RetOwner(b)
    BY DEF RootOwner, RetOwner
  <2>4. QED
    BY <2>1, <2>2, <2>3, OwnersAre
<1>8. OwnInv'
  BY <1>1, <1>7 DEF OwnInv
<1>9. QED
  BY <1>2, <1>4, <1>8

\* The heap as it was.
LEMMA Untouched ==
  ASSUME HeapInv, OwnInv, PrintFrames = {}, PrintFrames' = {}, cur # 0,
         heap' = heap, live' = live, root' = root, ret' = ret, cur' = cur
  PROVE  HeapInv' /\ OwnInv' /\ ItemIds' = ItemIds
<1>1. cur \in ItemIds /\ Linked(cur)
  BY DEF HeapInv
<1>2. heap[cur] \in ItemSet /\ IsSeq(heap')
  BY <1>1 DEF Linked, HeapInv
<1>3. QED
  BY <1>1, <1>2, Retyped

-----------------------------------------------------------------------------
\* Nothing is allocated at first.
LEMMA InvInit == Init => IInv
<1> SUFFICES ASSUME Init PROVE IInv
  OBVIOUS
<1>1. Len(heap) = 0 /\ Ids = {} /\ heap \in Seq({})
  BY DEF Init, Ids
<1>2. HeapInv
  BY <1>1 DEF Init, HeapInv, ItemIds, IsSeq
<1>3. OwnInv
  BY <1>1 DEF Init, OwnInv
<1>4. QED
  BY <1>2, <1>3 DEF Init, IInv, PhaseInv, ParseInv, PrintInv, IdleInv, Parsing, Printing

\* The first item is owned by the root.
LEMMA ParseStep ==
  ASSUME IInv, Parse
  PROVE  IInv'
<1>1. /\ pc = "start" /\ live = {} /\ root = 0 /\ ret = 0 /\ stack = <<>> /\ heap = <<>> /\ cur = 0
  BY DEF IInv, IdleInv, Parse
<1>2. CASE pc' = "null"
  <2>1. heap' = <<>> /\ live' = {} /\ root' = 0 /\ ret' = 0 /\ stack' = <<>> /\ cur' = 0
    BY <1>1, <1>2 DEF Parse
  <2>2. Ids' = {} /\ heap' \in Seq({})
    BY <2>1 DEF Ids
  <2>3. HeapInv' /\ OwnInv'
    BY <2>1, <2>2 DEF HeapInv, OwnInv, ItemIds, IsSeq
  <2>4. QED
    BY <1>2, <2>1, <2>3 DEF IInv, PhaseInv, ParseInv, PrintInv, IdleInv, Parsing, Printing
<1>3. CASE pc' = "value"
  <2>1. /\ heap' = <<NewItem>> /\ live' = {1} /\ root' = 1 /\ cur' = 1 /\ ret' = 0
        /\ stack' = <<>>
    BY <1>1, <1>3 DEF Parse, New
  <2>2. Ids' = {1} /\ heap' \in Seq({NewItem}) /\ heap'[1] = NewItem
    BY <2>1 DEF Ids
  <2>3. ItemIds' = {1} /\ Linked(1)'
    BY <2>2, Kinds DEF ItemIds, IsItem, Linked, NewItem
  <2>4. HeapInv'
    BY <2>1, <2>2, <2>3 DEF HeapInv, IsSeq
  <2>5. Owners(1)' = {<<0, "root">>}
    <3>1. LiveItems' = {1}
      BY <2>1, <2>2, <2>3 DEF LiveItems, ItemIds
    <3>2. ItemOwners(1)' = {}
      <4>1. \A g \in Links : heap'[1][g] = 0
        BY <2>2 DEF Links, NewItem
      <4>2. QED
        BY <3>1, <4>1 DEF ItemOwners
    <3>3. FrameOwners(1)' = {}
      BY <2>1 DEF FrameOwners, PrintFrames
    <3>4. RootOwner(1)' = {<<0, "root">>} /\ RetOwner(1)' = {}
      BY <2>1 DEF RootOwner, RetOwner
    <3>5. QED
      BY <3>2, <3>3, <3>4, OwnersAre
  <2>6. OwnInv'
    BY <2>1, <2>2, <2>5 DEF OwnInv
  <2>7. ParseInv'
    BY <1>3, <2>1, <2>2 DEF ParseInv, NewItem
  <2>8. QED
    BY <1>3, <2>4, <2>6, <2>7 DEF IInv, PhaseInv, PrintInv, IdleInv, Parsing, Printing
<1>4. QED
  BY <1>2, <1>3 DEF Parse

\* What the parser's steps start from.
LEMMA WhileParsing ==
  ASSUME IInv, pc \in Parsing
  PROVE  /\ HeapInv /\ OwnInv /\ root # 0 /\ ret = 0 /\ cur \in ItemIds /\ cur \in Ids
         /\ cur # 0
         /\ heap[cur] \in ItemSet
         /\ stack \in Seq(ParseFrame) /\ Len(stack) \in Nat
         /\ PrintFrames = {}
         /\ Len(heap) \in Nat /\ New \in Nat /\ New \notin Ids
         /\ \A i \in Ids : i < New /\ i \in Nat
<1>1. HeapInv /\ ParseInv
  BY DEF IInv
<1>2. cur \in ItemIds /\ cur \in Ids /\ Linked(cur)
  BY <1>1 DEF HeapInv, ParseInv, ItemIds
<1>3. Len(heap) \in Nat
  BY <1>1 DEF HeapInv
<1>4. QED
  BY <1>1, <1>2, <1>3, NoneHold DEF IInv, ParseInv, Linked, New, Ids

\* What the parser's steps must establish.
LEMMA StillParsing ==
  ASSUME HeapInv', OwnInv', ParseInv', pc' \in Parsing
  PROVE  IInv'
BY DEF IInv, PhaseInv, PrintInv, IdleInv, Parsing, Printing

\* A number, true, false or null needs no block.
LEMMA ParseScalarStep ==
  ASSUME IInv, ParseScalar
  PROVE  IInv'
<1>1. pc = "value" /\ pc \in Parsing
  BY DEF ParseScalar, Parsing
<1> DEFINE item == [heap[cur] EXCEPT !.type = "Scalar", !.value = Tok]
<1>2. item \in ItemSet /\ \A g \in Links : item[g] = heap[cur][g]
  BY <1>1, WhileParsing DEF ItemSet, Links, ParseScalar
<1>3. heap' = [heap EXCEPT ![cur] = item]
  BY <1>1, WhileParsing DEF ParseScalar, HeapInv
<1> HIDE DEF item
<1>4. /\ IsSeq(heap')
      /\ Len(heap') = Len(heap)
      /\ \A i \in Ids : heap'[i] = IF i = cur THEN item ELSE heap[i]
  <2>1. IsSeq(heap) /\ cur \in Ids
    BY <1>1, WhileParsing DEF HeapInv
  <2>2. QED
    BY <1>3, <2>1, Changed
<1>5. live' = live /\ root' = root /\ ret' = ret /\ cur' = cur /\ stack' = stack /\ pc' = "after"
  BY DEF ParseScalar, Read
<1>6. HeapInv' /\ OwnInv' /\ ItemIds' = ItemIds
  BY <1>1, <1>2, <1>4, <1>5, WhileParsing, NoneHold, Retyped
<1>7. ParseInv'
  <2>1. \A i \in Ids : heap'[i].next = heap[i].next
    BY <1>2, <1>4 DEF Links
  <2>2. QED
    BY <1>1, <1>5, <1>6, <2>1, WhileParsing DEF IInv, ParseInv, ItemIds
<1>8. QED
  BY <1>5, <1>6, <1>7, StillParsing DEF Parsing

\* The string is the valuestring of the item, which had none.
LEMMA ParseStringStep ==
  ASSUME IInv, ParseString
  PROVE  IInv'
<1>1. pc = "value" /\ pc \in Parsing /\ heap[cur].child = 0 /\ heap[cur].valuestring = 0
  BY DEF ParseString, Parsing, IInv, ParseInv
<1> DEFINE item == [heap[cur] EXCEPT !.type = "String", !.valuestring = New]
           b == Chars(Content(Tok))
<1>2. /\ item \in ItemSet /\ item["valuestring"] = New
      /\ \A g \in Links \ {"valuestring"} : item[g] = heap[cur][g]
  BY <1>1, WhileParsing DEF ItemSet, Links
<1>3. heap' = Append([heap EXCEPT ![cur] = item], b)
  BY <1>1, WhileParsing DEF ParseString, HeapInv
<1>4. "type" \notin DOMAIN b /\ b # NewItem
  BY Kinds
<1> HIDE DEF item, b
<1>5. Grows(cur, item, b)
  <2>1. IsSeq(heap) /\ cur \in Ids
    BY <1>1, WhileParsing DEF HeapInv
  <2>2. QED
    BY <1>3, <2>1, Grown
<1>6. /\ live' = live \cup {New} /\ root' = root /\ ret' = ret /\ cur' = cur /\ stack' = stack
      /\ pc' = "after"
  BY DEF ParseString, Read
<1>7. HeapInv' /\ OwnInv'
  <2>1. heap[cur]["valuestring"] = 0
    BY <1>1
  <2>2. "valuestring" \in Links /\ cur' \in {cur, New} /\ cur' # New
    BY <1>1, <1>6, WhileParsing DEF Links
  <2>3. PrintFrames' = {}
    BY <1>1, <1>6, WhileParsing, NoneHold
  <2>4. QED
    BY <1>1, <1>2, <1>4, <1>5, <1>6, <2>1, <2>2, <2>3, WhileParsing, LinkNew
<1>8. ParseInv'
  <2>1. \A i \in Ids : heap'[i].next = heap[i].next
    BY <1>2, <1>5 DEF Links, Grows
  <2>2. ItemIds \subseteq ItemIds'
    BY <1>1, <1>2, <1>5, WhileParsing, Kinds DEF ItemIds, Ids, IsItem, Grows
  <2>3. QED
    BY <1>1, <1>6, <2>1, <2>2, WhileParsing DEF IInv, ParseInv, ItemIds
<1>9. QED
  BY <1>6, <1>7, <1>8, StillParsing DEF Parsing

\* An empty array or object has no child.
LEMMA ParseEmptyStep ==
  ASSUME IInv, ParseEmpty
  PROVE  IInv'
<1>1. pc = "value" /\ pc \in Parsing
  BY DEF ParseEmpty, Parsing
<1> DEFINE item == [heap[cur] EXCEPT !.type = TypeOf(Tok)]
<1>2. item \in ItemSet /\ \A g \in Links : item[g] = heap[cur][g]
  BY <1>1, WhileParsing DEF ItemSet, Links, TypeOf
<1>3. heap' = [heap EXCEPT ![cur] = item]
  BY <1>1, WhileParsing DEF ParseEmpty, HeapInv
<1> HIDE DEF item
<1>4. /\ IsSeq(heap')
      /\ Len(heap') = Len(heap)
      /\ \A i \in Ids : heap'[i] = IF i = cur THEN item ELSE heap[i]
  <2>1. IsSeq(heap) /\ cur \in Ids
    BY <1>1, WhileParsing DEF HeapInv
  <2>2. QED
    BY <1>3, <2>1, Changed
<1>5. live' = live /\ root' = root /\ ret' = ret /\ cur' = cur /\ stack' = stack /\ pc' = "after"
  BY DEF ParseEmpty, Read
<1>6. HeapInv' /\ OwnInv' /\ ItemIds' = ItemIds
  BY <1>1, <1>2, <1>4, <1>5, WhileParsing, NoneHold, Retyped
<1>7. ParseInv'
  <2>1. \A i \in Ids : heap'[i].next = heap[i].next
    BY <1>2, <1>4 DEF Links
  <2>2. QED
    BY <1>1, <1>5, <1>6, <2>1, WhileParsing DEF IInv, ParseInv, ItemIds
<1>8. QED
  BY <1>5, <1>6, <1>7, StillParsing DEF Parsing

\* The new item is the child of the one that is parsed.
LEMMA ParseContainerStep ==
  ASSUME IInv, ParseContainer
  PROVE  IInv'
<1>1. pc = "value" /\ pc \in Parsing /\ heap[cur].child = 0
  BY DEF ParseContainer, Parsing, IInv, ParseInv
<1> DEFINE item == [heap[cur] EXCEPT !.type = TypeOf(Tok), !.child = New]
           f == [type |-> TypeOf(Tok), child |-> New]
<1>2. /\ item \in ItemSet /\ item["child"] = New
      /\ \A g \in Links \ {"child"} : item[g] = heap[cur][g]
  BY <1>1, WhileParsing DEF ItemSet, Links, TypeOf
<1>3. heap' = Append([heap EXCEPT ![cur] = item], NewItem)
  BY <1>1, WhileParsing DEF ParseContainer, HeapInv
<1>4. f \in ParseFrame /\ f.child = New
  BY <1>1, WhileParsing DEF ParseFrame, TypeOf
<1>5. /\ live' = live \cup {New} /\ root' = root /\ ret' = ret /\ cur' = New
      /\ stack' = Append(stack, f) /\ pc' \in {"value", "name"}
  BY DEF ParseContainer, Read, Descend
<1> HIDE DEF item, f
<1>6. Grows(cur, item, NewItem)
  <2>1. IsSeq(heap) /\ cur \in Ids
    BY <1>1, WhileParsing DEF HeapInv
  <2>2. QED
    BY <1>3, <2>1, Grown
<1>7. /\ stack' \in Seq(ParseFrame) /\ Len(stack') = Len(stack) + 1
      /\ \A m \in 1 .. Len(stack) : stack'[m] = stack[m]
      /\ stack'[Len(stack) + 1] = f
  BY <1>1, <1>4, <1>5, WhileParsing
<1>8. HeapInv' /\ OwnInv' /\ ItemIds' = ItemIds \cup {New}
  <2>1. "child" \in Links /\ heap[cur]["child"] = 0 /\ cur' \in {cur, New}
    BY <1>1, <1>5 DEF Links
  <2>2. PrintFrames' = {}
    BY <1>7, NoneHold
  <2>3. QED
    BY <1>1, <1>2, <1>5, <1>6, <2>1, <2>2, WhileParsing, LinkNew
<1>9. ParseInv'
  <2>1. \A i \in Ids : heap'[i].next = heap[i].next
    BY <1>2, <1>6 DEF Links, Grows
  <2>2. heap'[New] = NewItem
    BY <1>6 DEF Grows
  <2>3. ASSUME NEW m \in 1 .. Len(stack')
        PROVE  stack'[m].child \in ItemIds' /\ heap'[stack'[m].child].next = 0
    <3>1. CASE m = Len(stack) + 1
      BY <1>4, <1>7, <1>8, <2>2, <3>1 DEF NewItem
    <3>2. CASE m \in 1 .. Len(stack)
      BY <1>1, <1>7, <1>8, <2>1, <3>2 DEF IInv, ParseInv, ItemIds
    <3>3. QED
      BY <1>1, <1>7, <3>1, <3>2, WhileParsing
  <2>4. ASSUME NEW m \in 1 .. Len(stack'), NEW n \in 1 .. Len(stack'), m < n
        PROVE  stack'[m].child < stack'[n].child
    <3>1. m \in 1 .. Len(stack) /\ stack'[m] = stack[m] /\ stack[m].child \in Ids
      BY <1>1, <1>7, <2>4, WhileParsing DEF IInv, ParseInv, ItemIds
    <3>2. CASE n = Len(stack) + 1
      BY <1>1, <1>4, <1>7, <3>1, <3>2, WhileParsing
    <3>3. CASE n \in 1 .. Len(stack)
      BY <1>1, <1>7, <2>4, <3>1, <3>3 DEF IInv, ParseInv
    <3>4. QED
      BY <1>1, <1>7, <3>2, <3>3, WhileParsing
  <2>5. root' # 0 /\ ret' = 0 /\ cur' # 0
    BY <1>1, <1>5, WhileParsing DEF New
  <2>6. heap'[cur'].child = 0 /\ heap'[cur'].valuestring = 0 /\ heap'[cur'].string = 0
    BY <1>5, <2>2 DEF NewItem
  <2>7. QED
    BY <1>5, <1>7, <2>3, <2>4, <2>5, <2>6 DEF ParseInv
<1>10. QED
  BY <1>5, <1>8, <1>9, StillParsing DEF Parsing

\* The string is the name of the item, which had none.
LEMMA ParseNameStep ==
  ASSUME IInv, ParseName
  PROVE  IInv'
<1>1. /\ pc = "name" /\ pc \in Parsing
      /\ heap[cur].child = 0 /\ heap[cur].valuestring = 0 /\ heap[cur].string = 0
  BY DEF ParseName, Parsing, IInv, ParseInv
<1> DEFINE item == Named(heap[cur])
           b == Chars(Content(Tok))
<1>2. /\ item \in ItemSet /\ item["string"] = New
      /\ \A g \in Links \ {"string"} : item[g] = heap[cur][g]
  BY <1>1, WhileParsing DEF ItemSet, Links, Named
<1>3. heap' = Append([heap EXCEPT ![cur] = item], b)
  BY <1>1, WhileParsing DEF ParseName, HeapInv
<1>4. "type" \notin DOMAIN b /\ b # NewItem
  BY Kinds
<1> HIDE DEF item, b
<1>5. Grows(cur, item, b)
  <2>1. IsSeq(heap) /\ cur \in Ids
    BY <1>1, WhileParsing DEF HeapInv
  <2>2. QED
    BY <1>3, <2>1, Grown
<1>6. /\ live' = live \cup {New} /\ root' = root /\ ret' = ret /\ cur' = cur /\ stack' = stack
      /\ pc' = "colon"
  BY DEF ParseName, Read
<1>7. HeapInv' /\ OwnInv' /\ ItemIds' = ItemIds
  <2>1. heap[cur]["string"] = 0
    BY <1>1
  <2>2. "string" \in Links /\ cur' \in {cur, New} /\ cur' # New
    BY <1>1, <1>6, WhileParsing DEF Links
  <2>3. PrintFrames' = {}
    BY <1>1, <1>6, WhileParsing, NoneHold
  <2>4. QED
    BY <1>1, <1>2, <1>4, <1>5, <1>6, <2>1, <2>2, <2>3, WhileParsing, LinkNew
<1>8. ParseInv'
  <2>1. \A i \in Ids : heap'[i].next = heap[i].next
    BY <1>2, <1>5 DEF Links, Grows
  <2>2. heap'[cur].child = 0 /\ heap'[cur].valuestring = 0
    BY <1>1, <1>2, <1>5, WhileParsing DEF Links, Grows
  <2>3. QED
    BY <1>1, <1>6, <1>7, <2>1, <2>2, WhileParsing DEF IInv, ParseInv, ItemIds
<1>9. QED
  BY <1>6, <1>7, <1>8, StillParsing DEF Parsing

\* The steps that only move on.
LEMMA ParseColonStep ==
  ASSUME IInv, ParseColon
  PROVE  IInv'
<1>1. /\ pc = "colon" /\ pc \in Parsing /\ pc' = "value"
      /\ heap[cur].child = 0 /\ heap[cur].valuestring = 0
  BY DEF ParseColon, Parsing, IInv, ParseInv
<1>2. heap' = heap /\ live' = live /\ root' = root /\ ret' = ret /\ cur' = cur /\ stack' = stack
  BY DEF ParseColon, Read
<1>3. HeapInv' /\ OwnInv' /\ ItemIds' = ItemIds
  BY <1>1, <1>2, WhileParsing, NoneHold, Untouched
<1>4. ParseInv'
  BY <1>1, <1>2, <1>3, WhileParsing DEF IInv, ParseInv
<1>5. QED
  BY <1>1, <1>3, <1>4, StillParsing DEF Parsing

\* The value is complete.
LEMMA ParsedStep ==
  ASSUME IInv, Parsed
  PROVE  IInv'
<1>1. pc = "after" /\ pc \in Parsing /\ pc' = "parsed" /\ stack = <<>>
  BY DEF Parsed, Parsing
<1>2. heap' = heap /\ live' = live /\ root' = root /\ ret' = ret /\ cur' = cur /\ stack' = stack
  BY DEF Parsed
<1>3. HeapInv' /\ OwnInv' /\ ItemIds' = ItemIds
  BY <1>1, <1>2, WhileParsing, NoneHold, Untouched
<1>4. ParseInv'
  BY <1>1, <1>2, <1>3, WhileParsing DEF IInv, ParseInv
<1>5. QED
  BY <1>1, <1>3, <1>4, StillParsing DEF Parsing

\* The text has been left: what happens then is not modelled.
LEMMA ScanPastEndStep ==
  ASSUME IInv, ScanPastEnd
  PROVE  IInv'
<1>1. pc \in {"value", "name"} /\ pc \in Parsing /\ pc' = "undefined"
  BY DEF ScanPastEnd, Parsing
<1>2. heap' = heap /\ live' = live /\ root' = root /\ ret' = ret /\ cur' = cur /\ stack' = stack
  BY DEF ScanPastEnd
<1>3. HeapInv' /\ OwnInv' /\ ItemIds' = ItemIds
  BY <1>1, <1>2, WhileParsing, NoneHold, Untouched
<1>4. ParseInv'
  BY <1>1, <1>2, <1>3, WhileParsing DEF IInv, ParseInv
<1>5. QED
  BY <1>1, <1>3, <1>4, StillParsing DEF Parsing

\* The innermost container is complete.
LEMMA EndContainerStep ==
  ASSUME IInv, EndContainer
  PROVE  IInv'
<1>1. pc = "after" /\ pc \in Parsing /\ pc' = "after" /\ stack # <<>>
  BY DEF EndContainer, Parsing
<1>2. heap' = heap /\ live' = live /\ root' = root /\ ret' = ret /\ cur' = cur /\ stack' = Pop
  BY DEF EndContainer, Read
<1>3. /\ stack' \in Seq(ParseFrame) /\ Len(stack') = Len(stack) - 1
      /\ \A m \in 1 .. Len(stack') : stack'[m] = stack[m]
  BY <1>1, <1>2, WhileParsing, Popped
<1>4. HeapInv' /\ OwnInv' /\ ItemIds' = ItemIds
  <2>1. PrintFrames' = {}
    BY <1>3, NoneHold
  <2>2. QED
    BY <1>1, <1>2, <2>1, WhileParsing, Untouched
<1>5. ParseInv'
  <2>1. \A m \in 1 .. Len(stack') : m \in 1 .. Len(stack) /\ stack'[m] = stack[m]
    BY <1>1, <1>3, WhileParsing
  <2>2. /\ \A m \in 1 .. Len(stack) :
             stack[m].child \in ItemIds /\ heap[stack[m].child].next = 0
        /\ \A m, n \in 1 .. Len(stack) : m < n => stack[m].child < stack[n].child
    BY <1>1 DEF IInv, ParseInv
  <2>3. QED
    BY <1>1, <1>2, <1>3, <1>4, <2>1, <2>2, WhileParsing DEF ParseInv
<1>6. QED
  BY <1>1, <1>4, <1>5, StillParsing

\* The new item is the next of the last child of the innermost container.
LEMMA NextChildStep ==
  ASSUME IInv, NextChild
  PROVE  IInv'
<1>1. pc = "after" /\ pc \in Parsing /\ stack # <<>>
  BY DEF NextChild, Parsing
<1>2. /\ Len(stack) \in Nat \ {0} /\ Top \in ParseFrame
      /\ \A m \in 1 .. Len(stack) : stack[m] \in ParseFrame
  BY <1>1, WhileParsing DEF Top
<1> DEFINE c == Top.child
           item == [heap[c] EXCEPT !.next = New]
           f == [Top EXCEPT !.child = New]
<1>3. c \in ItemIds /\ c \in Ids /\ heap[c].next = 0 /\ heap[c] \in ItemSet
  <2>1. Len(stack) \in 1 .. Len(stack)
    BY <1>2
  <2>2. c \in ItemIds /\ heap[c].next = 0
    BY <1>1, <2>1 DEF Top, IInv, ParseInv
  <2>3. QED
    BY <2>2 DEF IInv, HeapInv, Linked, ItemIds
<1>4. /\ item \in ItemSet /\ item["next"] = New
      /\ \A g \in Links \ {"next"} : item[g] = heap[c][g]
  BY <1>1, <1>3, WhileParsing DEF ItemSet, Links
<1>5. heap' = Append([heap EXCEPT ![c] = item], NewItem)
  BY <1>3 DEF NextChild
<1>6. f \in ParseFrame /\ f.child = New
  BY <1>1, <1>2, WhileParsing DEF ParseFrame
<1>7. /\ live' = live \cup {New} /\ root' = root /\ ret' = ret /\ cur' = New
      /\ stack' = [stack EXCEPT ![Len(stack)] = f] /\ pc' \in {"value", "name"}
  BY DEF NextChild, Read, Descend, SetTop
<1> HIDE DEF item, f, c
<1>8. Grows(c, item, NewItem)
  <2>1. IsSeq(heap)
    BY <1>1, WhileParsing DEF HeapInv
  <2>2. QED
    BY <1>3, <1>5, <2>1, Grown
<1>9. /\ stack' \in Seq(ParseFrame) /\ Len(stack') = Len(stack)
      /\ \A m \in 1 .. Len(stack) : stack'[m] = IF m = Len(stack) THEN f ELSE stack[m]
  BY <1>1, <1>2, <1>6, <1>7, WhileParsing
<1>10. HeapInv' /\ OwnInv' /\ ItemIds' = ItemIds \cup {New}
  <2>1. "next" \in Links /\ heap[c]["next"] = 0 /\ cur' \in {cur, New}
    BY <1>3, <1>7 DEF Links
  <2>2. PrintFrames' = {}
    BY <1>9, NoneHold
  <2>3. QED
    BY <1>1, <1>3, <1>4, <1>7, <1>8, <2>1, <2>2, WhileParsing, LinkNew
<1>11. ParseInv'
  <2>1. \A i \in Ids : i # c => heap'[i].next = heap[i].next
    BY <1>8 DEF Grows
  <2>2. heap'[New] = NewItem
    BY <1>8 DEF Grows
  <2>3. ASSUME NEW m \in 1 .. Len(stack) - 1
        PROVE  /\ m \in 1 .. Len(stack) /\ stack'[m] = stack[m] /\ stack[m].child \in Ids
               /\ stack[m].child < c /\ stack[m].child \in ItemIds
               /\ heap[stack[m].child].next = 0
    <3>1. m \in 1 .. Len(stack) /\ m < Len(stack) /\ m # Len(stack) /\ Len(stack) \in 1 .. Len(stack)
      BY <1>2
    <3>2. QED
      BY <1>1, <1>9, <3>1 DEF IInv, ParseInv, ItemIds, Top, c
  <2>4. ASSUME NEW m \in 1 .. Len(stack')
        PROVE  stack'[m].child \in ItemIds' /\ heap'[stack'[m].child].next = 0
    <3>1. CASE m = Len(stack)
      <4>1. stack'[m] = f
        BY <1>9, <3>1
      <4>2. QED
        BY <1>6, <1>10, <2>2, <4>1 DEF NewItem
    <3>2. CASE m \in 1 .. Len(stack) - 1
      <4>1. stack[m].child # c
        BY <1>1, <1>3, <2>3, <3>2, WhileParsing
      <4>2. QED
        BY <1>10, <2>1, <2>3, <3>2, <4>1
    <3>3. QED
      BY <1>2, <1>9, <3>1, <3>2
  <2>5. ASSUME NEW m \in 1 .. Len(stack'), NEW n \in 1 .. Len(stack'), m < n
        PROVE  stack'[m].child < stack'[n].child
    <3>1. m \in 1 .. Len(stack) - 1
      BY <1>2, <1>9, <2>5
    <3>2. CASE n = Len(stack)
      <4>1. stack'[n] = f
        BY <1>9, <3>2
      <4>2. QED
        BY <1>1, <1>6, <2>3, <3>1, <4>1, WhileParsing
    <3>3. CASE n \in 1 .. Len(stack) - 1
      <4>1. m \in 1 .. Len(stack) /\ n \in 1 .. Len(stack) /\ stack'[m] = stack[m] /\ stack'[n] = stack[n]
        BY <2>3, <3>1, <3>3
      <4>2. QED
        BY <1>1, <2>5, <4>1 DEF IInv, ParseInv
    <3>4. QED
      BY <1>2, <1>9, <3>2, <3>3
  <2>6. root' # 0 /\ ret' = 0 /\ cur' # 0
    BY <1>1, <1>7, WhileParsing DEF New
  <2>7. heap'[cur'].child = 0 /\ heap'[cur'].valuestring = 0 /\ heap'[cur'].string = 0
    BY <1>7, <2>2 DEF NewItem
  <2>8. QED
    BY <1>7, <1>9, <2>4, <2>5, <2>6, <2>7 DEF ParseInv
<1>12. QED
  BY <1>7, <1>10, <1>11, StillParsing DEF Parsing

-----------------------------------------------------------------------------
\* Nothing is left.
LEMMA AllFreed ==
  ASSUME HeapInv, heap' = heap, live' = {}, root' = 0, ret' = 0, stack' = <<>>, cur' = cur
  PROVE  HeapInv' /\ OwnInv'
<1>1. Ids' = Ids /\ ItemIds' = ItemIds /\ Others' = Others /\ 0 \notin Ids
  BY DEF Ids, ItemIds, Others, IsItem, HeapInv
<1>2. ASSUME NEW i \in ItemIds PROVE Linked(i)'
  BY <1>1 DEF HeapInv, Linked
<1>3. HeapInv'
  BY <1>1, <1>2 DEF HeapInv
<1>4. ASSUME NEW b \in Ids' PROVE Owners(b)' = {}
  <2>1. LiveItems' = {} /\ PrintFrames' = {} /\ b # 0
    BY <1>1 DEF LiveItems, PrintFrames
  <2>2. ItemOwners(b)' = {} /\ FrameOwners(b)' = {} /\ RootOwner(b)' = {} /\ RetOwner(b)' = {}
    BY <2>1 DEF ItemOwners, FrameOwners, RootOwner, RetOwner
  <2>3. QED
    BY <2>2, OwnersAre
<1>5. OwnInv'
  BY <1>4 DEF OwnInv
<1>6. QED
  BY <1>3, <1>5

\* NULL goes up to cJSON_ParseWithOpts, which deletes all that was made.
LEMMA GiveUpStep ==
  ASSUME IInv, pc \in Parsing, GiveUp
  PROVE  IInv'
<1>1. /\ HeapInv /\ OwnInv /\ root # 0 /\ ret = 0
      /\ \A a : FrameOwners(a) = {}
  BY WhileParsing DEF FrameOwners
<1>2. \A b \in live : b \in Blocks(root) \cup {ret}
  BY <1>1, AllReached
<1>3. 0 \notin live
  BY <1>1 DEF HeapInv, Ids
<1>4. /\ live' = {} /\ heap' = heap /\ root' = 0 /\ ret' = 0 /\ stack' = <<>> /\ cur' = cur
      /\ pc' = "null"
  BY <1>1, <1>2, <1>3 DEF GiveUp
<1>5. HeapInv' /\ OwnInv'
  BY <1>1, <1>4, AllFreed
<1>6. QED
  BY <1>4, <1>5 DEF IInv, PhaseInv, ParseInv, PrintInv, IdleInv, Parsing, Printing

-----------------------------------------------------------------------------
\* What the printer's steps start from.
LEMMA WhilePrinting ==
  ASSUME IInv, pc \in Printing
  PROVE  /\ HeapInv /\ OwnInv /\ root # 0
         /\ stack \in Seq(PrintFrame) /\ Len(stack) \in Nat
         /\ \A m \in 1 .. Len(stack) : FrameInv(stack[m])
         /\ pc # "printed" => ret = 0
         /\ IsSeq(heap) /\ Len(heap) \in Nat /\ New \in Nat \ {0} /\ New \notin Ids
         /\ 0 \notin Ids /\ 0 \notin ItemIds
<1>1. HeapInv /\ PrintInv
  BY DEF IInv
<1>2. Len(heap) \in Nat
  BY <1>1 DEF HeapInv
<1>3. QED
  BY <1>1, <1>2 DEF IInv, PrintInv, HeapInv, New, Ids, ItemIds

\* What the printer's steps must establish.
LEMMA StillPrinting ==
  ASSUME HeapInv', OwnInv', PrintInv', pc' \in Printing
  PROVE  IInv'
BY DEF IInv, PhaseInv, ParseInv, IdleInv, Parsing, Printing

\* The owners after a step of the printer.
LEMMA PrintOwners ==
  ASSUME HeapInv, TreeStays, cur' \in ItemIds \cup {0}, ret' \in Others' \cup {0}
  PROVE  /\ HeapInv' /\ ItemIds' = ItemIds /\ Others' = Others \cup (Ids' \ Ids)
         /\ \A a \in Ids : Owners(a)' = ItemOwners(a) \cup FrameOwners(a)'
                                          \cup RootOwner(a) \cup RetOwner(a)'
         /\ \A a \in Ids' \ Ids : Owners(a)' = FrameOwners(a)' \cup RetOwner(a)'
<1>1. /\ HeapInv' /\ ItemIds' = ItemIds /\ Others' = Others \cup (Ids' \ Ids)
      /\ \A a \in Ids : ItemOwners(a)' = ItemOwners(a) /\ RootOwner(a)' = RootOwner(a)
      /\ \A a \in Ids' \ Ids : ItemOwners(a)' = {} /\ RootOwner(a)' = {}
  BY TreeKept
<1>2. ASSUME NEW a PROVE Owners(a)' = ItemOwners(a)' \cup FrameOwners(a)' \cup RootOwner(a)' \cup RetOwner(a)'
  BY OwnersAre
<1>3. ASSUME NEW a \in Ids
      PROVE  Owners(a)' = ItemOwners(a) \cup FrameOwners(a)' \cup RootOwner(a) \cup RetOwner(a)'
  BY <1>1, <1>2
<1>4. ASSUME NEW a \in Ids' \ Ids PROVE Owners(a)' = FrameOwners(a)' \cup RetOwner(a)'
  BY <1>1, <1>2
<1>5. QED
  BY <1>1, <1>3, <1>4

\* A step that neither allocates nor frees.
LEMMA NothingMoved ==
  ASSUME HeapInv, heap' = heap, live' = live, root' = root
  PROVE  TreeStays /\ Ids' = Ids
<1>1. Ids' = Ids /\ Len(heap) \in Nat
  BY DEF Ids, HeapInv
<1>2. QED
  BY <1>1 DEF TreeStays, HeapInv

\* A text is made, and texts and arrays are freed.
LEMMA OneNewText ==
  ASSUME HeapInv, NEW t, heap' = Append(heap, Chars(t)),
         NEW L \in SUBSET Others, live' = (live \ L) \cup {New}, root' = root
  PROVE  TreeStays /\ Ids' = Ids \cup {New} /\ New \notin Ids
<1> DEFINE b == Chars(t)
<1>1. "type" \notin DOMAIN b
  BY Kinds
<1>2. heap' = Append(heap, b) /\ IsSeq(heap)
  BY DEF HeapInv
<1> HIDE DEF b
<1>3. /\ IsSeq(heap') /\ Len(heap) \in Nat /\ Len(heap') = Len(heap) + 1
      /\ \A i \in Ids : heap'[i] = heap[i]
      /\ heap'[Len(heap) + 1] = b
  BY <1>2, Appended
<1>4. Ids' = Ids \cup {New} /\ New \notin Ids
  BY <1>3 DEF Ids, New
<1>5. live' \subseteq Ids' /\ live' \cap ItemIds = live \cap ItemIds
  BY <1>4 DEF HeapInv, ItemIds, Others
<1>6. \A i \in Ids' \ Ids : "type" \notin DOMAIN heap'[i]
  BY <1>1, <1>3, <1>4 DEF New
<1>7. Len(heap') \in Nat /\ Len(heap') >= Len(heap)
  BY <1>3
<1>8. QED
  BY <1>3, <1>4, <1>5, <1>6, <1>7 DEF TreeStays

\* A frame stays good.
LEMMA FramesStay ==
  ASSUME ItemIds' = ItemIds, Others \subseteq Others'
  PROVE  \A f, m : FrameInv(f) /\ stack'[m] = f => FrameInv(stack[m])'
BY DEF FrameInv

-----------------------------------------------------------------------------
\* A step that takes nothing and frees nothing.
LEMMA StackKept ==
  ASSUME HeapInv, OwnInv, stack' = stack, heap' = heap, live' = live, root' = root,
         ret' = ret, cur' \in ItemIds \cup {0}
  PROVE  HeapInv' /\ OwnInv' /\ ItemIds' = ItemIds /\ Others' = Others
<1>1. TreeStays /\ Ids' = Ids
  BY NothingMoved
<1>2. Others' = Others
  BY <1>1 DEF Others, IsItem
<1>3. /\ HeapInv' /\ ItemIds' = ItemIds
      /\ \A a \in Ids : Owners(a)' = ItemOwners(a) \cup FrameOwners(a)'
                                       \cup RootOwner(a) \cup RetOwner(a)'
  BY <1>1, <1>2, PrintOwners DEF HeapInv
<1>4. ASSUME NEW a \in Ids PROVE Owners(a)' = Owners(a)
  <2>1. FrameOwners(a)' = FrameOwners(a) /\ RetOwner(a)' = RetOwner(a)
    BY DEF FrameOwners, PrintFrames, RetOwner
  <2>2. QED
    BY <1>3, <2>1, OwnersAre
<1>5. OwnInv'
  BY <1>1, <1>4 DEF OwnInv, HeapInv
<1>6. QED
  BY <1>2, <1>3, <1>5

\* The item to print is one of the tree, or there is none.
LEMMA PrintItemStep ==
  ASSUME IInv, PrintItem
  PROVE  IInv'
<1>1. /\ pc = "parsed" /\ pc \in Parsing /\ pc' = "print"
      /\ heap' = heap /\ live' = live /\ root' = root /\ ret' = ret /\ stack' = stack
      /\ cur' \in Items(root) \cup {0}
  BY DEF PrintItem, Parsing
<1>2. stack = <<>> /\ ret = 0 /\ root # 0 /\ HeapInv /\ OwnInv
  BY <1>1 DEF IInv, ParseInv
<1>3. cur' \in ItemIds \cup {0}
  BY <1>1, <1>2, ItemsClosed DEF HeapInv
<1>4. HeapInv' /\ OwnInv'
  BY <1>1, <1>2, <1>3, StackKept
<1>5. PrintInv'
  BY <1>1, <1>2 DEF PrintInv
<1>6. QED
  BY <1>1, <1>4, <1>5, StillPrinting DEF Printing

\* A call that returns NULL, at once or for lack of memory.
LEMMA ReturnNullStep ==
  ASSUME IInv, pc = "print", NEW failed, ReturnNull(failed), root' = root, cur' = cur, stack' = stack
  PROVE  IInv'
<1>1. pc \in Printing /\ ret = 0 /\ ret' = ret /\ pc' = "printed" /\ heap' = heap /\ live' = live
  BY WhilePrinting DEF ReturnNull, Printing
<1>2. HeapInv' /\ OwnInv' /\ ItemIds' = ItemIds /\ Others' = Others
  BY <1>1, WhilePrinting, StackKept DEF HeapInv
<1>3. PrintInv'
  <2>1. \A f, m : FrameInv(f) /\ stack'[m] = f => FrameInv(stack[m])'
    BY <1>2, FramesStay
  <2>3. QED
    BY <1>1, <2>1, WhilePrinting DEF PrintInv
<1>4. QED
  BY <1>1, <1>2, <1>3, StillPrinting DEF Printing

\* cJSON_Print of NULL returns NULL.
LEMMA PrintNothingStep ==
  ASSUME IInv, PrintNothing
  PROVE  IInv'
<1>1. pc = "print" /\ ReturnNull(FALSE) /\ root' = root /\ cur' = cur /\ stack' = stack
  BY DEF PrintNothing
<1>2. QED
  BY <1>1, ReturnNullStep

\* The new text is in the hands of the caller.
LEMMA PrintLeafStep ==
  ASSUME IInv, PrintLeaf
  PROVE  IInv'
<1>1. pc = "print" /\ root' = root /\ cur' = cur /\ stack' = stack
  BY DEF PrintLeaf
<1>2. CASE ReturnNull(TRUE)
  BY <1>1, <1>2, ReturnNullStep
<1>3. CASE ReturnNew(LeafText(cur))
  <2> DEFINE t == LeafText(cur)
  <2>1. heap' = Append(heap, Chars(t)) /\ live' = live \cup {New} /\ ret' = New /\ pc' = "printed"
    BY <1>3 DEF ReturnNew
  <2> HIDE DEF t
  <2>2. pc \in Printing /\ ret = 0
    BY <1>1, WhilePrinting DEF Printing
  <2>3. TreeStays /\ Ids' = Ids \cup {New} /\ New \notin Ids
    <3>1. live' = (live \ {}) \cup {New} /\ {} \in SUBSET Others /\ HeapInv
      BY <2>1, <2>2, WhilePrinting
    <3>2. QED
      BY <1>1, <2>1, <3>1, OneNewText
  <2>4. /\ HeapInv' /\ ItemIds' = ItemIds /\ Others' = Others \cup (Ids' \ Ids)
        /\ \A a \in Ids : Owners(a)' = ItemOwners(a) \cup FrameOwners(a)'
                                         \cup RootOwner(a) \cup RetOwner(a)'
        /\ \A a \in Ids' \ Ids : Owners(a)' = FrameOwners(a)' \cup RetOwner(a)'
    <3>1. Others' = Others \cup {New}
      BY <2>2, <2>3, WhilePrinting, TreeKept DEF Others, IsItem, TreeStays
    <3>2. cur' \in ItemIds \cup {0} /\ ret' \in Others' \cup {0} /\ HeapInv
      BY <1>1, <2>1, <2>2, <3>1, WhilePrinting DEF HeapInv
    <3>3. QED
      BY <2>3, <3>2, PrintOwners
  <2>5. \A a : FrameOwners(a)' = FrameOwners(a)
    BY <1>1 DEF FrameOwners, PrintFrames
  <2>6. ASSUME NEW a \in Ids PROVE Owners(a)' = Owners(a)
    <3>1. RetOwner(a)' = {} /\ RetOwner(a) = {}
      BY <2>1, <2>2, <2>3, WhilePrinting DEF RetOwner
    <3>2. QED
      BY <2>4, <2>5, <3>1, OwnersAre
  <2>7. ASSUME NEW n, n = New PROVE Owners(n)' = {<<0, "ret">>}
    <3>1. FrameOwners(n)' = {}
      BY <2>2, <2>5, <2>7, WhilePrinting, NoneHeld
    <3>2. RetOwner(n)' = {<<0, "ret">>}
      BY <2>1, <2>7 DEF RetOwner
    <3>3. QED
      BY <2>3, <2>4, <2>7, <3>1, <3>2
  <2>8. OwnInv'
    <3>1. \E n : n = New
      OBVIOUS
    <3>2. QED
      BY <2>1, <2>2, <2>3, <2>6, <2>7, <3>1, WhilePrinting DEF OwnInv, HeapInv
  <2>9. PrintInv'
    <3>1. \A f, m : FrameInv(f) /\ stack'[m] = f => FrameInv(stack[m])'
      BY <2>4, FramesStay
    <3>2. QED
      BY <1>1, <2>1, <2>2, <3>1, WhilePrinting DEF PrintInv
  <2>10. QED
    BY <2>1, <2>4, <2>8, <2>9, StillPrinting DEF Printing
<1>4. QED
  BY <1>2, <1>3 DEF PrintLeaf

\* The new arrays are in the hands of the new print call.
LEMMA PrintContainerStep ==
  ASSUME IInv, PrintContainer
  PROVE  IInv'
<1>1. pc = "print" /\ root' = root /\ cur # 0 /\ ~IsLeaf(cur) /\ pc \in Printing /\ ret = 0
  BY WhilePrinting DEF PrintContainer, Printing
<1>2. CASE ReturnNull(TRUE) /\ cur' = cur /\ stack' = stack
  BY <1>1, <1>2, ReturnNullStep
<1>3. CASE ~(ReturnNull(TRUE) /\ cur' = cur /\ stack' = stack)
  <2> DEFINE n == IF heap[cur].type = "Array" THEN 1 ELSE 2
             blocks == [k \in 1 .. n |-> Pointers]
             f == [type |-> heap[cur].type, child |-> heap[cur].child, item |-> cur,
                   arrays |-> New .. New + n - 1,
                   names |-> <<>>, entries |-> <<>>, fail |-> FALSE]
  <2>1. /\ heap' = heap \o blocks /\ live' = live \cup (New .. New + n - 1)
        /\ stack' = Append(stack, f) /\ cur' = heap[cur].child /\ ret' = ret
        /\ pc' \in {"print", "printName"}
    BY <1>3 DEF PrintContainer
  <2>2. n \in Nat /\ n > 0
    OBVIOUS
  <2>3. /\ heap[cur] \in ItemSet /\ heap[cur].child \in ItemIds /\ cur \in ItemIds
        /\ heap[cur].type \in {"Array", "Object"}
    <3>1. cur \in ItemIds /\ Linked(cur)
      BY <1>1, WhilePrinting DEF HeapInv
    <3>2. QED
      BY <1>1, <3>1 DEF Linked, IsLeaf, ItemSet
  <2>4. ItemIds \subseteq Nat
    BY <1>1, WhilePrinting DEF ItemIds, Ids
  <2>5. /\ f \in PrintFrame /\ f.child = heap[cur].child /\ f.item = cur
        /\ f.arrays = New .. New + n - 1 /\ f.names = <<>> /\ f.entries = <<>>
    <3>1. n \in Nat
      BY <2>2
    <3> HIDE DEF n
    <3>2. New .. New + n - 1 \in SUBSET Nat
      BY <1>1, <3>1, WhilePrinting
    <3>3. heap[cur].child \in Nat /\ cur \in Nat
      BY <2>3, <2>4, Zenon
    <3>4. heap[cur].type \in {"Array", "Object"}
      BY <2>3
    <3>5. <<>> \in Seq(Nat)
      OBVIOUS
    <3>6. QED
      BY <3>2, <3>3, <3>4, <3>5 DEF PrintFrame
  <2> HIDE DEF n, f
  <2>6. Ids' = Ids \cup (New .. New + n - 1) /\ TreeStays /\ Ids \cap (New .. New + n - 1) = {}
    <3>1. PICK S : heap \in Seq(S)
      BY <1>1, WhilePrinting DEF IsSeq
    <3>2. heap \in Seq(S \cup {Pointers}) /\ blocks \in Seq(S \cup {Pointers}) /\ Len(blocks) = n
      BY <2>2, <3>1, SeqMonotonic
    <3>3. /\ heap' \in Seq(S \cup {Pointers}) /\ Len(heap') = Len(heap) + n
          /\ \A i \in 1 .. Len(heap) + n :
               heap'[i] = IF i <= Len(heap) THEN heap[i] ELSE blocks[i - Len(heap)]
      BY <2>1, <3>2, ConcatProperties
    <3>4. /\ Ids' = Ids \cup (New .. New + n - 1) /\ Ids \cap (New .. New + n - 1) = {}
          /\ Len(heap') \in Nat /\ Len(heap') >= Len(heap)
      BY <1>1, <2>2, <3>3, WhilePrinting DEF Ids, New
    <3>5. \A i \in Ids : heap'[i] = heap[i]
      BY <1>1, <2>2, <3>3, WhilePrinting DEF Ids
    <3>6. ASSUME NEW i \in Ids' \ Ids PROVE "type" \notin DOMAIN heap'[i]
      <4>1. i \in 1 .. Len(heap) + n /\ ~(i <= Len(heap)) /\ i - Len(heap) \in 1 .. n
        BY <1>1, <2>2, <3>3, WhilePrinting DEF Ids
      <4>2. heap'[i] = Pointers
        BY <3>3, <4>1
      <4>3. QED
        BY <4>2, Kinds
    <3>7. live' \subseteq Ids' /\ live' \cap ItemIds = live \cap ItemIds
      BY <1>1, <2>1, <3>4, WhilePrinting DEF HeapInv, ItemIds
    <3>8. IsSeq(heap')
      BY <3>3 DEF IsSeq
    <3>9. QED
      BY <1>1, <3>4, <3>5, <3>6, <3>7, <3>8 DEF TreeStays
  <2>7. /\ HeapInv' /\ ItemIds' = ItemIds /\ Others' = Others \cup (Ids' \ Ids)
        /\ \A a \in Ids : Owners(a)' = ItemOwners(a) \cup FrameOwners(a)'
                                         \cup RootOwner(a) \cup RetOwner(a)'
        /\ \A a \in Ids' \ Ids : Owners(a)' = FrameOwners(a)' \cup RetOwner(a)'
    BY <1>1, <2>1, <2>3, <2>6, WhilePrinting, PrintOwners
  <2>8. \A a : FrameOwners(a)' = FrameOwners(a) \cup Held(f, Len(stack) + 1, a)
    BY <1>1, <2>1, <2>5, WhilePrinting, OwnersPushed
  <2>9. \A a : Held(f, Len(stack) + 1, a) = {<<Len(stack) + 1, "arrays", k>> : k \in (New .. New + n - 1) \cap {a}}
    BY <2>5 DEF Held, At
  <2>10. ASSUME NEW a \in Ids PROVE Owners(a)' = Owners(a)
    <3>1. RetOwner(a)' = RetOwner(a)
      BY <2>1 DEF RetOwner
    <3>2. Held(f, Len(stack) + 1, a) = {}
      <4>1. (New .. New + n - 1) \cap {a} = {}
        BY <2>6
      <4>2. QED
        BY <2>9, <4>1
    <3>3. FrameOwners(a)' = FrameOwners(a)
      BY <2>8, <3>2
    <3>4. QED
      BY <2>7, <3>1, <3>3, OwnersAre
  <2>11. ASSUME NEW a \in New .. New + n - 1
         PROVE  Owners(a)' = {<<Len(stack) + 1, "arrays", a>>}
    <3>1. a \notin Ids /\ a # 0
      BY <1>1, <2>2, <2>6, WhilePrinting
    <3>2. FrameOwners(a) = {}
      BY <1>1, <3>1, WhilePrinting, NoneHeld
    <3>3. RetOwner(a)' = {}
      BY <1>1, <2>1, <3>1 DEF RetOwner
    <3>4. QED
      BY <2>6, <2>7, <2>8, <2>9, <3>1, <3>2, <3>3
  <2>12. OwnInv'
    BY <1>1, <2>1, <2>6, <2>10, <2>11, WhilePrinting DEF OwnInv, HeapInv
  <2>13. PrintInv'
    <3>1. /\ stack' \in Seq(PrintFrame) /\ Len(stack') = Len(stack) + 1
          /\ \A m \in 1 .. Len(stack) : stack'[m] = stack[m]
          /\ stack'[Len(stack) + 1] = f
      BY <1>1, <2>1, <2>5, WhilePrinting
    <3>2. \A g, m : FrameInv(g) /\ stack'[m] = g => FrameInv(stack[m])'
      BY <2>7, FramesStay
    <3>3. ASSUME NEW m, m = Len(stack) + 1 PROVE FrameInv(stack[m])'
      <4>1. Listed(<<>>) = {}
        BY DEF Listed
      <4>2. Scratch(f) = New .. New + n - 1
        BY <2>5, <4>1 DEF Scratch
      <4>3. Scratch(f) \subseteq Others'
        BY <2>6, <2>7, <4>2
      <4>4. stack'[m] = f
        BY <3>1, <3>3
      <4>5. QED
        BY <2>3, <2>5, <2>7, <4>3, <4>4 DEF FrameInv
    <3>4. \A m \in 1 .. Len(stack') : FrameInv(stack[m])'
      BY <1>1, <3>1, <3>2, <3>3, WhilePrinting
    <3>5. stack' # <<>>
      BY <1>1, <2>1, <2>5, WhilePrinting
    <3>6. QED
      BY <1>1, <2>1, <3>1, <3>4, <3>5, WhilePrinting DEF PrintInv
  <2>14. QED
    BY <2>1, <2>7, <2>12, <2>13, StillPrinting DEF Printing
<1>4. QED
  BY <1>2, <1>3

-----------------------------------------------------------------------------
\* What a frame holds when a text is added to its list.
LEMMA AtAppended ==
  ASSUME NEW s \in Seq(Nat), NEW x \in Nat
  PROVE  /\ \A a : At(Append(s, x), a) = At(s, a) \cup (IF x = a THEN {Len(s) + 1} ELSE {})
         /\ Listed(Append(s, x)) = Listed(s) \cup ({x} \ {0})
<1> DEFINE t == Append(s, x)
<1>1. /\ t \in Seq(Nat) /\ Len(t) = Len(s) + 1 /\ Len(s) \in Nat
      /\ \A i \in 1 .. Len(s) : t[i] = s[i]
      /\ t[Len(s) + 1] = x
  OBVIOUS
<1> HIDE DEF t
<1>2. 1 .. Len(t) = (1 .. Len(s)) \cup {Len(s) + 1}
  BY <1>1
<1>3. ASSUME NEW a PROVE At(t, a) = At(s, a) \cup (IF x = a THEN {Len(s) + 1} ELSE {})
  <2>1. ASSUME NEW k PROVE k \in At(t, a) <=> k \in At(s, a) \/ (x = a /\ k = Len(s) + 1)
    BY <1>1, <1>2 DEF At
  <2>2. QED
    BY <2>1
<1>4. ASSUME NEW y PROVE y \in Listed(t) <=> y \in Listed(s) \cup ({x} \ {0})
  BY <1>1, <1>2 DEF Listed
<1>5. Listed(t) = Listed(s) \cup ({x} \ {0})
  BY <1>4
<1>6. QED
  BY <1>3, <1>5 DEF t

\* With a text added to one of its lists a call holds that text too.
LEMMA HeldMore ==
  ASSUME NEW f \in PrintFrame, NEW t \in PrintFrame, NEW x \in Nat, NEW list \in {"names", "entries"},
         f.arrays = t.arrays, f[list] = Append(t[list], x),
         \A l \in {"names", "entries"} \ {list} : f[l] = t[l]
  PROVE  /\ \A m, a : Held(f, m, a) = Held(t, m, a)
                        \cup (IF x = a THEN {<<m, list, Len(t[list]) + 1>>} ELSE {})
         /\ Scratch(f) = Scratch(t) \cup ({x} \ {0})
<1>1. t["names"] \in Seq(Nat) /\ t["entries"] \in Seq(Nat)
  BY DEF PrintFrame
<1>2. /\ \A a : At(f[list], a) = At(t[list], a) \cup (IF x = a THEN {Len(t[list]) + 1} ELSE {})
      /\ Listed(f[list]) = Listed(t[list]) \cup ({x} \ {0})
  <2>1. t[list] \in Seq(Nat)
    BY <1>1
  <2>2. QED
    BY <2>1, AtAppended
<1>3. ASSUME NEW m, NEW w, NEW A, NEW B
      PROVE  {<<m, w, k>> : k \in A \cup B} = {<<m, w, k>> : k \in A} \cup {<<m, w, k>> : k \in B}
  OBVIOUS
<1>4. ASSUME NEW m, NEW a, NEW w, w = list
      PROVE  {<<m, w, k>> : k \in At(f[w], a)} = {<<m, w, k>> : k \in At(t[w], a)}
               \cup (IF x = a THEN {<<m, w, Len(t[w]) + 1>>} ELSE {})
  <2> DEFINE B == IF x = a THEN {Len(t[w]) + 1} ELSE {}
  <2>1. {<<m, w, k>> : k \in B} = IF x = a THEN {<<m, w, Len(t[w]) + 1>>} ELSE {}
    OBVIOUS
  <2>2. At(f[w], a) = At(t[w], a) \cup B
    BY <1>2, <1>4
  <2> HIDE DEF B
  <2>3. {<<m, w, k>> : k \in At(t[w], a) \cup B}
          = {<<m, w, k>> : k \in At(t[w], a)} \cup {<<m, w, k>> : k \in B}
    BY <1>3
  <2>4. QED
    BY <2>1, <2>2, <2>3
<1>5. CASE list = "names"
  <2>1. f.entries = t.entries
    BY <1>5
  <2>2. ASSUME NEW m, NEW a
        PROVE  Held(f, m, a) = Held(t, m, a)
                 \cup (IF x = a THEN {<<m, list, Len(t[list]) + 1>>} ELSE {})
    <3>1. {<<m, "names", k>> : k \in At(f["names"], a)} = {<<m, "names", k>> : k \in At(t["names"], a)}
            \cup (IF x = a THEN {<<m, "names", Len(t["names"]) + 1>>} ELSE {})
      BY <1>4, <1>5
    <3>2. Held(f, m, a) = Held(t, m, a)
            \cup (IF x = a THEN {<<m, "names", Len(t["names"]) + 1>>} ELSE {})
      BY <2>1, <3>1 DEF Held
    <3>3. QED
      BY <1>5, <3>2
  <2>3. Scratch(f) = Scratch(t) \cup ({x} \ {0})
    BY <1>2, <1>5, <2>1 DEF Scratch
  <2>4. QED
    BY <2>2, <2>3
<1>6. CASE list = "entries"
  <2>1. f.names = t.names
    BY <1>6
  <2>2. ASSUME NEW m, NEW a
        PROVE  Held(f, m, a) = Held(t, m, a)
                 \cup (IF x = a THEN {<<m, list, Len(t[list]) + 1>>} ELSE {})
    <3>1. {<<m, "entries", k>> : k \in At(f["entries"], a)} = {<<m, "entries", k>> : k \in At(t["entries"], a)}
            \cup (IF x = a THEN {<<m, "entries", Len(t["entries"]) + 1>>} ELSE {})
      BY <1>4, <1>6
    <3>2. Held(f, m, a) = Held(t, m, a)
            \cup (IF x = a THEN {<<m, "entries", Len(t["entries"]) + 1>>} ELSE {})
      BY <2>1, <3>1 DEF Held
    <3>3. QED
      BY <1>6, <3>2
  <2>3. Scratch(f) = Scratch(t) \cup ({x} \ {0})
    BY <1>2, <1>6, <2>1 DEF Scratch
  <2>4. QED
    BY <2>2, <2>3
<1>7. QED
  BY <1>5, <1>6

\* So do all print calls together.
LEMMA OwnersOfMore ==
  ASSUME stack \in Seq(PrintFrame), stack # <<>>, NEW f \in PrintFrame, stack' = SetTop(f),
         NEW a, NEW X, Held(f, Len(stack), a) = Held(Top, Len(stack), a) \cup X
  PROVE  FrameOwners(a)' = FrameOwners(a) \cup X
<1>1. FrameOwners(a)' = BelowOwners(a) \cup Held(f, Len(stack), a)
  BY OwnersOfNewTop
<1>2. FrameOwners(a) = BelowOwners(a) \cup Held(Top, Len(stack), a)
  BY OwnersOfTop
<1>3. QED
  BY <1>1, <1>2

\* The top frame, and what a new one must be.
LEMMA TopFrame ==
  ASSUME stack \in Seq(PrintFrame), stack # <<>>, \A m \in 1 .. Len(stack) : FrameInv(stack[m])
  PROVE  /\ Len(stack) \in Nat \ {0} /\ Top \in PrintFrame /\ FrameInv(Top)
         /\ Top["names"] \in Seq(Nat) /\ Top["entries"] \in Seq(Nat)
<1>1. Len(stack) \in Nat \ {0} /\ Len(stack) \in 1 .. Len(stack)
  OBVIOUS
<1>2. Top \in PrintFrame /\ FrameInv(Top)
  BY <1>1 DEF Top
<1>3. QED
  BY <1>1, <1>2 DEF PrintFrame

\* A change of the innermost call that fits leaves the stack fit.
LEMMA NewTopFits ==
  ASSUME stack \in Seq(PrintFrame), stack # <<>>, \A m \in 1 .. Len(stack) : FrameInv(stack[m]),
         ItemIds' = ItemIds, Others \subseteq Others',
         NEW f \in PrintFrame, stack' = SetTop(f),
         f.child \in ItemIds, f.item \in ItemIds, Scratch(f) \subseteq Others'
  PROVE  /\ stack' \in Seq(PrintFrame) /\ stack' # <<>>
         /\ \A m \in 1 .. Len(stack') : FrameInv(stack[m])'
<1>1. /\ stack' \in Seq(PrintFrame) /\ Len(stack') = Len(stack)
      /\ \A m \in 1 .. Len(stack') : stack'[m] = IF m = Len(stack) THEN f ELSE stack[m]
  BY DEF SetTop
<1>2. Len(stack) \in Nat \ {0}
  OBVIOUS
<1>3. \A g, m : FrameInv(g) /\ stack'[m] = g => FrameInv(stack[m])'
  BY FramesStay
<1>4. \A m : stack'[m] = f => FrameInv(stack[m])'
  BY DEF FrameInv
<1>5. QED
  BY <1>1, <1>2, <1>3, <1>4

\* The name goes into the frame's list, or NULL does.
LEMMA PrintNameStep ==
  ASSUME IInv, PrintName
  PROVE  IInv'
<1>1. /\ pc = "printName" /\ pc \in Printing /\ ret = 0 /\ stack # <<>>
      /\ root' = root /\ cur' = cur /\ ret' = ret /\ pc' = "print"
  BY WhilePrinting DEF PrintName, Printing, IInv, PrintInv
<1>2. /\ HeapInv /\ OwnInv /\ New \in Nat \ {0} /\ New \notin Ids /\ 0 \notin Ids
      /\ stack \in Seq(PrintFrame) /\ \A m \in 1 .. Len(stack) : FrameInv(stack[m])
      /\ root # 0
  BY <1>1, WhilePrinting
<1>3. /\ Len(stack) \in Nat \ {0} /\ Top \in PrintFrame /\ FrameInv(Top)
      /\ Top["names"] \in Seq(Nat) /\ Top["entries"] \in Seq(Nat)
  BY <1>1, <1>2, TopFrame
<1>4. CASE live' # live
  <2> DEFINE f == [Top EXCEPT !.names = Append(@, New)]
             t == heap[heap[cur].string].text
  <2>1. heap' = Append(heap, Chars(t)) /\ live' = live \cup {New} /\ stack' = SetTop(f)
    BY <1>4 DEF PrintName
  <2>2. Append(Top.names, New) \in Seq(Nat)
    BY <1>2, <1>3
  <2>3. /\ f \in PrintFrame /\ f.arrays = Top.arrays /\ f["names"] = Append(Top["names"], New)
        /\ f["entries"] = Top["entries"] /\ f.child = Top.child /\ f.item = Top.item
    BY <1>3, <2>2 DEF PrintFrame
  <2> HIDE DEF f, t
  <2>4. TreeStays /\ Ids' = Ids \cup {New}
    <3>1. live' = (live \ {}) \cup {New} /\ {} \in SUBSET Others
      BY <2>1
    <3>2. QED
      BY <1>1, <1>2, <2>1, <3>1, OneNewText
  <2>5. /\ HeapInv' /\ ItemIds' = ItemIds /\ Others' = Others \cup (Ids' \ Ids)
        /\ \A a \in Ids : Owners(a)' = ItemOwners(a) \cup FrameOwners(a)'
                                         \cup RootOwner(a) \cup RetOwner(a)'
        /\ \A a \in Ids' \ Ids : Owners(a)' = FrameOwners(a)' \cup RetOwner(a)'
    BY <1>1, <1>2, <2>4, PrintOwners DEF HeapInv
  <2>6. /\ \A m, a : Held(f, m, a) = Held(Top, m, a)
                       \cup (IF New = a THEN {<<m, "names", Len(Top["names"]) + 1>>} ELSE {})
        /\ Scratch(f) = Scratch(Top) \cup ({New} \ {0})
    <3>1. "names" \in {"names", "entries"} /\ \A l \in {"names", "entries"} \ {"names"} : f[l] = Top[l]
      BY <2>3
    <3>2. QED
      BY <1>2, <1>3, <2>3, <3>1, HeldMore
  <2>7. ASSUME NEW a \in Ids PROVE Owners(a)' = Owners(a)
    <3>1. Held(f, Len(stack), a) = Held(Top, Len(stack), a) \cup {}
      BY <1>2, <2>6
    <3>2. FrameOwners(a)' = FrameOwners(a) \cup {}
      BY <1>1, <1>2, <2>1, <2>3, <3>1, OwnersOfMore
    <3>3. RetOwner(a)' = RetOwner(a)
      BY <1>1 DEF RetOwner
    <3>4. QED
      BY <2>5, <3>2, <3>3, OwnersAre
  <2>8. ASSUME NEW n, n = New PROVE \E x : Owners(n)' = {x}
    <3> DEFINE x == <<Len(stack), "names", Len(Top["names"]) + 1>>
    <3>1. Held(f, Len(stack), n) = Held(Top, Len(stack), n) \cup {x}
      BY <2>6, <2>8
    <3> HIDE DEF x
    <3>2. FrameOwners(n)' = FrameOwners(n) \cup {x}
      BY <1>1, <1>2, <2>1, <2>3, <3>1, OwnersOfMore
    <3>3. FrameOwners(n) = {}
      BY <1>2, <2>8, NoneHeld
    <3>4. RetOwner(n)' = {}
      BY <1>1, <1>2, <2>8 DEF RetOwner
    <3>5. QED
      BY <1>2, <2>4, <2>5, <2>8, <3>2, <3>3, <3>4
  <2>9. OwnInv'
    <3>1. \E n : n = New
      OBVIOUS
    <3>2. QED
      BY <1>2, <2>1, <2>4, <2>7, <2>8, <3>1 DEF OwnInv, HeapInv
  <2>10. PrintInv'
    <3>1. Scratch(f) \subseteq Others'
      BY <1>2, <1>3, <2>4, <2>5, <2>6 DEF FrameInv
    <3>2. f.child \in ItemIds /\ f.item \in ItemIds /\ Others \subseteq Others'
      BY <1>3, <2>3, <2>5 DEF FrameInv
    <3>3. /\ stack' \in Seq(PrintFrame) /\ stack' # <<>>
          /\ \A m \in 1 .. Len(stack') : FrameInv(stack[m])'
      BY <1>1, <1>2, <2>1, <2>3, <2>5, <3>1, <3>2, NewTopFits
    <3>4. QED
      BY <1>1, <1>2, <3>3 DEF PrintInv
  <2>11. QED
    BY <1>1, <2>5, <2>9, <2>10, StillPrinting DEF Printing
<1>5. CASE live' = live
  <2> DEFINE f == [Top EXCEPT !.names = Append(@, 0), !.fail = TRUE]
  <2>1. heap' = heap /\ stack' = SetTop(f)
    <3>1. New \notin live
      BY <1>2 DEF HeapInv
    <3>2. QED
      BY <1>5, <3>1 DEF PrintName
  <2>2. Append(Top.names, 0) \in Seq(Nat)
    BY <1>3
  <2>3. /\ f \in PrintFrame /\ f.arrays = Top.arrays /\ f["names"] = Append(Top["names"], 0)
        /\ f["entries"] = Top["entries"] /\ f.child = Top.child /\ f.item = Top.item
    BY <1>3, <2>2 DEF PrintFrame
  <2> HIDE DEF f
  <2>4. TreeStays /\ Ids' = Ids
    BY <1>1, <1>2, <1>5, <2>1, NothingMoved
  <2>5. /\ HeapInv' /\ ItemIds' = ItemIds /\ Others' = Others \cup (Ids' \ Ids)
        /\ \A a \in Ids : Owners(a)' = ItemOwners(a) \cup FrameOwners(a)'
                                         \cup RootOwner(a) \cup RetOwner(a)'
    BY <1>1, <1>2, <2>4, PrintOwners DEF HeapInv
  <2>6. /\ \A m, a : Held(f, m, a) = Held(Top, m, a)
                       \cup (IF 0 = a THEN {<<m, "names", Len(Top["names"]) + 1>>} ELSE {})
        /\ Scratch(f) = Scratch(Top) \cup ({0} \ {0})
    <3>1. "names" \in {"names", "entries"} /\ \A l \in {"names", "entries"} \ {"names"} : f[l] = Top[l]
      BY <2>3
    <3>2. QED
      BY <1>3, <2>3, <3>1, HeldMore
  <2>7. ASSUME NEW a \in Ids PROVE Owners(a)' = Owners(a)
    <3>1. Held(f, Len(stack), a) = Held(Top, Len(stack), a) \cup {}
      BY <1>2, <2>6
    <3>2. FrameOwners(a)' = FrameOwners(a) \cup {}
      BY <1>1, <1>2, <2>1, <2>3, <3>1, OwnersOfMore
    <3>3. RetOwner(a)' = RetOwner(a)
      BY <1>1 DEF RetOwner
    <3>4. QED
      BY <2>5, <3>2, <3>3, OwnersAre
  <2>8. OwnInv'
    BY <1>2, <1>5, <2>4, <2>7 DEF OwnInv, HeapInv
  <2>9. PrintInv'
    <3>1. Scratch(f) \subseteq Others'
      BY <1>3, <2>5, <2>6 DEF FrameInv
    <3>2. f.child \in ItemIds /\ f.item \in ItemIds /\ Others \subseteq Others'
      BY <1>3, <2>3, <2>5 DEF FrameInv
    <3>3. /\ stack' \in Seq(PrintFrame) /\ stack' # <<>>
          /\ \A m \in 1 .. Len(stack') : FrameInv(stack[m])'
      BY <1>1, <1>2, <2>1, <2>3, <2>5, <3>1, <3>2, NewTopFits
    <3>4. QED
      BY <1>1, <1>2, <3>3 DEF PrintInv
  <2>10. QED
    BY <1>1, <2>5, <2>8, <2>9, StillPrinting DEF Printing
<1>6. QED
  BY <1>4, <1>5

-----------------------------------------------------------------------------
\* Pointers of different kinds are different owners.
LEMMA Apart ==
  ASSUME NEW b
  PROVE  /\ \A f, m : \A l \in Held(f, m, b) : l[1] = m /\ l[2] \in {"arrays", "names", "entries"}
         /\ \A l \in ItemOwners(b) : l[2] \in Links
         /\ \A l \in FrameOwners(b) : l[2] \in {"arrays", "names", "entries"}
         /\ \A l \in RootOwner(b) : l[2] = "root"
         /\ \A l \in RetOwner(b) : l[2] = "ret"
<1>1. ASSUME NEW f, NEW m, NEW l \in Held(f, m, b)
      PROVE  l[1] = m /\ l[2] \in {"arrays", "names", "entries"}
  BY DEF Held
<1>2. \A l \in ItemOwners(b) : l[2] \in Links
  BY DEF ItemOwners
<1>3. \A l \in FrameOwners(b) : l[2] \in {"arrays", "names", "entries"}
  BY <1>1 DEF FrameOwners
<1>4. \A l \in RootOwner(b) : l[2] = "root"
  BY DEF RootOwner
<1>5. \A l \in RetOwner(b) : l[2] = "ret"
  BY DEF RetOwner
<1>6. QED
  BY <1>1, <1>2, <1>3, <1>4, <1>5

\* What print_value returned has no other owner.
LEMMA RetAlone ==
  ASSUME HeapInv, OwnInv, ret # 0
  PROVE  ItemOwners(ret) = {} /\ FrameOwners(ret) = {} /\ RootOwner(ret) = {}
<1>1. ret \in Ids /\ <<0, "ret">> \in RetOwner(ret)
  BY DEF HeapInv, Others, RetOwner
<1>2. \E b : b = ret
  OBVIOUS
<1>3. PICK b : b = ret
  BY <1>2
<1>4. b \in Ids /\ <<0, "ret">> \in RetOwner(b) /\ <<0, "ret">>[2] = "ret"
  BY <1>1, <1>3
<1>5. \E x : Owners(b) = {x}
  BY <1>4, OwnersAre DEF OwnInv
<1>6. Owners(b) = {<<0, "ret">>}
  BY <1>4, <1>5, OwnersAre
<1>7. ASSUME NEW l \in ItemOwners(b) \cup FrameOwners(b) \cup RootOwner(b) PROVE FALSE
  <2>1. l = <<0, "ret">>
    BY <1>6, <1>7, OwnersAre
  <2>2. l[2] = "ret"
    BY <1>4, <2>1
  <2>3. l[2] \in Links \cup {"arrays", "names", "entries", "root"}
    BY <1>7, Apart
  <2>4. QED
    BY <2>2, <2>3 DEF Links
<1>8. QED
  BY <1>3, <1>7

\* The returned text moves into the frame's list.
LEMMA PrintNextStep ==
  ASSUME IInv, PrintNext
  PROVE  IInv'
<1> DEFINE failed == Top.fail \/ ret = 0
           after == heap[Top.child].next
           goOn == after # 0 /\ (Top.type = "Array" => ~failed)
           f == [Top EXCEPT !.entries = Append(@, ret), !.fail = failed,
                            !.child = IF goOn THEN after ELSE @]
<1>1. /\ pc = "printed" /\ pc \in Printing /\ stack # <<>> /\ stack' = SetTop(f)
      /\ heap' = heap /\ live' = live /\ root' = root /\ ret' = 0
      /\ cur' = IF goOn THEN after ELSE cur
      /\ pc' \in {"print", "printName", "compose"}
  BY DEF PrintNext, Printing
<1>2. /\ HeapInv /\ OwnInv /\ 0 \notin Ids
      /\ stack \in Seq(PrintFrame) /\ \A m \in 1 .. Len(stack) : FrameInv(stack[m])
      /\ root # 0
  BY <1>1, WhilePrinting
<1>3. /\ Len(stack) \in Nat \ {0} /\ Top \in PrintFrame /\ FrameInv(Top)
      /\ Top["names"] \in Seq(Nat) /\ Top["entries"] \in Seq(Nat)
  BY <1>1, <1>2, TopFrame
<1>4. after # 0 => after \in ItemIds
  BY <1>2, <1>3 DEF FrameInv, HeapInv, Linked
<1>5. ret \in Nat /\ ItemIds \subseteq Nat
  BY <1>2 DEF HeapInv, Others, ItemIds, Ids
<1>6. /\ f \in PrintFrame /\ f.arrays = Top.arrays /\ f["entries"] = Append(Top["entries"], ret)
      /\ f["names"] = Top["names"] /\ f.child \in ItemIds /\ f.item = Top.item
  <2>1. Append(Top.entries, ret) \in Seq(Nat)
    BY <1>3, <1>5
  <2>2. failed \in BOOLEAN
    OBVIOUS
  <2> DEFINE next == IF goOn THEN after ELSE Top.child
  <2>3. next \in ItemIds /\ next \in Nat
    BY <1>3, <1>4, <1>5 DEF FrameInv
  <2>4. f = [Top EXCEPT !.entries = Append(@, ret), !.fail = failed, !.child = next]
    OBVIOUS
  <2> HIDE DEF f, failed, next, goOn
  <2>5. QED
    BY <1>3, <2>1, <2>2, <2>3, <2>4 DEF PrintFrame
<1> HIDE DEF f, failed, after, goOn
<1>7. TreeStays /\ Ids' = Ids
  BY <1>1, <1>2, NothingMoved
<1>8. /\ HeapInv' /\ ItemIds' = ItemIds /\ Others' = Others \cup (Ids' \ Ids)
      /\ \A a \in Ids : Owners(a)' = ItemOwners(a) \cup FrameOwners(a)'
                                       \cup RootOwner(a) \cup RetOwner(a)'
  <2>1. cur' \in ItemIds \cup {0} /\ ret' \in Others' \cup {0}
    BY <1>1, <1>2, <1>4 DEF HeapInv, goOn
  <2>2. QED
    BY <1>2, <1>7, <2>1, PrintOwners
<1>9. /\ \A m, a : Held(f, m, a) = Held(Top, m, a)
                     \cup (IF ret = a THEN {<<m, "entries", Len(Top["entries"]) + 1>>} ELSE {})
      /\ Scratch(f) = Scratch(Top) \cup ({ret} \ {0})
  <2>1. "entries" \in {"names", "entries"} /\ \A l \in {"names", "entries"} \ {"entries"} : f[l] = Top[l]
    BY <1>6
  <2>2. QED
    BY <1>3, <1>5, <1>6, <2>1, HeldMore
<1>10. ASSUME NEW a \in Ids, a # ret PROVE Owners(a)' = Owners(a)
  <2>1. Held(f, Len(stack), a) = Held(Top, Len(stack), a) \cup {}
    BY <1>9, <1>10
  <2>2. FrameOwners(a)' = FrameOwners(a) \cup {}
    BY <1>1, <1>2, <1>6, <2>1, OwnersOfMore
  <2>3. RetOwner(a)' = {} /\ RetOwner(a) = {}
    BY <1>1, <1>2, <1>10 DEF RetOwner
  <2>4. QED
    BY <1>8, <2>2, <2>3, OwnersAre
<1>11. ASSUME NEW a \in Ids, a = ret PROVE \E x : Owners(a)' = {x}
  <2> DEFINE x == <<Len(stack), "entries", Len(Top["entries"]) + 1>>
  <2>1. Held(f, Len(stack), a) = Held(Top, Len(stack), a) \cup {x}
    BY <1>9, <1>11
  <2> HIDE DEF x
  <2>2. FrameOwners(a)' = FrameOwners(a) \cup {x}
    BY <1>1, <1>2, <1>6, <2>1, OwnersOfMore
  <2>3. ItemOwners(a) = {} /\ FrameOwners(a) = {} /\ RootOwner(a) = {}
    BY <1>2, <1>11, RetAlone
  <2>4. RetOwner(a)' = {}
    BY <1>1, <1>2 DEF RetOwner
  <2>5. QED
    BY <1>8, <2>2, <2>3, <2>4
<1>12. OwnInv'
  <2>1. ASSUME NEW a \in Ids, a = ret PROVE a \in live
    <3>1. <<0, "ret">> \in RetOwner(a)
      BY <2>1 DEF RetOwner
    <3>2. Owners(a) # {}
      BY <3>1, OwnersAre
    <3>3. QED
      BY <1>2, <3>2 DEF OwnInv
  <2>2. live \subseteq Ids
    BY <1>2 DEF HeapInv
  <2>3. ASSUME NEW a \in live PROVE \E x : Owners(a)' = {x}
    BY <1>2, <1>10, <1>11, <2>2 DEF OwnInv
  <2>4. ASSUME NEW a \in Ids, Owners(a)' # {} PROVE a \in live
    BY <1>2, <1>10, <2>1, <2>4 DEF OwnInv
  <2>5. QED
    BY <1>1, <1>7, <2>3, <2>4 DEF OwnInv
<1>13. PrintInv'
  <2>1. Scratch(f) \subseteq Others'
    BY <1>2, <1>3, <1>8, <1>9 DEF FrameInv, HeapInv
  <2>2. f.item \in ItemIds /\ Others \subseteq Others'
    BY <1>3, <1>6, <1>8 DEF FrameInv
  <2>3. /\ stack' \in Seq(PrintFrame) /\ stack' # <<>>
        /\ \A m \in 1 .. Len(stack') : FrameInv(stack[m])'
    BY <1>1, <1>2, <1>6, <1>8, <2>1, <2>2, NewTopFits
  <2>4. QED
    BY <1>1, <1>2, <2>3 DEF PrintInv
<1>14. QED
  BY <1>1, <1>8, <1>12, <1>13, StillPrinting DEF Printing

\* The composed text goes to the caller, all scratch is freed.
LEMMA PrintEndsStep ==
  ASSUME IInv, PrintEnds
  PROVE  IInv'
<1>1. /\ pc = "compose" /\ pc \in Printing /\ ret = 0 /\ stack # <<>> /\ stack' = Pop
      /\ root' = root /\ cur' = Top.item /\ pc' = "printed"
  BY WhilePrinting DEF PrintEnds, Printing, IInv, PrintInv
<1>2. /\ HeapInv /\ OwnInv /\ New \in Nat \ {0} /\ New \notin Ids /\ 0 \notin Ids
      /\ stack \in Seq(PrintFrame) /\ \A m \in 1 .. Len(stack) : FrameInv(stack[m])
      /\ root # 0
  BY <1>1, WhilePrinting
<1>3. /\ Len(stack) \in Nat \ {0} /\ Top \in PrintFrame /\ FrameInv(Top)
  BY <1>1, <1>2, TopFrame
<1>4. /\ cur' \in ItemIds \cup {0} /\ Scratch(Top) \in SUBSET Others
  BY <1>1, <1>3 DEF FrameInv
<1>5. /\ stack' \in Seq(PrintFrame) /\ Len(stack') = Len(stack) - 1
      /\ \A m \in 1 .. Len(stack') : stack'[m] = stack[m]
  BY <1>1, <1>2, Popped
<1>6. \A a : FrameOwners(a)' = BelowOwners(a)
  BY <1>1, <1>2, OwnersPopped
<1>7. \A a : FrameOwners(a) = BelowOwners(a) \cup Held(Top, Len(stack), a)
  BY <1>1, <1>2, OwnersOfTop
<1>8. ASSUME NEW a \in Ids, a \notin Scratch(Top) PROVE FrameOwners(a)' = FrameOwners(a)
  <2>1. Held(Top, Len(stack), a) = {}
    BY <1>2, <1>3, <1>8, HeldIsScratch
  <2>2. QED
    BY <1>6, <1>7, <2>1
<1>9. ASSUME NEW a \in Ids, a \in Scratch(Top)
      PROVE  ItemOwners(a) = {} /\ BelowOwners(a) = {} /\ RootOwner(a) = {}
  <2>1. PICK y : y \in Held(Top, Len(stack), a)
    BY <1>2, <1>3, <1>9, HeldIsScratch
  <2>2. y \in Owners(a) /\ y[1] = Len(stack) /\ y[2] \in {"arrays", "names", "entries"}
    BY <1>7, <2>1, OwnersAre, Apart
  <2>3. Owners(a) = {y}
    BY <1>2, <2>2 DEF OwnInv
  <2>4. ASSUME NEW l \in ItemOwners(a) \cup RootOwner(a) PROVE FALSE
    <3>1. l = y
      BY <2>3, <2>4, OwnersAre
    <3>2. l[2] \in Links \cup {"root"}
      BY <2>4, Apart
    <3>3. QED
      BY <2>2, <3>1, <3>2 DEF Links
  <2>5. ASSUME NEW l \in BelowOwners(a) PROVE FALSE
    <3>1. l = y
      BY <1>7, <2>3, <2>5, OwnersAre
    <3>2. PICK m \in 1 .. Len(stack) - 1 : l \in Held(stack[m], m, a)
      BY <2>5 DEF BelowOwners
    <3>3. l[1] = m
      BY <3>2, Apart
    <3>4. m # Len(stack)
      BY <1>3, <3>2
    <3>5. QED
      BY <2>2, <3>1, <3>3, <3>4
  <2>6. QED
    BY <2>4, <2>5
<1>10. \A a \in Ids : RetOwner(a) = {}
  BY <1>1, <1>2 DEF RetOwner
<1>11. ASSUME HeapInv', ItemIds' = ItemIds, Others \subseteq Others' PROVE PrintInv'
  <2>1. \A f, m : FrameInv(f) /\ stack'[m] = f => FrameInv(stack[m])'
    BY <1>11, FramesStay
  <2>2. \A m \in 1 .. Len(stack') : m \in 1 .. Len(stack)
    BY <1>3, <1>5
  <2>3. QED
    BY <1>1, <1>2, <1>5, <2>1, <2>2 DEF PrintInv
<1>12. CASE New \in live'
  <2> DEFINE t == Composed(Top)
  <2>1. New \notin live
    BY <1>2 DEF HeapInv
  <2>2. /\ heap' = Append(heap, Chars(t)) /\ live' = (live \ Scratch(Top)) \cup {New} /\ ret' = New
    BY <1>12, <2>1 DEF PrintEnds
  <2> HIDE DEF t
  <2>3. TreeStays /\ Ids' = Ids \cup {New}
    BY <1>1, <1>2, <1>4, <2>2, OneNewText
  <2>4. /\ HeapInv' /\ ItemIds' = ItemIds /\ Others' = Others \cup (Ids' \ Ids)
        /\ \A a \in Ids : Owners(a)' = ItemOwners(a) \cup FrameOwners(a)'
                                         \cup RootOwner(a) \cup RetOwner(a)'
        /\ \A a \in Ids' \ Ids : Owners(a)' = FrameOwners(a)' \cup RetOwner(a)'
    <3>1. ret' \in Others' \cup {0}
      BY <1>2, <1>4, <2>2, <2>3, TreeItems
    <3>2. QED
      BY <1>2, <1>4, <2>3, <3>1, PrintOwners
  <2>5. \A a \in Ids : RetOwner(a)' = {}
    BY <1>2, <2>2 DEF RetOwner
  <2>6. ASSUME NEW a \in Ids, a \notin Scratch(Top) PROVE Owners(a)' = Owners(a)
    BY <1>8, <1>10, <2>4, <2>5, <2>6, OwnersAre
  <2>7. ASSUME NEW a \in Ids, a \in Scratch(Top) PROVE Owners(a)' = {}
    BY <1>6, <1>9, <2>4, <2>5, <2>7
  <2>8. ASSUME NEW n, n = New PROVE \E x : Owners(n)' = {x}
    <3>1. FrameOwners(n)' = {}
      BY <1>2, <1>6, <2>8, NoneHeld
    <3>2. RetOwner(n)' = {<<0, "ret">>}
      BY <2>2, <2>8 DEF RetOwner
    <3>3. QED
      BY <1>2, <2>3, <2>4, <2>8, <3>1, <3>2
  <2>9. OwnInv'
    <3>1. \E n : n = New
      OBVIOUS
    <3>2. QED
      BY <1>2, <2>2, <2>3, <2>6, <2>7, <2>8, <3>1 DEF OwnInv, HeapInv
  <2>10. PrintInv'
    BY <1>11, <2>4
  <2>11. QED
    BY <1>1, <2>4, <2>9, <2>10, StillPrinting DEF Printing
<1>13. CASE New \notin live'
  <2>1. heap' = heap /\ live' = live \ Scratch(Top) /\ ret' = 0
    BY <1>13 DEF PrintEnds
  <2>2. Ids' = Ids /\ Len(heap) \in Nat
    BY <1>2, <2>1 DEF Ids, HeapInv
  <2>3. TreeStays
    <3>1. live' \subseteq Ids' /\ live' \cap ItemIds = live \cap ItemIds
      BY <1>2, <1>4, <2>1, <2>2 DEF HeapInv, ItemIds, Others
    <3>2. QED
      BY <1>1, <1>2, <2>1, <2>2, <3>1 DEF TreeStays, HeapInv
  <2>4. /\ HeapInv' /\ ItemIds' = ItemIds /\ Others' = Others \cup (Ids' \ Ids)
        /\ \A a \in Ids : Owners(a)' = ItemOwners(a) \cup FrameOwners(a)'
                                         \cup RootOwner(a) \cup RetOwner(a)'
    BY <1>2, <1>4, <2>1, <2>3, PrintOwners
  <2>5. \A a \in Ids : RetOwner(a)' = {}
    BY <1>2, <2>1 DEF RetOwner
  <2>6. ASSUME NEW a \in Ids, a \notin Scratch(Top) PROVE Owners(a)' = Owners(a)
    BY <1>8, <1>10, <2>4, <2>5, <2>6, OwnersAre
  <2>7. ASSUME NEW a \in Ids, a \in Scratch(Top) PROVE Owners(a)' = {}
    BY <1>6, <1>9, <2>4, <2>5, <2>7
  <2>8. OwnInv'
    BY <1>2, <2>1, <2>2, <2>6, <2>7 DEF OwnInv, HeapInv
  <2>9. PrintInv'
    BY <1>11, <2>4
  <2>10. QED
    BY <1>1, <2>4, <2>8, <2>9, StillPrinting DEF Printing
<1>14. QED
  BY <1>12, <1>13

\* The rendering is freed, and the tree with all its texts.
LEMMA ReleaseStep ==
  ASSUME IInv, Release
  PROVE  IInv'
<1>1. pc = "printed" /\ pc \in Printing /\ stack = <<>> /\ pc' = "released"
  BY DEF Release, Printing
<1>2. HeapInv /\ OwnInv /\ root # 0
  BY <1>1, WhilePrinting
<1>3. \A a : FrameOwners(a) = {}
  BY <1>1 DEF FrameOwners, PrintFrames
<1>4. \A b \in live : b \in Blocks(root) \cup {ret}
  BY <1>2, <1>3, AllReached
<1>5. /\ live' = {} /\ heap' = heap /\ root' = 0 /\ ret' = 0 /\ stack' = <<>> /\ cur' = cur
  BY <1>1, <1>4 DEF Release
<1>6. HeapInv' /\ OwnInv'
  BY <1>2, <1>5, AllFreed
<1>7. QED
  BY <1>1, <1>5, <1>6 DEF IInv, PhaseInv, ParseInv, PrintInv, IdleInv, Parsing, Printing

-----------------------------------------------------------------------------
\* Stuttering.
LEMMA InvUnchanged == IInv /\ UNCHANGED vars => IInv'
<1> SUFFICES ASSUME IInv, UNCHANGED vars PROVE IInv'
  OBVIOUS
<1>1. HeapInv' <=> HeapInv
  BY DEF vars, HeapInv, Ids, ItemIds, Others, IsItem, Linked
<1>2. OwnInv' <=> OwnInv
  BY DEF vars, OwnInv, Owners, Ids, IsItem
<1>3. PhaseInv' /\ IdleInv'
  BY DEF vars, IInv, PhaseInv, IdleInv
<1>4. ItemIds' = ItemIds /\ Others' = Others
  BY DEF vars, ItemIds, Others, Ids, IsItem
<1>5. ParseInv'
  BY <1>4 DEF vars, IInv, ParseInv
<1>6. PrintInv'
  <2>1. \A f, m : FrameInv(f) /\ stack'[m] = f => FrameInv(stack[m])'
    BY <1>4, FramesStay
  <2>2. QED
    BY <2>1 DEF vars, IInv, PrintInv
<1>7. QED
  BY <1>1, <1>2, <1>3, <1>5, <1>6 DEF IInv

\* Every step keeps the invariant.
LEMMA InvNext == IInv /\ [Next]_vars => IInv'
<1> SUFFICES ASSUME IInv, [Next]_vars PROVE IInv'
  OBVIOUS
<1>1. ASSUME ParseNoMemory \/ Malformed PROVE IInv'
  <2>1. pc \in Parsing /\ GiveUp
    BY <1>1 DEF ParseNoMemory, Malformed, Parsing
  <2>2. QED
    BY <2>1, GiveUpStep
<1>2. CASE Parse \/ ParseScalar \/ ParseString \/ ParseEmpty \/ ParseContainer \/ ParseName
  BY <1>2, ParseStep, ParseScalarStep, ParseStringStep, ParseEmptyStep, ParseContainerStep,
     ParseNameStep
<1>3. CASE ParseColon \/ NextChild \/ EndContainer \/ Parsed \/ ScanPastEnd
  BY <1>3, ParseColonStep, NextChildStep, EndContainerStep, ParsedStep, ScanPastEndStep
<1>4. CASE PrintItem \/ PrintNothing \/ PrintLeaf \/ PrintContainer
  BY <1>4, PrintItemStep, PrintNothingStep, PrintLeafStep, PrintContainerStep
<1>5. CASE PrintName \/ PrintNext \/ PrintEnds \/ Release
  BY <1>5, PrintNameStep, PrintNextStep, PrintEndsStep, ReleaseStep
<1>6. CASE UNCHANGED vars
  BY <1>6, InvUnchanged
<1>7. QED
  BY <1>1, <1>2, <1>3, <1>4, <1>5, <1>6 DEF Next, Ended

\* The inductive invariant.
THEOREM HeapIsSound == Spec => []IInv
<1>1. QED
  BY InvInit, InvNext, PTL DEF Spec

\* Whatever the text is, wherever it breaks off and whichever malloc fails in
\* cJSON_Parse or cJSON_Print: every block that is not freed has exactly one
\* owner, and no owner points to a block that is freed.
THEOREM BlocksHaveOneOwner == Spec => []OneOwner
<1>1. IInv => OneOwner
  BY OwnInvIsOneOwner DEF IInv
<1>2. QED
  BY <1>1, HeapIsSound, PTL

-----------------------------------------------------------------------------
(* What the tree says.                                                     *)

\* Whether item i has a name or is to read one; whether its value is yet to
\* be read.
Labelled(i) == heap[i].string # 0 \/ (pc = "name" /\ i = cur)
Unread(i) == pc \in {"colon", "value"} /\ i = cur

\* A name or a string leads to a text; a string has one once it is read; the
\* children of an object have names, those of an array have none.
Words == {<<s>> : s \in Strings}
LeadsToText(i, f) == heap[i][f] # 0 => heap[heap[i][f]].text \in Words
IsRead(i) == heap[i].type = "String" /\ ~Unread(i) => heap[i].valuestring # 0
ChildFits(i) ==
  heap[i].child # 0 => /\ heap[i].type \in {"Array", "Object"}
                       /\ Labelled(heap[i].child) <=> heap[i].type = "Object"
NextFits(i) == heap[i].next # 0 => (Labelled(heap[i].next) <=> Labelled(i))
TreeItem(i) ==
  LeadsToText(i, "string") /\ LeadsToText(i, "valuestring") /\ IsRead(i) /\ ChildFits(i) /\ NextFits(i)

Reading == {"value", "name", "colon", "after", "parsed"}
TreeInv ==
  pc \in Reading \cup Printing =>
    /\ \A i \in ItemIds : TreeItem(i)
    /\ pc \in Reading =>
         \A m \in 1 .. Len(stack) : Labelled(stack[m].child) <=> stack[m].type = "Object"

\* A clause about pointers that stay is kept if what they lead to is.
LEMMA ClausesKept ==
  ASSUME HeapInv, NEW i \in ItemIds, TreeItem(i),
         \A j \in Others : heap'[j] = heap[j],
         \A j \in ItemIds : Labelled(j)' <=> Labelled(j)
  PROVE  /\ heap'[i].string = heap[i].string => LeadsToText(i, "string")'
         /\ heap'[i].valuestring = heap[i].valuestring => LeadsToText(i, "valuestring")'
         /\ heap'[i].child = heap[i].child /\ heap'[i].type = heap[i].type => ChildFits(i)'
         /\ heap'[i].next = heap[i].next => NextFits(i)'
<1>1. Linked(i)
  BY DEF HeapInv
<1>2. /\ heap[i].string # 0 => heap'[heap[i].string] = heap[heap[i].string]
      /\ heap[i].valuestring # 0 => heap'[heap[i].valuestring] = heap[heap[i].valuestring]
  BY <1>1 DEF Linked
<1>3. /\ heap'[i].string = heap[i].string => LeadsToText(i, "string")'
      /\ heap'[i].valuestring = heap[i].valuestring => LeadsToText(i, "valuestring")'
  BY <1>2 DEF LeadsToText, TreeItem
<1>4. heap'[i].child = heap[i].child /\ heap'[i].type = heap[i].type => ChildFits(i)'
  BY <1>1 DEF ChildFits, TreeItem, Linked
<1>5. heap'[i].next = heap[i].next => NextFits(i)'
  BY <1>1 DEF NextFits, TreeItem, Linked
<1>6. QED
  BY <1>3, <1>4, <1>5

\* An item that is not touched fits as before.
LEMMA ItemKept ==
  ASSUME HeapInv, NEW i \in ItemIds, TreeItem(i), heap'[i] = heap[i],
         \A j \in Others : heap'[j] = heap[j],
         \A j \in ItemIds : Labelled(j)' <=> Labelled(j),
         Unread(i) => Unread(i)'
  PROVE  TreeItem(i)'
<1>1. /\ LeadsToText(i, "string")' /\ LeadsToText(i, "valuestring")'
      /\ ChildFits(i)' /\ NextFits(i)'
  BY ClausesKept
<1>2. IsRead(i)'
  BY DEF IsRead, TreeItem
<1>3. QED
  BY <1>1, <1>2 DEF TreeItem

\* A new item fits.
LEMMA NewItemFits ==
  ASSUME NEW n, heap'[n] = NewItem
  PROVE  TreeItem(n)'
BY DEF TreeItem, LeadsToText, IsRead, ChildFits, NextFits, NewItem

\* What parse_string stores is a string.
LEMMA ContentIsText == ASSUME IsString(Tok) PROVE Content(Tok) \in Words
<1>1. OpenText \in Strings
  BY TokensAssumption DEF OpenText
<1>2. (IF Tok = "open" THEN OpenText ELSE Tok) \in Strings
  BY <1>1 DEF IsString
<1>3. QED
  BY <1>2, Zenon DEF Content, Words

LEMMA WordsAreTexts == Words \subseteq Seq(Tokens)
<1>1. ASSUME NEW w \in Words PROVE w \in Seq(Tokens)
  <2>1. PICK s \in Strings : w = <<s>>
    BY DEF Words
  <2>2. s \in Tokens
    BY DEF Tokens
  <2>3. QED
    BY <2>1, <2>2
<1>2. QED
  BY <1>1

\* What the reading steps start from.
LEMMA WhileReading ==
  ASSUME IInv, TreeInv, pc \in Reading
  PROVE  /\ pc \in Parsing /\ HeapInv /\ IsSeq(heap) /\ ItemIds \subseteq Ids /\ Others \subseteq Ids
         /\ cur \in ItemIds /\ cur \notin Others
         /\ \A i \in ItemIds : TreeItem(i)
         /\ \A m \in 1 .. Len(stack) : /\ Labelled(stack[m].child) <=> stack[m].type = "Object"
                                       /\ stack[m].child \in ItemIds
<1>1. pc \in Parsing
  BY DEF Reading, Parsing
<1>2. cur \in ItemIds
  BY <1>1, WhileParsing
<1>3. \A m \in 1 .. Len(stack) : stack[m].child \in ItemIds
  BY <1>1 DEF IInv, ParseInv
<1>4. QED
  BY <1>1, <1>2, <1>3 DEF IInv, HeapInv, TreeInv, ItemIds, Others

\* When the item under way gets its value.
LEMMA ValueFits ==
  ASSUME IInv, TreeInv, IInv', pc = "value", NEW item \in ItemSet,
         \A i \in Ids : heap'[i] = IF i = cur THEN item ELSE heap[i],
         item.string = heap[cur].string, item.next = heap[cur].next,
         item.child = 0,
         item.valuestring # 0 => heap'[item.valuestring].text \in Words,
         item.type = "String" => item.valuestring # 0,
         ItemIds' = ItemIds, cur' = cur, stack' = stack, pc' = "after"
  PROVE  TreeInv'
<1>1. /\ HeapInv /\ ItemIds \subseteq Ids /\ Others \subseteq Ids
      /\ cur \in ItemIds /\ cur \notin Others
      /\ \A i \in ItemIds : TreeItem(i)
      /\ \A m \in 1 .. Len(stack) : /\ Labelled(stack[m].child) <=> stack[m].type = "Object"
                                    /\ stack[m].child \in ItemIds
  BY WhileReading DEF Reading
<1>2. \A j \in Others : heap'[j] = heap[j]
  BY <1>1
<1>3. \A j \in ItemIds : Labelled(j)' <=> Labelled(j)
  BY <1>1 DEF Labelled
<1>4. ASSUME NEW i \in ItemIds PROVE TreeItem(i)'
  <2>1. CASE i = cur
    <3>1. heap'[i] = item
      BY <1>1, <2>1
    <3>2. LeadsToText(i, "string")' /\ NextFits(i)'
      BY <1>1, <1>2, <1>3, <2>1, <3>1, ClausesKept
    <3>3. LeadsToText(i, "valuestring")' /\ IsRead(i)' /\ ChildFits(i)'
      BY <3>1 DEF LeadsToText, IsRead, ChildFits
    <3>4. QED
      BY <3>2, <3>3 DEF TreeItem
  <2>2. CASE i # cur
    <3>1. heap'[i] = heap[i] /\ ~Unread(i)
      BY <1>1, <2>2 DEF Unread
    <3>2. QED
      BY <1>1, <1>2, <1>3, <3>1, ItemKept
  <2>3. QED
    BY <2>1, <2>2
<1>5. \A m \in 1 .. Len(stack') : Labelled(stack[m].child)' <=> stack'[m].type = "Object"
  <2>1. ASSUME NEW m \in 1 .. Len(stack) PROVE Labelled(stack[m].child)' <=> Labelled(stack[m].child)
    <3>1. PICK j \in ItemIds : j = stack[m].child
      BY <1>1
    <3>2. Labelled(j)' <=> Labelled(j)
      BY <1>3
    <3>3. QED
      BY <3>1, <3>2 DEF Labelled
  <2>2. QED
    BY <1>1, <2>1
<1>6. QED
  BY <1>4, <1>5 DEF TreeInv

\* The items after a block is allocated.
LEMMA GrownItems ==
  ASSUME HeapInv, NEW c \in ItemIds, NEW item \in ItemSet, NEW b, Grows(c, item, b)
  PROVE  /\ New \notin Ids
         /\ "type" \in DOMAIN b => ItemIds' = ItemIds \cup {New}
         /\ "type" \notin DOMAIN b => ItemIds' = ItemIds
<1>1. Len(heap) \in Nat /\ Len(heap') = Len(heap) + 1 /\ heap'[New] = b
  BY DEF HeapInv, Grows
<1>2. New \notin Ids /\ Ids' = Ids \cup {New}
  BY <1>1 DEF New, Ids
<1>3. ASSUME NEW i \in Ids PROVE IsItem(i)' <=> IsItem(i)
  BY Kinds DEF Grows, IsItem, ItemIds
<1>4. ASSUME NEW n, n = New PROVE IsItem(n)' <=> "type" \in DOMAIN b
  BY <1>1, <1>4 DEF IsItem
<1>5. PICK n : n = New
  OBVIOUS
<1>6. IsItem(n)' <=> "type" \in DOMAIN b
  BY <1>4, <1>5
<1>7. QED
  BY <1>2, <1>3, <1>5, <1>6 DEF ItemIds

\* A number, true, false or null.
LEMMA ScalarFits ==
  ASSUME IInv, IInv', TreeInv, ParseScalar
  PROVE  TreeInv'
<1>1. pc = "value" /\ pc \in Parsing /\ heap[cur].child = 0 /\ heap[cur].valuestring = 0
  BY DEF ParseScalar, Parsing, IInv, ParseInv
<1> DEFINE item == [heap[cur] EXCEPT !.type = "Scalar", !.value = Tok]
<1>2. /\ item \in ItemSet /\ item.string = heap[cur].string /\ item.next = heap[cur].next
      /\ item.child = 0 /\ item.valuestring = 0 /\ item.type = "Scalar"
  BY <1>1, WhileParsing DEF ItemSet, ParseScalar
<1>3. heap' = [heap EXCEPT ![cur] = item]
  BY <1>1, WhileParsing DEF ParseScalar, HeapInv
<1> HIDE DEF item
<1>4. /\ Len(heap') = Len(heap)
      /\ \A i \in Ids : heap'[i] = IF i = cur THEN item ELSE heap[i]
  <2>1. IsSeq(heap) /\ cur \in Ids
    BY <1>1, WhileParsing DEF HeapInv
  <2>2. QED
    BY <1>3, <2>1, Changed
<1>5. ItemIds' = ItemIds
  BY <1>1, <1>2, <1>4, WhileParsing, Kinds DEF ItemIds, Ids, IsItem
<1>6. cur' = cur /\ stack' = stack /\ pc' = "after"
  BY DEF ParseScalar
<1>7. QED
  BY <1>1, <1>2, <1>4, <1>5, <1>6, ValueFits

\* An empty array or object.
LEMMA EmptyFits ==
  ASSUME IInv, IInv', TreeInv, ParseEmpty
  PROVE  TreeInv'
<1>1. pc = "value" /\ pc \in Parsing /\ heap[cur].child = 0 /\ heap[cur].valuestring = 0
  BY DEF ParseEmpty, Parsing, IInv, ParseInv
<1> DEFINE item == [heap[cur] EXCEPT !.type = TypeOf(Tok)]
<1>2. /\ item \in ItemSet /\ item.string = heap[cur].string /\ item.next = heap[cur].next
      /\ item.child = 0 /\ item.valuestring = 0
  BY <1>1, WhileParsing DEF ItemSet, TypeOf
<1>3. item.type # "String"
  BY <1>1, WhileParsing DEF ItemSet, TypeOf
<1>4. heap' = [heap EXCEPT ![cur] = item]
  BY <1>1, WhileParsing DEF ParseEmpty, HeapInv
<1> HIDE DEF item
<1>5. /\ Len(heap') = Len(heap)
      /\ \A i \in Ids : heap'[i] = IF i = cur THEN item ELSE heap[i]
  <2>1. IsSeq(heap) /\ cur \in Ids
    BY <1>1, WhileParsing DEF HeapInv
  <2>2. QED
    BY <1>4, <2>1, Changed
<1>6. ItemIds' = ItemIds
  BY <1>1, <1>2, <1>5, WhileParsing, Kinds DEF ItemIds, Ids, IsItem
<1>7. cur' = cur /\ stack' = stack /\ pc' = "after"
  BY DEF ParseEmpty
<1>8. QED
  BY <1>1, <1>2, <1>3, <1>5, <1>6, <1>7, ValueFits

\* A string.
LEMMA StringFits ==
  ASSUME IInv, IInv', TreeInv, ParseString
  PROVE  TreeInv'
<1>1. pc = "value" /\ pc \in Parsing /\ heap[cur].child = 0 /\ heap[cur].valuestring = 0
  BY DEF ParseString, Parsing, IInv, ParseInv
<1> DEFINE item == [heap[cur] EXCEPT !.type = "String", !.valuestring = New]
           b == Chars(Content(Tok))
<1>2. /\ item \in ItemSet /\ item.string = heap[cur].string /\ item.next = heap[cur].next
      /\ item.child = 0 /\ item.valuestring = New
  BY <1>1, WhileParsing DEF ItemSet
<1>3. heap' = Append([heap EXCEPT ![cur] = item], b)
  BY <1>1, WhileParsing DEF ParseString, HeapInv
<1>4. "type" \notin DOMAIN b /\ b.text \in Words
  BY Kinds, ContentIsText DEF Chars, ParseString
<1> HIDE DEF item, b
<1>5. Grows(cur, item, b)
  <2>1. IsSeq(heap) /\ cur \in Ids
    BY <1>1, WhileParsing DEF HeapInv
  <2>2. QED
    BY <1>3, <2>1, Grown
<1>6. ItemIds' = ItemIds
  BY <1>1, <1>2, <1>4, <1>5, WhileParsing, GrownItems
<1>7. cur' = cur /\ stack' = stack /\ pc' = "after"
  BY DEF ParseString
<1>8. /\ \A i \in Ids : heap'[i] = IF i = cur THEN item ELSE heap[i]
      /\ heap'[item.valuestring].text \in Words
  BY <1>2, <1>4, <1>5 DEF Grows
<1>9. New # 0
  BY <1>1, WhileParsing DEF New
<1>10. QED
  BY <1>1, <1>2, <1>6, <1>7, <1>8, <1>9, ValueFits

\* The first child of a container: of an object, it is to have a name.
LEMMA ContainerFits ==
  ASSUME IInv, IInv', TreeInv, ParseContainer
  PROVE  TreeInv'
<1>1. /\ pc = "value" /\ pc \in Parsing /\ pc \in Reading
      /\ heap[cur].child = 0 /\ heap[cur].valuestring = 0
  BY DEF ParseContainer, Parsing, Reading, IInv, ParseInv
<1> DEFINE item == [heap[cur] EXCEPT !.type = TypeOf(Tok), !.child = New]
           f == [type |-> TypeOf(Tok), child |-> New]
<1>2. /\ item \in ItemSet /\ item.string = heap[cur].string /\ item.next = heap[cur].next
      /\ item.child = New /\ item.valuestring = 0 /\ item.type = f.type /\ f.child = New
      /\ f.type \in {"Array", "Object"} /\ f \in ParseFrame
  BY <1>1, WhileParsing DEF ItemSet, TypeOf, ParseFrame
<1>3. heap' = Append([heap EXCEPT ![cur] = item], NewItem)
  BY <1>1, WhileParsing DEF ParseContainer, HeapInv
<1>4. /\ cur' = New /\ stack' = Append(stack, f)
      /\ pc' = IF f.type = "Array" THEN "value" ELSE "name"
  BY DEF ParseContainer, Descend
<1> HIDE DEF item, f
<1>5. Grows(cur, item, NewItem)
  <2>1. IsSeq(heap) /\ cur \in Ids
    BY <1>1, WhileParsing DEF HeapInv
  <2>2. QED
    BY <1>3, <2>1, Grown
<1>6. New \notin Ids /\ ItemIds' = ItemIds \cup {New}
  BY <1>1, <1>2, <1>5, WhileParsing, GrownItems, Kinds
<1>7. /\ HeapInv /\ ItemIds \subseteq Ids /\ Others \subseteq Ids
      /\ cur \in ItemIds /\ cur \notin Others
      /\ \A i \in ItemIds : TreeItem(i)
      /\ \A m \in 1 .. Len(stack) : /\ Labelled(stack[m].child) <=> stack[m].type = "Object"
                                    /\ stack[m].child \in ItemIds
  BY <1>1, WhileReading
<1>8. /\ \A i \in Ids : heap'[i] = IF i = cur THEN item ELSE heap[i]
      /\ heap'[New] = NewItem
  BY <1>5 DEF Grows
<1>9. /\ \A j \in Others : heap'[j] = heap[j]
      /\ \A j \in ItemIds : Labelled(j)' <=> Labelled(j)
  BY <1>1, <1>2, <1>4, <1>6, <1>7, <1>8 DEF Labelled
<1>10. ASSUME NEW n, n = New PROVE TreeItem(n)' /\ (Labelled(n)' <=> f.type = "Object")
  BY <1>2, <1>4, <1>8, <1>10, NewItemFits DEF Labelled, NewItem
<1>11. ASSUME NEW i \in ItemIds PROVE TreeItem(i)'
  <2>1. CASE i = cur
    <3>1. heap'[i] = item
      BY <1>7, <1>8, <2>1
    <3>2. LeadsToText(i, "string")' /\ NextFits(i)'
      BY <1>2, <1>7, <1>9, <2>1, <3>1, ClausesKept
    <3>3. LeadsToText(i, "valuestring")'
      BY <1>2, <3>1 DEF LeadsToText
    <3>4. IsRead(i)'
      BY <1>2, <3>1 DEF IsRead
    <3>5. ChildFits(i)'
      <4>1. PICK n : n = New
        OBVIOUS
      <4>2. heap'[i].child = n /\ heap'[i].type = f.type /\ (Labelled(n)' <=> f.type = "Object")
        BY <1>2, <1>10, <3>1, <4>1
      <4>3. Labelled(heap[i].child)' <=> f.type = "Object"
        BY <4>2 DEF Labelled
      <4>4. QED
        BY <1>2, <4>2, <4>3 DEF ChildFits
    <3>6. QED
      BY <3>2, <3>3, <3>4, <3>5 DEF TreeItem
  <2>2. CASE i # cur
    <3>1. heap'[i] = heap[i] /\ ~Unread(i)
      BY <1>7, <1>8, <2>2 DEF Unread
    <3>2. QED
      BY <1>7, <1>9, <3>1, ItemKept
  <2>3. QED
    BY <2>1, <2>2
<1>12. ASSUME NEW m \in 1 .. Len(stack') PROVE Labelled(stack[m].child)' <=> stack'[m].type = "Object"
  <2>1. stack \in Seq(ParseFrame) /\ f \in ParseFrame
    BY <1>1, <1>2, WhileParsing
  <2>2. /\ m \in 1 .. Len(stack) \/ m = Len(stack) + 1
        /\ m \in 1 .. Len(stack) => stack'[m] = stack[m]
        /\ m = Len(stack) + 1 => stack'[m] = f
    BY <1>4, <2>1
  <2>3. CASE stack'[m] = f
    <3>1. PICK n : n = New
      OBVIOUS
    <3>2. stack'[m].child = n /\ (Labelled(n)' <=> f.type = "Object")
      BY <1>2, <1>10, <2>3, <3>1
    <3>3. QED
      BY <2>3, <3>2 DEF Labelled
  <2>4. CASE m \in 1 .. Len(stack) /\ stack'[m] = stack[m]
    <3>1. PICK j \in ItemIds : j = stack[m].child
      BY <1>7, <2>4
    <3>2. (Labelled(j)' <=> Labelled(j)) /\ stack'[m].child = j
      BY <1>9, <2>4, <3>1
    <3>3. QED
      BY <1>7, <2>4, <3>1, <3>2 DEF Labelled
  <2>5. QED
    BY <2>2, <2>3, <2>4
<1>13. \A i \in ItemIds' : TreeItem(i)'
  BY <1>6, <1>10, <1>11
<1>14. QED
  BY <1>12, <1>13 DEF TreeInv

\* A name: the item that was to have one has it.
LEMMA NameFits ==
  ASSUME IInv, IInv', TreeInv, ParseName
  PROVE  TreeInv'
<1>1. /\ pc = "name" /\ pc \in Parsing /\ pc \in Reading
      /\ heap[cur].child = 0 /\ heap[cur].valuestring = 0 /\ heap[cur].string = 0
  BY DEF ParseName, Parsing, Reading, IInv, ParseInv
<1> DEFINE item == Named(heap[cur])
           b == Chars(Content(Tok))
<1>2. /\ item \in ItemSet /\ item.next = heap[cur].next
      /\ item.child = 0 /\ item.valuestring = 0 /\ item.string = New
  BY <1>1, WhileParsing DEF ItemSet, Named
<1>3. heap' = Append([heap EXCEPT ![cur] = item], b)
  BY <1>1, WhileParsing DEF ParseName, HeapInv
<1>4. "type" \notin DOMAIN b /\ b.text \in Words
  BY Kinds, ContentIsText DEF Chars, ParseName
<1> HIDE DEF item, b
<1>5. Grows(cur, item, b)
  <2>1. IsSeq(heap) /\ cur \in Ids
    BY <1>1, WhileParsing DEF HeapInv
  <2>2. QED
    BY <1>3, <2>1, Grown
<1>6. ItemIds' = ItemIds
  BY <1>1, <1>2, <1>4, <1>5, WhileParsing, GrownItems
<1>7. cur' = cur /\ stack' = stack /\ pc' = "colon"
  BY DEF ParseName
<1>8. /\ HeapInv /\ ItemIds \subseteq Ids /\ Others \subseteq Ids
      /\ cur \in ItemIds /\ cur \notin Others
      /\ \A i \in ItemIds : TreeItem(i)
      /\ \A m \in 1 .. Len(stack) : /\ Labelled(stack[m].child) <=> stack[m].type = "Object"
                                    /\ stack[m].child \in ItemIds
  BY <1>1, WhileReading
<1>9. /\ \A i \in Ids : heap'[i] = IF i = cur THEN item ELSE heap[i]
      /\ heap'[New] = b
  BY <1>5 DEF Grows
<1>10. New # 0
  BY <1>1, WhileParsing DEF New
<1>11. /\ \A j \in Others : heap'[j] = heap[j]
       /\ \A j \in ItemIds : Labelled(j)' <=> Labelled(j)
  BY <1>1, <1>2, <1>7, <1>8, <1>9, <1>10 DEF Labelled
<1>12. ASSUME NEW i \in ItemIds PROVE TreeItem(i)'
  <2>1. CASE i = cur
    <3>1. heap'[i] = item
      BY <1>8, <1>9, <2>1
    <3>2. NextFits(i)'
      BY <1>2, <1>8, <1>11, <2>1, <3>1, ClausesKept
    <3>3. LeadsToText(i, "valuestring")' /\ ChildFits(i)'
      BY <1>2, <3>1 DEF LeadsToText, ChildFits
    <3>4. LeadsToText(i, "string")'
      BY <1>2, <1>4, <1>9, <3>1 DEF LeadsToText
    <3>5. IsRead(i)'
      BY <1>7, <2>1 DEF IsRead, Unread
    <3>6. QED
      BY <3>2, <3>3, <3>4, <3>5 DEF TreeItem
  <2>2. CASE i # cur
    <3>1. heap'[i] = heap[i] /\ ~Unread(i)
      BY <1>8, <1>9, <2>2 DEF Unread
    <3>2. QED
      BY <1>8, <1>11, <3>1, ItemKept
  <2>3. QED
    BY <2>1, <2>2
<1>13. \A m \in 1 .. Len(stack') : Labelled(stack[m].child)' <=> stack'[m].type = "Object"
  <2>1. ASSUME NEW m \in 1 .. Len(stack) PROVE Labelled(stack[m].child)' <=> Labelled(stack[m].child)
    <3>1. PICK j \in ItemIds : j = stack[m].child
      BY <1>8
    <3>2. Labelled(j)' <=> Labelled(j)
      BY <1>11
    <3>3. QED
      BY <1>7, <3>1, <3>2 DEF Labelled
  <2>2. QED
    BY <1>7, <1>8, <2>1
<1>14. QED
  BY <1>6, <1>12, <1>13 DEF TreeInv

\* The next child of a container has a name if the one before it has.
LEMMA NextFitsStep ==
  ASSUME IInv, IInv', TreeInv, NextChild
  PROVE  TreeInv'
<1>1. pc = "after" /\ pc \in Parsing /\ pc \in Reading /\ stack # <<>>
  BY DEF NextChild, Parsing, Reading
<1>2. /\ HeapInv /\ ItemIds \subseteq Ids /\ Others \subseteq Ids
      /\ \A i \in ItemIds : TreeItem(i)
      /\ \A m \in 1 .. Len(stack) : /\ Labelled(stack[m].child) <=> stack[m].type = "Object"
                                    /\ stack[m].child \in ItemIds
  BY <1>1, WhileReading
<1>3. /\ Len(stack) \in Nat \ {0} /\ Len(stack) \in 1 .. Len(stack) /\ Top \in ParseFrame
      /\ stack \in Seq(ParseFrame)
  BY <1>1, WhileParsing DEF Top
<1> DEFINE c == Top.child
           item == [heap[c] EXCEPT !.next = New]
           f == [Top EXCEPT !.child = New]
<1>4. c \in ItemIds /\ c \in Ids /\ c \notin Others /\ heap[c] \in ItemSet
      /\ (Labelled(c) <=> Top.type = "Object")
  <2>1. c \in ItemIds /\ (Labelled(c) <=> Top.type = "Object")
    BY <1>2, <1>3 DEF Top
  <2>2. QED
    BY <1>2, <2>1 DEF HeapInv, Linked, ItemIds, Others
<1>5. /\ item \in ItemSet /\ item.next = New /\ item.string = heap[c].string
      /\ item.valuestring = heap[c].valuestring /\ item.child = heap[c].child
      /\ item.type = heap[c].type
  BY <1>1, <1>4, WhileParsing DEF ItemSet
<1>6. heap' = Append([heap EXCEPT ![c] = item], NewItem)
  BY <1>4 DEF NextChild
<1>7. f \in ParseFrame /\ f.child = New /\ f.type = Top.type /\ Top.type \in {"Array", "Object"}
  BY <1>1, <1>3, WhileParsing DEF ParseFrame
<1>8. /\ cur' = New /\ stack' = [stack EXCEPT ![Len(stack)] = f]
      /\ pc' = IF f.type = "Array" THEN "value" ELSE "name"
  BY <1>7 DEF NextChild, Descend, SetTop
<1> HIDE DEF item, f, c
<1>9. Grows(c, item, NewItem)
  <2>1. IsSeq(heap)
    BY <1>2 DEF HeapInv
  <2>2. QED
    BY <1>4, <1>6, <2>1, Grown
<1>10. New \notin Ids /\ ItemIds' = ItemIds \cup {New}
  BY <1>2, <1>4, <1>5, <1>9, GrownItems, Kinds
<1>11. /\ \A i \in Ids : heap'[i] = IF i = c THEN item ELSE heap[i]
       /\ heap'[New] = NewItem
  BY <1>9 DEF Grows
<1>12. /\ \A j \in Others : heap'[j] = heap[j]
       /\ \A j \in ItemIds : Labelled(j)' <=> Labelled(j)
  BY <1>1, <1>2, <1>4, <1>5, <1>8, <1>10, <1>11 DEF Labelled
<1>13. ASSUME NEW n, n = New PROVE TreeItem(n)' /\ (Labelled(n)' <=> f.type = "Object")
  BY <1>7, <1>8, <1>11, <1>13, NewItemFits DEF Labelled, NewItem
<1>14. ASSUME NEW i \in ItemIds PROVE TreeItem(i)'
  <2>1. CASE i = c
    <3>1. heap'[i] = item
      BY <1>2, <1>11, <2>1
    <3>2. LeadsToText(i, "string")' /\ LeadsToText(i, "valuestring")' /\ ChildFits(i)'
      BY <1>2, <1>5, <1>12, <2>1, <3>1, ClausesKept
    <3>3. IsRead(i)'
      <4>1. ~Unread(i) /\ IsRead(i)
        BY <1>1, <1>2 DEF Unread, TreeItem
      <4>2. QED
        BY <1>5, <2>1, <3>1, <4>1 DEF IsRead
    <3>4. NextFits(i)'
      <4>1. PICK n : n = New
        OBVIOUS
      <4>2. heap'[i].next = n /\ (Labelled(n)' <=> f.type = "Object")
        BY <1>5, <1>13, <3>1, <4>1
      <4>3. Labelled(i)' <=> Top.type = "Object"
        BY <1>4, <1>12, <2>1
      <4>4. Labelled(heap[i].next)' <=> Labelled(i)'
        BY <1>7, <4>2, <4>3 DEF Labelled
      <4>5. QED
        BY <4>4 DEF NextFits
    <3>5. QED
      BY <3>2, <3>3, <3>4 DEF TreeItem
  <2>2. CASE i # c
    <3>1. heap'[i] = heap[i] /\ ~Unread(i)
      BY <1>1, <1>2, <1>11, <2>2 DEF Unread
    <3>2. QED
      BY <1>2, <1>12, <3>1, ItemKept
  <2>3. QED
    BY <2>1, <2>2
<1>15. ASSUME NEW m \in 1 .. Len(stack') PROVE Labelled(stack[m].child)' <=> stack'[m].type = "Object"
  <2>1. m \in 1 .. Len(stack) /\ stack'[m] = IF m = Len(stack) THEN f ELSE stack[m]
    BY <1>3, <1>7, <1>8
  <2>2. CASE stack'[m] = f
    <3>1. PICK n : n = New
      OBVIOUS
    <3>2. stack'[m].child = n /\ (Labelled(n)' <=> f.type = "Object")
      BY <1>7, <1>13, <2>2, <3>1
    <3>3. QED
      BY <2>2, <3>2 DEF Labelled
  <2>3. CASE stack'[m] = stack[m]
    <3>1. PICK j \in ItemIds : j = stack[m].child
      BY <1>2, <2>1
    <3>2. (Labelled(j)' <=> Labelled(j)) /\ stack'[m].child = j
      BY <1>12, <2>3, <3>1
    <3>3. QED
      BY <1>2, <2>1, <2>3, <3>1, <3>2 DEF Labelled
  <2>4. QED
    BY <2>1, <2>2, <2>3
<1>16. \A i \in ItemIds' : TreeItem(i)'
  BY <1>10, <1>13, <1>14
<1>17. QED
  BY <1>15, <1>16 DEF TreeInv

\* Steps that change no block, while the text is read.
LEMMA ReadingOn ==
  ASSUME IInv, TreeInv, pc \in Reading, pc # "name", heap' = heap, cur' = cur,
         pc' \in {"value", "after", "parsed"},
         pc = "colon" => pc' = "value", pc = "value" => pc' = "value",
         Len(stack') <= Len(stack), \A m \in 1 .. Len(stack') : stack'[m] = stack[m]
  PROVE  TreeInv'
<1>1. /\ pc \in Parsing /\ HeapInv
      /\ \A i \in ItemIds : TreeItem(i)
      /\ \A m \in 1 .. Len(stack) : /\ Labelled(stack[m].child) <=> stack[m].type = "Object"
                                    /\ stack[m].child \in ItemIds
  BY WhileReading
<1>2. ItemIds' = ItemIds
  BY DEF ItemIds, IsItem, Ids
<1>3. \A j : Labelled(j)' <=> Labelled(j)
  BY DEF Labelled
<1>4. \A i \in ItemIds : TreeItem(i)'
  <2>1. \A i \in ItemIds : Unread(i) => Unread(i)'
    BY DEF Unread
  <2>2. QED
    BY <1>1, <1>3, <2>1, ItemKept
<1>5. ASSUME NEW m \in 1 .. Len(stack') PROVE Labelled(stack[m].child)' <=> stack'[m].type = "Object"
  <2>1. m \in 1 .. Len(stack)
    <3>1. Len(stack) \in Nat
      BY <1>1, WhileParsing
    <3>2. Len(stack') \in Nat
      OBVIOUS
    <3>3. QED
      BY <3>1, <3>2
  <2>2. QED
    BY <1>1, <1>3, <2>1 DEF Labelled
<1>6. QED
  BY <1>2, <1>4, <1>5 DEF TreeInv

\* The first item fits.
LEMMA FirstFits ==
  ASSUME IInv, IInv', Parse
  PROVE  TreeInv'
<1>1. /\ pc = "start" /\ heap = <<>> /\ stack' = <<>>
  BY DEF IInv, IdleInv, Parse
<1>2. CASE pc' = "null"
  BY <1>2 DEF TreeInv, Reading, Printing
<1>3. CASE pc' = "value"
  <2>1. heap' = <<NewItem>> /\ Len(heap') = 1 /\ heap'[1] = NewItem
    BY <1>1, <1>3 DEF Parse
  <2>2. ItemIds' \subseteq {1}
    BY <2>1 DEF ItemIds, Ids
  <2>3. \A i \in ItemIds' : TreeItem(i)'
    BY <2>1, <2>2, NewItemFits
  <2>4. QED
    BY <1>1, <2>3 DEF TreeInv
<1>4. QED
  BY <1>2, <1>3 DEF Parse

\* The printer leaves the tree as it is.
LEMMA PrintKeepsTree ==
  ASSUME IInv, TreeInv, pc \in Printing \cup {"parsed"}, pc' \in Printing,
         ItemIds' = ItemIds, \A i \in Ids : heap'[i] = heap[i]
  PROVE  TreeInv'
<1>1. pc \in Reading \cup Printing /\ HeapInv
  BY DEF Reading, IInv
<1>2. pc \notin {"name", "colon", "value"} /\ pc' \notin {"name", "colon", "value"} /\ pc' \notin Reading
  BY DEF Printing, Reading
<1>3. \A i \in ItemIds : TreeItem(i) /\ heap'[i] = heap[i]
  BY <1>1 DEF TreeInv, ItemIds
<1>4. \A j \in Others : heap'[j] = heap[j]
  BY DEF Others
<1>5. \A j \in ItemIds : Labelled(j)' <=> Labelled(j)
  BY <1>2, <1>3 DEF Labelled
<1>6. \A i \in ItemIds : TreeItem(i)'
  <2>1. \A i \in ItemIds : ~Unread(i)
    BY <1>2 DEF Unread
  <2>2. QED
    BY <1>1, <1>3, <1>4, <1>5, <2>1, ItemKept
<1>7. QED
  BY <1>2, <1>6 DEF TreeInv

-----------------------------------------------------------------------------
(* The value of an item.                                                   *)

\* What the recursion in Value computes for each item.
ListOf == CHOOSE list : list = [i \in 1 .. Len(heap) |-> Listing(list, i)]
LEMMA ValueIs == /\ \A i : Value(i) = Of(ListOf, i)
                 /\ \A i : Value(i)' = Of(ListOf, i)'
BY DEF Value, ListOf

\* An item's text depends on those of its child and its next alone.
LEMMA ListingLocal ==
  ASSUME HeapInv, NEW i \in Ids, NEW f, NEW g, \A j \in Ids : j > i => f[j] = g[j]
  PROVE  Listing(f, i) = Listing(g, i) /\ (IsItem(i) => Of(f, i) = Of(g, i))
<1>1. CASE ~IsItem(i)
  BY <1>1 DEF Listing
<1>2. CASE IsItem(i)
  <2>1. Linked(i)
    BY <1>2 DEF HeapInv, ItemIds
  <2>2. /\ heap[i].child # 0 => f[heap[i].child] = g[heap[i].child]
        /\ heap[i].next # 0 => f[heap[i].next] = g[heap[i].next]
    BY <2>1 DEF Linked, ItemIds
  <2>3. Of(f, i) = Of(g, i)
    BY <2>2 DEF Of, IsLeaf
  <2>4. QED
    BY <2>2, <2>3 DEF Listing
<1>3. QED
  BY <1>1, <1>2

\* The recursion has a result: children and nexts come later in the heap.
LEMMA ListExists ==
  ASSUME HeapInv
  PROVE  \E list : list = [i \in 1 .. Len(heap) |-> Listing(list, i)]
<1> DEFINE Good(n, f) == \A i \in Ids : i > n => f[i] = Listing(f, i)
           S == {n \in 0 .. Len(heap) : \E f : f = [i \in Ids |-> f[i]] /\ Good(n, f)}
<1>1. Len(heap) \in Nat /\ Ids \subseteq Nat
  BY DEF HeapInv, Ids
<1>2. Len(heap) \in S
  <2> DEFINE f == [i \in Ids |-> <<>>]
  <2>1. f = [i \in Ids |-> f[i]]
    OBVIOUS
  <2>2. Good(Len(heap), f)
    BY <1>1 DEF Ids
  <2>3. QED
    BY <1>1, <2>1, <2>2
<1>3. PICK n \in S : \A y \in S : n <= y
  <2>1. S \in SUBSET Nat
    BY <1>1
  <2>2. QED
    BY <1>2, <2>1, LeastNat
<1>4. PICK f : f = [i \in Ids |-> f[i]] /\ Good(n, f)
  BY <1>3
<1>5. n = 0
  <2> SUFFICES ASSUME n # 0 PROVE FALSE
    OBVIOUS
  <2>1. n \in Ids /\ n - 1 \in 0 .. Len(heap) /\ n \in Nat /\ \A i \in Ids : i > n - 1 => i > n \/ i = n
    BY <1>1, <1>3 DEF Ids
  <2> DEFINE g == [f EXCEPT ![n] = Listing(f, n)]
  <2>2. /\ g = [i \in Ids |-> g[i]]
        /\ \A i \in Ids : g[i] = IF i = n THEN Listing(f, n) ELSE f[i]
    BY <1>4, <2>1
  <2> HIDE DEF g
  <2>3. ASSUME NEW i \in Ids, i > n \/ i = n PROVE Listing(g, i) = Listing(f, i)
    <3>1. \A j \in Ids : j > i => g[j] = f[j]
      BY <1>1, <2>1, <2>2, <2>3
    <3>2. QED
      BY <3>1, ListingLocal
  <2>4. Good(n - 1, g)
    BY <1>1, <1>4, <2>1, <2>2, <2>3
  <2>5. n - 1 \in S
    BY <2>1, <2>2, <2>4
  <2>6. QED
    BY <1>3, <2>1, <2>5
<1>6. f = [i \in 1 .. Len(heap) |-> Listing(f, i)]
  <2>1. \A i \in Ids : f[i] = Listing(f, i)
    BY <1>1, <1>4, <1>5 DEF Ids
  <2>2. QED
    BY <1>4, <2>1 DEF Ids
<1>7. QED
  BY <1>6

\* The text of an item and its siblings.
LEMMA ListStep ==
  ASSUME HeapInv, NEW i \in Ids
  PROVE  ListOf[i] = Listing(ListOf, i)
<1>1. ListOf = [j \in 1 .. Len(heap) |-> Listing(ListOf, j)]
  BY ListExists DEF ListOf
<1>2. QED
  BY <1>1 DEF Ids

LEMMA ListSteps ==
  /\ HeapInv => \A i \in Ids : ListOf[i] = Listing(ListOf, i)
  /\ (HeapInv => \A i \in Ids : ListOf[i] = Listing(ListOf, i))'
<1>1. HeapInv => \A i \in Ids : ListOf[i] = Listing(ListOf, i)
  BY ListStep
<1>2. QED
  BY <1>1, PTL

\* Texts are closed under concatenation, which is associative.
LEMMA TextsJoin ==
  /\ <<>> \in Seq(Tokens)
  /\ \A x \in Tokens : <<x>> \in Seq(Tokens)
  /\ \A x, y \in Tokens : <<x, y>> \in Seq(Tokens)
  /\ \A s, t \in Seq(Tokens) : s \o t \in Seq(Tokens)
  /\ \A s, t, u \in Seq(Tokens) : (s \o t) \o u = s \o (t \o u)
  /\ \A s \in Seq(Tokens) : <<>> \o s = s /\ s \o <<>> = s
<1>1. /\ \A s, t \in Seq(Tokens) : s \o t \in Seq(Tokens)
      /\ \A s, t, u \in Seq(Tokens) : (s \o t) \o u = s \o (t \o u)
  BY ConcatProperties, ConcatAssociative
<1>2. \A s \in Seq(Tokens) : <<>> \o s = s /\ s \o <<>> = s
  BY ConcatEmptySeq
<1>3. \A x, y \in Tokens : <<x, y>> \in Seq(Tokens)
  OBVIOUS
<1>4. QED
  BY <1>1, <1>2, <1>3

\* An item's text is one if those of the items behind it are.
LEMMA TextStep ==
  ASSUME HeapInv, NEW i \in ItemIds, TreeItem(i), ~Unread(i),
         \A j \in ItemIds : j > i => ListOf[j] \in Seq(Tokens)
  PROVE  /\ ListOf[i] \in Seq(Tokens) /\ Of(ListOf, i) \in Seq(Tokens) /\ Before(i) \in Seq(Tokens)
         /\ ListOf[i] = Before(i) \o Of(ListOf, i)
                          \o (IF heap[i].next = 0 THEN <<>> ELSE <<",">> \o ListOf[heap[i].next])
<1>1. i \in Ids /\ IsItem(i) /\ Linked(i)
  BY DEF HeapInv, ItemIds
<1>2. /\ "[" \in Tokens /\ "]" \in Tokens /\ "{" \in Tokens /\ "}" \in Tokens
      /\ "," \in Tokens /\ ":" \in Tokens /\ Scalars \subseteq Tokens
  BY DEF Tokens
<1>3. Before(i) \in Seq(Tokens)
  <2>1. <<":">> \in Seq(Tokens)
    BY <1>2, TextsJoin
  <2>2. QED
    BY <2>1, TextsJoin, WordsAreTexts DEF Before, TreeItem, LeadsToText
<1>4. Of(ListOf, i) \in Seq(Tokens)
  <2>1. LeafText(i) \in Seq(Tokens) \/ ~IsLeaf(i)
    <3>1. heap[i].type \in {"Scalar", "String", "Array", "Object"} /\ heap[i].value \in Scalars
      BY <1>1 DEF Linked, ItemSet
    <3>2. CASE heap[i].type = "Scalar"
      BY <1>2, <3>1, <3>2, TextsJoin DEF LeafText
    <3>3. CASE heap[i].type = "String"
      BY <3>3, WordsAreTexts DEF LeafText, TreeItem, IsRead, LeadsToText
    <3>4. CASE heap[i].type = "Array"
      BY <1>2, <3>4, TextsJoin DEF LeafText
    <3>5. CASE heap[i].type = "Object"
      BY <1>2, <3>5, TextsJoin DEF LeafText
    <3>6. QED
      BY <3>1, <3>2, <3>3, <3>4, <3>5
  <2>2. CASE ~IsLeaf(i)
    <3>1. ListOf[heap[i].child] \in Seq(Tokens)
      BY <1>1, <2>2 DEF Linked, IsLeaf
    <3>2. Opened(heap[i].type) \in Tokens /\ Closing(heap[i].type) \in Tokens
      BY <1>2 DEF Opened, Closing
    <3>3. <<Opened(heap[i].type)>> \in Seq(Tokens) /\ <<Closing(heap[i].type)>> \in Seq(Tokens)
      BY <3>2, TextsJoin
    <3>4. QED
      BY <2>2, <3>1, <3>3, TextsJoin DEF Of
  <2>3. QED
    BY <2>1, <2>2 DEF Of
<1>5. (IF heap[i].next = 0 THEN <<>> ELSE <<",">> \o ListOf[heap[i].next]) \in Seq(Tokens)
  <2>1. CASE heap[i].next = 0
    BY <2>1, TextsJoin
  <2>2. CASE heap[i].next # 0
    <3>1. ListOf[heap[i].next] \in Seq(Tokens)
      BY <1>1, <2>2 DEF Linked
    <3>2. <<",">> \in Seq(Tokens)
      BY <1>2, TextsJoin
    <3>3. QED
      BY <2>2, <3>1, <3>2, TextsJoin
  <2>3. QED
    BY <2>1, <2>2
<1>6. ListOf[i] = Before(i) \o Of(ListOf, i)
                    \o (IF heap[i].next = 0 THEN <<>> ELSE <<",">> \o ListOf[heap[i].next])
  BY <1>1, ListStep DEF Listing
<1>7. ListOf[i] \in Seq(Tokens)
  <2>1. PICK rest \in Seq(Tokens) :
          rest = IF heap[i].next = 0 THEN <<>> ELSE <<",">> \o ListOf[heap[i].next]
    BY <1>5
  <2>2. ListOf[i] = (Before(i) \o Of(ListOf, i)) \o rest
    BY <1>6, <2>1
  <2>3. Before(i) \o Of(ListOf, i) \in Seq(Tokens)
    BY <1>3, <1>4, TextsJoin
  <2>4. QED
    BY <2>2, <2>3, TextsJoin
<1>8. QED
  BY <1>3, <1>4, <1>6, <1>7

\* All of them are texts.
LEMMA ListIsText ==
  ASSUME HeapInv, TreeInv, pc \in Printing \cup {"parsed"}, NEW k \in ItemIds
  PROVE  /\ ListOf[k] \in Seq(Tokens) /\ Value(k) \in Seq(Tokens) /\ Before(k) \in Seq(Tokens)
         /\ ListOf[k] = Before(k) \o Value(k)
                          \o (IF heap[k].next = 0 THEN <<>> ELSE <<",">> \o ListOf[heap[k].next])
<1> DEFINE bad == {i \in ItemIds : ListOf[i] \notin Seq(Tokens)}
<1>1. Len(heap) \in Nat /\ ItemIds \subseteq 0 .. Len(heap) /\ ItemIds \subseteq Nat
  BY DEF HeapInv, ItemIds, Ids
<1>2. \A i \in ItemIds : TreeItem(i) /\ ~Unread(i)
  BY DEF TreeInv, Reading, Unread, Printing
<1>3. ASSUME bad # {} PROVE FALSE
  <2>1. PICK i \in bad : \A y \in bad : y <= i
    <3>1. bad \in SUBSET (0 .. Len(heap))
      BY <1>1
    <3>2. QED
      BY <1>1, <1>3, <3>1, GreatestNat
  <2>2. i \in ItemIds /\ i \in Nat
    BY <1>1, <2>1
  <2>3. \A j \in ItemIds : j > i => ListOf[j] \in Seq(Tokens)
    BY <1>1, <2>1, <2>2
  <2>4. ListOf[i] \in Seq(Tokens)
    BY <1>2, <2>2, <2>3, TextStep
  <2>5. QED
    BY <2>1, <2>4
<1>4. \A j \in ItemIds : ListOf[j] \in Seq(Tokens)
  BY <1>3
<1>5. QED
  BY <1>2, <1>4, TextStep, ValueIs

\* The printer leaves every item's text as it is.
LEMMA ListKept ==
  ASSUME HeapInv, HeapInv', TreeInv, pc \in Printing \cup {"parsed"},
         ItemIds' = ItemIds, \A i \in Ids : heap'[i] = heap[i], NEW k \in ItemIds
  PROVE  /\ ListOf'[k] = ListOf[k] /\ Value(k)' = Value(k) /\ Before(k)' = Before(k)
         /\ IsLeaf(k)' = IsLeaf(k) /\ LeafText(k)' = LeafText(k)
<1> DEFINE bad == {i \in ItemIds : ListOf'[i] # ListOf[i]}
<1>1. Len(heap) \in Nat /\ ItemIds \subseteq 0 .. Len(heap) /\ ItemIds \subseteq Ids
  BY DEF HeapInv, ItemIds, Ids
<1>2. ASSUME NEW i \in ItemIds
      PROVE  /\ heap'[i] = heap[i] /\ Linked(i) /\ IsItem(i) /\ IsItem(i)' /\ i \in Ids'
             /\ Before(i)' = Before(i) /\ IsLeaf(i)' = IsLeaf(i) /\ LeafText(i)' = LeafText(i)
  <2>1. heap'[i] = heap[i] /\ Linked(i) /\ IsItem(i)
    BY <1>1 DEF HeapInv, ItemIds
  <2>2. TreeItem(i) /\ ~Unread(i)
    BY DEF TreeInv, Reading, Unread, Printing
  <2>3. /\ heap[i].string # 0 => heap'[heap[i].string] = heap[heap[i].string]
        /\ heap[i].valuestring # 0 => heap'[heap[i].valuestring] = heap[heap[i].valuestring]
    BY <2>1 DEF Linked, Others
  <2>4. Before(i)' = Before(i)
    BY <2>1, <2>3 DEF Before
  <2>5. LeafText(i)' = LeafText(i)
    <3>1. heap[i].type = "String" => heap[i].valuestring # 0
      BY <2>2 DEF TreeItem, IsRead
    <3>2. QED
      BY <2>1, <2>3, <3>1 DEF LeafText
  <2>6. i \in Ids' /\ IsItem(i)'
    BY <2>1 DEF ItemIds, IsItem
  <2>7. IsLeaf(i)' = IsLeaf(i)
    BY <2>1 DEF IsLeaf
  <2>8. QED
    BY <2>1, <2>4, <2>5, <2>6, <2>7
<1>3. ASSUME NEW i \in ItemIds, heap[i].child # 0 => ListOf'[heap[i].child] = ListOf[heap[i].child]
      PROVE  Of(ListOf, i)' = Of(ListOf, i)
  BY <1>2, <1>3 DEF Of, IsLeaf
<1>4. ASSUME bad # {} PROVE FALSE
  <2>1. PICK i \in bad : \A y \in bad : y <= i
    <3>1. bad \in SUBSET (0 .. Len(heap))
      BY <1>1
    <3>2. QED
      BY <1>1, <1>4, <3>1, GreatestNat
  <2>2. i \in ItemIds
    BY <2>1
  <2>3. \A j \in ItemIds : j > i => ListOf'[j] = ListOf[j]
    BY <1>1, <2>1, <2>2
  <2>4. /\ heap[i].child # 0 => ListOf'[heap[i].child] = ListOf[heap[i].child]
        /\ heap[i].next # 0 => ListOf'[heap[i].next] = ListOf[heap[i].next]
    BY <1>2, <2>2, <2>3 DEF Linked
  <2>5. Of(ListOf, i)' = Of(ListOf, i)
    BY <1>3, <2>2, <2>4
  <2>6. Listing(ListOf, i)' = Listing(ListOf, i)
    BY <1>2, <2>2, <2>4, <2>5 DEF Listing
  <2>7. ListOf[i] = Listing(ListOf, i) /\ ListOf'[i] = Listing(ListOf, i)'
    BY <1>1, <1>2, <2>2, ListSteps
  <2>8. QED
    BY <2>1, <2>6, <2>7
<1>5. \A j \in ItemIds : ListOf'[j] = ListOf[j]
  BY <1>4
<1>6. Of(ListOf, k)' = Of(ListOf, k)
  BY <1>2, <1>3, <1>5 DEF Linked
<1>7. QED
  BY <1>2, <1>5, <1>6, ValueIs

-----------------------------------------------------------------------------
(* What the print calls under way have rendered.                           *)

\* The members of a frame, joined one by one.
Joins(f, J) ==
  /\ J \in [1 .. Len(f.entries) -> Seq(Tokens)]
  /\ \A k \in 1 .. Len(f.entries) :
       J[k] = IF k = 1 THEN Member(f, 1) ELSE J[k - 1] \o <<",">> \o Member(f, k)

\* The text composed at the end is the last of them in brackets.
LEMMA ComposedIs ==
  ASSUME NEW f, Len(f.entries) \in Nat \ {0}, NEW J, Joins(f, J)
  PROVE  Composed(f) = <<Opened(f.type)>> \o J[Len(f.entries)] \o <<Closing(f.type)>>
<1> DEFINE n == Len(f.entries)
           Def(u) == [k \in 1 .. n |-> IF k = 1 THEN Member(f, 1)
                                       ELSE u[k - 1] \o <<",">> \o Member(f, k)]
           upto == CHOOSE u : u = Def(u)
           bad == {k \in 1 .. n : upto[k] # J[k]}
<1>1. Composed(f) = <<Opened(f.type)>> \o upto[n] \o <<Closing(f.type)>>
  BY DEF Composed
<1>2. J = Def(J)
  BY DEF Joins
<1>3. upto = Def(upto)
  BY <1>2
<1>4. \A k \in 1 .. n : upto[k] = IF k = 1 THEN Member(f, 1)
                                  ELSE upto[k - 1] \o <<",">> \o Member(f, k)
  BY <1>3
<1> HIDE DEF upto, Def
<1>5. ASSUME bad # {} PROVE FALSE
  <2>1. PICK k \in bad : \A y \in bad : k <= y
    <3>1. bad \in SUBSET Nat
      OBVIOUS
    <3>2. QED
      BY <1>5, <3>1, LeastNat
  <2>2. k \in 1 .. n /\ upto[k] # J[k]
    BY <2>1
  <2>3. k # 1
    BY <1>4, <2>2 DEF Joins
  <2>4. k - 1 \in 1 .. n /\ ~(k <= k - 1)
    BY <2>2, <2>3
  <2>5. upto[k - 1] = J[k - 1]
    BY <2>1, <2>4
  <2>6. QED
    BY <1>4, <2>2, <2>3, <2>5 DEF Joins
<1>6. upto[n] = J[n]
  BY <1>5
<1>7. QED
  BY <1>1, <1>6

\* What a frame has is what its container's children are, as long as no
\* malloc failed; if waiting, the last name is that of the child under way.
RendersFrame(f, waiting) ==
  /\ ~IsLeaf(f.item) /\ f.type = heap[f.item].type
  /\ heap[f.child].string # 0 <=> f.type = "Object"
  /\ f.fail => oom
  /\ ~f.fail =>
       /\ \A k \in 1 .. Len(f.entries) : f.entries[k] # 0
       /\ f.type = "Object" =>
            /\ \A k \in 1 .. Len(f.names) : f.names[k] # 0
            /\ IF waiting THEN Len(f.names) = Len(f.entries) + 1 ELSE Len(f.names) = Len(f.entries)
            /\ waiting => heap[f.names[Len(f.names)]].text = heap[heap[f.child].string].text

\* The members so far, with those ahead or at the end, are the list of children.
Whole(f) == ListOf[heap[f.item].child]
Underway(f) ==
  ~f.fail => \/ f.entries = <<>> /\ f.child = heap[f.item].child
             \/ /\ f.entries # <<>>
                /\ \E J : Joins(f, J) /\ J[Len(f.entries)] \o (<<",">> \o ListOf[f.child]) = Whole(f)
Complete(f) ==
  ~f.fail => /\ f.entries # <<>>
             /\ \E J : Joins(f, J) /\ J[Len(f.entries)] = Whole(f)

Waiting(m) == m < Len(stack) \/ pc \in {"print", "printed"}
FrameAt(m) ==
  /\ RendersFrame(stack[m], Waiting(m))
  /\ IF m = Len(stack) /\ pc = "compose" THEN Complete(stack[m]) ELSE Underway(stack[m])
RenderInv ==
  pc \in Printing =>
    /\ \A m \in 1 .. Len(stack) : FrameAt(m)
    /\ \A m \in 1 .. Len(stack) - 1 : stack[m].child = stack[m + 1].item
    /\ stack # <<>> /\ pc # "compose" => cur = Top.child
    /\ pc = "printed" => IF ret = 0 THEN cur = 0 \/ oom ELSE cur # 0 /\ heap[ret].text = Value(cur)

\* What the printer's steps leave alone.
PrintStays ==
  /\ HeapInv /\ HeapInv' /\ TreeInv /\ pc \in Printing
  /\ ItemIds' = ItemIds /\ \A i \in Ids : heap'[i] = heap[i]
  /\ oom => oom'

\* The members of a frame are what they were.
LEMMA MembersKept ==
  ASSUME PrintStays, NEW f, FrameInv(f), NEW w \in BOOLEAN, RendersFrame(f, w), ~f.fail
  PROVE  \A k \in 1 .. Len(f.entries) : Member(f, k)' = Member(f, k)
<1>1. f \in PrintFrame /\ f.names \in Seq(Nat) /\ f.entries \in Seq(Nat) /\ f.type \in {"Array", "Object"}
  BY DEF FrameInv, PrintFrame
<1>2. ASSUME NEW k \in 1 .. Len(f.entries)
      PROVE  /\ f.entries[k] \in Ids
             /\ f.type = "Object" => f.names[k] \in Ids
  <2>1. f.entries[k] # 0
    BY DEF RendersFrame
  <2>2. f.entries[k] \in Listed(f.entries)
    BY <2>1 DEF Listed
  <2>3. f.type = "Object" => k \in 1 .. Len(f.names) /\ f.names[k] # 0
    <3>1. ASSUME NEW a \in Nat, NEW b \in Nat, b = a \/ b = a + 1, k \in 1 .. a PROVE k \in 1 .. b
      BY <3>1
    <3>2. f.type = "Object" => Len(f.names) = Len(f.entries) \/ Len(f.names) = Len(f.entries) + 1
      BY DEF RendersFrame
    <3>3. f.type = "Object" => k \in 1 .. Len(f.names)
      BY <1>1, <3>1, <3>2
    <3>4. QED
      BY <3>3 DEF RendersFrame
  <2>4. f.type = "Object" => f.names[k] \in Listed(f.names)
    BY <2>3 DEF Listed
  <2>5. QED
    BY <2>2, <2>4 DEF FrameInv, Scratch, Others
<1>3. QED
  BY <1>1, <1>2 DEF Member, PrintStays

\* A frame that is not touched is as it was.
LEMMA FrameKept ==
  ASSUME PrintStays, NEW f, FrameInv(f), NEW w \in BOOLEAN, RendersFrame(f, w)
  PROVE  /\ RendersFrame(f, w)'
         /\ Underway(f) => Underway(f)'
         /\ Complete(f) => Complete(f)'
<1>1. f \in PrintFrame /\ f.names \in Seq(Nat) /\ f.entries \in Seq(Nat) /\ f.type \in {"Array", "Object"}
      /\ f.child \in ItemIds /\ f.item \in ItemIds
  BY DEF FrameInv, PrintFrame
<1>2. \A i \in ItemIds : /\ heap'[i] = heap[i] /\ ListOf'[i] = ListOf[i] /\ IsLeaf(i)' = IsLeaf(i)
                         /\ Linked(i)
  BY ListKept DEF PrintStays, ItemIds, HeapInv
<1>3. RendersFrame(f, w)'
  <2>1. heap'[f.child].string # 0 => heap'[heap'[f.child].string] = heap[heap[f.child].string]
    BY <1>1, <1>2 DEF Linked, Others, PrintStays
  <2>2. ~f.fail /\ f.type = "Object" /\ w
          => heap'[f.names[Len(f.names)]] = heap[f.names[Len(f.names)]]
    <3>1. ASSUME ~f.fail, f.type = "Object", w PROVE f.names[Len(f.names)] \in Ids
      <4>1. Len(f.names) \in 1 .. Len(f.names)
        BY <1>1, <3>1 DEF RendersFrame
      <4>2. f.names[Len(f.names)] \in Listed(f.names)
        BY <3>1, <4>1 DEF RendersFrame, Listed
      <4>3. QED
        BY <4>2 DEF FrameInv, Scratch, Others
    <3>2. QED
      BY <3>1 DEF PrintStays
  <2>3. IsLeaf(f.item)' = IsLeaf(f.item) /\ heap'[f.item] = heap[f.item] /\ heap'[f.child] = heap[f.child]
    BY <1>1, <1>2
  <2>4. QED
    BY <2>1, <2>2, <2>3 DEF RendersFrame, PrintStays
<1>4. ASSUME ~f.fail, NEW J PROVE Joins(f, J) => Joins(f, J)'
  <2>1. \A k \in 1 .. Len(f.entries) : Member(f, k)' = Member(f, k)
    BY <1>4, MembersKept
  <2>2. Len(f.entries) \in Nat
    BY <1>1
  <2>3. 1 \in 1 .. Len(f.entries) \/ 1 .. Len(f.entries) = {}
    BY <2>2
  <2>4. QED
    BY <2>1, <2>3 DEF Joins
<1>5. heap'[f.item].child = heap[f.item].child /\ (~IsLeaf(f.item) => heap[f.item].child \in ItemIds)
  BY <1>1, <1>2 DEF IsLeaf, Linked
<1>6. Whole(f)' = Whole(f) /\ ListOf'[f.child] = ListOf[f.child]
  BY <1>1, <1>2, <1>5 DEF Whole, RendersFrame
<1>7. Underway(f) => Underway(f)'
  BY <1>4, <1>5, <1>6 DEF Underway
<1>8. Complete(f) => Complete(f)'
  BY <1>4, <1>6 DEF Complete
<1>9. QED
  BY <1>3, <1>7, <1>8

-----------------------------------------------------------------------------
(* Steps of the printer.                                                   *)

\* A step that allocates nothing, a text or arrays of pointers.
LEMMA StaysIfSame ==
  ASSUME IInv, IInv', TreeInv, pc \in Printing, oom => oom', heap' = heap
  PROVE  PrintStays
BY DEF PrintStays, IInv, ItemIds, Ids, IsItem

LEMMA StaysWithText ==
  ASSUME IInv, IInv', TreeInv, pc \in Printing, oom => oom', NEW t, heap' = Append(heap, Chars(t))
  PROVE  PrintStays /\ heap'[New].text = t
<1> DEFINE b == Chars(t)
<1>1. "type" \notin DOMAIN b /\ b.text = t
  BY Kinds DEF Chars
<1>2. heap' = Append(heap, b) /\ IsSeq(heap)
  BY WhilePrinting
<1> HIDE DEF b
<1>3. /\ Len(heap) \in Nat /\ Len(heap') = Len(heap) + 1
      /\ \A i \in Ids : heap'[i] = heap[i]
      /\ heap'[Len(heap) + 1] = b
  BY <1>2, Appended
<1>4. Ids' = Ids \cup {New}
  BY <1>3 DEF Ids, New
<1>5. heap'[New] = b
  BY <1>3 DEF New
<1>6. ItemIds' = ItemIds
  BY <1>1, <1>3, <1>4, <1>5 DEF ItemIds, IsItem
<1>7. QED
  BY <1>1, <1>3, <1>5, <1>6 DEF PrintStays, IInv

LEMMA StaysWithArrays ==
  ASSUME IInv, IInv', TreeInv, pc \in Printing, oom => oom', NEW n \in Nat,
         heap' = heap \o [k \in 1 .. n |-> Pointers]
  PROVE  PrintStays
<1> DEFINE blocks == [k \in 1 .. n |-> Pointers]
<1>1. PICK S : heap \in Seq(S)
  BY WhilePrinting DEF IsSeq
<1>2. heap \in Seq(S \cup {Pointers}) /\ blocks \in Seq(S \cup {Pointers}) /\ Len(blocks) = n
  BY <1>1, SeqMonotonic
<1>3. /\ Len(heap') = Len(heap) + n /\ Len(heap) \in Nat
      /\ \A i \in 1 .. Len(heap) + n :
           heap'[i] = IF i <= Len(heap) THEN heap[i] ELSE blocks[i - Len(heap)]
  BY <1>2, ConcatProperties
<1>4. Ids \subseteq Ids' /\ \A i \in Ids : heap'[i] = heap[i]
  BY <1>3 DEF Ids
<1>5. ASSUME NEW i \in Ids' \ Ids PROVE "type" \notin DOMAIN heap'[i]
  <2>1. i \in 1 .. Len(heap) + n /\ ~(i <= Len(heap)) /\ i - Len(heap) \in 1 .. n
    BY <1>3 DEF Ids
  <2>2. heap'[i] = Pointers
    BY <1>3, <2>1
  <2>3. QED
    BY <2>2, Kinds
<1>6. ItemIds' = ItemIds
  BY <1>4, <1>5 DEF ItemIds, IsItem
<1>7. QED
  BY <1>4, <1>6 DEF PrintStays, IInv

\* A frame that is not the innermost, or that waits as before.
LEMMA FrameStays ==
  ASSUME PrintStays, RenderInv, NEW m \in 1 .. Len(stack), FrameInv(stack[m]), FrameAt(m),
         stack'[m] = stack[m], Waiting(m)' = Waiting(m),
         (m = Len(stack) /\ pc = "compose") = (m = Len(stack') /\ pc' = "compose")
  PROVE  FrameAt(m)'
<1>1. PICK f : f = stack[m]
  OBVIOUS
<1>2. PICK w \in BOOLEAN : w = Waiting(m)
  BY DEF Waiting
<1>3. RendersFrame(f, w) /\ FrameInv(f)
  BY <1>1, <1>2 DEF FrameAt
<1>4. RendersFrame(f, w)' /\ (Underway(f) => Underway(f)') /\ (Complete(f) => Complete(f)')
  BY <1>3, FrameKept
<1>5. RendersFrame(stack[m], Waiting(m))'
  BY <1>1, <1>2, <1>4
<1>6. QED
  BY <1>1, <1>4, <1>5 DEF FrameAt

\* What the printer's steps start from.
LEMMA WhileRendering ==
  ASSUME IInv, TreeInv, RenderInv, pc \in Printing
  PROVE  /\ stack \in Seq(PrintFrame) /\ Len(stack) \in Nat
         /\ \A m \in 1 .. Len(stack) : FrameInv(stack[m]) /\ FrameAt(m)
         /\ \A m \in 1 .. Len(stack) - 1 : stack[m].child = stack[m + 1].item
         /\ stack # <<>> => Len(stack) \in 1 .. Len(stack) /\ Top = stack[Len(stack)]
         /\ stack # <<>> /\ pc # "compose" => cur = Top.child /\ cur \in ItemIds /\ cur # 0
<1>1. stack \in Seq(PrintFrame) /\ Len(stack) \in Nat /\ 0 \notin ItemIds
      /\ \A m \in 1 .. Len(stack) : FrameInv(stack[m])
  BY WhilePrinting
<1>2. stack # <<>> => Len(stack) \in 1 .. Len(stack) /\ Top = stack[Len(stack)]
  BY <1>1 DEF Top
<1>3. /\ \A m \in 1 .. Len(stack) : FrameAt(m)
      /\ \A m \in 1 .. Len(stack) - 1 : stack[m].child = stack[m + 1].item
      /\ stack # <<>> /\ pc # "compose" => cur = Top.child
  BY DEF RenderInv
<1>4. stack # <<>> => Top.child \in ItemIds
  BY <1>1, <1>2 DEF FrameInv
<1>5. QED
  BY <1>1, <1>2, <1>3, <1>4

\* The item to print is chosen.
LEMMA RenderItem ==
  ASSUME IInv, PrintItem
  PROVE  RenderInv'
<1>1. stack' = <<>> /\ pc' = "print"
  BY DEF PrintItem, IInv, ParseInv, Parsing
<1>2. QED
  BY <1>1 DEF RenderInv

\* A call that returns leaves the frames as they are.
LEMMA RenderReturned ==
  ASSUME IInv, TreeInv, RenderInv, PrintStays, pc = "print", pc' = "printed",
         stack' = stack, cur' = cur,
         IF ret' = 0 THEN cur = 0 \/ oom' ELSE cur # 0 /\ heap'[ret'].text = Value(cur)'
  PROVE  RenderInv'
<1>1. pc \in Printing
  BY DEF Printing
<1>2. /\ \A m \in 1 .. Len(stack) : FrameInv(stack[m]) /\ FrameAt(m)
      /\ \A m \in 1 .. Len(stack) - 1 : stack[m].child = stack[m + 1].item
      /\ stack # <<>> => cur = Top.child
  BY <1>1, WhileRendering
<1>3. ASSUME NEW m \in 1 .. Len(stack) PROVE FrameAt(m)'
  <2>1. Waiting(m)' = Waiting(m)
    BY DEF Waiting
  <2>2. QED
    BY <1>2, <2>1, FrameStays
<1>4. Top' = Top
  BY DEF Top
<1>5. (IF ret = 0 THEN cur = 0 \/ oom ELSE cur # 0 /\ heap[ret].text = Value(cur))'
  OBVIOUS
<1>6. QED
  BY <1>2, <1>3, <1>4, <1>5 DEF RenderInv

\* NULL is rendered as NULL.
LEMMA RenderNothing ==
  ASSUME IInv, IInv', TreeInv, RenderInv, PrintNothing
  PROVE  RenderInv'
<1>1. /\ pc = "print" /\ pc \in Printing /\ cur = 0 /\ pc' = "printed" /\ ret' = 0
      /\ (oom => oom') /\ heap' = heap /\ stack' = stack /\ cur' = cur
  BY DEF PrintNothing, ReturnNull, Printing
<1>2. PrintStays
  BY <1>1, StaysIfSame
<1>3. QED
  BY <1>1, <1>2, RenderReturned

\* A leaf is rendered as its text.
LEMMA RenderLeaf ==
  ASSUME IInv, IInv', TreeInv, RenderInv, PrintLeaf
  PROVE  RenderInv'
<1>1. /\ pc = "print" /\ pc \in Printing /\ cur # 0 /\ IsLeaf(cur) /\ pc' = "printed"
      /\ stack' = stack /\ cur' = cur
  BY DEF PrintLeaf, ReturnNull, ReturnNew, Printing
<1>2. CASE ReturnNull(TRUE)
  <2>1. heap' = heap /\ ret' = 0 /\ oom'
    BY <1>2 DEF ReturnNull
  <2>2. PrintStays
    BY <1>1, <2>1, StaysIfSame
  <2>3. QED
    BY <1>1, <2>1, <2>2, RenderReturned
<1>3. CASE ReturnNew(LeafText(cur))
  <2>1. PICK t : t = LeafText(cur)
    OBVIOUS
  <2>2. heap' = Append(heap, Chars(t)) /\ ret' = New /\ oom' = oom
    BY <1>3, <2>1 DEF ReturnNew
  <2>3. PrintStays /\ heap'[ret'].text = t
    BY <1>1, <2>2, StaysWithText
  <2>4. PICK c \in ItemIds : c = cur
    BY <1>1, WhilePrinting DEF HeapInv
  <2>5. Value(c)' = Value(c)
    BY <2>3, ListKept DEF PrintStays
  <2>6. Value(c) = t
    BY <1>1, <2>1, <2>4, ValueIs DEF Of
  <2>7. ret' # 0
    BY <1>1, <2>2, WhilePrinting
  <2>8. heap'[ret'].text = Value(cur)'
    BY <1>1, <2>3, <2>4, <2>5, <2>6
  <2>9. QED
    BY <1>1, <2>3, <2>7, <2>8, RenderReturned
<1>4. QED
  BY <1>2, <1>3 DEF PrintLeaf

\* A container starts with its first child.
LEMMA RenderContainer ==
  ASSUME IInv, IInv', TreeInv, RenderInv, PrintContainer
  PROVE  RenderInv'
<1>1. pc = "print" /\ pc \in Printing /\ cur # 0 /\ ~IsLeaf(cur)
  BY DEF PrintContainer, Printing
<1>2. CASE ReturnNull(TRUE) /\ cur' = cur /\ stack' = stack
  <2>1. heap' = heap /\ ret' = 0 /\ oom' /\ pc' = "printed"
    BY <1>2 DEF ReturnNull
  <2>2. PrintStays
    BY <1>1, <2>1, StaysIfSame
  <2>3. QED
    BY <1>1, <1>2, <2>1, <2>2, RenderReturned
<1>3. CASE ~(ReturnNull(TRUE) /\ cur' = cur /\ stack' = stack)
  <2> DEFINE n == IF heap[cur].type = "Array" THEN 1 ELSE 2
             frame == [type |-> heap[cur].type, child |-> heap[cur].child, item |-> cur,
                   arrays |-> New .. New + n - 1,
                   names |-> <<>>, entries |-> <<>>, fail |-> FALSE]
  <2>1. /\ heap' = heap \o [k \in 1 .. n |-> Pointers]
        /\ stack' = Append(stack, frame) /\ cur' = heap[cur].child /\ oom' = oom
        /\ pc' = IF n = 1 THEN "print" ELSE "printName"
    BY <1>3 DEF PrintContainer
  <2>2. n \in Nat
    OBVIOUS
  <2>3. PrintStays
    BY <1>1, <2>1, <2>2, StaysWithArrays
  <2>4. cur \in ItemIds /\ heap[cur].child \in ItemIds
        /\ heap[cur].type \in {"Array", "Object"} /\ TreeItem(cur)
        /\ (Labelled(heap[cur].child) <=> heap[cur].type = "Object")
    <3>1. cur \in ItemIds /\ Linked(cur)
      BY <1>1, WhilePrinting DEF HeapInv
    <3>2. TreeItem(cur)
      BY <1>1, <3>1 DEF TreeInv
    <3>3. heap[cur].child # 0
      BY <1>1 DEF IsLeaf
    <3>4. QED
      BY <3>1, <3>2, <3>3 DEF Linked, TreeItem, ChildFits
  <2>5. PICK f :
        /\ f = frame /\ f.type = heap[cur].type /\ f.child = heap[cur].child /\ f.item = cur
        /\ f.names = <<>> /\ f.entries = <<>> /\ f.fail = FALSE
        /\ pc' = (IF f.type = "Array" THEN "print" ELSE "printName")
    BY <2>1
  <2> HIDE DEF n, frame
  <2>6. /\ stack \in Seq(PrintFrame) /\ Len(stack) \in Nat
        /\ \A m \in 1 .. Len(stack) : FrameInv(stack[m]) /\ FrameAt(m)
        /\ \A m \in 1 .. Len(stack) - 1 : stack[m].child = stack[m + 1].item
        /\ stack # <<>> => Len(stack) \in 1 .. Len(stack) /\ Top = stack[Len(stack)]
        /\ stack # <<>> => cur = Top.child /\ cur \in ItemIds /\ cur # 0
    BY <1>1, WhileRendering
  <2>7. /\ Len(stack') = Len(stack) + 1 /\ \A m \in 1 .. Len(stack) : stack'[m] = stack[m]
        /\ stack'[Len(stack) + 1] = f /\ stack' # <<>> /\ Top' = f
    <3>1. \A s, g : s \in Seq(PrintFrame) => Len(Append(s, g)) = Len(s) + 1
      OBVIOUS
    <3>2. QED
      BY <2>1, <2>5, <2>6 DEF Top
  <2>8. ASSUME NEW m \in 1 .. Len(stack) PROVE FrameAt(m)'
    <3>1. Waiting(m)' = TRUE /\ Waiting(m) = TRUE
      BY <1>1, <2>6, <2>7 DEF Waiting
    <3>2. (m = Len(stack) /\ pc = "compose") = (m = Len(stack') /\ pc' = "compose")
      BY <1>1, <2>5
    <3>3. QED
      BY <2>3, <2>6, <2>7, <3>1, <3>2, FrameStays
  <2>9. ASSUME NEW m, m = Len(stack) + 1 PROVE FrameAt(m)'
    <3>1. stack'[m] = f
      BY <2>7, <2>9
    <3>2. PICK i \in ItemIds : i = cur
      BY <2>4
    <3>3. PICK c \in ItemIds : c = heap[cur].child
      BY <2>4
    <3>4. heap'[i] = heap[i] /\ heap'[c] = heap[c] /\ IsLeaf(i)' = IsLeaf(i)
      BY <2>3, ListKept DEF PrintStays, ItemIds
    <3>5. heap[c].string # 0 <=> f.type = "Object"
      BY <1>1, <2>4, <2>5, <3>3 DEF Labelled
    <3>6. PICK w \in BOOLEAN : w = Waiting(m)'
      BY DEF Waiting
    <3>7. f.type = "Object" => ~w
      <4>1. Len(stack') \in Nat /\ m = Len(stack')
        BY <2>6, <2>7, <2>9
      <4>2. ~(m < Len(stack'))
        BY <4>1
      <4>3. w => pc' \in {"print", "printed"}
        BY <3>6, <4>2 DEF Waiting
      <4>4. f.type = "Object" => pc' = "printName"
        BY <2>5
      <4>5. QED
        BY <4>3, <4>4
    <3>8. Len(<<>>) = 0 /\ \A k \in 1 .. 0 : FALSE
      OBVIOUS
    <3>9. RendersFrame(f, w)'
      <4>1. ~IsLeaf(f.item)' /\ f.type = heap'[f.item].type
        BY <1>1, <2>5, <3>2, <3>4
      <4>2. heap'[f.child].string # 0 <=> f.type = "Object"
        BY <2>5, <3>3, <3>4, <3>5
      <4>3. \A k \in 1 .. Len(f.entries) : f.entries[k] # 0
        BY <2>5, <3>8
      <4>4. \A k \in 1 .. Len(f.names) : f.names[k] # 0
        BY <2>5, <3>8
      <4>5. f.type = "Object" => ~w /\ Len(f.names) = Len(f.entries)
        BY <2>5, <3>7
      <4>6. QED
        BY <2>5, <4>1, <4>2, <4>3, <4>4, <4>5 DEF RendersFrame
    <3>10. Underway(f)'
      BY <2>5, <3>2, <3>4 DEF Underway
    <3>11. pc' # "compose"
      BY <2>5
    <3>12. QED
      BY <3>1, <3>6, <3>9, <3>10, <3>11 DEF FrameAt
  <2>10. \A m \in 1 .. Len(stack') : FrameAt(m)'
    BY <2>6, <2>7, <2>8, <2>9
  <2>11. \A m \in 1 .. Len(stack') - 1 : stack'[m].child = stack'[m + 1].item
    <3>1. ASSUME NEW m \in 1 .. Len(stack') - 1 PROVE stack'[m].child = stack'[m + 1].item
      <4>1. m \in 1 .. Len(stack) /\ (m = Len(stack) \/ (m \in 1 .. Len(stack) - 1 /\ m + 1 \in 1 .. Len(stack)))
        BY <2>6, <2>7
      <4>2. CASE m = Len(stack)
        <5>1. stack # <<>>
          BY <4>1
        <5>2. stack'[m].child = cur /\ stack'[m + 1] = f
          BY <2>6, <2>7, <4>1, <4>2, <5>1
        <5>3. QED
          BY <2>5, <5>2
      <4>3. CASE m \in 1 .. Len(stack) - 1 /\ m + 1 \in 1 .. Len(stack)
        BY <2>6, <2>7, <4>1, <4>3
      <4>4. QED
        BY <4>1, <4>2, <4>3
    <3>2. QED
      BY <3>1
  <2>12. cur' = Top'.child /\ pc' # "printed"
    BY <2>1, <2>5, <2>7
  <2>13. QED
    BY <2>10, <2>11, <2>12 DEF RenderInv
<1>4. QED
  BY <1>2, <1>3

\* When the innermost frame changes, it alone is to be looked at.
LEMMA TopChanged ==
  ASSUME IInv, TreeInv, RenderInv, PrintStays, stack # <<>>,
         NEW f \in PrintFrame, stack' = SetTop(f), f.item = Top.item,
         NEW n, n = Len(stack), FrameAt(n)',
         pc' # "printed", pc' = "compose" \/ cur' = f.child
  PROVE  RenderInv'
<1>1. /\ stack \in Seq(PrintFrame) /\ Len(stack) \in Nat
      /\ \A m \in 1 .. Len(stack) : FrameInv(stack[m]) /\ FrameAt(m)
      /\ \A m \in 1 .. Len(stack) - 1 : stack[m].child = stack[m + 1].item
      /\ Len(stack) \in 1 .. Len(stack) /\ Top = stack[Len(stack)]
  BY WhileRendering DEF PrintStays
<1>2. /\ Len(stack') = Len(stack)
      /\ \A m \in 1 .. Len(stack) : stack'[m] = IF m = Len(stack) THEN f ELSE stack[m]
  BY <1>1 DEF SetTop
<1>3. Top' = f
  BY <1>1, <1>2 DEF Top
<1>4. ASSUME NEW m \in 1 .. Len(stack), m # Len(stack) PROVE FrameAt(m)'
  <2>1. m < Len(stack) /\ m < Len(stack')
    BY <1>1, <1>2, <1>4
  <2>2. Waiting(m)' = Waiting(m)
    BY <2>1 DEF Waiting
  <2>3. (m = Len(stack) /\ pc = "compose") = (m = Len(stack') /\ pc' = "compose")
    BY <1>2, <1>4
  <2>4. QED
    BY <1>1, <1>2, <1>4, <2>2, <2>3, FrameStays
<1>5. \A m \in 1 .. Len(stack') : FrameAt(m)'
  BY <1>2, <1>4
<1>6. ASSUME NEW m \in 1 .. Len(stack') - 1 PROVE stack'[m].child = stack'[m + 1].item
  <2>1. /\ m \in 1 .. Len(stack) - 1 /\ m \in 1 .. Len(stack) /\ m + 1 \in 1 .. Len(stack)
        /\ m # Len(stack)
    BY <1>1, <1>2
  <2>2. stack'[m] = stack[m] /\ stack[m].child = stack[m + 1].item
    BY <1>1, <1>2, <2>1
  <2>3. stack'[m + 1].item = stack[m + 1].item
    BY <1>1, <1>2, <2>1
  <2>4. QED
    BY <2>2, <2>3
<1>7. QED
  BY <1>3, <1>5, <1>6 DEF RenderInv

\* Names beyond those of the members rendered make no difference to them.
LEMMA SameMembers ==
  ASSUME NEW t, NEW f, Len(t.entries) \in Nat, f.entries = t.entries, f.type = t.type, f.item = t.item, f.child = t.child,
         f.fail = t.fail, \A k \in 1 .. Len(t.entries) : f.type # "Array" => f.names[k] = t.names[k],
         Underway(t)'
  PROVE  Underway(f)'
<1>1. \A k \in 1 .. Len(t.entries) : Member(f, k)' = Member(t, k)'
  BY DEF Member
<1>2. 1 \in 1 .. Len(t.entries) \/ 1 .. Len(t.entries) = {}
  OBVIOUS
<1>3. \A J : Joins(t, J)' => Joins(f, J)'
  BY <1>1, <1>2 DEF Joins
<1>4. Whole(f)' = Whole(t)'
  BY DEF Whole
<1>5. QED
  BY <1>3, <1>4 DEF Underway

\* A name is rendered before its value.
LEMMA RenderName ==
  ASSUME IInv, IInv', TreeInv, RenderInv, PrintName
  PROVE  RenderInv'
<1>1. pc = "printName" /\ pc \in Printing /\ pc' = "print" /\ cur' = cur /\ stack # <<>>
  BY DEF PrintName, Printing, IInv, PrintInv
<1>2. /\ stack \in Seq(PrintFrame) /\ Len(stack) \in Nat
      /\ \A m \in 1 .. Len(stack) : FrameInv(stack[m]) /\ FrameAt(m)
      /\ Len(stack) \in 1 .. Len(stack) /\ Top = stack[Len(stack)]
      /\ cur = Top.child /\ cur \in ItemIds
  BY <1>1, WhileRendering
<1>3. PICK t \in PrintFrame : t = Top
  BY <1>2
<1>4. PICK n : n = Len(stack)
  OBVIOUS
<1>5. FrameInv(t) /\ RendersFrame(t, FALSE) /\ Underway(t)
  <2>1. Waiting(n) = FALSE
    BY <1>1, <1>2, <1>4 DEF Waiting
  <2>2. QED
    BY <1>1, <1>2, <1>3, <1>4, <2>1 DEF FrameAt
<1>6. /\ t.names \in Seq(Nat) /\ t.entries \in Seq(Nat) /\ Len(t.entries) \in Nat /\ Len(t.names) \in Nat
      /\ t.child \in ItemIds /\ t.child = cur
  BY <1>2, <1>3 DEF PrintFrame
<1>7. Waiting(n)' = TRUE
  BY <1>1 DEF Waiting
<1>8. CASE ~(heap' = heap)
  <2> DEFINE new == heap[heap[cur].string].text
  <2>1. PICK f : f = [t EXCEPT !.names = Append(@, New)]
    OBVIOUS
  <2>2. heap' = Append(heap, Chars(new)) /\ stack' = SetTop(f) /\ oom' = oom
    BY <1>3, <1>8, <2>1 DEF PrintName
  <2> HIDE DEF new
  <2>3. PrintStays /\ heap'[New].text = new
    BY <1>1, <2>2, StaysWithText
  <2>4. New \in Nat \ {0}
    BY <1>1, WhilePrinting
  <2>5. Append(t.names, New) \in Seq(Nat)
    BY <1>6, <2>4
  <2>6. /\ f \in PrintFrame /\ f.names = Append(t.names, New) /\ f.entries = t.entries /\ f.type = t.type
        /\ f.item = t.item /\ f.child = t.child /\ f.fail = t.fail
    BY <2>1, <2>5 DEF PrintFrame
  <2>7. /\ Len(f.names) = Len(t.names) + 1 /\ f.names[Len(t.names) + 1] = New
        /\ \A k \in 1 .. Len(t.names) : f.names[k] = t.names[k]
    BY <1>6, <2>4, <2>6, AppendProperties
  <2>8. RendersFrame(t, FALSE)' /\ Underway(t)'
    BY <1>5, <2>3, FrameKept
  <2>9. Underway(f)'
    <3>1. ASSUME NEW k \in 1 .. Len(t.entries), ~f.fail, f.type # "Array" PROVE f.names[k] = t.names[k]
      <4>1. t.type = "Object"
        BY <2>6, <3>1 DEF PrintFrame
      <4>2. Len(t.names) = Len(t.entries)
        BY <1>5, <2>6, <3>1, <4>1 DEF RendersFrame
      <4>3. QED
        BY <2>7, <4>2
    <3>2. CASE ~f.fail
      BY <1>6, <2>6, <2>8, <3>1, <3>2, SameMembers
    <3>3. CASE f.fail
      BY <3>3 DEF Underway
    <3>4. QED
      BY <3>2, <3>3
  <2>10. RendersFrame(f, TRUE)'
    <3>1. /\ ~IsLeaf(f.item)' /\ f.type = heap'[f.item].type
          /\ heap'[f.child].string # 0 <=> f.type = "Object"
          /\ f.fail => oom'
          /\ ~f.fail => \A k \in 1 .. Len(f.entries) : f.entries[k] # 0
      BY <2>6, <2>8 DEF RendersFrame
    <3>2. ASSUME ~f.fail, f.type = "Object"
          PROVE  /\ \A k \in 1 .. Len(f.names) : f.names[k] # 0
                 /\ Len(f.names) = Len(f.entries) + 1
                 /\ heap'[f.names[Len(f.names)]].text = heap'[heap'[f.child].string].text
      <4>1. Len(t.names) = Len(t.entries) /\ \A k \in 1 .. Len(t.names) : t.names[k] # 0
        BY <1>5, <2>6, <3>2 DEF RendersFrame
      <4>2. \A k \in 1 .. Len(f.names) : k \in 1 .. Len(t.names) \/ k = Len(t.names) + 1
        BY <1>6, <2>7
      <4>3. \A k \in 1 .. Len(f.names) : f.names[k] # 0
        BY <2>4, <2>7, <4>1, <4>2
      <4>4. f.names[Len(f.names)] = New
        BY <2>7
      <4>5. heap[cur].string # 0
        BY <1>5, <1>6, <2>6, <3>2 DEF RendersFrame
      <4>6. heap'[cur] = heap[cur] /\ heap'[heap[cur].string] = heap[heap[cur].string]
        BY <1>2, <2>3, <4>5 DEF PrintStays, HeapInv, Linked, ItemIds, Others
      <4>7. heap'[heap'[f.child].string].text = new
        BY <1>6, <2>6, <4>6 DEF new
      <4>8. QED
        BY <2>3, <2>6, <2>7, <4>1, <4>3, <4>4, <4>7
    <3>3. QED
      BY <3>1, <3>2 DEF RendersFrame
  <2>11. FrameAt(n)'
    <3>1. Len(stack') = Len(stack) /\ stack'[n] = f
      BY <1>2, <1>4, <2>2, <2>6 DEF SetTop
    <3>2. QED
      BY <1>1, <1>7, <2>9, <2>10, <3>1 DEF FrameAt
  <2>12. QED
    BY <1>1, <1>2, <1>3, <1>4, <2>2, <2>3, <2>6, <2>11, TopChanged
<1>9. CASE heap' = heap
  <2>1. PICK f : f = [t EXCEPT !.names = Append(@, 0), !.fail = TRUE]
    OBVIOUS
  <2>2. stack' = SetTop(f) /\ oom' = TRUE
    <3>1. heap' # Append(heap, Chars(heap[heap[cur].string].text))
      <4>1. PICK b : b = Chars(heap[heap[cur].string].text)
        OBVIOUS
      <4>2. Len(Append(heap, b)) = Len(heap) + 1 /\ Len(heap) \in Nat
        <5>1. PICK S : heap \in Seq(S)
          BY <1>1, WhilePrinting DEF IsSeq
        <5>2. heap \in Seq(S \cup {b}) /\ b \in S \cup {b}
          BY <5>1, SeqMonotonic
        <5>3. QED
          BY <5>2, AppendProperties
      <4>3. QED
        BY <1>9, <4>1, <4>2
    <3>2. QED
      BY <1>3, <2>1, <3>1 DEF PrintName
  <2>3. PrintStays
    BY <1>1, <1>9, <2>2, StaysIfSame
  <2>4. Append(t.names, 0) \in Seq(Nat)
    BY <1>6
  <2>5. /\ f \in PrintFrame /\ f.entries = t.entries /\ f.type = t.type
        /\ f.item = t.item /\ f.child = t.child /\ f.fail = TRUE
    BY <2>1, <2>4 DEF PrintFrame
  <2>6. RendersFrame(t, FALSE)'
    BY <1>5, <2>3, FrameKept
  <2>7. RendersFrame(f, TRUE)' /\ Underway(f)'
    BY <2>2, <2>5, <2>6 DEF RendersFrame, Underway
  <2>8. FrameAt(n)'
    <3>1. Len(stack') = Len(stack) /\ stack'[n] = f
      BY <1>2, <1>4, <2>2, <2>5 DEF SetTop
    <3>2. QED
      BY <1>1, <1>7, <2>7, <3>1 DEF FrameAt
  <2>9. QED
    BY <1>1, <1>2, <1>3, <1>4, <2>2, <2>3, <2>5, <2>8, TopChanged
<1>10. QED
  BY <1>8, <1>9

\* A child's rendering is its member's text, and the next one in the list.
LEMMA MemberAdded ==
  ASSUME HeapInv, TreeInv, pc = "printed", NEW t \in PrintFrame, t.child \in ItemIds,
         RendersFrame(t, TRUE), Underway(t), ~t.fail,
         NEW r \in Nat, heap[r].text = Value(t.child),
         NEW f \in PrintFrame, f.type = t.type, f.item = t.item, f.names = t.names,
         f.entries = Append(t.entries, r)
  PROVE  \E J : /\ Joins(f, J)
                /\ J[Len(f.entries)]
                     \o (IF heap[t.child].next = 0 THEN <<>> ELSE <<",">> \o ListOf[heap[t.child].next])
                   = Whole(f)
<1>1. PICK c \in ItemIds : c = t.child
  OBVIOUS
<1>2. PICK rest : rest = IF heap[c].next = 0 THEN <<>> ELSE <<",">> \o ListOf[heap[c].next]
  OBVIOUS
<1>3. /\ \A k \in ItemIds : ListOf[k] \in Seq(Tokens)
      /\ Value(c) \in Seq(Tokens) /\ Before(c) \in Seq(Tokens)
      /\ ListOf[c] = (Before(c) \o Value(c)) \o rest
  BY <1>2, ListIsText DEF Printing
<1>4. <<",">> \in Seq(Tokens) /\ <<>> \in Seq(Tokens)
  <2>1. "," \in Tokens
    BY DEF Tokens
  <2>2. QED
    BY <2>1, TextsJoin
<1>5. rest \in Seq(Tokens)
  <2>1. heap[c].next # 0 => heap[c].next \in ItemIds
    BY DEF HeapInv, Linked
  <2>2. QED
    BY <1>2, <1>3, <1>4, <2>1, TextsJoin
<1>6. PICK n \in Nat : n = Len(t.entries)
  BY DEF PrintFrame
<1>7. /\ Len(f.entries) = n + 1 /\ f.entries[n + 1] = r
      /\ \A k \in 1 .. n : f.entries[k] = t.entries[k]
  <2>1. t.entries \in Seq(Nat)
    BY DEF PrintFrame
  <2>2. QED
    BY <1>6, <2>1, AppendProperties
<1>8. PICK M \in Seq(Tokens) : M = Before(c) \o Value(c)
  BY <1>3, TextsJoin
<1>9. Member(f, n + 1) = M
  <2>1. t.type \in {"Array", "Object"}
    BY DEF PrintFrame
  <2>2. CASE t.type = "Array"
    <3>1. Before(c) = <<>>
      BY <1>1, <2>2 DEF RendersFrame, Before
    <3>2. Member(f, n + 1) = <<>> \o Value(c)
      BY <1>1, <1>7, <2>2 DEF Member
    <3>3. QED
      BY <1>8, <3>1, <3>2
  <2>3. CASE t.type = "Object"
    <3>1. heap[c].string # 0 /\ Len(t.names) = n + 1
          /\ heap[t.names[Len(t.names)]].text = heap[heap[c].string].text
      BY <1>1, <1>6, <2>3 DEF RendersFrame
    <3>2. Before(c) = heap[f.names[n + 1]].text \o <<":">>
      BY <3>1 DEF Before
    <3>3. f.type # "Array"
      BY <2>3
    <3>4. QED
      BY <1>1, <1>7, <1>8, <3>2, <3>3 DEF Member
  <2>4. QED
    BY <2>1, <2>2, <2>3
<1>10. \A k \in 1 .. n : Member(f, k) = Member(t, k)
  BY <1>7 DEF Member
<1>11. Whole(f) = Whole(t)
  BY DEF Whole
<1>12. CASE t.entries = <<>> /\ t.child = heap[t.item].child
  <2> DEFINE J == [k \in 1 .. 1 |-> M]
  <2>1. n = 0
    BY <1>6, <1>12
  <2>2. J \in [1 .. 1 -> Seq(Tokens)] /\ J[1] = M /\ \A k \in 1 .. 1 : k = 1
    OBVIOUS
  <2> HIDE DEF J
  <2>3. Len(f.entries) = 1 /\ Member(f, 1) = M
    BY <1>7, <1>9, <2>1
  <2>4. Joins(f, J)
    BY <2>2, <2>3 DEF Joins
  <2>5. Whole(f) = M \o rest
    BY <1>1, <1>3, <1>8, <1>11, <1>12 DEF Whole
  <2>6. QED
    BY <1>1, <1>2, <2>2, <2>3, <2>4, <2>5
<1>13. CASE t.entries # <<>> /\ \E J : Joins(t, J) /\ J[n] \o (<<",">> \o ListOf[c]) = Whole(t)
  <2>1. PICK J : Joins(t, J) /\ J[n] \o (<<",">> \o ListOf[c]) = Whole(t)
    BY <1>13
  <2>2. n # 0 /\ n \in 1 .. n /\ n + 1 # 1 /\ (n + 1) - 1 = n
    <3>1. t.entries \in Seq(Nat)
      BY DEF PrintFrame
    <3>2. n # 0
      BY <1>6, <1>13, <3>1, EmptySeq
    <3>3. QED
      BY <3>2
  <2>3. J \in [1 .. n -> Seq(Tokens)] /\ J[n] \in Seq(Tokens)
    BY <1>6, <2>1, <2>2 DEF Joins
  <2>4. PICK last \in Seq(Tokens) : last = (J[n] \o <<",">>) \o M
    BY <1>4, <2>3, TextsJoin
  <2> DEFINE K == [k \in 1 .. n + 1 |-> IF k = n + 1 THEN last ELSE J[k]]
  <2>5. \A k \in 1 .. n + 1 : k = n + 1 \/ k \in 1 .. n
    OBVIOUS
  <2>6. /\ K \in [1 .. n + 1 -> Seq(Tokens)] /\ K[n + 1] = last
        /\ \A k \in 1 .. n : K[k] = J[k]
    BY <2>3, <2>5
  <2> HIDE DEF K
  <2>7. ASSUME NEW k \in 1 .. n + 1
        PROVE  K[k] = IF k = 1 THEN Member(f, 1) ELSE K[k - 1] \o <<",">> \o Member(f, k)
    <3>1. CASE k = n + 1
      BY <1>9, <2>2, <2>4, <2>6, <3>1
    <3>2. CASE k \in 1 .. n
      <4>1. J[k] = IF k = 1 THEN Member(t, 1) ELSE J[k - 1] \o <<",">> \o Member(t, k)
        BY <1>6, <2>1, <3>2 DEF Joins
      <4>2. 1 \in 1 .. n /\ (k # 1 => k - 1 \in 1 .. n)
        BY <3>2
      <4>3. QED
        BY <1>10, <2>6, <3>2, <4>1, <4>2
    <3>3. QED
      BY <2>5, <3>1, <3>2
  <2>8. Joins(f, K)
    BY <1>7, <2>6, <2>7 DEF Joins
  <2>9. last \o rest = Whole(f)
    <3>1. last \o rest = (J[n] \o <<",">>) \o (M \o rest)
      <4>1. PICK a \in Seq(Tokens) : a = J[n] \o <<",">>
        BY <1>4, <2>3, TextsJoin
      <4>2. (a \o M) \o rest = a \o (M \o rest)
        BY <1>5, TextsJoin
      <4>3. QED
        BY <2>4, <4>1, <4>2
    <3>2. (J[n] \o <<",">>) \o (M \o rest) = J[n] \o (<<",">> \o (M \o rest))
      <4>1. M \o rest \in Seq(Tokens)
        BY <1>5, <1>8, TextsJoin
      <4>2. QED
        BY <1>4, <2>3, <4>1, TextsJoin
    <3>3. QED
      BY <1>3, <1>8, <1>11, <2>1, <3>1, <3>2
  <2>10. QED
    BY <1>1, <1>2, <1>7, <2>6, <2>8, <2>9
<1>14. QED
  BY <1>1, <1>6, <1>12, <1>13 DEF Underway

\* A child's rendering is stored, and the next child's turn comes.
LEMMA RenderNext ==
  ASSUME IInv, IInv', TreeInv, RenderInv, PrintNext
  PROVE  RenderInv'
<1>1. /\ pc = "printed" /\ pc \in Printing /\ stack # <<>> /\ heap' = heap /\ oom' = oom
      /\ IF ret = 0 THEN cur = 0 \/ oom ELSE heap[ret].text = Value(cur)
  BY DEF PrintNext, Printing, RenderInv
<1>2. /\ stack \in Seq(PrintFrame) /\ Len(stack) \in Nat
      /\ \A m \in 1 .. Len(stack) : FrameInv(stack[m]) /\ FrameAt(m)
      /\ Len(stack) \in 1 .. Len(stack) /\ Top = stack[Len(stack)]
      /\ cur = Top.child /\ cur \in ItemIds /\ cur # 0
  BY <1>1, WhileRendering
<1>3. HeapInv /\ ret \in Others \cup {0} /\ ret \in Nat /\ Linked(cur) /\ TreeItem(cur)
      /\ \A k \in ItemIds : Labelled(k) <=> heap[k].string # 0
  <2>1. HeapInv /\ \A k \in ItemIds : TreeItem(k)
    BY <1>1 DEF IInv, TreeInv
  <2>2. ret \in Others \cup {0}
    BY <2>1 DEF HeapInv
  <2>3. Others \subseteq Nat
    BY DEF Others, Ids
  <2>4. \A k \in ItemIds : Labelled(k) <=> heap[k].string # 0
    BY <1>1 DEF Labelled
  <2>5. QED
    BY <1>2, <2>1, <2>2, <2>3, <2>4 DEF HeapInv
<1>4. PICK t \in PrintFrame : t = Top
  BY <1>2
<1>5. PICK n : n = Len(stack)
  OBVIOUS
<1>6. FrameInv(t) /\ RendersFrame(t, TRUE) /\ Underway(t) /\ t.child = cur
  <2>1. Waiting(n) = TRUE
    BY <1>1 DEF Waiting
  <2>2. QED
    BY <1>1, <1>2, <1>4, <1>5, <2>1 DEF FrameAt
<1>7. PICK failed \in BOOLEAN : failed = (t.fail \/ ret = 0)
  OBVIOUS
<1>8. PICK after \in ItemIds \cup {0} : after = heap[t.child].next
  BY <1>3, <1>6 DEF Linked
<1>9. PICK goOn \in BOOLEAN : goOn = (after # 0 /\ (t.type = "Array" => ~failed))
  OBVIOUS
<1>10. PICK c \in ItemIds : c = IF goOn THEN after ELSE t.child
  BY <1>2, <1>6, <1>8, <1>9
<1>11. PICK f : f = [t EXCEPT !.entries = Append(@, ret), !.fail = failed, !.child = c]
  OBVIOUS
<1>12. /\ stack' = SetTop(f)
       /\ cur' = c
       /\ pc' = IF ~goOn THEN "compose" ELSE IF t.type = "Array" THEN "print" ELSE "printName"
  BY <1>4, <1>6, <1>7, <1>8, <1>9, <1>10, <1>11 DEF PrintNext
<1>13. PrintStays
  BY <1>1, StaysIfSame
<1>14. /\ f \in PrintFrame /\ f.entries = Append(t.entries, ret) /\ f.fail = failed /\ f.child = c
       /\ f.names = t.names /\ f.type = t.type /\ f.item = t.item /\ f.arrays = t.arrays
       /\ t.entries \in Seq(Nat) /\ t.type \in {"Array", "Object"}
  <2>1. t.entries \in Seq(Nat) /\ c \in Nat
    BY DEF PrintFrame, ItemIds, Ids
  <2>2. Append(t.entries, ret) \in Seq(Nat)
    BY <1>3, <2>1
  <2>3. QED
    BY <1>11, <2>1, <2>2 DEF PrintFrame
<1>15. /\ Len(t.entries) \in Nat /\ Len(f.entries) = Len(t.entries) + 1 /\ f.entries # <<>>
       /\ f.entries[Len(t.entries) + 1] = ret
       /\ \A k \in 1 .. Len(t.entries) : f.entries[k] = t.entries[k]
  BY <1>3, <1>14, AppendProperties
<1>16. \A k \in 1 .. Len(f.entries) : k \in 1 .. Len(t.entries) \/ k = Len(t.entries) + 1
  BY <1>15
<1>17. FrameInv(f)
  <2>1. Listed(f.entries) \subseteq Listed(t.entries) \cup ({ret} \ {0})
    BY <1>15, <1>16 DEF Listed
  <2>2. QED
    BY <1>3, <1>6, <1>14, <2>1 DEF FrameInv, Scratch
<1>18. \A w \in BOOLEAN : (f.type = "Object" => ~w) => RendersFrame(f, w)
  <2>1. ~IsLeaf(f.item) /\ f.type = heap[f.item].type
    BY <1>6, <1>14 DEF RendersFrame
  <2>2. heap[f.child].string # 0 <=> f.type = "Object"
    <3>1. heap[cur].string # 0 <=> t.type = "Object"
      BY <1>6 DEF RendersFrame
    <3>2. goOn => (heap[after].string # 0 <=> heap[cur].string # 0)
      BY <1>2, <1>3, <1>6, <1>8, <1>9 DEF TreeItem, NextFits
    <3>3. QED
      BY <1>6, <1>10, <1>14, <3>1, <3>2
  <2>3. f.fail => oom
    BY <1>1, <1>2, <1>6, <1>7, <1>14 DEF RendersFrame
  <2>4. ASSUME ~f.fail PROVE \A k \in 1 .. Len(f.entries) : f.entries[k] # 0
    <3>1. ret # 0 /\ \A k \in 1 .. Len(t.entries) : t.entries[k] # 0
      BY <1>6, <1>7, <1>14, <2>4 DEF RendersFrame
    <3>2. QED
      BY <1>15, <1>16, <3>1
  <2>5. ASSUME ~f.fail, f.type = "Object"
        PROVE  Len(f.names) = Len(f.entries) /\ \A k \in 1 .. Len(f.names) : f.names[k] # 0
    BY <1>6, <1>7, <1>14, <1>15, <2>5 DEF RendersFrame
  <2>6. QED
    BY <2>1, <2>2, <2>3, <2>4, <2>5 DEF RendersFrame
<1>19. ASSUME ~f.fail
       PROVE  \E J : /\ Joins(f, J)
                     /\ J[Len(f.entries)] \o (IF after = 0 THEN <<>> ELSE <<",">> \o ListOf[after]) = Whole(f)
  <2>1. ~t.fail /\ heap[ret].text = Value(t.child)
    BY <1>1, <1>6, <1>7, <1>14, <1>19
  <2>2. QED
    BY <1>1, <1>3, <1>6, <1>8, <1>14, <1>2, <2>1, MemberAdded
<1>20. goOn => Underway(f)
  BY <1>10, <1>14, <1>15, <1>19, <1>9 DEF Underway
<1>21. ~goOn => Complete(f)
  <2>1. ASSUME ~goOn, ~f.fail PROVE after = 0
    BY <1>9, <1>14, <2>1
  <2>2. ASSUME ~f.fail, after = 0 PROVE \E J : Joins(f, J) /\ J[Len(f.entries)] = Whole(f)
    <3>1. PICK J : Joins(f, J) /\ J[Len(f.entries)] \o <<>> = Whole(f)
      BY <1>19, <2>2
    <3>2. Len(f.entries) \in 1 .. Len(f.entries)
      BY <1>15
    <3>3. J[Len(f.entries)] \in Seq(Tokens)
      BY <3>1, <3>2 DEF Joins
    <3>4. QED
      BY <3>1, <3>3, TextsJoin
  <2>3. QED
    BY <1>15, <2>1, <2>2 DEF Complete
<1>22. PICK w \in BOOLEAN : w = Waiting(n)'
  BY DEF Waiting
<1>23. Len(stack') = n /\ stack'[n] = f
  BY <1>2, <1>5, <1>12, <1>14 DEF SetTop
<1>24. f.type = "Object" => ~w
  <2>1. ~(n < Len(stack'))
    BY <1>2, <1>5, <1>23
  <2>2. f.type = "Object" => pc' \notin {"print", "printed"}
    BY <1>12, <1>14
  <2>3. QED
    BY <1>22, <2>1, <2>2 DEF Waiting
<1>25. FrameAt(n)'
  <2>1. RendersFrame(f, w)' /\ (Underway(f) => Underway(f)') /\ (Complete(f) => Complete(f)')
    BY <1>13, <1>17, <1>18, <1>24, FrameKept
  <2>2. pc' = "compose" <=> ~goOn
    BY <1>12
  <2>3. QED
    BY <1>20, <1>21, <1>22, <1>23, <2>1, <2>2 DEF FrameAt
<1>26. QED
  BY <1>1, <1>4, <1>5, <1>12, <1>13, <1>14, <1>25, TopChanged

\* The members in brackets are the container's value.
LEMMA ComposedIsValue ==
  ASSUME NEW f \in PrintFrame, Complete(f), ~f.fail, ~IsLeaf(f.item), f.type = heap[f.item].type
  PROVE  Composed(f) = Value(f.item)
<1>1. PICK J : Joins(f, J) /\ J[Len(f.entries)] = Whole(f)
  BY DEF Complete
<1>2. Len(f.entries) \in Nat \ {0}
  <2>1. f.entries \in Seq(Nat) /\ f.entries # <<>>
    BY DEF PrintFrame, Complete
  <2>2. QED
    BY <2>1, EmptySeq
<1>3. Composed(f) = <<Opened(f.type)>> \o Whole(f) \o <<Closing(f.type)>>
  BY <1>1, <1>2, ComposedIs
<1>4. QED
  BY <1>3, ValueIs DEF Of, Whole

\* A container's rendering is its value.
LEMMA RenderEnds ==
  ASSUME IInv, IInv', TreeInv, RenderInv, PrintEnds
  PROVE  RenderInv'
<1>1. /\ pc = "compose" /\ pc \in Printing /\ stack # <<>> /\ stack' = Pop
      /\ cur' = Top.item /\ pc' = "printed"
  BY DEF PrintEnds, Printing, IInv, PrintInv
<1>2. /\ stack \in Seq(PrintFrame) /\ Len(stack) \in Nat
      /\ \A m \in 1 .. Len(stack) : FrameInv(stack[m]) /\ FrameAt(m)
      /\ \A m \in 1 .. Len(stack) - 1 : stack[m].child = stack[m + 1].item
      /\ Len(stack) \in 1 .. Len(stack) /\ Top = stack[Len(stack)]
  BY <1>1, WhileRendering
<1>3. PICK t \in PrintFrame : t = Top
  BY <1>2
<1>4. FrameInv(t) /\ ~IsLeaf(t.item) /\ t.type = heap[t.item].type /\ Complete(t)
  BY <1>1, <1>2, <1>3 DEF FrameAt, RendersFrame
<1>5. PICK i \in ItemIds : i = t.item
  BY <1>4 DEF FrameInv
<1>6. /\ Len(stack') = Len(stack) - 1
      /\ \A m \in 1 .. Len(stack') : /\ stack'[m] = stack[m]
                                     /\ m \in 1 .. Len(stack) /\ m \in 1 .. Len(stack) - 1 /\ m < Len(stack)
  BY <1>1, <1>2, Popped
<1>7. PrintStays /\ IF ret' = 0 THEN oom' ELSE heap'[ret'].text = Value(i)
  <2>1. CASE ret' = 0 /\ oom' /\ heap' = heap
    BY <1>1, <2>1, StaysIfSame
  <2>2. CASE ~(ret' = 0 /\ oom' /\ heap' = heap)
    <3>1. PICK rendering : rendering = Composed(t)
      OBVIOUS
    <3>2. ~t.fail /\ heap' = Append(heap, Chars(rendering)) /\ ret' = New /\ oom' = oom
      BY <1>3, <2>2, <3>1 DEF PrintEnds
    <3>3. PrintStays /\ heap'[ret'].text = rendering
      BY <1>1, <3>2, StaysWithText
    <3>4. rendering = Value(i)
      BY <1>4, <1>5, <3>1, <3>2, ComposedIsValue
    <3>5. New # 0
      BY <1>1, WhilePrinting
    <3>6. QED
      BY <3>2, <3>3, <3>4, <3>5
  <2>3. QED
    BY <2>1, <2>2
<1>8. ASSUME NEW m \in 1 .. Len(stack') PROVE FrameAt(m)'
  <2>1. Waiting(m)' = TRUE /\ Waiting(m) = TRUE
    BY <1>1, <1>6 DEF Waiting
  <2>2. (m = Len(stack) /\ pc = "compose") = (m = Len(stack') /\ pc' = "compose")
    BY <1>1, <1>2, <1>6
  <2>3. QED
    BY <1>1, <1>2, <1>6, <1>7, <2>1, <2>2, FrameStays
<1>9. \A m \in 1 .. Len(stack') - 1 : stack'[m].child = stack'[m + 1].item
  <2>1. ASSUME NEW m \in 1 .. Len(stack') - 1 PROVE stack'[m].child = stack'[m + 1].item
    <3>1. m \in 1 .. Len(stack') /\ m + 1 \in 1 .. Len(stack') /\ m \in 1 .. Len(stack) - 1
      BY <1>2, <1>6
    <3>2. QED
      BY <1>2, <1>6, <3>1
  <2>2. QED
    BY <2>1
<1>10. stack' # <<>> => cur' = Top'.child
  <2>1. ASSUME stack' # <<>> PROVE cur' = Top'.child
    <3>1. Len(stack') \in 1 .. Len(stack') /\ Len(stack') + 1 = Len(stack)
      <4>1. stack' \in Seq(PrintFrame) /\ Len(stack') \in Nat
        BY <1>1, <1>2, Popped
      <4>2. QED
        BY <1>2, <1>6, <2>1, <4>1, EmptySeq
    <3>2. Top' = stack[Len(stack) - 1]
      BY <1>2, <1>6, <3>1 DEF Top
    <3>3. Len(stack) - 1 \in 1 .. Len(stack) - 1 /\ (Len(stack) - 1) + 1 = Len(stack)
      BY <1>2, <3>1
    <3>4. QED
      BY <1>1, <1>2, <3>2, <3>3
  <2>2. QED
    BY <2>1
<1>11. cur' = i /\ i # 0 /\ Value(i)' = Value(i)
  <2>1. Value(i)' = Value(i)
    BY <1>1, <1>7, ListKept DEF PrintStays
  <2>2. QED
    BY <1>1, <1>3, <1>5, <2>1, WhilePrinting
<1>12. (pc = "printed" => IF ret = 0 THEN cur = 0 \/ oom ELSE cur # 0 /\ heap[ret].text = Value(cur))'
  <2>1. heap'[ret'].text = Value(i) => heap'[ret'].text = Value(cur)'
    BY <1>11
  <2>2. QED
    BY <1>7, <1>11, <2>1
<1>13. QED
  BY <1>8, <1>9, <1>10, <1>12 DEF RenderInv

\* What the printer does leaves the tree alone.
LEMMA PrinterStays ==
  ASSUME IInv, IInv', TreeInv,
         PrintNothing \/ PrintLeaf \/ PrintContainer \/ PrintName \/ PrintNext \/ PrintEnds
  PROVE  PrintStays /\ pc' \in Printing
<1>1. pc \in Printing /\ (oom => oom') /\ pc' \in Printing
  <2>1. CASE PrintNothing
    BY <2>1 DEF PrintNothing, ReturnNull, Printing
  <2>2. ASSUME ReturnNull(TRUE) PROVE oom'
    BY <2>2 DEF ReturnNull
  <2>3. ASSUME NEW t, ReturnNew(t) PROVE oom' = oom
    BY <2>3 DEF ReturnNew
  <2>4. CASE PrintLeaf
    <3>1. pc \in Printing /\ pc' \in Printing
      BY <2>4 DEF PrintLeaf, ReturnNull, ReturnNew, Printing
    <3>2. QED
      BY <2>2, <2>3, <2>4, <3>1 DEF PrintLeaf
  <2>5. CASE PrintContainer
    <3>1. pc \in Printing /\ pc' \in Printing
      BY <2>5 DEF PrintContainer, ReturnNull, Printing
    <3>2. CASE ReturnNull(TRUE)
      BY <2>2, <3>1, <3>2
    <3>3. CASE ~ReturnNull(TRUE)
      <4>1. oom' = oom
        BY <2>5, <3>3 DEF PrintContainer
      <4>2. oom => oom'
        BY <4>1
      <4>3. QED
        BY <3>1, <4>2
    <3>4. QED
      BY <3>2, <3>3
  <2>6. CASE PrintName \/ PrintEnds
    BY <2>6 DEF PrintName, PrintEnds, Printing
  <2>7. CASE PrintNext
    BY <2>7 DEF PrintNext, Printing
  <2>8. QED
    BY <2>1, <2>4, <2>5, <2>6, <2>7
<1>2. CASE heap' = heap
  BY <1>1, <1>2, StaysIfSame
<1>3. CASE \E t : heap' = Append(heap, Chars(t))
  BY <1>1, <1>3, StaysWithText
<1>4. CASE \E n \in Nat : heap' = heap \o [k \in 1 .. n |-> Pointers]
  BY <1>1, <1>4, StaysWithArrays
<1>5. \/ heap' = heap
      \/ \E t : heap' = Append(heap, Chars(t))
      \/ \E n \in Nat : heap' = heap \o [k \in 1 .. n |-> Pointers]
  <2>1. CASE PrintNothing \/ PrintNext
    BY <2>1 DEF PrintNothing, PrintNext, ReturnNull
  <2>2. CASE PrintLeaf
    BY <2>2 DEF PrintLeaf, ReturnNull, ReturnNew
  <2>3. CASE PrintContainer
    BY <2>3 DEF PrintContainer, ReturnNull
  <2>4. CASE PrintName
    BY <2>4 DEF PrintName
  <2>5. CASE PrintEnds
    BY <2>5 DEF PrintEnds
  <2>6. QED
    BY <2>1, <2>2, <2>3, <2>4, <2>5
<1>6. QED
  BY <1>1, <1>2, <1>3, <1>4, <1>5

\* There is nothing to say of the tree at first.
LEMMA RenderInit == Init => TreeInv /\ RenderInv
BY DEF Init, TreeInv, RenderInv, Reading, Printing

\* Every step keeps what the tree says and what is rendered of it.
LEMMA TreeNext == IInv /\ IInv' /\ TreeInv /\ RenderInv /\ [Next]_vars => TreeInv' /\ RenderInv'
<1> SUFFICES ASSUME IInv, IInv', TreeInv, RenderInv, [Next]_vars PROVE TreeInv' /\ RenderInv'
  OBVIOUS
<1>1. CASE ParseNoMemory \/ Malformed \/ ScanPastEnd \/ Release
  <2>1. pc' \notin Reading \cup Printing
    BY <1>1 DEF ParseNoMemory, Malformed, ScanPastEnd, Release, GiveUp, Reading, Printing
  <2>2. QED
    BY <2>1 DEF TreeInv, RenderInv
<1>2. ASSUME Parse \/ ParseScalar \/ ParseString \/ ParseEmpty \/ ParseContainer \/ ParseName
              \/ ParseColon \/ NextChild \/ EndContainer \/ Parsed
      PROVE  RenderInv'
  <2>1. pc' \notin Printing
    BY <1>2 DEF Parse, ParseScalar, ParseString, ParseEmpty, ParseContainer, ParseName,
       ParseColon, NextChild, EndContainer, Parsed, Descend, Printing
  <2>2. QED
    BY <2>1 DEF RenderInv
<1>3. CASE Parse \/ ParseScalar \/ ParseString \/ ParseEmpty \/ ParseContainer \/ ParseName \/ NextChild
  BY <1>2, <1>3, FirstFits, ScalarFits, StringFits, EmptyFits, ContainerFits, NameFits, NextFitsStep
<1>4. CASE ParseColon \/ EndContainer \/ Parsed
  <2>1. /\ pc \in Reading /\ pc # "name" /\ heap' = heap /\ cur' = cur
        /\ pc' \in {"value", "after", "parsed"}
        /\ (pc = "colon" => pc' = "value") /\ (pc = "value" => pc' = "value")
    BY <1>4 DEF ParseColon, EndContainer, Parsed, Reading
  <2>2. Len(stack') <= Len(stack) /\ \A m \in 1 .. Len(stack') : stack'[m] = stack[m]
    <3>1. stack \in Seq(ParseFrame) /\ Len(stack) \in Nat
      <4>1. pc \in Parsing
        BY <2>1 DEF Reading, Parsing
      <4>2. QED
        BY <4>1, WhileParsing
    <3>2. CASE stack' = stack
      BY <3>1, <3>2
    <3>3. CASE stack' = Pop /\ stack # <<>>
      <4>1. Len(stack') = Len(stack) - 1 /\ \A m \in 1 .. Len(stack') : stack'[m] = stack[m]
        BY <3>1, <3>3, Popped
      <4>2. QED
        BY <3>1, <4>1
    <3>4. QED
      BY <1>4, <3>2, <3>3 DEF ParseColon, EndContainer, Parsed, Read
  <2>3. TreeInv'
    BY <2>1, <2>2, ReadingOn
  <2>4. QED
    BY <1>2, <1>4, <2>3
<1>5. CASE PrintItem
  <2>1. pc \in Printing \cup {"parsed"} /\ pc' \in Printing /\ heap' = heap
    BY <1>5 DEF PrintItem, Printing
  <2>2. ItemIds' = ItemIds
    BY <2>1 DEF ItemIds, Ids, IsItem
  <2>3. QED
    BY <1>5, <2>1, <2>2, PrintKeepsTree, RenderItem
<1>6. CASE PrintNothing \/ PrintLeaf \/ PrintContainer \/ PrintName \/ PrintNext \/ PrintEnds
  <2>1. TreeInv'
    <3>1. PrintStays /\ pc' \in Printing
      BY <1>6, PrinterStays
    <3>2. QED
      BY <3>1, PrintKeepsTree DEF PrintStays
  <2>2. RenderInv'
    BY <1>6, RenderNothing, RenderLeaf, RenderContainer, RenderName, RenderNext, RenderEnds
  <2>3. QED
    BY <2>1, <2>2
<1>7. CASE UNCHANGED vars
  <2>1. TreeInv'
    BY <1>7 DEF vars, TreeInv, TreeItem, ItemIds, Ids, IsItem, Labelled, Unread, LeadsToText, IsRead,
       ChildFits, NextFits
  <2>2. RenderInv'
    <3>1. CASE pc \in Printing
      <4>1. PrintStays
        BY <1>7, <3>1, StaysIfSame DEF vars
      <4>2. \A m \in 1 .. Len(stack) : FrameInv(stack[m]) /\ FrameAt(m)
        BY <3>1, WhileRendering
      <4>3. ASSUME NEW m \in 1 .. Len(stack) PROVE FrameAt(m)'
        <5>1. Waiting(m)' = Waiting(m) /\ stack'[m] = stack[m] /\ stack' = stack /\ pc' = pc
          BY <1>7 DEF vars, Waiting
        <5>2. QED
          BY <4>1, <4>2, <5>1, FrameStays
      <4>4. cur \in ItemIds => Value(cur)' = Value(cur)
        <5>1. ASSUME NEW i \in ItemIds, i = cur PROVE Value(i)' = Value(i)
          BY <3>1, <4>1, ListKept DEF PrintStays
        <5>2. QED
          BY <1>7, <5>1 DEF vars
      <4>5. pc = "printed" /\ ret # 0 => cur \in ItemIds
        BY <3>1 DEF RenderInv, IInv, HeapInv
      <4>6. Top' = Top
        BY <1>7 DEF vars, Top
      <4>7. QED
        BY <1>7, <4>3, <4>4, <4>5, <4>6 DEF vars, RenderInv
    <3>2. CASE pc \notin Printing
      BY <1>7, <3>2 DEF vars, RenderInv
    <3>3. QED
      BY <3>1, <3>2
  <2>3. QED
    BY <2>1, <2>2
<1>8. QED
  BY <1>1, <1>3, <1>4, <1>5, <1>6, <1>7 DEF Next, Ended

-----------------------------------------------------------------------------
(* The grammar.                                                            *)

PhrasesOf(g, n) == [docs |-> DocsOf(g, n), elems |-> ElemsOf(g, n),
                    pairs |-> PairsOf(g, n), members |-> MembersOf(g, n)]
Lengths == 0 .. MaxLen

LEMMA GrammarIs == Grammar = CHOOSE g : g = [n \in 0 .. MaxLen |-> PhrasesOf(g, n)]
BY DEF Grammar, PhrasesOf

\* A phrase is made of shorter ones.
LEMMA PhrasesLocal ==
  ASSUME NEW n \in Lengths, NEW f, NEW g, \A k \in Lengths : k < n => f[k] = g[k]
  PROVE  PhrasesOf(f, n) = PhrasesOf(g, n)
<1>1. MaxLen \in Nat /\ n \in Nat
  BY TextsAssumption DEF Lengths
<1>2. n \notin {0, 1} => f[n - 2] = g[n - 2]
  BY <1>1 DEF Lengths
<1>3. ASSUME NEW k \in 1 .. n - 2 PROVE f[k] = g[k] /\ f[n - 1 - k] = g[n - 1 - k]
  BY <1>1 DEF Lengths
<1>4. DocsOf(f, n) = DocsOf(g, n)
  BY <1>2 DEF DocsOf
<1>5. PairsOf(f, n) = PairsOf(g, n)
  <2>1. CASE n < 3
    BY <2>1 DEF PairsOf
  <2>2. CASE ~(n < 3)
    <3>1. f[n - 2] = g[n - 2]
      BY <1>1, <1>2, <2>2
    <3>2. QED
      BY <2>2, <3>1, Zenon DEF PairsOf
  <2>3. QED
    BY <2>1, <2>2
<1>6. /\ {Joined(f[k].docs, f[n - 1 - k].elems) : k \in 1 .. n - 2}
         = {Joined(g[k].docs, g[n - 1 - k].elems) : k \in 1 .. n - 2}
      /\ {Joined(f[k].pairs, f[n - 1 - k].members) : k \in 1 .. n - 2}
         = {Joined(g[k].pairs, g[n - 1 - k].members) : k \in 1 .. n - 2}
  BY <1>3, Zenon
<1>7. ElemsOf(f, n) = ElemsOf(g, n)
  BY <1>4, <1>6, Zenon DEF ElemsOf
<1>8. MembersOf(f, n) = MembersOf(g, n)
  BY <1>5, <1>6, Zenon DEF MembersOf
<1>9. QED
  BY <1>4, <1>5, <1>7, <1>8 DEF PhrasesOf

\* The phrases of each length exist.
LEMMA GrammarExists == \E g : g = [n \in 0 .. MaxLen |-> PhrasesOf(g, n)]
<1> DEFINE Good(n, f) == \A k \in Lengths : k < n => f[k] = PhrasesOf(f, k)
           S == {n \in 0 .. MaxLen + 1 : \E f : f = [k \in Lengths |-> f[k]] /\ Good(n, f)}
<1>1. MaxLen \in Nat /\ MaxLen + 1 \in Nat
  BY TextsAssumption
<1>2. 0 \in S
  <2> DEFINE f == [k \in Lengths |-> {}]
  <2>1. f = [k \in Lengths |-> f[k]]
    OBVIOUS
  <2>2. Good(0, f)
    BY <1>1 DEF Lengths
  <2>3. QED
    BY <1>1, <2>1, <2>2
<1>3. PICK n \in S : \A y \in S : y <= n
  <2>1. S \in SUBSET (0 .. MaxLen + 1)
    OBVIOUS
  <2>2. QED
    BY <1>1, <1>2, <2>1, GreatestNat
<1>4. PICK f : f = [k \in Lengths |-> f[k]] /\ Good(n, f)
  BY <1>3
<1>5. n = MaxLen + 1
  <2> SUFFICES ASSUME n # MaxLen + 1 PROVE FALSE
    OBVIOUS
  <2>1. n \in Lengths /\ n + 1 \in 0 .. MaxLen + 1 /\ n \in Nat /\ ~(n + 1 <= n)
        /\ \A k \in Lengths : k < n + 1 => k < n \/ k = n
    BY <1>1, <1>3 DEF Lengths
  <2> DEFINE g == [f EXCEPT ![n] = PhrasesOf(f, n)]
  <2>2. /\ g = [k \in Lengths |-> g[k]]
        /\ \A k \in Lengths : g[k] = IF k = n THEN PhrasesOf(f, n) ELSE f[k]
    BY <1>4, <2>1
  <2> HIDE DEF g
  <2>3. ASSUME NEW k \in Lengths, k < n \/ k = n PROVE PhrasesOf(g, k) = PhrasesOf(f, k)
    <3>1. \A j \in Lengths : j < k => g[j] = f[j]
      BY <1>1, <2>1, <2>2, <2>3 DEF Lengths
    <3>2. QED
      BY <3>1, PhrasesLocal
  <2>4. Good(n + 1, g)
    BY <1>1, <1>4, <2>1, <2>2, <2>3
  <2>5. n + 1 \in S
    BY <2>1, <2>2, <2>4
  <2>6. QED
    BY <1>3, <2>1, <2>5
<1>6. f = [k \in 0 .. MaxLen |-> PhrasesOf(f, k)]
  <2>1. \A k \in Lengths : f[k] = PhrasesOf(f, k)
    BY <1>1, <1>4, <1>5 DEF Lengths
  <2>2. QED
    BY <1>4, <2>1 DEF Lengths
<1>7. QED
  BY <1>6

LEMMA GrammarStep ==
  ASSUME NEW n \in Lengths
  PROVE  /\ Grammar[n].docs = DocsOf(Grammar, n) /\ Grammar[n].elems = ElemsOf(Grammar, n)
         /\ Grammar[n].pairs = PairsOf(Grammar, n) /\ Grammar[n].members = MembersOf(Grammar, n)
<1>1. Grammar = [k \in 0 .. MaxLen |-> PhrasesOf(Grammar, k)]
  BY GrammarIs, GrammarExists
<1>2. Grammar[n] = PhrasesOf(Grammar, n)
  BY <1>1 DEF Lengths
<1>3. QED
  BY <1>2 DEF PhrasesOf

\* Lengths of texts that are put together.
LEMMA LensJoin ==
  /\ \A s, t \in Seq(Tokens) : s \o t \in Seq(Tokens) /\ Len(s \o t) = Len(s) + Len(t)
  /\ \A x \in Tokens : <<x>> \in Seq(Tokens) /\ Len(<<x>>) = 1
  /\ \A x, y \in Tokens : <<x, y>> \in Seq(Tokens) /\ Len(<<x, y>>) = 2
  /\ \A s \in Seq(Tokens) : Len(s) \in Nat
BY TextsJoin, ConcatProperties

LEMMA TokensAre ==
  /\ "[" \in Tokens /\ "]" \in Tokens /\ "{" \in Tokens /\ "}" \in Tokens /\ "," \in Tokens /\ ":" \in Tokens
  /\ Scalars \subseteq Tokens /\ Strings \subseteq Tokens
BY DEF Tokens

LEMMA TwoTokens == \A x, y \in Tokens : <<x>> \o <<y>> = <<x, y>>
<1>1. ASSUME NEW x \in Tokens, NEW y \in Tokens PROVE <<x>> \o <<y>> = <<x, y>>
  <2>1. PICK s \in Seq(Tokens) : s = <<x>> \o <<y>>
    BY LensJoin
  <2>2. PICK t \in Seq(Tokens) : t = <<x, y>>
    BY LensJoin
  <2>3. Len(s) = 2 /\ s[1] = x /\ s[2] = y
    BY <2>1
  <2>4. Len(t) = 2 /\ t[1] = x /\ t[2] = y
    BY <2>2
  <2>5. s = t
    BY <2>3, <2>4, SeqEqual
  <2>6. QED
    BY <2>1, <2>2, <2>5
<1>2. QED
  BY <1>1

LEMMA LensOf ==
  /\ \A s \in Seq(Tokens) : \A x, y \in Tokens :
       <<x>> \o s \o <<y>> \in Seq(Tokens) /\ Len(<<x>> \o s \o <<y>>) = Len(s) + 2
  /\ \A s, t \in Seq(Tokens) : \A x \in Tokens :
       s \o <<x>> \o t \in Seq(Tokens) /\ Len(s \o <<x>> \o t) = Len(s) + Len(t) + 1
  /\ \A s \in Seq(Tokens) : \A x, y \in Tokens :
       <<x, y>> \o s \in Seq(Tokens) /\ Len(<<x, y>> \o s) = Len(s) + 2
<1>1. ASSUME NEW s \in Seq(Tokens), NEW t \in Seq(Tokens), NEW x \in Tokens, NEW y \in Tokens
      PROVE  /\ <<x>> \o s \o <<y>> \in Seq(Tokens) /\ Len(<<x>> \o s \o <<y>>) = Len(s) + 2
             /\ s \o <<x>> \o t \in Seq(Tokens) /\ Len(s \o <<x>> \o t) = Len(s) + Len(t) + 1
             /\ <<x, y>> \o s \in Seq(Tokens) /\ Len(<<x, y>> \o s) = Len(s) + 2
  <2>1. Len(s) \in Nat /\ Len(t) \in Nat
    BY LensJoin
  <2>2. PICK a \in Seq(Tokens) : a = <<x>> \o s /\ Len(a) = 1 + Len(s)
    BY LensJoin
  <2>3. a \o <<y>> \in Seq(Tokens) /\ Len(a \o <<y>>) = Len(a) + 1
    BY LensJoin
  <2>4. PICK b \in Seq(Tokens) : b = s \o <<x>> /\ Len(b) = Len(s) + 1
    BY LensJoin
  <2>5. b \o t \in Seq(Tokens) /\ Len(b \o t) = Len(b) + Len(t)
    BY LensJoin
  <2>6. <<x, y>> \o s \in Seq(Tokens) /\ Len(<<x, y>> \o s) = 2 + Len(s)
    BY LensJoin
  <2>7. QED
    BY <2>1, <2>2, <2>3, <2>4, <2>5, <2>6
<1>2. <<>> \in Seq(Tokens)
  BY TextsJoin
<1>3. ASSUME NEW s \in Seq(Tokens), NEW x \in Tokens, NEW y \in Tokens
      PROVE  /\ <<x>> \o s \o <<y>> \in Seq(Tokens) /\ Len(<<x>> \o s \o <<y>>) = Len(s) + 2
             /\ <<x, y>> \o s \in Seq(Tokens) /\ Len(<<x, y>> \o s) = Len(s) + 2
  BY <1>1, <1>2
<1>4. ASSUME NEW s \in Seq(Tokens), NEW t \in Seq(Tokens), NEW x \in Tokens
      PROVE  s \o <<x>> \o t \in Seq(Tokens) /\ Len(s \o <<x>> \o t) = Len(s) + Len(t) + 1
  BY <1>1
<1>5. QED
  BY <1>3, <1>4, Zenon

\* Every phrase of n tokens has n tokens.
Sized(n) ==
  \A t \in Grammar[n].docs \cup Grammar[n].elems \cup Grammar[n].pairs \cup Grammar[n].members :
    t \in Seq(Tokens) /\ Len(t) = n /\ n >= 1

LEMMA SizedStep ==
  ASSUME NEW n \in Lengths, \A k \in Lengths : k < n => Sized(k)
  PROVE  Sized(n)
<1>1. MaxLen \in Nat /\ n \in Nat
  BY TextsAssumption DEF Lengths
<1>2. n \notin {0, 1} => n - 2 \in Lengths /\ Sized(n - 2)
  BY <1>1 DEF Lengths
<1>3. ASSUME NEW t \in DocsOf(Grammar, n) PROVE t \in Seq(Tokens) /\ Len(t) = n /\ n >= 1
  <2>1. CASE n = 0
    BY <1>3, <2>1 DEF DocsOf
  <2>2. CASE n = 1
    <3>1. PICK v \in Scalars \cup Strings : t = <<v>>
      BY <1>3, <2>2 DEF DocsOf, Plain
    <3>2. v \in Tokens
      BY TokensAre
    <3>3. QED
      BY <2>2, <3>1, <3>2, LensJoin
  <2>3. CASE n = 2
    <3>1. t \in Empty
      BY <1>3, <2>3 DEF DocsOf
    <3>2. t = <<"[", "]">> \/ t = <<"{", "}">>
      BY <3>1 DEF Empty
    <3>3. t \in Seq(Tokens) /\ Len(t) = 2
      BY <3>2, TokensAre, LensJoin
    <3>4. QED
      BY <2>3, <3>3
  <2>4. CASE n \notin {0, 1, 2}
    <3>1. PICK m \in Lengths : m = n - 2 /\ Sized(m)
      BY <1>2, <2>4
    <3>2. t \in Enclosed(Grammar[m])
      BY <1>3, <2>4, <3>1 DEF DocsOf
    <3>3. PICK e \in Grammar[m].elems \cup Grammar[m].members :
            t = <<"[">> \o e \o <<"]">> \/ t = <<"{">> \o e \o <<"}">>
      BY <3>2 DEF Enclosed
    <3>4. e \in Seq(Tokens) /\ Len(e) = m
      BY <3>1, <3>3 DEF Sized
    <3>5. t \in Seq(Tokens) /\ Len(t) = Len(e) + 2
      <4>1. /\ <<"[">> \o e \o <<"]">> \in Seq(Tokens) /\ Len(<<"[">> \o e \o <<"]">>) = Len(e) + 2
            /\ <<"{">> \o e \o <<"}">> \in Seq(Tokens) /\ Len(<<"{">> \o e \o <<"}">>) = Len(e) + 2
        BY <3>4, TokensAre, LensOf
      <4>2. QED
        BY <3>3, <4>1
    <3>6. QED
      BY <1>1, <2>4, <3>1, <3>4, <3>5
  <2>5. QED
    BY <2>1, <2>2, <2>3, <2>4
<1>4. ASSUME NEW t \in PairsOf(Grammar, n) PROVE t \in Seq(Tokens) /\ Len(t) = n /\ n >= 1
  <2>1. ~(n < 3)
    BY <1>4 DEF PairsOf
  <2>2. PICK m \in Lengths : m = n - 2 /\ Sized(m)
    BY <1>1, <1>2, <2>1
  <2>3. PICK s \in Strings, d \in Grammar[m].docs : t = <<s, ":">> \o d
    <3>1. t \in {<<p[1], ":">> \o p[2] : p \in Strings \X Grammar[m].docs}
      BY <1>4, <2>1, <2>2 DEF PairsOf
    <3>2. QED
      BY <3>1
  <2>4. d \in Seq(Tokens) /\ Len(d) = m
    BY <2>2, <2>3 DEF Sized
  <2>5. s \in Tokens /\ ":" \in Tokens
    BY TokensAre
  <2>6. t \in Seq(Tokens) /\ Len(t) = Len(d) + 2
    BY <2>3, <2>4, <2>5, LensOf
  <2>7. QED
    BY <1>1, <2>1, <2>2, <2>4, <2>6
<1>5. ASSUME NEW k \in 1 .. n - 2, NEW h \in Grammar[k].docs \cup Grammar[k].pairs,
             NEW u \in Grammar[n - 1 - k].elems \cup Grammar[n - 1 - k].members
      PROVE  h \o <<",">> \o u \in Seq(Tokens) /\ Len(h \o <<",">> \o u) = n /\ n >= 1
  <2>1. k \in Lengths /\ k < n /\ n - 1 - k \in Lengths /\ n - 1 - k < n
    BY <1>1 DEF Lengths
  <2>2. PICK m \in Lengths : m = n - 1 - k /\ Sized(m) /\ Sized(k)
    BY <2>1
  <2>3. h \in Seq(Tokens) /\ Len(h) = k /\ u \in Seq(Tokens) /\ Len(u) = m
    BY <2>2 DEF Sized
  <2>4. "," \in Tokens
    BY TokensAre
  <2>5. PICK t : t = h \o <<",">> \o u
    OBVIOUS
  <2>6. t \in Seq(Tokens) /\ Len(t) = Len(h) + Len(u) + 1
    BY <2>3, <2>4, <2>5, LensOf
  <2>7. t \in Seq(Tokens) /\ Len(t) = n /\ n >= 1
    BY <1>1, <2>1, <2>2, <2>3, <2>6
  <2>8. QED
    BY <2>5, <2>7
<1>6. ASSUME NEW t \in ElemsOf(Grammar, n) PROVE t \in Seq(Tokens) /\ Len(t) = n /\ n >= 1
  <2>1. CASE t \in DocsOf(Grammar, n)
    BY <1>3, <2>1
  <2>2. CASE \E k \in 1 .. n - 2 : t \in Joined(Grammar[k].docs, Grammar[n - 1 - k].elems)
    <3>1. PICK k \in 1 .. n - 2 : t \in Joined(Grammar[k].docs, Grammar[n - 1 - k].elems)
      BY <2>2
    <3>2. PICK h \in Grammar[k].docs, u \in Grammar[n - 1 - k].elems : t = h \o <<",">> \o u
      BY <3>1 DEF Joined
    <3>3. QED
      BY <1>5, <3>2
  <2>3. QED
    BY <1>6, <2>1, <2>2 DEF ElemsOf
<1>7. ASSUME NEW t \in MembersOf(Grammar, n) PROVE t \in Seq(Tokens) /\ Len(t) = n /\ n >= 1
  <2>1. CASE t \in PairsOf(Grammar, n)
    BY <1>4, <2>1
  <2>2. CASE \E k \in 1 .. n - 2 : t \in Joined(Grammar[k].pairs, Grammar[n - 1 - k].members)
    <3>1. PICK k \in 1 .. n - 2 : t \in Joined(Grammar[k].pairs, Grammar[n - 1 - k].members)
      BY <2>2
    <3>2. PICK h \in Grammar[k].pairs, u \in Grammar[n - 1 - k].members : t = h \o <<",">> \o u
      BY <3>1 DEF Joined
    <3>3. QED
      BY <1>5, <3>2
  <2>3. QED
    BY <1>7, <2>1, <2>2 DEF MembersOf
<1>8. QED
  BY <1>3, <1>4, <1>6, <1>7, GrammarStep DEF Sized

LEMMA AllSized == ASSUME NEW n \in Lengths PROVE Sized(n)
<1> DEFINE bad == {k \in Lengths : ~Sized(k)}
<1>1. MaxLen \in Nat /\ Lengths \subseteq Nat
  BY TextsAssumption DEF Lengths
<1>2. ASSUME bad # {} PROVE FALSE
  <2>1. PICK k \in bad : \A y \in bad : k <= y
    <3>1. bad \in SUBSET Nat
      BY <1>1
    <3>2. QED
      BY <1>2, <3>1, LeastNat
  <2>2. k \in Lengths /\ \A j \in Lengths : j < k => Sized(j)
    BY <1>1, <2>1
  <2>3. QED
    BY <2>1, <2>2, SizedStep
<1>3. QED
  BY <1>2

\* The phrases of any length.
Elems == UNION {Grammar[n].elems : n \in Lengths}
Pairs == UNION {Grammar[n].pairs : n \in Lengths}
Members == UNION {Grammar[n].members : n \in Lengths}

LEMMA PhrasesAre ==
  /\ \A t \in Documents : Len(t) \in Lengths /\ t \in DocsOf(Grammar, Len(t)) /\ t \in Grammar[Len(t)].docs
  /\ \A t \in Elems : Len(t) \in Lengths /\ t \in ElemsOf(Grammar, Len(t)) /\ t \in Grammar[Len(t)].elems
  /\ \A t \in Pairs : Len(t) \in Lengths /\ t \in PairsOf(Grammar, Len(t)) /\ t \in Grammar[Len(t)].pairs
  /\ \A t \in Members : Len(t) \in Lengths /\ t \in MembersOf(Grammar, Len(t)) /\ t \in Grammar[Len(t)].members
  /\ \A t \in Documents \cup Elems \cup Pairs \cup Members : t \in Seq(Tokens) /\ Len(t) \in Nat /\ Len(t) >= 1
<1>1. ASSUME NEW n \in Lengths, NEW t,
             t \in Grammar[n].docs \cup Grammar[n].elems \cup Grammar[n].pairs \cup Grammar[n].members
      PROVE  t \in Seq(Tokens) /\ Len(t) = n /\ n >= 1 /\ n \in Nat
  <2>1. n \in Nat
    BY TextsAssumption DEF Lengths
  <2>2. QED
    BY <1>1, <2>1, AllSized DEF Sized
<1>2. ASSUME NEW t \in Documents
      PROVE  \E n \in Lengths : t \in Grammar[n].docs
  BY <1>2 DEF Documents, Lengths
<1>3. ASSUME NEW t \in Elems
      PROVE  \E n \in Lengths : t \in Grammar[n].elems
  BY <1>3 DEF Elems
<1>4. ASSUME NEW t \in Pairs
      PROVE  \E n \in Lengths : t \in Grammar[n].pairs
  BY <1>4 DEF Pairs
<1>5. ASSUME NEW t \in Members
      PROVE  \E n \in Lengths : t \in Grammar[n].members
  BY <1>5 DEF Members
<1>6. \A t \in Documents : /\ Len(t) \in Lengths /\ t \in DocsOf(Grammar, Len(t)) /\ t \in Grammar[Len(t)].docs
                           /\ t \in Seq(Tokens) /\ Len(t) \in Nat /\ Len(t) >= 1
  BY <1>1, <1>2, GrammarStep
<1>7. \A t \in Elems : /\ Len(t) \in Lengths /\ t \in ElemsOf(Grammar, Len(t)) /\ t \in Grammar[Len(t)].elems
                       /\ t \in Seq(Tokens) /\ Len(t) \in Nat /\ Len(t) >= 1
  BY <1>1, <1>3, GrammarStep
<1>8. \A t \in Pairs : /\ Len(t) \in Lengths /\ t \in PairsOf(Grammar, Len(t)) /\ t \in Grammar[Len(t)].pairs
                       /\ t \in Seq(Tokens) /\ Len(t) \in Nat /\ Len(t) >= 1
  BY <1>1, <1>4, GrammarStep
<1>9. \A t \in Members : /\ Len(t) \in Lengths /\ t \in MembersOf(Grammar, Len(t)) /\ t \in Grammar[Len(t)].members
                         /\ t \in Seq(Tokens) /\ Len(t) \in Nat /\ Len(t) >= 1
  BY <1>1, <1>5, GrammarStep
<1>10. QED
  BY <1>6, <1>7, <1>8, <1>9

\* A phrase built of shorter ones is a phrase if it is not too long.
LEMMA ValueIsDocument ==
  ASSUME NEW v \in Scalars \cup Strings, 1 <= MaxLen
  PROVE  <<v>> \in Documents
<1>1. 1 \in Lengths
  BY TextsAssumption DEF Lengths
<1>2. PICK n \in Lengths : n = 1
  BY <1>1
<1>3. <<v>> \in DocsOf(Grammar, n)
  BY <1>2 DEF DocsOf, Plain
<1>4. QED
  BY <1>2, <1>3, GrammarStep DEF Documents, Lengths

LEMMA EmptyIsDocument ==
  ASSUME NEW t \in Empty, 2 <= MaxLen
  PROVE  t \in Documents
<1>1. 2 \in Lengths
  BY TextsAssumption DEF Lengths
<1>2. PICK n \in Lengths : n = 2
  BY <1>1
<1>3. t \in DocsOf(Grammar, n)
  BY <1>2 DEF DocsOf
<1>4. QED
  BY <1>2, <1>3, GrammarStep DEF Documents, Lengths

LEMMA EnclosedIsDocument ==
  /\ \A e \in Elems : Len(e) + 2 <= MaxLen => <<"[">> \o e \o <<"]">> \in Documents
  /\ \A e \in Members : Len(e) + 2 <= MaxLen => <<"{">> \o e \o <<"}">> \in Documents
<1>1. ASSUME NEW e \in Elems \cup Members, Len(e) + 2 <= MaxLen
      PROVE  /\ e \in Elems => <<"[">> \o e \o <<"]">> \in Documents
             /\ e \in Members => <<"{">> \o e \o <<"}">> \in Documents
  <2>1. Len(e) \in Nat /\ Len(e) >= 1 /\ MaxLen \in Nat
    BY PhrasesAre, TextsAssumption
  <2>2. Len(e) + 2 \in Lengths
    BY <1>1, <2>1 DEF Lengths
  <2>3. PICK n \in Lengths : n = Len(e) + 2
    BY <2>2
  <2>4. n - 2 = Len(e) /\ n \notin {0, 1, 2}
    BY <2>1, <2>3
  <2>5. DocsOf(Grammar, n) = Enclosed(Grammar[Len(e)])
    BY <2>4 DEF DocsOf
  <2>6. e \in Elems => <<"[">> \o e \o <<"]">> \in DocsOf(Grammar, n)
    BY <2>5, PhrasesAre DEF Enclosed
  <2>7. e \in Members => <<"{">> \o e \o <<"}">> \in DocsOf(Grammar, n)
    BY <2>5, PhrasesAre DEF Enclosed
  <2>8. DocsOf(Grammar, n) \subseteq Documents
    BY GrammarStep DEF Documents, Lengths
  <2>9. QED
    BY <2>6, <2>7, <2>8
<1>2. QED
  BY <1>1

LEMMA FirstPhrases == Documents \subseteq Elems /\ Pairs \subseteq Members
<1>1. ASSUME NEW t \in Documents PROVE t \in Elems
  <2>1. PICK n \in Lengths : t \in DocsOf(Grammar, n)
    BY PhrasesAre
  <2>2. t \in ElemsOf(Grammar, n)
    BY <2>1 DEF ElemsOf
  <2>3. QED
    BY <2>2, GrammarStep DEF Elems
<1>2. ASSUME NEW t \in Pairs PROVE t \in Members
  <2>1. PICK n \in Lengths : t \in PairsOf(Grammar, n)
    BY PhrasesAre
  <2>2. t \in MembersOf(Grammar, n)
    BY <2>1 DEF MembersOf
  <2>3. QED
    BY <2>2, GrammarStep DEF Members
<1>3. QED
  BY <1>1, <1>2

LEMMA PairIsPhrase ==
  ASSUME NEW s \in Strings, NEW d \in Documents, Len(d) + 2 <= MaxLen
  PROVE  <<s, ":">> \o d \in Pairs
<1>1. Len(d) \in Nat /\ Len(d) >= 1 /\ MaxLen \in Nat
  BY PhrasesAre, TextsAssumption
<1>2. Len(d) + 2 \in Lengths
  BY <1>1 DEF Lengths
<1>3. PICK n \in Lengths : n = Len(d) + 2
  BY <1>2
<1>4. n - 2 = Len(d) /\ ~(n < 3)
  BY <1>1, <1>3
<1>5. PairsOf(Grammar, n) = {<<p[1], ":">> \o p[2] : p \in Strings \X Grammar[Len(d)].docs}
  BY <1>4 DEF PairsOf
<1>6. <<s, d>> \in Strings \X Grammar[Len(d)].docs
  BY PhrasesAre
<1>7. <<s, ":">> \o d \in PairsOf(Grammar, n)
  <2>1. PICK p \in Strings \X Grammar[Len(d)].docs : p = <<s, d>>
    BY <1>6
  <2>2. p[1] = s /\ p[2] = d
    BY <2>1
  <2>3. <<p[1], ":">> \o p[2] \in PairsOf(Grammar, n)
    BY <1>5
  <2>4. QED
    BY <2>2, <2>3
<1>8. QED
  BY <1>7, GrammarStep DEF Pairs

LEMMA JoinedIsPhrase ==
  /\ \A d \in Documents, e \in Elems : Len(d) + Len(e) + 1 <= MaxLen => d \o <<",">> \o e \in Elems
  /\ \A d \in Pairs, e \in Members : Len(d) + Len(e) + 1 <= MaxLen => d \o <<",">> \o e \in Members
<1>1. ASSUME NEW d \in Documents \cup Pairs, NEW e \in Elems \cup Members, Len(d) + Len(e) + 1 <= MaxLen
      PROVE  /\ d \in Documents /\ e \in Elems => d \o <<",">> \o e \in Elems
             /\ d \in Pairs /\ e \in Members => d \o <<",">> \o e \in Members
  <2>1. Len(e) \in Nat /\ Len(e) >= 1 /\ Len(d) \in Nat /\ Len(d) >= 1 /\ MaxLen \in Nat
    BY PhrasesAre, TextsAssumption
  <2>2. Len(d) + Len(e) + 1 \in Lengths
    BY <1>1, <2>1 DEF Lengths
  <2>3. PICK n \in Lengths : n = Len(d) + Len(e) + 1
    BY <2>2
  <2>4. PICK k \in 1 .. n - 2 : k = Len(d) /\ n - 1 - k = Len(e)
    BY <2>1, <2>3
  <2>5. PICK t : t = d \o <<",">> \o e
    OBVIOUS
  <2>6. t = <<d, e>>[1] \o <<",">> \o <<d, e>>[2]
    BY <2>5
  <2>7. ASSUME d \in Documents, e \in Elems PROVE t \in Elems
    <3>1. d \in Grammar[k].docs /\ e \in Grammar[n - 1 - k].elems
      BY <2>4, <2>7, PhrasesAre
    <3>2. <<d, e>> \in Grammar[k].docs \X Grammar[n - 1 - k].elems
      BY <3>1
    <3>3. t \in Joined(Grammar[k].docs, Grammar[n - 1 - k].elems)
      BY <2>6, <3>2 DEF Joined
    <3>4. t \in ElemsOf(Grammar, n)
      BY <3>3 DEF ElemsOf
    <3>5. QED
      BY <3>4, GrammarStep DEF Elems
  <2>8. ASSUME d \in Pairs, e \in Members PROVE t \in Members
    <3>1. d \in Grammar[k].pairs /\ e \in Grammar[n - 1 - k].members
      BY <2>4, <2>8, PhrasesAre
    <3>2. <<d, e>> \in Grammar[k].pairs \X Grammar[n - 1 - k].members
      BY <3>1
    <3>3. t \in Joined(Grammar[k].pairs, Grammar[n - 1 - k].members)
      BY <2>6, <3>2 DEF Joined
    <3>4. t \in MembersOf(Grammar, n)
      BY <3>3 DEF MembersOf
    <3>5. QED
      BY <3>4, GrammarStep DEF Members
  <2>9. QED
    BY <2>5, <2>7, <2>8
<1>2. QED
  BY <1>1

\* And what a phrase is built of.
LEMMA DocumentForms ==
  ASSUME NEW t \in Documents
  PROVE  \/ \E v \in Scalars \cup Strings : t = <<v>>
         \/ t \in Empty
         \/ \E e \in Elems : t = <<"[">> \o e \o <<"]">>
         \/ \E e \in Members : t = <<"{">> \o e \o <<"}">>
<1>1. PICK n \in Lengths : t \in DocsOf(Grammar, n)
  BY PhrasesAre
<1>2. MaxLen \in Nat /\ n \in Nat
  BY TextsAssumption DEF Lengths
<1>3. CASE n = 0
  BY <1>1, <1>3 DEF DocsOf
<1>4. CASE n = 1
  BY <1>1, <1>4 DEF DocsOf, Plain
<1>5. CASE n = 2
  <2>1. t \in Empty
    BY <1>1, <1>5 DEF DocsOf
  <2>2. QED
    BY <2>1, Zenon
<1>6. CASE n \notin {0, 1, 2}
  <2>1. n - 2 \in Lengths
    BY <1>2, <1>6 DEF Lengths
  <2>2. PICK m \in Lengths : m = n - 2
    BY <2>1
  <2>3. t \in Enclosed(Grammar[m])
    BY <1>1, <1>6, <2>2 DEF DocsOf
  <2>4. Grammar[m].elems \subseteq Elems /\ Grammar[m].members \subseteq Members
    BY DEF Elems, Members
  <2>5. QED
    BY <2>3, <2>4 DEF Enclosed
<1>7. QED
  BY <1>3, <1>4, <1>5, <1>6

LEMMA PairForms ==
  ASSUME NEW t \in Pairs
  PROVE  \E s \in Strings, d \in Documents : t = <<s, ":">> \o d
<1>1. PICK n \in Lengths : t \in PairsOf(Grammar, n)
  BY PhrasesAre
<1>2. MaxLen \in Nat /\ n \in Nat
  BY TextsAssumption DEF Lengths
<1>3. ~(n < 3)
  BY <1>1 DEF PairsOf
<1>4. n - 2 \in Lengths
  BY <1>2, <1>3 DEF Lengths
<1>5. PICK m \in Lengths : m = n - 2
  BY <1>4
<1>6. t \in {<<p[1], ":">> \o p[2] : p \in Strings \X Grammar[m].docs}
  BY <1>1, <1>3, <1>5 DEF PairsOf
<1>7. Grammar[m].docs \subseteq Documents
  BY DEF Documents, Lengths
<1>8. PICK p \in Strings \X Grammar[m].docs : t = <<p[1], ":">> \o p[2]
  BY <1>6
<1>9. p[1] \in Strings /\ p[2] \in Documents
  BY <1>7
<1>10. QED
  BY <1>8, <1>9

LEMMA ElemForms ==
  ASSUME NEW t \in Elems
  PROVE  t \in Documents \/ \E d \in Documents, e \in Elems : t = d \o <<",">> \o e
<1>1. PICK n \in Lengths : t \in ElemsOf(Grammar, n)
  BY PhrasesAre
<1>2. MaxLen \in Nat /\ n \in Nat
  BY TextsAssumption DEF Lengths
<1>3. CASE t \in DocsOf(Grammar, n)
  BY <1>3, GrammarStep DEF Documents, Lengths
<1>4. CASE t \in UNION {Joined(Grammar[k].docs, Grammar[n - 1 - k].elems) : k \in 1 .. n - 2}
  <2>1. PICK k \in 1 .. n - 2 : t \in Joined(Grammar[k].docs, Grammar[n - 1 - k].elems)
    BY <1>4
  <2>2. k \in Lengths /\ n - 1 - k \in Lengths
    BY <1>2 DEF Lengths
  <2>3. PICK m \in Lengths : m = n - 1 - k
    BY <2>2
  <2>4. PICK p \in Grammar[k].docs \X Grammar[m].elems : t = p[1] \o <<",">> \o p[2]
    BY <2>1, <2>3 DEF Joined
  <2>5. p[1] \in Documents /\ p[2] \in Elems
    BY <2>2 DEF Documents, Elems, Lengths
  <2>6. QED
    BY <2>4, <2>5
<1>5. QED
  BY <1>1, <1>3, <1>4 DEF ElemsOf

LEMMA MemberForms ==
  ASSUME NEW t \in Members
  PROVE  t \in Pairs \/ \E d \in Pairs, e \in Members : t = d \o <<",">> \o e
<1>1. PICK n \in Lengths : t \in MembersOf(Grammar, n)
  BY PhrasesAre
<1>2. MaxLen \in Nat /\ n \in Nat
  BY TextsAssumption DEF Lengths
<1>3. CASE t \in PairsOf(Grammar, n)
  BY <1>3, GrammarStep DEF Pairs
<1>4. CASE t \in UNION {Joined(Grammar[k].pairs, Grammar[n - 1 - k].members) : k \in 1 .. n - 2}
  <2>1. PICK k \in 1 .. n - 2 : t \in Joined(Grammar[k].pairs, Grammar[n - 1 - k].members)
    BY <1>4
  <2>2. k \in Lengths /\ n - 1 - k \in Lengths
    BY <1>2 DEF Lengths
  <2>3. PICK m \in Lengths : m = n - 1 - k
    BY <2>2
  <2>4. PICK p \in Grammar[k].pairs \X Grammar[m].members : t = p[1] \o <<",">> \o p[2]
    BY <2>1, <2>3 DEF Joined
  <2>5. p[1] \in Pairs /\ p[2] \in Members
    BY <2>2 DEF Pairs, Members
  <2>6. QED
    BY <2>4, <2>5
<1>5. QED
  BY <1>1, <1>3, <1>4 DEF MembersOf

-----------------------------------------------------------------------------
(* The values in a tree are documents.                                     *)

\* The list of item i is what may stand in a container.
IsPhrase(i) == IF heap[i].string = 0 THEN ListOf[i] \in Elems ELSE ListOf[i] \in Members
Short == \A i \in ItemIds : Len(ListOf[i]) <= MaxLen

\* The lengths of an item's list and its parts.
LEMMA PartsAreShort ==
  ASSUME HeapInv, TreeInv, pc \in Printing \cup {"parsed"}, Short, NEW i \in ItemIds
  PROVE  /\ Before(i) \in Seq(Tokens) /\ Value(i) \in Seq(Tokens)
         /\ Len(Before(i)) \in Nat /\ Len(Value(i)) \in Nat
         /\ Len(Before(i)) + Len(Value(i)) <= MaxLen
         /\ heap[i].next = 0 => ListOf[i] = Before(i) \o Value(i)
         /\ heap[i].next # 0 =>
              /\ ListOf[i] = (Before(i) \o Value(i)) \o <<",">> \o ListOf[heap[i].next]
              /\ Len(Before(i)) + Len(Value(i)) + 1 + Len(ListOf[heap[i].next]) <= MaxLen
<1>1. /\ ListOf[i] \in Seq(Tokens) /\ Value(i) \in Seq(Tokens) /\ Before(i) \in Seq(Tokens)
      /\ ListOf[i] = Before(i) \o Value(i)
                       \o (IF heap[i].next = 0 THEN <<>> ELSE <<",">> \o ListOf[heap[i].next])
  BY ListIsText
<1>2. MaxLen \in Nat /\ Len(ListOf[i]) <= MaxLen
  BY TextsAssumption DEF Short
<1>3. PICK v \in Seq(Tokens) : v = Before(i) \o Value(i) /\ Len(v) = Len(Before(i)) + Len(Value(i))
  BY <1>1, LensJoin
<1>4. Len(Before(i)) \in Nat /\ Len(Value(i)) \in Nat /\ Len(v) \in Nat
  BY <1>1, <1>3, LensJoin
<1>5. CASE heap[i].next = 0
  <2>1. ListOf[i] = v
    BY <1>1, <1>3, <1>5, TextsJoin
  <2>2. QED
    BY <1>1, <1>2, <1>3, <1>4, <1>5, <2>1
<1>6. CASE heap[i].next # 0
  <2>1. heap[i].next \in ItemIds
    BY <1>6 DEF HeapInv, Linked
  <2>2. PICK r \in Seq(Tokens) : r = ListOf[heap[i].next]
    BY <2>1, ListIsText
  <2>3. PICK u \in Seq(Tokens) : u = <<",">> \o r /\ Len(u) = 1 + Len(r)
    <3>1. <<",">> \in Seq(Tokens) /\ Len(<<",">>) = 1
      BY LensJoin, TokensAre
    <3>2. QED
      BY <3>1, LensJoin
  <2>4. ListOf[i] = v \o u /\ Len(v \o u) = Len(v) + Len(u)
    BY <1>1, <1>3, <1>6, <2>2, <2>3, LensJoin
  <2>5. ListOf[i] = v \o <<",">> \o r
    <3>1. <<",">> \in Seq(Tokens)
      BY LensJoin, TokensAre
    <3>2. QED
      BY <2>3, <2>4, <3>1, TextsJoin
  <2>6. Len(r) \in Nat /\ Len(u) \in Nat
    BY LensJoin
  <2>7. PICK a \in Nat, b \in Nat : a = Len(v) /\ b = Len(r) /\ a + (1 + b) <= MaxLen
    <3>1. Len(v) + (1 + Len(r)) = Len(ListOf[i])
      BY <2>3, <2>4
    <3>2. Len(v) + (1 + Len(r)) <= MaxLen
      BY <1>2, <3>1
    <3>3. QED
      BY <1>4, <2>6, <3>2
  <2>8. Len(v) <= MaxLen /\ Len(v) + 1 + Len(r) <= MaxLen
    <3>1. a <= MaxLen /\ a + 1 + b <= MaxLen
      BY <1>2, <2>7
    <3>2. QED
      BY <2>7, <3>1
  <2>9. QED
    BY <1>1, <1>3, <1>4, <1>6, <2>2, <2>5, <2>8
<1>7. QED
  BY <1>5, <1>6

\* The value of an item is a document if those behind it are.
LEMMA DocumentStep ==
  ASSUME HeapInv, TreeInv, pc \in Printing \cup {"parsed"}, Short, NEW i \in ItemIds,
         \A j \in ItemIds : j > i => IsPhrase(j)
  PROVE  Value(i) \in Documents /\ IsPhrase(i)
<1>1. IsItem(i) /\ Linked(i) /\ TreeItem(i) /\ ~Unread(i) /\ \A j : Labelled(j) <=> heap[j].string # 0
  BY DEF HeapInv, ItemIds, TreeInv, Reading, Unread, Printing, Labelled
<1>2. /\ Before(i) \in Seq(Tokens) /\ Value(i) \in Seq(Tokens)
      /\ Len(Before(i)) \in Nat /\ Len(Value(i)) \in Nat
      /\ Len(Before(i)) + Len(Value(i)) <= MaxLen
      /\ MaxLen \in Nat
  BY PartsAreShort, TextsAssumption
<1>3. Value(i) = Of(ListOf, i)
  BY ValueIs
<1>4. ASSUME NEW v \in Scalars \cup Strings, Value(i) = <<v>>
      PROVE  Value(i) \in Documents
  <2>1. Len(Value(i)) = 1
    BY <1>4
  <2>2. 1 <= MaxLen
    BY <1>2, <2>1
  <2>3. QED
    BY <1>4, <2>2, ValueIsDocument
<1>5. ASSUME Value(i) \in Empty
      PROVE  Value(i) \in Documents
  <2>1. Len(Value(i)) = 2
    <3>1. Value(i) = <<"[", "]">> \/ Value(i) = <<"{", "}">>
      BY <1>5 DEF Empty
    <3>2. Len(<<"[", "]">>) = 2 /\ Len(<<"{", "}">>) = 2
      OBVIOUS
    <3>3. QED
      BY <3>1, <3>2
  <2>2. 2 <= MaxLen
    BY <1>2, <2>1
  <2>3. QED
    BY <1>5, <2>2, EmptyIsDocument
<1>6. Value(i) \in Documents
  <2>1. heap[i].type \in {"Scalar", "String", "Array", "Object"} /\ heap[i].value \in Scalars
    BY <1>1 DEF Linked, ItemSet
  <2>2. CASE heap[i].type = "Scalar"
    <3>1. Value(i) = <<heap[i].value>>
      BY <1>3, <2>2 DEF Of, IsLeaf, LeafText
    <3>2. QED
      BY <1>4, <2>1, <3>1
  <2>3. CASE heap[i].type = "String"
    <3>1. heap[heap[i].valuestring].text \in Words
      BY <1>1, <2>3 DEF TreeItem, IsRead, LeadsToText
    <3>2. PICK s \in Strings : heap[heap[i].valuestring].text = <<s>>
      BY <3>1 DEF Words
    <3>3. Value(i) = <<s>>
      BY <1>3, <2>3, <3>2 DEF Of, IsLeaf, LeafText
    <3>4. QED
      BY <1>4, <3>3
  <2>4. CASE heap[i].type \in {"Array", "Object"} /\ heap[i].child = 0
    <3>1. Value(i) = IF heap[i].type = "Array" THEN <<"[", "]">> ELSE <<"{", "}">>
      BY <1>3, <2>4 DEF Of, IsLeaf, LeafText
    <3>2. Value(i) \in Empty
      BY <3>1 DEF Empty
    <3>3. QED
      BY <1>5, <3>2
  <2>5. CASE heap[i].type \in {"Array", "Object"} /\ heap[i].child # 0
    <3>1. PICK c \in ItemIds : c = heap[i].child /\ c > i
      BY <1>1, <2>5 DEF Linked
    <3>2. IsPhrase(c) /\ (heap[c].string # 0 <=> heap[i].type = "Object")
      BY <1>1, <2>5, <3>1 DEF TreeItem, ChildFits
    <3>3. PICK e : e = ListOf[c]
      OBVIOUS
    <3>4. Value(i) = <<Opened(heap[i].type)>> \o e \o <<Closing(heap[i].type)>>
      BY <1>3, <2>5, <3>1, <3>3 DEF Of, IsLeaf
    <3>5. e \in Elems \cup Members /\ e \in Seq(Tokens)
      BY <3>2, <3>3, PhrasesAre DEF IsPhrase
    <3>6. CASE heap[i].type = "Array"
      <4>1. Value(i) = <<"[">> \o e \o <<"]">> /\ e \in Elems
        BY <3>2, <3>3, <3>4, <3>6 DEF Opened, Closing, IsPhrase
      <4>2. Len(<<"[">> \o e \o <<"]">>) = Len(e) + 2
        BY <3>5, LensOf, TokensAre
      <4>3. Len(e) + 2 <= MaxLen
        <5>1. Len(Value(i)) = Len(e) + 2
          BY <4>1, <4>2
        <5>2. QED
          BY <1>2, <5>1
      <4>4. QED
        BY <4>1, <4>3, EnclosedIsDocument
    <3>7. CASE heap[i].type = "Object"
      <4>1. Value(i) = <<"{">> \o e \o <<"}">> /\ e \in Members
        BY <3>2, <3>3, <3>4, <3>7 DEF Opened, Closing, IsPhrase
      <4>2. Len(<<"{">> \o e \o <<"}">>) = Len(e) + 2
        BY <3>5, LensOf, TokensAre
      <4>3. Len(e) + 2 <= MaxLen
        <5>1. Len(Value(i)) = Len(e) + 2
          BY <4>1, <4>2
        <5>2. QED
          BY <1>2, <5>1
      <4>4. QED
        BY <4>1, <4>3, EnclosedIsDocument
    <3>8. QED
      BY <2>5, <3>6, <3>7
  <2>6. QED
    BY <2>1, <2>2, <2>3, <2>4, <2>5
<1>7. PICK w : w = Before(i) \o Value(i)
  OBVIOUS
<1>8. /\ w \in Seq(Tokens) /\ Len(w) = Len(Before(i)) + Len(Value(i))
      /\ heap[i].next = 0 => ListOf[i] = w
      /\ heap[i].next # 0 => /\ ListOf[i] = w \o <<",">> \o ListOf[heap[i].next]
                             /\ Len(w) + 1 + Len(ListOf[heap[i].next]) <= MaxLen
  BY <1>2, <1>7, PartsAreShort, LensJoin
<1>9. IF heap[i].string = 0 THEN w \in Documents ELSE w \in Pairs
  <2>1. CASE heap[i].string = 0
    BY <1>2, <1>6, <1>7, <2>1, TextsJoin DEF Before
  <2>2. CASE heap[i].string # 0
    <3>1. heap[heap[i].string].text \in Words
      BY <1>1, <2>2 DEF TreeItem, LeadsToText
    <3>2. PICK s \in Strings : heap[heap[i].string].text = <<s>>
      BY <3>1 DEF Words
    <3>3. Before(i) = <<s, ":">>
      <4>1. Before(i) = <<s>> \o <<":">>
        BY <2>2, <3>2, Zenon DEF Before
      <4>2. <<s>> \o <<":">> = <<s, ":">>
        BY TwoTokens, TokensAre
      <4>3. QED
        BY <4>1, <4>2
    <3>4. Len(Before(i)) = 2
      BY <3>3
    <3>5. Len(Value(i)) + 2 <= MaxLen
      BY <1>2, <3>4
    <3>6. QED
      BY <1>6, <1>7, <2>2, <3>3, <3>5, PairIsPhrase
  <2>3. QED
    BY <2>1, <2>2
<1>10. CASE heap[i].next = 0
  BY <1>6, <1>8, <1>9, <1>10, FirstPhrases DEF IsPhrase
<1>11. CASE heap[i].next # 0
  <2>1. PICK c \in ItemIds : c = heap[i].next /\ c > i
    BY <1>1, <1>11 DEF Linked
  <2>2. IsPhrase(c) /\ (heap[c].string # 0 <=> heap[i].string # 0)
    BY <1>1, <1>11, <2>1 DEF TreeItem, NextFits
  <2>3. PICK e : e = ListOf[c]
    OBVIOUS
  <2>4. e \in Elems \cup Members
    BY <2>2, <2>3 DEF IsPhrase
  <2>5. Len(e) \in Nat /\ Len(w) \in Nat /\ ListOf[i] = w \o <<",">> \o e /\ Len(w) + 1 + Len(e) <= MaxLen
    BY <1>8, <1>11, <2>1, <2>3, <2>4, PhrasesAre, LensJoin
  <2>6. Len(w) + Len(e) + 1 <= MaxLen
    <3>1. PICK a \in Nat, b \in Nat : a = Len(w) /\ b = Len(e) /\ a + 1 + b <= MaxLen
      BY <2>5
    <3>2. a + b + 1 <= MaxLen
      BY <1>2, <3>1
    <3>3. QED
      BY <3>1, <3>2
  <2>7. CASE heap[i].string = 0
    <3>1. w \in Documents /\ e \in Elems
      BY <1>9, <2>2, <2>3, <2>7 DEF IsPhrase
    <3>2. ListOf[i] \in Elems
      BY <2>5, <2>6, <3>1, JoinedIsPhrase
    <3>3. QED
      BY <1>6, <2>7, <3>2 DEF IsPhrase
  <2>8. CASE heap[i].string # 0
    <3>1. w \in Pairs /\ e \in Members
      BY <1>9, <2>2, <2>3, <2>8 DEF IsPhrase
    <3>2. ListOf[i] \in Members
      BY <2>5, <2>6, <3>1, JoinedIsPhrase
    <3>3. QED
      BY <1>6, <2>8, <3>2 DEF IsPhrase
  <2>9. QED
    BY <2>7, <2>8
<1>12. QED
  BY <1>10, <1>11

\* So all of them are.
LEMMA ValuesAreDocuments ==
  ASSUME HeapInv, TreeInv, pc \in Printing \cup {"parsed"}, Short, NEW k \in ItemIds
  PROVE  Value(k) \in Documents
<1> DEFINE bad == {i \in ItemIds : ~IsPhrase(i)}
<1>1. Len(heap) \in Nat /\ ItemIds \subseteq 0 .. Len(heap) /\ ItemIds \subseteq Nat
  BY DEF HeapInv, ItemIds, Ids
<1>2. ASSUME bad # {} PROVE FALSE
  <2>1. PICK i \in bad : \A y \in bad : y <= i
    <3>1. bad \in SUBSET (0 .. Len(heap))
      BY <1>1
    <3>2. QED
      BY <1>1, <1>2, <3>1, GreatestNat
  <2>2. i \in ItemIds /\ i \in Nat
    BY <1>1, <2>1
  <2>3. \A j \in ItemIds : j > i => IsPhrase(j)
    BY <1>1, <2>1, <2>2
  <2>4. IsPhrase(i)
    BY <2>2, <2>3, DocumentStep
  <2>5. QED
    BY <2>1, <2>4
<1>3. QED
  BY <1>2, DocumentStep

-----------------------------------------------------------------------------
(* A text that starts with a document is read to the document's end.       *)

\* What stands in a container, and what a child of it is.
Inside(type) == IF type = "Array" THEN Elems ELSE Members
One(type) == IF type = "Array" THEN Documents ELSE Pairs

\* Whether s, behind a child of a container, ends it so that t is left.
Ends(type, s, t) ==
  \/ s = <<Closing(type)>> \o t
  \/ \E e \in Inside(type) : s = <<",">> \o (e \o (<<Closing(type)>> \o t))

\* s stands in the text from position p on.
FollowsAt(p, s) ==
  s \in Seq(Tokens) /\ \A k \in 1 .. Len(s) : p - 1 + k <= Len(text) /\ text[p - 1 + k] = s[k]

\* R[m] is what stands behind the child under way of the m-th container.
Ending(R) ==
  /\ R \in [0 .. Len(stack) -> Seq(Tokens)] /\ R[0] = <<>>
  /\ \A m \in 1 .. Len(stack) : Ends(stack[m].type, R[m], R[m - 1])
Expected(r) ==
  CASE pc = "value" -> {d \o r : d \in Documents}
    [] pc = "name" -> {p \o r : p \in Pairs}
    [] pc = "colon" -> {<<":">> \o (d \o r) : d \in Documents}
    [] OTHER -> {r}
Foreseen == \E R : Ending(R) /\ \E s \in Expected(R[Len(stack)]) : FollowsAt(at, s)

Begins == \E k \in 1 .. Len(text) : SubSeq(text, 1, k) \in Documents
Here == text \in Texts /\ at \in Nat \ {0}
AheadInv ==
  /\ Here
  /\ pc = "start" => at = 1
  /\ pc \in {"value", "name", "colon", "after"} /\ Begins => Foreseen
  /\ pc = "null" /\ ~oom => ~Begins

\* The tokens are told apart.
LEMMA Distinct ==
  /\ (Scalars \cup Strings) \cap {"[", "]", "{", "}", ",", ":", "open", "torn", "NUL"} = {}
  /\ "open" \notin Tokens /\ "torn" \notin Tokens /\ "NUL" \notin Tokens
BY TokensAssumption DEF Tokens

LEMMA Brackets ==
  /\ Closing("Array") = "]" /\ Closing("Object") = "}" /\ Closing("[") = "]" /\ Closing("{") = "}"
  /\ TypeOf("[") = "Array" /\ TypeOf("{") = "Object"
  /\ \A type : Closing(type) \in Tokens /\ Closing(type) \in {"]", "}"}
BY TokensAre DEF Closing, TypeOf

\* The first token of what comes next, and what comes behind it.
LEMMA FirstToken ==
  ASSUME NEW p \in Nat \ {0}, NEW s \in Seq(Tokens), NEW x \in Tokens, FollowsAt(p, <<x>> \o s)
  PROVE  p <= Len(text) /\ text[p] = x /\ FollowsAt(p + 1, s)
<1>1. PICK u : u = <<x>> \o s
  OBVIOUS
<1>2. /\ u \in Seq(Tokens) /\ Len(s) \in Nat /\ Len(u) = Len(s) + 1 /\ u[1] = x
      /\ \A k \in 1 .. Len(s) : u[k + 1] = s[k]
  <2>1. <<x>> \in Seq(Tokens) /\ Len(<<x>>) = 1 /\ <<x>>[1] = x /\ Len(s) \in Nat
    BY LensJoin
  <2>2. PICK w \in Seq(Tokens) : w = <<x>> /\ Len(w) = 1 /\ w[1] = x
    BY <2>1
  <2>3. /\ u \in Seq(Tokens) /\ Len(u) = 1 + Len(s)
        /\ \A k \in 1 .. 1 + Len(s) : u[k] = IF k <= 1 THEN w[k] ELSE s[k - 1]
    BY <1>1, <2>2, ConcatProperties
  <2>4. u[1] = x /\ \A k \in 1 .. Len(s) : u[k + 1] = s[k]
    BY <2>1, <2>2, <2>3
  <2>5. QED
    BY <2>1, <2>3, <2>4
<1>3. \A k \in 1 .. Len(u) : p - 1 + k <= Len(text) /\ text[p - 1 + k] = u[k]
  BY <1>1 DEF FollowsAt
<1>4. p <= Len(text) /\ text[p] = x
  <2>1. 1 \in 1 .. Len(u) /\ p - 1 + 1 = p
    BY <1>2
  <2>2. QED
    BY <1>2, <1>3, <2>1
<1>5. ASSUME NEW k \in 1 .. Len(s) PROVE p + 1 - 1 + k <= Len(text) /\ text[p + 1 - 1 + k] = s[k]
  <2>1. k + 1 \in 1 .. Len(u) /\ p - 1 + (k + 1) = p + 1 - 1 + k
    BY <1>2
  <2>2. QED
    BY <1>2, <1>3, <2>1
<1>6. QED
  BY <1>4, <1>5 DEF FollowsAt

\* How a document, or what stands in a container, starts.
LEMMA DocumentAhead ==
  ASSUME NEW d \in Documents, NEW r \in Seq(Tokens)
  PROVE  \/ \E v \in Scalars \cup Strings : d \o r = <<v>> \o r
         \/ \E b \in Opening : d \o r = <<b>> \o (<<Closing(b)>> \o r)
         \/ \E b \in Opening : \E e \in Inside(TypeOf(b)) : d \o r = <<b>> \o (e \o (<<Closing(b)>> \o r))
<1>1. CASE \E v \in Scalars \cup Strings : d = <<v>>
  BY <1>1
<1>2. CASE d \in Empty
  <2>1. \E b \in Opening : d = <<b, Closing(b)>>
    <3>1. d = <<"[", "]">> \/ d = <<"{", "}">>
      BY <1>2 DEF Empty
    <3>2. QED
      BY <3>1, Brackets DEF Opening
  <2>2. PICK b \in Opening : d = <<b, Closing(b)>>
    BY <2>1
  <2>3. b \in Tokens /\ Closing(b) \in Tokens
    BY TokensAre, Brackets DEF Opening
  <2>4. d = <<b>> \o <<Closing(b)>> /\ <<b>> \in Seq(Tokens) /\ <<Closing(b)>> \in Seq(Tokens)
    BY <2>2, <2>3, TwoTokens, LensJoin
  <2>5. d \o r = <<b>> \o (<<Closing(b)>> \o r)
    BY <2>4, TextsJoin
  <2>6. QED
    BY <2>5
<1>3. ASSUME NEW b \in Opening, NEW e \in Inside(TypeOf(b)), d = <<b>> \o e \o <<Closing(b)>>
      PROVE  d \o r = <<b>> \o (e \o (<<Closing(b)>> \o r))
  <2>1. <<b>> \in Seq(Tokens) /\ <<Closing(b)>> \in Seq(Tokens) /\ e \in Seq(Tokens)
    <3>1. b \in Tokens /\ Closing(b) \in Tokens
      BY TokensAre, Brackets DEF Opening
    <3>2. e \in Elems \cup Members
      BY DEF Inside
    <3>3. QED
      BY <3>1, <3>2, LensJoin, PhrasesAre
  <2>2. PICK B \in Seq(Tokens), C \in Seq(Tokens) : B = <<b>> /\ C = <<Closing(b)>>
    BY <2>1
  <2>3. ((B \o e) \o C) \o r = B \o (e \o (C \o r))
    <3>1. PICK w \in Seq(Tokens) : w = B \o e
      BY <2>1, TextsJoin
    <3>2. PICK z \in Seq(Tokens) : z = C \o r
      BY <2>1, TextsJoin
    <3>3. (w \o C) \o r = w \o z
      BY <2>1, <3>2, TextsJoin
    <3>4. w \o z = B \o (e \o z)
      BY <2>1, <3>1, TextsJoin
    <3>5. QED
      BY <3>1, <3>2, <3>3, <3>4
  <2>4. QED
    BY <1>3, <2>2, <2>3
<1>4. CASE \E e \in Elems : d = <<"[">> \o e \o <<"]">>
  <2>1. PICK e \in Elems : d = <<"[">> \o e \o <<"]">>
    BY <1>4
  <2>2. "[" \in Opening /\ e \in Inside(TypeOf("[")) /\ Closing("[") = "]"
    BY Brackets DEF Opening, Inside
  <2>3. QED
    BY <1>3, <2>1, <2>2
<1>5. CASE \E e \in Members : d = <<"{">> \o e \o <<"}">>
  <2>1. PICK e \in Members : d = <<"{">> \o e \o <<"}">>
    BY <1>5
  <2>2. "{" \in Opening /\ e \in Inside(TypeOf("{")) /\ Closing("{") = "}"
    BY Brackets DEF Opening, Inside
  <2>3. QED
    BY <1>3, <2>1, <2>2
<1>6. QED
  BY <1>1, <1>2, <1>4, <1>5, DocumentForms

LEMMA InsideAhead ==
  ASSUME NEW type \in {"Array", "Object"}, NEW e \in Inside(type), NEW t \in Seq(Tokens)
  PROVE  \E x \in One(type) : \E s \in Seq(Tokens) :
           Ends(type, s, t) /\ e \o (<<Closing(type)>> \o t) = x \o s
<1>1. PICK u \in Seq(Tokens) : u = <<Closing(type)>> \o t
  BY Brackets, LensJoin
<1>2. CASE e \in One(type)
  BY <1>1, <1>2 DEF Ends
<1>3. CASE \E x \in One(type), f \in Inside(type) : e = x \o <<",">> \o f
  <2>1. PICK x \in One(type), f \in Inside(type) : e = x \o <<",">> \o f
    BY <1>3
  <2>2. x \in Seq(Tokens) /\ f \in Seq(Tokens) /\ <<",">> \in Seq(Tokens)
    <3>1. x \in Documents \cup Pairs /\ f \in Elems \cup Members
      BY DEF One, Inside
    <3>2. QED
      BY <3>1, PhrasesAre, LensJoin, TokensAre
  <2>3. PICK C \in Seq(Tokens) : C = <<",">>
    BY <2>2
  <2>4. ((x \o C) \o f) \o u = x \o (C \o (f \o u))
    <3>1. x \in Seq(Tokens) /\ f \in Seq(Tokens)
      BY <2>2
    <3>2. PICK w \in Seq(Tokens) : w = x \o C
      BY <3>1, TextsJoin
    <3>3. PICK z \in Seq(Tokens) : z = f \o u
      BY <3>1, TextsJoin
    <3>4. (w \o f) \o u = w \o z
      BY <3>1, <3>3, TextsJoin
    <3>5. w \o z = x \o (C \o z)
      <4>1. (x \o C) \o z = x \o (C \o z)
        BY <3>1, ConcatAssociative
      <4>2. QED
        BY <3>2, <4>1
    <3>6. QED
      BY <3>2, <3>3, <3>4, <3>5
  <2>5. PICK s \in Seq(Tokens) : s = C \o (f \o u)
    <3>1. f \in Seq(Tokens)
      BY <2>2
    <3>2. QED
      BY <3>1, TextsJoin
  <2>6. Ends(type, s, t)
    BY <1>1, <2>3, <2>5 DEF Ends
  <2>7. QED
    BY <1>1, <2>1, <2>3, <2>4, <2>5, <2>6
<1>4. QED
  BY <1>2, <1>3, ElemForms, MemberForms DEF One, Inside

LEMMA PairAhead ==
  ASSUME NEW x \in Pairs, NEW s \in Seq(Tokens)
  PROVE  \E y \in Strings, d \in Documents :
           x \o s = <<y>> \o (<<":">> \o (d \o s)) /\ <<":">> \o (d \o s) \in Seq(Tokens)
<1>1. PICK y \in Strings, d \in Documents : x = <<y, ":">> \o d
  BY PairForms
<1>2. y \in Tokens /\ ":" \in Tokens /\ d \in Seq(Tokens)
  BY TokensAre, PhrasesAre
<1>3. PICK a \in Seq(Tokens), c \in Seq(Tokens) : a = <<y>> /\ c = <<":">> /\ a \o c = <<y, ":">>
  <2>1. <<y>> \o <<":">> = <<y, ":">>
    BY <1>2, TwoTokens
  <2>2. <<y>> \in Seq(Tokens) /\ <<":">> \in Seq(Tokens)
    BY <1>2, LensJoin
  <2>3. QED
    BY <2>1, <2>2
<1>4. ((a \o c) \o d) \o s = a \o (c \o (d \o s)) /\ c \o (d \o s) \in Seq(Tokens)
  <2>1. d \in Seq(Tokens)
    BY <1>2
  <2>2. PICK z \in Seq(Tokens) : z = d \o s
    BY <2>1, TextsJoin
  <2>3. PICK w \in Seq(Tokens) : w = a \o c
    BY TextsJoin
  <2>4. (w \o d) \o s = w \o z
    BY <2>1, <2>2, TextsJoin
  <2>5. w \o z = a \o (c \o z) /\ c \o z \in Seq(Tokens)
    BY <2>3, TextsJoin
  <2>6. QED
    BY <2>2, <2>3, <2>4, <2>5
<1>5. QED
  BY <1>1, <1>3, <1>4

LEMMA OneAhead ==
  ASSUME NEW p \in Nat \ {0}, NEW x \in Documents \cup Pairs, NEW s \in Seq(Tokens), FollowsAt(p, x \o s)
  PROVE  p <= Len(text) /\ text[p] \in Scalars \cup Strings \cup Opening
<1>1. \E y \in Scalars \cup Strings \cup Opening : \E u \in Seq(Tokens) : x \o s = <<y>> \o u
  <2>1. CASE x \in Documents
    <3>1. CASE \E v \in Scalars \cup Strings : x \o s = <<v>> \o s
      BY <3>1
    <3>2. CASE \E b \in Opening : x \o s = <<b>> \o (<<Closing(b)>> \o s)
      <4>1. PICK b \in Opening : x \o s = <<b>> \o (<<Closing(b)>> \o s)
        BY <3>2
      <4>2. <<Closing(b)>> \o s \in Seq(Tokens)
        BY Brackets, LensJoin
      <4>3. QED
        BY <4>1, <4>2
    <3>3. CASE \E b \in Opening : \E e \in Inside(TypeOf(b)) : x \o s = <<b>> \o (e \o (<<Closing(b)>> \o s))
      <4>1. PICK b \in Opening, e \in Elems \cup Members : x \o s = <<b>> \o (e \o (<<Closing(b)>> \o s))
        BY <3>3 DEF Inside
      <4>2. PICK u \in Seq(Tokens) : u = <<Closing(b)>> \o s
        BY Brackets, LensJoin
      <4>3. e \o u \in Seq(Tokens)
        BY PhrasesAre, LensJoin
      <4>4. QED
        BY <4>1, <4>2, <4>3
    <3>4. QED
      BY <2>1, <3>1, <3>2, <3>3, DocumentAhead
  <2>2. CASE x \in Pairs
    <3>1. PICK y \in Strings, d \in Documents :
            x \o s = <<y>> \o (<<":">> \o (d \o s)) /\ <<":">> \o (d \o s) \in Seq(Tokens)
      BY <2>2, PairAhead
    <3>2. PICK u \in Seq(Tokens) : u = <<":">> \o (d \o s)
      BY <3>1
    <3>3. x \o s = <<y>> \o u
      BY <3>1, <3>2
    <3>4. QED
      BY <3>3
  <2>3. QED
    BY <2>1, <2>2
<1>2. PICK y \in Scalars \cup Strings \cup Opening, u \in Seq(Tokens) : x \o s = <<y>> \o u
  BY <1>1
<1>3. y \in Tokens
  BY TokensAre DEF Opening
<1>4. QED
  BY <1>2, <1>3, FirstToken

\* What the parser sees where a value is to come.
LEMMA ValueAhead ==
  ASSUME Here, NEW d \in Documents, NEW r \in Seq(Tokens), FollowsAt(at, d \o r)
  PROVE  \/ Tok \in Scalars \cup Strings /\ FollowsAt(at + 1, r)
         \/ Tok \in Opening /\ Ahead = Closing(Tok) /\ FollowsAt(at + 2, r)
         \/ /\ Tok \in Opening /\ Ahead # Closing(Tok)
            /\ \E x \in One(TypeOf(Tok)) : \E s \in Seq(Tokens) :
                 Ends(TypeOf(Tok), s, r) /\ FollowsAt(at + 1, x \o s)
<1>1. PICK p \in Nat \ {0} : p = at
  BY DEF Here
<1>2. CASE \E v \in Scalars \cup Strings : d \o r = <<v>> \o r
  <2>1. PICK v \in Scalars \cup Strings : d \o r = <<v>> \o r
    BY <1>2
  <2>2. v \in Tokens
    BY TokensAre
  <2>3. p <= Len(text) /\ text[p] = v /\ FollowsAt(p + 1, r)
    BY <1>1, <2>1, <2>2, FirstToken
  <2>4. QED
    BY <1>1, <2>3 DEF Tok
<1>3. CASE \E b \in Opening : d \o r = <<b>> \o (<<Closing(b)>> \o r)
  <2>1. PICK b \in Opening : d \o r = <<b>> \o (<<Closing(b)>> \o r)
    BY <1>3
  <2>2. b \in Tokens /\ Closing(b) \in Tokens
    BY TokensAre, Brackets DEF Opening
  <2>3. PICK u \in Seq(Tokens) : u = <<Closing(b)>> \o r
    BY <2>2, LensJoin
  <2>4. p <= Len(text) /\ text[p] = b /\ FollowsAt(p + 1, u)
    BY <1>1, <2>1, <2>2, <2>3, FirstToken
  <2>5. PICK q \in Nat \ {0} : q = p + 1 /\ q + 1 = p + 2
    OBVIOUS
  <2>6. q <= Len(text) /\ text[q] = Closing(b) /\ FollowsAt(q + 1, r)
    BY <2>2, <2>3, <2>4, <2>5, FirstToken
  <2>7. Tok = b /\ Ahead = Closing(b)
    BY <1>1, <2>4, <2>5, <2>6 DEF Tok, Ahead
  <2>8. QED
    BY <1>1, <2>5, <2>6, <2>7
<1>4. CASE \E b \in Opening : \E e \in Inside(TypeOf(b)) : d \o r = <<b>> \o (e \o (<<Closing(b)>> \o r))
  <2>1. PICK b, e : b \in Opening /\ e \in Inside(TypeOf(b)) /\ d \o r = <<b>> \o (e \o (<<Closing(b)>> \o r))
    BY <1>4
  <2>2. /\ b \in Tokens /\ Closing(b) \in {"]", "}"} /\ Closing(b) = Closing(TypeOf(b))
        /\ TypeOf(b) \in {"Array", "Object"}
    BY <2>1, TokensAre, Brackets DEF Opening
  <2>3. PICK x \in One(TypeOf(b)), s \in Seq(Tokens) :
          Ends(TypeOf(b), s, r) /\ e \o (<<Closing(b)>> \o r) = x \o s
    <3>1. PICK type \in {"Array", "Object"} : type = TypeOf(b)
      BY <2>2
    <3>2. e \in Inside(type)
      BY <2>1, <3>1
    <3>3. \E x \in One(type) : \E s \in Seq(Tokens) :
            Ends(type, s, r) /\ e \o (<<Closing(type)>> \o r) = x \o s
      BY <3>2, InsideAhead
    <3>4. QED
      BY <2>2, <3>1, <3>3
  <2>4. x \in Documents \cup Pairs
    BY DEF One
  <2>5. x \o s \in Seq(Tokens)
    BY <2>4, PhrasesAre, LensJoin
  <2>6. p <= Len(text) /\ text[p] = b /\ FollowsAt(p + 1, x \o s)
    BY <1>1, <2>1, <2>2, <2>3, <2>5, FirstToken
  <2>7. PICK q \in Nat \ {0} : q = p + 1
    OBVIOUS
  <2>8. q <= Len(text) /\ text[q] \in Scalars \cup Strings \cup Opening
    BY <2>4, <2>6, <2>7, OneAhead
  <2>9. text[q] # Closing(b)
    BY <2>2, <2>8, Distinct DEF Opening
  <2>10. Tok = b /\ Ahead # Closing(b)
    BY <1>1, <2>6, <2>7, <2>8, <2>9 DEF Tok, Ahead
  <2>11. QED
    BY <1>1, <2>1, <2>3, <2>6, <2>10
<1>5. QED
  BY <1>2, <1>3, <1>4, DocumentAhead

\* Where a name is to come, and a colon behind it.
LEMMA NameAhead ==
  ASSUME Here, NEW x \in Pairs, NEW r \in Seq(Tokens), FollowsAt(at, x \o r)
  PROVE  Tok \in Strings /\ \E d \in Documents : FollowsAt(at + 1, <<":">> \o (d \o r))
<1>1. PICK p \in Nat \ {0} : p = at
  BY DEF Here
<1>2. PICK y \in Strings, d \in Documents :
        x \o r = <<y>> \o (<<":">> \o (d \o r)) /\ <<":">> \o (d \o r) \in Seq(Tokens)
  BY PairAhead
<1>3. y \in Tokens
  BY TokensAre
<1>4. p <= Len(text) /\ text[p] = y /\ FollowsAt(p + 1, <<":">> \o (d \o r))
  BY <1>1, <1>2, <1>3, FirstToken
<1>5. QED
  BY <1>1, <1>4 DEF Tok

LEMMA ColonAhead ==
  ASSUME Here, NEW d \in Documents, NEW r \in Seq(Tokens), FollowsAt(at, <<":">> \o (d \o r))
  PROVE  Tok = ":" /\ FollowsAt(at + 1, d \o r)
<1>1. PICK p \in Nat \ {0} : p = at
  BY DEF Here
<1>2. d \o r \in Seq(Tokens) /\ ":" \in Tokens
  BY PhrasesAre, LensJoin, TokensAre
<1>3. p <= Len(text) /\ text[p] = ":" /\ FollowsAt(p + 1, d \o r)
  BY <1>1, <1>2, FirstToken
<1>4. QED
  BY <1>1, <1>3 DEF Tok

\* And behind a child of a container.
LEMMA EndAhead ==
  ASSUME Here, NEW type \in {"Array", "Object"}, NEW s, NEW r \in Seq(Tokens), Ends(type, s, r),
         FollowsAt(at, s)
  PROVE  \/ Tok = Closing(type) /\ FollowsAt(at + 1, r)
         \/ Tok = "," /\ \E x \in One(type) : \E u \in Seq(Tokens) :
                            Ends(type, u, r) /\ FollowsAt(at + 1, x \o u)
<1>1. PICK p \in Nat \ {0} : p = at
  BY DEF Here
<1>2. Closing(type) \in Tokens /\ "," \in Tokens
  BY Brackets, TokensAre
<1>3. CASE s = <<Closing(type)>> \o r
  <2>1. p <= Len(text) /\ text[p] = Closing(type) /\ FollowsAt(p + 1, r)
    BY <1>1, <1>2, <1>3, FirstToken
  <2>2. QED
    BY <1>1, <2>1 DEF Tok
<1>4. CASE \E e \in Inside(type) : s = <<",">> \o (e \o (<<Closing(type)>> \o r))
  <2>1. PICK e \in Inside(type) : s = <<",">> \o (e \o (<<Closing(type)>> \o r))
    BY <1>4
  <2>2. PICK x \in One(type), u \in Seq(Tokens) : Ends(type, u, r) /\ e \o (<<Closing(type)>> \o r) = x \o u
    BY InsideAhead
  <2>3. x \in Documents \cup Pairs
    BY DEF One
  <2>4. x \o u \in Seq(Tokens)
    BY <2>3, PhrasesAre, LensJoin
  <2>5. p <= Len(text) /\ text[p] = "," /\ FollowsAt(p + 1, x \o u)
    BY <1>1, <1>2, <2>1, <2>2, <2>4, FirstToken
  <2>6. QED
    BY <1>1, <2>2, <2>5 DEF Tok
<1>5. QED
  BY <1>3, <1>4 DEF Ends

\* What is left to show of a step that reads on.
LEMMA ForeseenNext ==
  ASSUME text' = text, NEW R, Ending(R)', NEW r, r = R[Len(stack')],
         NEW s, FollowsAt(at', s),
         \/ pc' = "value" /\ \E d \in Documents : s = d \o r
         \/ pc' = "name" /\ \E p \in Pairs : s = p \o r
         \/ pc' = "colon" /\ \E d \in Documents : s = <<":">> \o (d \o r)
         \/ pc' = "after" /\ s = r
  PROVE  Foreseen'
<1>1. FollowsAt(at, s)'
  BY DEF FollowsAt
<1>2. s \in Expected(r)'
  <2>1. CASE pc' = "value" /\ \E d \in Documents : s = d \o r
    BY <2>1 DEF Expected
  <2>2. CASE pc' = "name" /\ \E p \in Pairs : s = p \o r
    BY <2>2 DEF Expected
  <2>3. CASE pc' = "colon" /\ \E d \in Documents : s = <<":">> \o (d \o r)
    BY <2>3 DEF Expected
  <2>4. CASE pc' = "after" /\ s = r
    BY <2>4 DEF Expected
  <2>5. QED
    BY <2>1, <2>2, <2>3, <2>4
<1>3. QED
  BY <1>1, <1>2 DEF Foreseen, Expected

\* The containers that go on are those before, but for the last.
LEMMA EndingChanged ==
  ASSUME Len(stack) \in Nat, Len(stack') \in Nat, NEW R, Ending(R),
         NEW s \in Seq(Tokens), NEW type,
         Len(stack') # 0, Len(stack') <= Len(stack) + 1,
         \A m \in 1 .. Len(stack') : m < Len(stack') => stack'[m] = stack[m],
         stack'[Len(stack')].type = type,
         Ends(type, s, R[Len(stack') - 1])
  PROVE  \E Q : Ending(Q)' /\ Q[Len(stack')] = s
<1>1. PICK n \in Nat \ {0} : n = Len(stack') /\ n - 1 \in 0 .. Len(stack)
  OBVIOUS
<1>2. PICK Q : Q = [m \in 0 .. n |-> IF m = n THEN s ELSE R[m]]
  OBVIOUS
<1>3. Q[n] = s /\ \A m \in 0 .. n : m < n => Q[m] = R[m] /\ m \in 0 .. Len(stack)
  BY <1>1, <1>2
<1>4. Q \in [0 .. n -> Seq(Tokens)] /\ Q[0] = <<>>
  BY <1>1, <1>2, <1>3 DEF Ending
<1>5. ASSUME NEW m \in 1 .. n PROVE Ends(stack'[m].type, Q[m], Q[m - 1])
  <2>1. CASE m = n
    <3>1. Q[m] = s /\ Q[m - 1] = R[n - 1] /\ stack'[m].type = type
      BY <1>1, <1>3, <2>1
    <3>2. QED
      BY <1>1, <3>1
  <2>2. CASE m < n
    <3>1. /\ stack'[m] = stack[m] /\ m \in 1 .. Len(stack)
          /\ Q[m] = R[m] /\ Q[m - 1] = R[m - 1]
      BY <1>1, <1>3, <2>2
    <3>2. QED
      BY <3>1 DEF Ending
  <2>3. QED
    BY <2>1, <2>2
<1>6. Ending(Q)'
  BY <1>1, <1>4, <1>5 DEF Ending, Ends
<1>7. QED
  BY <1>1, <1>3, <1>6

LEMMA EndingCut ==
  ASSUME Len(stack) \in Nat, Len(stack') \in Nat, NEW R, Ending(R),
         Len(stack') <= Len(stack),
         \A m \in 1 .. Len(stack') : stack'[m] = stack[m]
  PROVE  \E Q : Ending(Q)' /\ Q[Len(stack')] = R[Len(stack')]
<1>1. PICK n \in Nat : n = Len(stack') /\ n \in 0 .. Len(stack)
  OBVIOUS
<1>2. PICK Q : Q = [m \in 0 .. n |-> R[m]]
  OBVIOUS
<1>3. \A m \in 0 .. n : Q[m] = R[m] /\ m \in 0 .. Len(stack)
  BY <1>1, <1>2
<1>4. Q \in [0 .. n -> Seq(Tokens)] /\ Q[0] = <<>>
  BY <1>1, <1>2, <1>3 DEF Ending
<1>5. ASSUME NEW m \in 1 .. n PROVE Ends(stack'[m].type, Q[m], Q[m - 1])
  <2>1. /\ stack'[m] = stack[m] /\ m \in 1 .. Len(stack)
        /\ Q[m] = R[m] /\ Q[m - 1] = R[m - 1]
    BY <1>1, <1>3
  <2>2. QED
    BY <2>1 DEF Ending
<1>6. Ending(Q)'
  BY <1>1, <1>4, <1>5 DEF Ending, Ends
<1>7. QED
  BY <1>1, <1>3, <1>6

\* What is known while a text is read that starts with a document: r is to
\* follow the value under way.
Seen(R, r) ==
  /\ Ending(R) /\ r \in Seq(Tokens) /\ r = R[Len(stack)]
  /\ Len(stack) \in Nat /\ stack \in Seq(ParseFrame)
  /\ pc = "value" => \E d \in Documents : FollowsAt(at, d \o r)
  /\ pc = "name" => \E p \in Pairs : FollowsAt(at, p \o r)
  /\ pc = "colon" => \E d \in Documents : FollowsAt(at, <<":">> \o (d \o r))
  /\ pc = "after" => FollowsAt(at, r)

LEMMA SeenAhead ==
  ASSUME IInv, Here, Foreseen, pc \in {"value", "name", "colon", "after"}
  PROVE  \E R, r : Seen(R, r)
<1>1. PICK R : Ending(R) /\ \E s \in Expected(R[Len(stack)]) : FollowsAt(at, s)
  BY DEF Foreseen
<1>2. Len(stack) \in Nat /\ stack \in Seq(ParseFrame)
  BY WhileParsing DEF Parsing
<1>3. PICK r \in Seq(Tokens) : r = R[Len(stack)]
  BY <1>1, <1>2 DEF Ending
<1>4. PICK s \in Expected(r) : FollowsAt(at, s)
  BY <1>1, <1>3
<1>5. CASE pc = "value"
  BY <1>1, <1>2, <1>3, <1>4, <1>5 DEF Expected, Seen
<1>6. CASE pc = "name"
  BY <1>1, <1>2, <1>3, <1>4, <1>6 DEF Expected, Seen
<1>7. CASE pc = "colon"
  BY <1>1, <1>2, <1>3, <1>4, <1>7 DEF Expected, Seen
<1>8. CASE pc = "after"
  BY <1>1, <1>2, <1>3, <1>4, <1>8 DEF Expected, Seen
<1>9. QED
  BY <1>5, <1>6, <1>7, <1>8

LEMMA TopEnds ==
  ASSUME NEW R, NEW r, Seen(R, r), stack # <<>>
  PROVE  /\ Len(stack) \in Nat \ {0} /\ Top \in ParseFrame /\ Top.type \in {"Array", "Object"}
         /\ stack[Len(stack)] = Top
         /\ R[Len(stack) - 1] \in Seq(Tokens) /\ Ends(Top.type, r, R[Len(stack) - 1])
<1>1. stack \in Seq(ParseFrame) /\ Len(stack) \in Nat \ {0}
  BY EmptySeq DEF Seen
<1>2. PICK n \in Nat \ {0} : n = Len(stack)
  BY <1>1
<1>3. n \in 1 .. n /\ n - 1 \in 0 .. n
  OBVIOUS
<1>4. Top \in ParseFrame /\ Top = stack[n]
  BY <1>1, <1>2, <1>3, ElementOfSeq DEF Top
<1>5. /\ R \in [0 .. n -> Seq(Tokens)]
      /\ Ends(stack[n].type, R[n], R[n - 1])
  BY <1>2, <1>3 DEF Seen, Ending
<1>6. R[n - 1] \in Seq(Tokens)
  BY <1>3, <1>5
<1>7. r = R[n]
  BY <1>2 DEF Seen
<1>8. QED
  BY <1>1, <1>2, <1>4, <1>5, <1>6, <1>7 DEF ParseFrame

\* Such a text is never found malformed.
LEMMA NotMalformed ==
  ASSUME IInv, Here, Foreseen, Malformed
  PROVE  FALSE
<1>1. pc \in {"value", "name", "colon", "after"}
  BY DEF Malformed
<1>2. PICK R, r : Seen(R, r)
  BY <1>1, SeenAhead
<1>3. CASE pc = "value"
  <2>1. Tok \in Scalars \cup Strings \cup Opening
    BY <1>2, <1>3, ValueAhead DEF Seen
  <2>2. QED
    BY <1>3, <2>1 DEF Malformed, IsString
<1>4. CASE pc = "name"
  <2>1. Tok \in Strings
    BY <1>2, <1>4, NameAhead DEF Seen
  <2>2. QED
    BY <1>4, <2>1 DEF Malformed, IsString
<1>5. CASE pc = "colon"
  <2>1. Tok = ":"
    BY <1>2, <1>5, ColonAhead DEF Seen
  <2>2. QED
    BY <1>5, <2>1 DEF Malformed
<1>6. CASE pc = "after"
  <2>1. stack # <<>> /\ Tok \notin {",", Closing(Top.type)}
    BY <1>6 DEF Malformed
  <2>2. /\ Top.type \in {"Array", "Object"} /\ R[Len(stack) - 1] \in Seq(Tokens)
        /\ Ends(Top.type, r, R[Len(stack) - 1])
    BY <1>2, <2>1, TopEnds
  <2>3. Tok \in {",", Closing(Top.type)}
    BY <1>2, <1>6, <2>2, EndAhead DEF Seen
  <2>4. QED
    BY <2>1, <2>3
<1>7. QED
  BY <1>1, <1>3, <1>4, <1>5, <1>6

\* A step that reads on keeps what is to come in sight.
LEMMA ForeseenSame ==
  ASSUME NEW R, NEW r, Seen(R, r), text' = text, stack' = stack,
         NEW s, FollowsAt(at', s),
         \/ pc' = "value" /\ \E d \in Documents : s = d \o r
         \/ pc' = "colon" /\ \E d \in Documents : s = <<":">> \o (d \o r)
         \/ pc' = "after" /\ s = r
  PROVE  Foreseen'
<1>1. PICK Q : Ending(Q)' /\ Q[Len(stack')] = R[Len(stack')]
  BY EndingCut DEF Seen
<1>2. r = Q[Len(stack')]
  BY <1>1 DEF Seen
<1>3. QED
  BY <1>1, <1>2, ForeseenNext

LEMMA ForeseenValue ==
  ASSUME IInv, Here, Foreseen, ParseScalar \/ ParseString \/ ParseEmpty
  PROVE  Foreseen'
<1>1. pc = "value" /\ pc' = "after" /\ stack' = stack /\ text' = text
  BY DEF ParseScalar, ParseString, ParseEmpty, Read
<1>2. PICK R, r : Seen(R, r)
  BY <1>1, SeenAhead
<1>3. PICK d \in Documents : FollowsAt(at, d \o r) /\ r \in Seq(Tokens)
  BY <1>1, <1>2 DEF Seen
<1>4. \/ Tok \in Scalars \cup Strings /\ FollowsAt(at + 1, r)
      \/ Tok \in Opening /\ Ahead = Closing(Tok) /\ FollowsAt(at + 2, r)
      \/ Tok \in Opening /\ Ahead # Closing(Tok)
  BY <1>3, ValueAhead
<1>5. (Scalars \cup Strings \cup {"open"}) \cap Opening = {}
  BY Distinct DEF Opening
<1>6. FollowsAt(at', r)
  <2>1. CASE ParseScalar
    <3>1. Tok \in Scalars /\ at' = at + 1
      BY <2>1 DEF ParseScalar, Read
    <3>2. QED
      BY <1>4, <1>5, <3>1
  <2>2. CASE ParseString
    <3>1. Tok \in Strings \cup {"open"} /\ at' = at + 1
      BY <2>2 DEF ParseString, Read, IsString
    <3>2. QED
      BY <1>4, <1>5, <3>1
  <2>3. CASE ParseEmpty
    <3>1. Tok \in Opening /\ Ahead = Closing(Tok) /\ at' = at + 2
      BY <2>3 DEF ParseEmpty, Read
    <3>2. QED
      BY <1>4, <1>5, <3>1
  <2>4. QED
    BY <2>1, <2>2, <2>3
<1>7. QED
  BY <1>1, <1>2, <1>6, ForeseenSame

LEMMA ForeseenName ==
  ASSUME IInv, Here, Foreseen, ParseName
  PROVE  Foreseen'
<1>1. pc = "name" /\ pc' = "colon" /\ stack' = stack /\ text' = text /\ at' = at + 1
  BY DEF ParseName, Read
<1>2. PICK R, r : Seen(R, r)
  BY <1>1, SeenAhead
<1>3. PICK p \in Pairs : FollowsAt(at, p \o r) /\ r \in Seq(Tokens)
  BY <1>1, <1>2 DEF Seen
<1>4. PICK d \in Documents : FollowsAt(at', <<":">> \o (d \o r))
  BY <1>1, <1>3, NameAhead
<1>5. QED
  BY <1>1, <1>2, <1>4, ForeseenSame

LEMMA ForeseenColon ==
  ASSUME IInv, Here, Foreseen, ParseColon
  PROVE  Foreseen'
<1>1. pc = "colon" /\ pc' = "value" /\ stack' = stack /\ text' = text /\ at' = at + 1
  BY DEF ParseColon, Read
<1>2. PICK R, r : Seen(R, r)
  BY <1>1, SeenAhead
<1>3. PICK d \in Documents : FollowsAt(at, <<":">> \o (d \o r)) /\ r \in Seq(Tokens)
  BY <1>1, <1>2 DEF Seen
<1>4. FollowsAt(at', d \o r)
  BY <1>1, <1>3, ColonAhead
<1>5. QED
  BY <1>1, <1>2, <1>4, ForeseenSame

\* A child is to come in a container.
LEMMA ForeseenChild ==
  ASSUME text' = text, Len(stack') \in Nat, NEW type \in {"Array", "Object"},
         pc' = IF type = "Array" THEN "value" ELSE "name",
         NEW Q, NEW u, Ending(Q)', Q[Len(stack')] = u,
         NEW x \in One(type), FollowsAt(at', x \o u)
  PROVE  Foreseen'
<1>1. CASE type = "Array"
  <2>1. x \in Documents /\ pc' = "value"
    BY <1>1 DEF One
  <2>2. QED
    BY <2>1, ForeseenNext
<1>2. CASE type = "Object"
  <2>1. x \in Pairs /\ pc' = "name"
    BY <1>2 DEF One
  <2>2. QED
    BY <2>1, ForeseenNext
<1>3. QED
  BY <1>1, <1>2

LEMMA ForeseenContainer ==
  ASSUME IInv, Here, Foreseen, ParseContainer
  PROVE  Foreseen'
<1>1. /\ pc = "value" /\ text' = text /\ at' = at + 1
      /\ Tok \in Opening /\ Ahead # Closing(Tok)
      /\ pc' = IF TypeOf(Tok) = "Array" THEN "value" ELSE "name"
      /\ stack' = Append(stack, [type |-> TypeOf(Tok), child |-> New])
  BY DEF ParseContainer, Read, Descend
<1>2. PICK R, r : Seen(R, r)
  BY <1>1, SeenAhead
<1>3. PICK d \in Documents : FollowsAt(at, d \o r) /\ r \in Seq(Tokens)
  BY <1>1, <1>2 DEF Seen
<1>4. PICK type : type = TypeOf(Tok) /\ type \in {"Array", "Object"}
  BY DEF TypeOf
<1>5. PICK x \in One(type), u \in Seq(Tokens) : Ends(type, u, r) /\ FollowsAt(at', x \o u)
  <2>1. (Scalars \cup Strings) \cap Opening = {}
    BY Distinct DEF Opening
  <2>2. \E x \in One(TypeOf(Tok)) : \E s \in Seq(Tokens) : Ends(TypeOf(Tok), s, r) /\ FollowsAt(at + 1, x \o s)
    BY <1>1, <1>3, <2>1, ValueAhead
  <2>3. QED
    BY <1>1, <1>4, <2>2
<1>6. /\ Len(stack) \in Nat /\ Len(stack') = Len(stack) + 1
      /\ \A m \in 1 .. Len(stack) : stack'[m] = stack[m]
      /\ stack'[Len(stack')].type = type
  BY <1>1, <1>2, <1>4 DEF Seen
<1>7. Ends(type, u, R[Len(stack') - 1])
  BY <1>2, <1>5, <1>6 DEF Seen
<1>8. PICK Q : Ending(Q)' /\ Q[Len(stack')] = u
  <2>1. Ending(R) /\ Len(stack') \in Nat /\ Len(stack') # 0
        /\ \A m \in 1 .. Len(stack') : m < Len(stack') => stack'[m] = stack[m]
    BY <1>2, <1>6 DEF Seen
  <2>2. QED
    BY <1>5, <1>6, <1>7, <2>1, EndingChanged
<1>9. QED
  BY <1>1, <1>4, <1>5, <1>6, <1>8, ForeseenChild

LEMMA ForeseenEnd ==
  ASSUME IInv, Here, Foreseen, EndContainer \/ NextChild
  PROVE  Foreseen'
<1>1. pc = "after" /\ stack # <<>> /\ text' = text /\ at' = at + 1
  BY DEF EndContainer, NextChild, Read
<1>2. PICK R, r : Seen(R, r)
  BY <1>1, SeenAhead
<1>3. /\ Len(stack) \in Nat \ {0} /\ Top \in ParseFrame /\ Top.type \in {"Array", "Object"}
      /\ stack[Len(stack)] = Top
      /\ R[Len(stack) - 1] \in Seq(Tokens) /\ Ends(Top.type, r, R[Len(stack) - 1])
      /\ FollowsAt(at, r) /\ Ending(R) /\ stack \in Seq(ParseFrame)
  BY <1>1, <1>2, TopEnds DEF Seen
<1>4. PICK t \in Seq(Tokens), type \in {"Array", "Object"} : t = R[Len(stack) - 1] /\ type = Top.type
  BY <1>3
<1>5. \/ Tok = Closing(type) /\ FollowsAt(at', t)
      \/ Tok = "," /\ \E x \in One(type) : \E u \in Seq(Tokens) : Ends(type, u, t) /\ FollowsAt(at', x \o u)
  BY <1>1, <1>3, <1>4, EndAhead
<1>6. Closing(type) # ","
  BY Brackets
<1>7. CASE EndContainer
  <2>1. Tok = Closing(type) /\ pc' = "after" /\ stack' = Pop
    BY <1>1, <1>4, <1>7 DEF EndContainer
  <2>2. Len(stack') = Len(stack) - 1 /\ \A m \in 1 .. Len(stack') : stack'[m] = stack[m]
    BY <1>1, <1>3, <2>1, Popped
  <2>3. PICK Q : Ending(Q)' /\ Q[Len(stack')] = t
    <3>1. Len(stack') \in Nat /\ Len(stack') <= Len(stack) /\ Len(stack) \in Nat
      BY <1>3, <2>2
    <3>2. QED
      BY <1>3, <1>4, <2>2, <3>1, EndingCut
  <2>4. FollowsAt(at', t)
    BY <1>5, <1>6, <2>1
  <2>5. QED
    BY <1>1, <2>1, <2>3, <2>4, ForeseenNext
<1>8. CASE NextChild
  <2>1. /\ Tok = "," /\ pc' = IF type = "Array" THEN "value" ELSE "name"
        /\ stack' = [stack EXCEPT ![Len(stack)] = [Top EXCEPT !.child = New]]
    BY <1>4, <1>8 DEF NextChild, Descend, SetTop
  <2>2. PICK x \in One(type), u \in Seq(Tokens) : Ends(type, u, t) /\ FollowsAt(at', x \o u)
    BY <1>5, <1>6, <2>1
  <2>3. PICK f \in ParseFrame : f = [Top EXCEPT !.child = New] /\ f.type = type
    <3>1. Top \in ParseFrame /\ Top.type = type
      BY <1>3, <1>4
    <3>2. New \in Nat
      BY <1>1, WhileParsing DEF Parsing
    <3>3. [Top EXCEPT !.child = New] \in ParseFrame /\ [Top EXCEPT !.child = New].type = type
      BY <3>1, <3>2 DEF ParseFrame
    <3>4. QED
      BY <3>3
  <2>4. /\ Len(stack') = Len(stack)
        /\ \A m \in 1 .. Len(stack) : stack'[m] = IF m = Len(stack) THEN f ELSE stack[m]
    <3>1. Len(stack) \in 1 .. Len(stack) /\ stack \in Seq(ParseFrame)
      BY <1>3
    <3>2. stack' = [stack EXCEPT ![Len(stack)] = f]
      BY <2>1, <2>3
    <3>3. QED
      BY <3>1, <3>2, ExceptSeq
  <2>5. /\ Len(stack') \in Nat /\ Len(stack) \in Nat /\ Len(stack') # 0 /\ Len(stack') <= Len(stack) + 1
        /\ \A m \in 1 .. Len(stack') : m < Len(stack') => stack'[m] = stack[m]
        /\ stack'[Len(stack')].type = type
        /\ Ends(type, u, R[Len(stack') - 1])
    <3>1. PICK n \in Nat \ {0} : n = Len(stack)
      BY <1>3
    <3>2. R[n - 1] = t
      BY <1>4, <3>1
    <3>3. Len(stack') = n /\ \A m \in 1 .. n : stack'[m] = IF m = n THEN f ELSE stack[m]
      BY <2>4, <3>1
    <3>4. n \in 1 .. n /\ n <= n + 1
      OBVIOUS
    <3>5. Ends(type, u, R[Len(stack') - 1])
      BY <2>2, <3>2, <3>3
    <3>6. \A m \in 1 .. n : m < n => stack'[m] = stack[m]
      BY <3>3
    <3>7. stack'[n].type = type
      BY <2>3, <3>3, <3>4
    <3>8. QED
      BY <3>1, <3>3, <3>4, <3>5, <3>6, <3>7
  <2>6. PICK Q : Ending(Q)' /\ Q[Len(stack')] = u
    BY <1>3, <2>2, <2>5, EndingChanged
  <2>7. QED
    BY <1>1, <2>1, <2>2, <2>5, <2>6, ForeseenChild
<1>9. QED
  BY <1>7, <1>8

\* At the start the whole document is to come.
LEMMA ForeseenFirst ==
  ASSUME Here, at = 1, Begins, text' = text, at' = 1, stack' = <<>>, pc' = "value"
  PROVE  Foreseen'
<1>1. PICK k \in 1 .. Len(text) : SubSeq(text, 1, k) \in Documents
  BY DEF Begins
<1>2. PICK T : text \in Seq(T)
  BY TextsAssumption DEF Here
<1>3. PICK d \in Documents : d = SubSeq(text, 1, k)
  BY <1>1
<1>4. /\ Len(text) \in Nat /\ k \in Nat /\ k >= 1 /\ k <= Len(text)
      /\ \A i \in 1 .. k : text[i] \in T
  BY <1>2, ElementOfSeq
<1>5. Len(d) = k /\ \A i \in 1 .. k : d[i] = text[i]
  <2>1. /\ Len(d) = k - 1 + 1
        /\ \A i \in 1 .. k - 1 + 1 : d[i] = text[1 + i - 1]
    BY <1>3, <1>4, SubSeqProperties
  <2>2. \A i \in 1 .. k : i \in 1 .. k - 1 + 1 /\ 1 + i - 1 = i
    BY <1>4
  <2>3. QED
    BY <1>4, <2>1, <2>2
<1>6. FollowsAt(1, d)
  <2>1. \A i \in 1 .. k : 1 - 1 + i = i /\ i <= Len(text)
    BY <1>4
  <2>2. d \in Seq(Tokens)
    BY PhrasesAre
  <2>3. QED
    BY <1>5, <2>1, <2>2 DEF FollowsAt
<1>7. PICK r, R : r \in Seq(Tokens) /\ r = <<>> /\ R = [m \in 0 .. 0 |-> r]
  BY TextsJoin
<1>8. Ending(R)'
  BY <1>7 DEF Ending
<1>9. d = d \o r
  <2>1. d \in Seq(Tokens)
    BY PhrasesAre
  <2>2. QED
    BY <1>7, <2>1, TextsJoin
<1>10. r = R[Len(stack')]
  BY <1>7
<1>11. QED
  BY <1>6, <1>8, <1>9, <1>10, ForeseenNext

LEMMA AheadInit == Init => AheadInv
BY DEF Init, AheadInv, Here

\* So the invariant is kept.
LEMMA AheadNext ==
  ASSUME IInv, AheadInv, [Next]_vars
  PROVE  AheadInv'
<1> DEFINE steps == {"value", "name", "colon", "after"}
<1>1. Here /\ text' = text
  BY DEF AheadInv, Next, vars, Parse, ParseScalar, ParseString, ParseEmpty, ParseContainer, ParseName,
       ParseColon, NextChild, EndContainer, Parsed, ParseNoMemory, Malformed, ScanPastEnd, GiveUp, Read,
       PrintItem, PrintNothing, PrintLeaf, PrintContainer, PrintName, PrintNext, PrintEnds, Release, Ended
<1>2. Begins' = Begins
  BY <1>1 DEF Begins
<1>3. ASSUME pc \in steps, pc' \in steps, at' \in Nat \ {0}, Begins => (Foreseen => Foreseen')
      PROVE  AheadInv'
  <2>1. Begins => Foreseen
    BY <1>3 DEF AheadInv
  <2>2. pc' # "start" /\ pc' # "null"
    BY <1>3
  <2>3. QED
    BY <1>1, <1>2, <1>3, <2>1, <2>2 DEF AheadInv, Here
<1>4. at + 1 \in Nat \ {0} /\ at + 2 \in Nat \ {0}
  BY <1>1 DEF Here
<1>5. CASE ParseScalar \/ ParseString \/ ParseEmpty
  <2>1. pc \in steps /\ pc' \in steps /\ at' \in {at + 1, at + 2}
    BY <1>5 DEF ParseScalar, ParseString, ParseEmpty, Read
  <2>2. QED
    BY <1>1, <1>3, <1>4, <1>5, <2>1, ForeseenValue
<1>6. CASE ParseName
  <2>1. pc \in steps /\ pc' \in steps /\ at' = at + 1
    BY <1>6 DEF ParseName, Read
  <2>2. QED
    BY <1>1, <1>3, <1>4, <1>6, <2>1, ForeseenName
<1>7. CASE ParseColon
  <2>1. pc \in steps /\ pc' \in steps /\ at' = at + 1
    BY <1>7 DEF ParseColon, Read
  <2>2. QED
    BY <1>1, <1>3, <1>4, <1>7, <2>1, ForeseenColon
<1>8. CASE ParseContainer
  <2>1. pc \in steps /\ pc' \in steps /\ at' = at + 1
    BY <1>8 DEF ParseContainer, Read, Descend
  <2>2. QED
    BY <1>1, <1>3, <1>4, <1>8, <2>1, ForeseenContainer
<1>9. CASE EndContainer \/ NextChild
  <2>1. pc \in steps /\ pc' \in steps /\ at' = at + 1
    BY <1>9 DEF EndContainer, NextChild, Read, Descend
  <2>2. QED
    BY <1>1, <1>3, <1>4, <1>9, <2>1, ForeseenEnd
<1>10. CASE Parse
  <2>1. pc = "start" /\ at = 1 /\ at' = 1 /\ pc' \in {"value", "null"}
    BY <1>10 DEF Parse, AheadInv
  <2>2. CASE pc' = "null"
    <3>1. oom' = TRUE
      BY <1>10, <2>2 DEF Parse
    <3>2. QED
      BY <1>1, <2>1, <2>2, <3>1 DEF AheadInv, Here
  <2>3. CASE pc' = "value"
    <3>1. stack' = <<>>
      BY <1>10, <2>1 DEF Parse, IInv, IdleInv
    <3>2. Begins => Foreseen'
      BY <1>1, <2>1, <2>3, <3>1, ForeseenFirst
    <3>3. QED
      BY <1>1, <1>2, <2>1, <2>3, <3>2 DEF AheadInv, Here
  <2>4. QED
    BY <2>1, <2>2, <2>3
<1>11. CASE Malformed
  <2>1. pc \in steps /\ pc' = "null" /\ at' = at
    BY <1>11 DEF Malformed, GiveUp
  <2>2. ~Begins
    BY <1>1, <1>11, <2>1, NotMalformed DEF AheadInv
  <2>3. QED
    BY <1>1, <1>2, <2>1, <2>2 DEF AheadInv, Here
<1>12. CASE ParseNoMemory
  <2>1. pc' = "null" /\ at' = at /\ oom' = TRUE
    BY <1>12 DEF ParseNoMemory, GiveUp
  <2>2. QED
    BY <1>1, <2>1 DEF AheadInv, Here
<1>13. CASE UNCHANGED vars
  <2>1. Foreseen' = Foreseen
    BY <1>13 DEF vars, Foreseen, Ending, Expected, FollowsAt
  <2>2. QED
    BY <1>1, <1>2, <1>13, <2>1 DEF AheadInv, Here, vars
<1>14. CASE Parsed \/ ScanPastEnd \/ PrintItem \/ PrintNothing \/ PrintLeaf \/ PrintContainer \/ PrintName
            \/ PrintNext \/ PrintEnds \/ Release
  <2>1. at' = at /\ pc' \notin steps \cup {"start", "null"}
    BY <1>14 DEF Parsed, ScanPastEnd, PrintItem, PrintNothing, PrintLeaf, PrintContainer, PrintName,
         PrintNext, PrintEnds, Release, ReturnNew, ReturnNull
  <2>2. QED
    BY <1>1, <2>1 DEF AheadInv, Here
<1>15. QED
  BY <1>5, <1>6, <1>7, <1>8, <1>9, <1>10, <1>11, <1>12, <1>13, <1>14 DEF Next, Ended

-----------------------------------------------------------------------------
(* The value of the tree is what was read.                                 *)

\* A string without its closing quote is heard as a whole one.
Said(k) == IF text[k] = "open" THEN OpenText ELSE text[k]

\* The root and the children under way in the containers around it.
Path(m) == IF m = 0 THEN root ELSE stack[m].child
Reaching == {"value", "name", "colon"}

\* Item i is read from position st[i] on, its value from vs[i] on; ve[i] is the
\* position behind the value, and 0 before that is known; par[i] is the
\* container that it stands in.
NameAt(i, st, vs) ==
  /\ st[i] # 0 /\ vs[i] = IF Labelled(i) THEN st[i] + 2 ELSE st[i]
  /\ heap[i].string # 0 =>
       /\ heap[heap[i].string].text = <<Said(st[i])>>
       /\ ~(pc = "colon" /\ i = cur) => Said(st[i] + 1) = ":"
ValueAt(i, vs, ve) ==
  ve[i] # 0 =>
    CASE heap[i].type = "Scalar" -> ve[i] = vs[i] + 1 /\ heap[i].value = Said(vs[i])
      [] heap[i].type = "String" -> ve[i] = vs[i] + 1 /\ heap[heap[i].valuestring].text = <<Said(vs[i])>>
      [] OTHER -> /\ Said(ve[i] - 1) = Closing(heap[i].type)
                  /\ heap[i].child = 0 => ve[i] = vs[i] + 2 /\ Said(vs[i]) = Opened(heap[i].type)
ChildAt(i, st, vs, par) ==
  heap[i].child # 0 =>
    Said(vs[i]) = Opened(heap[i].type) /\ st[heap[i].child] = vs[i] + 1 /\ par[heap[i].child] = i
NextAt(i, st, ve, par) ==
  heap[i].next # 0 =>
    ve[i] # 0 /\ Said(ve[i]) = "," /\ st[heap[i].next] = ve[i] + 1 /\ par[heap[i].next] = par[i]
ParentAt(i, ve, par) ==
  i # root =>
    /\ heap[par[i]].child # 0
    /\ heap[i].next = 0 =>
         /\ ve[par[i]] # 0 => ve[i] # 0 /\ ve[par[i]] = ve[i] + 1
         /\ \A m \in 1 .. Len(stack) : par[i] = Path(m - 1) => i = Path(m)
ItemAt(i, st, vs, ve, par) ==
  /\ NameAt(i, st, vs) /\ ValueAt(i, vs, ve) /\ ChildAt(i, st, vs, par)
  /\ NextAt(i, st, ve, par) /\ ParentAt(i, ve, par)
\* Of the items, those under way have no end yet.
PathAt(vs, ve, par) ==
  /\ heap[root].next = 0 /\ vs[root] = 1
  /\ \A m \in 1 .. Len(stack) :
       /\ par[Path(m)] = Path(m - 1) /\ Path(m) # root
       /\ ve[Path(m - 1)] = 0 /\ heap[Path(m - 1)].type = stack[m].type
  /\ \A i \in ItemIds :
       ve[i] = 0 => (\E m \in 1 .. Len(stack) : i = Path(m - 1)) \/ (pc \in Reaching /\ i = cur)
  /\ pc \in Reaching =>
       /\ cur = Path(Len(stack)) /\ ve[cur] = 0
       /\ vs[cur] = CASE pc = "value" -> at [] pc = "name" -> at + 2 [] pc = "colon" -> at + 1
  /\ pc \notin Reaching => ve[Path(Len(stack))] = at
Spans(st, vs, ve, par) ==
  /\ st \in [ItemIds -> Nat] /\ vs \in [ItemIds -> Nat] /\ ve \in [ItemIds -> Nat]
  /\ par \in [ItemIds -> ItemIds]
  /\ \A i \in ItemIds : ItemAt(i, st, vs, ve, par) /\ ve[i] <= at
  /\ PathAt(vs, ve, par)

TrackInv ==
  /\ pc \in Reading => at <= Len(text) + 1 /\ \E st, vs, ve, par : Spans(st, vs, ve, par)
  /\ pc \in Printing => Short

\* The items under way are different ones.
LEMMA PathApart ==
  ASSUME IInv, pc \in Reading, NEW vs, NEW ve, NEW par, PathAt(vs, ve, par)
  PROVE  /\ Len(stack) \in Nat
         /\ \A m \in 0 .. Len(stack) : Path(m) \in ItemIds /\ heap[Path(m)].next = 0
         /\ \A m, k \in 0 .. Len(stack) : Path(m) = Path(k) => m = k
<1>1. pc \in Parsing
  BY DEF Reading, Parsing
<1>2. /\ Len(stack) \in Nat /\ root \in ItemIds
      /\ \A m \in 1 .. Len(stack) : stack[m].child \in ItemIds /\ heap[stack[m].child].next = 0
      /\ \A m, n \in 1 .. Len(stack) : m < n => stack[m].child < stack[n].child
  BY <1>1, WhileParsing DEF IInv, ParseInv, HeapInv
<1>3. ItemIds \subseteq Nat
  BY <1>1, WhileParsing DEF ItemIds
<1>4. PICK n \in Nat : n = Len(stack)
  BY <1>2
<1>5. \A m \in 1 .. n : Path(m) = stack[m].child /\ Path(m) # root /\ Path(m) \in Nat
  BY <1>2, <1>3, <1>4 DEF PathAt, Path
<1>6. \A m, k \in 1 .. n : Path(m) = Path(k) => m = k
  BY <1>2, <1>4, <1>5
<1>7. Path(0) = root
  BY DEF Path
<1>8. \A m \in 0 .. n : m = 0 \/ m \in 1 .. n
  OBVIOUS
<1>9. \A m, k \in 0 .. n : Path(m) = Path(k) => m = k
  BY <1>5, <1>6, <1>7, <1>8
<1>10. heap[root].next = 0
  BY DEF PathAt
<1>11. \A m \in 0 .. n : Path(m) \in ItemIds /\ heap[Path(m)].next = 0
  BY <1>2, <1>4, <1>5, <1>7, <1>8, <1>10
<1>12. QED
  BY <1>4, <1>9, <1>11

\* What the clauses about an item say stays if what they speak of stays.
LEMMA NameKept ==
  ASSUME IInv, TreeInv, pc \in Reading, NEW i \in ItemIds, text' = text,
         \A j \in Others : heap'[j] = heap[j],
         NEW st, NEW vs, NEW st2, NEW vs2, NameAt(i, st, vs), st2[i] = st[i], vs2[i] = vs[i],
         heap'[i].string = heap[i].string, Labelled(i)' <=> Labelled(i), pc # "colon" \/ i # cur
  PROVE  NameAt(i, st2, vs2)'
<1>1. Linked(i)
  BY WhileReading DEF HeapInv
<1>2. \A k : Said(k)' = Said(k)
  BY DEF Said
<1>3. heap[i].string # 0 => heap'[heap[i].string] = heap[heap[i].string]
  BY <1>1 DEF Linked
<1>4. st2[i] # 0 /\ vs2[i] = IF Labelled(i)' THEN st2[i] + 2 ELSE st2[i]
  BY DEF NameAt
<1>5. ASSUME heap'[i].string # 0
      PROVE  heap'[heap'[i].string].text = <<Said(st2[i])'>> /\ Said(st2[i] + 1)' = ":"
  BY <1>2, <1>3, <1>5 DEF NameAt
<1>6. QED
  BY <1>4, <1>5 DEF NameAt

LEMMA ValueKept ==
  ASSUME IInv, TreeInv, pc \in Reading, NEW i \in ItemIds, text' = text,
         \A j \in Others : heap'[j] = heap[j],
         NEW vs, NEW ve, NEW vs2, NEW ve2, ValueAt(i, vs, ve), vs2[i] = vs[i], ve2[i] = ve[i],
         heap'[i].type = heap[i].type, heap'[i].value = heap[i].value,
         heap'[i].valuestring = heap[i].valuestring, heap'[i].child = heap[i].child,
         ve[i] # 0 => ~Unread(i)
  PROVE  ValueAt(i, vs2, ve2)'
<1>1. Linked(i) /\ TreeItem(i)
  BY WhileReading DEF HeapInv
<1>2. \A k : Said(k)' = Said(k)
  BY DEF Said
<1>3. heap[i].valuestring # 0 => heap'[heap[i].valuestring] = heap[heap[i].valuestring]
  BY <1>1 DEF Linked
<1>4. ve[i] # 0 => (heap[i].type = "String" => heap[i].valuestring # 0)
  BY <1>1 DEF TreeItem, IsRead
<1>5. QED
  BY <1>2, <1>3, <1>4 DEF ValueAt

LEMMA ChildKept ==
  ASSUME IInv, pc \in Reading, NEW i \in ItemIds, text' = text,
         NEW st, NEW vs, NEW par, NEW st2, NEW vs2, NEW par2, ChildAt(i, st, vs, par), vs2[i] = vs[i],
         \A j \in ItemIds : st2[j] = st[j] /\ par2[j] = par[j],
         heap'[i].child = heap[i].child, heap'[i].type = heap[i].type
  PROVE  ChildAt(i, st2, vs2, par2)'
<1>1. Linked(i)
  BY DEF IInv, HeapInv
<1>2. \A k : Said(k)' = Said(k)
  BY DEF Said
<1>3. QED
  BY <1>1, <1>2 DEF ChildAt, Linked

LEMMA NextKept ==
  ASSUME IInv, pc \in Reading, NEW i \in ItemIds, text' = text,
         NEW st, NEW ve, NEW par, NEW st2, NEW ve2, NEW par2, NextAt(i, st, ve, par), ve2[i] = ve[i],
         \A j \in ItemIds : st2[j] = st[j] /\ par2[j] = par[j],
         heap'[i].next = heap[i].next
  PROVE  NextAt(i, st2, ve2, par2)'
<1>1. Linked(i)
  BY DEF IInv, HeapInv
<1>2. \A k : Said(k)' = Said(k)
  BY DEF Said
<1>3. QED
  BY <1>1, <1>2 DEF NextAt, Linked

\* An item that is left alone.
LEMMA SpanKept ==
  ASSUME IInv, TreeInv, pc \in Reading, NEW i \in ItemIds, text' = text,
         \A j \in Others : heap'[j] = heap[j], heap'[i] = heap[i],
         NEW st, NEW vs, NEW ve, NEW par, Spans(st, vs, ve, par),
         NEW st2, NEW vs2, NEW ve2, NEW par2, ve2[i] = ve[i],
         \A j \in ItemIds : st2[j] = st[j] /\ vs2[j] = vs[j] /\ par2[j] = par[j],
         Labelled(i)' <=> Labelled(i), pc # "colon" \/ i # cur, ParentAt(i, ve2, par2)'
  PROVE  ItemAt(i, st2, vs2, ve2, par2)'
<1>1. NameAt(i, st, vs) /\ ValueAt(i, vs, ve) /\ ChildAt(i, st, vs, par) /\ NextAt(i, st, ve, par)
  BY DEF Spans, ItemAt
<1>2. ve[i] # 0 => ~Unread(i)
  BY DEF Unread, Spans, PathAt, Reaching
<1>3. NameAt(i, st2, vs2)'
  BY <1>1, NameKept
<1>4. ValueAt(i, vs2, ve2)'
  BY <1>1, <1>2, ValueKept
<1>5. ChildAt(i, st2, vs2, par2)'
  BY <1>1, ChildKept
<1>6. NextAt(i, st2, ve2, par2)'
  BY <1>1, NextKept
<1>7. QED
  BY <1>3, <1>4, <1>5, <1>6 DEF ItemAt

\* The items under way stay so if the stack does.
LEMMA PathStays ==
  ASSUME stack' = stack, root' = root
  PROVE  \A m : Path(m)' = Path(m)
BY DEF Path

\* The item under way gets its value.
LEMMA ValueSpan ==
  ASSUME IInv, TreeInv, Here, pc = "value", NEW item \in ItemSet,
         \A i \in Ids : heap'[i] = IF i = cur THEN item ELSE heap[i],
         item.string = heap[cur].string, item.next = heap[cur].next, item.child = 0,
         ItemIds' = ItemIds, cur' = cur, stack' = stack, pc' = "after", text' = text, root' = root,
         NEW n \in {1, 2}, at' = at + n, at' <= Len(text) + 1,
         item.type = "Scalar" => n = 1 /\ item.value = Said(at),
         item.type = "String" => n = 1 /\ heap'[item.valuestring].text = <<Said(at)>>,
         item.type \notin {"Scalar", "String"} =>
           n = 2 /\ Said(at + 1) = Closing(item.type) /\ Said(at) = Opened(item.type),
         NEW st, NEW vs, NEW ve, NEW par, Spans(st, vs, ve, par)
  PROVE  \E ve2 : Spans(st, vs, ve2, par)'
<1>1. /\ HeapInv /\ ItemIds \subseteq Ids /\ Others \subseteq Ids /\ cur \in ItemIds /\ cur \notin Others
      /\ pc \in Reading /\ pc \in Parsing /\ heap[cur].child = 0
  BY WhileReading DEF Reading, Parsing, IInv, ParseInv
<1>2. PICK c \in ItemIds, a \in Nat \ {0} : c = cur /\ a = at
  BY <1>1 DEF Here
<1>3. PICK ve2 : ve2 = [i \in ItemIds |-> IF i = c THEN a + n ELSE ve[i]]
  OBVIOUS
<1>4. /\ ve \in [ItemIds -> Nat] /\ vs \in [ItemIds -> Nat] /\ st \in [ItemIds -> Nat]
      /\ par \in [ItemIds -> ItemIds]
      /\ PathAt(vs, ve, par) /\ \A i \in ItemIds : ItemAt(i, st, vs, ve, par)
  BY DEF Spans
<1>5. ve2 \in [ItemIds -> Nat] /\ ve2[c] = a + n /\ a + n # 0 /\ a + n = at' /\ \A i \in ItemIds : i # c => ve2[i] = ve[i]
  BY <1>2, <1>3, <1>4
<1>6. /\ Len(stack) \in Nat /\ \A m \in 0 .. Len(stack) : Path(m) \in ItemIds
      /\ \A m, k \in 0 .. Len(stack) : Path(m) = Path(k) => m = k
      /\ c = Path(Len(stack)) /\ ve[c] = 0 /\ vs[c] = a
  <2>1. /\ Len(stack) \in Nat /\ \A m \in 0 .. Len(stack) : Path(m) \in ItemIds
        /\ \A m, k \in 0 .. Len(stack) : Path(m) = Path(k) => m = k
    BY <1>1, <1>4, PathApart
  <2>2. c = Path(Len(stack)) /\ ve[c] = 0 /\ vs[c] = a
    BY <1>2, <1>4 DEF PathAt, Reaching
  <2>3. QED
    BY <2>1, <2>2
<1>7. /\ \A k : Said(k)' = Said(k) 
      /\ \A m : Path(m)' = Path(m)
  BY PathStays DEF Said
<1>8. \A i \in ItemIds : heap'[i] = (IF i = c THEN item ELSE heap[i]) /\ (Labelled(i)' <=> Labelled(i))
  BY <1>1, <1>2 DEF Labelled
<1>9. \A j \in Others : heap'[j] = heap[j]
  BY <1>1
<1>10. ASSUME NEW i \in ItemIds, i # c PROVE ItemAt(i, st, vs, ve2, par)'
  <2>1. heap'[i] = heap[i] /\ ve2[i] = ve[i] /\ par[i] \in ItemIds /\ (Labelled(i)' <=> Labelled(i))
    BY <1>4, <1>5, <1>8, <1>10
  <2>2. ParentAt(i, ve2, par)'
    <3>1. ParentAt(i, ve, par)
      BY <1>4 DEF ItemAt
    <3>2. CASE par[i] = c
      BY <1>1, <1>2, <3>1, <3>2 DEF ParentAt
    <3>3. CASE par[i] # c
      <4>1. heap'[par[i]] = heap[par[i]] /\ ve2[par[i]] = ve[par[i]]
        BY <1>5, <1>8, <2>1, <3>3
      <4>2. QED
        BY <1>7, <2>1, <3>1, <4>1 DEF ParentAt
    <3>4. QED
      BY <3>2, <3>3
  <2>3. QED
    BY <1>1, <1>9, <2>1, <2>2, SpanKept
<1>11. ItemAt(c, st, vs, ve2, par)'
  <2>1. heap'[c] = item /\ par[c] \in ItemIds /\ (Labelled(c)' <=> Labelled(c))
    BY <1>4, <1>8
  <2>2. NameAt(c, st, vs)'
    <3>1. NameAt(c, st, vs) /\ heap'[c].string = heap[c].string
      BY <1>2, <1>4, <2>1 DEF ItemAt
    <3>2. QED
      BY <1>1, <1>9, <2>1, <3>1, NameKept
  <2>3. ValueAt(c, vs, ve2)'
    <3>1. item.type \in {"Scalar", "String", "Array", "Object"}
      BY DEF ItemSet
    <3>2. CASE item.type = "Scalar"
      BY <1>2, <1>5, <1>6, <1>7, <2>1, <3>2 DEF ValueAt
    <3>3. CASE item.type = "String"
      BY <1>2, <1>5, <1>6, <1>7, <2>1, <3>3 DEF ValueAt
    <3>4. CASE item.type \notin {"Scalar", "String"}
      <4>1. a + n - 1 = at + 1 /\ a + n = a + 2
        BY <1>2, <3>4
      <4>2. QED
        BY <1>2, <1>5, <1>6, <1>7, <2>1, <3>4, <4>1 DEF ValueAt
    <3>5. QED
      BY <3>2, <3>3, <3>4
  <2>4. ChildAt(c, st, vs, par)'
    BY <2>1 DEF ChildAt
  <2>5. heap[c].next = 0
    BY <1>1, <1>4, <1>6, PathApart
  <2>6. NextAt(c, st, ve2, par)'
    BY <1>2, <2>1, <2>5 DEF NextAt
  <2>7. ParentAt(c, ve2, par)'
    <3>1. ParentAt(c, ve, par)
      BY <1>4 DEF ItemAt
    <3> SUFFICES ASSUME c # root PROVE ParentAt(c, ve2, par)'
      BY DEF ParentAt
    <3>2. par[c] # c
      BY <1>1, <1>2, <3>1 DEF ParentAt
    <3>3. heap'[par[c]] = heap[par[c]] /\ ve2[par[c]] = ve[par[c]]
      BY <1>5, <1>8, <2>1, <3>2
    <3>4. ve[par[c]] = 0
      BY <1>6, <2>5, <3>1 DEF ParentAt
    <3>5. QED
      BY <1>7, <2>5, <3>1, <3>3, <3>4 DEF ParentAt
  <2>8. QED
    BY <2>2, <2>3, <2>4, <2>6, <2>7 DEF ItemAt
<1>12. PathAt(vs, ve2, par)'
  <2>1. heap'[root].next = 0 /\ vs[root] = 1
    <3>1. root \in ItemIds
      BY <1>6 DEF Path
    <3>2. QED
      BY <1>2, <1>4, <1>8, <3>1 DEF PathAt
  <2>2. ASSUME NEW m \in 1 .. Len(stack)
        PROVE  /\ par[Path(m)] = Path(m - 1) /\ Path(m) # root
               /\ ve2[Path(m - 1)] = 0 /\ heap'[Path(m - 1)].type = stack[m].type
    <3>1. m - 1 \in 0 .. Len(stack) /\ m - 1 # Len(stack) /\ Len(stack) \in 0 .. Len(stack)
      BY <1>6
    <3>2. Path(m - 1) \in ItemIds /\ Path(m - 1) # c
      BY <1>6, <3>1
    <3>3. QED
      BY <1>4, <1>5, <1>8, <3>2 DEF PathAt
  <2>3. ASSUME NEW i \in ItemIds, ve2[i] = 0 PROVE \E m \in 1 .. Len(stack) : i = Path(m - 1)
    BY <1>2, <1>4, <1>5, <2>3 DEF PathAt
  <2>4. ve2[Path(Len(stack))] = at'
    BY <1>5, <1>6
  <2>5. pc' \notin Reaching
    BY DEF Reaching
  <2>6. QED
    BY <1>7, <2>1, <2>2, <2>3, <2>4, <2>5 DEF PathAt
<1>13. ASSUME NEW i \in ItemIds PROVE ItemAt(i, st, vs, ve2, par)' /\ ve2[i] <= at'
  <2>1. ve2[i] <= at'
    <3>1. ve[i] \in Nat /\ ve[i] <= a /\ a + n = at' /\ (ve2[i] = a + n \/ ve2[i] = ve[i])
      BY <1>2, <1>4, <1>5 DEF Spans
    <3>2. QED
      BY <3>1
  <2>2. QED
    BY <1>10, <1>11, <2>1
<1>14. Spans(st, vs, ve2, par)'
  BY <1>4, <1>5, <1>12, <1>13 DEF Spans
<1>15. QED
  BY <1>14

\* What is said where the parser stands.
LEMMA SaidHere ==
  ASSUME Here, Tok # "NUL"
  PROVE  /\ at \in Nat \ {0} /\ Len(text) \in Nat /\ at <= Len(text) /\ text[at] = Tok
         /\ Content(Tok) = <<Said(at)>> /\ (Tok # "open" => Said(at) = Tok)
         /\ Ahead # "NUL" /\ Ahead # "open" => at + 1 <= Len(text) /\ Said(at + 1) = Ahead
<1>1. at \in Nat \ {0} /\ Len(text) \in Nat
  BY TextsAssumption DEF Here
<1>2. at <= Len(text) /\ text[at] = Tok
  BY <1>1 DEF Tok
<1>3. Content(Tok) = <<Said(at)>> /\ (Tok # "open" => Said(at) = Tok)
  BY <1>2 DEF Content, Said
<1>4. Ahead # "NUL" /\ Ahead # "open" => at + 1 <= Len(text) /\ Said(at + 1) = Ahead
  BY <1>1 DEF Ahead, Said
<1>5. QED
  BY <1>1, <1>2, <1>3, <1>4

\* What the reading steps have to show.
LEMMA StillReading ==
  ASSUME pc' \in Reading, at' <= Len(text') + 1, NEW st, NEW vs, NEW ve, NEW par, Spans(st, vs, ve, par)'
  PROVE  TrackInv'
<1>1. pc' \notin Printing
  BY DEF Reading, Printing
<1>2. (\E s, v, e, p : Spans(s, v, e, p))'
  OBVIOUS
<1>3. QED
  BY <1>1, <1>2 DEF TrackInv

LEMMA ScalarSpan ==
  ASSUME IInv, TreeInv, Here, TrackInv, ParseScalar
  PROVE  TrackInv'
<1>1. pc = "value" /\ pc \in Parsing /\ pc \in Reading /\ heap[cur].child = 0
  BY DEF ParseScalar, Parsing, Reading, IInv, ParseInv
<1> DEFINE item == [heap[cur] EXCEPT !.type = "Scalar", !.value = Tok]
<1>2. /\ item \in ItemSet /\ item.string = heap[cur].string /\ item.next = heap[cur].next
      /\ item.child = 0 /\ item.type = "Scalar" /\ item.value = Tok
  BY <1>1, WhileParsing DEF ItemSet, ParseScalar
<1>3. heap' = [heap EXCEPT ![cur] = item]
  BY <1>1, WhileParsing DEF ParseScalar, HeapInv
<1> HIDE DEF item
<1>4. /\ Len(heap') = Len(heap)
      /\ \A i \in Ids : heap'[i] = IF i = cur THEN item ELSE heap[i]
  <2>1. IsSeq(heap) /\ cur \in Ids
    BY <1>1, WhileParsing DEF HeapInv
  <2>2. QED
    BY <1>3, <2>1, Changed
<1>5. ItemIds' = ItemIds
  BY <1>1, <1>2, <1>4, WhileParsing, Kinds DEF ItemIds, Ids, IsItem
<1>6. /\ cur' = cur /\ stack' = stack /\ pc' = "after" /\ text' = text /\ root' = root
      /\ at' = at + 1
  BY DEF ParseScalar, Read
<1>7. Tok # "NUL" /\ Tok # "open"
  BY Distinct DEF ParseScalar
<1>8. Said(at) = Tok /\ at + 1 <= Len(text) + 1 /\ 1 \in {1, 2}
  BY <1>7, SaidHere
<1>9. PICK st, vs, ve, par : Spans(st, vs, ve, par)
  BY <1>1 DEF TrackInv
<1>10. \E ve2 : Spans(st, vs, ve2, par)'
  BY <1>1, <1>2, <1>4, <1>5, <1>6, <1>8, <1>9, ValueSpan
<1>11. QED
  BY <1>6, <1>8, <1>10, StillReading DEF Reading

LEMMA StringSpan ==
  ASSUME IInv, TreeInv, Here, TrackInv, ParseString
  PROVE  TrackInv'
<1>1. pc = "value" /\ pc \in Parsing /\ pc \in Reading /\ heap[cur].child = 0
  BY DEF ParseString, Parsing, Reading, IInv, ParseInv
<1> DEFINE item == [heap[cur] EXCEPT !.type = "String", !.valuestring = New]
           b == Chars(Content(Tok))
<1>2. /\ item \in ItemSet /\ item.string = heap[cur].string /\ item.next = heap[cur].next
      /\ item.child = 0 /\ item.valuestring = New /\ item.type = "String"
  BY <1>1, WhileParsing DEF ItemSet
<1>3. heap' = Append([heap EXCEPT ![cur] = item], b)
  BY <1>1, WhileParsing DEF ParseString, HeapInv
<1>4. "type" \notin DOMAIN b /\ b.text = Content(Tok)
  BY Kinds DEF Chars
<1> HIDE DEF item, b
<1>5. Grows(cur, item, b)
  <2>1. IsSeq(heap) /\ cur \in Ids
    BY <1>1, WhileParsing DEF HeapInv
  <2>2. QED
    BY <1>3, <2>1, Grown
<1>6. ItemIds' = ItemIds
  BY <1>1, <1>2, <1>4, <1>5, WhileParsing, GrownItems
<1>7. /\ cur' = cur /\ stack' = stack /\ pc' = "after" /\ text' = text /\ root' = root
      /\ at' = at + 1
  BY DEF ParseString, Read
<1>8. /\ \A i \in Ids : heap'[i] = IF i = cur THEN item ELSE heap[i]
      /\ heap'[item.valuestring].text = Content(Tok)
  BY <1>2, <1>4, <1>5 DEF Grows
<1>9. Tok # "NUL"
  BY Distinct DEF ParseString, IsString
<1>10. Content(Tok) = <<Said(at)>> /\ at + 1 <= Len(text) + 1 /\ 1 \in {1, 2}
  BY <1>9, SaidHere
<1>11. PICK st, vs, ve, par : Spans(st, vs, ve, par)
  BY <1>1 DEF TrackInv
<1>12. \E ve2 : Spans(st, vs, ve2, par)'
  BY <1>1, <1>2, <1>6, <1>7, <1>8, <1>10, <1>11, ValueSpan
<1>13. QED
  BY <1>7, <1>10, <1>12, StillReading DEF Reading

LEMMA EmptySpan ==
  ASSUME IInv, TreeInv, Here, TrackInv, ParseEmpty
  PROVE  TrackInv'
<1>1. pc = "value" /\ pc \in Parsing /\ pc \in Reading /\ heap[cur].child = 0
  BY DEF ParseEmpty, Parsing, Reading, IInv, ParseInv
<1> DEFINE item == [heap[cur] EXCEPT !.type = TypeOf(Tok)]
<1>2. /\ item \in ItemSet /\ item.string = heap[cur].string /\ item.next = heap[cur].next
      /\ item.child = 0 /\ item.type = TypeOf(Tok)
  BY <1>1, WhileParsing DEF ItemSet, TypeOf
<1>3. heap' = [heap EXCEPT ![cur] = item]
  BY <1>1, WhileParsing DEF ParseEmpty, HeapInv
<1> HIDE DEF item
<1>4. /\ Len(heap') = Len(heap)
      /\ \A i \in Ids : heap'[i] = IF i = cur THEN item ELSE heap[i]
  <2>1. IsSeq(heap) /\ cur \in Ids
    BY <1>1, WhileParsing DEF HeapInv
  <2>2. QED
    BY <1>3, <2>1, Changed
<1>5. ItemIds' = ItemIds
  BY <1>1, <1>2, <1>4, WhileParsing, Kinds DEF ItemIds, Ids, IsItem
<1>6. /\ cur' = cur /\ stack' = stack /\ pc' = "after" /\ text' = text /\ root' = root
      /\ at' = at + 2
  BY DEF ParseEmpty, Read
<1>7. Tok \in Opening /\ Ahead = Closing(Tok)
  BY DEF ParseEmpty
<1>8. /\ Tok # "NUL" /\ Tok # "open" /\ Ahead # "NUL" /\ Ahead # "open"
      /\ Opened(TypeOf(Tok)) = Tok /\ Closing(TypeOf(Tok)) = Closing(Tok)
      /\ TypeOf(Tok) \notin {"Scalar", "String"}
  BY <1>7 DEF Opening, Closing, Opened, TypeOf
<1>9. Said(at) = Tok /\ Said(at + 1) = Closing(Tok) /\ at + 2 <= Len(text) + 1 /\ 2 \in {1, 2}
  BY <1>7, <1>8, SaidHere
<1>10. PICK st, vs, ve, par : Spans(st, vs, ve, par)
  BY <1>1 DEF TrackInv
<1>11. \E ve2 : Spans(st, vs, ve2, par)'
  BY <1>1, <1>2, <1>4, <1>5, <1>6, <1>8, <1>9, <1>10, ValueSpan
<1>12. QED
  BY <1>6, <1>9, <1>11, StillReading DEF Reading

\* A name, or the colon behind it, is read: no value begins or ends.
LEMMA LabelSpan ==
  ASSUME IInv, TreeInv, Here, pc \in {"name", "colon"}, pc' = (IF pc = "name" THEN "colon" ELSE "value"),
         \A i \in Ids : i # cur => heap'[i] = heap[i],
         heap'[cur].child = 0, heap'[cur].next = heap[cur].next,
         IF pc = "name" THEN heap'[heap'[cur].string].text = <<Said(at)>> /\ heap'[cur].string # 0
                        ELSE heap'[cur].string = heap[cur].string /\ Said(at) = ":",
         ItemIds' = ItemIds, cur' = cur, stack' = stack, text' = text, root' = root,
         at' = at + 1, NEW st, NEW vs, NEW ve, NEW par, Spans(st, vs, ve, par)
  PROVE  Spans(st, vs, ve, par)'
<1>1. /\ HeapInv /\ ItemIds \subseteq Ids /\ Others \subseteq Ids /\ cur \in ItemIds /\ cur \notin Others
      /\ pc \in Reading /\ pc \in Reaching /\ pc' \in Reaching /\ heap[cur].child = 0
  BY WhileReading DEF Reading, Reaching, IInv, ParseInv, Parsing
<1>2. PICK c \in ItemIds, a \in Nat \ {0} : c = cur /\ a = at
  BY <1>1 DEF Here
<1>3. /\ ve \in [ItemIds -> Nat] /\ vs \in [ItemIds -> Nat] /\ st \in [ItemIds -> Nat]
      /\ par \in [ItemIds -> ItemIds]
      /\ PathAt(vs, ve, par) /\ \A i \in ItemIds : ItemAt(i, st, vs, ve, par)
  BY DEF Spans
<1>4. Len(stack) \in Nat /\ \A m \in 0 .. Len(stack) : Path(m) \in ItemIds /\ heap[Path(m)].next = 0
  BY <1>1, <1>3, PathApart
<1>5. c = Path(Len(stack)) /\ ve[c] = 0 /\ vs[c] = IF pc = "name" THEN a + 2 ELSE a + 1
  BY <1>1, <1>2, <1>3 DEF PathAt
<1>6. (\A k : Said(k)' = Said(k)) /\ \A m : Path(m)' = Path(m)
  BY PathStays DEF Said
<1>7. \A j \in Others : heap'[j] = heap[j]
  BY <1>1
<1>8. \A i \in ItemIds : i # c => heap'[i] = heap[i]
  BY <1>1, <1>2
<1>9. heap[c].next = 0 /\ heap'[c].next = 0
  BY <1>1, <1>2, <1>4, <1>5
<1>10. ASSUME NEW i \in ItemIds PROVE ParentAt(i, ve, par)'
  <2>1. ParentAt(i, ve, par) /\ par[i] \in ItemIds
    BY <1>3 DEF ItemAt
  <2>2. \A j \in ItemIds : heap'[j].child = heap[j].child /\ heap'[j].next = heap[j].next
    BY <1>1, <1>2, <1>8
  <2>3. QED
    BY <1>6, <2>1, <2>2 DEF ParentAt
<1>11. ASSUME NEW i \in ItemIds, i # c PROVE ItemAt(i, st, vs, ve, par)'
  <2>1. heap'[i] = heap[i] /\ (Labelled(i)' <=> Labelled(i)) /\ i # cur
    BY <1>2, <1>8, <1>11 DEF Labelled
  <2>2. QED
    BY <1>1, <1>7, <1>10, <2>1, SpanKept
<1>12. ItemAt(c, st, vs, ve, par)'
  <2>1. ValueAt(c, vs, ve)' /\ ChildAt(c, st, vs, par)' /\ NextAt(c, st, ve, par)'
    BY <1>2, <1>5, <1>9 DEF ValueAt, ChildAt, NextAt
  <2>2. NameAt(c, st, vs)'
    <3>1. NameAt(c, st, vs)
      BY <1>3 DEF ItemAt
    <3>2. PICK b \in Nat : b = st[c]
      BY <1>3
    <3>3. CASE pc = "name"
      <4>1. Labelled(c) /\ Labelled(c)'
        BY <1>2, <3>3 DEF Labelled
      <4>2. b # 0 /\ b = a
        BY <1>5, <3>1, <3>2, <3>3, <4>1 DEF NameAt
      <4>3. heap'[heap'[c].string].text = <<Said(b)'>> /\ (pc = "colon" /\ c = cur)'
        BY <1>2, <1>6, <3>3, <4>2
      <4>4. QED
        BY <1>5, <3>2, <3>3, <4>1, <4>2, <4>3 DEF NameAt
    <3>4. CASE pc = "colon"
      <4>1. Labelled(c)' <=> Labelled(c)
        BY <1>2, <3>4 DEF Labelled
      <4>2. heap[c].string # 0 => heap'[heap[c].string] = heap[heap[c].string]
        BY <1>1, <1>7 DEF HeapInv, Linked
      <4>3. heap[c].string # 0 => b + 1 = a
        <5>1. heap[c].string # 0 => Labelled(c)
          BY DEF Labelled
        <5>2. QED
          BY <1>5, <3>1, <3>2, <3>4, <5>1 DEF NameAt
      <4>4. heap'[c].string = heap[c].string /\ Said(a) = ":"
        BY <1>2, <3>4
      <4>5. QED
        BY <1>6, <3>1, <3>2, <4>1, <4>2, <4>3, <4>4 DEF NameAt
    <3>5. QED
      BY <3>3, <3>4
  <2>3. QED
    BY <1>10, <2>1, <2>2 DEF ItemAt
<1>13. PathAt(vs, ve, par)'
  <2>1. heap'[root].next = 0 /\ vs[root] = 1
    <3>1. root \in ItemIds
      BY <1>4 DEF Path
    <3>2. QED
      BY <1>2, <1>3, <1>8, <3>1 DEF PathAt
  <2>2. ASSUME NEW m \in 1 .. Len(stack)
        PROVE  /\ par[Path(m)] = Path(m - 1) /\ Path(m) # root
               /\ ve[Path(m - 1)] = 0 /\ heap'[Path(m - 1)].type = stack[m].type
    <3>1. m - 1 \in 0 .. Len(stack) /\ m - 1 # Len(stack) /\ Len(stack) \in 0 .. Len(stack)
      BY <1>4
    <3>2. Path(m - 1) # c
      BY <1>1, <1>3, <1>5, <3>1, PathApart
    <3>3. Path(m - 1) \in ItemIds
      BY <1>4, <3>1
    <3>4. QED
      BY <1>3, <1>8, <3>2, <3>3 DEF PathAt
  <2>3. ASSUME NEW i \in ItemIds, ve[i] = 0
        PROVE  (\E m \in 1 .. Len(stack) : i = Path(m - 1)) \/ i = cur
    BY <1>3, <2>3 DEF PathAt
  <2>4. vs[cur] = CASE pc' = "value" -> at' [] pc' = "name" -> at' + 2 [] pc' = "colon" -> at' + 1
    BY <1>2, <1>5
  <2>5. cur = Path(Len(stack)) /\ ve[cur] = 0
    BY <1>2, <1>5
  <2>6. QED
    BY <1>1, <1>6, <2>1, <2>2, <2>3, <2>4, <2>5 DEF PathAt
<1>14. ASSUME NEW i \in ItemIds PROVE ItemAt(i, st, vs, ve, par)' /\ ve[i] <= at'
  <2>1. ve[i] \in Nat /\ ve[i] <= a /\ a + 1 = at'
    BY <1>2, <1>3 DEF Spans
  <2>2. ve[i] <= at'
    BY <2>1
  <2>3. QED
    BY <1>11, <1>12, <2>2
<1>15. QED
  BY <1>3, <1>13, <1>14 DEF Spans

LEMMA NameSpan ==
  ASSUME IInv, TreeInv, Here, TrackInv, ParseName
  PROVE  TrackInv'
<1>1. /\ pc = "name" /\ pc \in Parsing /\ pc \in Reading
      /\ heap[cur].child = 0 /\ heap[cur].valuestring = 0 /\ heap[cur].string = 0
  BY DEF ParseName, Parsing, Reading, IInv, ParseInv
<1> DEFINE item == Named(heap[cur])
           b == Chars(Content(Tok))
<1>2. /\ item \in ItemSet /\ item.next = heap[cur].next
      /\ item.child = 0 /\ item.string = New
  BY <1>1, WhileParsing DEF ItemSet, Named
<1>3. heap' = Append([heap EXCEPT ![cur] = item], b)
  BY <1>1, WhileParsing DEF ParseName, HeapInv
<1>4. "type" \notin DOMAIN b /\ b.text = Content(Tok)
  BY Kinds DEF Chars
<1> HIDE DEF item, b
<1>5. Grows(cur, item, b)
  <2>1. IsSeq(heap) /\ cur \in Ids
    BY <1>1, WhileParsing DEF HeapInv
  <2>2. QED
    BY <1>3, <2>1, Grown
<1>6. ItemIds' = ItemIds
  BY <1>1, <1>2, <1>4, <1>5, WhileParsing, GrownItems
<1>7. /\ cur' = cur /\ stack' = stack /\ pc' = "colon" /\ text' = text /\ root' = root
      /\ at' = at + 1
  BY DEF ParseName, Read
<1>8. New # 0 /\ cur \in Ids
  BY <1>1, WhileParsing DEF New
<1>9. /\ \A i \in Ids : i # cur => heap'[i] = heap[i]
      /\ heap'[cur] = item /\ heap'[New].text = Content(Tok)
  BY <1>4, <1>5, <1>8 DEF Grows
<1>10. Tok # "NUL"
  BY Distinct DEF ParseName, IsString
<1>11. Content(Tok) = <<Said(at)>> /\ at + 1 <= Len(text) + 1
  BY <1>10, SaidHere
<1>12. PICK st, vs, ve, par : Spans(st, vs, ve, par)
  BY <1>1 DEF TrackInv
<1>13. heap'[heap'[cur].string].text = <<Said(at)>> /\ heap'[cur].string # 0
  BY <1>2, <1>8, <1>9, <1>11
<1>14. Spans(st, vs, ve, par)'
  BY <1>1, <1>2, <1>6, <1>7, <1>9, <1>12, <1>13, LabelSpan
<1>15. QED
  BY <1>7, <1>11, <1>14, StillReading DEF Reading

LEMMA ColonSpan ==
  ASSUME IInv, TreeInv, Here, TrackInv, ParseColon
  PROVE  TrackInv'
<1>1. pc = "colon" /\ pc \in Reading /\ Tok = ":" /\ heap[cur].child = 0
  BY DEF ParseColon, Reading, Parsing, IInv, ParseInv
<1>2. /\ cur' = cur /\ stack' = stack /\ pc' = "value" /\ text' = text /\ root' = root
      /\ heap' = heap /\ at' = at + 1
  BY DEF ParseColon, Read
<1>3. ItemIds' = ItemIds
  BY <1>2 DEF ItemIds, IsItem, Ids
<1>4. Said(at) = ":" /\ at + 1 <= Len(text) + 1
  <2>1. Tok # "NUL" /\ Tok # "open"
    BY <1>1
  <2>2. QED
    BY <1>1, <2>1, SaidHere
<1>5. PICK st, vs, ve, par : Spans(st, vs, ve, par)
  BY <1>1 DEF TrackInv
<1>6. Spans(st, vs, ve, par)'
  BY <1>1, <1>2, <1>3, <1>4, <1>5, LabelSpan
<1>7. QED
  BY <1>2, <1>4, <1>6, StillReading DEF Reading

\* A container ends: its last child is the one that has just been read.
LEMMA EndSpan ==
  ASSUME IInv, TreeInv, Here, TrackInv, EndContainer
  PROVE  TrackInv'
<1>1. pc = "after" /\ pc \in Parsing /\ pc \in Reading /\ pc \notin Reaching /\ stack # <<>>
  BY DEF EndContainer, Parsing, Reading, Reaching
<1>2. /\ heap' = heap /\ root' = root /\ cur' = cur /\ text' = text /\ at' = at + 1 /\ stack' = Pop /\ pc' = pc
      /\ Tok = Closing(Top.type)
  BY DEF EndContainer, Read
<1>3. PICK st, vs, ve, par : Spans(st, vs, ve, par)
  BY <1>1 DEF TrackInv
<1>4. /\ ve \in [ItemIds -> Nat] /\ vs \in [ItemIds -> Nat] /\ st \in [ItemIds -> Nat]
      /\ par \in [ItemIds -> ItemIds]
      /\ PathAt(vs, ve, par) /\ \A i \in ItemIds : ItemAt(i, st, vs, ve, par)
  BY <1>3 DEF Spans
<1>5. /\ Len(stack) \in Nat /\ \A m \in 0 .. Len(stack) : Path(m) \in ItemIds
      /\ \A m, k \in 0 .. Len(stack) : Path(m) = Path(k) => m = k
  BY <1>1, <1>4, PathApart
<1>6. PICK n \in Nat : Len(stack) = n + 1
  <2>1. Len(stack) # 0
    BY <1>1, WhileParsing
  <2>2. Len(stack) - 1 \in Nat /\ Len(stack) = Len(stack) - 1 + 1
    BY <1>5, <2>1
  <2>3. QED
    BY <2>2
<1>7. /\ Len(stack') = n /\ \A m \in 1 .. n : stack'[m] = stack[m]
  <2>1. /\ stack' \in Seq(ParseFrame) /\ Len(stack') = Len(stack) - 1
        /\ \A m \in 1 .. Len(stack') : stack'[m] = stack[m]
    BY <1>1, <1>2, WhileParsing, Popped
  <2>2. QED
    BY <1>6, <2>1
<1>8. PICK p \in ItemIds, k \in ItemIds, a \in Nat \ {0} : p = Path(n) /\ k = Path(n + 1) /\ a = at
  BY <1>5, <1>6 DEF Here
<1>9. /\ p # k /\ par[k] = p /\ ve[p] = 0 /\ ve[k] = a /\ k # root
      /\ heap[p].type = Top.type
  <2>1. n + 1 \in 1 .. Len(stack) /\ n + 1 - 1 = n /\ n \in 0 .. Len(stack) /\ n + 1 \in 0 .. Len(stack) /\ n # n + 1
    BY <1>6
  <2>2. par[Path(n + 1)] = Path(n) /\ ve[Path(n)] = 0 /\ heap[Path(n)].type = stack[n + 1].type /\ Path(n + 1) # root
    <3>1. PICK m \in 1 .. Len(stack) : m = n + 1 /\ m - 1 = n
      BY <2>1
    <3>2. par[Path(m)] = Path(m - 1) /\ ve[Path(m - 1)] = 0 /\ heap[Path(m - 1)].type = stack[m].type /\ Path(m) # root
      BY <1>4 DEF PathAt
    <3>3. QED
      BY <3>1, <3>2
  <2>3. Path(n) # Path(n + 1)
    BY <1>5, <2>1
  <2>4. ve[Path(n + 1)] = at
    BY <1>1, <1>4, <1>6 DEF PathAt
  <2>5. QED
    BY <1>6, <1>8, <2>2, <2>3, <2>4 DEF Top
<1>10. PICK ve2 : ve2 = [i \in ItemIds |-> IF i = p THEN a + 1 ELSE ve[i]]
  OBVIOUS
<1>11. /\ ve2 \in [ItemIds -> Nat] /\ ve2[p] = a + 1 /\ a + 1 # 0 /\ a + 1 = at'
       /\ \A i \in ItemIds : i # p => ve2[i] = ve[i]
  BY <1>2, <1>4, <1>8, <1>10
<1>12. /\ (\A i : Said(i)' = Said(i)) /\ (\A i : Labelled(i)' <=> Labelled(i))
       /\ \A m \in 0 .. n : Path(m)' = Path(m)
  <2>1. \A m \in 0 .. n : m # 0 => m \in 1 .. n
    OBVIOUS
  <2>2. \A m \in 0 .. n : Path(m)' = Path(m)
    BY <1>2, <1>7, <2>1 DEF Path
  <2>3. QED
    BY <1>2, <2>2 DEF Said, Labelled
<1>13. ItemIds' = ItemIds /\ \A j \in Others : heap'[j] = heap[j]
  BY <1>2 DEF ItemIds, IsItem, Ids
<1>14. heap[p].child # 0 /\ heap[k].next = 0
  <2>1. ParentAt(k, ve, par)
    BY <1>4 DEF ItemAt
  <2>2. n + 1 \in 0 .. Len(stack)
    BY <1>6
  <2>3. heap[k].next = 0
    BY <1>1, <1>4, <1>8, <2>2, PathApart
  <2>4. QED
    BY <1>9, <2>1, <2>3 DEF ParentAt
<1>15. ASSUME NEW i \in ItemIds PROVE ParentAt(i, ve2, par)'
  <2>1. ParentAt(i, ve, par) /\ par[i] \in ItemIds
    BY <1>4 DEF ItemAt
  <2> SUFFICES ASSUME i # root PROVE ParentAt(i, ve2, par)'
    BY <1>2 DEF ParentAt
  <2>2. heap'[par[i]].child # 0
    BY <1>2, <2>1 DEF ParentAt
  <2> SUFFICES ASSUME heap[i].next = 0
               PROVE  /\ ve2[par[i]] # 0 => ve2[i] # 0 /\ ve2[par[i]] = ve2[i] + 1
                      /\ \A m \in 1 .. n : par[i] = Path(m - 1)' => i = Path(m)'
    BY <1>2, <1>7, <2>2 DEF ParentAt
  <2>3. \A m \in 1 .. n : par[i] = Path(m - 1)' => i = Path(m)'
    <3>1. \A m \in 1 .. n : m \in 1 .. Len(stack) /\ m \in 0 .. n /\ m - 1 \in 0 .. n
      BY <1>6
    <3>2. QED
      BY <1>12, <2>1, <3>1 DEF ParentAt
  <2>4. ASSUME ve2[par[i]] # 0 PROVE ve2[i] # 0 /\ ve2[par[i]] = ve2[i] + 1
    <3>1. CASE par[i] = p
      <4>1. n + 1 \in 1 .. Len(stack) /\ n + 1 - 1 = n
        BY <1>6
      <4>2. i = k
        BY <1>8, <2>1, <3>1, <4>1 DEF ParentAt
      <4>3. QED
        BY <1>8, <1>9, <1>11, <3>1, <4>2
    <3>2. CASE par[i] # p
      <4>1. ve2[par[i]] = ve[par[i]]
        BY <1>11, <2>1, <3>2
      <4>2. ve[i] # 0 /\ ve[par[i]] = ve[i] + 1
        BY <2>1, <2>4, <4>1 DEF ParentAt
      <4>3. i # p
        BY <1>9, <4>2
      <4>4. QED
        BY <1>11, <4>1, <4>2, <4>3
    <3>3. QED
      BY <3>1, <3>2
  <2>5. QED
    BY <2>3, <2>4
<1>16. ASSUME NEW i \in ItemIds, i # p PROVE ItemAt(i, st, vs, ve2, par)'
  <2>1. heap'[i] = heap[i] /\ ve2[i] = ve[i] /\ (Labelled(i)' <=> Labelled(i)) /\ pc # "colon"
    BY <1>1, <1>2, <1>11, <1>12, <1>16
  <2>2. QED
    BY <1>1, <1>2, <1>3, <1>13, <1>15, <2>1, SpanKept
<1>17. ItemAt(p, st, vs, ve2, par)'
  <2>1. heap'[p] = heap[p] /\ (Labelled(p)' <=> Labelled(p)) /\ pc # "colon"
    BY <1>1, <1>2, <1>12
  <2>2. NameAt(p, st, vs) /\ ChildAt(p, st, vs, par)
    BY <1>4 DEF ItemAt
  <2>3. NameAt(p, st, vs)' /\ ChildAt(p, st, vs, par)'
    <3>1. NameAt(p, st, vs)'
      BY <1>1, <1>2, <1>13, <2>1, <2>2, NameKept
    <3>2. ChildAt(p, st, vs, par)'
      BY <1>1, <1>2, <2>1, <2>2, ChildKept
    <3>3. QED
      BY <3>1, <3>2
  <2>4. ValueAt(p, vs, ve2)'
    <3>1. heap[p].type \in {"Array", "Object"}
      BY <1>9, <1>14, WhileReading, <1>1 DEF TreeItem, ChildFits
    <3>2. Said(at) = Closing(heap[p].type)
      <4>1. Tok \in {"]", "}"}
        BY <1>2, Brackets
      <4>2. Tok # "NUL" /\ Tok # "open"
        BY <4>1
      <4>3. QED
        BY <1>2, <1>9, <4>2, SaidHere
    <3>3. Said(ve2[p] - 1)' = Closing(heap'[p].type)
      BY <1>8, <1>11, <1>12, <2>1, <3>2
    <3>4. QED
      BY <1>14, <2>1, <3>1, <3>3 DEF ValueAt
  <2>5. NextAt(p, st, ve2, par)'
    <3>1. heap[p].next = 0
      <4>1. n \in 0 .. Len(stack)
        BY <1>6
      <4>2. QED
        BY <1>1, <1>4, <1>8, <4>1, PathApart
    <3>2. QED
      BY <2>1, <3>1 DEF NextAt
  <2>6. QED
    BY <1>15, <2>3, <2>4, <2>5 DEF ItemAt
<1>18. PathAt(vs, ve2, par)'
  <2>1. heap'[root].next = 0 /\ vs[root] = 1
    BY <1>2, <1>4 DEF PathAt
  <2>2. ASSUME NEW m \in 1 .. n
        PROVE  /\ par[Path(m)'] = Path(m - 1)' /\ Path(m)' # root
               /\ ve2[Path(m - 1)'] = 0 /\ heap'[Path(m - 1)'].type = stack'[m].type
    <3>1. m \in 1 .. Len(stack) /\ m \in 0 .. n /\ m - 1 \in 0 .. n /\ m - 1 # n
          /\ n \in 0 .. Len(stack) /\ m - 1 \in 0 .. Len(stack)
      BY <1>6
    <3>2. Path(m - 1) # p /\ Path(m - 1) \in ItemIds
      BY <1>5, <1>8, <3>1
    <3>3. Path(m)' = Path(m) /\ Path(m - 1)' = Path(m - 1) /\ stack'[m] = stack[m]
      BY <1>7, <1>12, <3>1
    <3>4. /\ par[Path(m)] = Path(m - 1) /\ Path(m) # root
          /\ ve[Path(m - 1)] = 0 /\ heap[Path(m - 1)].type = stack[m].type
      BY <1>4, <3>1 DEF PathAt
    <3>5. ve2[Path(m - 1)] = 0
      BY <1>11, <3>2, <3>4
    <3>6. QED
      BY <1>2, <3>3, <3>4, <3>5
  <2>3. ASSUME NEW i \in ItemIds, ve2[i] = 0 PROVE \E m \in 1 .. n : i = Path(m - 1)'
    <3>1. i # p /\ ve[i] = 0
      BY <1>11, <2>3
    <3>2. PICK m \in 1 .. Len(stack) : i = Path(m - 1)
      BY <1>1, <1>4, <3>1 DEF PathAt
    <3>3. m # n + 1
      BY <1>8, <3>1, <3>2
    <3>4. m \in 1 .. n /\ m - 1 \in 0 .. n
      BY <1>6, <3>3
    <3>5. QED
      BY <1>12, <3>2, <3>4
  <2>4. ve2[Path(n)'] = at'
    <3>1. n \in 0 .. n
      OBVIOUS
    <3>2. QED
      BY <1>8, <1>11, <1>12, <3>1
  <2>5. QED
    BY <1>1, <1>2, <1>7, <1>13, <2>1, <2>2, <2>3, <2>4 DEF PathAt, Reaching
<1>19. ASSUME NEW i \in ItemIds PROVE ItemAt(i, st, vs, ve2, par)' /\ ve2[i] <= at'
  <2>1. ve[i] \in Nat /\ ve[i] <= a /\ a + 1 = at' /\ (ve2[i] = a + 1 \/ ve2[i] = ve[i])
    BY <1>3, <1>4, <1>8, <1>11 DEF Spans
  <2>2. ve2[i] <= at'
    BY <2>1
  <2>3. QED
    BY <1>16, <1>17, <2>2
<1>20. Spans(st, vs, ve2, par)'
  BY <1>4, <1>11, <1>13, <1>18, <1>19 DEF Spans
<1>21. at' <= Len(text') + 1
  <2>1. Tok \in {"]", "}"}
    BY <1>2, Brackets
  <2>2. Tok # "NUL"
    BY <2>1
  <2>3. QED
    BY <1>2, <2>2, SaidHere
<1>22. QED
  BY <1>1, <1>2, <1>20, <1>21, StillReading

\* The new item is at its start.
LEMMA NewAt ==
  ASSUME NEW w, heap'[w] = NewItem, cur' = w, NEW type \in {"Array", "Object"},
         pc' = (IF type = "Array" THEN "value" ELSE "name"), at \in Nat,
         NEW st, NEW vs, NEW ve, NEW par,
         st[w] = at + 1, vs[w] = (IF type = "Array" THEN at + 1 ELSE at + 3), ve[w] = 0
  PROVE  NameAt(w, st, vs)' /\ ValueAt(w, vs, ve)' /\ ChildAt(w, st, vs, par)' /\ NextAt(w, st, ve, par)'
<1>1. heap'[w].string = 0 /\ heap'[w].child = 0 /\ heap'[w].next = 0
  BY DEF NewItem
<1>2. Labelled(w)' <=> type = "Object"
  BY <1>1 DEF Labelled
<1>3. NameAt(w, st, vs)'
  <2>1. at + 1 + 2 = at + 3 /\ at + 1 # 0
    OBVIOUS
  <2>2. QED
    BY <1>1, <1>2, <2>1 DEF NameAt
<1>4. QED
  BY <1>1, <1>3 DEF ValueAt, ChildAt, NextAt

LEMMA ContainerSpan ==
  ASSUME IInv, TreeInv, Here, TrackInv, ParseContainer
  PROVE  TrackInv'
<1>1. /\ pc = "value" /\ pc \in Parsing /\ pc \in Reading /\ pc \in Reaching
      /\ heap[cur].child = 0 /\ heap[cur].valuestring = 0
  BY DEF ParseContainer, Parsing, Reading, Reaching, IInv, ParseInv
<1> DEFINE item == [heap[cur] EXCEPT !.type = TypeOf(Tok), !.child = New]
           f == [type |-> TypeOf(Tok), child |-> New]
<1>2. /\ item \in ItemSet /\ item.string = heap[cur].string /\ item.next = heap[cur].next
      /\ item.child = New /\ item.valuestring = 0 /\ item.type = f.type /\ f.child = New
      /\ f.type \in {"Array", "Object"} /\ f \in ParseFrame /\ f.type = TypeOf(Tok)
  BY <1>1, WhileParsing DEF ItemSet, TypeOf, ParseFrame
<1>3. heap' = Append([heap EXCEPT ![cur] = item], NewItem)
  BY <1>1, WhileParsing DEF ParseContainer, HeapInv
<1>4. /\ cur' = New /\ stack' = Append(stack, f)
      /\ pc' = IF f.type = "Array" THEN "value" ELSE "name"
      /\ text' = text /\ root' = root /\ at' = at + 1
  BY DEF ParseContainer, Descend, Read
<1> HIDE DEF item, f
<1>5. Grows(cur, item, NewItem)
  <2>1. IsSeq(heap) /\ cur \in Ids
    BY <1>1, WhileParsing DEF HeapInv
  <2>2. QED
    BY <1>3, <2>1, Grown
<1>6. New \notin Ids /\ ItemIds' = ItemIds \cup {New} /\ New # 0
  BY <1>1, <1>2, <1>5, WhileParsing, GrownItems, Kinds DEF New
<1>7. PICK st, vs, ve, par : Spans(st, vs, ve, par)
  BY <1>1 DEF TrackInv
<1>8. /\ ve \in [ItemIds -> Nat] /\ vs \in [ItemIds -> Nat] /\ st \in [ItemIds -> Nat]
      /\ par \in [ItemIds -> ItemIds]
      /\ PathAt(vs, ve, par) /\ \A i \in ItemIds : ItemAt(i, st, vs, ve, par)
  BY <1>7 DEF Spans
<1>9. /\ Len(stack) \in Nat /\ \A m \in 0 .. Len(stack) : Path(m) \in ItemIds
      /\ \A m, k \in 0 .. Len(stack) : Path(m) = Path(k) => m = k
  BY <1>1, <1>8, PathApart
<1>10. /\ HeapInv /\ ItemIds \subseteq Ids /\ Others \subseteq Ids /\ cur \in ItemIds /\ cur \notin Others
  BY <1>1, WhileReading
<1>11. PICK n \in Nat, a \in Nat \ {0}, c \in ItemIds, w \in Nat, type \in {"Array", "Object"} :
         n = Len(stack) /\ a = at /\ c = cur /\ w = New /\ type = f.type
  BY <1>1, <1>2, <1>9, <1>10, WhileParsing DEF Here
<1>12. w \notin ItemIds /\ w # c /\ w # 0 /\ ItemIds' = ItemIds \cup {w}
  BY <1>6, <1>10, <1>11
<1>13. PICK v \in Nat, u \in Nat : v = at + 1 /\ u = IF type = "Array" THEN at + 1 ELSE at + 3
  BY <1>11
<1>14. PICK st2 : st2 = [i \in ItemIds \cup {w} |-> IF i = w THEN v ELSE st[i]]
  OBVIOUS
<1>15. PICK vs2 : vs2 = [i \in ItemIds \cup {w} |-> IF i = w THEN u ELSE vs[i]]
  OBVIOUS
<1>16. PICK ve2 : ve2 = [i \in ItemIds \cup {w} |-> IF i = w THEN 0 ELSE ve[i]]
  OBVIOUS
<1>17. PICK par2 : par2 = [i \in ItemIds \cup {w} |-> IF i = w THEN c ELSE par[i]]
  OBVIOUS
<1>18. /\ st2 \in [ItemIds \cup {w} -> Nat] /\ vs2 \in [ItemIds \cup {w} -> Nat]
       /\ ve2 \in [ItemIds \cup {w} -> Nat] /\ par2 \in [ItemIds \cup {w} -> ItemIds \cup {w}]
       /\ st2[w] = at + 1 /\ vs2[w] = (IF type = "Array" THEN at + 1 ELSE at + 3) /\ ve2[w] = 0 /\ par2[w] = c
       /\ \A i \in ItemIds : st2[i] = st[i] /\ vs2[i] = vs[i] /\ ve2[i] = ve[i] /\ par2[i] = par[i]
  <2>1. st2 \in [ItemIds \cup {w} -> Nat] /\ st2[w] = v /\ \A i \in ItemIds : st2[i] = st[i]
    BY <1>8, <1>12, <1>13, <1>14
  <2>2. vs2 \in [ItemIds \cup {w} -> Nat] /\ vs2[w] = u /\ \A i \in ItemIds : vs2[i] = vs[i]
    BY <1>8, <1>12, <1>13, <1>15
  <2>3. ve2 \in [ItemIds \cup {w} -> Nat] /\ ve2[w] = 0 /\ \A i \in ItemIds : ve2[i] = ve[i]
    BY <1>8, <1>12, <1>16
  <2>4. /\ par2 \in [ItemIds \cup {w} -> ItemIds \cup {w}] /\ par2[w] = c
        /\ \A i \in ItemIds : par2[i] = par[i]
    BY <1>8, <1>12, <1>17
  <2>5. QED
    BY <1>13, <2>1, <2>2, <2>3, <2>4
<1>19. c = Path(n) /\ ve[c] = 0 /\ vs[c] = a /\ heap[c].child = 0
  BY <1>1, <1>8, <1>11 DEF PathAt
<1>20. /\ Len(stack') = n + 1 /\ \A m \in 1 .. n : stack'[m] = stack[m]
       /\ stack'[n + 1].child = w /\ stack'[n + 1].type = type
  <2>1. stack \in Seq(ParseFrame)
    BY <1>1, WhileParsing
  <2>2. Len(stack') = n + 1 /\ (\A m \in 1 .. n : stack'[m] = stack[m]) /\ stack'[n + 1] = f
    BY <1>2, <1>4, <1>11, <2>1
  <2>3. QED
    BY <1>2, <1>11, <2>2
<1>21. /\ \A i : Said(i)' = Said(i)
       /\ \A m \in 0 .. n : Path(m)' = Path(m)
       /\ Path(n + 1)' = w
  <2>1. \A m \in 0 .. n : m # 0 => m \in 1 .. n
    OBVIOUS
  <2>2. \A m \in 0 .. n : Path(m)' = Path(m)
    BY <1>4, <1>20, <2>1 DEF Path
  <2>3. Path(n + 1)' = w
    BY <1>20 DEF Path
  <2>4. QED
    BY <1>4, <2>2, <2>3 DEF Said
<1>22. /\ \A i \in ItemIds : heap'[i] = (IF i = c THEN item ELSE heap[i]) /\ (Labelled(i)' <=> Labelled(i))
       /\ heap'[w] = NewItem
  <2>1. \A i \in ItemIds : heap'[i] = IF i = c THEN item ELSE heap[i]
    BY <1>5, <1>10, <1>11 DEF Grows
  <2>2. heap'[w] = NewItem
    BY <1>5, <1>11 DEF Grows
  <2>3. ASSUME NEW i \in ItemIds PROVE Labelled(i)' <=> Labelled(i)
    <3>1. i # cur' /\ pc # "name" /\ heap'[i].string = heap[i].string
      BY <1>1, <1>2, <1>4, <1>11, <1>12, <2>1
    <3>2. QED
      BY <3>1 DEF Labelled
  <2>4. QED
    BY <2>1, <2>2, <2>3
<1>23. \A j \in Others : heap'[j] = heap[j]
  BY <1>5, <1>10 DEF Grows
<1>24. /\ item.string = heap[c].string /\ item.next = heap[c].next /\ item.child = w /\ item.type = type
       /\ \A i \in ItemIds : heap'[i].next = heap[i].next
  BY <1>2, <1>11, <1>22
<1>25. ASSUME NEW i \in ItemIds PROVE ParentAt(i, ve2, par2)'
  <2>1. ParentAt(i, ve, par) /\ par[i] \in ItemIds /\ par2[i] = par[i]
    BY <1>8, <1>18 DEF ItemAt
  <2> SUFFICES ASSUME i # root PROVE ParentAt(i, ve2, par2)'
    BY <1>4 DEF ParentAt
  <2>2. par[i] # c /\ heap[par[i]].child # 0
    BY <1>19, <2>1 DEF ParentAt
  <2>3. heap'[par[i]] = heap[par[i]] /\ ve2[par[i]] = ve[par[i]] /\ ve2[i] = ve[i]
    BY <1>18, <1>22, <2>1, <2>2
  <2>4. ASSUME heap[i].next = 0, NEW m \in 1 .. n + 1, par[i] = Path(m - 1)' PROVE i = Path(m)'
    <3>1. m # n + 1
      <4>1. m = n + 1 => m - 1 = n /\ n \in 0 .. n
        OBVIOUS
      <4>2. QED
        BY <1>19, <1>21, <2>2, <2>4, <4>1
    <3>2. m \in 1 .. Len(stack) /\ m \in 0 .. n /\ m - 1 \in 0 .. n
      BY <1>11, <3>1
    <3>3. QED
      BY <1>21, <2>1, <2>4, <3>2 DEF ParentAt
  <2>5. QED
    BY <1>20, <1>24, <2>1, <2>2, <2>3, <2>4 DEF ParentAt
<1>26. ASSUME NEW i \in ItemIds, i # c PROVE ItemAt(i, st2, vs2, ve2, par2)'
  <2>1. heap'[i] = heap[i] /\ ve2[i] = ve[i] /\ (Labelled(i)' <=> Labelled(i)) /\ pc # "colon"
    BY <1>1, <1>18, <1>22, <1>26
  <2>2. \A j \in ItemIds : st2[j] = st[j] /\ vs2[j] = vs[j] /\ par2[j] = par[j]
    BY <1>18
  <2>3. QED
    BY <1>1, <1>4, <1>7, <1>23, <1>25, <2>1, <2>2, SpanKept
<1>27. ItemAt(c, st2, vs2, ve2, par2)'
  <2>1. /\ heap'[c] = item /\ ve2[c] = ve[c] /\ vs2[c] = vs[c] /\ st2[c] = st[c]
        /\ (Labelled(c)' <=> Labelled(c)) /\ pc # "colon"
    BY <1>1, <1>18, <1>22
  <2>2. NameAt(c, st, vs) /\ NextAt(c, st, ve, par) /\ \A j \in ItemIds : st2[j] = st[j] /\ par2[j] = par[j]
    BY <1>8, <1>18 DEF ItemAt
  <2>3. heap'[c].string = heap[c].string /\ heap'[c].next = heap[c].next
    BY <1>24, <2>1
  <2>4. NameAt(c, st2, vs2)'
    BY <1>1, <1>4, <1>23, <2>1, <2>2, <2>3, NameKept
  <2>5. NextAt(c, st2, ve2, par2)'
    BY <1>1, <1>4, <2>1, <2>2, <2>3, NextKept
  <2>6. ValueAt(c, vs2, ve2)'
    BY <1>19, <2>1 DEF ValueAt
  <2>7. ChildAt(c, st2, vs2, par2)'
    <3>1. Tok \in Opening
      BY DEF ParseContainer
    <3>2. Tok # "NUL" /\ Tok # "open" /\ Opened(TypeOf(Tok)) = Tok
      BY <3>1 DEF Opening, Opened, TypeOf
    <3>3. Said(at) = Opened(type)
      BY <1>2, <1>11, <3>2, SaidHere
    <3>4. vs2[c] = at /\ st2[w] = at + 1 /\ par2[w] = c
      BY <1>11, <1>18, <1>19
    <3>5. heap'[c].child = w /\ heap'[c].type = type
      BY <1>24, <2>1
    <3>6. QED
      BY <1>21, <3>3, <3>4, <3>5 DEF ChildAt
  <2>8. QED
    BY <1>25, <2>4, <2>5, <2>6, <2>7 DEF ItemAt
<1>28. ItemAt(w, st2, vs2, ve2, par2)'
  <2>1. NameAt(w, st2, vs2)' /\ ValueAt(w, vs2, ve2)' /\ ChildAt(w, st2, vs2, par2)' /\ NextAt(w, st2, ve2, par2)'
    BY <1>4, <1>11, <1>18, <1>22, NewAt
  <2>2. ParentAt(w, ve2, par2)'
    <3>1. heap'[par2[w]].child # 0 /\ ve2[par2[w]] = 0
      BY <1>12, <1>18, <1>19, <1>22, <1>24
    <3>2. ASSUME NEW m \in 1 .. n + 1, par2[w] = Path(m - 1)' PROVE w = Path(m)'
      <4>1. m - 1 \in 0 .. n /\ n \in 0 .. n
        OBVIOUS
      <4>2. Path(m - 1) = Path(n)
        BY <1>18, <1>19, <1>21, <3>2, <4>1
      <4>3. m - 1 = n
        BY <1>9, <1>11, <4>1, <4>2
      <4>4. m = n + 1
        BY <4>3
      <4>5. QED
        BY <1>21, <4>4
    <3>3. QED
      BY <1>20, <3>1, <3>2 DEF ParentAt
  <2>3. QED
    BY <2>1, <2>2 DEF ItemAt
<1>29. PathAt(vs2, ve2, par2)'
  <2>1. heap'[root].next = 0 /\ vs2[root] = 1
    <3>1. root \in ItemIds
      BY <1>9 DEF Path
    <3>2. QED
      BY <1>8, <1>18, <1>24, <3>1 DEF PathAt
  <2>2. ASSUME NEW m \in 1 .. n + 1
        PROVE  /\ par2[Path(m)'] = Path(m - 1)' /\ Path(m)' # root
               /\ ve2[Path(m - 1)'] = 0 /\ heap'[Path(m - 1)'].type = stack'[m].type
    <3>1. CASE m = n + 1
      <4>1. m - 1 = n /\ n \in 0 .. n
        BY <3>1
      <4>2. Path(m)' = w /\ Path(m - 1)' = c
        BY <1>19, <1>21, <3>1, <4>1
      <4>3. root # w
        <5>1. root \in ItemIds
          BY <1>9 DEF Path
        <5>2. QED
          BY <1>12, <5>1
      <4>4. heap'[c].type = type /\ stack'[m].type = type /\ ve2[c] = 0 /\ par2[w] = c
        BY <1>18, <1>19, <1>20, <1>22, <1>24, <3>1
      <4>5. QED
        BY <4>2, <4>3, <4>4
    <3>2. CASE m # n + 1
      <4>1. /\ m \in 1 .. Len(stack) /\ m \in 0 .. n /\ m - 1 \in 0 .. n /\ m - 1 # n
            /\ m \in 0 .. Len(stack) /\ n \in 0 .. Len(stack) /\ m - 1 \in 0 .. Len(stack) /\ m \in 1 .. n
        BY <1>11, <3>2
      <4>2. Path(m - 1) # c /\ Path(m - 1) \in ItemIds /\ Path(m) \in ItemIds
        BY <1>9, <1>19, <4>1
      <4>3. Path(m)' = Path(m) /\ Path(m - 1)' = Path(m - 1) /\ stack'[m] = stack[m]
        BY <1>20, <1>21, <4>1
      <4>4. /\ par[Path(m)] = Path(m - 1) /\ Path(m) # root
            /\ ve[Path(m - 1)] = 0 /\ heap[Path(m - 1)].type = stack[m].type
        BY <1>8, <4>1 DEF PathAt
      <4>5. par2[Path(m)] = par[Path(m)] /\ ve2[Path(m - 1)] = ve[Path(m - 1)] /\ heap'[Path(m - 1)] = heap[Path(m - 1)]
        BY <1>18, <1>22, <4>2
      <4>6. QED
        BY <4>3, <4>4, <4>5
    <3>3. QED
      BY <3>1, <3>2
  <2>3. ASSUME NEW i \in ItemIds \cup {w}, ve2[i] = 0
        PROVE  (\E m \in 1 .. n + 1 : i = Path(m - 1)') \/ i = w
    <3> SUFFICES ASSUME i # w PROVE \E m \in 1 .. n + 1 : i = Path(m - 1)'
      OBVIOUS
    <3>1. i \in ItemIds /\ ve[i] = 0
      BY <1>18, <2>3
    <3>2. (\E m \in 1 .. Len(stack) : i = Path(m - 1)) \/ i = cur
      BY <1>8, <3>1 DEF PathAt
    <3>3. CASE i = cur
      <4>1. PICK m \in 1 .. n + 1 : m - 1 = n /\ n \in 0 .. n
        OBVIOUS
      <4>2. QED
        BY <1>11, <1>19, <1>21, <3>3, <4>1
    <3>4. CASE \E m \in 1 .. Len(stack) : i = Path(m - 1)
      <4>1. PICK m \in 1 .. n : i = Path(m - 1)
        BY <1>11, <3>4
      <4>2. m \in 1 .. n + 1 /\ m - 1 \in 0 .. n
        OBVIOUS
      <4>3. QED
        BY <1>21, <4>1, <4>2
    <3>5. QED
      BY <3>2, <3>3, <3>4
  <2>4. vs2[w] = CASE pc' = "value" -> at' [] pc' = "name" -> at' + 2 [] pc' = "colon" -> at' + 1
    <3>1. at + 1 + 2 = at + 3
      BY <1>11
    <3>2. QED
      BY <1>4, <1>11, <1>18, <3>1
  <2>5. pc' \in Reaching /\ cur' = w /\ w = Path(n + 1)' /\ ve2[w] = 0
    BY <1>4, <1>11, <1>18, <1>21 DEF Reaching
  <2>6. QED
    BY <1>4, <1>12, <1>20, <2>1, <2>2, <2>3, <2>4, <2>5 DEF PathAt
<1>30. ASSUME NEW i \in ItemIds \cup {w} PROVE ItemAt(i, st2, vs2, ve2, par2)' /\ ve2[i] <= at'
  <2>1. ve2[i] \in Nat /\ ve2[i] <= a
    <3>1. CASE i = w
      BY <1>11, <1>18, <3>1
    <3>2. CASE i \in ItemIds
      BY <1>7, <1>11, <1>18, <3>2 DEF Spans
    <3>3. QED
      BY <3>1, <3>2
  <2>2. ve2[i] <= at'
    <3>1. at' = a + 1
      BY <1>4, <1>11
    <3>2. QED
      BY <1>11, <2>1, <3>1
  <2>3. QED
    BY <1>26, <1>27, <1>28, <2>2
<1>31. Spans(st2, vs2, ve2, par2)'
  BY <1>12, <1>18, <1>29, <1>30 DEF Spans
<1>32. at' <= Len(text') + 1 /\ pc' \in Reading
  <2>1. Tok \in Opening
    BY DEF ParseContainer
  <2>2. Tok # "NUL"
    BY <2>1 DEF Opening
  <2>3. QED
    BY <1>4, <2>2, SaidHere DEF Reading
<1>33. QED
  BY <1>31, <1>32, StillReading

\* The next child is begun where the one before it and the comma end.
LEMMA NextSpan ==
  ASSUME IInv, TreeInv, Here, TrackInv, NextChild
  PROVE  TrackInv'
<1>1. pc = "after" /\ pc \in Parsing /\ pc \in Reading /\ pc \notin Reaching /\ stack # <<>> /\ pc # "colon"
  BY DEF NextChild, Parsing, Reading, Reaching
<1>2. PICK st, vs, ve, par : Spans(st, vs, ve, par)
  BY <1>1 DEF TrackInv
<1>3. /\ Len(stack) \in Nat \ {0} /\ Len(stack) \in 1 .. Len(stack) /\ Top \in ParseFrame
      /\ stack \in Seq(ParseFrame)
  BY <1>1, WhileParsing DEF Top
<1>4. PICK c \in ItemIds, type \in {"Array", "Object"} : c = Top.child /\ type = Top.type
  <2>1. \A m \in 1 .. Len(stack) : stack[m].child \in ItemIds
    BY <1>1, WhileReading
  <2>2. QED
    BY <1>3, <2>1 DEF Top, ParseFrame
<1> DEFINE item == [heap[c] EXCEPT !.next = New]
           f == [Top EXCEPT !.child = New]
<1>5. /\ HeapInv /\ ItemIds \subseteq Ids /\ Others \subseteq Ids /\ c \in Ids /\ c \notin Others /\ heap[c] \in ItemSet
      /\ New \in Nat /\ New # 0
  <2>1. HeapInv /\ ItemIds \subseteq Ids /\ Others \subseteq Ids
    BY <1>1, WhileReading
  <2>2. heap[c] \in ItemSet
    BY <2>1 DEF HeapInv, Linked
  <2>3. c \in Ids /\ c \notin Others
    BY DEF ItemIds, Others
  <2>4. QED
    BY <1>1, <2>1, <2>2, <2>3, WhileParsing DEF New
<1>6. /\ item \in ItemSet /\ item.next = New /\ item.string = heap[c].string
      /\ item.valuestring = heap[c].valuestring /\ item.child = heap[c].child
      /\ item.type = heap[c].type /\ item.value = heap[c].value
  BY <1>5 DEF ItemSet
<1>7. heap' = Append([heap EXCEPT ![c] = item], NewItem)
  BY <1>4 DEF NextChild
<1>8. f \in ParseFrame /\ f.child = New /\ f.type = type
  BY <1>3, <1>4, <1>5 DEF ParseFrame
<1>9. /\ cur' = New /\ stack' = [stack EXCEPT ![Len(stack)] = f]
      /\ pc' = (IF type = "Array" THEN "value" ELSE "name")
      /\ text' = text /\ root' = root /\ at' = at + 1 /\ Tok = ","
  BY <1>4 DEF NextChild, Descend, SetTop, Read
<1> HIDE DEF item, f
<1>10. Grows(c, item, NewItem)
  <2>1. IsSeq(heap)
    BY <1>5 DEF HeapInv
  <2>2. QED
    BY <1>5, <1>7, <2>1, Grown
<1>11. PICK w \in Nat : w = New /\ w # 0 /\ w \notin ItemIds /\ ItemIds' = ItemIds \cup {w}
  <2>1. New \notin Ids /\ ItemIds' = ItemIds \cup {New}
    BY <1>5, <1>6, <1>10, GrownItems, Kinds
  <2>2. QED
    BY <1>5, <2>1
<1>12. /\ ve \in [ItemIds -> Nat] /\ vs \in [ItemIds -> Nat] /\ st \in [ItemIds -> Nat]
       /\ par \in [ItemIds -> ItemIds]
       /\ PathAt(vs, ve, par) /\ \A i \in ItemIds : ItemAt(i, st, vs, ve, par)
  BY <1>2 DEF Spans
<1>13. /\ Len(stack) \in Nat /\ \A m \in 0 .. Len(stack) : Path(m) \in ItemIds
       /\ \A m, k \in 0 .. Len(stack) : Path(m) = Path(k) => m = k
  BY <1>1, <1>12, PathApart
<1>14. PICK n \in Nat : Len(stack) = n + 1
  <2>1. Len(stack) - 1 \in Nat /\ Len(stack) = Len(stack) - 1 + 1
    BY <1>3
  <2>2. QED
    BY <2>1
<1>15. PICK p \in ItemIds, a \in Nat \ {0} : p = Path(n) /\ a = at
  BY <1>13, <1>14 DEF Here
<1>16. /\ c = Path(n + 1) /\ p # c /\ par[c] = p /\ ve[p] = 0 /\ ve[c] = a /\ c # root
       /\ heap[p].type = type
  <2>1. n + 1 \in 1 .. Len(stack) /\ n + 1 - 1 = n /\ n \in 0 .. Len(stack) /\ n + 1 \in 0 .. Len(stack) /\ n # n + 1
    BY <1>14
  <2>2. c = Path(n + 1)
    <3>1. n + 1 # 0
      BY <2>1
    <3>2. QED
      BY <1>4, <1>14, <3>1 DEF Path, Top
  <2>3. par[Path(n + 1)] = Path(n) /\ ve[Path(n)] = 0 /\ heap[Path(n)].type = stack[n + 1].type /\ Path(n + 1) # root
    <3>1. PICK m \in 1 .. Len(stack) : m = n + 1 /\ m - 1 = n
      BY <2>1
    <3>2. par[Path(m)] = Path(m - 1) /\ ve[Path(m - 1)] = 0 /\ heap[Path(m - 1)].type = stack[m].type /\ Path(m) # root
      BY <1>12 DEF PathAt
    <3>3. QED
      BY <3>1, <3>2
  <2>4. Path(n) # Path(n + 1)
    BY <1>13, <2>1
  <2>5. ve[Path(n + 1)] = at
    BY <1>1, <1>12, <1>14 DEF PathAt
  <2>6. QED
    BY <1>4, <1>14, <1>15, <2>2, <2>3, <2>4, <2>5 DEF Top
<1>17. PICK v \in Nat, u \in Nat : v = at + 1 /\ u = IF type = "Array" THEN at + 1 ELSE at + 3
  BY <1>15
<1>18. PICK st2 : st2 = [i \in ItemIds \cup {w} |-> IF i = w THEN v ELSE st[i]]
  OBVIOUS
<1>19. PICK vs2 : vs2 = [i \in ItemIds \cup {w} |-> IF i = w THEN u ELSE vs[i]]
  OBVIOUS
<1>20. PICK ve2 : ve2 = [i \in ItemIds \cup {w} |-> IF i = w THEN 0 ELSE ve[i]]
  OBVIOUS
<1>21. PICK par2 : par2 = [i \in ItemIds \cup {w} |-> IF i = w THEN p ELSE par[i]]
  OBVIOUS
<1>22. /\ st2 \in [ItemIds \cup {w} -> Nat] /\ vs2 \in [ItemIds \cup {w} -> Nat]
       /\ ve2 \in [ItemIds \cup {w} -> Nat] /\ par2 \in [ItemIds \cup {w} -> ItemIds \cup {w}]
       /\ st2[w] = at + 1 /\ vs2[w] = (IF type = "Array" THEN at + 1 ELSE at + 3) /\ ve2[w] = 0 /\ par2[w] = p
       /\ \A i \in ItemIds : st2[i] = st[i] /\ vs2[i] = vs[i] /\ ve2[i] = ve[i] /\ par2[i] = par[i]
  <2>1. st2 \in [ItemIds \cup {w} -> Nat] /\ st2[w] = v /\ \A i \in ItemIds : st2[i] = st[i]
    BY <1>12, <1>11, <1>17, <1>18
  <2>2. vs2 \in [ItemIds \cup {w} -> Nat] /\ vs2[w] = u /\ \A i \in ItemIds : vs2[i] = vs[i]
    BY <1>12, <1>11, <1>17, <1>19
  <2>3. ve2 \in [ItemIds \cup {w} -> Nat] /\ ve2[w] = 0 /\ \A i \in ItemIds : ve2[i] = ve[i]
    BY <1>12, <1>11, <1>20
  <2>4. /\ par2 \in [ItemIds \cup {w} -> ItemIds \cup {w}] /\ par2[w] = p
        /\ \A i \in ItemIds : par2[i] = par[i]
    BY <1>12, <1>11, <1>21
  <2>5. QED
    BY <1>17, <2>1, <2>2, <2>3, <2>4
<1>23. /\ Len(stack') = n + 1 /\ \A m \in 1 .. n : stack'[m] = stack[m]
       /\ stack'[n + 1].child = w /\ stack'[n + 1].type = type
  <2>1. Len(stack') = n + 1 /\ (\A m \in 1 .. n + 1 : stack'[m] = IF m = n + 1 THEN f ELSE stack[m])
    <3>1. stack \in Seq(ParseFrame) /\ f \in ParseFrame /\ stack' = [stack EXCEPT ![Len(stack)] = f]
      BY <1>3, <1>8, <1>9
    <3>2. Len(stack') = Len(stack)
      BY <1>3, <3>1
    <3>3. ASSUME NEW m \in 1 .. Len(stack) PROVE stack'[m] = IF m = Len(stack) THEN f ELSE stack[m]
      BY <1>3, <3>1, <3>3
    <3>4. QED
      BY <1>14, <3>2, <3>3
  <2>2. \A m \in 1 .. n : m \in 1 .. n + 1 /\ m # n + 1
    OBVIOUS
  <2>3. QED
    BY <1>8, <1>11, <2>1, <2>2
<1>24. /\ \A i : Said(i)' = Said(i)
       /\ \A m \in 0 .. n : Path(m)' = Path(m)
       /\ Path(n + 1)' = w
  <2>1. \A m \in 0 .. n : m # 0 => m \in 1 .. n
    OBVIOUS
  <2>2. \A m \in 0 .. n : Path(m)' = Path(m)
    <3>1. root' = root
      BY <1>9
    <3>2. QED
      BY <1>23, <2>1, <3>1 DEF Path
  <2>3. Path(n + 1)' = w
    BY <1>23 DEF Path
  <2>4. QED
    BY <1>9, <2>2, <2>3 DEF Said
<1>25. /\ \A i \in ItemIds : heap'[i] = (IF i = c THEN item ELSE heap[i]) /\ (Labelled(i)' <=> Labelled(i))
       /\ heap'[w] = NewItem
  <2>1. \A i \in ItemIds : heap'[i] = IF i = c THEN item ELSE heap[i]
    BY <1>5, <1>10 DEF Grows
  <2>2. heap'[w] = NewItem
    BY <1>10, <1>11 DEF Grows
  <2>3. ASSUME NEW i \in ItemIds PROVE Labelled(i)' <=> Labelled(i)
    <3>1. i # cur' /\ pc # "name" /\ heap'[i].string = heap[i].string
      BY <1>1, <1>6, <1>9, <1>11, <2>1
    <3>2. QED
      BY <3>1 DEF Labelled
  <2>4. QED
    BY <2>1, <2>2, <2>3
<1>26. \A j \in Others : heap'[j] = heap[j]
  BY <1>5, <1>10 DEF Grows
<1>27. \A i \in ItemIds : /\ heap'[i].child = heap[i].child /\ heap'[i].type = heap[i].type
                          /\ heap'[i].next = IF i = c THEN w ELSE heap[i].next
  BY <1>6, <1>11, <1>25
<1>28. ASSUME NEW i \in ItemIds PROVE ParentAt(i, ve2, par2)'
  <2>1. ParentAt(i, ve, par) /\ par[i] \in ItemIds /\ par2[i] = par[i]
    BY <1>12, <1>22 DEF ItemAt
  <2> SUFFICES ASSUME i # root PROVE ParentAt(i, ve2, par2)'
    BY <1>9 DEF ParentAt
  <2>2. heap'[par[i]].child # 0
    BY <1>27, <2>1 DEF ParentAt
  <2>3. CASE i = c
    BY <1>11, <1>27, <2>1, <2>2, <2>3 DEF ParentAt
  <2>4. CASE i # c
    <3>1. heap'[i].next = heap[i].next /\ ve2[par[i]] = ve[par[i]] /\ ve2[i] = ve[i]
      BY <1>22, <1>27, <2>1, <2>4
    <3>2. ASSUME heap[i].next = 0, NEW m \in 1 .. n + 1, par[i] = Path(m - 1)' PROVE i = Path(m)'
      <4>1. m \in 1 .. Len(stack) /\ m - 1 \in 0 .. n
        BY <1>14
      <4>2. i = Path(m)
        BY <1>24, <2>1, <3>2, <4>1 DEF ParentAt
      <4>3. m # n + 1
        BY <1>16, <2>4, <4>2
      <4>4. m \in 0 .. n
        BY <4>3
      <4>5. QED
        BY <1>24, <4>2, <4>4
    <3>3. QED
      BY <1>23, <2>1, <2>2, <3>1, <3>2 DEF ParentAt
  <2>5. QED
    BY <2>3, <2>4
<1>29. ASSUME NEW i \in ItemIds, i # c PROVE ItemAt(i, st2, vs2, ve2, par2)'
  <2>1. heap'[i] = heap[i] /\ ve2[i] = ve[i] /\ (Labelled(i)' <=> Labelled(i))
    BY <1>22, <1>25, <1>29
  <2>2. (\A j \in ItemIds : st2[j] = st[j] /\ vs2[j] = vs[j] /\ par2[j] = par[j]) /\ ParentAt(i, ve2, par2)'
    BY <1>22, <1>28
  <2>3. text' = text /\ pc \in Reading /\ pc # "colon"
    BY <1>1, <1>9
  <2>4. QED
    BY <1>2, <1>26, <2>1, <2>2, <2>3, SpanKept
<1>30. ItemAt(c, st2, vs2, ve2, par2)'
  <2>1. /\ heap'[c] = item /\ ve2[c] = ve[c] /\ vs2[c] = vs[c] /\ st2[c] = st[c]
        /\ (Labelled(c)' <=> Labelled(c))
    BY <1>22, <1>25
  <2>2. /\ NameAt(c, st, vs) /\ ValueAt(c, vs, ve) /\ ChildAt(c, st, vs, par)
        /\ \A j \in ItemIds : st2[j] = st[j] /\ par2[j] = par[j]
    BY <1>12, <1>22 DEF ItemAt
  <2>3. NameAt(c, st2, vs2)'
    BY <1>1, <1>6, <1>9, <1>26, <2>1, <2>2, NameKept
  <2>4. ValueAt(c, vs2, ve2)'
    <3>1. ~Unread(c)
      BY <1>1 DEF Unread, Reaching
    <3>2. /\ heap'[c].type = heap[c].type /\ heap'[c].value = heap[c].value
          /\ heap'[c].valuestring = heap[c].valuestring /\ heap'[c].child = heap[c].child
      BY <1>6, <2>1
    <3>3. QED
      BY <1>1, <1>9, <1>26, <2>1, <2>2, <3>1, <3>2, ValueKept
  <2>5. ChildAt(c, st2, vs2, par2)'
    <3>1. heap'[c].child = heap[c].child /\ heap'[c].type = heap[c].type
      BY <1>27
    <3>2. QED
      BY <1>1, <1>9, <2>1, <2>2, <3>1, ChildKept
  <2>6. NextAt(c, st2, ve2, par2)'
    <3>1. Said(at) = ","
      <4>1. Tok # "NUL" /\ Tok # "open"
        BY <1>9
      <4>2. QED
        BY <1>9, <4>1, SaidHere
    <3>2. ve2[c] = at /\ at # 0 /\ st2[w] = at + 1 /\ par2[w] = par2[c] /\ heap'[c].next = w
      BY <1>15, <1>16, <1>22, <1>27
    <3>3. QED
      BY <1>24, <3>1, <3>2 DEF NextAt
  <2>7. QED
    BY <1>28, <2>3, <2>4, <2>5, <2>6 DEF ItemAt
<1>31. ItemAt(w, st2, vs2, ve2, par2)'
  <2>1. NameAt(w, st2, vs2)' /\ ValueAt(w, vs2, ve2)' /\ ChildAt(w, st2, vs2, par2)' /\ NextAt(w, st2, ve2, par2)'
    BY <1>9, <1>11, <1>15, <1>22, <1>25, NewAt
  <2>2. ParentAt(w, ve2, par2)'
    <3>1. heap[p].child # 0
      <4>1. ParentAt(c, ve, par)
        BY <1>12 DEF ItemAt
      <4>2. QED
        BY <1>16, <4>1 DEF ParentAt
    <3>2. heap'[par2[w]].child # 0 /\ ve2[par2[w]] = 0
      BY <1>16, <1>22, <1>27, <3>1
    <3>3. ASSUME NEW m \in 1 .. n + 1, par2[w] = Path(m - 1)' PROVE w = Path(m)'
      <4>1. m - 1 \in 0 .. n /\ m - 1 \in 0 .. Len(stack) /\ n \in 0 .. Len(stack)
        BY <1>14
      <4>2. Path(m - 1) = Path(n)
        BY <1>15, <1>22, <1>24, <3>3, <4>1
      <4>3. m - 1 = n
        BY <1>13, <4>1, <4>2
      <4>4. m = n + 1
        BY <4>3
      <4>5. QED
        BY <1>24, <4>4
    <3>4. QED
      BY <1>23, <3>2, <3>3 DEF ParentAt
  <2>3. QED
    BY <2>1, <2>2 DEF ItemAt
<1>32. PathAt(vs2, ve2, par2)'
  <2>1. root \in ItemIds /\ root # w
    <3>1. root \in ItemIds
      BY <1>13 DEF Path
    <3>2. QED
      BY <1>11, <3>1
  <2>2. heap'[root].next = 0 /\ vs2[root] = 1
    BY <1>12, <1>16, <1>22, <1>27, <2>1 DEF PathAt
  <2>3. ASSUME NEW m \in 1 .. n + 1
        PROVE  /\ par2[Path(m)'] = Path(m - 1)' /\ Path(m)' # root
               /\ ve2[Path(m - 1)'] = 0 /\ heap'[Path(m - 1)'].type = stack'[m].type
    <3>1. CASE m = n + 1
      <4>1. m - 1 = n /\ n \in 0 .. n
        BY <3>1
      <4>2. Path(m)' = w /\ Path(m - 1)' = p
        BY <1>15, <1>24, <3>1, <4>1
      <4>3. heap'[p].type = type /\ stack'[m].type = type /\ ve2[p] = 0 /\ par2[w] = p
        BY <1>16, <1>22, <1>23, <1>27, <3>1
      <4>4. QED
        BY <2>1, <4>2, <4>3
    <3>2. CASE m # n + 1
      <4>1. /\ m \in 1 .. Len(stack) /\ m \in 0 .. n /\ m - 1 \in 0 .. n
            /\ m \in 0 .. Len(stack) /\ m - 1 \in 0 .. Len(stack) /\ m \in 1 .. n
        BY <1>14, <3>2
      <4>2. Path(m - 1) \in ItemIds /\ Path(m) \in ItemIds
        BY <1>13, <4>1
      <4>3. Path(m)' = Path(m) /\ Path(m - 1)' = Path(m - 1) /\ stack'[m] = stack[m]
        BY <1>23, <1>24, <4>1
      <4>4. /\ par[Path(m)] = Path(m - 1) /\ Path(m) # root
            /\ ve[Path(m - 1)] = 0 /\ heap[Path(m - 1)].type = stack[m].type
        BY <1>12, <4>1 DEF PathAt
      <4>5. par2[Path(m)] = par[Path(m)] /\ ve2[Path(m - 1)] = ve[Path(m - 1)] /\ heap'[Path(m - 1)].type = heap[Path(m - 1)].type
        BY <1>22, <1>27, <4>2
      <4>6. QED
        BY <4>3, <4>4, <4>5
    <3>3. QED
      BY <3>1, <3>2
  <2>4. ASSUME NEW i \in ItemIds \cup {w}, ve2[i] = 0
        PROVE  (\E m \in 1 .. n + 1 : i = Path(m - 1)') \/ i = w
    <3> SUFFICES ASSUME i # w PROVE \E m \in 1 .. n + 1 : i = Path(m - 1)'
      OBVIOUS
    <3>1. i \in ItemIds /\ ve[i] = 0
      BY <1>22, <2>4
    <3>2. PICK m \in 1 .. Len(stack) : i = Path(m - 1)
      BY <1>1, <1>12, <3>1 DEF PathAt
    <3>3. m \in 1 .. n + 1 /\ m - 1 \in 0 .. n
      BY <1>14
    <3>4. QED
      BY <1>24, <3>2, <3>3
  <2>5. vs2[w] = CASE pc' = "value" -> at' [] pc' = "name" -> at' + 2 [] pc' = "colon" -> at' + 1
    <3>1. at + 1 + 2 = at + 3
      BY <1>15
    <3>2. QED
      BY <1>9, <1>22, <3>1
  <2>6. pc' \in Reaching /\ cur' = w /\ w = Path(n + 1)' /\ ve2[w] = 0
    BY <1>9, <1>11, <1>22, <1>24 DEF Reaching
  <2>7. QED
    BY <1>9, <1>11, <1>23, <2>2, <2>3, <2>4, <2>5, <2>6 DEF PathAt
<1>33. ASSUME NEW i \in ItemIds \cup {w} PROVE ItemAt(i, st2, vs2, ve2, par2)' /\ ve2[i] <= at'
  <2>1. ve2[i] \in Nat /\ ve2[i] <= a
    <3>1. CASE i = w
      BY <1>15, <1>22, <3>1
    <3>2. CASE i \in ItemIds
      BY <1>2, <1>15, <1>22, <3>2 DEF Spans
    <3>3. QED
      BY <3>1, <3>2
  <2>2. ve2[i] <= at'
    <3>1. at' = a + 1
      BY <1>9, <1>15
    <3>2. QED
      BY <1>15, <2>1, <3>1
  <2>3. QED
    BY <1>29, <1>30, <1>31, <2>2
<1>34. Spans(st2, vs2, ve2, par2)'
  BY <1>11, <1>22, <1>32, <1>33 DEF Spans
<1>35. at' <= Len(text') + 1 /\ pc' \in Reading
  <2>1. Tok # "NUL"
    BY <1>9
  <2>2. at + 1 <= Len(text) + 1
    BY <2>1, SaidHere
  <2>3. pc' \in Reading
    BY <1>9 DEF Reading
  <2>4. QED
    BY <1>9, <2>2, <2>3
<1>36. QED
  BY <1>34, <1>35, StillReading

\* The first item is the root; nothing is read yet.
LEMMA FirstSpan ==
  ASSUME IInv, IInv', Here, at = 1, Parse
  PROVE  TrackInv'
<1>1. /\ pc = "start" /\ heap = <<>> /\ stack' = <<>> /\ text' = text /\ at' = 1
  BY DEF IInv, IdleInv, Parse
<1>2. CASE pc' = "null"
  BY <1>2 DEF TrackInv, Reading, Printing
<1>3. CASE pc' = "value"
  <2>1. heap' = <<NewItem>> /\ Len(heap') = 1 /\ heap'[1] = NewItem /\ root' = 1 /\ cur' = 1
    BY <1>1, <1>3 DEF Parse, New
  <2>2. ItemIds' = {1}
    <3>1. Ids' = {1}
      BY <2>1 DEF Ids
    <3>2. IsItem(1)'
      BY <2>1, Kinds DEF IsItem
    <3>3. QED
      BY <3>1, <3>2 DEF ItemIds
  <2>3. PICK st : st = [i \in {1} |-> 1]
    OBVIOUS
  <2>4. PICK ve : ve = [i \in {1} |-> 0]
    OBVIOUS
  <2>5. /\ st \in [{1} -> Nat] /\ ve \in [{1} -> Nat] /\ st \in [{1} -> {1}] /\ st[1] = 1 /\ ve[1] = 0
    BY <2>3, <2>4
  <2>6. heap'[1].string = 0 /\ heap'[1].child = 0 /\ heap'[1].next = 0
    BY <2>1 DEF NewItem
  <2>7. ItemAt(1, st, st, ve, st)'
    <3>1. NameAt(1, st, st)'
      BY <1>3, <2>5, <2>6 DEF NameAt, Labelled
    <3>2. ValueAt(1, st, ve)' /\ ChildAt(1, st, st, st)' /\ NextAt(1, st, ve, st)' /\ ParentAt(1, ve, st)'
      BY <2>1, <2>5, <2>6 DEF ValueAt, ChildAt, NextAt, ParentAt
    <3>3. QED
      BY <3>1, <3>2 DEF ItemAt
  <2>8. PathAt(st, ve, st)'
    <3>1. Len(stack') = 0 /\ pc' \in Reaching /\ Path(0)' = 1
      BY <1>1, <1>3, <2>1 DEF Reaching, Path
    <3>2. \A m : m \notin 1 .. 0
      OBVIOUS
    <3>3. heap'[root'].next = 0 /\ st[root'] = 1 /\ cur' = Path(0)' /\ ve[cur'] = 0 /\ st[cur'] = at'
      BY <1>1, <2>1, <2>5, <2>6, <3>1
    <3>4. \A i \in {1} : i = cur'
      BY <2>1
    <3>5. QED
      BY <1>3, <2>2, <3>1, <3>2, <3>3, <3>4 DEF PathAt
  <2>9. Spans(st, st, ve, st)'
    <3>1. ve[1] <= at'
      BY <1>1, <2>5
    <3>2. QED
      BY <2>2, <2>5, <2>7, <2>8, <3>1 DEF Spans
  <2>10. at' <= Len(text') + 1
    <3>1. Len(text) \in Nat
      BY TextsAssumption DEF Here
    <3>2. QED
      BY <1>1, <3>1
  <2>11. QED
    BY <1>3, <2>9, <2>10, StillReading DEF Reading
<1>4. QED
  BY <1>2, <1>3 DEF Parse

\* Nothing but the phase changes.
OnlyPhase ==
  /\ pc' = pc \/ (pc = "after" /\ pc' = "parsed")
  /\ text' = text /\ at' = at /\ heap' = heap /\ root' = root /\ cur' = cur /\ stack' = stack
LEMMA SpansStay ==
  ASSUME pc \in Reading, TrackInv, OnlyPhase
  PROVE  TrackInv'
<1> USE DEF OnlyPhase
<1>1. pc' \in Reading
  BY DEF Reading
<1>2. PICK st, vs, ve, par : Spans(st, vs, ve, par)
  BY DEF TrackInv
<1>3. /\ ItemIds' = ItemIds /\ \A i : Said(i)' = Said(i) /\ \A m : Path(m)' = Path(m)
      /\ pc' \in Reaching <=> pc \in Reaching
  <2>1. ItemIds' = ItemIds
    BY DEF ItemIds, IsItem, Ids
  <2>2. (\A i : Said(i)' = Said(i)) /\ \A m : Path(m)' = Path(m)
    BY DEF Said, Path
  <2>3. pc' \in Reaching <=> pc \in Reaching
    BY DEF Reaching
  <2>4. QED
    BY <2>1, <2>2, <2>3
<1>4. (\A i : Labelled(i)' <=> Labelled(i)) /\ \A i : (pc = "colon" /\ i = cur)' <=> (pc = "colon" /\ i = cur)
  BY DEF Labelled
<1>5. ASSUME NEW i \in ItemIds PROVE ItemAt(i, st, vs, ve, par)' /\ ve[i] <= at'
  <2>1. ItemAt(i, st, vs, ve, par) /\ ve[i] <= at
    BY <1>2 DEF Spans
  <2>2. NameAt(i, st, vs)'
    BY <1>3, <1>4, <2>1 DEF ItemAt, NameAt
  <2>3. ValueAt(i, vs, ve)'
    BY <1>3, <2>1 DEF ItemAt, ValueAt
  <2>4. ChildAt(i, st, vs, par)' /\ NextAt(i, st, ve, par)'
    BY <1>3, <2>1 DEF ItemAt, ChildAt, NextAt
  <2>5. ParentAt(i, ve, par)'
    BY <1>3, <2>1 DEF ItemAt, ParentAt
  <2>6. QED
    BY <2>1, <2>2, <2>3, <2>4, <2>5 DEF ItemAt
<1>6. PathAt(vs, ve, par)'
  <2>1. PathAt(vs, ve, par)
    BY <1>2 DEF Spans
  <2>2. /\ heap'[root'].next = 0 /\ vs[root'] = 1
        /\ \A m \in 1 .. Len(stack') :
             /\ par[Path(m)'] = Path(m - 1)' /\ Path(m)' # root'
             /\ ve[Path(m - 1)'] = 0 /\ heap'[Path(m - 1)'].type = stack'[m].type
    BY <1>3, <2>1 DEF PathAt
  <2>3. \A i \in ItemIds' :
          ve[i] = 0 => (\E m \in 1 .. Len(stack') : i = Path(m - 1)') \/ (pc' \in Reaching /\ i = cur')
    <3>1. \A i \in ItemIds :
            ve[i] = 0 => (\E m \in 1 .. Len(stack) : i = Path(m - 1)) \/ (pc \in Reaching /\ i = cur)
      BY <2>1 DEF PathAt
    <3>2. QED
      BY <1>3, <3>1
  <2>4. CASE pc \in Reaching
    <3>1. pc' = pc /\ pc' \in Reaching
      BY <1>3, <2>4 DEF Reaching
    <3>2. /\ cur' = Path(Len(stack))' /\ ve[cur'] = 0
          /\ vs[cur'] = CASE pc' = "value" -> at' [] pc' = "name" -> at' + 2 [] pc' = "colon" -> at' + 1
      BY <1>3, <2>1, <2>4, <3>1 DEF PathAt
    <3>3. QED
      BY <2>2, <2>3, <3>1, <3>2 DEF PathAt
  <2>5. CASE pc \notin Reaching
    <3>1. pc' \notin Reaching
      BY <1>3, <2>5
    <3>2. ve[Path(Len(stack))'] = at'
      BY <1>3, <2>1, <2>5 DEF PathAt
    <3>3. QED
      BY <2>2, <2>3, <3>1, <3>2 DEF PathAt
  <2>6. QED
    BY <2>4, <2>5
<1>7. Spans(st, vs, ve, par)'
  BY <1>2, <1>3, <1>5, <1>6 DEF Spans
<1>8. QED
  BY <1>7, <1>1, StillReading DEF TrackInv

-----------------------------------------------------------------------------
(* The list of an item is what is said where it was read.                  *)

\* What is said from position a on, up to position b.
Seg(a, b) == [k \in 1 .. b - a |-> Said(a - 1 + k)]
Sayings == {Said(k) : k \in Nat}

LEMMA SegIs ==
  ASSUME NEW a \in Nat, a # 0, NEW b \in Nat, a <= b
  PROVE  Seg(a, b) \in Seq(Sayings) /\ Len(Seg(a, b)) = b - a
<1>1. b - a \in Nat
  OBVIOUS
<1>2. \A k \in 1 .. b - a : a - 1 + k \in Nat
  OBVIOUS
<1>3. \A k \in 1 .. b - a : Said(a - 1 + k) \in Sayings
  BY <1>2 DEF Sayings
<1>4. Seg(a, b) \in Seq(Sayings)
  BY <1>1, <1>3 DEF Seg
<1>5. QED
  BY <1>1, <1>4 DEF Seg

LEMMA SegJoin ==
  ASSUME NEW a \in Nat, a # 0, NEW b \in Nat, NEW c \in Nat, a <= b, b <= c
  PROVE  Seg(a, b) \o Seg(b, c) = Seg(a, c)
<1>1. /\ Seg(a, b) \in Seq(Sayings) /\ Len(Seg(a, b)) = b - a
      /\ Seg(b, c) \in Seq(Sayings) /\ Len(Seg(b, c)) = c - b
      /\ Seg(a, c) \in Seq(Sayings) /\ Len(Seg(a, c)) = c - a
  <2>1. a <= c /\ b # 0
    OBVIOUS
  <2>2. QED
    BY <2>1, SegIs
<1>2. PICK s \in Seq(Sayings) : s = Seg(a, b) \o Seg(b, c)
  BY <1>1, ConcatProperties
<1>3. /\ Len(s) = c - a
      /\ \A k \in 1 .. c - a : s[k] = IF k <= b - a THEN Seg(a, b)[k] ELSE Seg(b, c)[k - (b - a)]
  <2>1. Len(s) = Len(Seg(a, b)) + Len(Seg(b, c))
    BY <1>1, <1>2, ConcatProperties
  <2>2. (b - a) + (c - b) = c - a
    OBVIOUS
  <2>3. \A k \in 1 .. Len(Seg(a, b)) + Len(Seg(b, c)) :
          s[k] = IF k <= Len(Seg(a, b)) THEN Seg(a, b)[k] ELSE Seg(b, c)[k - Len(Seg(a, b))]
    BY <1>1, <1>2, ConcatProperties
  <2>4. QED
    BY <1>1, <2>1, <2>2, <2>3
<1>4. ASSUME NEW k \in 1 .. c - a
      PROVE  s[k] = Seg(a, c)[k]
  <2>1. Seg(a, c)[k] = Said(a - 1 + k)
    BY DEF Seg
  <2>2. CASE k <= b - a
    <3>1. k \in 1 .. b - a
      BY <2>2
    <3>2. Seg(a, b)[k] = Said(a - 1 + k)
      BY <3>1 DEF Seg
    <3>3. QED
      BY <1>3, <2>1, <2>2, <3>2
  <2>3. CASE ~(k <= b - a)
    <3>1. k - (b - a) \in 1 .. c - b /\ b - 1 + (k - (b - a)) = a - 1 + k
      BY <2>3
    <3>2. Seg(b, c)[k - (b - a)] = Said(a - 1 + k)
      BY <3>1 DEF Seg
    <3>3. QED
      BY <1>3, <2>1, <2>3, <3>2
  <2>4. QED
    BY <2>2, <2>3
<1>5. s = Seg(a, c)
  BY <1>1, <1>2, <1>3, <1>4, SeqEqual
<1>6. QED
  BY <1>2, <1>5

\* Of no, one and two positions.
LEMMA SegShort ==
  ASSUME NEW a \in Nat, a # 0
  PROVE  /\ Seg(a, a) = <<>> /\ Seg(a, a + 1) = <<Said(a)>>
         /\ Seg(a, a + 2) = <<Said(a), Said(a + 1)>>
<1>1. Seg(a, a) = <<>>
  <2>1. Seg(a, a) \in Seq(Sayings) /\ Len(Seg(a, a)) = 0
    BY SegIs
  <2>2. QED
    BY <2>1, EmptySeq
<1>2. Seg(a, a + 1) = <<Said(a)>>
  <2>1. a + 1 - a = 1 /\ a - 1 + 1 = a
    OBVIOUS
  <2>2. Seg(a, a + 1) = [k \in 1 .. 1 |-> Said(a - 1 + k)]
    BY <2>1 DEF Seg
  <2>3. QED
    BY <2>1, <2>2
<1>3. Seg(a, a + 2) = <<Said(a), Said(a + 1)>>
  <2>1. a + 2 - a = 2 /\ a - 1 + 1 = a /\ a - 1 + 2 = a + 1
    OBVIOUS
  <2>2. Seg(a, a + 2) = [k \in 1 .. 2 |-> Said(a - 1 + k)]
    BY <2>1 DEF Seg
  <2>3. QED
    BY <2>1, <2>2
<1>4. QED
  BY <1>1, <1>2, <1>3

\* Two pieces with one saying between them.
LEMMA SegAround ==
  ASSUME NEW a \in Nat, a # 0, NEW b \in Nat, NEW c \in Nat, a <= b, b + 1 <= c
  PROVE  Seg(a, b) \o (<<Said(b)>> \o Seg(b + 1, c)) = Seg(a, c)
<1>1. b + 1 \in Nat /\ b # 0 /\ b <= b + 1 /\ b <= c
  OBVIOUS
<1>2. Seg(b, b + 1) = <<Said(b)>>
  BY <1>1, SegShort
<1>3. Seg(b, b + 1) \o Seg(b + 1, c) = Seg(b, c)
  BY <1>1, SegJoin
<1>4. PICK s : s = Seg(b, c)
  OBVIOUS
<1>5. <<Said(b)>> \o Seg(b + 1, c) = s
  BY <1>2, <1>3, <1>4
<1>6. Seg(a, b) \o s = Seg(a, c)
  BY <1>1, <1>4, SegJoin
<1>7. QED
  BY <1>5, <1>6

\* When a document is read, every item has its end.
Until(i, ve, par) == IF i = root THEN ve[i] ELSE ve[par[i]] - 1
LEMMA AllEnded ==
  ASSUME IInv, TreeInv, Here, pc = "parsed", NEW st, NEW vs, NEW ve, NEW par, Spans(st, vs, ve, par)
  PROVE  /\ root \in ItemIds /\ st[root] = 1 /\ vs[root] = 1 /\ ve[root] = at
         /\ heap[root].string = 0 /\ heap[root].next = 0
         /\ \A i \in ItemIds :
              /\ st[i] \in Nat /\ st[i] # 0 /\ vs[i] \in Nat /\ vs[i] # 0
              /\ ve[i] \in Nat /\ ve[i] # 0 /\ ve[i] <= at
              /\ par[i] \in ItemIds /\ TreeItem(i) /\ ItemAt(i, st, vs, ve, par)
              /\ ~(pc = "colon" /\ i = cur) /\ Linked(i) /\ IsItem(i)
              /\ Labelled(i) <=> heap[i].string # 0
<1>1. pc \in Parsing /\ pc \in Reading /\ stack = <<>> /\ Len(stack) = 0
  BY DEF Parsing, Reading, IInv, ParseInv
<1>2. root \in ItemIds
  BY <1>1 DEF IInv, ParseInv, HeapInv
<1>3. /\ heap[root].next = 0 /\ vs[root] = 1 /\ ve[root] = at /\ \A i \in ItemIds : ve[i] # 0
  <2>1. PathAt(vs, ve, par) /\ pc \notin Reaching
    BY DEF Spans, Reaching
  <2>2. \A m : m \notin 1 .. 0
    OBVIOUS
  <2>3. Path(Len(stack)) = root
    BY <1>1 DEF Path
  <2>4. QED
    BY <1>1, <2>1, <2>2, <2>3 DEF PathAt
<1>4. \A i \in ItemIds :
        /\ st[i] \in Nat /\ vs[i] \in Nat /\ ve[i] \in Nat /\ ve[i] <= at
        /\ par[i] \in ItemIds /\ ItemAt(i, st, vs, ve, par)
  BY DEF Spans
<1>5. \A i \in ItemIds : TreeItem(i) /\ Linked(i) /\ IsItem(i)
  BY <1>1, WhileReading DEF HeapInv, ItemIds
<1>6. \A i \in ItemIds : ~(pc = "colon" /\ i = cur) /\ (Labelled(i) <=> heap[i].string # 0)
  BY DEF Labelled
<1>7. \A i \in ItemIds : st[i] # 0 /\ vs[i] = IF Labelled(i) THEN st[i] + 2 ELSE st[i]
  BY <1>4 DEF ItemAt, NameAt
<1>8. \A i \in ItemIds : vs[i] # 0
  <2>1. \A n \in Nat : n + 2 # 0
    OBVIOUS
  <2>2. QED
    BY <1>4, <1>7, <2>1
<1>9. ~Labelled(root) /\ st[root] = 1
  <2>1. PICK n \in Nat : n = st[root] /\ n # 0
    BY <1>2, <1>4, <1>7
  <2>2. n + 2 # 1
    BY <2>1
  <2>3. QED
    BY <1>2, <1>3, <1>7, <2>1, <2>2
<1>10. QED
  BY <1>2, <1>3, <1>4, <1>5, <1>6, <1>7, <1>8, <1>9

\* The items behind item i end where it says.
LEMMA EndsMeet ==
  ASSUME IInv, TreeInv, Here, pc = "parsed", NEW st, NEW vs, NEW ve, NEW par, Spans(st, vs, ve, par),
         NEW i \in ItemIds
  PROVE  /\ Until(i, ve, par) \in Nat /\ Until(i, ve, par) <= at
         /\ heap[i].child # 0 => /\ heap[i].child \in ItemIds /\ heap[i].child > i
                                 /\ st[heap[i].child] = vs[i] + 1
                                 /\ Until(heap[i].child, ve, par) = ve[i] - 1
         /\ heap[i].next = 0 => Until(i, ve, par) = ve[i]
         /\ heap[i].next # 0 => /\ heap[i].next \in ItemIds /\ heap[i].next > i
                                /\ st[heap[i].next] = ve[i] + 1
                                /\ Until(heap[i].next, ve, par) = Until(i, ve, par)
<1>1. /\ ve[i] \in Nat /\ ve[i] # 0 /\ vs[i] \in Nat /\ vs[i] # 0 /\ ve[i] <= at /\ par[i] \in ItemIds
      /\ st[root] = 1 /\ ve[root] = at /\ at \in Nat /\ heap[root].next = 0
      /\ \A j \in ItemIds : ve[j] \in Nat /\ ve[j] # 0 /\ ve[j] <= at
  BY AllEnded DEF Here
<1>2. /\ ChildAt(i, st, vs, par) /\ NextAt(i, st, ve, par) /\ ParentAt(i, ve, par) /\ Linked(i)
  BY AllEnded DEF ItemAt
<1>3. Until(i, ve, par) \in Nat /\ Until(i, ve, par) <= at
  <2>1. PICK n \in Nat : n = ve[par[i]] /\ n # 0 /\ n <= at
    BY <1>1
  <2>2. n - 1 \in Nat /\ n - 1 <= at
    BY <1>1, <2>1
  <2>3. QED
    BY <1>1, <2>1, <2>2 DEF Until
<1>4. ASSUME heap[i].child # 0
      PROVE  /\ heap[i].child \in ItemIds /\ heap[i].child > i
             /\ st[heap[i].child] = vs[i] + 1
             /\ Until(heap[i].child, ve, par) = ve[i] - 1
  <2>1. heap[i].child \in ItemIds /\ heap[i].child > i
    BY <1>2, <1>4 DEF Linked
  <2>2. st[heap[i].child] = vs[i] + 1 /\ par[heap[i].child] = i
    BY <1>2, <1>4 DEF ChildAt
  <2>3. vs[i] + 1 # 1
    BY <1>1
  <2>4. heap[i].child # root
    BY <1>1, <2>2, <2>3
  <2>5. QED
    BY <2>1, <2>2, <2>4 DEF Until
<1>5. ASSUME heap[i].next = 0 PROVE Until(i, ve, par) = ve[i]
  <2>1. CASE i = root
    BY <2>1 DEF Until
  <2>2. CASE i # root
    <3>1. ve[par[i]] = ve[i] + 1
      BY <1>1, <1>2, <1>5, <2>2 DEF ParentAt
    <3>2. PICK n \in Nat, m \in Nat : n = ve[i] /\ m = ve[par[i]] /\ m - 1 = n
      BY <1>1, <3>1
    <3>3. Until(i, ve, par) = m - 1
      BY <2>2, <3>2 DEF Until
    <3>4. QED
      BY <3>2, <3>3
  <2>3. QED
    BY <2>1, <2>2
<1>6. ASSUME heap[i].next # 0
      PROVE  /\ heap[i].next \in ItemIds /\ heap[i].next > i
             /\ st[heap[i].next] = ve[i] + 1
             /\ Until(heap[i].next, ve, par) = Until(i, ve, par)
  <2>1. heap[i].next \in ItemIds /\ heap[i].next > i
    BY <1>2, <1>6 DEF Linked
  <2>2. st[heap[i].next] = ve[i] + 1 /\ par[heap[i].next] = par[i]
    BY <1>2, <1>6 DEF NextAt
  <2>3. ve[i] + 1 # 1
    BY <1>1
  <2>4. heap[i].next # root /\ i # root
    BY <1>1, <1>6, <2>2, <2>3
  <2>5. QED
    BY <2>1, <2>2, <2>4 DEF Until
<1>7. QED
  BY <1>3, <1>4, <1>5, <1>6

\* The value of an item is what is said at its place if that holds of the
\* items behind it.
Heard(i, st, ve, par) ==
  st[i] <= Until(i, ve, par) /\ ListOf[i] = Seg(st[i], Until(i, ve, par))
LEMMA ValueHeard ==
  ASSUME IInv, TreeInv, Here, pc = "parsed", NEW st, NEW vs, NEW ve, NEW par, Spans(st, vs, ve, par),
         NEW i \in ItemIds, \A j \in ItemIds : j > i => Heard(j, st, ve, par)
  PROVE  vs[i] <= ve[i] /\ Value(i) = Seg(vs[i], ve[i])
<1>1. /\ ve[i] \in Nat /\ vs[i] \in Nat /\ vs[i] # 0 /\ ve[i] # 0
      /\ ValueAt(i, vs, ve) /\ ChildAt(i, st, vs, par) /\ Linked(i) /\ TreeItem(i)
  BY AllEnded DEF ItemAt
<1>2. PICK a \in Nat, b \in Nat : a = vs[i] /\ b = ve[i] /\ a # 0 /\ b # 0
  BY <1>1
<1>3. Value(i) = Of(ListOf, i)
  BY ValueIs
<1>4. heap[i].type \in {"Scalar", "String", "Array", "Object"}
  BY <1>1 DEF Linked, ItemSet
<1>5. CASE heap[i].type = "Scalar"
  <2>1. b = a + 1 /\ heap[i].value = Said(a)
    BY <1>1, <1>2, <1>5 DEF ValueAt
  <2>2. Value(i) = <<Said(a)>>
    BY <1>3, <1>5, <2>1 DEF Of, IsLeaf, LeafText
  <2>3. Seg(a, a + 1) = <<Said(a)>> /\ a <= a + 1
    <3>1. a # 0 /\ a <= a + 1
      BY <1>2
    <3>2. QED
      BY <3>1, SegShort
  <2>4. QED
    BY <1>2, <2>1, <2>2, <2>3
<1>6. CASE heap[i].type = "String"
  <2>1. b = a + 1 /\ heap[heap[i].valuestring].text = <<Said(a)>>
    BY <1>1, <1>2, <1>6 DEF ValueAt
  <2>2. Value(i) = <<Said(a)>>
    BY <1>3, <1>6, <2>1 DEF Of, IsLeaf, LeafText
  <2>3. Seg(a, a + 1) = <<Said(a)>> /\ a <= a + 1
    <3>1. a # 0 /\ a <= a + 1
      BY <1>2
    <3>2. QED
      BY <3>1, SegShort
  <2>4. QED
    BY <1>2, <2>1, <2>2, <2>3
<1>7. CASE heap[i].type \in {"Array", "Object"} /\ heap[i].child = 0
  <2>1. b = a + 2 /\ Said(a) = Opened(heap[i].type) /\ Said(b - 1) = Closing(heap[i].type)
    BY <1>1, <1>2, <1>7 DEF ValueAt
  <2>2. a + 2 - 1 = a + 1 /\ a <= a + 2
    OBVIOUS
  <2>3. Value(i) = <<Opened(heap[i].type), Closing(heap[i].type)>>
    BY <1>3, <1>7 DEF Of, IsLeaf, LeafText, Opened, Closing
  <2>4. Seg(a, a + 2) = <<Said(a), Said(a + 1)>>
    BY <1>2, SegShort
  <2>5. QED
    BY <1>2, <2>1, <2>2, <2>3, <2>4
<1>8. CASE heap[i].type \in {"Array", "Object"} /\ heap[i].child # 0
  <2>1. /\ heap[i].child \in ItemIds /\ heap[i].child > i
        /\ st[heap[i].child] = a + 1 /\ Until(heap[i].child, ve, par) = b - 1
    BY <1>2, <1>8, EndsMeet
  <2>2. a + 1 <= b - 1 /\ ListOf[heap[i].child] = Seg(a + 1, b - 1)
    BY <2>1 DEF Heard
  <2>3. Said(a) = Opened(heap[i].type) /\ Said(b - 1) = Closing(heap[i].type)
    BY <1>1, <1>2, <1>8 DEF ValueAt, ChildAt
  <2>4. Value(i) = <<Opened(heap[i].type)>> \o ListOf[heap[i].child] \o <<Closing(heap[i].type)>>
    BY <1>3, <1>8 DEF Of, IsLeaf
  <2>5. Value(i) = <<Said(a)>> \o Seg(a + 1, b - 1) \o <<Said(b - 1)>>
    BY <2>2, <2>3, <2>4
  <2>6. PICK e \in Nat : e = b - 1 /\ e + 1 = b /\ e # 0 /\ a + 1 <= e /\ a <= e
    BY <1>2, <2>2
  <2>7. Seg(e, b) = <<Said(e)>> /\ Seg(a, a + 1) = <<Said(a)>>
    BY <1>2, <2>6, SegShort
  <2>8. Seg(a, a + 1) \o Seg(a + 1, e) = Seg(a, e)
    <3>1. a + 1 \in Nat /\ a <= a + 1
      OBVIOUS
    <3>2. QED
      BY <1>2, <2>6, <3>1, SegJoin
  <2>9. Seg(a, e) \o Seg(e, b) = Seg(a, b)
    <3>1. e <= b
      BY <2>6
    <3>2. QED
      BY <1>2, <2>6, <3>1, SegJoin
  <2>10. Value(i) = Seg(a, e) \o Seg(e, b)
    BY <2>5, <2>6, <2>7, <2>8
  <2>11. a <= b
    BY <2>6
  <2>12. QED
    BY <1>2, <2>9, <2>10, <2>11
<1>9. QED
  BY <1>4, <1>5, <1>6, <1>7, <1>8

\* So is its list.
LEMMA ListHeard ==
  ASSUME IInv, TreeInv, Here, pc = "parsed", NEW st, NEW vs, NEW ve, NEW par, Spans(st, vs, ve, par),
         NEW i \in ItemIds, \A j \in ItemIds : j > i => Heard(j, st, ve, par)
  PROVE  Heard(i, st, ve, par)
<1>1. /\ NameAt(i, st, vs) /\ NextAt(i, st, ve, par) /\ Linked(i) /\ TreeItem(i)
      /\ (Labelled(i) <=> heap[i].string # 0) /\ ~(pc = "colon" /\ i = cur)
  BY AllEnded DEF ItemAt
<1>2. PICK s \in Nat, a \in Nat, b \in Nat : s = st[i] /\ a = vs[i] /\ b = ve[i] /\ s # 0 /\ a # 0 /\ b # 0
  BY AllEnded
<1>3. PICK u \in Nat : u = Until(i, ve, par)
  BY EndsMeet
<1>4. a <= b /\ Value(i) = Seg(a, b)
  BY <1>2, ValueHeard
<1>5. s <= a /\ Before(i) = Seg(s, a)
  <2>1. CASE heap[i].string = 0
    <3>1. a = s
      BY <1>1, <1>2, <2>1 DEF NameAt
    <3>2. Seg(s, s) = <<>>
      BY <1>2, SegShort
    <3>3. QED
      BY <2>1, <3>1, <3>2 DEF Before
  <2>2. CASE heap[i].string # 0
    <3>1. a = s + 2 /\ heap[heap[i].string].text = <<Said(s)>> /\ Said(s + 1) = ":"
      BY <1>1, <1>2, <2>2 DEF NameAt
    <3>2. Before(i) = <<Said(s)>> \o <<Said(s + 1)>>
      BY <2>2, <3>1 DEF Before
    <3>3. s + 1 \in Nat /\ s + 1 # 0 /\ s + 2 \in Nat /\ s <= s + 1 /\ s + 1 <= s + 2 /\ s <= s + 2 /\ s + 1 + 1 = s + 2
      OBVIOUS
    <3>4. Seg(s, s + 1) = <<Said(s)>> /\ Seg(s + 1, s + 2) = <<Said(s + 1)>>
      BY <1>2, <3>3, SegShort
    <3>5. Seg(s, s + 1) \o Seg(s + 1, s + 2) = Seg(s, s + 2)
      <4>1. s # 0
        BY <1>2
      <4>2. QED
        BY <3>3, <4>1, SegJoin
    <3>6. QED
      BY <3>1, <3>2, <3>3, <3>4, <3>5
  <2>3. QED
    BY <2>1, <2>2
<1>6. Before(i) \o Value(i) = Seg(s, b) /\ s <= b
  <2>1. s # 0 /\ s <= a /\ a <= b
    BY <1>2, <1>4, <1>5
  <2>2. s <= b
    BY <2>1
  <2>3. Seg(s, a) \o Seg(a, b) = Seg(s, b)
    BY <2>1, SegJoin
  <2>4. QED
    BY <1>4, <1>5, <2>2, <2>3
<1>7. /\ Before(i) \in Seq(Tokens) /\ Value(i) \in Seq(Tokens)
      /\ ListOf[i] = Before(i) \o Value(i)
                       \o (IF heap[i].next = 0 THEN <<>> ELSE <<",">> \o ListOf[heap[i].next])
  BY ListIsText DEF IInv
<1>8. CASE heap[i].next = 0
  <2>1. u = b
    BY <1>2, <1>3, <1>8, EndsMeet
  <2>2. PICK w \in Seq(Tokens) : w = Before(i) \o Value(i)
    BY <1>7, TextsJoin
  <2>3. ListOf[i] = w
    BY <1>7, <1>8, <2>2, TextsJoin
  <2>4. QED
    BY <1>2, <1>3, <1>6, <2>1, <2>2, <2>3 DEF Heard
<1>9. CASE heap[i].next # 0
  <2>1. /\ heap[i].next \in ItemIds /\ heap[i].next > i
        /\ st[heap[i].next] = b + 1 /\ Until(heap[i].next, ve, par) = u
    BY <1>2, <1>3, <1>9, EndsMeet
  <2>2. b + 1 <= u /\ ListOf[heap[i].next] = Seg(b + 1, u)
    BY <2>1 DEF Heard
  <2>3. Said(b) = ","
    BY <1>1, <1>2, <1>9 DEF NextAt
  <2>4. PICK v, w, r : v = Before(i) /\ w = Value(i) /\ r = <<Said(b)>> \o Seg(b + 1, u)
    OBVIOUS
  <2>5. v \in Seq(Tokens) /\ w \in Seq(Tokens) /\ r \in Seq(Tokens)
    <3>1. ListOf[heap[i].next] \in Seq(Tokens)
      BY <2>1, ListIsText DEF IInv
    <3>2. <<",">> \in Seq(Tokens)
      BY LensJoin, TokensAre
    <3>3. <<",">> \o ListOf[heap[i].next] \in Seq(Tokens)
      BY <3>1, <3>2, TextsJoin
    <3>4. QED
      BY <1>7, <2>2, <2>3, <2>4, <3>3
  <2>6. ListOf[i] = v \o w \o r
    BY <1>7, <1>9, <2>2, <2>3, <2>4
  <2>7. (v \o w) \o r = v \o (w \o r)
    BY <2>5, TextsJoin
  <2>8. v \o w = Seg(s, b)
    BY <1>6, <2>4
  <2>9. Seg(s, b) \o r = Seg(s, u)
    BY <1>2, <1>6, <2>2, <2>4, SegAround
  <2>10. s <= u
    BY <1>6, <2>2
  <2>11. ListOf[i] = Seg(s, u)
    BY <2>6, <2>7, <2>8, <2>9
  <2>12. QED
    BY <1>2, <1>3, <2>10, <2>11 DEF Heard
<1>10. QED
  BY <1>8, <1>9

\* The tree has the value that was read, and no list is longer than the text.
LEMMA RootHeard ==
  ASSUME IInv, TreeInv, Here, pc = "parsed", NEW st, NEW vs, NEW ve, NEW par, Spans(st, vs, ve, par),
         at <= Len(text) + 1
  PROVE  Short /\ 1 <= at /\ Value(root) = Seg(1, at)
<1> DEFINE bad == {i \in ItemIds : ~Heard(i, st, ve, par)}
<1>1. Len(heap) \in Nat /\ ItemIds \subseteq 0 .. Len(heap) /\ ItemIds \subseteq Nat
  BY DEF IInv, HeapInv, ItemIds, Ids
<1>2. ASSUME bad # {} PROVE FALSE
  <2>1. PICK i \in bad : \A y \in bad : y <= i
    <3>1. bad \in SUBSET (0 .. Len(heap))
      BY <1>1
    <3>2. QED
      BY <1>1, <1>2, <3>1, GreatestNat
  <2>2. i \in ItemIds /\ i \in Nat
    BY <1>1, <2>1
  <2>3. \A j \in ItemIds : j > i => Heard(j, st, ve, par)
    BY <1>1, <2>1, <2>2
  <2>4. Heard(i, st, ve, par)
    BY <2>2, <2>3, ListHeard
  <2>5. QED
    BY <2>1, <2>4
<1>3. \A i \in ItemIds : Heard(i, st, ve, par)
  BY <1>2
<1> HIDE DEF bad
<1>4. ASSUME NEW i \in ItemIds PROVE Len(ListOf[i]) <= MaxLen
  <2>1. PICK s \in Nat, u \in Nat : s = st[i] /\ s # 0 /\ u = Until(i, ve, par) /\ u <= at
    BY AllEnded, EndsMeet
  <2>2. s <= u /\ ListOf[i] = Seg(s, u)
    BY <1>3, <2>1 DEF Heard
  <2>3. Len(ListOf[i]) = u - s
    BY <2>1, <2>2, SegIs
  <2>4. at \in Nat /\ Len(text) \in Nat /\ Len(text) <= MaxLen /\ MaxLen \in Nat
    BY TextsAssumption DEF Here
  <2>5. u - s <= MaxLen
    BY <2>1, <2>2, <2>4
  <2>6. QED
    BY <2>3, <2>5
<1>5. /\ root \in ItemIds /\ vs[root] = 1 /\ ve[root] = at
  BY AllEnded
<1>6. vs[root] <= ve[root] /\ Value(root) = Seg(vs[root], ve[root])
  BY <1>3, <1>5, ValueHeard
<1>7. QED
  BY <1>4, <1>5, <1>6 DEF Short

LEMMA Single == \A x : [j \in 1 .. 1 |-> x] = <<x>>
OBVIOUS

\* What the text starts with.
LEMMA Prefixes ==
  ASSUME NEW n \in Nat
  PROVE  SubSeq(text, 1, n) = [k \in 1 .. n |-> text[k]]
<1>1. /\ SubSeq(text, 1, n) = [k \in 1 .. 1 + n - 1 |-> text[k + 1 - 1]]
      /\ 1 + n - 1 = n
  OBVIOUS
<1>2. \A k \in 1 .. n : k + 1 - 1 = k
  OBVIOUS
<1>3. QED
  BY <1>1, <1>2

\* A text whose strings are closed is heard as it is.
LEMMA ReadHeard ==
  ASSUME Here, 1 <= at, at <= Len(text) + 1, \A k \in 1 .. at - 1 : text[k] # "open"
  PROVE  SubSeq(text, 1, at - 1) = Seg(1, at)
<1>1. at \in Nat /\ Len(text) \in Nat
  BY TextsAssumption DEF Here
<1>2. PICK n \in Nat : n = at - 1 /\ n <= Len(text)
  BY <1>1
<1>3. SubSeq(text, 1, n) = [k \in 1 .. n |-> text[k]]
  BY Prefixes
<1>4. Seg(1, at) = [k \in 1 .. n |-> Said(1 - 1 + k)]
  BY <1>2 DEF Seg
<1>5. \A k \in 1 .. n : Said(1 - 1 + k) = text[k]
  <2>1. \A k \in 1 .. n : 1 - 1 + k = k
    OBVIOUS
  <2>2. QED
    BY <1>2, <2>1 DEF Said
<1>6. QED
  BY <1>2, <1>3, <1>4, <1>5

\* The first clause of ParsesDocument.
LEMMA ReadIsRight ==
  ASSUME IInv, TreeInv, Here, TrackInv, pc = "parsed"
  PROVE  LET read == SubSeq(text, 1, at - 1) IN
         \/ read \in Documents /\ Value(root) = read
         \/ read = <<"open">> /\ Value(root) = <<OpenText>>
<1>1. at <= Len(text) + 1 /\ pc \in Reading
  BY DEF TrackInv, Reading
<1>2. PICK st, vs, ve, par : Spans(st, vs, ve, par)
  BY <1>1 DEF TrackInv
<1>3. Short /\ 1 <= at /\ Value(root) = Seg(1, at)
  BY <1>1, <1>2, RootHeard
<1>4. /\ root \in ItemIds /\ vs[root] = 1 /\ ve[root] = at /\ ve[root] # 0 /\ ValueAt(root, vs, ve)
      /\ Linked(root)
  BY <1>2, AllEnded DEF ItemAt
<1>5. PICK read : read = SubSeq(text, 1, at - 1)
  OBVIOUS
<1>6. CASE \A k \in 1 .. at - 1 : text[k] # "open"
  <2>1. read = Value(root)
    BY <1>1, <1>3, <1>5, <1>6, ReadHeard
  <2>2. Value(root) \in Documents
    BY <1>3, <1>4, ValuesAreDocuments DEF IInv
  <2>3. QED
    BY <1>5, <2>1, <2>2
<1>7. ASSUME NEW k \in 1 .. at - 1, text[k] = "open"
      PROVE  read = <<"open">> /\ Value(root) = <<OpenText>>
  <2>1. at \in Nat /\ Len(text) \in Nat
    BY TextsAssumption DEF Here
  <2>2. k = Len(text)
    <3>1. k \in 1 .. Len(text)
      BY <1>1, <2>1
    <3>2. QED
      BY <1>7, <3>1, TextsAssumption DEF Here
  <2>3. at - 1 = k
    BY <1>1, <2>1, <2>2
  <2>4. Said(at - 1) = OpenText
    BY <1>7, <2>3 DEF Said
  <2>5. OpenText \notin {"]", "}"}
    <3>1. OpenText \in Strings
      BY TokensAssumption DEF OpenText
    <3>2. QED
      BY <3>1, Distinct
  <2>6. heap[root].type \in {"Scalar", "String", "Array", "Object"}
    BY <1>4 DEF Linked, ItemSet
  <2>7. heap[root].type \in {"Scalar", "String"}
    <3>1. CASE heap[root].type \in {"Array", "Object"}
      <4>1. Said(at - 1) = Closing(heap[root].type)
        BY <1>4, <3>1 DEF ValueAt
      <4>2. Closing(heap[root].type) \in {"]", "}"}
        BY DEF Closing
      <4>3. QED
        BY <2>4, <2>5, <4>1, <4>2
    <3>2. QED
      BY <2>6, <3>1
  <2>8. at = 1 + 1
    BY <1>4, <2>7 DEF ValueAt
  <2>9. Value(root) = <<OpenText>>
    <3>1. Seg(1, 1 + 1) = <<Said(1)>>
      BY SegShort
    <3>2. at - 1 = 1
      BY <2>8
    <3>3. QED
      BY <1>3, <2>4, <2>8, <3>1, <3>2
  <2>10. read = <<"open">>
    <3>1. k = 1 /\ at - 1 = 1
      BY <2>3, <2>8
    <3>2. SubSeq(text, 1, 1) = <<text[1]>>
      <4>1. SubSeq(text, 1, 1) = [j \in 1 .. 1 |-> text[j]]
        BY Prefixes
      <4>2. PICK x : x = text[1]
        OBVIOUS
      <4>3. [j \in 1 .. 1 |-> text[j]] = [j \in 1 .. 1 |-> x]
        BY <4>2
      <4>4. QED
        BY <4>1, <4>2, <4>3, Single
    <3>3. QED
      BY <1>5, <1>7, <3>1, <3>2
  <2>11. QED
    BY <2>9, <2>10
<1>8. QED
  BY <1>5, <1>6, <1>7

-----------------------------------------------------------------------------
\* The printer leaves the lists as long as they are.
LEMMA StillShort ==
  ASSUME IInv, IInv', TreeInv, TrackInv, pc \in Printing \cup {"parsed"}, pc' \in Printing, Short,
         ItemIds' = ItemIds, \A i \in Ids : heap'[i] = heap[i]
  PROVE  TrackInv'
<1>1. HeapInv /\ HeapInv'
  BY DEF IInv, Printing
<1>2. \A i \in ItemIds : ListOf'[i] = ListOf[i]
  BY <1>1, ListKept
<1>3. Short'
  BY <1>2 DEF Short
<1>4. pc' \notin Reading
  BY DEF Printing, Reading
<1>5. QED
  BY <1>3, <1>4 DEF TrackInv

LEMMA TrackInit == Init => TrackInv
BY DEF Init, TrackInv, Reading, Printing

\* Every step keeps it.
LEMMA TrackNext ==
  ASSUME IInv, IInv', TreeInv, AheadInv, TrackInv, [Next]_vars
  PROVE  TrackInv'
<1>1. Here
  BY DEF AheadInv
<1>2. CASE Parse
  <2>1. at = 1
    BY <1>2 DEF Parse, AheadInv
  <2>2. QED
    BY <1>1, <1>2, <2>1, FirstSpan
<1>3. CASE ParseScalar \/ ParseString \/ ParseEmpty
  BY <1>1, <1>3, ScalarSpan, StringSpan, EmptySpan
<1>4. CASE ParseContainer \/ NextChild \/ EndContainer
  BY <1>1, <1>4, ContainerSpan, NextSpan, EndSpan
<1>5. CASE ParseName \/ ParseColon
  BY <1>1, <1>5, NameSpan, ColonSpan
<1>6. CASE Parsed
  BY <1>6, SpansStay DEF Parsed, OnlyPhase, Reading
<1>7. CASE ParseNoMemory \/ Malformed \/ ScanPastEnd \/ Release
  <2>1. pc' \notin Reading \cup Printing
    BY <1>7 DEF ParseNoMemory, Malformed, ScanPastEnd, Release, GiveUp, Reading, Printing
  <2>2. QED
    BY <2>1 DEF TrackInv
<1>8. CASE PrintItem
  <2>1. pc = "parsed" /\ pc' \in Printing /\ heap' = heap
    BY <1>8 DEF PrintItem, Printing
  <2>2. ItemIds' = ItemIds
    BY <2>1 DEF ItemIds, Ids, IsItem
  <2>3. Short
    <3>1. pc \in Reading
      BY <2>1 DEF Reading
    <3>2. at <= Len(text) + 1 /\ \E st, vs, ve, par : Spans(st, vs, ve, par)
      BY <3>1 DEF TrackInv
    <3>3. QED
      BY <1>1, <2>1, <3>2, RootHeard
  <2>4. QED
    BY <2>1, <2>2, <2>3, StillShort
<1>9. CASE PrintNothing \/ PrintLeaf \/ PrintContainer \/ PrintName \/ PrintNext \/ PrintEnds
  <2>1. PrintStays /\ pc' \in Printing
    BY <1>9, PrinterStays
  <2>2. pc \in Printing
    BY <1>9 DEF PrintNothing, PrintLeaf, PrintContainer, PrintName, PrintNext, PrintEnds, Printing
  <2>3. Short
    BY <2>2 DEF TrackInv
  <2>4. QED
    BY <2>1, <2>2, <2>3, StillShort DEF PrintStays
<1>10. CASE UNCHANGED vars
  <2>1. CASE pc \in Reading
    BY <1>10, <2>1, SpansStay DEF vars, OnlyPhase
  <2>2. CASE pc \in Printing
    <3>1. pc' \in Printing /\ heap' = heap /\ Short
      BY <1>10, <2>2 DEF vars, TrackInv
    <3>2. ItemIds' = ItemIds
      BY <3>1 DEF ItemIds, Ids, IsItem
    <3>3. QED
      BY <2>2, <3>1, <3>2, StillShort
  <2>3. CASE pc \notin Reading \cup Printing
    BY <1>10, <2>3 DEF vars, TrackInv
  <2>4. QED
    BY <2>1, <2>2, <2>3
<1>11. QED
  BY <1>2, <1>3, <1>4, <1>5, <1>6, <1>7, <1>8, <1>9, <1>10 DEF Next, Ended

\* All of it together.
TextInv == IInv /\ TreeInv /\ RenderInv /\ AheadInv /\ TrackInv
LEMMA TextIsKept == Spec => []TextInv
<1>1. Init => TextInv
  BY InvInit, RenderInit, AheadInit, TrackInit DEF TextInv
<1>2. TextInv /\ [Next]_vars => TextInv'
  <2> SUFFICES ASSUME TextInv, [Next]_vars PROVE TextInv'
    OBVIOUS
  <2>1. IInv /\ TreeInv /\ RenderInv /\ AheadInv /\ TrackInv
    BY DEF TextInv
  <2>2. IInv'
    BY <2>1, InvNext
  <2>3. TreeInv' /\ RenderInv'
    BY <2>1, <2>2, TreeNext
  <2>4. AheadInv' /\ TrackInv'
    BY <2>1, <2>2, AheadNext, TrackNext
  <2>5. QED
    BY <2>2, <2>3, <2>4 DEF TextInv
<1>3. QED
  BY <1>1, <1>2, PTL DEF Spec

\* Whatever the text is: cJSON_Parse reads the document that the text starts
\* with, the tree it returns has that value, and it returns NULL, if not for
\* lack of memory, only for a text that starts with no document.
THEOREM ParseReadsDocument == Spec => []ParsesDocument
<1>1. TextInv => ParsesDocument
  <2> SUFFICES ASSUME TextInv PROVE ParsesDocument
    OBVIOUS
  <2>1. IInv /\ TreeInv /\ AheadInv /\ TrackInv /\ Here
    BY DEF TextInv, AheadInv
  <2>2. pc = "null" /\ ~oom => ~Begins
    BY <2>1 DEF AheadInv
  <2>3. QED
    BY <2>1, <2>2, ReadIsRight DEF ParsesDocument, Begins
<1>2. QED
  BY <1>1, TextIsKept, PTL

\* Whatever the text is and whichever malloc fails: a text that cJSON_Print
\* returns for an item is the item's value, member by member, and a document;
\* it returns NULL only for NULL or for lack of memory.
THEOREM PrintGivesValue == Spec => []PrintsValue
<1>1. TextInv => PrintsValue
  <2> SUFFICES ASSUME TextInv, pc = "printed", stack = <<>>
               PROVE  IF ret = 0 THEN cur = 0 \/ oom
                      ELSE heap[ret].text = Value(cur) /\ heap[ret].text \in Documents
    BY DEF PrintsValue
  <2>1. pc \in Printing /\ HeapInv /\ TreeInv /\ Short /\ RenderInv
    BY DEF TextInv, IInv, TrackInv, Printing
  <2>2. IF ret = 0 THEN cur = 0 \/ oom ELSE cur # 0 /\ heap[ret].text = Value(cur)
    BY <2>1 DEF RenderInv
  <2>3. cur # 0 => cur \in ItemIds
    BY <2>1 DEF HeapInv
  <2>4. cur # 0 => Value(cur) \in Documents
    BY <2>1, <2>3, ValuesAreDocuments
  <2>5. QED
    BY <2>2, <2>4
<1>2. QED
  BY <1>1, TextIsKept, PTL
=============================================================================
