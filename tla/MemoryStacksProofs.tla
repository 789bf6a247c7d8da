------------------------- MODULE MemoryStacksProofs -------------------------
(***************************************************************************)
(* Why no two live blocks of the stacks share a byte, for every number of  *)
(* stacks, policies, sizes, alignment and calls: the nodes of the free     *)
(* lists stay apart from each other and from the blocks, whatever is       *)
(* split, merged and given back.                                           *)
(*                                                                         *)
(* What the policies do not check themselves is a hypothesis: that the     *)
(* linear ones are not asked for more than they have (LinearInBounds), and *)
(* that no call leaves less than a Node of the node or of the extra buffer *)
(* that it cuts (SplitsLeaveNodes).  Both follow from the sizes that an    *)
(* application asks for, when they fit: SizedStacksImplementHeap.          *)
(***************************************************************************)
EXTENDS MemoryStacks, FiniteSetTheorems, SequenceTheorems, WellFoundedInduction, TLAPS

-----------------------------------------------------------------------------
(* Ranges of bytes                                                         *)

Node == [addr: Nat, size: {n \in Nat : n >= NodeSize}]

Held(x, buffers) == \E buffer \in buffers : Inside(x, buffer)

Within(x, y) == y.addr <= x.addr /\ x.addr + x.size <= y.addr + y.size

\* Two ranges of which the second starts where the first ends.
Join(x, y) == [x EXCEPT !.size = @ + y.size]

\* A part of a range is apart from all that the range is apart from.
LEMMA PartApart ==
    ASSUME NEW x, NEW y, NEW z, x.addr \in Nat, x.size \in Nat, y.addr \in Nat, y.size \in Nat,
           z.addr \in Nat, z.size \in Nat, Within(x, y), Apart(y, z)
    PROVE  Apart(x, z) /\ Apart(z, x)
BY DEF Within, Apart

LEMMA ApartSymmetric ==
    ASSUME NEW x, NEW y, Apart(x, y)
    PROVE  Apart(y, x)
BY DEF Apart

\* What is apart from two ranges is apart from the two put together.
LEMMA JoinApart ==
    ASSUME NEW x \in Node, NEW y \in Node, NEW z, z.addr \in Nat, z.size \in Nat \ {0},
           x.addr + x.size = y.addr, Apart(x, z), Apart(y, z)
    PROVE  Join(x, y) \in Node /\ Apart(Join(x, y), z) /\ Apart(z, Join(x, y))
BY DEF Node, NodeSize, Join, Apart

-----------------------------------------------------------------------------
(* Free lists                                                              *)

\* A buffer has a slot of its own.
Slotted(buffers) ==
    \A x \in buffers :
        /\ x.slot \in Nat /\ x.size \in Nat /\ x.size < SlotSize
        /\ \A y \in buffers : x.slot = y.slot => x = y

\* What FreeListSound says of the nodes of one policy, their size apart.
ListSound(list, buffers, blocks) ==
    /\ list \in Seq(Node)
    /\ \A i \in DOMAIN list : Held(list[i], buffers)
    /\ \A i, j \in DOMAIN list : i # j => Apart(list[i], list[j])
    /\ \A i \in DOMAIN list : \A b \in blocks : Apart(list[i], b)

\* A list without its elements after a and before c, with others in their place.
Splice(list, a, middle, c) == SubSeq(list, 1, a) \o middle \o SubSeq(list, c, Len(list))

\* What such a list is made of.
Spliced(new, list, a, middle, c, n, N) ==
    /\ new \in Seq(Node) /\ Len(new) = N /\ DOMAIN new = 1 .. N
    /\ \A j \in 1 .. N : new[j] =
          IF j <= a THEN list[j]
          ELSE IF j <= n THEN middle[j - a] ELSE list[(c + j) - (n + 1)]

LEMMA SpliceAt ==
    ASSUME NEW list \in Seq(Node), NEW a \in 0 .. Len(list), NEW c \in a + 1 .. Len(list) + 1,
           NEW middle \in Seq(Node),
           NEW n, n = a + Len(middle), NEW N, N = n + (Len(list) + 1 - c),
           NEW new, new = Splice(list, a, middle, c)
    PROVE  Spliced(new, list, a, middle, c, n, N)
<1> DEFINE low == SubSeq(list, 1, a)
           high == SubSeq(list, c, Len(list))
<1>1. /\ low \in Seq(Node) /\ Len(low) = a
      /\ \A j \in 1 .. a : low[j] = list[j]
    BY SubSeqProperties
<1>2. /\ high \in Seq(Node) /\ Len(high) = Len(list) + 1 - c
      /\ \A j \in 1 .. Len(high) : high[j] = list[(c + j) - 1]
    BY SubSeqProperties
<1>3. PICK half : half = low \o middle
    OBVIOUS
<1>4. PICK whole : whole = half \o high
    OBVIOUS
<1>5. whole = new
    BY <1>3, <1>4 DEF Splice
<1> HIDE DEF low, high
<1>6. n = a + Len(middle) /\ N = n + (Len(list) + 1 - c)
    OBVIOUS
<1> n \in Nat /\ N \in Nat /\ a <= n /\ n <= N
    BY <1>6
<1>7. /\ half \in Seq(Node) /\ Len(half) = n
      /\ \A j \in 1 .. n : half[j] = IF j <= a THEN low[j] ELSE middle[j - a]
    <2>1. /\ half \in Seq(Node) /\ Len(half) = Len(low) + Len(middle)
          /\ \A j \in 1 .. Len(low) + Len(middle) :
                half[j] = IF j <= Len(low) THEN low[j] ELSE middle[j - Len(low)]
        BY <1>1, <1>3, ConcatProperties
    <2> QED
        BY <1>1, <1>6, <2>1
<1>8. /\ whole \in Seq(Node) /\ Len(whole) = N /\ DOMAIN whole = 1 .. N
      /\ \A j \in 1 .. N : whole[j] = IF j <= n THEN half[j] ELSE high[j - n]
    <2>1. /\ whole \in Seq(Node) /\ Len(whole) = Len(half) + Len(high)
          /\ \A j \in 1 .. Len(half) + Len(high) :
                whole[j] = IF j <= Len(half) THEN half[j] ELSE high[j - Len(half)]
        BY <1>2, <1>4, <1>7, ConcatProperties
    <2> QED
        BY <1>2, <1>6, <1>7, <2>1
<1>9. ASSUME NEW j \in 1 .. N
      PROVE  whole[j] = IF j <= a THEN list[j]
                        ELSE IF j <= n THEN middle[j - a] ELSE list[(c + j) - (n + 1)]
    <2>1. CASE j <= n
        BY <1>1, <1>6, <1>7, <1>8, <2>1
    <2>2. CASE j > n
        <3> j - n \in 1 .. Len(high)
            BY <1>2, <1>6, <2>2
        <3>1. PICK k \in 1 .. Len(high) : k = j - n
            OBVIOUS
        <3>2. whole[j] = high[k]
            BY <1>8, <2>2, <3>1
        <3>3. high[k] = list[(c + k) - 1]
            BY <1>2
        <3>4. (c + k) - 1 = (c + j) - (n + 1)
            BY <1>6, <3>1
        <3>5. whole[j] = list[(c + j) - (n + 1)]
            BY <3>2, <3>3, <3>4
        <3>6. ~ (j <= a) /\ ~ (j <= n)
            BY <2>2
        <3> QED
            BY <3>5, <3>6
    <2> QED
        BY <1>6, <2>1, <2>2
<1> QED
    BY <1>5, <1>6, <1>8, <1>9 DEF Spliced

\* A list with one more node, in the place of those between a and c.
LEMMA SpliceSound ==
    ASSUME NEW list, NEW buffers, NEW blocks, ListSound(list, buffers, {}),
           NEW a \in 0 .. Len(list), NEW c \in a + 1 .. Len(list) + 1,
           \A i \in 1 .. a \cup c .. Len(list) : \A b \in blocks : Apart(list[i], b),
           NEW m \in Node, Held(m, buffers),
           \A b \in blocks : Apart(m, b),
           \A i \in 1 .. a \cup c .. Len(list) : Apart(list[i], m)
    PROVE  ListSound(Splice(list, a, <<m>>, c), buffers, blocks)
<1>1. list \in Seq(Node) /\ DOMAIN list = 1 .. Len(list) /\ Len(list) \in Nat
    BY DEF ListSound
<1> DEFINE N == a + 1 + (Len(list) + 1 - c)
           src(j) == IF j <= a THEN j ELSE (c + j) - (a + 2)
<1>2. PICK new : new = Splice(list, a, <<m>>, c)
    OBVIOUS
<1>3. /\ new \in Seq(Node) /\ Len(new) = N /\ DOMAIN new = 1 .. N
      /\ new[a + 1] = m
      /\ \A j \in 1 .. N : j # a + 1 => new[j] = list[src(j)]
    <2>1. PICK middle : middle = <<m>>
        OBVIOUS
    <2>2. middle \in Seq(Node) /\ Len(middle) = 1 /\ middle[1] = m
        BY <2>1
    <2>3. /\ new \in Seq(Node) /\ Len(new) = N /\ DOMAIN new = 1 .. N
          /\ \A j \in 1 .. N : new[j] =
                IF j <= a THEN list[j]
                ELSE IF j <= a + 1 THEN middle[j - a] ELSE list[(c + j) - (a + 1 + 1)]
        <3>1. new = Splice(list, a, middle, c)
            BY <1>2, <2>1
        <3>2. PICK n, M : n = a + 1 /\ M = n + (Len(list) + 1 - c)
            OBVIOUS
        <3>3. n = a + Len(middle)
            BY <1>1, <2>2, <3>2
        <3>4. Spliced(new, list, a, middle, c, n, M)
            BY <1>1, <2>2, <3>1, <3>2, <3>3, SpliceAt
        <3> QED
            BY <3>2, <3>4 DEF Spliced
    <2>4. new[a + 1] = m
        BY <1>1, <2>2, <2>3
    <2>5. ASSUME NEW j \in 1 .. N, j # a + 1 PROVE new[j] = list[src(j)]
        BY <1>1, <2>3, <2>5
    <2> QED
        BY <2>3, <2>4, <2>5
<1>4. \A j \in 1 .. N : j # a + 1 => /\ src(j) \in 1 .. a \cup c .. Len(list)
                                     /\ src(j) \in DOMAIN list
    BY <1>1
<1>5. \A i, j \in 1 .. N : i # j /\ i # a + 1 /\ j # a + 1 => src(i) # src(j)
    BY <1>1
<1> HIDE DEF N, src
<1>6. ASSUME NEW j \in 1 .. N
      PROVE  Held(new[j], buffers) /\ \A b \in blocks : Apart(new[j], b)
    BY <1>3, <1>4 DEF ListSound
<1>7. ASSUME NEW i \in 1 .. N, NEW j \in 1 .. N, i # j
      PROVE  Apart(new[i], new[j])
    <2>1. CASE i = a + 1
        <3>1. Apart(list[src(j)], m) /\ new[j] = list[src(j)] /\ new[i] = m
            BY <1>3, <1>4, <1>7, <2>1
        <3> QED
            BY <3>1, ApartSymmetric
    <2>2. CASE j = a + 1
        BY <1>3, <1>4, <1>7, <2>2
    <2>3. CASE i # a + 1 /\ j # a + 1
        BY <1>3, <1>4, <1>5, <1>7, <2>3 DEF ListSound
    <2> QED
        BY <2>1, <2>2, <2>3
<1> QED
    BY <1>2, <1>3, <1>6, <1>7 DEF ListSound

LEMMA SpliceOutSound ==
    ASSUME NEW list, NEW buffers, NEW blocks, ListSound(list, buffers, {}),
           NEW a \in 0 .. Len(list), NEW c \in a + 1 .. Len(list) + 1,
           \A i \in 1 .. a \cup c .. Len(list) : \A b \in blocks : Apart(list[i], b)
    PROVE  ListSound(Splice(list, a, << >>, c), buffers, blocks)
<1>1. list \in Seq(Node) /\ DOMAIN list = 1 .. Len(list) /\ Len(list) \in Nat
    BY DEF ListSound
<1> DEFINE N == a + (Len(list) + 1 - c)
           src(j) == IF j <= a THEN j ELSE (c + j) - (a + 1)
<1>2. PICK new : new = Splice(list, a, << >>, c)
    OBVIOUS
<1>3. /\ new \in Seq(Node) /\ Len(new) = N /\ DOMAIN new = 1 .. N
      /\ \A j \in 1 .. N : new[j] = list[src(j)]
    <2>1. PICK middle : middle = << >>
        OBVIOUS
    <2>2. middle \in Seq(Node) /\ Len(middle) = 0
        BY <2>1
    <2>3. /\ new \in Seq(Node) /\ Len(new) = N /\ DOMAIN new = 1 .. N
          /\ \A j \in 1 .. N : new[j] =
                IF j <= a THEN list[j]
                ELSE IF j <= a + 0 THEN middle[j - a] ELSE list[(c + j) - (a + 0 + 1)]
        <3>1. new = Splice(list, a, middle, c)
            BY <1>2, <2>1
        <3>2. PICK n, M : n = a + 0 /\ M = n + (Len(list) + 1 - c)
            OBVIOUS
        <3>3. n = a + Len(middle)
            BY <1>1, <2>2, <3>2
        <3>4. Spliced(new, list, a, middle, c, n, M)
            BY <1>1, <2>2, <3>1, <3>2, <3>3, SpliceAt
        <3> QED
            BY <3>2, <3>4 DEF Spliced
    <2> QED
        BY <1>1, <2>3
<1>4. \A j \in 1 .. N : src(j) \in DOMAIN list /\ src(j) \in 1 .. a \cup c .. Len(list)
    BY <1>1
<1>5. \A i, j \in 1 .. N : i # j => src(i) # src(j)
    BY <1>1
<1> HIDE DEF N, src
<1>6. ASSUME NEW j \in 1 .. N
      PROVE  Held(new[j], buffers) /\ \A b \in blocks : Apart(new[j], b)
    BY <1>3, <1>4 DEF ListSound
<1>7. ASSUME NEW i \in 1 .. N, NEW j \in 1 .. N, i # j
      PROVE  Apart(new[i], new[j])
    BY <1>3, <1>4, <1>5, <1>7 DEF ListSound
<1> QED
    BY <1>2, <1>3, <1>6, <1>7 DEF ListSound
-----------------------------------------------------------------------------
(* What the operations of the free list do to it                           *)

\* A set of naturals has a least element.
LEMMA LeastNat ==
    ASSUME NEW S \in SUBSET Nat, S # {}
    PROVE  \E x \in S : \A y \in S : x <= y
<1> DEFINE Less == {p \in Nat \X Nat : p[1] < p[2]}
<1>1. IsWellFoundedOn(Less, Nat)
    BY NatLessThanWellFounded DEF OpToRel
<1>2. \A x, y \in Nat : x < y => <<x, y>> \in Less
    OBVIOUS
<1> HIDE DEF Less
<1>3. \E x \in S : \A y \in S : ~ (<<y, x>> \in Less)
    BY <1>1, WFMin
<1>4. PICK x \in S : \A y \in S : ~ (<<y, x>> \in Less)
    BY <1>3
<1>5. \A y \in S : x <= y
    <2> TAKE y \in S
    <2>1. x \in Nat /\ y \in Nat /\ ~ (y < x)
        BY <1>2, <1>4
    <2> QED
        BY <2>1
<1> QED
    BY <1>5

LEMMA MinInSet ==
    ASSUME NEW S \in SUBSET Nat, S # {}
    PROVE  Min(S) \in S /\ \A y \in S : Min(S) <= y
BY LeastNat DEF Min

\* Nodes that touch are in one buffer: buffers have slots of their own, and no
\* buffer fills its slot.
LEMMA TouchingHeld ==
    ASSUME NEW buffers, Slotted(buffers), NEW x \in Node, NEW y \in Node,
           Held(x, buffers), Held(y, buffers), x.addr + x.size = y.addr
    PROVE  Held(Join(x, y), buffers)
<1>1. PICK b \in buffers : Inside(x, b)
    BY DEF Held
<1>2. PICK c \in buffers : Inside(y, c)
    BY DEF Held
<1>3. /\ b.slot \in Nat /\ b.size \in Nat /\ b.size < SlotSize
      /\ c.slot \in Nat /\ c.size \in Nat /\ c.size < SlotSize
    BY DEF Slotted
<1>4. /\ x.addr \in Nat /\ x.size \in Nat /\ x.size > 0
      /\ y.addr \in Nat /\ y.size \in Nat /\ y.size > 0
    BY DEF Node, NodeSize
<1>5. b.slot = c.slot
    <2> SlotSize \in Nat \ {0}
        BY StackAssumption
    <2>1. PICK j, k : j = b.slot /\ k = c.slot
        OBVIOUS
    <2>2. /\ j * SlotSize <= x.addr /\ x.addr + x.size <= j * SlotSize + b.size
          /\ k * SlotSize <= y.addr /\ y.addr + y.size <= k * SlotSize + c.size
        BY <1>1, <1>2, <2>1 DEF Inside, AddressOf
    <2>3. ~ (j < k)
        <3>1. j < k => j * SlotSize + SlotSize <= k * SlotSize
            BY <1>3, <2>1
        <3>2. j * SlotSize \in Nat /\ k * SlotSize \in Nat
            BY <1>3, <2>1
        <3> QED
            BY <1>3, <1>4, <2>1, <2>2, <3>1, <3>2
    <2>4. ~ (k < j)
        <3>1. k < j => k * SlotSize + SlotSize <= j * SlotSize
            BY <1>3, <2>1
        <3>2. j * SlotSize \in Nat /\ k * SlotSize \in Nat
            BY <1>3, <2>1
        <3> QED
            BY <1>3, <1>4, <2>1, <2>2, <3>1, <3>2
    <2> QED
        BY <1>3, <2>1, <2>3, <2>4
<1>6. b = c
    BY <1>5 DEF Slotted
<1>7. Join(x, y).addr = x.addr /\ Join(x, y).size = x.size + y.size
    BY DEF Join, Node
<1>8. Inside(Join(x, y), b)
    <2> AddressOf(b.slot) \in Nat
        BY <1>3, StackAssumption DEF AddressOf
    <2> QED
        BY <1>1, <1>2, <1>3, <1>4, <1>6, <1>7 DEF Inside
<1> QED
    BY <1>8 DEF Held

\* A block taken off a node: no live block and no node shares a byte with it.
LEMMA SplitSound ==
    ASSUME NEW list, NEW buffers, NEW blocks, ListSound(list, buffers, blocks),
           \A b \in blocks : b.addr \in Nat /\ b.size \in Nat,
           \A x \in buffers : x.slot \in Nat /\ x.size \in Nat,
           NEW i \in DOMAIN list, NEW size \in Nat, size >= NodeSize,
           list[i].size < Word, LeavesNode(list[i].size, size),
           NEW block, block.addr = list[i].addr, block.size = size
    PROVE  /\ ListSound(UpdateFreeNodeList(list, i, size), buffers, blocks \cup {block})
           /\ Held(block, buffers)
           /\ \A b \in blocks : Apart(block, b)
<1>1. /\ list \in Seq(Node) /\ DOMAIN list = 1 .. Len(list) /\ Len(list) \in Nat
      /\ list[i] \in Node
    BY DEF ListSound
<1>2. PICK node : node = list[i]
    OBVIOUS
<1>3. /\ node \in Node /\ node.addr \in Nat /\ node.size \in Nat /\ node.size < Word
      /\ Held(node, buffers) /\ \A b \in blocks : Apart(node, b)
      /\ block.addr = node.addr /\ block.size = size
      /\ node.size = size \/ node.size >= size + NodeSize
    BY <1>1, <1>2 DEF ListSound, Node, LeavesNode
<1> size > 0 /\ Word \in Nat \ {0}
    BY StackAssumption DEF NodeSize
<1>4. (node.size - size) % Word = node.size - size
    BY <1>3 DEF NodeSize
<1>5. Within(block, node)
    BY <1>3 DEF Within, NodeSize
<1>6. Held(block, buffers)
    <2>1. PICK x \in buffers : Inside(node, x)
        BY <1>3 DEF Held
    <2> AddressOf(x.slot) \in Nat
        BY StackAssumption DEF AddressOf
    <2>2. Inside(block, x)
        BY <1>3, <1>5, <2>1 DEF Inside, Within
    <2> QED
        BY <2>2 DEF Held
<1>7. \A b \in blocks : Apart(block, b)
    BY <1>3, <1>5, PartApart
<1> DEFINE Others == {list[j] : j \in DOMAIN list \ {i}}
<1>8. \A x \in Others : Apart(node, x) /\ x.addr \in Nat /\ x.size \in Nat
    <2> SUFFICES ASSUME NEW j \in DOMAIN list, j # i
                 PROVE  Apart(node, list[j]) /\ list[j].addr \in Nat /\ list[j].size \in Nat
        OBVIOUS
    <2>1. Apart(list[i], list[j])
        BY DEF ListSound
    <2>2. list[j] \in Node
        BY <1>1
    <2> QED
        BY <1>2, <2>1, <2>2 DEF Node
<1> HIDE DEF Others
<1>9. \A j \in DOMAIN list : j # i => list[j] \in Others /\ Apart(list[j], block)
    <2> SUFFICES ASSUME NEW j \in DOMAIN list, j # i
                 PROVE  list[j] \in Others /\ Apart(list[j], block)
        OBVIOUS
    <2>1. list[j] \in Others
        BY DEF Others
    <2> QED
        BY <1>3, <1>5, <1>8, <2>1, PartApart
<1>10. PICK a, c : a = i - 1 /\ c = i + 1
    OBVIOUS
<1>11. a \in 0 .. Len(list) /\ c \in a + 1 .. Len(list) + 1
    BY <1>1, <1>10
<1>12. \A j \in 1 .. a \cup c .. Len(list) : j \in DOMAIN list /\ j # i
    BY <1>1, <1>10, <1>11
<1>13. PICK all : all = blocks \cup {block}
    OBVIOUS
<1>14. \A j \in 1 .. a \cup c .. Len(list) : \A b \in all : Apart(list[j], b)
    BY <1>9, <1>12, <1>13 DEF ListSound
<1>15. ListSound(list, buffers, {})
    BY DEF ListSound
<1>16. CASE node.size = size
    <2>1. UpdateFreeNodeList(list, i, size) = Splice(list, a, << >>, c)
        <3> ~ (node.size - size > 0)
            BY <1>3, <1>16
        <3> QED
            BY <1>2, <1>4, <1>10 DEF UpdateFreeNodeList, Splice
    <2>2. ListSound(Splice(list, a, << >>, c), buffers, all)
        BY <1>11, <1>14, <1>15, SpliceOutSound
    <2> QED
        BY <1>6, <1>7, <1>13, <2>1, <2>2
<1>17. CASE node.size >= size + NodeSize
    <2>1. PICK left : left = [addr |-> node.addr + size, size |-> node.size - size]
        OBVIOUS
    <2>2. /\ left \in Node /\ left.addr = node.addr + size
          /\ left.size = node.size - size /\ left.size > 0
        BY <1>3, <1>17, <2>1 DEF Node, NodeSize
    <2>3. UpdateFreeNodeList(list, i, size) = Splice(list, a, <<left>>, c)
        <3> node.size - size > 0
            BY <2>2
        <3> QED
            BY <1>2, <1>4, <1>10, <2>1 DEF UpdateFreeNodeList, Splice
    <2>4. Within(left, node)
        BY <1>3, <2>2 DEF Within
    <2>5. Held(left, buffers)
        <3>1. PICK x \in buffers : Inside(node, x)
            BY <1>3 DEF Held
        <3> AddressOf(x.slot) \in Nat
            BY StackAssumption DEF AddressOf
        <3>2. Inside(left, x)
            BY <1>3, <2>2, <2>4, <3>1 DEF Inside, Within
        <3> QED
            BY <3>2 DEF Held
    <2>6. \A b \in all : Apart(left, b)
        <3>1. \A b \in blocks : Apart(left, b)
            BY <1>3, <2>2, <2>4, PartApart
        <3>2. Apart(left, block)
            BY <1>3, <2>2 DEF Apart
        <3> QED
            BY <1>13, <3>1, <3>2
    <2>7. \A j \in 1 .. a \cup c .. Len(list) : Apart(list[j], left)
        BY <1>3, <1>9, <1>12, <1>8, <2>2, <2>4, PartApart
    <2>8. ListSound(Splice(list, a, <<left>>, c), buffers, all)
        BY <1>11, <1>14, <1>15, <2>2, <2>5, <2>6, <2>7, SpliceSound
    <2> QED
        BY <1>6, <1>7, <1>13, <2>3, <2>8
<1> QED
    BY <1>3, <1>16, <1>17

\* A node that is given back, merged with the nodes that it touches.
LEMMA GiveBackSound ==
    ASSUME NEW list, NEW buffers, Slotted(buffers), NEW blocks,
           ListSound(list, buffers, blocks),
           \A b \in blocks : b.addr \in Nat /\ b.size \in Nat \ {0},
           NEW node \in Node, Held(node, buffers),
           \A b \in blocks : Apart(node, b),
           \A i \in DOMAIN list : Apart(list[i], node)
    PROVE  ListSound(GiveNodeBack(list, node), buffers, blocks)
<1>1. /\ list \in Seq(Node) /\ DOMAIN list = 1 .. Len(list) /\ Len(list) \in Nat
      /\ ListSound(list, buffers, {})
    BY DEF ListSound
<1>2. \A n \in Node : /\ n.addr \in Nat /\ n.size \in Nat \ {0}
                      /\ [n EXCEPT !.size = @ + 0] = n
    BY DEF Node, NodeSize
<1>3. PICK above : above = {i \in DOMAIN list : node.addr < list[i].addr}
    OBVIOUS
<1>4. PICK k : k = IF above = {} THEN Len(list) + 1 ELSE Min(above)
    OBVIOUS
<1>5. /\ k \in 1 .. Len(list) + 1
      /\ above # {} => k \in DOMAIN list
    <2> above \in SUBSET Nat /\ above \subseteq DOMAIN list
        BY <1>1, <1>3
    <2>1. above # {} => Min(above) \in above
        BY MinInSet
    <2> QED
        BY <1>1, <1>3, <1>4, <2>1
<1> DEFINE next == above # {} /\ node.addr + node.size = list[k].addr
           previous == k > 1 /\ list[k - 1].addr + list[k - 1].size = node.addr
           merged == [node EXCEPT !.size = @ + (IF next THEN list[k].size ELSE 0)]
<1>6. PICK c : c = IF next THEN k + 1 ELSE k
    OBVIOUS
<1>7. c \in k .. Len(list) + 1 /\ c \in Nat
    BY <1>1, <1>5, <1>6
<1>8. GiveNodeBack(list, node) =
        IF previous
        THEN SubSeq(list, 1, k - 2) \o <<Join(list[k - 1], merged)>> \o SubSeq(list, c, Len(list))
        ELSE IF above = {} THEN list
        ELSE SubSeq(list, 1, k - 1) \o <<merged>> \o SubSeq(list, c, Len(list))
    BY <1>3, <1>4, <1>6 DEF GiveNodeBack, Join
\* Merged with the next node or not: away from all that stays.
<1>9. PICK m : m = merged
    OBVIOUS
<1>10. /\ m \in Node /\ Held(m, buffers) /\ m.addr = node.addr
       /\ \A b \in blocks : Apart(m, b)
       /\ \A i \in 1 .. k - 1 \cup c .. Len(list) : Apart(list[i], m)
    <2>1. CASE next
        <3>1. PICK after : after = list[k]
            OBVIOUS
        <3>2. /\ k \in DOMAIN list /\ after \in Node /\ node.addr + node.size = after.addr
              /\ Held(after, buffers) /\ \A b \in blocks : Apart(after, b)
              /\ \A i \in DOMAIN list : i # k => Apart(list[i], after)
            BY <1>1, <1>5, <2>1, <3>1 DEF ListSound
        <3>3. m = Join(node, after)
            BY <1>9, <2>1, <3>1 DEF Join
        <3>4. Held(m, buffers)
            BY <3>2, <3>3, TouchingHeld
        <3>5. m \in Node /\ m.addr = node.addr
            <4>1. Join(node, after) = [addr |-> node.addr, size |-> node.size + after.size]
                BY <3>2 DEF Join, Node
            <4> QED
                BY <3>2, <3>3, <4>1 DEF Node, NodeSize
        <3>6. \A b \in blocks : Apart(m, b)
            BY <3>2, <3>3, JoinApart
        <3>7. \A i \in 1 .. k - 1 \cup c .. Len(list) : i \in DOMAIN list /\ i # k
            BY <1>1, <1>5, <1>6, <2>1
        <3>8. ASSUME NEW i \in DOMAIN list, i # k PROVE Apart(list[i], m)
            <4>1. list[i] \in Node /\ list[i].addr \in Nat /\ list[i].size \in Nat \ {0}
                BY <1>1, <1>2
            <4>2. Apart(node, list[i]) /\ Apart(after, list[i])
                BY <3>2, <3>8, ApartSymmetric
            <4> QED
                BY <3>2, <3>3, <4>1, <4>2, JoinApart
        <3> QED
            BY <3>4, <3>5, <3>6, <3>7, <3>8
    <2>2. CASE ~next
        <3>1. m = node
            BY <1>2, <1>9, <2>2
        <3>2. \A i \in 1 .. k - 1 \cup c .. Len(list) : i \in DOMAIN list
            BY <1>1, <1>5, <1>7
        <3> QED
            BY <3>1, <3>2
    <2> QED
        BY <2>1, <2>2
<1>11. CASE previous
    <2>1. PICK before : before = list[k - 1]
        OBVIOUS
    <2>2. k - 1 \in DOMAIN list
        BY <1>1, <1>5, <1>11
    <2>3. /\ before \in Node /\ before.addr + before.size = m.addr
          /\ Held(before, buffers) /\ \A b \in blocks : Apart(before, b)
          /\ \A i \in DOMAIN list : i # k - 1 => Apart(list[i], before)
        BY <1>1, <1>10, <1>11, <2>1, <2>2 DEF ListSound
    <2>4. PICK both : both = Join(before, m)
        OBVIOUS
    <2>5. both \in Node /\ Held(both, buffers) /\ \A b \in blocks : Apart(both, b)
        <3>1. Held(both, buffers)
            BY <1>10, <2>3, <2>4, TouchingHeld
        <3>2. both \in Node
            <4>1. both = [addr |-> before.addr, size |-> before.size + m.size]
                BY <2>3, <2>4 DEF Join, Node
            <4> QED
                BY <1>10, <2>3, <4>1 DEF Node, NodeSize
        <3>3. \A b \in blocks : Apart(both, b)
            BY <1>10, <2>3, <2>4, JoinApart
        <3> QED
            BY <3>1, <3>2, <3>3
    <2>6. PICK a : a = k - 2
        OBVIOUS
    <2>7. a \in 0 .. Len(list) /\ c \in a + 1 .. Len(list) + 1
        BY <1>1, <1>5, <1>7, <1>11, <2>6
    <2>8. \A i \in 1 .. a \cup c .. Len(list) :
            i \in DOMAIN list /\ i # k - 1 /\ i \in 1 .. k - 1 \cup c .. Len(list)
        BY <1>1, <1>5, <1>7, <2>6, <2>7
    <2>9. \A i \in 1 .. a \cup c .. Len(list) : Apart(list[i], both)
        <3> SUFFICES ASSUME NEW i \in 1 .. a \cup c .. Len(list) PROVE Apart(list[i], both)
            OBVIOUS
        <3>1. list[i] \in Node /\ list[i].addr \in Nat /\ list[i].size \in Nat \ {0}
            BY <1>1, <1>2, <2>8
        <3>2. Apart(before, list[i]) /\ Apart(m, list[i])
            BY <1>10, <2>3, <2>8, ApartSymmetric
        <3> QED
            BY <1>10, <2>3, <2>4, <3>1, <3>2, JoinApart
    <2>10. \A i \in 1 .. a \cup c .. Len(list) : \A b \in blocks : Apart(list[i], b)
        BY <2>8 DEF ListSound
    <2>11. ListSound(Splice(list, a, <<both>>, c), buffers, blocks)
        BY <1>1, <2>5, <2>7, <2>9, <2>10, SpliceSound
    <2>12. GiveNodeBack(list, node) = Splice(list, a, <<both>>, c)
        BY <1>8, <1>9, <1>11, <2>1, <2>4, <2>6 DEF Splice
    <2> QED
        BY <2>11, <2>12
<1>12. CASE ~previous /\ above = {}
    BY <1>8, <1>12
<1>13. CASE ~previous /\ above # {}
    <2>1. PICK a : a = k - 1
        OBVIOUS
    <2>2. a \in 0 .. Len(list) /\ c \in a + 1 .. Len(list) + 1
        BY <1>1, <1>5, <1>7, <2>1
    <2>3. \A i \in 1 .. a \cup c .. Len(list) :
            i \in DOMAIN list /\ i \in 1 .. k - 1 \cup c .. Len(list)
        BY <1>1, <1>5, <1>7, <2>1
    <2>4. \A i \in 1 .. a \cup c .. Len(list) : Apart(list[i], m)
        BY <1>10, <2>1
    <2>5. \A i \in 1 .. a \cup c .. Len(list) : \A b \in blocks : Apart(list[i], b)
        BY <2>3 DEF ListSound
    <2>6. ListSound(Splice(list, a, <<m>>, c), buffers, blocks)
        BY <1>1, <1>10, <2>2, <2>4, <2>5, SpliceSound
    <2>7. GiveNodeBack(list, node) = Splice(list, a, <<m>>, c)
        BY <1>8, <1>9, <1>13, <2>1 DEF Splice
    <2> QED
        BY <2>6, <2>7
<1> QED
    BY <1>11, <1>12, <1>13

\* A node of a new buffer, in front of the others.
LEMMA NewNodeSound ==
    ASSUME NEW list, NEW buffers, NEW blocks, ListSound(list, buffers, blocks),
           NEW buffer, NEW node \in Node, Inside(node, buffer),
           \A b \in blocks : Apart(node, b),
           \A i \in DOMAIN list : Apart(list[i], node)
    PROVE  ListSound(<<node>> \o list, buffers \cup {buffer}, blocks)
<1>1. list \in Seq(Node) /\ DOMAIN list = 1 .. Len(list) /\ Len(list) \in Nat
    BY DEF ListSound
<1>2. PICK all : all = buffers \cup {buffer}
    OBVIOUS
<1>3. ListSound(list, all, {}) /\ Held(node, all)
    BY <1>2 DEF ListSound, Held
<1>4. PICK a, c : a = 0 /\ c = 1
    OBVIOUS
<1>5. a \in 0 .. Len(list) /\ c \in a + 1 .. Len(list) + 1
    BY <1>1, <1>4
<1>6. \A i \in 1 .. a \cup c .. Len(list) : i \in DOMAIN list
    BY <1>1, <1>4
<1>7. ListSound(Splice(list, a, <<node>>, c), all, blocks)
    <2>1. \A i \in 1 .. a \cup c .. Len(list) : \A b \in blocks : Apart(list[i], b)
        BY <1>6 DEF ListSound
    <2> QED
        BY <1>3, <1>5, <1>6, <2>1, SpliceSound
<1>8. Splice(list, a, <<node>>, c) = <<node>> \o list
    <2>1. SubSeq(list, 1, 0) = << >> /\ SubSeq(list, 1, Len(list)) = list
        BY <1>1, SubSeqFull, SubSeqEmpty
    <2>2. << >> \o <<node>> = <<node>>
        BY ConcatEmptySeq
    <2> QED
        BY <1>4, <2>1, <2>2 DEF Splice
<1> QED
    BY <1>2, <1>7, <1>8

-----------------------------------------------------------------------------
(* The invariant                                                           *)

Buffer == [slot: Nat, size: Nat]

Policy == [kind: FreeList \cup {"GENERIC", "LINEAR_STATIC"}, buffer: Buffer,
           extra: Seq(Buffer), scale: Nat \ {0}, list: Seq(Node), usage: Nat]

Block == [stack: Stack, addr: Nat, size: {n \in Nat : n >= NodeSize}]

TypesInv ==
    /\ policy \in [Stack -> Policy] /\ inUse \in [Stack -> Nat]
    /\ live \subseteq Block

\* Only a free list has extra buffers and nodes; GENERIC has no buffer at all.
PolicyShape(p) ==
    /\ p.kind \notin FreeList => p.list = << >> /\ p.extra = << >>
    /\ p.kind = "GENERIC" => p.buffer = NoBuffer

Shapes == \A s \in Stack : PolicyShape(policy[s])

OwnSlots ==
    \A s \in Stack :
        /\ Slotted(BuffersOf(policy[s]))
        /\ policy[s].kind # "GENERIC" => \A x \in BuffersOf(policy[s]) : x.slot # 0
        /\ \A t \in Stack \ {s} : \A x \in BuffersOf(policy[s]), y \in BuffersOf(policy[t]) :
              x.slot = y.slot => x.slot = 0

\* Where a block is: a malloc has a slot of its own, a linear policy is filled up
\* to its usage, and a free list cuts blocks out of its buffers.
Placed(b) ==
    LET p == policy[b.stack]
    IN  CASE p.kind = "GENERIC" ->
                \E k \in Slot : /\ b.addr = AddressOf(k) /\ b.size < SlotSize
                                /\ \A t \in Stack : \A x \in BuffersOf(policy[t]) : x.slot # k
          [] p.kind = "LINEAR_STATIC" ->
                /\ Inside(b, p.buffer)
                /\ b.addr + b.size <= AddressOf(p.buffer.slot) + p.usage
          [] OTHER -> Held(b, BuffersOf(p))

BlocksPlaced == \A b \in live : Placed(b)

BlocksApart == \A b, c \in live : b # c => Apart(b, c)

ListsSound == \A s \in Stack : ListSound(policy[s].list, BuffersOf(policy[s]), live)

\* The bytes of the blocks of a stack.
Extent(b) == b.addr .. b.addr + b.size - 1

Bytes(blocks, s) == {x \in Int : \E b \in blocks : b.stack = s /\ x \in Extent(b)}

Ledger(blocks, used) ==
    \A s \in Stack :
        IsFiniteSet(Bytes(blocks, s)) /\ used[s] = Cardinality(Bytes(blocks, s))

\* What is in use is what the live blocks add up to, except that a linear policy
\* does not count what it gets back.
Accounts ==
    /\ Ledger(live, inUse)
    /\ \A s \in Stack : policy[s].kind # "LINEAR_STATIC" => policy[s].usage = inUse[s]

Inv ==
    /\ TypesInv /\ Shapes /\ OwnSlots
    /\ BlocksPlaced /\ BlocksApart /\ ListsSound /\ Accounts

-----------------------------------------------------------------------------
(* Slots                                                                   *)

InSlot(x, k) == AddressOf(k) <= x.addr /\ x.addr + x.size <= AddressOf(k) + SlotSize

\* What lies in two slots shares no byte.
LEMMA SlotsApart ==
    ASSUME NEW x, x.addr \in Nat, x.size \in Nat, NEW y, y.addr \in Nat, y.size \in Nat,
           NEW k \in Nat, NEW l \in Nat, k # l, InSlot(x, k), InSlot(y, l)
    PROVE  Apart(x, y) /\ Apart(y, x)
<1> SlotSize \in Nat \ {0}
    BY StackAssumption
<1>1. k * SlotSize \in Nat /\ l * SlotSize \in Nat
    OBVIOUS
<1>2. CASE k < l
    <2>1. k * SlotSize + SlotSize <= l * SlotSize
        BY <1>2
    <2> QED
        BY <1>1, <2>1 DEF InSlot, AddressOf, Apart
<1>3. CASE l < k
    <2>1. l * SlotSize + SlotSize <= k * SlotSize
        BY <1>3
    <2> QED
        BY <1>1, <2>1 DEF InSlot, AddressOf, Apart
<1> QED
    BY <1>2, <1>3

LEMMA BufferInSlot ==
    ASSUME NEW x, x.addr \in Nat, x.size \in Nat, NEW buffer, buffer.slot \in Nat,
           buffer.size \in Nat, buffer.size < SlotSize, Inside(x, buffer)
    PROVE  InSlot(x, buffer.slot)
BY StackAssumption DEF InSlot, Inside, AddressOf

\* A block of malloc starts its slot.
LEMMA MallocInSlot ==
    ASSUME NEW x, x.size \in Nat, x.size < SlotSize, NEW k \in Nat, x.addr = AddressOf(k)
    PROVE  x.addr \in Nat /\ InSlot(x, k) /\ x.addr \div SlotSize = k
<1> SlotSize \in Nat \ {0}
    BY StackAssumption
<1>1. (k * SlotSize) \div SlotSize = k /\ k * SlotSize \in Nat
    OBVIOUS
<1> QED
    BY <1>1 DEF InSlot, AddressOf

-----------------------------------------------------------------------------
(* The account of a stack                                                  *)

LEMMA BytesWith ==
    ASSUME NEW blocks \in SUBSET Block, NEW b \in Block, \A c \in blocks : Apart(b, c), NEW s
    PROVE  /\ Bytes(blocks \cup {b}, s) =
                IF b.stack = s THEN Bytes(blocks, s) \cup Extent(b) ELSE Bytes(blocks, s)
           /\ Bytes(blocks, s) \cap Extent(b) = {}
           /\ IsFiniteSet(Extent(b)) /\ Cardinality(Extent(b)) = b.size
           /\ b.size \in Nat \ {0}
<1>1. /\ b.addr \in Nat /\ b.size \in Nat \ {0}
      /\ \A c \in blocks : c.addr \in Nat /\ c.size \in Nat \ {0}
    BY DEF Block, NodeSize
<1>2. Bytes(blocks, s) \cap Extent(b) = {}
    <2> SUFFICES ASSUME NEW x \in Int, NEW c \in blocks, x \in Extent(c), x \in Extent(b)
                 PROVE  FALSE
        BY DEF Bytes
    <2> QED
        BY <1>1 DEF Extent, Apart
<1>3. Extent(b) \subseteq Int
    BY <1>1 DEF Extent
<1>4. IsFiniteSet(Extent(b)) /\ Cardinality(Extent(b)) = b.size
    <2>1. PICK first, last : first = b.addr /\ last = b.addr + b.size - 1
        OBVIOUS
    <2>2. first \in Int /\ last \in Int /\ ~ (first > last) /\ last - first + 1 = b.size
        BY <1>1, <2>1
    <2> QED
        BY <2>1, <2>2, FS_Interval DEF Extent
<1>5. Bytes(blocks \cup {b}, s) =
        IF b.stack = s THEN Bytes(blocks, s) \cup Extent(b) ELSE Bytes(blocks, s)
    BY <1>3 DEF Bytes
<1> QED
    BY <1>1, <1>2, <1>4, <1>5

LEMMA LedgerAdd ==
    ASSUME NEW blocks \in SUBSET Block, NEW used \in [Stack -> Nat], Ledger(blocks, used),
           NEW b \in Block, \A c \in blocks : Apart(b, c)
    PROVE  Ledger(blocks \cup {b}, [used EXCEPT ![b.stack] = @ + b.size])
<1> SUFFICES ASSUME NEW s \in Stack
             PROVE  /\ IsFiniteSet(Bytes(blocks \cup {b}, s))
                    /\ [used EXCEPT ![b.stack] = @ + b.size][s] =
                          Cardinality(Bytes(blocks \cup {b}, s))
    BY DEF Ledger
<1>1. IsFiniteSet(Bytes(blocks, s)) /\ used[s] = Cardinality(Bytes(blocks, s)) /\ used[s] \in Nat
    BY DEF Ledger
<1>2. CASE b.stack = s
    <2>1. Bytes(blocks \cup {b}, s) = Bytes(blocks, s) \cup Extent(b)
        BY <1>2, BytesWith
    <2>2. /\ Bytes(blocks, s) \cap Extent(b) = {}
          /\ IsFiniteSet(Extent(b)) /\ Cardinality(Extent(b)) = b.size /\ b.size \in Nat
        BY BytesWith
    <2>3. /\ IsFiniteSet(Bytes(blocks, s) \cup Extent(b))
          /\ Cardinality(Bytes(blocks, s) \cup Extent(b)) =
                Cardinality(Bytes(blocks, s)) + Cardinality(Extent(b))
                    - Cardinality(Bytes(blocks, s) \cap Extent(b))
        BY <1>1, <2>2, FS_Union
    <2>4. Cardinality(Bytes(blocks, s) \cap Extent(b)) = 0
        BY <2>2, FS_EmptySet
    <2>5. Cardinality(Bytes(blocks, s) \cup Extent(b)) = used[s] + b.size
        BY <1>1, <2>2, <2>3, <2>4
    <2> QED
        BY <1>2, <2>1, <2>3, <2>5
<1>3. CASE b.stack # s
    <2>1. Bytes(blocks \cup {b}, s) = Bytes(blocks, s)
        BY <1>3, BytesWith
    <2> QED
        BY <1>1, <1>3, <2>1
<1> QED
    BY <1>2, <1>3

LEMMA LedgerRemove ==
    ASSUME NEW blocks \in SUBSET Block, NEW used \in [Stack -> Nat], Ledger(blocks, used),
           NEW b \in blocks, \A c \in blocks \ {b} : Apart(b, c)
    PROVE  /\ used[b.stack] >= b.size
           /\ [used EXCEPT ![b.stack] = @ - b.size] \in [Stack -> Nat]
           /\ Ledger(blocks \ {b}, [used EXCEPT ![b.stack] = @ - b.size])
<1>1. PICK rest : rest = blocks \ {b}
    OBVIOUS
<1>2. rest \in SUBSET Block /\ b \in Block /\ \A c \in rest : Apart(b, c)
    BY <1>1
<1>3. rest \cup {b} = blocks
    BY <1>1
<1>4. b.stack \in Stack /\ b.size \in Nat
    BY <1>2 DEF Block
<1>5. ASSUME NEW s \in Stack
      PROVE  /\ IsFiniteSet(Bytes(rest, s))
             /\ used[s] = Cardinality(Bytes(rest, s)) + (IF b.stack = s THEN b.size ELSE 0)
             /\ Cardinality(Bytes(rest, s)) \in Nat
    <2>1. IsFiniteSet(Bytes(blocks, s)) /\ used[s] = Cardinality(Bytes(blocks, s))
        BY DEF Ledger
    <2>2. /\ Bytes(blocks, s) = IF b.stack = s THEN Bytes(rest, s) \cup Extent(b) ELSE Bytes(rest, s)
          /\ Bytes(rest, s) \cap Extent(b) = {}
          /\ IsFiniteSet(Extent(b)) /\ Cardinality(Extent(b)) = b.size
        <3>1. /\ Bytes(rest, s) \cap Extent(b) = {}
              /\ IsFiniteSet(Extent(b)) /\ Cardinality(Extent(b)) = b.size
            BY <1>2, BytesWith
        <3>2. CASE b.stack = s
            <4>1. Bytes(rest \cup {b}, s) = Bytes(rest, s) \cup Extent(b)
                BY <1>2, <3>2, BytesWith
            <4> QED
                BY <1>3, <3>1, <3>2, <4>1
        <3>3. CASE b.stack # s
            <4>1. Bytes(rest \cup {b}, s) = Bytes(rest, s)
                BY <3>3 DEF Bytes
            <4> QED
                BY <1>3, <3>1, <3>3, <4>1
        <3> QED
            BY <3>2, <3>3
    <2>3. IsFiniteSet(Bytes(rest, s))
        <3> Bytes(rest, s) \in SUBSET Bytes(blocks, s)
            BY <2>2
        <3> QED
            BY <2>1, FS_Subset
    <2>4. Cardinality(Bytes(rest, s)) \in Nat
        BY <2>3, FS_CardinalityType
    <2>5. CASE b.stack = s
        <3>1. Cardinality(Bytes(rest, s) \cup Extent(b)) =
                Cardinality(Bytes(rest, s)) + Cardinality(Extent(b))
                    - Cardinality(Bytes(rest, s) \cap Extent(b))
            BY <2>2, <2>3, FS_Union
        <3>2. Cardinality(Bytes(rest, s) \cap Extent(b)) = 0
            BY <2>2, FS_EmptySet
        <3>3. Bytes(blocks, s) = Bytes(rest, s) \cup Extent(b)
            BY <2>2, <2>5
        <3>4. used[s] = Cardinality(Bytes(rest, s)) + b.size
            <4>1. PICK r : r = Cardinality(Bytes(rest, s))
                OBVIOUS
            <4>2. used[s] = r + b.size - 0
                BY <2>1, <2>2, <3>1, <3>2, <3>3, <4>1
            <4> QED
                BY <1>4, <2>4, <4>1, <4>2
        <3> QED
            BY <2>3, <2>4, <2>5, <3>4
    <2>6. CASE b.stack # s
        <3>1. Bytes(blocks, s) = Bytes(rest, s)
            BY <2>2, <2>6
        <3>2. used[s] = Cardinality(Bytes(rest, s))
            BY <2>1, <3>1
        <3> QED
            BY <2>3, <2>4, <2>6, <3>2
    <2> QED
        BY <2>5, <2>6
<1>6. used[b.stack] >= b.size
    BY <1>4, <1>5
<1>7. PICK less : less = [used EXCEPT ![b.stack] = @ - b.size]
    OBVIOUS
<1>8. less \in [Stack -> Nat]
    BY <1>4, <1>6, <1>7
<1>9. Ledger(rest, less)
    <2> SUFFICES ASSUME NEW s \in Stack
                 PROVE  IsFiniteSet(Bytes(rest, s)) /\ less[s] = Cardinality(Bytes(rest, s))
        BY DEF Ledger
    <2>1. CASE b.stack = s
        <3>1. less[s] = used[s] - b.size
            BY <1>7, <2>1
        <3> QED
            BY <1>4, <1>5, <2>1, <3>1
    <2>2. CASE b.stack # s
        <3>1. less[s] = used[s]
            BY <1>7, <2>2
        <3> QED
            BY <1>5, <2>2, <3>1
    <2> QED
        BY <2>1, <2>2
<1> QED
    BY <1>1, <1>6, <1>7, <1>8, <1>9

\* Where nothing is in use there is no block.
LEMMA NoneInUse ==
    ASSUME NEW blocks \in SUBSET Block, NEW used, Ledger(blocks, used), NEW b \in blocks
    PROVE  used[b.stack] # 0
<1>1. b \in Block /\ b.stack \in Stack /\ b.addr \in Nat /\ b.size \in Nat \ {0}
    BY DEF Block, NodeSize
<1>2. b.addr \in Bytes(blocks, b.stack)
    BY <1>1 DEF Bytes, Extent
<1>3. IsFiniteSet(Bytes(blocks, b.stack)) /\ used[b.stack] = Cardinality(Bytes(blocks, b.stack))
    BY <1>1 DEF Ledger
<1> QED
    BY <1>2, <1>3, FS_EmptySet

-----------------------------------------------------------------------------
(* Where the blocks and the nodes are                                      *)

\* The constants.
LEMMA Typing ==
    /\ SlotSize \in Nat \ {0} /\ Alignment \in Nat \ {0} /\ MinChunk \in Nat \ {0}
    /\ StaticSize \in Nat /\ Word \in Nat \ {0} /\ SlotSize <= Word
    /\ Slot \subseteq Nat \ {0}
    /\ \A s \in Stack : Request[s] \subseteq Nat \ {0}
    /\ \A s \in Stack : Kind[s] \subseteq FreeList \cup {"GENERIC", "LINEAR_STATIC"}
BY StackAssumption DEF NodeSize

LEMMA BuffersTyped ==
    ASSUME Inv, NEW s \in Stack
    PROVE  /\ policy[s] \in Policy
           /\ \A x \in BuffersOf(policy[s]) :
                 /\ x.slot \in Nat /\ x.size \in Nat /\ x.size < SlotSize
                 /\ x.slot \in UsedSlots
                 /\ policy[s].kind # "GENERIC" => x.slot # 0
           /\ policy[s].buffer \in BuffersOf(policy[s])
<1>1. policy[s] \in Policy
    BY DEF Inv, TypesInv
<1>2. policy[s].buffer \in BuffersOf(policy[s])
    BY DEF BuffersOf
<1>3. ASSUME NEW x \in BuffersOf(policy[s])
      PROVE  /\ x.slot \in Nat /\ x.size \in Nat /\ x.size < SlotSize
             /\ policy[s].kind # "GENERIC" => x.slot # 0
    BY DEF Inv, OwnSlots, Slotted
<1>4. ASSUME NEW x \in BuffersOf(policy[s])
      PROVE  x.slot \in UsedSlots
    <2> x \in UNION {BuffersOf(policy[t]) : t \in Stack}
        OBVIOUS
    <2> QED
        BY DEF UsedSlots
<1> QED
    BY <1>1, <1>2, <1>3, <1>4

\* A block has its slot to itself, or is in a buffer of its stack.
LEMMA BlockHome ==
    ASSUME Inv, NEW b \in live
    PROVE  /\ b \in Block /\ b.stack \in Stack /\ b.addr \in Nat /\ b.size \in Nat \ {0}
           /\ \E k \in Nat \ {0} :
                 /\ InSlot(b, k) /\ k \in UsedSlots
                 /\ policy[b.stack].kind = "GENERIC" =>
                       \A t \in Stack : \A x \in BuffersOf(policy[t]) : x.slot # k
                 /\ policy[b.stack].kind # "GENERIC" =>
                       \E x \in BuffersOf(policy[b.stack]) : x.slot = k /\ Inside(b, x)
<1>1. b \in Block /\ b.stack \in Stack /\ b.addr \in Nat /\ b.size \in Nat \ {0}
    BY DEF Inv, TypesInv, Block, NodeSize
<1>2. Placed(b)
    BY DEF Inv, BlocksPlaced
<1>3. CASE policy[b.stack].kind = "GENERIC"
    <2>1. PICK k \in Slot :
            /\ b.addr = AddressOf(k) /\ b.size < SlotSize
            /\ \A t \in Stack : \A x \in BuffersOf(policy[t]) : x.slot # k
        BY <1>2, <1>3 DEF Placed
    <2>2. k \in Nat \ {0}
        BY Typing
    <2>3. InSlot(b, k) /\ b.addr \div SlotSize = k
        BY <1>1, <2>1, <2>2, MallocInSlot
    <2>4. k \in UsedSlots
        <3>1. b \in {c \in live : policy[c.stack].kind = "GENERIC"}
            BY <1>3
        <3>2. k \in {c.addr \div SlotSize : c \in {d \in live : policy[d.stack].kind = "GENERIC"}}
            BY <2>3, <3>1
        <3> QED
            BY <3>2 DEF UsedSlots
    <2> QED
        BY <1>1, <1>3, <2>1, <2>2, <2>3, <2>4
<1>4. CASE policy[b.stack].kind # "GENERIC"
    <2>1. PICK x \in BuffersOf(policy[b.stack]) : Inside(b, x)
        BY <1>1, <1>2, <1>4, BuffersTyped DEF Placed, Held
    <2>2. x.slot \in Nat \ {0} /\ x.slot \in UsedSlots /\ x.size \in Nat /\ x.size < SlotSize
        BY <1>1, <1>4, BuffersTyped
    <2>3. InSlot(b, x.slot)
        BY <1>1, <2>1, <2>2, BufferInSlot
    <2> QED
        BY <1>1, <1>4, <2>1, <2>2, <2>3
<1> QED
    BY <1>3, <1>4

LEMMA NodeHome ==
    ASSUME Inv, NEW s \in Stack, NEW i \in DOMAIN policy[s].list
    PROVE  /\ policy[s].kind \in FreeList
           /\ policy[s].list[i] \in Node /\ policy[s].list[i].addr \in Nat
           /\ policy[s].list[i].size \in Nat \ {0} /\ policy[s].list[i].size < Word
           /\ \E x \in BuffersOf(policy[s]) :
                 x.slot \in Nat \ {0} /\ x.slot \in UsedSlots /\ InSlot(policy[s].list[i], x.slot)
<1>1. policy[s].kind \in FreeList
    <2>1. policy[s].list # << >>
        BY EmptySeq
    <2> QED
        BY <2>1 DEF Inv, Shapes, PolicyShape
<1>2. PICK n : n = policy[s].list[i]
    OBVIOUS
<1>3. n \in Node /\ Held(n, BuffersOf(policy[s]))
    BY <1>2 DEF Inv, ListsSound, ListSound
<1>4. n.addr \in Nat /\ n.size \in Nat \ {0}
    BY <1>3 DEF Node, NodeSize
<1>5. PICK x \in BuffersOf(policy[s]) : Inside(n, x)
    BY <1>3 DEF Held
<1>6. x.slot \in Nat \ {0} /\ x.slot \in UsedSlots /\ x.size \in Nat /\ x.size < SlotSize
    BY <1>1, BuffersTyped DEF FreeList
<1>7. InSlot(n, x.slot)
    BY <1>4, <1>5, <1>6, BufferInSlot
<1>8. n.size < Word
    <2> AddressOf(x.slot) \in Nat
        BY <1>6, Typing DEF AddressOf
    <2> QED
        BY <1>4, <1>5, <1>6, Typing DEF Inside
<1> QED
    BY <1>1, <1>2, <1>3, <1>4, <1>6, <1>7, <1>8

\* What is in a buffer of a stack is apart from the blocks and the nodes of
\* the others.
LEMMA Elsewhere ==
    ASSUME Inv, NEW s \in Stack, NEW x \in BuffersOf(policy[s]), x.slot # 0,
           NEW n, n.addr \in Nat, n.size \in Nat, Inside(n, x)
    PROVE  /\ \A c \in live : c.stack # s => Apart(n, c)
           /\ \A t \in Stack \ {s} : \A i \in DOMAIN policy[t].list : Apart(policy[t].list[i], n)
<1>1. x.slot \in Nat \ {0} /\ InSlot(n, x.slot)
    <2>1. x.slot \in Nat /\ x.size \in Nat /\ x.size < SlotSize
        BY BuffersTyped
    <2> QED
        BY <2>1, BufferInSlot
<1>2. ASSUME NEW c \in live, c.stack # s
      PROVE  Apart(n, c)
    <2>1. PICK k \in Nat \ {0} :
            /\ InSlot(c, k)
            /\ policy[c.stack].kind = "GENERIC" =>
                  \A t \in Stack : \A y \in BuffersOf(policy[t]) : y.slot # k
            /\ policy[c.stack].kind # "GENERIC" =>
                  \E y \in BuffersOf(policy[c.stack]) : y.slot = k /\ Inside(c, y)
        BY BlockHome
    <2>2. c.stack \in Stack \ {s} /\ c.addr \in Nat /\ c.size \in Nat
        BY <1>2, BlockHome
    <2>3. x.slot # k
        BY <1>1, <2>1, <2>2 DEF Inv, OwnSlots
    <2> QED
        BY <1>1, <2>1, <2>2, <2>3, SlotsApart
<1>3. ASSUME NEW t \in Stack \ {s}, NEW i \in DOMAIN policy[t].list
      PROVE  Apart(policy[t].list[i], n)
    <2>1. PICK m : m = policy[t].list[i]
        OBVIOUS
    <2>2. PICK y \in BuffersOf(policy[t]) : y.slot \in Nat \ {0} /\ InSlot(m, y.slot)
        BY <2>1, NodeHome
    <2>3. m.addr \in Nat /\ m.size \in Nat
        BY <2>1, NodeHome
    <2>4. x.slot # y.slot
        BY <1>1, <2>2 DEF Inv, OwnSlots
    <2>5. Apart(m, n)
        BY <1>1, <2>2, <2>3, <2>4, SlotsApart
    <2> QED
        BY <2>1, <2>5
<1> QED
    BY <1>2, <1>3

\* So is what is in a slot that malloc may return.
LEMMA Fresh ==
    ASSUME Inv, NEW k \in Slot, k \notin UsedSlots,
           NEW n, n.addr \in Nat, n.size \in Nat, InSlot(n, k)
    PROVE  /\ \A c \in live : Apart(n, c)
           /\ \A t \in Stack : \A i \in DOMAIN policy[t].list : Apart(policy[t].list[i], n)
<1> k \in Nat
    BY Typing
<1>1. ASSUME NEW c \in live
      PROVE  Apart(n, c)
    <2>1. PICK l \in Nat \ {0} : InSlot(c, l) /\ l \in UsedSlots
        BY BlockHome
    <2>2. c.addr \in Nat /\ c.size \in Nat /\ l # k
        BY <2>1, BlockHome
    <2> QED
        BY <2>1, <2>2, SlotsApart
<1>2. ASSUME NEW t \in Stack, NEW i \in DOMAIN policy[t].list
      PROVE  Apart(policy[t].list[i], n)
    <2>1. PICK m : m = policy[t].list[i]
        OBVIOUS
    <2>2. PICK y \in BuffersOf(policy[t]) :
            y.slot \in Nat \ {0} /\ y.slot \in UsedSlots /\ InSlot(m, y.slot)
        BY <2>1, NodeHome
    <2>3. m.addr \in Nat /\ m.size \in Nat /\ k # y.slot
        BY <2>1, <2>2, NodeHome
    <2>4. Apart(m, n)
        BY <2>2, <2>3, SlotsApart
    <2> QED
        BY <2>1, <2>4
<1> QED
    BY <1>1, <1>2

-----------------------------------------------------------------------------
(* What a step keeps                                                       *)

LEMMA SameState ==
    ASSUME Inv, UNCHANGED <<policy, inUse, live>>
    PROVE  Inv'
BY DEF Inv, TypesInv, Shapes, OwnSlots, BlocksPlaced, Placed, BlocksApart, ListsSound, Accounts

\* A policy takes another form: its buffers are those it had or lie in free slots.
LEMMA PolicyChanged ==
    ASSUME Inv, NEW s \in Stack, NEW q \in Policy, PolicyShape(q), Slotted(BuffersOf(q)),
           policy' = [policy EXCEPT ![s] = q],
           q.kind # "GENERIC" => \A x \in BuffersOf(q) : x.slot # 0,
           \A x \in BuffersOf(q) :
              x \in BuffersOf(policy[s]) \/ x.slot \notin UsedSlots \/ x.slot = 0
    PROVE  /\ policy' \in [Stack -> Policy] /\ policy'[s] = q
           /\ \A t \in Stack \ {s} : policy'[t] = policy[t]
           /\ Shapes' /\ OwnSlots'
           /\ \A c \in live : c.stack # s => Placed(c)'
<1>1. policy \in [Stack -> Policy]
    BY DEF Inv, TypesInv
<1>2. /\ policy' \in [Stack -> Policy] /\ policy'[s] = q
      /\ \A t \in Stack \ {s} : policy'[t] = policy[t]
    BY <1>1
<1>3. Shapes'
    BY <1>2 DEF Inv, Shapes
<1>4. OwnSlots'
    <2>1. ASSUME NEW t \in Stack
          PROVE  /\ Slotted(BuffersOf(policy'[t]))
                 /\ policy'[t].kind # "GENERIC" => \A x \in BuffersOf(policy'[t]) : x.slot # 0
        BY <1>2 DEF Inv, OwnSlots
    <2>2. ASSUME NEW t \in Stack \ {s}, NEW x \in BuffersOf(q), NEW y \in BuffersOf(policy[t]),
                 x.slot = y.slot
          PROVE  x.slot = 0
        <3>1. y.slot \in UsedSlots
            BY BuffersTyped
        <3> QED
            BY <2>2, <3>1 DEF Inv, OwnSlots
    <2>3. ASSUME NEW t \in Stack, NEW u \in Stack \ {t},
                 NEW x \in BuffersOf(policy'[t]), NEW y \in BuffersOf(policy'[u]),
                 x.slot = y.slot
          PROVE  x.slot = 0
        <3>1. CASE t = s
            BY <1>2, <2>2, <2>3, <3>1
        <3>2. CASE u = s
            BY <1>2, <2>2, <2>3, <3>2
        <3>3. CASE t # s /\ u # s
            BY <1>2, <2>3, <3>3 DEF Inv, OwnSlots
        <3> QED
            BY <3>1, <3>2, <3>3
    <2> QED
        BY <2>1, <2>3 DEF OwnSlots
<1>5. ASSUME NEW c \in live, c.stack # s
      PROVE  Placed(c)'
    <2>1. c.stack \in Stack \ {s} /\ policy'[c.stack] = policy[c.stack] /\ Placed(c)
        BY <1>2, <1>5, BlockHome DEF Inv, BlocksPlaced
    <2>2. CASE policy[c.stack].kind = "GENERIC"
        <3>1. PICK k \in Slot :
                /\ c.addr = AddressOf(k) /\ c.size < SlotSize
                /\ \A t \in Stack : \A x \in BuffersOf(policy[t]) : x.slot # k
            BY <2>1, <2>2 DEF Placed
        <3>2. k \in UsedSlots /\ k # 0
            <4>1. k \in Nat \ {0} /\ c.size \in Nat
                BY Typing, BlockHome
            <4>2. c.addr \div SlotSize = k
                BY <3>1, <4>1, MallocInSlot
            <4>3. c \in {d \in live : policy[d.stack].kind = "GENERIC"}
                BY <2>2
            <4> QED
                BY <4>1, <4>2, <4>3 DEF UsedSlots
        <3>3. \A t \in Stack : \A x \in BuffersOf(policy'[t]) : x.slot # k
            BY <1>2, <3>1, <3>2
        <3> QED
            BY <2>1, <2>2, <3>1, <3>3 DEF Placed
    <2>3. CASE policy[c.stack].kind # "GENERIC"
        BY <2>1, <2>3 DEF Placed
    <2> QED
        BY <2>2, <2>3
<1> QED
    BY <1>2, <1>3, <1>4, <1>5

\* The blocks of a policy that grows stay where they are.
LEMMA PolicyGrown ==
    ASSUME Inv, NEW s \in Stack, NEW q \in Policy, policy'[s] = q,
           q.kind = policy[s].kind, q.buffer = policy[s].buffer,
           \A t \in Stack \ {s} : policy'[t] = policy[t],
           q.kind = "LINEAR_STATIC" => q.usage >= policy[s].usage,
           BuffersOf(policy[s]) \subseteq BuffersOf(q),
           \A x \in BuffersOf(q) : x \in BuffersOf(policy[s]) \/ x.slot \notin UsedSlots,
           NEW c \in live, c.stack = s
    PROVE  Placed(c)'
<1>1. Placed(c) /\ policy[s] \in Policy /\ c.size \in Nat /\ c.addr \in Nat
    BY BlockHome DEF Inv, BlocksPlaced, TypesInv
<1>2. CASE q.kind = "GENERIC"
    <2>1. PICK k \in Slot :
            /\ c.addr = AddressOf(k) /\ c.size < SlotSize
            /\ \A t \in Stack : \A x \in BuffersOf(policy[t]) : x.slot # k
        BY <1>1, <1>2 DEF Placed
    <2>2. k \in UsedSlots
        <3>1. k \in Nat \ {0}
            BY Typing
        <3>2. c.addr \div SlotSize = k
            BY <1>1, <2>1, <3>1, MallocInSlot
        <3>3. c \in {d \in live : policy[d.stack].kind = "GENERIC"}
            BY <1>2
        <3> QED
            BY <3>2, <3>3 DEF UsedSlots
    <2>3. \A t \in Stack : \A x \in BuffersOf(policy'[t]) : x.slot # k
        BY <2>1, <2>2
    <2> QED
        BY <1>2, <2>1, <2>3 DEF Placed
<1>3. CASE q.kind = "LINEAR_STATIC"
    <2>1. /\ Inside(c, q.buffer)
          /\ c.addr + c.size <= AddressOf(q.buffer.slot) + policy[s].usage
        BY <1>1, <1>3 DEF Placed
    <2>2. policy[s].usage \in Nat /\ q.usage \in Nat /\ AddressOf(q.buffer.slot) \in Nat
        BY <1>1, Typing DEF Policy, Buffer, AddressOf
    <2>3. c.addr + c.size <= AddressOf(q.buffer.slot) + q.usage
        BY <1>1, <1>3, <2>1, <2>2
    <2> QED
        BY <1>3, <2>1, <2>3 DEF Placed
<1>4. CASE q.kind \notin {"GENERIC", "LINEAR_STATIC"}
    BY <1>1, <1>4 DEF Placed, Held
<1> QED
    BY <1>2, <1>3, <1>4

\* A block is handed out of what the policy owns or malloc returned.
LEMMA HandOutKeeps ==
    ASSUME Inv, NEW s \in Stack, NEW taken, HandOut(s, taken),
           NEW q \in Policy, q = taken.policy, PolicyShape(q), Slotted(BuffersOf(q)),
           q.kind = policy[s].kind, q.buffer = policy[s].buffer,
           taken.addr \in Nat, taken.size \in Nat, taken.size >= NodeSize,
           q.usage = policy[s].usage + taken.size,
           BuffersOf(policy[s]) \subseteq BuffersOf(q),
           \A x \in BuffersOf(q) :
              x \in BuffersOf(policy[s]) \/ (x.slot \notin UsedSlots /\ x.slot # 0),
           NEW b, b = [stack |-> s, addr |-> taken.addr, size |-> taken.size],
           Placed(b)',
           \A c \in live : Apart(b, c),
           ListSound(q.list, BuffersOf(q), live \cup {b}),
           \A t \in Stack \ {s} : \A i \in DOMAIN policy[t].list : Apart(policy[t].list[i], b)
    PROVE  Inv'
<1>1. /\ policy' = [policy EXCEPT ![s] = q]
      /\ inUse' = [inUse EXCEPT ![b.stack] = @ + b.size]
      /\ live' = live \cup {b} /\ b \in Block /\ b.stack = s
    BY DEF HandOut, Block
<1>2. /\ policy' \in [Stack -> Policy] /\ policy'[s] = q
      /\ \A t \in Stack \ {s} : policy'[t] = policy[t]
      /\ Shapes' /\ OwnSlots'
      /\ \A c \in live : c.stack # s => Placed(c)'
    <2>1. q.kind # "GENERIC" => \A x \in BuffersOf(q) : x.slot # 0
        BY BuffersTyped
    <2> QED
        BY <1>1, <2>1, PolicyChanged
<1>3. \A c \in live : c.stack = s => Placed(c)'
    <2>1. policy[s].usage \in Nat
        BY DEF Inv, TypesInv, Policy
    <2>2. q.usage >= policy[s].usage
        BY <2>1
    <2> QED
        BY <1>2, <2>2, PolicyGrown
<1>4. /\ live \in SUBSET Block /\ inUse \in [Stack -> Nat] /\ Ledger(live, inUse)
    BY DEF Inv, TypesInv, Accounts
<1>5. TypesInv'
    <2>1. inUse' \in [Stack -> Nat]
        BY <1>1, <1>4 DEF Block
    <2> QED
        BY <1>1, <1>2, <1>4, <2>1 DEF TypesInv
<1>6. BlocksPlaced'
    BY <1>1, <1>2, <1>3 DEF BlocksPlaced
<1>7. BlocksApart'
    <2> SUFFICES ASSUME NEW c \in live \cup {b}, NEW d \in live \cup {b}, c # d
                 PROVE  Apart(c, d)
        BY <1>1 DEF BlocksApart
    <2>1. CASE c = b
        BY <2>1
    <2>2. CASE d = b
        BY <2>2, ApartSymmetric
    <2>3. CASE c # b /\ d # b
        BY <2>3 DEF Inv, BlocksApart
    <2> QED
        BY <2>1, <2>2, <2>3
<1>8. ListsSound'
    <2> SUFFICES ASSUME NEW t \in Stack
                 PROVE  ListSound(policy'[t].list, BuffersOf(policy'[t]), live \cup {b})
        BY <1>1 DEF ListsSound
    <2>1. CASE t = s
        BY <1>2, <2>1
    <2>2. CASE t # s
        <3>1. ListSound(policy[t].list, BuffersOf(policy[t]), live)
            BY DEF Inv, ListsSound
        <3>2. \A i \in DOMAIN policy[t].list : Apart(policy[t].list[i], b)
            BY <2>2
        <3>3. ListSound(policy[t].list, BuffersOf(policy[t]), live \cup {b})
            BY <3>1, <3>2 DEF ListSound
        <3> QED
            BY <1>2, <2>2, <3>3
    <2> QED
        BY <2>1, <2>2
<1>9. Accounts'
    <2>1. Ledger(live', inUse')
        BY <1>1, <1>4, LedgerAdd
    <2>2. ASSUME NEW t \in Stack, policy'[t].kind # "LINEAR_STATIC"
          PROVE  policy'[t].usage = inUse'[t]
        <3>1. CASE t = s
            <4>1. policy[s].usage = inUse[s]
                BY <1>2, <2>2, <3>1 DEF Inv, Accounts
            <4>2. inUse'[s] = inUse[s] + taken.size
                BY <1>1, <1>4
            <4> QED
                BY <1>2, <3>1, <4>1, <4>2
        <3>2. CASE t # s
            BY <1>1, <1>2, <1>4, <2>2, <3>2 DEF Inv, Accounts
        <3> QED
            BY <3>1, <3>2
    <2> QED
        BY <2>1, <2>2 DEF Accounts
<1> QED
    BY <1>2, <1>5, <1>6, <1>7, <1>8, <1>9 DEF Inv

-----------------------------------------------------------------------------
(* The calls to allocate                                                   *)

LEMMA AlignedAtLeast ==
    ASSUME NEW size \in Nat, NEW alignment \in Nat \ {0}
    PROVE  Aligned(size, alignment) \in Nat /\ Aligned(size, alignment) >= size
<1>1. PICK r : r = size % alignment
    OBVIOUS
<1>2. r \in Nat /\ r < alignment
    BY <1>1
<1>3. (alignment - r) % alignment \in Nat
    BY <1>2
<1> QED
    BY <1>1, <1>3 DEF Aligned, Padding

LEMMA AskedSize ==
    ASSUME NEW s \in Stack, NEW n \in Request[s]
    PROVE  /\ Asked(s, n) \in Nat /\ Asked(s, n) >= NodeSize
           /\ Aligned(Asked(s, n), Alignment) \in Nat
           /\ Aligned(Asked(s, n), Alignment) >= NodeSize
<1>1. n \in Nat
    BY Typing
<1>2. Asked(s, n) \in Nat /\ Asked(s, n) >= NodeSize
    BY <1>1 DEF Asked, BlockSize, StackIdSize, HeaderSize, NodeSize
<1>3. /\ Aligned(Asked(s, n), Alignment) \in Nat
      /\ Aligned(Asked(s, n), Alignment) >= Asked(s, n)
    BY <1>2, Typing, AlignedAtLeast
<1> QED
    BY <1>2, <1>3 DEF NodeSize

\* Both searches find a node that is large enough when there is one.
LEMMA FindNodeFits ==
    ASSUME NEW list \in Seq(Node), NEW size, Fits(list, size) # {}, NEW kind
    PROVE  FindNode(kind, list, size) \in Fits(list, size)
<1>1. Fits(list, size) \in SUBSET Nat /\ Fits(list, size) \subseteq DOMAIN list
    BY DEF Fits
<1>2. FindFirst(list, size) \in Fits(list, size)
    BY <1>1, MinInSet DEF FindFirst
<1>3. FindBest(list, size) \in Fits(list, size)
    <2> DEFINE sizes == {list[i].size : i \in Fits(list, size)}
    <2>1. sizes \in SUBSET Nat /\ sizes # {}
        <3>1. ASSUME NEW i \in Fits(list, size) PROVE list[i].size \in Nat
            <4>1. list[i] \in Node
                BY <1>1
            <4> QED
                BY <4>1 DEF Node
        <3> QED
            BY <3>1
    <2>2. PICK m \in sizes : \A y \in sizes : m <= y
        BY <2>1, LeastNat
    <2>3. PICK smallest : smallest = {i \in Fits(list, size) : list[i].size = m}
        OBVIOUS
    <2>4. smallest \in SUBSET Nat /\ smallest # {}
        BY <1>1, <2>3
    <2>5. PICK i \in smallest : \A j \in smallest : i <= j
        BY <2>4, LeastNat
    <2>6. ASSUME NEW j \in Fits(list, size)
          PROVE  list[i].size < list[j].size \/ (list[i].size = list[j].size /\ i <= j)
        <3>1. list[i].size = m /\ m \in Nat /\ list[j].size \in Nat /\ m <= list[j].size
            BY <2>1, <2>2, <2>3
        <3>2. list[j].size = m => i <= j
            BY <2>3, <2>5
        <3> QED
            BY <3>1, <3>2
    <2>7. i \in Fits(list, size)
        BY <2>3
    <2> HIDE DEF sizes
    <2> QED
        BY <2>6, <2>7 DEF FindBest
<1> QED
    BY <1>2, <1>3 DEF FindNode

\* A policy with other contents.
LEMMA PolicyFields ==
    ASSUME NEW p \in Policy, NEW list \in Seq(Node), NEW extra \in Seq(Buffer),
           NEW scale \in Nat \ {0}, NEW usage \in Nat, NEW q,
           q = [kind |-> p.kind, buffer |-> p.buffer, extra |-> extra,
                scale |-> scale, list |-> list, usage |-> usage]
    PROVE  /\ q \in Policy /\ q.kind = p.kind /\ q.buffer = p.buffer /\ q.extra = extra
           /\ q.list = list /\ q.usage = usage
BY DEF Policy

LEMMA PolicyUsage ==
    ASSUME NEW p \in Policy, NEW usage \in Nat, NEW q, q = [p EXCEPT !.usage = usage]
    PROVE  /\ q \in Policy /\ q.kind = p.kind /\ q.buffer = p.buffer /\ q.extra = p.extra
           /\ q.list = p.list /\ q.usage = usage
BY DEF Policy

LEMMA KeepsList ==
    ASSUME Inv, SplitsLeaveNodes, NEW s \in Stack, NEW n \in Request[s], AllocateFromList(s, n)
    PROVE  Inv'
<1>1. PICK p : p = policy[s]
    OBVIOUS
<1>2. PICK size : size = Aligned(Asked(s, n), Alignment)
    OBVIOUS
<1>3. PICK i : i = FindNode(p.kind, p.list, size)
    OBVIOUS
<1>4. /\ p \in Policy /\ p.list \in Seq(Node) /\ p.usage \in Nat /\ p.kind \in FreeList
      /\ PolicyShape(p) /\ Slotted(BuffersOf(p))
      /\ ListSound(p.list, BuffersOf(p), live)
    BY <1>1 DEF AllocateFromList, Inv, TypesInv, Shapes, OwnSlots, ListsSound, Policy
<1>5. size \in Nat /\ size >= NodeSize
    BY <1>2, AskedSize
<1>6. Fits(p.list, size) # {}
    BY <1>1, <1>2 DEF AllocateFromList
<1>7. i \in DOMAIN p.list
    <2>1. i \in Fits(p.list, size)
        BY <1>3, <1>4, <1>6, FindNodeFits
    <2> QED
        BY <2>1 DEF Fits
<1>8. LeavesNode(p.list[i].size, size)
    <2>1. calls < MaxCalls /\ s \in {t \in Stack : policy[t].kind \in FreeList}
        BY <1>1, <1>4 DEF AllocateFromList
    <2> QED
        BY <1>1, <1>2, <1>3, <1>6, <2>1 DEF SplitsLeaveNodes
<1>9. PICK taken : taken = AllocateInList(p, Asked(s, n))
    OBVIOUS
<1>10. PICK q : q = taken.policy
    OBVIOUS
<1>11. /\ taken.addr = p.list[i].addr /\ taken.size = size
       /\ q = [p EXCEPT !.list = UpdateFreeNodeList(p.list, i, size), !.usage = p.usage + size]
    BY <1>2, <1>3, <1>4, <1>9, <1>10 DEF AllocateInList, Taken, Policy
<1>12. PICK b : b = [stack |-> s, addr |-> taken.addr, size |-> taken.size]
    OBVIOUS
<1>13. /\ ListSound(UpdateFreeNodeList(p.list, i, size), BuffersOf(p), live \cup {b})
       /\ Held(b, BuffersOf(p))
       /\ \A c \in live : Apart(b, c)
    <2>1. \A c \in live : c.addr \in Nat /\ c.size \in Nat
        BY BlockHome
    <2>2. \A x \in BuffersOf(p) : x.slot \in Nat /\ x.size \in Nat
        BY <1>4 DEF Slotted
    <2>3. p.list[i].size < Word
        BY <1>1, <1>7, NodeHome
    <2>4. b.addr = p.list[i].addr /\ b.size = size
        BY <1>11, <1>12
    <2> QED
        BY <1>4, <1>5, <1>7, <1>8, <2>1, <2>2, <2>3, <2>4, SplitSound
<1>14. /\ q.kind = p.kind /\ q.buffer = p.buffer /\ q.extra = p.extra
       /\ q.list = UpdateFreeNodeList(p.list, i, size) /\ q.usage = p.usage + taken.size
       /\ q \in Policy /\ BuffersOf(q) = BuffersOf(p) /\ PolicyShape(q)
    <2>1. UpdateFreeNodeList(p.list, i, size) \in Seq(Node)
        BY <1>13 DEF ListSound
    <2>2. q \in Policy
        <3>1. PICK list, usage : list = UpdateFreeNodeList(p.list, i, size) /\ usage = p.usage + size
            OBVIOUS
        <3>2. q = [kind |-> p.kind, buffer |-> p.buffer, extra |-> p.extra,
                   scale |-> p.scale, list |-> list, usage |-> usage]
            BY <1>4, <1>11, <3>1 DEF Policy
        <3>3. list \in Seq(Node) /\ usage \in Nat
            BY <1>4, <1>5, <2>1, <3>1
        <3>4. p.extra \in Seq(Buffer) /\ p.scale \in Nat \ {0}
            BY <1>4 DEF Policy
        <3> QED
            BY <1>4, <3>2, <3>3, <3>4, PolicyFields
    <2>3. /\ q.kind = p.kind /\ q.buffer = p.buffer /\ q.extra = p.extra
          /\ q.list = UpdateFreeNodeList(p.list, i, size) /\ q.usage = p.usage + taken.size
        BY <1>4, <1>11 DEF Policy
    <2> QED
        BY <1>4, <2>2, <2>3 DEF BuffersOf, PolicyShape, FreeList
<1>15. HandOut(s, taken)
    BY <1>1, <1>9 DEF AllocateFromList
<1>16. policy'[s] = q
    BY <1>1, <1>4, <1>10, <1>15 DEF HandOut, Inv, TypesInv
<1>17. Placed(b)'
    BY <1>4, <1>12, <1>13, <1>14, <1>16 DEF Placed, FreeList
<1>18. taken.addr \in Nat /\ taken.size \in Nat /\ taken.size >= NodeSize
    BY <1>1, <1>5, <1>7, <1>11, NodeHome
<1>19. \A t \in Stack \ {s} : \A j \in DOMAIN policy[t].list : Apart(policy[t].list[j], b)
    <2>1. PICK x \in BuffersOf(policy[s]) : Inside(b, x)
        BY <1>1, <1>13 DEF Held
    <2>2. x.slot # 0
        BY <1>1, <1>4, BuffersTyped DEF FreeList
    <2>3. b.addr \in Nat /\ b.size \in Nat
        BY <1>12, <1>18
    <2> QED
        BY <2>1, <2>2, <2>3, Elsewhere
<1>20. /\ q.kind = policy[s].kind /\ q.buffer = policy[s].buffer
       /\ q.usage = policy[s].usage + taken.size
       /\ BuffersOf(q) = BuffersOf(policy[s]) /\ Slotted(BuffersOf(q))
       /\ ListSound(q.list, BuffersOf(q), live \cup {b})
    BY <1>1, <1>4, <1>13, <1>14
<1> QED
    BY <1>10, <1>12, <1>13, <1>14, <1>15, <1>17, <1>18, <1>19, <1>20, HandOutKeeps

LEMMA KeepsExtra ==
    ASSUME Inv, SplitsLeaveNodes, NEW s \in Stack, NEW n \in Request[s], AllocateFromExtra(s, n)
    PROVE  Inv'
<1>1. PICK p : p = policy[s]
    OBVIOUS
<1>2. PICK size : size = Asked(s, n)
    OBVIOUS
<1>3. PICK chunk : chunk = ChunkSize(p, size)
    OBVIOUS
<1>4. PICK slot \in FreeSlots(chunk) : HandOut(s, AllocateInExtraBuffer(p, size, slot))
    BY <1>1, <1>2, <1>3 DEF AllocateFromExtra
<1>5. /\ p \in Policy /\ p.list \in Seq(Node) /\ p.usage \in Nat /\ p.kind \in FreeList
      /\ p.extra \in Seq(Buffer) /\ p.scale \in Nat \ {0}
      /\ PolicyShape(p) /\ Slotted(BuffersOf(p))
      /\ ListSound(p.list, BuffersOf(p), live)
    BY <1>1 DEF AllocateFromExtra, Inv, TypesInv, Shapes, OwnSlots, ListsSound, Policy
<1>6. size \in Nat /\ size >= NodeSize
    BY <1>2, AskedSize
<1>7. /\ slot \in Slot /\ slot \notin UsedSlots /\ slot \in Nat \ {0}
      /\ chunk < SlotSize /\ AddressOf(slot) \in Nat
    <2>1. slot \in Nat \ {0} /\ chunk < SlotSize
        BY <1>4, Typing DEF FreeSlots
    <2> QED
        BY <1>4, <2>1, Typing DEF FreeSlots, AddressOf
<1>8. chunk \in Nat
    <2> MinChunk * p.scale \in Nat \ {0}
        BY <1>5, Typing
    <2> QED
        BY <1>3, <1>6, AlignedAtLeast DEF ChunkSize
<1>9. LeavesNode(chunk - NodeSize, size)
    <2>1. calls < MaxCalls /\ s \in {t \in Stack : policy[t].kind \in FreeList}
        BY <1>1, <1>5 DEF AllocateFromExtra
    <2>2. Fits(p.list, Aligned(size, Alignment)) = {}
        BY <1>1, <1>2 DEF AllocateFromExtra
    <2> QED
        BY <1>1, <1>2, <1>3, <2>1, <2>2 DEF SplitsLeaveNodes
<1>10. PICK node : node = [addr |-> AddressOf(slot), size |-> chunk - NodeSize]
    OBVIOUS
<1>11. PICK buffer : buffer = [slot |-> slot, size |-> chunk]
    OBVIOUS
<1>12. /\ node \in Node /\ node.addr = AddressOf(slot) /\ node.size = chunk - NodeSize
       /\ node.size \in Nat /\ node.size < SlotSize /\ LeavesNode(node.size, size)
       /\ buffer \in Buffer /\ buffer.slot = slot /\ buffer.size = chunk
       /\ Inside(node, buffer)
    <2>1. chunk - NodeSize >= NodeSize
        BY <1>6, <1>8, <1>9 DEF LeavesNode, NodeSize
    <2>2. chunk - NodeSize \in Nat /\ chunk - NodeSize < SlotSize
        BY <1>7, <1>8, <2>1, Typing DEF NodeSize
    <2>3. node \in Node /\ buffer \in Buffer
        BY <1>7, <1>8, <1>10, <1>11, <2>1, <2>2 DEF Node, Buffer
    <2>4. Inside(node, buffer)
        BY <1>7, <1>8, <1>10, <1>11 DEF Inside, NodeSize
    <2> QED
        BY <1>9, <1>10, <1>11, <2>2, <2>3, <2>4
<1>13. InSlot(node, slot)
    BY <1>7, <1>8, <1>12, Typing DEF InSlot, NodeSize
<1>14. PICK list : list = <<node>> \o p.list
    OBVIOUS
<1>15. PICK buffers : buffers = BuffersOf(p) \cup {buffer}
    OBVIOUS
<1>16. ListSound(list, buffers, live)
    <2>1. /\ \A c \in live : Apart(node, c)
          /\ \A i \in DOMAIN p.list : Apart(p.list[i], node)
        BY <1>1, <1>7, <1>12, <1>13, Fresh
    <2> QED
        BY <1>5, <1>12, <1>14, <1>15, <2>1, NewNodeSound
<1>17. 1 \in DOMAIN list /\ list[1] = node
    <2>1. <<node>> \in Seq(Node) /\ Len(<<node>>) = 1 /\ <<node>>[1] = node
        BY <1>12
    <2>2. Len(list) = 1 + Len(p.list) /\ list[1] = node
        BY <1>5, <1>14, <2>1, ConcatProperties
    <2>3. list \in Seq(Node) /\ Len(p.list) \in Nat
        BY <1>5, <1>16 DEF ListSound
    <2> QED
        BY <2>2, <2>3
<1>18. Slotted(buffers)
    <2>1. \A x \in BuffersOf(p) : x.slot # slot
        BY <1>1, <1>7, BuffersTyped
    <2> QED
        BY <1>5, <1>7, <1>8, <1>12, <1>15, <2>1 DEF Slotted
<1>19. PICK taken : taken = AllocateInExtraBuffer(p, size, slot)
    OBVIOUS
<1>20. PICK q : q = taken.policy
    OBVIOUS
<1>21. PICK b : b = [stack |-> s, addr |-> taken.addr, size |-> taken.size]
    OBVIOUS
<1>22. PICK left : left = UpdateFreeNodeList(list, 1, size)
    OBVIOUS
<1>23. taken.addr = node.addr /\ taken.size = size
    BY <1>10, <1>19 DEF AllocateInExtraBuffer, Taken
<1>24. /\ ListSound(left, buffers, live \cup {b})
       /\ Held(b, buffers)
       /\ \A c \in live : Apart(b, c)
    <2>1. \A c \in live : c.addr \in Nat /\ c.size \in Nat
        BY BlockHome
    <2>2. \A x \in buffers : x.slot \in Nat /\ x.size \in Nat
        BY <1>18 DEF Slotted
    <2>3. list[1].size < Word /\ LeavesNode(list[1].size, size)
        BY <1>12, <1>17, Typing
    <2>4. b.addr = list[1].addr /\ b.size = size
        BY <1>17, <1>21, <1>23
    <2> QED
        BY <1>6, <1>16, <1>17, <1>22, <2>1, <2>2, <2>3, <2>4, SplitSound
<1>25. /\ q \in Policy /\ q.kind = p.kind /\ q.buffer = p.buffer
       /\ q.extra = Append(p.extra, buffer) /\ q.list = left /\ q.usage = p.usage + size
    <2>1. PICK extra, scale, usage :
            extra = Append(p.extra, buffer) /\ scale = p.scale * 2 /\ usage = p.usage + size
        OBVIOUS
    <2>2. q = [kind |-> p.kind, buffer |-> p.buffer, extra |-> extra,
               scale |-> scale, list |-> left, usage |-> usage]
        <3>1. q = [[p EXCEPT !.list = UpdateFreeNodeList(<<node>> \o p.list, 1, size),
                             !.extra = Append(p.extra, [slot |-> slot, size |-> chunk]),
                             !.scale = p.scale * 2]
                        EXCEPT !.usage = p.usage + size]
            BY <1>3, <1>5, <1>10, <1>19, <1>20 DEF AllocateInExtraBuffer, Taken, Policy
        <3>2. q = [[p EXCEPT !.list = left, !.extra = extra, !.scale = scale]
                        EXCEPT !.usage = usage]
            BY <1>11, <1>14, <1>22, <2>1, <3>1
        <3> QED
            BY <1>5, <3>2 DEF Policy
    <2>3. left \in Seq(Node)
        BY <1>24 DEF ListSound
    <2>4. extra \in Seq(Buffer) /\ scale \in Nat \ {0} /\ usage \in Nat
        BY <1>5, <1>6, <1>12, <2>1, AppendProperties
    <2>5. /\ q \in Policy /\ q.kind = p.kind /\ q.buffer = p.buffer
          /\ q.extra = extra /\ q.list = left /\ q.usage = usage
        BY <1>5, <2>2, <2>3, <2>4, PolicyFields
    <2> QED
        BY <2>1, <2>5
<1>26. BuffersOf(q) = buffers /\ PolicyShape(q)
    <2>1. PICK extra : extra = Append(p.extra, buffer)
        OBVIOUS
    <2>2. {extra[i] : i \in DOMAIN extra} = {p.extra[i] : i \in DOMAIN p.extra} \cup {buffer}
        <3>1. /\ extra \in Seq(Buffer) /\ Len(extra) = Len(p.extra) + 1 /\ Len(p.extra) \in Nat
              /\ DOMAIN extra = 1 .. Len(extra) /\ DOMAIN p.extra = 1 .. Len(p.extra)
              /\ \A i \in 1 .. Len(p.extra) : extra[i] = p.extra[i]
              /\ extra[Len(p.extra) + 1] = buffer
            BY <1>5, <1>12, <2>1, AppendProperties
        <3> QED
            BY <3>1
    <2>3. BuffersOf(q) = {p.buffer} \cup {extra[i] : i \in DOMAIN extra}
        BY <1>25, <2>1 DEF BuffersOf
    <2>4. BuffersOf(p) = {p.buffer} \cup {p.extra[i] : i \in DOMAIN p.extra}
        BY DEF BuffersOf
    <2>5. BuffersOf(q) = buffers
        BY <1>15, <2>2, <2>3, <2>4
    <2> QED
        BY <1>5, <1>25, <2>5 DEF PolicyShape, FreeList
<1>27. HandOut(s, taken)
    BY <1>4, <1>19
<1>28. policy'[s] = q
    BY <1>20, <1>27 DEF HandOut, Inv, TypesInv
<1>29. Placed(b)'
    BY <1>5, <1>21, <1>24, <1>25, <1>26, <1>28 DEF Placed, FreeList
<1>30. taken.addr \in Nat /\ taken.size \in Nat /\ taken.size >= NodeSize
    BY <1>6, <1>7, <1>12, <1>23
<1>31. \A t \in Stack \ {s} : \A j \in DOMAIN policy[t].list : Apart(policy[t].list[j], b)
    <2>1. InSlot(b, slot) /\ b.addr \in Nat /\ b.size \in Nat
        <3>1. b.addr = node.addr /\ b.size = size /\ size <= node.size
            BY <1>6, <1>12, <1>21, <1>23 DEF LeavesNode, NodeSize
        <3> QED
            BY <1>6, <1>7, <1>12, <1>13, <3>1, Typing DEF InSlot
    <2> QED
        BY <1>7, <2>1, Fresh
<1>32. /\ q.kind = policy[s].kind /\ q.buffer = policy[s].buffer
       /\ q.usage = policy[s].usage + taken.size
       /\ BuffersOf(policy[s]) \subseteq BuffersOf(q) /\ Slotted(BuffersOf(q))
       /\ ListSound(q.list, BuffersOf(q), live \cup {b})
       /\ \A x \in BuffersOf(q) :
             x \in BuffersOf(policy[s]) \/ (x.slot \notin UsedSlots /\ x.slot # 0)
    BY <1>1, <1>7, <1>12, <1>15, <1>18, <1>23, <1>24, <1>25, <1>26
<1> QED
    BY <1>20, <1>21, <1>24, <1>25, <1>26, <1>27, <1>29, <1>30, <1>31, <1>32, HandOutKeeps

LEMMA KeepsLinear ==
    ASSUME Inv, LinearInBounds', NEW s \in Stack, NEW n \in Request[s], AllocateFromLinear(s, n)
    PROVE  Inv'
<1>1. PICK p : p = policy[s]
    OBVIOUS
<1>2. PICK size : size = Aligned(Asked(s, n), Alignment)
    OBVIOUS
<1>3. CASE UNCHANGED <<policy, inUse, live>>
    BY <1>3, SameState
<1>4. CASE HandOut(s, AllocateLinear(p, Asked(s, n)))
    <2>1. /\ p \in Policy /\ p.usage \in Nat /\ p.kind = "LINEAR_STATIC"
          /\ p.list = << >> /\ p.extra = << >> /\ p.scale \in Nat \ {0}
          /\ p.buffer.slot \in Nat /\ p.buffer.size \in Nat
          /\ PolicyShape(p) /\ Slotted(BuffersOf(p))
        BY <1>1 DEF AllocateFromLinear, Inv, TypesInv, Shapes, PolicyShape, OwnSlots, Policy,
                    Buffer, FreeList
    <2>2. size \in Nat /\ size >= NodeSize
        BY <1>2, AskedSize
    <2>3. PICK taken : taken = AllocateLinear(p, Asked(s, n))
        OBVIOUS
    <2>4. PICK q : q = taken.policy
        OBVIOUS
    <2>5. PICK b : b = [stack |-> s, addr |-> taken.addr, size |-> taken.size]
        OBVIOUS
    <2>6. PICK start : start = AddressOf(p.buffer.slot)
        OBVIOUS
    <2>7. start \in Nat
        BY <2>1, <2>6, Typing DEF AddressOf
    <2>8. taken.addr = start + p.usage /\ taken.size = size /\ q = [p EXCEPT !.usage = p.usage + size]
        BY <1>2, <2>1, <2>3, <2>4, <2>6 DEF AllocateLinear, Taken, Policy
    <2>9. /\ q \in Policy /\ q.kind = p.kind /\ q.buffer = p.buffer /\ q.extra = p.extra
          /\ q.list = p.list /\ q.usage = p.usage + size
        <3>1. PICK usage : usage = p.usage + size
            OBVIOUS
        <3>2. p \in Policy /\ usage \in Nat /\ q = [p EXCEPT !.usage = usage]
            BY <2>1, <2>2, <2>8, <3>1
        <3> QED
            BY <3>1, <3>2, PolicyUsage
    <2>10. BuffersOf(q) = BuffersOf(p) /\ PolicyShape(q)
        BY <2>1, <2>9 DEF BuffersOf, PolicyShape
    <2>11. HandOut(s, taken) /\ policy'[s] = q
        BY <1>4, <2>3, <2>4 DEF HandOut, Inv, TypesInv
    <2>12. q.usage <= q.buffer.size
        BY <2>1, <2>9, <2>11 DEF LinearInBounds
    <2>13. /\ b.addr = start + p.usage /\ b.size = size /\ b.stack = s
           /\ b.addr \in Nat /\ b.size \in Nat
        BY <2>1, <2>2, <2>5, <2>7, <2>8
    <2>14. Inside(b, p.buffer)
        BY <2>1, <2>2, <2>6, <2>7, <2>9, <2>12, <2>13 DEF Inside
    <2>15. Placed(b)'
        <3>1. b.addr + b.size <= AddressOf(q.buffer.slot) + q.usage
            BY <2>1, <2>2, <2>6, <2>7, <2>9, <2>13
        <3> QED
            BY <2>1, <2>9, <2>11, <2>13, <2>14, <3>1 DEF Placed
    <2>16. /\ p.buffer \in BuffersOf(policy[s]) /\ p.buffer.slot # 0
        BY <1>1, <2>1, BuffersTyped
    <2>17. /\ \A c \in live : c.stack # s => Apart(b, c)
           /\ \A t \in Stack \ {s} : \A i \in DOMAIN policy[t].list : Apart(policy[t].list[i], b)
        BY <2>13, <2>14, <2>16, Elsewhere
    <2>18. \A c \in live : Apart(b, c)
        <3> SUFFICES ASSUME NEW c \in live, c.stack = s PROVE Apart(b, c)
            BY <2>17
        <3>1. c.addr + c.size <= start + p.usage
            BY <1>1, <2>1, <2>6 DEF Inv, BlocksPlaced, Placed
        <3> QED
            BY <2>13, <3>1 DEF Apart
    <2>19. ListSound(q.list, BuffersOf(q), live \cup {b})
        <3>1. q.list = << >>
            BY <2>1, <2>9
        <3> QED
            BY <3>1 DEF ListSound
    <2>20. /\ q.kind = policy[s].kind /\ q.buffer = policy[s].buffer
           /\ q.usage = policy[s].usage + taken.size
           /\ BuffersOf(q) = BuffersOf(policy[s]) /\ Slotted(BuffersOf(q))
        BY <1>1, <2>1, <2>8, <2>9, <2>10
    <2>21. taken.addr \in Nat /\ taken.size \in Nat /\ taken.size >= NodeSize
        BY <2>1, <2>2, <2>7, <2>8
    <2> QED
        BY <2>4, <2>5, <2>9, <2>10, <2>11, <2>15, <2>17, <2>18, <2>19, <2>20, <2>21, HandOutKeeps
<1> QED
    BY <1>1, <1>3, <1>4 DEF AllocateFromLinear

LEMMA KeepsMalloc ==
    ASSUME Inv, NEW s \in Stack, NEW n \in Request[s], AllocateFromMalloc(s, n)
    PROVE  Inv'
<1>1. PICK p : p = policy[s]
    OBVIOUS
<1>2. PICK size : size = Aligned(Asked(s, n), Alignment)
    OBVIOUS
<1>3. PICK slot \in FreeSlots(size) : HandOut(s, AllocateGeneric(p, Asked(s, n), slot))
    BY <1>1, <1>2 DEF AllocateFromMalloc
<1>4. /\ p \in Policy /\ p.usage \in Nat /\ p.kind = "GENERIC"
      /\ p.list = << >> /\ p.extra = << >> /\ p.scale \in Nat \ {0}
      /\ PolicyShape(p) /\ Slotted(BuffersOf(p))
    BY <1>1 DEF AllocateFromMalloc, Inv, TypesInv, Shapes, PolicyShape, OwnSlots, Policy, FreeList
<1>5. size \in Nat /\ size >= NodeSize /\ size < SlotSize
    BY <1>2, <1>3, AskedSize DEF FreeSlots
<1>6. slot \in Slot /\ slot \notin UsedSlots /\ slot \in Nat \ {0} /\ AddressOf(slot) \in Nat
    <2>1. slot \in Nat \ {0}
        BY Typing DEF FreeSlots
    <2> QED
        BY <2>1, Typing DEF FreeSlots, AddressOf
<1>7. PICK taken : taken = AllocateGeneric(p, Asked(s, n), slot)
    OBVIOUS
<1>8. PICK q : q = taken.policy
    OBVIOUS
<1>9. PICK b : b = [stack |-> s, addr |-> taken.addr, size |-> taken.size]
    OBVIOUS
<1>10. taken.addr = AddressOf(slot) /\ taken.size = size /\ q = [p EXCEPT !.usage = p.usage + size]
    BY <1>2, <1>4, <1>7, <1>8 DEF AllocateGeneric, Taken, Policy
<1>11. /\ q \in Policy /\ q.kind = p.kind /\ q.buffer = p.buffer /\ q.extra = p.extra
       /\ q.list = p.list /\ q.usage = p.usage + size
    <2>1. PICK usage : usage = p.usage + size
        OBVIOUS
    <2>2. p \in Policy /\ usage \in Nat /\ q = [p EXCEPT !.usage = usage]
        BY <1>4, <1>5, <1>10, <2>1
    <2> QED
        BY <2>1, <2>2, PolicyUsage
<1>12. BuffersOf(q) = BuffersOf(p) /\ PolicyShape(q)
    BY <1>4, <1>11 DEF BuffersOf, PolicyShape
<1>13. HandOut(s, taken) /\ policy' = [policy EXCEPT ![s] = q]
    BY <1>3, <1>7, <1>8 DEF HandOut
<1>14. b.addr = AddressOf(slot) /\ b.size = size /\ b.stack = s /\ b.addr \in Nat
    BY <1>6, <1>9, <1>10
<1>15. /\ \A c \in live : Apart(b, c)
       /\ \A t \in Stack : \A i \in DOMAIN policy[t].list : Apart(policy[t].list[i], b)
    <2>1. InSlot(b, slot)
        BY <1>5, <1>6, <1>14, MallocInSlot
    <2> QED
        BY <1>5, <1>6, <1>14, <2>1, Fresh
<1>16. Placed(b)'
    <2>1. policy'[s] = q /\ \A t \in Stack \ {s} : policy'[t] = policy[t]
        BY <1>13 DEF Inv, TypesInv
    <2>2. \A t \in Stack : \A x \in BuffersOf(policy'[t]) : x.slot # slot
        BY <1>1, <1>6, <1>12, <2>1, BuffersTyped
    <2> QED
        BY <1>4, <1>5, <1>6, <1>11, <1>14, <2>1, <2>2 DEF Placed
<1>17. ListSound(q.list, BuffersOf(q), live \cup {b})
    <2>1. q.list = << >>
        BY <1>4, <1>11
    <2> QED
        BY <2>1 DEF ListSound
<1>18. /\ q.kind = policy[s].kind /\ q.buffer = policy[s].buffer
       /\ q.usage = policy[s].usage + taken.size
       /\ BuffersOf(q) = BuffersOf(policy[s]) /\ Slotted(BuffersOf(q))
    BY <1>1, <1>4, <1>10, <1>11, <1>12
<1>19. taken.addr \in Nat /\ taken.size \in Nat /\ taken.size >= NodeSize
    BY <1>5, <1>6, <1>10
<1> QED
    BY <1>8, <1>9, <1>11, <1>12, <1>13, <1>15, <1>16, <1>17, <1>18, <1>19, HandOutKeeps

-----------------------------------------------------------------------------
(* The calls to deallocate and setPolicy                                   *)

LEMMA FewerBlocks ==
    ASSUME NEW list, NEW buffers, NEW blocks, ListSound(list, buffers, blocks),
           NEW part \in SUBSET blocks
    PROVE  ListSound(list, buffers, part)
BY DEF ListSound

\* The account of a stack covers each of its blocks.
LEMMA InAccount ==
    ASSUME Inv, NEW b \in live
    PROVE  /\ inUse[b.stack] >= b.size
           /\ [inUse EXCEPT ![b.stack] = @ - b.size] \in [Stack -> Nat]
           /\ Ledger(live \ {b}, [inUse EXCEPT ![b.stack] = @ - b.size])
<1>1. live \in SUBSET Block /\ inUse \in [Stack -> Nat] /\ Ledger(live, inUse)
    BY DEF Inv, TypesInv, Accounts
<1>2. \A c \in live \ {b} : Apart(b, c)
    BY DEF Inv, BlocksApart
<1> QED
    BY <1>1, <1>2, LedgerRemove

\* A block that was handed out is never refused when it comes back.
LEMMA FreeAccepted ==
    ASSUME Inv, NEW b \in live
    PROVE  ~BadFree(policy[b.stack], b)
<1>1. PICK p : p = policy[b.stack]
    OBVIOUS
<1>2. /\ b.stack \in Stack /\ b.addr \in Nat /\ b.size \in Nat /\ b.size >= NodeSize
      /\ p \in Policy /\ Placed(b)
    BY <1>1 DEF Inv, TypesInv, Block, BlocksPlaced
<1>3. CASE p.kind \in FreeList
    <2>1. p.usage # 0
        <3>1. p.usage = inUse[b.stack] /\ inUse[b.stack] \in Nat
            BY <1>1, <1>2, <1>3 DEF Inv, TypesInv, Accounts, FreeList
        <3>2. inUse[b.stack] >= b.size
            BY InAccount
        <3> QED
            BY <1>2, <3>1, <3>2 DEF NodeSize
    <2>2. PICK x \in BuffersOf(p) : Inside(b, x)
        BY <1>1, <1>2, <1>3 DEF Placed, FreeList, Held
    <2>3. x.slot \in Nat /\ x.size \in Nat
        BY <1>1, <1>2, BuffersTyped
    <2>4. AddressOf(x.slot) \in Nat
        BY <2>3, Typing DEF AddressOf
    <2>5. Inside([addr |-> b.addr, size |-> 1], x)
        BY <1>2, <2>2, <2>3, <2>4 DEF Inside, NodeSize
    <2>6. BadFree(p, b) <=> (p.usage = 0 \/ ~ \E buffer \in BuffersOf(p) :
                                                Inside([addr |-> b.addr, size |-> 1], buffer))
        BY <1>3 DEF BadFree, FreeList
    <2> QED
        BY <1>1, <2>1, <2>2, <2>5, <2>6
<1>4. CASE p.kind = "LINEAR_STATIC"
    <2>1. Inside(b, p.buffer)
        BY <1>1, <1>2, <1>4 DEF Placed
    <2>2. p.buffer.slot \in Nat /\ p.buffer.size \in Nat
        BY <1>2 DEF Policy, Buffer
    <2>3. AddressOf(p.buffer.slot) \in Nat
        BY <2>2, Typing DEF AddressOf
    <2>4. Inside([addr |-> b.addr + HeaderSize, size |-> 0], p.buffer)
        BY <1>2, <2>1, <2>2, <2>3 DEF Inside, NodeSize, HeaderSize
    <2> QED
        BY <1>1, <1>4, <2>4 DEF BadFree, FreeList
<1>5. CASE p.kind = "GENERIC"
    BY <1>1, <1>5 DEF BadFree, FreeList
<1> QED
    BY <1>2, <1>3, <1>4, <1>5 DEF Policy

\* What is left of the policy, and its list without the block among the live ones.
LEMMA PolicyAfterFree ==
    ASSUME Inv, NEW b \in live, NEW p, p = policy[b.stack], NEW q, q = Deallocated(p, b)
    PROVE  /\ q \in Policy /\ q.kind = p.kind /\ q.buffer = p.buffer
           /\ BuffersOf(q) = BuffersOf(p) /\ PolicyShape(q)
           /\ q.usage = IF p.kind = "LINEAR_STATIC" THEN p.usage ELSE p.usage - b.size
           /\ ListSound(q.list, BuffersOf(p), live \ {b})
<1>1. /\ b.stack \in Stack /\ b.addr \in Nat /\ b.size \in Nat /\ b.size >= NodeSize
      /\ p \in Policy /\ p.usage \in Nat /\ Placed(b)
    BY DEF Inv, TypesInv, Block, BlocksPlaced, Policy
<1>2. PolicyShape(p) /\ Slotted(BuffersOf(p)) /\ ListSound(p.list, BuffersOf(p), live)
    BY <1>1 DEF Inv, Shapes, OwnSlots, ListsSound
<1>3. ListSound(p.list, BuffersOf(p), live \ {b})
    BY <1>2, FewerBlocks
<1>4. p.kind # "LINEAR_STATIC" => p.usage - b.size \in Nat
    <2>1. p.kind # "LINEAR_STATIC" => p.usage = inUse[b.stack]
        BY <1>1 DEF Inv, Accounts
    <2>2. inUse[b.stack] >= b.size /\ inUse[b.stack] \in Nat
        BY <1>1, InAccount DEF Inv, TypesInv
    <2> QED
        BY <1>1, <2>1, <2>2
<1>5. CASE p.kind \in FreeList
    <2>1. PICK node : node = [addr |-> b.addr, size |-> b.size]
        OBVIOUS
    <2>2. node \in Node /\ node.addr = b.addr /\ node.size = b.size
        BY <1>1, <2>1 DEF Node
    <2>3. Held(node, BuffersOf(p))
        <3>1. PICK x \in BuffersOf(p) : Inside(b, x)
            BY <1>1, <1>5 DEF Placed, FreeList, Held
        <3> QED
            BY <2>2, <3>1 DEF Held, Inside
    <2>4. \A c \in live \ {b} : Apart(node, c) /\ c.addr \in Nat /\ c.size \in Nat \ {0}
        BY <2>2, BlockHome DEF Inv, BlocksApart, Apart
    <2>5. \A i \in DOMAIN p.list : Apart(p.list[i], node)
        BY <1>2, <2>2 DEF ListSound, Apart
    <2>6. PICK list : list = GiveNodeBack(p.list, node)
        OBVIOUS
    <2>7. ListSound(list, BuffersOf(p), live \ {b})
        BY <1>2, <1>3, <2>2, <2>3, <2>4, <2>5, <2>6, GiveBackSound
    <2>8. PICK usage : usage = p.usage - b.size
        OBVIOUS
    <2>9. /\ q \in Policy /\ q.kind = p.kind /\ q.buffer = p.buffer /\ q.extra = p.extra
          /\ q.list = list /\ q.usage = usage
        <3>1. q = [kind |-> p.kind, buffer |-> p.buffer, extra |-> p.extra,
                   scale |-> p.scale, list |-> list, usage |-> usage]
            <4>1. q = [p EXCEPT !.usage = usage, !.list = list]
                <5>1. q = [p EXCEPT !.usage = @ - b.size, !.list = GiveNodeBack(@, node)]
                    BY <1>5, <2>1 DEF Deallocated, FreeList
                <5> QED
                    BY <1>1, <2>6, <2>8, <5>1 DEF Policy
            <4> QED
                BY <1>1, <4>1 DEF Policy
        <3>2. list \in Seq(Node)
            BY <2>7 DEF ListSound
        <3>3. usage \in Nat
            BY <1>4, <1>5, <2>8 DEF FreeList
        <3>4. p.extra \in Seq(Buffer) /\ p.scale \in Nat \ {0}
            BY <1>1 DEF Policy
        <3> QED
            BY <1>1, <3>1, <3>2, <3>3, <3>4, PolicyFields
    <2> QED
        BY <1>2, <1>5, <2>7, <2>8, <2>9 DEF BuffersOf, PolicyShape, FreeList
<1>6. CASE p.kind = "GENERIC"
    <2>1. PICK usage : usage = p.usage - b.size
        OBVIOUS
    <2>2. q = [p EXCEPT !.usage = usage] /\ usage \in Nat
        BY <1>1, <1>4, <1>6, <2>1 DEF Deallocated, FreeList, Policy
    <2>3. /\ q \in Policy /\ q.kind = p.kind /\ q.buffer = p.buffer /\ q.extra = p.extra
          /\ q.list = p.list /\ q.usage = usage
        BY <1>1, <2>2, PolicyUsage
    <2> QED
        BY <1>2, <1>3, <1>6, <2>1, <2>3 DEF BuffersOf, PolicyShape
<1>7. CASE p.kind = "LINEAR_STATIC"
    <2>1. q = p
        BY <1>7 DEF Deallocated, FreeList
    <2> QED
        BY <1>1, <1>2, <1>3, <1>7, <2>1
<1> QED
    BY <1>1, <1>5, <1>6, <1>7 DEF Policy

LEMMA KeepsDeallocate ==
    ASSUME Inv, NEW b \in live, Deallocate(b)
    PROVE  Inv'
<1>1. PICK s : s = b.stack
    OBVIOUS
<1>2. PICK p, q : p = policy[s] /\ q = Deallocated(p, b)
    OBVIOUS
<1>3. /\ s \in Stack /\ policy \in [Stack -> Policy] /\ inUse \in [Stack -> Nat]
      /\ live \subseteq Block /\ Slotted(BuffersOf(p))
      /\ b.size \in Nat
    BY <1>1, <1>2 DEF Inv, TypesInv, Block, OwnSlots
<1>4. /\ live' = live \ {b}
      /\ policy' = [policy EXCEPT ![s] = q]
      /\ inUse' = [inUse EXCEPT ![b.stack] = @ - b.size]
    BY <1>1, <1>2, <1>3, FreeAccepted DEF Deallocate, StackOf
<1>5. /\ q \in Policy /\ q.kind = p.kind /\ q.buffer = p.buffer
      /\ BuffersOf(q) = BuffersOf(p) /\ PolicyShape(q)
      /\ q.usage = IF p.kind = "LINEAR_STATIC" THEN p.usage ELSE p.usage - b.size
      /\ ListSound(q.list, BuffersOf(p), live \ {b})
    BY <1>1, <1>2, PolicyAfterFree
<1>6. /\ policy' \in [Stack -> Policy] /\ policy'[s] = q
      /\ \A t \in Stack \ {s} : policy'[t] = policy[t]
      /\ Shapes' /\ OwnSlots'
      /\ \A c \in live : c.stack # s => Placed(c)'
    <2>1. q.kind # "GENERIC" => \A x \in BuffersOf(q) : x.slot # 0
        BY <1>2, <1>3, <1>5, BuffersTyped
    <2>2. Slotted(BuffersOf(q)) /\ \A x \in BuffersOf(q) : x \in BuffersOf(policy[s])
        BY <1>2, <1>3, <1>5
    <2> QED
        BY <1>3, <1>4, <1>5, <2>1, <2>2, PolicyChanged
<1>7. \A c \in live : c.stack = s => Placed(c)'
    <2>1. q.kind = "LINEAR_STATIC" => q.usage >= policy[s].usage
        <3>1. policy[s].usage \in Nat
            BY <1>3 DEF Policy
        <3> QED
            BY <1>2, <1>5, <3>1
    <2>2. /\ q.kind = policy[s].kind /\ q.buffer = policy[s].buffer
          /\ BuffersOf(policy[s]) \subseteq BuffersOf(q)
          /\ \A x \in BuffersOf(q) : x \in BuffersOf(policy[s]) \/ x.slot \notin UsedSlots
        BY <1>2, <1>5
    <2> QED
        BY <1>3, <1>5, <1>6, <2>1, <2>2, PolicyGrown
<1>8. Ledger(live', inUse') /\ inUse' \in [Stack -> Nat]
    BY <1>4, InAccount
<1>9. TypesInv'
    BY <1>3, <1>4, <1>6, <1>8 DEF TypesInv
<1>10. BlocksPlaced' /\ BlocksApart'
    BY <1>4, <1>6, <1>7 DEF Inv, BlocksPlaced, BlocksApart
<1>11. ListsSound'
    <2> SUFFICES ASSUME NEW t \in Stack
                 PROVE  ListSound(policy'[t].list, BuffersOf(policy'[t]), live \ {b})
        BY <1>4 DEF ListsSound
    <2>1. CASE t = s
        BY <1>5, <1>6, <2>1
    <2>2. CASE t # s
        <3>1. ListSound(policy[t].list, BuffersOf(policy[t]), live)
            BY DEF Inv, ListsSound
        <3>2. ListSound(policy[t].list, BuffersOf(policy[t]), live \ {b})
            BY <3>1, FewerBlocks
        <3> QED
            BY <1>6, <2>2, <3>2
    <2> QED
        BY <2>1, <2>2
<1>12. \A t \in Stack : policy'[t].kind # "LINEAR_STATIC" => policy'[t].usage = inUse'[t]
    <2> SUFFICES ASSUME NEW t \in Stack, policy'[t].kind # "LINEAR_STATIC"
                 PROVE  policy'[t].usage = inUse'[t]
        OBVIOUS
    <2>1. CASE t = s
        <3>1. p.usage = inUse[s]
            BY <1>2, <1>3, <1>5, <1>6, <2>1 DEF Inv, Accounts
        <3>2. inUse'[s] = inUse[s] - b.size
            BY <1>1, <1>3, <1>4
        <3> QED
            BY <1>5, <1>6, <2>1, <3>1, <3>2
    <2>2. CASE t # s
        BY <1>1, <1>3, <1>4, <1>6, <2>2 DEF Inv, Accounts
    <2> QED
        BY <2>1, <2>2
<1> QED
    BY <1>6, <1>8, <1>9, <1>10, <1>11, <1>12 DEF Inv, Accounts

\* Nothing is lost when a policy that counts nothing in use is replaced.
LEMMA NothingLeft ==
    ASSUME Inv, NEW s \in Stack, CanReplace(policy[s])
    PROVE  (\A b \in live : b.stack # s) /\ inUse[s] = 0
<1>1. ASSUME NEW b \in live, b.stack = s
      PROVE  FALSE
    <2>1. CASE policy[s].kind = "LINEAR_STATIC"
        <3>1. /\ Inside(b, policy[s].buffer)
              /\ b.addr + b.size <= AddressOf(policy[s].buffer.slot) + policy[s].usage
            BY <1>1, <2>1 DEF Inv, BlocksPlaced, Placed
        <3>2. b.addr \in Nat /\ b.size \in Nat \ {0} /\ policy[s].usage = 0
            BY BlockHome DEF CanReplace
        <3>3. AddressOf(policy[s].buffer.slot) \in Nat
            BY BuffersTyped, Typing DEF AddressOf
        <3> QED
            BY <3>1, <3>2, <3>3 DEF Inside
    <2>2. CASE policy[s].kind # "LINEAR_STATIC"
        <3>1. inUse[s] = 0
            BY <2>2 DEF Inv, Accounts, CanReplace
        <3>2. live \in SUBSET Block /\ Ledger(live, inUse)
            BY DEF Inv, TypesInv, Accounts
        <3> QED
            BY <1>1, <3>1, <3>2, NoneInUse
    <2> QED
        BY <2>1, <2>2
<1>2. Bytes(live, s) = {}
    BY <1>1 DEF Bytes
<1>3. inUse[s] = Cardinality(Bytes(live, s))
    BY DEF Inv, Accounts, Ledger
<1> QED
    BY <1>1, <1>2, <1>3, FS_EmptySet

LEMMA KeepsSetPolicy ==
    ASSUME Inv, NEW s \in Stack, NEW kind \in Kind[s], SetPolicy(s, kind)
    PROVE  Inv'
<1>1. (\A b \in live : b.stack # s) /\ inUse[s] = 0
    BY NothingLeft DEF SetPolicy
<1>2. PICK slot \in IF kind = "GENERIC" THEN {0} ELSE FreeSlots(BufferSize(kind)) :
        policy' = [policy EXCEPT ![s] = NewPolicy(kind, slot)]
    BY DEF SetPolicy
<1>3. PICK q : q = NewPolicy(kind, slot)
    OBVIOUS
<1>4. kind \in FreeList \cup {"GENERIC", "LINEAR_STATIC"}
    BY Typing
<1>5. PICK size : size = BufferSize(kind)
    OBVIOUS
<1>6. size \in Nat /\ (kind \in FreeList => size >= NodeSize)
    BY <1>5, StackAssumption DEF BufferSize, NodeSize
<1>7. q \in Policy /\ q.kind = kind /\ q.extra = << >> /\ q.usage = 0
    <2>1. slot \in Nat /\ AddressOf(slot) \in Nat
        <3>1. slot \in Nat
            BY <1>2, Typing DEF FreeSlots
        <3> QED
            BY <3>1, Typing DEF AddressOf
    <2>2. PICK buffer : buffer = IF kind = "GENERIC" THEN NoBuffer ELSE [slot |-> slot, size |-> size]
        OBVIOUS
    <2>3. PICK list : list = IF kind \in FreeList
                             THEN <<[addr |-> AddressOf(slot), size |-> size]>> ELSE << >>
        OBVIOUS
    <2>4. q = [kind |-> kind, buffer |-> buffer, extra |-> << >>, scale |-> 1,
               list |-> list, usage |-> 0]
        BY <1>3, <1>5, <2>2, <2>3 DEF NewPolicy
    <2>5. buffer \in Buffer
        BY <1>6, <2>1, <2>2 DEF Buffer, NoBuffer
    <2>6. list \in Seq(Node)
        <3>1. CASE kind \in FreeList
            <4>1. [addr |-> AddressOf(slot), size |-> size] \in Node
                BY <1>6, <2>1, <3>1 DEF Node
            <4> QED
                BY <2>3, <3>1, <4>1
        <3>2. CASE kind \notin FreeList
            BY <2>3, <3>2
        <3> QED
            BY <3>1, <3>2
    <2>7. << >> \in Seq(Buffer)
        OBVIOUS
    <2> QED
        BY <1>4, <2>4, <2>5, <2>6, <2>7 DEF Policy
<1>8. BuffersOf(q) = {q.buffer}
    BY <1>7 DEF BuffersOf
<1>9. /\ PolicyShape(q) /\ Slotted(BuffersOf(q))
      /\ q.kind # "GENERIC" => \A x \in BuffersOf(q) : x.slot # 0
      /\ \A x \in BuffersOf(q) : x.slot \notin UsedSlots \/ x.slot = 0
      /\ ListSound(q.list, BuffersOf(q), live)
    <2>1. CASE kind = "GENERIC"
        <3>1. q.buffer = NoBuffer /\ q.list = << >>
            BY <1>3, <2>1 DEF NewPolicy, FreeList
        <3>2. NoBuffer.slot = 0 /\ NoBuffer.size = 0
            BY DEF NoBuffer
        <3>3. Slotted(BuffersOf(q))
            BY <1>8, <3>1, <3>2, Typing DEF Slotted
        <3>4. PolicyShape(q)
            BY <1>7, <3>1 DEF PolicyShape
        <3>5. ListSound(q.list, BuffersOf(q), live)
            BY <3>1 DEF ListSound
        <3> QED
            BY <1>7, <1>8, <2>1, <3>1, <3>2, <3>3, <3>4, <3>5
    <2>2. CASE kind # "GENERIC"
        <3>1. slot \in Slot /\ slot \notin UsedSlots /\ slot \in Nat \ {0} /\ size < SlotSize
            BY <1>2, <1>5, <2>2, Typing DEF FreeSlots
        <3>2. PICK buffer : buffer = [slot |-> slot, size |-> size]
            OBVIOUS
        <3>3. q.buffer = buffer /\ buffer.slot = slot /\ buffer.size = size
            BY <1>3, <1>5, <2>2, <3>2 DEF NewPolicy
        <3>4. Slotted(BuffersOf(q))
            BY <1>6, <1>8, <3>1, <3>3 DEF Slotted
        <3>5. ListSound(q.list, BuffersOf(q), live)
            <4>1. CASE kind \in FreeList
                <5>1. PICK node : node = [addr |-> AddressOf(slot), size |-> size]
                    OBVIOUS
                <5>2. AddressOf(slot) \in Nat
                    BY <3>1, Typing DEF AddressOf
                <5>3. node \in Node /\ node.addr = AddressOf(slot) /\ node.size = size
                    BY <1>6, <4>1, <5>1, <5>2 DEF Node
                <5>4. Inside(node, buffer) /\ InSlot(node, slot)
                    BY <1>6, <3>1, <3>3, <5>2, <5>3, Typing DEF Inside, InSlot
                <5>5. \A c \in live : Apart(node, c)
                    BY <1>6, <3>1, <5>2, <5>3, <5>4, Fresh
                <5>6. q.list = <<node>>
                    BY <1>3, <1>5, <4>1, <5>1 DEF NewPolicy
                <5>7. /\ q.list \in Seq(Node) /\ DOMAIN q.list = {1} /\ q.list[1] = node
                    BY <5>3, <5>6
                <5> QED
                    BY <1>8, <3>3, <5>4, <5>5, <5>7 DEF ListSound, Held
            <4>2. CASE kind \notin FreeList
                <5>1. q.list = << >>
                    BY <1>3, <4>2 DEF NewPolicy
                <5> QED
                    BY <5>1 DEF ListSound
            <4> QED
                BY <4>1, <4>2
        <3>6. PolicyShape(q)
            BY <1>3, <1>7, <2>2 DEF PolicyShape, NewPolicy
        <3> QED
            BY <1>8, <3>1, <3>3, <3>4, <3>5, <3>6
    <2> QED
        BY <2>1, <2>2
<1>10. /\ policy' \in [Stack -> Policy] /\ policy'[s] = q
       /\ \A t \in Stack \ {s} : policy'[t] = policy[t]
       /\ Shapes' /\ OwnSlots'
       /\ \A c \in live : c.stack # s => Placed(c)'
    BY <1>2, <1>3, <1>7, <1>9, PolicyChanged
<1>11. live' = live /\ inUse' = inUse
    BY DEF SetPolicy
<1>12. TypesInv' /\ BlocksPlaced' /\ BlocksApart'
    BY <1>1, <1>10, <1>11 DEF Inv, TypesInv, BlocksPlaced, BlocksApart
<1>13. ListsSound'
    BY <1>9, <1>10, <1>11 DEF Inv, ListsSound
<1>14. Accounts'
    BY <1>1, <1>7, <1>10, <1>11 DEF Inv, Accounts
<1> QED
    BY <1>10, <1>12, <1>13, <1>14 DEF Inv

-----------------------------------------------------------------------------
(* The invariant and what follows from it                                  *)

LEMMA InitInv == Init => Inv
<1> SUFFICES ASSUME Init PROVE Inv
    OBVIOUS
<1>1. PICK q : q = NewPolicy("GENERIC", 0)
    OBVIOUS
<1>2. q = [kind |-> "GENERIC", buffer |-> NoBuffer, extra |-> << >>, scale |-> 1,
           list |-> << >>, usage |-> 0]
    BY <1>1 DEF NewPolicy, FreeList
<1>3. /\ policy = [s \in Stack |-> q] /\ inUse = [s \in Stack |-> 0] /\ live = {}
    BY <1>1 DEF Init
<1>4. /\ q \in Policy /\ q.list = << >> /\ q.extra = << >> /\ q.kind = "GENERIC" /\ q.usage = 0
      /\ BuffersOf(q) = {NoBuffer} /\ NoBuffer.slot = 0 /\ NoBuffer.size = 0
    <2>1. NoBuffer \in Buffer
        BY DEF NoBuffer, Buffer
    <2>2. << >> \in Seq(Node) /\ << >> \in Seq(Buffer)
        OBVIOUS
    <2>3. q \in Policy
        BY <1>2, <2>1, <2>2 DEF Policy
    <2>4. q.extra = << >> /\ q.buffer = NoBuffer
        BY <1>2
    <2>5. BuffersOf(q) = {NoBuffer}
        BY <2>4 DEF BuffersOf
    <2> QED
        BY <1>2, <2>3, <2>5 DEF NoBuffer
<1>5. TypesInv /\ BlocksPlaced /\ BlocksApart
    BY <1>3, <1>4 DEF TypesInv, BlocksPlaced, BlocksApart
<1>6. Shapes
    <2>1. q.buffer = NoBuffer
        BY <1>2
    <2> QED
        BY <1>3, <1>4, <2>1 DEF Shapes, PolicyShape
<1>7. OwnSlots
    BY <1>3, <1>4, Typing DEF OwnSlots, Slotted
<1>8. ListsSound
    <2>1. ListSound(<< >>, {NoBuffer}, {})
        BY DEF ListSound
    <2> QED
        BY <1>3, <1>4, <2>1 DEF ListsSound
<1>9. Accounts
    <2>1. \A s : Bytes({}, s) = {}
        BY DEF Bytes
    <2> QED
        BY <1>3, <1>4, <2>1, FS_EmptySet DEF Accounts, Ledger
<1> QED
    BY <1>5, <1>6, <1>7, <1>8, <1>9 DEF Inv

LEMMA StepInv == Inv /\ SplitsLeaveNodes /\ LinearInBounds' /\ [Next]_vars => Inv'
<1> SUFFICES ASSUME Inv, SplitsLeaveNodes, LinearInBounds', [Next]_vars PROVE Inv'
    OBVIOUS
<1>1. ASSUME NEW s \in Stack, NEW n \in Request[s], Allocate(s, n) PROVE Inv'
    BY <1>1, KeepsList, KeepsExtra, KeepsLinear, KeepsMalloc DEF Allocate
<1>2. ASSUME NEW b \in live, Deallocate(b) PROVE Inv'
    BY <1>2, KeepsDeallocate
<1>3. ASSUME NEW s \in Stack, NEW kind \in Kind[s], SetPolicy(s, kind) PROVE Inv'
    BY <1>3, KeepsSetPolicy
<1>4. CASE UNCHANGED vars
    BY <1>4, SameState DEF vars
<1> QED
    BY <1>1, <1>2, <1>3, <1>4 DEF Next

\* The invariant holds as long as the linear policies are not asked for more than
\* they have and no split leaves less than a Node: the code checks neither.
THEOREM StacksInvariant == Spec /\ []LinearInBounds /\ []SplitsLeaveNodes => []Inv
<1>1. Init => Inv
    BY InitInv
<1>2. Inv /\ SplitsLeaveNodes /\ LinearInBounds' /\ [Next]_vars => Inv'
    BY StepInv
<1> QED
    BY <1>1, <1>2, PTL DEF Spec

\* A block lies in a buffer that its stack still owns: a policy that is replaced
\* has no block left (Stack::setPolicy looks at the usage only).
THEOREM BlocksStayOwned == Spec /\ []LinearInBounds /\ []SplitsLeaveNodes => []BlocksOwned
<1>1. Inv => BlocksOwned
    <2> SUFFICES ASSUME Inv, NEW b \in live, policy[b.stack].kind # "GENERIC"
                 PROVE  \E buffer \in BuffersOf(policy[b.stack]) : Inside(b, buffer)
        BY DEF BlocksOwned
    <2> QED
        BY BlockHome
<1> QED
    BY <1>1, StacksInvariant, PTL

\* The nodes of a free list are in its buffers, large enough for their links, and
\* apart from each other and from every live block (FreeListAllocatorPolicy).
THEOREM FreeMemoryIsFree == Spec /\ []LinearInBounds /\ []SplitsLeaveNodes => []FreeListSound
<1>1. Inv => FreeListSound
    <2> SUFFICES ASSUME Inv, NEW s \in Stack, NEW i \in DOMAIN policy[s].list
                 PROVE  /\ policy[s].list[i].size >= NodeSize
                        /\ \E buffer \in BuffersOf(policy[s]) : Inside(policy[s].list[i], buffer)
                        /\ \A j \in DOMAIN policy[s].list \ {i} :
                              Apart(policy[s].list[i], policy[s].list[j])
                        /\ \A b \in live : Apart(policy[s].list[i], b)
        BY DEF FreeListSound
    <2>1. ListSound(policy[s].list, BuffersOf(policy[s]), live)
        BY DEF Inv, ListsSound
    <2>2. policy[s].list[i].size >= NodeSize
        <3>1. policy[s].list[i] \in Node
            BY NodeHome
        <3> QED
            BY <3>1 DEF Node
    <2> QED
        BY <2>1, <2>2 DEF ListSound, Held
<1> QED
    BY <1>1, StacksInvariant, PTL

\* The stacks implement a heap: a call hands out a block apart from the live ones,
\* or takes one back, whatever policy is behind the stack (spider::allocate,
\* spider::deallocate).
THEOREM StacksImplementHeap == Spec /\ []LinearInBounds /\ []SplitsLeaveNodes => ImplementsHeap
<1>1. Init => H!HeapInit
    BY DEF Init, H!HeapInit
<1>2. Inv' /\ [Next]_vars => [H!HeapNext]_live
    <2> SUFFICES ASSUME Inv', [Next]_vars, live' # live PROVE H!HeapNext
        OBVIOUS
    <2>1. ASSUME NEW b, live' = live \cup {b}
          PROVE  H!HeapNext
        <3>1. b \in live' /\ b \notin live
            BY <2>1
        <3>2. b.stack \in Stack /\ b.size > 0
            BY <3>1 DEF Inv, TypesInv, Block, NodeSize
        <3>3. \A c \in live : H!Apart(b, c)
            BY <2>1, <3>1 DEF Inv, BlocksApart, Apart, H!Apart
        <3> QED
            BY <2>1, <3>1, <3>2, <3>3 DEF H!HeapNext, H!Obtain
    <2>2. ASSUME NEW s, NEW taken, HandOut(s, taken)
          PROVE  H!HeapNext
        <3>1. PICK b : b = [stack |-> s, addr |-> taken.addr, size |-> taken.size]
            OBVIOUS
        <3> QED
            BY <2>1, <2>2, <3>1 DEF HandOut
    <2>3. ASSUME NEW s \in Stack, NEW n \in Request[s], Allocate(s, n)
          PROVE  H!HeapNext
        BY <2>2, <2>3 DEF Allocate, AllocateFromList, AllocateFromExtra, AllocateFromLinear,
                          AllocateFromMalloc
    <2>4. ASSUME NEW b \in live, Deallocate(b)
          PROVE  H!HeapNext
        BY <2>4 DEF Deallocate, H!HeapNext, H!GiveBack
    <2> QED
        BY <2>3, <2>4 DEF Next, SetPolicy, vars
<1> QED
    BY <1>1, <1>2, StacksInvariant, PTL DEF Spec, ImplementsHeap, H!HeapSpec

\* No block that was handed out is refused when it comes back: the usage of the
\* policy covers it and its address is in a buffer (checkPointerAddress).
THEOREM NoFreeRefused == Spec /\ []LinearInBounds /\ []SplitsLeaveNodes => []FreesAccepted
<1>1. Init => FreesAccepted
    BY DEF Init, FreesAccepted
<1>2. Inv /\ FreesAccepted /\ [Next]_vars => FreesAccepted'
    <2> SUFFICES ASSUME Inv, FreesAccepted, [Next]_vars PROVE FreesAccepted'
        OBVIOUS
    <2>1. ASSUME NEW s \in Stack, NEW n \in Request[s], Allocate(s, n)
          PROVE  refused' \in {refused, refused \cup {"not enough memory"}}
        BY <2>1 DEF Allocate, AllocateFromList, AllocateFromExtra, AllocateFromLinear,
                    AllocateFromMalloc, HandOut
    <2>2. ASSUME NEW b \in live, Deallocate(b)
          PROVE  refused' = refused
        BY <2>2, FreeAccepted DEF Deallocate, StackOf
    <2>3. ASSUME NEW s \in Stack, NEW kind \in Kind[s], SetPolicy(s, kind)
          PROVE  refused' = refused
        BY <2>3 DEF SetPolicy
    <2>4. refused' \in {refused, refused \cup {"not enough memory"}}
        BY <2>1, <2>2, <2>3 DEF Next, vars
    <2>5. "bad memory free" # "not enough memory"
        OBVIOUS
    <2> QED
        BY <2>4, <2>5 DEF FreesAccepted
<1> QED
    BY <1>1, <1>2, StacksInvariant, PTL DEF Spec

-----------------------------------------------------------------------------
(* Sizes for which no split leaves less than a Node                        *)

\* A number of whole Nodes.
Whole(n) == \E k \in Nat : n = k * NodeSize

\* Blocks, buffers and chunks are whole Nodes, blocks need no padding, and an extra
\* buffer of one chunk holds any of them and a Node.
SizesFit ==
    /\ Whole(MinChunk) /\ Whole(StaticSize)
    /\ \A s \in {t \in Stack : Kind[t] \cap FreeList # {}} : \A n \in Request[s] :
          LET size == n + StackIdSize + HeaderSize
          IN  /\ n + StackIdSize >= NodeSize /\ Whole(size) /\ size % Alignment = 0
              /\ size + NodeSize <= MinChunk

ListWhole(list) == \A i \in DOMAIN list : Whole(list[i].size)

AllWhole ==
    /\ \A s \in Stack : policy[s].kind \in Kind[s] \cup {"GENERIC"} /\ ListWhole(policy[s].list)
    /\ \A b \in live : policy[b.stack].kind \in FreeList => Whole(b.size)

LEMMA WholeArithmetic ==
    ASSUME NEW m, NEW n, Whole(m), Whole(n)
    PROVE  /\ m \in Nat /\ n \in Nat
           /\ Whole(m + n)
           /\ n <= m => Whole(m - n) /\ LeavesNode(m, n)
<1>1. PICK k \in Nat : m = k * NodeSize
    BY DEF Whole
<1>2. PICK l \in Nat : n = l * NodeSize
    BY DEF Whole
<1>3. m = k * 16 /\ n = l * 16
    BY <1>1, <1>2 DEF NodeSize
<1>4. Whole(m + n)
    <2> k + l \in Nat /\ m + n = (k + l) * 16
        BY <1>3
    <2> QED
        BY DEF Whole, NodeSize
<1>5. ASSUME n <= m
      PROVE  Whole(m - n) /\ LeavesNode(m, n)
    <2>1. k - l \in Nat /\ m - n = (k - l) * 16 /\ (m = n \/ m >= n + 16)
        BY <1>3, <1>5
    <2> QED
        BY <2>1 DEF Whole, NodeSize, LeavesNode
<1> QED
    BY <1>3, <1>4, <1>5

LEMMA SpliceWhole ==
    ASSUME NEW list \in Seq(Node), ListWhole(list),
           NEW a \in 0 .. Len(list), NEW c \in a + 1 .. Len(list) + 1,
           NEW middle \in Seq(Node), ListWhole(middle)
    PROVE  ListWhole(Splice(list, a, middle, c))
<1>1. PICK new : new = Splice(list, a, middle, c)
    OBVIOUS
<1>2. PICK n, N : n = a + Len(middle) /\ N = n + (Len(list) + 1 - c)
    OBVIOUS
<1>3. Spliced(new, list, a, middle, c, n, N)
    BY <1>1, <1>2, SpliceAt
<1>4. Len(list) \in Nat /\ Len(middle) \in Nat /\ n \in Nat /\ N \in Nat
    BY <1>2
<1>5. ASSUME NEW j \in DOMAIN new
      PROVE  Whole(new[j].size)
    <2>1. j \in 1 .. N
        BY <1>3 DEF Spliced
    <2>2. CASE j <= a
        BY <1>3, <1>4, <2>1, <2>2 DEF Spliced, ListWhole
    <2>3. CASE ~ (j <= a) /\ j <= n
        <3>1. PICK k : k = j - a
            OBVIOUS
        <3>2. k \in DOMAIN middle
            BY <1>2, <1>4, <2>1, <2>3, <3>1
        <3>3. new[j] = middle[k]
            BY <1>3, <2>1, <2>3, <3>1 DEF Spliced
        <3> QED
            BY <3>2, <3>3 DEF ListWhole
    <2>4. CASE ~ (j <= a) /\ ~ (j <= n)
        <3>1. PICK k : k = (c + j) - (n + 1)
            OBVIOUS
        <3>2. k \in DOMAIN list
            BY <1>2, <1>4, <2>1, <2>4, <3>1
        <3>3. new[j] = list[k]
            BY <1>3, <2>1, <2>4, <3>1 DEF Spliced
        <3> QED
            BY <3>2, <3>3 DEF ListWhole
    <2> QED
        BY <2>2, <2>3, <2>4
<1> QED
    BY <1>1, <1>5 DEF ListWhole

LEMMA SingleWhole ==
    ASSUME NEW m \in Node, Whole(m.size)
    PROVE  <<m>> \in Seq(Node) /\ ListWhole(<<m>>)
BY DEF ListWhole

LEMMA SplitWhole ==
    ASSUME NEW list \in Seq(Node), ListWhole(list), NEW i \in DOMAIN list,
           NEW size, Whole(size), size <= list[i].size, list[i].size < Word
    PROVE  ListWhole(UpdateFreeNodeList(list, i, size))
<1>1. PICK node : node = list[i]
    OBVIOUS
<1>2. /\ node.addr \in Nat /\ node.size \in Nat /\ node.size < Word /\ size <= node.size
      /\ Whole(node.size) /\ size \in Nat /\ Whole(node.size - size)
      /\ node.size = size \/ node.size - size >= NodeSize
    <2>1. node \in Node
        BY <1>1
    <2>2. Whole(node.size)
        BY <1>1 DEF ListWhole
    <2>3. Whole(node.size - size) /\ LeavesNode(node.size, size) /\ size \in Nat
        BY <1>1, <2>2, WholeArithmetic
    <2> QED
        BY <1>1, <2>1, <2>2, <2>3 DEF Node, LeavesNode, NodeSize
<1>3. (node.size - size) % Word = node.size - size
    BY <1>2, Typing
<1>4. PICK a, c : a = i - 1 /\ c = i + 1
    OBVIOUS
<1>5. a \in 0 .. Len(list) /\ c \in a + 1 .. Len(list) + 1
    BY <1>4
<1>6. CASE node.size = size
    <2>1. UpdateFreeNodeList(list, i, size) = Splice(list, a, << >>, c)
        <3> ~ (node.size - size > 0)
            BY <1>2, <1>6
        <3> QED
            BY <1>1, <1>3, <1>4 DEF UpdateFreeNodeList, Splice
    <2>2. << >> \in Seq(Node) /\ ListWhole(<< >>)
        BY DEF ListWhole
    <2>3. ListWhole(Splice(list, a, << >>, c))
        BY <1>5, <2>2, SpliceWhole
    <2> QED
        BY <2>1, <2>3
<1>7. CASE node.size - size >= NodeSize
    <2>1. PICK left : left = [addr |-> node.addr + size, size |-> node.size - size]
        OBVIOUS
    <2>2. left \in Node /\ Whole(left.size)
        BY <1>2, <1>7, <2>1 DEF Node
    <2>3. UpdateFreeNodeList(list, i, size) = Splice(list, a, <<left>>, c)
        <3> node.size - size > 0
            BY <1>2, <1>7 DEF NodeSize
        <3> QED
            BY <1>1, <1>3, <1>4, <2>1 DEF UpdateFreeNodeList, Splice
    <2>4. <<left>> \in Seq(Node) /\ ListWhole(<<left>>)
        BY <2>2, SingleWhole
    <2>5. ListWhole(Splice(list, a, <<left>>, c))
        BY <1>5, <2>4, SpliceWhole
    <2> QED
        BY <2>3, <2>5
<1> QED
    BY <1>2, <1>6, <1>7

LEMMA GiveBackWhole ==
    ASSUME NEW list \in Seq(Node), ListWhole(list), NEW node \in Node, Whole(node.size)
    PROVE  ListWhole(GiveNodeBack(list, node))
<1>1. DOMAIN list = 1 .. Len(list) /\ Len(list) \in Nat
    OBVIOUS
<1>2. PICK above : above = {i \in DOMAIN list : node.addr < list[i].addr}
    OBVIOUS
<1>3. PICK k : k = IF above = {} THEN Len(list) + 1 ELSE Min(above)
    OBVIOUS
<1>4. k \in 1 .. Len(list) + 1 /\ (above # {} => k \in DOMAIN list)
    <2> above \in SUBSET Nat /\ above \subseteq DOMAIN list
        BY <1>1, <1>2
    <2>1. above # {} => Min(above) \in above
        BY MinInSet
    <2> QED
        BY <1>1, <1>2, <1>3, <2>1
<1> DEFINE next == above # {} /\ node.addr + node.size = list[k].addr
           previous == k > 1 /\ list[k - 1].addr + list[k - 1].size = node.addr
           merged == [node EXCEPT !.size = @ + (IF next THEN list[k].size ELSE 0)]
<1>5. PICK c : c = IF next THEN k + 1 ELSE k
    OBVIOUS
<1>6. c \in k .. Len(list) + 1 /\ c \in Nat
    BY <1>1, <1>4, <1>5
<1>7. PICK m : m = merged
    OBVIOUS
<1>8. GiveNodeBack(list, node) =
        IF previous
        THEN SubSeq(list, 1, k - 2) \o <<Join(list[k - 1], m)>> \o SubSeq(list, c, Len(list))
        ELSE IF above = {} THEN list
        ELSE SubSeq(list, 1, k - 1) \o <<m>> \o SubSeq(list, c, Len(list))
    BY <1>2, <1>3, <1>5, <1>7 DEF GiveNodeBack, Join
\* Two nodes put together are whole.
<1>9. ASSUME NEW x \in Node, NEW y \in Node, Whole(x.size), Whole(y.size)
      PROVE  Join(x, y) \in Node /\ Whole(Join(x, y).size)
    <2>1. Join(x, y) = [addr |-> x.addr, size |-> x.size + y.size]
        BY DEF Join, Node
    <2>2. Whole(x.size + y.size)
        BY <1>9, WholeArithmetic
    <2> QED
        BY <2>1, <2>2 DEF Node, NodeSize
<1>10. m \in Node /\ Whole(m.size)
    <2>1. CASE next
        <3>1. m = Join(node, list[k])
            BY <1>7, <2>1 DEF Join
        <3>2. list[k] \in Node /\ Whole(list[k].size)
            BY <1>4, <2>1 DEF ListWhole
        <3> QED
            BY <1>9, <3>1, <3>2
    <2>2. CASE ~next
        <3>1. m = node
            BY <1>7, <2>2 DEF Node
        <3> QED
            BY <3>1
    <2> QED
        BY <2>1, <2>2
<1>11. CASE previous
    <2>1. PICK both : both = Join(list[k - 1], m)
        OBVIOUS
    <2>2. k - 1 \in DOMAIN list
        BY <1>1, <1>4, <1>11
    <2>3. both \in Node /\ Whole(both.size)
        <3>1. list[k - 1] \in Node /\ Whole(list[k - 1].size)
            BY <2>2 DEF ListWhole
        <3> QED
            BY <1>9, <1>10, <2>1, <3>1
    <2>4. PICK a : a = k - 2
        OBVIOUS
    <2>5. a \in 0 .. Len(list) /\ c \in a + 1 .. Len(list) + 1
        BY <1>1, <1>4, <1>6, <1>11, <2>4
    <2>6. ListWhole(Splice(list, a, <<both>>, c))
        BY <2>3, <2>5, SingleWhole, SpliceWhole
    <2> QED
        BY <1>8, <1>11, <2>1, <2>4, <2>6 DEF Splice
<1>12. CASE ~previous /\ above = {}
    BY <1>8, <1>12
<1>13. CASE ~previous /\ above # {}
    <2>1. PICK a : a = k - 1
        OBVIOUS
    <2>2. a \in 0 .. Len(list) /\ c \in a + 1 .. Len(list) + 1
        BY <1>1, <1>4, <1>6, <2>1
    <2>3. ListWhole(Splice(list, a, <<m>>, c))
        BY <1>10, <2>2, SingleWhole, SpliceWhole
    <2> QED
        BY <1>8, <1>13, <2>1, <2>3 DEF Splice
<1> QED
    BY <1>11, <1>12, <1>13

\* With such sizes a request is a whole number of Nodes, unpadded, and a new buffer
\* is one chunk.
LEMMA FitSizes ==
    ASSUME SizesFit, Inv, AllWhole, NEW s \in Stack, policy[s].kind \in FreeList,
           NEW n \in Request[s]
    PROVE  /\ Whole(Asked(s, n))
           /\ Aligned(Asked(s, n), Alignment) = Asked(s, n)
           /\ Whole(ChunkSize(policy[s], Asked(s, n)) - NodeSize)
           /\ Asked(s, n) <= ChunkSize(policy[s], Asked(s, n)) - NodeSize
<1>1. PICK size : size = Asked(s, n)
    OBVIOUS
<1>2. n \in Nat /\ size = n + StackIdSize + HeaderSize /\ Whole(size) /\ size % Alignment = 0
      /\ size + NodeSize <= MinChunk /\ Whole(MinChunk)
    <2>1. s \in {t \in Stack : Kind[t] \cap FreeList # {}}
        BY DEF AllWhole, FreeList
    <2>2. n \in Nat
        BY Typing
    <2>3. /\ n + StackIdSize >= NodeSize /\ Whole(n + StackIdSize + HeaderSize)
          /\ (n + StackIdSize + HeaderSize) % Alignment = 0
          /\ n + StackIdSize + HeaderSize + NodeSize <= MinChunk /\ Whole(MinChunk)
        BY <2>1 DEF SizesFit
    <2>4. ~ (n + StackIdSize < NodeSize)
        BY <2>2, <2>3 DEF StackIdSize, NodeSize
    <2>5. size = n + StackIdSize + HeaderSize
        BY <1>1, <2>4 DEF Asked, BlockSize
    <2> QED
        BY <2>2, <2>3, <2>5
<1>3. size \in Nat /\ size > 0
    BY <1>2 DEF StackIdSize, HeaderSize
<1>4. Aligned(size, Alignment) = size
    <2>1. (Alignment - 0) % Alignment = 0
        BY Typing
    <2> QED
        BY <1>2, <1>3, <2>1 DEF Aligned, Padding
<1>5. PICK chunk : chunk = MinChunk * policy[s].scale
    OBVIOUS
<1>6. policy[s].scale \in Nat \ {0}
    BY DEF Inv, TypesInv, Policy
<1>7. chunk \in Nat /\ chunk >= MinChunk
    BY <1>5, <1>6, Typing
<1>8. ChunkSize(policy[s], size) = chunk
    <2>1. size < chunk
        BY <1>2, <1>3, <1>7, Typing DEF NodeSize
    <2>2. size % chunk = size /\ (chunk - size) % chunk = chunk - size
        BY <1>3, <1>7, <2>1
    <2>3. Aligned(size, chunk) = size + (chunk - size)
        BY <2>2 DEF Aligned, Padding
    <2> QED
        BY <1>3, <1>5, <1>7, <2>3 DEF ChunkSize
<1>9. Whole(chunk)
    <2>1. PICK k \in Nat : MinChunk = k * NodeSize
        BY <1>2 DEF Whole
    <2>2. PICK scale : scale = policy[s].scale
        OBVIOUS
    <2>3. (k * 16) * scale = (k * scale) * 16 /\ k * scale \in Nat
        BY <1>6, <2>2
    <2>4. chunk = (k * scale) * NodeSize
        BY <1>5, <2>1, <2>2, <2>3 DEF NodeSize
    <2> QED
        BY <2>3, <2>4 DEF Whole
<1>10. Whole(chunk - NodeSize)
    <2>1. Whole(NodeSize)
        <3> 1 \in Nat /\ NodeSize = 1 * NodeSize
            BY DEF NodeSize
        <3> QED
            BY DEF Whole
    <2>2. NodeSize <= chunk
        BY <1>7, StackAssumption DEF NodeSize
    <2> QED
        BY <1>9, <2>1, <2>2, WholeArithmetic
<1>11. size <= chunk - NodeSize
    BY <1>2, <1>3, <1>7, Typing DEF NodeSize
<1> QED
    BY <1>1, <1>2, <1>4, <1>8, <1>10, <1>11

LEMMA WholeSplits ==
    ASSUME SizesFit, Inv, AllWhole
    PROVE  SplitsLeaveNodes
<1> SUFFICES ASSUME NEW s \in Stack, policy[s].kind \in FreeList, NEW n \in Request[s],
                    NEW size, size = Asked(s, n),
                    NEW padded, padded = Aligned(size, Alignment)
             PROVE  /\ Fits(policy[s].list, padded) # {} =>
                          LeavesNode(policy[s].list[FindNode(policy[s].kind, policy[s].list, padded)].size,
                                     padded)
                    /\ LeavesNode(ChunkSize(policy[s], size) - NodeSize, size)
    BY DEF SplitsLeaveNodes
<1>1. /\ Whole(size) /\ padded = size /\ Whole(ChunkSize(policy[s], size) - NodeSize)
      /\ size <= ChunkSize(policy[s], size) - NodeSize
    BY FitSizes
<1>2. LeavesNode(ChunkSize(policy[s], size) - NodeSize, size)
    BY <1>1, WholeArithmetic
<1>3. ASSUME Fits(policy[s].list, padded) # {}
      PROVE  LeavesNode(policy[s].list[FindNode(policy[s].kind, policy[s].list, padded)].size, padded)
    <2>1. PICK i : i = FindNode(policy[s].kind, policy[s].list, padded)
        OBVIOUS
    <2>2. policy[s].list \in Seq(Node)
        BY DEF Inv, TypesInv, Policy
    <2>3. i \in Fits(policy[s].list, padded)
        BY <1>3, <2>1, <2>2, FindNodeFits
    <2>4. i \in DOMAIN policy[s].list /\ padded <= policy[s].list[i].size
        BY <1>1, <2>3, NodeHome, WholeArithmetic DEF Fits
    <2>5. Whole(policy[s].list[i].size)
        BY <2>4 DEF AllWhole, ListWhole
    <2> QED
        BY <1>1, <2>1, <2>4, <2>5, WholeArithmetic
<1> QED
    BY <1>2, <1>3

\* A whole block is handed out, and what is left is whole.
LEMMA HandOutWhole ==
    ASSUME Inv, AllWhole, NEW s \in Stack, NEW taken, HandOut(s, taken),
           taken.policy.kind = policy[s].kind, ListWhole(taken.policy.list),
           policy[s].kind \in FreeList => Whole(taken.size)
    PROVE  AllWhole'
<1>1. policy \in [Stack -> Policy] /\ live \subseteq Block
    BY DEF Inv, TypesInv
<1>2. PICK b : b = [stack |-> s, addr |-> taken.addr, size |-> taken.size]
    OBVIOUS
<1>3. /\ policy'[s] = taken.policy /\ \A t \in Stack \ {s} : policy'[t] = policy[t]
      /\ live' = live \cup {b} /\ b.stack = s /\ b.size = taken.size
    BY <1>1, <1>2 DEF HandOut
<1>4. \A t \in Stack : policy'[t].kind = policy[t].kind /\ ListWhole(policy'[t].list)
    BY <1>3 DEF AllWhole
<1>5. \A c \in live : c.stack \in Stack
    BY <1>1 DEF Block
<1> QED
    BY <1>3, <1>4, <1>5 DEF AllWhole

LEMMA StepWhole ==
    ASSUME SizesFit, Inv, AllWhole, [Next]_vars
    PROVE  AllWhole'
<1>1. /\ policy \in [Stack -> Policy] /\ live \subseteq Block
      /\ \A c \in live : c.stack \in Stack
      /\ \A s \in Stack : policy[s].list \in Seq(Node)
    BY DEF Inv, TypesInv, Block, Policy
<1>2. ASSUME NEW s \in Stack, NEW n \in Request[s], AllocateFromList(s, n) PROVE AllWhole'
    <2>1. PICK p, size : p = policy[s] /\ size = Asked(s, n)
        OBVIOUS
    <2>2. PICK i : i = FindNode(p.kind, p.list, size)
        OBVIOUS
    <2>3. PICK taken : taken = AllocateInList(p, size)
        OBVIOUS
    <2>4. p.kind \in FreeList /\ HandOut(s, taken)
        BY <1>2, <2>1, <2>3 DEF AllocateFromList
    <2>5. Whole(size) /\ Aligned(size, Alignment) = size
        BY <2>1, <2>4, FitSizes
    <2>6. i \in Fits(p.list, size)
        <3>1. Fits(p.list, size) # {}
            BY <1>2, <2>1, <2>5 DEF AllocateFromList
        <3> QED
            BY <1>1, <2>1, <2>2, <3>1, FindNodeFits
    <2>7. i \in DOMAIN p.list /\ size <= p.list[i].size /\ p.list[i].size < Word
        BY <2>1, <2>5, <2>6, NodeHome, WholeArithmetic DEF Fits
    <2>8. ListWhole(UpdateFreeNodeList(p.list, i, size))
        BY <1>1, <2>1, <2>5, <2>7, SplitWhole DEF AllWhole
    <2>9. p \in Policy
        BY <1>1, <2>1
    <2>10. /\ taken.size = size /\ taken.policy.kind = p.kind
           /\ taken.policy.list = UpdateFreeNodeList(p.list, i, size)
        BY <2>2, <2>3, <2>5, <2>9 DEF AllocateInList, Taken, Policy
    <2> QED
        BY <2>1, <2>4, <2>5, <2>8, <2>10, HandOutWhole
<1>3. ASSUME NEW s \in Stack, NEW n \in Request[s], AllocateFromExtra(s, n) PROVE AllWhole'
    <2>1. PICK p, size : p = policy[s] /\ size = Asked(s, n)
        OBVIOUS
    <2>2. PICK chunk : chunk = ChunkSize(p, size)
        OBVIOUS
    <2>3. PICK slot \in FreeSlots(chunk) : HandOut(s, AllocateInExtraBuffer(p, size, slot))
        BY <1>3, <2>1, <2>2 DEF AllocateFromExtra
    <2>4. PICK taken : taken = AllocateInExtraBuffer(p, size, slot)
        OBVIOUS
    <2>5. p.kind \in FreeList
        BY <1>3, <2>1 DEF AllocateFromExtra
    <2>6. Whole(size) /\ Whole(chunk - NodeSize) /\ size <= chunk - NodeSize
        BY <2>1, <2>2, <2>5, FitSizes
    <2>7. PICK node : node = [addr |-> AddressOf(slot), size |-> chunk - NodeSize]
        OBVIOUS
    <2>8. node \in Node /\ node.size = chunk - NodeSize /\ node.size < Word
        <3>1. slot \in Nat /\ chunk < SlotSize
            BY Typing DEF FreeSlots
        <3>2. AddressOf(slot) \in Nat
            BY <3>1, Typing DEF AddressOf
        <3>3. size >= NodeSize /\ size \in Nat
            BY <2>1, AskedSize
        <3>4. chunk - NodeSize \in Nat
            BY <2>6 DEF Whole, NodeSize
        <3>5. chunk \in Int
            <4>1. p \in Policy /\ MinChunk * p.scale \in Nat \ {0}
                BY <1>1, <2>1, Typing DEF Policy
            <4> QED
                BY <2>2, <3>3, <4>1, AlignedAtLeast DEF ChunkSize
        <3>6. chunk - NodeSize >= NodeSize
            BY <2>6, <3>3, <3>4 DEF NodeSize
        <3>7. chunk - NodeSize < Word
            BY <3>1, <3>5, Typing DEF NodeSize
        <3> QED
            BY <2>7, <3>2, <3>4, <3>6, <3>7 DEF Node
    <2>9. PICK list : list = <<node>> \o p.list
        OBVIOUS
    <2>10. p.list \in Seq(Node) /\ ListWhole(p.list)
        BY <1>1, <2>1 DEF AllWhole
    <2>11. list \in Seq(Node) /\ ListWhole(list) /\ 1 \in DOMAIN list /\ list[1] = node
        <3>1. <<node>> \in Seq(Node) /\ Len(<<node>>) = 1 /\ <<node>>[1] = node
            BY <2>8
        <3>2. /\ list \in Seq(Node) /\ Len(list) = 1 + Len(p.list)
              /\ \A j \in 1 .. 1 + Len(p.list) :
                    list[j] = IF j <= 1 THEN node ELSE p.list[j - 1]
            BY <2>9, <2>10, <3>1, ConcatProperties
        <3>3. ASSUME NEW j \in DOMAIN list PROVE Whole(list[j].size)
            <4>1. CASE j = 1
                <5>1. list[j] = node
                    BY <2>10, <3>2, <4>1
                <5> QED
                    BY <2>6, <2>8, <5>1
            <4>2. CASE j # 1
                <5>1. PICK k : k = j - 1
                    OBVIOUS
                <5>2. k \in DOMAIN p.list /\ list[j] = p.list[k]
                    BY <2>10, <3>2, <4>2, <5>1
                <5> QED
                    BY <2>10, <5>2 DEF ListWhole
            <4> QED
                BY <4>1, <4>2
        <3> QED
            BY <2>10, <3>2, <3>3 DEF ListWhole
    <2>12. ListWhole(UpdateFreeNodeList(list, 1, size))
        BY <2>6, <2>8, <2>11, SplitWhole
    <2>13. p \in Policy
        BY <1>1, <2>1
    <2>14. /\ taken.size = size /\ taken.policy.kind = p.kind
           /\ taken.policy.list = UpdateFreeNodeList(list, 1, size)
        BY <2>2, <2>4, <2>7, <2>9, <2>13 DEF AllocateInExtraBuffer, Taken, Policy
    <2> QED
        BY <2>1, <2>3, <2>4, <2>6, <2>12, <2>14, HandOutWhole
<1>4. ASSUME NEW s \in Stack, NEW n \in Request[s], AllocateFromLinear(s, n) PROVE AllWhole'
    <2>1. CASE UNCHANGED <<policy, inUse, live>>
        BY <2>1 DEF AllWhole
    <2>2. CASE HandOut(s, AllocateLinear(policy[s], Asked(s, n)))
        <3>1. PICK taken : taken = AllocateLinear(policy[s], Asked(s, n))
            OBVIOUS
        <3>2. policy[s].kind = "LINEAR_STATIC" /\ policy[s] \in Policy
            BY <1>1, <1>4 DEF AllocateFromLinear
        <3>3. taken.policy.kind = policy[s].kind /\ taken.policy.list = policy[s].list
            BY <3>1, <3>2 DEF AllocateLinear, Taken, Policy
        <3> QED
            BY <2>2, <3>1, <3>2, <3>3, HandOutWhole DEF AllWhole, FreeList
    <2> QED
        BY <1>4, <2>1, <2>2 DEF AllocateFromLinear
<1>5. ASSUME NEW s \in Stack, NEW n \in Request[s], AllocateFromMalloc(s, n) PROVE AllWhole'
    <2>1. PICK slot : HandOut(s, AllocateGeneric(policy[s], Asked(s, n), slot))
        BY <1>5 DEF AllocateFromMalloc
    <2>2. PICK taken : taken = AllocateGeneric(policy[s], Asked(s, n), slot)
        OBVIOUS
    <2>3. policy[s].kind = "GENERIC" /\ policy[s] \in Policy
        BY <1>1, <1>5 DEF AllocateFromMalloc
    <2>4. taken.policy.kind = policy[s].kind /\ taken.policy.list = policy[s].list
        BY <2>2, <2>3 DEF AllocateGeneric, Taken, Policy
    <2> QED
        BY <2>1, <2>2, <2>3, <2>4, HandOutWhole DEF AllWhole, FreeList
<1>6. ASSUME NEW b \in live, Deallocate(b) PROVE AllWhole'
    <2>1. PICK s, p, q : s = b.stack /\ p = policy[s] /\ q = Deallocated(p, b)
        OBVIOUS
    <2>2. s \in Stack /\ p \in Policy
        BY <1>1, <2>1
    <2>3. live' = live \ {b} /\ policy' = [policy EXCEPT ![s] = q]
        BY <1>6, <2>1, <2>2, FreeAccepted DEF Deallocate, StackOf
    <2>4. policy'[s] = q /\ \A t \in Stack \ {s} : policy'[t] = policy[t]
        BY <1>1, <2>2, <2>3
    <2>5. q.kind = p.kind
        <3>1. CASE p.kind \in FreeList
            BY <2>1, <2>2, <3>1 DEF Deallocated, FreeList, Policy
        <3>2. CASE p.kind = "GENERIC"
            BY <2>1, <2>2, <3>2 DEF Deallocated, FreeList, Policy
        <3>3. CASE p.kind = "LINEAR_STATIC"
            BY <2>1, <3>3 DEF Deallocated, FreeList
        <3> QED
            BY <2>2, <3>1, <3>2, <3>3 DEF Policy
    <2>6. ListWhole(q.list)
        <3>1. CASE p.kind \in FreeList
            <4>1. PICK node : node = [addr |-> b.addr, size |-> b.size]
                OBVIOUS
            <4>2. node \in Node /\ Whole(node.size)
                BY <1>1, <2>1, <3>1, <4>1 DEF Block, Node, AllWhole
            <4>3. q.list = GiveNodeBack(p.list, node)
                BY <2>1, <2>2, <3>1, <4>1 DEF Deallocated, FreeList, Policy
            <4>4. p.list \in Seq(Node) /\ ListWhole(p.list)
                BY <1>1, <2>1, <2>2 DEF AllWhole
            <4> QED
                BY <4>2, <4>3, <4>4, GiveBackWhole
        <3>2. CASE p.kind \notin FreeList
            <4>1. q.list = p.list
                BY <2>1, <2>2, <3>2 DEF Deallocated, FreeList, Policy
            <4> QED
                BY <2>1, <2>2, <4>1 DEF AllWhole
        <3> QED
            BY <3>1, <3>2
    <2>7. \A t \in Stack : policy'[t].kind = policy[t].kind /\ ListWhole(policy'[t].list)
        BY <2>1, <2>4, <2>5, <2>6 DEF AllWhole
    <2> QED
        BY <1>1, <2>3, <2>7 DEF AllWhole
<1>7. ASSUME NEW s \in Stack, NEW kind \in Kind[s], SetPolicy(s, kind) PROVE AllWhole'
    <2>1. \A b \in live : b.stack # s
        BY <1>7, NothingLeft DEF SetPolicy
    <2>2. PICK slot : /\ policy' = [policy EXCEPT ![s] = NewPolicy(kind, slot)]
                      /\ slot \in IF kind = "GENERIC" THEN {0} ELSE FreeSlots(BufferSize(kind))
        BY <1>7 DEF SetPolicy
    <2>3. PICK q : q = NewPolicy(kind, slot)
        OBVIOUS
    <2>4. /\ policy'[s] = q /\ \A t \in Stack \ {s} : policy'[t] = policy[t]
          /\ live' = live /\ q.kind = kind
        BY <1>1, <1>7, <2>2, <2>3 DEF SetPolicy, NewPolicy
    <2>5. ListWhole(q.list)
        <3>1. CASE kind \in FreeList
            <4>1. PICK node : node = [addr |-> AddressOf(slot), size |-> BufferSize(kind)]
                OBVIOUS
            <4>2. q.list = <<node>> /\ node.size = BufferSize(kind)
                BY <2>3, <3>1, <4>1 DEF NewPolicy
            <4>3. Whole(BufferSize(kind))
                BY DEF SizesFit, BufferSize
            <4>4. DOMAIN q.list = {1} /\ q.list[1] = node
                BY <4>2
            <4> QED
                BY <4>2, <4>3, <4>4 DEF ListWhole
        <3>2. CASE kind \notin FreeList
            <4>1. q.list = << >>
                BY <2>3, <3>2 DEF NewPolicy
            <4> QED
                BY <4>1 DEF ListWhole
        <3> QED
            BY <3>1, <3>2
    <2>6. \A t \in Stack : /\ policy'[t].kind \in Kind[t] \cup {"GENERIC"}
                           /\ ListWhole(policy'[t].list)
        BY <2>4, <2>5 DEF AllWhole
    <2>7. \A c \in live : c.stack \in Stack \ {s}
        BY <1>1, <2>1
    <2> QED
        BY <2>4, <2>6, <2>7 DEF AllWhole
<1>8. CASE UNCHANGED vars
    BY <1>8 DEF vars, AllWhole
<1> QED
    BY <1>2, <1>3, <1>4, <1>5, <1>6, <1>7, <1>8 DEF Next, Allocate

LEMMA InitWhole == Init => AllWhole
<1> SUFFICES ASSUME Init PROVE AllWhole
    OBVIOUS
<1>1. \A s \in Stack : policy[s].kind = "GENERIC" /\ policy[s].list = << >>
    BY DEF Init, NewPolicy, FreeList
<1>2. ListWhole(<< >>)
    BY DEF ListWhole
<1> QED
    BY <1>1, <1>2 DEF Init, AllWhole

\* The sizes alone can rule the short remainders out: an application whose objects,
\* chunks and buffers are whole Nodes never splits a node badly.
THEOREM FittingSizes ==
    ASSUME SizesFit
    PROVE  Spec /\ []LinearInBounds => []SplitsLeaveNodes
<1>1. Init => Inv /\ AllWhole
    BY InitInv, InitWhole
<1>2. Inv /\ AllWhole => SplitsLeaveNodes
    BY WholeSplits
<1>3. Inv /\ AllWhole /\ LinearInBounds' /\ [Next]_vars => Inv' /\ AllWhole'
    <2>1. Inv /\ AllWhole /\ LinearInBounds' /\ [Next]_vars => Inv'
        BY <1>2, StepInv
    <2> QED
        BY <2>1, StepWhole
<1> QED
    BY <1>1, <1>2, <1>3, PTL DEF Spec

-----------------------------------------------------------------------------
(* Linear policies that are large enough                                   *)

\* No request for a linear policy takes more bytes than this, and its buffer holds as
\* many times that as there are calls.
LinearFits(most) ==
    /\ most \in Nat /\ MaxCalls * most <= StaticSize
    /\ \A s \in {t \in Stack : "LINEAR_STATIC" \in Kind[t]} : \A n \in Request[s] :
          Aligned(n + StackIdSize + HeaderSize, Alignment) <= most

\* Room is left in every linear policy for the calls to come.
LinearRoom(most) ==
    /\ calls \in 0 .. MaxCalls
    /\ \A s \in Stack :
          LET p == policy[s]
          IN  /\ p.kind \in Kind[s] \cup {"GENERIC"}
              /\ p.kind = "LINEAR_STATIC" =>
                    /\ p.buffer.size = StaticSize
                    /\ p.usage \in Nat /\ p.usage <= calls * most

LEMMA RoomBounds ==
    ASSUME NEW most, LinearFits(most), LinearRoom(most)
    PROVE  LinearInBounds
<1>1. most \in Nat /\ calls \in Nat /\ calls <= MaxCalls /\ MaxCalls \in Nat /\ StaticSize \in Nat
    BY StackAssumption DEF LinearFits, LinearRoom
<1>2. calls * most <= MaxCalls * most
    <2>1. PICK rest \in Nat : MaxCalls = calls + rest
        <3>1. MaxCalls - calls \in Nat /\ MaxCalls = calls + (MaxCalls - calls)
            BY <1>1
        <3> QED
            BY <3>1
    <2>2. MaxCalls * most = calls * most + rest * most
        BY <1>1, <2>1
    <2>3. rest * most \in Nat /\ calls * most \in Nat
        BY <1>1
    <2> QED
        BY <2>2, <2>3
<1>3. calls * most <= StaticSize
    <2>1. calls * most \in Nat /\ MaxCalls * most \in Nat
        BY <1>1
    <2> QED
        BY <1>1, <1>2, <2>1 DEF LinearFits
<1>4. ASSUME NEW s \in Stack, policy[s].kind = "LINEAR_STATIC"
      PROVE  policy[s].usage <= policy[s].buffer.size
    <2>1. calls * most \in Nat
        BY <1>1
    <2> QED
        BY <1>1, <1>3, <1>4, <2>1 DEF LinearRoom
<1> QED
    BY <1>4 DEF LinearInBounds

LEMMA HandOutRoom ==
    ASSUME NEW most, LinearFits(most), LinearRoom(most), Inv, calls < MaxCalls,
           NEW s \in Stack, NEW taken, HandOut(s, taken),
           taken.policy.kind = policy[s].kind,
           policy[s].kind = "LINEAR_STATIC" =>
              /\ taken.policy.buffer = policy[s].buffer
              /\ taken.policy.usage \in Nat /\ taken.policy.usage <= policy[s].usage + most
    PROVE  LinearRoom(most)'
<1>1. /\ policy'[s] = taken.policy /\ \A t \in Stack \ {s} : policy'[t] = policy[t]
      /\ calls' = calls + 1
    BY DEF HandOut, Inv, TypesInv
<1>2. most \in Nat /\ calls \in Nat /\ MaxCalls \in Nat
    BY StackAssumption DEF LinearFits, LinearRoom
<1>3. calls' \in 0 .. MaxCalls
    BY <1>1, <1>2
<1>4. calls * most \in Nat /\ calls' * most = calls * most + most
    BY <1>1, <1>2
<1>5. ASSUME NEW t \in Stack
      PROVE  /\ policy'[t].kind \in Kind[t] \cup {"GENERIC"}
             /\ policy'[t].kind = "LINEAR_STATIC" =>
                   /\ policy'[t].buffer.size = StaticSize
                   /\ policy'[t].usage \in Nat /\ policy'[t].usage <= calls' * most
    <2>1. CASE t = s
        <3>1. policy'[s].kind = policy[s].kind
            BY <1>1
        <3>2. ASSUME policy[s].kind = "LINEAR_STATIC"
              PROVE  /\ policy'[s].buffer.size = StaticSize
                     /\ policy'[s].usage \in Nat /\ policy'[s].usage <= calls' * most
            <4>1. policy[s].usage \in Nat /\ policy[s].usage <= calls * most
                BY <3>2 DEF LinearRoom
            <4>2. policy'[s].usage \in Nat /\ policy'[s].usage <= policy[s].usage + most
                BY <1>1, <3>2
            <4>3. policy'[s].buffer.size = StaticSize
                BY <1>1, <3>2 DEF LinearRoom
            <4> QED
                BY <1>2, <1>4, <4>1, <4>2, <4>3
        <3> QED
            BY <2>1, <3>1, <3>2 DEF LinearRoom
    <2>2. CASE t # s
        <3>1. policy'[t] = policy[t]
            BY <1>1, <2>2
        <3>2. policy[t].kind = "LINEAR_STATIC" =>
                 /\ policy[t].buffer.size = StaticSize
                 /\ policy[t].usage \in Nat /\ policy[t].usage <= calls * most
            BY DEF LinearRoom
        <3> QED
            BY <1>2, <1>4, <3>1, <3>2 DEF LinearRoom
    <2> QED
        BY <2>1, <2>2
<1> QED
    BY <1>3, <1>5 DEF LinearRoom

LEMMA StepRoom ==
    ASSUME NEW most, LinearFits(most), LinearRoom(most), Inv, [Next]_vars
    PROVE  LinearRoom(most)'
<1>1. policy \in [Stack -> Policy] /\ most \in Nat /\ calls \in Nat /\ MaxCalls \in Nat
    BY StackAssumption DEF Inv, TypesInv, LinearFits, LinearRoom
<1>2. ASSUME NEW s \in Stack, NEW n \in Request[s], AllocateFromList(s, n)
      PROVE  LinearRoom(most)'
    <2>1. PICK taken : taken = AllocateInList(policy[s], Asked(s, n))
        OBVIOUS
    <2>2. policy[s].kind \in FreeList /\ policy[s] \in Policy /\ calls < MaxCalls
        BY <1>1, <1>2 DEF AllocateFromList
    <2>3. taken.policy.kind = policy[s].kind
        BY <2>1, <2>2 DEF AllocateInList, Taken, Policy
    <2> QED
        BY <1>2, <2>1, <2>2, <2>3, HandOutRoom DEF AllocateFromList, FreeList
<1>3. ASSUME NEW s \in Stack, NEW n \in Request[s], AllocateFromExtra(s, n)
      PROVE  LinearRoom(most)'
    <2>1. PICK slot : HandOut(s, AllocateInExtraBuffer(policy[s], Asked(s, n), slot))
        BY <1>3 DEF AllocateFromExtra
    <2>2. PICK taken : taken = AllocateInExtraBuffer(policy[s], Asked(s, n), slot)
        OBVIOUS
    <2>3. policy[s].kind \in FreeList /\ policy[s] \in Policy /\ calls < MaxCalls
        BY <1>1, <1>3 DEF AllocateFromExtra
    <2>4. taken.policy.kind = policy[s].kind
        BY <2>2, <2>3 DEF AllocateInExtraBuffer, Taken, Policy
    <2> QED
        BY <2>1, <2>2, <2>3, <2>4, HandOutRoom DEF FreeList
<1>4. ASSUME NEW s \in Stack, NEW n \in Request[s], AllocateFromLinear(s, n)
      PROVE  LinearRoom(most)'
    <2>1. PICK p, size : p = policy[s] /\ size = Aligned(Asked(s, n), Alignment)
        OBVIOUS
    <2>2. /\ p \in Policy /\ p.kind = "LINEAR_STATIC" /\ p.usage \in Nat /\ size \in Nat
          /\ calls < MaxCalls
        BY <1>1, <1>4, <2>1, AskedSize DEF AllocateFromLinear, Policy
    <2>3. "LINEAR_STATIC" \in Kind[s]
        BY <2>1, <2>2 DEF LinearRoom
    <2>4. size <= most
        <3>1. Asked(s, n) = n + StackIdSize + HeaderSize
            BY <2>1, <2>2 DEF Asked, BlockSize, FreeList
        <3> QED
            BY <2>1, <2>3, <3>1 DEF LinearFits
    <2>5. CASE HandOut(s, AllocateLinear(p, Asked(s, n)))
        <3>1. PICK taken : taken = AllocateLinear(p, Asked(s, n))
            OBVIOUS
        <3>2. /\ taken.policy.kind = p.kind /\ taken.policy.buffer = p.buffer
              /\ taken.policy.usage = p.usage + size
            BY <2>1, <2>2, <3>1 DEF AllocateLinear, Taken, Policy
        <3>3. taken.policy.usage \in Nat /\ taken.policy.usage <= p.usage + most
            BY <1>1, <2>2, <2>4, <3>2
        <3> QED
            BY <2>1, <2>2, <2>5, <3>1, <3>2, <3>3, HandOutRoom
    <2>6. CASE calls' = calls + 1 /\ UNCHANGED policy
        <3>1. calls' \in 0 .. MaxCalls
            BY <1>1, <2>2, <2>6
        <3>2. calls * most \in Nat /\ calls' * most = calls * most + most
            BY <1>1, <2>6
        <3>3. \A t \in Stack : policy[t].kind = "LINEAR_STATIC" => policy[t].usage <= calls' * most
            <4> SUFFICES ASSUME NEW t \in Stack, policy[t].kind = "LINEAR_STATIC"
                         PROVE  policy[t].usage <= calls' * most
                OBVIOUS
            <4>1. policy[t].usage \in Nat /\ policy[t].usage <= calls * most
                BY DEF LinearRoom
            <4> QED
                BY <1>1, <3>2, <4>1
        <3> QED
            BY <2>6, <3>1, <3>3 DEF LinearRoom
    <2> QED
        BY <1>4, <2>1, <2>5, <2>6 DEF AllocateFromLinear
<1>5. ASSUME NEW s \in Stack, NEW n \in Request[s], AllocateFromMalloc(s, n)
      PROVE  LinearRoom(most)'
    <2>1. PICK slot : HandOut(s, AllocateGeneric(policy[s], Asked(s, n), slot))
        BY <1>5 DEF AllocateFromMalloc
    <2>2. PICK taken : taken = AllocateGeneric(policy[s], Asked(s, n), slot)
        OBVIOUS
    <2>3. policy[s].kind = "GENERIC" /\ policy[s] \in Policy /\ calls < MaxCalls
        BY <1>1, <1>5 DEF AllocateFromMalloc
    <2>4. taken.policy.kind = policy[s].kind
        BY <2>2, <2>3 DEF AllocateGeneric, Taken, Policy
    <2> QED
        BY <2>1, <2>2, <2>3, <2>4, HandOutRoom
<1>6. ASSUME NEW b \in live, Deallocate(b) PROVE LinearRoom(most)'
    <2>1. PICK s, p, q : s = b.stack /\ p = policy[s] /\ q = Deallocated(p, b)
        OBVIOUS
    <2>2. /\ q.kind = p.kind /\ q.buffer = p.buffer
          /\ p.kind = "LINEAR_STATIC" => q.usage = p.usage
        <3>1. p = policy[b.stack] /\ q = Deallocated(p, b)
            BY <2>1
        <3>2. /\ q \in Policy /\ q.kind = p.kind /\ q.buffer = p.buffer
              /\ BuffersOf(q) = BuffersOf(p) /\ PolicyShape(q)
              /\ q.usage = IF p.kind = "LINEAR_STATIC" THEN p.usage ELSE p.usage - b.size
              /\ ListSound(q.list, BuffersOf(p), live \ {b})
            BY <1>6, <3>1, PolicyAfterFree
        <3> QED
            BY <3>2
    <2>3. s \in Stack /\ policy' = [policy EXCEPT ![s] = q] /\ calls' = calls
        BY <1>6, <2>1, FreeAccepted DEF Deallocate, StackOf, Inv, TypesInv, Block
    <2>4. policy'[s] = q /\ \A t \in Stack \ {s} : policy'[t] = policy[t]
        BY <1>1, <2>3
    <2> QED
        BY <2>1, <2>2, <2>3, <2>4 DEF LinearRoom
<1>7. ASSUME NEW s \in Stack, NEW kind \in Kind[s], SetPolicy(s, kind) PROVE LinearRoom(most)'
    <2>1. PICK slot : policy' = [policy EXCEPT ![s] = NewPolicy(kind, slot)]
        BY <1>7 DEF SetPolicy
    <2>2. /\ policy'[s] = NewPolicy(kind, slot) /\ \A t \in Stack \ {s} : policy'[t] = policy[t]
          /\ calls' = calls
        BY <1>1, <1>7, <2>1 DEF SetPolicy
    <2>3. policy'[s].kind = kind /\ policy'[s].usage = 0
        BY <2>2 DEF NewPolicy
    <2>4. kind = "LINEAR_STATIC" => policy'[s].buffer.size = StaticSize
        BY <2>2 DEF NewPolicy, BufferSize, FreeList
    <2>5. 0 <= calls * most
        BY <1>1
    <2> QED
        BY <2>2, <2>3, <2>4, <2>5 DEF LinearRoom
<1>8. CASE UNCHANGED vars
    BY <1>8 DEF vars, LinearRoom
<1> QED
    BY <1>2, <1>3, <1>4, <1>5, <1>6, <1>7, <1>8 DEF Next, Allocate

\* Sizes that fit make both hypotheses true: for such an application the policies
\* need none of the checks they do not make.
THEOREM FittingStacks ==
    ASSUME SizesFit, NEW most, LinearFits(most)
    PROVE  Spec => []LinearInBounds /\ []SplitsLeaveNodes
<1>1. Init => LinearRoom(most)
    <2> SUFFICES ASSUME Init PROVE LinearRoom(most)
        OBVIOUS
    <2>1. \A s \in Stack : policy[s].kind = "GENERIC"
        BY DEF Init, NewPolicy
    <2>2. calls = 0 /\ MaxCalls \in Nat
        BY StackAssumption DEF Init
    <2> QED
        BY <2>1, <2>2 DEF LinearRoom
<1>2. Init => Inv /\ AllWhole
    BY InitInv, InitWhole
<1>3. Inv /\ AllWhole => SplitsLeaveNodes
    BY WholeSplits
<1>4. LinearRoom(most) => LinearInBounds
    BY RoomBounds
<1>5. Inv /\ LinearRoom(most) /\ [Next]_vars => LinearRoom(most)'
    BY StepRoom
<1>6. Inv /\ AllWhole /\ SplitsLeaveNodes /\ LinearInBounds' /\ [Next]_vars => Inv' /\ AllWhole'
    BY StepInv, StepWhole
<1> QED
    BY <1>1, <1>2, <1>3, <1>4, <1>5, <1>6, PTL DEF Spec

\* For such an application, then, the stacks implement a heap and no block is
\* refused when it comes back.
THEOREM SizedStacksImplementHeap ==
    ASSUME SizesFit, NEW most, LinearFits(most)
    PROVE  Spec => ImplementsHeap /\ []FreeListSound /\ []FreesAccepted
<1>1. Spec => []LinearInBounds /\ []SplitsLeaveNodes
    BY FittingStacks
<1> QED
    BY <1>1, StacksImplementHeap, FreeMemoryIsFree, NoFreeRefused, PTL

=============================================================================
