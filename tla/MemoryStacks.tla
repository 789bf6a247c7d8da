----------------------------- MODULE MemoryStacks -----------------------------
(***************************************************************************)
(* The stacks that every object of the library is allocated on, and the    *)
(* policies behind them: GENERIC (one malloc per block), LINEAR_STATIC     *)
(* (one buffer, never reused) and FREELIST (a buffer cut into blocks, and  *)
(* extra buffers when it is full).                                         *)
(*                                                                         *)
(* Sizes and addresses are in bytes.  malloc returns the start of any free *)
(* slot of the address space, and never fails while there is one that is   *)
(* larger than what is asked.  A call holds the lock of its stack from     *)
(* beginning to end, so it is one step.                                    *)
(***************************************************************************)
EXTENDS Integers, Sequences, FiniteSetsExt

CONSTANTS
    Stack,          \* StackID
    Kind,           \* the policies that the application may give a stack
    Request,        \* the bytes that objects ask for, per stack
    StaticSize,     \* bytes of the buffer of a policy
    MinChunk,       \* FreeListAllocatorPolicy::MIN_CHUNK_SIZE
    Alignment,      \* of every policy
    Slot, SlotSize, \* the address space: the slots that malloc may return
    Word,           \* sizes are counted modulo this
    MaxCalls        \* bound on the calls to allocate

NodeSize == 16
HeaderSize == 8
StackIdSize == 8
FreeList == {"FREELIST_FIND_FIRST", "FREELIST_FIND_BEST"}
NoBuffer == [slot |-> 0, size |-> 0]

ASSUME StackAssumption ==
    /\ Kind \in [Stack -> SUBSET (FreeList \cup {"GENERIC", "LINEAR_STATIC"})]
    /\ Request \in [Stack -> SUBSET (Nat \ {0})]
    /\ Alignment \in Nat /\ Alignment >= 8 /\ StaticSize \in Nat
    /\ MinChunk \in Nat /\ MinChunk >= NodeSize
    /\ Slot \subseteq Nat \ {0} /\ SlotSize \in Nat \ {0} /\ MaxCalls \in Nat
    /\ Word \in Nat /\ SlotSize <= Word

VARIABLES
    policy,     \* of a stack: kind, buffers, free list, usage
    inUse,      \* Stack::usage_
    live,       \* the blocks handed out
    calls,      \* calls to allocate so far
    refused     \* the calls that threw: "not enough memory" or "bad memory free"

vars == <<policy, inUse, live, calls, refused>>

AddressOf(slot) == slot * SlotSize

Apart(b, c) == b.addr + b.size <= c.addr \/ c.addr + c.size <= b.addr

Inside(b, buffer) ==
    /\ AddressOf(buffer.slot) <= b.addr
    /\ b.addr + b.size <= AddressOf(buffer.slot) + buffer.size

Padding(size, alignment) == (alignment - (size % alignment)) % alignment

Aligned(size, alignment) == size + Padding(size, alignment)

-----------------------------------------------------------------------------
(* malloc                                                                  *)

\* The buffers of a policy, the first one and the extra ones.
BuffersOf(p) == {p.buffer} \cup {p.extra[i] : i \in DOMAIN p.extra}

UsedSlots ==
    {b.slot : b \in UNION {BuffersOf(policy[s]) : s \in Stack}}
        \cup {b.addr \div SlotSize : b \in {c \in live : policy[c.stack].kind = "GENERIC"}}

\* Where malloc may put a buffer: blocks of malloc are never adjacent.
FreeSlots(bytes) == {slot \in Slot \ UsedSlots : bytes < SlotSize}

-----------------------------------------------------------------------------
(* The free list, in the order of its links                                *)

Fits(list, size) == {i \in DOMAIN list : list[i].size >= size}

FindFirst(list, size) == Min(Fits(list, size))

\* The first of the smallest nodes that are large enough.
FindBest(list, size) ==
    CHOOSE i \in Fits(list, size) :
        \A j \in Fits(list, size) :
            \/ list[i].size < list[j].size
            \/ list[i].size = list[j].size /\ i <= j

FindNode(kind, list, size) ==
    IF kind = "FREELIST_FIND_FIRST" THEN FindFirst(list, size) ELSE FindBest(list, size)

\* Mutant: the node is kept whole when it is split.
UpdateFreeNodeList_Whole(list, i, size) ==
    IF list[i].size > size THEN list
    ELSE SubSeq(list, 1, i - 1) \o SubSeq(list, i + 1, Len(list))

\* Takes size bytes off node i: what is left of it stays in its place.
UpdateFreeNodeList(list, i, size) ==
    LET left == (list[i].size - size) % Word
    IN  SubSeq(list, 1, i - 1)
            \o (IF left > 0
                THEN <<[addr |-> list[i].addr + size, size |-> left]>> ELSE <<>>)
            \o SubSeq(list, i + 1, Len(list))

\* A freed node goes before the first node of a higher address, and is merged
\* with its neighbours.  A node above every other one is not linked: unless it
\* touches the last node, its memory is not used again.
GiveNodeBack(list, node) ==
    LET above == {i \in DOMAIN list : node.addr < list[i].addr}
        k == IF above = {} THEN Len(list) + 1 ELSE Min(above)
        touchesNext == above # {} /\ node.addr + node.size = list[k].addr
        touchesPrevious == k > 1 /\ list[k - 1].addr + list[k - 1].size = node.addr
        merged == [node EXCEPT !.size = @ + (IF touchesNext THEN list[k].size ELSE 0)]
        rest == SubSeq(list, IF touchesNext THEN k + 1 ELSE k, Len(list))
    IN  IF touchesPrevious
        THEN SubSeq(list, 1, k - 2)
                 \o <<[list[k - 1] EXCEPT !.size = @ + merged.size]>> \o rest
        ELSE IF above = {}
        THEN list
        ELSE SubSeq(list, 1, k - 1) \o <<merged>> \o rest

-----------------------------------------------------------------------------
(* The policies.  A request counts the stack identifier.            *)

\* Size of the block, before its padding.
BlockSize(p, request) ==
    IF p.kind \in FreeList /\ request < NodeSize
    THEN request + NodeSize + HeaderSize
    ELSE request + HeaderSize

\* What an allocation returns: the policy after it, and the block.
Taken(p, addr, size) == [policy |-> [p EXCEPT !.usage = @ + size],
                         addr |-> addr, size |-> size]

AllocateInList(p, size) ==
    LET padded == Aligned(size, Alignment)
        i == FindNode(p.kind, p.list, padded)
    IN  Taken([p EXCEPT !.list = UpdateFreeNodeList(@, i, padded)],
              p.list[i].addr, padded)

\* The chunk doubles with every extra buffer (allocScale_).
ChunkSize(p, size) == Aligned(size, MinChunk * p.scale)

\* The node of the new buffer comes first in the list, and is taken even if the
\* buffer holds what is asked with less than a Node to spare.
AllocateInExtraBuffer(p, size, slot) ==
    LET chunk == ChunkSize(p, size)
        node == [addr |-> AddressOf(slot), size |-> chunk - NodeSize]
    IN  Taken([p EXCEPT !.list = UpdateFreeNodeList(<<node>> \o @, 1, size),
                        !.extra = Append(@, [slot |-> slot, size |-> chunk]),
                        !.scale = @ * 2],
              node.addr, size)

\* Mutant: the usage does not count the header.
AllocateLinear_NoHeader(p, size) ==
    [policy |-> [p EXCEPT !.usage = @ + Aligned(size, Alignment) - HeaderSize],
     addr |-> AddressOf(p.buffer.slot) + p.usage, size |-> Aligned(size, Alignment)]


AllocateLinear(p, size) ==
    Taken(p, AddressOf(p.buffer.slot) + p.usage, Aligned(size, Alignment))

AllocateGeneric(p, size, slot) == Taken(p, AddressOf(slot), Aligned(size, Alignment))

\* The policy after a block is given back.  A linear policy frees nothing.
Deallocated(p, b) ==
    CASE p.kind \in FreeList ->
            [p EXCEPT !.usage = @ - b.size,
                      !.list = GiveNodeBack(@, [addr |-> b.addr, size |-> b.size])]
      [] p.kind = "GENERIC" -> [p EXCEPT !.usage = @ - b.size]
      [] OTHER -> p

BufferSize(kind) ==
    IF kind \in FreeList /\ StaticSize < MinChunk THEN MinChunk ELSE StaticSize

NewPolicy(kind, slot) ==
    LET size == BufferSize(kind)
        generic == kind = "GENERIC"
    IN  [kind |-> kind,
         buffer |-> IF generic THEN NoBuffer ELSE [slot |-> slot, size |-> size],
         extra |-> <<>>,
         scale |-> 1,
         list |-> IF kind \in FreeList
                  THEN <<[addr |-> AddressOf(slot), size |-> size]>> ELSE <<>>,
         usage |-> 0]

-----------------------------------------------------------------------------
(* The stacks                                                              *)

\* Stack::allocate and spider::allocate: the block carries its stack.
HandOut(s, taken) ==
    /\ policy' = [policy EXCEPT ![s] = taken.policy]
    /\ inUse' = [inUse EXCEPT ![s] = @ + taken.size]
    /\ live' = live \cup {[stack |-> s, addr |-> taken.addr, size |-> taken.size]}
    /\ calls' = calls + 1
    /\ UNCHANGED refused

\* The bytes a policy looks for, stack identifier included.
Asked(s, n) == BlockSize(policy[s], n + StackIdSize)

AllocateFromList(s, n) ==
    /\ calls < MaxCalls
    /\ policy[s].kind \in FreeList
    /\ Fits(policy[s].list, Aligned(Asked(s, n), Alignment)) # {}
    /\ HandOut(s, AllocateInList(policy[s], Asked(s, n)))

AllocateFromExtra(s, n) ==
    /\ calls < MaxCalls
    /\ policy[s].kind \in FreeList
    /\ Fits(policy[s].list, Aligned(Asked(s, n), Alignment)) = {}
    /\ \E slot \in FreeSlots(ChunkSize(policy[s], Asked(s, n))) :
          HandOut(s, AllocateInExtraBuffer(policy[s], Asked(s, n), slot))

\* The check is against the whole buffer, not against what is left of it.
AllocateFromLinear(s, n) ==
    /\ calls < MaxCalls
    /\ policy[s].kind = "LINEAR_STATIC"
    /\ IF Aligned(Asked(s, n), Alignment) > policy[s].buffer.size
       THEN /\ refused' = refused \cup {"not enough memory"}
            /\ calls' = calls + 1
            /\ UNCHANGED <<policy, inUse, live>>
       ELSE HandOut(s, AllocateLinear(policy[s], Asked(s, n)))

AllocateFromMalloc(s, n) ==
    /\ calls < MaxCalls
    /\ policy[s].kind = "GENERIC"
    /\ \E slot \in FreeSlots(Aligned(Asked(s, n), Alignment)) :
          HandOut(s, AllocateGeneric(policy[s], Asked(s, n), slot))

\* spider::deallocate finds the stack in the bytes before the buffer.
StackOf(b) == b.stack

\* validAddress, checkPointerAddress, and the check that something is in use.
BadFree(p, b) ==
    CASE p.kind \in FreeList ->
            p.usage = 0 \/ ~ \E buffer \in BuffersOf(p) :
                               Inside([addr |-> b.addr, size |-> 1], buffer)
      [] p.kind = "LINEAR_STATIC" ->
            ~ Inside([addr |-> b.addr + HeaderSize, size |-> 0], p.buffer)
      [] OTHER -> FALSE

Deallocate(b) ==
    LET s == StackOf(b)
    IN  /\ live' = live \ {b}
        /\ IF BadFree(policy[s], b)
           THEN /\ refused' = refused \cup {"bad memory free"}
                /\ UNCHANGED <<policy, inUse>>
           ELSE /\ policy' = [policy EXCEPT ![s] = Deallocated(@, b)]
                /\ inUse' = [inUse EXCEPT ![s] = @ - b.size]
                /\ UNCHANGED refused
        /\ UNCHANGED calls

\* Mutant: a policy is replaced while blocks of it are in use.
CanReplace_Always(p) == TRUE

\* A policy is replaced, and its buffers freed, only when nothing of it is in use.
CanReplace(p) == p.usage = 0

SetPolicy(s, kind) ==
    /\ CanReplace(policy[s])
    /\ \E slot \in IF kind = "GENERIC" THEN {0} ELSE FreeSlots(BufferSize(kind)) :
          policy' = [policy EXCEPT ![s] = NewPolicy(kind, slot)]
    /\ UNCHANGED <<inUse, live, calls, refused>>

-----------------------------------------------------------------------------
Init ==
    /\ policy = [s \in Stack |-> NewPolicy("GENERIC", 0)]
    /\ inUse = [s \in Stack |-> 0]
    /\ live = {}
    /\ calls = 0
    /\ refused = {}

Allocate(s, n) ==
    \/ AllocateFromList(s, n)
    \/ AllocateFromExtra(s, n)
    \/ AllocateFromLinear(s, n)
    \/ AllocateFromMalloc(s, n)

Next ==
    \/ \E s \in Stack : \E n \in Request[s] : Allocate(s, n)
    \/ \E b \in live : Deallocate(b)
    \/ \E s \in Stack : \E kind \in Kind[s] : SetPolicy(s, kind)

Spec == Init /\ [][Next]_vars

-----------------------------------------------------------------------------
(* Properties                                                              *)

\* Shape of the state.
TypeOK ==
    /\ \A s \in Stack :
          /\ policy[s].kind \in Kind[s] \cup {"GENERIC"}
          /\ policy[s].usage \in Nat
          /\ policy[s].kind \notin FreeList => policy[s].list = <<>> /\ policy[s].extra = <<>>
          /\ inUse[s] \in Nat
    /\ \A b \in live : b.stack \in Stack /\ b.size \in Nat \ {0}
    /\ calls \in 0 .. MaxCalls

\* The memory of the free list is free: every node is large enough to hold
\* its own links, lies in one buffer of its policy, and shares no byte with
\* another node or with a live block.  (insert, remove, the split of a node in
\* updateFreeNodeList and the merge of neighbours in deallocate.)
FreeListSound ==
    \A s \in Stack :
        LET p == policy[s]
        IN  \A i \in DOMAIN p.list :
               /\ p.list[i].size >= NodeSize
               /\ \E buffer \in BuffersOf(p) : Inside(p.list[i], buffer)
               /\ \A j \in DOMAIN p.list \ {i} :
                     Apart(p.list[i], p.list[j])
               /\ \A b \in live : Apart(p.list[i], b)


\* A block lies in a buffer that the policy of its stack still owns, until it
\* is given back: a policy that is replaced takes its buffers with it
\* (Stack::setPolicy, ~FreeListAllocatorPolicy), and a block outgrows no buffer.
BlocksOwned ==
    \A b \in live :
        LET p == policy[b.stack]
        IN  \/ p.kind = "GENERIC"
            \/ \E buffer \in BuffersOf(p) : Inside(b, buffer)

\* A block that was handed out is not refused when it comes back: what the policy
\* counts covers it, and its address is in a buffer (checkPointerAddress, "bad
\* memory free" in deallocate).
FreesAccepted == "bad memory free" \notin refused

\* Two live blocks share no byte, and a call hands out or takes back one block.
H == INSTANCE Heap WITH blocks <- live
ImplementsHeap == H!HeapSpec

\* What is asked takes all of a node, or leaves enough of it for its links.
LeavesNode(available, size) == available = size \/ available >= size + NodeSize

\* No call splits a node so that less than a Node is left: insert would write the
\* links over what follows (updateFreeNodeList, createExtraBuffer).  Nothing in
\* the code sees to it: it is up to the sizes that the application asks for.
SplitsLeaveNodes ==
    calls < MaxCalls =>
        \A s \in {t \in Stack : policy[t].kind \in FreeList} : \A n \in Request[s] :
            LET p == policy[s]
                size == Asked(s, n)
                padded == Aligned(size, Alignment)
            IN  IF Fits(p.list, padded) # {}
                THEN LeavesNode(p.list[FindNode(p.kind, p.list, padded)].size, padded)
                ELSE LeavesNode(ChunkSize(p, size) - NodeSize, size)

\* A linear policy refuses what is more than it has left.
\* (test/allocator-test/allocatorTest.cpp: "should throw if size > available")
LinearInBounds ==
    \A s \in Stack :
        policy[s].kind = "LINEAR_STATIC" => policy[s].usage <= policy[s].buffer.size
===============================================================================
