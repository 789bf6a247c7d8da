--------------------------------- MODULE Heap ---------------------------------
(***************************************************************************)
(* What spider::allocate and spider::deallocate promise, whatever policy   *)
(* is behind a stack: a block that was handed out belongs to its owner     *)
(* until it is given back, so no two live blocks share a byte.             *)
(***************************************************************************)
EXTENDS Naturals

CONSTANT Stack

VARIABLE blocks     \* the live blocks: the stack, the first byte and the bytes of each

Apart(b, c) == b.addr + b.size <= c.addr \/ c.addr + c.size <= b.addr

HeapInit == blocks = {}

Obtain ==
    \E b \in blocks' :
        /\ blocks' = blocks \cup {b}
        /\ b \notin blocks
        /\ b.stack \in Stack
        /\ b.size > 0
        /\ \A c \in blocks : Apart(b, c)

GiveBack == \E b \in blocks : blocks' = blocks \ {b}

HeapNext == Obtain \/ GiveBack

HeapSpec == HeapInit /\ [][HeapNext]_blocks
===============================================================================
