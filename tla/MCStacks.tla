------------------------------- MODULE MCStacks -------------------------------
(***************************************************************************)
(* Two stacks.  The requests of GENERAL never leave a remainder shorter    *)
(* than a Node within MaxCalls calls; 96 bytes take all of the first extra *)
(* buffer, and 272 are more than the buffer of SCHEDULE.                   *)
(***************************************************************************)
EXTENDS MemoryStacks

MCKind == [s \in Stack |-> IF s = "GENERAL"
                           THEN {"FREELIST_FIND_FIRST", "FREELIST_FIND_BEST"}
                           ELSE {"LINEAR_STATIC", "GENERIC"}]
MCRequest == [s \in Stack |-> IF s = "GENERAL" THEN {1, 32, 96} ELSE {16, 272}]

\* Sizes that fit: with them no call can leave less than a Node.
WholeNodes == [s \in Stack |-> IF s = "GENERAL" THEN {16, 48, 80} ELSE {16}]

\* A block that takes all but 8 bytes of the chunk of an extra buffer.
AllButWord == [s \in Stack |-> IF s = "GENERAL" THEN {104} ELSE {16}]

\* With an alignment of 8, a block of 120 bytes and one of 64 leave 8 of a buffer.
OddWords == [s \in Stack |-> IF s = "GENERAL" THEN {104, 48} ELSE {16}]
===============================================================================
