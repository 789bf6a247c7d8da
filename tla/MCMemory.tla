------------------------------ MODULE MCMemory ------------------------------
(***************************************************************************)
(* A dynamic context of two rounds on three LRTs.  Task 0 writes a buffer  *)
(* that a configuration task and a fork read, and one that is read in the  *)
(* second round; the fork lends its buffer to a job of this round and to   *)
(* one of the next.                                                        *)
(***************************************************************************)
EXTENDS JITMSMemory

CONSTANTS
    graph, run, width               \* the context, its dynamic graph, its parameter

\* The FIFOs.
data == 10
kept == 11
branchA == 12
branchB == 13
unused == 14

MCTask == 0 .. 5
MCFifo == {data, kept, branchA, branchB, unused}
MCDeps == [t \in MCTask |-> CASE t = 0 -> {} [] t = 3 -> {2} [] t = 5 -> {0, 2}
                              [] OTHER -> {0}]
MCMappedLRT == [t \in MCTask |-> CASE t = 1 -> 0 [] t = 3 -> 2 [] OTHER -> 1]
MCContext == {graph}
MCContextOf == [t \in MCTask |-> graph]
MCRoundOf == [t \in MCTask |-> IF t < 4 THEN 1 ELSE 2]
MCRounds == [c \in MCContext |-> 2]
MCRunMode == [c \in MCContext |-> "EXTERN_LOOP"]
MCLoopCount == [c \in MCContext |-> 1]
MCParamsSetBy == [t \in {1} |-> {width}]
MCRunGraphOf == [p \in {width} |-> run]

MCSource == [f \in MCFifo |-> CASE f \in {data, kept} -> 0
                                [] f \in {branchA, branchB} -> 2 [] OTHER -> 3]
MCReaders == [f \in MCFifo |-> CASE f = data -> {1, 2} [] f = kept -> {4, 5}
                                 [] f = branchA -> {3} [] f = branchB -> {5}
                                 [] OTHER -> {}]
MCLateFifos == {kept, branchB}
MCAddressOf == [f \in MCFifo |-> IF f \in {branchA, branchB} THEN data ELSE f]

\* The same jobs, the last two of them on the other LRT.
ApartMappedLRT == [t \in MCTask |-> CASE t = 1 -> 0 [] t \in {0, 2} -> 1 [] OTHER -> 2]

\* The same jobs, but nobody reads one of the outputs of the fork.
UnusedReaders == [MCReaders EXCEPT ![branchA] = {}]
=============================================================================
