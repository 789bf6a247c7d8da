------------------------------ MODULE MCStatic ------------------------------
(***************************************************************************)
(* A static context on three LRTs: two chains that cross, so that a task   *)
(* waits for two other LRTs and one LRT's stamps arrive while another is   *)
(* still reading the start of the iteration.                               *)
(***************************************************************************)
EXTENDS JITMSRuntime

CONSTANT graph      \* the only context

MCTask == 0 .. 5
MCDeps == [t \in MCTask |-> CASE t \in {0, 1} -> {} [] t \in {2, 3} -> {0, 1}
                              [] t = 4 -> {1, 2, 3} [] OTHER -> {0, 2, 3}]
MCMappedLRT == [t \in MCTask |-> CASE t \in {0, 3} -> 0 [] t \in {1, 4} -> 1
                                   [] OTHER -> 2]
MCContext == {graph}
MCContextOf == [t \in MCTask |-> graph]
MCRoundOf == [t \in MCTask |-> 1]
MCRounds == [c \in MCContext |-> 1]
MCParamsSetBy == [t \in {} |-> {}]
MCRunMode == [c \in MCContext |-> "LOOP"]
MCLoopCount == [c \in MCContext |-> 3]
=============================================================================
