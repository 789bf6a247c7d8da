------------------------------ MODULE MCDynamic -----------------------------
(***************************************************************************)
(* A dynamic context on three LRTs, run by SRDAGJITMSRuntime: a first      *)
(* round with a configuration task, which sets two parameters of its       *)
(* graph, and a job on every LRT; a second round, of the graph so          *)
(* configured, that leaves LRTs idle; and a third one, of a static         *)
(* subgraph of that graph, whose job waits for jobs of both others.        *)
(***************************************************************************)
EXTENDS JITMSRuntime

CONSTANTS graph, run, width, height  \* the context, its dynamic graph, its parameters

MCTask == 0 .. 4
MCDeps == [t \in MCTask |-> CASE t = 2 -> {0} [] t = 3 -> {1, 2}
                              [] t = 4 -> {0, 3} [] OTHER -> {}]
MCMappedLRT == [t \in MCTask |-> CASE t \in {0, 4} -> 0 [] t \in {1, 3} -> 1
                                   [] OTHER -> 2]
MCContext == {graph}
MCContextOf == [t \in MCTask |-> graph]
MCRoundOf == [t \in MCTask |-> CASE t < 3 -> 1 [] t = 3 -> 2 [] OTHER -> 3]
MCRounds == [c \in MCContext |-> 3]
MCParamsSetBy == [t \in {0} |-> {width, height}]
MCRunGraphOf == [p \in {width, height} |-> run]
MCRunMode == [c \in MCContext |-> "EXTERN_LOOP"]
MCLoopCount == [c \in MCContext |-> 1]
=============================================================================
