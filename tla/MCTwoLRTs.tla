----------------------------- MODULE MCTwoLRTs -----------------------------
(***************************************************************************)
(* Small instances on two LRTs, the GRT being the second: one dynamic      *)
(* context for the liveness properties, and three application sequences    *)
(* outside what the runtime supports.                                      *)
(***************************************************************************)
EXTENDS JITMSRuntime

CONSTANTS
    fixed, changing,    \* a static and a dynamic context
    run, width, height  \* the dynamic graph of the latter, its parameters

MCTask == 0 .. 3
MCDeps == [t \in MCTask |-> CASE t = 2 -> {0} [] t = 3 -> {1, 2} [] OTHER -> {}]
MCRoundOf == [t \in MCTask |-> IF t < 2 THEN 1 ELSE 2]
MCRounds == [c \in Context |-> IF c = changing THEN 2 ELSE 1]

\* One dynamic context; each LRT has a job in the first round.
MCContextOf == [t \in MCTask |-> changing]
MCMappedLRT == [t \in MCTask |-> IF t \in {0, 3} THEN 1 ELSE 0]

\* Each of the first tasks sets a parameter, or one of them sets both.
MCParamsSetBy == [t \in {0, 1} |-> IF t = 0 THEN {width} ELSE {height}]
OneParamsSetBy == [t \in {1} |-> {width}]
TwoParamsSetBy == [t \in {1} |-> {width, height}]
NoParamsSetBy == [t \in {} |-> {}]
MCRunGraphOf == [p \in Param |-> run]

\* The same graph, with LRT 0 idle in the first round.
IdleMappedLRT == [t \in MCTask |-> IF t = 2 THEN 0 ELSE 1]

\* Task 0 is a static graph of its own, the others are a dynamic one.
TwoContextOf == [t \in MCTask |-> IF t = 0 THEN fixed ELSE changing]
TwoDeps == [t \in MCTask |-> IF t = 3 THEN {1, 2} ELSE {}]
TwoRoundOf == [t \in MCTask |-> IF t < 2 THEN 1 ELSE 2]

\* Every task belongs to one static graph.
OneContextOf == [t \in MCTask |-> fixed]
OneRoundOf == [t \in MCTask |-> 1]

MCRunMode == [c \in Context |-> "LOOP"]
MCLoopCount == [c \in Context |-> 1]
=============================================================================
