------------------------------ MODULE MCHandlers ------------------------------
(***************************************************************************)
(* top has two parameters and the graph run; in run, filter has rates of   *)
(* an inherited parameter, and nested, repeated, has a parameter and a     *)
(* graph run of its own with a subgraph in it.                             *)
(***************************************************************************)
EXTENDS GraphHandlers

MCUpper == [g \in Graph \ {Root} |->
    CASE g = "run" -> "top" [] g \in {"filter", "nested"} -> "run"
      [] g = "nestedRun" -> "nested" [] OTHER -> "nestedRun"]
MCConfig == [g \in Graph |-> CASE g = "top" -> 2 [] g = "nested" -> 1 [] OTHER -> 0]
MCDependsOn == [g \in Graph |->
    CASE g = "run" -> <<"top", 1>> [] g = "filter" -> <<"top", 2>>
      [] g = "nestedRun" -> <<"nested", 1>> [] OTHER -> <<>>]
MCRepetition == [g \in Graph |-> IF g \in {"nested", "leaf"} THEN 0 ELSE 1]
===============================================================================
