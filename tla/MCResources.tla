---------------------------- MODULE MCResources ----------------------------
(***************************************************************************)
(* Two vectorised vertices, a join and a second round.  Tasks 0 and 1 are  *)
(* the firings of vertex "a", 2 and 3 those of "b"; the mappers choose     *)
(* among three of four PEs.  Tasks 0 and 1 send parameters.                 *)
(***************************************************************************)
EXTENDS Delivery

CONSTANT graph

MCTask == 0 .. 5
MCDeps == [t \in MCTask |-> CASE t \in {0, 1} -> {} [] t = 2 -> {0} [] t = 3 -> {0, 1}
                              [] t = 4 -> {1, 2, 3} [] OTHER -> {0, 3, 4}]
MCVertexOf == [t \in MCTask |-> CASE t \in {0, 1} -> "a" [] t \in {2, 3} -> "b"
                                  [] t = 4 -> "c" [] OTHER -> "d"]
\* Vertex "b" keeps a state: its second firing depends on its first.
MCStatefulDeps == [MCDeps EXCEPT ![3] = @ \cup {2}]
MCVertex == {"a", "b", "c", "d"}
MCRoundOf == [t \in MCTask |-> IF t < 4 THEN 1 ELSE 2]
On(pes, timing) == [mappable |-> pes, timing |-> [l \in LRT |-> timing[l + 1]]]
\* Everywhere with the GRT's PE much faster or no faster, or on some PEs only.
\* PE 1 is disabled.
MCRTInfos ==
    [v \in MCVertex |->
        CASE v = "a" -> {On(LRT, <<1, 1, 13, 3>>), On({1, 2, 3}, <<1, 1, 4, 3>>)}
          [] v = "b" -> {On(LRT, <<2, 2, 2, 2>>), On({0, 3}, <<0, 0, 0, 0>>)}
          [] v = "c" -> {On({0, 2}, <<1, 1, 12, 1>>)}
          [] OTHER -> {On({0, 1, 2, 3}, <<1, 1, 1, 1>>)}]
MCConfigs == {0, 1}
MCContext == {graph}
MCContextOf == [t \in MCTask |-> graph]
=============================================================================
