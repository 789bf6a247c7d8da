------------------------------ MODULE MCGraphs -------------------------------
(* The content of a subgraph, built from actors with one input and one output *)
(* or two inputs, configuration actors that read an input or none, and        *)
(* subgraphs.                                                                 *)
EXTENDS PiSDFGraphs

Kind(type, ins, outs) == [type |-> type, ins |-> ins, outs |-> outs]

MCKinds == {Kind("NORMAL", 1, 1), Kind("NORMAL", 2, 1), Kind("CONFIG", 0, 1),
            Kind("CONFIG", 1, 1), Kind("GRAPH", 1, 1)}

ConfigsOnly == {Kind("NORMAL", 1, 1), Kind("CONFIG", 1, 1)}
==============================================================================
