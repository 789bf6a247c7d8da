--------------------------------- MODULE SRDAG ---------------------------------
(***************************************************************************)
(* The single-rate graph: every vertex fires once and every edge carries   *)
(* what its source gives to its sink.  A graph is a record                 *)
(*   [vertices, info, edges, next]                                         *)
(* with the vertices in the order of Graph::vertices(), what each one is,  *)
(* and the edges.  The port arrays of the vertices are read off the edges: *)
(* edge e is in slot p of the outputs of v when it has source v, port p.   *)
(***************************************************************************)
EXTENDS Integers, SequencesExt

None == 0           \* no vertex, or no edge

Empty == [vertices |-> <<>>, info |-> << >>, edges |-> << >>, next |-> 1]

EdgesInto(g, v) == {e \in DOMAIN g.edges : g.edges[e].snk = v}
EdgesFrom(g, v) == {e \in DOMAIN g.edges : g.edges[e].src = v}

OneOf(S) == IF S = {} THEN None ELSE CHOOSE x \in S : TRUE

\* Vertex::inputEdge(), outputEdge(): the ports are counted from 0.
InputEdge(g, v, p) == OneOf({e \in EdgesInto(g, v) : g.edges[e].in = p})
OutputEdge(g, v, p) == OneOf({e \in EdgesFrom(g, v) : g.edges[e].out = p})

Source(g, e) == g.edges[e].src
Sink(g, e) == g.edges[e].snk
Rate(g, e) == g.edges[e].rate
Type(g, v) == g.info[v].type

Inputs(g, v) == [n \in 1 .. g.info[v].nIn |-> InputEdge(g, v, n - 1)]
Outputs(g, v) == [n \in 1 .. g.info[v].nOut |-> OutputEdge(g, v, n - 1)]

-----------------------------------------------------------------------------

\* The vertex is g.next; a vertex made for the transformation has no reference.
AddVertex(g, info) ==
    [g EXCEPT !.vertices = Append(@, g.next),
              !.info = (g.next :> info) @@ @,
              !.next = @ + 1]

Special(type, nIn, nOut) ==
    [type |-> type, nIn |-> nIn, nOut |-> nOut, task |-> <<>>, executable |-> type # "VOID",
     hasTask |-> FALSE]

\* createForkVertex(), createJoinVertex(), ... createVoidVertex()
Create(g, type, nIn, nOut) == AddVertex(g, Special(type, nIn, nOut))

\* Edge::setSource(), setSink(): whatever edge is in the slot loses that end.
SetSource(g, e, v, p) ==
    LET old == IF v = None THEN None ELSE OutputEdge(g, v, p)
        freed == IF old = None THEN g ELSE [g EXCEPT !.edges[old].src = None]
    IN [freed EXCEPT !.edges[e].src = v, !.edges[e].out = p]

SetSink(g, e, v, p) ==
    LET old == IF v = None THEN None ELSE InputEdge(g, v, p)
        freed == IF old = None THEN g ELSE [g EXCEPT !.edges[old].snk = None]
    IN [freed EXCEPT !.edges[e].snk = v, !.edges[e].in = p]

\* Graph::createEdge(): an edge that is already on one of the ports is reused.
CreateEdge(g, source, out, sink, in, rate) ==
    LET there == OutputEdge(g, source, out)
        here == InputEdge(g, sink, in)
    IN CASE there # None -> SetSink(g, there, sink, in)
         [] there = None /\ here # None -> SetSource(g, here, source, out)
         [] OTHER -> [g EXCEPT !.edges = (g.next :> [src |-> source, out |-> out, snk |-> sink,
                                                     in |-> in, rate |-> rate]) @@ @,
                               !.next = @ + 1]

\* (@@ makes TLC tabulate the function)
Tabulated(f) == f @@ << >>
Without(f, x) == Tabulated([y \in DOMAIN f \ {x} |-> f[y]])

RemoveEdge(g, e) == [g EXCEPT !.edges = Without(@, e)]

\* out_of_order_erase(): the last one takes the place of the one removed.
Erased(seq, n) == Front([seq EXCEPT ![n] = Last(seq)])

RemoveVertex(g, v) ==
    [g EXCEPT
        !.vertices = Erased(@, SelectInSeq(@, LAMBDA w : w = v)),
        !.info = Without(@, v),
        !.edges = Tabulated([e \in DOMAIN @ |->
            [@[e] EXCEPT !.src = IF @ = v THEN None ELSE @, !.snk = IF @ = v THEN None ELSE @]])]
=============================================================================
