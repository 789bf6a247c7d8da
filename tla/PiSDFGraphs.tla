----------------------------- MODULE PiSDFGraphs -----------------------------
(* The PiSDF graphs of an application: how the construction interface and the *)
(* Graph, Vertex, Edge and Delay classes build and edit them, and how the     *)
(* runtime splits a dynamic graph into an "init" part, its configuration      *)
(* actors, and a "run" subgraph that holds the rest (pisdf-helper.cpp).       *)
(*                                                                            *)
(* The links between the objects are raw pointers and cached indices: a       *)
(* vertex has its index in the vector of its graph, an edge knows the ports   *)
(* it is connected to and the ports know the edge, and a graph keeps viewers  *)
(* on its subgraphs and on its configuration actors.  The model keeps each of *)
(* them as a separate field.  Indices start at 1 and 0 stands for nullptr.    *)
(* Rates, expressions and names are left out.                                 *)
EXTENDS Naturals, FiniteSets, SequencesExt

CONSTANTS
    Kinds,              \* the vertices an application may create
    MaxVertices,        \* bound: vertices created in the edited graph
    MaxEdits,           \* bound: delays created, vertices and edges removed
    ConfigLoopDelays    \* whether a configuration actor may have a delayed loop

(* A kind gives the type of a vertex and its numbers of ports. *)
ASSUME KindsAssumption ==
    /\ \A k \in Kinds : /\ k.type \in {"NORMAL", "CONFIG", "GRAPH"}
                        /\ k.ins \in Nat /\ k.outs \in Nat
    /\ MaxVertices \in Nat /\ MaxEdits \in Nat
    /\ ConfigLoopDelays \in BOOLEAN

VARIABLES
    pisdf,      \* the vertices and the edges, in creation order
    edits,      \* number of delays created, of vertices and edges removed
    done,       \* the graphs have been split
    links       \* the actors each port reached when the graphs were split

vars == <<pisdf, edits, done, links>>

VertexTypes == {"NORMAL", "CONFIG", "GRAPH", "INPUT", "OUTPUT",
                "DELAY", "INIT", "END"}

Vertices(s) == DOMAIN s.vertex
Edges(s)    == DOMAIN s.edge
Graphs(s)   == {v \in Vertices(s) : s.vertex[v].type = "GRAPH"}
TypeOf(s, v)  == s.vertex[v].type
GraphOf(s, v) == s.vertex[v].graph

------------------------------------------------------------------------------
(* Graph.cpp: the vectors of a graph. *)

NoPorts(n) == [i \in 1..n |-> 0]

Vertex(type, ins, outs) ==
    [type |-> type, graph |-> 0, ix |-> 0, subIx |-> 0,
     inputEdges |-> NoPorts(ins), outputEdges |-> NoPorts(outs),
     vertices |-> <<>>, edges |-> <<>>, configs |-> <<>>, subgraphs |-> <<>>,
     inputs |-> <<>>, outputs |-> <<>>, dynamic |-> FALSE, delayed |-> 0]

Make(s, v)  == [s EXCEPT !.vertex = Append(@, v)]
Newest(s)   == Len(s.vertex)
NewEdge(s)  == Len(s.edge)

(* The last element takes the place of the one at index ix. *)
OutOfOrderErase(seq, ix) == Front([seq EXCEPT ![ix] = Last(seq)])

AddVertex(s, g, v) ==
    [s EXCEPT
       !.vertex[v].graph = g,
       !.vertex[v].ix = Len(s.vertex[g].vertices) + 1,
       !.vertex[v].subIx = IF TypeOf(s, v) = "GRAPH"
                             THEN Len(s.vertex[g].subgraphs) + 1 ELSE @,
       !.vertex[g].vertices = Append(@, v),
       !.vertex[g].configs = IF TypeOf(s, v) = "CONFIG" THEN Append(@, v) ELSE @,
       !.vertex[g].subgraphs = IF TypeOf(s, v) = "GRAPH" THEN Append(@, v) ELSE @]

(* The viewers of graph g forget vertex v.  The subgraph at the index v has   *)
(* now takes that index, whichever graph the index was given by.              *)
Unview(s, g, v) ==
    CASE TypeOf(s, v) = "CONFIG" ->
           [s EXCEPT !.vertex[g].configs =
              OutOfOrderErase(@, CHOOSE i \in DOMAIN @ : @[i] = v)]
      [] TypeOf(s, v) = "GRAPH" ->
           LET subgraphs == s.vertex[g].subgraphs
               ix        == s.vertex[v].subIx
           IN  [s EXCEPT
                  !.vertex[g].subgraphs = IF ix \in DOMAIN subgraphs
                                            THEN OutOfOrderErase(@, ix)
                                            ELSE Front(@),
                  !.vertex[Last(subgraphs)].subIx = ix]
      [] OTHER -> s

(* Mutant: the vertex that takes the free place keeps its old index. *)
SwapVertex_KeepsIndex(s, g, v) ==
    [s EXCEPT !.vertex[g].vertices = OutOfOrderErase(@, s.vertex[v].ix)]

SwapVertex(s, g, v) ==
    LET ix == s.vertex[v].ix
    IN  [s EXCEPT !.vertex[Last(s.vertex[g].vertices)].ix = ix,
                  !.vertex[g].vertices = OutOfOrderErase(@, ix)]

SwapEdge(s, g, e) ==
    LET ix == s.edge[e].ix
    IN  [s EXCEPT !.edge[Last(s.vertex[g].edges)].ix = ix,
                  !.vertex[g].edges = OutOfOrderErase(@, ix)]

MoveVertex(s, g, v, to) == Unview(AddVertex(SwapVertex(s, g, v), to, v), g, v)

AddEdge(s, g, e) == [s EXCEPT !.edge[e].ix = Len(s.vertex[g].edges) + 1,
                              !.vertex[g].edges = Append(@, e)]

MoveEdge(s, g, e, to) == AddEdge(SwapEdge(s, g, e), to, e)

(* A new interface takes the next index; the graph gains a port for it unless *)
(* it was created with enough of them.                                        *)
AddInputInterface(s, g) ==
    LET n == Len(s.vertex[g].inputs) + 1
        i == Newest(s) + 1
    IN  [Make(s, [Vertex("INPUT", 0, 1) EXCEPT !.graph = g, !.ix = n]) EXCEPT
           !.vertex[g].inputs = Append(@, i),
           !.vertex[g].inputEdges = IF Len(@) < n THEN Append(@, 0) ELSE @]

AddOutputInterface(s, g) ==
    LET n == Len(s.vertex[g].outputs) + 1
        o == Newest(s) + 1
    IN  [Make(s, [Vertex("OUTPUT", 1, 0) EXCEPT !.graph = g, !.ix = n]) EXCEPT
           !.vertex[g].outputs = Append(@, o),
           !.vertex[g].outputEdges = IF Len(@) < n THEN Append(@, 0) ELSE @]

(* The graph is the vertex Newest(s) + 1; its interfaces come right after. *)
CreateGraph(s, ins, outs) ==
    LET g  == Newest(s) + 1
        s1 == Make(s, Vertex("GRAPH", ins, outs))
        s2 == FoldLeft(LAMBDA t, i : AddInputInterface(t, g), s1, NoPorts(ins))
    IN  FoldLeft(LAMBDA t, i : AddOutputInterface(t, g), s2, NoPorts(outs))

CreateVertex(s, g, type, ins, outs) ==
    AddVertex(Make(s, Vertex(type, ins, outs)), g, Newest(s) + 1)

------------------------------------------------------------------------------
(* Edge.cpp: the two ends of an edge and the ports that point to it. *)

Connectable(s, a, i, b, j) ==
    /\ GraphOf(s, a) = GraphOf(s, b)
    /\ i \in DOMAIN s.vertex[a].outputEdges /\ s.vertex[a].outputEdges[i] = 0
    /\ j \in DOMAIN s.vertex[b].inputEdges  /\ s.vertex[b].inputEdges[j] = 0

CreateEdge(s, a, i, b, j) ==
    LET e  == NewEdge(s) + 1
        s1 == [s EXCEPT !.edge = Append(@, [src |-> a, srcPortIx |-> i, snk |-> b,
                                            snkPortIx |-> j, ix |-> 0, delay |-> 0])]
        s2 == [s1 EXCEPT !.vertex[a].outputEdges[i] = e]
        s3 == [s2 EXCEPT !.vertex[b].inputEdges[j] = e]
    IN  AddEdge(s3, GraphOf(s, a), e)

(* Detaches the source of an edge, and the port that points to the edge. *)
ResetSource(s, e) ==
    LET v == s.edge[e].src
        t == IF v = 0 THEN s
             ELSE [s EXCEPT !.vertex[v].outputEdges[s.edge[e].srcPortIx] = 0]
    IN  [t EXCEPT !.edge[e].src = 0, !.edge[e].srcPortIx = 0]

ResetSink(s, e) ==
    LET v == s.edge[e].snk
        t == IF v = 0 THEN s
             ELSE [s EXCEPT !.vertex[v].inputEdges[s.edge[e].snkPortIx] = 0]
    IN  [t EXCEPT !.edge[e].snk = 0, !.edge[e].snkPortIx = 0]

(* Gives edge e a new source port: the edge the port had loses its source. *)
SetSource(s, e, v, i) ==
    LET old == s.vertex[v].outputEdges[i]
        s1  == IF old = 0 THEN s ELSE ResetSource(s, old)
        s2  == ResetSource(s1, e)
    IN  [s2 EXCEPT !.vertex[v].outputEdges[i] = e,
                   !.edge[e].src = v, !.edge[e].srcPortIx = i]

SetSink(s, e, v, i) ==
    LET old == s.vertex[v].inputEdges[i]
        s1  == IF old = 0 THEN s ELSE ResetSink(s, old)
        s2  == ResetSink(s1, e)
    IN  [s2 EXCEPT !.vertex[v].inputEdges[i] = e,
                   !.edge[e].snk = v, !.edge[e].snkPortIx = i]

(* A removed edge or vertex keeps its number, with index 0 and no graph. *)
RemoveEdge(s, g, e) ==
    [SwapEdge(ResetSink(ResetSource(s, e), e), g, e) EXCEPT !.edge[e].ix = 0]

(* A graph is destroyed with its vertices and its edges. *)
NullEdge == [src |-> 0, srcPortIx |-> 0, snk |-> 0, snkPortIx |-> 0, ix |-> 0, delay |-> 0]

Destroy(s, v) ==
    [vertex |-> [w \in Vertices(s) |-> IF w = v \/ GraphOf(s, w) = v
                                         THEN Vertex(TypeOf(s, w), 0, 0) ELSE s.vertex[w]],
     edge   |-> [e \in Edges(s) |-> IF e \in Range(s.vertex[v].edges)
                                      THEN NullEdge ELSE s.edge[e]]]

PortsHeld(ports) == SelectSeq(ports, LAMBDA e : e # 0)

RemoveVertex(s, g, v) ==
    LET s1 == Unview(s, g, v)
        s2 == FoldLeft(ResetSink, s1, PortsHeld(s.vertex[v].inputEdges))
        s3 == FoldLeft(ResetSource, s2, PortsHeld(s.vertex[v].outputEdges))
    IN  Destroy(SwapVertex(s3, g, v), v)

------------------------------------------------------------------------------
(* Delay.cpp: a delay is a virtual vertex between a setter and a getter. *)

Port(v, i) == [v |-> v, i |-> i]
NoPort     == Port(0, 0)

(* Without a setter, or a getter, an INIT, or an END, vertex is created. *)
MakeDelay(s, e, setter, getter) ==
    LET g   == GraphOf(s, s.edge[e].src)
        s1  == IF setter = NoPort THEN CreateVertex(s, g, "INIT", 0, 1) ELSE s
        set == IF setter = NoPort THEN Port(Newest(s1), 1) ELSE setter
        s2  == IF getter = NoPort THEN CreateVertex(s1, g, "END", 1, 0) ELSE s1
        get == IF getter = NoPort THEN Port(Newest(s2), 1) ELSE getter
        s3  == CreateVertex(s2, g, "DELAY", 1, 1)
        d   == Newest(s3)
        s4  == CreateEdge(s3, set.v, set.i, d, 1)
        s5  == CreateEdge(s4, d, 1, get.v, get.i)
    IN  [s5 EXCEPT !.vertex[d].delayed = e, !.edge[e].delay = d]

(* pisdf-api.cpp: a persistent delay is set through interfaces, at each level *)
(* up to the top graph, by an edge around the graph that carries the delay.   *)
ForwardDelayToTop(s, edge, depth) ==
    LET Up(a, level) ==
          LET g == GraphOf(a.s, a.s.edge[a.e].src)
          IN  IF GraphOf(a.s, g) = 0 THEN a
              ELSE LET s1 == AddOutputInterface(AddInputInterface(a.s, g), g)
                       i  == Len(s1.vertex[g].inputs)
                       o  == Len(s1.vertex[g].outputs)
                       s2 == MakeDelay(s1, a.e, Port(s1.vertex[g].inputs[i], 1),
                                       Port(s1.vertex[g].outputs[o], 1))
                       s3 == CreateEdge(s2, g, o, g, i)
                   IN  [s |-> s3, e |-> NewEdge(s3)]
        top == FoldLeft(Up, [s |-> s, e |-> edge], [l \in 1..depth |-> l])
    IN  MakeDelay(top.s, top.e, NoPort, NoPort)

------------------------------------------------------------------------------
(* pisdf-helper.cpp: the links between actors across the hierarchy. *)

(* An edge that leads into a subgraph, or out of a graph, goes on from the    *)
(* interface, or from the port of the graph.                                  *)
IndirectSink(s, edge) ==
    LET f[e \in Edges(s)] ==
          LET v == s.edge[e].snk
          IN  CASE TypeOf(s, v) = "GRAPH" ->
                     f[s.vertex[s.vertex[v].inputs[s.edge[e].snkPortIx]].outputEdges[1]]
                [] TypeOf(s, v) = "OUTPUT" ->
                     f[s.vertex[GraphOf(s, v)].outputEdges[s.vertex[v].ix]]
                [] OTHER -> v
    IN  f[edge]

IndirectSource(s, edge) ==
    LET f[e \in Edges(s)] ==
          LET v == s.edge[e].src
          IN  CASE TypeOf(s, v) = "GRAPH" ->
                     f[s.vertex[s.vertex[v].outputs[s.edge[e].srcPortIx]].inputEdges[1]]
                [] TypeOf(s, v) = "INPUT" ->
                     f[s.vertex[GraphOf(s, v)].inputEdges[s.vertex[v].ix]]
                [] OTHER -> v
    IN  f[edge]

Actors(s) == {v \in Vertices(s) : /\ s.vertex[v].graph # 0
                                  /\ TypeOf(s, v) \notin {"GRAPH", "INPUT", "OUTPUT"}}

(* What every port of every actor is connected to, interfaces left aside. *)
Links(s) ==
    [sinks   |-> [v \in Actors(s) |-> [i \in DOMAIN s.vertex[v].outputEdges |->
                    IndirectSink(s, s.vertex[v].outputEdges[i])]],
     sources |-> [v \in Actors(s) |-> [i \in DOMAIN s.vertex[v].inputEdges |->
                    IndirectSource(s, s.vertex[v].inputEdges[i])]]]

(* Every port of the vertices of a graph, and of its interfaces, has an edge, *)
(* and every edge of a graph has two ends.                                    *)
Complete(s) ==
    /\ \A e \in Edges(s) : s.edge[e].ix # 0 => s.edge[e].src # 0 /\ s.edge[e].snk # 0
    /\ \A v \in Vertices(s) : s.vertex[v].graph # 0 =>
        /\ \A i \in DOMAIN s.vertex[v].inputEdges : s.vertex[v].inputEdges[i] # 0
        /\ \A i \in DOMAIN s.vertex[v].outputEdges : s.vertex[v].outputEdges[i] # 0

------------------------------------------------------------------------------
(* separateRunGraphFromInit *)

EndType(s, e, end) == TypeOf(s, s.edge[e][end])

(* The delay vertex of a delayed loop on a configuration actor. *)
DelaysConfigLoop(s, d) ==
    LET e == s.vertex[d].delayed
    IN  s.edge[e].src = s.edge[e].snk /\ EndType(s, e, "src") = "CONFIG"

TouchesConfig(s, d) ==
    LET e == s.vertex[d].delayed
    IN  "CONFIG" \in {EndType(s, e, "src"), EndType(s, e, "snk")}

(* A configuration actor reads interfaces, or itself. *)
ConfigSourcesLegal(s, g) ==
    \A c \in Range(s.vertex[g].configs) :
      \A e \in Range(s.vertex[c].inputEdges) :
        s.edge[e].src = c \/ EndType(s, e, "src") = "INPUT"

Separable(s, g) == s.vertex[g].configs # <<>> /\ s.vertex[g].dynamic

(* The edges from the configuration actors to the run part. *)
ConfigOutputs(s, g) ==
    LET ToRun(c) == SelectSeq(s.vertex[c].outputEdges, LAMBDA e :
                      EndType(s, e, "snk") # "OUTPUT" /\ s.edge[e].snk # c)
    IN  FlattenSeq([i \in DOMAIN s.vertex[g].configs |-> ToRun(s.vertex[g].configs[i])])

(* Mutant: the interfaces read by configuration actors count for the run part. *)
InputNotForRun_DelaysOnly(s, i) ==
    LET v == s.edge[s.vertex[i].outputEdges[1]].snk
    IN  TypeOf(s, v) = "DELAY" /\ TouchesConfig(s, v)

InputNotForRun(s, i) ==
    LET v == s.edge[s.vertex[i].outputEdges[1]].snk
    IN  \/ TypeOf(s, v) = "CONFIG"
        \/ TypeOf(s, v) = "DELAY" /\ TouchesConfig(s, v)

OutputNotForRun(s, o) ==
    LET v == s.edge[s.vertex[o].inputEdges[1]].src
    IN  \/ TypeOf(s, v) = "CONFIG"
        \/ TypeOf(s, v) = "DELAY" /\ TouchesConfig(s, v)

RunInputCount(s, g) ==
    Len(s.vertex[g].inputEdges) + Len(ConfigOutputs(s, g))
      - Len(SelectSeq(s.vertex[g].inputs, LAMBDA i : InputNotForRun(s, i)))

RunOutputCount(s, g) ==
    Len(s.vertex[g].outputEdges)
      - Len(SelectSeq(s.vertex[g].outputs, LAMBDA o : OutputNotForRun(s, o)))

(* Mutant: the edges from a configuration actor to the outside move as well. *)
EdgeStays_InputsOnly(s, e) == EndType(s, e, "snk") = "CONFIG"

EdgeStays(s, e) ==
    \/ EndType(s, e, "snk") = "CONFIG"
    \/ EndType(s, e, "src") = "CONFIG" /\ EndType(s, e, "snk") = "OUTPUT"
    \/ EndType(s, e, "snk") = "DELAY" /\ DelaysConfigLoop(s, s.edge[e].snk)
    \/ EndType(s, e, "src") = "DELAY" /\ DelaysConfigLoop(s, s.edge[e].src)

VertexStays(s, v) ==
    \/ TypeOf(s, v) = "CONFIG"
    \/ TypeOf(s, v) = "DELAY" /\ DelaysConfigLoop(s, v)

(* Moving an element reorders the vector, so each scan starts again. *)
MoveEdges(s, g, run) ==
    LET Step(t, k) ==
          LET moving == SelectSeq(t.vertex[g].edges, LAMBDA e : ~EdgeStays(s, e))
          IN  IF moving = <<>> THEN t ELSE MoveEdge(t, g, moving[1], run)
    IN  FoldLeft(Step, s, s.vertex[g].edges)

MoveSubgraphs(s, g, run) ==
    FoldLeft(LAMBDA t, k : MoveVertex(t, g, t.vertex[g].subgraphs[1], run),
             s, s.vertex[g].subgraphs)

MoveVertices(s, g, run) ==
    LET Step(t, k) ==
          LET moving == SelectSeq(t.vertex[g].vertices, LAMBDA v : ~VertexStays(s, v))
          IN  IF moving = <<>> THEN t ELSE MoveVertex(t, g, moving[1], run)
    IN  FoldLeft(Step, s, s.vertex[g].vertices)

(* The input interfaces that lead to the run part are doubled by the first    *)
(* input interfaces of the run graph.                                         *)
ReconnectInputs(s, g, run) ==
    LET Step(a, input) ==
          LET e == a.s.vertex[input].outputEdges[1]
          IN  IF GraphOf(a.s, a.s.edge[e].snk) # run THEN a
              ELSE LET t == SetSource(a.s, e, a.s.vertex[run].inputs[a.ix], 1)
                   IN  [s |-> CreateEdge(t, input, 1, run, a.ix), ix |-> a.ix + 1]
    IN  FoldLeft(Step, [s |-> s, ix |-> 1], s.vertex[g].inputs)

ReconnectOutputs(s, g, run) ==
    LET Step(a, output) ==
          LET e == a.s.vertex[output].inputEdges[1]
          IN  IF GraphOf(a.s, a.s.edge[e].src) # run THEN a
              ELSE LET t == SetSink(a.s, e, a.s.vertex[run].outputs[a.ix], 1)
                   IN  [s |-> CreateEdge(t, run, a.ix, output, 1), ix |-> a.ix + 1]
    IN  FoldLeft(Step, [s |-> s, ix |-> 1], s.vertex[g].outputs).s

(* Each output of a configuration actor gets the next input interface. *)
ReconnectConfigs(s, g, run, first, outs) ==
    LET Step(a, e) ==
          LET cfg == a.s.edge[e].src
              i   == a.s.edge[e].srcPortIx
              t   == SetSource(a.s, e, a.s.vertex[run].inputs[a.ix], 1)
          IN  [s |-> CreateEdge(t, cfg, i, run, a.ix), ix |-> a.ix + 1]
    IN  FoldLeft(Step, [s |-> s, ix |-> first], outs).s

SeparateRunGraphFromInit(s, g) ==
    LET run  == Newest(s) + 1
        outs == ConfigOutputs(s, g)
        s1   == CreateGraph(s, RunInputCount(s, g), RunOutputCount(s, g))
        s2   == MoveVertices(MoveSubgraphs(MoveEdges(s1, g, run), g, run), g, run)
        in   == ReconnectInputs(AddVertex(s2, g, run), g, run)
        s3   == ReconnectOutputs(in.s, g, run)
    IN  ReconnectConfigs(s3, g, run, in.ix, outs)

(* recursiveSplitDynamicGraph: the parameters of the run graph are inherited, *)
(* none is dynamic in it, so each dynamic graph is split once.                *)
RecursiveSplitDynamicGraph(s) ==
    FoldLeft(LAMBDA t, g : IF g \in Graphs(t) /\ Separable(t, g)
                             THEN SeparateRunGraphFromInit(t, g) ELSE t,
             s, [g \in Vertices(s) |-> g])

------------------------------------------------------------------------------
(* The application: a subgraph between two actors of the top graph.  Its      *)
(* content is built, edited and then split in every possible way.             *)

Empty == [vertex |-> <<>>, edge |-> <<>>]
Top   == 1
Sub   == 3

Application ==
    LET s1 == CreateVertex(CreateGraph(Empty, 0, 0), Top, "NORMAL", 0, 1)
        s2 == AddVertex(CreateGraph(s1, 1, 1), Top, Sub)
        s3 == CreateVertex(s2, Top, "NORMAL", 1, 0)
    IN  CreateEdge(CreateEdge(s3, 2, 1, Sub, 1), Sub, 1, Newest(s3), 1)

Init == /\ pisdf = Application
        /\ edits = 0 /\ done = FALSE
        /\ links = [sinks |-> <<>>, sources |-> <<>>]

Content == Range(pisdf.vertex[Sub].vertices)
Nodes   == {v \in Vertices(pisdf) : GraphOf(pisdf, v) = Sub}

FreeOut == UNION {{Port(v, i) : i \in {j \in DOMAIN pisdf.vertex[v].outputEdges :
                                        pisdf.vertex[v].outputEdges[j] = 0}} : v \in Nodes}
FreeIn  == UNION {{Port(v, i) : i \in {j \in DOMAIN pisdf.vertex[v].inputEdges :
                                        pisdf.vertex[v].inputEdges[j] = 0}} : v \in Nodes}

(* A subgraph comes with an actor between its interfaces. *)
CreateSubgraph(s, g, ins, outs) ==
    LET h  == Newest(s) + 1
        s1 == CreateVertex(AddVertex(CreateGraph(s, ins, outs), g, h), h, "NORMAL", ins, outs)
        a  == Newest(s1)
        s2 == FoldLeft(LAMBDA t, i : CreateEdge(t, t.vertex[h].inputs[i], 1, a, i),
                       s1, [i \in 1..ins |-> i])
    IN  FoldLeft(LAMBDA t, i : CreateEdge(t, a, i, t.vertex[h].outputs[i], 1),
                 s2, [i \in 1..outs |-> i])

(* createVertex, createConfigActor, createSubgraph.  The vertices come before *)
(* the edges, and a configuration actor sets a dynamic parameter.             *)
CreateVertexFromType(kind) ==
    /\ ~done
    /\ Cardinality(Content) < MaxVertices
    /\ pisdf.vertex[Sub].edges = <<>>
    /\ LET s == IF kind.type = "GRAPH"
                  THEN CreateSubgraph(pisdf, Sub, kind.ins, kind.outs)
                  ELSE CreateVertex(pisdf, Sub, kind.type, kind.ins, kind.outs)
       IN  pisdf' = [s EXCEPT !.vertex[Sub].dynamic = @ \/ kind.type = "CONFIG"]
    /\ UNCHANGED <<edits, done, links>>

(* createEdge, from the first free port; an interface is not connected to     *)
(* another one and a configuration actor reads what the split accepts.        *)
ConnectVertices(to) ==
    /\ ~done
    /\ FreeOut # {}
    /\ LET from == CHOOSE p \in FreeOut : \A q \in FreeOut :
                       p.v < q.v \/ (p.v = q.v /\ p.i <= q.i)
       IN  /\ Connectable(pisdf, from.v, from.i, to.v, to.i)
           /\ ~(TypeOf(pisdf, from.v) = "INPUT" /\ TypeOf(pisdf, to.v) = "OUTPUT")
           /\ TypeOf(pisdf, to.v) = "CONFIG" =>
                from.v = to.v \/ TypeOf(pisdf, from.v) = "INPUT"
           /\ pisdf' = CreateEdge(pisdf, from.v, from.i, to.v, to.i)
    /\ UNCHANGED <<edits, done, links>>

(* Edge::setDelay and Delay refuse a second delay and the edges of a delay.   *)
Delayable(e) ==
    /\ pisdf.edge[e].ix # 0 /\ pisdf.edge[e].src # 0 /\ pisdf.edge[e].snk # 0
    /\ GraphOf(pisdf, pisdf.edge[e].src) = Sub
    /\ pisdf.edge[e].delay = 0
    /\ "DELAY" \notin {EndType(pisdf, e, "src"), EndType(pisdf, e, "snk")}

ConfigLoop(e) == /\ EndType(pisdf, e, "src") = "CONFIG"
                 /\ pisdf.edge[e].src = pisdf.edge[e].snk

PlainEdge(e) == "CONFIG" \notin {EndType(pisdf, e, "src"), EndType(pisdf, e, "snk")}

(* createLocalDelay *)
CreateLocalDelay(e, setter, getter) ==
    /\ ~done /\ edits < MaxEdits
    /\ Delayable(e)
    /\ PlainEdge(e) \/ (ConfigLoopDelays /\ ConfigLoop(e) /\ setter = NoPort /\ getter = NoPort)
    /\ getter # NoPort => TypeOf(pisdf, getter.v) # "CONFIG"
    /\ pisdf' = MakeDelay(pisdf, e, setter, getter)
    /\ edits' = edits + 1
    /\ UNCHANGED <<done, links>>

(* createPersistentDelay *)
CreatePersistentDelay(e) ==
    /\ ~done /\ edits < MaxEdits
    /\ Delayable(e) /\ PlainEdge(e)
    /\ pisdf' = ForwardDelayToTop(pisdf, e, 2)
    /\ edits' = edits + 1
    /\ UNCHANGED <<done, links>>

(* Graph::removeEdge and Graph::removeVertex, where no delay is involved.     *)
DisconnectEdge(e) ==
    /\ ~done /\ edits < MaxEdits
    /\ Delayable(e)
    /\ pisdf' = RemoveEdge(pisdf, Sub, e)
    /\ edits' = edits + 1
    /\ UNCHANGED <<done, links>>

RemoveActor(v) ==
    /\ ~done /\ edits < MaxEdits
    /\ v \in Content /\ TypeOf(pisdf, v) \in {"NORMAL", "CONFIG", "GRAPH"}
    /\ pisdf' = RemoveVertex(pisdf, Sub, v)
    /\ edits' = edits + 1
    /\ UNCHANGED <<done, links>>

(* The runtime splits the graphs once the application is built. *)
SplitGraphs ==
    /\ ~done
    /\ Complete(pisdf) /\ ConfigSourcesLegal(pisdf, Sub)
    /\ links' = Links(pisdf)
    /\ pisdf' = RecursiveSplitDynamicGraph(pisdf)
    /\ done' = TRUE
    /\ UNCHANGED edits

Next ==
    \/ \E kind \in Kinds : CreateVertexFromType(kind)
    \/ \E to \in FreeIn : ConnectVertices(to)
    \/ \E e \in Edges(pisdf), setter \in FreeOut \cup {NoPort},
          getter \in FreeIn \cup {NoPort} : CreateLocalDelay(e, setter, getter)
    \/ \E e \in Edges(pisdf) : CreatePersistentDelay(e)
    \/ \E e \in Edges(pisdf) : DisconnectEdge(e)
    \/ \E v \in Vertices(pisdf) : RemoveActor(v)
    \/ SplitGraphs

Spec == Init /\ [][Next]_vars

------------------------------------------------------------------------------
(* Properties *)

TypeOK ==
    /\ \A v \in Vertices(pisdf) :
         /\ TypeOf(pisdf, v) \in VertexTypes
         /\ GraphOf(pisdf, v) \in Graphs(pisdf) \cup {0}
    /\ \A e \in Edges(pisdf) :
         /\ pisdf.edge[e].src \in Vertices(pisdf) \cup {0}
         /\ pisdf.edge[e].snk \in Vertices(pisdf) \cup {0}
    /\ edits \in 0..MaxEdits /\ done \in BOOLEAN

(* The cached indices are right: a vertex is at its index in the vector of    *)
(* the graph it says it is in, an edge at its index in that of its graph, and *)
(* the viewers of a graph list exactly its subgraphs, each at its own index,  *)
(* and its configuration actors, whatever was added, removed or moved.        *)
IndicesSound ==
    \A g \in Graphs(pisdf) :
      LET graph == pisdf.vertex[g]
      IN  /\ \A i \in DOMAIN graph.vertices :
               /\ pisdf.vertex[graph.vertices[i]].ix = i
               /\ GraphOf(pisdf, graph.vertices[i]) = g
          /\ \A i \in DOMAIN graph.edges : pisdf.edge[graph.edges[i]].ix = i
          /\ \A i \in DOMAIN graph.subgraphs :
               pisdf.vertex[graph.subgraphs[i]].subIx = i
          /\ IsInjective(graph.subgraphs) /\ IsInjective(graph.configs)
          /\ Range(graph.subgraphs) = {v \in Range(graph.vertices) : TypeOf(pisdf, v) = "GRAPH"}
          /\ Range(graph.configs) = {v \in Range(graph.vertices) : TypeOf(pisdf, v) = "CONFIG"}

(* An edge connects two vertices of the graph that holds it, and a port and   *)
(* the edge it is connected to name each other (Edge.cpp: "Can not create     *)
(* edge between [%s] and [%s]: not in the same graph.").                      *)
EdgesLocal ==
    /\ \A g \in Graphs(pisdf) : \A e \in Range(pisdf.vertex[g].edges) :
         /\ pisdf.edge[e].src # 0 =>
              /\ GraphOf(pisdf, pisdf.edge[e].src) = g
              /\ pisdf.vertex[pisdf.edge[e].src].outputEdges[pisdf.edge[e].srcPortIx] = e
         /\ pisdf.edge[e].snk # 0 =>
              /\ GraphOf(pisdf, pisdf.edge[e].snk) = g
              /\ pisdf.vertex[pisdf.edge[e].snk].inputEdges[pisdf.edge[e].snkPortIx] = e
    /\ \A v \in Vertices(pisdf) :
         /\ \A i \in DOMAIN pisdf.vertex[v].outputEdges :
              LET e == pisdf.vertex[v].outputEdges[i]
              IN  e # 0 => pisdf.edge[e].src = v /\ pisdf.edge[e].srcPortIx = i
         /\ \A i \in DOMAIN pisdf.vertex[v].inputEdges :
              LET e == pisdf.vertex[v].inputEdges[i]
              IN  e # 0 => pisdf.edge[e].snk = v /\ pisdf.edge[e].snkPortIx = i

(* The split changes no data path: once the interfaces are left aside, every  *)
(* port of every actor reaches the actor it reached before, in both           *)
(* directions, and every port of every graph and interface is connected (the  *)
(* interfaces of the run graph were counted before its edges were moved).     *)
PathsKept == done => Complete(pisdf) /\ Links(pisdf) = links

==============================================================================
