--------------------------- MODULE RepetitionVector ---------------------------
(***************************************************************************)
(* The basic repetition vector (BRV) of a PiSDF graph: how many times each *)
(* vertex fires for one firing of the graph, given the rates of the edges. *)
(* brv::compute takes the connected components one after the other; for    *)
(* each it walks the edges from a seed, giving every vertex a rational,    *)
(* scales the rationals to integers, applies the rules of the interfaces   *)
(* and of the configuration actors, and checks the balance of the edges.   *)
(***************************************************************************)
EXTENDS Integers, SequencesExt

CONSTANTS
    VerticesOf,     \* Graph::vertices(), a sequence per graph: no interface
    Kind,           \* VertexType of a vertex or an interface
    OutEdges,       \* Vertex::outputEdges(), by port
    InEdges,        \* Vertex::inputEdges()
    Src, Snk        \* Edge::source(), Edge::sink()

Interface == {"INPUT", "OUTPUT"}
Edge == DOMAIN Src
EdgesIn(g) ==
    {e \in Edge : \E n \in DOMAIN VerticesOf[g] : VerticesOf[g][n] \in {Src[e], Snk[e]}}

ASSUME GraphAssumption ==
    \A e \in Edge : \/ Kind[Src[e]] \notin Interface
                    \/ Kind[Snk[e]] \notin Interface

-----------------------------------------------------------------------------
(* Rationals, as <<nominator, denominator>>                                *)

RECURSIVE GCD(_, _)
GCD(a, b) == IF b = 0 THEN a ELSE GCD(b, a % b)

LCM(a, b) == (a * b) \div GCD(a, b)

CeilDiv(x, y) == (x + y - 1) \div y

Zero == <<0, 1>>
One == <<1, 1>>

Reduced(q) == LET d == GCD(q[1], q[2]) IN <<q[1] \div d, q[2] \div d>>

Times(q, r) == Reduced(<<q[1] * r[1], q[2] * r[2]>>)

-----------------------------------------------------------------------------
(* The rationals of a component                                            *)

\* An interface fires once with its graph, whatever the others do.
RationalOf(rational, v) == IF Kind[v] \in Interface THEN One ELSE rational[v]

\* The rational of v from its rate and from that of w, at the other end.
Derived(rational, v, rateOfV, w, rateOfW) ==
    IF rateOfV = 0 \/ RationalOf(rational, v)[1] # 0
    THEN rational
    ELSE [rational EXCEPT ![v] =
            IF RationalOf(rational, w)[1] = 0
            THEN Reduced(<<rateOfW, rateOfV>>)
            ELSE Times(<<rateOfW, rateOfV>>, RationalOf(rational, w))]

UpdateRational(rational, e, rates) ==
    Derived(Derived(rational, Snk[e], rates[e][2], Src[e], rates[e][1]),
            Src[e], rates[e][1], Snk[e], rates[e][2])

ValidRates(e, rates) == rates[e][1] = 0 <=> rates[e][2] = 0

\* One edge of the vertex being visited; far is its other end.
Visit(walk, e, far, rates) ==
    IF e \in walk.edges
    THEN walk
    ELSE [walk EXCEPT
            !.edges = @ \cup {e},
            !.valid = @ /\ ValidRates(e, rates),
            !.rational = IF ValidRates(e, rates) THEN UpdateRational(@, e, rates) ELSE @,
            !.edgeCount = IF Kind[far] = "INPUT" THEN @ + 1 ELSE @,
            !.inputs = IF Kind[far] = "INPUT" THEN Append(@, e) ELSE @,
            !.outputs = IF Kind[far] = "OUTPUT" THEN Append(@, e) ELSE @,
            !.queue = IF Kind[far] \in Interface \/ far \in Range(@) \cup walk.done
                      THEN @
                      ELSE Append(@, far)]

RECURSIVE ExtractConnectedComponent(_, _, _)
ExtractConnectedComponent(walk, next, rates) ==
    IF next > Len(walk.queue) \/ ~walk.valid
    THEN walk
    ELSE LET v == walk.queue[next]
             counted == [walk EXCEPT !.edgeCount = @ + Len(OutEdges[v]),
                                     !.configs = IF Kind[v] = "CONFIG" THEN @ + 1 ELSE @]
             forward == FoldLeft(LAMBDA w, e : Visit(w, e, Snk[e], rates), counted, OutEdges[v])
             both == FoldLeft(LAMBDA w, e : Visit(w, e, Src[e], rates), forward, InEdges[v])
         IN ExtractConnectedComponent(both, next + 1, rates)

-----------------------------------------------------------------------------
(* From the rationals to the repetition values                             *)

ComputeRepetitionValues(component) ==
    LET factor == FoldLeft(LAMBDA n, v : LCM(n, component.rational[v][2]), 1, component.queue)
    IN [v \in Range(component.queue) |->
            LET q == Times(component.rational[v], <<factor, 1>>) IN q[1] \div q[2]]

\* A vertex alone between interfaces fires once, or never if all its rates are 0.
AloneVertexRV(v, value, rates) ==
    IF /\ \A n \in DOMAIN InEdges[v] : rates[InEdges[v][n]][2] = 0
       /\ \A n \in DOMAIN OutEdges[v] : rates[OutEdges[v][n]][1] = 0
    THEN 0
    ELSE IF value > 1 THEN 1 ELSE value

\* The factor after an edge that gives `total` (times the factor) against `wanted`.
ScaledUp(scale, total, wanted) ==
    IF total * scale > 0 /\ total * scale < wanted
    THEN scale * CeilDiv(wanted, total * scale)
    ELSE scale

RVOf(rv, v) == IF Kind[v] \in Interface THEN 1 ELSE rv[v]

\* Mutant: the interfaces ask for nothing.
UpdateComponentBRV_Unscaled(component, rv, rates) == rv

\* The code records the seed of the component for each configuration actor in it.
UpdateComponentBRV(component, rv, rates) ==
    LET consumed(s, e) == ScaledUp(s, rates[e][2] * RVOf(rv, Snk[e]), rates[e][1])
        produced(s, e) == ScaledUp(s, rates[e][1] * rv[Src[e]], rates[e][2])
        ofConfigs == IF component.configs = 0
                     THEN 1
                     ELSE FoldLeft(consumed, 1, OutEdges[Head(component.queue)])
        ofInputs == FoldLeft(consumed, ofConfigs, component.inputs)
        scale == FoldLeft(produced, ofInputs, component.outputs)
    IN [v \in DOMAIN rv |-> rv[v] * scale]

CheckConsistency(rv, rates) ==
    \A v \in DOMAIN rv : \A n \in DOMAIN OutEdges[v] :
        LET e == OutEdges[v][n]
        IN Kind[Snk[e]] # "OUTPUT" => rates[e][1] * rv[v] = rates[e][2] * rv[Snk[e]]

-----------------------------------------------------------------------------
(* brv::compute                                                            *)

\* The values of the component that v is in; done is what is visited already.
ComponentBRV(component, rates) ==
    LET values == ComputeRepetitionValues(component)
        v == Head(component.queue)
        alone == /\ Len(component.queue) = 1
                 /\ component.inputs # <<>> \/ component.outputs # <<>> \/ component.configs > 0
    IN UpdateComponentBRV(component,
                          IF alone THEN [values EXCEPT ![v] = AloneVertexRV(v, @, rates)] ELSE values,
                          rates)

Seeded(state, seed) ==
    [queue |-> <<seed>>, done |-> DOMAIN state.rv, edges |-> {}, valid |-> TRUE,
     rational |-> [v \in DOMAIN Kind |-> Zero], edgeCount |-> 0,
     inputs |-> <<>>, outputs |-> <<>>, configs |-> 0]

Checked(state, values, rates) == [rv |-> values @@ state.rv, ok |-> CheckConsistency(values, rates)]

AddComponent(state, component, rates) ==
    CASE ~component.valid -> [state EXCEPT !.ok = FALSE]
      [] component.valid /\ component.edgeCount = 0 ->
            [state EXCEPT !.rv = (Head(component.queue) :> 1) @@ @]
      [] OTHER -> Checked(state, ComponentBRV(component, rates), rates)

NextComponent(state, seed, rates) ==
    AddComponent(state, ExtractConnectedComponent(Seeded(state, seed), 1, rates), rates)

\* [ok, rv]: not ok when the code throws.
ComputeBRV(g, rates) ==
    FoldLeft(LAMBDA state, v :
                IF ~state.ok \/ v \in DOMAIN state.rv THEN state ELSE NextComponent(state, v, rates),
             [ok |-> TRUE, rv |-> << >>],
             VerticesOf[g])
=============================================================================
