----------------------------- MODULE Dependencies -----------------------------
(***************************************************************************)
(* Which firings a firing depends on, without flattening the hierarchy.    *)
(* computeExecDependency gives the producers of what a firing reads on an  *)
(* edge, computeConsDependency the consumers of what it writes: intervals  *)
(* of firings and of tokens, followed through interfaces and delays.       *)
(*                                                                         *)
(* A firing of a graph is named by its path <<<<g, k>>, ...>> from the top *)
(* graph, which fires once (<<>>).  The firings of a dynamic graph are     *)
(* resolved one by one, each with rates of its own; those of the edges of  *)
(* an interface agree with the edge of the graph outside.                  *)
(***************************************************************************)
EXTENDS RepetitionVector

CONSTANTS
    Roots,          \* the top graphs to consider
    RatesOf,        \* <<source rate, sink rate>> pairs that an edge may have
    Outer,          \* interface -> the edge of its graph that it stands for
    DelayedEdge,    \* delay vertex -> the edge that the delay is on
    DelaysOf        \* delay vertex -> the values that the delay may have

ASSUME HierarchyAssumption ==
    /\ DOMAIN Outer = {v \in DOMAIN Kind : Kind[v] \in Interface}
    /\ DOMAIN DelayedEdge = {v \in DOMAIN Kind : Kind[v] = "DELAY"}
    /\ DOMAIN DelaysOf = DOMAIN DelayedEdge

VARIABLES
    root,       \* the top graph
    delay,      \* Delay::value(), per delay vertex
    rates,      \* GraphFiring::ratesArray_, per resolved graph firing
    rv,         \* GraphFiring::brvArray_
    refused     \* the rates that brv::compute threw on: <<graph, rates>>

analysisVars == <<root, delay, rates, rv, refused>>

Resolved == DOMAIN rates
GraphOf(h) == IF h = <<>> THEN root ELSE Last(h)[1]
Parent(h) == Front(h)
FiringValue(h) == Last(h)[2]
VerticesAt(h) == Range(VerticesOf[GraphOf(h)])
RV(h, v) == IF Kind[v] \in Interface THEN 1 ELSE rv[h][v]
SrcRate(h, e) == rates[h][e][1]
SnkRate(h, e) == rates[h][e][2]

InnerEdge(i) == CHOOSE e \in Edge : i \in {Src[e], Snk[e]}
InputIf(e) == CHOOSE i \in DOMAIN Outer : Outer[i] = e /\ Kind[i] = "INPUT"
OutputIf(e) == CHOOSE i \in DOMAIN Outer : Outer[i] = e /\ Kind[i] = "OUTPUT"

Delayed(e) == \E d \in DOMAIN DelayedEdge : DelayedEdge[d] = e
DelayVertex(e) == CHOOSE d \in DOMAIN DelayedEdge : DelayedEdge[d] = e
DelayValue(e) == IF Delayed(e) THEN delay[DelayVertex(e)] ELSE 0
SetterEdge(e) == InEdges[DelayVertex(e)][1]
GetterEdge(e) == OutEdges[DelayVertex(e)][1]

-----------------------------------------------------------------------------
(* Dependencies                                                            *)

\* The firings of a graph that is not resolved yet stand for all they contain.
Unresolved == [unresolved |-> TRUE]
IsUnresolved(dep) == "unresolved" \in DOMAIN dep

\* What nobody reads: computeConsDependency counts it as -1.
Void == [void |-> TRUE]
IsVoid(dep) == "void" \in DOMAIN dep

\* Tokens lower..upper of the edge, in firings of one of its ends.  A negative
\* lower, which only the last case of ConsDependencyOutput makes, is no firing:
\* the code casts it to 32 unsigned bits.
Interval(h, e, rate, lower, upper) ==
    [handler |-> h, edge |-> e, rate |-> rate,
     firingStart |-> lower \div rate, memoryStart |-> lower % rate,
     firingEnd |-> upper \div rate, memoryEnd |-> upper % rate]

\* The part of lower..upper that firing k of its range has, from 0 in that firing.
From(k, lower, rate) == IF k = lower \div rate THEN lower % rate ELSE 0
UpTo(k, upper, rate) == IF k = upper \div rate THEN upper % rate ELSE rate - 1

\* The results of F on the firings of a graph that lower..upper covers, in order.
ForFirings(lower, upper, rate, F(_)) ==
    FlattenSeq([n \in 1 .. (upper \div rate) - (lower \div rate) + 1 |->
                    F((lower \div rate) + n - 1)])

SubFiring(h, g, k) == Append(h, <<g, k>>)

RECURSIVE ExecDependency(_, _, _, _)

\* The edge is fed by the interface of its graph: look outside.
ExecDependencyInput(h, e, lower, upper) ==
    LET rate == SrcRate(h, e)
        first == rate * FiringValue(h)
    IN ForFirings(lower, upper, rate,
            LAMBDA k : ExecDependency(Parent(h), Outer[Src[e]],
                                      first + From(k, lower, rate), first + UpTo(k, upper, rate)))

\* The edge is fed by a graph: its interface keeps the last tokens produced inside.
ExecDependencyGraph(h, e, lower, upper) ==
    LET rate == SrcRate(h, e)
        inner == InnerEdge(OutputIf(e))
        skipped(hk) == SrcRate(hk, inner) * RV(hk, Src[inner]) - rate + DelayValue(inner)
    IN ForFirings(lower, upper, rate,
            LAMBDA k :
                LET hk == SubFiring(h, Src[e], k)
                IN IF hk \in Resolved
                   THEN ExecDependency(hk, inner, skipped(hk) + From(k, lower, rate),
                                       skipped(hk) + UpTo(k, upper, rate))
                   ELSE <<Unresolved>>)

\* What a getter reads comes after what the sink of the delayed edge reads.
GetterOffset(h, e) ==
    LET d == DelayedEdge[Src[e]]
    IN IF Kind[Snk[d]] = "OUTPUT"
       THEN SrcRate(h, e) * RV(h, Src[d]) - SnkRate(h, d)
       ELSE SnkRate(h, d) * RV(h, Snk[d])

\* Tokens lower..upper read on an edge without delay, or past the delay.
FromSource(h, e, lower, upper) ==
    CASE Kind[Src[e]] = "INPUT" -> ExecDependencyInput(h, e, lower, upper)
      [] Kind[Src[e]] = "GRAPH" -> ExecDependencyGraph(h, e, lower, upper)
      [] OTHER -> IF SrcRate(h, e) = 0
                  THEN <<>>
                  ELSE <<Interval(h, e, SrcRate(h, e), lower, upper)>>

\* Mutant: what the source gives is not shifted by the delay.
ThroughDelay_Unshifted(h, e, lower, upper) ==
    LET value == DelayValue(e)
    IN CASE upper < value -> FromSource(h, SetterEdge(e), lower, upper)
         [] lower >= value -> FromSource(h, e, lower, upper)
         [] OTHER -> ExecDependency(h, SetterEdge(e), lower, value - 1)
                     \o ExecDependency(h, e, value, upper)

\* Tokens lower..upper read on an edge that no getter reads.
ThroughDelay(h, e, lower, upper) ==
    LET value == DelayValue(e)
    IN CASE upper < value -> FromSource(h, SetterEdge(e), lower, upper)
         [] lower >= value -> FromSource(h, e, lower - value, upper - value)
         [] OTHER -> ExecDependency(h, SetterEdge(e), lower, value - 1)
                     \o ExecDependency(h, e, value, upper)

ExecDependency(h, e, lower, upper) ==
    IF SnkRate(h, e) = 0
    THEN <<>>
    ELSE IF Kind[Src[e]] = "DELAY"
         THEN ThroughDelay(h, DelayedEdge[Src[e]],
                           lower + GetterOffset(h, e), upper + GetterOffset(h, e))
         ELSE ThroughDelay(h, e, lower, upper)

\* What firing f of the sink of e reads on e.
ExecDependencies(h, e, f) ==
    ExecDependency(h, e, SnkRate(h, e) * f, SnkRate(h, e) * (f + 1) - 1)

-----------------------------------------------------------------------------

RECURSIVE ConsDependency(_, _, _, _)

\* The edge leaves the graph: only the last tokens reach the interface, those
\* before them the getter of the delay, and the others nobody.
ConsDependencyOutput(h, e, lower, upper) ==
    LET total == SrcRate(h, e) * RV(h, Src[e])
        value == DelayValue(e)
        dep == Interval(h, e, total + value, lower + value, upper + value)
        getterStart == total - SnkRate(h, e)
        outStart == getterStart + value
        first == SnkRate(h, e) * FiringValue(h)
        outside == ConsDependency(Parent(h), Outer[Snk[e]],
                                  first + Max({0, dep.memoryStart - outStart}),
                                  first + dep.memoryEnd - outStart)
        getter(start, end) == ConsDependency(h, GetterEdge(e), start, end)
    IN CASE dep.memoryEnd < getterStart -> <<Void>>
         [] \/ dep.memoryStart >= outStart
            \/ value = 0 /\ dep.memoryEnd >= outStart -> outside
         [] Delayed(e) /\ dep.memoryEnd < outStart ->
                getter(Max({0, dep.memoryStart - getterStart}), dep.memoryEnd - getterStart)
         [] OTHER -> getter(dep.memoryStart - getterStart, value - 1) \o outside

\* Mutant: what the graph reads again is left out.
ConsDependencyGraph_Once(h, e, lower, upper) ==
    LET rate == SnkRate(h, e)
    IN ForFirings(lower, upper, rate,
            LAMBDA k :
                LET hk == SubFiring(h, Snk[e], k)
                IN IF hk \in Resolved
                   THEN ConsDependency(hk, InnerEdge(InputIf(e)), From(k, lower, rate),
                                       UpTo(k, upper, rate))
                   ELSE <<Unresolved>>)

\* The edge enters a graph, which reads its input again and again if it has to.
ConsDependencyGraph(h, e, lower, upper) ==
    LET rate == SnkRate(h, e)
        inner == InnerEdge(InputIf(e))
        repeated(hk, start, end) ==
            LET total == SnkRate(hk, inner) * RV(hk, Snk[inner])
                full == total \div rate
                again(i) == ConsDependency(hk, inner, start + i * rate, end + i * rate)
                rest == start + full * rate
            IN FlattenSeq([i \in 1 .. full |-> again(i - 1)])
               \o IF total % rate > 0 /\ rest < total
                  THEN ConsDependency(hk, inner, rest, Min({end + full * rate, total - 1}))
                  ELSE <<>>
    IN ForFirings(lower, upper, rate,
            LAMBDA k :
                LET hk == SubFiring(h, Snk[e], k)
                IN IF hk \in Resolved
                   THEN repeated(hk, From(k, lower, rate), UpTo(k, upper, rate))
                   ELSE <<Unresolved>>)

\* Tokens lower..upper produced on an edge, all read by its sink in this iteration.
ToSink(h, e, lower, upper) ==
    LET value == DelayValue(e)
    IN CASE Kind[Snk[e]] = "OUTPUT" -> ConsDependencyOutput(h, e, lower, upper)
         [] Kind[Snk[e]] = "GRAPH" -> ConsDependencyGraph(h, e, lower + value, upper + value)
         [] OTHER -> IF SnkRate(h, e) = 0
                     THEN <<>>
                     ELSE <<Interval(h, e, SnkRate(h, e), lower + value, upper + value)>>

\* How many of the tokens produced on e its sink reads.
SunkTotal(h, e) ==
    IF Kind[Snk[e]] = "OUTPUT"
    THEN SrcRate(h, e) * RV(h, Src[e]) + DelayValue(e)
    ELSE SnkRate(h, e) * RV(h, Snk[e]) - DelayValue(e)

ConsDependency(h, e, lower, upper) ==
    LET total == SunkTotal(h, e)
        next == DelayedEdge[Snk[e]]
        setterOffset == DelayValue(next) - DelayValue(e)
    IN CASE SrcRate(h, e) = 0 -> <<>>
         [] SrcRate(h, e) # 0 /\ Kind[Snk[e]] = "DELAY" ->
                ConsDependency(h, next, lower - setterOffset, upper - setterOffset)
         [] SrcRate(h, e) # 0 /\ Kind[Snk[e]] # "DELAY" ->
                CASE Delayed(e) /\ lower >= total ->
                        ConsDependency(h, GetterEdge(e), lower - total, upper - total)
                  [] upper < total -> ToSink(h, e, lower, upper)
                  [] OTHER -> ConsDependency(h, e, lower, total - 1)
                              \o ConsDependency(h, GetterEdge(e), 0, upper - total)

\* Who reads what firing f of the source of e writes on e.
ConsDependencies(h, e, f) ==
    ConsDependency(h, e, SrcRate(h, e) * f, SrcRate(h, e) * (f + 1) - 1)

-----------------------------------------------------------------------------
(* Resolving the firings of the graphs                                     *)

\* The firings of the graphs of h, resolved or not.
ChildrenOf(h) ==
    {SubFiring(h, g, k) : g \in {v \in VerticesAt(h) : Kind[v] = "GRAPH"},
                          k \in 0 .. Max({0} \cup Range(rv[h])) - 1}

Firings ==
    {<<>>} \cup {hk \in UNION {ChildrenOf(h) : h \in Resolved} :
                    FiringValue(hk) < rv[Parent(hk)][GraphOf(hk)]}

\* The edges of an interface have the rate of the edge outside.
AgreesOutside(h, e, rate) ==
    /\ Kind[Src[e]] = "INPUT" => rate[1] = SnkRate(Parent(h), Outer[Src[e]])
    /\ Kind[Snk[e]] = "OUTPUT" => rate[2] = SrcRate(Parent(h), Outer[Snk[e]])

\* The edges of a delay vertex carry the value of the delay.
AgreesWithDelay(e, rate) ==
    /\ Kind[Src[e]] = "DELAY" => rate[1] = delay[Src[e]] /\ rate[2] = delay[Src[e]]
    /\ Kind[Snk[e]] = "DELAY" => rate[1] = delay[Snk[e]] /\ rate[2] = delay[Snk[e]]

RateChoices(h) ==
    FoldSet(LAMBDA e, chosen :
                {(e :> r) @@ f : f \in chosen,
                    r \in {r \in RatesOf[e] : AgreesOutside(h, e, r) /\ AgreesWithDelay(e, r)}},
            {<< >>}, EdgesIn(GraphOf(h)))

\* GraphFiring::resolveFiring: the parameters of the firing have their values.
Record(h, chosen, brv) ==
    IF brv.ok
    THEN /\ rates' = (h :> chosen) @@ rates
         /\ rv' = (h :> brv.rv) @@ rv
         /\ UNCHANGED refused
    ELSE /\ refused' = <<GraphOf(h), chosen>>
         /\ UNCHANGED <<rates, rv>>

Resolve(h) ==
    /\ refused = <<>>
    /\ \E chosen \in RateChoices(h) : Record(h, chosen, ComputeBRV(GraphOf(h), chosen))
    /\ UNCHANGED <<root, delay>>

\* The vertices of a graph and of the graphs in it.
RECURSIVE VerticesUnder(_)
VerticesUnder(g) ==
    Range(VerticesOf[g]) \cup
        UNION {VerticesUnder(v) : v \in {v \in Range(VerticesOf[g]) : Kind[v] = "GRAPH"}}

\* The delays of the other applications do not matter.
Init ==
    /\ root \in Roots
    /\ delay \in {d \in [DOMAIN DelaysOf -> UNION Range(DelaysOf)] :
                    \A v \in DOMAIN d : IF v \in VerticesUnder(root)
                                        THEN d[v] \in DelaysOf[v]
                                        ELSE d[v] = Min(DelaysOf[v])}
    /\ rates = << >>
    /\ rv = << >>
    /\ refused = <<>>

Next == \E h \in Firings \ Resolved : Resolve(h)

Spec == Init /\ [][Next]_analysisVars

-----------------------------------------------------------------------------
(* Properties                                                              *)

\* A resolved firing has a repetition value for each of its vertices, and its
\* parent is resolved (GraphFiring is created by its parent).
AnalysisTypeOK ==
    /\ DOMAIN rv = Resolved
    /\ \A h \in Resolved :
        /\ rv[h] \in [VerticesAt(h) -> Nat]
        /\ h # <<>> => Parent(h) \in Resolved /\ FiringValue(h) < rv[Parent(h)][GraphOf(h)]

\* The edges of graph g between two vertices of it.
ActorEdges(g) == {e \in EdgesIn(g) : {Kind[Src[e]], Kind[Snk[e]]} \cap Interface = {}}

Balanced(g, rate, n) == \A e \in ActorEdges(g) : rate[e][1] * n[Src[e]] = rate[e][2] * n[Snk[e]]

Serves(g, rate, n) ==
    \A e \in EdgesIn(g) :
        /\ Kind[Src[e]] = "INPUT" => rate[e][2] * n[Snk[e]] >= rate[e][1]
        /\ Kind[Snk[e]] = "OUTPUT" => rate[e][1] * n[Src[e]] >= rate[e][2]

\* The vertices joined to v by edges between vertices.
RECURSIVE Joined(_, _)
Joined(g, found) ==
    LET more == found \cup UNION {{Src[e], Snk[e]} : e \in {a \in ActorEdges(g) :
                                                    {Src[a], Snk[a]} \cap found # {}}}
    IN IF more = found THEN found ELSE Joined(g, more)

RECURSIVE GCDOf(_)
GCDOf(S) == IF S = {} THEN 0 ELSE LET x == CHOOSE x \in S : TRUE IN GCD(x, GCDOf(S \ {x}))

\* brv::compute: the repetition values balance every edge, every interface gets
\* and gives what the graph outside expects in one firing, and the vertices of
\* a component that reaches no interface have no common factor.
RepetitionVectorSound ==
    \A h \in Resolved :
        LET g == GraphOf(h) IN
        /\ Balanced(g, rates[h], rv[h])
        /\ Serves(g, rates[h], rv[h])
        /\ \A v \in VerticesAt(h) :
            LET all == Joined(g, {v})
            IN (~ \E e \in EdgesIn(g) : /\ {Src[e], Snk[e]} \cap all # {}
                                        /\ e \notin ActorEdges(g))
               => GCDOf({rv[h][w] : w \in all}) \in {0, 1}

\* brv::compute throws only if an edge has one rate of 0, or if no positive
\* numbers of firings balance the edges.
RefusedOnlyIfInconsistent ==
    refused # <<>> =>
        \/ \E e \in EdgesIn(refused[1]) : ~ValidRates(e, refused[2])
        \/ ~ \E n \in [{v \in Range(VerticesOf[refused[1]]) : Kind[v] = "NORMAL"} -> 1 .. 9] :
                \A e \in ActorEdges(refused[1]) :
                    {Src[e], Snk[e]} \subseteq DOMAIN n
                    => refused[2][e][1] * n[Src[e]] = refused[2][e][2] * n[Snk[e]]

\* brv::compute finds repetition values exactly when the rates have some, and
\* those it finds are right.
RepetitionVectorExact == RepetitionVectorSound /\ RefusedOnlyIfInconsistent

\* Who produced token n of the sink of e, followed one token at a time.
RECURSIVE Producer(_, _, _)
Producer(h, e, n) ==
    LET value == DelayValue(e)
        t == n - value
    IN CASE Kind[Src[e]] = "DELAY" ->
                LET d == DelayedEdge[Src[e]]
                IN IF Kind[Snk[d]] = "OUTPUT"
                   THEN Producer(h, d, SrcRate(h, d) * RV(h, Src[d]) - SnkRate(h, d) + n)
                   ELSE Producer(h, d, SnkRate(h, d) * RV(h, Snk[d]) + n)
         [] Kind[Src[e]] # "DELAY" /\ n < value -> Producer(h, SetterEdge(e), n)
         [] Kind[Src[e]] = "INPUT" /\ n >= value ->
                LET rate == SrcRate(h, e)
                IN Producer(Parent(h), Outer[Src[e]], rate * FiringValue(h) + (t % rate))
         [] Kind[Src[e]] = "GRAPH" /\ n >= value ->
                LET rate == SrcRate(h, e)
                    hk == SubFiring(h, Src[e], t \div rate)
                    inner == InnerEdge(OutputIf(e))
                    last == SrcRate(hk, inner) * RV(hk, Src[inner]) + DelayValue(inner)
                IN IF hk \in Resolved
                   THEN Producer(hk, inner, last - rate + (t % rate))
                   ELSE <<hk>>
         [] Kind[Src[e]] \notin {"DELAY", "INPUT", "GRAPH"} /\ n >= value -> <<h, e, t>>

TokensOf(dep) ==
    LET first == dep.firingStart * dep.rate + dep.memoryStart
        last == dep.firingEnd * dep.rate + dep.memoryEnd
    IN [n \in 1 .. last - first + 1 |-> <<dep.handler, dep.edge, first + n - 1>>]

\* The tasks: firings of what can be executed.
Executable(v) == Kind[v] \notin Interface \cup {"GRAPH", "DELAY"}
TasksOf(h) == {<<v, f>> \in {v \in VerticesAt(h) : Executable(v)}
                            \X (0 .. Max({0} \cup Range(rv[h])) - 1) : f < rv[h][v]}

\* computeExecDependency: the intervals of firings name, in order, the producers
\* that following each token by itself finds; a graph firing that is not
\* resolved is named instead of what it contains.
ExecExact ==
    \A h \in Resolved : \A task \in TasksOf(h) : \A p \in DOMAIN InEdges[task[1]] :
        LET e == InEdges[task[1]][p]
            first == SnkRate(h, e) * task[2]
            deps == ExecDependencies(h, e, task[2])
            found == [n \in 1 .. SnkRate(h, e) |-> Producer(h, e, first + n - 1)]
        IN /\ FlattenSeq([i \in DOMAIN deps |->
                            IF IsUnresolved(deps[i]) THEN <<>> ELSE TokensOf(deps[i])])
              = SelectSeq(found, LAMBDA t : Len(t) = 3)
           /\ Cardinality({i \in DOMAIN deps : IsUnresolved(deps[i])})
              = Cardinality({t \in Range(found) : Len(t) = 1})

\* Every (producer's token, consumer's token) pair, from the consumers.
Reads ==
    UNION {{<<Producer(h, e, n), <<h, e, n>>>> : n \in 0 .. SnkRate(h, e) * rv[h][Snk[e]] - 1} :
             <<h, e>> \in {<<h, e>> \in Resolved \X Edge :
                                e \in EdgesIn(GraphOf(h)) /\ Executable(Snk[e])}}

\* computeConsDependency is the inverse of computeExecDependency: the consumers
\* of a firing are those whose tokens it produced.
ConsInverse ==
    Firings = Resolved =>
        LET reads == Reads IN
        \A h \in Resolved : \A task \in TasksOf(h) : \A p \in DOMAIN OutEdges[task[1]] :
            LET e == OutEdges[task[1]][p]
                first == SrcRate(h, e) * task[2]
                mine == {<<h, e, t>> : t \in first .. first + SrcRate(h, e) - 1}
                deps == ConsDependencies(h, e, task[2])
            IN UNION {Range(TokensOf(deps[i])) : i \in {i \in DOMAIN deps : ~IsVoid(deps[i])}}
               = {r[2] : r \in {r \in reads : r[1] \in mine}}
=============================================================================
