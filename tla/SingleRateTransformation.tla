------------------------ MODULE SingleRateTransformation ------------------------
(***************************************************************************)
(* What the single-rate runtimes make of an application: the hierarchy is  *)
(* flattened into one single-rate graph, at once, or in as many phases as  *)
(* it takes to know the parameters.  A job is the firing of a graph: its   *)
(* vertices are cloned as many times as they fire, every edge is cut into  *)
(* edges between clones, with forks where a clone feeds several and joins  *)
(* where a clone is fed by several, its interfaces become repeats and      *)
(* tails, and its delays disappear.  When no job of the phase is left the  *)
(* graph is optimised.                                                     *)
(* The rates of a firing are those of the first firing of its graph in the *)
(* same firing of the parent: a static graph has the parameters of its     *)
(* parent.                                                                 *)
(***************************************************************************)
EXTENDS Dependencies, Optimizations, SpecialKernels

CONSTANTS
    Persistent,     \* the delay vertices whose delay is persistent
    Dynamic         \* the graphs whose actors set parameters of their graphs

ASSUME PersistentAssumption ==
    /\ Persistent \subseteq DOMAIN DelayedEdge
    /\ Dynamic \subseteq DOMAIN VerticesOf

VARIABLES
    srdag,      \* the single-rate graph
    phase,      \* which jobs are transformed: "STATIC", or the "DYNAMIC" ones
    jobs,       \* the jobs that are left, by level: [h, instance]
    later,      \* the jobs of the next phases, by what they are
    remaining,  \* whether singleRateLinkage() threw: sources were left without sinks
    pass,       \* the pass that optimize() is at
    changed     \* whether this turn of the loop of optimize() found something

srVars == <<srdag, phase, jobs, later, remaining, pass, changed>>
vars == <<analysisVars, srVars>>

-----------------------------------------------------------------------------
(* A job being transformed: j has the firing h, its rates and its values   *)
(* rv, and the clone that stands for it; s.g is the graph, s.clones the    *)
(* first clone of each vertex.                                             *)

Repetition(j, v) == IF Kind[v] \in Interface THEN 1 ELSE j.rv[v]
Given(j, e) == j.rates[e][1]
Wanted(j, e) == j.rates[e][2]
NullEdge(j, e) == Given(j, e) = 0 /\ Wanted(j, e) = 0

\* The port of e on a vertex of the PiSDF graph.
PortOf(edges, e) == SelectInSeq(edges, LAMBDA f : f = e) - 1
SourcePort(e) == PortOf(OutEdges[Src[e]], e)
SinkPort(e) == PortOf(InEdges[Snk[e]], e)

\* A delay has two inputs and two outputs: (0) the setter and (1) what comes
\* out of the delay for the setter's tokens, and the other way for the getter.
Clone(j, v, firing) ==
    [type |-> IF Kind[v] = "GRAPH" THEN "NORMAL" ELSE Kind[v],
     nIn |-> IF Kind[v] = "DELAY" THEN 2 ELSE Len(InEdges[v]),
     nOut |-> IF Kind[v] = "DELAY" THEN 2 ELSE Len(OutEdges[v]),
     task |-> <<j.h, v, firing>>,
     executable |-> Kind[v] \notin {"GRAPH", "DELAY"},
     hasTask |-> FALSE]

CloneVertex(s, j, v) ==
    [s EXCEPT
        !.g = FoldLeft(LAMBDA g, k : AddVertex(g, Clone(j, v, k - 1)), @, [k \in 1 .. j.rv[v] |-> k]),
        !.clones = (v :> s.g.next) @@ @]

ClonesOf(s, j, v) == [k \in 1 .. j.rv[v] |-> s.clones[v] + k - 1]

FutureJobs(s, j) ==
    FlattenSeq([n \in DOMAIN VerticesOf[GraphOf(j.h)] |->
        LET v == VerticesOf[GraphOf(j.h)][n]
        IN IF Kind[v] # "GRAPH" THEN <<>>
           ELSE [k \in 1 .. j.rv[v] |-> [h |-> SubFiring(j.h, v, k - 1),
                                         instance |-> s.clones[v] + k - 1]]])

-----------------------------------------------------------------------------
(* What feeds an edge and what it feeds, first firing first                *)

\* Mutant: last firing first.
Populated_LastFirst(s, j, v, port, rate) ==
    [k \in DOMAIN ClonesOf(s, j, v) |-> Linker(Reverse(ClonesOf(s, j, v))[k], port, rate)]

Populated(s, j, v, port, rate) ==
    [k \in DOMAIN ClonesOf(s, j, v) |-> Linker(ClonesOf(s, j, v)[k], port, rate)]

\* populateFromDelayVertex(): the other end of what is linked to the delay.
BeforeDelay(g, e) == <<Linker(Source(g, e), g.edges[e].out, Rate(g, e))>>
AfterDelay(g, e) == <<Linker(Sink(g, e), g.edges[e].in, Rate(g, e))>>

\* Mutant: an output interface is taken for one that lets everything through.
IsInterfaceTransparent_Outputs(j, i) ==
    Kind[i] = "INPUT" =>
        Repetition(j, Snk[InnerEdge(i)]) * Wanted(j, InnerEdge(i)) = Given(j, InnerEdge(i))

IsInterfaceTransparent(j, i) ==
    LET e == InnerEdge(i)
    IN IF Kind[i] = "INPUT"
       THEN Repetition(j, Snk[e]) * Wanted(j, e) = Given(j, e)
       ELSE Repetition(j, Src[e]) * Given(j, e) = Wanted(j, e)

\* The edge outside of an interface, on the clone that stands for the graph.
OuterInput(s, j, i) == InputEdge(s.g, j.instance, SinkPort(Outer[i]))
OuterOutput(s, j, i) == OutputEdge(s.g, j.instance, SourcePort(Outer[i]))

FromInterface(s, j, e) ==
    LET outer == OuterInput(s, j, Src[e])
    IN IF IsInterfaceTransparent(j, Src[e])
       THEN [g |-> s.g, list |-> BeforeDelay(s.g, outer)]
       ELSE [g |-> SetSink(Create(s.g, "REPEAT", 1, 1), outer, s.g.next, 0),
             list |-> <<Linker(s.g.next, 0, Wanted(j, e) * Repetition(j, Snk[e]))>>]

ToInterface(s, j, e) ==
    LET outer == OuterOutput(s, j, Snk[e])
    IN IF IsInterfaceTransparent(j, Snk[e])
       THEN [g |-> s.g, list |-> AfterDelay(s.g, outer)]
       ELSE [g |-> SetSource(Create(s.g, "TAIL", 1, 1), outer, s.g.next, 0),
             list |-> <<Linker(s.g.next, 0, Given(j, e) * Repetition(j, Src[e]))>>]

\* What the delay vertex at the source of e gives to its getter: what the source
\* of the delayed edge gives it, if it is known; else the delay vertex itself.
FromDelay(s, j, e) ==
    LET v == s.clones[Src[e]]
        delayed == InputEdge(s.g, v, 1)
        setter == InputEdge(s.g, v, 0)
    IN CASE delayed # None -> BeforeDelay(s.g, delayed)
         [] delayed = None /\ NullEdge(j, DelayedEdge[Src[e]]) /\ setter # None ->
                BeforeDelay(s.g, setter)
         [] OTHER -> Populated(s, j, Src[e], SourcePort(e), Given(j, e))

ToDelay(s, j, e) ==
    LET v == s.clones[Snk[e]]
        delayed == OutputEdge(s.g, v, 1)
        getter == OutputEdge(s.g, v, 0)
    IN CASE delayed # None -> AfterDelay(s.g, delayed)
         [] delayed = None /\ NullEdge(j, DelayedEdge[Snk[e]]) /\ getter # None ->
                AfterDelay(s.g, getter)
         [] OTHER -> Populated(s, j, Snk[e], SinkPort(e), Wanted(j, e))

Setter(s, j, e) ==
    LET v == s.clones[DelayVertex(e)]
        linked == InputEdge(s.g, v, 0)
    IN CASE ~Delayed(e) -> <<>>
         [] Delayed(e) /\ linked # None -> BeforeDelay(s.g, linked)
         [] OTHER -> Populated(s, j, DelayVertex(e), 1, DelayValue(e))

Getter(s, j, e) ==
    LET v == s.clones[DelayVertex(e)]
        linked == OutputEdge(s.g, v, 0)
    IN CASE ~Delayed(e) -> <<>>
         [] Delayed(e) /\ linked # None -> AfterDelay(s.g, linked)
         [] OTHER -> Populated(s, j, DelayVertex(e), 1, DelayValue(e))

BuildSinkLinkerVector(s, j, e) ==
    LET sinks == CASE Kind[Snk[e]] = "OUTPUT" -> ToInterface(s, j, e)
                   [] Kind[Snk[e]] = "DELAY" -> [g |-> s.g, list |-> ToDelay(s, j, e)]
                   [] OTHER -> [g |-> s.g,
                                list |-> Populated(s, j, Snk[e], SinkPort(e), Wanted(j, e))]
    IN [sinks EXCEPT !.list = @ \o Getter(s, j, e)]

BuildSourceLinkerVector(s, j, e) ==
    LET sources == CASE Kind[Src[e]] = "INPUT" -> FromInterface(s, j, e)
                     [] Kind[Src[e]] = "DELAY" -> [g |-> s.g, list |-> FromDelay(s, j, e)]
                     [] OTHER -> [g |-> s.g,
                                  list |-> Populated(s, j, Src[e], SourcePort(e), Given(j, e))]
    IN [sources EXCEPT !.list = Setter(s, j, e) \o @]

-----------------------------------------------------------------------------
(* The dependencies of the sinks on the sources, as positions in the list  *)

WithDeps(link, lower, upper) == [lower |-> lower, upper |-> upper] @@ link

ComputeConsLowerDep(consumption, production, firing, value) ==
    Max({-1, (firing * consumption - value) \div production})
ComputeConsUpperDep(consumption, production, firing, value) ==
    Max({-1, ((firing + 1) * consumption - value - 1) \div production})

\* The source's rate is that of the last source, the sink's that of the first sink.
SinksWithDeps(j, e, sources, sinks) ==
    LET offset == IF Delayed(e) THEN 1 ELSE 0
        srcRate == Last(sources).rate
        snkRate == Head(sinks).rate
        firings == Repetition(j, Snk[e])
        deps(link, rate, firing, value) ==
            WithDeps(link, offset + ComputeConsLowerDep(rate, srcRate, firing, value),
                           offset + ComputeConsUpperDep(rate, srcRate, firing, value))
    IN [n \in DOMAIN sinks |->
            IF n =< firings
            THEN deps(sinks[n], snkRate, n - 1, DelayValue(e))
            ELSE deps(sinks[n], Last(sinks).rate, n - 1 - firings, DelayValue(e) - snkRate * firings)]

\* A source in the middle of what a sink reads is left without.
SourcesWithDeps(sources, sinks) ==
    [n \in DOMAIN sources |->
        LET readers == {m \in DOMAIN sinks : n - 1 \in {sinks[m].lower, sinks[m].upper}}
        IN IF readers = {} THEN WithDeps(sources[n], 1, 0)
           ELSE WithDeps(sources[n], Min(readers) - 1, Max(readers) - 1)]

-----------------------------------------------------------------------------
(* Linking                                                                 *)

Rest(list, n) == SubSeq(list, n, Len(list))
RateOf(list, n) == SumOf([i \in 1 .. n |-> list[i].rate])

\* The rest of what a fork has to give, or of what a join has to get.  (The code
\* reads whole.upper through a reference to a popped element, whose slot the
\* rest now has: it gets 0 twice; only that both are equal matters.)
Remaining(vertex, count, whole, used) ==
    WithDeps(Linker(vertex, count - 1, whole.rate - used), whole.upper, whole.upper)

AddForkVertex(g, sources, sinks) ==
    LET source == Head(sources)
        count == source.upper - source.lower + 1
        fork == g.next
        forked == CreateEdge(Create(g, "FORK", 1, count), source.vertex, source.port, fork, 0, source.rate)
    IN [g |-> FoldLeft(LAMBDA h, i : CreateEdge(h, fork, i - 1, sinks[i].vertex, sinks[i].port,
                                                sinks[i].rate),
                       forked, [i \in 1 .. count - 1 |-> i]),
        sources |-> <<Remaining(fork, count, source, RateOf(sinks, count - 1))>> \o Tail(sources),
        sinks |-> Rest(sinks, count)]

AddJoinVertex(g, sources, sinks) ==
    LET sink == Head(sinks)
        count == sink.upper - sink.lower + 1
        join == g.next
        joined == CreateEdge(Create(g, "JOIN", count, 1), join, 0, sink.vertex, sink.port, sink.rate)
    IN [g |-> FoldLeft(LAMBDA h, i : CreateEdge(h, sources[i].vertex, sources[i].port, join, i - 1,
                                                sources[i].rate),
                       joined, [i \in 1 .. count - 1 |-> i]),
        sources |-> Rest(sources, count),
        sinks |-> <<Remaining(join, count, sink, RateOf(sources, count - 1))>> \o Tail(sinks)]

\* [g, sources, sinks], until no sink is left.
RECURSIVE Link(_)
Link(l) ==
    IF l.sinks = <<>> THEN l
    ELSE LET source == Head(l.sources)
             sink == Head(l.sinks)
         IN CASE sink.lower # sink.upper -> Link(AddJoinVertex(l.g, l.sources, l.sinks))
              [] sink.lower = sink.upper /\ source.lower # source.upper ->
                    Link(AddForkVertex(l.g, l.sources, l.sinks))
              [] OTHER -> Link([g |-> CreateEdge(l.g, source.vertex, source.port,
                                                 sink.vertex, sink.port, sink.rate),
                                sources |-> Tail(l.sources), sinks |-> Tail(l.sinks)])

\* Both rates are 0: a vertex that does nothing at each end.
LinkNullEdge(s, j, e) ==
    LET toSink(g, v) == CreateEdge(Create(g, "VOID", 0, 1), g.next, 0, v, SinkPort(e), 0)
        toSource(g, v) == CreateEdge(Create(g, "VOID", 1, 0), v, SourcePort(e), g.next, 0, 0)
        cloned(v) == IF Kind[v] \in Interface THEN <<>> ELSE ClonesOf(s, j, v)
    IN FoldLeft(toSource, FoldLeft(toSink, s.g, cloned(Snk[e])), cloned(Src[e]))

WithSources(g, sources, sinks) ==
    [g |-> g, sinks |-> sinks, sources |-> SourcesWithDeps(sources, sinks)]
WithSinks(sources, to, j, e) == WithSources(to.g, sources, SinksWithDeps(j, e, sources, to.list))
Linked(s, l) == [s EXCEPT !.g = l.g, !.remaining = @ \/ l.sources # <<>>]

SingleRateLinkage(s, j, e) ==
    IF NullEdge(j, e)
    THEN [s EXCEPT !.g = LinkNullEdge(s, j, e)]
    ELSE LET fromSources(from) ==
                WithSinks(from.list, BuildSinkLinkerVector([s EXCEPT !.g = from.g], j, e), j, e)
         IN Linked(s, Link(fromSources(BuildSourceLinkerVector(s, j, e))))

\* A loop needs a delay, with enough tokens for a firing.
Insufficient(j, e) ==
    Src[e] = Snk[e] /\ (~Delayed(e) \/ DelayValue(e) < Wanted(j, e))

-----------------------------------------------------------------------------
(* singleRateTransformation()                                              *)

RemoveInstance(g, instance) == IF instance = None THEN g ELSE RemoveVertex(g, instance)

Unconnected(g) == {e \in DOMAIN g.edges : Source(g, e) = None /\ Sink(g, e) = None}

\* The edges of the graph, in one order and in the opposite one.
Listings(g) ==
    LET outgoing == FlattenSeq([n \in DOMAIN VerticesOf[g] |-> OutEdges[VerticesOf[g][n]]])
        incoming == FlattenSeq([n \in DOMAIN VerticesOf[g] |->
            SelectSeq(InEdges[VerticesOf[g][n]], LAMBDA e : Kind[Src[e]] = "INPUT")])
    IN {incoming \o outgoing, Reverse(incoming \o outgoing)}

NoClones == [g |-> srdag, clones |-> << >>, remaining |-> FALSE]

\* The instance of the graph, its delay vertices and the edges left over go away.
RemoveUnconnected(g) == FoldSet(LAMBDA e, h : RemoveEdge(h, e), g, Unconnected(g))
Cleaned(linked, j) ==
    RemoveUnconnected(
        FoldLeft(LAMBDA g, v : RemoveVertex(g, linked.clones[v]),
                 RemoveInstance(linked.g, j.instance),
                 SelectSeq(VerticesOf[GraphOf(j.h)], LAMBDA v : Kind[v] = "DELAY")))

CloneAll(j) == FoldLeft(LAMBDA s, v : CloneVertex(s, j, v), NoClones, VerticesOf[GraphOf(j.h)])
LinkAll(j, edgeList) == FoldLeft(LAMBDA s, e : SingleRateLinkage(s, j, e), CloneAll(j), edgeList)

\* The graphs in a dynamic graph wait for its actors to run; those in a static
\* one, in a dynamic phase, for the phase that follows.
AddJobs(type, future) ==
    IF phase = "STATIC" /\ type = "STATIC"
    THEN jobs' = Tail(jobs) \o future /\ UNCHANGED later
    ELSE jobs' = Tail(jobs) /\ later' = [later EXCEPT ![type] = @ \o future]

Finish(linked, j) ==
    /\ srdag' = Cleaned(linked, j)
    /\ AddJobs(IF GraphOf(j.h) \in Dynamic THEN "DYNAMIC" ELSE "STATIC", FutureJobs(linked, j))
    /\ remaining' = linked.remaining

FirstOfGraph(h) == IF h = <<>> THEN h ELSE Append(Parent(h), <<GraphOf(h), 0>>)

Transform(job, brv) ==
    /\ Record(job.h, job.rates,
              [brv EXCEPT !.ok = @ /\ ~ \E e \in EdgesIn(GraphOf(job.h)) : Insufficient(job, e)])
    /\ IF refused' # <<>>
       THEN UNCHANGED <<srdag, jobs, later, remaining>>
       ELSE LET j == [rv |-> brv.rv] @@ job
            IN \E edgeList \in Listings(GraphOf(j.h)) : Finish(LinkAll(j, edgeList), j)

\* brv::compute runs for the first firing; the others find its values.
TransformJob ==
    /\ jobs # <<>>
    /\ refused = <<>>
    /\ ~remaining
    /\ LET h == Head(jobs).h
           first == FirstOfGraph(h)
       IN \E chosen \in IF h = first THEN RateChoices(h) ELSE {rates[first]} :
            Transform([h |-> h, rates |-> chosen, instance |-> Head(jobs).instance],
                      IF h = first THEN ComputeBRV(GraphOf(h), chosen)
                      ELSE [ok |-> TRUE, rv |-> rv[first]])
    /\ UNCHANGED <<root, delay, phase, pass, changed>>

-----------------------------------------------------------------------------
(* optims::optimize()                                                      *)

Optimize(from, to, g, found) ==
    /\ jobs = <<>>
    /\ refused = <<>>
    /\ ~remaining
    /\ pass = from
    /\ pass' = to
    /\ srdag' = g
    /\ changed' = found
    /\ UNCHANGED <<analysisVars, phase, jobs, later, remaining>>

ReduceUnitary ==
    Optimize("Unitary", "ForkFork", ReduceUnitaryRateActors(srdag, 1), FALSE)
ReduceForkFork ==
    Optimize("ForkFork", "JoinJoin", ReducePairs(srdag, "FORK"), changed \/ Pairs(srdag, "FORK") # <<>>)
ReduceJoinJoin ==
    Optimize("JoinJoin", "JoinFork", ReducePairs(srdag, "JOIN"), changed \/ Pairs(srdag, "JOIN") # <<>>)
ReduceJoinForkAgain ==
    LET again == changed \/ JoinForks(srdag) # <<>>
    IN Optimize("JoinFork", IF again THEN "ForkFork" ELSE "RepeatFork", ReduceJoinFork(srdag), FALSE)
ReduceRepeats == Optimize("RepeatFork", "DupDup", ReduceRepeatFork(srdag), FALSE)
ReduceDupDup == Optimize("DupDup", "JoinEnd", ReducePairs(srdag, "DUPLICATE"), FALSE)

EndsPersistentDelay(v) ==
    LET task == srdag.info[v].task
    IN task # <<>> /\ Src[InEdges[task[2]][1]] \in Persistent
ReduceEnds == Optimize("JoinEnd", "InitEnd", ReduceJoinEnd(srdag, EndsPersistentDelay), FALSE)
ReduceInits == Optimize("InitEnd", "Optimized", ReduceInitEnd(srdag), FALSE)

-----------------------------------------------------------------------------
(* What the vertices do to tokens                                          *)

\* A task gives tokens of its own; the tokens of a graph whose job is left have
\* one name.
OwnTokens(task, n, rate) ==
    [i \in 1 .. rate |-> IF Kind[task[2]] = "GRAPH"
                          THEN <<SubFiring(task[1], task[2], task[3])>>
                          ELSE <<task[1], OutEdges[task[2]][n], task[3] * rate + i - 1>>]

\* What vertex v gives on its n-th output from the tokens on its inputs: the
\* special vertices run their kernels.
KernelOutput(g, v, n, inputs) ==
    LET rateOf(e) == IF e = None THEN 0 ELSE Rate(g, e)
        outRates == [m \in DOMAIN Outputs(g, v) |-> rateOf(Outputs(g, v)[m])]
    IN CASE Type(g, v) = "FORK" -> Fork(outRates, inputs[1], n)
         [] Type(g, v) = "JOIN" -> Join(inputs)
         [] Type(g, v) = "DUPLICATE" -> inputs[1]
         [] Type(g, v) = "REPEAT" -> Repeat(outRates[n], inputs[1])
         [] Type(g, v) = "TAIL" -> TailOne(outRates[n], inputs[1])
         [] Type(g, v) = "VOID" -> <<>>
         [] OTHER -> OwnTokens(g.info[v].task, n, outRates[n])

-----------------------------------------------------------------------------

SingleRateInit ==
    /\ Init
    /\ srdag = Empty
    /\ phase = "STATIC"
    /\ later = [STATIC |-> <<>>, DYNAMIC |-> <<>>]
    /\ jobs = <<[h |-> <<>>, instance |-> None]>>
    /\ remaining = FALSE
    /\ pass = "Unitary"
    /\ changed = FALSE

SingleRateNext ==
    \/ TransformJob
    \/ ReduceUnitary
    \/ ReduceForkFork
    \/ ReduceJoinJoin
    \/ ReduceJoinForkAgain
    \/ ReduceRepeats
    \/ ReduceDupDup
    \/ ReduceEnds
    \/ ReduceInits

SingleRateSpec == SingleRateInit /\ [][SingleRateNext]_vars

-----------------------------------------------------------------------------
(* Properties                                                              *)

\* The tokens on an edge of the single-rate graph, from the sources on.
RECURSIVE TokensOn(_, _, _)
TokensOn(g, e, depth) ==
    IF e = None \/ Source(g, e) = None \/ depth = 0
    THEN <<>>
    ELSE LET v == Source(g, e)
         IN KernelOutput(g, v, g.edges[e].out + 1,
                         [n \in DOMAIN Inputs(g, v) |-> TokensOn(g, Inputs(g, v)[n], depth - 1)])

\* The special actors of the application pass tokens of others on.
Passing == {"FORK", "JOIN", "DUPLICATE"}

RECURSIVE Origin(_)
Origin(token) ==
    LET h == token[1]
        e == token[2]
        v == Src[e]
        firing == token[3] \div SrcRate(h, e)
        place == token[3] % SrcRate(h, e)
        before(edges, rateOf(_), n) == SumOf([i \in 1 .. n - 1 |-> rateOf(edges[i])])
        out == [f \in Range(OutEdges[v]) |-> SrcRate(h, f)]
        in == [f \in Range(InEdges[v]) |-> SnkRate(h, f)]
        read(f, n) == Origin(Producer(h, f, SnkRate(h, f) * firing + n))
    IN IF Len(token) = 1 \/ Kind[v] \notin Passing THEN token
       ELSE CASE Kind[v] = "FORK" ->
                    read(InEdges[v][1], place + before(OutEdges[v], LAMBDA f : out[f], SourcePort(e) + 1))
              [] Kind[v] = "DUPLICATE" -> read(InEdges[v][1], place)
              [] Kind[v] = "JOIN" ->
                    LET n == Max({i \in DOMAIN InEdges[v] :
                                    before(InEdges[v], LAMBDA f : in[f], i) =< place})
                    IN read(InEdges[v][n], place - before(InEdges[v], LAMBDA f : in[f], n))

\* What the firings of the hierarchical application read.
Read(task, port) ==
    LET h == task[1]
        e == InEdges[task[2]][port]
    IN [n \in 1 .. SnkRate(h, e) |-> Origin(Producer(h, e, SnkRate(h, e) * task[3] + n - 1))]

\* The firings that have work of their own, and the graphs not transformed yet.
Workers ==
    UNION {{<<h, v, k>> : v \in {w \in VerticesAt(h) : Kind[w] \in {"NORMAL", "GRAPH"}},
                          k \in 0 .. Max({0} \cup Range(rv[h])) - 1} : h \in Resolved}
Working ==
    {t \in Workers : /\ t[3] < rv[t[1]][t[2]]
                     /\ Kind[t[2]] = "GRAPH" => SubFiring(t[1], t[2], t[3]) \notin Resolved}

\* Every firing of an actor is one vertex of the single-rate graph, and reads on
\* each port the tokens that it reads in the application, in their order, after
\* any number of jobs and any optimisation (singleRateTransformation, optimize).
TokensInOrder ==
    \A t \in Working :
        \E v \in DOMAIN srdag.info :
            /\ srdag.info[v].task = t
            /\ \A w \in DOMAIN srdag.info : srdag.info[w].task = t => w = v
            /\ \A p \in DOMAIN InEdges[t[2]] :
                TokensOn(srdag, InputEdge(srdag, v, p - 1), Len(srdag.vertices)) = Read(t, p)

\* "this a sanity check, if go there, something bad happened that can not be
\* tested directly" (singleRateLinkage): the dependencies of the sinks use up
\* the sources, whatever the rates and the delay.  And when no job is left, every
\* port of every vertex has its edge, and every edge two vertices: the tasks look
\* their predecessors and successors up by port (SRDAGTask::previousTask).
GraphComplete ==
    /\ ~remaining
    /\ jobs = <<>> =>
        /\ \A e \in DOMAIN srdag.edges : None \notin {Source(srdag, e), Sink(srdag, e)}
        /\ \A v \in DOMAIN srdag.info :
            None \notin Range(Inputs(srdag, v)) \cup Range(Outputs(srdag, v))

\* "@param vertex Pointer to the pisdf::Vertex associated with the delay"
\* (buildEndRuntimeInputParameters): an end that a task is made for ends the
\* delay that its reference vertex is linked to.
EndsKnowTheirDelay ==
    pass = "Optimized" =>
        \A v \in DOMAIN srdag.info :
            Type(srdag, v) = "END" =>
                LET task == srdag.info[v].task
                IN task # <<>> /\ InEdges[task[2]] # <<>>
=============================================================================
