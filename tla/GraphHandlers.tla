---------------------------- MODULE GraphHandlers ----------------------------
(***************************************************************************)
(* The resolution of a hierarchical dynamic graph: what GraphHandler and   *)
(* GraphFiring keep of every firing of every graph, and the rounds in      *)
(* which PiSDFJITMSRuntime resolves them.                                  *)
(*                                                                         *)
(* A graph with configuration actors holds one subgraph only, the graph    *)
(* "run" that recursiveSplitDynamicGraph made: the firings of run are      *)
(* resolved when the actors have sent the parameters of the graph.         *)
(*                                                                         *)
(* A firing is named by its path, the firings it is in and its own.  The   *)
(* repetition vector and the rates of a firing are functions of at most    *)
(* one parameter: the value they were computed with stands for them.       *)
(***************************************************************************)
EXTENDS Naturals, Sequences, FiniteSets

CONSTANTS
    Graph, Root,
    Upper,          \* the graph a graph is in
    Config,         \* the number of configuration actors of a graph, each with its parameter
    DependsOn,      \* the parameter that the rates of a graph depend on: <<graph, ix>>, or <<>>
    Repetition,     \* the repetition of a graph: a number, or 0 for the rates of its upper graph
    Value,          \* the values of parameters
    MaxExecutions   \* bound on the executions

Subgraphs(g) == {h \in Graph \ {Root} : Upper[h] = g}

\* g is in h, or in a graph that is.
Inside(g, h) ==
    /\ g # h
    /\ \A S \in SUBSET Graph : g \in S /\ (\A x \in S \ {Root} : Upper[x] \in S) => h \in S

ASSUME GraphAssumption ==
    /\ IsFiniteSet(Graph) /\ Root \in Graph
    /\ Upper \in [Graph \ {Root} -> Graph]
    /\ \E depth \in [Graph -> 1 .. Cardinality(Graph)] :
          depth[Root] = 1 /\ \A g \in Graph \ {Root} : depth[g] = depth[Upper[g]] + 1
    /\ Config \in [Graph -> Nat]
    /\ Repetition \in [Graph -> Nat]
    /\ Value \subseteq Nat \ {0}
    /\ MaxExecutions \in Nat
    /\ \A g \in Graph : Config[g] > 0 =>
          \E run \in Graph : Subgraphs(g) = {run} /\ Config[run] = 0 /\ Repetition[run] = 1
    /\ \A g \in Graph : DependsOn[g] # <<>> =>
          \E h \in Graph : \E i \in 1 .. Config[h] : DependsOn[g] = <<h, i>> /\ Inside(g, h)

VARIABLES
    firings,        \* by path: the GraphFiring
    launched,       \* the firings whose configuration actors ran in this execution
    messages,       \* the parameters sent and not received: <<path, ix, value>>
    expected,       \* messages that the GRT still waits for
    phase,          \* "execute", "wait" or "done"
    executions      \* completed executions

vars == <<firings, launched, messages, expected, phase, executions>>

\* No configuration actor is beside the graph: its firings are all alike.
IsStatic(g) == g = Root \/ Config[Upper[g]] = 0

GraphOf(path) == path[Len(path)][1]
FiringOf(path) == path[Len(path)][2]
Parent(path) == SubSeq(path, 1, Len(path) - 1)
Child(path, g, k) == Append(path, <<g, k>>)

\* The firing that is computed for it: the first one of a static handler.
First(path) ==
    IF IsStatic(GraphOf(path)) THEN Child(Parent(path), GraphOf(path), 0) ELSE path

RootFiring == <<<<Root, 0>>>>

NewFiring(g) == [resolved |-> FALSE, rates |-> 0, received |-> 0,
                 params |-> [i \in 1 .. Config[g] |-> 0]]

\* The firings of a graph in a firing of its upper graph.
FiringsIn(tree, path, g) == {p \in DOMAIN tree : p = Child(path, g, FiringOf(p))}

\* An inherited parameter is a reference to the one of the firing above.
ParamValue(tree, path, param) ==
    LET n == CHOOSE n \in 1 .. Len(path) : path[n][1] = param[1]
    IN  tree[SubSeq(path, 1, n)].params[param[2]]

RatesNow(tree, path) ==
    LET param == DependsOn[GraphOf(path)]
    IN  IF param = <<>> THEN 0 ELSE ParamValue(tree, path, param)

\* The repetition value computed for a subgraph with these rates.
RepetitionOf(tree, path, g) ==
    IF Repetition[g] = 0 THEN RatesNow(tree, First(path)) ELSE Repetition[g]

\* The handler of a subgraph is new in a new firing, and made again when the
\* repetition has changed.
NewHandler(tree, due, g) ==
    due.new \/ Cardinality(FiringsIn(tree, due.path, g)) # RepetitionOf(tree, due.path, g)

NewFirings(tree, path, g) == {Child(path, g, k) : k \in 0 .. RepetitionOf(tree, path, g) - 1}

\* GraphHandler::resolveFirings: the first firing of a static handler resolves
\* the others, and a firing that is resolved is left as it is.
ResolveFirings(tree, path, g) ==
    {[path |-> p, new |-> FALSE] : p \in {q \in FiringsIn(tree, path, g) : ~ tree[First(q)].resolved}}

\* In a firing that is being resolved, the new handler of a static graph resolves
\* its firings; a handler that is kept is asked to, whichever it is.
CreateOrUpdate(tree, due) ==
    UNION {IF ~ NewHandler(tree, due, g) THEN ResolveFirings(tree, due.path, g)
           ELSE {[path |-> p, new |-> TRUE] :
                    p \in {q \in NewFirings(tree, due.path, g) : IsStatic(g)}} :
              g \in Subgraphs(GraphOf(due.path))}

\* The firings that are resolved with those of firsts, level by level: what is
\* below a firing depends on what is above it only.
Resolved(tree, firsts) ==
    LET level[n \in 0 .. Cardinality(Graph)] ==
            IF n = 0 THEN firsts ELSE UNION {CreateOrUpdate(tree, due) : due \in level[n - 1]}
    IN  UNION {level[n] : n \in 0 .. Cardinality(Graph)}

\* A handler is named by the firing it is in and its graph.
NewHandlers(tree, all) ==
    UNION {{<<due.path, g>> : g \in {h \in Subgraphs(GraphOf(due.path)) : NewHandler(tree, due, h)}} :
              due \in all}

UnderHandler(p, handler) ==
    /\ Len(p) > Len(handler[1])
    /\ SubSeq(p, 1, Len(handler[1])) = handler[1]
    /\ p[Len(handler[1]) + 1][1] = handler[2]

\* Handlers are destroyed, their firings and theirs with them, and made again.
Remade(tree, handlers) ==
    LET kept == {p \in DOMAIN tree : ~ \E h \in handlers : UnderHandler(p, h)}
        made == UNION {NewFirings(tree, h[1], h[2]) : h \in handlers}
    IN  [p \in made \cup kept |-> IF p \in made THEN NewFiring(GraphOf(p)) ELSE tree[p]]

\* The rates are computed from the parameters, and copied to the firings that are
\* not the first.  The parameters are those of firings that were there: nothing
\* in a graph with configuration actors is resolved when it is made.
ResolveBRV(tree, firsts) ==
    LET all == Resolved(tree, firsts)
        remade == Remade(tree, NewHandlers(tree, all))
        paths == {due.path : due \in all}
    IN  [p \in DOMAIN remade |->
            IF p \in paths
            THEN [remade[p] EXCEPT !.rates = RatesNow(tree, First(p)), !.resolved = TRUE]
            ELSE remade[p]]

\* Mutant: the first parameter received resolves the graph.
LastParam_First(tree, path) == tree[path].received = 1

LastParam(tree, path) == tree[path].received = Config[GraphOf(path)]

\* GraphFiring::setParamValue: the last parameter resolves the subgraphs.
SetParamValue(tree, path, ix, value) ==
    LET set == [tree EXCEPT ![path].params[ix] = value, ![path].received = @ + 1]
    IN  IF LastParam(set, path)
        THEN ResolveBRV(set, UNION {ResolveFirings(set, path, g) : g \in Subgraphs(GraphOf(path))})
        ELSE set

\* Mutant: what was received is not forgotten.
Cleared_KeepCount(tree) ==
    [path \in DOMAIN tree |->
        [tree[path] EXCEPT !.resolved = IsStatic(GraphOf(path))]]

\* GraphHandler::clear.  A static firing stays resolved.
Cleared(tree) ==
    [path \in DOMAIN tree |->
        [tree[path] EXCEPT !.resolved = IsStatic(GraphOf(path)), !.received = 0]]

-----------------------------------------------------------------------------
(* The firings that the algorithms reach: a graph is looked into only when *)
(* its firing is resolved.                                                 *)

Above(path) == {SubSeq(path, 1, n) : n \in 1 .. Len(path) - 1}

Reached(tree) == {path \in DOMAIN tree : \A p \in Above(path) : tree[p].resolved}

\* The configuration actors that recursiveAddVertices finds and that have no task yet.
ToLaunch ==
    {path \in Reached(firings) \ launched :
        firings[path].resolved /\ Config[GraphOf(path)] > 0}

Unresolved(tree) == {path \in Reached(tree) : ~ tree[path].resolved}

\* Mutant: every firing that is not resolved is counted once.
ExpectedParams_One(tree) == Cardinality(Unresolved(tree))

\* countExpectedNumberOfParams: the parameters of the graph above each firing
\* that is not resolved.
ExpectedParams(tree) ==
    Cardinality(UNION {{path} \X (1 .. Config[Upper[GraphOf(path)]]) : path \in Unresolved(tree)})

\* The parameters that the configuration actors of these firings send.
SentBy(paths) == UNION {{path} \X (1 .. Config[GraphOf(path)]) : path \in paths}

-----------------------------------------------------------------------------
Init ==
    /\ firings = ResolveBRV([path \in {RootFiring} |-> NewFiring(Root)],
                           {[path |-> RootFiring, new |-> FALSE]})
    /\ launched = {}
    /\ messages = {}
    /\ expected = 0
    /\ phase = "execute"
    /\ executions = 0

\* A round: what can run is launched and runs, and the GRT counts the
\* parameters to wait for.
Execute ==
    /\ phase = "execute"
    /\ \E value \in [SentBy(ToLaunch) -> Value] :
          messages' = messages \cup
              {[path |-> p[1], ix |-> p[2], value |-> value[p]] : p \in SentBy(ToLaunch)}
    /\ launched' = launched \cup ToLaunch
    /\ expected' = ExpectedParams(firings)
    /\ phase' = IF expected' = 0 THEN "done" ELSE "wait"
    /\ UNCHANGED <<firings, executions>>

\* PiSDFTask::receiveParams.  The runners send in any order.
ReceiveParam ==
    /\ phase = "wait"
    /\ \E m \in messages :
          /\ firings' = SetParamValue(firings, m.path, m.ix, m.value)
          /\ messages' = messages \ {m}
    /\ expected' = expected - 1
    /\ phase' = IF expected = 1 THEN "execute" ELSE "wait"
    /\ UNCHANGED <<launched, executions>>

EndExecution ==
    /\ phase = "done"
    /\ executions < MaxExecutions
    /\ firings' = Cleared(firings)
    /\ launched' = {}
    /\ phase' = "execute"
    /\ executions' = executions + 1
    /\ UNCHANGED <<messages, expected>>

Next == Execute \/ ReceiveParam \/ EndExecution

Spec == Init /\ [][Next]_vars /\ WF_vars(Execute \/ ReceiveParam)

-----------------------------------------------------------------------------
(* Properties                                                              *)

\* Shape of the state: the paths follow the hierarchy of the graphs.
TypeOK ==
    /\ \A path \in DOMAIN firings :
          /\ GraphOf(path) \in Graph
          /\ path # RootFiring =>
                Parent(path) \in DOMAIN firings /\ Upper[GraphOf(path)] = GraphOf(Parent(path))
          /\ firings[path].received \in 0 .. Config[GraphOf(path)]
    /\ launched \subseteq DOMAIN firings
    /\ expected \in Nat
    /\ phase \in {"execute", "wait", "done"}

\* The GRT waits for the messages that were sent, no more (it would block in
\* popParamNotification) and no less (one would be taken in a later round):
\* countExpectedNumberOfParams, from the firings that are not resolved, against
\* the configuration actors of the firings that are.
CountMatches == expected = Cardinality(messages)

\* The rates of a firing are those of its parameters, for the graphs that a
\* parameter of the graph right above resolves (resolveBRV is run on them in
\* every execution, after the last parameter).
DynamicRatesFresh ==
    \A path \in Reached(firings) :
        firings[path].resolved /\ ~ IsStatic(GraphOf(path))
            => firings[path].rates = RatesNow(firings, path)

\* The rates of every resolved firing are those of its parameters.
\* (GraphFiring.h: "Compute BRV and save the values based on current value of parameters.")
RatesFresh ==
    \A path \in Reached(firings) :
        firings[path].resolved => firings[path].rates = RatesNow(firings, path)

\* Every execution ends (the loop of dynamicExecute).
ExecutionsEnd == []<>(phase = "done")
===============================================================================
