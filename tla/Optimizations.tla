----------------------------- MODULE Optimizations -----------------------------
(***************************************************************************)
(* The passes that rewrite the single-rate graph before it is scheduled    *)
(* (optims::optimize).  Each takes the vertices to optimise first, in the  *)
(* order of the graph, and then rewrites them one after the other: a pass  *)
(* returns the graph and whether it found something.  A vertex that has a  *)
(* task, which may have run, is left alone, except by the first pass.      *)
(***************************************************************************)
EXTENDS SRDAG

\* scheduleTaskIx() = SIZE_MAX
Fresh(g, type, v) == Type(g, v) = type /\ ~g.info[v].hasTask

Of(g, type, IsPair(_)) == SelectSeq(g.vertices, LAMBDA v : Fresh(g, type, v) /\ IsPair(v))

NextOf(g, v) == Sink(g, OutputEdge(g, v, 0))
PreviousOf(g, v) == Source(g, InputEdge(g, v, 0))

RemoveEdges(g, list) == FoldLeft(RemoveEdge, g, list)

-----------------------------------------------------------------------------
(* unitaryOptimizer.cpp                                                    *)

\* The vertices that pass what they get on as it is.
Unitary(g, v) ==
    /\ \/ Type(g, v) \in {"DUPLICATE", "FORK"} /\ g.info[v].nOut = 1
       \/ Type(g, v) \in {"JOIN", "TAIL", "HEAD"} /\ g.info[v].nIn = 1
       \/ Type(g, v) = "REPEAT"
    /\ Rate(g, InputEdge(g, v, 0)) = Rate(g, OutputEdge(g, v, 0))

RemoveUnitary(g, v) ==
    LET in == InputEdge(g, v, 0)
        out == OutputEdge(g, v, 0)
        through == SetSink(g, in, Sink(g, out), g.edges[out].in)
    IN RemoveVertex(RemoveEdge(through, out), v)

\* The vertex that takes the place of a removed one is looked at next.
RECURSIVE ReduceUnitaryRateActors(_, _)
ReduceUnitaryRateActors(g, n) ==
    IF n > Len(g.vertices) THEN g
    ELSE IF Unitary(g, g.vertices[n])
         THEN ReduceUnitaryRateActors(RemoveUnitary(g, g.vertices[n]), n)
         ELSE ReduceUnitaryRateActors(g, n + 1)

-----------------------------------------------------------------------------
(* patternOptimizer.cpp: a fork of a fork, a join of a join, a duplicate   *)
(* of a duplicate become one.  a is the second fork or the first join, b   *)
(* the other one.                                                          *)

Forward(type) == type = "JOIN"
Other(g, type, a) == IF Forward(type) THEN NextOf(g, a) ELSE PreviousOf(g, a)

\* The side of a vertex that has many ports.
Many(g, type, v) == IF Forward(type) THEN Inputs(g, v) ELSE Outputs(g, v)
CountNonNullEdges(g, list) ==
    Len(SelectSeq(list, LAMBDA e : e # None /\ Rate(g, e) # 0))

FarEnd(g, type, e) == IF Forward(type) THEN Source(g, e) ELSE Sink(g, e)

\* Edge e of the pair goes to port ix of the new vertex.
Reconnect(g, type, e, target, ix) ==
    CASE e = None -> g
      [] e # None /\ Rate(g, e) = 0 /\ ~g.info[FarEnd(g, type, e)].executable ->
            RemoveEdge(RemoveVertex(g, FarEnd(g, type, e)), e)
      [] OTHER -> IF Forward(type) THEN SetSink(g, e, target, ix) ELSE SetSource(g, e, target, ix)

MakeNewVertex(g, type, a, b) ==
    LET count == CountNonNullEdges(g, Many(g, type, a)) + CountNonNullEdges(g, Many(g, type, b)) - 1
    IN IF Forward(type)
       THEN SetSource(Create(g, type, count, 1), OutputEdge(g, b, 0), g.next, 0)
       ELSE SetSink(Create(g, type, 1, count), InputEdge(g, b, 0), g.next, 0)

MergePair(g, type, a, b) ==
    LET new == g.next
        middle == IF Forward(type) THEN OutputEdge(g, a, 0) ELSE InputEdge(g, a, 0)
        offset == IF Forward(type) THEN g.edges[middle].in ELSE g.edges[middle].out
        ofA == Many(g, type, a)
        ofB == Many(g, type, b)
        countA == CountNonNullEdges(g, ofA)
        connect(h, moves) == FoldLeft(LAMBDA k, m : Reconnect(k, type, m[1], new, m[2]), h, moves)
        moved == connect(RemoveEdge(MakeNewVertex(g, type, a, b), middle),
                    [i \in 1 .. offset |-> <<ofB[i], i - 1>>]
                    \o [i \in 1 .. Len(ofB) - offset - 1 |->
                            <<ofB[offset + 1 + i], offset + countA + i - 1>>]
                    \o [i \in DOMAIN ofA |-> <<ofA[i], offset + i - 1>>])
    IN RemoveVertex(RemoveVertex(moved, b), a)

\* A vertex still to be optimised that is gone stands for the new one.
RECURSIVE MergeAll(_, _, _)
MergeAll(g, type, list) ==
    IF list = <<>> THEN g
    ELSE LET a == Head(list)
             b == Other(g, type, a)
         IN MergeAll(MergePair(g, type, a, b), type,
                     [n \in DOMAIN Tail(list) |->
                        IF Tail(list)[n] \in {a, b} THEN g.next ELSE Tail(list)[n]])

Pairs(g, type) == Of(g, type, LAMBDA v : Fresh(g, type, Other(g, type, v)))

ReducePairs(g, type) == MergeAll(g, type, Pairs(g, type))

-----------------------------------------------------------------------------
(* partialSingleRate.cpp: what a list of sources gives to a list of sinks  *)

Linker(v, port, rate) == [vertex |-> v, port |-> port, rate |-> rate]

\* How many of the list are needed for the rate.
ComputeNEdge(rate, list) ==
    Min({n \in DOMAIN list :
            rate =< FoldLeft(LAMBDA r, l : r + l.rate, 0, SubSeq(list, 1, n))})

Join2(g, source, sink, rate) ==
    CreateEdge(g, source.vertex, source.port, sink.vertex, sink.port, rate)

RECURSIVE PartialSingleRate(_, _, _)
PartialSingleRate(g, sources, sinks) ==
    IF sinks = <<>> THEN g
    ELSE LET source == Head(sources)
             sink == Head(sinks)
             new == g.next
             part(list, n) == SubSeq(list, 1, n - 1)
             rest(list, n) == SubSeq(list, n, Len(list))
             used(list, n) == FoldLeft(LAMBDA r, l : r + l.rate, 0, part(list, n))
         IN CASE sink.rate = source.rate ->
                    PartialSingleRate(Join2(g, source, sink, sink.rate), Tail(sources), Tail(sinks))
              [] source.rate > sink.rate ->
                    LET n == ComputeNEdge(source.rate, sinks)
                        forked == Join2(Create(g, "FORK", 1, n), source, Linker(new, 0, 0), source.rate)
                        linked == FoldLeft(LAMBDA h, i : Join2(h, Linker(new, i - 1, 0), sinks[i],
                                                               sinks[i].rate),
                                           forked, [i \in 1 .. n - 1 |-> i])
                    IN PartialSingleRate(linked,
                            <<Linker(new, n - 1, source.rate - used(sinks, n))>> \o Tail(sources),
                            rest(sinks, n))
              [] source.rate < sink.rate ->
                    LET n == ComputeNEdge(sink.rate, sources)
                        joined == Join2(Create(g, "JOIN", n, 1), Linker(new, 0, 0), sink, sink.rate)
                        linked == FoldLeft(LAMBDA h, i : Join2(h, sources[i], Linker(new, i - 1, 0),
                                                               sources[i].rate),
                                           joined, [i \in 1 .. n - 1 |-> i])
                    IN PartialSingleRate(linked, rest(sources, n),
                            <<Linker(new, n - 1, sink.rate - used(sources, n))>> \o Tail(sinks))

-----------------------------------------------------------------------------
(* optimizations.cpp                                                       *)

SourcesOf(g, join) ==
    [n \in DOMAIN Inputs(g, join) |->
        LET e == Inputs(g, join)[n] IN Linker(Source(g, e), g.edges[e].out, Rate(g, e))]
SinksOf(g, fork) ==
    [n \in DOMAIN Outputs(g, fork) |->
        LET e == Outputs(g, fork)[n] IN Linker(Sink(g, e), g.edges[e].in, Rate(g, e))]

ToFork(g, v) == Fresh(g, "FORK", NextOf(g, v))

ReduceOneJoinFork(g, join) ==
    LET fork == NextOf(g, join)
        bare == RemoveEdges(g, Inputs(g, join) \o Outputs(g, join) \o Outputs(g, fork))
    IN PartialSingleRate(RemoveVertex(RemoveVertex(bare, join), fork),
                         SourcesOf(g, join), SinksOf(g, fork))

JoinForks(g) == Of(g, "JOIN", LAMBDA v : ToFork(g, v))
ReduceJoinFork(g) == FoldLeft(ReduceOneJoinFork, g, JoinForks(g))

\* A repeat that a fork cuts is a duplicate when it repeats a whole number of times.
RepeatForks(g) ==
    Of(g, "REPEAT", LAMBDA v :
        /\ Rate(g, InputEdge(g, v, 0)) # 0
        /\ Rate(g, OutputEdge(g, v, 0)) % Rate(g, InputEdge(g, v, 0)) = 0
        /\ ToFork(g, v))

ReduceOneRepeatFork(g, repeat) ==
    LET in == InputEdge(g, repeat, 0)
        out == OutputEdge(g, repeat, 0)
        count == Rate(g, out) \div Rate(g, in)
        fork == NextOf(g, repeat)
        duplicated == SetSink(Create(g, "DUPLICATE", 1, count), in, g.next, 0)
        linked == PartialSingleRate(RemoveEdges(duplicated, Outputs(g, fork)),
                        [n \in 1 .. count |-> Linker(g.next, n - 1, Rate(g, in))], SinksOf(g, fork))
    IN RemoveEdge(RemoveVertex(RemoveVertex(linked, repeat), fork), out)

ReduceRepeatFork(g) == FoldLeft(ReduceOneRepeatFork, g, RepeatForks(g))

\* What is joined only to be thrown away is thrown away by parts; an END that
\* keeps the tokens of a persistent delay stays.
JoinEnds(g) == Of(g, "JOIN", LAMBDA v : Fresh(g, "END", NextOf(g, v)))

ReduceOneJoinEnd(g, join) ==
    LET end == NextOf(g, join)
        ended == FoldLeft(LAMBDA h, e : SetSink(Create(h, "END", 1, 0), e, h.next, 0),
                          RemoveEdges(g, Outputs(g, join)), Inputs(g, join))
    IN RemoveVertex(RemoveVertex(ended, join), end)

ReduceJoinEnd(g, Persistent(_)) ==
    FoldLeft(ReduceOneJoinEnd, g, SelectSeq(JoinEnds(g), LAMBDA v : ~Persistent(NextOf(g, v))))

InitEnds(g) == Of(g, "INIT", LAMBDA v : Fresh(g, "END", NextOf(g, v)))

ReduceOneInitEnd(g, init) ==
    RemoveVertex(RemoveVertex(RemoveEdges(g, Outputs(g, init)), init), NextOf(g, init))

ReduceInitEnd(g) == FoldLeft(ReduceOneInitEnd, g, InitEnds(g))
=============================================================================
