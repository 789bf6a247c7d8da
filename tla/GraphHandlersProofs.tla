------------------------ MODULE GraphHandlersProofs ------------------------
(***************************************************************************)
(* What the rounds of PiSDFJITMSRuntime keep true of the firings of a      *)
(* hierarchical dynamic graph, whatever the graphs, the parameters, their  *)
(* values and the order they come in: the GRT waits for the parameters     *)
(* that were sent, and what a graph was resolved with is what was sent.    *)
(*                                                                         *)
(* The argument follows the firings down the hierarchy.  A firing that no  *)
(* configuration actor is beside is resolved as soon as it is made; a      *)
(* firing of a run graph is resolved exactly when all the parameters of    *)
(* the firing above were received.  So the firings that are not resolved   *)
(* are the run graphs of those whose parameters are on their way.          *)
(***************************************************************************)
EXTENDS GraphHandlers, SequenceTheorems, FiniteSetTheorems, NaturalsInduction,
        WellFoundedInduction, TLAPS

-----------------------------------------------------------------------------
(* The inductive invariant                                                 *)

\* A path leads from the root graph to a graph, one graph into the next.
IsPath(p) ==
    /\ p \in Seq(Graph \X Nat)
    /\ p # <<>>
    /\ p[1] = <<Root, 0>>
    /\ \A n \in 2 .. Len(p) : p[n][1] \in Subgraphs(p[n - 1][1])

FiringType(g) ==
    [resolved: BOOLEAN, rates: Nat, received: 0 .. Config[g], params: [1 .. Config[g] -> Nat]]

\* A tree of firings: with a firing are the one it is in, the first one of its
\* handler, and the run graph if it has parameters.
TreeOK(tree) ==
    /\ IsFiniteSet(DOMAIN tree)
    /\ tree = [p \in DOMAIN tree |-> tree[p]]
    /\ RootFiring \in DOMAIN tree
    /\ \A p \in DOMAIN tree :
          /\ IsPath(p)
          /\ tree[p] \in FiringType(GraphOf(p))
          /\ p # RootFiring => Parent(p) \in DOMAIN tree
          /\ First(p) \in DOMAIN tree
          /\ ~ IsStatic(GraphOf(p)) => FiringOf(p) = 0

RunsThere(tree) ==
    \A p \in DOMAIN tree : \A g \in Subgraphs(GraphOf(p)) :
        Config[GraphOf(p)] > 0 => Child(p, g, 0) \in DOMAIN tree

\* What is resolved: a firing beside no configuration actor, always; another one,
\* when the parameters were all received.
StaticResolved(tree) ==
    \A p \in DOMAIN tree : IsStatic(GraphOf(p)) => tree[p].resolved

DynamicResolved(tree) ==
    \A p \in DOMAIN tree : ~ IsStatic(GraphOf(p)) =>
        (tree[p].resolved <=> LastParam(tree, Parent(p)))

MessagesOf(p) == {m \in messages : m.path = p}

\* The parameters of a firing are received or on their way once its
\* configuration actors ran.
ReceivedOrSent ==
    \A p \in DOMAIN firings :
        firings[p].received =
            IF p \in launched THEN Config[GraphOf(p)] - Cardinality(MessagesOf(p)) ELSE 0

MessagesOK ==
    /\ IsFiniteSet(messages)
    /\ \A m \in messages : /\ m.path \in launched
                           /\ m.ix \in 1 .. Config[GraphOf(m.path)]
                           /\ m.value \in Value

LaunchedOK == \A p \in launched : p \in Reached(firings) /\ Config[GraphOf(p)] > 0

PhaseOK == /\ phase \in {"execute", "wait", "done"}
           /\ phase = "wait" <=> messages # {}

IInv ==
    /\ TreeOK(firings)
    /\ RunsThere(firings)
    /\ StaticResolved(firings)
    /\ DynamicResolved(firings)
    /\ LaunchedOK
    /\ MessagesOK
    /\ ReceivedOrSent
    /\ PhaseOK
    /\ CountMatches
    /\ DynamicRatesFresh

-----------------------------------------------------------------------------
(* Finite sets and numbers                                                 *)

LEMMA ImageFinite ==
    ASSUME NEW f, IsFiniteSet(DOMAIN f)
    PROVE  IsFiniteSet({f[x] : x \in DOMAIN f})
<1> DEFINE T == {f[x] : x \in DOMAIN f}
           g == [x \in DOMAIN f |-> f[x]]
<1>1. g \in Surjection(DOMAIN f, T)
    BY DEF Surjection
<1> HIDE DEF g, T
<1>2. IsFiniteSet(T)
    BY <1>1, FS_Surjection
<1> QED
    BY <1>2 DEF T

\* A set of numbers that is not empty has a least one.
LEMMA LeastNat ==
    ASSUME NEW T, T \subseteq Nat, T # {}
    PROVE  \E n \in T : \A m \in T : n <= m
<1> DEFINE R == {p \in Nat \X Nat : p[1] < p[2]}
<1>1. IsWellFoundedOn(R, Nat)
    BY NatLessThanWellFounded DEF OpToRel
<1> HIDE DEF R
<1>2. \E n \in T : \A m \in T : ~ (<<m, n>> \in R)
    BY <1>1, WFMin
<1>3. \A m, n \in Nat : m < n => <<m, n>> \in R
    BY DEF R
<1>4. PICK n \in T : \A m \in T : ~ (<<m, n>> \in R)
    BY <1>2
<1>5. \A m \in T : n <= m
    <2> TAKE m \in T
    <2>1. m \in Nat /\ n \in Nat /\ ~ (m < n)
        BY <1>3, <1>4
    <2> QED
        BY <2>1
<1> QED
    BY <1>5

\* A set that holds 0 and the successor of each of its elements up to N holds
\* every number up to N: the least one it misses would have a predecessor in it.
LEMMA LevelInduction ==
    ASSUME NEW N \in Nat, NEW T, 0 \in T, \A n \in 1 .. N : n - 1 \in T => n \in T
    PROVE  0 .. N \subseteq T
<1> DEFINE Missed == {n \in 0 .. N : n \notin T}
<1>1. SUFFICES ASSUME Missed # {} PROVE FALSE
    OBVIOUS
<1>2. PICK n \in Missed : \A m \in Missed : n <= m
    <2>1. Missed \subseteq Nat
        OBVIOUS
    <2> HIDE DEF Missed
    <2> QED
        BY <1>1, <2>1, LeastNat
<1>3. n \in 1 .. N /\ n - 1 \in 0 .. N
    BY <1>2
<1>4. n - 1 \notin Missed
    BY <1>2, <1>3
<1> QED
    BY <1>2, <1>3, <1>4

-----------------------------------------------------------------------------
(* Paths                                                                   *)

\* How deep a graph is in the hierarchy.
Depth == CHOOSE depth \in [Graph -> 1 .. Cardinality(Graph)] :
            depth[Root] = 1 /\ \A g \in Graph \ {Root} : depth[g] = depth[Upper[g]] + 1

LEMMA DepthType ==
    /\ Depth \in [Graph -> 1 .. Cardinality(Graph)] /\ Cardinality(Graph) \in Nat
    /\ Depth[Root] = 1
    /\ \A g \in Graph : \A h \in Subgraphs(g) : Depth[h] = Depth[g] + 1
<1>1. Depth \in [Graph -> 1 .. Cardinality(Graph)] /\ Depth[Root] = 1
      /\ \A g \in Graph \ {Root} : Depth[g] = Depth[Upper[g]] + 1
    BY GraphAssumption DEF Depth
<1> QED
    BY <1>1, GraphAssumption, FS_CardinalityType DEF Subgraphs

LEMMA GraphTypes ==
    /\ Root \in Graph
    /\ Config \in [Graph -> Nat] /\ Repetition \in [Graph -> Nat]
    /\ \A g \in Graph : Subgraphs(g) \subseteq Graph \ {Root}
    /\ \A g \in Graph : \A h \in Subgraphs(g) : Upper[h] = g
    /\ \A g \in Graph : IsFiniteSet(Subgraphs(g))
    /\ \A g \in Graph : \A h \in Subgraphs(g) : IsStatic(h) <=> Config[g] = 0
    /\ IsStatic(Root)
    /\ \A g \in Graph : \A h \in Subgraphs(g) :
          Config[g] > 0 => Subgraphs(g) = {h} /\ Config[h] = 0 /\ Repetition[h] = 1
<1>1. \A g \in Graph : Subgraphs(g) \subseteq Graph \ {Root}
    BY DEF Subgraphs
<1>2. \A g \in Graph : IsFiniteSet(Subgraphs(g))
    BY <1>1, GraphAssumption, FS_Subset
<1>3. \A g \in Graph : \A h \in Subgraphs(g) : Upper[h] = g /\ h # Root
    BY DEF Subgraphs
<1>4. \A g \in Graph : \A h \in Subgraphs(g) :
          Config[g] > 0 => Subgraphs(g) = {h} /\ Config[h] = 0 /\ Repetition[h] = 1
    <2> SUFFICES ASSUME NEW g \in Graph, NEW h \in Subgraphs(g), Config[g] > 0
                 PROVE  Subgraphs(g) = {h} /\ Config[h] = 0 /\ Repetition[h] = 1
        OBVIOUS
    <2>1. PICK run \in Graph : Subgraphs(g) = {run} /\ Config[run] = 0 /\ Repetition[run] = 1
        BY GraphAssumption
    <2> QED
        BY <2>1
<1> QED
    BY <1>1, <1>2, <1>3, <1>4, GraphAssumption DEF IsStatic

\* What a path is made of.
LEMMA PathParts ==
    ASSUME NEW p, IsPath(p)
    PROVE  /\ Len(p) \in Nat \ {0}
           /\ \A n \in 1 .. Len(p) : p[n] \in Graph \X Nat /\ p[n][1] \in Graph
           /\ GraphOf(p) \in Graph /\ FiringOf(p) \in Nat
           /\ Len(p) = 1 <=> p = RootFiring
           /\ Len(p) = 1 => GraphOf(p) = Root
<1>1. p \in Seq(Graph \X Nat) /\ p # <<>> /\ p[1] = <<Root, 0>>
    BY DEF IsPath
<1>2. Len(p) \in Nat \ {0} /\ \A n \in 1 .. Len(p) : p[n] \in Graph \X Nat
    BY <1>1, EmptySeq
<1>3. \A n \in 1 .. Len(p) : p[n][1] \in Graph /\ p[n][2] \in Nat
    BY <1>2
<1>4. Len(p) \in 1 .. Len(p)
    BY <1>2
<1>5. Len(p) = 1 <=> p = RootFiring
    <2>1. Len(p) = 1 => p = <<<<Root, 0>>>>
        <3> HAVE Len(p) = 1
        <3>1. p \in [1 .. 1 -> Graph \X Nat]
            BY <1>1
        <3> QED
            BY <1>1, <3>1
    <2> QED
        BY <2>1 DEF RootFiring
<1> QED
    BY <1>1, <1>2, <1>3, <1>4, <1>5 DEF GraphOf, FiringOf

\* The firings a firing is in are paths too.
LEMMA PrefixPath ==
    ASSUME NEW p, IsPath(p), NEW n \in 1 .. Len(p)
    PROVE  /\ IsPath(SubSeq(p, 1, n)) /\ Len(SubSeq(p, 1, n)) = n
           /\ \A i \in 1 .. n : SubSeq(p, 1, n)[i] = p[i]
           /\ GraphOf(SubSeq(p, 1, n)) = p[n][1]
           /\ FiringOf(SubSeq(p, 1, n)) = p[n][2]
<1> DEFINE q == SubSeq(p, 1, n)
<1>1. p \in Seq(Graph \X Nat) /\ Len(p) \in Nat \ {0}
    BY PathParts DEF IsPath
<1>2. q \in Seq(Graph \X Nat) /\ Len(q) = n /\ \A i \in 1 .. n : q[i] = p[i]
    BY <1>1, SubSeqProperties
<1> HIDE DEF q
<1>3. n \in 1 .. n /\ 1 \in 1 .. n
    OBVIOUS
<1>4. IsPath(q)
    <2>1. q # <<>> /\ q[1] = <<Root, 0>>
        BY <1>2, <1>3 DEF IsPath
    <2>2. ASSUME NEW i \in 2 .. n PROVE q[i][1] \in Subgraphs(q[i - 1][1])
        <3>1. i \in 1 .. n /\ i - 1 \in 1 .. n /\ i \in 2 .. Len(p)
            BY <1>1
        <3> QED
            BY <3>1, <1>2 DEF IsPath
    <2> QED
        BY <1>2, <2>1, <2>2 DEF IsPath
<1>5. GraphOf(q) = p[n][1] /\ FiringOf(q) = p[n][2]
    BY <1>2, <1>3 DEF GraphOf, FiringOf
<1> QED
    BY <1>2, <1>4, <1>5 DEF q

\* A firing is a child of the one it is in.
LEMMA ParentPath ==
    ASSUME NEW p, IsPath(p), p # RootFiring
    PROVE  /\ IsPath(Parent(p)) /\ Len(p) = Len(Parent(p)) + 1
           /\ GraphOf(p) \in Subgraphs(GraphOf(Parent(p)))
           /\ p = Child(Parent(p), GraphOf(p), FiringOf(p))
           /\ FiringOf(p) \in Nat
<1>1. Len(p) \in Nat /\ Len(p) > 1 /\ FiringOf(p) \in Nat /\ p \in Seq(Graph \X Nat)
    <2>1. FiringOf(p) \in Nat /\ Len(p) \in Nat \ {0}
        BY PathParts
    <2>2. p \in Seq(Graph \X Nat)
        BY DEF IsPath
    <2>3. Len(p) # 1
        BY PathParts
    <2>4. Len(p) \in Nat /\ Len(p) > 1
        <3>1. \A n \in Nat \ {0} : n # 1 => n \in Nat /\ n > 1
            OBVIOUS
        <3> QED
            BY <2>1, <2>3, <3>1, Zenon
    <2> QED
        BY <2>1, <2>2, <2>4
<1>2. Len(p) - 1 \in 1 .. Len(p) /\ Len(p) \in 2 .. Len(p)
    BY <1>1
<1>3. IsPath(Parent(p)) /\ Len(Parent(p)) = Len(p) - 1
      /\ GraphOf(Parent(p)) = p[Len(p) - 1][1]
    BY <1>2, PrefixPath DEF Parent
<1>4. GraphOf(p) \in Subgraphs(GraphOf(Parent(p)))
    BY <1>2, <1>3 DEF IsPath, GraphOf
<1>5. p = Child(Parent(p), GraphOf(p), FiringOf(p))
    <2>1. p[Len(p)] \in Graph \X Nat
        BY <1>2, PathParts
    <2>2. p[Len(p)] = <<GraphOf(p), FiringOf(p)>>
        BY <2>1 DEF GraphOf, FiringOf
    <2>3. Parent(p) \in Seq(Graph \X Nat)
        BY <1>3 DEF IsPath
    <2>4. \A i \in 1 .. Len(p) - 1 : Parent(p)[i] = p[i]
        BY <1>2, PrefixPath DEF Parent
    <2>5. p = Append(Parent(p), p[Len(p)])
        <3> DEFINE a == Append(Parent(p), p[Len(p)])
        <3>1. a \in Seq(Graph \X Nat) /\ Len(a) = Len(p) /\ a[Len(p)] = p[Len(p)]
              /\ \A i \in 1 .. Len(p) - 1 : a[i] = p[i]
            BY <2>1, <2>3, <2>4, <1>3, <1>1, AppendProperties
        <3> HIDE DEF a
        <3>2. \A i \in 1 .. Len(p) : a[i] = p[i]
            BY <3>1, <1>1
        <3>3. a = p
            BY <1>1, <3>1, <3>2, SeqEqual
        <3> QED
            BY <3>3 DEF a
    <2> QED
        BY <2>2, <2>5 DEF Child
<1> QED
    BY <1>1, <1>3, <1>4, <1>5

LEMMA ChildPath ==
    ASSUME NEW p, IsPath(p), NEW g \in Subgraphs(GraphOf(p)), NEW k \in Nat
    PROVE  /\ IsPath(Child(p, g, k)) /\ Len(Child(p, g, k)) = Len(p) + 1
           /\ GraphOf(Child(p, g, k)) = g /\ FiringOf(Child(p, g, k)) = k
           /\ Parent(Child(p, g, k)) = p /\ Child(p, g, k) # RootFiring
           /\ \A i \in 1 .. Len(p) : Child(p, g, k)[i] = p[i]
           /\ Child(p, g, k)[Len(p) + 1] = <<g, k>>
<1> DEFINE c == Child(p, g, k)
<1>1. p \in Seq(Graph \X Nat) /\ Len(p) \in Nat \ {0} /\ GraphOf(p) \in Graph
    BY PathParts DEF IsPath
<1>2. g \in Graph
    BY <1>1, GraphTypes
<1>3. c \in Seq(Graph \X Nat) /\ Len(c) = Len(p) + 1 /\ c[Len(p) + 1] = <<g, k>>
      /\ \A i \in 1 .. Len(p) : c[i] = p[i]
    BY <1>1, <1>2, AppendProperties DEF Child
<1> HIDE DEF c
<1>4. GraphOf(c) = g /\ FiringOf(c) = k
    BY <1>1, <1>3 DEF GraphOf, FiringOf
<1>5. IsPath(c)
    <2>1. c # <<>> /\ c[1] = <<Root, 0>>
        BY <1>1, <1>3 DEF IsPath
    <2>2. ASSUME NEW i \in 2 .. Len(c) PROVE c[i][1] \in Subgraphs(c[i - 1][1])
        <3>1. i - 1 \in 1 .. Len(p) /\ (i = Len(p) + 1 \/ i \in 2 .. Len(p))
            BY <1>1, <1>3
        <3>2. CASE i = Len(p) + 1
            BY <1>1, <1>3, <3>1, <3>2 DEF GraphOf
        <3>3. CASE i \in 2 .. Len(p)
            <4>1. i \in 1 .. Len(p)
                BY <3>3
            <4> QED
                BY <1>3, <3>1, <3>3, <4>1 DEF IsPath
        <3> QED
            BY <3>1, <3>2, <3>3
    <2> QED
        BY <1>3, <2>1, <2>2 DEF IsPath
<1>6. Parent(c) = p
    <2>1. Len(p) \in 1 .. Len(c) /\ Len(c) - 1 = Len(p)
        BY <1>1, <1>3
    <2>2. Parent(c) \in Seq(Graph \X Nat) /\ Len(Parent(c)) = Len(p)
          /\ \A i \in 1 .. Len(p) : Parent(c)[i] = c[i]
        BY <1>5, <2>1, PrefixPath DEF Parent, IsPath
    <2> QED
        BY <1>1, <1>3, <2>2, SeqEqual
<1>7. c # RootFiring
    BY <1>1, <1>3, <1>5, PathParts
<1> QED
    BY <1>3, <1>4, <1>5, <1>6, <1>7 DEF c

\* The graphs of a path are one level deeper each, so they are all different.
LEMMA PathDepth ==
    ASSUME NEW p, IsPath(p)
    PROVE  /\ \A n \in 1 .. Len(p) : Depth[p[n][1]] = n
           /\ \A n, m \in 1 .. Len(p) : p[n][1] = p[m][1] => n = m
           /\ Len(p) <= Cardinality(Graph)
<1> DEFINE T == {n \in 0 .. Len(p) : n > 0 => Depth[p[n][1]] = n}
<1>1. Len(p) \in Nat \ {0} /\ \A n \in 1 .. Len(p) : p[n] \in Graph \X Nat /\ p[n][1] \in Graph
    BY PathParts
<1>2. 0 \in T
    BY <1>1
<1>3. ASSUME NEW n \in 1 .. Len(p), n - 1 \in T PROVE n \in T
    <2>1. CASE n = 1
        <3>1. p[1][1] = Root
            BY DEF IsPath
        <3> QED
            BY <2>1, <3>1, DepthType
    <2>2. CASE n > 1
        <3>1. n \in 2 .. Len(p) /\ n - 1 \in 1 .. Len(p)
            BY <1>1, <2>2
        <3>2. p[n][1] \in Subgraphs(p[n - 1][1]) /\ p[n - 1][1] \in Graph
            BY <1>1, <3>1 DEF IsPath
        <3>3. Depth[p[n][1]] = Depth[p[n - 1][1]] + 1
            BY <3>2, DepthType
        <3> QED
            BY <1>3, <3>1, <3>3
    <2> QED
        BY <2>1, <2>2
<1> HIDE DEF T
<1>4. 0 .. Len(p) \subseteq T
    BY <1>1, <1>2, <1>3, LevelInduction
<1>5. \A n \in 1 .. Len(p) : Depth[p[n][1]] = n
    <2> SUFFICES ASSUME NEW n \in 1 .. Len(p) PROVE Depth[p[n][1]] = n
        OBVIOUS
    <2>1. n \in T
        BY <1>4
    <2> QED
        BY <2>1 DEF T
<1>6. Len(p) <= Cardinality(Graph)
    <2>1. Len(p) \in 1 .. Len(p)
        BY <1>1
    <2>2. Depth[p[Len(p)][1]] = Len(p) /\ p[Len(p)][1] \in Graph
        BY <1>1, <1>5, <2>1
    <2> QED
        BY <2>2, DepthType
<1> QED
    BY <1>5, <1>6

\* A graph that the graph of a path is inside is one of the path.
LEMMA InsideOnPath ==
    ASSUME NEW p, IsPath(p), NEW h, Inside(GraphOf(p), h)
    PROVE  \E n \in 1 .. Len(p) - 1 : p[n][1] = h
<1> DEFINE S == {p[n][1] : n \in 1 .. Len(p)}
<1>1. Len(p) \in Nat \ {0} /\ \A n \in 1 .. Len(p) : p[n][1] \in Graph
    BY PathParts
<1>2. S \in SUBSET Graph /\ GraphOf(p) \in S
    BY <1>1 DEF GraphOf
<1>3. ASSUME NEW x \in S \ {Root} PROVE Upper[x] \in S
    <2>1. PICK n \in 1 .. Len(p) : x = p[n][1]
        BY <1>3
    <2>2. n # 1
        BY <1>3, <2>1 DEF IsPath
    <2>3. n \in 2 .. Len(p) /\ n - 1 \in 1 .. Len(p)
        BY <1>1, <2>2
    <2>4. x \in Subgraphs(p[n - 1][1])
        BY <2>1, <2>3 DEF IsPath
    <2>5. Upper[x] = p[n - 1][1]
        BY <2>4 DEF Subgraphs
    <2> QED
        BY <2>3, <2>5
<1> HIDE DEF S
<1>4. h \in S /\ GraphOf(p) # h
    BY <1>2, <1>3 DEF Inside
<1>5. PICK n \in 1 .. Len(p) : p[n][1] = h
    BY <1>4 DEF S
<1>6. n # Len(p)
    BY <1>4, <1>5 DEF GraphOf
<1> QED
    BY <1>1, <1>5, <1>6

-----------------------------------------------------------------------------
(* Above and below                                                         *)

Below(p, s) == Len(p) > Len(s) /\ SubSeq(p, 1, Len(s)) = s

\* Where the firings that p is in are.
LEMMA AbovePath ==
    ASSUME NEW p, IsPath(p)
    PROVE  /\ Above(p) = {SubSeq(p, 1, n) : n \in 1 .. Len(p) - 1}
           /\ \A n \in 1 .. Len(p) - 1 : n \in 1 .. Len(p)
           /\ \A s \in Above(p) : IsPath(s) /\ Below(p, s)
           /\ \A s : IsPath(s) /\ Below(p, s) => s \in Above(p)
<1>1. Len(p) \in Nat \ {0}
    BY PathParts
<1>2. Above(p) = {SubSeq(p, 1, n) : n \in 1 .. Len(p) - 1}
    BY DEF Above
<1>3. ASSUME NEW s \in Above(p) PROVE IsPath(s) /\ Below(p, s)
    <2>1. PICK n \in 1 .. Len(p) - 1 : s = SubSeq(p, 1, n)
        BY <1>2
    <2>2. n \in 1 .. Len(p) /\ n < Len(p)
        BY <1>1
    <2>3. IsPath(s) /\ Len(s) = n
        BY <2>1, <2>2, PrefixPath
    <2> QED
        BY <2>1, <2>2, <2>3 DEF Below
<1>4. ASSUME NEW s, IsPath(s), Below(p, s) PROVE s \in Above(p)
    <2>1. Len(s) \in 1 .. Len(p) - 1
        BY <1>1, <1>4, PathParts DEF Below
    <2> QED
        BY <1>2, <1>4, <2>1 DEF Below
<1> QED
    BY <1>1, <1>2, <1>3, <1>4

\* Below is transitive, and of two firings above a third one is below the other.
LEMMA BelowOrder ==
    ASSUME NEW p, NEW q, NEW s, IsPath(p), IsPath(q), IsPath(s), Below(p, q)
    PROVE  /\ Below(q, s) => Below(p, s)
           /\ Below(p, s) => q = s \/ Below(q, s) \/ Below(s, q)
<1>1. /\ p \in Seq(Graph \X Nat) /\ q \in Seq(Graph \X Nat) /\ s \in Seq(Graph \X Nat)
      /\ Len(p) \in Nat \ {0} /\ Len(q) \in Nat \ {0} /\ Len(s) \in Nat \ {0}
    BY PathParts DEF IsPath
<1>2. Len(q) \in 1 .. Len(p) /\ \A i \in 1 .. Len(q) : q[i] = p[i]
    BY <1>1, PrefixPath DEF Below
<1>3. ASSUME NEW a, NEW b, IsPath(a), IsPath(b), Len(b) < Len(a),
             \A i \in 1 .. Len(b) : a[i] = b[i]
      PROVE  Below(a, b)
    <2>1. /\ a \in Seq(Graph \X Nat) /\ b \in Seq(Graph \X Nat)
          /\ Len(b) \in 1 .. Len(a)
        <3>1. a \in Seq(Graph \X Nat) /\ b \in Seq(Graph \X Nat)
            BY <1>3 DEF IsPath
        <3>2. Len(a) \in Nat \ {0} /\ Len(b) \in Nat \ {0}
            BY <1>3, PathParts
        <3> QED
            BY <1>3, <3>1, <3>2
    <2>2. /\ SubSeq(a, 1, Len(b)) \in Seq(Graph \X Nat)
          /\ Len(SubSeq(a, 1, Len(b))) = Len(b)
          /\ \A i \in 1 .. Len(b) : SubSeq(a, 1, Len(b))[i] = a[i]
        <3>1. /\ IsPath(SubSeq(a, 1, Len(b))) /\ Len(SubSeq(a, 1, Len(b))) = Len(b)
              /\ \A i \in 1 .. Len(b) : SubSeq(a, 1, Len(b))[i] = a[i]
            BY <1>3, <2>1, PrefixPath
        <3> QED
            BY <3>1 DEF IsPath
    <2>3. SubSeq(a, 1, Len(b)) = b
        BY <1>3, <2>1, <2>2, SeqEqual
    <2> QED
        BY <1>3, <2>3 DEF Below
<1>4. ASSUME Below(q, s) PROVE Below(p, s)
    <2>1. Len(s) \in 1 .. Len(q) /\ Len(s) < Len(q) /\ \A i \in 1 .. Len(s) : s[i] = q[i]
        BY <1>1, <1>4, PrefixPath DEF Below
    <2>2. Len(s) < Len(p) /\ \A i \in 1 .. Len(s) : p[i] = s[i]
        BY <1>1, <1>2, <2>1
    <2> QED
        BY <1>3, <2>2
<1>5. ASSUME Below(p, s) PROVE q = s \/ Below(q, s) \/ Below(s, q)
    <2>1. Len(s) \in 1 .. Len(p) /\ \A i \in 1 .. Len(s) : s[i] = p[i]
        BY <1>1, <1>5, PrefixPath DEF Below
    <2>2. CASE Len(s) = Len(q)
        <3>1. q = s
            BY <1>1, <1>2, <2>1, <2>2, SeqEqual
        <3> QED
            BY <3>1
    <2>3. CASE Len(s) < Len(q)
        <3>1. \A i \in 1 .. Len(s) : q[i] = s[i]
            BY <1>1, <1>2, <2>1, <2>3
        <3>2. Below(q, s)
            BY <1>3, <2>3, <3>1
        <3> QED
            BY <3>2
    <2>4. CASE Len(q) < Len(s)
        <3>1. \A i \in 1 .. Len(q) : s[i] = q[i]
            BY <1>1, <1>2, <2>1, <2>4
        <3>2. Below(s, q)
            BY <1>3, <2>4, <3>1
        <3> QED
            BY <3>2
    <2> QED
        BY <1>1, <2>2, <2>3, <2>4
<1> QED
    BY <1>4, <1>5

LEMMA BelowParent ==
    ASSUME NEW p, NEW s, IsPath(p), IsPath(s), p # RootFiring
    PROVE  /\ Below(p, Parent(p))
           /\ Below(p, s) <=> Parent(p) = s \/ Below(Parent(p), s)
           /\ ~ Below(s, s)
<1>1. IsPath(Parent(p)) /\ Len(p) = Len(Parent(p)) + 1
    BY ParentPath
<1>2. Len(p) \in Nat \ {0} /\ Len(s) \in Nat \ {0} /\ Len(Parent(p)) \in Nat \ {0}
    BY <1>1, PathParts
<1>3. Below(p, Parent(p))
    BY <1>1, <1>2 DEF Below, Parent
<1>4. Below(p, s) => Parent(p) = s \/ Below(Parent(p), s)
    <2> HAVE Below(p, s)
    <2>1. ~ Below(s, Parent(p))
        BY <1>1, <1>2 DEF Below
    <2> QED
        BY <1>1, <1>3, <2>1, BelowOrder
<1>5. Below(Parent(p), s) => Below(p, s)
    BY <1>1, <1>3, BelowOrder
<1> QED
    BY <1>2, <1>3, <1>4, <1>5 DEF Below

-----------------------------------------------------------------------------
(* Trees                                                                   *)

\* The firings that a firing of a tree is in are in the tree.
LEMMA AboveInTree ==
    ASSUME NEW tree, TreeOK(tree), NEW p \in DOMAIN tree, NEW s, IsPath(s), Below(p, s)
    PROVE  s \in DOMAIN tree
<1> DEFINE S == {q \in DOMAIN tree : Below(q, s)}
           L == {Len(q) : q \in S}
<1>1. \A q \in S : IsPath(q) /\ Len(q) \in Nat /\ q # RootFiring
    <2> SUFFICES ASSUME NEW q \in S PROVE IsPath(q) /\ Len(q) \in Nat /\ q # RootFiring
        OBVIOUS
    <2>1. IsPath(q)
        BY DEF TreeOK
    <2>2. Len(q) \in Nat /\ Len(s) \in Nat \ {0} /\ Len(q) > Len(s)
        BY <2>1, PathParts DEF Below
    <2> QED
        BY <2>1, <2>2, PathParts
<1>2. L \subseteq Nat /\ L # {}
    <2>1. Len(p) \in L
        OBVIOUS
    <2> QED
        BY <1>1, <2>1
<1> HIDE DEF L
<1>3. \E n \in L : \A m \in L : n <= m
    BY <1>2, LeastNat
<1>4. PICK q \in S : \A r \in S : Len(q) <= Len(r)
    BY <1>3 DEF L
<1>5. IsPath(q) /\ q # RootFiring /\ Parent(q) \in DOMAIN tree /\ Len(q) = Len(Parent(q)) + 1
      /\ IsPath(Parent(q)) /\ Len(q) \in Nat
    <2>1. IsPath(q) /\ q # RootFiring /\ Len(q) \in Nat
        BY <1>1
    <2> QED
        BY <2>1, ParentPath DEF TreeOK
<1>6. Len(Parent(q)) \in Nat
    BY <1>5, PathParts
<1>7. Parent(q) = s \/ Below(Parent(q), s)
    BY <1>5, BelowParent
<1>8. CASE Below(Parent(q), s)
    <2>1. Parent(q) \in S
        BY <1>5, <1>8
    <2> QED
        BY <1>4, <1>5, <1>6, <2>1
<1> QED
    BY <1>5, <1>7, <1>8

\* A firing is reached when the one it is in is, and is resolved.
LEMMA ReachedDown ==
    ASSUME NEW tree, TreeOK(tree), NEW p \in DOMAIN tree
    PROVE  /\ p \in Reached(tree) <=>
                  \A s \in DOMAIN tree : Below(p, s) => tree[s].resolved
           /\ p # RootFiring =>
                (p \in Reached(tree) <=>
                    Parent(p) \in Reached(tree) /\ tree[Parent(p)].resolved)
<1>1. \A q \in DOMAIN tree : IsPath(q)
    BY DEF TreeOK
<1>2. ASSUME NEW q \in DOMAIN tree
      PROVE  q \in Reached(tree) <=> \A s \in DOMAIN tree : Below(q, s) => tree[s].resolved
    <2>1. IsPath(q)
        BY <1>1
    <2>2. \A s \in Above(q) : s \in DOMAIN tree /\ Below(q, s)
        BY <2>1, AbovePath, AboveInTree
    <2>3. \A s \in DOMAIN tree : Below(q, s) => s \in Above(q)
        BY <1>1, <2>1, AbovePath
    <2> QED
        BY <2>2, <2>3 DEF Reached
<1>3. ASSUME p # RootFiring
      PROVE  p \in Reached(tree) <=>
                 Parent(p) \in Reached(tree) /\ tree[Parent(p)].resolved
    <2>1. IsPath(p) /\ Parent(p) \in DOMAIN tree
        BY <1>1, <1>3 DEF TreeOK
    <2>2. \A s \in DOMAIN tree : Below(p, s) <=> Parent(p) = s \/ Below(Parent(p), s)
        BY <1>1, <1>3, <2>1, BelowParent
    <2> QED
        BY <1>2, <2>1, <2>2
<1> QED
    BY <1>2, <1>3

\* The first firing of a handler is beside the others.
LEMMA FirstPath ==
    ASSUME NEW p, IsPath(p)
    PROVE  /\ IsPath(First(p)) /\ GraphOf(First(p)) = GraphOf(p)
           /\ Above(First(p)) = Above(p)
           /\ ~ IsStatic(GraphOf(p)) => First(p) = p
           /\ First(RootFiring) = RootFiring
           /\ p # RootFiring =>
                /\ Parent(First(p)) = Parent(p) /\ First(p) # RootFiring
                /\ First(p) = Child(Parent(p), GraphOf(p),
                                    IF IsStatic(GraphOf(p)) THEN 0 ELSE FiringOf(p))
<1>1. First(RootFiring) = RootFiring
    <2>1. GraphOf(RootFiring) = Root /\ IsStatic(Root)
        BY DEF GraphOf, RootFiring, IsStatic
    <2>2. Parent(RootFiring) = <<>>
        BY DEF RootFiring, Parent
    <2>3. Child(<<>>, Root, 0) = RootFiring
        BY DEF Child, RootFiring
    <2> QED
        BY <2>1, <2>2, <2>3 DEF First
<1>2. CASE p = RootFiring
    BY <1>1, <1>2 DEF First
<1>3. CASE p # RootFiring
    <2> DEFINE k == IF IsStatic(GraphOf(p)) THEN 0 ELSE FiringOf(p)
    <2>1. /\ IsPath(Parent(p)) /\ GraphOf(p) \in Subgraphs(GraphOf(Parent(p)))
          /\ p = Child(Parent(p), GraphOf(p), FiringOf(p)) /\ FiringOf(p) \in Nat
        BY <1>3, ParentPath
    <2>2. First(p) = Child(Parent(p), GraphOf(p), k) /\ k \in Nat
        BY <2>1 DEF First
    <2> HIDE DEF k
    <2>3. /\ IsPath(First(p)) /\ GraphOf(First(p)) = GraphOf(p)
          /\ Parent(First(p)) = Parent(p) /\ First(p) # RootFiring
        BY <2>1, <2>2, ChildPath
    <2>4. Above(First(p)) = Above(p)
        <3>1. \A s : IsPath(s) => (Below(p, s) <=> Below(First(p), s))
            BY <1>3, <2>3, BelowParent
        <3>2. \A s \in Above(First(p)) : s \in Above(p)
            BY <2>3, <3>1, AbovePath
        <3>3. \A s \in Above(p) : s \in Above(First(p))
            BY <2>3, <3>1, AbovePath
        <3> QED
            BY <3>2, <3>3
    <2> QED
        BY <1>1, <1>3, <2>1, <2>2, <2>3, <2>4 DEF First, k
<1> QED
    BY <1>2, <1>3

\* The rates of a firing are nothing's, or a parameter of a firing it is in.
LEMMA RatesParts ==
    ASSUME NEW p, IsPath(p)
    PROVE  \/ \A tree : RatesNow(tree, p) = 0
           \/ \E a \in Above(p) : \E i \in 1 .. Config[GraphOf(a)] :
                 \A tree : RatesNow(tree, p) = tree[a].params[i]
<1> DEFINE param == DependsOn[GraphOf(p)]
<1>1. CASE param = <<>>
    BY <1>1 DEF RatesNow
<1>2. CASE param # <<>>
    <2>1. GraphOf(p) \in Graph
        BY PathParts
    <2>8. PICK h \in Graph : \E i \in 1 .. Config[h] : param = <<h, i>> /\ Inside(GraphOf(p), h)
        BY <1>2, <2>1, GraphAssumption
    <2>2. PICK i \in 1 .. Config[h] : param = <<h, i>> /\ Inside(GraphOf(p), h)
        BY <2>8
    <2>3. PICK n \in 1 .. Len(p) - 1 : p[n][1] = h
        BY <2>2, InsideOnPath
    <2>4. Len(p) \in Nat /\ n \in 1 .. Len(p)
        BY <2>3, PathParts
    <2>5. n = CHOOSE m \in 1 .. Len(p) : p[m][1] = h
        BY <2>3, <2>4, PathDepth
    <2> DEFINE a == SubSeq(p, 1, n)
    <2>6. a \in Above(p) /\ GraphOf(a) = h
        BY <2>3, <2>4, PrefixPath DEF Above
    <2>7. \A tree : RatesNow(tree, p) = tree[a].params[i]
        <3> TAKE tree
        <3>1. RatesNow(tree, p) = ParamValue(tree, p, param)
            BY <1>2 DEF RatesNow
        <3>2. param[1] = h /\ param[2] = i
            BY <2>2
        <3> HIDE DEF param
        <3> QED
            BY <2>5, <3>1, <3>2 DEF ParamValue
    <2> HIDE DEF a
    <2> QED
        BY <2>2, <2>6, <2>7
<1> QED
    BY <1>1, <1>2

-----------------------------------------------------------------------------
(* What is resolved with a firing                                          *)

LEMMA FiringsInTree ==
    ASSUME NEW tree, TreeOK(tree), NEW p, IsPath(p), NEW g \in Subgraphs(GraphOf(p))
    PROVE  /\ IsFiniteSet(FiringsIn(tree, p, g))
           /\ \A q \in DOMAIN tree : q \in FiringsIn(tree, p, g) <=>
                 q # RootFiring /\ Parent(q) = p /\ GraphOf(q) = g
<1>1. IsFiniteSet(FiringsIn(tree, p, g))
    <2>1. FiringsIn(tree, p, g) \subseteq DOMAIN tree /\ IsFiniteSet(DOMAIN tree)
        BY DEF FiringsIn, TreeOK
    <2> QED
        BY <2>1, FS_Subset
<1>2. ASSUME NEW q \in DOMAIN tree
      PROVE  q \in FiringsIn(tree, p, g) <=> q # RootFiring /\ Parent(q) = p /\ GraphOf(q) = g
    <2>1. IsPath(q) /\ FiringOf(q) \in Nat
        BY PathParts DEF TreeOK
    <2>2. q = Child(p, g, FiringOf(q)) => q # RootFiring /\ Parent(q) = p /\ GraphOf(q) = g
        BY <2>1, ChildPath
    <2>3. q # RootFiring /\ Parent(q) = p /\ GraphOf(q) = g => q = Child(p, g, FiringOf(q))
        BY <2>1, ParentPath
    <2> QED
        BY <2>2, <2>3 DEF FiringsIn
<1> QED
    BY <1>1, <1>2

\* Rates and repetitions are numbers when the firings with parameters are there.
LEMMA RepetitionType ==
    ASSUME NEW tree, TreeOK(tree), NEW p, IsPath(p),
           \A a \in Above(p) : Config[GraphOf(a)] > 0 => a \in DOMAIN tree
    PROVE  /\ RatesNow(tree, First(p)) \in Nat
           /\ \A g \in Graph : RepetitionOf(tree, p, g) \in Nat
<1>1. RatesNow(tree, First(p)) \in Nat
    <2>1. IsPath(First(p)) /\ Above(First(p)) = Above(p)
        BY FirstPath
    <2>2. CASE RatesNow(tree, First(p)) = 0
        BY <2>2
    <2>3. CASE RatesNow(tree, First(p)) # 0
        <3>0. \E a \in Above(p) : \E i \in 1 .. Config[GraphOf(a)] :
                  \A t : RatesNow(t, First(p)) = t[a].params[i]
            BY <2>1, <2>3, RatesParts
        <3>1. PICK a \in Above(p) : \E i \in 1 .. Config[GraphOf(a)] :
                  \A t : RatesNow(t, First(p)) = t[a].params[i]
            BY <3>0
        <3>2. PICK i \in 1 .. Config[GraphOf(a)] :
                  \A t : RatesNow(t, First(p)) = t[a].params[i]
            BY <3>1
        <3>3. IsPath(a)
            BY AbovePath
        <3>4. Config[GraphOf(a)] \in Nat
            BY <3>3, PathParts, GraphTypes
        <3>5. a \in DOMAIN tree
            BY <3>2, <3>4
        <3>6. tree[a] \in FiringType(GraphOf(a))
            BY <3>5 DEF TreeOK
        <3>7. tree[a].params[i] \in Nat
            BY <3>6, <3>4 DEF FiringType
        <3> QED
            BY <3>2, <3>7
    <2> QED
        BY <2>2, <2>3
<1> QED
    BY <1>1, GraphTypes DEF RepetitionOf

\* A firing that can be resolved: what is right below it is.
Ready(tree, s) ==
    /\ TreeOK(tree)
    /\ s \in DOMAIN tree
    /\ \A g \in Subgraphs(GraphOf(s)) : \A q \in FiringsIn(tree, s, g) : tree[First(q)].resolved

Start(s) == {[path |-> s, new |-> FALSE]}

\* What is resolved at the nth level below s: new firings only, and none of them
\* below a graph with parameters.
DueOK(s, n, due) ==
    /\ due = [path |-> due.path, new |-> due.new]
    /\ IsPath(due.path)
    /\ Len(due.path) = Len(s) + n
    /\ n = 0 => due.path = s /\ due.new = FALSE
    /\ n > 0 => Below(due.path, s) /\ due.new = TRUE
    /\ \A a : IsPath(a) /\ Below(due.path, a) /\ Config[GraphOf(a)] > 0 => Below(s, a)

\* Levels: the recursive function is defined.
LevelsFrom(level, N, tree, firsts) ==
    level = [n \in 0 .. N |->
                IF n = 0 THEN firsts ELSE UNION {CreateOrUpdate(tree, due) : due \in level[n - 1]}]

LEMMA LevelsExist ==
    ASSUME NEW tree, NEW firsts, NEW N \in Nat
    PROVE  \E level : LevelsFrom(level, N, tree, firsts)
<1> DEFINE T == {m \in 0 .. N : \E level : LevelsFrom(level, m, tree, firsts)}
           next(due) == UNION {CreateOrUpdate(tree, d) : d \in due}
<1>1. 0 \in T
    <2> DEFINE f == [n \in 0 .. 0 |-> firsts]
    <2>1. LevelsFrom(f, 0, tree, firsts)
        BY DEF LevelsFrom
    <2> HIDE DEF f
    <2> QED
        BY <2>1
<1>2. ASSUME NEW m \in 1 .. N, m - 1 \in T PROVE m \in T
    <2>1. PICK f : LevelsFrom(f, m - 1, tree, firsts)
        BY <1>2
    <2> DEFINE g == [n \in 0 .. m |-> IF n = m THEN next(f[m - 1]) ELSE f[n]]
               h == [n \in 0 .. m |-> IF n = 0 THEN firsts ELSE next(g[n - 1])]
    <2> HIDE DEF next
    <2>2. ASSUME NEW n \in 0 .. m PROVE g[n] = IF n = 0 THEN firsts ELSE next(g[n - 1])
        <3>1. CASE n = m
            <4>1. m # 0 /\ m - 1 \in 0 .. m /\ m - 1 # m
                OBVIOUS
            <4> QED
                BY <3>1, <4>1
        <3>2. CASE n # m
            <4>1. n \in 0 .. m - 1 /\ g[n] = f[n]
                BY <3>2
            <4>2. n # 0 => n - 1 \in 0 .. m /\ n - 1 # m
                BY <3>2
            <4>3. f[n] = IF n = 0 THEN firsts ELSE next(f[n - 1])
                BY <2>1, <4>1 DEF LevelsFrom, next
            <4> QED
                BY <4>1, <4>2, <4>3
        <3> QED
            BY <3>1, <3>2
    <2>3. g = h
        <3> HIDE DEF next
        <3>1. \A n \in 0 .. m : g[n] = h[n]
            BY <2>2
        <3> QED
            BY <3>1
    <2> HIDE DEF g
    <2>4. LevelsFrom(g, m, tree, firsts)
        BY <2>3 DEF LevelsFrom, next
    <2> QED
        BY <2>4
<1> HIDE DEF T
<1>3. 0 .. N \subseteq T
    BY <1>1, <1>2, LevelInduction
<1>4. N \in T
    BY <1>3
<1> QED
    BY <1>4 DEF T

LEMMA ResolvedLevels ==
    ASSUME NEW tree, NEW firsts
    PROVE  \E level :
              /\ LevelsFrom(level, Cardinality(Graph), tree, firsts)
              /\ Resolved(tree, firsts) = UNION {level[n] : n \in 0 .. Cardinality(Graph)}
<1> DEFINE level == CHOOSE f : LevelsFrom(f, Cardinality(Graph), tree, firsts)
<1>1. LevelsFrom(level, Cardinality(Graph), tree, firsts)
    BY LevelsExist, DepthType
<1>2. Resolved(tree, firsts) = UNION {level[n] : n \in 0 .. Cardinality(Graph)}
    BY DEF Resolved, LevelsFrom
<1> HIDE DEF level
<1> QED
    BY <1>1, <1>2

\* What a firing that is resolved makes its subgraphs resolve.
LEMMA BelowDue ==
    ASSUME NEW tree, NEW s, Ready(tree, s), NEW n \in Nat, NEW due, DueOK(s, n, due)
    PROVE  /\ IsFiniteSet(CreateOrUpdate(tree, due))
           /\ \A g \in Graph : RepetitionOf(tree, due.path, g) \in Nat
           /\ RatesNow(tree, First(due.path)) \in Nat
           /\ \A d : d \in CreateOrUpdate(tree, due) <=>
                 \E g \in Subgraphs(GraphOf(due.path)) :
                    /\ NewHandler(tree, due, g) /\ IsStatic(g)
                    /\ \E k \in 0 .. RepetitionOf(tree, due.path, g) - 1 :
                          d = [path |-> Child(due.path, g, k), new |-> TRUE]
           /\ \A d \in CreateOrUpdate(tree, due) : DueOK(s, n + 1, d)
<1> DEFINE p == due.path
           made(g) == {[path |-> q, new |-> TRUE] :
                          q \in {r \in NewFirings(tree, p, g) : IsStatic(g)}}
           of(g) == IF ~ NewHandler(tree, due, g) THEN ResolveFirings(tree, p, g) ELSE made(g)
<1>1. /\ TreeOK(tree) /\ IsPath(p) /\ GraphOf(p) \in Graph /\ IsPath(s)
      /\ Subgraphs(GraphOf(p)) \subseteq Graph /\ IsFiniteSet(Subgraphs(GraphOf(p)))
    BY PathParts, GraphTypes DEF Ready, DueOK, TreeOK
<1>2. \A g \in Graph : RepetitionOf(tree, p, g) \in Nat
    <2>1. ASSUME NEW a \in Above(p), Config[GraphOf(a)] > 0 PROVE a \in DOMAIN tree
        <3>1. IsPath(a) /\ Below(p, a)
            BY <1>1, AbovePath
        <3>2. Below(s, a)
            BY <2>1, <3>1 DEF DueOK
        <3> QED
            BY <1>1, <3>1, <3>2, AboveInTree DEF Ready
    <2> QED
        BY <1>1, <2>1, RepetitionType
<1>9. RatesNow(tree, First(p)) \in Nat
    <2>1. ASSUME NEW a \in Above(p), Config[GraphOf(a)] > 0 PROVE a \in DOMAIN tree
        <3>1. IsPath(a) /\ Below(p, a)
            BY <1>1, AbovePath
        <3>2. Below(s, a)
            BY <2>1, <3>1 DEF DueOK
        <3> QED
            BY <1>1, <3>1, <3>2, AboveInTree DEF Ready
    <2> QED
        BY <1>1, <2>1, RepetitionType
<1>3. ASSUME NEW g \in Subgraphs(GraphOf(p)), ~ NewHandler(tree, due, g)
      PROVE  ResolveFirings(tree, p, g) = {}
    <2>1. due.new = FALSE
        BY <1>3 DEF NewHandler, DueOK
    <2>2. p = s
        BY <2>1 DEF DueOK
    <2>3. \A q \in FiringsIn(tree, p, g) : tree[First(q)].resolved
        BY <2>2 DEF Ready
    <2> QED
        BY <2>3 DEF ResolveFirings
<1>4. \A g \in Subgraphs(GraphOf(p)) : \A d : d \in made(g) <=>
          IsStatic(g) /\ \E k \in 0 .. RepetitionOf(tree, p, g) - 1 :
                             d = [path |-> Child(p, g, k), new |-> TRUE]
    BY DEF NewFirings
<1>5. ASSUME NEW g \in Subgraphs(GraphOf(p)) PROVE IsFiniteSet(of(g))
    <2>1. CASE ~ NewHandler(tree, due, g)
        BY <1>3, <2>1, FS_EmptySet
    <2>2. CASE NewHandler(tree, due, g)
        <3>1. RepetitionOf(tree, p, g) \in Nat
            BY <1>1, <1>2
        <3>2. IsFiniteSet(0 .. RepetitionOf(tree, p, g) - 1)
            BY <3>1, FS_Interval
        <3> DEFINE f == [k \in 0 .. RepetitionOf(tree, p, g) - 1 |->
                           [path |-> Child(p, g, k), new |-> TRUE]]
        <3>5. IsFiniteSet({f[k] : k \in DOMAIN f})
            BY <3>2, ImageFinite
        <3>3. IsFiniteSet({[path |-> Child(p, g, k), new |-> TRUE] :
                              k \in 0 .. RepetitionOf(tree, p, g) - 1})
            BY <3>5
        <3>4. made(g) \subseteq {[path |-> Child(p, g, k), new |-> TRUE] :
                                    k \in 0 .. RepetitionOf(tree, p, g) - 1}
            BY <1>4
        <3> QED
            BY <2>2, <3>3, <3>4, FS_Subset
    <2> QED
        BY <2>1, <2>2
<1>6. CreateOrUpdate(tree, due) = UNION {of(g) : g \in Subgraphs(GraphOf(p))}
    BY DEF CreateOrUpdate
<1> HIDE DEF made
<1>7. \A d : d \in CreateOrUpdate(tree, due) <=>
         \E g \in Subgraphs(GraphOf(p)) :
            /\ NewHandler(tree, due, g) /\ IsStatic(g)
            /\ \E k \in 0 .. RepetitionOf(tree, p, g) - 1 :
                  d = [path |-> Child(p, g, k), new |-> TRUE]
    BY <1>3, <1>4, <1>6
<1>8. ASSUME NEW d \in CreateOrUpdate(tree, due) PROVE DueOK(s, n + 1, d)
    <2>1. PICK g \in Subgraphs(GraphOf(p)) :
              /\ IsStatic(g)
              /\ \E k \in 0 .. RepetitionOf(tree, p, g) - 1 :
                    d = [path |-> Child(p, g, k), new |-> TRUE]
        BY <1>7
    <2>2. PICK k \in 0 .. RepetitionOf(tree, p, g) - 1 :
              d = [path |-> Child(p, g, k), new |-> TRUE]
        BY <2>1
    <2>3. k \in Nat
        BY <1>1, <1>2
    <2>4. /\ IsPath(d.path) /\ Len(d.path) = Len(p) + 1
          /\ Parent(d.path) = p /\ d.path # RootFiring
        BY <1>1, <2>2, <2>3, ChildPath
    <2>5. Len(d.path) = Len(s) + (n + 1)
        <3>1. Len(s) \in Nat /\ Len(p) = Len(s) + n
            BY <1>1, PathParts DEF DueOK
        <3> QED
            BY <2>4, <3>1
    <2>6. Below(d.path, s)
        <3>1. p = s \/ Below(p, s)
            BY DEF DueOK
        <3> QED
            BY <1>1, <2>4, <3>1, BelowParent
    <2>7. ASSUME NEW a, IsPath(a), Below(d.path, a), Config[GraphOf(a)] > 0 PROVE Below(s, a)
        <3>1. p = a \/ Below(p, a)
            BY <2>4, <2>7, BelowParent
        <3>2. Config[GraphOf(p)] = 0
            BY <1>1, <2>1, GraphTypes
        <3> QED
            BY <2>7, <3>1, <3>2 DEF DueOK
    <2> QED
        BY <2>2, <2>4, <2>5, <2>6, <2>7 DEF DueOK
<1> HIDE DEF of
<1>10. IsFiniteSet(CreateOrUpdate(tree, due))
    <2> DEFINE f == [g \in Subgraphs(GraphOf(p)) |-> of(g)]
    <2>3. IsFiniteSet({f[g] : g \in DOMAIN f})
        BY <1>1, ImageFinite
    <2>1. IsFiniteSet({of(g) : g \in Subgraphs(GraphOf(p))})
        BY <2>3
    <2>2. \A S \in {of(g) : g \in Subgraphs(GraphOf(p))} : IsFiniteSet(S)
        BY <1>5
    <2> QED
        BY <1>6, <2>1, <2>2, FS_UNION
<1> QED
    BY <1>2, <1>7, <1>8, <1>9, <1>10

\* What is resolved with s, all levels together: s itself, and the firings of
\* the new static handlers of what is resolved.
DueShape(tree, s, all) ==
    /\ IsFiniteSet(all)
    /\ [path |-> s, new |-> FALSE] \in all
    /\ \A due \in all :
          /\ IsPath(due.path) /\ due = [path |-> due.path, new |-> due.new]
          /\ (due.path = s /\ due.new = FALSE) \/ (Below(due.path, s) /\ due.new = TRUE)
          /\ \A g \in Graph : RepetitionOf(tree, due.path, g) \in Nat
          /\ RatesNow(tree, First(due.path)) \in Nat
    /\ \A due \in all : Below(due.path, s) =>
          \E d \in all : \E g \in Subgraphs(GraphOf(d.path)) :
             /\ NewHandler(tree, d, g) /\ IsStatic(g)
             /\ \E k \in 0 .. RepetitionOf(tree, d.path, g) - 1 :
                   due.path = Child(d.path, g, k)
    /\ \A d \in all : \A g \in Subgraphs(GraphOf(d.path)) :
          NewHandler(tree, d, g) /\ IsStatic(g) =>
             \A k \in 0 .. RepetitionOf(tree, d.path, g) - 1 :
                [path |-> Child(d.path, g, k), new |-> TRUE] \in all

LEMMA DueFacts ==
    ASSUME NEW tree, NEW s, Ready(tree, s), NEW all, all = Resolved(tree, Start(s))
    PROVE  DueShape(tree, s, all)
<1> DEFINE N == Cardinality(Graph)
           first == [path |-> s, new |-> FALSE]
<1>1. PICK level : LevelsFrom(level, N, tree, Start(s))
                   /\ all = UNION {level[n] : n \in 0 .. N}
    BY ResolvedLevels
<1>2. TreeOK(tree) /\ IsPath(s) /\ Len(s) \in Nat \ {0} /\ N \in Nat
    BY PathParts, DepthType DEF Ready, TreeOK
<1>3. level[0] = {first}
    BY <1>1, <1>2 DEF LevelsFrom, Start
<1>4. \A n \in 1 .. N : level[n] = UNION {CreateOrUpdate(tree, due) : due \in level[n - 1]}
    BY <1>1, <1>2 DEF LevelsFrom
<1> DEFINE T == {n \in 0 .. N : IsFiniteSet(level[n]) /\ \A due \in level[n] : DueOK(s, n, due)}
<1>5. 0 \in T
    <2>1. DueOK(s, 0, first)
        BY <1>2 DEF DueOK
    <2>2. IsFiniteSet({first})
        BY FS_Singleton
    <2> HIDE DEF first
    <2>3. IsFiniteSet(level[0]) /\ \A due \in level[0] : DueOK(s, 0, due)
        BY <1>3, <2>1, <2>2
    <2>4. 0 \in 0 .. N
        BY <1>2
    <2> QED
        BY <2>3, <2>4
<1>6. ASSUME NEW n \in 1 .. N, n - 1 \in T PROVE n \in T
    <2> DEFINE next(due) == CreateOrUpdate(tree, due)
               f == [due \in level[n - 1] |-> next(due)]
    <2>1. level[n] = UNION {next(due) : due \in level[n - 1]}
        BY <1>4
    <2>2. n - 1 \in Nat /\ (n - 1) + 1 = n
        OBVIOUS
    <2>3. \A due \in level[n - 1] : DueOK(s, n - 1, due)
        BY <1>6
    <2>4. ASSUME NEW due \in level[n - 1]
          PROVE  IsFiniteSet(next(due)) /\ \A d \in next(due) : DueOK(s, n, d)
        <3>1. DueOK(s, n - 1, due)
            BY <2>3
        <3>2. /\ IsFiniteSet(CreateOrUpdate(tree, due))
              /\ \A d \in CreateOrUpdate(tree, due) : DueOK(s, (n - 1) + 1, d)
            BY <2>2, <3>1, BelowDue
        <3> QED
            BY <2>2, <3>2
    <2> HIDE DEF next
    <2>5. IsFiniteSet({f[due] : due \in DOMAIN f})
        BY <1>6, ImageFinite
    <2>6. {f[due] : due \in DOMAIN f} = {next(due) : due \in level[n - 1]}
        OBVIOUS
    <2>7. IsFiniteSet(UNION {next(due) : due \in level[n - 1]})
        BY <2>4, <2>5, <2>6, FS_UNION
    <2>8. IsFiniteSet(level[n])
        BY <2>1, <2>7
    <2>9. \A d \in level[n] : DueOK(s, n, d)
        BY <2>1, <2>4
    <2>10. n \in 0 .. N
        BY <1>2
    <2> QED
        BY <2>8, <2>9, <2>10
<1> HIDE DEF T
<1>7. 0 .. N \subseteq T
    BY <1>2, <1>5, <1>6, LevelInduction
<1>8. \A n \in 0 .. N : IsFiniteSet(level[n]) /\ \A due \in level[n] : DueOK(s, n, due)
    BY <1>7 DEF T
<1>9. IsFiniteSet(all)
    <2> DEFINE f == [n \in 0 .. N |-> level[n]]
    <2>1. IsFiniteSet(0 .. N)
        BY <1>2, FS_Interval
    <2>2. IsFiniteSet({f[n] : n \in DOMAIN f})
        BY <2>1, ImageFinite
    <2>3. {f[n] : n \in DOMAIN f} = {level[n] : n \in 0 .. N}
        OBVIOUS
    <2>4. \A S \in {level[n] : n \in 0 .. N} : IsFiniteSet(S)
        BY <1>8
    <2>5. IsFiniteSet({level[n] : n \in 0 .. N})
        BY <2>2, <2>3
    <2>6. IsFiniteSet(UNION {level[n] : n \in 0 .. N})
        BY <2>4, <2>5, FS_UNION
    <2> QED
        BY <1>1, <2>6
<1>10. first \in all
    <2>1. first \in level[0] /\ 0 \in 0 .. N
        BY <1>2, <1>3
    <2> QED
        BY <1>1, <2>1
<1>11. \A due \in all : \E n \in 0 .. N : due \in level[n]
    BY <1>1
<1> HIDE DEF first
<1>12. ASSUME NEW due \in all
       PROVE  /\ IsPath(due.path) /\ due = [path |-> due.path, new |-> due.new]
              /\ (due.path = s /\ due.new = FALSE) \/ (Below(due.path, s) /\ due.new = TRUE)
              /\ \A g \in Graph : RepetitionOf(tree, due.path, g) \in Nat
              /\ RatesNow(tree, First(due.path)) \in Nat
    <2>1. PICK n \in 0 .. N : due \in level[n]
        BY <1>11
    <2>2. DueOK(s, n, due) /\ n \in Nat
        BY <1>8, <2>1
    <2>3. /\ \A g \in Graph : RepetitionOf(tree, due.path, g) \in Nat
          /\ RatesNow(tree, First(due.path)) \in Nat
        BY <2>2, BelowDue
    <2>4. n = 0 \/ n > 0
        BY <2>2
    <2>5. (due.path = s /\ due.new = FALSE) \/ (Below(due.path, s) /\ due.new = TRUE)
        <3>1. n = 0 => due.path = s /\ due.new = FALSE
            BY <2>2 DEF DueOK
        <3>2. n > 0 => Below(due.path, s) /\ due.new = TRUE
            BY <2>2 DEF DueOK
        <3> QED
            BY <2>4, <3>1, <3>2
    <2>6. IsPath(due.path) /\ due = [path |-> due.path, new |-> due.new]
        BY <2>2 DEF DueOK
    <2> QED
        BY <2>3, <2>5, <2>6
<1>13. ASSUME NEW due \in all, Below(due.path, s)
       PROVE  \E d \in all : \E g \in Subgraphs(GraphOf(d.path)) :
                 /\ NewHandler(tree, d, g) /\ IsStatic(g)
                 /\ \E k \in 0 .. RepetitionOf(tree, d.path, g) - 1 :
                       due.path = Child(d.path, g, k)
    <2>1. PICK n \in 0 .. N : due \in level[n]
        BY <1>11
    <2>2. n # 0
        <3>1. n = 0 => due.path = s
            BY <1>8, <2>1 DEF DueOK
        <3>2. ~ Below(s, s)
            BY <1>2 DEF Below
        <3> QED
            BY <1>13, <3>1, <3>2
    <2>3. n \in 1 .. N /\ n - 1 \in 0 .. N /\ n - 1 \in Nat
        BY <1>2, <2>2
    <2>4. PICK d \in level[n - 1] : due \in CreateOrUpdate(tree, d)
        BY <1>4, <2>1, <2>3
    <2>5. DueOK(s, n - 1, d) /\ d \in all
        BY <1>1, <1>8, <2>3, <2>4
    <2>6. \A e : e \in CreateOrUpdate(tree, d) <=>
             \E g \in Subgraphs(GraphOf(d.path)) :
                /\ NewHandler(tree, d, g) /\ IsStatic(g)
                /\ \E k \in 0 .. RepetitionOf(tree, d.path, g) - 1 :
                      e = [path |-> Child(d.path, g, k), new |-> TRUE]
        BY <2>3, <2>5, BelowDue
    <2>7. PICK g \in Subgraphs(GraphOf(d.path)) :
                /\ NewHandler(tree, d, g) /\ IsStatic(g)
                /\ \E k \in 0 .. RepetitionOf(tree, d.path, g) - 1 :
                      due = [path |-> Child(d.path, g, k), new |-> TRUE]
        BY <2>4, <2>6
    <2>8. \E k \in 0 .. RepetitionOf(tree, d.path, g) - 1 : due.path = Child(d.path, g, k)
        BY <2>7
    <2> QED
        BY <2>5, <2>7, <2>8
<1>14. ASSUME NEW d \in all, NEW g \in Subgraphs(GraphOf(d.path)),
              NewHandler(tree, d, g), IsStatic(g),
              NEW k \in 0 .. RepetitionOf(tree, d.path, g) - 1
       PROVE  [path |-> Child(d.path, g, k), new |-> TRUE] \in all
    <2>1. PICK n \in 0 .. N : d \in level[n]
        BY <1>11
    <2>2. DueOK(s, n, d) /\ n \in Nat
        BY <1>8, <2>1
    <2>3. /\ \A h \in Graph : RepetitionOf(tree, d.path, h) \in Nat
          /\ \A e : e \in CreateOrUpdate(tree, d) <=>
                \E h \in Subgraphs(GraphOf(d.path)) :
                   /\ NewHandler(tree, d, h) /\ IsStatic(h)
                   /\ \E j \in 0 .. RepetitionOf(tree, d.path, h) - 1 :
                         e = [path |-> Child(d.path, h, j), new |-> TRUE]
        BY <2>2, BelowDue
    <2>4. [path |-> Child(d.path, g, k), new |-> TRUE] \in CreateOrUpdate(tree, d)
        BY <1>14, <2>3
    <2>5. n + 1 \in 1 .. N
        <3>1. IsPath(d.path) /\ Len(d.path) = Len(s) + n
            BY <2>2 DEF DueOK
        <3>2. g \in Graph /\ k \in Nat
            <4>1. g \in Graph
                BY <3>1, PathParts, GraphTypes
            <4> QED
                BY <2>3, <4>1
        <3>3. IsPath(Child(d.path, g, k)) /\ Len(Child(d.path, g, k)) = Len(d.path) + 1
            BY <3>1, <3>2, ChildPath
        <3>4. Len(Child(d.path, g, k)) <= N
            BY <3>3, PathDepth
        <3> QED
            BY <1>2, <2>2, <3>1, <3>3, <3>4
    <2>6. d \in level[(n + 1) - 1]
        BY <2>1, <2>2
    <2>7. [path |-> Child(d.path, g, k), new |-> TRUE] \in level[n + 1]
        BY <1>4, <2>4, <2>5, <2>6
    <2> QED
        BY <1>1, <2>5, <2>7
<1> QED
    BY <1>9, <1>10, <1>12, <1>13, <1>14 DEF first, DueShape

-----------------------------------------------------------------------------
(* The tree after a resolution                                             *)

\* A firing is under a handler when it is one of its firings, or is in one.
LEMMA UnderParent ==
    ASSUME NEW p, IsPath(p), NEW q, IsPath(q), NEW g
    PROVE  /\ UnderHandler(p, <<q, g>>) => Below(p, q)
           /\ ~ UnderHandler(RootFiring, <<q, g>>)
           /\ p # RootFiring =>
                (UnderHandler(p, <<q, g>>) <=>
                    \/ Parent(p) = q /\ GraphOf(p) = g
                    \/ UnderHandler(Parent(p), <<q, g>>))
<1>1. /\ UnderHandler(p, <<q, g>>) <=> (Below(p, q) /\ p[Len(q) + 1][1] = g)
      /\ UnderHandler(Parent(p), <<q, g>>) <=>
            (Below(Parent(p), q) /\ Parent(p)[Len(q) + 1][1] = g)
      /\ UnderHandler(RootFiring, <<q, g>>) =>  Len(RootFiring) > Len(q)
    BY DEF UnderHandler, Below
<1>2. Len(RootFiring) = 1 /\ Len(q) \in Nat \ {0}
    BY PathParts DEF RootFiring
<1>3. ASSUME p # RootFiring
      PROVE  UnderHandler(p, <<q, g>>) <=>
                    \/ Parent(p) = q /\ GraphOf(p) = g
                    \/ UnderHandler(Parent(p), <<q, g>>)
    <2> DEFINE r == Parent(p)
    <2>1. /\ IsPath(r) /\ Len(p) = Len(r) + 1 /\ GraphOf(p) \in Subgraphs(GraphOf(r))
          /\ p = Child(r, GraphOf(p), FiringOf(p)) /\ FiringOf(p) \in Nat
        BY <1>3, ParentPath
    <2> HIDE DEF r
    <2>2. /\ \A i \in 1 .. Len(r) : Child(r, GraphOf(p), FiringOf(p))[i] = r[i]
          /\ Child(r, GraphOf(p), FiringOf(p))[Len(r) + 1] = <<GraphOf(p), FiringOf(p)>>
        BY <2>1, ChildPath
    <2>3. /\ \A i \in 1 .. Len(r) : p[i] = r[i]
          /\ p[Len(r) + 1][1] = GraphOf(p)
        BY <2>1, <2>2
    <2>4. Below(p, q) <=> r = q \/ Below(r, q)
        BY <1>3, BelowParent DEF r
    <2>5. ASSUME r = q PROVE ~ Below(r, q) /\ p[Len(q) + 1][1] = GraphOf(p)
        BY <2>3, <2>5, <1>2 DEF Below
    <2>6. ASSUME Below(r, q) PROVE p[Len(q) + 1] = r[Len(q) + 1]
        <3>1. Len(r) \in Nat /\ Len(r) > Len(q)
            BY <2>1, <2>6, PathParts DEF Below
        <3>2. Len(q) + 1 \in 1 .. Len(r)
            BY <1>2, <3>1
        <3> QED
            BY <2>3, <3>2
    <2> QED
        BY <1>1, <2>4, <2>5, <2>6 DEF r
<1> QED
    BY <1>1, <1>2, <1>3

\* The firings of the new handlers.
Made(tree, all) ==
    UNION {NewFirings(tree, h[1], h[2]) : h \in NewHandlers(tree, all)}

\* The firings that were there and are under no new handler.
Kept(tree, all) ==
    {p \in DOMAIN tree : ~ \E h \in NewHandlers(tree, all) : UnderHandler(p, h)}

LEMMA HandlerParts ==
    ASSUME NEW tree, NEW all
    PROVE  /\ \A h : h \in NewHandlers(tree, all) <=>
                 \E d \in all : \E g \in Subgraphs(GraphOf(d.path)) :
                    NewHandler(tree, d, g) /\ h = <<d.path, g>>
           /\ \A p : p \in Made(tree, all) <=>
                 \E d \in all : \E g \in Subgraphs(GraphOf(d.path)) :
                    /\ NewHandler(tree, d, g)
                    /\ \E k \in 0 .. RepetitionOf(tree, d.path, g) - 1 : p = Child(d.path, g, k)
           /\ \A p \in DOMAIN tree : p \in Kept(tree, all) <=>
                 \A d \in all : \A g \in Subgraphs(GraphOf(d.path)) :
                    NewHandler(tree, d, g) => ~ UnderHandler(p, <<d.path, g>>)
           /\ Kept(tree, all) \subseteq DOMAIN tree
<1>1. \A h : h \in NewHandlers(tree, all) <=>
                 \E d \in all : \E g \in Subgraphs(GraphOf(d.path)) :
                    NewHandler(tree, d, g) /\ h = <<d.path, g>>
    BY DEF NewHandlers
<1>2. \A p : p \in Made(tree, all) <=>
                 \E d \in all : \E g \in Subgraphs(GraphOf(d.path)) :
                    /\ NewHandler(tree, d, g)
                    /\ \E k \in 0 .. RepetitionOf(tree, d.path, g) - 1 : p = Child(d.path, g, k)
    <2>1. \A p : p \in Made(tree, all) <=>
             \E h \in NewHandlers(tree, all) :
                \E k \in 0 .. RepetitionOf(tree, h[1], h[2]) - 1 : p = Child(h[1], h[2], k)
        BY DEF Made, NewFirings
    <2>2. ASSUME NEW p
          PROVE  (\E h \in NewHandlers(tree, all) :
                    \E k \in 0 .. RepetitionOf(tree, h[1], h[2]) - 1 : p = Child(h[1], h[2], k))
                 <=> \E d \in all : \E g \in Subgraphs(GraphOf(d.path)) :
                       /\ NewHandler(tree, d, g)
                       /\ \E k \in 0 .. RepetitionOf(tree, d.path, g) - 1 : p = Child(d.path, g, k)
        <3>1. ASSUME NEW h \in NewHandlers(tree, all),
                     \E k \in 0 .. RepetitionOf(tree, h[1], h[2]) - 1 : p = Child(h[1], h[2], k)
              PROVE  \E d \in all : \E g \in Subgraphs(GraphOf(d.path)) :
                       /\ NewHandler(tree, d, g)
                       /\ \E k \in 0 .. RepetitionOf(tree, d.path, g) - 1 : p = Child(d.path, g, k)
            <4>1. PICK d \in all : \E g \in Subgraphs(GraphOf(d.path)) :
                      NewHandler(tree, d, g) /\ h = <<d.path, g>>
                BY <1>1, <3>1
            <4>2. PICK g \in Subgraphs(GraphOf(d.path)) :
                      NewHandler(tree, d, g) /\ h = <<d.path, g>>
                BY <4>1
            <4>3. h[1] = d.path /\ h[2] = g
                BY <4>2
            <4>4. \E k \in 0 .. RepetitionOf(tree, d.path, g) - 1 : p = Child(d.path, g, k)
                BY <3>1, <4>3
            <4> QED
                BY <4>2, <4>4
        <3>2. ASSUME NEW d \in all, NEW g \in Subgraphs(GraphOf(d.path)), NewHandler(tree, d, g),
                     \E k \in 0 .. RepetitionOf(tree, d.path, g) - 1 : p = Child(d.path, g, k)
              PROVE  \E h \in NewHandlers(tree, all) :
                    \E k \in 0 .. RepetitionOf(tree, h[1], h[2]) - 1 : p = Child(h[1], h[2], k)
            <4>1. <<d.path, g>> \in NewHandlers(tree, all)
                BY <1>1, <3>2
            <4>2. <<d.path, g>>[1] = d.path /\ <<d.path, g>>[2] = g
                OBVIOUS
            <4> DEFINE h == <<d.path, g>>
            <4>3. \E k \in 0 .. RepetitionOf(tree, h[1], h[2]) - 1 : p = Child(h[1], h[2], k)
                BY <3>2, <4>2
            <4> HIDE DEF h
            <4> QED
                BY <4>1, <4>3 DEF h
        <3> QED
            BY <3>1, <3>2
    <2> QED
        BY <2>1, <2>2
<1>3. \A p \in DOMAIN tree : p \in Kept(tree, all) <=>
                 \A d \in all : \A g \in Subgraphs(GraphOf(d.path)) :
                    NewHandler(tree, d, g) => ~ UnderHandler(p, <<d.path, g>>)
    BY <1>1 DEF Kept
<1> QED
    BY <1>1, <1>2, <1>3 DEF Kept

LEMMA MadeFacts ==
    ASSUME NEW tree, NEW s, Ready(tree, s), NEW all, all = Resolved(tree, Start(s))
    PROVE  /\ IsFiniteSet(Made(tree, all))
           /\ \A due \in all : due.path = s \/ due.path \in Made(tree, all)
           /\ \E due \in all : due.path = s
           /\ \A p \in Made(tree, all) :
                 /\ IsPath(p) /\ p # RootFiring /\ Below(p, s)
                 /\ Parent(p) = s \/ Parent(p) \in Made(tree, all)
                 /\ First(p) \in Made(tree, all)
                 /\ ~ IsStatic(GraphOf(p)) => FiringOf(p) = 0
                 /\ IsStatic(GraphOf(p)) <=> \E due \in all : due.path = p
                 /\ \A g \in Subgraphs(GraphOf(p)) :
                       Config[GraphOf(p)] > 0 => Child(p, g, 0) \in Made(tree, all)
                 /\ p \notin Kept(tree, all)
           /\ \A g \in Subgraphs(GraphOf(s)) : Config[GraphOf(s)] > 0 =>
                 Child(s, g, 0) \in Made(tree, all) \cup Kept(tree, all)
<1> DEFINE rep(d, g) == RepetitionOf(tree, d.path, g)
           M == Made(tree, all)
<1>1. /\ IsFiniteSet(all)
      /\ [path |-> s, new |-> FALSE] \in all
      /\ \A due \in all :
            /\ IsPath(due.path) /\ due = [path |-> due.path, new |-> due.new]
            /\ (due.path = s /\ due.new = FALSE) \/ (Below(due.path, s) /\ due.new = TRUE)
            /\ \A g \in Graph : rep(due, g) \in Nat
      /\ \A due \in all : Below(due.path, s) =>
            \E d \in all : \E g \in Subgraphs(GraphOf(d.path)) :
               /\ NewHandler(tree, d, g) /\ IsStatic(g)
               /\ \E k \in 0 .. rep(d, g) - 1 : due.path = Child(d.path, g, k)
      /\ \A d \in all : \A g \in Subgraphs(GraphOf(d.path)) :
            NewHandler(tree, d, g) /\ IsStatic(g) =>
               \A k \in 0 .. rep(d, g) - 1 :
                  [path |-> Child(d.path, g, k), new |-> TRUE] \in all
    <2>1. DueShape(tree, s, all)
        BY DueFacts
    <2> QED
        BY <2>1 DEF DueShape
<1>2. /\ TreeOK(tree) /\ IsPath(s) /\ s \in DOMAIN tree
    BY DEF Ready, TreeOK
<1>3. \A p : p \in M <=>
         \E d \in all : \E g \in Subgraphs(GraphOf(d.path)) :
            /\ NewHandler(tree, d, g)
            /\ \E k \in 0 .. rep(d, g) - 1 : p = Child(d.path, g, k)
    BY HandlerParts
<1>4. \A d \in all : GraphOf(d.path) \in Graph /\ Subgraphs(GraphOf(d.path)) \subseteq Graph
                     /\ IsFiniteSet(Subgraphs(GraphOf(d.path)))
    BY <1>1, PathParts, GraphTypes
<1>5. \A d \in all : \A g \in Subgraphs(GraphOf(d.path)) : rep(d, g) \in Nat
    BY <1>1, <1>4
<1>6. \A due \in all : due.path = s \/ due.path \in M
    <2> SUFFICES ASSUME NEW due \in all, due.path # s PROVE due.path \in M
        OBVIOUS
    <2>1. \E d \in all : \E g \in Subgraphs(GraphOf(d.path)) :
               /\ NewHandler(tree, d, g) /\ IsStatic(g)
               /\ \E k \in 0 .. rep(d, g) - 1 : due.path = Child(d.path, g, k)
        BY <1>1
    <2> QED
        BY <1>3, <2>1
<1>7. IsFiniteSet(M)
    <2> DEFINE P == {[d |-> d, g |-> g] : d \in all, g \in Graph}
               Of(x) == IF x.g \in Subgraphs(GraphOf(x.d.path)) /\ NewHandler(tree, x.d, x.g)
                        THEN {Child(x.d.path, x.g, k) : k \in 0 .. rep(x.d, x.g) - 1} ELSE {}
               f == [x \in all \X Graph |-> Of([d |-> x[1], g |-> x[2]])]
    <2>1. IsFiniteSet(all \X Graph)
        BY <1>1, GraphAssumption, FS_Product
    <2>2. IsFiniteSet({f[x] : x \in DOMAIN f})
        BY <2>1, ImageFinite
    <2>3. ASSUME NEW x \in all \X Graph PROVE IsFiniteSet(f[x])
        <3> DEFINE d == x[1]
                   g == x[2]
                   c == [k \in 0 .. rep(d, g) - 1 |-> Child(d.path, g, k)]
        <3>1. d \in all /\ g \in Graph
            OBVIOUS
        <3>2. rep(d, g) \in Nat
            BY <1>1, <3>1
        <3>3. IsFiniteSet(0 .. rep(d, g) - 1)
            BY <3>2, FS_Interval
        <3>4. IsFiniteSet({c[k] : k \in DOMAIN c})
            BY <3>3, ImageFinite
        <3>5. {c[k] : k \in DOMAIN c} = {Child(d.path, g, k) : k \in 0 .. rep(d, g) - 1}
            OBVIOUS
        <3> HIDE DEF c, d, g, rep
        <3>6. f[x] = IF g \in Subgraphs(GraphOf(d.path)) /\ NewHandler(tree, d, g)
                     THEN {Child(d.path, g, k) : k \in 0 .. rep(d, g) - 1} ELSE {}
            BY DEF d, g
        <3> HIDE DEF f
        <3> QED
            BY <3>4, <3>5, <3>6, FS_EmptySet
    <2>4. M \subseteq UNION {f[x] : x \in DOMAIN f}
        <3> SUFFICES ASSUME NEW p \in M PROVE p \in UNION {f[x] : x \in DOMAIN f}
            OBVIOUS
        <3>1. PICK d \in all : \E g \in Subgraphs(GraphOf(d.path)) :
            /\ NewHandler(tree, d, g)
            /\ \E k \in 0 .. rep(d, g) - 1 : p = Child(d.path, g, k)
            BY <1>3
        <3>2. PICK g \in Subgraphs(GraphOf(d.path)) :
            /\ NewHandler(tree, d, g)
            /\ \E k \in 0 .. rep(d, g) - 1 : p = Child(d.path, g, k)
            BY <3>1
        <3>3. <<d, g>> \in all \X Graph
            BY <1>4
        <3>4. f[<<d, g>>] = {Child(d.path, g, k) : k \in 0 .. rep(d, g) - 1}
            BY <3>2, <3>3
        <3>5. p \in f[<<d, g>>]
            BY <3>2, <3>4
        <3> HIDE DEF f
        <3> QED
            BY <3>3, <3>5 DEF f
    <2>5. IsFiniteSet(UNION {f[x] : x \in DOMAIN f})
        <3>1. \A S \in {f[x] : x \in DOMAIN f} : IsFiniteSet(S)
            BY <2>3
        <3> QED
            BY <2>2, <3>1, FS_UNION
    <2> QED
        BY <2>4, <2>5, FS_Subset
<1>8. ASSUME NEW p \in M
      PROVE  /\ IsPath(p) /\ p # RootFiring /\ Below(p, s)
             /\ Parent(p) = s \/ Parent(p) \in M
             /\ First(p) \in M
             /\ ~ IsStatic(GraphOf(p)) => FiringOf(p) = 0
             /\ IsStatic(GraphOf(p)) <=> \E due \in all : due.path = p
             /\ \A g \in Subgraphs(GraphOf(p)) :
                   Config[GraphOf(p)] > 0 => Child(p, g, 0) \in M
             /\ p \notin Kept(tree, all)
    <2>1. PICK d \in all : \E g \in Subgraphs(GraphOf(d.path)) :
            /\ NewHandler(tree, d, g)
            /\ \E k \in 0 .. rep(d, g) - 1 : p = Child(d.path, g, k)
        BY <1>3
    <2>2. PICK g \in Subgraphs(GraphOf(d.path)) :
            /\ NewHandler(tree, d, g)
            /\ \E k \in 0 .. rep(d, g) - 1 : p = Child(d.path, g, k)
        BY <2>1
    <2>3. PICK k \in 0 .. rep(d, g) - 1 : p = Child(d.path, g, k)
        BY <2>2
    <2>4. IsPath(d.path) /\ rep(d, g) \in Nat /\ k \in Nat
        BY <1>1, <1>5
    <2>5. /\ IsPath(p) /\ p # RootFiring /\ GraphOf(p) = g /\ FiringOf(p) = k
          /\ Parent(p) = d.path
        BY <2>3, <2>4, ChildPath
    <2>6. Below(p, s)
        <3>1. d.path = s \/ Below(d.path, s)
            BY <1>1
        <3> QED
            BY <1>2, <2>5, <3>1, BelowParent
    <2>7. Parent(p) = s \/ Parent(p) \in M
        BY <1>6, <2>5
    <2>8. First(p) \in M
        <3>1. CASE IsStatic(g)
            <4>1. First(p) = Child(d.path, g, 0)
                BY <2>5, <3>1, FirstPath
            <4>2. 0 \in 0 .. rep(d, g) - 1
                BY <2>4
            <4>3. \E j \in 0 .. rep(d, g) - 1 : First(p) = Child(d.path, g, j)
                BY <4>1, <4>2
            <4> QED
                BY <1>3, <2>2, <4>3
        <3>2. CASE ~ IsStatic(g)
            <4>1. First(p) = p
                BY <2>5, <3>2, FirstPath
            <4> QED
                BY <4>1
        <3> QED
            BY <3>1, <3>2
    <2>9. ~ IsStatic(g) => FiringOf(p) = 0
        <3> HAVE ~ IsStatic(g)
        <3>1. Config[GraphOf(d.path)] # 0 /\ Config[GraphOf(d.path)] \in Nat
            BY <1>4, <2>2, GraphTypes
        <3>2. Repetition[g] = 1
            BY <1>4, <2>2, <3>1, GraphTypes
        <3>3. rep(d, g) = 1
            BY <3>2 DEF RepetitionOf
        <3> QED
            BY <2>5, <3>3
    <2>10. IsStatic(g) => \E due \in all : due.path = p
        <3> HAVE IsStatic(g)
        <3>1. [path |-> Child(d.path, g, k), new |-> TRUE] \in all
            BY <1>1, <2>2, <2>3
        <3>2. [path |-> Child(d.path, g, k), new |-> TRUE].path = p
            BY <2>3
        <3> QED
            BY <3>1, <3>2
    <2>11. ASSUME NEW due \in all, due.path = p PROVE IsStatic(g) /\ due.new = TRUE
        <3>1. ~ Below(s, s)
            BY <1>2, BelowParent, <2>5
        <3>2. due.path # s
            BY <2>6, <2>11, <3>1
        <3>3. Below(due.path, s) /\ due.new = TRUE
            BY <1>1, <3>2
        <3>4. PICK e \in all : \E h \in Subgraphs(GraphOf(e.path)) :
               /\ NewHandler(tree, e, h) /\ IsStatic(h)
               /\ \E j \in 0 .. rep(e, h) - 1 : due.path = Child(e.path, h, j)
            BY <1>1, <3>3
        <3>5. PICK h \in Subgraphs(GraphOf(e.path)) : IsStatic(h) /\
                  \E j \in 0 .. rep(e, h) - 1 : due.path = Child(e.path, h, j)
            BY <3>4
        <3>6. PICK j \in 0 .. rep(e, h) - 1 : due.path = Child(e.path, h, j)
            BY <3>5
        <3>7. j \in Nat /\ IsPath(e.path)
            BY <1>1, <1>5
        <3>8. GraphOf(p) = h
            BY <2>11, <3>6, <3>7, ChildPath
        <3> QED
            BY <2>5, <3>3, <3>5, <3>8
    <2>12. ASSUME NEW h \in Subgraphs(g), Config[g] > 0 PROVE Child(p, h, 0) \in M
        <3>1. g \in Graph /\ Config[g] \in Nat /\ Config[g] # 0
            BY <1>4, <2>12, GraphTypes
        <3>2. IsStatic(g)
            <4>1. IsStatic(g) <=> Config[GraphOf(d.path)] = 0
                BY <1>4, GraphTypes
            <4>2. Config[GraphOf(d.path)] > 0 => Config[g] = 0
                BY <1>4, GraphTypes
            <4>3. Config[GraphOf(d.path)] \in Nat
                BY <1>4, GraphTypes
            <4> QED
                BY <3>1, <4>1, <4>2, <4>3
        <3>3. PICK due \in all : due.path = p
            BY <2>10, <3>2
        <3>4. NewHandler(tree, due, h)
            BY <2>11, <3>3 DEF NewHandler
        <3>5. Repetition[h] = 1
            BY <2>12, <3>1, GraphTypes
        <3>6. rep(due, h) = 1
            BY <3>5 DEF RepetitionOf
        <3>7. \E j \in 0 .. rep(due, h) - 1 : Child(p, h, 0) = Child(due.path, h, j)
            BY <3>3, <3>6
        <3>8. h \in Subgraphs(GraphOf(due.path))
            BY <2>5, <3>3
        <3> QED
            BY <1>3, <3>4, <3>7, <3>8
    <2>13. p \notin Kept(tree, all)
        <3>1. UnderHandler(p, <<d.path, g>>)
            BY <2>4, <2>5, UnderParent
        <3>2. \A q \in DOMAIN tree : q \in Kept(tree, all) <=>
                 \A e \in all : \A h \in Subgraphs(GraphOf(e.path)) :
                    NewHandler(tree, e, h) => ~ UnderHandler(q, <<e.path, h>>)
            BY HandlerParts
        <3>3. Kept(tree, all) \subseteq DOMAIN tree
            BY HandlerParts
        <3> QED
            BY <2>2, <3>1, <3>2, <3>3
    <2> QED
        BY <2>5, <2>6, <2>7, <2>8, <2>9, <2>10, <2>11, <2>12, <2>13
<1>9. ASSUME NEW g \in Subgraphs(GraphOf(s)), Config[GraphOf(s)] > 0
      PROVE  Child(s, g, 0) \in M \cup Kept(tree, all)
    <2> DEFINE first == [path |-> s, new |-> FALSE]
    <2>1. first \in all /\ first.path = s /\ first.new = FALSE
        BY <1>1
    <2> HIDE DEF first
    <2>2. GraphOf(s) \in Graph /\ Config[GraphOf(s)] # 0 /\ Repetition[g] = 1
        BY <1>2, <1>9, PathParts, GraphTypes
    <2>3. rep(first, g) = 1
        BY <2>2 DEF RepetitionOf
    <2>4. CASE NewHandler(tree, first, g)
        <3>1. \E j \in 0 .. rep(first, g) - 1 : Child(s, g, 0) = Child(first.path, g, j)
            BY <2>1, <2>3
        <3> QED
            BY <1>3, <2>1, <2>4, <3>1
    <2>5. CASE ~ NewHandler(tree, first, g)
        <3>1. Cardinality(FiringsIn(tree, s, g)) = 1
            BY <2>1, <2>3, <2>5 DEF NewHandler
        <3>2. FiringsIn(tree, s, g) # {}
            BY <3>1, FS_EmptySet
        <3>3. PICK q \in FiringsIn(tree, s, g) : TRUE
            BY <3>2
        <3>4. q \in DOMAIN tree /\ q = Child(s, g, FiringOf(q))
            BY DEF FiringsIn
        <3>5. q # RootFiring /\ Parent(q) = s /\ GraphOf(q) = g /\ IsPath(q)
            BY <1>2, <3>3, <3>4, FiringsInTree DEF TreeOK
        <3>6. ~ IsStatic(g)
            BY <2>2, GraphTypes
        <3>7. FiringOf(q) = 0
            BY <1>2, <3>4, <3>5, <3>6 DEF TreeOK
        <3>8. ASSUME NEW e \in all, NEW h \in Subgraphs(GraphOf(e.path)), NewHandler(tree, e, h)
              PROVE  ~ UnderHandler(q, <<e.path, h>>)
            <4>1. IsPath(e.path)
                BY <1>1
            <4>2. SUFFICES ASSUME UnderHandler(q, <<e.path, h>>) PROVE FALSE
                OBVIOUS
            <4>3. \/ s = e.path /\ g = h
                  \/ UnderHandler(s, <<e.path, h>>)
                BY <3>5, <4>1, <4>2, UnderParent
            <4>4. ~ UnderHandler(s, <<e.path, h>>)
                <5>1. UnderHandler(s, <<e.path, h>>) => Below(s, e.path)
                    BY <1>2, <4>1, UnderParent
                <5>2. e.path = s \/ Below(e.path, s)
                    BY <1>1
                <5>3. Below(s, e.path) => ~ (e.path = s \/ Below(e.path, s))
                    BY <1>2, <4>1, PathParts DEF Below
                <5> QED
                    BY <5>1, <5>2, <5>3
            <4>5. s = e.path /\ g = h
                BY <4>3, <4>4
            <4>6. e.new = FALSE
                <5>1. ~ Below(s, s)
                    BY <3>5, <1>2, BelowParent
                <5> QED
                    BY <1>1, <4>5, <5>1
            <4>7. e = first
                BY <1>1, <4>5, <4>6 DEF first
            <4> QED
                BY <2>5, <3>8, <4>5, <4>7
        <3>9. q \in Kept(tree, all)
            BY <3>4, <3>8, HandlerParts
        <3> QED
            BY <3>4, <3>7, <3>9
    <2> QED
        BY <2>4, <2>5
<1>10. \E due \in all : due.path = s
    <2>1. [path |-> s, new |-> FALSE].path = s
        OBVIOUS
    <2> QED
        BY <1>1, <2>1
<1> QED
    BY <1>6, <1>7, <1>8, <1>9, <1>10

LEMMA KeptFacts ==
    ASSUME NEW tree, NEW s, Ready(tree, s), NEW all, all = Resolved(tree, Start(s))
    PROVE  /\ Kept(tree, all) \subseteq DOMAIN tree
           /\ \A p \in DOMAIN tree : ~ Below(p, s) => p \in Kept(tree, all)
           /\ \A p \in Kept(tree, all) :
                 /\ p # RootFiring => Parent(p) \in Kept(tree, all)
                 /\ First(p) \in Kept(tree, all)
                 /\ \A g \in Subgraphs(GraphOf(p)) :
                       p # s /\ Child(p, g, 0) \in DOMAIN tree => Child(p, g, 0) \in Kept(tree, all)
<1> DEFINE K == Kept(tree, all)
           new(q, g) == \E d \in all : q = d.path /\ g \in Subgraphs(GraphOf(d.path))
                                         /\ NewHandler(tree, d, g)
<1>1. TreeOK(tree) /\ \A p \in DOMAIN tree : IsPath(p)
    BY DEF Ready, TreeOK
<1>2. K \subseteq DOMAIN tree
      /\ \A p \in DOMAIN tree : p \in K <=> \A q, g : new(q, g) => ~ UnderHandler(p, <<q, g>>)
    <2>1. K \subseteq DOMAIN tree
        BY HandlerParts
    <2>2. \A p \in DOMAIN tree : p \in K <=>
                 \A d \in all : \A g \in Subgraphs(GraphOf(d.path)) :
                    NewHandler(tree, d, g) => ~ UnderHandler(p, <<d.path, g>>)
        BY HandlerParts
    <2> QED
        BY <2>1, <2>2
<1>3. \A q, g : new(q, g) => IsPath(q) /\ (q = s \/ Below(q, s))
    <2>1. DueShape(tree, s, all)
        BY DueFacts
    <2>2. \A d \in all : IsPath(d.path) /\ (d.path = s \/ Below(d.path, s))
        BY <2>1 DEF DueShape
    <2> QED
        BY <2>2
<1>4. \A q, g : new(q, g) => (q \in Kept(tree, all) => q = s)
    <2> SUFFICES ASSUME NEW d \in all, d.path \in Kept(tree, all) PROVE d.path = s
        OBVIOUS
    <2>1. d.path = s \/ d.path \in Made(tree, all)
        BY MadeFacts
    <2>2. \A p \in Made(tree, all) : p \notin Kept(tree, all)
        BY MadeFacts
    <2> QED
        BY <2>1, <2>2
<1> HIDE DEF new
<1>5. ASSUME NEW p \in DOMAIN tree, ~ Below(p, s) PROVE p \in K
    <2> SUFFICES ASSUME NEW q, NEW g, new(q, g), UnderHandler(p, <<q, g>>) PROVE FALSE
        BY <1>2
    <2>1. IsPath(p) /\ IsPath(q) /\ IsPath(s) /\ (q = s \/ Below(q, s))
        BY <1>1, <1>3 DEF Ready
    <2>2. Below(p, q)
        BY <2>1, UnderParent
    <2>3. Below(p, s)
        BY <2>1, <2>2, BelowOrder
    <2> QED
        BY <1>5, <2>3
<1>6. ASSUME NEW p \in K
      PROVE  /\ p # RootFiring => Parent(p) \in K
             /\ First(p) \in K
             /\ \A g \in Subgraphs(GraphOf(p)) :
                   p # s /\ Child(p, g, 0) \in DOMAIN tree => Child(p, g, 0) \in K
    <2>1. p \in DOMAIN tree /\ IsPath(p) /\ First(p) \in DOMAIN tree
          /\ (p # RootFiring => Parent(p) \in DOMAIN tree)
        BY <1>1, <1>2 DEF TreeOK
    <2>2. \A q, g : new(q, g) => ~ UnderHandler(p, <<q, g>>)
        BY <1>2, <2>1
    <2>3. p # RootFiring => Parent(p) \in K
        <3> SUFFICES ASSUME p # RootFiring, NEW q, NEW g, new(q, g),
                            UnderHandler(Parent(p), <<q, g>>)
                     PROVE  FALSE
            BY <1>2, <2>1
        <3>1. UnderHandler(p, <<q, g>>)
            BY <1>3, <2>1, UnderParent
        <3> QED
            BY <2>2, <3>1
    <2>4. First(p) \in K
        <3> SUFFICES ASSUME NEW q, NEW g, new(q, g), UnderHandler(First(p), <<q, g>>)
                     PROVE  FALSE
            BY <1>2, <2>1
        <3>1. IsPath(q) /\ IsPath(First(p))
            BY <1>1, <1>3, <2>1
        <3>2. CASE p = RootFiring
            <4>1. First(p) = RootFiring
                BY <2>1, <3>2, FirstPath
            <4>2. ~ UnderHandler(RootFiring, <<q, g>>)
                BY <2>1, <3>1, UnderParent
            <4> QED
                BY <4>1, <4>2
        <3>3. CASE p # RootFiring
            <4>1. Parent(First(p)) = Parent(p) /\ GraphOf(First(p)) = GraphOf(p)
                  /\ First(p) # RootFiring
                BY <2>1, <3>3, FirstPath
            <4>2. UnderHandler(First(p), <<q, g>>) <=>
                    (Parent(p) = q /\ GraphOf(p) = g) \/ UnderHandler(Parent(p), <<q, g>>)
                BY <3>1, <4>1, UnderParent
            <4>3. UnderHandler(p, <<q, g>>) <=>
                    (Parent(p) = q /\ GraphOf(p) = g) \/ UnderHandler(Parent(p), <<q, g>>)
                BY <2>1, <3>1, <3>3, UnderParent
            <4> QED
                BY <2>2, <4>2, <4>3
        <3> QED
            BY <3>2, <3>3
    <2>5. ASSUME NEW h \in Subgraphs(GraphOf(p)), p # s, Child(p, h, 0) \in DOMAIN tree
          PROVE  Child(p, h, 0) \in K
        <3> SUFFICES ASSUME NEW q, NEW g, new(q, g), UnderHandler(Child(p, h, 0), <<q, g>>)
                     PROVE  FALSE
            BY <1>2, <2>5
        <3>1. IsPath(Child(p, h, 0)) /\ Child(p, h, 0) # RootFiring /\ Parent(Child(p, h, 0)) = p
            BY <2>1, ChildPath
        <3>2. IsPath(q)
            BY <1>3
        <3>3. p = q \/ UnderHandler(p, <<q, g>>)
            BY <3>1, <3>2, UnderParent
        <3>4. p = q
            BY <2>2, <3>3
        <3> QED
            BY <1>4, <2>5, <3>4
    <2> QED
        BY <2>3, <2>4, <2>5
<1> QED
    BY <1>2, <1>5, <1>6

\* The tree after the resolution of s: what is not below s is as it was, s has the
\* rates of its parameters, and what was made is resolved unless it waits for
\* parameters.
AfterResolution(tree, s, after) ==
    \E made, kept :
        /\ DOMAIN after = made \cup kept /\ made \cap kept = {}
        /\ after = [p \in DOMAIN after |-> after[p]]
        /\ IsFiniteSet(made)
        /\ kept \subseteq DOMAIN tree
        /\ \A p \in DOMAIN tree : ~ Below(p, s) => p \in kept
        /\ \A p \in kept :
              /\ p # RootFiring => Parent(p) \in kept
              /\ First(p) \in kept
              /\ p # s => after[p] = tree[p]
              /\ \A g \in Subgraphs(GraphOf(p)) :
                    p # s /\ Child(p, g, 0) \in DOMAIN tree => Child(p, g, 0) \in kept
        /\ after[s] = [tree[s] EXCEPT !.rates = RatesNow(tree, First(s)), !.resolved = TRUE]
        /\ RatesNow(tree, First(s)) \in Nat
        /\ \A g \in Subgraphs(GraphOf(s)) :
              Config[GraphOf(s)] > 0 => Child(s, g, 0) \in DOMAIN after
        /\ \A p \in made :
              /\ IsPath(p) /\ p # RootFiring /\ Below(p, s)
              /\ Parent(p) = s \/ Parent(p) \in made
              /\ First(p) \in made
              /\ ~ IsStatic(GraphOf(p)) => FiringOf(p) = 0
              /\ after[p] \in FiringType(GraphOf(p))
              /\ after[p].received = 0
              /\ after[p].resolved <=> IsStatic(GraphOf(p))
              /\ \A g \in Subgraphs(GraphOf(p)) :
                    Config[GraphOf(p)] > 0 => Child(p, g, 0) \in made

LEMMA ResolutionResult ==
    ASSUME NEW tree, NEW s, Ready(tree, s)
    PROVE  AfterResolution(tree, s, ResolveBRV(tree, Start(s)))
<1> DEFINE all == Resolved(tree, Start(s))
           made == Made(tree, all)
           kept == Kept(tree, all)
           due == {d.path : d \in all}
           remade == Remade(tree, NewHandlers(tree, all))
           after == ResolveBRV(tree, Start(s))
           rates(p) == RatesNow(tree, First(p))
<1> HIDE DEF all
<1>0. all = Resolved(tree, Start(s))
    BY DEF all
<1>1. /\ IsFiniteSet(made)
      /\ \A d \in all : d.path = s \/ d.path \in made
      /\ \E d \in all : d.path = s
      /\ \A p \in made :
            /\ IsPath(p) /\ p # RootFiring /\ Below(p, s)
            /\ Parent(p) = s \/ Parent(p) \in made
            /\ First(p) \in made
            /\ ~ IsStatic(GraphOf(p)) => FiringOf(p) = 0
            /\ IsStatic(GraphOf(p)) <=> \E d \in all : d.path = p
            /\ \A g \in Subgraphs(GraphOf(p)) :
                  Config[GraphOf(p)] > 0 => Child(p, g, 0) \in made
            /\ p \notin kept
      /\ \A g \in Subgraphs(GraphOf(s)) : Config[GraphOf(s)] > 0 =>
            Child(s, g, 0) \in made \cup kept
    BY <1>0, MadeFacts
<1>2. /\ kept \subseteq DOMAIN tree
      /\ \A p \in DOMAIN tree : ~ Below(p, s) => p \in kept
      /\ \A p \in kept :
            /\ p # RootFiring => Parent(p) \in kept
            /\ First(p) \in kept
            /\ \A g \in Subgraphs(GraphOf(p)) :
                  p # s /\ Child(p, g, 0) \in DOMAIN tree => Child(p, g, 0) \in kept
    BY <1>0, KeptFacts
<1>3. s \in DOMAIN tree /\ IsPath(s) /\ ~ Below(s, s)
    BY PathParts DEF Ready, TreeOK, Below
<1>4. s \in kept /\ s \notin made
    BY <1>1, <1>2, <1>3
<1>5. \A p \in due : rates(p) \in Nat
    <2>1. DueShape(tree, s, all)
        BY <1>0, DueFacts
    <2> QED
        BY <2>1 DEF DueShape
<1>6. remade = [p \in made \cup kept |-> IF p \in made THEN NewFiring(GraphOf(p)) ELSE tree[p]]
    BY DEF Remade, Made, Kept
<1>7. after = [p \in DOMAIN remade |->
                  IF p \in due THEN [remade[p] EXCEPT !.rates = rates(p), !.resolved = TRUE]
                  ELSE remade[p]]
    BY DEF ResolveBRV, all
<1>8. due \subseteq made \cup {s} /\ s \in due
      /\ \A p \in made : p \in due <=> IsStatic(GraphOf(p))
    BY <1>1
<1> HIDE DEF made, kept, due, rates, remade, after
<1>9. /\ DOMAIN remade = made \cup kept
      /\ \A p \in made : remade[p] = NewFiring(GraphOf(p))
      /\ \A p \in kept : remade[p] = tree[p]
    <2>1. \A p \in kept : p \notin made
        BY <1>1
    <2> QED
        BY <1>6, <2>1
<1>10. /\ DOMAIN after = made \cup kept
       /\ after = [p \in DOMAIN after |-> after[p]]
       /\ \A p \in due : after[p] = [remade[p] EXCEPT !.rates = rates(p), !.resolved = TRUE]
       /\ \A p \in (made \cup kept) \ due : after[p] = remade[p]
    <2>1. DOMAIN after = made \cup kept /\ after = [p \in DOMAIN after |-> after[p]]
        BY <1>7, <1>9
    <2>2. due \subseteq made \cup kept
        BY <1>4, <1>8
    <2> QED
        BY <1>7, <1>9, <2>1, <2>2
<1>11. \A p \in kept : p # s => after[p] = tree[p]
    BY <1>1, <1>8, <1>9, <1>10
<1>12. after[s] = [tree[s] EXCEPT !.rates = rates(s), !.resolved = TRUE]
    BY <1>4, <1>8, <1>9, <1>10
<1>13. ASSUME NEW p \in made
       PROVE  /\ after[p] \in FiringType(GraphOf(p))
              /\ after[p].received = 0
              /\ after[p].resolved <=> IsStatic(GraphOf(p))
    <2>1. GraphOf(p) \in Graph
        BY <1>1, PathParts
    <2>2. Config[GraphOf(p)] \in Nat
        BY <2>1, GraphTypes
    <2>3. NewFiring(GraphOf(p)) \in FiringType(GraphOf(p))
        BY <2>2 DEF NewFiring, FiringType
    <2>4. NewFiring(GraphOf(p)).received = 0 /\ NewFiring(GraphOf(p)).resolved = FALSE
        BY DEF NewFiring
    <2>5. CASE p \in due
        <3>1. after[p] = [NewFiring(GraphOf(p)) EXCEPT !.rates = rates(p), !.resolved = TRUE]
            BY <1>9, <1>10, <2>5
        <3>2. rates(p) \in Nat
            BY <1>5, <2>5
        <3>3. /\ after[p] \in FiringType(GraphOf(p)) /\ after[p].received = 0
              /\ after[p].resolved = TRUE
            BY <2>3, <2>4, <3>1, <3>2 DEF FiringType
        <3> QED
            BY <1>8, <2>5, <3>3
    <2>6. CASE p \notin due
        <3>1. after[p] = NewFiring(GraphOf(p))
            BY <1>9, <1>10, <2>6
        <3> QED
            BY <1>8, <2>3, <2>4, <2>6, <3>1
    <2> QED
        BY <2>5, <2>6
<1>14. rates(s) \in Nat
    BY <1>5, <1>8
<1>15. AfterResolution(tree, s, after)
    <2> HIDE DEF all
    <2>1. made \cap kept = {}
        BY <1>1
    <2> QED
        BY <1>1, <1>2, <1>10, <1>11, <1>12, <1>13, <1>14, <2>1 DEF AfterResolution, rates
<1> QED
    BY <1>15 DEF after

-----------------------------------------------------------------------------
(* What a resolution keeps true                                            *)

\* The facts about a tree that hold between two messages.
Settled(tree) ==
    TreeOK(tree) /\ RunsThere(tree) /\ StaticResolved(tree) /\ DynamicResolved(tree)

\* The same facts when one firing is to be resolved.
SettledBut(tree, s) ==
    /\ Ready(tree, s)
    /\ \A p \in DOMAIN tree : p # s =>
          /\ \A g \in Subgraphs(GraphOf(p)) :
                Config[GraphOf(p)] > 0 => Child(p, g, 0) \in DOMAIN tree
          /\ IsStatic(GraphOf(p)) => tree[p].resolved
          /\ ~ IsStatic(GraphOf(p)) => (tree[p].resolved <=> LastParam(tree, Parent(p)))
    /\ ~ IsStatic(GraphOf(s)) => LastParam(tree, Parent(s))
    /\ Config[GraphOf(s)] > 0 => ~ LastParam(tree, s)

LEMMA ResolutionSettles ==
    ASSUME NEW tree, NEW s, SettledBut(tree, s), NEW after, AfterResolution(tree, s, after)
    PROVE  Settled(after)
<1>1. PICK made, kept :
        /\ DOMAIN after = made \cup kept /\ made \cap kept = {}
        /\ after = [p \in DOMAIN after |-> after[p]]
        /\ IsFiniteSet(made)
        /\ kept \subseteq DOMAIN tree
        /\ \A p \in DOMAIN tree : ~ Below(p, s) => p \in kept
        /\ \A p \in kept :
              /\ p # RootFiring => Parent(p) \in kept
              /\ First(p) \in kept
              /\ p # s => after[p] = tree[p]
              /\ \A g \in Subgraphs(GraphOf(p)) :
                    p # s /\ Child(p, g, 0) \in DOMAIN tree => Child(p, g, 0) \in kept
        /\ after[s] = [tree[s] EXCEPT !.rates = RatesNow(tree, First(s)), !.resolved = TRUE]
        /\ RatesNow(tree, First(s)) \in Nat
        /\ \A g \in Subgraphs(GraphOf(s)) :
              Config[GraphOf(s)] > 0 => Child(s, g, 0) \in DOMAIN after
        /\ \A p \in made :
              /\ IsPath(p) /\ p # RootFiring /\ Below(p, s)
              /\ Parent(p) = s \/ Parent(p) \in made
              /\ First(p) \in made
              /\ ~ IsStatic(GraphOf(p)) => FiringOf(p) = 0
              /\ after[p] \in FiringType(GraphOf(p))
              /\ after[p].received = 0
              /\ after[p].resolved <=> IsStatic(GraphOf(p))
              /\ \A g \in Subgraphs(GraphOf(p)) :
                    Config[GraphOf(p)] > 0 => Child(p, g, 0) \in made
    BY DEF AfterResolution
<1>2. TreeOK(tree) /\ s \in DOMAIN tree /\ IsPath(s)
    BY DEF SettledBut, Ready, TreeOK
<1>3. s \in kept /\ RootFiring \in kept
    <2>1. ~ Below(s, s)
        BY <1>2, PathParts DEF Below
    <2>2. ~ Below(RootFiring, s)
        <3>1. IsPath(RootFiring) /\ Len(s) \in Nat \ {0}
            BY <1>2, PathParts DEF TreeOK
        <3>2. Len(RootFiring) = 1
            BY DEF RootFiring
        <3> QED
            BY <3>1, <3>2 DEF Below
    <2> QED
        BY <1>1, <1>2, <2>1, <2>2 DEF TreeOK
<1>4. /\ tree[s] \in FiringType(GraphOf(s))
      /\ after[s] \in FiringType(GraphOf(s))
      /\ after[s].received = tree[s].received /\ after[s].resolved = TRUE
    <2>1. tree[s] \in FiringType(GraphOf(s))
        BY <1>2 DEF TreeOK
    <2> QED
        BY <1>1, <2>1 DEF FiringType
<1>5. \A p \in kept : p \in DOMAIN tree /\ after[p].received = tree[p].received
    BY <1>1, <1>4
<1>6. TreeOK(after)
    <2>1. IsFiniteSet(DOMAIN after)
        <3>1. IsFiniteSet(kept)
            BY <1>1, <1>2, FS_Subset DEF TreeOK
        <3>2. IsFiniteSet(made \cup kept)
            BY <1>1, <3>1, FS_Union
        <3>3. DOMAIN after = made \cup kept
            BY <1>1
        <3> QED
            BY <3>2, <3>3
    <2>2. ASSUME NEW p \in kept
          PROVE  /\ IsPath(p)
                 /\ after[p] \in FiringType(GraphOf(p))
                 /\ p # RootFiring => Parent(p) \in DOMAIN after
                 /\ First(p) \in DOMAIN after
                 /\ ~ IsStatic(GraphOf(p)) => FiringOf(p) = 0
        <3>1. p \in DOMAIN tree
            BY <1>1
        <3>2. IsPath(p) /\ tree[p] \in FiringType(GraphOf(p))
              /\ (~ IsStatic(GraphOf(p)) => FiringOf(p) = 0)
            BY <1>2, <3>1 DEF TreeOK
        <3>3. after[p] \in FiringType(GraphOf(p))
            BY <1>1, <1>4, <3>2
        <3> QED
            BY <1>1, <3>2, <3>3
    <2>3. ASSUME NEW p \in made
          PROVE  /\ IsPath(p)
                 /\ after[p] \in FiringType(GraphOf(p))
                 /\ p # RootFiring => Parent(p) \in DOMAIN after
                 /\ First(p) \in DOMAIN after
                 /\ ~ IsStatic(GraphOf(p)) => FiringOf(p) = 0
        BY <1>1, <1>3
    <2> QED
        BY <1>1, <1>3, <2>1, <2>2, <2>3 DEF TreeOK
<1>7. ASSUME NEW p \in DOMAIN after, NEW g \in Subgraphs(GraphOf(p)), Config[GraphOf(p)] > 0
      PROVE  Child(p, g, 0) \in DOMAIN after
    <2>1. CASE p \in made
        BY <1>1, <1>7, <2>1
    <2>2. CASE p = s
        BY <1>1, <1>7, <2>2
    <2>3. CASE p \in kept /\ p # s
        <3>1. p \in DOMAIN tree
            BY <1>1, <2>3
        <3>2. Child(p, g, 0) \in DOMAIN tree
            BY <1>7, <2>3, <3>1 DEF SettledBut
        <3> QED
            BY <1>1, <2>3, <3>2
    <2> QED
        BY <1>1, <2>1, <2>2, <2>3
<1>8. ASSUME NEW p \in DOMAIN after, IsStatic(GraphOf(p)) PROVE after[p].resolved
    <2>1. CASE p \in made
        BY <1>1, <1>8, <2>1
    <2>2. CASE p = s
        BY <1>4, <2>2
    <2>3. CASE p \in kept /\ p # s
        <3>1. p \in DOMAIN tree /\ after[p] = tree[p]
            BY <1>1, <2>3
        <3> QED
            BY <1>8, <2>3, <3>1 DEF SettledBut
    <2> QED
        BY <1>1, <2>1, <2>2, <2>3
<1>9. ASSUME NEW p \in DOMAIN after, ~ IsStatic(GraphOf(p))
      PROVE  after[p].resolved <=> LastParam(after, Parent(p))
    <2>0. IsPath(p) /\ p # RootFiring
        <3>1. GraphOf(RootFiring) = Root
            BY DEF GraphOf, RootFiring
        <3> QED
            BY <1>6, <1>9, <3>1, GraphTypes DEF TreeOK
    <2>1. IsPath(Parent(p)) /\ Config[GraphOf(Parent(p))] \in Nat
          /\ Config[GraphOf(Parent(p))] # 0
        <3>1. IsPath(Parent(p)) /\ GraphOf(p) \in Subgraphs(GraphOf(Parent(p)))
            BY <2>0, ParentPath
        <3>2. GraphOf(Parent(p)) \in Graph
            BY <3>1, PathParts
        <3> QED
            BY <1>9, <3>1, <3>2, GraphTypes
    <2>2. CASE p \in made
        <3>1. ~ after[p].resolved
            BY <1>1, <1>9, <2>2
        <3>2. CASE Parent(p) = s
            <4>1. ~ LastParam(tree, s)
                BY <2>1, <3>2 DEF SettledBut
            <4>2. LastParam(after, s) <=> LastParam(tree, s)
                BY <1>4 DEF LastParam
            <4> QED
                BY <3>1, <3>2, <4>1, <4>2
        <3>3. CASE Parent(p) \in made
            <4>1. after[Parent(p)].received = 0
                BY <1>1, <3>3
            <4>2. ~ LastParam(after, Parent(p))
                BY <2>1, <4>1 DEF LastParam
            <4> QED
                BY <3>1, <4>2
        <3> QED
            BY <1>1, <2>2, <3>2, <3>3
    <2>3. CASE p \in kept
        <3>1. Parent(p) \in kept /\ p \in DOMAIN tree
            BY <1>1, <2>0, <2>3
        <3>2. LastParam(after, Parent(p)) <=> LastParam(tree, Parent(p))
            BY <1>5, <3>1 DEF LastParam
        <3>3. CASE p = s
            BY <1>4, <1>9, <3>2, <3>3 DEF SettledBut
        <3>4. CASE p # s
            <4>1. after[p] = tree[p]
                BY <1>1, <2>3, <3>4
            <4>2. tree[p].resolved <=> LastParam(tree, Parent(p))
                BY <1>9, <3>1, <3>4 DEF SettledBut
            <4> QED
                BY <3>2, <4>1, <4>2
        <3> QED
            BY <3>3, <3>4
    <2> QED
        BY <1>1, <2>2, <2>3
<1> QED
    BY <1>6, <1>7, <1>8, <1>9 DEF Settled, RunsThere, StaticResolved, DynamicResolved

-----------------------------------------------------------------------------
(* A parameter is received                                                 *)

\* The run graph of a firing with configuration actors is its only subgraph, and
\* has one firing.
LEMMA RunFiring ==
    ASSUME NEW tree, Settled(tree), NEW r \in DOMAIN tree, Config[GraphOf(r)] > 0
    PROVE  \E run \in DOMAIN tree :
              /\ IsPath(r) /\ IsPath(run) /\ run # RootFiring /\ Parent(run) = r
              /\ GraphOf(run) \in Graph
              /\ ~ IsStatic(GraphOf(run)) /\ Config[GraphOf(run)] = 0
              /\ Subgraphs(GraphOf(r)) = {GraphOf(run)}
              /\ run = Child(r, GraphOf(run), 0) /\ run # r /\ Below(run, r)
              /\ \A q \in DOMAIN tree : q # RootFiring /\ Parent(q) = r => q = run
<1>1. TreeOK(tree) /\ IsPath(r)
    BY DEF Settled, TreeOK
<1>2. GraphOf(r) \in Graph
    BY <1>1, PathParts
<1>3. PICK g \in Graph : Subgraphs(GraphOf(r)) = {g} /\ Config[g] = 0
    BY <1>2, GraphAssumption
<1>4. g \in Subgraphs(GraphOf(r))
    BY <1>3
<1>5. ~ IsStatic(g)
    BY <1>2, <1>4, GraphTypes
<1> DEFINE run == Child(r, g, 0)
<1>6. run \in DOMAIN tree
    BY <1>4 DEF Settled, RunsThere
<1>7. /\ IsPath(run) /\ GraphOf(run) = g /\ Parent(run) = r /\ run # RootFiring
      /\ Len(run) = Len(r) + 1
    BY <1>1, <1>4, ChildPath
<1>8. Below(run, r) /\ ~ Below(r, r)
    BY <1>1, <1>7, BelowParent
<1>9. ASSUME NEW q \in DOMAIN tree, q # RootFiring, Parent(q) = r
      PROVE  q = run
    <2>1. IsPath(q)
        BY <1>1 DEF TreeOK
    <2>2. GraphOf(q) \in Subgraphs(GraphOf(r)) /\ q = Child(r, GraphOf(q), FiringOf(q))
        BY <1>9, <2>1, ParentPath
    <2>3. GraphOf(q) = g
        BY <1>3, <2>2
    <2>4. FiringOf(q) = 0
        BY <1>1, <1>5, <2>3 DEF TreeOK
    <2> QED
        BY <2>2, <2>3, <2>4
<1> HIDE DEF run
<1>10. run = Child(r, GraphOf(run), 0)
    BY <1>7 DEF run
<1>11. run # r
    BY <1>8
<1> QED
    BY <1>1, <1>3, <1>5, <1>6, <1>7, <1>8, <1>9, <1>10, <1>11

\* The tree after a parameter of r was received: the firings that are not below its
\* run graph are kept, and r has one more parameter; the firings below that are new
\* have none; and a run graph has the rates it had, or was just resolved.
AfterReceive(tree, r, run, after) ==
    /\ Settled(after)
    /\ \A p \in DOMAIN tree : ~ Below(p, run) =>
          p \in DOMAIN after /\ (p # r /\ p # run => after[p] = tree[p])
    /\ after[r].received = tree[r].received + 1 /\ after[r].resolved = tree[r].resolved
    /\ \A p \in DOMAIN after : p # r =>
          \/ p \in DOMAIN tree /\ after[p].received = tree[p].received
          \/ Below(p, run) /\ after[p].received = 0
    /\ \A q \in DOMAIN after : ~ IsStatic(GraphOf(q)) /\ after[q].resolved =>
          \/ q = run /\ after[q].rates = RatesNow(after, q)
          \/ q \in DOMAIN tree /\ tree[q].resolved /\ after[q].rates = tree[q].rates

LEMMA ReceiveShape ==
    ASSUME NEW tree, Settled(tree), NEW r \in DOMAIN tree, Config[GraphOf(r)] > 0,
           tree[r].received < Config[GraphOf(r)],
           NEW ix \in 1 .. Config[GraphOf(r)], NEW value \in Nat,
           NEW run \in DOMAIN tree, IsPath(run), run # RootFiring, Parent(run) = r,
           ~ IsStatic(GraphOf(run)), Config[GraphOf(run)] = 0,
           Subgraphs(GraphOf(r)) = {GraphOf(run)}, run # r,
           \A q \in DOMAIN tree : q # RootFiring /\ Parent(q) = r => q = run
    PROVE  AfterReceive(tree, r, run, SetParamValue(tree, r, ix, value))
<1> DEFINE set == [tree EXCEPT ![r].params[ix] = value, ![r].received = @ + 1]
<1>0. TreeOK(tree) /\ IsPath(r) /\ GraphOf(r) \in Graph /\ Config[GraphOf(r)] \in Nat
    <2>1. TreeOK(tree) /\ IsPath(r)
        BY DEF Settled, TreeOK
    <2> QED
        BY <2>1, PathParts, GraphTypes
<1>1. /\ DOMAIN set = DOMAIN tree
      /\ set = [p \in DOMAIN set |-> set[p]]
      /\ \A p \in DOMAIN tree : p # r => set[p] = tree[p]
      /\ set[r] \in FiringType(GraphOf(r))
      /\ set[r].received = tree[r].received + 1
      /\ set[r].resolved = tree[r].resolved /\ set[r].rates = tree[r].rates
    <2>1. tree[r] \in FiringType(GraphOf(r)) /\ tree = [p \in DOMAIN tree |-> tree[p]]
        BY <1>0 DEF TreeOK
    <2>2. set[r] = [[tree[r] EXCEPT !.params[ix] = value] EXCEPT !.received = @ + 1]
        BY <2>1
    <2>3. set[r] = [tree[r] EXCEPT !.params = [tree[r].params EXCEPT ![ix] = value],
                                   !.received = tree[r].received + 1]
        BY <2>1, <2>2 DEF FiringType
    <2>4. tree[r].received + 1 \in 0 .. Config[GraphOf(r)]
        BY <1>0, <2>1 DEF FiringType
    <2>5. [tree[r].params EXCEPT ![ix] = value] \in [1 .. Config[GraphOf(r)] -> Nat]
        BY <2>1 DEF FiringType
    <2>6. /\ set[r].received = tree[r].received + 1
          /\ set[r].resolved = tree[r].resolved /\ set[r].rates = tree[r].rates
          /\ set[r] \in FiringType(GraphOf(r))
        BY <2>1, <2>3, <2>4, <2>5 DEF FiringType
    <2> QED
        BY <2>1, <2>6
<1> HIDE DEF set
<1>2. \A p \in DOMAIN tree : /\ set[p].resolved = tree[p].resolved
                             /\ set[p].rates = tree[p].rates
                             /\ p # r => set[p].received = tree[p].received
    BY <1>1
<1>3. TreeOK(set)
    <2>1. \A p \in DOMAIN tree : set[p] \in FiringType(GraphOf(p))
        BY <1>0, <1>1 DEF TreeOK
    <2> QED
        BY <1>0, <1>1, <2>1 DEF TreeOK
<1>4. RunsThere(set) /\ StaticResolved(set)
    BY <1>1, <1>2 DEF Settled, RunsThere, StaticResolved
<1>5. ASSUME NEW p \in DOMAIN tree, ~ IsStatic(GraphOf(p))
      PROVE  /\ p # RootFiring /\ Parent(p) \in DOMAIN tree
             /\ p # run => (set[p].resolved <=> LastParam(set, Parent(p)))
    <2>1. GraphOf(RootFiring) = Root
        BY DEF GraphOf, RootFiring
    <2>2. p # RootFiring /\ Parent(p) \in DOMAIN tree
        BY <1>0, <1>5, <2>1, GraphTypes DEF TreeOK
    <2>3. ASSUME p # run PROVE set[p].resolved <=> LastParam(set, Parent(p))
        <3>1. Parent(p) # r
            BY <2>2, <2>3
        <3>2. LastParam(set, Parent(p)) <=> LastParam(tree, Parent(p))
            BY <1>2, <2>2, <3>1 DEF LastParam
        <3> QED
            BY <1>2, <1>5, <3>2 DEF Settled, DynamicResolved
    <2> QED
        BY <2>2, <2>3
<1>6. ~ tree[run].resolved /\ ~ set[run].resolved
    <2>1. ~ LastParam(tree, r)
        <3>1. tree[r].received \in Nat
            BY <1>0 DEF TreeOK, FiringType
        <3> QED
            BY <1>0, <3>1 DEF LastParam
    <2> QED
        BY <1>2, <2>1 DEF Settled, DynamicResolved
<1>7. CASE ~ LastParam(set, r)
    <2>1. SetParamValue(tree, r, ix, value) = set
        BY <1>7 DEF SetParamValue, set
    <2>2. DynamicResolved(set)
        BY <1>1, <1>5, <1>6, <1>7 DEF DynamicResolved
    <2>3. Settled(set)
        BY <1>3, <1>4, <2>2 DEF Settled
    <2> QED
        BY <1>1, <1>2, <2>1, <2>3 DEF AfterReceive
<1>8. CASE LastParam(set, r)
    <2> DEFINE after == SetParamValue(tree, r, ix, value)
    <2>1. after = ResolveBRV(set, Start(run))
        <3>1. ASSUME NEW g \in Subgraphs(GraphOf(r))
              PROVE  FiringsIn(set, r, g) = {run}
            <4>1. \A q \in DOMAIN set : q \in FiringsIn(set, r, g) <=>
                      q # RootFiring /\ Parent(q) = r /\ GraphOf(q) = g
                BY <1>0, <1>3, <3>1, FiringsInTree
            <4>2. FiringsIn(set, r, g) \subseteq DOMAIN set
                BY DEF FiringsIn
            <4>3. run \in FiringsIn(set, r, g)
                BY <1>1, <3>1, <4>1
            <4> QED
                BY <1>1, <4>1, <4>2, <4>3
        <3>2. First(run) = run
            BY FirstPath
        <3>3. ASSUME NEW g \in Subgraphs(GraphOf(r))
              PROVE  ResolveFirings(set, r, g) = Start(run)
            <4>1. {q \in FiringsIn(set, r, g) : ~ set[First(q)].resolved} = {run}
                BY <1>6, <3>1, <3>2, <3>3
            <4> QED
                BY <4>1 DEF ResolveFirings, Start
        <3>4. UNION {ResolveFirings(set, r, g) : g \in Subgraphs(GraphOf(r))} = Start(run)
            BY <3>3
        <3> QED
            BY <1>8, <3>4 DEF SetParamValue, set
    <2>2. Ready(set, run)
        <3>1. ASSUME NEW g \in Subgraphs(GraphOf(run)), NEW q \in FiringsIn(set, run, g)
              PROVE  set[First(q)].resolved
            <4>0. q \in DOMAIN set
                BY <3>1 DEF FiringsIn
            <4>1. q \in DOMAIN set /\ q # RootFiring /\ Parent(q) = run /\ GraphOf(q) = g
                BY <1>3, <3>1, <4>0, FiringsInTree
            <4>2. GraphOf(run) \in Graph
                BY PathParts
            <4>3. IsStatic(g)
                BY <4>2, GraphTypes
            <4>4. First(q) \in DOMAIN set /\ IsPath(q)
                BY <1>3, <4>1 DEF TreeOK
            <4>5. GraphOf(First(q)) = g
                BY <4>1, <4>4, FirstPath
            <4> QED
                BY <1>4, <4>3, <4>4, <4>5 DEF StaticResolved
        <3> QED
            BY <1>1, <1>3, <3>1 DEF Ready
    <2>3. SettledBut(set, run)
        <3>1. ASSUME NEW p \in DOMAIN set, p # run
              PROVE  /\ \A g \in Subgraphs(GraphOf(p)) :
                           Config[GraphOf(p)] > 0 => Child(p, g, 0) \in DOMAIN set
                     /\ IsStatic(GraphOf(p)) => set[p].resolved
                     /\ ~ IsStatic(GraphOf(p)) => (set[p].resolved <=> LastParam(set, Parent(p)))
            BY <1>1, <1>4, <1>5, <3>1 DEF RunsThere, StaticResolved
        <3> QED
            BY <1>8, <2>2, <3>1 DEF SettledBut
    <2>4. AfterResolution(set, run, after)
        BY <2>1, <2>2, ResolutionResult
    <2>5. Settled(after)
        BY <2>3, <2>4, ResolutionSettles
    <2> HIDE DEF after
    <2>6. PICK made, kept :
            /\ DOMAIN after = made \cup kept
            /\ kept \subseteq DOMAIN set
            /\ \A p \in DOMAIN set : ~ Below(p, run) => p \in kept
            /\ \A p \in kept : p # run => after[p] = set[p]
            /\ after[run] = [set[run] EXCEPT !.rates = RatesNow(set, First(run)), !.resolved = TRUE]
            /\ \A p \in made : Below(p, run) /\ after[p].received = 0
                               /\ (after[p].resolved <=> IsStatic(GraphOf(p)))
        BY <2>4 DEF AfterResolution
    <2>7. ~ Below(r, run) /\ ~ Below(run, run) /\ Below(run, r)
        <3>1. Len(run) = Len(r) + 1 /\ Len(r) \in Nat
            BY <1>0, ParentPath, PathParts
        <3>2. Below(run, r)
            BY <1>0, BelowParent
        <3> QED
            BY <3>1, <3>2 DEF Below
    <2>8. after[run].received = set[run].received /\ after[run].rates = RatesNow(set, run)
        <3>1. set[run] \in FiringType(GraphOf(run))
            BY <1>1, <1>3 DEF TreeOK
        <3>2. First(run) = run
            BY FirstPath
        <3> QED
            BY <2>6, <3>1, <3>2 DEF FiringType
    <2>9. RatesNow(after, run) = RatesNow(set, run)
        <3>1. CASE \A t : RatesNow(t, run) = 0
            BY <3>1
        <3>2. CASE \E a \in Above(run) : \E i \in 1 .. Config[GraphOf(a)] :
                      \A t : RatesNow(t, run) = t[a].params[i]
            <4>1. PICK a \in Above(run) : \E i \in 1 .. Config[GraphOf(a)] :
                      \A t : RatesNow(t, run) = t[a].params[i]
                BY <3>2
            <4>2. PICK i : \A t : RatesNow(t, run) = t[a].params[i]
                BY <4>1
            <4>3. IsPath(a) /\ Below(run, a)
                BY <4>1, AbovePath
            <4>4. a \in DOMAIN set
                BY <1>1, <1>3, <4>3, AboveInTree
            <4>5. ~ Below(a, run) /\ a # run
                BY <2>7, <4>3, BelowOrder
            <4>6. after[a] = set[a]
                BY <2>6, <4>4, <4>5
            <4> QED
                BY <4>2, <4>6
        <3> QED
            BY <3>1, <3>2, RatesParts
    <2>10. ASSUME NEW p \in DOMAIN tree, ~ Below(p, run)
           PROVE  p \in DOMAIN after /\ (p # r /\ p # run => after[p] = tree[p])
        BY <1>1, <2>6, <2>10
    <2>11. after[r].received = tree[r].received + 1 /\ after[r].resolved = tree[r].resolved
        BY <1>1, <2>6, <2>7
    <2>12. ASSUME NEW p \in DOMAIN after, p # r
           PROVE  \/ p \in DOMAIN tree /\ after[p].received = tree[p].received
                  \/ Below(p, run) /\ after[p].received = 0
        <3>1. CASE p \in made
            BY <2>6, <3>1
        <3>2. CASE p \in kept
            <4>1. p \in DOMAIN tree
                BY <1>1, <2>6, <3>2
            <4>2. CASE p = run
                BY <1>2, <2>8, <2>12, <4>1, <4>2
            <4>3. CASE p # run
                <5>1. after[p] = set[p]
                    BY <2>6, <3>2, <4>3
                <5> QED
                    BY <1>2, <2>12, <4>1, <5>1
            <4> QED
                BY <4>2, <4>3
        <3> QED
            BY <2>6, <3>1, <3>2
    <2>13. ASSUME NEW q \in DOMAIN after, ~ IsStatic(GraphOf(q)), after[q].resolved
           PROVE  \/ q = run /\ after[q].rates = RatesNow(after, q)
                  \/ q \in DOMAIN tree /\ tree[q].resolved /\ after[q].rates = tree[q].rates
        <3>1. q \in kept
            BY <2>6, <2>13
        <3>2. CASE q = run
            BY <2>8, <2>9, <3>2
        <3>3. CASE q # run
            <4>1. q \in DOMAIN tree /\ after[q] = set[q]
                BY <1>1, <2>6, <3>1, <3>3
            <4> QED
                BY <1>2, <2>13, <4>1
        <3> QED
            BY <3>2, <3>3
    <2>14. AfterReceive(tree, r, run, after)
        BY <2>5, <2>10, <2>11, <2>12, <2>13 DEF AfterReceive
    <2> QED
        BY <2>14 DEF after
<1> QED
    BY <1>7, <1>8

\* From a firing that is below r, up to the one that is right below r.
LEMMA RightBelow ==
    ASSUME NEW tree, TreeOK(tree), NEW q \in DOMAIN tree, NEW r, IsPath(r), Below(q, r)
    PROVE  \E x \in DOMAIN tree : x # RootFiring /\ Parent(x) = r /\ (x = q \/ Below(q, x))
<1>1. IsPath(q) /\ Len(q) \in Nat \ {0} /\ Len(r) \in Nat \ {0} /\ Len(q) > Len(r)
    <2>1. IsPath(q)
        BY DEF TreeOK
    <2> QED
        BY <2>1, PathParts DEF Below
<1> DEFINE x == IF Len(q) = Len(r) + 1 THEN q ELSE SubSeq(q, 1, Len(r) + 1)
<1>2. IsPath(x) /\ Len(x) = Len(r) + 1 /\ (x = q \/ Below(q, x))
    <2>1. CASE Len(q) = Len(r) + 1
        BY <1>1, <2>1
    <2>2. CASE Len(q) # Len(r) + 1
        <3>1. Len(r) + 1 \in 1 .. Len(q) /\ Len(r) + 1 \in 1 .. Len(q) - 1
            BY <1>1, <2>2
        <3>2. IsPath(x) /\ Len(x) = Len(r) + 1
            BY <1>1, <2>2, <3>1, PrefixPath
        <3>3. x \in Above(q)
            BY <2>2, <3>1 DEF Above
        <3> QED
            BY <1>1, <3>2, <3>3, AbovePath
    <2> QED
        BY <2>1, <2>2
<1> HIDE DEF x
<1>3. x # RootFiring /\ x # r
    <2>1. Len(x) # 1
        BY <1>1, <1>2
    <2> QED
        BY <1>1, <1>2, <2>1, PathParts
<1>4. x \in DOMAIN tree
    BY <1>2, AboveInTree
<1>5. Below(x, r)
    <2>1. ~ Below(r, x)
        BY <1>1, <1>2 DEF Below
    <2> QED
        BY <1>1, <1>2, <1>3, <2>1, BelowOrder
<1>6. Parent(x) = r
    <2>1. IsPath(Parent(x)) /\ Len(x) = Len(Parent(x)) + 1
        BY <1>2, <1>3, ParentPath
    <2>2. Len(Parent(x)) \in Nat
        BY <2>1, PathParts
    <2>3. ~ Below(Parent(x), r)
        BY <1>1, <1>2, <2>1, <2>2 DEF Below
    <2> QED
        BY <1>2, <1>3, <1>5, <2>3, BelowParent
<1> QED
    BY <1>2, <1>3, <1>4, <1>6

\* A firing that is reached is below no firing that is not resolved, and below the
\* firing of a graph with parameters when its run graph is resolved.
LEMMA ReachedThrough ==
    ASSUME NEW tree, Settled(tree), NEW q \in DOMAIN tree, q \in Reached(tree)
    PROVE  /\ \A s \in DOMAIN tree : Below(q, s) => tree[s].resolved
           /\ \A r \in DOMAIN tree :
                 Below(q, r) /\ Config[GraphOf(r)] > 0 /\ tree[q].resolved => LastParam(tree, r)
<1>1. TreeOK(tree) /\ \A p \in DOMAIN tree : IsPath(p)
    BY DEF Settled, TreeOK
<1>2. \A s \in DOMAIN tree : Below(q, s) => tree[s].resolved
    BY <1>1, ReachedDown
<1>3. ASSUME NEW r \in DOMAIN tree, Below(q, r), Config[GraphOf(r)] > 0, tree[q].resolved
      PROVE  LastParam(tree, r)
    <2>1. PICK x \in DOMAIN tree : x # RootFiring /\ Parent(x) = r /\ (x = q \/ Below(q, x))
        BY <1>1, <1>3, RightBelow
    <2>2. GraphOf(r) \in Graph /\ GraphOf(x) \in Subgraphs(GraphOf(r))
        BY <1>1, <2>1, ParentPath, PathParts
    <2>3. ~ IsStatic(GraphOf(x))
        BY <1>3, <2>2, GraphTypes
    <2>4. tree[x].resolved
        BY <1>2, <1>3, <2>1
    <2> QED
        BY <2>1, <2>3, <2>4 DEF Settled, DynamicResolved
<1> QED
    BY <1>2, <1>3

-----------------------------------------------------------------------------
(* The steps                                                               *)

LEMMA InitIInv == Init => IInv
<1> SUFFICES ASSUME Init PROVE IInv
    OBVIOUS
<1> DEFINE tree == [path \in {RootFiring} |-> NewFiring(Root)]
<1>1. DOMAIN tree = {RootFiring} /\ tree[RootFiring] = NewFiring(Root)
    OBVIOUS
<1>2. GraphOf(RootFiring) = Root /\ FiringOf(RootFiring) = 0 /\ IsPath(RootFiring)
      /\ First(RootFiring) = RootFiring
    <2>1. GraphOf(RootFiring) = Root /\ FiringOf(RootFiring) = 0
        BY DEF GraphOf, FiringOf, RootFiring
    <2>2. IsPath(RootFiring)
        BY GraphTypes DEF IsPath, RootFiring
    <2> QED
        BY <2>1, <2>2, FirstPath
<1>3. Config[Root] \in Nat
    BY GraphTypes
<1>4. NewFiring(Root) \in FiringType(Root)
    BY <1>3 DEF NewFiring, FiringType
<1> HIDE DEF tree
<1>5. TreeOK(tree)
    <2>1. IsFiniteSet(DOMAIN tree)
        BY <1>1, FS_Singleton
    <2>2. tree = [p \in DOMAIN tree |-> tree[p]]
        BY DEF tree
    <2> QED
        BY <1>1, <1>2, <1>4, <2>1, <2>2, GraphTypes DEF TreeOK
<1>6. SettledBut(tree, RootFiring)
    <2>1. \A g \in Subgraphs(Root) : FiringsIn(tree, RootFiring, g) = {}
        <3> SUFFICES ASSUME NEW g \in Subgraphs(Root), NEW q \in FiringsIn(tree, RootFiring, g)
                     PROVE  FALSE
            OBVIOUS
        <3>1. q \in DOMAIN tree
            BY DEF FiringsIn
        <3>2. q # RootFiring
            BY <1>2, <1>5, <3>1, FiringsInTree
        <3> QED
            BY <1>1, <3>1, <3>2
    <2>2. Ready(tree, RootFiring)
        BY <1>1, <1>2, <1>5, <2>1 DEF Ready
    <2>3. Config[Root] > 0 => ~ LastParam(tree, RootFiring)
        BY <1>1, <1>2, <1>3 DEF LastParam, NewFiring
    <2> QED
        BY <1>1, <1>2, <2>2, <2>3, GraphTypes DEF SettledBut
<1>7. firings = ResolveBRV(tree, Start(RootFiring))
    BY DEF Init, Start, tree
<1>8. AfterResolution(tree, RootFiring, firings)
    BY <1>6, <1>7, ResolutionResult DEF SettledBut
<1>9. Settled(firings)
    BY <1>6, <1>8, ResolutionSettles
<1>10. PICK made, kept :
        /\ DOMAIN firings = made \cup kept
        /\ kept \subseteq DOMAIN tree
        /\ firings[RootFiring] = [tree[RootFiring] EXCEPT !.rates = RatesNow(tree, First(RootFiring)),
                                                          !.resolved = TRUE]
        /\ \A p \in made : firings[p].received = 0
        /\ \A p \in made : firings[p].resolved <=> IsStatic(GraphOf(p))
    <2> DEFINE root == RootFiring
    <2>1. AfterResolution(tree, root, firings)
        BY <1>8
    <2> HIDE DEF root
    <2>2. \E made, kept :
            /\ DOMAIN firings = made \cup kept
            /\ kept \subseteq DOMAIN tree
            /\ firings[root] = [tree[root] EXCEPT !.rates = RatesNow(tree, First(root)),
                                                  !.resolved = TRUE]
            /\ \A p \in made : firings[p].received = 0
            /\ \A p \in made : firings[p].resolved <=> IsStatic(GraphOf(p))
        BY <2>1 DEF AfterResolution
    <2> QED
        BY <2>2 DEF root
<1>11. firings[RootFiring].received = 0
    BY <1>1, <1>10 DEF NewFiring
<1>12. \A p \in DOMAIN firings : firings[p].received = 0
    BY <1>1, <1>10, <1>11
<1>13. \A p \in DOMAIN firings : firings[p].resolved => IsStatic(GraphOf(p))
    BY <1>1, <1>2, <1>10, GraphTypes
<1>14. LaunchedOK /\ MessagesOK /\ ReceivedOrSent
    BY <1>12, FS_EmptySet DEF Init, LaunchedOK, MessagesOK, ReceivedOrSent
<1>15. PhaseOK /\ CountMatches
    BY FS_EmptySet DEF Init, PhaseOK, CountMatches
<1>16. DynamicRatesFresh
    BY <1>13 DEF DynamicRatesFresh, Reached
<1> QED
    BY <1>9, <1>14, <1>15, <1>16 DEF IInv, Settled

\* A function that is one to one and onto keeps the number of elements.
LEMMA OneToOne ==
    ASSUME NEW S, NEW T, NEW f \in [S -> T], IsFiniteSet(S),
           \A x, y \in S : f[x] = f[y] => x = y, \A t \in T : \E x \in S : f[x] = t
    PROVE  IsFiniteSet(T) /\ Cardinality(T) = Cardinality(S)
<1>1. f \in Bijection(S, T)
    BY DEF Bijection, Injection, Surjection, IsInjective
<1>2. ExistsBijection(S, T)
    BY <1>1 DEF ExistsBijection
<1> QED
    BY <1>2, FS_Bijection

\* What is waited for is what is sent: each firing that is not resolved is the run
\* graph of one whose configuration actors are launched.
LEMMA WaitedForIsSent ==
    ASSUME IInv, phase = "execute"
    PROVE  /\ IsFiniteSet(SentBy(ToLaunch))
           /\ ExpectedParams(firings) = Cardinality(SentBy(ToLaunch))
           /\ \A r \in ToLaunch : firings[r].received = 0
<1> DEFINE tree == firings
           W == UNION {{path} \X (1 .. Config[Upper[GraphOf(path)]]) : path \in Unresolved(tree)}
           S == SentBy(ToLaunch)
<1>1. Settled(tree) /\ TreeOK(tree) /\ \A p \in DOMAIN tree : IsPath(p)
    BY DEF IInv, Settled, TreeOK
<1>2. messages = {} /\ \A p : MessagesOf(p) = {}
    BY DEF IInv, PhaseOK, MessagesOf
<1>3. \A p \in DOMAIN tree : /\ GraphOf(p) \in Graph /\ Config[GraphOf(p)] \in Nat
                             /\ tree[p].received = IF p \in launched THEN Config[GraphOf(p)] ELSE 0
    <2> SUFFICES ASSUME NEW p \in DOMAIN tree
                 PROVE  /\ GraphOf(p) \in Graph /\ Config[GraphOf(p)] \in Nat
                        /\ tree[p].received = IF p \in launched THEN Config[GraphOf(p)] ELSE 0
        OBVIOUS
    <2>1. GraphOf(p) \in Graph /\ Config[GraphOf(p)] \in Nat
        BY <1>1, PathParts, GraphTypes
    <2>2. tree[p].received =
              IF p \in launched THEN Config[GraphOf(p)] - Cardinality(MessagesOf(p)) ELSE 0
        BY DEF IInv, ReceivedOrSent
    <2>3. Cardinality(MessagesOf(p)) = 0
        BY <1>2, FS_EmptySet
    <2> QED
        BY <2>1, <2>2, <2>3
<1>4. ToLaunch \subseteq DOMAIN tree /\ IsFiniteSet(ToLaunch)
    <2>1. ToLaunch \subseteq DOMAIN tree
        BY DEF ToLaunch, Reached
    <2> QED
        BY <1>1, <2>1, FS_Subset DEF TreeOK
<1>5. ASSUME NEW r \in ToLaunch
      PROVE  r \in DOMAIN tree /\ Config[GraphOf(r)] > 0 /\ tree[r].received = 0
             /\ r \in Reached(tree) /\ tree[r].resolved
    BY <1>3, <1>4 DEF ToLaunch
<1>6. IsFiniteSet(S)
    <2> DEFINE f == [r \in ToLaunch |-> {r} \X (1 .. Config[GraphOf(r)])]
    <2>1. IsFiniteSet({f[r] : r \in DOMAIN f})
        BY <1>4, ImageFinite
    <2>2. S = UNION {f[r] : r \in DOMAIN f}
        BY DEF SentBy
    <2>3. \A r \in ToLaunch : IsFiniteSet(f[r])
        <3> SUFFICES ASSUME NEW r \in ToLaunch PROVE IsFiniteSet({r} \X (1 .. Config[GraphOf(r)]))
            OBVIOUS
        <3>1. Config[GraphOf(r)] \in Int /\ 1 \in Int
            BY <1>3, <1>5
        <3>2. IsFiniteSet(1 .. Config[GraphOf(r)]) /\ IsFiniteSet({r})
            BY <3>1, FS_Interval, FS_Singleton
        <3> QED
            BY <3>2, FS_Product
    <2> HIDE DEF f
    <2>4. \A T \in {f[r] : r \in DOMAIN f} : IsFiniteSet(T)
        BY <2>3 DEF f
    <2> QED
        BY <2>1, <2>2, <2>4, FS_UNION
<1>7. ASSUME NEW q \in Unresolved(tree)
      PROVE  /\ q \in DOMAIN tree /\ q # RootFiring /\ Parent(q) \in ToLaunch
             /\ Upper[GraphOf(q)] = GraphOf(Parent(q))
    <2>1. q \in DOMAIN tree /\ q \in Reached(tree) /\ ~ tree[q].resolved /\ IsPath(q)
        BY <1>1 DEF Unresolved, Reached
    <2>2. ~ IsStatic(GraphOf(q))
        BY <1>1, <2>1 DEF Settled, StaticResolved
    <2>3. q # RootFiring
        <3>1. GraphOf(RootFiring) = Root
            BY DEF GraphOf, RootFiring
        <3> QED
            BY <2>2, <3>1, GraphTypes
    <2>4. Parent(q) \in DOMAIN tree /\ Parent(q) \in Reached(tree) /\ tree[Parent(q)].resolved
        BY <1>1, <2>1, <2>3, ReachedDown DEF TreeOK
    <2>5. GraphOf(q) \in Subgraphs(GraphOf(Parent(q))) /\ GraphOf(Parent(q)) \in Graph
        BY <1>3, <2>1, <2>3, <2>4, ParentPath
    <2>6. Config[GraphOf(Parent(q))] > 0 /\ Upper[GraphOf(q)] = GraphOf(Parent(q))
        BY <1>3, <2>2, <2>4, <2>5, GraphTypes
    <2>7. ~ LastParam(tree, Parent(q))
        BY <1>1, <2>1, <2>2 DEF Settled, DynamicResolved
    <2>8. Parent(q) \notin launched
        BY <1>3, <2>4, <2>7 DEF LastParam
    <2> QED
        BY <2>1, <2>3, <2>4, <2>6, <2>8 DEF ToLaunch
<1>8. ASSUME NEW r \in ToLaunch
      PROVE  \E q \in Unresolved(tree) : Parent(q) = r
    <2>1. r \in DOMAIN tree /\ Config[GraphOf(r)] > 0 /\ Config[GraphOf(r)] \in Nat
        BY <1>3, <1>5
    <2>2. PICK q \in DOMAIN tree :
                IsPath(q) /\ q # RootFiring /\ Parent(q) = r /\ ~ IsStatic(GraphOf(q))
        BY <1>1, <2>1, RunFiring
    <2>3. ~ LastParam(tree, r)
        BY <1>5, <2>1 DEF LastParam
    <2>4. ~ tree[q].resolved
        BY <1>1, <2>2, <2>3 DEF Settled, DynamicResolved
    <2>5. q \in Reached(tree)
        BY <1>1, <1>5, <2>2, ReachedDown
    <2> QED
        BY <2>2, <2>4, <2>5 DEF Unresolved
<1>9. ASSUME NEW q \in Unresolved(tree), NEW p \in Unresolved(tree), Parent(q) = Parent(p)
      PROVE  q = p
    <2>1. Parent(q) \in DOMAIN tree /\ Config[GraphOf(Parent(q))] > 0
        BY <1>5, <1>7
    <2>2. PICK run : \A x \in DOMAIN tree : x # RootFiring /\ Parent(x) = Parent(q) => x = run
        BY <1>1, <2>1, RunFiring
    <2> QED
        BY <1>7, <1>9, <2>2
<1>10. Cardinality(W) = Cardinality(S)
    <2> DEFINE sent(w) == <<Parent(w[1]), w[2]>>
               f == [w \in W |-> sent(w)]
    <2> HIDE DEF W, S
    <2>1. \A w : w \in W <=> \E q \in Unresolved(tree) :
                \E i \in 1 .. Config[GraphOf(Parent(q))] : w = <<q, i>>
        BY <1>7 DEF W
    <2>2. \A w : w \in S <=> \E r \in ToLaunch : \E i \in 1 .. Config[GraphOf(r)] : w = <<r, i>>
        BY DEF S, SentBy
    <2>3. f \in [W -> S]
        BY <1>7, <2>1, <2>2
    <2>4. \A x, y \in W : f[x] = f[y] => x = y
        BY <1>9, <2>1
    <2>5. ASSUME NEW t \in S PROVE \E x \in W : f[x] = t
        <3>1. PICK r \in ToLaunch : \E i \in 1 .. Config[GraphOf(r)] : t = <<r, i>>
            BY <2>2, <2>5
        <3>2. PICK i \in 1 .. Config[GraphOf(r)] : t = <<r, i>>
            BY <3>1
        <3>3. PICK q \in Unresolved(tree) : Parent(q) = r
            BY <1>8
        <3>4. <<q, i>> \in W
            BY <2>1, <3>2, <3>3
        <3>5. f[<<q, i>>] = t
            BY <3>2, <3>3, <3>4
        <3> QED
            BY <3>4, <3>5
    <2>6. IsFiniteSet(W)
        <3> DEFINE g == [q \in Unresolved(tree) |-> {q} \X (1 .. Config[Upper[GraphOf(q)]])]
        <3>1. IsFiniteSet(Unresolved(tree))
            <4>1. Unresolved(tree) \subseteq DOMAIN tree
                BY DEF Unresolved, Reached
            <4> QED
                BY <1>1, <4>1, FS_Subset DEF TreeOK
        <3>2. IsFiniteSet({g[q] : q \in DOMAIN g})
            BY <3>1, ImageFinite
        <3>3. W = UNION {g[q] : q \in DOMAIN g}
            BY DEF W
        <3>4. \A q \in Unresolved(tree) : IsFiniteSet(g[q])
            <4> SUFFICES ASSUME NEW q \in Unresolved(tree)
                         PROVE  IsFiniteSet({q} \X (1 .. Config[Upper[GraphOf(q)]]))
                OBVIOUS
            <4>1. Config[Upper[GraphOf(q)]] \in Int /\ 1 \in Int
                BY <1>3, <1>4, <1>7
            <4>2. IsFiniteSet(1 .. Config[Upper[GraphOf(q)]]) /\ IsFiniteSet({q})
                BY <4>1, FS_Interval, FS_Singleton
            <4> QED
                BY <4>2, FS_Product
        <3> HIDE DEF g
        <3>5. \A T \in {g[q] : q \in DOMAIN g} : IsFiniteSet(T)
            BY <3>4 DEF g
        <3> QED
            BY <3>2, <3>3, <3>5, FS_UNION
    <2> HIDE DEF f
    <2> QED
        BY <2>3, <2>4, <2>5, <2>6, OneToOne
<1> QED
    BY <1>5, <1>6, <1>10 DEF ExpectedParams

\* What the configuration actors send, one message for each parameter.
LEMMA SentMessages ==
    ASSUME NEW S, IsFiniteSet(S), \A p \in S : p = <<p[1], p[2]>>, NEW value \in [S -> Value],
           NEW sent, sent = {[path |-> p[1], ix |-> p[2], value |-> value[p]] : p \in S}
    PROVE  IsFiniteSet(sent) /\ Cardinality(sent) = Cardinality(S)
<1> DEFINE f == [p \in S |-> [path |-> p[1], ix |-> p[2], value |-> value[p]]]
<1>1. f \in [S -> sent]
    OBVIOUS
<1>2. ASSUME NEW x \in S, NEW y \in S, f[x] = f[y] PROVE x = y
    <2>1. x[1] = f[x].path /\ x[2] = f[x].ix /\ y[1] = f[y].path /\ y[2] = f[y].ix
        OBVIOUS
    <2>2. x[1] = y[1] /\ x[2] = y[2]
        BY <1>2, <2>1
    <2> QED
        BY <2>2
<1>3. \A t \in sent : \E x \in S : f[x] = t
    OBVIOUS
<1> HIDE DEF f
<1> QED
    BY <1>1, <1>2, <1>3, OneToOne

LEMMA ExecuteIInv == IInv /\ Execute => IInv'
<1> SUFFICES ASSUME IInv, Execute PROVE IInv'
    OBVIOUS
<1> DEFINE S == SentBy(ToLaunch)
<1>1. phase = "execute" /\ firings' = firings /\ launched' = launched \cup ToLaunch
      /\ messages = {}
    BY DEF Execute, IInv, PhaseOK
<1>2. PICK value \in [S -> Value] :
          messages' = {[path |-> p[1], ix |-> p[2], value |-> value[p]] : p \in S}
    BY <1>1 DEF Execute
<1>3. /\ IsFiniteSet(S) /\ ExpectedParams(firings) = Cardinality(S)
      /\ \A r \in ToLaunch : firings[r].received = 0
    BY <1>1, WaitedForIsSent
<1>4. \A w : w \in S <=> \E r \in ToLaunch : \E i \in 1 .. Config[GraphOf(r)] : w = <<r, i>>
    BY DEF SentBy
<1> HIDE DEF S
<1>5. \A w \in S : w = <<w[1], w[2]>> /\ w[1] \in ToLaunch /\ w[2] \in 1 .. Config[GraphOf(w[1])]
    BY <1>4
<1>6. IsFiniteSet(messages') /\ Cardinality(messages') = Cardinality(S)
    BY <1>2, <1>3, <1>5, SentMessages
<1>7. CountMatches'
    BY <1>3, <1>6 DEF CountMatches, Execute
<1>8. PhaseOK'
    <2>1. expected' = 0 <=> messages' = {}
        BY <1>6, <1>7, FS_EmptySet DEF CountMatches
    <2> QED
        BY <2>1 DEF Execute, PhaseOK
<1>9. MessagesOK'
    <2> SUFFICES ASSUME NEW m \in messages'
                 PROVE  m.path \in launched' /\ m.ix \in 1 .. Config[GraphOf(m.path)] /\ m.value \in Value
        BY <1>6 DEF MessagesOK
    <2>1. PICK p \in S : m = [path |-> p[1], ix |-> p[2], value |-> value[p]]
        BY <1>2
    <2> QED
        BY <1>1, <1>5, <2>1
<1>10. LaunchedOK'
    BY <1>1 DEF IInv, LaunchedOK, ToLaunch, Reached
<1>11. ReceivedOrSent'
    <2> SUFFICES ASSUME NEW p \in DOMAIN firings
                 PROVE  firings[p].received =
                            IF p \in launched' THEN Config[GraphOf(p)] - Cardinality(MessagesOf(p)') ELSE 0
        BY <1>1 DEF ReceivedOrSent
    <2>1. firings[p].received =
              IF p \in launched THEN Config[GraphOf(p)] - Cardinality(MessagesOf(p)) ELSE 0
        BY DEF IInv, ReceivedOrSent
    <2>2. MessagesOf(p)' = {m \in messages' : m.path = p} /\ MessagesOf(p) = {}
        BY <1>1 DEF MessagesOf
    <2>3. Config[GraphOf(p)] \in Nat
        BY PathParts, GraphTypes DEF IInv, TreeOK
    <2>4. CASE p \in ToLaunch
        <3> DEFINE f == [i \in 1 .. Config[GraphOf(p)] |->
                            [path |-> p, ix |-> i, value |-> value[<<p, i>>]]]
                   T == MessagesOf(p)'
        <3>1. \A i \in 1 .. Config[GraphOf(p)] : <<p, i>> \in S
            BY <1>4, <2>4
        <3>2. f \in [1 .. Config[GraphOf(p)] -> T]
            <4> SUFFICES ASSUME NEW i \in 1 .. Config[GraphOf(p)] PROVE f[i] \in T
                OBVIOUS
            <4>1. <<p, i>>[1] = p /\ <<p, i>>[2] = i
                OBVIOUS
            <4>2. f[i] = [path |-> <<p, i>>[1], ix |-> <<p, i>>[2], value |-> value[<<p, i>>]]
                BY <4>1
            <4>3. f[i] \in messages' /\ f[i].path = p
                BY <1>2, <3>1, <4>2
            <4> QED
                BY <2>2, <4>3
        <3>3. \A x, y \in 1 .. Config[GraphOf(p)] : f[x] = f[y] => x = y
            <4> SUFFICES ASSUME NEW x \in 1 .. Config[GraphOf(p)], NEW y \in 1 .. Config[GraphOf(p)],
                                f[x] = f[y]
                         PROVE  x = y
                OBVIOUS
            <4>1. f[x].ix = x /\ f[y].ix = y
                OBVIOUS
            <4> QED
                BY <4>1
        <3>4. ASSUME NEW t \in T PROVE \E x \in 1 .. Config[GraphOf(p)] : f[x] = t
            <4>1. t \in messages' /\ t.path = p
                BY <2>2, <3>4
            <4>2. PICK w \in S : t = [path |-> w[1], ix |-> w[2], value |-> value[w]]
                BY <1>2, <4>1
            <4>3. w = <<p, w[2]>> /\ w[2] \in 1 .. Config[GraphOf(p)]
                BY <1>5, <4>1, <4>2
            <4>4. f[w[2]] = t
                BY <4>2, <4>3
            <4> QED
                BY <4>3, <4>4
        <3>5. IsFiniteSet(1 .. Config[GraphOf(p)])
              /\ Cardinality(1 .. Config[GraphOf(p)]) = Config[GraphOf(p)]
            <4>1. Config[GraphOf(p)] \in Int /\ 1 \in Int
                BY <2>3
            <4>2. /\ IsFiniteSet(1 .. Config[GraphOf(p)])
                  /\ Cardinality(1 .. Config[GraphOf(p)]) =
                        IF 1 > Config[GraphOf(p)] THEN 0 ELSE Config[GraphOf(p)] - 1 + 1
                BY <4>1, FS_Interval
            <4> QED
                BY <2>3, <4>2
        <3> DEFINE I == 1 .. Config[GraphOf(p)]
        <3> HIDE DEF f, T, I
        <3>6. f \in [I -> T] /\ IsFiniteSet(I) /\ (\A x, y \in I : f[x] = f[y] => x = y)
              /\ \A t \in T : \E x \in I : f[x] = t
            BY <3>2, <3>3, <3>4, <3>5 DEF I
        <3>7. Cardinality(T) = Cardinality(I)
            BY <3>6, OneToOne
        <3> QED
            BY <1>1, <1>3, <2>3, <2>4, <3>5, <3>7 DEF T, I
    <2>5. CASE p \notin ToLaunch
        <3>1. MessagesOf(p)' = {}
            <4> SUFFICES ASSUME NEW m \in messages', m.path = p PROVE FALSE
                BY <2>2
            <4>1. PICK w \in S : m = [path |-> w[1], ix |-> w[2], value |-> value[w]]
                BY <1>2
            <4> QED
                BY <1>5, <2>5, <4>1
        <3> QED
            BY <1>1, <2>1, <2>2, <2>5, <3>1
    <2> QED
        BY <2>4, <2>5
<1>12. /\ TreeOK(firings') /\ RunsThere(firings') /\ StaticResolved(firings')
       /\ DynamicResolved(firings') /\ DynamicRatesFresh'
    BY <1>1 DEF IInv, DynamicRatesFresh
<1> QED
    BY <1>7, <1>8, <1>9, <1>10, <1>11, <1>12 DEF IInv

LEMMA EndExecutionIInv == IInv /\ EndExecution => IInv'
<1> SUFFICES ASSUME IInv, EndExecution PROVE IInv'
    OBVIOUS
<1>1. /\ phase = "done" /\ messages = {} /\ messages' = {} /\ expected' = expected
      /\ launched' = {} /\ phase' = "execute" /\ firings' = Cleared(firings)
    BY DEF EndExecution, IInv, PhaseOK
<1>2. TreeOK(firings) /\ RunsThere(firings) /\ CountMatches
    BY DEF IInv
<1>3. DOMAIN firings' = DOMAIN firings
      /\ firings' = [p \in DOMAIN firings' |-> firings'[p]]
    BY <1>1 DEF Cleared
<1>4. ASSUME NEW p \in DOMAIN firings
      PROVE  /\ firings'[p] \in FiringType(GraphOf(p))
             /\ firings'[p].received = 0
             /\ firings'[p].resolved = IsStatic(GraphOf(p))
    <2>1. firings[p] \in FiringType(GraphOf(p)) /\ Config[GraphOf(p)] \in Nat
        BY <1>2, PathParts, GraphTypes DEF TreeOK
    <2>2. firings'[p] = [firings[p] EXCEPT !.resolved = IsStatic(GraphOf(p)), !.received = 0]
        BY <1>1 DEF Cleared
    <2> DEFINE static == IsStatic(GraphOf(p))
    <2>3. static \in BOOLEAN
        BY DEF IsStatic
    <2> HIDE DEF static
    <2>4. firings'[p] = [firings[p] EXCEPT !.resolved = static, !.received = 0]
        BY <2>2 DEF static
    <2>5. /\ firings'[p] \in FiringType(GraphOf(p))
          /\ firings'[p].received = 0 /\ firings'[p].resolved = static
        <3> DEFINE old == firings[p]
                   new == firings'[p]
        <3>1. /\ old = [resolved |-> old.resolved, rates |-> old.rates,
                        received |-> old.received, params |-> old.params]
              /\ old.rates \in Nat /\ old.params \in [1 .. Config[GraphOf(p)] -> Nat]
            BY <2>1 DEF FiringType
        <3>2. new = [resolved |-> static, rates |-> old.rates,
                     received |-> 0, params |-> old.params]
            BY <2>4, <3>1
        <3>3. 0 \in 0 .. Config[GraphOf(p)]
            BY <2>1
        <3> HIDE DEF old, new
        <3>4. new \in FiringType(GraphOf(p)) /\ new.received = 0 /\ new.resolved = static
            BY <2>3, <3>1, <3>2, <3>3 DEF FiringType
        <3> QED
            BY <3>4 DEF new
    <2> QED
        BY <2>5 DEF static
<1>5. TreeOK(firings')
    BY <1>2, <1>3, <1>4 DEF TreeOK
<1>6. RunsThere(firings')
    BY <1>2, <1>3 DEF RunsThere
<1>7. StaticResolved(firings')
    BY <1>3, <1>4 DEF StaticResolved
<1>8. DynamicResolved(firings')
    <2> SUFFICES ASSUME NEW p \in DOMAIN firings, ~ IsStatic(GraphOf(p))
                 PROVE  ~ firings'[p].resolved /\ ~ LastParam(firings', Parent(p))
        BY <1>3 DEF DynamicResolved
    <2>1. p # RootFiring /\ IsPath(p) /\ Parent(p) \in DOMAIN firings
        <3>1. GraphOf(RootFiring) = Root
            BY DEF GraphOf, RootFiring
        <3> QED
            BY <1>2, <3>1, GraphTypes DEF TreeOK
    <2>2. GraphOf(p) \in Subgraphs(GraphOf(Parent(p))) /\ GraphOf(Parent(p)) \in Graph
        BY <2>1, ParentPath, PathParts
    <2>3. Config[GraphOf(Parent(p))] # 0
        BY <2>2, GraphTypes
    <2> QED
        BY <1>4, <2>1, <2>3 DEF LastParam
<1>9. LaunchedOK' /\ MessagesOK' /\ ReceivedOrSent' /\ PhaseOK'
    BY <1>1, <1>3, <1>4, FS_EmptySet DEF LaunchedOK, MessagesOK, ReceivedOrSent, PhaseOK
<1>10. CountMatches'
    BY <1>1, <1>2 DEF CountMatches
<1>11. DynamicRatesFresh'
    BY <1>3, <1>4 DEF DynamicRatesFresh, Reached
<1> QED
    BY <1>5, <1>6, <1>7, <1>8, <1>9, <1>10, <1>11 DEF IInv

LEMMA ReceiveParamIInv == IInv /\ ReceiveParam => IInv'
<1> SUFFICES ASSUME IInv, ReceiveParam PROVE IInv'
    OBVIOUS
<1> DEFINE tree == firings
           after == firings'
<1>1. Settled(tree) /\ TreeOK(tree) /\ \A p \in DOMAIN tree : IsPath(p)
    BY DEF IInv, Settled, TreeOK
<1>2. phase = "wait" /\ launched' = launched /\ expected' = expected - 1
      /\ phase' = IF expected = 1 THEN "execute" ELSE "wait"
    BY DEF ReceiveParam
<1>3. PICK m \in messages : /\ after = SetParamValue(tree, m.path, m.ix, m.value)
                            /\ messages' = messages \ {m}
    BY DEF ReceiveParam
<1> DEFINE r == m.path
<1>4. /\ r \in launched /\ r \in DOMAIN tree /\ r \in Reached(tree)
      /\ Config[GraphOf(r)] > 0 /\ Config[GraphOf(r)] \in Nat
      /\ m.ix \in 1 .. Config[GraphOf(r)] /\ m.value \in Nat
    <2>1. r \in launched /\ m.ix \in 1 .. Config[GraphOf(r)] /\ m.value \in Value
        BY DEF IInv, MessagesOK
    <2>2. r \in Reached(tree) /\ Config[GraphOf(r)] > 0
        BY <2>1 DEF IInv, LaunchedOK
    <2>3. r \in DOMAIN tree
        BY <2>2 DEF Reached
    <2>4. Config[GraphOf(r)] \in Nat
        BY <1>1, <2>3, PathParts, GraphTypes
    <2> QED
        BY <2>1, <2>2, <2>3, <2>4, GraphAssumption
<1>5. IsFiniteSet(messages) /\ \A p : IsFiniteSet(MessagesOf(p))
    <2>1. IsFiniteSet(messages)
        BY DEF IInv, MessagesOK
    <2>2. \A p : MessagesOf(p) \subseteq messages
        BY DEF MessagesOf
    <2> QED
        BY <2>1, <2>2, FS_Subset
<1>6. Cardinality(messages') = Cardinality(messages) - 1 /\ IsFiniteSet(messages')
      /\ Cardinality(messages) \in Nat
    BY <1>3, <1>5, FS_RemoveElement, FS_CardinalityType
<1>7. \A p : p # r => MessagesOf(p)' = MessagesOf(p)
    BY <1>3 DEF MessagesOf
<1>8. /\ Cardinality(MessagesOf(r)') = Cardinality(MessagesOf(r)) - 1
      /\ Cardinality(MessagesOf(r)) \in Nat \ {0}
    <2>1. MessagesOf(r)' = MessagesOf(r) \ {m} /\ m \in MessagesOf(r)
        BY <1>3 DEF MessagesOf
    <2>2. Cardinality(MessagesOf(r)) \in Nat /\ Cardinality(MessagesOf(r)) # 0
        BY <1>5, <2>1, FS_CardinalityType, FS_EmptySet
    <2> QED
        BY <1>5, <2>1, <2>2, FS_RemoveElement
<1>9. /\ tree[r].received = Config[GraphOf(r)] - Cardinality(MessagesOf(r))
      /\ tree[r].received < Config[GraphOf(r)]
    <2>1. tree[r].received = Config[GraphOf(r)] - Cardinality(MessagesOf(r))
        BY <1>4 DEF IInv, ReceivedOrSent
    <2> QED
        BY <1>4, <1>8, <2>1
<1> HIDE DEF r, after
<1>10. PICK run \in DOMAIN tree :
          /\ IsPath(run) /\ run # RootFiring /\ Parent(run) = r
          /\ ~ IsStatic(GraphOf(run)) /\ Config[GraphOf(run)] = 0
          /\ Subgraphs(GraphOf(r)) = {GraphOf(run)} /\ run # r
          /\ \A q \in DOMAIN tree : q # RootFiring /\ Parent(q) = r => q = run
    BY <1>1, <1>4, RunFiring
<1>11. AfterReceive(tree, r, run, after)
    <2>1. after = SetParamValue(tree, r, m.ix, m.value)
        BY <1>3 DEF r
    <2> QED
        BY <1>1, <1>4, <1>9, <1>10, <2>1, ReceiveShape
<1>12. /\ Settled(after)
       /\ \A p \in DOMAIN tree : ~ Below(p, run) =>
             p \in DOMAIN after /\ (p # r /\ p # run => after[p] = tree[p])
       /\ after[r].received = tree[r].received + 1 /\ after[r].resolved = tree[r].resolved
       /\ \A p \in DOMAIN after : p # r =>
             \/ p \in DOMAIN tree /\ after[p].received = tree[p].received
             \/ Below(p, run) /\ after[p].received = 0
       /\ \A q \in DOMAIN after : ~ IsStatic(GraphOf(q)) /\ after[q].resolved =>
             \/ q = run /\ after[q].rates = RatesNow(after, q)
             \/ q \in DOMAIN tree /\ tree[q].resolved /\ after[q].rates = tree[q].rates
    BY <1>11 DEF AfterReceive
<1>13. TreeOK(after) /\ \A p \in DOMAIN after : IsPath(p)
    BY <1>12 DEF Settled, TreeOK
<1>14. ~ LastParam(tree, r) /\ ~ tree[run].resolved
    <2>1. ~ LastParam(tree, r)
        BY <1>4, <1>8, <1>9 DEF LastParam
    <2> QED
        BY <1>1, <1>10, <2>1 DEF Settled, DynamicResolved
\* What was reached is not below the run graph, and is kept.
<1>15. ASSUME NEW p \in DOMAIN tree, p \in Reached(tree)
       PROVE  /\ ~ Below(p, run)
              /\ p # run => \A s \in DOMAIN tree : Below(p, s) =>
                    /\ s # run /\ ~ Below(s, run) /\ s \in DOMAIN after
                    /\ after[s].resolved = tree[s].resolved
    <2>1. ~ Below(p, run)
        BY <1>1, <1>14, <1>15, ReachedDown
    <2>2. ASSUME NEW s \in DOMAIN tree, Below(p, s)
          PROVE  /\ s # run /\ ~ Below(s, run) /\ s \in DOMAIN after
                 /\ after[s].resolved = tree[s].resolved
        <3>1. s # run /\ ~ Below(s, run)
            BY <1>1, <2>1, <2>2, BelowOrder
        <3> QED
            BY <1>12, <3>1
    <2> QED
        BY <2>1, <2>2
<1>16. ASSUME NEW p \in launched
       PROVE  /\ p \in DOMAIN tree /\ p \in Reached(tree) /\ Config[GraphOf(p)] > 0
              /\ ~ Below(p, run) /\ p # run
              /\ p \in DOMAIN after /\ p \in Reached(after)
              /\ after[p].resolved = tree[p].resolved
    <2>1. p \in Reached(tree) /\ Config[GraphOf(p)] > 0
        BY DEF IInv, LaunchedOK
    <2>2. p \in DOMAIN tree
        BY <2>1 DEF Reached
    <2>3. ~ Below(p, run) /\ p # run
        BY <1>10, <1>15, <2>1, <2>2
    <2>4. p \in DOMAIN after
        BY <1>12, <2>2, <2>3
    <2>5. after[p].resolved = tree[p].resolved
        BY <1>12, <2>2, <2>3
    <2>6. ASSUME NEW s \in DOMAIN after, Below(p, s) PROVE after[s].resolved
        <3>1. s \in DOMAIN tree
            BY <1>1, <1>13, <2>2, <2>6, AboveInTree
        <3>2. tree[s].resolved
            BY <1>1, <2>1, <2>2, <2>6, <3>1, ReachedDown
        <3> QED
            BY <1>15, <2>1, <2>2, <2>3, <2>6, <3>1, <3>2
    <2>7. p \in Reached(after)
        BY <1>13, <2>4, <2>6, ReachedDown
    <2> QED
        BY <2>1, <2>2, <2>3, <2>4, <2>5, <2>7
<1>17. LaunchedOK'
    BY <1>2, <1>16 DEF LaunchedOK, after
<1>18. MessagesOK'
    BY <1>2, <1>3, <1>6 DEF IInv, MessagesOK
<1>19. ASSUME NEW p \in DOMAIN after
       PROVE  after[p].received =
                  IF p \in launched THEN Config[GraphOf(p)] - Cardinality(MessagesOf(p)') ELSE 0
    <2>1. CASE p = r
        <3>1. after[r].received = tree[r].received + 1 /\ r \in launched
            BY <1>4, <1>12
        <3> QED
            BY <1>4, <1>8, <1>9, <2>1, <3>1
    <2>2. CASE p # r /\ p \in DOMAIN tree /\ after[p].received = tree[p].received
        <3>1. tree[p].received =
                  IF p \in launched THEN Config[GraphOf(p)] - Cardinality(MessagesOf(p)) ELSE 0
            BY <2>2 DEF IInv, ReceivedOrSent
        <3>2. MessagesOf(p)' = MessagesOf(p)
            BY <1>7, <2>2
        <3> QED
            BY <2>2, <3>1, <3>2
    <2>3. CASE Below(p, run) /\ after[p].received = 0
        BY <1>16, <2>3
    <2> QED
        BY <1>12, <2>1, <2>2, <2>3
<1>20. ReceivedOrSent'
    BY <1>2, <1>19 DEF ReceivedOrSent, after
<1>21. CountMatches' /\ PhaseOK'
    <2>1. expected = Cardinality(messages)
        BY DEF IInv, CountMatches
    <2>2. expected' = Cardinality(messages')
        BY <1>2, <1>6, <2>1
    <2>3. messages' = {} <=> Cardinality(messages') = 0
        BY <1>6, FS_EmptySet
    <2>4. messages' = {} <=> expected = 1
        BY <1>2, <1>6, <2>1, <2>3
    <2> QED
        BY <1>2, <2>2, <2>4 DEF CountMatches, PhaseOK
<1>22. ASSUME NEW q \in Reached(after), after[q].resolved, ~ IsStatic(GraphOf(q))
       PROVE  after[q].rates = RatesNow(after, q)
    <2>0. q \in DOMAIN after
        BY DEF Reached
    <2> SUFFICES ASSUME q \in DOMAIN tree, tree[q].resolved, after[q].rates = tree[q].rates
                 PROVE  after[q].rates = RatesNow(after, q)
        BY <1>12, <1>22, <2>0
    <2> DEFINE s == Parent(q)
    <2>1. IsPath(q) /\ q # RootFiring /\ s \in DOMAIN tree /\ q # run
        <3>1. GraphOf(RootFiring) = Root
            BY DEF GraphOf, RootFiring
        <3> QED
            BY <1>1, <1>14, <1>22, <3>1, GraphTypes DEF TreeOK
    \* The firing it is in has received its parameters: it was launched, and reached.
    <2>2. s \in launched
        <3>1. GraphOf(q) \in Subgraphs(GraphOf(s)) /\ GraphOf(s) \in Graph
            BY <1>1, <2>1, ParentPath, PathParts
        <3>2. Config[GraphOf(s)] \in Nat \ {0}
            BY <1>22, <3>1, GraphTypes
        <3>3. LastParam(tree, s)
            BY <1>1, <1>22 DEF Settled, DynamicResolved
        <3> QED
            BY <2>1, <3>2, <3>3 DEF LastParam, IInv, ReceivedOrSent
    <2>3. q \in Reached(tree)
        <3>1. after[s].resolved
            BY <1>13, <1>22, <2>0, <2>1, ReachedDown
        <3>2. s \in Reached(tree) /\ tree[s].resolved
            BY <1>16, <2>2, <3>1
        <3> QED
            BY <1>1, <2>1, <3>2, ReachedDown
    <2>4. tree[q].rates = RatesNow(tree, q)
        BY <1>22, <2>3 DEF IInv, DynamicRatesFresh
    \* What is above it is not the firing whose run graph waits.
    <2>5. ASSUME NEW a \in Above(q) PROVE a \in DOMAIN after /\ after[a] = tree[a]
        <3>1. IsPath(a) /\ Below(q, a)
            BY <2>1, AbovePath
        <3>2. a \in DOMAIN tree
            BY <1>1, <3>1, AboveInTree
        <3>3. a # run /\ ~ Below(a, run)
            BY <1>15, <2>1, <2>3, <3>1, <3>2
        <3>4. a # r
            BY <1>1, <1>4, <1>14, <2>3, <3>1, <3>2, ReachedThrough
        <3> QED
            BY <1>12, <3>2, <3>3, <3>4
    <2>6. RatesNow(after, q) = RatesNow(tree, q)
        <3>1. CASE \A t : RatesNow(t, q) = 0
            BY <3>1
        <3>2. CASE \E a \in Above(q) : \E i \in 1 .. Config[GraphOf(a)] :
                      \A t : RatesNow(t, q) = t[a].params[i]
            <4>1. PICK a \in Above(q) : \E i \in 1 .. Config[GraphOf(a)] :
                      \A t : RatesNow(t, q) = t[a].params[i]
                BY <3>2
            <4>2. PICK i : \A t : RatesNow(t, q) = t[a].params[i]
                BY <4>1
            <4> QED
                BY <2>5, <4>2
        <3> QED
            BY <2>1, <3>1, <3>2, RatesParts
    <2> QED
        BY <2>4, <2>6
<1>23. DynamicRatesFresh'
    BY <1>22 DEF DynamicRatesFresh, Reached, after
<1>24. TreeOK(after) /\ RunsThere(after) /\ StaticResolved(after) /\ DynamicResolved(after)
    BY <1>12 DEF Settled
<1> QED
    BY <1>17, <1>18, <1>20, <1>21, <1>23, <1>24 DEF IInv, after

-----------------------------------------------------------------------------
(* The theorems                                                            *)

\* What the rounds keep true: the tree follows the hierarchy, what is resolved is
\* what has its parameters, and every parameter of a firing whose configuration
\* actors ran is received or on its way.
THEOREM HandlersInvariant == Spec => []IInv
<1>1. IInv /\ UNCHANGED vars => IInv'
    BY DEF IInv, vars, TreeOK, RunsThere, StaticResolved, DynamicResolved, LaunchedOK, MessagesOK,
           MessagesOf, ReceivedOrSent, PhaseOK, CountMatches, DynamicRatesFresh
<1>2. IInv /\ [Next]_vars => IInv'
    BY <1>1, ExecuteIInv, ReceiveParamIInv, EndExecutionIInv DEF Next
<1> QED
    BY <1>2, InitIInv, PTL DEF Spec

\* The paths follow the hierarchy, for every hierarchy of graphs.
THEOREM HandlersTypeCorrect == Spec => []TypeOK
<1>1. IInv => TypeOK
    <2> SUFFICES ASSUME IInv PROVE TypeOK
        OBVIOUS
    <2>1. TreeOK(firings)
        BY DEF IInv
    <2>2. ASSUME NEW p \in DOMAIN firings
          PROVE  /\ GraphOf(p) \in Graph
                 /\ p # RootFiring =>
                       Parent(p) \in DOMAIN firings /\ Upper[GraphOf(p)] = GraphOf(Parent(p))
                 /\ firings[p].received \in 0 .. Config[GraphOf(p)]
        <3>1. IsPath(p) /\ firings[p].received \in 0 .. Config[GraphOf(p)]
            BY <2>1 DEF TreeOK, FiringType
        <3>2. ASSUME p # RootFiring
              PROVE  Parent(p) \in DOMAIN firings /\ Upper[GraphOf(p)] = GraphOf(Parent(p))
            <4>1. IsPath(Parent(p)) /\ GraphOf(p) \in Subgraphs(GraphOf(Parent(p)))
                BY <3>1, <3>2, ParentPath
            <4>2. GraphOf(Parent(p)) \in Graph
                BY <4>1, PathParts
            <4> QED
                BY <2>1, <3>2, <4>1, <4>2, GraphTypes DEF TreeOK
        <3> QED
            BY <3>1, <3>2, PathParts
    <2>3. launched \subseteq DOMAIN firings
        BY DEF IInv, LaunchedOK, Reached
    <2>4. expected \in Nat
        BY FS_CardinalityType DEF IInv, CountMatches, MessagesOK
    <2> QED
        BY <2>2, <2>3, <2>4 DEF TypeOK, IInv, PhaseOK
<1> QED
    BY <1>1, HandlersInvariant, PTL

\* countExpectedNumberOfParams counts the parameters that were sent, whatever the
\* hierarchy, the repetitions and the order of the messages.
THEOREM ParamsCounted == Spec => []CountMatches
<1>1. IInv => CountMatches
    BY DEF IInv
<1> QED
    BY <1>1, HandlersInvariant, PTL

\* A graph that a parameter right above resolves is resolved with the parameters of
\* this execution, those of every graph above it.
THEOREM DynamicRatesAreFresh == Spec => []DynamicRatesFresh
<1>1. IInv => DynamicRatesFresh
    BY DEF IInv
<1> QED
    BY <1>1, HandlersInvariant, PTL

=============================================================================
