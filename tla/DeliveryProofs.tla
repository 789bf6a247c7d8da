--------------------------- MODULE DeliveryProofs ---------------------------
(***************************************************************************)
(* The jobs and the parameters reach their reader through the queues that  *)
(* all the threads share, for every platform, every graph of tasks and     *)
(* every interleaving of the threads: each slot is free or on its way to   *)
(* one reader.                                                             *)
(***************************************************************************)
EXTENDS Delivery, ResourcesAllocatorProofs

-----------------------------------------------------------------------------
(* Sequences that share no element                                         *)

\* The sequences of F hold each of their elements once, and in one place.
Apart(F) ==
    \A d, e \in DOMAIN F : \A i \in 1 .. Len(F[d]), j \in 1 .. Len(F[e]) :
        F[d][i] = F[e][j] => d = e /\ i = j

ElementsOf(F) == UNION {{F[d][i] : i \in 1 .. Len(F[d])} : d \in DOMAIN F}

LEMMA InElements ==
    ASSUME NEW F, NEW x
    PROVE  x \in ElementsOf(F) <=> \E d \in DOMAIN F : \E i \in 1 .. Len(F[d]) : F[d][i] = x
BY DEF ElementsOf

LEMMA TailShifts ==
    ASSUME NEW S, NEW s \in Seq(S), s # << >>
    PROVE  /\ Tail(s) \in Seq(S) /\ Head(s) \in S /\ Head(s) = s[1]
           /\ Len(s) \in Nat \ {0} /\ Len(Tail(s)) = Len(s) - 1
           /\ \A i \in 1 .. Len(s) - 1 : Tail(s)[i] = s[i + 1]
<1>1. Tail(s) \in Seq(S) /\ Head(s) \in S /\ Len(Tail(s)) = Len(s) - 1
    BY HeadTailProperties
<1>2. Len(s) \in Nat \ {0}
    BY EmptySeq
<1>3. Head(s) = s[1] /\ \A i \in 1 .. Len(s) - 1 : Tail(s)[i] = s[i + 1]
    BY <1>1, <1>2
<1> QED
    BY <1>1, <1>2, <1>3

\* The front of one sequence goes to the end of another.
HeadMoves(D, S, F, G, d, e) ==
    /\ F \in [D -> Seq(S)] /\ G \in [D -> Seq(S)]
    /\ d \in D /\ e \in D /\ d # e /\ F[d] # << >>
    /\ G[d] = Tail(F[d]) /\ G[e] = Append(F[e], Head(F[d]))
    /\ \A x \in D : x # d /\ x # e => G[x] = F[x]

LEMMA MoveHead ==
    ASSUME NEW D, NEW S, NEW F, NEW G, NEW d, NEW e, HeadMoves(D, S, F, G, d, e), Apart(F)
    PROVE  Apart(G) /\ ElementsOf(G) = ElementsOf(F)
<1> USE DEF HeadMoves
<1> DEFINE n == Len(F[e]) + 1
           PlaceOf(x, i) == IF x = d THEN d ELSE IF x = e /\ i = n THEN d ELSE x
           RankOf(x, i) == IF x = d THEN i + 1 ELSE IF x = e /\ i = n THEN 1 ELSE i
<1>1. /\ DOMAIN F = D /\ DOMAIN G = D
      /\ \A x \in D : F[x] \in Seq(S) /\ G[x] \in Seq(S) /\ Len(F[x]) \in Nat /\ Len(G[x]) \in Nat
    BY LenProperties
<1>2. /\ Head(F[d]) \in S /\ Head(F[d]) = F[d][1] /\ Len(F[d]) \in Nat \ {0}
      /\ Len(G[d]) = Len(F[d]) - 1
      /\ \A i \in 1 .. Len(F[d]) - 1 : G[d][i] = F[d][i + 1]
    BY <1>1, TailShifts
<1>3. /\ Len(G[e]) = n /\ G[e][n] = F[d][1]
      /\ \A i \in 1 .. n - 1 : G[e][i] = F[e][i]
    BY <1>1, <1>2, AppendProperties
<1>4. ASSUME NEW x \in D, NEW i \in 1 .. Len(G[x])
      PROVE  /\ PlaceOf(x, i) \in D /\ RankOf(x, i) \in 1 .. Len(F[PlaceOf(x, i)])
             /\ G[x][i] = F[PlaceOf(x, i)][RankOf(x, i)]
    <2>1. CASE x = d
        <3>1. i \in 1 .. Len(F[d]) - 1 /\ G[x][i] = F[d][i + 1]
            BY <1>2, <2>1
        <3>2. i + 1 \in 1 .. Len(F[d])
            BY <1>2, <3>1
        <3> QED
            BY <2>1, <3>1, <3>2
    <2>2. CASE x = e /\ i = n
        <3>1. PlaceOf(x, i) = d /\ RankOf(x, i) = 1 /\ 1 \in 1 .. Len(F[d])
            BY <1>2, <2>2
        <3> QED
            BY <1>3, <2>2, <3>1
    <2>3. CASE x # d /\ ~ (x = e /\ i = n)
        <3>1. PlaceOf(x, i) = x /\ RankOf(x, i) = i
            BY <2>3
        <3>2. i \in 1 .. Len(F[x]) /\ G[x][i] = F[x][i]
            <4>1. CASE x = e
                <5>1. Len(F[e]) \in Nat /\ i \in 1 .. n /\ i # n
                    BY <1>1, <1>3, <2>3, <4>1
                <5>2. i \in 1 .. n - 1 /\ n - 1 = Len(F[e])
                    BY <5>1
                <5> QED
                    BY <1>3, <4>1, <5>2
            <4>2. CASE x # e
                BY <2>3, <4>2
            <4> QED
                BY <4>1, <4>2
        <3> QED
            BY <3>1, <3>2
    <2> QED
        BY <2>1, <2>2, <2>3
<1>5. Apart(G)
    <2> SUFFICES ASSUME NEW x \in D, NEW y \in D, NEW i \in 1 .. Len(G[x]),
                        NEW j \in 1 .. Len(G[y]), G[x][i] = G[y][j]
                 PROVE  x = y /\ i = j
        BY <1>1 DEF Apart
    <2>1. PlaceOf(x, i) = PlaceOf(y, j) /\ RankOf(x, i) = RankOf(y, j)
        <3>1. /\ PlaceOf(x, i) \in D /\ RankOf(x, i) \in 1 .. Len(F[PlaceOf(x, i)])
              /\ PlaceOf(y, j) \in D /\ RankOf(y, j) \in 1 .. Len(F[PlaceOf(y, j)])
              /\ F[PlaceOf(x, i)][RankOf(x, i)] = F[PlaceOf(y, j)][RankOf(y, j)]
            BY <1>4
        <3>2. \A p, q \in D : \A k \in 1 .. Len(F[p]), m \in 1 .. Len(F[q]) :
                  F[p][k] = F[q][m] => p = q /\ k = m
            BY <1>1 DEF Apart
        <3> HIDE DEF PlaceOf, RankOf
        <3> QED
            BY <3>1, <3>2
    <2>2. i \in Nat \ {0} /\ j \in Nat \ {0}
        BY <1>1
    <2> QED
        BY <2>1, <2>2
<1>6. ElementsOf(G) \subseteq ElementsOf(F)
    <2> SUFFICES ASSUME NEW x \in D, NEW i \in 1 .. Len(G[x]) PROVE G[x][i] \in ElementsOf(F)
        BY <1>1, InElements
    <2> HIDE DEF PlaceOf, RankOf
    <2>1. /\ PlaceOf(x, i) \in DOMAIN F /\ RankOf(x, i) \in 1 .. Len(F[PlaceOf(x, i)])
          /\ F[PlaceOf(x, i)][RankOf(x, i)] = G[x][i]
        BY <1>1, <1>4
    <2> QED
        BY <2>1, InElements
<1>7. ASSUME NEW x \in D, NEW i \in 1 .. Len(F[x]) PROVE F[x][i] \in ElementsOf(G)
    <2>1. \A y \in D : \A j \in 1 .. Len(G[y]) : G[y][j] \in ElementsOf(G)
        BY <1>1 DEF ElementsOf
    <2>2. CASE x = d /\ i = 1
        BY <1>1, <1>3, <2>1, <2>2
    <2>3. CASE x = d /\ i # 1
        <3>1. i - 1 \in 1 .. Len(G[d]) /\ G[d][i - 1] = F[d][i]
            BY <1>1, <1>2, <2>3
        <3> QED
            BY <2>1, <2>3, <3>1
    <2>4. CASE x = e
        <3>1. i \in 1 .. n - 1 /\ i \in 1 .. Len(G[e]) /\ G[e][i] = F[e][i]
            <4>1. Len(F[e]) \in Nat
                BY <1>1
            <4> QED
                BY <1>3, <2>4, <4>1
        <3> QED
            BY <2>1, <2>4, <3>1
    <2>5. CASE x # d /\ x # e
        BY <1>1, <2>1, <2>5
    <2> QED
        BY <2>2, <2>3, <2>4, <2>5
<1>8. ElementsOf(F) \subseteq ElementsOf(G)
    <2> SUFFICES ASSUME NEW v \in ElementsOf(F) PROVE v \in ElementsOf(G)
        OBVIOUS
    <2>1. PICK x \in D : \E i \in 1 .. Len(F[x]) : F[x][i] = v
        BY <1>1, InElements
    <2> QED
        BY <1>7, <2>1
<1> QED
    BY <1>5, <1>6, <1>8

\* A new element goes to the end of a sequence.
Added(D, S, F, G, e, new) ==
    /\ F \in [D -> Seq(S)] /\ G \in [D -> Seq(S)] /\ e \in D /\ new \in S
    /\ G[e] = Append(F[e], new)
    /\ \A x \in D : x # e => G[x] = F[x]

LEMMA AddNew ==
    ASSUME NEW D, NEW S, NEW F, NEW G, NEW e, NEW new, Added(D, S, F, G, e, new),
           Apart(F), new \notin ElementsOf(F)
    PROVE  Apart(G) /\ ElementsOf(G) = ElementsOf(F) \cup {new}
<1> USE DEF Added
<1> DEFINE n == Len(F[e]) + 1
<1>1. /\ DOMAIN F = D /\ DOMAIN G = D
      /\ \A x \in D : F[x] \in Seq(S) /\ G[x] \in Seq(S) /\ Len(F[x]) \in Nat /\ Len(G[x]) \in Nat
    BY LenProperties
<1>2. /\ Len(G[e]) = n /\ G[e][n] = new
      /\ \A i \in 1 .. n - 1 : G[e][i] = F[e][i]
    BY <1>1, AppendProperties
<1>3. \A x \in D : \A i \in 1 .. Len(F[x]) : F[x][i] # new /\ F[x][i] \in ElementsOf(F)
    BY <1>1 DEF ElementsOf
<1>4. ASSUME NEW x \in D, NEW i \in 1 .. Len(G[x])
      PROVE  \/ x = e /\ i = n /\ G[x][i] = new
             \/ i \in 1 .. Len(F[x]) /\ G[x][i] = F[x][i]
    <2>1. CASE x = e
        <3>1. Len(F[e]) \in Nat /\ i \in 1 .. n
            BY <1>1, <1>2, <2>1
        <3>2. i = n \/ i \in 1 .. n - 1
            BY <3>1
        <3>3. n - 1 = Len(F[e])
            BY <3>1
        <3> QED
            BY <1>2, <2>1, <3>2, <3>3
    <2>2. CASE x # e
        BY <2>2
    <2> QED
        BY <2>1, <2>2
<1>5. Apart(G)
    <2> SUFFICES ASSUME NEW x \in D, NEW y \in D, NEW i \in 1 .. Len(G[x]),
                        NEW j \in 1 .. Len(G[y]), G[x][i] = G[y][j]
                 PROVE  x = y /\ i = j
        BY <1>1 DEF Apart
    <2>1. CASE i \in 1 .. Len(F[x]) /\ G[x][i] = F[x][i] /\ j \in 1 .. Len(F[y]) /\ G[y][j] = F[y][j]
        <3>1. \A p, q \in D : \A k \in 1 .. Len(F[p]), m \in 1 .. Len(F[q]) :
                  F[p][k] = F[q][m] => p = q /\ k = m
            BY <1>1 DEF Apart
        <3>2. F[x][i] = F[y][j]
            BY <2>1
        <3> QED
            BY <2>1, <3>1, <3>2
    <2>2. CASE x = e /\ i = n /\ G[x][i] = new
        BY <1>3, <1>4, <2>2
    <2>3. CASE y = e /\ j = n /\ G[y][j] = new
        BY <1>3, <1>4, <2>3
    <2> QED
        BY <1>4, <2>1, <2>2, <2>3
<1>6. ElementsOf(G) \subseteq ElementsOf(F) \cup {new}
    <2> SUFFICES ASSUME NEW v \in ElementsOf(G) PROVE v \in ElementsOf(F) \cup {new}
        OBVIOUS
    <2>1. PICK x \in D : \E i \in 1 .. Len(G[x]) : G[x][i] = v
        BY <1>1, InElements
    <2> QED
        BY <1>3, <1>4, <2>1
<1>7. \A x \in D : \A j \in 1 .. Len(G[x]) : G[x][j] \in ElementsOf(G)
    BY <1>1 DEF ElementsOf
<1>8. new \in ElementsOf(G)
    BY <1>1, <1>2, <1>7
<1>9. ASSUME NEW x \in D, NEW i \in 1 .. Len(F[x]) PROVE F[x][i] \in ElementsOf(G)
    <2>1. i \in 1 .. Len(G[x]) /\ G[x][i] = F[x][i]
        <3>1. CASE x = e
            <4>1. Len(F[e]) \in Nat
                BY <1>1
            <4> QED
                BY <1>2, <3>1, <4>1
        <3>2. CASE x # e
            BY <3>2
        <3> QED
            BY <3>1, <3>2
    <2> QED
        BY <1>7, <2>1
<1>10. ElementsOf(F) \subseteq ElementsOf(G)
    BY <1>1, <1>9, InElements
<1> QED
    BY <1>5, <1>6, <1>8, <1>10

\* The front of a sequence is taken away.
HeadDropped(D, S, F, G, d) ==
    /\ F \in [D -> Seq(S)] /\ G \in [D -> Seq(S)] /\ d \in D /\ F[d] # << >>
    /\ G[d] = Tail(F[d])
    /\ \A x \in D : x # d => G[x] = F[x]

LEMMA DropHead ==
    ASSUME NEW D, NEW S, NEW F, NEW G, NEW d, HeadDropped(D, S, F, G, d), Apart(F)
    PROVE  Apart(G) /\ ElementsOf(G) = ElementsOf(F) \ {Head(F[d])}
<1> USE DEF HeadDropped
<1> DEFINE RankOf(x, i) == IF x = d THEN i + 1 ELSE i
<1>1. /\ DOMAIN F = D /\ DOMAIN G = D
      /\ \A x \in D : F[x] \in Seq(S) /\ G[x] \in Seq(S) /\ Len(F[x]) \in Nat /\ Len(G[x]) \in Nat
    BY LenProperties
<1>2. /\ Head(F[d]) = F[d][1] /\ Len(F[d]) \in Nat \ {0} /\ Len(G[d]) = Len(F[d]) - 1
      /\ \A i \in 1 .. Len(F[d]) - 1 : G[d][i] = F[d][i + 1]
    BY <1>1, TailShifts
<1>3. ASSUME NEW x \in D, NEW i \in 1 .. Len(G[x])
      PROVE  RankOf(x, i) \in 1 .. Len(F[x]) /\ G[x][i] = F[x][RankOf(x, i)]
    <2>1. CASE x = d
        <3>1. i \in 1 .. Len(F[d]) - 1 /\ G[x][i] = F[d][i + 1]
            BY <1>2, <2>1
        <3>2. i + 1 \in 1 .. Len(F[d])
            BY <1>2, <3>1
        <3> QED
            BY <2>1, <3>1, <3>2
    <2>2. CASE x # d
        BY <2>2
    <2> QED
        BY <2>1, <2>2
<1>4. Apart(G)
    <2> SUFFICES ASSUME NEW x \in D, NEW y \in D, NEW i \in 1 .. Len(G[x]),
                        NEW j \in 1 .. Len(G[y]), G[x][i] = G[y][j]
                 PROVE  x = y /\ i = j
        BY <1>1 DEF Apart
    <2>1. x = y /\ RankOf(x, i) = RankOf(y, j)
        <3> HIDE DEF RankOf
        <3> QED
            BY <1>1, <1>3 DEF Apart
    <2>2. i \in Nat /\ j \in Nat
        BY <1>1
    <2> QED
        BY <2>1, <2>2
<1>5. ElementsOf(G) \subseteq ElementsOf(F) \ {Head(F[d])}
    <2> SUFFICES ASSUME NEW x \in D, NEW i \in 1 .. Len(G[x])
                 PROVE  G[x][i] \in ElementsOf(F) /\ G[x][i] # F[d][1]
        BY <1>1, <1>2, InElements
    <2>1. G[x][i] \in ElementsOf(F)
        <3> HIDE DEF RankOf
        <3>1. RankOf(x, i) \in 1 .. Len(F[x]) /\ G[x][i] = F[x][RankOf(x, i)] /\ x \in DOMAIN F
            BY <1>1, <1>3
        <3> QED
            BY <3>1, InElements
    <2>2. x = d => RankOf(x, i) # 1
        BY <1>1
    <2>3. G[x][i] # F[d][1]
        <3> HIDE DEF RankOf
        <3>1. RankOf(x, i) \in 1 .. Len(F[x]) /\ G[x][i] = F[x][RankOf(x, i)] /\ 1 \in 1 .. Len(F[d])
            BY <1>2, <1>3
        <3> QED
            BY <1>1, <2>2, <3>1 DEF Apart
    <2> QED
        BY <2>1, <2>3
<1>6. ASSUME NEW x \in D, NEW i \in 1 .. Len(F[x]), F[x][i] # F[d][1]
      PROVE  F[x][i] \in ElementsOf(G)
    <2>1. \A y \in D : \A j \in 1 .. Len(G[y]) : G[y][j] \in ElementsOf(G)
        BY <1>1 DEF ElementsOf
    <2>2. CASE x = d
        <3>1. i # 1
            BY <1>6, <2>2
        <3>2. i - 1 \in 1 .. Len(G[d]) /\ G[d][i - 1] = F[d][i]
            BY <1>1, <1>2, <2>2, <3>1
        <3> QED
            BY <2>1, <2>2, <3>2
    <2>3. CASE x # d
        BY <1>1, <2>1, <2>3
    <2> QED
        BY <2>2, <2>3
<1>7. ElementsOf(F) \ {Head(F[d])} \subseteq ElementsOf(G)
    BY <1>1, <1>2, <1>6, InElements
<1> QED
    BY <1>4, <1>5, <1>7

-----------------------------------------------------------------------------
(* The inductive invariant                                                 *)

\* Places of an index or a value that are not the thread of a LRT.
Free == -1
Inbox == -2

Sends(l, stage, kind) == sending[l].stage = stage /\ sending[l].kind = kind

\* The indices of the job slots on their way to l, the next to be read first.
JobIndices(l) ==
    (IF fetching[l] = NoIndex THEN << >> ELSE <<fetching[l]>>) \o notified[l]
        \o (IF Sends(GRT, "notification", "job") /\ sending[GRT].to = l
            THEN <<sending[GRT].ix>> ELSE << >>)

JobPlaces == LRT \cup {Free}
JobsAt == [d \in JobPlaces |-> IF d = Free THEN freeIndex["job"] ELSE JobIndices(d)]

\* The indices of the parameter slots that the GRT is to read.
ParamIndices ==
    (IF fetchingParam = NoIndex THEN << >> ELSE <<fetchingParam>>) \o paramNotified

ParamPlaces == LRT \cup {Free, Inbox}
ParamsAt ==
    [d \in ParamPlaces |->
        IF d = Free THEN freeIndex["param"]
        ELSE IF d = Inbox THEN ParamIndices
        ELSE IF Sends(d, "notification", "param") THEN <<sending[d].ix>> ELSE << >>]

\* The tasks whose parameters are on their way.
ValuePlaces == LRT \cup {Inbox}
ValuesAt ==
    [d \in ValuePlaces |->
        IF d = Inbox
        THEN [i \in 1 .. Len(ParamIndices) |-> slots["param"][ParamIndices[i]]]
        ELSE IF Sends(d, "message", "param") THEN <<sending[d].message>>
        ELSE IF Sends(d, "notification", "param") THEN <<slots["param"][sending[d].ix]>>
        ELSE << >>]

Item == JobMessage \cup Task \cup {Moved}
Index == Nat \ {0}

SendState ==
    {Nothing} \cup [stage: {"message"}, kind: {"job"}, to: LRT, message: JobMessage]
        \cup [stage: {"message"}, kind: {"param"}, to: LRT, message: Task]
        \cup [stage: {"notification"}, kind: Kind, to: LRT, ix: Index]

DeliveryTypeOK ==
    /\ slots \in [Kind -> Seq(Item)]
    /\ freeIndex \in [Kind -> Seq(Index)]
    /\ notified \in [LRT -> Seq(Index)]
    /\ paramNotified \in Seq(Index)
    /\ sending \in [LRT -> SendState]
    /\ fetching \in [LRT -> Nat]
    /\ jobQueue \in [LRT -> Seq(JobMessage)]
    /\ jobsRun \in [LRT -> Nat]
    /\ fetchingParam \in Nat
    /\ received \subseteq Task
    /\ \A l \in LRT : l # GRT => ~ Sends(l, "message", "job") /\ ~ Sends(l, "notification", "job")
    /\ \A l \in LRT : jobsRun[l] <= Len(jobQueue[l])

\* Every index of F is that of a slot.
Bounded(F, n) == \A d \in DOMAIN F : \A i \in 1 .. Len(F[d]) : F[d][i] \in 1 .. n

\* A task is launched once.
LaunchedOnce ==
    /\ \A l \in LRT : \A i \in 1 .. Len(jobs[l]) : jobs[l][i].taskIx \in Sent
    /\ \A l, m \in LRT : \A i \in 1 .. Len(jobs[l]), j \in 1 .. Len(jobs[m]) :
          jobs[l][i].taskIx = jobs[m][j].taskIx => l = m /\ i = j

\* The GRT is about to push a message for l.
JobPushed(l) == Sends(GRT, "message", "job") /\ sending[GRT].to = l

\* What a LRT has received and what is on its way are the jobs sent to it.
JobsHeld(l) ==
    /\ Len(jobs[l]) = Len(jobQueue[l]) + Len(JobIndices(l)) + (IF JobPushed(l) THEN 1 ELSE 0)
    /\ \A i \in 1 .. Len(jobQueue[l]) : jobs[l][i] = jobQueue[l][i]
    /\ \A i \in 1 .. Len(JobIndices(l)) :
          jobs[l][Len(jobQueue[l]) + i] = slots["job"][JobIndices(l)[i]]
    /\ JobPushed(l) => jobs[l][Len(jobs[l])] = sending[GRT].message

\* Each slot of the queue of the jobs is free or on its way to one LRT.
JobSide ==
    /\ Apart(JobsAt)
    /\ Bounded(JobsAt, Len(slots["job"]))
    /\ \A l \in LRT : JobsHeld(l)

\* The configuration jobs that have run.
ConfigsRun ==
    {t \in Configs : \E l \in LRT : \E i \in 1 .. jobsRun[l] : jobQueue[l][i].taskIx = t}

\* Each slot of the queue of the parameters is free or on its way to the GRT, and
\* the parameters of each configuration job that has run are received or on their
\* way, not both.
ParamSide ==
    /\ Apart(ParamsAt)
    /\ Bounded(ParamsAt, Len(slots["param"]))
    /\ Apart(ValuesAt)
    /\ ConfigsRun = received \cup ElementsOf(ValuesAt)
    /\ received \cap ElementsOf(ValuesAt) = {}

DeliveryInv ==
    /\ MapInv
    /\ DeliveryTypeOK
    /\ LaunchedOnce
    /\ JobSide
    /\ ParamSide

-----------------------------------------------------------------------------
(* Types                                                                   *)

LEMMA SendFacts ==
    ASSUME NEW s \in SendState
    PROVE  /\ s.stage \in {"none", "message", "notification"}
           /\ s.stage = "none" <=> s = Nothing
           /\ s.stage = "message" =>
                 /\ s.kind \in Kind /\ s.to \in LRT /\ s.message \in Item
                 /\ s.kind = "job" => s.message \in JobMessage
                 /\ s.kind = "param" => s.message \in Task
           /\ s.stage = "notification" => s.kind \in Kind /\ s.to \in LRT /\ s.ix \in Index
BY DEF SendState, Nothing, Item, Kind

LEMMA PlaceNames == GRT \in LRT /\ Free \notin LRT /\ Inbox \notin LRT /\ Free # Inbox
BY MapperAssumption, LRTIsNat DEF GRT, Free, Inbox

\* A sequence of at most one element.
LEMMA AtMostOne ==
    ASSUME NEW S, NEW x \in S
    PROVE  << >> \in Seq(S) /\ <<x>> \in Seq(S) /\ Len(<<x>>) = 1 /\ <<x>>[1] = x
OBVIOUS

LEMMA JobIndicesType ==
    ASSUME DeliveryTypeOK, NEW l \in LRT
    PROVE  JobIndices(l) \in Seq(Index)
<1> DEFINE A == IF fetching[l] = NoIndex THEN << >> ELSE <<fetching[l]>>
           B == IF Sends(GRT, "notification", "job") /\ sending[GRT].to = l
                THEN <<sending[GRT].ix>> ELSE << >>
<1>1. A \in Seq(Index)
    <2>1. fetching[l] # NoIndex => fetching[l] \in Index
        BY DEF DeliveryTypeOK, NoIndex, Index
    <2> QED
        BY <2>1, AtMostOne, EmptySeq
<1>2. B \in Seq(Index)
    <2>1. Sends(GRT, "notification", "job") => sending[GRT].ix \in Index
        BY PlaceNames, SendFacts DEF DeliveryTypeOK, Sends
    <2> QED
        BY <2>1, AtMostOne, EmptySeq
<1>3. notified[l] \in Seq(Index)
    BY DEF DeliveryTypeOK
<1>4. JobIndices(l) = A \o notified[l] \o B
    BY DEF JobIndices
<1> HIDE DEF A, B
<1> QED
    BY <1>1, <1>2, <1>3, <1>4, ConcatProperties

LEMMA JobsAtType ==
    ASSUME DeliveryTypeOK
    PROVE  JobsAt \in [JobPlaces -> Seq(Index)]
<1>1. freeIndex["job"] \in Seq(Index)
    BY DEF DeliveryTypeOK, Kind
<1>2. \A l \in LRT : JobIndices(l) \in Seq(Index)
    BY JobIndicesType
<1> QED
    BY <1>1, <1>2 DEF JobsAt, JobPlaces

LEMMA ParamsAtType ==
    ASSUME DeliveryTypeOK
    PROVE  ParamIndices \in Seq(Index) /\ ParamsAt \in [ParamPlaces -> Seq(Index)]
<1> DEFINE A == IF fetchingParam = NoIndex THEN << >> ELSE <<fetchingParam>>
<1>1. A \in Seq(Index)
    <2>1. fetchingParam # NoIndex => fetchingParam \in Index
        BY DEF DeliveryTypeOK, NoIndex, Index
    <2> QED
        BY <2>1, AtMostOne, EmptySeq
<1>2. paramNotified \in Seq(Index) /\ ParamIndices = A \o paramNotified
    BY DEF DeliveryTypeOK, ParamIndices
<1> HIDE DEF A
<1>3. ParamIndices \in Seq(Index)
    BY <1>1, <1>2, ConcatProperties
<1>4. freeIndex["param"] \in Seq(Index)
    BY DEF DeliveryTypeOK, Kind
<1>5. ASSUME NEW l \in LRT
      PROVE  (IF Sends(l, "notification", "param") THEN <<sending[l].ix>> ELSE << >>) \in Seq(Index)
    <2>1. Sends(l, "notification", "param") => sending[l].ix \in Index
        BY SendFacts DEF DeliveryTypeOK, Sends
    <2> QED
        BY <2>1, AtMostOne, EmptySeq
<1> QED
    BY <1>3, <1>4, <1>5 DEF ParamsAt, ParamPlaces

LEMMA ValuesAtType ==
    ASSUME DeliveryTypeOK, Bounded(ParamsAt, Len(slots["param"]))
    PROVE  ValuesAt \in [ValuePlaces -> Seq(Item)]
<1>1. slots["param"] \in Seq(Item) /\ ParamIndices \in Seq(Index)
    BY ParamsAtType DEF DeliveryTypeOK, Kind
<1>2. \A i \in 1 .. Len(ParamIndices) : ParamIndices[i] \in 1 .. Len(slots["param"])
    BY ParamsAtType, PlaceNames DEF Bounded, ParamsAt, ParamPlaces
<1>3. [i \in 1 .. Len(ParamIndices) |-> slots["param"][ParamIndices[i]]] \in Seq(Item)
    BY <1>1, <1>2
<1>4. ASSUME NEW l \in LRT
      PROVE  (IF Sends(l, "message", "param") THEN <<sending[l].message>>
              ELSE IF Sends(l, "notification", "param") THEN <<slots["param"][sending[l].ix]>>
              ELSE << >>) \in Seq(Item)
    <2>1. CASE Sends(l, "message", "param")
        <3>1. sending[l].message \in Item
            BY <2>1, SendFacts DEF DeliveryTypeOK, Sends
        <3> QED
            BY <2>1, <3>1, AtMostOne
    <2>2. CASE Sends(l, "notification", "param")
        <3>1. ParamsAt[l] = <<sending[l].ix>>
            BY <2>2, PlaceNames DEF ParamsAt, ParamPlaces
        <3>2. sending[l].ix \in 1 .. Len(slots["param"])
            <4>1. l \in DOMAIN ParamsAt /\ 1 \in 1 .. Len(ParamsAt[l]) /\ ParamsAt[l][1] = sending[l].ix
                BY <3>1 DEF ParamsAt, ParamPlaces
            <4> QED
                BY <4>1 DEF Bounded
        <3>3. slots["param"][sending[l].ix] \in Item
            BY <1>1, <3>2
        <3>4. <<slots["param"][sending[l].ix]>> \in Seq(Item)
            BY <3>3, AtMostOne
        <3>5. ~ Sends(l, "message", "param")
            BY <2>2 DEF Sends
        <3> QED
            BY <2>2, <3>4, <3>5
    <2>3. CASE ~ Sends(l, "message", "param") /\ ~ Sends(l, "notification", "param")
        BY <2>3, EmptySeq
    <2> QED
        BY <2>1, <2>2, <2>3
<1> QED
    BY <1>3, <1>4 DEF ValuesAt, ValuePlaces

LEMMA PlacesTyped ==
    DeliveryTypeOK => /\ JobsAt \in [JobPlaces -> Seq(Index)]
                      /\ ParamsAt \in [ParamPlaces -> Seq(Index)]
                      /\ ParamIndices \in Seq(Index)
                      /\ \A l \in LRT : JobIndices(l) \in Seq(Index)
BY JobsAtType, ParamsAtType, JobIndicesType

LEMMA ValuesTyped ==
    DeliveryTypeOK /\ Bounded(ParamsAt, Len(slots["param"]))
        => ValuesAt \in [ValuePlaces -> Seq(Item)]
BY ValuesAtType

\* The same of the next state.
LEMMA PlacesTypedNext ==
    DeliveryTypeOK' => (/\ JobsAt \in [JobPlaces -> Seq(Index)]
                        /\ ParamsAt \in [ParamPlaces -> Seq(Index)]
                        /\ ParamIndices \in Seq(Index)
                        /\ \A l \in LRT : JobIndices(l) \in Seq(Index))'
BY PlacesTyped, PTL

LEMMA ValuesTypedNext ==
    (DeliveryTypeOK /\ Bounded(ParamsAt, Len(slots["param"])))'
        => (ValuesAt \in [ValuePlaces -> Seq(Item)])'
BY ValuesTyped, PTL

-----------------------------------------------------------------------------
(* The slots of a queue (IndexedQueue)                                     *)

\* A push fills one slot, free or new, and leaves the others as they are.
LEMMA PushedSlot ==
    ASSUME slots \in [Kind -> Seq(Item)], freeIndex \in [Kind -> Seq(Index)],
           NEW kind \in Kind, NEW m \in Item, PushSlot(kind, m),
           \A i \in 1 .. Len(freeIndex[kind]) : freeIndex[kind][i] \in 1 .. Len(slots[kind])
    PROVE  LET ix == PushedAt(kind)
           IN  /\ slots' \in [Kind -> Seq(Item)] /\ freeIndex' \in [Kind -> Seq(Index)]
               /\ ix \in Index /\ ix \in 1 .. Len(slots'[kind]) /\ slots'[kind][ix] = m
               /\ Len(slots[kind]) \in Nat /\ Len(slots'[kind]) \in Nat
               /\ Len(slots[kind]) <= Len(slots'[kind])
               /\ \A j \in 1 .. Len(slots[kind]) : j # ix => slots'[kind][j] = slots[kind][j]
               /\ \A k \in Kind : k # kind => slots'[k] = slots[k] /\ freeIndex'[k] = freeIndex[k]
               /\ \/ /\ freeIndex[kind] # << >> /\ ix = Head(freeIndex[kind])
                     /\ freeIndex'[kind] = Tail(freeIndex[kind])
                  \/ /\ ix = Len(slots[kind]) + 1
                     /\ freeIndex'[kind] = freeIndex[kind]
<1> DEFINE q == slots[kind]
           n == Len(q)
           free == freeIndex[kind]
<1>1. q \in Seq(Item) /\ n \in Nat /\ free \in Seq(Index)
    OBVIOUS
<1>2. CASE free = << >>
    <2>1. slots' = [slots EXCEPT ![kind] = Append(q, m)] /\ freeIndex' = freeIndex
        BY <1>2 DEF PushSlot
    <2>2. PushedAt(kind) = n + 1
        BY <1>2 DEF PushedAt
    <2>3. slots'[kind] = Append(q, m) /\ \A k \in Kind : k # kind => slots'[k] = slots[k]
        BY <2>1
    <2>4. /\ Append(q, m) \in Seq(Item) /\ Len(Append(q, m)) = n + 1 /\ Append(q, m)[n + 1] = m
          /\ \A j \in 1 .. n : Append(q, m)[j] = q[j]
        BY <1>1, AppendProperties
    <2>5. slots' \in [Kind -> Seq(Item)]
        BY <2>1, <2>4
    <2> HIDE DEF q, n
    <2>6. n + 1 \in Index /\ n + 1 \in 1 .. n + 1 /\ n <= n + 1 /\ n + 1 \in Nat
        BY <1>1 DEF Index
    <2> QED
        BY <1>1, <2>1, <2>2, <2>3, <2>4, <2>5, <2>6 DEF q, n
<1>3. CASE free # << >>
    <2> DEFINE ix == Head(free)
    <2>1. /\ slots' = [slots EXCEPT ![kind] = [q EXCEPT ![ix] = m]]
          /\ freeIndex' = [freeIndex EXCEPT ![kind] = Tail(free)]
          /\ PushedAt(kind) = ix
        BY <1>3 DEF PushSlot, PushedAt
    <2>2. ix \in Index /\ Tail(free) \in Seq(Index) /\ ix = free[1] /\ 1 \in 1 .. Len(free)
        BY <1>1, <1>3, TailShifts
    <2>3. ix \in 1 .. n
        BY <2>2
    <2>4. /\ [q EXCEPT ![ix] = m] \in Seq(Item) /\ Len([q EXCEPT ![ix] = m]) = n
          /\ \A j \in 1 .. n : [q EXCEPT ![ix] = m][j] = IF j = ix THEN m ELSE q[j]
        BY <1>1, <2>3, ExceptSeq
    <2>5. slots'[kind] = [q EXCEPT ![ix] = m] /\ \A k \in Kind : k # kind => slots'[k] = slots[k]
        BY <2>1
    <2>6. /\ freeIndex'[kind] = Tail(free) /\ freeIndex' \in [Kind -> Seq(Index)]
          /\ \A k \in Kind : k # kind => freeIndex'[k] = freeIndex[k]
        BY <2>1, <2>2
    <2>7. slots' \in [Kind -> Seq(Item)]
        BY <2>1, <2>4
    <2> HIDE DEF q, n, ix
    <2> QED
        BY <1>1, <1>3, <2>1, <2>2, <2>3, <2>4, <2>5, <2>6, <2>7 DEF q, n, ix
<1> QED
    BY <1>2, <1>3

\* A pop empties one slot, whose index becomes the last of those that are free.
LEMMA PoppedSlot ==
    ASSUME slots \in [Kind -> Seq(Item)], freeIndex \in [Kind -> Seq(Index)],
           NEW kind \in Kind, NEW ix \in 1 .. Len(slots[kind]), PopSlot(kind, ix)
    PROVE  /\ slots' \in [Kind -> Seq(Item)] /\ freeIndex' \in [Kind -> Seq(Index)]
           /\ Len(slots'[kind]) = Len(slots[kind]) /\ Len(slots[kind]) \in Nat
           /\ \A j \in 1 .. Len(slots[kind]) : j # ix => slots'[kind][j] = slots[kind][j]
           /\ \A k \in Kind : k # kind => slots'[k] = slots[k] /\ freeIndex'[k] = freeIndex[k]
           /\ freeIndex'[kind] = Append(freeIndex[kind], ix)
<1> DEFINE q == slots[kind]
           free == freeIndex[kind]
<1>1. q \in Seq(Item) /\ Len(q) \in Nat /\ free \in Seq(Index) /\ ix \in Index /\ Moved \in Item
    BY DEF Index, Item
<1>2. /\ slots' = [slots EXCEPT ![kind] = [q EXCEPT ![ix] = Moved]]
      /\ freeIndex' = [freeIndex EXCEPT ![kind] = Append(free, ix)]
    BY DEF PopSlot
<1>3. /\ [q EXCEPT ![ix] = Moved] \in Seq(Item) /\ Len([q EXCEPT ![ix] = Moved]) = Len(q)
      /\ \A j \in 1 .. Len(q) : [q EXCEPT ![ix] = Moved][j] = IF j = ix THEN Moved ELSE q[j]
    BY <1>1, ExceptSeq
<1>4. Append(free, ix) \in Seq(Index)
    BY <1>1, AppendProperties
<1>5. slots'[kind] = [q EXCEPT ![ix] = Moved] /\ freeIndex'[kind] = Append(free, ix)
    BY <1>2
<1>6. \A k \in Kind : k # kind => slots'[k] = slots[k] /\ freeIndex'[k] = freeIndex[k]
    BY <1>2
<1>7. slots' \in [Kind -> Seq(Item)] /\ freeIndex' \in [Kind -> Seq(Index)]
    BY <1>2, <1>3, <1>4
<1> HIDE DEF q, free
<1> QED
    BY <1>1, <1>3, <1>5, <1>6, <1>7 DEF q, free

\* The index of the slot that a push fills goes to the end of a sequence: taken
\* from the front of the free ones, or new.
IndexTaken(D, F, G, n, n2, e, ix) ==
    /\ F \in [D -> Seq(Index)] /\ G \in [D -> Seq(Index)]
    /\ n \in Nat /\ n2 \in Nat /\ n <= n2
    /\ Free \in D /\ e \in D /\ e # Free /\ ix \in Index /\ ix \in 1 .. n2
    /\ G[e] = Append(F[e], ix)
    /\ \A x \in D : x # Free /\ x # e => G[x] = F[x]
    /\ \/ F[Free] # << >> /\ ix = Head(F[Free]) /\ G[Free] = Tail(F[Free])
       \/ ix = n + 1 /\ G[Free] = F[Free]

LEMMA TakeIndex ==
    ASSUME NEW D, NEW F, NEW G, NEW n, NEW n2, NEW e, NEW ix,
           IndexTaken(D, F, G, n, n2, e, ix), Apart(F), Bounded(F, n)
    PROVE  /\ Apart(G) /\ Bounded(G, n2)
           /\ \A x \in D : \A i \in 1 .. Len(F[x]) : x # Free => F[x][i] # ix
<1> USE DEF IndexTaken
<1>1. DOMAIN F = D /\ DOMAIN G = D
    OBVIOUS
<1>2. \A x \in ElementsOf(F) : x \in 1 .. n
    <2> SUFFICES ASSUME NEW x \in ElementsOf(F) PROVE x \in 1 .. n
        OBVIOUS
    <2>1. PICK d \in D : \E i \in 1 .. Len(F[d]) : F[d][i] = x
        BY <1>1, InElements
    <2> QED
        BY <1>1, <2>1 DEF Bounded
<1>3. Apart(G) /\ ElementsOf(G) \subseteq ElementsOf(F) \cup {ix}
    <2>1. CASE F[Free] # << >> /\ ix = Head(F[Free]) /\ G[Free] = Tail(F[Free])
        <3>1. HeadMoves(D, Index, F, G, Free, e)
            BY <2>1 DEF HeadMoves
        <3>2. Apart(G) /\ ElementsOf(G) = ElementsOf(F)
            BY <3>1, MoveHead
        <3> QED
            BY <3>2
    <2>2. CASE ix = n + 1 /\ G[Free] = F[Free]
        <3>1. ix \notin ElementsOf(F)
            BY <1>2, <2>2
        <3>2. Added(D, Index, F, G, e, ix)
            BY <2>2 DEF Added
        <3>3. Apart(G) /\ ElementsOf(G) = ElementsOf(F) \cup {ix}
            BY <3>1, <3>2, AddNew
        <3> QED
            BY <3>3
    <2> QED
        BY <2>1, <2>2
<1>4. Bounded(G, n2)
    <2> SUFFICES ASSUME NEW d \in D, NEW i \in 1 .. Len(G[d]) PROVE G[d][i] \in 1 .. n2
        BY <1>1 DEF Bounded
    <2>1. G[d][i] \in ElementsOf(G)
        BY <1>1, InElements
    <2>2. G[d][i] \in 1 .. n \/ G[d][i] = ix
        BY <1>2, <1>3, <2>1
    <2> QED
        BY <2>2
<1>5. ASSUME NEW x \in D, NEW i \in 1 .. Len(F[x]), x # Free PROVE F[x][i] # ix
    <2>1. CASE F[Free] # << >> /\ ix = Head(F[Free])
        <3>1. ix = F[Free][1] /\ 1 \in 1 .. Len(F[Free])
            BY <2>1, TailShifts
        <3>2. F[x][i] = F[Free][1] => x = Free
            BY <1>1, <3>1 DEF Apart
        <3> QED
            BY <1>5, <3>1, <3>2
    <2>2. CASE ix = n + 1
        BY <1>1, <2>2 DEF Bounded
    <2> QED
        BY <2>1, <2>2
<1> QED
    BY <1>3, <1>4, <1>5

-----------------------------------------------------------------------------
(* Sequences put together                                                  *)

LEMMA AddOne ==
    ASSUME NEW S, NEW s \in Seq(S), NEW x \in S
    PROVE  /\ s \o <<x>> = Append(s, x) /\ s \o << >> = s /\ << >> \o s = s
           /\ Append(s, x) \in Seq(S) /\ Len(Append(s, x)) = Len(s) + 1
           /\ Append(s, x)[Len(s) + 1] = x
           /\ \A i \in 1 .. Len(s) : Append(s, x)[i] = s[i]
<1>1. /\ <<x>> \in Seq(S) /\ Len(<<x>>) = 1 /\ <<x>>[1] = x /\ Len(s) \in Nat
    BY LenProperties
<1>2. /\ s \o <<x>> \in Seq(S) /\ Len(s \o <<x>>) = Len(s) + 1
      /\ \A i \in 1 .. Len(s) + 1 : (s \o <<x>>)[i] = IF i <= Len(s) THEN s[i] ELSE <<x>>[i - Len(s)]
    BY <1>1, ConcatProperties
<1>3. /\ Append(s, x) \in Seq(S) /\ Len(Append(s, x)) = Len(s) + 1
      /\ Append(s, x)[Len(s) + 1] = x /\ \A i \in 1 .. Len(s) : Append(s, x)[i] = s[i]
    BY AppendProperties
<1>4. \A i \in 1 .. Len(s) + 1 : (s \o <<x>>)[i] = Append(s, x)[i]
    <2> SUFFICES ASSUME NEW i \in 1 .. Len(s) + 1 PROVE (s \o <<x>>)[i] = Append(s, x)[i]
        OBVIOUS
    <2>1. CASE i = Len(s) + 1
        BY <1>1, <1>2, <1>3, <2>1
    <2>2. CASE i # Len(s) + 1
        BY <1>1, <1>2, <1>3, <2>2
    <2> QED
        BY <2>1, <2>2
<1>5. s \o <<x>> = Append(s, x)
    BY <1>2, <1>3, <1>4, SeqEqual
<1> QED
    BY <1>3, <1>5, ConcatEmptySeq

LEMMA TakeFirst ==
    ASSUME NEW S, NEW x \in S, NEW s \in Seq(S)
    PROVE  /\ <<x>> \o s \in Seq(S) /\ <<x>> \o s # << >>
           /\ Head(<<x>> \o s) = x /\ Tail(<<x>> \o s) = s
           /\ Len(<<x>> \o s) = Len(s) + 1
           /\ (<<x>> \o s)[1] = x
           /\ \A i \in 2 .. Len(s) + 1 : (<<x>> \o s)[i] = s[i - 1]
<1> DEFINE h == <<x>>
           r == h \o s
<1>1. h \in Seq(S) /\ Len(h) = 1 /\ h[1] = x /\ Len(s) \in Nat
    BY LenProperties
<1> HIDE DEF h
<1>2. /\ r \in Seq(S) /\ Len(r) = 1 + Len(s)
      /\ \A i \in 1 .. 1 + Len(s) : r[i] = IF i <= 1 THEN h[i] ELSE s[i - 1]
    <2>1. /\ h \o s \in Seq(S) /\ Len(h \o s) = Len(h) + Len(s)
          /\ \A i \in 1 .. Len(h) + Len(s) :
                (h \o s)[i] = IF i <= Len(h) THEN h[i] ELSE s[i - Len(h)]
        BY <1>1, ConcatProperties
    <2> QED
        BY <1>1, <2>1
<1> HIDE DEF r
<1>3. r # << >>
    BY <1>1, <1>2
<1>4. /\ Tail(r) \in Seq(S) /\ Head(r) = r[1] /\ Len(Tail(r)) = Len(r) - 1
      /\ \A i \in 1 .. Len(r) - 1 : Tail(r)[i] = r[i + 1]
    BY <1>2, <1>3, TailShifts
<1>5. Head(r) = x
    BY <1>1, <1>2, <1>4
<1>6. Len(Tail(r)) = Len(s)
    BY <1>1, <1>2, <1>4
<1>7. ASSUME NEW i \in 1 .. Len(s) PROVE Tail(r)[i] = s[i]
    <2>1. i + 1 \in 1 .. 1 + Len(s) /\ ~ (i + 1 <= 1) /\ (i + 1) - 1 = i /\ i \in 1 .. Len(r) - 1
        BY <1>1, <1>2
    <2>2. r[i + 1] = s[(i + 1) - 1]
        BY <1>2, <2>1
    <2> QED
        BY <1>4, <2>1, <2>2
<1>8. Tail(r) = s
    BY <1>4, <1>6, <1>7, SeqEqual
<1>9. r[1] = x /\ \A i \in 2 .. Len(s) + 1 : r[i] = s[i - 1]
    BY <1>1, <1>2 DEF h
<1> QED
    BY <1>1, <1>2, <1>3, <1>5, <1>8, <1>9 DEF r, h

LEMMA PutBack ==
    ASSUME NEW S, NEW s \in Seq(S), s # << >>
    PROVE  <<Head(s)>> \o Tail(s) = s
<1> DEFINE r == <<Head(s)>> \o Tail(s)
<1>1. /\ Tail(s) \in Seq(S) /\ Head(s) \in S /\ Head(s) = s[1]
      /\ Len(s) \in Nat \ {0} /\ Len(Tail(s)) = Len(s) - 1
      /\ \A i \in 1 .. Len(s) - 1 : Tail(s)[i] = s[i + 1]
    BY TailShifts
<1>2. /\ r \in Seq(S) /\ Len(r) = Len(s) /\ r[1] = s[1]
      /\ \A i \in 2 .. Len(s) : r[i] = Tail(s)[i - 1]
    BY <1>1, TakeFirst
<1> HIDE DEF r
<1>3. \A i \in 1 .. Len(s) : r[i] = s[i]
    BY <1>1, <1>2
<1> QED
    BY <1>2, <1>3, SeqEqual DEF r

-----------------------------------------------------------------------------
(* What a step leaves as it is                                             *)

LEMMA AllocatorKept ==
    ASSUME MapInv, LaunchedOnce, UNCHANGED allocatorVars
    PROVE  MapInv' /\ LaunchedOnce' /\ jobs' = jobs
<1>1. MapInv'
    BY NextKeepsMapInv DEF vars
<1>2. UNCHANGED <<jobs, round, toLaunch>>
    BY DEF allocatorVars
<1> QED
    BY <1>1, <1>2 DEF LaunchedOnce, Sent

\* The thread of a LRT is in the middle of the same push, if any, of that kind.
SameSends(l, kind) ==
    /\ \A stage \in {"message", "notification"} :
          Sends(l, stage, kind)' <=> Sends(l, stage, kind)
    /\ Sends(l, "message", kind) \/ Sends(l, "notification", kind) => sending'[l] = sending[l]

JobsUntouched ==
    /\ slots'["job"] = slots["job"] /\ freeIndex'["job"] = freeIndex["job"]
    /\ UNCHANGED <<notified, fetching, jobQueue, jobs>>
    /\ SameSends(GRT, "job")

\* The same indices are on their way to each LRT.
IndicesUntouched ==
    /\ slots'["job"] = slots["job"] /\ freeIndex'["job"] = freeIndex["job"]
    /\ UNCHANGED <<jobQueue, jobs>>
    /\ \A l \in LRT : /\ JobIndices(l)' = JobIndices(l)
                      /\ JobPushed(l)' <=> JobPushed(l)
                      /\ JobPushed(l) => sending'[GRT] = sending[GRT]

LEMMA IndicesFrame ==
    ASSUME JobSide, IndicesUntouched
    PROVE  JobSide'
<1>1. JobsAt' = JobsAt
    BY DEF JobsAt, JobPlaces, IndicesUntouched
<1>2. ASSUME NEW l \in LRT PROVE JobsHeld(l)'
    BY DEF JobsHeld, IndicesUntouched, JobSide
<1> QED
    BY <1>1, <1>2 DEF JobSide, IndicesUntouched, Apart, Bounded

LEMMA JobFrame ==
    ASSUME JobSide, JobsUntouched
    PROVE  JobSide'
<1>1. \A l \in LRT : JobIndices(l)' = JobIndices(l)
    BY DEF JobIndices, JobsUntouched, SameSends
<1>2. \A l \in LRT : /\ JobPushed(l)' <=> JobPushed(l)
                     /\ JobPushed(l) => sending'[GRT] = sending[GRT]
    BY DEF JobPushed, JobsUntouched, SameSends
<1>3. IndicesUntouched
    BY <1>1, <1>2 DEF IndicesUntouched, JobsUntouched
<1> QED
    BY <1>3, IndicesFrame

ParamsUntouched ==
    /\ slots'["param"] = slots["param"] /\ freeIndex'["param"] = freeIndex["param"]
    /\ UNCHANGED <<paramNotified, fetchingParam, received>>
    /\ \A l \in LRT : SameSends(l, "param")
    /\ ConfigsRun' = ConfigsRun

LEMMA ParamFrame ==
    ASSUME ParamSide, ParamsUntouched
    PROVE  ParamSide'
<1>1. ParamIndices' = ParamIndices
    BY DEF ParamIndices, ParamsUntouched
<1>2. ParamsAt' = ParamsAt
    BY <1>1, PlaceNames DEF ParamsAt, ParamPlaces, ParamsUntouched, SameSends
<1>3. ValuesAt' = ValuesAt
    BY <1>1, PlaceNames DEF ValuesAt, ValuePlaces, ParamsUntouched, SameSends
<1> QED
    BY <1>2, <1>3 DEF ParamSide, ParamsUntouched, Apart, Bounded, ElementsOf

-----------------------------------------------------------------------------
(* The steps of a push                                                     *)

LEMMA SlotsOf ==
    ASSUME DeliveryTypeOK, NEW kind \in Kind
    PROVE  slots[kind] \in Seq(Item) /\ Len(slots[kind]) \in Nat /\ freeIndex[kind] \in Seq(Index)
BY DEF DeliveryTypeOK

LEMMA FreeIndices ==
    ASSUME JobSide, ParamSide, NEW kind \in Kind
    PROVE  \A i \in 1 .. Len(freeIndex[kind]) : freeIndex[kind][i] \in 1 .. Len(slots[kind])
<1>1. CASE kind = "job"
    BY <1>1 DEF JobSide, Bounded, JobsAt, JobPlaces
<1>2. CASE kind = "param"
    BY <1>2, PlaceNames DEF ParamSide, Bounded, ParamsAt, ParamPlaces
<1> QED
    BY <1>1, <1>2 DEF Kind

\* The push of a message ends with the index of the slot it filled.
PushEffect(l, kind, ix) ==
    /\ ix = PushedAt(kind) /\ ix \in Index
    /\ PushSlot(kind, sending[l].message)
    /\ sending' = [sending EXCEPT ![l] = [stage |-> "notification", kind |-> kind,
                                          to |-> sending[l].to, ix |-> ix]]
    /\ sending'[l].stage = "notification" /\ sending'[l].kind = kind
    /\ sending'[l].to = sending[l].to /\ sending'[l].ix = ix
    /\ \A k \in LRT : k # l => sending'[k] = sending[k]
    /\ UNCHANGED <<allocatorVars, jobVars, paramVars>>

LEMMA PushStep ==
    ASSUME DeliveryTypeOK, JobSide, ParamSide, NEW l \in LRT, PushMessage(l)
    PROVE  /\ sending[l].stage = "message"
           /\ sending[l].kind \in Kind /\ sending[l].to \in LRT /\ sending[l].message \in Item
           /\ sending[l].kind = "job" => l = GRT /\ sending[l].message \in JobMessage
           /\ sending[l].kind = "param" => sending[l].message \in Task
           /\ PushEffect(l, sending[l].kind, PushedAt(sending[l].kind))
           /\ DeliveryTypeOK'
<1> DEFINE kind == sending[l].kind
           ix == PushedAt(kind)
<1>1. sending[l].stage = "message"
    BY DEF PushMessage
<1>2. /\ sending \in [LRT -> SendState]
      /\ slots \in [Kind -> Seq(Item)] /\ freeIndex \in [Kind -> Seq(Index)]
    BY DEF DeliveryTypeOK
<1>3. /\ kind \in Kind /\ sending[l].to \in LRT /\ sending[l].message \in Item
      /\ kind = "job" => sending[l].message \in JobMessage
      /\ kind = "param" => sending[l].message \in Task
    BY <1>1, <1>2, SendFacts
<1>4. kind = "job" => l = GRT
    BY <1>1 DEF DeliveryTypeOK, Sends
<1>5. /\ PushSlot(kind, sending[l].message)
      /\ sending' = [sending EXCEPT ![l] =
            [stage |-> "notification", kind |-> kind, to |-> sending[l].to, ix |-> ix]]
      /\ UNCHANGED <<allocatorVars, jobVars, paramVars>>
    BY <1>2 DEF PushMessage
<1> HIDE DEF kind
<1>6. /\ slots' \in [Kind -> Seq(Item)] /\ freeIndex' \in [Kind -> Seq(Index)] /\ ix \in Index
    BY <1>2, <1>3, <1>5, FreeIndices, PushedSlot
<1> HIDE DEF ix
<1>7. [stage |-> "notification", kind |-> kind, to |-> sending[l].to, ix |-> ix] \in SendState
    BY <1>3, <1>6 DEF SendState
<1>8. /\ sending'[l].stage = "notification" /\ sending'[l].kind = kind
      /\ sending'[l].to = sending[l].to /\ sending'[l].ix = ix
      /\ \A k \in LRT : k # l => sending'[k] = sending[k]
      /\ sending' \in [LRT -> SendState]
    BY <1>2, <1>5, <1>7
<1>9. \A k \in LRT : k # GRT => ~ Sends(k, "message", "job")' /\ ~ Sends(k, "notification", "job")'
    BY <1>4, <1>8 DEF DeliveryTypeOK, Sends
<1>10. DeliveryTypeOK'
    BY <1>5, <1>6, <1>8, <1>9 DEF DeliveryTypeOK, jobVars, paramVars
<1> QED
    BY <1>1, <1>3, <1>4, <1>5, <1>6, <1>8, <1>10 DEF PushEffect, kind, ix

\* A slot is filled for one reader, whose indices it ends.
PushedFor(kind, m, ix, n) ==
    /\ n = Len(slots[kind]) /\ n \in Nat
    /\ Len(slots'[kind]) \in Nat /\ n <= Len(slots'[kind])
    /\ ix \in Index /\ ix \in 1 .. Len(slots'[kind]) /\ slots'[kind][ix] = m
    /\ \A j \in 1 .. n : j # ix => slots'[kind][j] = slots[kind][j]
    /\ \A k \in Kind : k # kind => slots'[k] = slots[k] /\ freeIndex'[k] = freeIndex[k]
    /\ \/ /\ freeIndex[kind] # << >> /\ ix = Head(freeIndex[kind])
          /\ freeIndex'[kind] = Tail(freeIndex[kind])
       \/ ix = n + 1 /\ freeIndex'[kind] = freeIndex[kind]

LEMMA FilledSlot ==
    ASSUME DeliveryTypeOK, JobSide, ParamSide, NEW kind \in Kind, NEW m \in Item,
           PushSlot(kind, m)
    PROVE  PushedFor(kind, m, PushedAt(kind), Len(slots[kind]))
<1> DEFINE ix == PushedAt(kind)
<1>1. slots \in [Kind -> Seq(Item)] /\ freeIndex \in [Kind -> Seq(Index)]
    BY DEF DeliveryTypeOK
<1>2. \A i \in 1 .. Len(freeIndex[kind]) : freeIndex[kind][i] \in 1 .. Len(slots[kind])
    BY FreeIndices
<1>3. /\ ix \in Index /\ ix \in 1 .. Len(slots'[kind]) /\ slots'[kind][ix] = m
      /\ Len(slots[kind]) \in Nat /\ Len(slots'[kind]) \in Nat
      /\ Len(slots[kind]) <= Len(slots'[kind])
      /\ \A j \in 1 .. Len(slots[kind]) : j # ix => slots'[kind][j] = slots[kind][j]
      /\ \A k \in Kind : k # kind => slots'[k] = slots[k] /\ freeIndex'[k] = freeIndex[k]
      /\ \/ /\ freeIndex[kind] # << >> /\ ix = Head(freeIndex[kind])
            /\ freeIndex'[kind] = Tail(freeIndex[kind])
         \/ /\ ix = Len(slots[kind]) + 1
            /\ freeIndex'[kind] = freeIndex[kind]
    BY <1>1, <1>2, PushedSlot
<1> HIDE DEF ix
<1> QED
    BY <1>3 DEF PushedFor, ix

\* The job indices that a LRT is to read, those it has been notified of.
Notified(l) == (IF fetching[l] = NoIndex THEN << >> ELSE <<fetching[l]>>) \o notified[l]

LEMMA NotifiedType ==
    ASSUME DeliveryTypeOK, NEW l \in LRT
    PROVE  Notified(l) \in Seq(Index)
<1>1. fetching[l] # NoIndex => fetching[l] \in Index
    BY DEF DeliveryTypeOK, NoIndex, Index
<1>2. notified[l] \in Seq(Index)
    BY DEF DeliveryTypeOK
<1> QED
    BY <1>1, <1>2, TakeFirst, AddOne DEF Notified

LEMMA PushJobMessage ==
    ASSUME DeliveryInv, PushMessage(GRT), sending[GRT].kind = "job"
    PROVE  DeliveryInv'
<1>1. DeliveryTypeOK /\ LaunchedOnce /\ JobSide /\ ParamSide /\ MapInv
    BY DEF DeliveryInv
<1>2. PICK to, m, ix, n :
          /\ to \in LRT /\ m \in Item
          /\ sending[GRT].to = to /\ sending[GRT].message = m
          /\ sending[GRT].stage = "message"
          /\ PushEffect(GRT, "job", ix) /\ PushedFor("job", m, ix, n) /\ DeliveryTypeOK'
    <2>1. /\ sending[GRT].stage = "message" /\ sending[GRT].to \in LRT
          /\ sending[GRT].message \in Item
          /\ PushEffect(GRT, "job", PushedAt("job")) /\ DeliveryTypeOK'
        BY <1>1, PlaceNames, PushStep
    <2>2. PushSlot("job", sending[GRT].message)
        BY <2>1 DEF PushEffect
    <2>3. PushedFor("job", sending[GRT].message, PushedAt("job"), Len(slots["job"]))
        BY <1>1, <2>1, <2>2, FilledSlot DEF Kind
    <2> QED
        BY <2>1, <2>3
<1>3. /\ UNCHANGED <<fetching, notified, jobQueue, jobsRun>> /\ jobs' = jobs
      /\ Sends(GRT, "message", "job") /\ ~ Sends(GRT, "notification", "job")
      /\ ~ Sends(GRT, "message", "job")' /\ Sends(GRT, "notification", "job")'
      /\ sending'[GRT].to = to /\ sending'[GRT].ix = ix
    BY <1>2 DEF PushEffect, Sends, jobVars, allocatorVars
<1>4. JobIndices(to)' = Append(JobIndices(to), ix)
    <2>1. JobIndices(to) = Notified(to) \o << >>
        BY <1>3 DEF JobIndices, Notified
    <2>2. JobIndices(to)' = Notified(to) \o <<ix>>
        BY <1>2, <1>3 DEF JobIndices, Notified
    <2>3. Notified(to) \in Seq(Index) /\ ix \in Index
        BY <1>1, <1>2, NotifiedType DEF PushedFor
    <2> QED
        BY <2>1, <2>2, <2>3, AddOne
<1>5. \A l \in LRT : l # to => JobIndices(l)' = JobIndices(l)
    BY <1>2, <1>3 DEF JobIndices
<1>6. IndexTaken(JobPlaces, JobsAt, JobsAt', n, Len(slots'["job"]), to, ix)
    <2>1. JobsAt \in [JobPlaces -> Seq(Index)] /\ JobsAt' \in [JobPlaces -> Seq(Index)]
        BY <1>1, <1>2, PlacesTyped, PlacesTypedNext DEF JobPlaces
    <2>2. /\ JobsAt[Free] = freeIndex["job"] /\ JobsAt'[Free] = freeIndex'["job"]
          /\ \A l \in LRT : l \in JobPlaces /\ l # Free /\ JobsAt[l] = JobIndices(l)
                              /\ JobsAt'[l] = JobIndices(l)'
          /\ Free \in JobPlaces /\ \A d \in JobPlaces : d # Free => d \in LRT
        BY PlaceNames DEF JobsAt, JobPlaces
    <2>3. \A x \in JobPlaces : x # Free /\ x # to => JobsAt'[x] = JobsAt[x]
        BY <1>5, <2>2
    <2> QED
        BY <1>2, <1>4, <2>1, <2>2, <2>3 DEF IndexTaken, PushedFor
<1>7. /\ Apart(JobsAt') /\ Bounded(JobsAt', Len(slots'["job"]))
      /\ \A d \in JobPlaces : \A i \in 1 .. Len(JobsAt[d]) : d # Free => JobsAt[d][i] # ix
    <2>1. Apart(JobsAt) /\ Bounded(JobsAt, n)
        BY <1>1, <1>2 DEF JobSide, PushedFor
    <2> HIDE DEF JobsAt
    <2> QED
        BY <1>6, <2>1, TakeIndex
<1>8. \A l \in LRT : \A i \in 1 .. Len(JobIndices(l)) :
          slots'["job"][JobIndices(l)[i]] = slots["job"][JobIndices(l)[i]]
    <2> SUFFICES ASSUME NEW l \in LRT, NEW i \in 1 .. Len(JobIndices(l))
                 PROVE  slots'["job"][JobIndices(l)[i]] = slots["job"][JobIndices(l)[i]]
        OBVIOUS
    <2>1. l \in JobPlaces /\ l # Free /\ JobsAt[l] = JobIndices(l)
        BY PlaceNames DEF JobsAt, JobPlaces
    <2>2. JobIndices(l)[i] # ix /\ JobIndices(l)[i] \in 1 .. n
        BY <1>1, <1>2, <1>7, <2>1 DEF JobSide, Bounded, PushedFor, JobsAt
    <2> QED
        BY <1>2, <2>2 DEF PushedFor
<1>9. JobsHeld(to)'
    <2> DEFINE q == Len(jobQueue[to])
               k == Len(JobIndices(to))
    <2>1. /\ Len(jobs[to]) = q + k + 1 /\ jobs[to][Len(jobs[to])] = m
          /\ \A i \in 1 .. q : jobs[to][i] = jobQueue[to][i]
          /\ \A i \in 1 .. k : jobs[to][q + i] = slots["job"][JobIndices(to)[i]]
        BY <1>1, <1>2, <1>3 DEF JobSide, JobsHeld, JobPushed
    <2>2. /\ q \in Nat /\ k \in Nat /\ JobIndices(to) \in Seq(Index) /\ ix \in Index
        <3>1. JobIndices(to) \in Seq(Index) /\ jobQueue[to] \in Seq(JobMessage)
            BY <1>1, <1>2, PlacesTyped DEF DeliveryTypeOK
        <3> QED
            BY <1>2, <3>1, LenProperties DEF PushedFor
    <2>3. /\ Len(Append(JobIndices(to), ix)) = k + 1
          /\ Append(JobIndices(to), ix)[k + 1] = ix
          /\ \A i \in 1 .. k : Append(JobIndices(to), ix)[i] = JobIndices(to)[i]
        BY <2>2, AppendProperties
    <2> HIDE DEF q, k
    <2>4. slots'["job"][ix] = m
        BY <1>2 DEF PushedFor
    <2>5. ASSUME NEW i \in 1 .. k + 1
          PROVE  jobs[to][q + i] = slots'["job"][Append(JobIndices(to), ix)[i]]
        <3>1. CASE i = k + 1
            <4>1. q + i = Len(jobs[to])
                BY <2>1, <2>2, <3>1
            <4> QED
                BY <2>1, <2>3, <2>4, <3>1, <4>1
        <3>2. CASE i # k + 1
            <4>1. i \in 1 .. k
                BY <2>2, <3>2
            <4> QED
                BY <1>2, <1>8, <2>1, <2>3, <4>1 DEF k
        <3> QED
            BY <3>1, <3>2
    <2>6. ~ JobPushed(to)'
        BY <1>3 DEF JobPushed
    <2>7. /\ Len(JobIndices(to)') = k + 1
          /\ \A i \in 1 .. k + 1 :
                jobs'[to][Len(jobQueue'[to]) + i] = slots'["job"][JobIndices(to)'[i]]
        BY <1>3, <1>4, <2>3, <2>5 DEF q
    <2>8. Len(jobs'[to]) = Len(jobQueue'[to]) + Len(JobIndices(to)') + 0
        <3>1. Len(jobQueue'[to]) = q /\ Len(jobs'[to]) = q + k + 1
            BY <1>3, <2>1 DEF q
        <3> QED
            BY <2>2, <2>7, <3>1
    <2>9. \A i \in 1 .. Len(jobQueue'[to]) : jobs'[to][i] = jobQueue'[to][i]
        BY <1>3, <2>1 DEF q
    <2> QED
        BY <2>6, <2>7, <2>8, <2>9 DEF JobsHeld
<1>10. ASSUME NEW l \in LRT, l # to PROVE JobsHeld(l)'
    <2>1. JobsHeld(l) /\ ~ JobPushed(l) /\ ~ JobPushed(l)'
        BY <1>1, <1>2, <1>3, <1>10 DEF JobSide, JobPushed
    <2>2. JobIndices(l)' = JobIndices(l)
        BY <1>5, <1>10
    <2> QED
        BY <1>3, <1>8, <2>1, <2>2 DEF JobsHeld
<1>11. ParamSide'
    <2>1. ConfigsRun' = ConfigsRun
        BY <1>3 DEF ConfigsRun
    <2>2. \A l \in LRT : SameSends(l, "param")
        BY <1>2, <1>3 DEF PushEffect, SameSends, Sends
    <2>3. ParamsUntouched
        BY <1>2, <2>1, <2>2 DEF ParamsUntouched, PushedFor, PushEffect, paramVars, Kind
    <2> QED
        BY <1>1, <2>3, ParamFrame
<1>12. MapInv' /\ LaunchedOnce'
    BY <1>1, <1>2, AllocatorKept DEF PushEffect
<1>13. JobSide'
    BY <1>7, <1>9, <1>10 DEF JobSide, Apart, Bounded
<1> QED
    BY <1>2, <1>11, <1>12, <1>13 DEF DeliveryInv

LEMMA PushParamMessage ==
    ASSUME DeliveryInv, NEW l \in LRT, PushMessage(l), sending[l].kind = "param"
    PROVE  DeliveryInv'
<1>1. DeliveryTypeOK /\ LaunchedOnce /\ JobSide /\ ParamSide /\ MapInv
    BY DEF DeliveryInv
<1>2. PICK m, ix, n :
          /\ m \in Item
          /\ sending[l].message = m /\ sending[l].stage = "message"
          /\ PushEffect(l, "param", ix) /\ PushedFor("param", m, ix, n) /\ DeliveryTypeOK'
    <2>1. /\ sending[l].stage = "message" /\ sending[l].message \in Item
          /\ PushEffect(l, "param", PushedAt("param")) /\ DeliveryTypeOK'
        BY <1>1, PushStep
    <2>2. PushSlot("param", sending[l].message)
        BY <2>1 DEF PushEffect
    <2>3. PushedFor("param", sending[l].message, PushedAt("param"), Len(slots["param"]))
        BY <1>1, <2>1, <2>2, FilledSlot DEF Kind
    <2> QED
        BY <2>1, <2>3
<1>3. /\ UNCHANGED <<paramNotified, fetchingParam, received>>
      /\ Sends(l, "message", "param") /\ ~ Sends(l, "notification", "param")
      /\ ~ Sends(l, "message", "param")' /\ Sends(l, "notification", "param")'
      /\ sending'[l].ix = ix
      /\ \A k \in LRT : k # l => sending'[k] = sending[k]
    BY <1>2 DEF PushEffect, Sends, paramVars
<1>4. ParamIndices' = ParamIndices
    BY <1>3 DEF ParamIndices
<1>5. IndexTaken(ParamPlaces, ParamsAt, ParamsAt', n, Len(slots'["param"]), l, ix)
    <2>1. ParamsAt \in [ParamPlaces -> Seq(Index)] /\ ParamsAt' \in [ParamPlaces -> Seq(Index)]
        BY <1>1, <1>2, PlacesTyped, PlacesTypedNext DEF ParamPlaces
    <2>2. /\ Free \in ParamPlaces /\ l \in ParamPlaces /\ l # Free
          /\ ParamsAt[Free] = freeIndex["param"] /\ ParamsAt'[Free] = freeIndex'["param"]
          /\ ParamsAt[l] = << >> /\ ParamsAt'[l] = <<ix>>
        BY <1>3, PlaceNames DEF ParamsAt, ParamPlaces
    <2>3. \A x \in ParamPlaces : x # Free /\ x # l => ParamsAt'[x] = ParamsAt[x]
        BY <1>3, <1>4, PlaceNames DEF ParamsAt, ParamPlaces, Sends
    <2>4. <<ix>> = Append(<< >>, ix)
        OBVIOUS
    <2> QED
        BY <1>2, <2>1, <2>2, <2>3, <2>4 DEF IndexTaken, PushedFor
<1>6. /\ Apart(ParamsAt') /\ Bounded(ParamsAt', Len(slots'["param"]))
      /\ \A d \in ParamPlaces : \A i \in 1 .. Len(ParamsAt[d]) : d # Free => ParamsAt[d][i] # ix
    <2>1. Apart(ParamsAt) /\ Bounded(ParamsAt, n)
        BY <1>1, <1>2 DEF ParamSide, PushedFor
    <2> HIDE DEF ParamsAt
    <2> QED
        BY <1>5, <2>1, TakeIndex
<1>7. \A d \in ParamPlaces : \A i \in 1 .. Len(ParamsAt[d]) :
          d # Free => slots'["param"][ParamsAt[d][i]] = slots["param"][ParamsAt[d][i]]
    <2> SUFFICES ASSUME NEW d \in ParamPlaces, NEW i \in 1 .. Len(ParamsAt[d]), d # Free
                 PROVE  slots'["param"][ParamsAt[d][i]] = slots["param"][ParamsAt[d][i]]
        OBVIOUS
    <2>1. d \in DOMAIN ParamsAt
        BY <1>1, PlacesTyped
    <2>2. ParamsAt[d][i] # ix /\ ParamsAt[d][i] \in 1 .. n
        BY <1>1, <1>2, <1>6, <2>1 DEF ParamSide, Bounded, PushedFor
    <2> QED
        BY <1>2, <2>2 DEF PushedFor
<1>8. ValuesAt' = ValuesAt
    <2>1. \A i \in 1 .. Len(ParamIndices) :
              slots'["param"][ParamIndices[i]] = slots["param"][ParamIndices[i]]
        <3>1. Inbox \in ParamPlaces /\ Inbox # Free /\ ParamsAt[Inbox] = ParamIndices
            BY PlaceNames DEF ParamsAt, ParamPlaces
        <3> QED
            BY <1>7, <3>1
    <2>2. ASSUME NEW k \in LRT, Sends(k, "notification", "param")
          PROVE  slots'["param"][sending[k].ix] = slots["param"][sending[k].ix]
        <3>1. /\ k \in ParamPlaces /\ k # Free /\ 1 \in 1 .. Len(ParamsAt[k])
              /\ ParamsAt[k][1] = sending[k].ix
            BY <2>2, PlaceNames DEF ParamsAt, ParamPlaces
        <3> QED
            BY <1>7, <3>1
    <2>3. slots'["param"][ix] = m
        BY <1>2 DEF PushedFor
    <2>4. ASSUME NEW k \in LRT
          PROVE  (IF Sends(k, "message", "param") THEN <<sending[k].message>>
                  ELSE IF Sends(k, "notification", "param") THEN <<slots["param"][sending[k].ix]>>
                  ELSE << >>)'
                 = IF Sends(k, "message", "param") THEN <<sending[k].message>>
                   ELSE IF Sends(k, "notification", "param") THEN <<slots["param"][sending[k].ix]>>
                   ELSE << >>
        <3>1. CASE k = l
            BY <1>2, <1>3, <2>3, <3>1
        <3>2. CASE k # l
            BY <1>3, <2>2, <3>2 DEF Sends
        <3> QED
            BY <3>1, <3>2
    <2>5. [i \in 1 .. Len(ParamIndices') |-> slots'["param"][ParamIndices'[i]]]
              = [i \in 1 .. Len(ParamIndices) |-> slots["param"][ParamIndices[i]]]
        BY <1>4, <2>1
    <2> QED
        BY <2>4, <2>5, PlaceNames DEF ValuesAt, ValuePlaces
<1>9. JobSide'
    <2>1. SameSends(GRT, "job")
        BY <1>2, <1>3, PlaceNames DEF PushEffect, SameSends, Sends
    <2>2. JobsUntouched
        BY <1>2, <2>1 DEF JobsUntouched, PushedFor, PushEffect, jobVars, allocatorVars, Kind
    <2> QED
        BY <1>1, <2>2, JobFrame
<1>10. ConfigsRun' = ConfigsRun
    BY <1>2 DEF ConfigsRun, PushEffect, jobVars
<1>11. MapInv' /\ LaunchedOnce'
    BY <1>1, <1>2, AllocatorKept DEF PushEffect
<1>12. ParamSide'
    BY <1>1, <1>3, <1>6, <1>8, <1>10 DEF ParamSide, Apart, Bounded, ElementsOf
<1> QED
    BY <1>2, <1>9, <1>11, <1>12 DEF DeliveryInv

\* The notification tells the reader, which has nothing else of that thread.
NotificationEffect(l) ==
    /\ Sends(l, "notification", "job") \/ Sends(l, "notification", "param")
    /\ ~ Sends(l, "message", "job") /\ ~ Sends(l, "message", "param")
    /\ \A stage \in {"message", "notification"} : \A kind \in Kind : ~ Sends(l, stage, kind)'
    /\ \A k \in LRT : k # l => sending'[k] = sending[k]
    /\ UNCHANGED <<allocatorVars, queueVars, fetching, jobQueue, jobsRun, fetchingParam, received>>

LEMMA NotificationStep ==
    ASSUME DeliveryTypeOK, NEW l \in LRT, PushNotification(l)
    PROVE  /\ NotificationEffect(l)
           /\ sending[l].to \in LRT /\ sending[l].ix \in Index
           /\ DeliveryTypeOK'
<1>1. /\ sending[l].stage = "notification" /\ sending \in [LRT -> SendState]
      /\ sending' = [sending EXCEPT ![l] = Nothing]
    BY DEF PushNotification, DeliveryTypeOK
<1>2. sending[l].kind \in Kind /\ sending[l].to \in LRT /\ sending[l].ix \in Index
    BY <1>1, SendFacts
<1>3. /\ sending'[l] = Nothing /\ sending' \in [LRT -> SendState]
      /\ \A k \in LRT : k # l => sending'[k] = sending[k]
    BY <1>1 DEF SendState
<1>4. NotificationEffect(l)
    BY <1>1, <1>2, <1>3 DEF NotificationEffect, PushNotification, Sends, Nothing, Kind
<1>5. notified' \in [LRT -> Seq(Index)] /\ paramNotified' \in Seq(Index)
    <2>1. notified \in [LRT -> Seq(Index)] /\ paramNotified \in Seq(Index)
        BY DEF DeliveryTypeOK
    <2>2. \A k \in LRT : Append(notified[k], sending[l].ix) \in Seq(Index)
        BY <1>2, <2>1, AppendProperties
    <2>3. Append(paramNotified, sending[l].ix) \in Seq(Index)
        BY <1>2, <2>1, AppendProperties
    <2>4. CASE sending[l].kind = "job"
        BY <1>2, <2>1, <2>2, <2>4 DEF PushNotification
    <2>5. CASE sending[l].kind # "job"
        BY <1>2, <2>1, <2>3, <2>5 DEF PushNotification
    <2> QED
        BY <2>4, <2>5
<1>6. \A k \in LRT : k # GRT => ~ Sends(k, "message", "job")' /\ ~ Sends(k, "notification", "job")'
    <2> SUFFICES ASSUME NEW k \in LRT, k # GRT
                 PROVE  ~ Sends(k, "message", "job")' /\ ~ Sends(k, "notification", "job")'
        OBVIOUS
    <2>1. CASE k = l
        BY <1>3, <2>1 DEF Sends, Nothing
    <2>2. CASE k # l
        BY <1>3, <2>2 DEF Sends, DeliveryTypeOK
    <2> QED
        BY <2>1, <2>2
<1>7. DeliveryTypeOK'
    BY <1>3, <1>4, <1>5, <1>6 DEF DeliveryTypeOK, NotificationEffect, queueVars
<1> QED
    BY <1>2, <1>4, <1>7

LEMMA NotifyJob ==
    ASSUME DeliveryInv, PushNotification(GRT), sending[GRT].kind = "job"
    PROVE  DeliveryInv'
<1>1. DeliveryTypeOK /\ LaunchedOnce /\ JobSide /\ ParamSide /\ MapInv
    BY DEF DeliveryInv
<1>2. PICK to \in LRT, ix \in Index :
          /\ sending[GRT].to = to /\ sending[GRT].ix = ix /\ sending[GRT].stage = "notification"
          /\ NotificationEffect(GRT) /\ DeliveryTypeOK'
    BY <1>1, PlaceNames, NotificationStep DEF PushNotification
<1>3. /\ notified \in [LRT -> Seq(Index)]
      /\ notified' = [notified EXCEPT ![to] = Append(@, ix)] /\ UNCHANGED paramNotified
    BY <1>1, <1>2 DEF PushNotification, DeliveryTypeOK
<1>4. /\ notified'[to] = notified[to] \o <<ix>> /\ notified[to] \in Seq(Index)
      /\ \A l \in LRT : l # to => notified'[l] = notified[l]
    <2>1. notified[to] \o <<ix>> = Append(notified[to], ix)
        BY <1>3, AddOne
    <2> QED
        BY <1>3, <2>1
<1>5. /\ UNCHANGED <<fetching, jobQueue, jobsRun, fetchingParam, received>>
      /\ jobs' = jobs /\ slots' = slots /\ freeIndex' = freeIndex
      /\ ~ Sends(GRT, "notification", "job")' /\ ~ Sends(GRT, "message", "job")'
      /\ Sends(GRT, "notification", "job") /\ ~ Sends(GRT, "message", "job")
    BY <1>2 DEF NotificationEffect, queueVars, allocatorVars, Kind, Sends
<1>6. JobIndices(to)' = JobIndices(to)
    <2> DEFINE first == IF fetching[to] = NoIndex THEN << >> ELSE <<fetching[to]>>
               last == <<ix>>
               told == notified[to]
    <2>1. JobIndices(to) = (first \o told) \o last
        BY <1>2, <1>5 DEF JobIndices
    <2>2. JobIndices(to)' = (first \o (told \o last)) \o << >>
        BY <1>4, <1>5 DEF JobIndices
    <2>3. first \in Seq(Index) /\ last \in Seq(Index) /\ told \in Seq(Index)
        <3>1. fetching[to] # NoIndex => fetching[to] \in Index
            BY <1>1 DEF DeliveryTypeOK, NoIndex, Index
        <3> QED
            BY <1>4, <3>1, AtMostOne, EmptySeq
    <2> HIDE DEF first, last, told
    <2>4. (first \o told) \o last = first \o (told \o last)
        BY <2>3, ConcatAssociative
    <2>5. told \o last \in Seq(Index)
        BY <2>3, ConcatProperties
    <2>6. first \o (told \o last) \in Seq(Index)
        BY <2>3, <2>5, ConcatProperties
    <2>7. (first \o (told \o last)) \o << >> = first \o (told \o last)
        BY <2>6, ConcatEmptySeq
    <2> QED
        BY <2>1, <2>2, <2>4, <2>7
<1>7. \A l \in LRT : l # to => JobIndices(l)' = JobIndices(l)
    BY <1>2, <1>4, <1>5 DEF JobIndices
<1>8. JobSide'
    <2>1. IndicesUntouched
        BY <1>5, <1>6, <1>7 DEF IndicesUntouched, JobPushed
    <2> QED
        BY <1>1, <2>1, IndicesFrame
<1>9. ParamSide'
    <2>1. ConfigsRun' = ConfigsRun
        BY <1>5 DEF ConfigsRun
    <2>2. \A l \in LRT : SameSends(l, "param")
        BY <1>2, <1>5 DEF NotificationEffect, SameSends, Sends, Kind
    <2>3. ParamsUntouched
        BY <1>3, <1>5, <2>1, <2>2 DEF ParamsUntouched
    <2> QED
        BY <1>1, <2>3, ParamFrame
<1>10. MapInv' /\ LaunchedOnce'
    BY <1>1, <1>2, AllocatorKept DEF NotificationEffect
<1> QED
    BY <1>2, <1>8, <1>9, <1>10 DEF DeliveryInv

\* What the slots of a sequence of indices hold.
Through(f, s) == [i \in 1 .. Len(s) |-> f[s[i]]]

LEMMA ThroughAppend ==
    ASSUME NEW f, NEW S, NEW T, NEW s \in Seq(S), NEW x \in S,
           Through(f, s) \in Seq(T), f[x] \in T
    PROVE  Through(f, Append(s, x)) = Append(Through(f, s), f[x])
<1> DEFINE r == Through(f, s)
           a == Append(s, x)
           b == Append(r, f[x])
<1>1. Len(s) \in Nat /\ Len(r) = Len(s) /\ \A i \in 1 .. Len(s) : r[i] = f[s[i]]
    BY DEF Through
<1>2. /\ a \in Seq(S) /\ Len(a) = Len(s) + 1 /\ a[Len(s) + 1] = x
      /\ \A i \in 1 .. Len(s) : a[i] = s[i]
    BY AddOne
<1>3. /\ b \in Seq(T) /\ Len(b) = Len(s) + 1 /\ b[Len(s) + 1] = f[x]
      /\ \A i \in 1 .. Len(s) : b[i] = r[i]
    BY <1>1, AddOne
<1> HIDE DEF a, b, r
<1>4. \A i \in 1 .. Len(s) + 1 : b[i] = f[a[i]]
    BY <1>1, <1>2, <1>3
<1>5. b = [i \in 1 .. Len(s) + 1 |-> b[i]]
    <2>1. DOMAIN b = 1 .. Len(s) + 1 /\ b \in [1 .. Len(b) -> T]
        BY <1>3, LenProperties
    <2> QED
        BY <2>1
<1>6. Through(f, a) = [i \in 1 .. Len(s) + 1 |-> f[a[i]]]
    BY <1>2 DEF Through
<1> QED
    BY <1>4, <1>5, <1>6 DEF a, b, r

LEMMA ThroughTail ==
    ASSUME NEW f, NEW S, NEW T, NEW s \in Seq(S), s # << >>, Through(f, s) \in Seq(T)
    PROVE  /\ Through(f, s) # << >> /\ Head(Through(f, s)) = f[Head(s)]
           /\ Through(f, Tail(s)) = Tail(Through(f, s))
<1> DEFINE r == Through(f, s)
           a == Tail(s)
           b == Tail(r)
<1>1. Len(s) \in Nat \ {0} /\ Len(r) = Len(s) /\ \A i \in 1 .. Len(s) : r[i] = f[s[i]]
    BY TailShifts DEF Through
<1>2. /\ a \in Seq(S) /\ Len(a) = Len(s) - 1 /\ Head(s) = s[1]
      /\ \A i \in 1 .. Len(s) - 1 : a[i] = s[i + 1]
    BY TailShifts
<1>3. r # << >>
    BY <1>1
<1>4. /\ b \in Seq(T) /\ Len(b) = Len(s) - 1 /\ Head(r) = r[1]
      /\ \A i \in 1 .. Len(s) - 1 : b[i] = r[i + 1]
    BY <1>1, <1>3, TailShifts
<1> HIDE DEF a, b, r
<1>5. \A i \in 1 .. Len(s) - 1 : b[i] = f[a[i]]
    BY <1>1, <1>2, <1>4
<1>6. b = [i \in 1 .. Len(s) - 1 |-> b[i]]
    <2>1. DOMAIN b = 1 .. Len(s) - 1 /\ b \in [1 .. Len(b) -> T]
        BY <1>4, LenProperties
    <2> QED
        BY <2>1
<1>7. Through(f, a) = [i \in 1 .. Len(s) - 1 |-> f[a[i]]]
    BY <1>2 DEF Through
<1>8. Through(f, a) = b
    BY <1>5, <1>6, <1>7
<1> QED
    BY <1>1, <1>2, <1>3, <1>4, <1>8 DEF a, b, r

LEMMA NotifyParam ==
    ASSUME DeliveryInv, NEW l \in LRT, PushNotification(l), sending[l].kind = "param"
    PROVE  DeliveryInv'
<1>1. DeliveryTypeOK /\ LaunchedOnce /\ JobSide /\ ParamSide /\ MapInv
    BY DEF DeliveryInv
<1>2. PICK ix \in Index :
          /\ sending[l].ix = ix /\ sending[l].stage = "notification"
          /\ NotificationEffect(l) /\ DeliveryTypeOK'
    BY <1>1, NotificationStep DEF PushNotification
<1>3. /\ paramNotified \in Seq(Index)
      /\ paramNotified' = Append(paramNotified, ix) /\ UNCHANGED notified
    BY <1>1, <1>2 DEF PushNotification, DeliveryTypeOK
<1>4. paramNotified' = paramNotified \o <<ix>>
    BY <1>3, AddOne
<1>5. /\ UNCHANGED <<fetching, jobQueue, jobsRun, fetchingParam, received>>
      /\ jobs' = jobs /\ slots' = slots /\ freeIndex' = freeIndex
      /\ ~ Sends(l, "notification", "param")' /\ ~ Sends(l, "message", "param")'
      /\ Sends(l, "notification", "param") /\ ~ Sends(l, "message", "param")
      /\ \A k \in LRT : k # l => sending'[k] = sending[k]
    BY <1>2 DEF NotificationEffect, queueVars, allocatorVars, Kind, Sends
<1>6. ParamIndices' = Append(ParamIndices, ix)
    <2> DEFINE first == IF fetchingParam = NoIndex THEN << >> ELSE <<fetchingParam>>
               last == <<ix>>
    <2>1. ParamIndices = first \o paramNotified /\ ParamIndices' = first \o (paramNotified \o last)
        BY <1>4, <1>5 DEF ParamIndices
    <2>2. first \in Seq(Index) /\ last \in Seq(Index)
        <3>1. fetchingParam # NoIndex => fetchingParam \in Index
            BY <1>1 DEF DeliveryTypeOK, NoIndex, Index
        <3> QED
            BY <3>1, AtMostOne, EmptySeq
    <2> HIDE DEF first, last
    <2>3. (first \o paramNotified) \o last = first \o (paramNotified \o last)
        BY <1>3, <2>2, ConcatAssociative
    <2>4. ParamIndices \in Seq(Index)
        BY <1>1, PlacesTyped
    <2>5. ParamIndices \o last = Append(ParamIndices, ix)
        BY <2>4, AddOne DEF last
    <2> QED
        BY <2>1, <2>3, <2>5
<1>7. ParamsAt[l] = <<ix>> /\ ParamsAt'[l] = << >> /\ l \in ParamPlaces /\ l # Inbox
    BY <1>2, <1>5, PlaceNames DEF ParamsAt, ParamPlaces
<1>8. HeadMoves(ParamPlaces, Index, ParamsAt, ParamsAt', l, Inbox)
    <2>1. ParamsAt \in [ParamPlaces -> Seq(Index)] /\ ParamsAt' \in [ParamPlaces -> Seq(Index)]
        BY <1>1, <1>2, PlacesTyped, PlacesTypedNext DEF ParamPlaces
    <2>2. /\ Inbox \in ParamPlaces
          /\ ParamsAt[Inbox] = ParamIndices /\ ParamsAt'[Inbox] = ParamIndices'
        BY PlaceNames DEF ParamsAt, ParamPlaces
    <2>3. \A x \in ParamPlaces : x # l /\ x # Inbox => ParamsAt'[x] = ParamsAt[x]
        BY <1>5, PlaceNames DEF ParamsAt, ParamPlaces, Sends
    <2>4. <<ix>> # << >> /\ Head(<<ix>>) = ix /\ Tail(<<ix>>) = << >>
        OBVIOUS
    <2> QED
        BY <1>6, <1>7, <2>1, <2>2, <2>3, <2>4 DEF HeadMoves
<1>9. Apart(ParamsAt') /\ ElementsOf(ParamsAt') = ElementsOf(ParamsAt)
    <2>1. Apart(ParamsAt)
        BY <1>1 DEF ParamSide
    <2> HIDE DEF ParamsAt
    <2> QED
        BY <1>8, <2>1, MoveHead
<1>10. Bounded(ParamsAt', Len(slots'["param"]))
    <2>1. Bounded(ParamsAt, Len(slots["param"]))
        BY <1>1 DEF ParamSide
    <2>2. \A x \in ElementsOf(ParamsAt) : x \in 1 .. Len(slots["param"])
        BY <2>1 DEF Bounded, ElementsOf
    <2> SUFFICES ASSUME NEW d \in DOMAIN ParamsAt', NEW i \in 1 .. Len(ParamsAt'[d])
                 PROVE  ParamsAt'[d][i] \in 1 .. Len(slots["param"])
        BY <1>5 DEF Bounded
    <2>3. ParamsAt'[d][i] \in ElementsOf(ParamsAt')
        BY InElements
    <2> QED
        BY <1>9, <2>2, <2>3
<1>11. HeadMoves(ValuePlaces, Item, ValuesAt, ValuesAt', l, Inbox)
    <2>1. ValuesAt \in [ValuePlaces -> Seq(Item)] /\ ValuesAt' \in [ValuePlaces -> Seq(Item)]
        BY <1>1, <1>2, <1>10, ValuesTyped, ValuesTypedNext DEF ValuePlaces, ParamSide, Bounded
    <2>2. /\ l \in ValuePlaces /\ Inbox \in ValuePlaces
          /\ ValuesAt[l] = <<slots["param"][ix]>> /\ ValuesAt'[l] = << >>
          /\ ValuesAt[Inbox] = Through(slots["param"], ParamIndices)
          /\ ValuesAt'[Inbox] = Through(slots["param"], ParamIndices')
        BY <1>2, <1>5, PlaceNames DEF ValuesAt, ValuePlaces, Through
    <2>3. \A x \in ValuePlaces : x # l /\ x # Inbox => ValuesAt'[x] = ValuesAt[x]
        BY <1>5, PlaceNames DEF ValuesAt, ValuePlaces, Sends
    <2>4. slots["param"][ix] \in Item
        <3>1. <<slots["param"][ix]>> \in Seq(Item)
            BY <2>1, <2>2
        <3> QED
            BY <3>1, TailShifts
    <2>5. Through(slots["param"], ParamIndices')
              = Append(Through(slots["param"], ParamIndices), slots["param"][ix])
        <3>1. ParamIndices \in Seq(Index) /\ Through(slots["param"], ParamIndices) \in Seq(Item)
            BY <1>1, <2>1, <2>2, PlacesTyped
        <3>2. Through(slots["param"], Append(ParamIndices, ix))
                  = Append(Through(slots["param"], ParamIndices), slots["param"][ix])
            BY <2>4, <3>1, ThroughAppend
        <3> QED
            BY <1>6, <3>2
    <2> DEFINE v == slots["param"][ix]
    <2>6. <<v>> # << >> /\ Head(<<v>>) = v /\ Tail(<<v>>) = << >>
        OBVIOUS
    <2> QED
        BY <1>7, <2>1, <2>2, <2>3, <2>5, <2>6 DEF HeadMoves
<1>12. Apart(ValuesAt') /\ ElementsOf(ValuesAt') = ElementsOf(ValuesAt)
    <2>1. Apart(ValuesAt)
        BY <1>1 DEF ParamSide
    <2> HIDE DEF ValuesAt
    <2> QED
        BY <1>11, <2>1, MoveHead
<1>13. ParamSide'
    <2>1. ConfigsRun' = ConfigsRun
        BY <1>5 DEF ConfigsRun
    <2> QED
        BY <1>1, <1>5, <1>9, <1>10, <1>12, <2>1 DEF ParamSide
<1>14. JobSide'
    <2>1. SameSends(GRT, "job")
        BY <1>2, <1>5, PlaceNames DEF NotificationEffect, SameSends, Sends, Kind
    <2>2. JobsUntouched
        BY <1>3, <1>5, <2>1 DEF JobsUntouched
    <2> QED
        BY <1>1, <2>2, JobFrame
<1>15. MapInv' /\ LaunchedOnce'
    BY <1>1, <1>2, AllocatorKept DEF NotificationEffect
<1> QED
    BY <1>2, <1>13, <1>14, <1>15 DEF DeliveryInv

-----------------------------------------------------------------------------
(* The steps of a reader                                                   *)

\* An index read in a notification waits in the thread of the runner.
LEMMA ReadJob ==
    ASSUME DeliveryInv, NEW l \in LRT, ReadNotification(l)
    PROVE  DeliveryInv'
<1>1. DeliveryTypeOK /\ LaunchedOnce /\ JobSide /\ ParamSide /\ MapInv
    BY DEF DeliveryInv
<1>2. /\ notified \in [LRT -> Seq(Index)] /\ fetching \in [LRT -> Nat]
      /\ fetching[l] = NoIndex /\ notified[l] # << >> /\ notified[l] \in Seq(Index)
      /\ fetching' = [fetching EXCEPT ![l] = Head(notified[l])]
      /\ notified' = [notified EXCEPT ![l] = Tail(notified[l])]
      /\ UNCHANGED <<slots, freeIndex, paramNotified, fetchingParam, received, sending,
                     jobQueue, jobsRun, jobs>>
      /\ UNCHANGED allocatorVars
    BY <1>1 DEF ReadNotification, DeliveryTypeOK, queueVars, paramVars, allocatorVars
<1>3. /\ Head(notified[l]) \in Index /\ Tail(notified[l]) \in Seq(Index)
      /\ <<Head(notified[l])>> \o Tail(notified[l]) = notified[l]
      /\ << >> \o notified[l] = notified[l]
    BY <1>2, TailShifts, PutBack, ConcatEmptySeq
<1>4. /\ fetching'[l] = Head(notified[l]) /\ notified'[l] = Tail(notified[l])
      /\ \A k \in LRT : k # l => fetching'[k] = fetching[k] /\ notified'[k] = notified[k]
      /\ fetching' \in [LRT -> Nat] /\ notified' \in [LRT -> Seq(Index)]
      /\ Head(notified[l]) # NoIndex
    BY <1>2, <1>3 DEF Index, NoIndex
<1>5. JobIndices(l)' = JobIndices(l)
    BY <1>2, <1>3, <1>4 DEF JobIndices, Sends
<1>6. \A k \in LRT : k # l => JobIndices(k)' = JobIndices(k)
    BY <1>2, <1>4 DEF JobIndices, Sends
<1>7. JobSide'
    <2>1. IndicesUntouched
        BY <1>2, <1>5, <1>6 DEF IndicesUntouched, JobPushed, Sends
    <2> QED
        BY <1>1, <2>1, IndicesFrame
<1>8. ParamSide'
    <2>1. ParamsUntouched
        BY <1>2 DEF ParamsUntouched, SameSends, Sends, ConfigsRun
    <2> QED
        BY <1>1, <2>1, ParamFrame
<1>9. DeliveryTypeOK'
    BY <1>1, <1>2, <1>4 DEF DeliveryTypeOK, Sends
<1> QED
    BY <1>1, <1>2, <1>7, <1>8, <1>9, AllocatorKept DEF DeliveryInv

LEMMA ReadParam ==
    ASSUME DeliveryInv, ReadParamNotification
    PROVE  DeliveryInv'
<1>1. DeliveryTypeOK /\ LaunchedOnce /\ JobSide /\ ParamSide /\ MapInv
    BY DEF DeliveryInv
<1>2. /\ paramNotified \in Seq(Index) /\ fetchingParam = NoIndex /\ paramNotified # << >>
      /\ fetchingParam' = Head(paramNotified) /\ paramNotified' = Tail(paramNotified)
      /\ UNCHANGED <<slots, freeIndex, notified, fetching, jobQueue, jobsRun, sending,
                     received, jobs>>
      /\ UNCHANGED allocatorVars
    BY <1>1 DEF ReadParamNotification, DeliveryTypeOK, queueVars, jobVars, allocatorVars
<1>3. /\ Head(paramNotified) \in Index /\ Tail(paramNotified) \in Seq(Index)
      /\ <<Head(paramNotified)>> \o Tail(paramNotified) = paramNotified
      /\ << >> \o paramNotified = paramNotified
    BY <1>2, TailShifts, PutBack, ConcatEmptySeq
<1>4. Head(paramNotified) # NoIndex /\ Head(paramNotified) \in Nat
    BY <1>3 DEF Index, NoIndex
<1>5. ParamIndices' = ParamIndices
    BY <1>2, <1>3, <1>4 DEF ParamIndices
<1>6. ParamsAt' = ParamsAt /\ ValuesAt' = ValuesAt
    BY <1>2, <1>5 DEF ParamsAt, ValuesAt, Sends
<1>7. ParamSide'
    BY <1>1, <1>2, <1>6 DEF ParamSide, ConfigsRun, Apart, Bounded, ElementsOf
<1>8. JobSide'
    <2>1. JobsUntouched
        BY <1>2 DEF JobsUntouched, SameSends, Sends
    <2> QED
        BY <1>1, <2>1, JobFrame
<1>9. DeliveryTypeOK'
    BY <1>1, <1>2, <1>3, <1>4 DEF DeliveryTypeOK, Sends
<1> QED
    BY <1>1, <1>2, <1>7, <1>8, <1>9, AllocatorKept DEF DeliveryInv

LEMMA JobQueueTyped ==
    ASSUME DeliveryTypeOK, NEW l \in LRT
    PROVE  jobQueue[l] \in Seq(JobMessage) /\ Len(jobQueue[l]) \in Nat
           /\ JobIndices(l) \in Seq(Index) /\ Len(JobIndices(l)) \in Nat
<1>1. jobQueue[l] \in Seq(JobMessage) /\ JobIndices(l) \in Seq(Index)
    BY PlacesTyped DEF DeliveryTypeOK
<1> QED
    BY <1>1, LenProperties

\* The index of the slot that the GRT has filled for l and not told it yet.
SentIndex(l) ==
    IF Sends(GRT, "notification", "job") /\ sending[GRT].to = l THEN <<sending[GRT].ix>> ELSE << >>

\* The slot that the runner empties is the first on its way.
LEMMA FirstJobIndex ==
    ASSUME DeliveryTypeOK, JobSide, NEW l \in LRT, fetching[l] # NoIndex
    PROVE  /\ fetching[l] \in Index /\ fetching[l] \in 1 .. Len(slots["job"])
           /\ JobIndices(l) # << >> /\ Head(JobIndices(l)) = fetching[l]
           /\ Tail(JobIndices(l)) = notified[l] \o SentIndex(l)
<1> DEFINE ix == fetching[l]
           told == notified[l]
           sent == SentIndex(l)
           first == <<ix>>
<1>1. ix \in Index
    BY DEF DeliveryTypeOK, NoIndex, Index
<1>2. JobIndices(l) = (first \o told) \o sent
    BY DEF JobIndices, SentIndex
<1>3. told \in Seq(Index) /\ sent \in Seq(Index) /\ first \in Seq(Index)
    <2>1. Sends(GRT, "notification", "job") => sending[GRT].ix \in Index
        BY PlaceNames, SendFacts DEF DeliveryTypeOK, Sends
    <2> QED
        BY <1>1, <2>1, AtMostOne, EmptySeq DEF DeliveryTypeOK, SentIndex
<1> HIDE DEF told, sent, first, ix
<1>4. (first \o told) \o sent = first \o (told \o sent)
    BY <1>3, ConcatAssociative
<1>5. told \o sent \in Seq(Index)
    BY <1>3, ConcatProperties
<1>6. /\ first \o (told \o sent) # << >> /\ Head(first \o (told \o sent)) = ix
      /\ Tail(first \o (told \o sent)) = told \o sent
    BY <1>1, <1>5, TakeFirst DEF first
<1>7. JobIndices(l) # << >> /\ Head(JobIndices(l)) = ix /\ Tail(JobIndices(l)) = told \o sent
    BY <1>2, <1>4, <1>6
<1>8. ix \in 1 .. Len(slots["job"])
    <2>1. /\ l \in DOMAIN JobsAt /\ JobsAt[l] = JobIndices(l)
        BY PlaceNames DEF JobsAt, JobPlaces
    <2>2. JobIndices(l)[1] = ix /\ 1 \in 1 .. Len(JobIndices(l))
        BY <1>7, JobQueueTyped, TailShifts
    <2> QED
        BY <2>1, <2>2 DEF JobSide, Bounded
<1> QED
    BY <1>1, <1>7, <1>8 DEF told, sent, ix

LEMMA FetchJobStep ==
    ASSUME DeliveryInv, NEW l \in LRT, FetchJob(l)
    PROVE  DeliveryInv'
<1>1. DeliveryTypeOK /\ LaunchedOnce /\ JobSide /\ ParamSide /\ MapInv
    BY DEF DeliveryInv
<1>2. PICK ix : fetching[l] = ix /\ ix # NoIndex
    BY DEF FetchJob
<1>3. /\ ix \in Index /\ ix \in 1 .. Len(slots["job"])
      /\ JobIndices(l) # << >> /\ Head(JobIndices(l)) = ix
      /\ Tail(JobIndices(l)) = notified[l] \o SentIndex(l)
    BY <1>1, <1>2, FirstJobIndex
<1>4. /\ PopSlot("job", ix)
      /\ jobQueue' = [jobQueue EXCEPT ![l] = Append(@, slots["job"][ix])]
      /\ fetching' = [fetching EXCEPT ![l] = NoIndex]
      /\ UNCHANGED <<notified, jobsRun, paramNotified, fetchingParam, received, sending, jobs>>
      /\ UNCHANGED allocatorVars
    BY <1>2 DEF FetchJob, paramVars, allocatorVars
<1>5. /\ slots' \in [Kind -> Seq(Item)] /\ freeIndex' \in [Kind -> Seq(Index)]
      /\ Len(slots'["job"]) = Len(slots["job"]) /\ Len(slots["job"]) \in Nat
      /\ \A j \in 1 .. Len(slots["job"]) : j # ix => slots'["job"][j] = slots["job"][j]
      /\ slots'["param"] = slots["param"] /\ freeIndex'["param"] = freeIndex["param"]
      /\ freeIndex'["job"] = Append(freeIndex["job"], ix)
    <2>1. /\ slots \in [Kind -> Seq(Item)] /\ freeIndex \in [Kind -> Seq(Index)]
          /\ "job" \in Kind /\ "param" \in Kind
        BY <1>1 DEF DeliveryTypeOK, Kind
    <2> QED
        BY <1>3, <1>4, <2>1, PoppedSlot
<1>6. JobIndices(l)' = Tail(JobIndices(l))
    <2>1. fetching'[l] = NoIndex
        BY <1>1, <1>4 DEF DeliveryTypeOK
    <2>2. JobIndices(l)' = (<< >> \o notified[l]) \o SentIndex(l)
        BY <1>4, <2>1 DEF JobIndices, Sends, SentIndex
    <2>3. << >> \o notified[l] = notified[l]
        <3>1. notified[l] \in Seq(Index)
            BY <1>1 DEF DeliveryTypeOK
        <3> QED
            BY <3>1, ConcatEmptySeq
    <2> QED
        BY <1>3, <2>2, <2>3
<1>7. \A k \in LRT : k # l => /\ JobIndices(k)' = JobIndices(k)
                              /\ jobQueue'[k] = jobQueue[k] /\ fetching'[k] = fetching[k]
    BY <1>1, <1>4 DEF JobIndices, Sends, DeliveryTypeOK
<1> DEFINE q == Len(jobQueue[l])
           k == Len(JobIndices(l))
<1>8. /\ q \in Nat /\ k \in Nat \ {0} /\ JobIndices(l) \in Seq(Index)
      /\ JobIndices(l)[1] = ix /\ Tail(JobIndices(l)) \in Seq(Index)
      /\ Len(Tail(JobIndices(l))) = k - 1
      /\ \A i \in 1 .. k - 1 : Tail(JobIndices(l))[i] = JobIndices(l)[i + 1]
    BY <1>1, <1>3, JobQueueTyped, TailShifts
<1>9. JobsHeld(l) /\ jobQueue[l] \in Seq(JobMessage) /\ jobs[l] \in Seq(JobMessage)
    BY <1>1, JobQueueTyped DEF JobSide, MapInv, TypeOK
<1>10. slots["job"][ix] = jobs[l][q + 1] /\ slots["job"][ix] \in JobMessage
    <2>1. 1 \in 1 .. k
        BY <1>8
    <2>2. jobs[l][q + 1] = slots["job"][JobIndices(l)[1]]
        BY <1>9, <2>1 DEF JobsHeld
    <2>3. q + 1 \in 1 .. Len(jobs[l])
        <3>1. JobPushed(l) => Len(jobs[l]) = q + k + 1
            BY <1>9 DEF JobsHeld
        <3>2. ~ JobPushed(l) => Len(jobs[l]) = q + k + 0
            BY <1>9 DEF JobsHeld
        <3> HIDE DEF q, k
        <3> QED
            BY <1>8, <3>1, <3>2
    <2>4. jobs[l][q + 1] \in JobMessage
        BY <1>9, <2>3, ElementOfSeq
    <2> QED
        BY <1>8, <2>2, <2>4
<1>11. HeadMoves(JobPlaces, Index, JobsAt, JobsAt', l, Free)
    <2>1. JobsAt \in [JobPlaces -> Seq(Index)]
        BY <1>1, PlacesTyped
    <2>2. /\ Free \in JobPlaces /\ l \in JobPlaces /\ l # Free
          /\ \A d \in JobPlaces : d # Free => d \in LRT
          /\ JobsAt[Free] = freeIndex["job"] /\ JobsAt'[Free] = freeIndex'["job"]
          /\ \A d \in LRT : JobsAt[d] = JobIndices(d) /\ JobsAt'[d] = JobIndices(d)'
        BY PlaceNames DEF JobsAt, JobPlaces
    <2>3. \A x \in JobPlaces : x # l /\ x # Free => JobsAt'[x] = JobsAt[x]
        BY <1>7, <2>2
    <2>4. JobsAt' \in [JobPlaces -> Seq(Index)]
        <3>1. freeIndex'["job"] \in Seq(Index)
            BY <1>5 DEF Kind
        <3>2. \A x \in JobPlaces : JobsAt'[x] \in Seq(Index)
            BY <1>6, <1>8, <2>1, <2>2, <2>3, <3>1
        <3>3. JobsAt' = [x \in JobPlaces |-> JobsAt'[x]]
            BY DEF JobsAt, JobPlaces
        <3> HIDE DEF JobsAt
        <3> QED
            BY <3>2, <3>3
    <2> QED
        BY <1>3, <1>5, <1>6, <2>1, <2>2, <2>3, <2>4 DEF HeadMoves
<1>12. Apart(JobsAt') /\ ElementsOf(JobsAt') = ElementsOf(JobsAt)
    <2>1. Apart(JobsAt)
        BY <1>1 DEF JobSide
    <2> HIDE DEF JobsAt
    <2> QED
        BY <1>11, <2>1, MoveHead
<1>13. Bounded(JobsAt', Len(slots'["job"]))
    <2>1. \A x \in ElementsOf(JobsAt) : x \in 1 .. Len(slots["job"])
        BY <1>1 DEF JobSide, Bounded, ElementsOf
    <2> SUFFICES ASSUME NEW d \in DOMAIN JobsAt', NEW i \in 1 .. Len(JobsAt'[d])
                 PROVE  JobsAt'[d][i] \in 1 .. Len(slots["job"])
        BY <1>5 DEF Bounded
    <2>2. JobsAt'[d][i] \in ElementsOf(JobsAt')
        BY InElements
    <2> QED
        BY <1>12, <2>1, <2>2
<1>14. ASSUME NEW d \in LRT, NEW i \in 1 .. Len(JobIndices(d)), ~ (d = l /\ i = 1)
       PROVE  slots'["job"][JobIndices(d)[i]] = slots["job"][JobIndices(d)[i]]
    <2>1. /\ d \in DOMAIN JobsAt /\ l \in DOMAIN JobsAt
          /\ JobsAt[d] = JobIndices(d) /\ JobsAt[l] = JobIndices(l)
        BY PlaceNames DEF JobsAt, JobPlaces
    <2>2. 1 \in 1 .. Len(JobIndices(l))
        BY <1>8
    <2>3. JobIndices(d)[i] # ix
        <3>1. \A p, r \in DOMAIN JobsAt : \A m \in 1 .. Len(JobsAt[p]), j \in 1 .. Len(JobsAt[r]) :
                  JobsAt[p][m] = JobsAt[r][j] => p = r /\ m = j
            BY <1>1 DEF JobSide, Apart
        <3>2. JobIndices(d)[i] = JobIndices(l)[1] => d = l /\ i = 1
            BY <2>1, <2>2, <3>1
        <3> QED
            BY <1>8, <1>14, <3>2
    <2>4. JobIndices(d)[i] \in 1 .. Len(slots["job"])
        BY <1>1, <2>1 DEF JobSide, Bounded
    <2> QED
        BY <1>5, <2>3, <2>4
<1>15. /\ jobQueue'[l] = Append(jobQueue[l], slots["job"][ix]) /\ jobQueue'[l] \in Seq(JobMessage)
       /\ Len(jobQueue'[l]) = q + 1 /\ jobQueue'[l][q + 1] = slots["job"][ix]
       /\ \A i \in 1 .. q : jobQueue'[l][i] = jobQueue[l][i]
    <2>1. jobQueue'[l] = Append(jobQueue[l], slots["job"][ix])
        BY <1>1, <1>4 DEF DeliveryTypeOK
    <2> QED
        BY <1>9, <1>10, <2>1, AddOne
<1>16. JobsHeld(l)'
    <2>1. JobPushed(l)' <=> JobPushed(l)
        BY <1>4 DEF JobPushed, Sends
    <2>2. Len(JobIndices(l)') = k - 1
        BY <1>6, <1>8
    <2> DEFINE more == IF JobPushed(l) THEN 1 ELSE 0
    <2>3. /\ Len(jobs[l]) = q + k + more
          /\ \A i \in 1 .. q : jobs[l][i] = jobQueue[l][i]
          /\ \A i \in 1 .. k : jobs[l][q + i] = slots["job"][JobIndices(l)[i]]
          /\ JobPushed(l) => jobs[l][Len(jobs[l])] = sending[GRT].message
        BY <1>9 DEF JobsHeld
    <2>4. more \in {0, 1}
        OBVIOUS
    <2>5. \A i \in 1 .. k - 1 :
              slots'["job"][JobIndices(l)[i + 1]] = slots["job"][JobIndices(l)[i + 1]]
        <3> SUFFICES ASSUME NEW i \in 1 .. k - 1
                     PROVE  slots'["job"][JobIndices(l)[i + 1]] = slots["job"][JobIndices(l)[i + 1]]
            OBVIOUS
        <3>1. i + 1 \in 1 .. k /\ i + 1 # 1
            BY <1>8
        <3> QED
            BY <1>14, <3>1
    <2> HIDE DEF q, k, more
    <2>6. ASSUME NEW i \in 1 .. k - 1
          PROVE  jobs[l][(q + 1) + i] = slots'["job"][JobIndices(l)'[i]]
        <3>1. i + 1 \in 1 .. k /\ q + (i + 1) = (q + 1) + i
            BY <1>8
        <3>2. jobs[l][q + (i + 1)] = slots["job"][JobIndices(l)[i + 1]]
            BY <2>3, <3>1
        <3>3. JobIndices(l)'[i] = JobIndices(l)[i + 1]
            BY <1>6, <1>8
        <3> QED
            BY <2>5, <3>1, <3>2, <3>3
    <2>7. Len(jobs[l]) = (q + 1) + (k - 1) + more
        BY <1>8, <2>3, <2>4
    <2>8. \A i \in 1 .. q + 1 : jobs[l][i] = jobQueue'[l][i]
        <3> SUFFICES ASSUME NEW i \in 1 .. q + 1 PROVE jobs[l][i] = jobQueue'[l][i]
            OBVIOUS
        <3>1. CASE i = q + 1
            BY <1>10, <1>15, <3>1
        <3>2. CASE i # q + 1
            <4>1. i \in 1 .. q
                BY <1>8, <3>2
            <4> QED
                BY <1>15, <2>3, <4>1
        <3> QED
            BY <3>1, <3>2
    <2>9. more = (IF JobPushed(l)' THEN 1 ELSE 0)
        BY <2>1 DEF more
    <2>10. jobs'[l] = jobs[l] /\ sending' = sending
        BY <1>4
    <2>11. /\ Len(jobs'[l]) = Len(jobQueue'[l]) + Len(JobIndices(l)') + (IF JobPushed(l)' THEN 1 ELSE 0)
        BY <1>15, <2>2, <2>7, <2>9, <2>10
    <2>12. \A i \in 1 .. Len(JobIndices(l)') :
              jobs'[l][Len(jobQueue'[l]) + i] = slots'["job"][JobIndices(l)'[i]]
        BY <1>15, <2>2, <2>6, <2>10
    <2>13. \A i \in 1 .. Len(jobQueue'[l]) : jobs'[l][i] = jobQueue'[l][i]
        BY <1>15, <2>8, <2>10
    <2>14. JobPushed(l)' => jobs'[l][Len(jobs'[l])] = sending'[GRT].message
        BY <2>1, <2>3, <2>10
    <2> QED
        BY <2>11, <2>12, <2>13, <2>14 DEF JobsHeld
<1>17. ASSUME NEW d \in LRT, d # l PROVE JobsHeld(d)'
    <2>1. JobsHeld(d) /\ (JobPushed(d)' <=> JobPushed(d))
        BY <1>1, <1>4 DEF JobSide, JobPushed, Sends
    <2>2. JobIndices(d)' = JobIndices(d) /\ jobQueue'[d] = jobQueue[d]
        BY <1>7, <1>17
    <2>3. \A i \in 1 .. Len(JobIndices(d)) :
              slots'["job"][JobIndices(d)[i]] = slots["job"][JobIndices(d)[i]]
        BY <1>14, <1>17
    <2> QED
        BY <1>4, <2>1, <2>2, <2>3 DEF JobsHeld
<1>18. ConfigsRun' = ConfigsRun
    <2>1. ASSUME NEW d \in LRT, NEW i \in 1 .. jobsRun[d] PROVE jobQueue'[d][i] = jobQueue[d][i]
        <3>1. CASE d = l
            <4>1. jobsRun[l] \in Nat /\ jobsRun[l] <= q
                BY <1>1 DEF DeliveryTypeOK
            <4>2. i \in 1 .. q
                BY <1>8, <2>1, <3>1, <4>1
            <4> QED
                BY <1>15, <3>1, <4>2
        <3>2. CASE d # l
            BY <1>7, <3>2
        <3> QED
            BY <3>1, <3>2
    <2>2. ConfigsRun' =
              {t \in Configs : \E d \in LRT : \E i \in 1 .. jobsRun[d] : jobQueue'[d][i].taskIx = t}
        BY <1>4 DEF ConfigsRun
    <2>3. ASSUME NEW t
          PROVE  (\E d \in LRT : \E i \in 1 .. jobsRun[d] : jobQueue'[d][i].taskIx = t)
                 <=> \E d \in LRT : \E i \in 1 .. jobsRun[d] : jobQueue[d][i].taskIx = t
        BY <2>1
    <2> QED
        BY <2>2, <2>3 DEF ConfigsRun
<1>19. ParamSide'
    <2>1. ParamsUntouched
        BY <1>4, <1>5, <1>18 DEF ParamsUntouched, SameSends, Sends
    <2> QED
        BY <1>1, <2>1, ParamFrame
<1>20. JobSide'
    BY <1>12, <1>13, <1>16, <1>17 DEF JobSide
<1>21. DeliveryTypeOK'
    <2>1. jobQueue' \in [LRT -> Seq(JobMessage)] /\ fetching' \in [LRT -> Nat]
        <3>1. jobQueue \in [LRT -> Seq(JobMessage)] /\ fetching \in [LRT -> Nat] /\ NoIndex \in Nat
            BY <1>1 DEF DeliveryTypeOK, NoIndex
        <3>2. jobQueue' = [jobQueue EXCEPT ![l] = jobQueue'[l]]
            BY <1>4, <1>15, <3>1
        <3> QED
            BY <1>4, <1>15, <3>1, <3>2
    <2>2. \A d \in LRT : jobsRun[d] <= Len(jobQueue'[d])
        <3> SUFFICES ASSUME NEW d \in LRT PROVE jobsRun[d] <= Len(jobQueue'[d])
            OBVIOUS
        <3>1. jobsRun[d] \in Nat /\ jobsRun[d] <= Len(jobQueue[d])
            BY <1>1 DEF DeliveryTypeOK
        <3>2. CASE d = l
            BY <1>8, <1>15, <3>1, <3>2
        <3>3. CASE d # l
            BY <1>7, <3>1, <3>3
        <3> QED
            BY <3>2, <3>3
    <2> QED
        BY <1>1, <1>4, <1>5, <2>1, <2>2 DEF DeliveryTypeOK, Sends
<1> QED
    BY <1>1, <1>4, <1>19, <1>20, <1>21, AllocatorKept DEF DeliveryInv

LEMMA RunJobStep ==
    ASSUME DeliveryInv, NEW l \in LRT, RunJob(l)
    PROVE  DeliveryInv'
<1>1. DeliveryTypeOK /\ LaunchedOnce /\ JobSide /\ ParamSide /\ MapInv
    BY DEF DeliveryInv
<1> DEFINE n == jobsRun[l]
           job == jobQueue[l][n + 1]
           t == job.taskIx
<1>2. /\ n \in Nat /\ n < Len(jobQueue[l]) /\ Len(jobQueue[l]) \in Nat
      /\ n + 1 \in 1 .. Len(jobQueue[l]) /\ job \in JobMessage /\ t \in Task
    <2>1. /\ jobsRun \in [LRT -> Nat] /\ jobQueue[l] \in Seq(JobMessage)
          /\ Len(jobQueue[l]) \in Nat /\ n < Len(jobQueue[l])
        BY <1>1, JobQueueTyped DEF RunJob, DeliveryTypeOK
    <2>2. n \in Nat /\ n + 1 \in 1 .. Len(jobQueue[l])
        BY <2>1
    <2>3. job \in JobMessage
        BY <2>1, <2>2, ElementOfSeq
    <2> QED
        BY <2>1, <2>2, <2>3 DEF JobMessage
<1>3. /\ sending[l] = Nothing
      /\ jobsRun' = [jobsRun EXCEPT ![l] = n + 1]
      /\ t \in Configs => sending' = [sending EXCEPT ![l] =
             [stage |-> "message", kind |-> "param", to |-> GRT, message |-> t]]
      /\ t \notin Configs => sending' = sending
      /\ UNCHANGED <<slots, freeIndex, notified, fetching, jobQueue, jobs,
                     paramNotified, fetchingParam, received>>
      /\ UNCHANGED allocatorVars
    BY DEF RunJob, Running, queueVars, paramVars, allocatorVars
<1> HIDE DEF t, job
<1>4. /\ \A k \in LRT : k # l => sending'[k] = sending[k]
      /\ \A stage \in {"message", "notification"} : \A kind \in Kind : ~ Sends(l, stage, kind)
      /\ t \in Configs => /\ Sends(l, "message", "param")' /\ sending'[l].message = t
                          /\ ~ Sends(l, "notification", "param")'
      /\ ~ Sends(l, "message", "job")' /\ ~ Sends(l, "notification", "job")'
    <2>1. sending \in [LRT -> SendState]
        BY <1>1 DEF DeliveryTypeOK
    <2>2. CASE t \in Configs
        BY <1>3, <2>1, <2>2 DEF Sends, Nothing
    <2>3. CASE t \notin Configs
        BY <1>3, <2>1, <2>3 DEF Sends, Nothing
    <2> QED
        BY <2>2, <2>3
<1>5. DeliveryTypeOK'
    <2>1. sending' \in [LRT -> SendState]
        <3>1. sending \in [LRT -> SendState]
            BY <1>1 DEF DeliveryTypeOK
        <3>2. [stage |-> "message", kind |-> "param", to |-> GRT, message |-> t] \in SendState
            BY <1>2, PlaceNames DEF SendState
        <3> QED
            BY <1>3, <3>1, <3>2
    <2>2. jobsRun' \in [LRT -> Nat] /\ \A k \in LRT : jobsRun'[k] <= Len(jobQueue[k])
        <3>1. jobsRun \in [LRT -> Nat] /\ \A k \in LRT : jobsRun[k] <= Len(jobQueue[k])
            BY <1>1 DEF DeliveryTypeOK
        <3> QED
            BY <1>2, <1>3, <3>1
    <2>3. \A k \in LRT : k # GRT => ~ Sends(k, "message", "job")' /\ ~ Sends(k, "notification", "job")'
        <3> SUFFICES ASSUME NEW k \in LRT, k # GRT
                     PROVE  ~ Sends(k, "message", "job")' /\ ~ Sends(k, "notification", "job")'
            OBVIOUS
        <3>1. CASE k = l
            BY <1>4, <3>1
        <3>2. CASE k # l
            BY <1>1, <1>4, <3>2 DEF Sends, DeliveryTypeOK
        <3> QED
            BY <3>1, <3>2
    <2> QED
        BY <1>1, <1>3, <2>1, <2>2, <2>3 DEF DeliveryTypeOK
<1>6. JobSide'
    <2>1. SameSends(GRT, "job")
        <3>1. CASE l = GRT
            BY <1>4, <3>1 DEF SameSends, Kind
        <3>2. CASE l # GRT
            BY <1>4, <3>2, PlaceNames DEF SameSends, Sends
        <3> QED
            BY <3>1, <3>2
    <2>2. JobsUntouched
        BY <1>3, <2>1 DEF JobsUntouched
    <2> QED
        BY <1>1, <2>2, JobFrame
<1>7. ConfigsRun' = ConfigsRun \cup (IF t \in Configs THEN {t} ELSE {})
    <2> DEFINE Ran(c, run) == \E k \in LRT : \E i \in 1 .. run[k] : jobQueue[k][i].taskIx = c
    <2>1. /\ ConfigsRun = {c \in Configs : Ran(c, jobsRun)}
          /\ ConfigsRun' = {c \in Configs : Ran(c, jobsRun')}
        BY <1>3 DEF ConfigsRun
    <2>2. /\ jobsRun'[l] = n + 1 /\ \A k \in LRT : k # l => jobsRun'[k] = jobsRun[k]
        BY <1>1, <1>3 DEF DeliveryTypeOK
    <2>3. ASSUME NEW c PROVE Ran(c, jobsRun') <=> Ran(c, jobsRun) \/ c = t
        <3>1. ASSUME Ran(c, jobsRun') PROVE Ran(c, jobsRun) \/ c = t
            <4>1. PICK k \in LRT : \E i \in 1 .. jobsRun'[k] : jobQueue[k][i].taskIx = c
                BY <3>1
            <4>2. PICK i \in 1 .. jobsRun'[k] : jobQueue[k][i].taskIx = c
                BY <4>1
            <4>3. CASE k = l /\ i = n + 1
                BY <4>2, <4>3 DEF t, job
            <4>4. CASE k = l /\ i # n + 1
                <5>1. i \in 1 .. n
                    BY <1>2, <2>2, <4>4
                <5> QED
                    BY <4>2, <4>4, <5>1
            <4>5. CASE k # l
                BY <2>2, <4>2, <4>5
            <4> QED
                BY <4>3, <4>4, <4>5
        <3>2. ASSUME Ran(c, jobsRun) PROVE Ran(c, jobsRun')
            <4>1. PICK k \in LRT : \E i \in 1 .. jobsRun[k] : jobQueue[k][i].taskIx = c
                BY <3>2
            <4>2. 1 .. jobsRun[k] \subseteq 1 .. jobsRun'[k]
                BY <1>2, <2>2
            <4> QED
                BY <4>1, <4>2
        <3>3. ASSUME c = t PROVE Ran(c, jobsRun')
            <4>1. n + 1 \in 1 .. jobsRun'[l]
                BY <1>2, <2>2
            <4> QED
                BY <3>3, <4>1 DEF t, job
        <3> QED
            BY <3>1, <3>2, <3>3
    <2> HIDE DEF Ran
    <2> QED
        BY <2>1, <2>3
<1>8. t \notin ConfigsRun
    <2> SUFFICES ASSUME NEW k \in LRT, NEW i \in 1 .. jobsRun[k], jobQueue[k][i].taskIx = t
                 PROVE  FALSE
        BY DEF ConfigsRun
    <2>1. \A d \in LRT : \A j \in 1 .. Len(jobQueue[d]) :
              jobs[d][j] = jobQueue[d][j] /\ j \in 1 .. Len(jobs[d])
        <3> SUFFICES ASSUME NEW d \in LRT, NEW j \in 1 .. Len(jobQueue[d])
                     PROVE  jobs[d][j] = jobQueue[d][j] /\ j \in 1 .. Len(jobs[d])
            OBVIOUS
        <3>1. JobsHeld(d) /\ Len(jobQueue[d]) \in Nat /\ Len(JobIndices(d)) \in Nat
            BY <1>1, JobQueueTyped DEF JobSide
        <3>2. JobPushed(d) => Len(jobs[d]) = Len(jobQueue[d]) + Len(JobIndices(d)) + 1
            BY <3>1 DEF JobsHeld
        <3>3. ~ JobPushed(d) => Len(jobs[d]) = Len(jobQueue[d]) + Len(JobIndices(d)) + 0
            BY <3>1 DEF JobsHeld
        <3>4. jobs[d][j] = jobQueue[d][j]
            BY <3>1 DEF JobsHeld
        <3>5. Len(jobs[d]) >= Len(jobQueue[d]) /\ Len(jobs[d]) \in Int
            BY <3>1, <3>2, <3>3
        <3>6. j \in 1 .. Len(jobs[d])
            BY <3>1, <3>5
        <3> QED
            BY <3>4, <3>6
    <2>2. jobsRun[k] \in Nat /\ jobsRun[k] <= Len(jobQueue[k]) /\ Len(jobQueue[k]) \in Nat
        BY <1>1, JobQueueTyped DEF DeliveryTypeOK
    <2>3. i \in 1 .. Len(jobQueue[k])
        BY <2>2
    <2>4. jobs[k][i].taskIx = jobs[l][n + 1].taskIx
        BY <1>2, <2>1, <2>3 DEF t, job
    <2>5. k = l /\ i = n + 1
        BY <1>1, <1>2, <2>1, <2>3, <2>4 DEF LaunchedOnce
    <2> QED
        BY <1>2, <2>5
<1>9. ParamIndices' = ParamIndices
    BY <1>3 DEF ParamIndices
<1>10. ParamsAt' = ParamsAt
    <2>1. \A k \in LRT : (IF Sends(k, "notification", "param") THEN <<sending[k].ix>> ELSE << >>)'
                  = IF Sends(k, "notification", "param") THEN <<sending[k].ix>> ELSE << >>
        <3> SUFFICES ASSUME NEW k \in LRT
                     PROVE (IF Sends(k, "notification", "param") THEN <<sending[k].ix>> ELSE << >>)'
                             = IF Sends(k, "notification", "param") THEN <<sending[k].ix>> ELSE << >>
            OBVIOUS
        <3>1. CASE k # l
            BY <1>4, <3>1 DEF Sends
        <3>2. CASE k = l
            BY <1>3, <1>4, <3>2 DEF Sends, Kind
        <3> QED
            BY <3>1, <3>2
    <2> QED
        BY <1>3, <1>9, <2>1, PlaceNames DEF ParamsAt, ParamPlaces
<1>11. CASE t \notin Configs
    <2>1. ParamsUntouched
        BY <1>3, <1>7, <1>11 DEF ParamsUntouched, SameSends, Sends
    <2>2. ParamSide'
        BY <1>1, <2>1, ParamFrame
    <2> QED
        BY <1>1, <1>3, <1>5, <1>6, <2>2, AllocatorKept DEF DeliveryInv
<1>12. CASE t \in Configs
    <2>1. /\ Bounded(ParamsAt, Len(slots["param"])) /\ Apart(ParamsAt) /\ Apart(ValuesAt)
          /\ ConfigsRun = received \cup ElementsOf(ValuesAt)
          /\ received \cap ElementsOf(ValuesAt) = {}
        BY <1>1 DEF ParamSide
    <2>2. Added(ValuePlaces, Item, ValuesAt, ValuesAt', l, t)
        <3>1. ValuesAt \in [ValuePlaces -> Seq(Item)] /\ ValuesAt' \in [ValuePlaces -> Seq(Item)]
            <4>1. Bounded(ParamsAt, Len(slots["param"]))'
                BY <1>3, <1>10, <2>1 DEF Bounded
            <4> QED
                BY <1>1, <1>5, <2>1, <4>1, ValuesTyped, ValuesTypedNext DEF ValuePlaces
        <3>2. l \in ValuePlaces /\ ValuesAt[l] = << >> /\ ValuesAt'[l] = <<t>>
            BY <1>4, <1>12, PlaceNames DEF ValuesAt, ValuePlaces, Kind
        <3>3. \A x \in ValuePlaces : x # l => ValuesAt'[x] = ValuesAt[x]
            BY <1>3, <1>4, <1>9, PlaceNames DEF ValuesAt, ValuePlaces, Sends
        <3>4. <<t>> = Append(<< >>, t) /\ t \in Item
            BY <1>2 DEF Item
        <3> QED
            BY <3>1, <3>2, <3>3, <3>4 DEF Added
    <2>3. t \notin ElementsOf(ValuesAt) /\ t \notin received
        BY <1>8, <2>1
    <2>4. Apart(ValuesAt') /\ ElementsOf(ValuesAt') = ElementsOf(ValuesAt) \cup {t}
        <3> HIDE DEF ValuesAt
        <3> QED
            BY <2>1, <2>2, <2>3, AddNew
    <2>5. ConfigsRun' = received' \cup ElementsOf(ValuesAt')
        BY <1>3, <1>7, <1>12, <2>1, <2>4
    <2>6. received' \cap ElementsOf(ValuesAt') = {}
        BY <1>3, <2>1, <2>3, <2>4
    <2>7. Apart(ParamsAt') /\ Bounded(ParamsAt', Len(slots'["param"]))
        BY <1>3, <1>10, <2>1
    <2>8. ParamSide'
        BY <2>4, <2>5, <2>6, <2>7 DEF ParamSide
    <2> QED
        BY <1>1, <1>3, <1>5, <1>6, <2>8, AllocatorKept DEF DeliveryInv
<1> QED
    BY <1>11, <1>12

LEMMA FetchParamStep ==
    ASSUME DeliveryInv, FetchParam
    PROVE  DeliveryInv'
<1>1. DeliveryTypeOK /\ LaunchedOnce /\ JobSide /\ ParamSide /\ MapInv
    BY DEF DeliveryInv
<1>2. PICK ix : fetchingParam = ix /\ ix # NoIndex
    BY DEF FetchParam
<1>3. /\ PopSlot("param", ix) /\ fetchingParam' = NoIndex
      /\ received' = received \cup {slots["param"][ix]}
      /\ UNCHANGED <<notified, fetching, jobQueue, jobsRun, paramNotified, sending, jobs>>
      /\ UNCHANGED allocatorVars
    BY <1>2 DEF FetchParam, jobVars, allocatorVars
<1>4. /\ ix \in Index /\ paramNotified \in Seq(Index) /\ ParamIndices = <<ix>> \o paramNotified
      /\ ParamIndices \in Seq(Index)
    BY <1>1, <1>2, PlacesTyped DEF DeliveryTypeOK, NoIndex, Index, ParamIndices
<1>5. /\ ParamIndices # << >> /\ Head(ParamIndices) = ix /\ Tail(ParamIndices) = paramNotified
    BY <1>4, TakeFirst
<1>6. ParamIndices' = Tail(ParamIndices)
    <2>1. ParamIndices' = << >> \o paramNotified
        BY <1>3 DEF ParamIndices
    <2> QED
        BY <1>4, <1>5, <2>1, ConcatEmptySeq
<1>7. /\ Inbox \in DOMAIN ParamsAt /\ ParamsAt[Inbox] = ParamIndices
      /\ 1 \in 1 .. Len(ParamIndices) /\ ParamIndices[1] = ix
    <2>1. 1 \in 1 .. Len(ParamIndices) /\ ParamIndices[1] = ix
        BY <1>4, <1>5, TailShifts
    <2> QED
        BY <2>1, PlaceNames DEF ParamsAt, ParamPlaces
<1>8. ix \in 1 .. Len(slots["param"])
    BY <1>1, <1>7 DEF ParamSide, Bounded
<1>9. /\ slots' \in [Kind -> Seq(Item)] /\ freeIndex' \in [Kind -> Seq(Index)]
      /\ Len(slots'["param"]) = Len(slots["param"]) /\ Len(slots["param"]) \in Nat
      /\ \A j \in 1 .. Len(slots["param"]) : j # ix => slots'["param"][j] = slots["param"][j]
      /\ slots'["job"] = slots["job"] /\ freeIndex'["job"] = freeIndex["job"]
      /\ freeIndex'["param"] = Append(freeIndex["param"], ix)
    <2>1. /\ slots \in [Kind -> Seq(Item)] /\ freeIndex \in [Kind -> Seq(Index)]
          /\ "job" \in Kind /\ "param" \in Kind
        BY <1>1 DEF DeliveryTypeOK, Kind
    <2> QED
        BY <1>3, <1>8, <2>1, PoppedSlot
<1>10. HeadMoves(ParamPlaces, Index, ParamsAt, ParamsAt', Inbox, Free)
    <2>1. ParamsAt \in [ParamPlaces -> Seq(Index)]
        BY <1>1, PlacesTyped
    <2>2. /\ Free \in ParamPlaces /\ Inbox \in ParamPlaces /\ Inbox # Free
          /\ ParamsAt[Free] = freeIndex["param"] /\ ParamsAt'[Free] = freeIndex'["param"]
          /\ ParamsAt'[Inbox] = ParamIndices'
        BY PlaceNames DEF ParamsAt, ParamPlaces
    <2>3. \A x \in ParamPlaces : x # Inbox /\ x # Free => ParamsAt'[x] = ParamsAt[x]
        BY <1>3, PlaceNames DEF ParamsAt, ParamPlaces, Sends
    <2>4. ParamsAt' \in [ParamPlaces -> Seq(Index)]
        <3>1. freeIndex'["param"] \in Seq(Index) /\ ParamIndices' \in Seq(Index)
            BY <1>4, <1>5, <1>6, <1>9 DEF Kind
        <3>2. \A x \in ParamPlaces : ParamsAt'[x] \in Seq(Index)
            BY <2>1, <2>2, <2>3, <3>1
        <3>3. ParamsAt' = [x \in ParamPlaces |-> ParamsAt'[x]]
            BY DEF ParamsAt, ParamPlaces
        <3> HIDE DEF ParamsAt
        <3> QED
            BY <3>2, <3>3
    <2> QED
        BY <1>5, <1>6, <1>7, <1>9, <2>1, <2>2, <2>3, <2>4 DEF HeadMoves
<1>11. Apart(ParamsAt') /\ ElementsOf(ParamsAt') = ElementsOf(ParamsAt)
    <2>1. Apart(ParamsAt)
        BY <1>1 DEF ParamSide
    <2> HIDE DEF ParamsAt
    <2> QED
        BY <1>10, <2>1, MoveHead
<1>12. Bounded(ParamsAt', Len(slots'["param"]))
    <2>1. \A x \in ElementsOf(ParamsAt) : x \in 1 .. Len(slots["param"])
        BY <1>1 DEF ParamSide, Bounded, ElementsOf
    <2> SUFFICES ASSUME NEW d \in DOMAIN ParamsAt', NEW i \in 1 .. Len(ParamsAt'[d])
                 PROVE  ParamsAt'[d][i] \in 1 .. Len(slots["param"])
        BY <1>9 DEF Bounded
    <2>2. ParamsAt'[d][i] \in ElementsOf(ParamsAt')
        BY InElements
    <2> QED
        BY <1>11, <2>1, <2>2
<1>13. ASSUME NEW d \in ParamPlaces, NEW i \in 1 .. Len(ParamsAt[d]), ~ (d = Inbox /\ i = 1)
       PROVE  slots'["param"][ParamsAt[d][i]] = slots["param"][ParamsAt[d][i]]
    <2>1. d \in DOMAIN ParamsAt
        BY <1>1, PlacesTyped
    <2>2. ParamsAt[d][i] # ix
        <3>1. \A p, r \in DOMAIN ParamsAt :
                  \A m \in 1 .. Len(ParamsAt[p]), j \in 1 .. Len(ParamsAt[r]) :
                      ParamsAt[p][m] = ParamsAt[r][j] => p = r /\ m = j
            BY <1>1 DEF ParamSide, Apart
        <3> HIDE DEF ParamsAt
        <3> QED
            BY <1>7, <1>13, <2>1, <3>1
    <2>3. ParamsAt[d][i] \in 1 .. Len(slots["param"])
        BY <1>1, <2>1 DEF ParamSide, Bounded
    <2> QED
        BY <1>9, <2>2, <2>3
<1> DEFINE old == slots["param"]
           new == slots'["param"]
<1>14. /\ ValuesAt \in [ValuePlaces -> Seq(Item)] /\ Inbox \in ValuePlaces
       /\ ValuesAt[Inbox] = Through(old, ParamIndices)
       /\ ValuesAt'[Inbox] = Through(new, ParamIndices')
    <2>1. ValuesAt \in [ValuePlaces -> Seq(Item)]
        BY <1>1, ValuesTyped DEF ParamSide
    <2> QED
        BY <2>1, PlaceNames DEF ValuesAt, ValuePlaces, Through
<1>15. /\ ValuesAt[Inbox] # << >> /\ Head(ValuesAt[Inbox]) = old[ix]
       /\ Through(old, Tail(ParamIndices)) = Tail(ValuesAt[Inbox])
    <2>1. Through(old, ParamIndices) \in Seq(Item)
        BY <1>14
    <2> HIDE DEF old
    <2>2. /\ Through(old, ParamIndices) # << >> /\ Head(Through(old, ParamIndices)) = old[ix]
          /\ Through(old, Tail(ParamIndices)) = Tail(Through(old, ParamIndices))
        BY <1>4, <1>5, <2>1, ThroughTail
    <2> QED
        BY <1>14, <2>2
<1>16. Through(new, Tail(ParamIndices)) = Through(old, Tail(ParamIndices))
    <2> DEFINE rest == Tail(ParamIndices)
    <2>1. \A i \in 1 .. Len(rest) : new[rest[i]] = old[rest[i]]
        <3> SUFFICES ASSUME NEW i \in 1 .. Len(rest) PROVE new[rest[i]] = old[rest[i]]
            OBVIOUS
        <3>1. /\ Len(ParamIndices) \in Nat /\ Len(rest) = Len(ParamIndices) - 1
              /\ \A j \in 1 .. Len(ParamIndices) - 1 : rest[j] = ParamIndices[j + 1]
            BY <1>4, <1>5, TailShifts
        <3>2. i + 1 \in 1 .. Len(ParamIndices) /\ i + 1 # 1 /\ rest[i] = ParamIndices[i + 1]
            BY <3>1
        <3>3. new[ParamIndices[i + 1]] = old[ParamIndices[i + 1]]
            BY <1>7, <1>13, <3>2, PlaceNames DEF ParamPlaces
        <3> QED
            BY <3>2, <3>3
    <2> HIDE DEF rest, old, new
    <2> QED
        BY <2>1 DEF Through, rest
<1>17. HeadDropped(ValuePlaces, Item, ValuesAt, ValuesAt', Inbox)
    <2>1. ValuesAt'[Inbox] = Tail(ValuesAt[Inbox])
        BY <1>6, <1>14, <1>15, <1>16
    <2>2. \A x \in ValuePlaces : x # Inbox => ValuesAt'[x] = ValuesAt[x]
        <3> SUFFICES ASSUME NEW x \in LRT PROVE ValuesAt'[x] = ValuesAt[x]
            BY DEF ValuePlaces
        <3>1. CASE Sends(x, "notification", "param")
            <4>1. /\ x \in ParamPlaces /\ x # Inbox /\ 1 \in 1 .. Len(ParamsAt[x])
                  /\ ParamsAt[x][1] = sending[x].ix
                BY <3>1, PlaceNames DEF ParamsAt, ParamPlaces
            <4>2. new[sending[x].ix] = old[sending[x].ix]
                BY <1>13, <4>1
            <4> QED
                BY <1>3, <3>1, <4>2, PlaceNames DEF ValuesAt, ValuePlaces, Sends
        <3>2. CASE ~ Sends(x, "notification", "param")
            BY <1>3, <3>2, PlaceNames DEF ValuesAt, ValuePlaces, Sends
        <3> QED
            BY <3>1, <3>2
    <2>3. ValuesAt' \in [ValuePlaces -> Seq(Item)]
        <3>1. Tail(ValuesAt[Inbox]) \in Seq(Item)
            BY <1>14, <1>15, TailShifts
        <3>2. \A x \in ValuePlaces : ValuesAt'[x] \in Seq(Item)
            BY <1>14, <2>1, <2>2, <3>1
        <3>3. ValuesAt' = [x \in ValuePlaces |-> ValuesAt'[x]]
            BY DEF ValuesAt, ValuePlaces
        <3> HIDE DEF ValuesAt
        <3> QED
            BY <3>2, <3>3
    <2> QED
        BY <1>14, <1>15, <2>1, <2>2, <2>3 DEF HeadDropped
<1>18. Apart(ValuesAt') /\ ElementsOf(ValuesAt') = ElementsOf(ValuesAt) \ {old[ix]}
    <2>1. Apart(ValuesAt)
        BY <1>1 DEF ParamSide
    <2>2. Apart(ValuesAt') /\ ElementsOf(ValuesAt') = ElementsOf(ValuesAt) \ {Head(ValuesAt[Inbox])}
        <3> HIDE DEF ValuesAt
        <3> QED
            BY <1>17, <2>1, DropHead
    <2> QED
        BY <1>15, <2>2
<1>19. old[ix] \in ElementsOf(ValuesAt)
    <2>1. Inbox \in DOMAIN ValuesAt /\ 1 \in 1 .. Len(ValuesAt[Inbox]) /\ ValuesAt[Inbox][1] = old[ix]
        BY <1>14, <1>15, TailShifts
    <2> QED
        BY <2>1, InElements
<1>20. ParamSide'
    <2>1. ConfigsRun' = ConfigsRun
        BY <1>3 DEF ConfigsRun
    <2>2. /\ ConfigsRun = received \cup ElementsOf(ValuesAt)
          /\ received \cap ElementsOf(ValuesAt) = {}
        BY <1>1 DEF ParamSide
    <2>3. /\ ConfigsRun' = received' \cup ElementsOf(ValuesAt')
          /\ received' \cap ElementsOf(ValuesAt') = {}
        BY <1>3, <1>18, <1>19, <2>1, <2>2
    <2> QED
        BY <1>11, <1>12, <1>18, <2>3 DEF ParamSide
<1>21. JobSide'
    <2>1. JobsUntouched
        BY <1>3, <1>9 DEF JobsUntouched, SameSends, Sends
    <2> QED
        BY <1>1, <2>1, JobFrame
<1>22. DeliveryTypeOK'
    <2>1. old[ix] \in Task
        BY <1>1, <1>19, ConfigsAssumption DEF ParamSide, ConfigsRun
    <2> QED
        BY <1>1, <1>3, <1>9, <2>1 DEF DeliveryTypeOK, NoIndex, Sends
<1> QED
    BY <1>1, <1>3, <1>20, <1>21, <1>22, AllocatorKept DEF DeliveryInv

-----------------------------------------------------------------------------
(* The steps of the allocator                                              *)

LEMMA DeliveryKept ==
    ASSUME DeliveryTypeOK, JobSide, ParamSide, UNCHANGED deliveryVars, jobs' = jobs
    PROVE  DeliveryTypeOK' /\ JobSide' /\ ParamSide'
<1>1. UNCHANGED <<slots, freeIndex, notified, paramNotified, sending, fetching, jobQueue,
                  jobsRun, fetchingParam, received>>
    BY DEF deliveryVars, queueVars, jobVars, paramVars
<1>2. JobsUntouched /\ ParamsUntouched
    BY <1>1 DEF JobsUntouched, ParamsUntouched, SameSends, Sends, ConfigsRun
<1>3. DeliveryTypeOK'
    BY <1>1 DEF DeliveryTypeOK, Sends
<1> QED
    BY <1>2, <1>3, JobFrame, ParamFrame

LEMMA ScheduleStep ==
    ASSUME DeliveryInv, DSchedule
    PROVE  DeliveryInv'
<1>1. DeliveryTypeOK /\ LaunchedOnce /\ JobSide /\ ParamSide /\ MapInv /\ TypeOK
    BY DEF DeliveryInv, MapInv
<1>2. /\ Schedule /\ UNCHANGED deliveryVars
      /\ jobs' = jobs /\ round' = round + 1 /\ round \in Nat
      /\ toLaunch' = {t \in Task : RoundOf[t] = round'}
    BY <1>1 DEF DSchedule, Schedule, TypeOK
<1>3. MapInv'
    BY <1>1, <1>2, NextKeepsMapInv DEF Next
<1>4. Sent \subseteq Sent'
    <2> SUFFICES ASSUME NEW t \in Sent PROVE t \in Sent'
        OBVIOUS
    <2>1. t \in Task /\ RoundOf[t] \in Nat /\ RoundOf[t] <= round
        BY TaskAssumption DEF Sent
    <2>2. RoundOf[t] <= round' /\ t \notin toLaunch'
        BY <1>2, <2>1
    <2> QED
        BY <2>1, <2>2 DEF Sent
<1> QED
    BY <1>1, <1>2, <1>3, <1>4, DeliveryKept DEF DeliveryInv, LaunchedOnce

LEMMA MapsStep ==
    ASSUME DeliveryInv, NEW t \in Task, DMap(t)
    PROVE  DeliveryInv'
<1>1. DeliveryTypeOK /\ LaunchedOnce /\ JobSide /\ ParamSide /\ MapInv
    BY DEF DeliveryInv
<1>2. Map(t) /\ UNCHANGED deliveryVars /\ UNCHANGED <<jobs, round, toLaunch>>
    BY DEF DMap, Map
<1>3. MapInv'
    BY <1>1, <1>2, NextKeepsMapInv DEF Next
<1> QED
    BY <1>1, <1>2, <1>3, DeliveryKept DEF DeliveryInv, LaunchedOnce, Sent

\* A launch sends one job of a task not launched before, or none.
JobLaunched(t, x, m) ==
    /\ m.taskIx = t
    /\ jobs' = [jobs EXCEPT ![x] = Append(@, m)]
    /\ sending' = [sending EXCEPT ![GRT] =
          [stage |-> "message", kind |-> "job", to |-> x, message |-> m]]

LEMMA LaunchStep ==
    ASSUME DeliveryInv, NEW t \in Task, DLaunch(t)
    PROVE  /\ sending[GRT] = Nothing /\ t \notin Sent /\ Sent' = Sent \cup {t} /\ MapInv'
           /\ UNCHANGED <<queueVars, jobVars, paramVars>>
           /\ \/ jobs' = jobs /\ sending' = sending
              \/ \E x \in LRT, m \in JobMessage : JobLaunched(t, x, m)
<1>1. TypeOK /\ Progress /\ Numbered /\ Synced /\ MapInv /\ DeliveryTypeOK
    BY DEF DeliveryInv, MapInv
<1>2. /\ sending[GRT] = Nothing /\ Launch(t) /\ UNCHANGED <<queueVars, jobVars, paramVars>>
      /\ toLaunch' = toLaunch \ {t} /\ t \in toLaunch /\ round' = round
    BY DEF DLaunch, GRTAllocates, Launch, NextOf
<1>3. MapInv'
    BY <1>1, <1>2, NextKeepsMapInv DEF Next
<1>4. RoundOf[t] = round /\ round \in Nat
    BY <1>1, <1>2 DEF Progress, TypeOK
<1>5. t \notin Sent /\ Sent' = Sent \cup {t}
    BY <1>2, <1>4 DEF Sent
<1>6. CASE state[t] = "READY"
    <2> DEFINE scan == ConstraintScan(t)
               message == [taskIx |-> t, execIx |-> jobExecIx[t],
                           execConstraints |-> scan.execConstraints,
                           synchronizationFlags |-> UNION {SinkFlags(t, u) : u \in Successors(t)}]
               x == mappedLRT[scan.at]
    <2>1. jobs' = [jobs EXCEPT ![x] = Append(@, message)]
        BY <1>2, <1>6 DEF Launch
    <2>2. x \in LRT /\ message \in JobMessage
        <3>1. scan.at \in Task /\ IsMapped(scan.at) /\ message \in JobMessage
            BY <1>1, <1>6, MessageType
        <3> HIDE DEF scan, message
        <3> QED
            BY <1>1, <3>1 DEF TypeOK, IsMapped
    <2>3. message.taskIx = t
        OBVIOUS
    <2> HIDE DEF scan, message, x
    <2>4. /\ jobs'[x] = Append(jobs[x], message) /\ jobs[x] \in Seq(JobMessage)
          /\ \A l \in LRT : l # x => jobs'[l] = jobs[l]
        BY <1>1, <2>1, <2>2 DEF TypeOK
    <2>5. Len(jobs'[x]) = Len(jobs[x]) + 1 /\ jobs'[x][Len(jobs[x]) + 1] = message
          /\ Len(jobs[x]) \in Nat
        BY <2>2, <2>4, AppendProperties, LenProperties
    <2>6. jobs'[x] # jobs[x]
        BY <2>5
    <2>7. (CHOOSE l \in LRT : jobs'[l] # jobs[l]) = x
        BY <2>2, <2>4, <2>6
    <2>8. sending' = [sending EXCEPT ![GRT] =
              [stage |-> "message", kind |-> "job", to |-> x, message |-> message]]
        <3>1. sending' = [sending EXCEPT ![GRT] =
                  LET to == CHOOSE l \in LRT : jobs'[l] # jobs[l]
                  IN  [stage |-> "message", kind |-> "job", to |-> to,
                       message |-> jobs'[to][Len(jobs'[to])]]]
            BY <2>2, <2>6 DEF DLaunch
        <3> QED
            BY <2>5, <2>7, <3>1
    <2> QED
        BY <1>2, <1>3, <1>5, <2>1, <2>2, <2>3, <2>8 DEF JobLaunched
<1>7. CASE state[t] # "READY"
    <2>1. jobs' = jobs
        BY <1>2, <1>7 DEF Launch
    <2>2. sending' = [sending EXCEPT ![GRT] = Nothing]
        BY <2>1 DEF DLaunch
    <2>3. sending' = sending
        BY <1>1, <1>2, <2>2 DEF DeliveryTypeOK
    <2> QED
        BY <1>2, <1>3, <1>5, <2>1, <2>3
<1> QED
    BY <1>6, <1>7

LEMMA LaunchesStep ==
    ASSUME DeliveryInv, NEW t \in Task, DLaunch(t)
    PROVE  DeliveryInv'
<1>1. DeliveryTypeOK /\ LaunchedOnce /\ JobSide /\ ParamSide /\ MapInv /\ TypeOK
    BY DEF DeliveryInv, MapInv
<1>2. /\ sending[GRT] = Nothing /\ t \notin Sent /\ Sent' = Sent \cup {t} /\ MapInv'
      /\ UNCHANGED <<queueVars, jobVars, paramVars>>
    BY LaunchStep
<1>3. UNCHANGED <<slots, freeIndex, notified, fetching, jobQueue, jobsRun,
                  paramNotified, fetchingParam, received>>
    BY <1>2 DEF queueVars, jobVars, paramVars
<1>4. CASE jobs' = jobs /\ sending' = sending
    <2>1. UNCHANGED deliveryVars
        BY <1>2, <1>4 DEF deliveryVars
    <2> QED
        BY <1>1, <1>2, <1>4, <2>1, DeliveryKept DEF DeliveryInv, LaunchedOnce
<1>5. ASSUME NEW x \in LRT, NEW m \in JobMessage, JobLaunched(t, x, m) PROVE DeliveryInv'
    <2> DEFINE n == Len(jobs[x])
    <2>1. /\ jobs[x] \in Seq(JobMessage) /\ n \in Nat /\ jobs'[x] = Append(jobs[x], m)
          /\ \A l \in LRT : l # x => jobs'[l] = jobs[l]
          /\ m.taskIx = t
        BY <1>1, <1>5 DEF TypeOK, JobLaunched
    <2>2. /\ Len(jobs'[x]) = n + 1 /\ jobs'[x][n + 1] = m
          /\ \A i \in 1 .. n : jobs'[x][i] = jobs[x][i]
        BY <2>1, AppendProperties
    <2>3. /\ sending'[GRT] = [stage |-> "message", kind |-> "job", to |-> x, message |-> m]
          /\ \A l \in LRT : l # GRT => sending'[l] = sending[l]
          /\ sending' \in [LRT -> SendState]
        <3>1. sending \in [LRT -> SendState]
            BY <1>1 DEF DeliveryTypeOK
        <3>2. [stage |-> "message", kind |-> "job", to |-> x, message |-> m] \in SendState
            BY DEF SendState
        <3> QED
            BY <1>5, <3>1, <3>2, PlaceNames DEF JobLaunched
    <2>4. /\ ~ Sends(GRT, "notification", "job")' /\ Sends(GRT, "message", "job")'
          /\ \A stage \in {"message", "notification"} : \A kind \in Kind : ~ Sends(GRT, stage, kind)
          /\ \A stage \in {"message", "notification"} : ~ Sends(GRT, stage, "param")'
        BY <1>2, <2>3 DEF Sends, Nothing
    <2>5. DeliveryTypeOK'
        BY <1>1, <1>3, <2>3 DEF DeliveryTypeOK, Sends
    <2>6. ASSUME NEW l \in LRT, NEW i \in 1 .. Len(jobs'[l])
          PROVE  \/ l = x /\ i = n + 1 /\ jobs'[l][i] = m
                 \/ i \in 1 .. Len(jobs[l]) /\ jobs'[l][i] = jobs[l][i]
        <3>1. CASE l = x
            <4>1. i = n + 1 \/ i \in 1 .. n
                BY <2>1, <2>2, <3>1
            <4> QED
                BY <2>2, <3>1, <4>1
        <3>2. CASE l # x
            BY <2>1, <3>2
        <3> QED
            BY <3>1, <3>2
    <2>7. LaunchedOnce'
        <3>1. \A l \in LRT : \A i \in 1 .. Len(jobs'[l]) : jobs'[l][i].taskIx \in Sent'
            BY <1>1, <1>2, <2>1, <2>6 DEF LaunchedOnce
        <3>2. ASSUME NEW l \in LRT, NEW k \in LRT, NEW i \in 1 .. Len(jobs'[l]),
                     NEW j \in 1 .. Len(jobs'[k]), jobs'[l][i].taskIx = jobs'[k][j].taskIx
              PROVE  l = k /\ i = j
            <4>1. CASE l = x /\ i = n + 1 /\ jobs'[l][i] = m
                <5>1. jobs'[k][j].taskIx \notin Sent
                    BY <1>2, <2>1, <3>2, <4>1
                <5>2. k = x /\ j = n + 1
                    BY <1>1, <2>6, <5>1 DEF LaunchedOnce
                <5> QED
                    BY <4>1, <5>2
            <4>2. CASE k = x /\ j = n + 1 /\ jobs'[k][j] = m
                <5>1. jobs'[l][i].taskIx \notin Sent
                    BY <1>2, <2>1, <3>2, <4>2
                <5>2. l = x /\ i = n + 1
                    BY <1>1, <2>6, <5>1 DEF LaunchedOnce
                <5> QED
                    BY <4>2, <5>2
            <4>3. CASE /\ i \in 1 .. Len(jobs[l]) /\ jobs'[l][i] = jobs[l][i]
                       /\ j \in 1 .. Len(jobs[k]) /\ jobs'[k][j] = jobs[k][j]
                BY <1>1, <3>2, <4>3 DEF LaunchedOnce
            <4> QED
                BY <2>6, <4>1, <4>2, <4>3
        <3> QED
            BY <3>1, <3>2 DEF LaunchedOnce
    <2>8. \A l \in LRT : JobIndices(l)' = JobIndices(l)
        BY <1>3, <2>4 DEF JobIndices, Kind
    <2>9. ASSUME NEW l \in LRT PROVE JobsHeld(l)'
        <3> DEFINE q == Len(jobQueue[l])
                   k == Len(JobIndices(l))
        <3>1. JobsHeld(l) /\ ~ JobPushed(l) /\ q \in Nat /\ k \in Nat
            BY <1>1, <2>4, JobQueueTyped DEF JobSide, JobPushed, Kind
        <3>2. /\ Len(jobs[l]) = q + k + 0
              /\ \A i \in 1 .. q : jobs[l][i] = jobQueue[l][i]
              /\ \A i \in 1 .. k : jobs[l][q + i] = slots["job"][JobIndices(l)[i]]
            BY <3>1 DEF JobsHeld
        <3>3. /\ jobQueue'[l] = jobQueue[l] /\ slots' = slots /\ JobIndices(l)' = JobIndices(l)
            BY <1>3, <2>8
        <3>4. CASE l = x
            <4>1. JobPushed(l)' /\ sending'[GRT].message = m
                BY <2>3, <2>4, <3>4 DEF JobPushed
            <4>2. Len(jobs'[l]) = Len(jobQueue'[l]) + Len(JobIndices(l)') + 1
                BY <2>2, <3>1, <3>2, <3>3, <3>4
            <4>3. \A i \in 1 .. q : jobs'[l][i] = jobQueue[l][i]
                <5>1. 1 .. q \subseteq 1 .. n
                    BY <3>1, <3>2, <3>4
                <5> QED
                    BY <2>2, <3>2, <3>4, <5>1
            <4>4. ASSUME NEW i \in 1 .. k
                  PROVE  jobs'[l][q + i] = slots["job"][JobIndices(l)[i]]
                <5>1. q + i \in 1 .. n
                    BY <3>1, <3>2, <3>4
                <5> QED
                    BY <2>2, <3>2, <3>4, <5>1
            <4>5. jobs'[l][Len(jobs'[l])] = m
                BY <2>2, <3>4
            <4> QED
                BY <3>3, <4>1, <4>2, <4>3, <4>4, <4>5 DEF JobsHeld
        <3>5. CASE l # x
            <4>1. ~ JobPushed(l)' /\ jobs'[l] = jobs[l]
                BY <2>1, <2>3, <3>5 DEF JobPushed
            <4> QED
                BY <3>1, <3>2, <3>3, <4>1 DEF JobsHeld
        <3> QED
            BY <3>4, <3>5
    <2>10. JobSide'
        <3>1. JobsAt' = JobsAt
            BY <1>3, <2>8 DEF JobsAt, JobPlaces
        <3> QED
            BY <1>1, <1>3, <2>9, <3>1 DEF JobSide, Apart, Bounded
    <2>11. ParamSide'
        <3>1. \A l \in LRT : SameSends(l, "param")
            <4> SUFFICES ASSUME NEW l \in LRT PROVE SameSends(l, "param")
                OBVIOUS
            <4>1. CASE l = GRT
                BY <2>4, <4>1 DEF SameSends, Kind
            <4>2. CASE l # GRT
                BY <2>3, <4>2 DEF SameSends, Sends
            <4> QED
                BY <4>1, <4>2
        <3>2. ConfigsRun' = ConfigsRun
            BY <1>3 DEF ConfigsRun
        <3>3. ParamsUntouched
            BY <1>3, <3>1, <3>2 DEF ParamsUntouched
        <3> QED
            BY <1>1, <3>3, ParamFrame
    <2> QED
        BY <1>2, <2>5, <2>7, <2>10, <2>11 DEF DeliveryInv
<1> QED
    BY <1>4, <1>5, LaunchStep

\* What a LRT holds is the beginning of what was sent to it.
LEMMA HeldFirst ==
    ASSUME DeliveryTypeOK, JobSide, NEW l \in LRT
    PROVE  /\ Len(jobQueue[l]) \in Nat /\ Len(JobIndices(l)) \in Nat /\ jobsRun[l] \in Nat
           /\ jobsRun[l] <= Len(jobQueue[l])
           /\ Len(jobQueue[l]) + Len(JobIndices(l)) <= Len(jobs[l])
           /\ \A i \in 1 .. jobsRun[l] : i \in 1 .. Len(jobs[l]) /\ jobs[l][i] = jobQueue[l][i]
<1>1. /\ Len(jobQueue[l]) \in Nat /\ Len(JobIndices(l)) \in Nat /\ jobsRun[l] \in Nat
      /\ jobsRun[l] <= Len(jobQueue[l]) /\ JobsHeld(l)
    BY JobQueueTyped DEF DeliveryTypeOK, JobSide
<1>2. JobPushed(l) => Len(jobs[l]) = Len(jobQueue[l]) + Len(JobIndices(l)) + 1
    BY <1>1 DEF JobsHeld
<1>3. ~ JobPushed(l) => Len(jobs[l]) = Len(jobQueue[l]) + Len(JobIndices(l)) + 0
    BY <1>1 DEF JobsHeld
<1>4. Len(jobQueue[l]) + Len(JobIndices(l)) <= Len(jobs[l]) /\ Len(jobs[l]) \in Int
    BY <1>1, <1>2, <1>3
<1>5. \A i \in 1 .. Len(jobQueue[l]) : jobs[l][i] = jobQueue[l][i]
    BY <1>1 DEF JobsHeld
<1>6. \A i \in 1 .. jobsRun[l] : i \in 1 .. Len(jobs[l]) /\ i \in 1 .. Len(jobQueue[l])
    BY <1>1, <1>4
<1> QED
    BY <1>1, <1>4, <1>5, <1>6

\* At the end of a round nothing is on its way.
LEMMA NothingOnTheWay ==
    ASSUME DeliveryTypeOK, LaunchedOnce, JobSide, ParamSide, RoundOver
    PROVE  ElementsOf(ValuesAt) = {} /\ \A l \in LRT : Len(JobIndices(l)) = 0
<1>1. \A l \in LRT : jobsRun[l] = Len(jobs[l])
    BY DEF RoundOver
<1>2. \A l \in LRT : Len(JobIndices(l)) = 0
    <2> SUFFICES ASSUME NEW l \in LRT PROVE Len(JobIndices(l)) = 0
        OBVIOUS
    <2>1. /\ Len(jobQueue[l]) \in Nat /\ Len(JobIndices(l)) \in Nat /\ jobsRun[l] \in Nat
          /\ jobsRun[l] <= Len(jobQueue[l]) /\ Len(jobQueue[l]) + Len(JobIndices(l)) <= Len(jobs[l])
        BY HeldFirst
    <2> QED
        BY <1>1, <2>1
<1>3. ConfigsRun \subseteq received
    <2> SUFFICES ASSUME NEW t \in ConfigsRun PROVE t \in received
        OBVIOUS
    <2>1. PICK l \in LRT : \E i \in 1 .. jobsRun[l] : jobQueue[l][i].taskIx = t
        BY DEF ConfigsRun
    <2>2. PICK i \in 1 .. jobsRun[l] : jobQueue[l][i].taskIx = t
        BY <2>1
    <2>3. i \in 1 .. Len(jobs[l]) /\ jobs[l][i] = jobQueue[l][i]
        BY HeldFirst
    <2>4. t \in Sent /\ t \in Configs
        BY <2>2, <2>3 DEF LaunchedOnce, ConfigsRun
    <2> QED
        BY <2>4 DEF RoundOver, Sent
<1> QED
    BY <1>2, <1>3 DEF ParamSide

LEMMA ClearStep ==
    ASSUME DeliveryInv, DClear
    PROVE  DeliveryInv'
<1>1. DeliveryTypeOK /\ LaunchedOnce /\ JobSide /\ ParamSide /\ MapInv
    BY DEF DeliveryInv
<1>2. /\ RoundOver /\ Clear
      /\ jobQueue' = [l \in LRT |-> << >>] /\ jobsRun' = [l \in LRT |-> 0] /\ received' = {}
      /\ jobs' = [l \in LRT |-> << >>]
      /\ UNCHANGED <<slots, freeIndex, notified, fetching, paramNotified, fetchingParam, sending>>
    BY DEF DClear, Clear, queueVars
<1>3. MapInv'
    BY <1>1, <1>2, NextKeepsMapInv DEF Next
<1>4. ElementsOf(ValuesAt) = {} /\ \A l \in LRT : Len(JobIndices(l)) = 0
    BY <1>1, <1>2, NothingOnTheWay
<1>5. \A l \in LRT : /\ jobs'[l] = << >> /\ Len(jobs'[l]) = 0 /\ jobQueue'[l] = << >>
                     /\ Len(jobQueue'[l]) = 0 /\ jobsRun'[l] = 0
    BY <1>2, EmptySeq
<1>6. LaunchedOnce'
    BY <1>5 DEF LaunchedOnce
<1>7. DeliveryTypeOK'
    <2>1. jobQueue' \in [LRT -> Seq(JobMessage)] /\ jobsRun' \in [LRT -> Nat]
        BY <1>2, EmptySeq
    <2> QED
        BY <1>1, <1>2, <1>5, <2>1 DEF DeliveryTypeOK, Sends
<1>8. \A l \in LRT : JobIndices(l)' = JobIndices(l)
    BY <1>2 DEF JobIndices, Sends
<1>9. JobSide'
    <2>1. JobsAt' = JobsAt
        BY <1>2, <1>8 DEF JobsAt, JobPlaces
    <2>2. ASSUME NEW l \in LRT PROVE JobsHeld(l)'
        <3>1. ~ JobPushed(l)'
            BY <1>2, PlaceNames DEF RoundOver, JobPushed, Sends, Nothing
        <3> QED
            BY <1>4, <1>5, <1>8, <3>1 DEF JobsHeld
    <2> QED
        BY <1>1, <1>2, <2>1, <2>2 DEF JobSide, Apart, Bounded
<1>10. ParamSide'
    <2>1. ParamIndices' = ParamIndices
        BY <1>2 DEF ParamIndices
    <2>2. ParamsAt' = ParamsAt /\ ValuesAt' = ValuesAt
        BY <1>2, <2>1 DEF ParamsAt, ValuesAt, Sends
    <2>3. ConfigsRun' = {}
        BY <1>5 DEF ConfigsRun
    <2> QED
        BY <1>1, <1>2, <1>4, <2>2, <2>3 DEF ParamSide, Apart, Bounded, ElementsOf
<1> QED
    BY <1>3, <1>6, <1>7, <1>9, <1>10 DEF DeliveryInv

-----------------------------------------------------------------------------
(* Every step                                                              *)

LEMMA InitDeliveryInv ==
    ASSUME DInit
    PROVE  DeliveryInv
<1>1. /\ slots = [k \in Kind |-> << >>] /\ freeIndex = [k \in Kind |-> << >>]
      /\ notified = [l \in LRT |-> << >>] /\ paramNotified = << >>
      /\ sending = [l \in LRT |-> Nothing] /\ fetching = [l \in LRT |-> NoIndex]
      /\ jobQueue = [l \in LRT |-> << >>] /\ jobsRun = [l \in LRT |-> 0]
      /\ fetchingParam = NoIndex /\ received = {} /\ jobs = [l \in LRT |-> << >>]
      /\ Init
    BY DEF DInit, Init
<1>2. MapInv
    BY <1>1, InitMapInv
<1>3. LaunchedOnce
    BY <1>1, EmptySeq DEF LaunchedOnce
<1>4. \A l \in LRT : /\ sending[l] = Nothing /\ jobs[l] = << >> /\ jobQueue[l] = << >>
                     /\ jobsRun[l] = 0 /\ notified[l] = << >> /\ fetching[l] = NoIndex
                     /\ Len(jobQueue[l]) = 0 /\ Len(jobs[l]) = 0
                     /\ \A stage \in {"message", "notification"} : \A kind \in Kind :
                            ~ Sends(l, stage, kind)
    BY <1>1, EmptySeq DEF Sends, Nothing
<1>5. DeliveryTypeOK
    <2>1. /\ slots \in [Kind -> Seq(Item)] /\ freeIndex \in [Kind -> Seq(Index)]
          /\ notified \in [LRT -> Seq(Index)] /\ paramNotified \in Seq(Index)
          /\ jobQueue \in [LRT -> Seq(JobMessage)]
        BY <1>1, EmptySeq
    <2>2. sending \in [LRT -> SendState] /\ fetching \in [LRT -> Nat] /\ jobsRun \in [LRT -> Nat]
        BY <1>1 DEF SendState, NoIndex
    <2> QED
        BY <1>1, <1>4, <2>1, <2>2 DEF DeliveryTypeOK, NoIndex, Kind
<1>6. << >> \o << >> = << >>
    BY EmptySeq, ConcatEmptySeq
<1>7. ParamIndices = << >> /\ \A l \in LRT : JobIndices(l) = << >>
    BY <1>1, <1>4, <1>6, PlaceNames DEF ParamIndices, JobIndices, Kind
<1>8. \A d \in JobPlaces : JobsAt[d] = << >>
    BY <1>1, <1>7 DEF JobsAt, JobPlaces, Kind
<1>9. \A d \in ParamPlaces : ParamsAt[d] = << >>
    BY <1>1, <1>4, <1>7 DEF ParamsAt, ParamPlaces, Kind
<1>10. \A d \in ValuePlaces : ValuesAt[d] = << >>
    <2>1. [i \in 1 .. Len(<< >>) |-> slots["param"][(<< >>)[i]]] = << >>
        BY EmptySeq
    <2> QED
        BY <1>4, <1>7, <2>1 DEF ValuesAt, ValuePlaces, Kind
<1>11. DOMAIN JobsAt = JobPlaces /\ DOMAIN ParamsAt = ParamPlaces /\ DOMAIN ValuesAt = ValuePlaces
    BY DEF JobsAt, ParamsAt, ValuesAt
<1>12. Len(<< >>) = 0
    BY EmptySeq
<1>13. JobSide
    <2>1. \A l \in LRT : ~ JobPushed(l)
        BY <1>4, PlaceNames DEF JobPushed, Kind
    <2>2. ASSUME NEW l \in LRT PROVE JobsHeld(l)
        <3>1. /\ Len(jobs[l]) = 0 /\ Len(jobQueue[l]) = 0 /\ Len(JobIndices(l)) = 0
              /\ ~ JobPushed(l)
            BY <1>4, <1>7, <1>12, <2>1
        <3> QED
            BY <3>1 DEF JobsHeld
    <2> HIDE DEF JobsAt
    <2> QED
        BY <1>8, <1>11, <1>12, <2>2 DEF JobSide, Apart, Bounded
<1>14. ParamSide
    <2>1. ConfigsRun = {} /\ received = {}
        BY <1>1, <1>4 DEF ConfigsRun
    <2>2. ElementsOf(ValuesAt) = {}
        BY <1>10, <1>11, <1>12 DEF ElementsOf
    <2> QED
        BY <1>9, <1>10, <1>11, <1>12, <2>1, <2>2 DEF ParamSide, Apart, Bounded
<1> QED
    BY <1>2, <1>3, <1>5, <1>13, <1>14 DEF DeliveryInv

LEMMA NextKeepsDeliveryInv ==
    ASSUME DeliveryInv, [DNext]_dvars
    PROVE  DeliveryInv'
<1>1. CASE DSchedule
    BY <1>1, ScheduleStep
<1>2. ASSUME NEW t \in Task, DMap(t) PROVE DeliveryInv'
    BY <1>2, MapsStep
<1>3. ASSUME NEW t \in Task, DLaunch(t) PROVE DeliveryInv'
    BY <1>3, LaunchesStep
<1>4. ASSUME NEW l \in LRT, PushMessage(l) PROVE DeliveryInv'
    <2>1. sending[l].kind \in Kind /\ (sending[l].kind = "job" => l = GRT)
        BY <1>4, PushStep DEF DeliveryInv
    <2> QED
        BY <1>4, <2>1, PushJobMessage, PushParamMessage DEF Kind
<1>5. ASSUME NEW l \in LRT, PushNotification(l) PROVE DeliveryInv'
    <2>1. sending[l].kind = "job" \/ sending[l].kind = "param"
        BY <1>5, NotificationStep DEF DeliveryInv, NotificationEffect, Sends
    <2>2. sending[l].kind = "job" => l = GRT
        BY <1>5 DEF DeliveryInv, DeliveryTypeOK, PushNotification, Sends
    <2> QED
        BY <1>5, <2>1, <2>2, NotifyJob, NotifyParam
<1>6. ASSUME NEW l \in LRT, ReadNotification(l) PROVE DeliveryInv'
    BY <1>6, ReadJob
<1>7. ASSUME NEW l \in LRT, FetchJob(l) PROVE DeliveryInv'
    BY <1>7, FetchJobStep
<1>8. ASSUME NEW l \in LRT, RunJob(l) PROVE DeliveryInv'
    BY <1>8, RunJobStep
<1>9. CASE ReadParamNotification
    BY <1>9, ReadParam
<1>10. CASE FetchParam
    BY <1>10, FetchParamStep
<1>11. CASE DClear
    BY <1>11, ClearStep
<1>12. CASE UNCHANGED dvars
    <2>1. UNCHANGED allocatorVars /\ UNCHANGED deliveryVars
        BY <1>12 DEF dvars
    <2> QED
        BY <2>1, AllocatorKept, DeliveryKept DEF DeliveryInv
<1> QED
    BY <1>1, <1>2, <1>3, <1>4, <1>5, <1>6, <1>7, <1>8, <1>9, <1>10, <1>11, <1>12 DEF DNext

\* Each slot of the shared queues is free or on its way to one reader.
THEOREM DeliveryInvariant == DSpec => []DeliveryInv
<1>1. DInit => DeliveryInv
    BY InitDeliveryInv
<1>2. DeliveryInv /\ [DNext]_dvars => DeliveryInv'
    BY NextKeepsDeliveryInv
<1> QED
    BY <1>1, <1>2, PTL DEF DSpec

\* What the queues and the threads do between two steps of the allocator is not
\* seen by it.
THEOREM DeliveryRunsAllocator == DSpec => Spec
<1>1. DInit => Init
    BY DEF DInit
<1>2. [DNext]_dvars => [Next]_vars
    <2> SUFFICES ASSUME [DNext]_dvars PROVE [Next]_vars
        OBVIOUS
    <2>1. CASE DSchedule
        BY <2>1 DEF DSchedule, Next
    <2>2. CASE \E t \in Task : DMap(t) \/ DLaunch(t)
        BY <2>2 DEF DMap, DLaunch, Next
    <2>3. CASE \E l \in LRT : PushMessage(l)
        BY <2>3 DEF PushMessage, vars
    <2>4. CASE \E l \in LRT : PushNotification(l)
        BY <2>4 DEF PushNotification, vars
    <2>5. CASE \E l \in LRT : ReadNotification(l)
        BY <2>5 DEF ReadNotification, vars
    <2>6. CASE \E l \in LRT : FetchJob(l)
        BY <2>6 DEF FetchJob, vars
    <2>7. CASE \E l \in LRT : RunJob(l)
        BY <2>7 DEF RunJob, vars
    <2>8. CASE ReadParamNotification
        BY <2>8 DEF ReadParamNotification, vars
    <2>9. CASE FetchParam
        BY <2>9 DEF FetchParam, vars
    <2>10. CASE DClear
        BY <2>10 DEF DClear, Next
    <2>11. CASE UNCHANGED dvars
        BY <2>11 DEF dvars, vars
    <2> QED
        BY <2>1, <2>2, <2>3, <2>4, <2>5, <2>6, <2>7, <2>8, <2>9, <2>10, <2>11 DEF DNext
<1> QED
    BY <1>1, <1>2, PTL DEF DSpec, Spec

-----------------------------------------------------------------------------
(* No message is lost, repeated or read by another LRT                     *)

\* The jobs in the slots on their way to l, then the one being pushed.
OnTheWayTo(l) ==
    Through(slots["job"], JobIndices(l))
        \o (IF JobPushed(l) THEN <<sending[GRT].message>> ELSE << >>)

LEMMA OnTheWayIs ==
    ASSUME DeliveryTypeOK, JobSide, NEW l \in LRT
    PROVE  /\ OnTheWay(l) = OnTheWayTo(l)
           /\ Through(slots["job"], JobIndices(l)) \in Seq(Item)
           /\ JobPushed(l) => sending[GRT].message \in Item
<1> DEFINE f == slots["job"]
           told == Notified(l)
<1>1. f \in Seq(Item) /\ told \in Seq(Index) /\ JobIndices(l) \in Seq(Index)
      /\ Len(JobIndices(l)) \in Nat
    BY NotifiedType, JobQueueTyped, SlotsOf DEF Kind
<1>2. \A i \in 1 .. Len(JobIndices(l)) : JobIndices(l)[i] \in 1 .. Len(f)
    BY PlaceNames DEF JobSide, Bounded, JobsAt, JobPlaces
<1>3. Through(f, JobIndices(l)) \in Seq(Item)
    BY <1>1, <1>2 DEF Through
<1>4. /\ sending[GRT].stage \in {"none", "message", "notification"}
      /\ sending[GRT].stage = "message" => sending[GRT].message \in Item
      /\ sending[GRT].stage = "notification" => sending[GRT].ix \in Index
      /\ sending[GRT].stage = "none" => sending[GRT] = Nothing
    BY PlaceNames, SendFacts DEF DeliveryTypeOK
<1>5. CASE JobPushed(l)
    <2>1. /\ sending[GRT].stage = "message" /\ sending[GRT].kind = "job" /\ sending[GRT].to = l
          /\ ~ Sends(GRT, "notification", "job")
        BY <1>5 DEF JobPushed, Sends
    <2>2. JobIndices(l) = told
        <3>1. JobIndices(l) = told \o << >>
            BY <2>1 DEF JobIndices, Notified
        <3> QED
            BY <1>1, <3>1, ConcatEmptySeq
    <2>3. OnTheWay(l) = Through(f, told) \o <<sending[GRT].message>>
        BY <2>1 DEF OnTheWay, Notified, Through
    <2> QED
        BY <1>3, <1>4, <1>5, <2>1, <2>2, <2>3 DEF OnTheWayTo
<1>6. CASE Sends(GRT, "notification", "job") /\ sending[GRT].to = l
    <2> DEFINE ix == sending[GRT].ix
    <2>1. /\ sending[GRT].stage = "notification" /\ sending[GRT].kind = "job"
          /\ sending[GRT].to = l /\ ~ JobPushed(l) /\ ix \in Index
        BY <1>4, <1>6 DEF JobPushed, Sends
    <2>2. OnTheWay(l) = Through(f, told) \o <<f[ix]>>
        BY <2>1 DEF OnTheWay, Notified, Through
    <2>3. JobIndices(l) = told \o <<ix>>
        BY <1>6 DEF JobIndices, Notified
    <2> HIDE DEF ix
    <2>4. /\ JobIndices(l) = Append(told, ix) /\ Len(JobIndices(l)) = Len(told) + 1
          /\ JobIndices(l)[Len(told) + 1] = ix /\ Len(told) \in Nat
          /\ \A i \in 1 .. Len(told) : JobIndices(l)[i] = told[i]
        BY <1>1, <2>1, <2>3, AddOne, LenProperties
    <2>5. f[ix] \in Item
        <3>1. ix \in 1 .. Len(f)
            BY <1>2, <2>4
        <3> QED
            BY <1>1, <3>1, ElementOfSeq
    <2>6. Through(f, told) \in Seq(Item)
        <3>1. \A i \in 1 .. Len(told) : told[i] \in 1 .. Len(f)
            BY <1>2, <2>4
        <3> QED
            BY <1>1, <2>4, <3>1 DEF Through
    <2> HIDE DEF told, f
    <2>7. Through(f, JobIndices(l)) = Append(Through(f, told), f[ix])
        BY <1>1, <2>1, <2>4, <2>5, <2>6, ThroughAppend
    <2>8. Through(f, told) \o <<f[ix]>> = Append(Through(f, told), f[ix])
        BY <2>5, <2>6, AddOne
    <2>9. OnTheWay(l) = Through(f, JobIndices(l))
        BY <2>2, <2>7, <2>8 DEF f
    <2>10. Through(f, JobIndices(l)) \o << >> = Through(f, JobIndices(l))
        BY <1>3, ConcatEmptySeq
    <2> QED
        BY <1>3, <2>1, <2>9, <2>10 DEF OnTheWayTo, f
<1>7. CASE ~ JobPushed(l) /\ ~ (Sends(GRT, "notification", "job") /\ sending[GRT].to = l)
    <2>1. JobIndices(l) = told
        <3>1. JobIndices(l) = told \o << >>
            BY <1>7 DEF JobIndices, Notified
        <3> QED
            BY <1>1, <3>1, ConcatEmptySeq
    <2>2. \/ sending[GRT].stage = "none" \/ sending[GRT].kind # "job" \/ sending[GRT].to # l
        BY <1>4, <1>7 DEF JobPushed, Sends
    <2>3. OnTheWay(l) = Through(f, told) \o << >>
        BY <2>2 DEF OnTheWay, Notified, Through
    <2> QED
        BY <1>3, <1>7, <2>1, <2>3 DEF OnTheWayTo
<1> QED
    BY <1>5, <1>6, <1>7

LEMMA JobsDelivered ==
    ASSUME DeliveryTypeOK, JobSide, TypeOK, NEW l \in LRT
    PROVE  jobQueue[l] \o OnTheWay(l) = jobs[l]
<1> DEFINE had == jobQueue[l]
           coming == Through(slots["job"], JobIndices(l))
           last == IF JobPushed(l) THEN <<sending[GRT].message>> ELSE << >>
           q == Len(had)
           k == Len(coming)
           e == Len(last)
<1>1. /\ had \in Seq(Item) /\ coming \in Seq(Item) /\ last \in Seq(Item) /\ jobs[l] \in Seq(Item)
      /\ e = IF JobPushed(l) THEN 1 ELSE 0
    <2>1. JobMessage \subseteq Item
        BY DEF Item
    <2>2. had \in Seq(JobMessage) /\ jobs[l] \in Seq(JobMessage)
        BY DEF DeliveryTypeOK, TypeOK
    <2>3. had \in Seq(Item) /\ jobs[l] \in Seq(Item)
        BY <2>1, <2>2, SeqMonotonic
    <2>4. last \in Seq(Item) /\ e = IF JobPushed(l) THEN 1 ELSE 0
        BY OnTheWayIs, AtMostOne, EmptySeq
    <2> QED
        BY <2>3, <2>4, OnTheWayIs
<1>2. /\ JobsHeld(l) /\ k = Len(JobIndices(l)) /\ k \in Nat /\ q \in Nat /\ e \in Nat
      /\ \A i \in 1 .. k : coming[i] = slots["job"][JobIndices(l)[i]]
    BY <1>1, JobQueueTyped, LenProperties DEF JobSide, Through
<1>3. /\ Len(jobs[l]) = q + k + e
      /\ \A i \in 1 .. q : jobs[l][i] = had[i]
      /\ \A i \in 1 .. k : jobs[l][q + i] = coming[i]
    BY <1>1, <1>2 DEF JobsHeld
<1>4. \A i \in 1 .. e : jobs[l][q + k + i] = last[i]
    <2> SUFFICES ASSUME NEW i \in 1 .. e PROVE jobs[l][q + k + i] = last[i]
        OBVIOUS
    <2>1. JobPushed(l) /\ e = 1 /\ i = 1
        BY <1>1
    <2>2. last[1] = sending[GRT].message
        BY <2>1
    <2>3. jobs[l][Len(jobs[l])] = sending[GRT].message
        BY <1>2, <2>1 DEF JobsHeld
    <2> QED
        BY <1>3, <2>1, <2>2, <2>3
<1> HIDE DEF had, coming, last, q, k, e
<1> DEFINE rest == coming \o last
           all == had \o rest
<1>5. /\ rest \in Seq(Item) /\ Len(rest) = k + e
      /\ \A i \in 1 .. k + e : rest[i] = IF i <= k THEN coming[i] ELSE last[i - k]
    BY <1>1, ConcatProperties DEF k, e
<1> HIDE DEF rest
<1>6. /\ all \in Seq(Item) /\ Len(all) = q + Len(rest)
      /\ \A i \in 1 .. q + Len(rest) : all[i] = IF i <= q THEN had[i] ELSE rest[i - q]
    BY <1>1, <1>5, ConcatProperties DEF q
<1> HIDE DEF all
<1>7. Len(all) = Len(jobs[l])
    BY <1>2, <1>3, <1>5, <1>6
<1>8. ASSUME NEW i \in 1 .. Len(all) PROVE all[i] = jobs[l][i]
    <2>1. i \in 1 .. q + (k + e) /\ i \in Nat
        BY <1>2, <1>5, <1>6
    <2>2. CASE i <= q
        <3>1. i \in 1 .. q /\ i \in 1 .. q + Len(rest)
            BY <1>2, <1>5, <2>1, <2>2
        <3>2. all[i] = had[i] /\ jobs[l][i] = had[i]
            BY <1>3, <1>6, <2>2, <3>1
        <3> QED
            BY <3>2
    <2>3. CASE ~ (i <= q) /\ i - q <= k
        <3>1. all[i] = rest[i - q] /\ i - q \in 1 .. k + e /\ i - q \in 1 .. k /\ q + (i - q) = i
            BY <1>2, <1>5, <1>6, <2>1, <2>3
        <3>2. rest[i - q] = coming[i - q] /\ jobs[l][q + (i - q)] = coming[i - q]
            BY <1>3, <1>5, <2>3, <3>1
        <3> QED
            BY <3>1, <3>2
    <2>4. CASE ~ (i <= q) /\ ~ (i - q <= k)
        <3>1. /\ all[i] = rest[i - q] /\ i - q \in 1 .. k + e /\ i - q - k \in 1 .. e
              /\ q + k + (i - q - k) = i
            BY <1>2, <1>5, <1>6, <2>1, <2>4
        <3>2. rest[i - q] = last[i - q - k] /\ jobs[l][q + k + (i - q - k)] = last[i - q - k]
            BY <1>4, <1>5, <2>4, <3>1
        <3> QED
            BY <3>1, <3>2
    <2> QED
        BY <2>2, <2>3, <2>4
<1>9. all = jobs[l]
    BY <1>1, <1>6, <1>7, <1>8, SeqEqual
<1> QED
    BY <1>9, OnTheWayIs DEF OnTheWayTo, all, rest, had, coming, last

Members(s) == {s[i] : i \in 1 .. Len(s)}

LEMMA ConcatMembers ==
    ASSUME NEW S, NEW s \in Seq(S), NEW u \in Seq(S)
    PROVE  Members(s \o u) = Members(s) \cup Members(u)
<1> DEFINE a == s \o u
<1>1. /\ Len(s) \in Nat /\ Len(u) \in Nat /\ Len(a) = Len(s) + Len(u)
      /\ \A i \in 1 .. Len(s) + Len(u) : a[i] = IF i <= Len(s) THEN s[i] ELSE u[i - Len(s)]
    BY ConcatProperties, LenProperties
<1> HIDE DEF a
<1>2. ASSUME NEW i \in 1 .. Len(a) PROVE a[i] \in Members(s) \cup Members(u)
    <2>1. CASE i <= Len(s)
        <3>1. i \in 1 .. Len(s) /\ a[i] = s[i]
            BY <1>1, <2>1
        <3> QED
            BY <3>1 DEF Members
    <2>2. CASE ~ (i <= Len(s))
        <3>1. i - Len(s) \in 1 .. Len(u) /\ a[i] = u[i - Len(s)]
            BY <1>1, <2>2
        <3> QED
            BY <3>1 DEF Members
    <2> QED
        BY <2>1, <2>2
<1>3. ASSUME NEW i \in 1 .. Len(s) PROVE s[i] \in Members(a)
    <2>1. i \in 1 .. Len(a) /\ a[i] = s[i]
        BY <1>1
    <2> QED
        BY <2>1 DEF Members
<1>4. ASSUME NEW i \in 1 .. Len(u) PROVE u[i] \in Members(a)
    <2>1. i + Len(s) \in 1 .. Len(a) /\ ~ (i + Len(s) <= Len(s)) /\ (i + Len(s)) - Len(s) = i
        BY <1>1
    <2>2. a[i + Len(s)] = u[i]
        BY <1>1, <2>1
    <2> QED
        BY <2>1, <2>2 DEF Members
<1>5. Members(a) \subseteq Members(s) \cup Members(u)
    BY <1>2 DEF Members
<1>6. Members(s) \subseteq Members(a) /\ Members(u) \subseteq Members(a)
    BY <1>3, <1>4 DEF Members
<1> QED
    BY <1>5, <1>6 DEF a

LEMMA ThroughMembers ==
    ASSUME NEW f, NEW S, NEW s \in Seq(S)
    PROVE  Members(Through(f, s)) = {f[x] : x \in Members(s)}
<1>1. Len(Through(f, s)) = Len(s) /\ \A i \in 1 .. Len(s) : Through(f, s)[i] = f[s[i]]
    <2>1. Len(s) \in Nat
        OBVIOUS
    <2> QED
        BY <2>1 DEF Through
<1> QED
    BY <1>1 DEF Members

\* The tasks of the values at a place are those whose parameters are on their way.
LEMMA ParamsAreOnTheWay ==
    ASSUME DeliveryTypeOK, ParamSide
    PROVE  ElementsOf(ValuesAt)
             = {ParamsOnTheWay[i] : i \in 1 .. Len(ParamsOnTheWay)}
                   \cup UNION {ParamsSent(l) : l \in LRT}
<1> DEFINE f == slots["param"]
           first == IF fetchingParam = NoIndex THEN << >> ELSE <<fetchingParam>>
           value == IF fetchingParam = NoIndex THEN << >> ELSE <<f[fetchingParam]>>
           rest == Through(f, paramNotified)
<1>1. /\ f \in Seq(Item) /\ first \in Seq(Index) /\ paramNotified \in Seq(Index)
      /\ ParamIndices = first \o paramNotified /\ ParamIndices \in Seq(Index)
      /\ ParamsOnTheWay = rest \o value
    <2>1. fetchingParam # NoIndex => fetchingParam \in Index
        BY DEF DeliveryTypeOK, NoIndex, Index
    <2> QED
        BY <2>1, AtMostOne, EmptySeq, PlacesTyped
           DEF DeliveryTypeOK, Kind, ParamIndices, ParamsOnTheWay, Through
<1>2. /\ Members(first) = IF fetchingParam = NoIndex THEN {} ELSE {fetchingParam}
      /\ Members(value) = IF fetchingParam = NoIndex THEN {} ELSE {f[fetchingParam]}
    BY EmptySeq, AtMostOne DEF Members
<1>3. Members(ParamIndices) = Members(first) \cup Members(paramNotified)
    <2> HIDE DEF first
    <2> QED
        BY <1>1, ConcatMembers
<1>4. \A x \in Members(ParamIndices) : x \in 1 .. Len(f)
    <2>1. Inbox \in DOMAIN ParamsAt /\ ParamsAt[Inbox] = ParamIndices
        BY PlaceNames DEF ParamsAt, ParamPlaces
    <2> QED
        BY <2>1 DEF ParamSide, Bounded, Members
<1>5. rest \in Seq(Item) /\ value \in Seq(Item)
    <2>1. \A i \in 1 .. Len(paramNotified) : paramNotified[i] \in 1 .. Len(f)
        BY <1>3, <1>4 DEF Members
    <2>2. fetchingParam # NoIndex => f[fetchingParam] \in Item
        BY <1>1, <1>2, <1>3, <1>4, ElementOfSeq
    <2>3. rest \in Seq(Item)
        BY <1>1, <2>1, LenProperties DEF Through
    <2> QED
        BY <2>2, <2>3, AtMostOne, EmptySeq
<1>6. Members(ParamsOnTheWay) = Members(Through(f, ParamIndices))
    <2>1. Members(Through(f, ParamIndices)) = {f[x] : x \in Members(ParamIndices)}
        <3> HIDE DEF f
        <3> QED
            BY <1>1, ThroughMembers
    <2>2. Members(rest) = {f[x] : x \in Members(paramNotified)}
        <3> HIDE DEF f
        <3> QED
            BY <1>1, ThroughMembers
    <2>3. Members(ParamsOnTheWay) = Members(rest) \cup Members(value)
        <3> HIDE DEF rest, value
        <3> QED
            BY <1>1, <1>5, ConcatMembers
    <2> QED
        BY <1>2, <1>3, <2>1, <2>2, <2>3
<1>7. Members(ValuesAt[Inbox]) = Members(ParamsOnTheWay)
    BY <1>6, PlaceNames DEF ValuesAt, ValuePlaces, Through
<1>8. ASSUME NEW l \in LRT PROVE Members(ValuesAt[l]) = ParamsSent(l)
    <2>1. /\ sending[l].stage \in {"none", "message", "notification"}
          /\ sending[l].stage # "none" => sending[l].kind \in Kind
        BY SendFacts DEF DeliveryTypeOK
    <2>2. CASE Sends(l, "message", "param")
        <3>1. ValuesAt[l] = <<sending[l].message>> /\ ParamsSent(l) = {sending[l].message}
            BY <2>2, PlaceNames DEF ValuesAt, ValuePlaces, ParamsSent, Sends
        <3> QED
            BY <3>1 DEF Members
    <2>3. CASE Sends(l, "notification", "param")
        <3>1. ValuesAt[l] = <<f[sending[l].ix]>> /\ ParamsSent(l) = {f[sending[l].ix]}
            BY <2>3, PlaceNames DEF ValuesAt, ValuePlaces, ParamsSent, Sends
        <3> QED
            BY <3>1 DEF Members
    <2>4. CASE ~ Sends(l, "message", "param") /\ ~ Sends(l, "notification", "param")
        <3>1. ValuesAt[l] = << >>
            BY <2>4, PlaceNames DEF ValuesAt, ValuePlaces
        <3>2. ParamsSent(l) = {}
            BY <2>1, <2>4 DEF ParamsSent, Sends, Kind
        <3> QED
            BY <3>1, <3>2, EmptySeq DEF Members
    <2> QED
        BY <2>2, <2>3, <2>4
<1>9. ElementsOf(ValuesAt) = UNION {Members(ValuesAt[d]) : d \in ValuePlaces}
    <2>1. DOMAIN ValuesAt = ValuePlaces
        BY DEF ValuesAt
    <2> HIDE DEF ValuesAt
    <2> QED
        BY <2>1 DEF ElementsOf, Members
<1>10. UNION {Members(ValuesAt[d]) : d \in ValuePlaces}
           = Members(ValuesAt[Inbox]) \cup UNION {Members(ValuesAt[l]) : l \in LRT}
    BY DEF ValuePlaces
<1>11. {Members(ValuesAt[l]) : l \in LRT} = {ParamsSent(l) : l \in LRT}
    BY <1>8
<1> QED
    BY <1>7, <1>9, <1>10, <1>11 DEF Members

\* Whatever the threads do, each LRT receives the jobs launched for it, in the
\* order in which they were launched, and the GRT the parameters of each
\* configuration job that has run, although all share the same slots.
THEOREM MessagesReachTheirReader == DSpec => []MessagesDelivered
<1>1. DeliveryInv => MessagesDelivered
    <2> SUFFICES ASSUME DeliveryInv PROVE MessagesDelivered
        OBVIOUS
    <2>1. DeliveryTypeOK /\ JobSide /\ ParamSide /\ TypeOK
        BY DEF DeliveryInv, MapInv
    <2>2. \A l \in LRT : jobQueue[l] \o OnTheWay(l) = jobs[l]
        BY <2>1, JobsDelivered
    <2>3. ConfigsRun = received \cup ({ParamsOnTheWay[i] : i \in 1 .. Len(ParamsOnTheWay)}
              \cup UNION {ParamsSent(l) : l \in LRT})
        BY <2>1, ParamsAreOnTheWay DEF ParamSide
    <2>4. {t \in Configs : \E l \in LRT : \E i \in 1 .. jobsRun[l] : jobQueue[l][i].taskIx = t}
              = ConfigsRun
        BY DEF ConfigsRun
    <2> HIDE DEF ConfigsRun
    <2> QED
        BY <2>2, <2>3, <2>4 DEF MessagesDelivered
<1> QED
    BY <1>1, DeliveryInvariant, PTL

\* What is proved of the allocator holds when its jobs go through the queues.
COROLLARY DeliveredSchedule == DSpec => []ScheduleFeasible /\ MappedWell
BY DeliveryRunsAllocator, FeasibleSchedule, WellMapped, PTL

COROLLARY DeliveredJobs ==
    ASSUME NoOwnDeps
    PROVE  DSpec => [](JobsInOrder /\ MessagesFaithful /\ WaitsBackward)
BY DeliveryRunsAllocator, LaunchedJobsInOrder, LaunchedMessagesFaithful,
   LaunchedJobsWaitBackward, PTL
=============================================================================
