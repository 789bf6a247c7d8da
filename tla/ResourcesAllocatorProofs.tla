---------------------- MODULE ResourcesAllocatorProofs ----------------------
(***************************************************************************)
(* What the rounds of ResourcesAllocator::execute keep true, for every     *)
(* platform, every graph of tasks, every timing and every number of        *)
(* rounds, whichever mapper and whichever execution policy was chosen; and *)
(* first what the two mappers choose, for every load of the PEs: the loop  *)
(* of BestFitMapper::findPE and the cursor of RoundRobinMapper::findPE.    *)
(* Then that the job messages that are sent are the ones the mapping calls *)
(* for, in the order of their indices, with one hypothesis: no vertex      *)
(* depends on an earlier firing of itself.  Without it the lookup of a     *)
(* source moves the cursor of the task that is launched, and what the      *)
(* message is made of changes under the launcher.                          *)
(***************************************************************************)
EXTENDS ResourcesAllocator, TaskLauncherProofs, SequenceTheorems, FunctionTheorems

-----------------------------------------------------------------------------
(* Induction over the turns of a loop.                                     *)

\* A set that holds 0 and the successor of each of its elements up to N holds
\* every number up to N: the least one it misses would have a predecessor in it.
LEMMA TurnInduction ==
    ASSUME NEW N \in Nat, NEW T, 0 \in T, \A n \in 1 .. N : n - 1 \in T => n \in T
    PROVE  0 .. N \subseteq T
<1> DEFINE Missed == {n \in 0 .. N : n \notin T}
<1>1. SUFFICES ASSUME Missed # {} PROVE FALSE
    OBVIOUS
<1>2. PICK n \in Missed : \A m \in Missed : n <= m
    <2>1. Missed \subseteq Nat
        OBVIOUS
    <2> HIDE DEF Missed
    <2> QED
        BY <1>1, <2>1, LeastNat
<1>3. n \in 1 .. N /\ n - 1 \in 0 .. N
    BY <1>2
<1>4. n - 1 \notin Missed
    BY <1>2, <1>3
<1> QED
    BY <1>2, <1>3, <1>4

\* The states of a loop that starts in a and goes from x to step[n][x] at turn n.
LoopStates(f, N, S, a, step) ==
    /\ f \in [0 .. N -> S]
    /\ f[0] = a
    /\ \A n \in 1 .. N : f[n] = step[n][f[n - 1]]

\* A loop has a state after each turn: what a recursive function over the turns
\* needs to be defined.
LEMMA LoopRuns ==
    ASSUME NEW N \in Nat, NEW S, NEW a \in S, NEW step,
           \A n \in 1 .. N : \A x \in S : step[n][x] \in S
    PROVE  \E f : LoopStates(f, N, S, a, step)
<1> DEFINE Upto(f, m) == LoopStates(f, m, S, a, step)
           T == {m \in 0 .. N : \E f : Upto(f, m)}
<1>1. 0 \in T
    <2>1. Upto([n \in 0 .. 0 |-> a], 0)
        BY DEF LoopStates
    <2>2. \E f : Upto(f, 0)
        BY <2>1
    <2> QED
        BY <2>2
<1>2. ASSUME NEW m \in 1 .. N, m - 1 \in T PROVE m \in T
    <2>1. PICK f : Upto(f, m - 1)
        BY <1>2
    <2> DEFINE g == [n \in 0 .. m |-> IF n = m THEN step[m][f[m - 1]] ELSE f[n]]
    <2>2. f[m - 1] \in S /\ step[m][f[m - 1]] \in S
        BY <2>1 DEF LoopStates
    <2>3. g \in [0 .. m -> S] /\ g[0] = a
        BY <2>1, <2>2 DEF LoopStates
    <2>4. ASSUME NEW n \in 1 .. m PROVE g[n] = step[n][g[n - 1]]
        <3>1. g[n - 1] = f[n - 1]
            OBVIOUS
        <3>2. CASE n = m
            BY <3>1, <3>2
        <3>3. CASE n # m
            BY <2>1, <3>1, <3>3 DEF LoopStates
        <3> QED
            BY <3>2, <3>3
    <2>5. Upto(g, m)
        BY <2>3, <2>4 DEF LoopStates
    <2> HIDE DEF g, Upto
    <2> QED
        BY <2>5
<1> HIDE DEF T
<1>3. 0 .. N \subseteq T
    BY <1>1, <1>2, TurnInduction
<1>4. N \in T
    BY <1>3
<1> QED
    BY <1>4 DEF T

-----------------------------------------------------------------------------
(* Best fit                                                                *)

Choice == [pe: LRT, endTime: Nat, idleTime: Nat]

LEMMA CandidateType ==
    ASSUME NEW info \in RTInfo, NEW peEndTime \in [LRT -> Nat],
           NEW earliest \in Nat, NEW pe \in LRT
    PROVE  /\ Candidate(info, peEndTime, earliest, pe) \in Choice
           /\ Candidate(info, peEndTime, earliest, pe).pe = pe
<1> DEFINE readyTime == peEndTime[pe] + (IF pe = GRTPE THEN GRTOverhead ELSE 0)
           start == Max({readyTime, earliest})
<1>1. readyTime \in Nat /\ info.timing[pe] \in Nat
    BY DEF GRTOverhead, RTInfo
<1> HIDE DEF readyTime
<1>2. start \in {readyTime, earliest} /\ readyTime <= start
    BY <1>1, MaxIsGreatest, PairIsFinite
<1>3. start \in Nat /\ start - readyTime \in Nat
    BY <1>1, <1>2
<1>4. Candidate(info, peEndTime, earliest, pe) =
          [pe |-> pe, endTime |-> start + info.timing[pe],
           idleTime |-> start - readyTime]
    BY DEF Candidate, readyTime
<1> HIDE DEF start
<1> QED
    BY <1>1, <1>3, <1>4 DEF Choice

\* One turn of the loop keeps the PE that ends the task sooner.
LEMMA BetterSooner ==
    ASSUME NEW best \in Choice \cup {NoPE}, NEW next \in Choice
    PROVE  /\ Better(best, next) \in Choice
           /\ next # NoPE
           /\ best = NoPE => Better(best, next) = next
           /\ best # NoPE =>
                 /\ \/ /\ Better(best, next).pe = best.pe
                       /\ Better(best, next).endTime = best.endTime
                    \/ /\ Better(best, next).pe = next.pe
                       /\ Better(best, next).endTime = next.endTime
                 /\ Better(best, next).endTime <= best.endTime
                 /\ Better(best, next).endTime <= next.endTime
<1>1. next # NoPE
    BY DEF NoPE, Choice
<1>2. CASE best = NoPE
    <2>1. next # NoPE /\ ~ (next.endTime < best.endTime) /\ next.endTime # best.endTime
        BY <1>1, <1>2 DEF NoPE, Choice
    <2>2. Better(best, next) = next
        BY <1>2, <2>1 DEF Better
    <2> QED
        BY <1>1, <1>2, <2>2
<1>3. CASE best # NoPE
    <2>1. best \in Choice
        BY <1>3
    <2> DEFINE idle == Min({next.idleTime, best.idleTime})
    <2>2. idle \in Nat
        BY <2>1, MinIsLeast DEF Choice
    <2> HIDE DEF idle
    <2>3. Better(best, next) =
              IF next.endTime < best.endTime THEN [next EXCEPT !.idleTime = idle]
              ELSE IF next.endTime = best.endTime /\ next.idleTime < best.idleTime THEN next
              ELSE best
        BY <1>3, <2>1 DEF Better, idle, Choice
    <2> QED
        BY <1>1, <1>3, <2>1, <2>2, <2>3 DEF Choice
<1> QED
    BY <1>1, <1>2, <1>3

\* The best PE after the turns of the PEs below n: one of the PEs allowed there
\* that would end the task soonest.
SoonestBelow(best, ends, allowed, n) ==
    IF \A pe \in allowed : pe >= n THEN best = NoPE
    ELSE /\ best \in Choice
         /\ best.pe \in allowed
         /\ best.endTime = ends[best.pe]
         /\ \A pe \in allowed : pe < n => best.endTime <= ends[pe]

\* Best fit maps a task on an allowed PE, and no allowed PE would end it sooner:
\* carrying the smallest idle time met from one PE to the next
\* (BestFitMapper.cpp) can only change the choice between equals.
THEOREM BestFitSoonest ==
    ASSUME NEW info \in RTInfo, Allowed(info) # {}, NEW peEndTime \in [LRT -> Nat],
           NEW earliest \in Nat
    PROVE  LET pe == BestFit(info, peEndTime, earliest)
               Ends(q) == Candidate(info, peEndTime, earliest, q).endTime
           IN  pe \in Allowed(info) /\ \A q \in Allowed(info) : Ends(pe) <= Ends(q)
<1> DEFINE allowed == Allowed(info)
           cand(pe) == Candidate(info, peEndTime, earliest, pe)
           ends == [pe \in LRT |-> cand(pe).endTime]
           S == Choice \cup {NoPE}
           step == [n \in 1 .. LRTCount |-> [b \in S |->
                      IF n - 1 \in allowed THEN Better(b, cand(n - 1)) ELSE b]]
           Loop(f) == [n \in 0 .. LRTCount |->
                        IF n = 0 THEN NoPE
                        ELSE IF n - 1 \in allowed THEN Better(f[n - 1], cand(n - 1))
                             ELSE f[n - 1]]
           best == CHOOSE f : f = Loop(f)
<1>1. /\ LRTCount \in Nat \ {0} /\ allowed \subseteq LRT
      /\ \A pe \in LRT : cand(pe) \in Choice /\ cand(pe).pe = pe
    BY TaskAssumption, MapperAssumption, CandidateType DEF Allowed
<1> HIDE DEF cand, allowed
<1>11. \A pe \in LRT : ends[pe] \in Nat /\ ends[pe] = cand(pe).endTime
    BY <1>1 DEF Choice
<1> HIDE DEF ends
<1>2. \A n \in 1 .. LRTCount : \A b \in S : step[n][b] \in S
    <2>1. ASSUME NEW n \in 1 .. LRTCount, NEW b \in S, n - 1 \in allowed
          PROVE  Better(b, cand(n - 1)) \in S
        BY <1>1, <2>1, BetterSooner
    <2> QED
        BY <2>1
<1>3. \E f : LoopStates(f, LRTCount, S, NoPE, step)
    <2> HIDE DEF step, S
    <2>1. NoPE \in S /\ LRTCount \in Nat
        BY <1>1 DEF S
    <2> QED
        BY <1>2, <2>1, LoopRuns
<1>4. \E f : f = Loop(f)
    <2>1. PICK f : /\ f \in [0 .. LRTCount -> S]
                   /\ f[0] = NoPE
                   /\ \A n \in 1 .. LRTCount : f[n] = step[n][f[n - 1]]
        BY <1>3 DEF LoopStates
    <2>2. \A n \in 1 .. LRTCount : n - 1 \in 0 .. LRTCount /\ f[n - 1] \in S
        BY <1>1, <2>1
    <2>3. \A n \in 1 .. LRTCount :
              f[n] = IF n - 1 \in allowed THEN Better(f[n - 1], cand(n - 1)) ELSE f[n - 1]
        BY <2>1, <2>2
    <2>4. \A n \in 0 .. LRTCount : f[n] = Loop(f)[n]
        BY <2>1, <2>3
    <2>5. f = Loop(f)
        BY <2>1, <2>4
    <2> QED
        BY <2>5
<1>5. best = Loop(best)
    <2> HIDE DEF Loop
    <2> QED
        BY <1>4
<1> HIDE DEF best
<1> DEFINE T == {n \in 0 .. LRTCount : SoonestBelow(best[n], ends, allowed, n)}
<1>6. 0 \in T
    <2>1. best[0] = NoPE /\ \A pe \in allowed : pe >= 0
        BY <1>1, <1>11, <1>5 DEF LRT
    <2> QED
        BY <1>1, <1>11, <2>1 DEF SoonestBelow
<1>7. ASSUME NEW n \in 1 .. LRTCount, n - 1 \in T PROVE n \in T
    <2> DEFINE pe == n - 1
               before == best[pe]
    <2>1. /\ pe \in LRT /\ n \in 0 .. LRTCount /\ n # 0
          /\ \A q \in allowed : q \in Int /\ (q < n <=> (q < pe \/ q = pe))
        BY <1>1 DEF LRT
    <2>2. SoonestBelow(before, ends, allowed, pe)
        BY <1>7
    <2>3. best[n] = IF pe \in allowed THEN Better(before, cand(pe)) ELSE before
        <3>1. best[n] = Loop(best)[n]
            BY <1>5
        <3> QED
            BY <2>1, <3>1
    <2> HIDE DEF pe, before
    <2>4. CASE pe \notin allowed
        BY <1>1, <2>1, <2>2, <2>3, <2>4 DEF SoonestBelow, LRT
    <2>5. CASE pe \in allowed /\ \A q \in allowed : q >= pe
        <3>1. before = NoPE /\ best[n] = cand(pe)
            BY <1>1, <1>11, <2>1, <2>2, <2>3, <2>5, BetterSooner DEF SoonestBelow
        <3> QED
            BY <1>1, <1>11, <2>1, <2>5, <3>1 DEF SoonestBelow, LRT
    <2>6. CASE pe \in allowed /\ ~ \A q \in allowed : q >= pe
        <3>1. before \in Choice /\ before # NoPE /\ best[n] = Better(before, cand(pe))
            BY <2>2, <2>3, <2>6, BetterSooner DEF SoonestBelow
        <3>2. /\ best[n] \in Choice
              /\ best[n].endTime <= before.endTime /\ best[n].endTime <= ends[pe]
              /\ \/ best[n].pe = before.pe /\ best[n].endTime = before.endTime
                 \/ best[n].pe = pe /\ best[n].endTime = ends[pe]
            BY <1>1, <1>11, <2>1, <3>1, BetterSooner
        <3> QED
            BY <1>1, <1>11, <2>1, <2>2, <2>6, <3>1, <3>2 DEF SoonestBelow, Choice
    <2> QED
        BY <2>4, <2>5, <2>6
<1>8. SoonestBelow(best[LRTCount], ends, allowed, LRTCount)
    <2> HIDE DEF T
    <2>1. 0 .. LRTCount \subseteq T
        BY <1>1, <1>11, <1>6, <1>7, TurnInduction
    <2> QED
        BY <1>1, <1>11, <2>1 DEF T
<1>9. /\ best[LRTCount].pe \in allowed
      /\ \A q \in allowed : ends[best[LRTCount].pe] <= ends[q]
    BY <1>1, <1>11, <1>8 DEF SoonestBelow, LRT, allowed
<1>10. BestFit(info, peEndTime, earliest) = best[LRTCount].pe
    BY DEF BestFit, best, allowed, cand
<1> QED
    BY <1>1, <1>11, <1>9, <1>10 DEF allowed, cand, ends

-----------------------------------------------------------------------------
(* Round robin                                                             *)

\* Walking n PEs from the cursor and measuring the walk back give n again.
LEMMA WalkForth ==
    ASSUME NEW cursor \in LRT, NEW n \in LRT
    PROVE  /\ (cursor + n) % LRTCount \in LRT
           /\ (((cursor + n) % LRTCount) - cursor) % LRTCount = n
<1> DEFINE N == LRTCount
<1>1. N \in Nat \ {0} /\ LRT = 0 .. N - 1
    BY TaskAssumption DEF LRT
<1> HIDE DEF N
<1>2. CASE cursor + n < N
    <2>1. (cursor + n) % N = cursor + n /\ n % N = n
        BY <1>1, <1>2
    <2> QED
        BY <1>1, <1>2, <2>1 DEF N
<1>3. CASE cursor + n >= N
    <2>1. cursor + n \in N .. 2 * N - 1 /\ n - N \in 1 - N .. -1
        BY <1>1, <1>3
    <2>2. (cursor + n) % N = cursor + n - N /\ (n - N) % N = n
        BY <1>1, <2>1
    <2> QED
        BY <1>1, <1>3, <2>2 DEF N
<1> QED
    BY <1>1, <1>2, <1>3

\* The walk from the cursor to a PE leads to it.
LEMMA WalkBack ==
    ASSUME NEW cursor \in LRT, NEW pe \in LRT
    PROVE  /\ (pe - cursor) % LRTCount \in LRT
           /\ (cursor + ((pe - cursor) % LRTCount)) % LRTCount = pe
<1> DEFINE N == LRTCount
<1>1. N \in Nat \ {0} /\ LRT = 0 .. N - 1
    BY TaskAssumption DEF LRT
<1> HIDE DEF N
<1>2. CASE pe >= cursor
    <2>1. (pe - cursor) % N = pe - cursor /\ pe % N = pe
        BY <1>1, <1>2
    <2> QED
        BY <1>1, <1>2, <2>1 DEF N
<1>3. CASE pe < cursor
    <2>1. pe - cursor \in 1 - N .. -1 /\ pe + N \in N .. 2 * N - 1
        BY <1>1, <1>3
    <2>2. (pe - cursor) % N = pe - cursor + N /\ (pe + N) % N = pe
        BY <1>1, <2>1
    <2> QED
        BY <1>1, <1>3, <2>2 DEF N
<1> QED
    BY <1>1, <1>2, <1>3

\* Round robin maps a task on the first allowed PE at or after the cursor: it
\* passes over no PE the task is allowed on.
THEOREM RoundRobinNext ==
    ASSUME NEW info, Allowed(info) # {}, NEW cursor \in LRT
    PROVE  LET pe == RoundRobin(info, cursor)
           IN  /\ pe \in Allowed(info)
               /\ \A q \in Allowed(info) :
                     (pe - cursor) % LRTCount <= (q - cursor) % LRTCount
<1> DEFINE steps == {n \in LRT : (cursor + n) % LRTCount \in Allowed(info)}
           least == Min(steps)
<1>1. Allowed(info) \subseteq LRT /\ LRT \subseteq Nat
    <2>1. Allowed(info) \subseteq LRT
        BY MapperAssumption DEF Allowed
    <2>2. LRT \subseteq Nat
        BY TaskAssumption DEF LRT
    <2> QED
        BY <2>1, <2>2
<1>2. ASSUME NEW q \in Allowed(info) PROVE (q - cursor) % LRTCount \in steps
    <2>1. q \in LRT
        BY <1>1
    <2>2. (q - cursor) % LRTCount \in LRT
        BY <2>1, WalkBack
    <2>3. (cursor + ((q - cursor) % LRTCount)) % LRTCount = q
        BY <2>1, WalkBack
    <2>4. PICK n \in LRT : n = (q - cursor) % LRTCount /\ (cursor + n) % LRTCount = q
        BY <2>2, <2>3
    <2> QED
        BY <2>4
<1>3. steps \subseteq Nat /\ steps # {}
    BY <1>1, <1>2
<1> HIDE DEF steps
<1>4. least \in steps /\ \A n \in steps : least <= n
    BY <1>3, MinIsLeast
<1>5. RoundRobin(info, cursor) = (cursor + least) % LRTCount
    BY DEF RoundRobin, steps, LRT
<1> HIDE DEF least
<1>6. /\ RoundRobin(info, cursor) \in Allowed(info)
      /\ (RoundRobin(info, cursor) - cursor) % LRTCount = least
    BY <1>4, <1>5, WalkForth DEF steps
<1> QED
    BY <1>2, <1>4, <1>6

-----------------------------------------------------------------------------
(* The inductive invariant                                                 *)

IsMapped(t) == mappedLRT[t] # NoLRT

\* The two loops follow the schedule: what they have passed is a prefix of it.
Progress ==
    /\ \A t \in Task : IsMapped(t) <=> RoundOf[t] <= round /\ t \notin toMap
    /\ \A t \in toLaunch : RoundOf[t] = round
    /\ \A t, u \in Task : t < u /\ IsMapped(u) => IsMapped(t)
    /\ \A t, u \in Task : t < u /\ u \in Sent => t \in Sent
    /\ \A t \in Task : IsMapped(t) <=> state[t] # "NOT_SCHEDULABLE"

\* The jobs of a LRT are numbered from 0, without a hole, in the order of the
\* schedule.
Numbered ==
    /\ \A t \in Task : IsMapped(t) => jobExecIx[t] \in 0 .. jobCount[mappedLRT[t]] - 1
    /\ \A l \in LRT : \A n \in 0 .. jobCount[l] - 1 :
          \E t \in Task : mappedLRT[t] = l /\ jobExecIx[t] = n
    /\ \A t, u \in Task : IsMapped(t) /\ mappedLRT[t] = mappedLRT[u] /\ t < u
          => jobExecIx[t] < jobExecIx[u]

\* What a task recorded of its sources when it was mapped is still right.
Synced ==
    \A t \in Task : IsMapped(t) =>
        \A l \in LRT : syncExecIx[t][l] = SyncExecIxOnLRT(mappedLRT, t, l)

\* The time at which a PE is free is the end of its last task.
Timed ==
    /\ \A t \in Task : IsMapped(t) =>
          /\ endTime[t] <= stats[mappedLRT[t]].endTime
          /\ \A s \in Deps[t] : endTime[s] <= startTime[t]
    /\ \A t, u \in Task :
          IsMapped(t) /\ mappedLRT[t] = mappedLRT[u] /\ jobExecIx[t] < jobExecIx[u]
              => endTime[t] <= startTime[u]
    /\ \A l \in LRT :
          /\ stats[l].endTime = stats[l].loadTime + stats[l].idleTime
          /\ \/ stats[l].endTime = 0
             \/ \E t \in Task : mappedLRT[t] = l /\ endTime[t] = stats[l].endTime
    /\ toMap # {} => \A l \in LRT : minStartTime <= stats[l].endTime

\* The inductive invariant of mapping.
MapInv == TypeOK /\ Progress /\ Numbered /\ Synced /\ Timed

-----------------------------------------------------------------------------
(* Mapping a task                                                          *)

LEMMA LRTIsNat == LRT \subseteq Nat /\ LRT # {} /\ NoLRT \notin LRT
BY TaskAssumption DEF LRT, NoLRT

\* The earliest start of a task is after the end of each of its sources.
LEMMA EarliestStart ==
    ASSUME TypeOK, NEW t \in Task
    PROVE  /\ ComputeStartTime(t) \in Nat
           /\ minStartTime <= ComputeStartTime(t)
           /\ \A s \in Deps[t] : endTime[s] <= ComputeStartTime(t)
           /\ \/ ComputeStartTime(t) = minStartTime
              \/ \E s \in Deps[t] : ComputeStartTime(t) = endTime[s]
<1> DEFINE ends == {endTime[s] : s \in Deps[t]}
           S == {minStartTime} \cup ends
<1>1. Deps[t] \subseteq Task /\ IsFiniteSet(Deps[t])
    BY TaskAssumption, FS_Subset
<1>2. minStartTime \in Nat /\ \A s \in Deps[t] : endTime[s] \in Nat
    BY <1>1 DEF TypeOK
<1>3. S \subseteq Nat /\ S # {}
    BY <1>2
<1>4. IsFiniteSet(S)
    <2>1. IsFiniteSet(ends)
        BY <1>1, ImageIsFinite
    <2> HIDE DEF ends
    <2>2. IsFiniteSet(ends \cup {minStartTime})
        BY <2>1, FS_AddElement
    <2>3. S = ends \cup {minStartTime}
        OBVIOUS
    <2> QED
        BY <2>2, <2>3
<1>5. ComputeStartTime(t) = Max(S)
    BY DEF ComputeStartTime
<1>6. minStartTime \in S /\ \A s \in Deps[t] : endTime[s] \in S
    OBVIOUS
<1>7. Max(S) \in S /\ \A y \in S : y <= Max(S)
    <2> HIDE DEF S
    <2> QED
        BY <1>3, <1>4, MaxIsGreatest
<1>8. Max(S) \in Nat
    BY <1>3, <1>7
<1> QED
    BY <1>5, <1>6, <1>7, <1>8

LEMMA MinEndTimeBound ==
    ASSUME NEW peStats \in [LRT -> PEStats]
    PROVE  MinEndTime(peStats) \in Nat /\ \A l \in LRT : MinEndTime(peStats) <= peStats[l].endTime
<1> DEFINE S == {peStats[l].endTime : l \in LRT}
<1>1. S \subseteq Nat /\ S # {}
    BY LRTIsNat DEF PEStats
<1>2. Min(S) \in S /\ \A y \in S : Min(S) <= y
    <2> HIDE DEF S
    <2> QED
        BY <1>1, MinIsLeast
<1>3. \A l \in LRT : peStats[l].endTime \in S
    OBVIOUS
<1> QED
    BY <1>1, <1>2, <1>3 DEF MinEndTime

\* The mapper finds a PE of the platform that is enabled and allowed.
LEMMA PEFound ==
    ASSUME TypeOK, NEW t \in Task
    PROVE  LET info == rtInfo[VertexOf[t]]
               lrt == FindPE(info, ComputeStartTime(t))
           IN  /\ info \in RTInfo
               /\ info.timing[lrt] \in Nat
               /\ lrt \in Allowed(info)
               /\ lrt \in LRT
<1> DEFINE info == rtInfo[VertexOf[t]]
           earliest == ComputeStartTime(t)
           lrt == FindPE(info, earliest)
           free == [l \in LRT |-> stats[l].endTime]
<1>1. info \in RTInfo /\ Allowed(info) # {} /\ Allowed(info) \subseteq LRT
    BY AllocatorAssumption, MapperAssumption DEF TypeOK, Allowed
<1>2. /\ free \in [LRT -> Nat]
      /\ currentPe \in LRT
      /\ mappingPolicy \in {"BEST_FIT", "ROUND_ROBIN"}
    BY DEF TypeOK, PEStats, MappingPolicy
<1>3. earliest \in Nat
    BY EarliestStart
<1>8. mappingPolicy = "BEST_FIT" => lrt = BestFit(info, free, earliest)
    BY DEF FindPE
<1>9. mappingPolicy = "ROUND_ROBIN" => lrt = RoundRobin(info, currentPe)
    BY DEF FindPE
<1> HIDE DEF info, earliest, lrt, free
<1>4. BestFit(info, free, earliest) \in Allowed(info)
    BY <1>1, <1>2, <1>3, BestFitSoonest
<1>5. RoundRobin(info, currentPe) \in Allowed(info)
    BY <1>1, <1>2, RoundRobinNext
<1>6. lrt \in Allowed(info) /\ lrt \in LRT
    BY <1>1, <1>2, <1>4, <1>5, <1>8, <1>9
<1>7. info.timing[lrt] \in Nat
    BY <1>1, <1>6 DEF RTInfo
<1> QED
    BY <1>1, <1>6, <1>7 DEF info, earliest, lrt

\* The effect of a step of the mapping loop, the PE and the times it chose named.
MapEffect(t, lrt, start, end) ==
    /\ start >= stats[lrt].endTime /\ start >= ComputeStartTime(t) /\ start <= end
    /\ toMap' = toMap \ {t}
    /\ syncExecIx' = [syncExecIx EXCEPT ![t] = LastSources(t)]
    /\ mappedLRT' = [mappedLRT EXCEPT ![t] = lrt]
    /\ jobExecIx' = [jobExecIx EXCEPT ![t] = jobCount[lrt]]
    /\ jobCount' = [jobCount EXCEPT ![lrt] = @ + 1]
    /\ startTime' = [startTime EXCEPT ![t] = start]
    /\ endTime' = [endTime EXCEPT ![t] = end]
    /\ stats' = [stats EXCEPT ![lrt] = WithTask(@, start, end)]
    /\ minStartTime' = MinEndTime(stats')
    /\ currentPe' \in LRT
    /\ state' = [state EXCEPT ![t] = "READY"]
    /\ UNCHANGED <<config, round, toLaunch, jobs>>

LEMMA MapStep ==
    ASSUME TypeOK, NEW t \in Task, Map(t)
    PROVE  /\ t \in toMap /\ \A u \in toMap : t <= u
           /\ \E lrt \in LRT, start \in Nat, end \in Nat : MapEffect(t, lrt, start, end)
<1> DEFINE info == rtInfo[VertexOf[t]]
           earliest == ComputeStartTime(t)
           lrt == FindPE(info, earliest)
           start == Max({stats[lrt].endTime, earliest})
           end == start + info.timing[lrt]
<1>1. lrt \in LRT /\ info.timing[lrt] \in Nat
    BY PEFound
<1>2. earliest \in Nat
    BY EarliestStart
<1>3. /\ NextOf(toMap, t)
      /\ toMap' = toMap \ {t}
      /\ syncExecIx' = [syncExecIx EXCEPT ![t] = LastSources(t)]
      /\ mappedLRT' = [mappedLRT EXCEPT ![t] = lrt]
      /\ jobExecIx' = [jobExecIx EXCEPT ![t] = jobCount[lrt]]
      /\ jobCount' = [jobCount EXCEPT ![lrt] = @ + 1]
      /\ startTime' = [startTime EXCEPT ![t] = start]
      /\ endTime' = [endTime EXCEPT ![t] = end]
      /\ stats' = [stats EXCEPT ![lrt] = WithTask(@, start, end)]
      /\ minStartTime' = MinEndTime(stats')
      /\ currentPe' = IF mappingPolicy = "ROUND_ROBIN" THEN NextCursor(lrt) ELSE currentPe
      /\ state' = [state EXCEPT ![t] = "READY"]
      /\ UNCHANGED <<config, round, toLaunch, jobs>>
    BY DEF Map
<1> HIDE DEF info, earliest, lrt
<1>4. start \in Nat /\ start >= stats[lrt].endTime /\ start >= earliest
    <2> DEFINE free == stats[lrt].endTime
    <2>1. free \in Nat
        BY <1>1 DEF TypeOK, PEStats
    <2> HIDE DEF free
    <2>2. Max({free, earliest}) \in {free, earliest} /\ \A y \in {free, earliest} : y <= Max({free, earliest})
        BY <1>2, <2>1, MaxIsGreatest, PairIsFinite
    <2> QED
        BY <1>2, <2>1, <2>2 DEF free
<1> HIDE DEF start
<1>5. end \in Nat /\ start <= end
    BY <1>1, <1>4
<1> HIDE DEF end
<1>6. currentPe' \in LRT
    <2>1. NextCursor(lrt) \in LRT
        BY <1>1, TaskAssumption DEF NextCursor, LRT
    <2> QED
        BY <1>3, <2>1 DEF TypeOK
<1>7. MapEffect(t, lrt, start, end)
    BY <1>3, <1>4, <1>5, <1>6 DEF MapEffect, earliest
<1> QED
    BY <1>1, <1>3, <1>4, <1>5, <1>7 DEF NextOf

LEMMA SyncType ==
    ASSUME NEW lrtOf, NEW t \in Task, NEW l
    PROVE  /\ SyncExecIxOnLRT(lrtOf, t, l) \in Task \cup {NoSync}
           /\ SyncExecIxOnLRT(lrtOf, t, l) # NoSync =>
                 SyncExecIxOnLRT(lrtOf, t, l) \in SourcesOn(lrtOf, t, l)
<1>1. CASE SourcesOn(lrtOf, t, l) = {}
    BY <1>1 DEF SyncExecIxOnLRT
<1>2. CASE SourcesOn(lrtOf, t, l) # {}
    BY <1>2, SyncIsLastSource, TaskAssumption DEF SourcesOn
<1> QED
    BY <1>1, <1>2

LEMMA LastSourcesAreSynced ==
    ASSUME NEW t \in Task
    PROVE  /\ LastSources(t) \in [LRT -> Task \cup {NoSync}]
           /\ \A l \in LRT : LastSources(t)[l] = SyncExecIxOnLRT(mappedLRT, t, l)
<1>1. LastSources(t) = [l \in LRT |-> SyncExecIxOnLRT(mappedLRT, t, l)]
    BY DEF LastSources, SyncExecIxOnLRT, SourcesOn
<1> QED
    BY <1>1, SyncType

LEMMA MapKeepsType ==
    ASSUME TypeOK, NEW t \in Task, NEW lrt \in LRT, NEW start \in Nat, NEW end \in Nat,
           MapEffect(t, lrt, start, end)
    PROVE  TypeOK'
<1>1. UNCHANGED <<executionPolicy, mappingPolicy, rtInfo, round, toLaunch, jobs>>
    BY DEF MapEffect, config
<1>2. stats' \in [LRT -> PEStats]
    <2>1. stats[lrt] \in PEStats /\ start >= stats[lrt].endTime /\ start <= end
        BY DEF TypeOK, MapEffect
    <2>2. WithTask(stats[lrt], start, end) \in PEStats
        BY <2>1 DEF WithTask, PEStats
    <2> QED
        BY <2>2 DEF MapEffect, TypeOK
<1>3. minStartTime' \in Nat
    BY <1>2, MinEndTimeBound DEF MapEffect
<1>4. syncExecIx' \in [Task -> [LRT -> Task \cup {NoSync}]]
    BY LastSourcesAreSynced DEF MapEffect, TypeOK
<1>5. /\ mappedLRT' \in [Task -> LRT \cup {NoLRT}]
      /\ jobExecIx' \in [Task -> Nat \cup {NoJob}]
      /\ jobCount' \in [LRT -> Nat]
      /\ startTime' \in [Task -> Nat]
      /\ endTime' \in [Task -> Nat]
      /\ state' \in [Task -> TaskState]
      /\ currentPe' \in LRT
      /\ toMap' \subseteq toLaunch
    BY DEF MapEffect, TypeOK, TaskState
<1> QED
    BY <1>1, <1>2, <1>3, <1>4, <1>5 DEF TypeOK

\* The sources of a task are mapped before it.
LEMMA DepsMapped ==
    ASSUME TypeOK, Progress, NEW t \in Task, NEW s \in Deps[t],
           IsMapped(t) \/ (t \in toMap /\ \A u \in toMap : t <= u)
    PROVE  s \in Task /\ s < t /\ s # t /\ IsMapped(s) /\ RoundOf[s] <= RoundOf[t]
<1>1. s \in Task /\ s < t /\ s \in Nat /\ t \in Nat /\ RoundOf[s] <= RoundOf[t]
    BY TaskAssumption
<1>2. RoundOf[s] \in Nat /\ RoundOf[t] \in Nat /\ round \in Nat
    BY <1>1, TaskAssumption DEF TypeOK
<1>3. CASE IsMapped(t)
    BY <1>1, <1>3 DEF Progress
<1>4. CASE t \in toMap /\ \A u \in toMap : t <= u
    <2>1. RoundOf[t] = round
        BY <1>4 DEF Progress, TypeOK
    <2>2. s \notin toMap
        BY <1>1, <1>4
    <2> QED
        BY <1>1, <1>2, <2>1, <2>2 DEF Progress
<1> QED
    BY <1>1, <1>3, <1>4

\* What mapping t changes for the mapping seen by the tasks mapped before.
LEMMA MapOthers ==
    ASSUME TypeOK, Progress, NEW t \in Task, t \in toMap, \A u \in toMap : t <= u,
           NEW lrt \in LRT, NEW start \in Nat, NEW end \in Nat,
           MapEffect(t, lrt, start, end)
    PROVE  /\ ~ IsMapped(t) /\ IsMapped(t)' /\ mappedLRT'[t] = lrt
           /\ jobExecIx'[t] = jobCount[lrt] /\ startTime'[t] = start /\ endTime'[t] = end
           /\ \A u \in Task : u # t =>
                 /\ mappedLRT'[u] = mappedLRT[u]
                 /\ jobExecIx'[u] = jobExecIx[u]
                 /\ syncExecIx'[u] = syncExecIx[u]
                 /\ startTime'[u] = startTime[u]
                 /\ endTime'[u] = endTime[u]
                 /\ state'[u] = state[u]
                 /\ IsMapped(u)' <=> IsMapped(u)
           /\ jobCount'[lrt] = jobCount[lrt] + 1
           /\ \A l \in LRT : l # lrt => jobCount'[l] = jobCount[l] /\ stats'[l] = stats[l]
           /\ stats'[lrt] = WithTask(stats[lrt], start, end)
<1>1. ~ IsMapped(t)
    BY DEF Progress
<1>2. IsMapped(t)' /\ mappedLRT'[t] = lrt
    BY LRTIsNat DEF MapEffect, TypeOK, IsMapped
<1> QED
    BY <1>1, <1>2 DEF MapEffect, TypeOK, IsMapped

LEMMA MapKeepsProgress ==
    ASSUME TypeOK, Progress, NEW t \in Task, t \in toMap, \A u \in toMap : t <= u,
           NEW lrt \in LRT, NEW start \in Nat, NEW end \in Nat,
           MapEffect(t, lrt, start, end)
    PROVE  Progress'
<1>1. /\ round' = round /\ toLaunch' = toLaunch /\ toMap' = toMap \ {t}
      /\ IsMapped(t)' /\ \A u \in Task : u # t => (IsMapped(u)' <=> IsMapped(u))
    BY MapOthers DEF MapEffect
<1>2. RoundOf[t] = round /\ round \in Nat
    BY DEF Progress, TypeOK
<1>3. \A u \in Task : IsMapped(u)' <=> RoundOf[u] <= round' /\ u \notin toMap'
    BY <1>1, <1>2 DEF Progress
<1>4. \A u, v \in Task : u < v /\ IsMapped(v)' => IsMapped(u)'
    <2> SUFFICES ASSUME NEW u \in Task, NEW v \in Task, u < v, IsMapped(v)', u # t
                 PROVE  IsMapped(u)
        BY <1>1
    <2>1. CASE v # t
        BY <1>1, <2>1 DEF Progress
    <2>2. CASE v = t
        <3>1. RoundOf[u] <= round /\ u \notin toMap
            <4>1. u \in Nat /\ t \in Nat /\ RoundOf[u] <= RoundOf[t]
                BY <2>2, TaskAssumption, AllocatorAssumption
            <4> QED
                BY <1>2, <2>2, <4>1
        <3> QED
            BY <3>1 DEF Progress
    <2> QED
        BY <2>1, <2>2
<1>5. \A u \in Task : IsMapped(u)' <=> state'[u] # "NOT_SCHEDULABLE"
    <2>1. state' = [state EXCEPT ![t] = "READY"]
        BY DEF MapEffect
    <2> QED
        BY <1>1, <2>1 DEF Progress, TypeOK
<1> QED
    BY <1>1, <1>3, <1>4, <1>5 DEF Progress, Sent

LEMMA MapKeepsNumbered ==
    ASSUME TypeOK, Progress, Numbered, NEW t \in Task, t \in toMap, \A u \in toMap : t <= u,
           NEW lrt \in LRT, NEW start \in Nat, NEW end \in Nat,
           MapEffect(t, lrt, start, end)
    PROVE  Numbered'
<1>1. /\ mappedLRT'[t] = lrt /\ jobExecIx'[t] = jobCount[lrt] /\ ~ IsMapped(t)
      /\ \A u \in Task : u # t => /\ mappedLRT'[u] = mappedLRT[u]
                                  /\ jobExecIx'[u] = jobExecIx[u]
                                  /\ IsMapped(u)' <=> IsMapped(u)
      /\ jobCount'[lrt] = jobCount[lrt] + 1
      /\ \A l \in LRT : l # lrt => jobCount'[l] = jobCount[l]
    BY MapOthers
<1>2. /\ \A l \in LRT : jobCount[l] \in Nat
      /\ \A u \in Task : IsMapped(u) => mappedLRT[u] \in LRT
    BY DEF TypeOK, IsMapped
<1>3. \A u \in Task : IsMapped(u)' => jobExecIx'[u] \in 0 .. jobCount'[mappedLRT'[u]] - 1
    <2> SUFFICES ASSUME NEW u \in Task, IsMapped(u)'
                 PROVE  jobExecIx'[u] \in 0 .. jobCount'[mappedLRT'[u]] - 1
        OBVIOUS
    <2>1. CASE u = t
        BY <1>1, <1>2, <2>1
    <2>2. CASE u # t
        <3>1. jobExecIx[u] \in 0 .. jobCount[mappedLRT[u]] - 1 /\ mappedLRT[u] \in LRT
            BY <1>1, <1>2, <2>2 DEF Numbered
        <3> QED
            BY <1>1, <1>2, <2>2, <3>1
    <2> QED
        BY <2>1, <2>2
<1>4. \A l \in LRT : \A n \in 0 .. jobCount'[l] - 1 :
          \E u \in Task : mappedLRT'[u] = l /\ jobExecIx'[u] = n
    <2> SUFFICES ASSUME NEW l \in LRT, NEW n \in 0 .. jobCount'[l] - 1
                 PROVE  \E u \in Task : mappedLRT'[u] = l /\ jobExecIx'[u] = n
        OBVIOUS
    <2>1. CASE l = lrt /\ n = jobCount[lrt]
        BY <1>1, <2>1
    <2>2. CASE ~ (l = lrt /\ n = jobCount[lrt])
        <3>1. n \in 0 .. jobCount[l] - 1
            BY <1>1, <1>2, <2>2
        <3>2. PICK u \in Task : mappedLRT[u] = l /\ jobExecIx[u] = n
            BY <3>1 DEF Numbered
        <3>3. u # t
            BY <1>1, <3>2, LRTIsNat DEF IsMapped
        <3> QED
            BY <1>1, <3>2, <3>3
    <2> QED
        BY <2>1, <2>2
<1>5. \A u, v \in Task : IsMapped(u)' /\ mappedLRT'[u] = mappedLRT'[v] /\ u < v
          => jobExecIx'[u] < jobExecIx'[v]
    <2> SUFFICES ASSUME NEW u \in Task, NEW v \in Task,
                        IsMapped(u)', mappedLRT'[u] = mappedLRT'[v], u < v
                 PROVE  jobExecIx'[u] < jobExecIx'[v]
        OBVIOUS
    <2>1. u \in Nat /\ v \in Nat /\ IsMapped(v)'
        BY TaskAssumption DEF IsMapped
    <2>2. CASE u # t /\ v # t
        BY <1>1, <2>2 DEF Numbered
    <2>3. CASE v = t
        <3>1. IsMapped(u) /\ mappedLRT[u] = lrt /\ u # t
            BY <1>1, <2>1, <2>3
        <3>2. jobExecIx[u] \in 0 .. jobCount[lrt] - 1
            BY <3>1 DEF Numbered
        <3> QED
            BY <1>1, <1>2, <2>3, <3>1, <3>2
    <2>4. CASE u = t
        <3>1. IsMapped(v) /\ v # t
            BY <1>1, <2>1, <2>4
        <3> QED
            BY <1>1, <2>4, <3>1 DEF Progress
    <2> QED
        BY <2>2, <2>3, <2>4
<1> QED
    BY <1>3, <1>4, <1>5 DEF Numbered

\* A task that is mapped has the sources it had: mapping another one adds none.
LEMMA SyncUnchanged ==
    ASSUME NEW lrtOf, NEW lrtOf2, NEW u \in Task,
           \A s \in Deps[u] : lrtOf2[s] = lrtOf[s], NEW l
    PROVE  SyncExecIxOnLRT(lrtOf2, u, l) = SyncExecIxOnLRT(lrtOf, u, l)
<1>1. SourcesOn(lrtOf2, u, l) = SourcesOn(lrtOf, u, l)
    BY DEF SourcesOn
<1> QED
    BY <1>1 DEF SyncExecIxOnLRT

LEMMA MapKeepsSynced ==
    ASSUME TypeOK, Progress, Synced, NEW t \in Task, t \in toMap, \A u \in toMap : t <= u,
           NEW lrt \in LRT, NEW start \in Nat, NEW end \in Nat,
           MapEffect(t, lrt, start, end)
    PROVE  Synced'
<1> SUFFICES ASSUME NEW u \in Task, IsMapped(u)', NEW l \in LRT
             PROVE  syncExecIx'[u][l] = SyncExecIxOnLRT(mappedLRT', u, l)
    BY DEF Synced
<1>1. u = t \/ IsMapped(u)
    BY MapOthers
<1>2. \A s \in Deps[u] : mappedLRT'[s] = mappedLRT[s]
    <2> SUFFICES ASSUME NEW s \in Deps[u] PROVE mappedLRT'[s] = mappedLRT[s]
        OBVIOUS
    <2>1. s \in Task /\ IsMapped(s)
        BY <1>1, DepsMapped
    <2>2. s # t
        BY <2>1, MapOthers
    <2> QED
        BY <2>1, <2>2, MapOthers
<1>3. SyncExecIxOnLRT(mappedLRT', u, l) = SyncExecIxOnLRT(mappedLRT, u, l)
    BY <1>2, SyncUnchanged
<1>4. CASE u = t
    BY <1>3, <1>4, LastSourcesAreSynced DEF MapEffect, TypeOK
<1>5. CASE u # t
    <2>1. syncExecIx'[u] = syncExecIx[u] /\ IsMapped(u)
        BY <1>1, <1>5, MapOthers
    <2> QED
        BY <1>3, <2>1 DEF Synced
<1> QED
    BY <1>4, <1>5

LEMMA MapKeepsTimed ==
    ASSUME TypeOK, Progress, Numbered, Timed,
           NEW t \in Task, t \in toMap, \A u \in toMap : t <= u,
           NEW lrt \in LRT, NEW start \in Nat, NEW end \in Nat,
           MapEffect(t, lrt, start, end)
    PROVE  Timed'
<1>1. /\ mappedLRT'[t] = lrt /\ jobExecIx'[t] = jobCount[lrt] /\ ~ IsMapped(t)
      /\ startTime'[t] = start /\ endTime'[t] = end
      /\ \A u \in Task : u # t => /\ mappedLRT'[u] = mappedLRT[u]
                                  /\ jobExecIx'[u] = jobExecIx[u]
                                  /\ startTime'[u] = startTime[u]
                                  /\ endTime'[u] = endTime[u]
                                  /\ IsMapped(u)' <=> IsMapped(u)
    BY MapOthers
<1>8. \A l \in LRT : l # lrt => stats'[l] = stats[l]
    BY MapOthers
<1>9. stats'[lrt] = WithTask(stats[lrt], start, end)
    BY MapOthers
<1>2. /\ \A l \in LRT : stats[l] \in PEStats /\ stats[l].endTime \in Nat
      /\ \A u \in Task : IsMapped(u) => mappedLRT[u] \in LRT
      /\ \A u \in Task : startTime[u] \in Nat /\ endTime[u] \in Nat
      /\ jobCount[lrt] \in Nat
    BY DEF TypeOK, IsMapped, PEStats
<1>3. /\ stats'[lrt].endTime = end
      /\ start >= stats[lrt].endTime /\ start <= end
      /\ stats'[lrt].loadTime = stats[lrt].loadTime + (end - start)
      /\ stats'[lrt].idleTime = stats[lrt].idleTime + (start - stats[lrt].endTime)
    BY <1>9 DEF WithTask, MapEffect
<1>4. \A u \in Task : IsMapped(u)' =>
          /\ endTime'[u] <= stats'[mappedLRT'[u]].endTime
          /\ \A s \in Deps[u] : endTime'[s] <= startTime'[u]
    <2> SUFFICES ASSUME NEW u \in Task, IsMapped(u)'
                 PROVE  /\ endTime'[u] <= stats'[mappedLRT'[u]].endTime
                        /\ \A s \in Deps[u] : endTime'[s] <= startTime'[u]
        OBVIOUS
    <2>1. \A s \in Deps[u] : s \in Task /\ s # t
        <3>1. u = t \/ IsMapped(u)
            BY <1>1
        <3> QED
            BY <1>1, <3>1, DepsMapped
    <2>2. CASE u = t
        <3>1. \A s \in Deps[t] : endTime[s] <= ComputeStartTime(t)
            BY EarliestStart
        <3>2. ComputeStartTime(t) <= start /\ ComputeStartTime(t) \in Nat
            BY EarliestStart DEF MapEffect
        <3>3. \A s \in Deps[t] : endTime'[s] <= start
            BY <1>1, <1>2, <2>1, <2>2, <3>1, <3>2
        <3> QED
            BY <1>1, <1>3, <2>2, <3>3
    <2>3. CASE u # t
        <3>1. /\ IsMapped(u) /\ mappedLRT[u] \in LRT
              /\ endTime[u] <= stats[mappedLRT[u]].endTime
              /\ \A s \in Deps[u] : endTime[s] <= startTime[u]
            BY <1>1, <1>2, <2>3 DEF Timed
        <3>2. endTime[u] <= stats'[mappedLRT[u]].endTime
            BY <1>1, <1>2, <1>3, <1>8, <3>1
        <3> QED
            BY <1>1, <2>1, <2>3, <3>1, <3>2
    <2> QED
        BY <2>2, <2>3
<1>5. \A u, v \in Task :
          IsMapped(u)' /\ mappedLRT'[u] = mappedLRT'[v] /\ jobExecIx'[u] < jobExecIx'[v]
              => endTime'[u] <= startTime'[v]
    <2> SUFFICES ASSUME NEW u \in Task, NEW v \in Task, IsMapped(u)',
                        mappedLRT'[u] = mappedLRT'[v], jobExecIx'[u] < jobExecIx'[v]
                 PROVE  endTime'[u] <= startTime'[v]
        OBVIOUS
    <2>1. CASE u # t /\ v # t
        BY <1>1, <2>1 DEF Timed
    <2>2. CASE v = t
        <3>1. u # t /\ IsMapped(u) /\ mappedLRT[u] = lrt
            BY <1>1, <1>2, <2>2
        <3>2. endTime[u] <= stats[lrt].endTime
            BY <3>1 DEF Timed
        <3> QED
            BY <1>1, <1>2, <1>3, <2>2, <3>1, <3>2
    <2>3. CASE u = t /\ v # t
        <3>1. IsMapped(v) /\ mappedLRT[v] = lrt /\ jobCount[lrt] < jobExecIx[v]
            BY <1>1, <2>3, LRTIsNat DEF IsMapped
        <3>2. jobExecIx[v] \in 0 .. jobCount[lrt] - 1
            BY <3>1 DEF Numbered
        <3> QED
            BY <1>2, <3>1, <3>2
    <2> QED
        BY <2>1, <2>2, <2>3
<1>6. \A l \in LRT :
          /\ stats'[l].endTime = stats'[l].loadTime + stats'[l].idleTime
          /\ \/ stats'[l].endTime = 0
             \/ \E u \in Task : mappedLRT'[u] = l /\ endTime'[u] = stats'[l].endTime
    <2> SUFFICES ASSUME NEW l \in LRT
                 PROVE  /\ stats'[l].endTime = stats'[l].loadTime + stats'[l].idleTime
                        /\ \/ stats'[l].endTime = 0
                           \/ \E u \in Task : /\ mappedLRT'[u] = l
                                              /\ endTime'[u] = stats'[l].endTime
        OBVIOUS
    <2>1. CASE l = lrt
        <3>1. stats[lrt].endTime = stats[lrt].loadTime + stats[lrt].idleTime
            BY DEF Timed
        <3>2. stats[lrt].loadTime \in Nat /\ stats[lrt].idleTime \in Nat
            BY <1>2 DEF PEStats
        <3> QED
            BY <1>1, <1>2, <1>3, <2>1, <3>1, <3>2
    <2>2. CASE l # lrt
        <3>1. /\ stats'[l] = stats[l]
              /\ stats[l].endTime = stats[l].loadTime + stats[l].idleTime
              /\ \/ stats[l].endTime = 0
                 \/ \E u \in Task : mappedLRT[u] = l /\ endTime[u] = stats[l].endTime
            BY <1>8, <2>2 DEF Timed
        <3>2. \A u \in Task : mappedLRT[u] = l => u # t
            BY <1>1, LRTIsNat DEF IsMapped
        <3> QED
            BY <1>1, <3>1, <3>2
    <2> QED
        BY <2>1, <2>2
<1>7. toMap' # {} => \A l \in LRT : minStartTime' <= stats'[l].endTime
    <2>1. TypeOK' /\ minStartTime' = MinEndTime(stats')
        BY MapKeepsType DEF MapEffect
    <2> QED
        BY <2>1, MinEndTimeBound DEF TypeOK
<1> QED
    BY <1>4, <1>5, <1>6, <1>7 DEF Timed

-----------------------------------------------------------------------------
(* Launching a task: the scan of its constraints                           *)

ScanState == [at: {u \in Task : IsMapped(u)}, found: SUBSET SyncInfo]

Wanted(t) == Cardinality({l \in LRT : syncExecIx[t][l] # NoSync})

\* One turn of the scan, for the LRT n - 1.
ScanTurn(t, before, n) ==
    LET src == syncExecIx[before.at][n - 1]
    IN  IF src = NoSync \/ Cardinality(before.found) = Wanted(t)
        THEN before
        ELSE [at |-> IF VertexOf[src] = VertexOf[t] THEN src ELSE before.at,
              found |-> before.found \cup {[lrtToWait |-> n - 1, jobToWait |-> jobExecIx[src]]}]

\* The states of the scan of t.
Scans(f, t) ==
    /\ f \in [0 .. LRTCount -> ScanState]
    /\ f[0] = [at |-> t, found |-> {}]
    /\ \A n \in 1 .. LRTCount : f[n] = ScanTurn(t, f[n - 1], n)

LEMMA RecordedSource ==
    ASSUME TypeOK, Progress, Synced, NEW t \in Task, IsMapped(t), NEW l \in LRT,
           syncExecIx[t][l] # NoSync
    PROVE  /\ syncExecIx[t][l] \in Deps[t]
           /\ syncExecIx[t][l] \in Task
           /\ IsMapped(syncExecIx[t][l])
           /\ mappedLRT[syncExecIx[t][l]] = l
<1>1. syncExecIx[t][l] \in SourcesOn(mappedLRT, t, l)
    BY SyncType DEF Synced
<1> QED
    BY <1>1, DepsMapped DEF SourcesOn

LEMMA ScanTurnType ==
    ASSUME TypeOK, Progress, Synced, NEW t \in Task, NEW n \in 1 .. LRTCount,
           NEW before \in ScanState
    PROVE  ScanTurn(t, before, n) \in ScanState
<1> DEFINE src == syncExecIx[before.at][n - 1]
<1>1. /\ before.at \in Task /\ IsMapped(before.at) /\ before.found \in SUBSET SyncInfo
      /\ n - 1 \in LRT
    BY TaskAssumption DEF ScanState, LRT
<1>2. CASE src = NoSync \/ Cardinality(before.found) = Wanted(t)
    BY <1>2 DEF ScanTurn
<1>3. CASE ~ (src = NoSync \/ Cardinality(before.found) = Wanted(t))
    <2>1. src \in Task /\ IsMapped(src)
        BY <1>1, <1>3, RecordedSource
    <2> HIDE DEF src
    <2>2. [lrtToWait |-> n - 1, jobToWait |-> jobExecIx[src]] \in SyncInfo
        BY <1>1, <2>1 DEF TypeOK, SyncInfo
    <2>3. (IF VertexOf[src] = VertexOf[t] THEN src ELSE before.at) \in {u \in Task : IsMapped(u)}
        BY <1>1, <2>1
    <2>4. ScanTurn(t, before, n) =
              [at |-> IF VertexOf[src] = VertexOf[t] THEN src ELSE before.at,
               found |-> before.found \cup {[lrtToWait |-> n - 1, jobToWait |-> jobExecIx[src]]}]
        BY <1>3 DEF ScanTurn, src
    <2> QED
        BY <1>1, <2>2, <2>3, <2>4 DEF ScanState
<1> QED
    BY <1>2, <1>3

\* The scan of the code is the last of these states.
LEMMA ScanRuns ==
    ASSUME TypeOK, Progress, Synced, NEW t \in Task, IsMapped(t)
    PROVE  \E f : /\ Scans(f, t)
                  /\ ConstraintScan(t) =
                        [at |-> f[LRTCount].at,
                         execConstraints |->
                             IF Cardinality(f[LRTCount].found) = Wanted(t) THEN f[LRTCount].found
                             ELSE f[LRTCount].found \cup
                                      {[lrtToWait |-> NoLRT, jobToWait |-> NoJob]}]
<1> DEFINE first == [at |-> t, found |-> {}]
           step == [n \in 1 .. LRTCount |-> [x \in ScanState |-> ScanTurn(t, x, n)]]
           Loop(f) == [n \in 0 .. LRTCount |-> IF n = 0 THEN first ELSE ScanTurn(t, f[n - 1], n)]
           scan == CHOOSE f : f = Loop(f)
<1>1. LRTCount \in Nat \ {0} /\ first \in ScanState
    BY TaskAssumption DEF ScanState
<1>2. \A n \in 1 .. LRTCount : \A x \in ScanState : step[n][x] = ScanTurn(t, x, n)
    OBVIOUS
<1>3. \A n \in 1 .. LRTCount : \A x \in ScanState : step[n][x] \in ScanState
    BY <1>2, ScanTurnType
<1> HIDE DEF first, step
<1>4. PICK f : LoopStates(f, LRTCount, ScanState, first, step)
    BY <1>1, <1>3, LoopRuns
<1>5. /\ f \in [0 .. LRTCount -> ScanState]
      /\ f[0] = first
      /\ \A n \in 1 .. LRTCount : f[n] = ScanTurn(t, f[n - 1], n)
    <2>1. \A n \in 1 .. LRTCount : f[n - 1] \in ScanState
        BY <1>1, <1>4 DEF LoopStates
    <2> QED
        BY <1>2, <1>4, <2>1 DEF LoopStates
<1>6. f = Loop(f)
    <2>1. \A n \in 0 .. LRTCount : f[n] = Loop(f)[n]
        BY <1>1, <1>5
    <2> QED
        BY <1>5, <2>1
<1>7. scan = Loop(scan)
    <2> HIDE DEF Loop
    <2> QED
        BY <1>6
<1> HIDE DEF scan
<1>8. \A n \in 0 .. LRTCount : scan[n] = f[n]
    <2> DEFINE T == {n \in 0 .. LRTCount : scan[n] = f[n]}
    <2>1. 0 \in T
        BY <1>1, <1>5, <1>7
    <2>2. ASSUME NEW n \in 1 .. LRTCount, n - 1 \in T PROVE n \in T
        <3>1. n \in 0 .. LRTCount /\ n # 0 /\ scan[n - 1] = f[n - 1]
            BY <1>1, <2>2
        <3>2. scan[n] = Loop(scan)[n]
            BY <1>7
        <3>3. scan[n] = ScanTurn(t, scan[n - 1], n)
            BY <3>1, <3>2
        <3> QED
            BY <1>5, <3>1, <3>3
    <2> HIDE DEF T
    <2>3. 0 .. LRTCount \subseteq T
        BY <1>1, <2>1, <2>2, TurnInduction
    <2> QED
        BY <2>3 DEF T
<1>9. ConstraintScan(t) =
          [at |-> scan[LRTCount].at,
           execConstraints |->
               IF Cardinality(scan[LRTCount].found) = Wanted(t) THEN scan[LRTCount].found
               ELSE scan[LRTCount].found \cup {[lrtToWait |-> NoLRT, jobToWait |-> NoJob]}]
    BY DEF ConstraintScan, scan, first, ScanTurn, Wanted
<1>10. scan[LRTCount] = f[LRTCount]
    BY <1>1, <1>8
<1> QED
    BY <1>5, <1>9, <1>10 DEF Scans, first

-----------------------------------------------------------------------------
(* Every step keeps what the mapping established                           *)

LEMMA FlagsType ==
    ASSUME TypeOK, Progress, NEW t \in Task
    PROVE  UNION {SinkFlags(t, u) : u \in Successors(t)} \subseteq LRT
<1> SUFFICES ASSUME NEW u \in Successors(t) PROVE SinkFlags(t, u) \subseteq LRT
    OBVIOUS
<1>1. u \in Task /\ t \in Deps[u]
    BY DEF Successors
<1>2. CASE state[u] # "READY"
    BY <1>2 DEF SinkFlags
<1>3. CASE state[u] = "READY"
    <2>1. mappedLRT[u] \in LRT
        BY <1>1, <1>3 DEF TypeOK, Progress, IsMapped
    <2> QED
        BY <1>3, <2>1 DEF SinkFlags
<1> QED
    BY <1>2, <1>3

\* A job message built from a scan of the constraints of its task.
LEMMA MessageType ==
    ASSUME MapInv, NEW t \in Task, state[t] = "READY"
    PROVE  LET scan == ConstraintScan(t)
           IN  /\ scan.at \in Task /\ IsMapped(scan.at)
               /\ [taskIx |-> t, execIx |-> jobExecIx[t],
                   execConstraints |-> scan.execConstraints,
                   synchronizationFlags |-> UNION {SinkFlags(t, u) : u \in Successors(t)}]
                      \in JobMessage
<1>1. TypeOK /\ Progress /\ Numbered /\ Synced /\ IsMapped(t)
    BY DEF MapInv, Progress
<1>2. PICK f : /\ Scans(f, t)
               /\ ConstraintScan(t) =
                     [at |-> f[LRTCount].at,
                      execConstraints |->
                          IF Cardinality(f[LRTCount].found) = Wanted(t) THEN f[LRTCount].found
                          ELSE f[LRTCount].found \cup
                                   {[lrtToWait |-> NoLRT, jobToWait |-> NoJob]}]
    BY <1>1, ScanRuns
<1>3. f[LRTCount] \in ScanState
    BY <1>2, TaskAssumption DEF Scans
<1>4. [lrtToWait |-> NoLRT, jobToWait |-> NoJob] \in SyncInfo
    BY DEF SyncInfo
<1>5. /\ ConstraintScan(t).at \in Task /\ IsMapped(ConstraintScan(t).at)
      /\ ConstraintScan(t).execConstraints \in SUBSET SyncInfo
    BY <1>2, <1>3, <1>4 DEF ScanState
<1>6. jobExecIx[t] \in Nat
    <2>1. jobExecIx[t] \in 0 .. jobCount[mappedLRT[t]] - 1
        BY <1>1 DEF Numbered
    <2>2. mappedLRT[t] \in LRT
        BY <1>1 DEF TypeOK, IsMapped
    <2> QED
        BY <1>1, <2>1, <2>2 DEF TypeOK
<1>7. UNION {SinkFlags(t, u) : u \in Successors(t)} \in SUBSET LRT
    BY <1>1, FlagsType
<1> QED
    BY <1>5, <1>6, <1>7 DEF JobMessage

LEMMA LaunchKeepsMapInv ==
    ASSUME MapInv, NEW t \in Task, Launch(t)
    PROVE  MapInv'
<1> DEFINE scan == ConstraintScan(t)
           message == [taskIx |-> t, execIx |-> jobExecIx[t],
                       execConstraints |-> scan.execConstraints,
                       synchronizationFlags |-> UNION {SinkFlags(t, u) : u \in Successors(t)}]
<1>1. /\ UNCHANGED <<executionPolicy, mappingPolicy, rtInfo, startTime, endTime, stats,
                     minStartTime, currentPe, mappedLRT, jobExecIx, syncExecIx, jobCount,
                     round, toMap>>
      /\ toLaunch' = toLaunch \ {t}
      /\ t \in toLaunch /\ t \notin toMap /\ \A u \in toLaunch : t <= u
    BY DEF Launch, NextOf, config, times
<1>2. /\ TypeOK /\ Progress /\ Numbered /\ Synced /\ Timed
    BY DEF MapInv
<1>3. jobs' \in [LRT -> Seq(JobMessage)] /\ state' \in [Task -> TaskState]
      /\ \A u \in Task : state'[u] # "NOT_SCHEDULABLE" <=> state[u] # "NOT_SCHEDULABLE"
    <2>1. CASE state[t] = "READY"
        <3>1. /\ jobs' = [jobs EXCEPT ![mappedLRT[scan.at]] = Append(@, message)]
              /\ state' = [state EXCEPT ![scan.at] = "RUNNING"]
            BY <2>1 DEF Launch
        <3>2. scan.at \in Task /\ IsMapped(scan.at) /\ message \in JobMessage
            BY <2>1, MessageType
        <3> HIDE DEF scan, message
        <3>3. state[scan.at] # "NOT_SCHEDULABLE"
            BY <1>2, <3>2 DEF Progress
        <3>4. \A l \in LRT : Append(jobs[l], message) \in Seq(JobMessage)
            BY <1>2, <3>2, AppendProperties DEF TypeOK
        <3> QED
            BY <1>2, <3>1, <3>2, <3>3, <3>4 DEF TypeOK, TaskState
    <2>2. CASE state[t] # "READY"
        BY <1>2, <2>2 DEF Launch, TypeOK
    <2> QED
        BY <2>1, <2>2
<1>4. TypeOK'
    <2>1. toMap' \subseteq toLaunch' /\ toLaunch' \subseteq Task
        BY <1>1, <1>2 DEF TypeOK
    <2> QED
        BY <1>1, <1>2, <1>3, <2>1 DEF TypeOK
<1>5. \A u \in Task : IsMapped(u)' <=> IsMapped(u)
    BY <1>1 DEF IsMapped
<1>6. \A u, v \in Task : u < v /\ v \in Sent' => u \in Sent'
    <2> SUFFICES ASSUME NEW u \in Task, NEW v \in Task, u < v, v \in Sent'
                 PROVE  u \in Sent'
        OBVIOUS
    <2>1. RoundOf[u] <= RoundOf[v] /\ RoundOf[v] <= round
        BY <1>1, TaskAssumption, AllocatorAssumption DEF Sent
    <2>2. RoundOf[u] <= round
        BY <1>2, <2>1, TaskAssumption DEF TypeOK
    <2>3. CASE v = t
        <3>1. u \notin toLaunch
            BY <1>1, <2>3, TaskAssumption
        <3> QED
            BY <1>1, <2>2, <3>1 DEF Sent
    <2>4. CASE v # t
        <3>1. v \in Sent
            BY <1>1, <2>4 DEF Sent
        <3>2. u \in Sent
            BY <1>2, <3>1 DEF Progress
        <3> QED
            BY <1>1, <3>2 DEF Sent
    <2> QED
        BY <2>3, <2>4
<1>7. Progress'
    BY <1>1, <1>2, <1>3, <1>5, <1>6 DEF Progress
<1>8. Numbered' /\ Synced' /\ Timed'
    BY <1>1, <1>2, <1>5 DEF Numbered, Synced, Timed
<1> QED
    BY <1>4, <1>7, <1>8 DEF MapInv

LEMMA ScheduleKeepsMapInv ==
    ASSUME MapInv, Schedule
    PROVE  MapInv'
<1>1. /\ UNCHANGED <<executionPolicy, mappingPolicy, rtInfo, startTime, endTime, stats,
                     currentPe, mappedLRT, jobExecIx, syncExecIx, state, jobCount, jobs>>
      /\ toLaunch = {} /\ round' = round + 1
      /\ toMap' = {t \in Task : RoundOf[t] = round'} /\ toLaunch' = toMap'
      /\ minStartTime' = MinEndTime(stats)
    BY DEF Schedule, config, taskVars
<1>2. TypeOK /\ Progress /\ Numbered /\ Synced /\ Timed
    BY DEF MapInv
<1>3. minStartTime' \in Nat /\ \A l \in LRT : minStartTime' <= stats'[l].endTime
    BY <1>1, <1>2, MinEndTimeBound DEF TypeOK
<1>4. TypeOK'
    BY <1>1, <1>2, <1>3 DEF TypeOK
<1>5. \A t \in Task : IsMapped(t)' <=> IsMapped(t)
    BY <1>1 DEF IsMapped
<1>6. \A t \in Task : RoundOf[t] \in Nat /\ round \in Nat
    BY <1>2, TaskAssumption DEF TypeOK
<1>7. \A t \in Task : IsMapped(t) <=> RoundOf[t] <= round' /\ t \notin toMap'
    <2> SUFFICES ASSUME NEW t \in Task
                 PROVE  IsMapped(t) <=> RoundOf[t] <= round' /\ t \notin toMap'
        OBVIOUS
    <2>1. IsMapped(t) <=> RoundOf[t] <= round
        BY <1>1, <1>2 DEF Progress, TypeOK
    <2>2. t \in toMap' <=> RoundOf[t] = round + 1
        BY <1>1
    <2> QED
        BY <1>1, <1>6, <2>1, <2>2
<1>8. Sent' = Sent
    BY <1>1, <1>6 DEF Sent
<1>9. Progress'
    BY <1>1, <1>2, <1>5, <1>7, <1>8 DEF Progress
<1>10. Numbered' /\ Synced' /\ Timed'
    BY <1>1, <1>2, <1>3, <1>5 DEF Numbered, Synced, Timed
<1> QED
    BY <1>4, <1>9, <1>10 DEF MapInv

LEMMA NoStatsType == NoStats \in [LRT -> PEStats]
BY DEF NoStats, PEStats

LEMMA ClearKeepsMapInv ==
    ASSUME MapInv, Clear
    PROVE  MapInv'
<1>1. /\ UNCHANGED <<executionPolicy, mappingPolicy, rtInfo, minStartTime, currentPe, toMap, toLaunch>>
      /\ toLaunch = {} /\ toMap = {} /\ round' = 0 /\ stats' = NoStats
      /\ jobCount' = [l \in LRT |-> 0]
      /\ mappedLRT' = [t \in Task |-> NoLRT]
      /\ state' = [t \in Task |-> "NOT_SCHEDULABLE"]
    BY DEF Clear, config, MapInv, TypeOK
<1>2. TypeOK'
    <2>1. TypeOK
        BY DEF MapInv
    <2>2. jobs' \in [LRT -> Seq(JobMessage)]
        BY EmptySeq DEF Clear
    <2>3. /\ jobExecIx' \in [Task -> Nat \cup {NoJob}]
          /\ syncExecIx' \in [Task -> [LRT -> Task \cup {NoSync}]]
          /\ startTime' \in [Task -> Nat] /\ endTime' \in [Task -> Nat]
        BY DEF Clear
    <2> QED
        BY <1>1, <2>1, <2>2, <2>3, NoStatsType DEF TypeOK, TaskState
<1>3. /\ \A t \in Task : mappedLRT'[t] = NoLRT /\ state'[t] = "NOT_SCHEDULABLE"
      /\ round' = 0 /\ toMap' = {} /\ toLaunch' = {} /\ stats' = NoStats
      /\ \A l \in LRT : jobCount'[l] = 0
    BY <1>1
<1>4. /\ \A t \in Task : ~ IsMapped(t)' /\ ~ (RoundOf[t] <= 0)
      /\ LRT \subseteq Int /\ NoLRT \notin LRT
    BY <1>3, LRTIsNat, TaskAssumption DEF IsMapped
<1>5. Sent' = {}
    BY <1>3, <1>4 DEF Sent
<1>6. Progress'
    BY <1>3, <1>4, <1>5 DEF Progress
<1>7. Numbered' /\ Synced' /\ Timed'
    BY <1>3, <1>4 DEF Numbered, Synced, Timed, NoStats
<1> QED
    BY <1>2, <1>6, <1>7 DEF MapInv

LEMMA InitMapInv ==
    ASSUME Init
    PROVE  MapInv
<1>1. TypeOK
    <2>1. jobs \in [LRT -> Seq(JobMessage)]
        BY EmptySeq DEF Init
    <2>2. \A v \in Vertex : rtInfo[v] \in RTInfos[v]
        BY DEF Init
    <2>3. currentPe \in LRT
        BY TaskAssumption DEF Init, LRT
    <2> QED
        BY <2>1, <2>2, <2>3, NoStatsType DEF Init, TypeOK, TaskState
<1>2. /\ \A t \in Task : mappedLRT[t] = NoLRT /\ state[t] = "NOT_SCHEDULABLE"
      /\ round = 0 /\ toMap = {} /\ toLaunch = {} /\ stats = NoStats
      /\ \A l \in LRT : jobCount[l] = 0
    BY DEF Init
<1>3. \A t \in Task : ~ IsMapped(t) /\ ~ (RoundOf[t] <= 0)
    BY <1>2, TaskAssumption DEF IsMapped
<1>4. Sent = {}
    BY <1>2, <1>3 DEF Sent
<1>5. Progress
    BY <1>2, <1>3, <1>4 DEF Progress
<1>6. Numbered /\ Synced /\ Timed
    BY <1>2, <1>3 DEF Numbered, Synced, Timed, NoStats
<1> QED
    BY <1>1, <1>5, <1>6 DEF MapInv

LEMMA NextKeepsMapInv ==
    ASSUME MapInv, [Next]_vars
    PROVE  MapInv'
<1>1. CASE Schedule
    BY <1>1, ScheduleKeepsMapInv
<1>2. ASSUME NEW t \in Task, Map(t) PROVE MapInv'
    <2>1. TypeOK /\ Progress /\ Numbered /\ Synced /\ Timed
        BY DEF MapInv
    <2>2. t \in toMap /\ \A u \in toMap : t <= u
        BY <1>2, <2>1, MapStep
    <2>3. PICK lrt \in LRT, start \in Nat, end \in Nat : MapEffect(t, lrt, start, end)
        BY <1>2, <2>1, MapStep
    <2> QED
        BY <2>1, <2>2, <2>3, MapKeepsType, MapKeepsProgress, MapKeepsNumbered,
           MapKeepsSynced, MapKeepsTimed DEF MapInv
<1>3. ASSUME NEW t \in Task, Launch(t) PROVE MapInv'
    BY <1>3, LaunchKeepsMapInv
<1>4. CASE Clear
    BY <1>4, ClearKeepsMapInv
<1>5. CASE UNCHANGED vars
    BY <1>5 DEF MapInv, TypeOK, Progress, Numbered, Synced, Timed, IsMapped, Sent,
                vars, allocatorVars, config, times, taskVars
<1> QED
    BY <1>1, <1>2, <1>3, <1>4, <1>5 DEF Next

\* The indices, synchronisations and times that Mapper::map writes on the tasks
\* agree with those of the tasks they come after.
THEOREM MapInvariant == Spec => []MapInv
<1>1. Init => MapInv
    BY InitMapInv
<1>2. MapInv /\ [Next]_vars => MapInv'
    BY NextKeepsMapInv
<1> QED
    BY <1>1, <1>2, PTL DEF Spec

-----------------------------------------------------------------------------
(* The theorems                                                            *)

\* The tables of the allocator, the jobs it sends and the statistics it keeps of
\* the PEs have their types in every state, stateful vertices included.
THEOREM AllocatorTypeCorrect == Spec => []TypeOK
<1>1. MapInv => TypeOK
    BY DEF MapInv
<1> QED
    BY <1>1, MapInvariant, PTL

\* The schedule computed while the tasks are mapped can be executed, whatever the
\* mapper chose: no task starts before its sources have ended, the tasks of a PE
\* do not overlap, and its statistics add up.
THEOREM FeasibleSchedule == Spec => []ScheduleFeasible
<1>1. MapInv => ScheduleFeasible
    <2> SUFFICES ASSUME MapInv PROVE ScheduleFeasible
        OBVIOUS
    <2> DEFINE Mapped == {t \in Task : mappedLRT[t] # NoLRT}
    <2>1. TypeOK /\ Timed
        BY DEF MapInv
    <2>2. \A t \in Mapped : \A s \in Deps[t] : endTime[s] <= startTime[t]
        BY <2>1 DEF Timed, IsMapped
    <2>3. \A t, u \in Mapped :
              mappedLRT[t] = mappedLRT[u] /\ jobExecIx[t] < jobExecIx[u]
                  => endTime[t] <= startTime[u]
        BY <2>1 DEF Timed, IsMapped
    <2>4. ASSUME NEW l \in LRT
          PROVE  stats[l].endTime = Max({0} \cup {endTime[t] : t \in {u \in Mapped : mappedLRT[u] = l}})
        <3> DEFINE on == {u \in Mapped : mappedLRT[u] = l}
                   ends == {endTime[t] : t \in on}
                   S == {0} \cup ends
                   last == stats[l].endTime
        <3>1. \A t \in on : t \in Task /\ endTime[t] \in Nat /\ IsMapped(t)
            BY <2>1 DEF TypeOK, IsMapped
        <3>2. S \subseteq Nat /\ S # {}
            BY <3>1
        <3>3. IsFiniteSet(S)
            <4>1. IsFiniteSet(on)
                BY TaskAssumption, FS_Subset
            <4>2. IsFiniteSet(ends)
                BY <4>1, ImageIsFinite
            <4> HIDE DEF ends
            <4>3. IsFiniteSet(ends \cup {0})
                BY <4>2, FS_AddElement
            <4>4. S = ends \cup {0}
                OBVIOUS
            <4> QED
                BY <4>3, <4>4
        <3>4. last \in Nat /\ \A y \in S : y <= last
            <4>1. last \in Nat
                BY <2>1 DEF TypeOK, PEStats
            <4>2. \A t \in on : endTime[t] <= last
                BY <2>1, <3>1 DEF Timed
            <4> QED
                BY <4>1, <4>2
        <3>5. last \in S
            <4>1. CASE last = 0
                BY <4>1
            <4>2. CASE last # 0
                <5>1. PICK t \in Task : mappedLRT[t] = l /\ endTime[t] = last
                    BY <2>1, <4>2 DEF Timed
                <5>2. t \in on
                    BY <5>1, LRTIsNat
                <5> QED
                    BY <5>1, <5>2
            <4> QED
                BY <4>1, <4>2
        <3> HIDE DEF S, last
        <3>6. Max(S) \in S /\ \A y \in S : y <= Max(S)
            BY <3>2, <3>3, MaxIsGreatest
        <3>7. Max(S) = last
            <4>1. last <= Max(S) /\ Max(S) <= last /\ Max(S) \in Nat
                BY <3>2, <3>4, <3>5, <3>6
            <4> QED
                BY <3>4, <4>1
        <3> QED
            BY <3>7 DEF S, last
    <2>5. \A l \in LRT : stats[l].endTime = stats[l].loadTime + stats[l].idleTime
        BY <2>1 DEF Timed
    <2> QED
        BY <2>2, <2>3, <2>4, <2>5 DEF ScheduleFeasible
<1> QED
    BY <1>1, MapInvariant, PTL

\* The time BestFitMapper compares for a PE is the time at which the task would
\* really end there: starting from the smallest end time of the platform
\* (computeMinStartTime) instead of the start of the schedule changes nothing.
LEMMA CandidateEnds ==
    ASSUME MapInv, NEW t \in Task, t \in toMap, NEW pe \in LRT
    PROVE  Candidate(rtInfo[VertexOf[t]], [l \in LRT |-> stats[l].endTime],
                     ComputeStartTime(t), pe).endTime = WouldEnd(t, pe)
<1> DEFINE info == rtInfo[VertexOf[t]]
           earliest == ComputeStartTime(t)
           free == stats[pe].endTime + (IF pe = GRTPE THEN GRTOverhead ELSE 0)
           ends == {endTime[s] : s \in Deps[t]}
           S == {free} \cup ends
<1>1. TypeOK /\ Timed
    BY DEF MapInv
<1>2. Candidate(info, [l \in LRT |-> stats[l].endTime], earliest, pe).endTime
          = Max({free, earliest}) + info.timing[pe]
    BY DEF Candidate
<1>3. WouldEnd(t, pe) = Max(S) + info.timing[pe]
    BY DEF WouldEnd
<1>4. free \in Nat /\ minStartTime \in Nat /\ minStartTime <= free
    <2>1. stats[pe].endTime \in Nat /\ minStartTime <= stats[pe].endTime /\ minStartTime \in Nat
        BY <1>1 DEF TypeOK, Timed, PEStats
    <2> QED
        BY <2>1 DEF GRTOverhead
<1> HIDE DEF free
<1>5. /\ earliest \in Nat /\ \A s \in Deps[t] : endTime[s] <= earliest
      /\ earliest = minStartTime \/ \E s \in Deps[t] : earliest = endTime[s]
    BY <1>1, EarliestStart
<1> HIDE DEF earliest
<1>6. Max({free, earliest}) \in {free, earliest}
      /\ \A y \in {free, earliest} : y <= Max({free, earliest})
    BY <1>4, <1>5, MaxIsGreatest, PairIsFinite
<1>7. Deps[t] \subseteq Task /\ \A s \in Deps[t] : endTime[s] \in Nat
    BY <1>1, TaskAssumption DEF TypeOK
<1>8. Max(S) \in S /\ \A y \in S : y <= Max(S)
    <2>1. S \subseteq Nat /\ S # {}
        BY <1>4, <1>7
    <2>2. IsFiniteSet(ends)
        BY <1>7, TaskAssumption, FS_Subset, ImageIsFinite
    <2>3. IsFiniteSet(S)
        <3> HIDE DEF ends
        <3>1. IsFiniteSet(ends \cup {free})
            BY <2>2, FS_AddElement
        <3>2. S = ends \cup {free}
            OBVIOUS
        <3> QED
            BY <3>1, <3>2
    <2> HIDE DEF S
    <2> QED
        BY <2>1, <2>3, MaxIsGreatest
<1>9. Max(S) = Max({free, earliest})
    <2> DEFINE m == Max(S)
               n == Max({free, earliest})
    <2>1. /\ free <= m /\ \A s \in Deps[t] : endTime[s] <= m
          /\ m = free \/ \E s \in Deps[t] : m = endTime[s]
        BY <1>8
    <2>2. free <= n /\ earliest <= n /\ (n = free \/ n = earliest)
        BY <1>6
    <2> HIDE DEF m, n, S
    <2>3. m \in Nat /\ n \in Nat
        BY <1>4, <1>5, <1>7, <2>1, <2>2
    <2>4. m <= n
        BY <1>4, <1>5, <1>7, <2>1, <2>2, <2>3
    <2>5. n <= m
        BY <1>4, <1>5, <1>7, <2>1, <2>2, <2>3
    <2>6. m = n
        BY <2>3, <2>4, <2>5
    <2> QED
        BY <2>6 DEF m, n
<1> QED
    BY <1>2, <1>3, <1>9 DEF info, earliest

\* Every step that maps a task chooses an enabled and allowed PE: with best fit
\* none would end the task sooner, with round robin none is nearer to the cursor.
THEOREM WellMapped == Spec => MappedWell
<1> DEFINE Maps(t) == mappedLRT[t] = NoLRT /\ mappedLRT'[t] # NoLRT
<1>1. MapInv /\ [Next]_vars => [\A t \in Task : Maps(t) => MapsWell(t)]_vars
    <2> SUFFICES ASSUME MapInv, Next, NEW t \in Task, Maps(t)
                 PROVE  MapsWell(t)
        OBVIOUS
    <2>1. TypeOK /\ Progress
        BY DEF MapInv
    <2>2. Map(t)
        <3>1. ~ Schedule /\ ~ Clear
            BY DEF Schedule, Clear, taskVars
        <3>2. \A u \in Task : ~ Launch(u)
            BY DEF Launch
        <3>3. \A u \in Task : u # t => ~ Map(u)
            BY <2>1 DEF Map, TypeOK
        <3> QED
            BY <3>1, <3>2, <3>3 DEF Next
    <2> DEFINE info == rtInfo[VertexOf[t]]
               earliest == ComputeStartTime(t)
               free == [l \in LRT |-> stats[l].endTime]
               chosen == mappedLRT'[t]
               allowed == Allowed(info)
    <2>3. chosen = FindPE(info, earliest) /\ t \in toMap
        BY <2>1, <2>2 DEF Map, NextOf, TypeOK
    <2>4. /\ info \in RTInfo /\ chosen \in allowed /\ allowed \subseteq LRT
          /\ free \in [LRT -> Nat] /\ currentPe \in LRT /\ earliest \in Nat
        BY <2>1, <2>3, PEFound, EarliestStart, MapperAssumption DEF Allowed, TypeOK, PEStats
    <2>5. \A pe \in LRT : Candidate(info, free, earliest, pe).endTime = WouldEnd(t, pe)
        BY <2>3, CandidateEnds
    <2>6. mappingPolicy = "BEST_FIT" => chosen = BestFit(info, free, earliest)
        BY <2>3 DEF FindPE
    <2>7. mappingPolicy = "ROUND_ROBIN" => chosen = RoundRobin(info, currentPe)
        BY <2>3 DEF FindPE, MappingPolicy
    <2> HIDE DEF info, earliest, free, chosen
    <2>8. mappingPolicy = "BEST_FIT" =>
              \A pe \in allowed : WouldEnd(t, chosen) <= WouldEnd(t, pe)
        <3> SUFFICES ASSUME mappingPolicy = "BEST_FIT", NEW pe \in allowed
                     PROVE  WouldEnd(t, chosen) <= WouldEnd(t, pe)
            OBVIOUS
        <3>1. Candidate(info, free, earliest, chosen).endTime
                  <= Candidate(info, free, earliest, pe).endTime
            BY <2>4, <2>6, BestFitSoonest
        <3> QED
            BY <2>4, <2>5, <3>1
    <2>9. mappingPolicy = "ROUND_ROBIN" =>
              \A pe \in allowed : (chosen - currentPe) % LRTCount <= (pe - currentPe) % LRTCount
        BY <2>4, <2>7, RoundRobinNext
    <2> QED
        BY <2>4, <2>8, <2>9 DEF MapsWell, info, chosen
<1> QED
    BY <1>1, MapInvariant, PTL DEF Spec, MappedWell

-----------------------------------------------------------------------------
(* The job messages                                                        *)

\* No firing of a vertex depends on another firing of it: the vertex keeps no
\* state (TaskLauncher::buildExecConstraints, VectPiSDFTask::setOnFiring).
NoOwnDeps == \A t \in Task : \A s \in Deps[t] : VertexOf[s] # VertexOf[t]

-----------------------------------------------------------------------------
(* The scan of the constraints                                             *)

SyncedLRTs(t) == {l \in LRT : syncExecIx[t][l] # NoSync}

\* The constraints for the LRTs of K, each with the index found in its source.
ConstraintsOn(t, K) ==
    {[lrtToWait |-> l, jobToWait |-> jobExecIx[syncExecIx[t][l]]] : l \in K}

\* One constraint for each LRT.
LEMMA ConstraintsCount ==
    ASSUME NEW t \in Task, NEW K \in SUBSET LRT
    PROVE  IsFiniteSet(K) /\ Cardinality(ConstraintsOn(t, K)) = Cardinality(K)
<1> DEFINE f == [l \in K |-> [lrtToWait |-> l, jobToWait |-> jobExecIx[syncExecIx[t][l]]]]
           C == ConstraintsOn(t, K)
<1>1. IsFiniteSet(LRT)
    BY TaskAssumption, FS_Interval DEF LRT
<1>2. IsFiniteSet(K)
    BY <1>1, FS_Subset
<1>3. f \in [K -> C]
    BY DEF ConstraintsOn
<1>4. \A x, y \in K : f[x] = f[y] => x = y
    <2> TAKE x, y \in K
    <2>1. f[x].lrtToWait = x /\ f[y].lrtToWait = y
        OBVIOUS
    <2> QED
        BY <2>1
<1>5. \A c \in C : \E x \in K : f[x] = c
    BY DEF ConstraintsOn
<1>6. f \in Bijection(K, C)
    <2> HIDE DEF f, C
    <2> QED
        BY <1>3, <1>4, <1>5, Fun_IsBij
<1>7. ExistsBijection(K, C)
    BY <1>6 DEF ExistsBijection
<1> HIDE DEF C
<1>8. Cardinality(C) = Cardinality(K)
    BY <1>2, <1>7, FS_Bijection
<1> QED
    BY <1>2, <1>8 DEF C

\* The scan leaves the cursor where it was and finds all the constraints.
LEMMA ScanExact ==
    ASSUME NoOwnDeps, TypeOK, Progress, Synced, NEW t \in Task, IsMapped(t)
    PROVE  ConstraintScan(t) =
               [at |-> t, execConstraints |-> ConstraintsOn(t, SyncedLRTs(t))]
<1> DEFINE Below(n) == {l \in SyncedLRTs(t) : l < n}
           Exact(n) == [at |-> t, found |-> ConstraintsOn(t, Below(n))]
<1>1. PICK f : /\ Scans(f, t)
               /\ ConstraintScan(t) =
                     [at |-> f[LRTCount].at,
                      execConstraints |->
                          IF Cardinality(f[LRTCount].found) = Wanted(t) THEN f[LRTCount].found
                          ELSE f[LRTCount].found \cup
                                   {[lrtToWait |-> NoLRT, jobToWait |-> NoJob]}]
    BY ScanRuns
<1>2. /\ LRTCount \in Nat \ {0} /\ LRT \subseteq Nat /\ SyncedLRTs(t) \subseteq LRT
      /\ \A n \in 1 .. LRTCount : n - 1 \in LRT
      /\ \A l \in SyncedLRTs(t) : l < LRTCount /\ ~ (l < 0)
      /\ \A l \in SyncedLRTs(t) : \A n \in 1 .. LRTCount : l < n <=> (l < n - 1 \/ l = n - 1)
    BY TaskAssumption DEF LRT, SyncedLRTs
<1>3. Wanted(t) = Cardinality(SyncedLRTs(t)) /\ IsFiniteSet(SyncedLRTs(t))
    <2>1. IsFiniteSet(SyncedLRTs(t))
        BY <1>2, ConstraintsCount
    <2> QED
        BY <2>1 DEF Wanted, SyncedLRTs
<1> DEFINE T == {n \in 0 .. LRTCount : f[n] = Exact(n)}
<1>4. 0 \in T
    <2>1. Below(0) = {}
        BY <1>2
    <2>2. ConstraintsOn(t, Below(0)) = {}
        BY <2>1 DEF ConstraintsOn
    <2>3. f[0] = [at |-> t, found |-> {}]
        BY <1>1 DEF Scans
    <2>4. 0 \in 0 .. LRTCount
        BY <1>2
    <2> QED
        BY <2>2, <2>3, <2>4
<1>5. ASSUME NEW n \in 1 .. LRTCount, n - 1 \in T PROVE n \in T
    <2> DEFINE l == n - 1
               src == syncExecIx[t][l]
               before == f[l]
    <2>1. l \in LRT /\ n \in 0 .. LRTCount /\ before = Exact(l)
        BY <1>2, <1>5
    <2>2. f[n] = ScanTurn(t, before, n)
        BY <1>1 DEF Scans
    <2>3. CASE src = NoSync
        <3>1. Below(n) = Below(l)
            BY <1>2, <2>1, <2>3 DEF SyncedLRTs
        <3>2. ScanTurn(t, before, n) = before
            BY <2>1, <2>3 DEF ScanTurn
        <3> QED
            BY <2>1, <2>2, <3>1, <3>2
    <2>4. CASE src # NoSync
        <3>8. l \in SyncedLRTs(t)
            BY <2>1, <2>4 DEF SyncedLRTs
        <3>1. Below(n) = Below(l) \cup {l}
            BY <1>2, <3>8
        <3>2. Below(l) \in SUBSET SyncedLRTs(t) /\ Below(l) # SyncedLRTs(t)
            BY <1>2, <2>1, <3>8
        <3>3. Cardinality(before.found) # Wanted(t)
            <4> DEFINE B == Below(l)
            <4>1. B \in SUBSET SyncedLRTs(t) /\ B # SyncedLRTs(t) /\ B \in SUBSET LRT
                BY <1>2, <3>2
            <4>2. before.found = ConstraintsOn(t, B)
                BY <2>1
            <4> HIDE DEF B, before
            <4>3. Cardinality(before.found) = Cardinality(B)
                BY <4>1, <4>2, ConstraintsCount
            <4> QED
                BY <1>3, <4>1, <4>3, FS_Subset
        <3>4. src \in Deps[t]
            BY <2>1, <2>4, RecordedSource
        <3>5. VertexOf[src] # VertexOf[t]
            BY <3>4 DEF NoOwnDeps
        <3>6. f[n] = [at |-> t, found |-> ConstraintsOn(t, Below(l)) \cup
                                   {[lrtToWait |-> l, jobToWait |-> jobExecIx[src]]}]
            BY <2>1, <2>2, <2>4, <3>3, <3>5 DEF ScanTurn
        <3>7. ConstraintsOn(t, Below(n)) = ConstraintsOn(t, Below(l)) \cup
                                   {[lrtToWait |-> l, jobToWait |-> jobExecIx[src]]}
            BY <3>1 DEF ConstraintsOn
        <3> QED
            BY <2>1, <3>6, <3>7
    <2> QED
        BY <2>3, <2>4
<1>6. f[LRTCount] = Exact(LRTCount)
    <2> HIDE DEF T
    <2>1. 0 .. LRTCount \subseteq T
        BY <1>2, <1>4, <1>5, TurnInduction
    <2> QED
        BY <1>2, <2>1 DEF T
<1>7. Below(LRTCount) = SyncedLRTs(t)
    BY <1>2
<1>8. /\ f[LRTCount].at = t
      /\ f[LRTCount].found = ConstraintsOn(t, SyncedLRTs(t))
    BY <1>6, <1>7
<1>9. Cardinality(f[LRTCount].found) = Wanted(t)
    BY <1>2, <1>3, <1>8, ConstraintsCount
<1> QED
    BY <1>1, <1>8, <1>9

-----------------------------------------------------------------------------
(* The inductive invariant                                                 *)

\* The LRTs that the runner of t notifies, from what its sinks have recorded.
FlagsOf(t) ==
    IF Successors(t) \subseteq ReadyWhenLaunched(executionPolicy, t)
    THEN {mappedLRT[u] : u \in {v \in Successors(t) :
              mappedLRT[v] # mappedLRT[t] /\ syncExecIx[v][mappedLRT[t]] <= t}}
    ELSE LRT

\* A task is READY between the loop that maps it and the loop that launches it,
\* and in JIT mode one task at most is.
States ==
    /\ \A t \in Task : IsMapped(t) =>
          state[t] = IF t \in toLaunch THEN "READY" ELSE "RUNNING"
    /\ executionPolicy = "JIT" => \A t, u \in toLaunch \ toMap : t = u

\* The message of a task that was launched, from what the task holds.
MessageOf(t) ==
    [taskIx |-> t, execIx |-> jobExecIx[t],
     execConstraints |-> ConstraintsOn(t, SyncedLRTs(t)),
     synchronizationFlags |-> FlagsOf(t)]

\* The jobs sent to a LRT are those of the tasks launched there, by index, and
\* stay what the tasks hold: a sink whose LRT was read is never mapped again.
JobsSent ==
    /\ \A l \in LRT : \A i \in 1 .. Len(jobs[l]) :
          \E t \in Sent : /\ mappedLRT[t] = l
                         /\ jobExecIx[t] = i - 1
                         /\ jobs[l][i] = MessageOf(t)
    /\ \A t \in Sent :
          /\ jobExecIx[t] < Len(jobs[mappedLRT[t]])
          /\ Successors(t) \subseteq ReadyWhenLaunched(executionPolicy, t)
                => \A u \in Successors(t) : IsMapped(u)

\* The inductive invariant of launching.
LaunchInv == MapInv /\ States /\ JobsSent

SentIsMapped == \A t \in Sent : t \in Task /\ IsMapped(t) /\ mappedLRT[t] \in LRT

LEMMA LaunchedAreMapped ==
    ASSUME TypeOK, Progress
    PROVE  SentIsMapped
BY DEF SentIsMapped, Sent, Progress, TypeOK, IsMapped

\* Two tasks of a LRT have different indices.
LEMMA IndexIsUnique ==
    ASSUME Numbered, NEW t \in Task, NEW u \in Task, IsMapped(t),
           mappedLRT[t] = mappedLRT[u], jobExecIx[t] = jobExecIx[u]
    PROVE  t = u
<1>1. t \in Nat /\ u \in Nat /\ IsMapped(u)
    BY TaskAssumption DEF IsMapped
<1>2. jobExecIx[t] \in Int
    BY DEF Numbered
<1>3. ~ (t < u)
    BY <1>2 DEF Numbered
<1>4. ~ (u < t)
    BY <1>1, <1>2 DEF Numbered
<1> QED
    BY <1>1, <1>3, <1>4

-----------------------------------------------------------------------------
(* Every step keeps it                                                     *)

\* The task that is launched gets the index of its place in the queue of its LRT.
LEMMA NextIndex ==
    ASSUME LaunchInv, NEW t \in Task, t \in toLaunch, IsMapped(t), \A u \in toLaunch : t <= u
    PROVE  jobExecIx[t] = Len(jobs[mappedLRT[t]])
<1> DEFINE l == mappedLRT[t]
           n == Len(jobs[l])
<1>1. TypeOK /\ Progress /\ Numbered /\ JobsSent /\ SentIsMapped
    BY LaunchedAreMapped DEF LaunchInv, MapInv
<1>2. l \in LRT /\ n \in Nat /\ jobExecIx[t] \in 0 .. jobCount[l] - 1 /\ t \notin Sent
      /\ jobCount[l] \in Nat
    BY <1>1 DEF TypeOK, IsMapped, Numbered, Sent
<1>3. ~ (jobExecIx[t] < n)
    <2> SUFFICES ASSUME jobExecIx[t] < n PROVE FALSE
        OBVIOUS
    <2> DEFINE i == jobExecIx[t] + 1
    <2>1. i \in 1 .. Len(jobs[l])
        BY <1>2
    <2>2. PICK u \in Sent : mappedLRT[u] = l /\ jobExecIx[u] = i - 1
        BY <1>1, <1>2, <2>1 DEF JobsSent
    <2>3. jobExecIx[u] = jobExecIx[t]
        BY <1>2, <2>2
    <2>4. u = t
        BY <1>1, <2>2, <2>3, IndexIsUnique DEF SentIsMapped
    <2> QED
        BY <1>2, <2>2, <2>4
<1>4. ~ (n < jobExecIx[t])
    <2> SUFFICES ASSUME n < jobExecIx[t] PROVE FALSE
        OBVIOUS
    <2>1. PICK u \in Task : mappedLRT[u] = l /\ jobExecIx[u] = n
        BY <1>1, <1>2 DEF Numbered
    <2>2. u \in Nat /\ t \in Nat /\ IsMapped(u) /\ u # t
        BY <1>2, <2>1, TaskAssumption DEF IsMapped
    <2>3. ~ (t < u)
        BY <1>1, <1>2, <2>1 DEF Numbered
    <2>4. u < t
        BY <2>2, <2>3
    <2>5. u \notin toLaunch /\ RoundOf[u] <= round
        BY <1>1, <2>2, <2>4 DEF Progress
    <2>6. u \in Sent
        BY <2>5 DEF Sent
    <2> QED
        BY <1>1, <1>2, <2>1, <2>6 DEF JobsSent
<1> QED
    BY <1>2, <1>3, <1>4

\* The flags that the launcher gathers from the sinks, one by one.
LEMMA FlagsExact ==
    ASSUME LaunchInv, NEW t \in Task, t \in toLaunch, t \notin toMap, \A u \in toLaunch : t <= u,
           executionPolicy = "DELAYED" => toMap = {}
    PROVE  /\ UNION {SinkFlags(t, u) : u \in Successors(t)} = FlagsOf(t)
           /\ Successors(t) \subseteq ReadyWhenLaunched(executionPolicy, t)
                => \A u \in Successors(t) : IsMapped(u)
<1> DEFINE ready == ReadyWhenLaunched(executionPolicy, t)
           flags == UNION {SinkFlags(t, u) : u \in Successors(t)}
<1>1. TypeOK /\ Progress /\ States
    BY DEF LaunchInv, MapInv
<1>2. \A u \in Successors(t) : /\ u \in Task /\ t < u /\ u # t /\ u \in Nat /\ t \in Nat
                               /\ RoundOf[t] <= RoundOf[u]
    BY TaskAssumption DEF Successors
<1>3. RoundOf[t] = round /\ round \in Nat /\ t \in Task /\ t \in Nat
    BY <1>1, TaskAssumption DEF Progress, TypeOK
\* A sink is READY just when it is one of those that are ready by the policy.
<1>4. ASSUME NEW u \in Successors(t)
      PROVE  (state[u] = "READY" <=> u \in ready) /\ (state[u] = "READY" => IsMapped(u))
    <2>1. state[u] = "READY" <=> IsMapped(u) /\ u \in toLaunch
        BY <1>1, <1>2 DEF States, Progress
    <2>2. u \in ready <=> RoundOf[u] = round /\ executionPolicy # "JIT"
        BY <1>2, <1>3, AllocatorAssumption DEF ReadyWhenLaunched
    <2>3. CASE executionPolicy = "JIT"
        <3>1. ~ (u \in toLaunch \ toMap)
            BY <1>1, <1>2, <2>3 DEF States
        <3>2. ~ (IsMapped(u) /\ u \in toLaunch)
            BY <1>1, <1>2, <3>1 DEF Progress
        <3> QED
            BY <2>1, <2>2, <2>3, <3>2
    <2>4. CASE executionPolicy # "JIT"
        <3>1. toMap = {}
            BY <1>1, <2>4 DEF TypeOK, ExecutionPolicy
        <3>2. u \in toLaunch => RoundOf[u] = round
            BY <1>1 DEF Progress
        <3>3. RoundOf[u] = round => u \in toLaunch
            <4>1. t \notin Sent
                BY DEF Sent
            <4>2. u \notin Sent
                BY <1>1, <1>2, <4>1 DEF Progress
            <4> QED
                BY <1>2, <1>3, <4>2 DEF Sent
        <3>4. RoundOf[u] = round => IsMapped(u)
            BY <1>1, <1>2, <1>3, <3>1 DEF Progress
        <3> QED
            BY <2>1, <2>2, <2>4, <3>2, <3>3, <3>4
    <2> QED
        BY <2>1, <2>3, <2>4
<1>5. CASE Successors(t) \subseteq ready
    <2>1. \A u \in Successors(t) : state[u] = "READY" /\ IsMapped(u)
        BY <1>4, <1>5
    <2>2. flags = UNION {{l \in {mappedLRT[u]} \ {mappedLRT[t]} :
                             syncExecIx[u][mappedLRT[t]] <= t} : u \in Successors(t)}
        BY <2>1 DEF SinkFlags
    <2>3. FlagsOf(t) = {mappedLRT[u] : u \in {v \in Successors(t) :
              mappedLRT[v] # mappedLRT[t] /\ syncExecIx[v][mappedLRT[t]] <= t}}
        BY <1>5 DEF FlagsOf
    <2>4. flags = FlagsOf(t)
        BY <2>2, <2>3
    <2> QED
        BY <2>1, <2>4
<1>6. CASE ~ (Successors(t) \subseteq ready)
    <2>1. PICK u \in Successors(t) : u \notin ready
        BY <1>6
    <2>2. SinkFlags(t, u) = LRT
        BY <1>4, <2>1 DEF SinkFlags
    <2>3. flags \subseteq LRT
        BY <1>1, FlagsType
    <2>4. flags = LRT
        BY <2>2, <2>3
    <2> QED
        BY <1>6, <2>4 DEF FlagsOf
<1> QED
    BY <1>5, <1>6

\* What a message is made of: if the task, its sources and the sinks it read
\* keep what they hold, the message is the same.
LEMMA MessageUnchanged ==
    ASSUME TypeOK, Progress, Synced, NEW t \in Task, IsMapped(t),
           UNCHANGED <<executionPolicy, Task>>,
           \A u \in Task : IsMapped(u) => /\ mappedLRT'[u] = mappedLRT[u]
                                          /\ jobExecIx'[u] = jobExecIx[u]
                                          /\ syncExecIx'[u] = syncExecIx[u],
           Successors(t) \subseteq ReadyWhenLaunched(executionPolicy, t)
                => \A u \in Successors(t) : IsMapped(u)
    PROVE  MessageOf(t)' = MessageOf(t)
<1>1. SyncedLRTs(t)' = SyncedLRTs(t)
    BY DEF SyncedLRTs
<1>2. \A l \in SyncedLRTs(t) : jobExecIx'[syncExecIx'[t][l]] = jobExecIx[syncExecIx[t][l]]
    <2> SUFFICES ASSUME NEW l \in SyncedLRTs(t)
                 PROVE  jobExecIx'[syncExecIx'[t][l]] = jobExecIx[syncExecIx[t][l]]
        OBVIOUS
    <2>1. syncExecIx[t][l] \in Task /\ IsMapped(syncExecIx[t][l])
        BY RecordedSource DEF SyncedLRTs
    <2> QED
        BY <2>1
<1>3. ConstraintsOn(t, SyncedLRTs(t))' = ConstraintsOn(t, SyncedLRTs(t))
    BY <1>1, <1>2 DEF ConstraintsOn
<1>4. FlagsOf(t)' = FlagsOf(t)
    <2>1. \A u \in Successors(t) : u \in Task
        BY DEF Successors
    <2>2. CASE ~ (Successors(t) \subseteq ReadyWhenLaunched(executionPolicy, t))
        BY <2>2 DEF FlagsOf
    <2>3. CASE Successors(t) \subseteq ReadyWhenLaunched(executionPolicy, t)
        BY <2>1, <2>3 DEF FlagsOf
    <2> QED
        BY <2>2, <2>3
<1> QED
    BY <1>3, <1>4 DEF MessageOf

LEMMA MapKeepsLaunchInv ==
    ASSUME LaunchInv, NEW t \in Task, Map(t)
    PROVE  LaunchInv'
<1>1. TypeOK /\ Progress /\ Synced /\ States /\ JobsSent /\ SentIsMapped
    BY LaunchedAreMapped DEF LaunchInv, MapInv
<1>2. t \in toMap /\ \A u \in toMap : t <= u
    BY <1>1, MapStep
<1>3. PICK lrt \in LRT, start \in Nat, end \in Nat : MapEffect(t, lrt, start, end)
    BY <1>1, MapStep
<1>4. MapInv'
    BY <1>1, NextKeepsMapInv DEF Next, LaunchInv
<1>5. /\ UNCHANGED <<executionPolicy, round, toLaunch, jobs>>
      /\ toMap' = toMap \ {t}
      /\ state' = [state EXCEPT ![t] = "READY"]
      /\ executionPolicy = "JIT" => toLaunch = toMap
    BY <1>3 DEF MapEffect, Map, config
<1>6. /\ ~ IsMapped(t)
      /\ \A u \in Task : u # t => /\ mappedLRT'[u] = mappedLRT[u]
                                  /\ jobExecIx'[u] = jobExecIx[u]
                                  /\ syncExecIx'[u] = syncExecIx[u]
                                  /\ IsMapped(u)' <=> IsMapped(u)
    BY <1>1, <1>2, <1>3, MapOthers
<1>7. \A u \in Task : IsMapped(u) => /\ mappedLRT'[u] = mappedLRT[u]
                                     /\ jobExecIx'[u] = jobExecIx[u]
                                     /\ syncExecIx'[u] = syncExecIx[u]
                                     /\ IsMapped(u)' /\ u # t
    BY <1>6
<1>8. States'
    <2>1. \A u \in Task : IsMapped(u)' =>
              state'[u] = IF u \in toLaunch' THEN "READY" ELSE "RUNNING"
        BY <1>1, <1>2, <1>5, <1>6 DEF States, TypeOK
    <2>2. executionPolicy' = "JIT" => \A u, v \in toLaunch' \ toMap' : u = v
        BY <1>5
    <2> QED
        BY <2>1, <2>2 DEF States
<1>9. Sent' = Sent
    BY <1>5 DEF Sent
<1>10. \A u \in Sent : MessageOf(u)' = MessageOf(u)
    <2> SUFFICES ASSUME NEW u \in Sent PROVE MessageOf(u)' = MessageOf(u)
        OBVIOUS
    <2>1. u \in Task /\ IsMapped(u)
        BY <1>1 DEF SentIsMapped
    <2>2. Successors(u) \subseteq ReadyWhenLaunched(executionPolicy, u)
              => \A v \in Successors(u) : IsMapped(v)
        BY <1>1 DEF JobsSent
    <2> QED
        BY <1>1, <1>5, <1>7, <2>1, <2>2, MessageUnchanged
<1>11. ASSUME NEW l \in LRT, NEW i \in 1 .. Len(jobs'[l])
       PROVE  \E u \in Sent' : /\ mappedLRT'[u] = l /\ jobExecIx'[u] = i - 1
                                /\ jobs'[l][i] = MessageOf(u)'
    <2>1. PICK u \in Sent : /\ mappedLRT[u] = l /\ jobExecIx[u] = i - 1
                            /\ jobs[l][i] = MessageOf(u)
        BY <1>1, <1>5 DEF JobsSent
    <2>2. u \in Task /\ IsMapped(u)
        BY <1>1, <2>1 DEF SentIsMapped
    <2>3. /\ u \in Sent' /\ mappedLRT'[u] = l /\ jobExecIx'[u] = i - 1
          /\ jobs'[l][i] = MessageOf(u)'
        BY <1>5, <1>7, <1>9, <1>10, <2>1, <2>2
    <2> QED
        BY <2>3
<1>12. \A u \in Sent' :
          /\ jobExecIx'[u] < Len(jobs'[mappedLRT'[u]])
          /\ Successors(u) \subseteq ReadyWhenLaunched(executionPolicy', u)
                => \A v \in Successors(u) : IsMapped(v)'
    <2> SUFFICES ASSUME NEW u \in Sent
                 PROVE  /\ jobExecIx'[u] < Len(jobs'[mappedLRT'[u]])
                        /\ Successors(u) \subseteq ReadyWhenLaunched(executionPolicy', u)
                              => \A v \in Successors(u) : IsMapped(v)'
        BY <1>9
    <2>1. u \in Task /\ IsMapped(u) /\ \A v \in Successors(u) : v \in Task
        BY <1>1 DEF SentIsMapped, Successors
    <2> QED
        BY <1>1, <1>5, <1>7, <2>1 DEF JobsSent
<1>13. JobsSent'
    BY <1>11, <1>12 DEF JobsSent
<1> QED
    BY <1>4, <1>8, <1>13 DEF LaunchInv

LEMMA LaunchKeepsLaunchInv ==
    ASSUME NoOwnDeps, LaunchInv, NEW t \in Task, Launch(t)
    PROVE  LaunchInv'
<1>1. /\ TypeOK /\ Progress /\ Numbered /\ Synced /\ States /\ JobsSent
      /\ SentIsMapped /\ MapInv
    BY LaunchedAreMapped DEF LaunchInv, MapInv
<1>2. /\ UNCHANGED <<executionPolicy, mappedLRT, jobExecIx, syncExecIx, round, toMap>>
      /\ toLaunch' = toLaunch \ {t}
      /\ t \in toLaunch /\ t \notin toMap /\ \A u \in toLaunch : t <= u
      /\ executionPolicy = "DELAYED" => toMap = {}
    BY DEF Launch, NextOf, config
<1>3. MapInv'
    BY <1>1, NextKeepsMapInv DEF Next
<1>4. RoundOf[t] = round /\ round \in Nat /\ IsMapped(t) /\ mappedLRT[t] \in LRT
      /\ state[t] = "READY"
    <2>1. RoundOf[t] = round /\ round \in Nat
        BY <1>1, <1>2 DEF Progress, TypeOK
    <2>2. IsMapped(t)
        BY <1>1, <1>2, <2>1 DEF Progress
    <2> QED
        BY <1>1, <1>2, <2>1, <2>2 DEF TypeOK, IsMapped, States
<1>5. ConstraintScan(t) = [at |-> t, execConstraints |-> ConstraintsOn(t, SyncedLRTs(t))]
    BY <1>1, <1>4, ScanExact
<1>6. /\ UNION {SinkFlags(t, u) : u \in Successors(t)} = FlagsOf(t)
      /\ Successors(t) \subseteq ReadyWhenLaunched(executionPolicy, t)
            => \A u \in Successors(t) : IsMapped(u)
    BY <1>2, FlagsExact
<1>7. /\ jobs' = [jobs EXCEPT ![mappedLRT[t]] = Append(@, MessageOf(t))]
      /\ state' = [state EXCEPT ![t] = "RUNNING"]
    <2> DEFINE scan == ConstraintScan(t)
               flags == UNION {SinkFlags(t, u) : u \in Successors(t)}
    <2>1. /\ jobs' = [jobs EXCEPT ![mappedLRT[scan.at]] =
                         Append(@, [taskIx |-> t, execIx |-> jobExecIx[t],
                                    execConstraints |-> scan.execConstraints,
                                    synchronizationFlags |-> flags])]
          /\ state' = [state EXCEPT ![scan.at] = "RUNNING"]
        BY <1>4 DEF Launch
    <2>2. scan.at = t /\ scan.execConstraints = ConstraintsOn(t, SyncedLRTs(t))
        BY <1>5
    <2>3. flags = FlagsOf(t)
        BY <1>6
    <2> HIDE DEF scan, flags
    <2> QED
        BY <2>1, <2>2, <2>3 DEF MessageOf
<1> DEFINE l == mappedLRT[t]
           n == Len(jobs[l])
<1>8. n = jobExecIx[t] /\ n \in Nat /\ jobs[l] \in Seq(JobMessage)
    <2>1. jobExecIx[t] = Len(jobs[mappedLRT[t]])
        BY <1>2, <1>4, NextIndex
    <2> QED
        BY <1>1, <1>4, <2>1 DEF TypeOK
<1>9. \A u \in Task : IsMapped(u)' <=> IsMapped(u)
    BY <1>2 DEF IsMapped
<1>10. States'
    <2>1. \A u \in Task : IsMapped(u)' =>
              state'[u] = IF u \in toLaunch' THEN "READY" ELSE "RUNNING"
        BY <1>1, <1>2, <1>7, <1>9 DEF States, TypeOK
    <2>2. executionPolicy' = "JIT" => \A u, v \in toLaunch' \ toMap' : u = v
        BY <1>1, <1>2 DEF States
    <2> QED
        BY <2>1, <2>2 DEF States
<1>11. Sent' = Sent \cup {t}
    BY <1>2, <1>4 DEF Sent
<1>12. \A u \in Sent' : /\ u \in Task /\ MessageOf(u)' = MessageOf(u)
                        /\ mappedLRT[u] \in LRT
    <2> SUFFICES ASSUME NEW u \in Sent'
                 PROVE  /\ u \in Task /\ MessageOf(u)' = MessageOf(u)
                        /\ mappedLRT[u] \in LRT
        OBVIOUS
    <2>1. u \in Task /\ IsMapped(u) /\ mappedLRT[u] \in LRT
        BY <1>1, <1>4, <1>11 DEF SentIsMapped
    <2>2. MessageOf(u)' = MessageOf(u)
        BY <1>2 DEF MessageOf, ConstraintsOn, SyncedLRTs, FlagsOf
    <2> QED
        BY <2>1, <2>2
<1>13. /\ Len(jobs'[l]) = n + 1 /\ jobs'[l][n + 1] = MessageOf(t)
       /\ \A i \in 1 .. n : jobs'[l][i] = jobs[l][i]
       /\ \A k \in LRT : k # l => jobs'[k] = jobs[k]
    <2>1. jobs'[l] = Append(jobs[l], MessageOf(t))
        BY <1>1, <1>4, <1>7 DEF TypeOK
    <2>2. MessageOf(t) \in JobMessage
        <3>1. [taskIx |-> t, execIx |-> jobExecIx[t],
               execConstraints |-> ConstraintScan(t).execConstraints,
               synchronizationFlags |-> UNION {SinkFlags(t, u) : u \in Successors(t)}]
                  \in JobMessage
            BY <1>1, <1>4, MessageType
        <3> QED
            BY <1>5, <1>6, <3>1 DEF MessageOf
    <2>3. \A k \in LRT : k # l => jobs'[k] = jobs[k]
        BY <1>1, <1>4, <1>7 DEF TypeOK
    <2> HIDE DEF l
    <2> QED
        BY <1>8, <2>1, <2>2, <2>3, AppendProperties
<1>14. ASSUME NEW k \in LRT, NEW i \in 1 .. Len(jobs'[k])
       PROVE  \E u \in Sent' : /\ mappedLRT'[u] = k /\ jobExecIx'[u] = i - 1
                                /\ jobs'[k][i] = MessageOf(u)'
    <2>1. CASE k = l /\ i = n + 1
        <3>1. jobs'[k][i] = MessageOf(t)
            BY <1>13, <2>1
        <3>2. t \in Sent' /\ MessageOf(t)' = MessageOf(t)
            BY <1>11, <1>12
        <3>3. mappedLRT'[t] = k /\ jobExecIx'[t] = i - 1
            BY <1>2, <1>8, <2>1
        <3> QED
            BY <3>1, <3>2, <3>3
    <2>2. CASE ~ (k = l /\ i = n + 1)
        <3>1. i \in 1 .. Len(jobs[k]) /\ jobs'[k][i] = jobs[k][i]
            <4>1. CASE k = l
                BY <1>8, <1>13, <2>2, <4>1
            <4>2. CASE k # l
                BY <1>13, <4>2
            <4> QED
                BY <4>1, <4>2
        <3>2. PICK u \in Sent : /\ mappedLRT[u] = k /\ jobExecIx[u] = i - 1
                                /\ jobs[k][i] = MessageOf(u)
            BY <1>1, <3>1 DEF JobsSent
        <3>3. u \in Sent' /\ MessageOf(u)' = MessageOf(u)
            BY <1>11, <1>12, <3>2
        <3> QED
            BY <1>2, <3>1, <3>2, <3>3
    <2> QED
        BY <2>1, <2>2
<1>15. \A u \in Sent' :
          /\ jobExecIx'[u] < Len(jobs'[mappedLRT'[u]])
          /\ Successors(u) \subseteq ReadyWhenLaunched(executionPolicy', u)
                => \A v \in Successors(u) : IsMapped(v)'
    <2> SUFFICES ASSUME NEW u \in Sent'
                 PROVE  /\ jobExecIx[u] < Len(jobs'[mappedLRT[u]])
                        /\ Successors(u) \subseteq ReadyWhenLaunched(executionPolicy, u)
                              => \A v \in Successors(u) : IsMapped(v)
        BY <1>2, <1>9 DEF Successors
    <2>1. CASE u = t
        BY <1>6, <1>8, <1>13, <2>1
    <2>2. CASE u # t
        <3>1. u \in Sent /\ mappedLRT[u] \in LRT
            BY <1>11, <1>12, <2>2
        <3>2. jobExecIx[u] < Len(jobs[mappedLRT[u]])
            BY <1>1, <3>1 DEF JobsSent
        <3>3. jobExecIx[u] \in Int
            BY <1>1, <3>1 DEF SentIsMapped, Numbered
        <3>4. jobExecIx[u] < Len(jobs'[mappedLRT[u]])
            BY <1>8, <1>13, <3>1, <3>2, <3>3
        <3> QED
            BY <1>1, <3>1, <3>4 DEF JobsSent
    <2> QED
        BY <2>1, <2>2
<1>16. JobsSent'
    BY <1>14, <1>15 DEF JobsSent
<1> QED
    BY <1>3, <1>10, <1>16 DEF LaunchInv

LEMMA NextKeepsLaunchInv ==
    ASSUME NoOwnDeps, LaunchInv, [Next]_vars
    PROVE  LaunchInv'
<1>1. MapInv' /\ MapInv /\ TypeOK /\ Progress /\ States /\ JobsSent
    BY NextKeepsMapInv DEF LaunchInv, MapInv
<1>2. CASE Schedule
    <2>1. /\ UNCHANGED <<executionPolicy, mappedLRT, jobExecIx, syncExecIx, state, jobs>>
          /\ toLaunch = {} /\ toLaunch' = toMap'
          /\ round' = round + 1 /\ toMap' = {t \in Task : RoundOf[t] = round'}
        BY <1>2 DEF Schedule, config, taskVars
    <2>2. \A t \in Task : /\ IsMapped(t)' <=> IsMapped(t)
                          /\ IsMapped(t) => t \notin toLaunch'
        BY <1>1, <2>1 DEF IsMapped, Progress, MapInv
    <2>3. States'
        BY <1>1, <2>1, <2>2 DEF States
    <2>4. Sent' = Sent
        <3>1. \A t \in Task : RoundOf[t] \in Nat /\ round \in Nat
            BY <1>1, TaskAssumption DEF TypeOK
        <3> QED
            BY <2>1, <3>1 DEF Sent
    <2>5. \A t \in Task : MessageOf(t)' = MessageOf(t)
        BY <2>1 DEF MessageOf, ConstraintsOn, SyncedLRTs, FlagsOf
    <2>6. \A t \in Sent : t \in Task /\ \A u \in Successors(t) : u \in Task
        BY DEF Sent, Successors
    <2>7. JobsSent'
        BY <1>1, <2>1, <2>2, <2>4, <2>5, <2>6 DEF JobsSent
    <2> QED
        BY <1>1, <2>3, <2>7 DEF LaunchInv
<1>3. ASSUME NEW t \in Task, Map(t) PROVE LaunchInv'
    BY <1>3, MapKeepsLaunchInv
<1>4. ASSUME NEW t \in Task, Launch(t) PROVE LaunchInv'
    BY <1>4, LaunchKeepsLaunchInv
<1>5. CASE Clear
    <2>1. /\ mappedLRT' = [t \in Task |-> NoLRT]
          /\ toLaunch' = {} /\ toMap' = {} /\ round' = 0
          /\ jobs' = [l \in LRT |-> << >>]
        BY <1>1, <1>5 DEF Clear, TypeOK
    <2>2. \A t \in Task : ~ IsMapped(t)' /\ ~ (RoundOf[t] <= 0)
        BY <2>1, TaskAssumption DEF IsMapped
    <2>3. Sent' = {}
        BY <2>1, <2>2 DEF Sent
    <2>4. States' /\ JobsSent'
        BY <2>1, <2>2, <2>3 DEF States, JobsSent
    <2> QED
        BY <1>1, <2>4 DEF LaunchInv
<1>6. CASE UNCHANGED vars
    <2>1. UNCHANGED <<executionPolicy, mappedLRT, jobExecIx, syncExecIx, state, jobs,
                      round, toMap, toLaunch>>
        BY <1>6 DEF vars, allocatorVars, config, taskVars
    <2>2. \A t \in Task : IsMapped(t)' <=> IsMapped(t)
        BY <2>1 DEF IsMapped
    <2>3. States'
        BY <1>1, <2>1, <2>2 DEF States
    <2>4. Sent' = Sent
        BY <2>1 DEF Sent
    <2>5. \A t \in Task : MessageOf(t)' = MessageOf(t)
        BY <2>1 DEF MessageOf, ConstraintsOn, SyncedLRTs, FlagsOf
    <2>6. \A t \in Sent : t \in Task /\ \A u \in Successors(t) : u \in Task
        BY DEF Sent, Successors
    <2>7. JobsSent'
        BY <1>1, <2>1, <2>2, <2>4, <2>5, <2>6 DEF JobsSent
    <2> QED
        BY <1>1, <2>3, <2>7 DEF LaunchInv
<1> QED
    BY <1>2, <1>3, <1>4, <1>5, <1>6 DEF Next

LEMMA InitLaunchInv ==
    ASSUME Init
    PROVE  LaunchInv
<1>1. MapInv
    BY InitMapInv
<1>2. /\ mappedLRT = [t \in Task |-> NoLRT]
      /\ toLaunch = {} /\ toMap = {} /\ round = 0
      /\ jobs = [l \in LRT |-> << >>]
    BY DEF Init
<1>3. \A t \in Task : ~ IsMapped(t) /\ ~ (RoundOf[t] <= 0)
    BY <1>2, TaskAssumption DEF IsMapped
<1>4. Sent = {}
    BY <1>2, <1>3 DEF Sent
<1>5. States /\ JobsSent
    BY <1>2, <1>3, <1>4 DEF States, JobsSent
<1> QED
    BY <1>1, <1>5 DEF LaunchInv

\* What has been mapped and launched stays in step with what the LRTs were sent
\* (sendTask), a firing that depends on its own vertex apart.
THEOREM LaunchInvariant ==
    ASSUME NoOwnDeps
    PROVE  Spec => []LaunchInv
<1>1. Init => LaunchInv
    BY InitLaunchInv
<1>2. LaunchInv /\ [Next]_vars => LaunchInv'
    BY NextKeepsLaunchInv
<1> QED
    BY <1>1, <1>2, PTL DEF Spec

-----------------------------------------------------------------------------
(* The theorems                                                            *)

LEMMA LaunchedInOrder ==
    ASSUME LaunchInv
    PROVE  JobsInOrder
<1>1. JobsSent /\ SentIsMapped /\ Numbered /\ TypeOK
    BY LaunchedAreMapped DEF LaunchInv, MapInv
<1>2. ASSUME NEW l \in LRT, NEW i \in 1 .. Len(jobs[l])
      PROVE  /\ jobs[l][i].execIx = i - 1
             /\ mappedLRT[jobs[l][i].taskIx] = l
    <2>1. PICK t \in Sent : mappedLRT[t] = l /\ jobExecIx[t] = i - 1 /\ jobs[l][i] = MessageOf(t)
        BY <1>1 DEF JobsSent
    <2> QED
        BY <2>1 DEF MessageOf
<1>3. ASSUME NEW t \in Sent
      PROVE  \E l \in LRT : \E i \in 1 .. Len(jobs[l]) : jobs[l][i].taskIx = t
    <2> DEFINE l == mappedLRT[t]
               i == jobExecIx[t] + 1
    <2>1. t \in Task /\ IsMapped(t) /\ l \in LRT
        BY <1>1 DEF SentIsMapped
    <2>2. jobExecIx[t] < Len(jobs[l]) /\ jobExecIx[t] \in 0 .. jobCount[l] - 1
        BY <1>1, <2>1 DEF JobsSent, Numbered
    <2>3. i \in 1 .. Len(jobs[l]) /\ i - 1 = jobExecIx[t]
        BY <1>1, <2>1, <2>2 DEF TypeOK
    <2>4. PICK u \in Sent : mappedLRT[u] = l /\ jobExecIx[u] = i - 1 /\ jobs[l][i] = MessageOf(u)
        BY <1>1, <2>1, <2>3 DEF JobsSent
    <2>5. u = t
        BY <1>1, <2>1, <2>3, <2>4, IndexIsUnique DEF SentIsMapped
    <2>6. jobs[l][i].taskIx = t
        BY <2>4, <2>5 DEF MessageOf
    <2> QED
        BY <2>1, <2>3, <2>6
<1> QED
    BY <1>2, <1>3 DEF JobsInOrder

\* Each LRT receives its jobs in the order of their indices, without a hole, and
\* every task that was launched is among them: a runner that has done job n has
\* done every job before it (TaskLauncher::sendTask, Stats::jobCount).
THEOREM LaunchedJobsInOrder ==
    ASSUME NoOwnDeps
    PROVE  Spec => []JobsInOrder
BY LaunchInvariant, LaunchedInOrder, PTL

\* A job waits only for jobs that were sent before it, whatever the mapping: no
\* set of runners can wait for one another in a circle.
LEMMA LaunchedWaitsBackward ==
    ASSUME LaunchInv
    PROVE  WaitsBackward
<1>1. JobsSent /\ SentIsMapped /\ Numbered /\ TypeOK /\ Progress /\ Synced
    BY LaunchedAreMapped DEF LaunchInv, MapInv
<1> SUFFICES ASSUME NEW l \in LRT, NEW i \in 1 .. Len(jobs[l]),
                    NEW c \in jobs[l][i].execConstraints
             PROVE  /\ c.lrtToWait \in LRT
                    /\ c.jobToWait < Len(jobs[c.lrtToWait])
                    /\ jobs[c.lrtToWait][c.jobToWait + 1].taskIx < jobs[l][i].taskIx
    BY DEF WaitsBackward
<1>2. PICK t \in Sent : jobs[l][i] = MessageOf(t)
    BY <1>1 DEF JobsSent
<1>3. t \in Task /\ IsMapped(t) /\ jobs[l][i].taskIx = t
    BY <1>1, <1>2 DEF SentIsMapped, MessageOf
<1>4. PICK k \in SyncedLRTs(t) : c = [lrtToWait |-> k, jobToWait |-> jobExecIx[syncExecIx[t][k]]]
    BY <1>2 DEF MessageOf, ConstraintsOn
<1> DEFINE src == syncExecIx[t][k]
<1>5. k \in LRT /\ src \in Deps[t] /\ src \in Task /\ IsMapped(src) /\ mappedLRT[src] = k
    BY <1>1, <1>3, <1>4, RecordedSource DEF SyncedLRTs
<1> HIDE DEF src
<1>6. src < t /\ src \in Sent
    <2>1. src < t
        BY <1>3, <1>5, TaskAssumption
    <2> QED
        BY <1>1, <1>3, <1>5, <2>1 DEF Progress
<1>7. jobExecIx[src] < Len(jobs[k]) /\ jobExecIx[src] \in 0 .. jobCount[k] - 1
    BY <1>1, <1>5, <1>6 DEF JobsSent, Numbered
<1> DEFINE n == jobExecIx[src] + 1
<1>8. n \in 1 .. Len(jobs[k]) /\ n - 1 = jobExecIx[src]
    BY <1>1, <1>5, <1>7 DEF TypeOK
<1>9. PICK u \in Sent : mappedLRT[u] = k /\ jobExecIx[u] = n - 1 /\ jobs[k][n] = MessageOf(u)
    BY <1>1, <1>5, <1>8 DEF JobsSent
<1>10. u = src
    BY <1>1, <1>5, <1>8, <1>9, IndexIsUnique DEF SentIsMapped
<1>11. jobs[k][n].taskIx = src
    BY <1>9, <1>10 DEF MessageOf
<1>12. c.lrtToWait = k /\ c.jobToWait = jobExecIx[src]
    BY <1>4 DEF src
<1> QED
    BY <1>3, <1>5, <1>6, <1>7, <1>11, <1>12

\* A job waits only for jobs whose messages were sent before its own
\* (buildExecConstraints), so the jobs of the LRTs never wait in a circle.
THEOREM LaunchedJobsWaitBackward ==
    ASSUME NoOwnDeps
    PROVE  Spec => []WaitsBackward
BY LaunchInvariant, LaunchedWaitsBackward, PTL

\* The index that a task took from the counter of its LRT is the number of tasks
\* scheduled before it there.
LEMMA IndexCountsEarlier ==
    ASSUME MapInv, NEW t \in Task, IsMapped(t)
    PROVE  jobExecIx[t] = JobExecIx(mappedLRT, t)
<1> DEFINE Before == {s \in Task : s < t /\ ContextOf[s] = ContextOf[t] /\ mappedLRT[s] = mappedLRT[t]}
           I == 0 .. jobExecIx[t] - 1
           f == [s \in Before |-> jobExecIx[s]]
<1>1. TypeOK /\ Progress /\ Numbered
    BY DEF MapInv
<1>2. mappedLRT[t] \in LRT /\ jobExecIx[t] \in 0 .. jobCount[mappedLRT[t]] - 1
      /\ jobCount[mappedLRT[t]] \in Nat /\ t \in Nat
    BY <1>1, TaskAssumption DEF TypeOK, IsMapped, Numbered
<1>3. \A s \in Before : IsMapped(s) /\ s \in Task /\ s \in Nat /\ s < t /\ mappedLRT[s] = mappedLRT[t]
    BY <1>2, TaskAssumption, LRTIsNat DEF IsMapped
<1>4. f \in [Before -> I]
    <2> SUFFICES ASSUME NEW s \in Before PROVE jobExecIx[s] \in I
        OBVIOUS
    <2>1. jobExecIx[s] \in Nat /\ jobExecIx[s] < jobExecIx[t]
        BY <1>1, <1>2, <1>3 DEF Numbered
    <2> QED
        BY <1>2, <2>1
<1>5. \A a, b \in Before : f[a] = f[b] => a = b
    BY <1>1, <1>3, IndexIsUnique
<1>6. \A n \in I : \E s \in Before : f[s] = n
    <2> SUFFICES ASSUME NEW n \in I PROVE \E s \in Before : jobExecIx[s] = n
        OBVIOUS
    <2>1. n \in 0 .. jobCount[mappedLRT[t]] - 1 /\ n < jobExecIx[t] /\ n \in Nat
        BY <1>2
    <2>2. PICK s \in Task : mappedLRT[s] = mappedLRT[t] /\ jobExecIx[s] = n
        BY <1>1, <1>2, <2>1 DEF Numbered
    <2>3. s \in Nat /\ s # t
        BY <1>2, <2>1, <2>2, TaskAssumption
    <2>4. ~ (t < s)
        <3> SUFFICES ASSUME t < s PROVE FALSE
            OBVIOUS
        <3>1. jobExecIx[t] < jobExecIx[s]
            BY <1>1, <2>2 DEF Numbered
        <3> QED
            BY <1>2, <2>1, <2>2, <3>1
    <2>5. s \in Before
        BY <1>2, <2>2, <2>3, <2>4, AllocatorAssumption
    <2> QED
        BY <2>2, <2>5
<1>7. f \in Bijection(Before, I)
    <2> HIDE DEF f, Before, I
    <2> QED
        BY <1>4, <1>5, <1>6, Fun_IsBij
<1>8. ExistsBijection(Before, I)
    BY <1>7 DEF ExistsBijection
<1>9. IsFiniteSet(Before)
    BY TaskAssumption, FS_Subset
<1>10. Cardinality(I) = jobExecIx[t]
    <2>1. 0 \in Int /\ jobExecIx[t] - 1 \in Int
        BY <1>2
    <2>2. Cardinality(0 .. jobExecIx[t] - 1) =
              IF 0 > jobExecIx[t] - 1 THEN 0 ELSE (jobExecIx[t] - 1) - 0 + 1
        BY <2>1, FS_Interval
    <2> QED
        BY <1>2, <2>2
<1>11. JobExecIx(mappedLRT, t) = Cardinality(Before)
    BY DEF JobExecIx
<1> HIDE DEF Before, I
<1>12. Cardinality(I) = Cardinality(Before)
    BY <1>8, <1>9, FS_Bijection
<1> QED
    BY <1>10, <1>11, <1>12

LEMMA LaunchedFaithfully ==
    ASSUME LaunchInv
    PROVE  MessagesFaithful
<1>1. JobsSent /\ SentIsMapped /\ MapInv /\ TypeOK /\ Progress /\ Synced
    BY LaunchedAreMapped DEF LaunchInv, MapInv
<1> SUFFICES ASSUME NEW l \in LRT, NEW i \in 1 .. Len(jobs[l])
             PROVE  LET t == jobs[l][i].taskIx
                    IN  /\ jobs[l][i].execIx = JobExecIx(mappedLRT, t)
                        /\ jobs[l][i].execConstraints = ExecConstraints(mappedLRT, t)
                        /\ jobs[l][i].synchronizationFlags =
                               NotificationFlags(mappedLRT, ReadyWhenLaunched(executionPolicy, t), t)
    BY DEF MessagesFaithful
<1>2. PICK t \in Sent : jobs[l][i] = MessageOf(t)
    BY <1>1 DEF JobsSent
<1>3. t \in Task /\ IsMapped(t) /\ mappedLRT[t] \in LRT
    BY <1>1 DEF SentIsMapped
<1>4. jobExecIx[t] = JobExecIx(mappedLRT, t)
    BY <1>1, <1>3, IndexCountsEarlier
<1>5. ConstraintsOn(t, SyncedLRTs(t)) = ExecConstraints(mappedLRT, t)
    <2>1. \A k \in LRT : syncExecIx[t][k] = SyncExecIxOnLRT(mappedLRT, t, k)
        BY <1>1, <1>3 DEF Synced
    <2>2. SyncedLRTs(t) = {k \in LRT : SyncExecIxOnLRT(mappedLRT, t, k) # NoSync}
        BY <2>1 DEF SyncedLRTs
    <2>3. \A k \in SyncedLRTs(t) : jobExecIx[syncExecIx[t][k]] =
                                  JobExecIx(mappedLRT, SyncExecIxOnLRT(mappedLRT, t, k))
        <3> SUFFICES ASSUME NEW k \in SyncedLRTs(t)
                     PROVE  jobExecIx[syncExecIx[t][k]] =
                                JobExecIx(mappedLRT, syncExecIx[t][k])
            BY <2>1 DEF SyncedLRTs
        <3>1. syncExecIx[t][k] \in Task /\ IsMapped(syncExecIx[t][k])
            BY <1>1, <1>3, RecordedSource DEF SyncedLRTs
        <3> QED
            BY <1>1, <3>1, IndexCountsEarlier
    <2> QED
        BY <2>2, <2>3 DEF ConstraintsOn, ExecConstraints
<1>6. FlagsOf(t) = NotificationFlags(mappedLRT, ReadyWhenLaunched(executionPolicy, t), t)
    <2>1. CASE ~ (Successors(t) \subseteq ReadyWhenLaunched(executionPolicy, t))
        BY <2>1 DEF FlagsOf, NotificationFlags
    <2>2. CASE Successors(t) \subseteq ReadyWhenLaunched(executionPolicy, t)
        <3> DEFINE Recorded(u) == syncExecIx[u][mappedLRT[t]] <= t
                   Defined(u) == \/ SyncExecIxOnLRT(mappedLRT, u, mappedLRT[t]) = NoSync
                                 \/ t >= SyncExecIxOnLRT(mappedLRT, u, mappedLRT[t])
        <3>1. ASSUME NEW u \in Successors(t) PROVE Recorded(u) <=> Defined(u)
            <4>1. u \in Task /\ IsMapped(u) /\ t \in Nat
                BY <1>1, <1>3, <2>2, TaskAssumption DEF JobsSent, Successors
            <4>2. syncExecIx[u][mappedLRT[t]] = SyncExecIxOnLRT(mappedLRT, u, mappedLRT[t])
                BY <1>1, <1>3, <4>1 DEF Synced
            <4>3. syncExecIx[u][mappedLRT[t]] \in Nat \cup {NoSync}
                <5>1. syncExecIx[u][mappedLRT[t]] \in Task \cup {NoSync}
                    <6>1. syncExecIx \in [Task -> [LRT -> Task \cup {NoSync}]]
                        BY <1>1 DEF TypeOK
                    <6> HIDE DEF Recorded, Defined
                    <6> QED
                        BY <1>3, <4>1, <6>1
                <5> QED
                    BY <5>1, TaskAssumption
            <4> QED
                BY <4>1, <4>2, <4>3 DEF NoSync
        <3>2. FlagsOf(t) = {mappedLRT[u] : u \in {v \in Successors(t) :
                                mappedLRT[v] # mappedLRT[t] /\ Recorded(v)}}
            BY <2>2 DEF FlagsOf
        <3>3. NotificationFlags(mappedLRT, ReadyWhenLaunched(executionPolicy, t), t) =
                  {mappedLRT[u] : u \in {v \in Successors(t) :
                                mappedLRT[v] # mappedLRT[t] /\ Defined(v)}}
            BY <2>2 DEF NotificationFlags
        <3> HIDE DEF Recorded, Defined
        <3> QED
            BY <3>1, <3>2, <3>3
    <2> QED
        BY <2>1, <2>2
<1> QED
    BY <1>2, <1>4, <1>5, <1>6 DEF MessageOf

\* What the launcher writes in a message, step by step and through the cursors of
\* the shared task objects, is what the mapping calls for: the index of the job,
\* the jobs it waits for and the LRTs to notify, and it stays so however the
\* tasks that follow are mapped.
THEOREM LaunchedMessagesFaithful ==
    ASSUME NoOwnDeps
    PROVE  Spec => []MessagesFaithful
BY LaunchInvariant, LaunchedFaithfully, PTL
=============================================================================
