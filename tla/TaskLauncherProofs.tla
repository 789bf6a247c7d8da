------------------------- MODULE TaskLauncherProofs -------------------------
(***************************************************************************)
(* What the compression of a job's dependencies into one constraint per    *)
(* LRT preserves, for every mapping of the tasks.                          *)
(***************************************************************************)
EXTENDS TaskLauncher, FiniteSetTheorems, TLAPS

LEMMA LeastNat ==
    ASSUME NEW T, T \subseteq Nat, T # {}
    PROVE  \E n \in T : \A m \in T : n <= m
<1> DEFINE R == {p \in Nat \X Nat : p[1] < p[2]}
<1>1. IsWellFoundedOn(R, Nat)
    BY NatLessThanWellFounded DEF OpToRel
<1> HIDE DEF R
<1>2. \E n \in T : \A m \in T : ~ (<<m, n>> \in R)
    BY <1>1, WFMin
<1>3. \A m, n \in Nat : m < n => <<m, n>> \in R
    BY DEF R
<1>4. PICK n \in T : \A m \in T : ~ (<<m, n>> \in R)
    BY <1>2
<1>5. \A m \in T : n <= m
    <2> TAKE m \in T
    <2>1. m \in Nat /\ n \in Nat /\ ~ (m < n)
        BY <1>3, <1>4
    <2> QED
        BY <2>1
<1> QED
    BY <1>5

\* A finite nonempty set of naturals has a greatest element: a smallest set
\* without one would have a smaller one.
LEMMA GreatestExists ==
    ASSUME NEW S, S \subseteq Nat, IsFiniteSet(S), S # {}
    PROVE  \E x \in S : \A y \in S : x >= y
<1> DEFINE HasMax(U) == \E x \in U : \A y \in U : x >= y
           Bad == {U \in SUBSET S : U # {} /\ ~HasMax(U)}
           Sizes == {Cardinality(U) : U \in Bad}
<1>1. \A U \in SUBSET S : IsFiniteSet(U) /\ Cardinality(U) \in Nat
    BY FS_Subset, FS_CardinalityType
<1>2. SUFFICES ASSUME Bad # {} PROVE FALSE
    OBVIOUS
<1>3. Sizes \subseteq Nat /\ Sizes # {}
    BY <1>1, <1>2
<1>4. PICK n \in Sizes : \A k \in Sizes : n <= k
    BY <1>3, LeastNat
<1>5. PICK U \in Bad : Cardinality(U) = n
    BY <1>4
<1>6. PICK x \in U : TRUE
    BY <1>5
<1>7. Cardinality(U \ {x}) = n - 1 /\ n \in Nat
    BY <1>1, <1>3, <1>5, <1>6, FS_RemoveElement
<1>8. U \ {x} \notin Bad
    <2>1. SUFFICES ASSUME U \ {x} \in Bad PROVE FALSE
        OBVIOUS
    <2>2. Cardinality(U \ {x}) \in Sizes
        BY <2>1
    <2> HIDE DEF Sizes, Bad
    <2>3. n <= n - 1
        BY <1>4, <1>7, <2>2
    <2> QED
        BY <2>3, <1>7
<1>9. CASE U \ {x} = {}
    <2>1. U = {x} /\ x \in Nat
        BY <1>6, <1>9
    <2> QED
        BY <2>1, <1>5
<1>10. CASE U \ {x} # {}
    <2>1. PICK y \in U \ {x} : \A z \in U \ {x} : y >= z
        BY <1>8, <1>10, <1>5
    <2>2. x \in Nat /\ y \in Nat /\ \A z \in U : z \in Nat
        BY <1>5, <1>6, <2>1
    <2>3. x >= y \/ y >= x
        BY <2>2
    <2>4. HasMax(U)
        BY <2>1, <2>2, <2>3, <1>6
    <2> QED
        BY <2>4, <1>5
<1> QED
    BY <1>9, <1>10

LEMMA MaxIsGreatest ==
    ASSUME NEW S, S \subseteq Nat, IsFiniteSet(S), S # {}
    PROVE  Max(S) \in S /\ \A y \in S : y <= Max(S)
<1>1. Max(S) \in S /\ \A y \in S : Max(S) >= y
    BY GreatestExists DEF Max
<1> QED
    BY <1>1

LEMMA MinIsLeast ==
    ASSUME NEW S, S \subseteq Nat, S # {}
    PROVE  Min(S) \in S /\ \A y \in S : Min(S) <= y
BY LeastNat DEF Min

\* The values of a function over a finite set.
LEMMA ImageIsFinite ==
    ASSUME NEW S, IsFiniteSet(S), NEW f
    PROVE  IsFiniteSet({f[x] : x \in S})
<1> DEFINE T == {f[x] : x \in S}
           g == [x \in S |-> f[x]]
<1>1. g \in Surjection(S, T)
    BY DEF Surjection
<1> QED
    BY <1>1, FS_Surjection

LEMMA PairIsFinite ==
    ASSUME NEW x, NEW y
    PROVE  IsFiniteSet({x, y})
<1>1. {x, y} = {x} \cup {y}
    OBVIOUS
<1>2. IsFiniteSet({x} \cup {y})
    <2> DEFINE S == {x}
    <2>1. IsFiniteSet(S)
        BY FS_Singleton
    <2> HIDE DEF S
    <2>2. IsFiniteSet(S \cup {y})
        BY <2>1, FS_AddElement
    <2> QED
        BY <2>2 DEF S
<1> QED
    BY <1>1, <1>2

-----------------------------------------------------------------------------
(* JobExecIx numbers the jobs of a LRT in the order of the schedule.       *)

LEMMA JobExecIxType ==
    ASSUME NEW lrtOf, NEW t
    PROVE  JobExecIx(lrtOf, t) \in Nat
<1> DEFINE Before == {s \in Task : /\ s < t
                                  /\ ContextOf[s] = ContextOf[t]
                                  /\ lrtOf[s] = lrtOf[t]}
<1>1. IsFiniteSet(Before)
    BY TaskAssumption, FS_Subset
<1> QED
    BY <1>1, FS_CardinalityType DEF JobExecIx

LEMMA JobExecIxIncreases ==
    ASSUME NEW lrtOf, NEW s \in Task, NEW t \in Task,
           ContextOf[s] = ContextOf[t], lrtOf[s] = lrtOf[t], s <= t
    PROVE  JobExecIx(lrtOf, s) <= JobExecIx(lrtOf, t)
<1> DEFINE Before(u) == {v \in Task : /\ v < u
                                     /\ ContextOf[v] = ContextOf[u]
                                     /\ lrtOf[v] = lrtOf[u]}
<1>1. IsFiniteSet(Before(t))
    BY TaskAssumption, FS_Subset
<1>2. Before(s) \subseteq Before(t)
    <2>1. \A v \in Task : v < s => v < t
        BY TaskAssumption
    <2> QED
        BY <2>1
<1>3. Cardinality(Before(s)) <= Cardinality(Before(t))
    BY <1>1, <1>2, FS_Subset
<1> QED
    BY <1>3 DEF JobExecIx

LEMMA SyncIsLastSource ==
    ASSUME NEW lrtOf, NEW t \in Task, NEW l, SourcesOn(lrtOf, t, l) # {}
    PROVE  /\ SyncExecIxOnLRT(lrtOf, t, l) \in SourcesOn(lrtOf, t, l)
           /\ \A s \in SourcesOn(lrtOf, t, l) : s <= SyncExecIxOnLRT(lrtOf, t, l)
           /\ SyncExecIxOnLRT(lrtOf, t, l) # NoSync
<1> DEFINE S == SourcesOn(lrtOf, t, l)
<1>1. S \subseteq Task /\ S \subseteq Nat
    BY TaskAssumption DEF SourcesOn
<1>2. IsFiniteSet(S)
    BY <1>1, TaskAssumption, FS_Subset
<1>3. \E x \in S : \A y \in S : x >= y
    BY <1>1, <1>2, GreatestExists
<1>4. Max(S) \in S /\ \A y \in S : Max(S) >= y
    BY <1>3 DEF Max
<1>5. SyncExecIxOnLRT(lrtOf, t, l) = Max(S)
    BY DEF SyncExecIxOnLRT
<1>6. \A y \in S : y <= Max(S)
    BY <1>1, <1>4
<1>7. Max(S) # NoSync
    BY <1>1, <1>4 DEF NoSync
<1> QED
    BY <1>4, <1>5, <1>6, <1>7

-----------------------------------------------------------------------------
(* A job waits for one job per LRT (JobMessage::execConstraints_).         *)

\* Each dependency of a task is covered: the job it waits for on the LRT of the
\* dependency is the dependency's own or a later one of that LRT.
THEOREM ConstraintsCoverDeps ==
    ASSUME NEW lrtOf \in [Task -> LRT], NEW t \in Task, NEW s \in Deps[t]
    PROVE  \E c \in ExecConstraints(lrtOf, t) :
               /\ c.lrtToWait = lrtOf[s]
               /\ JobExecIx(lrtOf, s) <= c.jobToWait
<1> DEFINE l == lrtOf[s]
           last == SyncExecIxOnLRT(lrtOf, t, l)
           c == [lrtToWait |-> l, jobToWait |-> JobExecIx(lrtOf, last)]
<1>1. s \in Task /\ l \in LRT
    BY TaskAssumption
<1>2. s \in SourcesOn(lrtOf, t, l)
    BY DEF SourcesOn
<1>3. last \in SourcesOn(lrtOf, t, l) /\ s <= last /\ last # NoSync
    BY <1>2, SyncIsLastSource
<1>4. last \in Task /\ lrtOf[last] = l /\ ContextOf[last] = ContextOf[s]
    BY <1>3, TaskAssumption DEF SourcesOn
<1>5. JobExecIx(lrtOf, s) <= JobExecIx(lrtOf, last)
    BY <1>1, <1>3, <1>4, JobExecIxIncreases
<1>6. c \in ExecConstraints(lrtOf, t)
    BY <1>1, <1>3 DEF ExecConstraints
<1> QED
    BY <1>5, <1>6

\* No constraint is spurious: the job waited for is a dependency of the task, so
\* a task waits for nothing the schedule does not run before it.
THEOREM ConstraintsAreDeps ==
    ASSUME NEW lrtOf \in [Task -> LRT], NEW t \in Task,
           NEW c \in ExecConstraints(lrtOf, t)
    PROVE  /\ c.lrtToWait \in LRT
           /\ \E s \in Deps[t] : /\ s = SyncExecIxOnLRT(lrtOf, t, c.lrtToWait)
                                 /\ lrtOf[s] = c.lrtToWait
                                 /\ c.jobToWait = JobExecIx(lrtOf, s)
<1>1. PICK l \in LRT : /\ SyncExecIxOnLRT(lrtOf, t, l) # NoSync
                       /\ c = [lrtToWait |-> l, jobToWait |->
                                 JobExecIx(lrtOf, SyncExecIxOnLRT(lrtOf, t, l))]
    BY DEF ExecConstraints
<1>2. SourcesOn(lrtOf, t, l) # {}
    BY <1>1 DEF SyncExecIxOnLRT
<1>3. SyncExecIxOnLRT(lrtOf, t, l) \in SourcesOn(lrtOf, t, l)
    BY <1>2, SyncIsLastSource
<1> QED
    BY <1>1, <1>3 DEF SourcesOn

\* The LRT of a task is among those the runner of the job it waits for notifies,
\* whatever the sinks that were ready when that job was launched: dropping the
\* notifications of the other sources (setFlagsFromSink) loses no wake-up.
THEOREM WaitedForNotifies ==
    ASSUME NEW lrtOf \in [Task -> LRT], NEW t \in Task, NEW ready,
           NEW s \in Deps[t], s = SyncExecIxOnLRT(lrtOf, t, lrtOf[s])
    PROVE  \/ lrtOf[t] \in NotificationFlags(lrtOf, ready, s)
           \/ lrtOf[t] = lrtOf[s]
<1>1. s \in Task /\ s \in Nat /\ lrtOf[t] \in LRT
    BY TaskAssumption
<1>2. t \in Successors(s)
    BY DEF Successors
<1>3. s >= SyncExecIxOnLRT(lrtOf, t, lrtOf[s])
    BY <1>1
<1>4. CASE Successors(s) \subseteq ready
    BY <1>2, <1>3, <1>4 DEF NotificationFlags
<1>5. CASE ~(Successors(s) \subseteq ready)
    BY <1>1, <1>5 DEF NotificationFlags
<1> QED
    BY <1>4, <1>5

LEMMA NotificationFlagsType ==
    ASSUME NEW lrtOf \in [Task -> LRT], NEW ready, NEW t \in Task
    PROVE  NotificationFlags(lrtOf, ready, t) \subseteq LRT
BY DEF NotificationFlags, Successors
=============================================================================
