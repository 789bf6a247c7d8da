---------------------------- MODULE PiSDFSchedulers ----------------------------
(***************************************************************************)
(* The list scheduler and the greedy scheduler of the PiSDF runtimes: they *)
(* put the tasks of the resolved firings in an order that a round executes *)
(* and keep back the tasks that read from a graph that is not resolved.    *)
(* Rounds alternate with the resolution of graph firings, in any order.    *)
(*                                                                         *)
(* sortedTaskVector_ is a sequence; std::sort is a stable sort, and the    *)
(* properties do not use the order it gives to tasks that do not compare.  *)
(***************************************************************************)
EXTENDS Dependencies

CONSTANTS
    Policies,       \* the schedulers to consider: "LIST", "GREEDY"
    MinExecTime,    \* computeMinExecTime of a vertex
    NonSchedulable  \* NON_SCHEDULABLE_LEVEL

ASSUME SchedulerAssumption ==
    /\ Policies \subseteq {"LIST", "GREEDY"}
    /\ \A v \in DOMAIN MinExecTime : MinExecTime[v] \in Nat \ {0}
    /\ NonSchedulable \in Nat

VARIABLES
    policy,     \* the scheduler of the runtime
    sorted,     \* sortedTaskVector_: [task, level]
    taskIx,     \* GraphFiring::getTaskIx, of the tasks that have one
    schedule,   \* the tasks of the Schedule, in order: [task, level, round]
    round,      \* number of calls to schedule() so far
    upToDate,   \* nothing was resolved since
    crashed     \* an element out of the bounds of sortedTaskVector_ was used

schedulerVars == <<policy, sorted, taskIx, schedule, round, upToDate, crashed>>
vars == <<analysisVars, schedulerVars>>

\* A task is <<graph firing, vertex, firing>>.
FiringsOf(dep) == [n \in 1 .. dep.firingEnd - dep.firingStart + 1 |-> dep.firingStart + n - 1]

\* Fold F over the tasks that the dependencies name; vertex(e) is their end of the edge.
OverTasks(F(_, _), base, deps, end) ==
    FoldLeft(LAMBDA s, dep :
                IF IsUnresolved(dep) \/ IsVoid(dep)
                THEN s
                ELSE FoldLeft(LAMBDA u, k : F(u, <<dep.handler, end[dep.edge], k>>), s, FiringsOf(dep)),
             base, deps)

AllInputs(task) ==
    FlattenSeq([p \in DOMAIN InEdges[task[2]] |->
                    ExecDependencies(task[1], InEdges[task[2]][p], task[3])])

AllOutputs(task) ==
    FlattenSeq([p \in DOMAIN OutEdges[task[2]] |->
                    ConsDependencies(task[1], OutEdges[task[2]][p], task[3])])

\* Walk the firings of the graphs, parents first; F on the resolved ones, G on the others.
RECURSIVE WalkFirings(_, _, _, _)
WalkFirings(F(_, _), G(_, _), base, h) ==
    IF h \notin Resolved
    THEN G(base, h)
    ELSE FoldLeft(LAMBDA s, g :
                    FoldLeft(LAMBDA u, k : WalkFirings(F, G, u, SubFiring(h, g, k - 1)),
                             s, [k \in 1 .. rv[h][g] |-> k]),
                  F(base, h),
                  SelectSeq(VerticesOf[GraphOf(h)], LAMBDA v : Kind[v] = "GRAPH"))

\* The tasks of a resolved firing, vertex by vertex.
TaskSeq(h) ==
    FlattenSeq([n \in DOMAIN VerticesOf[GraphOf(h)] |->
                    LET v == VerticesOf[GraphOf(h)][n]
                    IN IF Executable(v) THEN [k \in 1 .. rv[h][v] |-> <<h, v, k - 1>>] ELSE <<>>])

-----------------------------------------------------------------------------
(* PiSDFListScheduler, on s = [sorted, ix, ok]                             *)

CreateListTask(s, task) ==
    IF task \in DOMAIN s.ix
    THEN s
    ELSE [s EXCEPT !.sorted = Append(@, [task |-> task, level |-> -1]),
                   !.ix = (task :> Len(s.sorted)) @@ @]

\* Every consumer of the task, and theirs, is kept back.
RECURSIVE RecursiveSetNonSchedulable(_, _)
RecursiveSetNonSchedulable(s, task) ==
    LET withhold(u, consumer) ==
            IF ~u.ok \/ consumer \notin DOMAIN u.ix \/ u.ix[consumer] >= Len(u.sorted)
            THEN [u EXCEPT !.ok = FALSE]
            ELSE RecursiveSetNonSchedulable(
                    [u EXCEPT !.sorted[u.ix[consumer] + 1].level = NonSchedulable], consumer)
    IN OverTasks(withhold, s, AllOutputs(task), Snk)

RecursiveAddVertices(s) ==
    WalkFirings(LAMBDA u, h : FoldLeft(CreateListTask, u, TaskSeq(h)),
                LAMBDA u, h : RecursiveSetNonSchedulable(u, <<Parent(h), GraphOf(h), FiringValue(h)>>),
                s, <<>>)

\* The index of a source may be one in the schedule, so its element is checked.
IndexOfTask(s, task) ==
    IF /\ task \in DOMAIN s.ix
       /\ s.ix[task] < Len(s.sorted)
       /\ s.sorted[s.ix[task] + 1].task[2] = task[2]
       /\ s.sorted[s.ix[task] + 1].task[3] = task[3]
    THEN s.ix[task] + 1
    ELSE 0

\* The level of a task is over those of its sources, plus the time they take.
AfterSource(u, done, i, source) ==
    LET level == done.sorted[i].level
    IN [s |-> done,
        level |-> IF level = NonSchedulable
                  THEN u.level
                  ELSE Max({u.level, level + MinExecTime[source[2]]})]

SetLevel(u, n) == [u.s EXCEPT !.sorted[n].level = u.level]

RECURSIVE ComputeScheduleLevel(_, _)
ComputeScheduleLevel(s, n) ==
    LET task == s.sorted[n].task
        levelForDep(u, source) ==
            LET i == IndexOfTask(u.s, source)
            IN IF i = 0 THEN u ELSE AfterSource(u, ComputeScheduleLevel(u.s, i), i, source)
    IN CASE s.sorted[n].level = NonSchedulable -> RecursiveSetNonSchedulable(s, task)
         [] s.sorted[n].level < 0 ->
                SetLevel(OverTasks(levelForDep, [s |-> s, level |-> 0], AllInputs(task), Src), n)
         [] OTHER -> s

\* Of two tasks of a vertex in the same level, the one with the smaller firing,
\* looking at the firings of their graphs if they are equal.
RECURSIVE FiringBefore(_, _, _, _)
FiringBefore(h, f, hh, ff) ==
    IF f # ff \/ h = <<>> \/ hh = <<>>
    THEN f < ff
    ELSE FiringBefore(Parent(h), FiringValue(h), Parent(hh), FiringValue(hh))

Before(a, b) ==
    CASE a.level # b.level -> a.level < b.level
      [] a.level = b.level /\ a.task[2] = b.task[2] ->
            FiringBefore(a.task[1], a.task[3], b.task[1], b.task[3])
      [] OTHER -> /\ Kind[a.task[2]] # Kind[b.task[2]]
                  /\ Kind[a.task[2]] = "INIT" \/ Kind[b.task[2]] = "END"

\* The tasks kept back are at the end, if every other level is lower.
CountNonSchedulableTasks(tasks) ==
    LET kept == {n \in DOMAIN tasks :
                    \A m \in n .. Len(tasks) : tasks[m].level = NonSchedulable}
    IN Cardinality(kept)

ResetScheduler ==
    [sorted |-> sorted, ok |-> TRUE,
     ix |-> [t \in {sorted[n].task : n \in DOMAIN sorted} |->
                CHOOSE k \in 0 .. Len(sorted) - 1 : sorted[k + 1].task = t] @@ taskIx]

ComputeLevels(added) ==
    IF ~added.ok
    THEN added
    ELSE FoldLeft(ComputeScheduleLevel, added, [n \in DOMAIN added.sorted |-> n])

\* Mutant: one task is left in the vector that is also in the schedule.
Scheduled_PopsOneLess(tasks) ==
    LET last == Len(tasks) - CountNonSchedulableTasks(tasks)
        from == Max({last - 1, 0})
    IN [tasks |-> SubSeq(tasks, 1, last),
        kept |-> [n \in 1 .. Len(tasks) - from |-> [tasks[from + n] EXCEPT !.level = -1]]]

\* ListTask of the tasks kept back: their levels are computed again next time.
Scheduled(tasks) ==
    LET last == Len(tasks) - CountNonSchedulableTasks(tasks)
    IN [tasks |-> SubSeq(tasks, 1, last),
        kept |-> [n \in 1 .. Len(tasks) - last |-> [tasks[last + n] EXCEPT !.level = -1]]]

-----------------------------------------------------------------------------
(* PiSDFGreedyScheduler, on s = [schedule, ok]                             *)

InSchedule(tasks, task) == \E n \in DOMAIN tasks : tasks[n] = task

AnyUnresolved(deps) == \E i \in DOMAIN deps : IsUnresolved(deps[i])
And(s, ok) == [s EXCEPT !.ok = @ /\ ok]
AddIfOk(s, task) == IF s.ok THEN [s EXCEPT !.tasks = Append(@, task)] ELSE s

RECURSIVE Evaluate(_, _)

\* Mutant: what was found for the previous task is not forgotten.
Evaluate_Sticky(s, task) ==
    LET fed(u, deps) == And(OverTasks(Evaluate, u, deps, Src), ~AnyUnresolved(deps))
        edge(u, e) == fed(u, ExecDependencies(task[1], e, task[3]))
    IN IF InSchedule(s.tasks, task)
       THEN s
       ELSE AddIfOk(FoldLeft(edge, s, InEdges[task[2]]), task)

\* The sources of a task first, then the task, if none of them is kept back.
Evaluate(s, task) ==
    LET source(u, t) == And(Evaluate([u EXCEPT !.ok = TRUE], t), u.ok)
        fed(u, deps) == IF u.ok THEN And(OverTasks(source, u, deps, Src), ~AnyUnresolved(deps)) ELSE u
        edge(u, e) == fed(u, ExecDependencies(task[1], e, task[3]))
    IN IF InSchedule(s.tasks, task)
       THEN [s EXCEPT !.ok = TRUE]
       ELSE AddIfOk(FoldLeft(edge, [s EXCEPT !.ok = TRUE], InEdges[task[2]]), task)

GreedyOrder ==
    WalkFirings(LAMBDA u, h : FoldLeft(Evaluate, u, TaskSeq(h)), LAMBDA u, h : u,
                [tasks |-> [n \in DOMAIN schedule |-> schedule[n].task], ok |-> TRUE], <<>>).tasks

-----------------------------------------------------------------------------
(* One call to schedule()                                                  *)

\* Schedule::addTask: the index of the task is its place in the schedule.
AddTasks(tasks) ==
    schedule' = schedule \o [n \in DOMAIN tasks |->
                                [task |-> tasks[n].task, level |-> tasks[n].level, round |-> round]]

IxOf(tasks) ==
    [t \in {tasks[n].task : n \in DOMAIN tasks} |->
        CHOOSE k \in 0 .. Len(tasks) - 1 : tasks[k + 1].task = t]

CanSchedule(p) ==
    /\ policy = p
    /\ <<>> \in Resolved
    /\ ~upToDate /\ ~crashed

AddSchedulable(levels) ==
    LET result == Scheduled(SortSeq(levels.sorted, Before))
    IN IF levels.ok
       THEN /\ AddTasks(result.tasks)
            /\ sorted' = result.kept
            /\ taskIx' = IxOf(schedule')
            /\ UNCHANGED crashed
       ELSE /\ crashed' = TRUE
            /\ UNCHANGED <<schedule, sorted, taskIx>>

ScheduleList ==
    /\ CanSchedule("LIST")
    /\ AddSchedulable(ComputeLevels(RecursiveAddVertices(ResetScheduler)))
    /\ round' = round + 1
    /\ upToDate' = TRUE
    /\ UNCHANGED <<policy, analysisVars>>

AddOrdered(order) ==
    AddTasks([n \in 1 .. Len(order) - Len(schedule) |->
                [task |-> order[Len(schedule) + n], level |-> Len(schedule) + n]])

ScheduleGreedy ==
    /\ CanSchedule("GREEDY")
    /\ AddOrdered(GreedyOrder)
    /\ taskIx' = IxOf(schedule')
    /\ round' = round + 1
    /\ upToDate' = TRUE
    /\ UNCHANGED <<policy, analysisVars, sorted, crashed>>

\* A graph firing gets its parameters between two calls.
ResolveFiring ==
    /\ ~crashed
    /\ \E h \in Firings \ Resolved : Resolve(h)
    /\ upToDate' = FALSE
    /\ UNCHANGED <<policy, sorted, taskIx, schedule, round, crashed>>

SchedulerInit ==
    /\ Init
    /\ policy \in Policies
    /\ sorted = <<>>
    /\ taskIx = << >>
    /\ schedule = <<>>
    /\ round = 0
    /\ upToDate = FALSE
    /\ crashed = FALSE

SchedulerNext == ResolveFiring \/ ScheduleList \/ ScheduleGreedy

SchedulerSpec == SchedulerInit /\ [][SchedulerNext]_vars

-----------------------------------------------------------------------------
(* Properties                                                              *)

AllTasks == UNION {{<<h, t[1], t[2]>> : t \in TasksOf(h)} : h \in Resolved}

PlaceOf(task) == {n \in DOMAIN schedule : schedule[n].task = task}

\* The tasks kept back have no level left, and the others have a real one.
TypeOK ==
    /\ AnalysisTypeOK
    /\ DOMAIN taskIx = {schedule[n].task : n \in DOMAIN schedule}
    /\ \A n \in DOMAIN sorted : sorted[n].level = -1
    /\ \A n \in DOMAIN schedule : schedule[n].level \in Nat \ {NonSchedulable}

\* A task is scheduled once (Task::ix is its place), or it waits in the vector
\* of the list scheduler, never both.
ScheduledOnce ==
    /\ \A t \in AllTasks : Cardinality(PlaceOf(t)) <= 1
    /\ \A n \in DOMAIN schedule : /\ schedule[n].task \in AllTasks
                                  /\ taskIx[schedule[n].task] = n - 1
    /\ \A n \in DOMAIN sorted : /\ PlaceOf(sorted[n].task) = {}
                                /\ \A m \in DOMAIN sorted : sorted[m].task = sorted[n].task => m = n

\* The task that wrote a token, from the token's name.
WriterOf(token) == <<token[1], Src[token[2]], token[3] \div SrcRate(token[1], token[2])>>
ReaderOf(token) == <<token[1], Snk[token[2]], token[3] \div SnkRate(token[1], token[2])>>

SureBefore(m, n) ==
    \/ schedule[m].round < schedule[n].round
    \/ schedule[m].round = schedule[n].round /\ schedule[m].level < schedule[n].level

\* Whoever wrote a token that a scheduled task reads is scheduled before it, and
\* for sure: in an earlier round or with a lower level.
SourcesFirst ==
    \A r \in Reads : \A n \in PlaceOf(ReaderOf(r[2])) :
        /\ Len(r[1]) = 3
        /\ \E m \in PlaceOf(WriterOf(r[1])) : SureBefore(m, n)

\* The order the mapper walks: every task once, after all that it reads from.
ScheduleSound == ScheduledOnce /\ SourcesFirst

\* The tasks that read, directly or not, from a graph that is not resolved.
RECURSIVE KeptBack(_, _)
KeptBack(reads, tasks) ==
    LET more == tasks \cup {ReaderOf(r[2]) : r \in {r \in reads :
                                \/ Len(r[1]) = 1
                                \/ Len(r[1]) = 3 /\ WriterOf(r[1]) \in tasks}}
    IN IF more = tasks THEN tasks ELSE KeptBack(reads, more)

\* A call schedules every task but those that depend on an unresolved graph.
NoneKeptForNothing ==
    upToDate =>
        {t \in AllTasks : PlaceOf(t) = {}} = KeptBack(Reads, {})

\* recursiveSetNonSchedulable finds the task of every consumer in the vector.
ConsumersFound == ~crashed
=============================================================================
