------------------------- MODULE ResourcesAllocator -------------------------
(***************************************************************************)
(* ResourcesAllocator::execute, run by the GRT once per round: map the     *)
(* tasks that the scheduler added to the schedule, one after the other,    *)
(* and launch each as a job of the LRT it is mapped on, at once (JIT) or   *)
(* when all of them are mapped (DELAYED).                                  *)
(*                                                                         *)
(* The firings of a PiSDF vertex share one VectPiSDFTask, whose getters    *)
(* and setters act on the firing its cursor is at (setOnFiring), and       *)
(* Schedule::task(ix) moves the cursor of the task it returns.             *)
(*                                                                         *)
(* One cluster: no synchronisation task is inserted.                       *)
(***************************************************************************)
EXTENDS Mapper, Sequences

CONSTANTS
    Vertex,         \* the task objects
    VertexOf,       \* the object a task (a firing of it) belongs to
    RTInfos,        \* the RTInfo that a vertex may have been given
    LastRound       \* bound: rounds of one execution

\* The allocator, its mapper and its schedule belong to one context.
ASSUME AllocatorAssumption ==
    /\ \A s, t \in Task : ContextOf[s] = ContextOf[t]
    /\ VertexOf \in [Task -> Vertex]
    /\ RTInfos \in [Vertex -> SUBSET RTInfo]
    /\ \A v \in Vertex : \A info \in RTInfos[v] : Allowed(info) # {}
    /\ LastRound \in Nat \ {0}

VARIABLES
    executionPolicy,    \* executionPolicy_, chosen when the allocator is built
    mappingPolicy,      \* the class of mapper_, chosen then too
    rtInfo,         \* Vertex::runtimeInformation
    startTime,      \* Task::startTime
    endTime,        \* Task::endTime
    stats,          \* Stats: endTime, loadTime and idleTime of each PE
    minStartTime,   \* Mapper::startTime_
    currentPe,      \* RoundRobinMapper::currentPeIx_
    mappedLRT,      \* Task::mappedLRT, NoLRT before mapping
    jobExecIx,      \* Task::jobExecIx
    syncExecIx,     \* Task::syncExecIxOnLRT
    state,          \* TaskState
    jobCount,       \* Stats::jobCount of each PE
    round,          \* rounds scheduled so far
    toMap,          \* tasks of the round the mapping loop has not reached
    toLaunch,       \* tasks of the round the launching loop has not reached
    jobs            \* the job messages sent to each LRT

config == <<executionPolicy, mappingPolicy, rtInfo>>
times == <<startTime, endTime, stats, minStartTime, currentPe>>
taskVars == <<mappedLRT, jobExecIx, syncExecIx, state>>
allocatorVars == <<config, times, taskVars, jobCount, round, toMap, toLaunch, jobs>>
vars == allocatorVars

NoLRT == -1
NoJob == -1     \* UINT32_MAX, SIZE_MAX

\* PENDING lasts only while Mapper::map runs; nothing sets the other two states.
TaskState == {"NOT_SCHEDULABLE", "READY", "RUNNING"}

SyncInfo == [lrtToWait: LRT \cup {NoLRT}, jobToWait: Nat \cup {NoJob}]

JobMessage == [taskIx: Task, execIx: Nat,
               execConstraints: SUBSET SyncInfo, synchronizationFlags: SUBSET LRT]

PEStats == [endTime: Nat, loadTime: Nat, idleTime: Nat]

NoStats == [l \in LRT |-> [endTime |-> 0, loadTime |-> 0, idleTime |-> 0]]

TypeOK ==
    /\ executionPolicy \in ExecutionPolicy
    /\ mappingPolicy \in MappingPolicy
    /\ \A v \in Vertex : rtInfo[v] \in RTInfos[v]
    /\ startTime \in [Task -> Nat]
    /\ endTime \in [Task -> Nat]
    /\ stats \in [LRT -> PEStats]
    /\ minStartTime \in Nat
    /\ currentPe \in LRT
    /\ mappedLRT \in [Task -> LRT \cup {NoLRT}]
    /\ jobExecIx \in [Task -> Nat \cup {NoJob}]
    /\ syncExecIx \in [Task -> [LRT -> Task \cup {NoSync}]]
    /\ state \in [Task -> TaskState]
    /\ jobCount \in [LRT -> Nat]
    /\ round \in Nat
    /\ toMap \subseteq toLaunch
    /\ toLaunch \subseteq Task
    /\ jobs \in [LRT -> Seq(JobMessage)]

Init ==
    /\ executionPolicy \in ExecutionPolicy
    /\ mappingPolicy \in MappingPolicy
    /\ rtInfo \in {info \in [Vertex -> UNION {RTInfos[v] : v \in Vertex}] :
                      \A v \in Vertex : info[v] \in RTInfos[v]}
    /\ startTime = [t \in Task |-> 0]
    /\ endTime = [t \in Task |-> 0]
    /\ stats = NoStats
    /\ minStartTime = 0
    /\ currentPe = 0
    /\ mappedLRT = [t \in Task |-> NoLRT]
    /\ jobExecIx = [t \in Task |-> NoJob]
    /\ syncExecIx = [t \in Task |-> [l \in LRT |-> NoSync]]
    /\ state = [t \in Task |-> "NOT_SCHEDULABLE"]
    /\ jobCount = [l \in LRT |-> 0]
    /\ round = 0
    /\ toMap = {}
    /\ toLaunch = {}
    /\ jobs = [l \in LRT |-> << >>]

\* Mutant: the loops visit the tasks in any order.
NextOf_Any(tasks, t) == t \in tasks

\* The next task of a loop over the schedule.
NextOf(tasks, t) == t \in tasks /\ \A u \in tasks : t <= u

-----------------------------------------------------------------------------
\* ResourcesAllocator::computeMinStartTime
MinEndTime(peStats) == Min({peStats[l].endTime : l \in LRT})

\* Mutant: the statistics of the schedule are reset between the rounds.
Schedule_NewCount ==
    /\ toLaunch = {}
    /\ round < LastRound
    /\ round' = round + 1
    /\ toMap' = {t \in Task : RoundOf[t] = round'}
    /\ toLaunch' = toMap'
    /\ jobCount' = [l \in LRT |-> 0]
    /\ minStartTime' = MinEndTime(stats)
    /\ UNCHANGED <<config, startTime, endTime, stats, currentPe, taskVars, jobs>>

\* The scheduler appends the tasks of the next round.
Schedule ==
    /\ toLaunch = {}
    /\ round < LastRound
    /\ round' = round + 1
    /\ toMap' = {t \in Task : RoundOf[t] = round'}
    /\ toLaunch' = toMap'
    /\ minStartTime' = MinEndTime(stats)
    /\ UNCHANGED <<config, startTime, endTime, stats, currentPe, taskVars, jobCount, jobs>>

\* computeStartTime: for each LRT the source with the largest index.
LastSources(t) ==
    [l \in LRT |-> LET onLRT == {s \in Deps[t] : mappedLRT[s] = l}
                   IN  IF onLRT = {} THEN NoSync ELSE Max(onLRT)]

\* Mutant: a task starts when its PE is free, whatever its sources.
ComputeStartTime_NoSources(t) == minStartTime

\* computeStartTime: when the last of the sources ends.
ComputeStartTime(t) == Max({minStartTime} \cup {endTime[s] : s \in Deps[t]})

\* Schedule::updateTaskAndSetReady: what is recorded of a PE given one more task.
WithTask(pe, start, end) ==
    [endTime |-> end, loadTime |-> pe.loadTime + (end - start),
     idleTime |-> pe.idleTime + (start - pe.endTime)]

FindPE(info, earliest) ==
    IF mappingPolicy = "BEST_FIT"
    THEN BestFit(info, [l \in LRT |-> stats[l].endTime], earliest)
    ELSE RoundRobin(info, currentPe)

\* Mapper::map, then Schedule::updateTaskAndSetReady.
Map(t) ==
    LET info == rtInfo[VertexOf[t]]
        earliest == ComputeStartTime(t)
        lrt == FindPE(info, earliest)
        start == Max({stats[lrt].endTime, earliest})
        end == start + info.timing[lrt]
    IN  /\ NextOf(toMap, t)
        /\ executionPolicy = "JIT" => toLaunch = toMap
        /\ toMap' = toMap \ {t}
        /\ syncExecIx' = [syncExecIx EXCEPT ![t] = LastSources(t)]
        /\ mappedLRT' = [mappedLRT EXCEPT ![t] = lrt]
        /\ jobExecIx' = [jobExecIx EXCEPT ![t] = jobCount[lrt]]
        /\ jobCount' = [jobCount EXCEPT ![lrt] = @ + 1]
        /\ startTime' = [startTime EXCEPT ![t] = start]
        /\ endTime' = [endTime EXCEPT ![t] = end]
        /\ stats' = [stats EXCEPT ![lrt] = WithTask(@, start, end)]
        /\ minStartTime' = MinEndTime(stats')
        /\ currentPe' = IF mappingPolicy = "ROUND_ROBIN" THEN NextCursor(lrt) ELSE currentPe
        /\ state' = [state EXCEPT ![t] = "READY"]
        /\ UNCHANGED <<config, round, toLaunch, jobs>>

\* Mutant: a sink that is not mapped yet is treated like one that is.
SinkFlags_ReadyOnly(t, u) ==
    {l \in {mappedLRT[u]} \ {mappedLRT[t]} : syncExecIx[u][mappedLRT[t]] <= t}

\* setFlagsFromSink: NoSync is less than every index.
SinkFlags(t, u) ==
    IF state[u] # "READY" THEN LRT
    ELSE {l \in {mappedLRT[u]} \ {mappedLRT[t]} : syncExecIx[u][mappedLRT[t]] <= t}

\* buildExecConstraints, LRT after LRT.  "at" is the firing the cursor of the
\* task is at: the task reads its own syncExecIxOnLRT through it, and the
\* lookup of the source moves it when the source is a firing of the same vertex.
\* The array has one slot per synchronised LRT of t; slots left over keep the
\* default values of SyncInfo.
ConstraintScan(t) ==
    LET wanted == Cardinality({l \in LRT : syncExecIx[t][l] # NoSync})
        scan[n \in 0 .. LRTCount] ==
            IF n = 0 THEN [at |-> t, found |-> {}]
            ELSE LET before == scan[n - 1]
                     src == syncExecIx[before.at][n - 1]
                 IN  IF src = NoSync \/ Cardinality(before.found) = wanted
                     THEN before
                     ELSE [at |-> IF VertexOf[src] = VertexOf[t] THEN src
                                  ELSE before.at,
                           found |-> before.found \cup
                               {[lrtToWait |-> n - 1, jobToWait |-> jobExecIx[src]]}]
        last == scan[LRTCount]
    IN  [at |-> last.at,
         execConstraints |->
             IF Cardinality(last.found) = wanted THEN last.found
             ELSE last.found \cup {[lrtToWait |-> NoLRT, jobToWait |-> NoJob]}]

\* TaskLauncher::visit and sendTask: what follows the constraints goes through
\* the cursor, where buildExecConstraints left it.
Launch(t) ==
    /\ NextOf(toLaunch, t)
    /\ t \notin toMap
    /\ executionPolicy = "DELAYED" => toMap = {}
    /\ toLaunch' = toLaunch \ {t}
    /\ IF state[t] = "READY"
       THEN LET scan == ConstraintScan(t)
                message == [taskIx |-> t, execIx |-> jobExecIx[t],
                            execConstraints |-> scan.execConstraints,
                            synchronizationFlags |->
                                UNION {SinkFlags(t, u) : u \in Successors(t)}]
            IN  /\ jobs' = [jobs EXCEPT ![mappedLRT[scan.at]] = Append(@, message)]
                /\ state' = [state EXCEPT ![scan.at] = "RUNNING"]
       ELSE UNCHANGED <<jobs, state>>
    /\ UNCHANGED <<config, times, mappedLRT, jobExecIx, syncExecIx, jobCount, round, toMap>>

\* The execution is over: the schedule and the tasks are cleared.  The mapper is
\* not: a round-robin goes on from the PE it had reached.
Clear ==
    /\ toLaunch = {}
    /\ round = LastRound
    /\ mappedLRT' = [t \in Task |-> NoLRT]
    /\ jobExecIx' = [t \in Task |-> NoJob]
    /\ syncExecIx' = [t \in Task |-> [l \in LRT |-> NoSync]]
    /\ state' = [t \in Task |-> "NOT_SCHEDULABLE"]
    /\ jobCount' = [l \in LRT |-> 0]
    /\ round' = 0
    /\ jobs' = [l \in LRT |-> << >>]
    /\ startTime' = [t \in Task |-> 0]
    /\ endTime' = [t \in Task |-> 0]
    /\ stats' = NoStats
    /\ UNCHANGED <<config, minStartTime, currentPe, toMap, toLaunch>>

Next ==
    \/ Schedule
    \/ \E t \in Task : Map(t) \/ Launch(t)
    \/ Clear

Spec == Init /\ [][Next]_vars

-----------------------------------------------------------------------------
(* Properties                                                              *)

Sent == {t \in Task : RoundOf[t] <= round} \ toLaunch

\* Every task that the launching loop has passed is a job of exactly one LRT,
\* the one it is mapped on, and that LRT receives its jobs in the order of their
\* indices: a runner that has done job n has done every job before it, which is
\* what comparing stamps relies on.
JobsInOrder ==
    /\ \A l \in LRT : \A i \in 1 .. Len(jobs[l]) :
          /\ jobs[l][i].execIx = i - 1
          /\ mappedLRT[jobs[l][i].taskIx] = l
    /\ \A t \in Sent : \E l \in LRT : \E i \in 1 .. Len(jobs[l]) :
          jobs[l][i].taskIx = t

\* The message built step by step through the shared task objects is the one
\* that the definitions of TaskLauncher give for the final mapping: its index,
\* its constraints and the LRTs to notify.
MessagesFaithful ==
    \A l \in LRT : \A i \in 1 .. Len(jobs[l]) :
        LET t == jobs[l][i].taskIx
        IN  /\ jobs[l][i].execIx = JobExecIx(mappedLRT, t)
            /\ jobs[l][i].execConstraints = ExecConstraints(mappedLRT, t)
            /\ jobs[l][i].synchronizationFlags =
                   NotificationFlags(mappedLRT, ReadyWhenLaunched(executionPolicy, t), t)

\* A job waits only for jobs sent before it, so the runners cannot wait for one
\* another in a circle.
WaitsBackward ==
    \A l \in LRT : \A i \in 1 .. Len(jobs[l]) :
        \A c \in jobs[l][i].execConstraints :
            /\ c.lrtToWait \in LRT
            /\ c.jobToWait < Len(jobs[c.lrtToWait])
            /\ jobs[c.lrtToWait][c.jobToWait + 1].taskIx < jobs[l][i].taskIx

\* The schedule that the mapper computes can be executed: a task starts after all
\* its sources have ended, the tasks of a PE follow one another in the order of
\* their job indices, and the load and idle times of a PE add up to the time it
\* is free again, whatever PEs the two mappers choose.
ScheduleFeasible ==
    LET Mapped == {t \in Task : mappedLRT[t] # NoLRT}
    IN  /\ \A t \in Mapped : \A s \in Deps[t] : endTime[s] <= startTime[t]
        /\ \A t, u \in Mapped :
              mappedLRT[t] = mappedLRT[u] /\ jobExecIx[t] < jobExecIx[u]
                  => endTime[t] <= startTime[u]
        /\ \A l \in LRT :
              /\ stats[l].endTime = stats[l].loadTime + stats[l].idleTime
              /\ stats[l].endTime = Max({0} \cup {endTime[t] : t \in {u \in Mapped : mappedLRT[u] = l}})

\* When the PE would end the task, the overhead of the GRT's counted.
WouldEnd(t, pe) ==
    LET free == stats[pe].endTime + (IF pe = GRTPE THEN GRTOverhead ELSE 0)
    IN  Max({free} \cup {endTime[s] : s \in Deps[t]}) + rtInfo[VertexOf[t]].timing[pe]

\* A task is mapped on a PE that is enabled and allowed.  Best fit chooses one
\* that ends it soonest, round robin the next one: between it and the PE chosen
\* before, the task is allowed on none.
MapsWell(t) ==
    LET allowed == Allowed(rtInfo[VertexOf[t]])
        chosen == mappedLRT'[t]
    IN  /\ chosen \in allowed
        /\ mappingPolicy = "BEST_FIT" =>
              \A pe \in allowed : WouldEnd(t, chosen) <= WouldEnd(t, pe)
        /\ mappingPolicy = "ROUND_ROBIN" =>
              \A pe \in allowed : (chosen - currentPe) % LRTCount <= (pe - currentPe) % LRTCount

\* Every step that maps a task maps it well.
MappedWell ==
    [][\A t \in Task : mappedLRT[t] = NoLRT /\ mappedLRT'[t] # NoLRT => MapsWell(t)]_vars
=============================================================================
