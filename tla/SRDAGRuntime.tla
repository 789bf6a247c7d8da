------------------------------ MODULE SRDAGRuntime ------------------------------
(***************************************************************************)
(* One iteration of StaticRuntime and of SRDAGJITMSRuntime: phases that    *)
(* transform jobs, optimise the single-rate graph if the application was   *)
(* asked to, and run what can be.  Running puts the vertices that do not   *)
(* depend on a graph that is left in the schedule, gives their edges       *)
(* addresses and executes the tasks; their order on several runners is     *)
(* that of the schedule where they depend on each other (JITMSRuntime):    *)
(* here the runner of one INIT may be late, and the others go on without   *)
(* it.  Only virtual memory is modelled: no buffer is freed.               *)
(***************************************************************************)
EXTENDS SingleRateTransformation

CONSTANTS
    Policies,       \* the schedulers to consider: "LIST", "GREEDY"
    MinExecTime,    \* the time of the fastest PE, per type of vertex
    NonSchedulable  \* NON_SCHEDULABLE_LEVEL

ASSUME RuntimeAssumption ==
    /\ Policies \subseteq {"LIST", "GREEDY"}
    /\ \A type \in DOMAIN MinExecTime : MinExecTime[type] \in Nat \ {0}
    /\ NonSchedulable \in Nat

VARIABLES
    options,    \* the values that each option of the runtime may have
    sorted,     \* sortedTaskVector_ between two calls: the vertices kept back
    schedule,   \* the vertices of the SRDAGTasks of the Schedule
    allocated,  \* the address and the offset of the edges that have them
    nextAddress,    \* virtualMemoryAddress_
    memory,     \* the token at each address written so far
    received    \* what each task read, per port

runtimeVars == <<options, sorted, schedule, allocated, nextAddress, memory, received>>
allVars == <<vars, runtimeVars>>

\* The options of the runtime have these values: they are chosen when they matter.
Takes(values) ==
    /\ \A option \in DOMAIN values : values[option] \in options[option]
    /\ options' = [option \in DOMAIN values |-> {values[option]}] @@ options

SetHasTask(g, list, value) ==
    [g EXCEPT !.info = Tabulated([v \in DOMAIN @ |->
        IF v \in Range(list) THEN [@[v] EXCEPT !.hasTask = value] ELSE @[v]])]

-----------------------------------------------------------------------------
(* ListScheduler, on a sequence of [vertex, level]                         *)

\* The vertices kept back, whose levels are computed again, and the new ones.
CreateListTasks(g) ==
    LET new == SelectSeq(g.vertices, LAMBDA v : ~g.info[v].hasTask)
        level(v) == IF g.info[v].executable THEN -1 ELSE NonSchedulable
    IN [n \in DOMAIN sorted |-> [vertex |-> sorted[n], level |-> -1]]
       \o [n \in DOMAIN new |-> [vertex |-> new[n], level |-> level(new[n])]]

PlaceIn(tasks, v) == SelectInSeq(tasks, LAMBDA t : t.vertex = v)

\* Whoever reads from the vertex, and so on, is kept back.
RECURSIVE RecursiveSetNonSchedulable(_, _, _)
RecursiveSetNonSchedulable(g, tasks, v) ==
    LET withhold(s, e) ==
            LET n == PlaceIn(s, Sink(g, e))
            IN IF Rate(g, e) = 0 \/ s[n].level = NonSchedulable
               THEN s
               ELSE RecursiveSetNonSchedulable(g, [s EXCEPT ![n].level = NonSchedulable], Sink(g, e))
    IN FoldLeft(withhold, tasks, Outputs(g, v))

\* After the sources that are in the vector and can run, the time they take.
RECURSIVE ComputeScheduleLevel(_, _, _)
ComputeScheduleLevel(g, tasks, n) ==
    LET sources == SelectSeq([p \in DOMAIN Inputs(g, tasks[n].vertex) |->
                                    Source(g, Inputs(g, tasks[n].vertex)[p])],
                             LAMBDA v : v # None /\ g.info[v].executable)
        after(u, v) ==
            LET m == PlaceIn(u.tasks, v)
                done == ComputeScheduleLevel(g, u.tasks, m)
            IN IF m = 0 THEN u
               ELSE [tasks |-> done,
                     level |-> IF done[m].level = NonSchedulable THEN u.level
                               ELSE Max({u.level, done[m].level + MinExecTime[Type(g, v)]})]
        result == FoldLeft(after, [tasks |-> tasks, level |-> 0], sources)
    IN CASE tasks[n].level = NonSchedulable -> RecursiveSetNonSchedulable(g, tasks, tasks[n].vertex)
         [] tasks[n].level = -1 -> [result.tasks EXCEPT ![n].level = result.level]
         [] OTHER -> tasks

ComputeLevels(g, tasks) ==
    FoldLeft(LAMBDA s, n : ComputeScheduleLevel(g, s, n), tasks, [n \in DOMAIN tasks |-> n])

\* The reference and the instance value of a vertex of an application are those
\* of its task; the vertices that the transformation makes have none.
Before(g, a, b) ==
    LET A == g.info[a.vertex].task
        B == g.info[b.vertex].task
        sameActor == (A = <<>> /\ B = <<>>) \/ (A # <<>> /\ B # <<>> /\ A[2] = B[2])
    IN CASE a.level # b.level -> a.level < b.level
         [] a.level = b.level /\ sameActor -> A # <<>> /\ A[3] < B[3]
         [] OTHER -> /\ Type(g, a.vertex) # Type(g, b.vertex)
                     /\ Type(g, a.vertex) = "INIT" \/ Type(g, b.vertex) = "END"

VerticesIn(tasks) == [n \in DOMAIN tasks |-> tasks[n].vertex]

\* What the scheduler adds to the schedule, and what it keeps: the vertices that
\* cannot run and are not jobs keep an index; the jobs lose theirs.
ListOrder(g) ==
    LET tasks == SortSeq(ComputeLevels(g, CreateListTasks(g)), LAMBDA a, b : Before(g, a, b))
        keptBack(t) == t.level = NonSchedulable
    IN [tasks |-> VerticesIn(SelectSeq(tasks, LAMBDA t : ~keptBack(t))),
        kept |-> VerticesIn(SelectSeq(tasks, LAMBDA t : keptBack(t) /\ g.info[t.vertex].executable))]

-----------------------------------------------------------------------------
(* GreedyScheduler, on [tasks, ok, go]                                     *)

\* The sources of a vertex are put in the schedule before it, until one is found
\* that cannot run.
RECURSIVE Evaluate(_, _, _)
Evaluate(g, s, v) ==
    LET source(u, e) ==
            CASE ~u.go \/ Rate(g, e) = 0 -> u
              [] u.go /\ Rate(g, e) # 0 /\ (Source(g, e) = None \/ ~g.info[Source(g, e)].executable) ->
                    [u EXCEPT !.ok = FALSE, !.go = FALSE]
              [] OTHER -> LET there == Evaluate(g, u, Source(g, e))
                          IN [there EXCEPT !.ok = @ /\ u.ok, !.go = TRUE]
        sources == FoldLeft(source, [s EXCEPT !.ok = TRUE, !.go = TRUE], Inputs(g, v))
    IN CASE g.info[v].hasTask \/ v \in Range(s.tasks) -> [s EXCEPT !.ok = TRUE]
         [] ~g.info[v].hasTask /\ v \notin Range(s.tasks) /\ sources.ok ->
                [sources EXCEPT !.tasks = Append(@, v)]
         [] OTHER -> sources

GreedyOrder(g) ==
    [tasks |-> FoldLeft(LAMBDA s, v : Evaluate(g, s, v), [tasks |-> <<>>, ok |-> TRUE, go |-> TRUE],
                        SelectSeq(g.vertices, LAMBDA v : g.info[v].executable)).tasks,
     kept |-> <<>>]

-----------------------------------------------------------------------------
(* SRDAGFifoAllocator and the execution of a task, on s = [allocated, next,*)
(* memory, received]                                                       *)

\* What is at an address that nobody wrote, or at none.
Garbage == <<>>

At(memory_, address) == IF address \in DOMAIN memory_ THEN memory_[address] ELSE Garbage

\* buildInputFifo: the fifo of an edge is where its source was told to write.
ReadFifo(g, s, e) ==
    [n \in 1 .. Rate(g, e) |->
        IF e \in DOMAIN s.allocated
        THEN At(s.memory, s.allocated[e].address + s.allocated[e].offset + n - 1)
        ELSE Garbage]

\* Mutant: every output of a fork starts where its input does.
OffsetIn_Start(g, v, n) == 0

\* The outputs of a fork are one after the other in its input, those of a
\* duplicate are its input.
OffsetIn(g, v, n) ==
    IF Type(g, v) = "FORK"
    THEN SumOf([m \in 1 .. n - 1 |-> Rate(g, Outputs(g, v)[m])])
    ELSE 0

SetAddress(s, e, address, offset) ==
    [s EXCEPT !.allocated = (e :> [address |-> address, offset |-> offset]) @@ @]

AllocateOne(g, s, v, n) ==
    LET in == s.allocated[InputEdge(g, v, 0)]
        out == Outputs(g, v)[n]
    IN IF Type(g, v) \in {"FORK", "DUPLICATE"}
       THEN SetAddress(s, out, in.address, in.offset + OffsetIn(g, v, n))
       ELSE [SetAddress(s, out, s.next, 0) EXCEPT !.next = @ + Rate(g, out)]

Allocate(g, s, v) ==
    FoldLeft(LAMBDA u, n : AllocateOne(g, u, v, n), s, [n \in DOMAIN Outputs(g, v) |-> n])

\* allocatePersistentDelays: the first addresses are those of the delays that
\* keep their tokens from one iteration to the next.
PersistentDelays == SetToSeq(Persistent \cap VerticesUnder(root))
ReservedBefore(n) == SumOf([m \in 1 .. n - 1 |-> delay[PersistentDelays[m]]])
MemoryAddress(d) == ReservedBefore(SelectInSeq(PersistentDelays, LAMBDA x : x = d))
ReservedMemory == ReservedBefore(Len(PersistentDelays) + 1)

\* What the delay of the INIT whose task this is kept: at first, its own tokens.
Kept(memory_, task) ==
    LET d == Snk[OutEdges[task[2]][1]]
    IN IF MemoryAddress(d) \in DOMAIN memory_
       THEN [n \in 1 .. delay[d] |-> At(memory_, MemoryAddress(d) + n - 1)]
       ELSE OwnTokens(task, 1, delay[d])

Write(s, start, tokens) ==
    [s EXCEPT !.memory = [address \in start .. start + Len(tokens) - 1 |->
                             tokens[address - start + 1]] @@ @]

WriteFifo(s, e, tokens) == Write(s, s.allocated[e].address + s.allocated[e].offset, tokens)

OfPersistentDelay(task) ==
    /\ task # <<>>
    /\ \/ Kind[task[2]] = "INIT" /\ Snk[OutEdges[task[2]][1]] \in Persistent
       \/ Kind[task[2]] = "END" /\ Src[InEdges[task[2]][1]] \in Persistent

\* runJob(), with the addresses that the task was launched with.
RunJob(g, s, v) ==
    LET task == g.info[v].task
        inputs == [p \in DOMAIN Inputs(g, v) |-> ReadFifo(g, s, Inputs(g, v)[p])]
        keeps == OfPersistentDelay(task)
        output(n) == IF keeps THEN Kept(s.memory, task) ELSE KernelOutput(g, v, n, inputs)
        written == FoldLeft(LAMBDA u, n : WriteFifo(u, Outputs(g, v)[n], output(n)),
                            s, [n \in DOMAIN Outputs(g, v) |-> n])
        done == IF keeps /\ Type(g, v) = "END"
                THEN Write(written, MemoryAddress(Src[InEdges[task[2]][1]]), inputs[1])
                ELSE written
    IN IF task = <<>> THEN done ELSE [done EXCEPT !.received = (task :> inputs) @@ @]

-----------------------------------------------------------------------------
(* The runtimes                                                            *)

RuntimeState ==
    [allocated |-> allocated, next |-> nextAddress, memory |-> memory, received |-> received]

SetState(s) ==
    /\ allocated' = s.allocated
    /\ nextAddress' = s.next
    /\ memory' = s.memory
    /\ received' = s.received

\* The vertices that read, directly or not, from those found.
RECURSIVE Reached(_, _)
Reached(g, found) ==
    LET more == found \cup {Sink(g, e) : e \in {e \in DOMAIN g.edges :
                                Rate(g, e) # 0 /\ Source(g, e) \in found}}
    IN IF more = found THEN found ELSE Reached(g, more)

\* The jobs are launched in the order of the schedule.  They run in that order
\* too, unless the runner of an INIT is late: then the jobs that do not read from
\* it, on other runners, come before it.
Orders(g, tasks) ==
    {tasks} \cup
    {LET readers == Reached(g, {v})
     IN SelectSeq(tasks, LAMBDA u : u \notin readers) \o SelectSeq(tasks, LAMBDA u : u \in readers) :
        v \in {v \in Range(tasks) : Type(g, v) = "INIT"}}

Run(order) ==
    /\ srdag' = SetHasTask(srdag, order.tasks \o order.kept, TRUE)
    /\ sorted' = order.kept
    /\ schedule' = schedule \o order.tasks
    /\ \E jobs_ \in Orders(srdag, order.tasks) :
        SetState(FoldLeft(LAMBDA s, v : RunJob(srdag, s, v),
                          FoldLeft(LAMBDA s, v : Allocate(srdag, s, v), RuntimeState, order.tasks),
                          jobs_))

\* scheduleRunAndWait(), when this phase has transformed its jobs and the graph
\* has been optimised, unless it is not to be.
ScheduleRunAndWait(policy, order) ==
    /\ jobs = <<>> /\ refused = <<>> /\ ~remaining
    /\ pass \in {"Unitary", "Optimized"}
    /\ Takes([policy |-> policy, optimize |-> pass = "Optimized"])
    /\ Run(order)
    /\ pass' = "Ran"
    /\ UNCHANGED <<analysisVars, phase, jobs, later, remaining, changed>>

RunList == ScheduleRunAndWait("LIST", ListOrder(srdag))
RunGreedy == ScheduleRunAndWait("GREEDY", GreedyOrder(srdag))

StartPhase(next, stack) ==
    /\ pass = "Ran"
    /\ phase' = next
    /\ jobs' = later[stack]
    /\ later' = [later EXCEPT ![stack] = <<>>]
    /\ pass' = "Unitary"
    /\ UNCHANGED <<analysisVars, srdag, remaining, changed, runtimeVars>>

\* The values of the parameters have come: the dynamic jobs, once each.
TransformDynamicJobs ==
    /\ phase = "STATIC"
    /\ later.DYNAMIC # <<>>
    /\ StartPhase("DYNAMIC", "DYNAMIC")

\* The static jobs, and those that they leave.
TransformStaticJobs ==
    /\ phase = "DYNAMIC"
    /\ later.STATIC # <<>> \/ later.DYNAMIC # <<>>
    /\ StartPhase("STATIC", "STATIC")

Transforming == TransformJob /\ UNCHANGED runtimeVars

Optimizing ==
    /\ \/ ReduceUnitary
       \/ ReduceForkFork
       \/ ReduceJoinJoin
       \/ ReduceJoinForkAgain
       \/ ReduceRepeats
       \/ ReduceDupDup
       \/ ReduceEnds
       \/ ReduceInits
    /\ Takes([optimize |-> TRUE])
    /\ UNCHANGED <<sorted, schedule, allocated, nextAddress, memory, received>>

RuntimeInit ==
    /\ SingleRateInit
    /\ options = [policy |-> Policies, optimize |-> BOOLEAN]
    /\ sorted = <<>>
    /\ schedule = <<>>
    /\ allocated = << >>
    /\ nextAddress = ReservedMemory
    /\ memory = << >>
    /\ received = << >>

RuntimeNext ==
    \/ Transforming
    \/ Optimizing
    \/ RunList
    \/ RunGreedy
    \/ TransformDynamicJobs
    \/ TransformStaticJobs

RuntimeSpec == RuntimeInit /\ [][RuntimeNext]_allVars

-----------------------------------------------------------------------------
(* Properties                                                              *)

CannotRun(g) == {v \in DOMAIN g.info : ~g.info[v].executable}

Actors == {t \in DOMAIN received : Kind[t[2]] = "NORMAL"}

\* The ENDs of the persistent delays, and the INIT of the same delay.
Ending ==
    {t \in {<<h, v, 0>> : h \in Resolved, v \in DOMAIN Kind} :
        t[2] \in VerticesAt(t[1]) /\ Kind[t[2]] = "END" /\ OfPersistentDelay(t)}
InitOf(t) == <<t[1], Src[InEdges[Src[InEdges[t[2]][1]]][1]], t[3]>>

\* Nothing orders the END of a delay after its INIT where no path leads from one
\* to the other: the INIT may then read what the END has written.
Overwritten(token) ==
    /\ Len(token) = 3
    /\ Kind[Src[token[2]]] = "INIT"
    /\ LET d == Snk[token[2]]
       IN d \in Persistent /\ Src[DelayedEdge[d]] # Snk[DelayedEdge[d]]

Same(tokens, wanted) ==
    /\ Len(tokens) = Len(wanted)
    /\ \A n \in DOMAIN wanted : tokens[n] = wanted[n] \/ Overwritten(wanted[n])

\* A run executes every vertex of the graph once, but those that read from a graph
\* whose job is left; and in whatever phases the jobs were transformed, whatever
\* the optimisations removed, an actor finds on each port, at the addresses
\* that its task was given, the tokens that it reads in the application; and a
\* persistent delay has kept, for the next iteration, those that remain on it.
ExecutedAsWritten ==
    pass = "Ran" =>
        /\ \A n, m \in DOMAIN schedule : schedule[n] = schedule[m] => n = m
        /\ DOMAIN srdag.info \ Range(schedule) = Reached(srdag, CannotRun(srdag))
        /\ later.DYNAMIC = <<>> /\ later.STATIC = <<>> =>
            /\ Actors = Working
            /\ \A t \in Ending : Same(Kept(memory, InitOf(t)), Read(t, 1))
        /\ \A t \in Actors : \A p \in DOMAIN InEdges[t[2]] : Same(received[t][p], Read(t, p))
=============================================================================
