# A TLA+ verification of the SPIDER 2 runtime

SPIDER 2 executes PiSDF dataflow graphs on a set of threads. A *global runtime*
(GRT), on the application's thread, turns a graph into tasks, schedules and maps
them, and sends them as *jobs* to *local runtimes* (LRT), one thread each, the GRT
being an LRT too. Everything the LRTs tell each other goes through queues of small
notifications. The modules here model the library from its source, from the
construction of a graph to the execution of its tasks; TLC checks them on small
instances, and TLAPS proves for every instance what the runtime, the resources
allocator and the memory stacks promise.

Source paths are relative to `src/libspider/`.

## 1. Inventory

| component | state it keeps | operations | hard behaviour | modelled by |
|---|---|---|---|---|
| Runner of a LRT (`runtime/runner`) | job queue and position, job count, stamps of every LRT, flags start / receivedEnd / finished / repeat / shouldBroadcast | `run`, `readNotification`, `isJobRunnable`, `runJob`, end of iteration, `clear`, `reset` | interleaves with the GRT and every other runner; stale stamps; notifications in an unexpected state | JITMSRTRunner, JITMSMemory |
| Communicator (`runtime/communicator`, `runtime/message`, `thread/Queue.h`, `IndexedQueue.h`) | one notification FIFO per LRT, one for parameters, message slots and their free indices | `push`, `pop`, `try_pop` | a loop of pushes is not atomic; a slot is reused by any thread | RTCommunicator, Delivery |
| Platform (`runtime/platform`) | `finishedRunnerArray_`, threads, SIGINT flag | `sendXxxToRunners`, `waitForRunnersToFinish`, `registerFinishedRunner`, destructor | barrier over asynchronous notifications, set-aside notifications pushed back, shutdown | JITMSRuntime |
| Algorithms (`runtime/algorithm`) | `iter_`, the transformation jobs or the graph handlers | `execute` of `StaticRuntime`, `SRDAGJITMSRuntime`, `PiSDFJITMSRuntime` | rounds with dynamic parameters, two kinds of context on one platform | JITMSRuntime, SRDAGRuntime |
| Application interface (`api/spider.cpp`) | run mode, loop count | `run`, `quit` | repeated calls, interrupt | JITMSRuntime |
| Resources allocator, schedule, tasks and launcher (`scheduling`) | the schedule, the attributes of its tasks, the job count and the times of each PE | `execute` (JIT or DELAYED), `clear`, `sendTask` | shared task objects read through a cursor, tasks launched before their sinks are mapped | TaskLauncher, ResourcesAllocator |
| Mapper (`scheduling/mapper`) | the statistics of the schedule, the PE of the last task | `map`, `findPE` of best fit and round robin | start times from three sources that move during the mapping | Mapper, ResourcesAllocator |
| Schedulers (`scheduling/scheduler`) | the sorted tasks, those already scheduled, the levels | `schedule` of the list and greedy schedulers, `clear` | tasks kept back from one round to the next, non-schedulable consumers, ties | PiSDFSchedulers, SRDAGRuntime |
| FIFO allocators (`scheduling/memory`) | virtual addresses, reserved memory | `allocate`, `allocatePersistentDelays`, `updateDynamicBuffersCount` | merges, forks that pass parts on, counts completed later, phases | PiSDFFifos, SRDAGRuntime |
| Memory interface (`archi/MemoryInterface.cpp`, `runtime/common/Fifo.cpp`) | virtual address to buffer with a use count | `read`, `allocate`, `deallocate`, `update`, `collect` | last user frees, users on several threads, counts corrected later | JITMSMemory |
| Allocator policies (`memory`) | free list, extra buffers, linear offset, usage | `allocate`, `deallocate`, change of policy | splitting and merging, alignment, limits | MemoryStacks |
| Numerical analysis (`graphs-tools/numerical`) | none | repetition vector, exec and cons dependencies of a firing | delays, interfaces, rates that do not divide, unresolved subgraphs | RepetitionVector, Dependencies |
| Single-rate transformation and optimisations (`graphs-tools/transformation/srdag`, `optims`) | transformation jobs, the single-rate graph | linking of firings, eight rewriting passes | order of the linked producers, passes on a graph partly executed | SingleRateTransformation, Optimizations |
| Graph handlers (`graphs-tools/transformation/pisdf`) | resolved flags, rates and repetition values per firing of a graph | `setParamValue`, `resolveBRV`, `clear` | dynamic parameters nested, reuse between executions | GraphHandlers |
| PiSDF graphs and their construction (`graphs/pisdf`, `api/pisdf-api.cpp`, `graphs-tools/helper/pisdf-helper.cpp`) | vertices, edges, ports, viewers and cached indices | creation, connection, removal, move, delays, split into init and run | raw pointers both ways, swap on removal | PiSDFGraphs |
| Single-rate graphs (`graphs/srdag`) | vertices and edges in an order | creation, connection, removal | order after removals | SRDAG |
| Expression parser (`graphs-tools/expression-parser`) | postfix, compiled expression, symbol table | construction, evaluation | implicit products, signs, two-pass compilation | Expressions |
| Special kernels (`runtime/special-kernels`) | none | fork, join, duplicate, repeat, tail, init, end | order of the ports, offsets | SpecialKernels, SRDAGRuntime |
| Architecture model (`archi`) | PEs, clusters, buses | construction, enabling of PEs | none of it at run time | constants of Mapper |
| Exporters, monitor, loggers | none | output | none | not modelled |

How they interact: `spider::run` calls `execute` of the context's algorithm. The
algorithm broadcasts a start, has the resolved firings (PiSDF) or the transformed
vertices (SRDAG) ordered by a scheduler, and the resources allocator maps each task,
gives its fifos addresses and sends it as a job; then the algorithm broadcasts the
end, runs the GRT's own runner until its jobs are done, waits at the barrier, reads
the parameters that configuration actors sent, resolves or transforms the graphs
they configure and starts the next round, or resets (static) or clears (dynamic) the
runners. A runner that finishes a job sends its *stamp* (the index of the job on its
LRT) to the LRTs named by the synchronisation flags of the job; a job waits, per LRT,
for one stamp. It allocates the physical buffers of what it writes and gives up those
of what it has read.

What makes each part correct:

- runners and GRT together: every call of `execute` fires every task of the graph
  once, after the tasks it depends on, and returns;
- runner: a stamp it holds is never ahead of the LRT it is about; no notification
  finds it in a state in which it would be dropped, pushed back or throw;
- platform: the barrier returns only when the round is over for everybody;
- communicator: a message is read once, by the LRT it was sent to, in order;
- allocator and mapper: the jobs sent are the ones the mapping defines, in the order
  of their indices, and wait only for jobs sent before them; the times form a schedule;
- schedulers: an order in which sources come first, and no task kept back for nothing;
- memory: what a task reads is at the address where its producer wrote it; a buffer
  lives until its last reader is done, and is freed once; live blocks never overlap;
- numerical analysis: the repetition vector balances every edge, and the producers
  of a firing are the ones that following each token gives;
- transformations: the single-rate graph, optimised or not, gives every firing the
  tokens it has in the application;
- handlers: the GRT waits for the parameters that are sent, and the rates used are
  those of this execution's parameters;
- graphs: the two directions of every link agree, and splitting a graph changes no
  data path; expressions: the value is that of the text.

The hazards, each at its line and with the properties that would reveal it, are in
`PROJECT.json`.

## 2. Modules

Each indented module EXTENDS the one above it.

    TaskLauncher              what the GRT computes about a task (operators)
      +- RTCommunicator         the queues and the threads that push into them
      |    +- JITMSRTRunner       the runner of a LRT
      |         +- JITMSRuntime     run(), the algorithms and the platform, composed
      |              |                with the runners; INSTANCE DataflowExecution
      |              +- MCStatic, MCDynamic, MCTwoLRTs
      |              +- RoundProofs     types; rounds, protocol, barrier
      |              |    +- PrecedenceProofs   stamps, refinement, parameters
      |              +- JITMSMemory     the buffers, composed with the runtime
      |                   +- MCMemory
      |                   +- MemoryProofs     uses, updates (with PrecedenceProofs)
      +- Mapper                 mapImpl and the two findPE (operators)
      |    +- ResourcesAllocator  the schedule-map-launch loops over the task objects
      |         +- Delivery         jobs and parameters through the shared slots
      |         |    +- MCResources
      |         |    +- DeliveryProofs     (with ResourcesAllocatorProofs)
      |         +- ResourcesAllocatorProofs   (with TaskLauncherProofs)
      +- TaskLauncherProofs
    DataflowExecution         abstract: what one call of execute() promises

    RepetitionVector          brv::compute (operators)
      +- Dependencies           exec and cons dependencies, resolution of the firings
           +- PiSDFSchedulers     the list and greedy schedulers, round by round
           |    +- PiSDFFifos       the fifos and addresses given to the tasks
           |         +- MCSchedulers
           +- SingleRateTransformation   (with SRDAG, Optimizations, SpecialKernels)
                +- SRDAGRuntime     the phases of the single-rate runtimes
                     +- MCSingleRate
    SRDAG                     the single-rate graph (operators)
      +- Optimizations          the eight passes of optims::optimize (operators)
    SpecialKernels            what the special actors do to tokens (operators)

    GraphHandlers             resolution of dynamic graphs       +- MCHandlers
      +- GraphHandlersProofs    parameters counted, rates fresh
    PiSDFGraphs               construction, edition and split    +- MCGraphs
    Expressions               the expression parser              +- MCExpressions
    Heap                      abstract: disjoint live blocks
    MemoryStacks              stacks and policies, INSTANCE Heap +- MCStacks
      +- MemoryStacksProofs     free lists, blocks, refinement of Heap

### The runtime

**TaskLauncher** defines, from a mapping of tasks to LRTs, the index of the job of a
task (`JobExecIx`), its constraints (`ExecConstraints`: per LRT, the last scheduled
source) and the LRTs it notifies (`NotificationFlags`). A task is its index in the
schedule.

**RTCommunicator** has one FIFO per LRT and one for parameters, and an `outbox` per
thread: a loop over the LRTs is a *batch* in the outbox, pushed one notification at
a time (`Push`), and the thread does nothing else before its outbox is empty. So
between the pushes of one broadcast all the other threads run.

**JITMSRTRunner** has one action per notification type (`ReadStart`, `ReadEnd`,
...), and one per branch of `run()`: nothing more to read, job started, job that
waits, no job, job ended, iteration finished or not. Labels of `pc`: `Read`
(readNotification), `Check` (isJobRunnable), `Kernel` (the kernel runs), `Finish` (the
test of the end of the iteration), `Stopped`, `Thrown` (an exception left the
thread). `done` is a history variable: the tasks executed since `execute()` was called.

**JITMSRuntime** adds the application's thread. It shares the runner actions of the
GRT's own LRT and has labels of its own: `App` (outside `run()`), `Execute`,
`Launch`, `Wait` (barrier), `Params`, `Join`, `Exited`. `CallRun`, `RunReturns`,
`Quit` and `Join` are `api/spider.cpp` and the destructor of the platform;
`Execute`, `NextRound`, `EndExecute` are the algorithms; `LaunchTask` and `EndLaunch`
the sending of a round; `LeaveRun`, `ReadFinished`, `WaitFinished`, `SetAside`,
`EndWait` the barrier; `ReadParam` the parameters; `Interrupt` the SIGINT handler.

**DataflowExecution** is the abstract specification: a context is executed, each of
its tasks fires once when the tasks it depends on have fired, and the call returns.
`ImplementsDataflow` maps `active` to the context between `Execute` and
`EndExecute`, `firing` to the jobs whose kernel runs and `fired` to `done`.

**JITMSMemory** conjoins the runtime's actions with what they do to the buffers:
`MemoryStartJob` allocates the outputs of a job (`Acquired`) and `MemoryEndJob` gives up
its inputs (`Released`) before its stamp is sent. The use count of a buffer is the
number of its readers, or one when their graph is not resolved (`Dynamic`); then
`UpdateCount` sends the rest at the start of a later round, in two notifications
that the runner of the writer reads (`ReadUpdateAddress`, `ReadUpdateCount`). The
outputs of a fork or a duplicate are in the buffer of its input (`AddressOf`). A FIFO is
a number, greater than any count of readers, and names the buffer in the first of the two
notifications; in the code both carry an integer in the same field, an address and a count.

### Scheduling, mapping and sending

**Mapper** chooses the PE of a task, given the minimum start time that its sources set:
`BestFit` keeps the PE that ends the task first, `RoundRobin` takes the next one.
**ResourcesAllocator** models `execute()` of the resources
allocator: the attributes of the task objects (mapped LRT, job index, synchronisation
indices, state), the job count and times of each PE, the mapping loop and the launching
loop, under the policies chosen when the allocator is built. The firings of a vertex
share one object whose getters go through a cursor; `ConstraintScan` follows where
`buildExecConstraints` leaves it. `MessagesFaithful` says that the messages it builds
are the ones TaskLauncher defines, which is what JITMSRTRunner starts from.

**Delivery** takes those messages to the runners: a push of a message takes a free slot
of the `IndexedQueue` that all threads share, the notification carries the slot's index,
and the receiver empties the slot before it may be used again; parameters come back the
same way. Each push and pop is a step, so the slots of several LRTs and of both
directions are recycled in every order.

**PiSDFSchedulers** has the two schedulers of hierarchical graphs as operators on
their state, and two actions: a round (`Execute`: sort, level, keep back, add to the
schedule) and the resolution of a firing of a graph, in any order. **PiSDFFifos** adds to
each round what the launcher and `PiSDFFifoAllocator` do for the tasks of the schedule:
one fifo per edge with address, offset, size, count and attribute, merges of several
producers, forks and duplicates that pass parts of their input on, and the
completion of the counts when graphs are resolved.

**RepetitionVector** and **Dependencies** are pure algorithms: `brv::compute` with its
rationals per connected component, and the recursive walks of
`execDependenciesImpl.h` and `consDependenciesImpl.h` through delays, setters, getters,
interfaces and subgraphs. The reference they are checked against (`Producer`) follows one
token at a time.

### The single-rate runtimes

**SRDAG** is the graph as a record of ordered vertices and edges, with the swaps of
`removeVertex` and `removeEdge`. **SingleRateTransformation** takes one job (the firing
of a graph) at a time: clones, linking (`Link` pops the lists of producers and consumers
from their ends, inserting forks and joins), interfaces that become repeats and tails, and
delays, which disappear between their setters and getters. **Optimizations** has the eight passes in their order and their fixpoints.
**SpecialKernels** says which tokens a special actor writes. `TokensOn` reads the tokens
of an edge through them, so `TokensInOrder` compares the meaning of the graph, not its shape.

**SRDAGRuntime** composes these into an iteration of `StaticRuntime` (all jobs, then
run) or `SRDAGJITMSRuntime` (dynamic and static jobs in phases, optimisations and a run
between them): schedule (list or greedy scheduler of single-rate graphs), addresses
(`SRDAGFifoAllocator`, with the reserved memory of persistent delays), and execution of
the tasks on a virtual memory whose cells hold tokens, down to what a persistent delay
keeps for the next iteration.
Tasks run in the order of the schedule, except that the runner of one INIT may be late:
the INIT and all that reads from it then come after the other tasks of the run (`Orders`).

### Graphs, handlers, expressions, memory

**PiSDFGraphs** keeps each pointer and cached index of `Graph`, `Vertex`, `Edge` and
`Delay` as a field of its own; actions create and remove actors, edges and delays
(local or persistent) through the API, then split (`separateRunGraphFromInit`).
**GraphHandlers** names a firing by its path, and the state is the tree of the firings;
`Execute` is a round of `PiSDFJITMSRuntime::dynamicExecute`, which launches the
configuration actors of resolved firings and counts the parameters to come,
`ReceiveParam` is `setParamValue`, and `EndExecution` the `clear` before the next call.
`ResolveBRV` goes down the handlers as the code does, by levels: what it resolves below a
firing (`Resolved`) depends only on what is above, so it is computed from the tree as it
was, and the handlers destroyed and made again (`Remade`) all together.
**Expressions** is the parser as seen by the writer of a formula: one action composes a
larger formula, writes it with the parentheses it needs and constructs the expression;
values are symbolic, so two formulas have equal values only when they are the same.
**MemoryStacks** has one action for each way out of `allocate`, the frees and the change of
policy, on byte addresses; **Heap** is what every policy must implement. A buffer or a
`malloc` is in a *slot* of the address space. A node of a free list is an address and a
size, its links are the order of the list; sizes are subtracted modulo `Word`, and
`scale` is what `createExtraBuffer` doubles at each extra buffer.

### Abstractions

- A PE is its LRT: a PE starts as its own LRT and `attachPEToLRT` never changes it
  (`archi/PE.h:68`). There is one cluster, so no synchronisation tasks.
- The notification queue is atomic. `try_pop` tests `empty()` before it locks
  (`thread/Queue.h:98`), but only the owner of a queue pops, so a stale "empty" is an
  "empty" from before the push. With two consumers it would block on an empty queue.
- In JITMSRTRunner a message stays with its notification; Delivery has the slots, and
  leaves out the other notifications.
- `RunMode::INFINITE` is a `LOOP` with a large count.
- The GRT expects, in each round of JITMSRuntime, what the configuration tasks of that
  round set; GraphHandlers establishes it (`CountMatches`, proved) for nested graphs.
- Notification types that no code sends (pause, resume, clear queue, broadcast
  stamp, disable repeat) and traces are left out.
- The core takes the mapping as a constant; ResourcesAllocator has every choice of the
  two mappers, PiSDFSchedulers and SRDAGRuntime the schedules, which satisfy the
  topological order that `TaskAssumption` assumes.
- Addresses are virtual in PiSDFFifos and SRDAGRuntime, physical buffers are in
  JITMSMemory. External buffers are left out.
- Names and expressions of rates are left out of PiSDFGraphs; rates are chosen from
  small sets in the MC modules, and those of the edge of an interface agree with the
  edge outside.
- `std::sort` is a stable sort; the properties do not use the order of equal elements.
- `malloc` returns any free slot and does not fail.
- The state SKIPPED is tested by the code but never set.

## 3. Runs

| run | what it shows | bounds |
|---|---|---|
| `static_repeat` | a static context looped three times on three LRTs: jobs are sent once and repeated; the stamps, the barrier, the protocol and the refinement (safety) hold in every interleaving | 6 tasks, each with sources on both other LRTs; 163 321 states |
| `dynamic_rounds` | a dynamic context of three rounds called twice on three LRTs: precedence across rounds | SRDAG runtime, one actor that sets two parameters; 2.1 million states, about 90 s |
| `dynamic_liveness` | on two LRTs, DELAYED policy, SIGINT at any time: the refinement with liveness, the parameters, and every call returns | PiSDF runtime, two configuration actors; 14 355 states |
| `buffers` | buffers with several readers, a fork, a sink and readers in a later round on the LRT of the writer: each lives until its last reader is done, is freed once, and none is left after the call | 6 tasks, 5 FIFOs on three LRTs, two calls; 1.4 million states, about 90 s |
| `late_count` | a disagreement, section 5 | the same with a reader on another LRT |
| `resources` | both policies and both mappers, every choice of mappable PEs and timings of 6 tasks on 4 PEs (one disabled): messages are faithful, in order and delivered once, jobs wait for earlier jobs only, the times are those of a schedule | two vectorised vertices, a join, a second round, two configuration jobs; 899 746 states, about 110 s |
| `stacks` | the four policies behind two stacks, policies changed at any time: live blocks are disjoint, the free list names free memory | 6 calls, buffers of 192 and 128 bytes, 3 slots of address space; 189 927 states |
| `handlers` | two executions of a dynamic graph, repeated, in a dynamic graph: counts of parameters, fresh rates, every execution ends | two parameter values, repetition value given by a parameter; 1 049 states |
| `schedulers` | repetition vector, dependencies, orders and fifos on hierarchical graphs | three applications, all choices of rates, delays of 3; 1 366 states, about 140 s |
| `graphs` | every subgraph of up to three vertices built, edited once and split | five kinds of actors; 676 061 states, about 100 s |
| `expressions` | every formula of up to three operations, out of twelve | two numbers, one static and two dynamic parameters; 30 684 states, about 100 s |
| `single_rate` | one iteration of the single-rate runtimes, both schedulers, optimised or not | five applications, rates from small sets, 3 persistent delays; 8 052 states, about 50 s |

Why the bounds are enough for the cases that matter. Runtime: three LRTs are the fewest
with a job that waits for two LRTs while a third is still reading the start; three
executions are the fewest in which a runner repeats jobs it has already repeated;
three rounds contain one with a configuration task, one of the graph it configures
and one of a static subgraph of that graph, in which the GRT expects no parameter; two
calls show what one call leaves to the next. `resources`: the allocator meets sources on
the same and on other LRTs, sinks that are mapped and sinks that are not, a PE that
may not be used, and slots that are recycled between LRTs. `stacks`: six calls split a
block, free two neighbours in both orders, fill the buffer and open extra buffers. `schedulers` and `single_rate`: rates of which one divides the other, both ways,
and rates that do not divide; delays shorter and longer than what a firing reads; a
delay whose setter and getter are interfaces; two levels of subgraphs; the properties
compare tokens, so a position off by one shows with two tokens. `graphs`: three
vertices have a configuration actor, what it feeds and what feeds that. `expressions`:
with three operations every pair of precedences meets on both sides, and in an argument.

Deadlock is checked in the runs of the runtime, whose only state that goes nowhere is
the one after `quit()` (`Terminated`), and in `resources`, which clears and starts again;
the other systems stop when their calls, edits or rounds are used up.

Fairness of the runtime is weak fairness of each thread (`RunnerStep(r)`, `GRTStep`): the
operating system runs every thread, and a thread's blocking pop returns once something
is in its queue. Nothing is assumed of the application, which need not call `run()` again
nor `quit()`, nor of SIGINT. In GraphHandlers it is weak fairness of
`Execute \/ ReceiveParam`: the loop of `dynamicExecute` does not stop by itself, and
configuration jobs, once launched, send their parameters (`CallsReturn`).

Each property of a passing run has a mutant (operators named `X_Something`, next to
`X`), a plausible slip in the code it models, that makes TLC find it violated.

## 4. Proofs

Every theorem is for any number of LRTs and PEs, any graph, mapping, timing and
number of rounds and calls, from the named assumptions of the modules: the schedule is
a topological order, a round depends on no later round, the mapping is total, a
parameter belongs to one graph, the sets are finite. What a theorem asks besides is a
hypothesis of its own, named in the module that needs it; each holds on the instances
of the passing runs it is about, and each is where a disagreement of section 5 begins:

| hypothesis | says | needed by | without it |
|---|---|---|---|
| `SupportedUse` | a static context is alone on its platform, and is called once or runs in `EXTERN_LOOP` | RoundProofs, PrecedenceProofs, MemoryProofs | `MCStaticThenDynamic.cfg`, `MCStaticTwice.cfg` |
| `NoLateStart` | a LRT that runs tasks of a context runs one in its first round | `StampsAlwaysSound`, `PrecedenceAlwaysRespected`, `RuntimeRefinesDataflow`, MemoryProofs | `MCIdleLRT.cfg` |
| `ReadersAtHome` | the readers of a buffer that are counted later run on the LRT of its writer | MemoryProofs | the run `late_count` |
| `NoLostUses` | every output of a fork is read, and every buffer whose readers are counted later has one | `NothingAlwaysLeft` | `MCMemory.cfg` with `UnusedReaders` |
| `OwnParams` | no parameter is set by two configuration tasks; under the single-rate runtime, a graph has one of them | `ParamsAlwaysMatched` | the count of `SRDAGJITMSRuntime` (row of `MCTwoParams.cfg`) |
| `NoOwnDeps` | no firing depends on another firing of its vertex | the theorems on messages of ResourcesAllocatorProofs, DeliveryProofs | `MCResources.cfg` with `MCStatefulDeps` |
| `LinearInBounds` | the linear policies are not asked for more than they have | MemoryStacksProofs | `MCStacks.cfg`, 7 calls |
| `SplitsLeaveNodes` | no call leaves less than a Node of the node or extra buffer it cuts | MemoryStacksProofs | `MCStacks.cfg` with `AllButWord`, or `OddWords` |

### The runtime

`RoundProofs!TypeCorrectness`: `TypeOK` is its own inductive invariant because
it carries what the steps need: the position of a runner is at most the length of its
job queue, and strictly less while a kernel runs, batches go to existing queues, and
`loopsLeft > 0` while the GRT executes.

`RoundProofs!RoundInvariant`: `RoundInv`, from which follow `ProtocolRespected`,
`BarrierSound`, `IterationComplete` and `FiresOnce`. None of them is inductive: each is
about a runner, and what the runner does next is in a queue. `RoundInv` describes, for
each LRT, `Coming(r)`: the notifications of the GRT in the LRT's queue and those that the
GRT's own thread has still to push there. Its parts:

- `SentInOrder`: `Coming(r)` is in the order of the protocol (reset, start, jobs, end), in
  spite of the stamps between them, and only the GRT sends it;
- `PhaseInv`: it agrees with the label of the GRT (nothing of a round before the
  start is sent, an end once the launch is over) and with the flags of the runner (a
  runner that has received its end has nothing more to come);
- `JobsInv`: the jobs of the round on a LRT are those in its queue of jobs or still to
  come, each once and in order, and those before its position are the ones done; when
  jobs are repeated, they are the ones it kept;
- `BarrierInv`: a finished notification of a LRT is on its way to the GRT exactly when the
  LRT has closed the round and the GRT has not counted it, and the number that
  `waitForRunnersToFinish` waits for is the number of those to come.

`PrecedenceProofs!StampInvariant`: every stamp that a runner holds, or that is in a
queue, an outbox or among the notifications set aside at the barrier, is true of this
execution (`TrueStamp`: the jobs up to it are done), or the runner reads a reset
before it compares with it. A stamp sent late in one execution is thus harmless in the
next. `StampsAlwaysSound` follows, and with it `PrecedenceAlwaysRespected`, by
`RoundProofs!SoundStampsGivePrecedence`: one stamp per LRT is enough, because a
dependency is the task's constraint on its LRT or an earlier job there
(`TaskLauncherProofs!ConstraintsCoverDeps`).

`PrecedenceProofs!RuntimeRefinesDataflow`: the runtime implements the safety part of
DataflowExecution. A step is an `Execute`, an `EndExecute`, a `StartJob`, an `EndJob`, or
changes nothing that the abstraction sees (`StepKinds`); the four are the steps of the
abstract specification, the guards of which are `FiresOnce`, `PrecedenceRespected` and
`IterationComplete` at the moment of the step.

`PrecedenceProofs!ParamsAlwaysMatched`: the messages of parameters in flight and read are
as many as the configuration tasks of the round that are done (`ParamInv`). Between the
barrier and the last parameter read, all of them are done and none is in an outbox, so
when the GRT has read as many as it waits for, nothing is left for a later round.

### The buffers

`MemoryProofs!MemoryInvariant`: `MemoryInv` is `RoundInv` and `StampInv` together with
what the memory side of the jobs keeps true. The properties of JITMSMemory are not
inductive: a count is shared by jobs of several LRTs, and is incomplete while an update of
it is on its way. The parts that matter:

- `LedgerInv`: while the buffer is in use, its count is the number of its `Claims`, the uses
  that somebody holds. A reader that is known holds a use until it is done. The writer of
  a FIFO whose readers are counted later holds one in their place (`Uncounted`), until
  the update is applied; an output that nobody reads is held by its writer. A job that
  starts adds the claims on its outputs, a job that ends removes those on its inputs, and
  an update replaces the claim of the writer by those of the readers: each changes the
  count by as much as the code does.
- `TravelInv`: an update is two notifications with nothing between them in the queue of
  its reader, and is sent once. Other runners push into the same queue, but one
  that has something to push has run a job of the round or closed it (`BusyInv`), and
  updates are sent after the start of a round and before its jobs (`UpdatesInTime`).
- `DynamicInv`: the writer of a FIFO that is still to be updated has been launched, and its
  readers are in later rounds, or in this one before its jobs are sent. With
  `ReadersAtHome` the queue of the runner then orders the update before every reader.

The precedence of jobs is used where a count falls: a job that ends was started with all
its dependencies done, so it holds a claim on each of its inputs, and the writer of
the buffer it borrows has begun. From the invariant follow `CountsExact` (freed by the last
use and only once), `KeptForReaders`, `BuffersLive` (a kernel reads and writes
allocated buffers only), `UpdateUninterrupted` and, with `NoLostUses`, `NothingLeft`. The
hypotheses of `BuffersAlwaysLive` are where its counterexample, `late_count`, starts.

### The resources allocator and the delivery of jobs

`BestFitSoonest` and `RoundRobinNext`, in ResourcesAllocatorProofs, say what the two loops
of `findPE` choose, for any number of PEs. They are recursive functions: where an induction on the turns is needed, the
set of the turns that fail has a least element, which is refuted (`TurnInduction`).

`ResourcesAllocatorProofs!MapInvariant`: the two loops have passed a prefix of the
schedule, the jobs of a LRT are numbered without a hole in the order of the schedule,
a task's synchronisation index names the last of its sources on each LRT, and the times of
a PE bound those of its tasks. It gives `ScheduleFeasible` and the action property
`MappedWell` (`WellMapped`).

`ResourcesAllocatorProofs!LaunchInvariant` adds what was sent: `JobsInOrder`, `WaitsBackward` and
`MessagesFaithful` follow. The task objects are shared by the firings of a vertex
and read through a cursor, which the scan of the constraints moves; `NoOwnDeps` is
what makes the scan leave the cursor of the launched task where it was.
`MessagesFaithful` is the link to the runtime's theorems, which start from the messages
that TaskLauncher defines.

`DeliveryProofs!DeliveryInvariant`: each slot of the shared queues is free, or holds the
message of one task on its way to one reader: at one place among the free indices, the
batches of the senders, the queues of the readers and the slots being emptied. The
invariant states it with the sequences of all the places having no element in common
(`Apart`). `MessagesReachTheirReader` (`MessagesDelivered`) follows.
`DeliveryRunsAllocator` shows that the composed system is an allocator, so that what
is proved of the messages holds of it (`DeliveredJobs`).

### The stacks

`MemoryStacksProofs!StacksInvariant`: `FreeListSound`, `BlocksOwned` and the refinement of Heap
are not inductive. A split node stays apart from the blocks only if the nodes and blocks
of all the other stacks are in other buffers; a policy is replaced after a test of its
usage alone, which says that no block is left only if the usage is what the live blocks
add up to. `Inv` adds:

- `OwnSlots`: no two buffers, of a stack or of two, have the same slot;
- `BlocksPlaced`: where a block is, by the policy of its stack: a slot that no buffer has, the
  part of the linear buffer below its usage, or a buffer of the free list;
- `BlocksApart`: no two live blocks share a byte;
- `ListsSound`: the nodes are in the buffers, apart from each other and from all blocks;
- `Accounts`: the usage of a stack is the number of bytes of its live blocks (`Ledger`, which
  counts the addresses that the blocks cover: blocks are disjoint, so a block adds and
  removes as many as its size), and the usage of its policy is the same, except that a
  linear policy does not count what it gets back.

The lemmas on lists (`Splice...`, `Split...`, `GiveBack...`) say that a split, a merge with either
neighbour and a removal keep a list sound, by what the new list has at each index.
`StacksImplementHeap` is then one step of Heap per action. `NoFreeRefused`: the tests of `deallocate`
(`BadFree`: something is in use, and the address is in a buffer) never refuse a block that
was handed out, which follows from `Accounts` and `BlocksPlaced`.

The policies do not check all that this needs, so the theorems have two hypotheses,
`LinearInBounds` and `SplitsLeaveNodes` (section 5 has a run without each). They are about
what an application asks for, hold in every state of the run `stacks`, and are not
circular: `SplitsLeaveNodes` is about the node that the next call would find. `FittingStacks`
proves both from the constants: whole Nodes for what is asked of free lists (`SizesFit`), a
linear buffer large enough for all calls (`LinearFits`). `SizedStacksImplementHeap` has no
other hypothesis; `WholeNodes` in MCStacks is an instance (1 076 783 states, all the
properties hold).

### The handlers of dynamic graphs

`GraphHandlersProofs!HandlersInvariant`, for every hierarchy of graphs, from `GraphAssumption`: a
graph with configuration actors holds only its run graph, which has none (what
`recursiveSplitDynamicGraph` makes), and a rate depends on a parameter of a graph above.
The GRT counts the parameters of the firings that are *not* resolved, and the messages
come from the configuration actors of those that *are*: neither `CountMatches` nor
`DynamicRatesFresh` is inductive without what ties the two. `IInv` adds:

- `TreeOK`, `RunsThere`: with a firing, the tree has the one it is in, the first one of its
  handler, and its run graph, alone, if it has parameters;
- `StaticResolved`, `DynamicResolved`: a firing beside no configuration actor is always
  resolved; one of a run graph, exactly when the last parameter of the firing above came;
- `LaunchedOK`, `ReceivedOrSent`: the firings whose configuration actors ran are still there
  and reached, and each of their parameters was received or is on its way.

So the firings that are not resolved are the run graphs of those just launched, one each
(`WaitedForIsSent`), and `ParamsCounted` follows by counting. The hard step is the last
parameter of a firing: the resolution destroys handlers and makes others, any number of
levels down. `DueFacts` and `MadeFacts` say by induction on the levels what is resolved and
made, `KeptFacts` that what stays is closed upwards, `ResolutionSettles` that the parts of
`IInv` hold again below, and `ReceiveShape` that nothing else has changed. `DynamicRatesAreFresh`
needs one more thing: a parameter that arrives is never above a resolved firing of a run
graph that is reached (`ReachedThrough`), so the rates already computed stay right.
It says nothing of static graphs inside a run graph, for which the property is false
(`stale_rates`).

### Model-checked and not proved

- Liveness (`ImplementsDataflow` as a whole, `CallsReturn`): outside the prover.
- `ExecutionsEnd` of GraphHandlers: liveness too.
- Dependencies, PiSDFSchedulers, PiSDFFifos, Expressions and the single-rate modules:
  recursive over the data, with RECURSIVE operators, which the prover cannot do.
- PiSDFGraphs: its edits are folds over lists of edges and vertices, and what a fold
  computes needs an induction with an operator as parameter.

## 5. Disagreements between the code and its documentation

The run `late_count`: a buffer whose readers are in an unresolved graph starts with one
use. Nothing orders the reading of the update by its writer's runner before the readers on
other LRTs, so the first of two readers can free the buffer under the second. The
run `buffers` has such readers on the writer's LRT, whose queue orders the two.

The others are replayed on the side of a boundary where the passing runs are not: TLC
finds the property violated, on the smallest instance that shows it. Four have a
configuration of their own, beside the runs, for the module MCTwoLRTs:

| configuration | property | what happens |
|---|---|---|
| `MCIdleLRT.cfg` | `PrecedenceRespected` | `lastJobStamp_` is 0 before a runner has run anything (`runtime/runner/RTRunner.h:94`), and 0 is also the stamp of a first job. A LRT idle in the first round of a dynamic context broadcasts stamp 0, and a job of the second round that waits for its job 0 starts too early. |
| `MCStaticThenDynamic.cfg` | `FiresOnce` | the repeat mode a static context switches on is never switched off, so the rounds of a dynamic context on the same platform execute the jobs of earlier rounds again. |
| `MCStaticTwice.cfg` | `IterationComplete` | at the end of a `LOOP` call `run()` clears the runners, and the second call on the same static context relies on the jobs they no longer have: it executes nothing and returns. |
| `MCTwoParams.cfg` | `CallsReturn` | `PiSDFJITMSRuntime` waits for one message per dynamic parameter of a graph, but a configuration actor sends all its parameters in one. An actor with two output parameters leaves the GRT waiting for ever. `SRDAGJITMSRuntime` counts one message per dynamic graph: right for that actor, too few for two actors in a graph. |

and eight change a run's configuration, the property alone being checked:

| configuration | changed to | property | what happens |
|---|---|---|---|
| `MCResources.cfg` | `Deps <- MCStatefulDeps` | `JobsInOrder` | when a firing depends on an earlier firing of its own vertex (a self-loop with a delay), `buildExecConstraints` moves the cursor of the task being sent, and the job goes to the LRT of its source. |
| `MCMemory.cfg` | `Readers <- UnusedReaders` | `NothingLeft` | the output of a fork that nobody reads adds a use that nobody gives up, and `collect()`, documented to free what is left, frees negative counts only. |
| `MCSchedulers.cfg` | `Roots <- Chain`, `Policies <- List` | `ConsumersFound` | the list scheduler marks the consumers of an unresolved graph through the index of their task (`PiSDFListScheduler.cpp:155`), before the consumers in a later subgraph have been listed: it indexes the vector out of bounds. |
| `MCSchedulers.cfg` | `Roots <- Late` | `ExecExact` | with a delay on the edge of an output interface, the dependency analysis names other producers than following each token does, and than the single-rate transformation links. |
| `MCGraphs.cfg` | `Kinds <- ConfigsOnly`, `MaxVertices = 2`, `ConfigLoopDelays = TRUE` | `EdgesLocal` | on a delayed loop of a configuration actor, the split counts interfaces with one test and moves the edge with another (`pisdf-helper.cpp:353`); the edge crosses graphs. |
| `MCSingleRate.cfg` | `Roots <- Lost`, `Dynamic <- Lost` | `ExecutedAsWritten` | `reduceJoinFork` runs again on a graph of which a part has been executed (`optimizations.cpp:350`), removes an edge and makes another without the address its source wrote to: the sink reads garbage. |
| `MCStacks.cfg` | `Request <- AllButWord` | `FreeListSound`, `SplitsLeaveNodes` | `createExtraBuffer` gives its node 16 bytes less than the buffer (`FreeListAllocatorPolicy.cpp:217`), and takes the block from it without looking: a block that fills the buffer makes `leftOverMemory` wrap round (`:130`), and a node of almost 2^64 bytes is linked, which any later request is cut from. |
| `MCStacks.cfg` | `Request <- OddWords`, `Alignment = 8` (the default) | `FreeListSound`, `SplitsLeaveNodes` | a split leaves 8 bytes, in which a Node of 16 is written: its link is on whatever follows. |

Further ones appear with one line of a configuration or of a property changed:
`EndsKnowTheirDelay` as an invariant of `MCSingleRate.cfg` (the ENDs that
`reduceJoinEnd` puts in place of a join have a reference without input edge, which
`buildEndRuntimeInputParameters`, `srdag-helper.cpp:221`, follows to the delay);
`ExecutedAsWritten` without `Overwritten` (nothing orders the END of a persistent delay after
its INIT, `specialKernels.cpp:186`, unless the delay is on a loop: on several runners, or
when the optimisations have shuffled the vertices under the greedy scheduler, the INIT
reads the tokens of this iteration); `CallsRead` in `MCExpressions.cfg` with
`Operations = {"log2", "log10"}` (a name that ends with two digits gets a product
inside, so `log10` is refused);
`LinearInBounds` in `MCStacks.cfg` with `Stack = {"SCHEDULE"}` and `MaxCalls = 7` (a request
is compared with the size of the buffer, not with what is left); `RatesFresh` in
`MCHandlers.cfg` (static subgraphs of a run graph keep the rates of the first
execution); `UsesExact` without its condition on `KnownIn` (a buffer with one
reader known and another in an unresolved graph keeps the count of the first).

Met while reading, outside what the modules run:

- Architecture and timing: `archi/Platform.cpp:86` never advances the index it gives the
  PEs; `RTInfo` sizes its timings by the number of distinct hardware types and indexes them
  by type; `Stats::makespan` subtracts the end from the start; `thread/Queue.h:98` is safe
  with one consumer only.
- FIFOs: a void dependency after a single one overwrites the fifo; a use count of -1 is
  added to the getter's; a dynamic buffer whose readers turn out to be none keeps one use;
  room for all the firings of a vertex is reserved at each firing; a fork that feeds an
  external interface never copies to its buffer.
- Single-rate graphs: the list scheduler leaves in a kept-back vertex its place in the
  sorted vector, which `SRDAGTask::nextTask` reads as a place in the schedule (harmless:
  a phase ends with a broadcast) and which keeps the vertex from being optimised later;
  `optimizeUnitaryVertex` does not test whether the vertex has run; ports of rate zero are
  counted differently by the passes; `connectForkOrJoin` keeps a reference into a vector it
  grows (`singleRateTransformation.cpp:345`).
- Numerical analysis and schedulers: rates of zero refuse some consistent graphs and give
  negative firings; execution times of zero give a source and its sink one level; the
  comparator of the sort is not a strict weak order; `countNonSchedulableTasks` reads a
  level before it tests for the end.
- Expressions: `max(1,-2)` and `if(c,1,-2)` are refused, `3!==4` is read as a `!=`, `x(2)` is
  accepted, `%` and `^` associate differently than documented, copies omit the hash.
- Graphs: moving a third subgraph corrupts the viewer (`graphs/pisdf/Graph.cpp:240`), removing
  the last parameter reads out of bounds (`:301`), a constructor of `Edge` that throws
  leaves its source connected, removing a delayed edge leaves the delay with a dangling edge.
- Several clusters: the loop over synchronisation tasks (`scheduling/ResourcesAllocator.cpp:144`)
  does not end, `SyncTask` is cast to a task it is not, and its parameters outgrow their array.

## 6. Not modelled, and why

- Exporters, monitor, Gantt and loggers: pure output.
- Several clusters and synchronisation tasks: the path is unfinished in the source (above);
  a model of it would be a model of something else.
- Just-in-time expressions: they write a C file and load what a compiler makes of it.
- External buffers, repeated fifos of the PiSDF allocator: copies in user memory.
- Cloning of graphs, names, argument checks of the API: sequential, with nothing that the
  properties tell apart.
- `extra/variant.h` is vendored; `containers` wraps the standard library; `Semaphore` and
  `Barrier` are used by nothing in the runtime.

About a third of the lines of code of the library are translated by some definition
(37 % without the vendored header); licences, documentation comments and
blank lines are more than half of its text.

## 7. Plan

The modelling is done as far as the components above allow, and the runtime with its
buffers, the allocator of resources, the delivery, the memory stacks and the handlers of
dynamic graphs are proved. What is left is proof, of two kinds:

1. in PiSDFGraphs, that one edit keeps `IndicesSound`, for the edits that are not folds
   (`swap` on removal, the creation of an edge);
2. the modules that are recursive over the data, when a prover takes induction theorems
   with an operator as parameter.
