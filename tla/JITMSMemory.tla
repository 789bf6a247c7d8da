----------------------------- MODULE JITMSMemory -----------------------------
(***************************************************************************)
(* The buffers of the FIFOs, added to the runtime.  A job allocates the    *)
(* buffers it writes before its kernel runs and gives up the ones it read  *)
(* after; MemoryInterface frees a buffer when its use count reaches zero.  *)
(* PiSDFFifoAllocator sets that count to the number of readers, or to one  *)
(* when the readers are in a graph that is not resolved yet: the rest is   *)
(* sent later, as two MEM_UPDATE_COUNT notifications, to the LRT of the    *)
(* job that wrote the buffer.                                              *)
(*                                                                         *)
(* One cluster, so one MemoryInterface, which every LRT shares.  The sizes *)
(* of the buffers, the external buffers and the copy that a job makes for  *)
(* itself of several inputs (R_MERGE) are left out.                        *)
(***************************************************************************)
EXTENDS JITMSRuntime

CONSTANTS
    Fifo,       \* the output FIFOs: an output edge of a firing, by its number
    Source,     \* the task that writes a FIFO
    Readers,    \* the tasks that read it
    ForkTask,   \* the tasks of FORK and DUPLICATE vertices
    AddressOf,  \* the FIFO whose buffer a FIFO is in: itself, or the one a fork reads
    Dynamic     \* the FIFOs whose sink is not resolved when their source is launched

\* The numbers of the FIFOs are names: none is taken for a count of readers.
ASSUME FifoAssumption ==
    /\ Fifo \subseteq Nat /\ IsFiniteSet(Fifo) /\ None \notin Fifo
    /\ \A f \in Fifo : f > Cardinality(Task)
    /\ Source \in [Fifo -> Task]
    /\ Readers \in [Fifo -> SUBSET Task]
    /\ ForkTask \subseteq Task
    /\ AddressOf \in [Fifo -> Fifo]
    /\ Dynamic \subseteq Fifo
    /\ \A f \in Fifo :
          /\ \A t \in Readers[f] : Source[f] \in Deps[t]
          /\ f \in Dynamic => \A t \in Readers[f] : RoundOf[Source[f]] < RoundOf[t]
          /\ IF Source[f] \in ForkTask
             THEN \E g \in Fifo : Source[f] \in Readers[g] /\ AddressOf[f] = AddressOf[g]
             ELSE AddressOf[f] = f

VARIABLES
    buffers,            \* virtual2Phys_: use count of a buffer, and whether it is allocated
    dynamicBuffers,     \* FIFOs of this execution whose readers are not counted yet
    updating            \* the FIFO whose update a runner is reading, or None

memoryVars == <<buffers, dynamicBuffers, updating>>

MemoryInit ==
    /\ Init
    /\ buffers = [b \in Fifo |-> [count |-> 0, live |-> FALSE]]
    /\ dynamicBuffers = {}
    /\ updating = [r \in LRT |-> None]

-----------------------------------------------------------------------------
(* The FIFOs of a job                                                      *)

OutputsOf(t) == {f \in Fifo : Source[f] = t}
InputsOf(t) == {f \in Fifo : t \in Readers[f]}

\* The output of a fork is in the buffer of its input.
Borrowed(f) == Source[f] \in ForkTask

\* A FIFO that nobody will ever read.
IsSink(f) == Readers[f] = {} /\ f \notin Dynamic

\* Mutant: one use per FIFO, as SRDAGFifoAllocator sets it.
UsersOf_One(f) == {Source[f]}

\* The uses a FIFO starts with: one per reader, or one when the readers are not
\* known or there are none.
UsersOf(f) == IF f \in Dynamic \/ IsSink(f) THEN {Source[f]} ELSE Readers[f]

\* The uses that the FIFOs written by t add to a buffer.
UsesOn(t, b) ==
    {use \in Fifo \X Task : /\ Source[use[1]] = t /\ AddressOf[use[1]] = b
                            /\ use[2] \in UsersOf(use[1])}

\* getOutputBuffers: allocate the buffers of the job, add uses to the borrowed ones.
Acquired(t) ==
    [b \in Fifo |->
        LET new == Source[b] = t /\ ~Borrowed(b)
        IN  [count |-> (IF new THEN 0 ELSE buffers[b].count) + Cardinality(UsesOn(t, b)),
             live |-> new \/ buffers[b].live]]

\* The FIFOs a job gives up: those it read, and those it wrote for nobody.
GivenUp(t) == InputsOf(t) \cup {f \in OutputsOf(t) : IsSink(f) /\ ~Borrowed(f)}

\* MemoryInterface::deallocate, once per FIFO the job gives up.
Released(t) ==
    [b \in Fifo |->
        LET before == buffers[b].count
            after == before - Cardinality({f \in GivenUp(t) : AddressOf[f] = b})
        IN  [count |-> after,
             live |-> buffers[b].live /\ 0 \notin after .. before - 1]]

\* MemoryInterface::collect
Collected ==
    [b \in Fifo |-> IF buffers[b].count < 0 THEN [count |-> 0, live |-> FALSE]
                                            ELSE buffers[b]]

MemoryStartJob(r) ==
    /\ StartJob(r)
    /\ buffers' = Acquired(CurrentJob(r))
    /\ UNCHANGED <<grtVars, dynamicBuffers, updating>>

\* The buffers are given up before the stamp is sent.
MemoryEndJob(r) ==
    /\ EndJob(r)
    /\ buffers' = Released(CurrentJob(r))
    /\ UNCHANGED <<grtVars, dynamicBuffers, updating>>

MemoryReadClear(r) ==
    /\ updating[r] = None
    /\ ReadClear(r)
    /\ buffers' = Collected
    /\ UNCHANGED <<grtVars, dynamicBuffers, updating>>

-----------------------------------------------------------------------------
(* MEM_UPDATE_COUNT: the address, then the number of uses to add.  The     *)
(* first names the FIFO, whose address the code sends.                     *)

\* Mutant: add all the readers, although the writer already counted one use.
UsesToAdd_All(f) == Cardinality(Readers[f])

UsesToAdd(f) == Cardinality(Readers[f]) - 1

\* The graph of the readers has been resolved at the end of an earlier round.
Countable(f) == \E t \in Readers[f] : RoundOf[t] <= round

\* updateDynamicBuffersCount, before the jobs of a round are sent.
UpdateCount(f) ==
    /\ At("Launch")
    /\ f \in dynamicBuffers
    /\ Countable(f)
    /\ outbox' = [outbox EXCEPT ![GRTIx] =
           LET update(ix) == ToEach({MappedLRT[Source[f]]},
                                    Notify("MEM_UPDATE_COUNT", GRTIx, ix))
           IN  update(f) \o update(UsesToAdd(f))]
    /\ dynamicBuffers' = dynamicBuffers \ {f}
    /\ UNCHANGED <<queue, runnerVars, grtVars, buffers, updating>>

NothingToCount == \A f \in dynamicBuffers : ~Countable(f)

MemoryLaunchTask(t) ==
    /\ NothingToCount
    /\ LaunchTask(t)
    /\ dynamicBuffers' = dynamicBuffers \cup (OutputsOf(t) \cap Dynamic)
    /\ UNCHANGED <<buffers, updating>>

\* FifoAllocator::clear
MemoryEndExecute ==
    /\ EndExecute
    /\ dynamicBuffers' = {}
    /\ UNCHANGED <<buffers, updating>>

ReadUpdateAddress(r) ==
    /\ updating[r] = None
    /\ Received(r, "MEM_UPDATE_COUNT")
    /\ updating' = [updating EXCEPT ![r] = Head(queue[r]).notificationIx]
    /\ UNCHANGED <<runner, stamps, pc, grtVars, buffers, dynamicBuffers>>

\* What comes between the two notifications is pushed back.
ReadUpdateCount(r) ==
    /\ updating[r] # None
    /\ Reading(r)
    /\ queue[r] # << >>
    /\ IF Head(queue[r]).type = "MEM_UPDATE_COUNT"
       THEN /\ queue' = [queue EXCEPT ![r] = Tail(@)]
            /\ buffers' = [buffers EXCEPT ![AddressOf[updating[r]]].count =
                              @ + Head(queue[r]).notificationIx]
            /\ updating' = [updating EXCEPT ![r] = None]
       ELSE /\ queue' = [queue EXCEPT ![r] = Append(Tail(@), Head(@))]
            /\ UNCHANGED <<buffers, updating>>
    /\ UNCHANGED <<outbox, runnerVars, grtVars, dynamicBuffers>>

-----------------------------------------------------------------------------
\* The steps of a runner that concern no buffer.
OtherRunnerStep(r) ==
    /\ \/ Push(r) /\ UNCHANGED runnerVars
       \/ /\ updating[r] = None
          /\ \/ ReadStart(r) \/ ReadEnd(r) \/ ReadReset(r) \/ ReadRepeat(r)
             \/ ReadStop(r) \/ ReadJobAdd(r) \/ ReadDelayBroadcast(r)
             \/ ReadJobStamp(r) \/ NothingToRead(r)
       \/ WaitJob(r) \/ NoJob(r) \/ FinishIteration(r) \/ Continue(r)
    /\ UNCHANGED <<grtVars, memoryVars>>

\* The steps of the GRT and of the application that concern no buffer.
OtherGRTStep ==
    /\ \/ RunReturns \/ Execute \/ LeaveRun
       \/ EndLaunch /\ NothingToCount
       \/ ReadFinished /\ updating[GRTIx] = None
       \/ \E i \in LRT : WaitFinished(i)
       \/ SetAside \/ EndWait \/ ReadParam \/ NextRound \/ Join
       \/ \E c \in Context : CallRun(c)
       \/ Quit \/ Interrupt \/ Terminated
    /\ UNCHANGED memoryVars

MemoryNext ==
    \/ \E r \in LRT :
          \/ MemoryStartJob(r) \/ MemoryEndJob(r) \/ MemoryReadClear(r)
          \/ ReadUpdateAddress(r) \/ ReadUpdateCount(r)
          \/ OtherRunnerStep(r)
    \/ \E f \in Fifo : UpdateCount(f)
    \/ \E t \in Task : MemoryLaunchTask(t)
    \/ MemoryEndExecute
    \/ OtherGRTStep

MemorySpec == MemoryInit /\ [][MemoryNext]_<<vars, memoryVars>>

-----------------------------------------------------------------------------
(* Properties                                                              *)

\* While a kernel runs, no other thread frees a buffer it reads or writes, and
\* none was freed before it started.
BuffersLive ==
    \A r \in LRT : pc[r] = "Kernel" =>
        \A f \in InputsOf(CurrentJob(r)) \cup OutputsOf(CurrentJob(r)) :
            buffers[AddressOf[f]].live

\* A buffer that was written stays allocated until its last reader is done, be
\* it a reader of the output of a fork, and although the count may come late.
KeptForReaders ==
    \A f \in Fifo :
        executing /\ Source[f] \in done /\ Readers[f] \ done # {}
            => buffers[AddressOf[f]].live

\* A buffer is freed exactly when its count reaches zero, and no job gives up a
\* buffer that is not allocated: it is never freed twice.
CountsExact ==
    \A b \in Fifo : /\ buffers[b].count >= 0
                    /\ buffers[b].live <=> buffers[b].count > 0

\* The two halves of an update reach the runner next to each other, so the
\* loop that pushes other notifications back never has to.
UpdateUninterrupted ==
    \A r \in LRT : updating[r] # None /\ queue[r] # << >>
                       => Head(queue[r]).type = "MEM_UPDATE_COUNT"

\* Between two calls of execute(), once the runners have read the end of the
\* iteration and collected (the GRT does so in its next round), no buffer is
\* left allocated.
NothingLeft ==
    ~executing /\ Ready(GRTIx) /\ (\A r \in LRT \ {GRTIx} : queue[r] = << >>)
        => \A b \in Fifo : ~buffers[b].live
=============================================================================
