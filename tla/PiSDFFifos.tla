----------------------------- MODULE PiSDFFifos -----------------------------
(***************************************************************************)
(* Where the tasks read and write: the fifos that the launcher and         *)
(* PiSDFFifoAllocator give to each task of a round, in the order of the    *)
(* schedule, after the scheduler has added them.                           *)
(*                                                                         *)
(* An address names a buffer of the virtual memory; the runners allocate   *)
(* and free the physical one (JITMSMemory).  The number of firings that    *)
(* computeExecDependency counts for an input (edgeDepCount) is that of the *)
(* scheduler, computed in the same call.  External interfaces and several  *)
(* executions are left out.                                                *)
(***************************************************************************)
EXTENDS PiSDFSchedulers

VARIABLES
    nextAddress,    \* virtualMemoryAddress_
    allocated,      \* GraphAlloc: [address, offset] of the edges, by <<h, e, firing>>
    inputs,         \* JobFifos::inputFifos of the tasks, by <<task, edge>>
    outputs,        \* JobFifos::outputFifos, by <<task, edge>>
    dynamicBuffers, \* dynamicBuffers_: the <<task, edge>> whose readers are not known
    since           \* the round in which each graph firing was first resolved

fifoVars == <<nextAddress, allocated, inputs, outputs, dynamicBuffers, since>>

\* "W_SINK": nobody reads the buffer.  "RW_ONLY": the buffer is another task's.
FifoAttribute == {"RW_OWN", "RW_ONLY", "W_SINK", "R_MERGE"}

Fifo(address, offset, size, attribute) ==
    [address |-> address, offset |-> offset, size |-> size, attribute |-> attribute]

\* The value that computeExecDependency and computeConsDependency return.
CountOf(deps) ==
    FoldLeft(LAMBDA n, dep : CASE IsUnresolved(dep) -> n
                               [] IsVoid(dep) -> n - 1
                               [] OTHER -> n + (dep.firingEnd - dep.firingStart + 1),
             0, deps)

ReadsThrough(kind) == kind \in {"FORK", "DUPLICATE"}

-----------------------------------------------------------------------------
(* GraphFiring                                                             *)

\* The entry of an edge in GraphAlloc: the firings of a fork or a duplicate have
\* one each, those of another vertex share one.
EntryOf(h, e, f) == <<h, e, IF ReadsThrough(Kind[Src[e]]) THEN f ELSE 0>>

\* setEdgeAddress and setEdgeOffset; an address that is set stays.
SetAddress(table, h, e, f, address, offset) ==
    LET entry == EntryOf(h, e, f)
    IN  IF entry \in DOMAIN table /\ ~ReadsThrough(Kind[Src[e]])
        THEN table
        ELSE (entry :> [address |-> address, offset |-> offset]) @@ table

\* getEdgeAddress: the firings of a vertex write one after the other.
EdgeAddress(table, h, e, f) ==
    table[EntryOf(h, e, f)].address
        + (IF ReadsThrough(Kind[Src[e]]) THEN 0 ELSE SrcRate(h, e) * f)

EdgeOffset(table, h, e, f) == table[EntryOf(h, e, f)].offset

-----------------------------------------------------------------------------
(* PiSDFFifoAllocator, on s = [next, table, in, out, dynamic]              *)

\* buildInputFifo
InputFifo(s, h, e, f, start, end) ==
    Fifo(EdgeAddress(s.table, h, e, f), EdgeOffset(s.table, h, e, f) + start,
         end - start + 1, "RW_OWN")

\* Mutant: the last firing is read to its end.
PartsOf_ToEnd(s, dep) ==
    [n \in 1 .. dep.firingEnd - dep.firingStart + 1 |->
        LET f == dep.firingStart + n - 1
        IN  InputFifo(s, dep.handler, dep.edge, f,
                      IF f = dep.firingStart THEN dep.memoryStart ELSE 0, dep.rate - 1)]

\* One fifo per firing of a dependency.
PartsOf(s, dep) ==
    [n \in 1 .. dep.firingEnd - dep.firingStart + 1 |->
        LET f == dep.firingStart + n - 1
        IN  InputFifo(s, dep.handler, dep.edge, f,
                      IF f = dep.firingStart THEN dep.memoryStart ELSE 0,
                      IF f = dep.firingEnd THEN dep.memoryEnd ELSE dep.rate - 1)]

\* buildMergeFifo: a buffer in which the runner copies the parts that follow it.
MergeFifo(s, task, e, parts) ==
    [s EXCEPT !.next = @ + SnkRate(task[1], e),
              !.in = (<<task, e>> :>
                        <<Fifo(s.next, Len(parts), SnkRate(task[1], e), "R_MERGE")>> \o parts) @@ @]

\* buildSingleFifo, or a merge when several firings are read.
BuildInput(s, task, e, deps) ==
    LET parts == FlattenSeq([i \in DOMAIN deps |-> PartsOf(s, deps[i])])
    IN  IF CountOf(deps) > 1
        THEN MergeFifo(s, task, e, parts)
        ELSE [s EXCEPT !.in = (<<task, e>> :> parts) @@ @]

BuildInputs(s, task) ==
    FoldLeft(LAMBDA u, e : BuildInput(u, task, e, ExecDependencies(task[1], e, task[3])),
             s, InEdges[task[2]])

\* allocate() of a fork: each output is the next part of its input.  Of a
\* duplicate: each output is its input.
AliasOutputs(s, task, fifo) ==
    LET base == IF fifo.attribute = "R_MERGE" THEN 0 ELSE fifo.offset
        step(e) == IF Kind[task[2]] = "FORK" THEN SrcRate(task[1], e) ELSE 0
        alias(u, e) == [s |-> [u.s EXCEPT !.table = SetAddress(@, task[1], e, task[3],
                                                               fifo.address, u.offset)],
                        offset |-> u.offset + step(e)]
    IN  FoldLeft(alias, [s |-> s, offset |-> base], OutEdges[task[2]]).s

\* allocate() of another vertex: room for all its firings, each time; the first
\* address is the one that is kept.
AllocateOutputs(s, task) ==
    FoldLeft(LAMBDA u, e :
                [u EXCEPT !.table = SetAddress(@, task[1], e, task[3], u.next, 0),
                          !.next = @ + SrcRate(task[1], e) * rv[task[1]][task[2]]],
             s, OutEdges[task[2]])

Allocate(s, task) ==
    IF ReadsThrough(Kind[task[2]])
    THEN AliasOutputs(s, task, Head(s.in[<<task, InEdges[task[2]][1]>>]))
    ELSE AllocateOutputs(s, task)

\* buildOutputFifo: a count of 0 is that of readers in graphs not resolved yet.
\* A fork or a duplicate gives RW_ONLY whatever the count.
BuildOutput(s, task, e, count) ==
    LET attribute == CASE ReadsThrough(Kind[task[2]]) -> "RW_ONLY"
                       [] ~ReadsThrough(Kind[task[2]]) /\ count < 0 -> "W_SINK"
                       [] OTHER -> "RW_OWN"
        fifo == Fifo(EdgeAddress(s.table, task[1], e, task[3]),
                     EdgeOffset(s.table, task[1], e, task[3]),
                     SrcRate(task[1], e), attribute)
    IN  [s EXCEPT !.out = (<<task, e>> :> [fifo |-> fifo, count |-> IF count > 0 THEN count ELSE 1]) @@ @,
                  !.dynamic = IF count = 0 THEN Append(@, <<task, e>>) ELSE @]

BuildOutputs(s, task) ==
    FoldLeft(LAMBDA u, e : BuildOutput(u, task, e, CountOf(ConsDependencies(task[1], e, task[3]))),
             s, OutEdges[task[2]])

\* TaskLauncher::visit
LaunchTask(s, task) == BuildOutputs(Allocate(BuildInputs(s, task), task), task)

\* Mutant: what is sent is the count, to which the first use is added again.
Recounted_PlusOne(out, count) == [out EXCEPT !.count = @ + count]

\* MEM_UPDATE_COUNT: the runner adds what it is sent to the count of 1.
Recounted(out, count) == [out EXCEPT !.count = @ + (count - 1)]

\* updateDynamicBuffersCount
UpdateDynamicBuffers(s) ==
    LET count(b) == CountOf(ConsDependencies(b[1][1], b[2], b[1][3]))
        known == SelectSeq(s.dynamic, LAMBDA b : count(b) > 0)
    IN  [FoldLeft(LAMBDA u, b : [u EXCEPT !.out[b] = Recounted(@, count(b))], s, known)
         EXCEPT !.dynamic = SelectSeq(@, LAMBDA b : count(b) <= 0)]

-----------------------------------------------------------------------------
(* ResourcesAllocator::execute                                             *)

Allocator ==
    [next |-> nextAddress, table |-> allocated, in |-> inputs, out |-> outputs,
     dynamic |-> dynamicBuffers]

SetAllocator(s) ==
    /\ nextAddress' = s.next
    /\ allocated' = s.table
    /\ inputs' = s.in
    /\ outputs' = s.out
    /\ dynamicBuffers' = s.dynamic

\* The tasks of the round are launched in their order in the schedule.
LaunchRound ==
    /\ SetAllocator(FoldLeft(LAMBDA s, n : LaunchTask(s, schedule'[Len(schedule) + n].task),
                             UpdateDynamicBuffers(Allocator),
                             [n \in 1 .. Len(schedule') - Len(schedule) |-> n]))
    /\ UNCHANGED since

Execute == (ScheduleList \/ ScheduleGreedy) /\ LaunchRound

FifoResolve ==
    /\ ResolveFiring
    /\ since' = [h \in DOMAIN rates' \ DOMAIN since |-> round] @@ since
    /\ UNCHANGED <<nextAddress, allocated, inputs, outputs, dynamicBuffers>>

FifoInit ==
    /\ SchedulerInit
    /\ nextAddress = 0
    /\ allocated = << >>
    /\ inputs = << >>
    /\ outputs = << >>
    /\ dynamicBuffers = << >>
    /\ since = << >>

FifoNext == Execute \/ FifoResolve

FifoSpec == FifoInit /\ [][FifoNext]_<<vars, fifoVars>>

-----------------------------------------------------------------------------
(* Properties                                                              *)

\* The places, one per token, that a task reads: those of its only fifo, or of
\* the parts of a merge.
Parts(fifos) ==
    IF fifos # << >> /\ Head(fifos).attribute = "R_MERGE" THEN Tail(fifos) ELSE fifos

PlacesRead(parts) ==
    FlattenSeq([i \in DOMAIN parts |->
        [n \in 1 .. parts[i].size |-> parts[i].address + parts[i].offset + n - 1]])

\* Where the task that produced a token was told to write it.
PlaceWritten(token) ==
    LET fifo == outputs[<<WriterOf(token), token[2]>>].fifo
    IN  fifo.address + fifo.offset + (token[3] % SrcRate(token[1], token[2]))

\* Each task reads, token by token and in order, the places where the producers
\* that following each token by itself finds were told to write, through merges,
\* forks and duplicates, and whatever the rounds in which they were launched.
ReadsWhatWasWritten ==
    \A read \in DOMAIN inputs :
        LET task == read[1]
            h == task[1]
            first == SnkRate(h, read[2]) * task[3]
        IN  PlacesRead(Parts(inputs[read]))
            = [n \in 1 .. SnkRate(h, read[2]) |-> PlaceWritten(Producer(h, read[2], first + n - 1))]

\* Token n of an output of a fork is the next one of its input that is not in
\* the outputs before; of a duplicate, token n of its input.
InputOf(task, e, n) ==
    IF Kind[task[2]] = "DUPLICATE"
    THEN n
    ELSE n + FoldSet(LAMBDA d, total : total + SrcRate(task[1], d), 0,
                     {OutEdges[task[2]][p] : p \in 1 .. IndexFirstSubSeq(<<e>>, OutEdges[task[2]]) - 1})

\* The outputs of a fork or a duplicate, which run nothing, are in its input,
\* where the merge puts it if there is one.
PassedOn ==
    \A o \in {o \in DOMAIN outputs : ReadsThrough(Kind[o[1][2]])} :
        LET out == outputs[o].fifo
            in == Head(inputs[<<o[1], InEdges[o[1][2]][1]>>])
            start == in.address + (IF in.attribute = "R_MERGE" THEN 0 ELSE in.offset)
        IN  \A n \in 0 .. out.size - 1 :
                out.address + out.offset + n = start + InputOf(o[1], o[2], n)

\* The virtual memory that a task owns: its outputs, and its merges.
Owned ==
    {<<f.address, f.size>> : f \in {outputs[o].fifo : o \in {o \in DOMAIN outputs :
                                            ~ReadsThrough(Kind[o[1][2]])}}}
    \cup {<<Head(inputs[i]).address, Head(inputs[i]).size>> :
            i \in {i \in DOMAIN inputs : Head(inputs[i]).attribute = "R_MERGE"}}

\* No two buffers share memory: an address is the key of a buffer in the runners.
BuffersDisjoint ==
    /\ \A a, b \in Owned : a # b => a[1] + a[2] <= b[1] \/ b[1] + b[2] <= a[1]
    /\ Cardinality(Owned)
       = Cardinality({o \in DOMAIN outputs : ~ReadsThrough(Kind[o[1][2]])})
         + Cardinality({i \in DOMAIN inputs : Head(inputs[i]).attribute = "R_MERGE"})

FifosExact == ReadsWhatWasWritten /\ PassedOn /\ BuffersDisjoint

\* The round in which the readers of an output could first be found.
KnownIn(h, task) == Max({since[h], schedule[taskIx[task] + 1].round})

\* The parts of the inputs, each with the output that its first token comes from.
Uses ==
    UNION {LET parts == Parts(inputs[read])
               h == read[1][1]
               start == SnkRate(h, read[2]) * read[1][3]
               before(n) == FoldLeft(LAMBDA total, part : total + part.size, 0,
                                     SubSeq(parts, 1, n - 1))
               from(n) == Producer(h, read[2], start + before(n))
           IN  {[output |-> <<WriterOf(from(n)), from(n)[2]>>, read |-> read, part |-> n] :
                    n \in DOMAIN parts} : read \in DOMAIN inputs}

\* When every graph is resolved, the number of uses that the runner has been
\* given for a buffer, in one or in two messages, is that of the fifos which
\* read it, if their tasks all became known in the same round; a buffer that
\* nobody reads is a sink.
UsesExact ==
    (upToDate /\ Firings = Resolved) =>
        LET uses == Uses IN
        \A o \in DOMAIN outputs :
            LET mine == {u \in uses : u.output = o}
            IN IF mine = {}
               THEN outputs[o].fifo.attribute \in {"W_SINK", "RW_ONLY"}
               ELSE Cardinality({KnownIn(u.read[1][1], o[1]) : u \in mine}) = 1
                    => outputs[o].count = Cardinality(mine)
=============================================================================
