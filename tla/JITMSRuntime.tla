---------------------------- MODULE JITMSRuntime ----------------------------
(***************************************************************************)
(* The global runtime and its LRTs, composed: the application's thread     *)
(* calls spider::run(), whose algorithm (StaticRuntime, SRDAGJITMSRuntime  *)
(* or PiSDFJITMSRuntime) starts an iteration on every runner, launches the *)
(* jobs, runs the GRT's own share of them, waits for the other runners and *)
(* for the dynamic parameters, and goes on with the next round.            *)
(*                                                                         *)
(* A static context sends its jobs once and has the runners repeat them;   *)
(* a dynamic one sends the jobs of each round and clears the runners after *)
(* the last.                                                               *)
(***************************************************************************)
EXTENDS JITMSRTRunner

CONSTANTS
    StaticContext,  \* the contexts whose graph is fully static
    SRDAGContext,   \* the dynamic contexts run by SRDAGJITMSRuntime; the other
                    \* dynamic contexts are run by PiSDFJITMSRuntime
    Param,          \* the dynamic parameters of every firing of a dynamic graph
    ParamsSetBy,    \* those a configuration task sets, in one message
    RunGraphOf,     \* the firing of the dynamic graph a parameter belongs to
    Rounds,         \* number of schedule-and-run rounds of each context
    RunMode,        \* "LOOP" or "EXTERN_LOOP" (RunMode::INFINITE is a long LOOP)
    LoopCount,      \* RuntimeConfig::loopCount_
    MaxRuns,        \* bound: calls of spider::run() the application makes
    MaxSignals,     \* bound: SIGINT signals received (0 or 1)
    None

ASSUME ContextAssumption ==
    /\ None \notin Context
    /\ StaticContext \subseteq Context
    /\ Rounds \in [Context -> Nat \ {0}]
    /\ \A c \in StaticContext : Rounds[c] = 1
    /\ \A t \in Task : RoundOf[t] <= Rounds[ContextOf[t]]
    /\ SRDAGContext \subseteq Context \ StaticContext
    /\ IsFiniteSet(Param)
    /\ ParamsSetBy \in [ConfigTask -> (SUBSET Param) \ {{}}]
    /\ DOMAIN RunGraphOf = Param
    /\ \A t \in ConfigTask :
          /\ ContextOf[t] \notin StaticContext
          /\ ContextOf[t] \in SRDAGContext => RoundOf[t] % 2 = 1
    /\ RunMode \in [Context -> {"LOOP", "EXTERN_LOOP"}]
    /\ LoopCount \in [Context -> Nat]
    /\ MaxRuns \in Nat
    /\ MaxSignals \in {0, 1}

VARIABLES
    finishedRunner,     \* RTPlatform::finishedRunnerArray_
    notifVector,        \* notifications waitForRunnersToFinish sets aside
    context,            \* the context of the current call of spider::run()
    loopsLeft,          \* executions left in that call
    executing,          \* history: execute() has been called and not returned
    iter,               \* whether iter_ # 0 in each StaticRuntime
    round,              \* the current schedule-and-run round
    toLaunch,           \* tasks of the round still to be sent to their LRT
    readParam,          \* parameter messages received in this round
    runs,               \* calls of spider::run() so far
    stopRunning         \* spider2StopRunning, set by SIGINT

grtVars == <<finishedRunner, notifVector, context, loopsLeft, executing, iter,
             round, toLaunch, readParam, runs, stopRunning>>

vars == <<commVars, runnerVars, grtVars>>

GRTPC == {"App", "Execute", "Launch", "Wait", "Params", "Join", "Exited"}

RunnerTypeOK ==
    /\ runner \in [LRT -> RunnerState]
    /\ stamps \in [LRT -> [LRT -> Stamp]]
    /\ pc \in [LRT -> RunnerPC \cup GRTPC]
    /\ \A r \in LRT \ {GRTIx} : pc[r] \in RunnerPC
    /\ waitForJob \in [LRT -> BOOLEAN]
    /\ blockingPop \in [LRT -> BOOLEAN]
    /\ done \in SUBSET Task
    /\ \A r \in LRT :
          /\ runner[r].jobQueueCurrentPos <= Len(runner[r].jobQueue)
          /\ pc[r] = "Kernel" =>
                runner[r].jobQueueCurrentPos < Len(runner[r].jobQueue)

GRTTypeOK ==
    /\ finishedRunner \in [LRT -> BOOLEAN]
    /\ notifVector \in Seq(Notification)
    /\ context \in Context \cup {None}
    /\ loopsLeft \in Nat
    /\ pc[GRTIx] \notin {"App", "Execute", "Join", "Exited"} => loopsLeft > 0
    /\ executing \in BOOLEAN
    /\ iter \in [Context -> BOOLEAN]
    /\ round \in Nat
    /\ toLaunch \in SUBSET Task
    /\ readParam \in Nat
    /\ runs \in Nat
    /\ stopRunning \in BOOLEAN

\* Every variable has its type, a runner never reads past the end of its job
\* queue, and the GRT executes only while executions are left in the call.
TypeOK == CommTypeOK /\ RunnerTypeOK /\ GRTTypeOK

Init ==
    /\ CommInit
    /\ runner = [r \in LRT |-> InitialRunner]
    /\ stamps = [r \in LRT |-> NoStamps]
    /\ pc = [r \in LRT |-> IF r = GRTIx THEN "App" ELSE "Read"]
    /\ waitForJob = [r \in LRT |-> FALSE]
    /\ blockingPop = [r \in LRT |-> r # GRTIx]
    /\ done = {}
    /\ finishedRunner = [r \in LRT |-> FALSE]
    /\ notifVector = << >>
    /\ context = None
    /\ loopsLeft = 0
    /\ executing = FALSE
    /\ iter = [c \in Context |-> FALSE]
    /\ round = 0
    /\ toLaunch = {}
    /\ readParam = 0
    /\ runs = 0
    /\ stopRunning = FALSE

-----------------------------------------------------------------------------
(* The application: spider::run() and spider::quit()                       *)

At(label) == pc[GRTIx] = label /\ Ready(GRTIx)
GoTo(label) == pc' = [pc EXCEPT ![GRTIx] = label]

IsStatic == context \in StaticContext
TasksOf(c) == {t \in Task : ContextOf[t] = c}
TasksOfRound(c, k) == {t \in TasksOf(c) : RoundOf[t] = k}

CallRun(c) ==
    /\ At("App")
    /\ runs < MaxRuns
    /\ runs' = runs + 1
    /\ context' = c
    /\ loopsLeft' = LoopCount[c]
    /\ GoTo("Execute")
    /\ UNCHANGED <<commVars, runner, stamps, waitForJob, blockingPop, done,
                   finishedRunner, notifVector, executing, iter, round,
                   toLaunch, readParam, stopRunning>>

\* Mutant: one execution too many.
LoopGoesOn_OneMore == loopsLeft >= 0

LoopGoesOn == /\ loopsLeft > 0
              /\ RunMode[context] = "LOOP" => ~stopRunning

\* In LOOP mode the runners clear their parameters at the end.
RunReturns ==
    /\ At("Execute")
    /\ ~LoopGoesOn
    /\ outbox' = [outbox EXCEPT ![GRTIx] =
           IF RunMode[context] = "LOOP" THEN ToAll("LRT_CLEAR_ITERATION") ELSE << >>]
    /\ GoTo("App")
    /\ UNCHANGED <<queue, runner, stamps, waitForJob, blockingPop, done, grtVars>>

\* The SIGINT handler of ThreadRTPlatform.
Interrupt ==
    /\ MaxSignals = 1
    /\ ~stopRunning
    /\ pc[GRTIx] # "Exited"
    /\ stopRunning' = TRUE
    /\ UNCHANGED <<commVars, runnerVars, finishedRunner, notifVector, context,
                   loopsLeft, executing, iter, round, toLaunch, readParam, runs>>

\* ~ThreadRTPlatform: stop the runners, then join their threads.
Quit ==
    /\ At("App")
    /\ outbox' = [outbox EXCEPT ![GRTIx] = ToAll("LRT_STOP")]
    /\ GoTo("Join")
    /\ UNCHANGED <<queue, runner, stamps, waitForJob, blockingPop, done, grtVars>>

Join ==
    /\ At("Join")
    /\ \A r \in LRT \ {GRTIx} : pc[r] = "Stopped"
    /\ GoTo("Exited")
    /\ UNCHANGED <<commVars, runner, stamps, waitForJob, blockingPop, done, grtVars>>

Terminated == pc[GRTIx] = "Exited" /\ UNCHANGED vars

-----------------------------------------------------------------------------
(* The algorithm: StaticRuntime::execute, SRDAGJITMSRuntime::execute,      *)
(* PiSDFJITMSRuntime::staticExecute and dynamicExecute                     *)

\* A static context that already ran starts the jobs its runners kept.
JobsToSend(c, k) == IF iter[c] THEN {} ELSE TasksOfRound(c, k)

StartRound(c, k) ==
    /\ outbox' = [outbox EXCEPT ![GRTIx] =
           (IF c \in StaticContext /\ ~iter[c]
            THEN ToAll("LRT_REPEAT_ITERATION_EN") ELSE << >>)
           \o ToAll("LRT_START_ITERATION")]
    /\ toLaunch' = JobsToSend(c, k)
    /\ round' = k
    /\ readParam' = 0
    /\ GoTo("Launch")

Execute ==
    /\ At("Execute")
    /\ LoopGoesOn
    /\ StartRound(context, 1)
    /\ executing' = TRUE
    /\ done' = {}
    /\ UNCHANGED <<queue, runner, stamps, waitForJob, blockingPop, finishedRunner,
                   notifVector, context, loopsLeft, iter, runs, stopRunning>>

\* TaskLauncher::sendTask, in the order of the schedule.
LaunchTask(t) ==
    /\ At("Launch")
    /\ t \in toLaunch
    /\ \A u \in toLaunch : t <= u
    /\ outbox' = [outbox EXCEPT ![GRTIx] =
           ToEach({MappedLRT[t]}, Notify("JOB_ADD", GRTIx, t))]
    /\ toLaunch' = toLaunch \ {t}
    /\ UNCHANGED <<queue, runnerVars, finishedRunner, notifVector, context,
                   loopsLeft, executing, iter, round, readParam, runs, stopRunning>>

\* Close the round for every runner, then enter the GRT's own run(false).
EndLaunch ==
    /\ At("Launch")
    /\ toLaunch = {}
    /\ outbox' = [outbox EXCEPT ![GRTIx] =
           (IF IsStatic THEN << >> ELSE ToAll("JOB_DELAY_BROADCAST_JOBSTAMP"))
           \o ToAll("LRT_END_ITERATION")]
    /\ waitForJob' = [waitForJob EXCEPT ![GRTIx] = FALSE]
    /\ blockingPop' = [blockingPop EXCEPT ![GRTIx] = FALSE]
    /\ GoTo("Read")
    /\ UNCHANGED <<queue, runner, stamps, done, grtVars>>

\* The GRT registers itself as finished without a notification.
LeaveRun ==
    /\ pc[GRTIx] = "Finish" /\ Ready(GRTIx)
    /\ FinishedIteration(GRTIx)
    /\ outbox' = [outbox EXCEPT ![GRTIx] = Broadcast(GRTIx)]
    /\ runner' = [runner EXCEPT ![GRTIx] = Closed(@)]
    /\ finishedRunner' = [finishedRunner EXCEPT ![GRTIx] = TRUE]
    /\ GoTo("Wait")
    /\ UNCHANGED <<queue, stamps, waitForJob, blockingPop, done, notifVector,
                   context, loopsLeft, executing, iter, round, toLaunch,
                   readParam, runs, stopRunning>>

\* registerFinishedRunner, while the GRT still runs its own jobs.
ReadFinished ==
    /\ Received(GRTIx, "LRT_FINISHED_ITERATION")
    /\ finishedRunner' = [finishedRunner EXCEPT ![Head(queue[GRTIx]).senderIx] = TRUE]
    /\ UNCHANGED <<runner, stamps, pc, notifVector, context, loopsLeft, executing,
                   iter, round, toLaunch, readParam, runs, stopRunning>>

\* Mutant: do not wait for the last LRT.
AllFinished_ButLast == \A i \in LRT \ {LRTCount - 1} : finishedRunner[i]

AllFinished == \A i \in LRT : finishedRunner[i]

\* waitForRunnersToFinish sets the flag of the runner it is at, whoever sent
\* the notification.
WaitFinished(i) ==
    /\ At("Wait")
    /\ ~finishedRunner[i]
    /\ \A j \in LRT : ~finishedRunner[j] => i <= j
    /\ Pop(GRTIx, "LRT_FINISHED_ITERATION")
    /\ finishedRunner' = [finishedRunner EXCEPT ![i] = TRUE]
    /\ UNCHANGED <<outbox, runnerVars, notifVector, context, loopsLeft, executing,
                   iter, round, toLaunch, readParam, runs, stopRunning>>

SetAside ==
    /\ At("Wait")
    /\ ~AllFinished
    /\ queue[GRTIx] # << >>
    /\ Head(queue[GRTIx]).type # "LRT_FINISHED_ITERATION"
    /\ queue' = [queue EXCEPT ![GRTIx] = Tail(@)]
    /\ notifVector' = Append(notifVector, Head(queue[GRTIx]))
    /\ UNCHANGED <<outbox, runnerVars, finishedRunner, context, loopsLeft,
                   executing, iter, round, toLaunch, readParam, runs, stopRunning>>

\* Every runner has finished: push back what was set aside.
EndWait ==
    /\ At("Wait")
    /\ AllFinished
    /\ outbox' = [outbox EXCEPT ![GRTIx] =
           [i \in 1 .. Len(notifVector) |-> [note |-> notifVector[i], to |-> {GRTIx}]]]
    /\ notifVector' = << >>
    /\ finishedRunner' = [r \in LRT |-> FALSE]
    /\ GoTo("Params")
    /\ UNCHANGED <<queue, runner, stamps, waitForJob, blockingPop, done, context,
                   loopsLeft, executing, iter, round, toLaunch, readParam, runs,
                   stopRunning>>

\* The parameters the configuration tasks of this round set.
ParamsOfRound == UNION {ParamsSetBy[t] : t \in TasksOfRound(context, round) \cap ConfigTask}

\* Mutant: one message per dynamic graph, whatever the runtime.
ExpectedParams_PerGraph == Cardinality({RunGraphOf[p] : p \in ParamsOfRound})

\* The messages to wait for: one per dynamic graph to transform
\* (dynamicJobStack.size()), or one per dynamic parameter of the graphs that
\* are not resolved (countExpectedNumberOfParams).
ExpectedParams ==
    IF context \in SRDAGContext
    THEN Cardinality({RunGraphOf[p] : p \in ParamsOfRound})
    ELSE Cardinality(ParamsOfRound)

ReadParam ==
    /\ At("Params")
    /\ readParam # ExpectedParams
    /\ Pop(ParamQueue, "JOB_SENT_PARAM")
    /\ readParam' = readParam + 1
    /\ UNCHANGED <<outbox, runnerVars, finishedRunner, notifVector, context,
                   loopsLeft, executing, iter, round, toLaunch, runs, stopRunning>>

NextRound ==
    /\ At("Params")
    /\ readParam = ExpectedParams
    /\ round < Rounds[context]
    /\ StartRound(context, round + 1)
    /\ UNCHANGED <<queue, runner, stamps, waitForJob, blockingPop, done,
                   finishedRunner, notifVector, context, loopsLeft, executing,
                   iter, runs, stopRunning>>

\* The runners of a static context are reset, those of a dynamic one cleared.
EndExecute ==
    /\ At("Params")
    /\ readParam = ExpectedParams
    /\ round = Rounds[context]
    /\ outbox' = [outbox EXCEPT ![GRTIx] =
           IF IsStatic THEN ToAll("LRT_RST_ITERATION") ELSE ToAll("LRT_CLEAR_ITERATION")]
    /\ iter' = [iter EXCEPT ![context] = IsStatic]
    /\ loopsLeft' = loopsLeft - 1
    /\ executing' = FALSE
    /\ GoTo("Execute")
    /\ UNCHANGED <<queue, runner, stamps, waitForJob, blockingPop, done,
                   finishedRunner, notifVector, context, round, toLaunch,
                   readParam, runs, stopRunning>>

-----------------------------------------------------------------------------
ReadNotification(r) ==
    \/ ReadStart(r) \/ ReadEnd(r) \/ ReadClear(r) \/ ReadReset(r)
    \/ ReadRepeat(r) \/ ReadStop(r) \/ ReadJobAdd(r)
    \/ ReadDelayBroadcast(r) \/ ReadJobStamp(r)

RunnerStep(r) ==
    \/ Push(r) /\ UNCHANGED runnerVars
    \/ ReadNotification(r) \/ NothingToRead(r)
    \/ StartJob(r) \/ WaitJob(r) \/ NoJob(r) \/ EndJob(r)
    \/ FinishIteration(r) \/ Continue(r)

GRTStep ==
    \/ RunReturns \/ Execute
    \/ \E t \in Task : LaunchTask(t)
    \/ EndLaunch \/ LeaveRun \/ ReadFinished
    \/ \E i \in LRT : WaitFinished(i)
    \/ SetAside \/ EndWait \/ ReadParam \/ NextRound \/ EndExecute \/ Join

Next ==
    \/ \E r \in LRT : RunnerStep(r) /\ UNCHANGED grtVars
    \/ GRTStep
    \/ \E c \in Context : CallRun(c)
    \/ Quit \/ Interrupt
    \/ Terminated

\* A thread that can take a step eventually takes one: the operating system
\* runs every thread.  The application need not call run() again nor quit.
Fairness ==
    /\ \A r \in LRT : WF_vars(RunnerStep(r) /\ UNCHANGED grtVars)
    /\ WF_vars(GRTStep)

Spec == Init /\ [][Next]_vars /\ Fairness

-----------------------------------------------------------------------------
(* Properties                                                              *)

Firing == {CurrentJob(r) : r \in {q \in LRT : pc[q] = "Kernel"}}

Dataflow == INSTANCE DataflowExecution
                WITH active <- IF executing THEN context ELSE None,
                     firing <- Firing, fired <- done

\* Every call of execute() fires each task of its graph exactly once, after the
\* tasks it depends on, and returns: the runtime implements the dataflow
\* semantics, whatever the interleaving of the LRT threads.
ImplementsDataflow == Dataflow!Spec

\* The safety part of that promise, for instances too large for the liveness part.
DataflowSafety == Dataflow!Init /\ [][Dataflow!Next]_Dataflow!vars

\* Runtime.h: execute() does one iteration of the graph, so when its last round
\* is over every task of the graph has been executed.
IterationComplete ==
    pc[GRTIx] = "Params" /\ round = Rounds[context] => TasksOf(context) \subseteq done

\* ... and a runner executes the tasks of that graph only, none of them twice.
FiresOnce ==
    [][\A r \in LRT : pc[r] # "Kernel" /\ pc'[r] = "Kernel" =>
          /\ ContextOf[CurrentJob(r)] = context
          /\ CurrentJob(r) \notin done]_vars

\* A job starts only when every task it depends on is done, although it waits
\* for one job per LRT only (JobMessage::execConstraints_).
PrecedenceRespected ==
    \A r \in LRT : pc[r] = "Kernel" => Deps[CurrentJob(r)] \subseteq done

\* A stamp that an iterating runner holds is never ahead of the LRT it is about:
\* the jobs of that LRT up to the stamp are done in this execution, so no stamp
\* of an earlier execution survived the clear or the reset.
StampsSound ==
    \A r, l \in LRT :
        runner[r].start =>
            {t \in TasksOf(context) : MappedLRT[t] = l /\ ExecIx[t] <= stamps[r][l]}
                \subseteq done

\* waitForRunnersToFinish returns only when every runner has closed the round:
\* all the tasks launched so far are done, no runner iterates, and no queue
\* still holds a notification of the round that could start work or be counted
\* in the next round.
BarrierSound ==
    pc[GRTIx] = "Params" =>
        /\ {t \in TasksOf(context) : RoundOf[t] <= round} \subseteq done
        /\ \A r \in LRT :
              /\ runner[r].finished /\ ~runner[r].start
              /\ \A i \in 1 .. Len(queue[r]) :
                    queue[r][i].type \notin {"LRT_START_ITERATION", "JOB_ADD",
                        "LRT_END_ITERATION", "LRT_FINISHED_ITERATION"}

\* A runner never meets a notification out of protocol: a start while it still
\* iterates (it would be pushed back behind the jobs, which would be dropped), a
\* job before the start (dropped), an end before the start or a job that waits
\* for a later job of its own LRT (both throw).
ProtocolRespected ==
    \A r \in LRT :
        /\ pc[r] # "Thrown"
        /\ Reading(r) /\ queue[r] # << >> =>
              CASE Head(queue[r]).type = "LRT_START_ITERATION" -> runner[r].finished
                [] Head(queue[r]).type = "JOB_ADD" -> runner[r].start
                [] OTHER -> TRUE

\* When execute() returns, every parameter message sent has been received: none
\* is left to be taken for the answer to a later round.
ParamsMatched ==
    pc[GRTIx] \in {"App", "Execute"} => queue[ParamQueue] = << >>

\* A call of spider::run() returns, and spider::quit() joins every thread.
CallsReturn ==
    /\ pc[GRTIx] = "Execute" ~> pc[GRTIx] = "App"
    /\ pc[GRTIx] = "Join" ~> pc[GRTIx] = "Exited"
=============================================================================
