--------------------------- MODULE JITMSRTRunner ----------------------------
(***************************************************************************)
(* The runner of one LRT (JITMSRTRunner, RTRunner): it reads notifications *)
(* until its queue is empty, runs the next job once the jobs it waits for  *)
(* are done, and closes the iteration when it has run what it was sent.    *)
(* Every LRT but the GRT runs run(true) on a thread of its own; the GRT    *)
(* calls run(false) on its runner once per round (JITMSRuntime.tla).       *)
(*                                                                         *)
(* The notification types no code of the repository sends (PAUSE, RESUME,  *)
(* JOB_CLEAR_QUEUE, JOB_BROADCAST_JOBSTAMP, REPEAT_DIS), the traces and    *)
(* MEM_UPDATE_COUNT are left out.                                          *)
(***************************************************************************)
EXTENDS RTCommunicator

CONSTANTS
    Policy,         \* ResourcesAllocator::executionPolicy_
    MappedLRT,      \* Task::mappedLRT, the mapping the GRT computed
    ConfigTask      \* tasks whose kernel sets dynamic parameters (nParamsOut_ > 0)

ASSUME MappingAssumption ==
    /\ Policy \in ExecutionPolicy
    /\ MappedLRT \in [Task -> LRT]
    /\ ConfigTask \subseteq Task

\* The fields of the JobMessage of each task.
ExecIx == [t \in Task |-> JobExecIx(MappedLRT, t)]
Constraints == [t \in Task |-> ExecConstraints(MappedLRT, t)]
SynchronizationFlags ==
    [t \in Task |-> NotificationFlags(MappedLRT, ReadyWhenLaunched(Policy, t), t)]

VARIABLES
    runner,         \* the data members of each RTRunner
    stamps,         \* localJobStampsArray_ of each runner
    pc,             \* where the thread of each LRT is
    waitForJob,     \* the local variable of run()
    blockingPop,    \* the local variable of run()
    done            \* history: the tasks executed since execute() was called

runnerVars == <<runner, stamps, pc, waitForJob, blockingPop, done>>

Stamp == Int

RunnerPC == {"Read", "Check", "Kernel", "Finish", "Stopped", "Thrown"}

RunnerState ==
    [jobQueue: Seq(Task), jobQueueCurrentPos: Nat, jobCount: Nat,
     lastJobStamp: Stamp, start: BOOLEAN, receivedEnd: BOOLEAN,
     finished: BOOLEAN, repeat: BOOLEAN, shouldBroadcast: BOOLEAN]

\* The initial values of the members in RTRunner.h and JITMSRTRunner.h.
InitialRunner ==
    [jobQueue |-> << >>, jobQueueCurrentPos |-> 0, jobCount |-> 0,
     lastJobStamp |-> 0, start |-> FALSE, receivedEnd |-> FALSE,
     finished |-> TRUE, repeat |-> FALSE, shouldBroadcast |-> FALSE]

NoStamps == [l \in LRT |-> NoStamp]

HasJob(r) == /\ runner[r].start
             /\ runner[r].jobQueueCurrentPos # Len(runner[r].jobQueue)
CurrentJob(r) == runner[r].jobQueue[runner[r].jobQueueCurrentPos + 1]

-----------------------------------------------------------------------------
(* readNotification                                                        *)

Reading(r) == pc[r] = "Read" /\ Ready(r)

\* After a notification the loop pops without blocking.
Received(r, type) ==
    /\ Reading(r)
    /\ Pop(r, type)
    /\ blockingPop' = [blockingPop EXCEPT ![r] = FALSE]
    /\ UNCHANGED <<outbox, waitForJob, done>>

\* An iteration that is still running pushes the notification back.
ReadStart(r) ==
    IF runner[r].finished
    THEN /\ Received(r, "LRT_START_ITERATION")
         /\ runner' = [runner EXCEPT ![r] =
                         [@ EXCEPT !.start = TRUE, !.finished = FALSE,
                                   !.jobCount = 0, !.jobQueueCurrentPos = 0]]
         /\ UNCHANGED <<stamps, pc>>
    ELSE /\ Reading(r)
         /\ queue[r] # << >>
         /\ Head(queue[r]).type = "LRT_START_ITERATION"
         /\ queue' = [queue EXCEPT ![r] = Append(Tail(@), Head(@))]
         /\ pc' = [pc EXCEPT ![r] = "Check"]
         /\ UNCHANGED <<outbox, runner, stamps, waitForJob, blockingPop, done>>

ReadEnd(r) ==
    /\ Received(r, "LRT_END_ITERATION")
    /\ IF runner[r].start
       THEN /\ runner' = [runner EXCEPT ![r] =
                            [@ EXCEPT !.receivedEnd = TRUE,
                                      !.jobCount = Len(runner[r].jobQueue)]]
            /\ pc' = pc
       ELSE /\ pc' = [pc EXCEPT ![r] = "Thrown"]
            /\ runner' = runner
    /\ UNCHANGED stamps

\* What clear() and reset() both do to the members m of a runner.
Cleared(m) ==
    [m EXCEPT !.jobQueueCurrentPos = 0, !.jobCount = 0, !.lastJobStamp = NoStamp,
              !.shouldBroadcast = FALSE, !.start = FALSE, !.receivedEnd = FALSE,
              !.finished = TRUE]

ReadClear(r) ==
    /\ Received(r, "LRT_CLEAR_ITERATION")
    /\ runner' = [runner EXCEPT ![r] = [Cleared(@) EXCEPT !.jobQueue = << >>]]
    /\ stamps' = [stamps EXCEPT ![r] = NoStamps]
    /\ UNCHANGED pc

\* Mutant: keep the stamps of the iteration that is reset.
ReadReset_KeepStamps(r) ==
    /\ Received(r, "LRT_RST_ITERATION")
    /\ runner' = [runner EXCEPT ![r] = Cleared(@)]
    /\ UNCHANGED <<stamps, pc>>

ReadReset(r) ==
    /\ Received(r, "LRT_RST_ITERATION")
    /\ runner' = [runner EXCEPT ![r] = Cleared(@)]
    /\ stamps' = [stamps EXCEPT ![r] = NoStamps]
    /\ UNCHANGED pc

ReadRepeat(r) ==
    /\ Received(r, "LRT_REPEAT_ITERATION_EN")
    /\ runner' = [runner EXCEPT ![r].repeat = TRUE]
    /\ UNCHANGED <<stamps, pc>>

ReadStop(r) ==
    /\ Received(r, "LRT_STOP")
    /\ pc' = [pc EXCEPT ![r] = "Stopped"]
    /\ UNCHANGED <<runner, stamps>>

\* A job that arrives before the start of an iteration is dropped.
ReadJobAdd(r) ==
    /\ Received(r, "JOB_ADD")
    /\ runner' = IF runner[r].start
                 THEN [runner EXCEPT ![r].jobQueue =
                          Append(@, Head(queue[r]).notificationIx)]
                 ELSE runner
    /\ UNCHANGED <<stamps, pc>>

ReadDelayBroadcast(r) ==
    /\ Received(r, "JOB_DELAY_BROADCAST_JOBSTAMP")
    /\ runner' = [runner EXCEPT ![r].shouldBroadcast = TRUE]
    /\ UNCHANGED <<stamps, pc>>

\* updateJobStamp: keep the largest stamp.
UpdatedStamp(r, l, job) ==
    [stamps EXCEPT ![r][l] = IF @ = NoStamp \/ @ < job THEN job ELSE @]

ReadJobStamp(r) ==
    /\ Received(r, "JOB_UPDATE_JOBSTAMP")
    /\ LET note == Head(queue[r])
       IN  stamps' = UpdatedStamp(r, note.senderIx, note.notificationIx)
    /\ UNCHANGED <<runner, pc>>

\* try_pop found nothing.
NothingToRead(r) ==
    /\ Reading(r)
    /\ queue[r] = << >>
    /\ ~blockingPop[r]
    /\ pc' = [pc EXCEPT ![r] = "Check"]
    /\ UNCHANGED <<commVars, runner, stamps, waitForJob, blockingPop, done>>

-----------------------------------------------------------------------------
(* run: the job of the head of the queue, then the end of the iteration    *)

\* Mutant: forget that a LRT may not have sent any stamp yet.
Unmet_AnyStamp(r, t) == {c \in Constraints[t] :
                            /\ stamps[r][c.lrtToWait] # NoStamp
                            /\ stamps[r][c.lrtToWait] < c.jobToWait}

Unmet(r, t) == {c \in Constraints[t] : \/ stamps[r][c.lrtToWait] = NoStamp
                                       \/ stamps[r][c.lrtToWait] < c.jobToWait}

IsJobRunnable(r, t) == Unmet(r, t) = {}

\* isJobRunnable throws when the first unmet constraint is on the LRT itself.
WaitsForItself(r, t) ==
    \E c \in Unmet(r, t) : /\ c.lrtToWait = r
                           /\ \A d \in Unmet(r, t) : c.lrtToWait <= d.lrtToWait

StartJob(r) ==
    /\ pc[r] = "Check"
    /\ HasJob(r)
    /\ IsJobRunnable(r, CurrentJob(r))
    /\ waitForJob' = [waitForJob EXCEPT ![r] = FALSE]
    /\ pc' = [pc EXCEPT ![r] = "Kernel"]
    /\ UNCHANGED <<commVars, runner, stamps, blockingPop, done>>

WaitJob(r) ==
    /\ pc[r] = "Check"
    /\ HasJob(r)
    /\ ~IsJobRunnable(r, CurrentJob(r))
    /\ waitForJob' = [waitForJob EXCEPT ![r] = TRUE]
    /\ pc' = [pc EXCEPT ![r] =
                IF WaitsForItself(r, CurrentJob(r)) THEN "Thrown" ELSE "Finish"]
    /\ UNCHANGED <<commVars, runner, stamps, blockingPop, done>>

NoJob(r) ==
    /\ pc[r] = "Check"
    /\ ~HasJob(r)
    /\ pc' = [pc EXCEPT ![r] = "Finish"]
    /\ UNCHANGED <<commVars, runner, stamps, waitForJob, blockingPop, done>>

\* The kernel has returned: record and send the stamp, then the parameters.
EndJob(r) ==
    /\ pc[r] = "Kernel"
    /\ LET t == CurrentJob(r)
           stampNote == Notify("JOB_UPDATE_JOBSTAMP", r, ExecIx[t])
           paramNote == Notify("JOB_SENT_PARAM", r, t)
       IN  /\ done' = done \cup {t}
           /\ stamps' = UpdatedStamp(r, r, ExecIx[t])
           /\ outbox' = [outbox EXCEPT ![r] =
                  ToEach(SynchronizationFlags[t] \ {r}, stampNote)
                  \o ToEach(IF t \in ConfigTask THEN {ParamQueue} ELSE {},
                            paramNote)]
           /\ runner' = [runner EXCEPT ![r].lastJobStamp = ExecIx[t],
                                       ![r].jobQueueCurrentPos = @ + 1]
    /\ pc' = [pc EXCEPT ![r] = "Finish"]
    /\ UNCHANGED <<queue, waitForJob, blockingPop>>

InfiniteLoop(r) == r # GRTIx

\* Mutant: close the iteration whenever the jobs received so far are done.
FinishedIteration_NoEnd(r) ==
    /\ runner[r].start
    /\ runner[r].jobQueueCurrentPos = Len(runner[r].jobQueue)

\* Mutant: wait for one job more than there are.
FinishedIteration_OneMore(r) ==
    /\ runner[r].receivedEnd
    /\ runner[r].jobQueueCurrentPos > runner[r].jobCount

FinishedIteration(r) ==
    \/ /\ runner[r].receivedEnd
       /\ runner[r].jobQueueCurrentPos = runner[r].jobCount
    \/ /\ ~InfiniteLoop(r)
       /\ runner[r].jobQueue = << >>

\* broadcastCurrentJobStamp
Broadcast(r) ==
    IF runner[r].shouldBroadcast /\ runner[r].lastJobStamp # NoStamp
    THEN ToEach(LRT \ {r}, Notify("JOB_UPDATE_JOBSTAMP", r, runner[r].lastJobStamp))
    ELSE << >>

\* The GRT hears that the runner is done only after everybody has its stamp.
ClosingBatches(r) ==
    Broadcast(r) \o ToEach({GRTIx}, Notify("LRT_FINISHED_ITERATION", r, NoStamp))

\* The members m of a runner once it has closed its iteration.
Closed(m) ==
    [m EXCEPT !.shouldBroadcast = FALSE, !.finished = TRUE, !.start = FALSE,
              !.receivedEnd = FALSE,
              !.jobQueue = IF m.repeat THEN @ ELSE << >>,
              !.jobQueueCurrentPos = IF m.repeat THEN @ ELSE 0]

\* A runner that is not the GRT broadcasts, tells the GRT, and blocks.
FinishIteration(r) ==
    /\ pc[r] = "Finish" /\ Ready(r)
    /\ InfiniteLoop(r)
    /\ FinishedIteration(r)
    /\ runner' = [runner EXCEPT ![r] = Closed(@)]
    /\ outbox' = [outbox EXCEPT ![r] = ClosingBatches(r)]
    /\ pc' = [pc EXCEPT ![r] = "Read"]
    /\ blockingPop' = [blockingPop EXCEPT ![r] = TRUE]
    /\ UNCHANGED <<queue, stamps, waitForJob, done>>

Continue(r) ==
    /\ pc[r] = "Finish" /\ Ready(r)
    /\ ~FinishedIteration(r)
    /\ pc' = [pc EXCEPT ![r] = "Read"]
    /\ blockingPop' = [blockingPop EXCEPT ![r] =
           (InfiniteLoop(r) /\ runner[r].finished) \/ waitForJob[r]]
    /\ UNCHANGED <<commVars, runner, stamps, waitForJob, done>>
=============================================================================
