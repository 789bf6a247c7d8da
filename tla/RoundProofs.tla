----------------------------- MODULE RoundProofs -----------------------------
(***************************************************************************)
(* Type correctness of the runtime, for every number of LRTs, every graph, *)
(* mapping and number of calls; what the stamps a runner has received say  *)
(* of the dependencies of its next job; and why a round is executed as it  *)
(* was sent.                                                               *)
(*                                                                         *)
(* A round is executed as it was sent: for every number of LRTs, graph and *)
(* mapping, each runner meets the notifications of the GRT in the order of *)
(* the protocol, executes the jobs of the round that are its own, each     *)
(* once, and the barrier lets the GRT go on when all of them are done and  *)
(* nothing of the round is left in a queue.                                *)
(*                                                                         *)
(* The invariant follows what the GRT has sent to a LRT and the LRT has    *)
(* not read: what is in its queue and what the GRT's own thread has still  *)
(* to push there (Coming).  It relates it to the label of the GRT, to the  *)
(* members of the runner, and to the tasks that are done.                  *)
(***************************************************************************)
EXTENDS JITMSRuntime, TaskLauncherProofs, SequenceTheorems

-----------------------------------------------------------------------------
(* The messages                                                            *)

LEMMA NotifyType ==
    ASSUME NEW type \in NotificationType, NEW sender \in LRT, NEW ix \in Int,
           type \in {"JOB_ADD", "JOB_SENT_PARAM"} => ix \in Task
    PROVE  Notify(type, sender, ix) \in Notification
BY DEF Notify, Notification

LEMMA ToEachType ==
    ASSUME NEW R \in SUBSET Endpoint, NEW n \in Notification
    PROVE  ToEach(R, n) \in Seq(Batch)
<1>1. [note |-> n, to |-> R] \in Batch
    BY DEF Batch
<1>2. << >> \in Seq(Batch) /\ <<[note |-> n, to |-> R]>> \in Seq(Batch)
    BY <1>1
<1> QED
    BY <1>2 DEF ToEach

LEMMA ConcatType ==
    ASSUME NEW s \in Seq(Batch), NEW t \in Seq(Batch)
    PROVE  s \o t \in Seq(Batch)
BY ConcatProperties

LEMMA ToAllType ==
    ASSUME NEW type \in NotificationType \ {"JOB_ADD", "JOB_SENT_PARAM"}
    PROVE  ToAll(type) \in Seq(Batch)
<1>1. NoStamp \in Int /\ GRTIx \in LRT /\ LRT \in SUBSET Endpoint
    BY GRTAssumption DEF NoStamp, Endpoint
<1>2. Notify(type, GRTIx, NoStamp) \in Notification
    BY <1>1, NotifyType
<1> QED
    BY <1>1, <1>2, ToEachType DEF ToAll

LEMMA EndpointType == /\ LRT \subseteq Endpoint /\ ParamQueue \in Endpoint
                      /\ GRTIx \in LRT /\ LRT \subseteq Int /\ NoStamp \in Int
BY GRTAssumption DEF Endpoint, NoStamp, LRT

LEMMA PopType ==
    ASSUME CommTypeOK, NEW e \in Endpoint, NEW type, Pop(e, type)
    PROVE  /\ queue' \in [Endpoint -> Seq(Notification)]
           /\ Head(queue[e]) \in Notification
           /\ Head(queue[e]).type = type
<1>1. queue[e] \in Seq(Notification) /\ queue[e] # << >>
    BY DEF Pop, CommTypeOK
<1>2. Head(queue[e]) \in Notification /\ Tail(queue[e]) \in Seq(Notification)
    BY <1>1, HeadTailProperties
<1> QED
    BY <1>2 DEF Pop, CommTypeOK

LEMMA PushType ==
    ASSUME CommTypeOK, NEW r \in LRT, Push(r)
    PROVE  CommTypeOK'
<1> DEFINE batch == Head(outbox[r])
           receiver == CHOOSE e \in batch.to : \A f \in batch.to : e <= f
           left == batch.to \ {receiver}
<1>1. outbox[r] \in Seq(Batch) /\ outbox[r] # << >>
    BY DEF CommTypeOK, Push
<1>2. batch \in Batch /\ Tail(outbox[r]) \in Seq(Batch)
    BY <1>1, HeadTailProperties
<1>3. batch.note \in Notification /\ left \in SUBSET Endpoint
    BY <1>2 DEF Batch
<1>4. ToEach(left, batch.note) \o Tail(outbox[r]) \in Seq(Batch)
    BY <1>2, <1>3, ToEachType, ConcatType
<1>5. \A e \in Endpoint : Append(queue[e], batch.note) \in Seq(Notification)
    BY <1>3, AppendProperties DEF CommTypeOK
<1>6. /\ queue' = [queue EXCEPT ![receiver] = Append(@, batch.note)]
      /\ outbox' = [outbox EXCEPT ![r] = ToEach(left, batch.note) \o Tail(@)]
    BY DEF Push
<1> HIDE DEF batch, receiver, left
<1>7. queue' \in [Endpoint -> Seq(Notification)]
    BY <1>5, <1>6 DEF CommTypeOK
<1>8. outbox' \in [LRT -> Seq(Batch)]
    BY <1>4, <1>6 DEF CommTypeOK
<1> QED
    BY <1>7, <1>8 DEF CommTypeOK

-----------------------------------------------------------------------------
(* The steps of a runner                                                   *)

\* What the types say of one runner.
LEMMA RunnerFields ==
    ASSUME RunnerTypeOK, NEW r \in LRT
    PROVE  /\ runner[r] \in RunnerState
           /\ runner[r].jobQueue \in Seq(Task)
           /\ Len(runner[r].jobQueue) \in Nat
           /\ runner[r].jobQueueCurrentPos \in Nat
           /\ runner[r].lastJobStamp \in Int
BY LenProperties DEF RunnerTypeOK, RunnerState, Stamp

LEMMA ReceivedType ==
    ASSUME CommTypeOK, NEW r \in LRT, NEW type, Received(r, type)
    PROVE  /\ CommTypeOK'
           /\ Head(queue[r]) \in Notification
           /\ Head(queue[r]).type = type
<1>1. r \in Endpoint /\ Pop(r, type) /\ outbox' = outbox
    BY EndpointType DEF Received
<1> QED
    BY <1>1, PopType DEF CommTypeOK

\* The job a runner is about to run, or runs, is a task.
LEMMA CurrentJobType ==
    ASSUME RunnerTypeOK, NEW r \in LRT,
           runner[r].jobQueueCurrentPos < Len(runner[r].jobQueue)
    PROVE  CurrentJob(r) \in Task
<1>1. runner[r].jobQueueCurrentPos + 1 \in 1 .. Len(runner[r].jobQueue)
    BY RunnerFields
<1> QED
    BY <1>1, RunnerFields, ElementOfSeq DEF CurrentJob

LEMMA StampsType ==
    ASSUME RunnerTypeOK, NEW r \in LRT, NEW l, NEW job \in Int
    PROVE  UpdatedStamp(r, l, job) \in [LRT -> [LRT -> Stamp]]
BY DEF UpdatedStamp, RunnerTypeOK, Stamp

LEMMA NoStampsType == NoStamps \in [LRT -> Stamp]
BY EndpointType DEF NoStamps, Stamp

\* The rest of a runner's step, once its queues and its members are dealt with.
LEMMA RunnerStepType ==
    ASSUME RunnerTypeOK, NEW r \in LRT, NEW m \in RunnerState,
           runner' = [runner EXCEPT ![r] = m],
           m.jobQueueCurrentPos <= Len(m.jobQueue),
           NEW label \in RunnerPC \cup GRTPC, pc' = [pc EXCEPT ![r] = label],
           r # GRTIx => label \in RunnerPC,
           label = "Kernel" => m.jobQueueCurrentPos < Len(m.jobQueue),
           stamps' \in [LRT -> [LRT -> Stamp]],
           waitForJob' \in [LRT -> BOOLEAN], blockingPop' \in [LRT -> BOOLEAN],
           done' \in SUBSET Task
    PROVE  RunnerTypeOK'
<1>1. /\ runner' \in [LRT -> RunnerState]
      /\ pc' \in [LRT -> RunnerPC \cup GRTPC]
      /\ \A q \in LRT \ {GRTIx} : pc'[q] \in RunnerPC
    BY DEF RunnerTypeOK
<1>2. /\ runner'[r] = m /\ pc'[r] = label
      /\ \A q \in LRT \ {r} : runner'[q] = runner[q] /\ pc'[q] = pc[q]
    BY DEF RunnerTypeOK
<1>3. \A q \in LRT : /\ runner'[q].jobQueueCurrentPos <= Len(runner'[q].jobQueue)
                     /\ pc'[q] = "Kernel" => runner'[q].jobQueueCurrentPos
                                                < Len(runner'[q].jobQueue)
    BY <1>2 DEF RunnerTypeOK
<1> QED
    BY <1>1, <1>3 DEF RunnerTypeOK

\* A notification that changes the members of the runner to m.
LEMMA ReceivedStepType ==
    ASSUME CommTypeOK, RunnerTypeOK, NEW r \in LRT, NEW type, Received(r, type),
           NEW m \in RunnerState, runner' = [runner EXCEPT ![r] = m],
           m.jobQueueCurrentPos <= Len(m.jobQueue),
           stamps' \in [LRT -> [LRT -> Stamp]],
           pc' = pc \/ pc' = [pc EXCEPT ![r] = "Thrown"]
                    \/ pc' = [pc EXCEPT ![r] = "Stopped"]
    PROVE  CommTypeOK' /\ RunnerTypeOK'
<1>1. CommTypeOK'
    BY ReceivedType
<1>2. /\ pc[r] = "Read"
      /\ blockingPop' \in [LRT -> BOOLEAN] /\ UNCHANGED <<waitForJob, done>>
    BY DEF Received, Reading, RunnerTypeOK
<1>3. PICK label \in {"Read", "Thrown", "Stopped"} : pc' = [pc EXCEPT ![r] = label]
    <2>1. pc = [pc EXCEPT ![r] = "Read"]
        BY <1>2 DEF RunnerTypeOK
    <2> QED
        BY <2>1
<1>4. label \in RunnerPC /\ label # "Kernel"
    BY <1>3 DEF RunnerPC
<1>5. waitForJob' \in [LRT -> BOOLEAN] /\ done' \in SUBSET Task
    BY <1>2 DEF RunnerTypeOK
<1> HIDE DEF RunnerPC
<1>6. RunnerTypeOK'
    BY <1>2, <1>3, <1>4, <1>5, RunnerStepType
<1> QED
    BY <1>1, <1>6

LEMMA ReadStartType ==
    ASSUME CommTypeOK, RunnerTypeOK, NEW r \in LRT, ReadStart(r)
    PROVE  CommTypeOK' /\ RunnerTypeOK'
<1>1. CASE runner[r].finished
    <2> DEFINE m == [runner[r] EXCEPT !.start = TRUE, !.finished = FALSE,
                                      !.jobCount = 0, !.jobQueueCurrentPos = 0]
    <2>1. m \in RunnerState
        BY RunnerFields DEF RunnerState
    <2>2. m.jobQueueCurrentPos = 0 /\ m.jobQueue = runner[r].jobQueue
        BY RunnerFields DEF RunnerState
    <2>3. m.jobQueueCurrentPos <= Len(m.jobQueue)
        BY <2>2, RunnerFields
    <2>4. /\ Received(r, "LRT_START_ITERATION")
          /\ runner' = [runner EXCEPT ![r] = m]
          /\ UNCHANGED <<stamps, pc>>
        BY <1>1 DEF ReadStart
    <2>5. stamps' \in [LRT -> [LRT -> Stamp]]
        BY <2>4 DEF RunnerTypeOK
    <2> HIDE DEF m
    <2> QED
        BY <2>1, <2>3, <2>4, <2>5, ReceivedStepType
<1>2. CASE ~runner[r].finished
    <2>1. /\ pc[r] = "Read"
          /\ queue[r] # << >>
          /\ queue' = [queue EXCEPT ![r] = Append(Tail(@), Head(@))]
          /\ pc' = [pc EXCEPT ![r] = "Check"]
          /\ UNCHANGED <<outbox, runner, stamps, waitForJob, blockingPop, done>>
        BY <1>2 DEF ReadStart, Reading
    <2>2. queue[r] \in Seq(Notification)
        BY EndpointType DEF CommTypeOK
    <2>3. Append(Tail(queue[r]), Head(queue[r])) \in Seq(Notification)
        BY <2>1, <2>2, HeadTailProperties, AppendProperties
    <2>4. CommTypeOK'
        BY <2>1, <2>3 DEF CommTypeOK
    <2>5. /\ pc' \in [LRT -> RunnerPC \cup GRTPC]
          /\ \A q \in LRT \ {GRTIx} : pc'[q] \in RunnerPC
          /\ \A q \in LRT : pc'[q] = "Kernel" => pc[q] = "Kernel"
        BY <2>1 DEF RunnerTypeOK, RunnerPC
    <2> QED
        BY <2>1, <2>4, <2>5 DEF RunnerTypeOK
<1> QED
    BY <1>1, <1>2

LEMMA ReadEndType ==
    ASSUME CommTypeOK, RunnerTypeOK, NEW r \in LRT, ReadEnd(r)
    PROVE  CommTypeOK' /\ RunnerTypeOK'
<1> DEFINE m == [runner[r] EXCEPT !.receivedEnd = TRUE,
                                  !.jobCount = Len(runner[r].jobQueue)]
<1>1. Received(r, "LRT_END_ITERATION") /\ stamps' \in [LRT -> [LRT -> Stamp]]
    BY DEF ReadEnd, RunnerTypeOK
<1>2. CASE runner[r].start
    <2>1. m \in RunnerState
        BY RunnerFields DEF RunnerState
    <2>2. m.jobQueueCurrentPos <= Len(m.jobQueue)
        BY RunnerFields DEF RunnerState, RunnerTypeOK
    <2>3. runner' = [runner EXCEPT ![r] = m] /\ pc' = pc
        BY <1>2 DEF ReadEnd
    <2> HIDE DEF m
    <2> QED
        BY <1>1, <2>1, <2>2, <2>3, ReceivedStepType
<1>3. CASE ~runner[r].start
    <2>1. runner' = [runner EXCEPT ![r] = runner[r]]
        BY <1>3 DEF ReadEnd, RunnerTypeOK
    <2>2. runner[r].jobQueueCurrentPos <= Len(runner[r].jobQueue)
        BY DEF RunnerTypeOK
    <2>3. pc' = [pc EXCEPT ![r] = "Thrown"]
        BY <1>3 DEF ReadEnd
    <2> QED
        BY <1>1, <2>1, <2>2, <2>3, RunnerFields, ReceivedStepType
<1> QED
    BY <1>2, <1>3

LEMMA ClearedType ==
    ASSUME NEW m \in RunnerState
    PROVE  /\ Cleared(m) \in RunnerState
           /\ Cleared(m).jobQueueCurrentPos = 0
           /\ Cleared(m).jobQueue = m.jobQueue
BY EndpointType DEF Cleared, RunnerState, Stamp

LEMMA EmptiedType ==
    ASSUME NEW m \in RunnerState
    PROVE  /\ [m EXCEPT !.jobQueue = << >>] \in RunnerState
           /\ [m EXCEPT !.jobQueue = << >>].jobQueueCurrentPos = m.jobQueueCurrentPos
           /\ [m EXCEPT !.jobQueue = << >>].jobQueue = << >>
<1>1. << >> \in Seq(Task)
    OBVIOUS
<1> QED
    BY <1>1 DEF RunnerState

LEMMA ReadClearType ==
    ASSUME CommTypeOK, RunnerTypeOK, NEW r \in LRT, ReadClear(r)
    PROVE  CommTypeOK' /\ RunnerTypeOK'
<1> DEFINE m == [Cleared(runner[r]) EXCEPT !.jobQueue = << >>]
<1>1. Cleared(runner[r]) \in RunnerState /\ Cleared(runner[r]).jobQueueCurrentPos = 0
    BY RunnerFields, ClearedType
<1>2. m \in RunnerState /\ m.jobQueueCurrentPos = 0 /\ m.jobQueue = << >>
    BY <1>1, EmptiedType
<1>3. m.jobQueueCurrentPos <= Len(m.jobQueue)
    BY <1>2
<1>4. /\ Received(r, "LRT_CLEAR_ITERATION")
      /\ runner' = [runner EXCEPT ![r] = m] /\ pc' = pc
    BY DEF ReadClear
<1>5. stamps' \in [LRT -> [LRT -> Stamp]]
    BY NoStampsType DEF ReadClear, RunnerTypeOK
<1> HIDE DEF m
<1> QED
    BY <1>2, <1>3, <1>4, <1>5, ReceivedStepType

LEMMA ReadResetType ==
    ASSUME CommTypeOK, RunnerTypeOK, NEW r \in LRT, ReadReset(r)
    PROVE  CommTypeOK' /\ RunnerTypeOK'
<1> DEFINE m == Cleared(runner[r])
<1>1. m \in RunnerState /\ m.jobQueueCurrentPos = 0 /\ m.jobQueue = runner[r].jobQueue
    BY RunnerFields, ClearedType
<1>2. m.jobQueueCurrentPos <= Len(m.jobQueue)
    BY <1>1, RunnerFields
<1>3. /\ Received(r, "LRT_RST_ITERATION")
      /\ runner' = [runner EXCEPT ![r] = m] /\ pc' = pc
    BY DEF ReadReset
<1>4. stamps' \in [LRT -> [LRT -> Stamp]]
    BY NoStampsType DEF ReadReset, RunnerTypeOK
<1> HIDE DEF m
<1> QED
    BY <1>1, <1>2, <1>3, <1>4, ReceivedStepType

LEMMA ReadRepeatType ==
    ASSUME CommTypeOK, RunnerTypeOK, NEW r \in LRT, ReadRepeat(r)
    PROVE  CommTypeOK' /\ RunnerTypeOK'
<1> DEFINE m == [runner[r] EXCEPT !.repeat = TRUE]
<1>1. m \in RunnerState /\ m.jobQueueCurrentPos <= Len(m.jobQueue)
    BY RunnerFields DEF RunnerState, RunnerTypeOK
<1>2. /\ Received(r, "LRT_REPEAT_ITERATION_EN") /\ pc' = pc
      /\ runner' = [runner EXCEPT ![r] = m]
      /\ stamps' \in [LRT -> [LRT -> Stamp]]
    BY DEF ReadRepeat, RunnerTypeOK
<1> HIDE DEF m
<1> QED
    BY <1>1, <1>2, ReceivedStepType

LEMMA ReadStopType ==
    ASSUME CommTypeOK, RunnerTypeOK, NEW r \in LRT, ReadStop(r)
    PROVE  CommTypeOK' /\ RunnerTypeOK'
<1>1. runner[r] \in RunnerState
      /\ runner[r].jobQueueCurrentPos <= Len(runner[r].jobQueue)
    BY RunnerFields DEF RunnerTypeOK
<1>2. /\ Received(r, "LRT_STOP") /\ pc' = [pc EXCEPT ![r] = "Stopped"]
      /\ runner' = [runner EXCEPT ![r] = runner[r]]
      /\ stamps' \in [LRT -> [LRT -> Stamp]]
    BY DEF ReadStop, RunnerTypeOK
<1> QED
    BY <1>1, <1>2, ReceivedStepType

LEMMA ReadJobAddType ==
    ASSUME CommTypeOK, RunnerTypeOK, NEW r \in LRT, ReadJobAdd(r)
    PROVE  CommTypeOK' /\ RunnerTypeOK'
<1> DEFINE t == Head(queue[r]).notificationIx
           m == [runner[r] EXCEPT !.jobQueue = Append(@, t)]
<1>1. /\ Received(r, "JOB_ADD") /\ pc' = pc
      /\ stamps' \in [LRT -> [LRT -> Stamp]]
    BY DEF ReadJobAdd, RunnerTypeOK
<1>2. t \in Task
    BY <1>1, ReceivedType DEF Notification
<1>3. /\ runner[r] \in RunnerState
      /\ runner[r].jobQueueCurrentPos <= Len(runner[r].jobQueue)
    BY RunnerFields DEF RunnerTypeOK
<1>4. CASE runner[r].start
    <2>1. /\ Append(runner[r].jobQueue, t) \in Seq(Task)
          /\ Len(Append(runner[r].jobQueue, t)) = Len(runner[r].jobQueue) + 1
        BY <1>2, RunnerFields, AppendProperties
    <2>2. /\ m \in RunnerState
          /\ m.jobQueue = Append(runner[r].jobQueue, t)
          /\ m.jobQueueCurrentPos = runner[r].jobQueueCurrentPos
        BY <1>3, <2>1 DEF RunnerState
    <2>3. m.jobQueueCurrentPos <= Len(m.jobQueue)
        BY <1>3, <2>1, <2>2, RunnerFields
    <2>4. runner' = [runner EXCEPT ![r] = m]
        BY <1>4 DEF ReadJobAdd, RunnerTypeOK, RunnerState
    <2> HIDE DEF m
    <2> QED
        BY <1>1, <2>2, <2>3, <2>4, ReceivedStepType
<1>5. CASE ~runner[r].start
    <2>1. runner' = [runner EXCEPT ![r] = runner[r]]
        BY <1>5 DEF ReadJobAdd, RunnerTypeOK
    <2> QED
        BY <1>1, <1>3, <2>1, ReceivedStepType
<1> QED
    BY <1>4, <1>5

LEMMA ReadDelayBroadcastType ==
    ASSUME CommTypeOK, RunnerTypeOK, NEW r \in LRT, ReadDelayBroadcast(r)
    PROVE  CommTypeOK' /\ RunnerTypeOK'
<1> DEFINE m == [runner[r] EXCEPT !.shouldBroadcast = TRUE]
<1>1. m \in RunnerState /\ m.jobQueueCurrentPos <= Len(m.jobQueue)
    BY RunnerFields DEF RunnerState, RunnerTypeOK
<1>2. /\ Received(r, "JOB_DELAY_BROADCAST_JOBSTAMP") /\ pc' = pc
      /\ runner' = [runner EXCEPT ![r] = m]
      /\ stamps' \in [LRT -> [LRT -> Stamp]]
    BY DEF ReadDelayBroadcast, RunnerTypeOK
<1> HIDE DEF m
<1> QED
    BY <1>1, <1>2, ReceivedStepType

LEMMA ReadJobStampType ==
    ASSUME CommTypeOK, RunnerTypeOK, NEW r \in LRT, ReadJobStamp(r)
    PROVE  CommTypeOK' /\ RunnerTypeOK'
<1>1. Received(r, "JOB_UPDATE_JOBSTAMP") /\ pc' = pc /\ runner' = runner
    BY DEF ReadJobStamp
<1>2. /\ runner[r] \in RunnerState
      /\ runner[r].jobQueueCurrentPos <= Len(runner[r].jobQueue)
      /\ runner' = [runner EXCEPT ![r] = runner[r]]
    BY <1>1, RunnerFields DEF RunnerTypeOK
<1>3. Head(queue[r]).notificationIx \in Int
    BY <1>1, ReceivedType DEF Notification
<1>4. stamps' \in [LRT -> [LRT -> Stamp]]
    BY <1>3, StampsType DEF ReadJobStamp
<1> QED
    BY <1>1, <1>2, <1>4, ReceivedStepType

\* A step that moves the thread of r to a label and leaves its members alone.
LEMMA MoveType ==
    ASSUME RunnerTypeOK, NEW r \in LRT, NEW label \in RunnerPC \cup GRTPC,
           pc' = [pc EXCEPT ![r] = label], r # GRTIx => label \in RunnerPC,
           label = "Kernel" =>
               runner[r].jobQueueCurrentPos < Len(runner[r].jobQueue),
           runner' = runner, stamps' = stamps, done' \in SUBSET Task,
           waitForJob' \in [LRT -> BOOLEAN], blockingPop' \in [LRT -> BOOLEAN]
    PROVE  RunnerTypeOK'
<1>1. /\ runner[r] \in RunnerState
      /\ runner[r].jobQueueCurrentPos <= Len(runner[r].jobQueue)
      /\ runner' = [runner EXCEPT ![r] = runner[r]]
      /\ stamps' \in [LRT -> [LRT -> Stamp]]
    BY RunnerFields DEF RunnerTypeOK
<1> QED
    BY <1>1, RunnerStepType

LEMMA NothingToReadType ==
    ASSUME CommTypeOK, RunnerTypeOK, NEW r \in LRT, NothingToRead(r)
    PROVE  CommTypeOK' /\ RunnerTypeOK'
<1>1. /\ pc' = [pc EXCEPT ![r] = "Check"]
      /\ UNCHANGED <<queue, outbox, runner, stamps, waitForJob, blockingPop, done>>
    BY DEF NothingToRead, commVars
<1>2. "Check" \in RunnerPC
    BY DEF RunnerPC
<1>3. /\ waitForJob' \in [LRT -> BOOLEAN] /\ blockingPop' \in [LRT -> BOOLEAN]
      /\ done' \in SUBSET Task /\ CommTypeOK'
    BY <1>1 DEF RunnerTypeOK, CommTypeOK
<1> QED
    BY <1>1, <1>2, <1>3, MoveType

LEMMA StartJobType ==
    ASSUME CommTypeOK, RunnerTypeOK, NEW r \in LRT, StartJob(r)
    PROVE  CommTypeOK' /\ RunnerTypeOK'
<1>1. /\ HasJob(r) /\ pc' = [pc EXCEPT ![r] = "Kernel"]
      /\ UNCHANGED <<queue, outbox, runner, stamps, blockingPop, done>>
    BY DEF StartJob, commVars
<1>2. runner[r].jobQueueCurrentPos < Len(runner[r].jobQueue)
    BY <1>1, RunnerFields DEF HasJob, RunnerTypeOK
<1>3. "Kernel" \in RunnerPC
    BY DEF RunnerPC
<1>4. /\ waitForJob' \in [LRT -> BOOLEAN] /\ blockingPop' \in [LRT -> BOOLEAN]
      /\ done' \in SUBSET Task /\ CommTypeOK'
    BY <1>1 DEF StartJob, RunnerTypeOK, CommTypeOK
<1> QED
    BY <1>1, <1>2, <1>3, <1>4, MoveType

LEMMA WaitJobType ==
    ASSUME CommTypeOK, RunnerTypeOK, NEW r \in LRT, WaitJob(r)
    PROVE  CommTypeOK' /\ RunnerTypeOK'
<1>1. /\ UNCHANGED <<queue, outbox, runner, stamps, blockingPop, done>>
      /\ waitForJob' = [waitForJob EXCEPT ![r] = TRUE]
    BY DEF WaitJob, commVars
<1>2. PICK label \in {"Thrown", "Finish"} : pc' = [pc EXCEPT ![r] = label]
    BY DEF WaitJob
<1>3. label \in RunnerPC /\ label # "Kernel"
    BY <1>2 DEF RunnerPC
<1>4. /\ waitForJob' \in [LRT -> BOOLEAN] /\ blockingPop' \in [LRT -> BOOLEAN]
      /\ done' \in SUBSET Task /\ CommTypeOK'
    BY <1>1 DEF RunnerTypeOK, CommTypeOK
<1> QED
    BY <1>1, <1>2, <1>3, <1>4, MoveType

LEMMA NoJobType ==
    ASSUME CommTypeOK, RunnerTypeOK, NEW r \in LRT, NoJob(r)
    PROVE  CommTypeOK' /\ RunnerTypeOK'
<1>1. /\ pc' = [pc EXCEPT ![r] = "Finish"]
      /\ UNCHANGED <<queue, outbox, runner, stamps, waitForJob, blockingPop, done>>
    BY DEF NoJob, commVars
<1>2. "Finish" \in RunnerPC
    BY DEF RunnerPC
<1>3. /\ waitForJob' \in [LRT -> BOOLEAN] /\ blockingPop' \in [LRT -> BOOLEAN]
      /\ done' \in SUBSET Task /\ CommTypeOK'
    BY <1>1 DEF RunnerTypeOK, CommTypeOK
<1> QED
    BY <1>1, <1>2, <1>3, MoveType

LEMMA TaskType == Task \subseteq Nat /\ Task \subseteq Int
BY TaskAssumption

LEMMA ExecIxType ==
    ASSUME NEW t \in Task
    PROVE  ExecIx[t] \in Nat /\ SynchronizationFlags[t] \subseteq LRT
BY MappingAssumption, JobExecIxType, NotificationFlagsType
   DEF ExecIx, SynchronizationFlags

LEMMA EndJobType ==
    ASSUME CommTypeOK, RunnerTypeOK, NEW r \in LRT, EndJob(r)
    PROVE  CommTypeOK' /\ RunnerTypeOK'
<1> DEFINE t == CurrentJob(r)
           stampNote == Notify("JOB_UPDATE_JOBSTAMP", r, ExecIx[t])
           paramNote == Notify("JOB_SENT_PARAM", r, t)
           batches == ToEach(SynchronizationFlags[t] \ {r}, stampNote)
                      \o ToEach(IF t \in ConfigTask THEN {ParamQueue} ELSE {},
                                paramNote)
           m == [runner[r] EXCEPT !.lastJobStamp = ExecIx[t],
                                  !.jobQueueCurrentPos = @ + 1]
<1>1. runner[r].jobQueueCurrentPos < Len(runner[r].jobQueue)
    BY DEF EndJob, RunnerTypeOK
<1>2. t \in Task
    BY <1>1, CurrentJobType
<1>3. ExecIx[t] \in Int /\ SynchronizationFlags[t] \ {r} \in SUBSET Endpoint
    <2> HIDE DEF t
    <2>1. ExecIx[t] \in Nat /\ SynchronizationFlags[t] \subseteq LRT
        BY <1>2, ExecIxType
    <2>2. ExecIx[t] \in Int
        BY <2>1
    <2>3. SynchronizationFlags[t] \ {r} \in SUBSET Endpoint
        BY <2>1, EndpointType, Zenon
    <2> QED
        BY <2>2, <2>3
<1>4. stampNote \in Notification /\ paramNote \in Notification
    <2>1. t \in Int
        BY <1>2, TaskType
    <2> QED
        BY <1>2, <1>3, <2>1, NotifyType DEF NotificationType
<1>5. batches \in Seq(Batch)
    <2>1. (IF t \in ConfigTask THEN {ParamQueue} ELSE {}) \in SUBSET Endpoint
        BY EndpointType
    <2> HIDE DEF stampNote, paramNote
    <2> QED
        BY <1>3, <1>4, <2>1, ToEachType, ConcatType
<1>6. /\ outbox' = [outbox EXCEPT ![r] = batches]
      /\ runner' = [runner EXCEPT ![r] = m]
      /\ stamps' = UpdatedStamp(r, r, ExecIx[t])
      /\ done' = done \cup {t}
      /\ pc' = [pc EXCEPT ![r] = "Finish"]
      /\ UNCHANGED <<queue, waitForJob, blockingPop>>
    <2>1. outbox' = [outbox EXCEPT ![r] = batches]
        BY DEF EndJob
    <2>2. runner' = [runner EXCEPT ![r] = m]
        BY DEF EndJob, RunnerTypeOK, RunnerState
    <2>3. /\ stamps' = UpdatedStamp(r, r, ExecIx[t])
          /\ done' = done \cup {t}
          /\ pc' = [pc EXCEPT ![r] = "Finish"]
          /\ UNCHANGED <<queue, waitForJob, blockingPop>>
        BY DEF EndJob
    <2> QED
        BY <2>1, <2>2, <2>3
<1>7. CommTypeOK'
    <2> HIDE DEF batches
    <2> QED
        BY <1>5, <1>6 DEF CommTypeOK
<1>8. m \in RunnerState
    <2>1. runner[r].jobQueueCurrentPos + 1 \in Nat
        BY RunnerFields
    <2> HIDE DEF t
    <2> QED
        BY <1>3, <2>1, RunnerFields DEF RunnerState, Stamp
<1>9. m.jobQueueCurrentPos <= Len(m.jobQueue)
    BY <1>1, RunnerFields DEF RunnerState
<1>10. stamps' \in [LRT -> [LRT -> Stamp]]
    BY <1>3, <1>6, StampsType
<1>11. "Finish" \in RunnerPC
    BY DEF RunnerPC
<1>12. /\ waitForJob' \in [LRT -> BOOLEAN] /\ blockingPop' \in [LRT -> BOOLEAN]
       /\ done' \in SUBSET Task
    BY <1>2, <1>6 DEF RunnerTypeOK
<1> HIDE DEF m
<1>13. RunnerTypeOK'
    BY <1>6, <1>8, <1>9, <1>10, <1>11, <1>12, RunnerStepType
<1> QED
    BY <1>7, <1>13

LEMMA BroadcastType ==
    ASSUME RunnerTypeOK, NEW r \in LRT
    PROVE  Broadcast(r) \in Seq(Batch)
<1>1. runner[r].lastJobStamp \in Int /\ LRT \ {r} \in SUBSET Endpoint
    BY RunnerFields, EndpointType
<1>2. Notify("JOB_UPDATE_JOBSTAMP", r, runner[r].lastJobStamp) \in Notification
    BY <1>1, NotifyType DEF NotificationType
<1>3. << >> \in Seq(Batch)
    OBVIOUS
<1> QED
    BY <1>1, <1>2, <1>3, ToEachType DEF Broadcast

LEMMA ClosingBatchesType ==
    ASSUME RunnerTypeOK, NEW r \in LRT
    PROVE  ClosingBatches(r) \in Seq(Batch)
<1>1. NoStamp \in Int /\ {GRTIx} \in SUBSET Endpoint
    BY EndpointType
<1>2. Notify("LRT_FINISHED_ITERATION", r, NoStamp) \in Notification
    BY <1>1, NotifyType DEF NotificationType
<1> QED
    BY <1>1, <1>2, ToEachType, BroadcastType, ConcatType DEF ClosingBatches

LEMMA ClosedType ==
    ASSUME NEW m \in RunnerState, m.jobQueueCurrentPos <= Len(m.jobQueue)
    PROVE  /\ Closed(m) \in RunnerState
           /\ Closed(m).jobQueueCurrentPos <= Len(Closed(m).jobQueue)
<1>1. << >> \in Seq(Task) /\ Len(<< >>) = 0
    BY EmptySeq
<1>2. Closed(m) \in RunnerState
    BY <1>1 DEF Closed, RunnerState
<1>3. Closed(m).jobQueueCurrentPos <= Len(Closed(m).jobQueue)
    <2>1. CASE m.repeat
        BY <2>1 DEF Closed, RunnerState
    <2>2. CASE ~m.repeat
        <3>1. Closed(m).jobQueueCurrentPos = 0 /\ Closed(m).jobQueue = << >>
            BY <2>2 DEF Closed, RunnerState
        <3> QED
            BY <1>1, <3>1
    <2> QED
        BY <2>1, <2>2
<1> QED
    BY <1>2, <1>3

LEMMA FinishIterationType ==
    ASSUME CommTypeOK, RunnerTypeOK, NEW r \in LRT, FinishIteration(r)
    PROVE  CommTypeOK' /\ RunnerTypeOK'
<1>1. /\ runner' = [runner EXCEPT ![r] = Closed(runner[r])]
      /\ outbox' = [outbox EXCEPT ![r] = ClosingBatches(r)]
      /\ pc' = [pc EXCEPT ![r] = "Read"]
      /\ blockingPop' = [blockingPop EXCEPT ![r] = TRUE]
      /\ UNCHANGED <<queue, stamps, waitForJob, done>>
    BY DEF FinishIteration
<1>2. CommTypeOK'
    BY <1>1, ClosingBatchesType DEF CommTypeOK
<1>3. /\ Closed(runner[r]) \in RunnerState
      /\ Closed(runner[r]).jobQueueCurrentPos <= Len(Closed(runner[r]).jobQueue)
    BY RunnerFields, ClosedType DEF RunnerTypeOK
<1>4. "Read" \in RunnerPC
    BY DEF RunnerPC
<1>5. /\ waitForJob' \in [LRT -> BOOLEAN] /\ blockingPop' \in [LRT -> BOOLEAN]
      /\ done' \in SUBSET Task /\ stamps' \in [LRT -> [LRT -> Stamp]]
    BY <1>1 DEF RunnerTypeOK
<1>6. RunnerTypeOK'
    BY <1>1, <1>3, <1>4, <1>5, RunnerStepType
<1> QED
    BY <1>2, <1>6

LEMMA ContinueType ==
    ASSUME CommTypeOK, RunnerTypeOK, NEW r \in LRT, Continue(r)
    PROVE  CommTypeOK' /\ RunnerTypeOK'
<1>1. /\ pc' = [pc EXCEPT ![r] = "Read"]
      /\ UNCHANGED <<queue, outbox, runner, stamps, waitForJob, done>>
    BY DEF Continue, commVars
<1>2. "Read" \in RunnerPC
    BY DEF RunnerPC
<1>3. ((InfiniteLoop(r) /\ runner[r].finished) \/ waitForJob[r]) \in BOOLEAN
    OBVIOUS
<1>4. blockingPop' \in [LRT -> BOOLEAN]
    BY <1>3 DEF Continue, RunnerTypeOK
<1>5. /\ waitForJob' \in [LRT -> BOOLEAN]
      /\ done' \in SUBSET Task /\ CommTypeOK'
    BY <1>1 DEF RunnerTypeOK, CommTypeOK
<1> QED
    BY <1>1, <1>2, <1>4, <1>5, MoveType

\* Every step of a runner keeps the types, whether the runner is the GRT or not.
LEMMA RunnerNextType ==
    ASSUME CommTypeOK, RunnerTypeOK, NEW r \in LRT, RunnerStep(r)
    PROVE  CommTypeOK' /\ RunnerTypeOK'
<1>1. CASE Push(r) /\ UNCHANGED runnerVars
    BY <1>1, PushType DEF runnerVars, RunnerTypeOK
<1>2. CASE ReadNotification(r)
    BY <1>2, ReadStartType, ReadEndType, ReadClearType, ReadResetType,
       ReadRepeatType, ReadStopType, ReadJobAddType, ReadDelayBroadcastType,
       ReadJobStampType DEF ReadNotification
<1>3. CASE \/ NothingToRead(r) \/ StartJob(r) \/ WaitJob(r) \/ NoJob(r)
           \/ EndJob(r) \/ FinishIteration(r) \/ Continue(r)
    BY <1>3, NothingToReadType, StartJobType, WaitJobType, NoJobType,
       EndJobType, FinishIterationType, ContinueType
<1> QED
    BY <1>1, <1>2, <1>3 DEF RunnerStep

\* A runner's step moves its own thread only, and only from within run().
LEMMA RunnerStepMoves ==
    ASSUME NEW r \in LRT, RunnerStep(r)
    PROVE  \/ pc' = pc
           \/ /\ pc[r] \in {"Read", "Check", "Kernel", "Finish"}
              /\ \E label \in RunnerPC : pc' = [pc EXCEPT ![r] = label]
<1>1. CASE Push(r) /\ UNCHANGED runnerVars
    BY <1>1 DEF runnerVars
<1>2. CASE ReadNotification(r)
    BY <1>2 DEF ReadNotification, ReadStart, ReadEnd, ReadClear, ReadReset,
       ReadRepeat, ReadStop, ReadJobAdd, ReadDelayBroadcast, ReadJobStamp,
       Received, Reading, RunnerPC
<1>3. CASE \/ NothingToRead(r) \/ StartJob(r) \/ WaitJob(r) \/ NoJob(r)
           \/ EndJob(r) \/ FinishIteration(r) \/ Continue(r)
    BY <1>3 DEF NothingToRead, Reading, StartJob, WaitJob, NoJob, EndJob,
       FinishIteration, Continue, RunnerPC
<1> QED
    BY <1>1, <1>2, <1>3 DEF RunnerStep

-----------------------------------------------------------------------------
(* The steps of the GRT                                                    *)

\* The labels between two executions.
Outside == {"App", "Execute", "Join", "Exited"}

LEMMA RunnerStepGRT ==
    ASSUME TypeOK, NEW r \in LRT, RunnerStep(r), UNCHANGED grtVars
    PROVE  TypeOK'
<1>1. CommTypeOK' /\ RunnerTypeOK'
    BY RunnerNextType DEF TypeOK
<1>2. pc'[GRTIx] \notin Outside => pc[GRTIx] \notin Outside
    <2>1. pc \in [LRT -> RunnerPC \cup GRTPC] /\ GRTIx \in LRT
        BY GRTAssumption DEF TypeOK, RunnerTypeOK
    <2>2. CASE pc' = pc
        BY <2>2
    <2>3. CASE /\ pc[r] \in {"Read", "Check", "Kernel", "Finish"}
               /\ \E label \in RunnerPC : pc' = [pc EXCEPT ![r] = label]
        BY <2>1, <2>3 DEF Outside
    <2> QED
        BY <2>2, <2>3, RunnerStepMoves
<1>3. GRTTypeOK'
    BY <1>2 DEF TypeOK, GRTTypeOK, grtVars, Outside
<1> QED
    BY <1>1, <1>3 DEF TypeOK

\* Steps that push batches, move the GRT and leave the runners' members alone.
LEMMA GRTMoves ==
    ASSUME TypeOK, queue' = queue, NEW batches \in Seq(Batch),
           outbox' = [outbox EXCEPT ![GRTIx] = batches],
           NEW label \in RunnerPC \cup GRTPC, label # "Kernel",
           pc' = [pc EXCEPT ![GRTIx] = label],
           UNCHANGED <<runner, stamps>>, done' \in SUBSET Task,
           waitForJob' \in [LRT -> BOOLEAN], blockingPop' \in [LRT -> BOOLEAN]
    PROVE  CommTypeOK' /\ RunnerTypeOK' /\ pc'[GRTIx] = label
<1>1. CommTypeOK'
    BY DEF TypeOK, CommTypeOK
<1>2. RunnerTypeOK' /\ pc'[GRTIx] = label
    BY MoveType, GRTAssumption DEF TypeOK, RunnerTypeOK
<1> QED
    BY <1>1, <1>2

LEMMA NoBatch == << >> \in Seq(Batch)
OBVIOUS

LEMMA ReadyOutbox ==
    ASSUME TypeOK, NEW label, At(label), outbox' = outbox
    PROVE  outbox' = [outbox EXCEPT ![GRTIx] = << >>]
BY DEF TypeOK, CommTypeOK, At, Ready

LEMMA CallRunType ==
    ASSUME TypeOK, NEW c \in Context, CallRun(c)
    PROVE  TypeOK'
<1>1. /\ At("App") /\ GoTo("Execute")
      /\ UNCHANGED <<queue, outbox, runner, stamps, waitForJob, blockingPop, done>>
    BY DEF CallRun, commVars
<1>2. outbox' = [outbox EXCEPT ![GRTIx] = << >>]
    BY <1>1, ReadyOutbox
<1>3. /\ waitForJob' \in [LRT -> BOOLEAN] /\ blockingPop' \in [LRT -> BOOLEAN]
      /\ done' \in SUBSET Task
    BY <1>1 DEF TypeOK, RunnerTypeOK
<1>4. "Execute" \in GRTPC /\ pc' = [pc EXCEPT ![GRTIx] = "Execute"]
    BY <1>1 DEF GRTPC, GoTo
<1>5. CommTypeOK' /\ RunnerTypeOK' /\ pc'[GRTIx] = "Execute"
    BY <1>1, <1>2, <1>3, <1>4, NoBatch, GRTMoves
<1>6. /\ context' = c /\ loopsLeft' = LoopCount[c] /\ runs' = runs + 1
      /\ UNCHANGED <<finishedRunner, notifVector, executing, iter, round,
                     toLaunch, readParam, stopRunning>>
    BY DEF CallRun
<1>7. LoopCount[c] \in Nat /\ runs + 1 \in Nat
    BY ContextAssumption DEF TypeOK, GRTTypeOK
<1>8. GRTTypeOK'
    BY <1>5, <1>6, <1>7 DEF TypeOK, GRTTypeOK
<1> QED
    BY <1>5, <1>8 DEF TypeOK

LEMMA RunReturnsType ==
    ASSUME TypeOK, RunReturns
    PROVE  TypeOK'
<1> DEFINE batches == IF RunMode[context] = "LOOP"
                      THEN ToAll("LRT_CLEAR_ITERATION") ELSE << >>
<1>1. batches \in Seq(Batch)
    BY ToAllType, NoBatch DEF NotificationType
<1>2. /\ outbox' = [outbox EXCEPT ![GRTIx] = batches]
      /\ pc' = [pc EXCEPT ![GRTIx] = "App"] /\ "App" \in GRTPC
      /\ UNCHANGED <<queue, runner, stamps, waitForJob, blockingPop, done, grtVars>>
    BY DEF RunReturns, GoTo, GRTPC
<1>3. /\ waitForJob' \in [LRT -> BOOLEAN] /\ blockingPop' \in [LRT -> BOOLEAN]
      /\ done' \in SUBSET Task
    BY <1>2 DEF TypeOK, RunnerTypeOK
<1> HIDE DEF batches
<1>4. CommTypeOK' /\ RunnerTypeOK' /\ pc'[GRTIx] = "App"
    BY <1>1, <1>2, <1>3, GRTMoves
<1>5. GRTTypeOK'
    BY <1>2, <1>4 DEF TypeOK, GRTTypeOK, grtVars
<1> QED
    BY <1>4, <1>5 DEF TypeOK

LEMMA QuitType ==
    ASSUME TypeOK, Quit
    PROVE  TypeOK'
<1>1. ToAll("LRT_STOP") \in Seq(Batch)
    BY ToAllType DEF NotificationType
<1>2. /\ outbox' = [outbox EXCEPT ![GRTIx] = ToAll("LRT_STOP")]
      /\ pc' = [pc EXCEPT ![GRTIx] = "Join"] /\ "Join" \in GRTPC
      /\ UNCHANGED <<queue, runner, stamps, waitForJob, blockingPop, done, grtVars>>
    BY DEF Quit, GoTo, GRTPC
<1>3. /\ waitForJob' \in [LRT -> BOOLEAN] /\ blockingPop' \in [LRT -> BOOLEAN]
      /\ done' \in SUBSET Task
    BY <1>2 DEF TypeOK, RunnerTypeOK
<1>4. CommTypeOK' /\ RunnerTypeOK' /\ pc'[GRTIx] = "Join"
    BY <1>1, <1>2, <1>3, GRTMoves
<1>5. GRTTypeOK'
    BY <1>2, <1>4 DEF TypeOK, GRTTypeOK, grtVars
<1> QED
    BY <1>4, <1>5 DEF TypeOK

LEMMA JoinType ==
    ASSUME TypeOK, Join
    PROVE  TypeOK'
<1>1. /\ At("Join")
      /\ pc' = [pc EXCEPT ![GRTIx] = "Exited"] /\ "Exited" \in GRTPC
      /\ UNCHANGED <<queue, outbox, runner, stamps, waitForJob, blockingPop, done,
                     grtVars>>
    BY DEF Join, GoTo, GRTPC, commVars
<1>2. outbox' = [outbox EXCEPT ![GRTIx] = << >>]
    BY <1>1, ReadyOutbox
<1>3. /\ waitForJob' \in [LRT -> BOOLEAN] /\ blockingPop' \in [LRT -> BOOLEAN]
      /\ done' \in SUBSET Task
    BY <1>1 DEF TypeOK, RunnerTypeOK
<1>4. CommTypeOK' /\ RunnerTypeOK' /\ pc'[GRTIx] = "Exited"
    BY <1>1, <1>2, <1>3, NoBatch, GRTMoves
<1>5. GRTTypeOK'
    BY <1>1, <1>4 DEF TypeOK, GRTTypeOK, grtVars
<1> QED
    BY <1>4, <1>5 DEF TypeOK

LEMMA InterruptType ==
    ASSUME TypeOK, Interrupt
    PROVE  TypeOK'
<1>1. UNCHANGED <<queue, outbox, runner, stamps, pc, waitForJob, blockingPop, done>>
    BY DEF Interrupt, commVars, runnerVars
<1>2. CommTypeOK' /\ RunnerTypeOK'
    BY <1>1 DEF TypeOK, CommTypeOK, RunnerTypeOK
<1>3. GRTTypeOK'
    BY <1>1 DEF Interrupt, TypeOK, GRTTypeOK
<1> QED
    BY <1>2, <1>3 DEF TypeOK

LEMMA StartRoundType ==
    ASSUME TypeOK, NEW c, NEW k \in Nat, StartRound(c, k),
           UNCHANGED <<queue, runner, stamps, waitForJob, blockingPop>>,
           done' \in SUBSET Task
    PROVE  /\ CommTypeOK' /\ RunnerTypeOK' /\ pc'[GRTIx] = "Launch"
           /\ toLaunch' \in SUBSET Task /\ round' \in Nat /\ readParam' \in Nat
<1> DEFINE enable == IF c \in StaticContext /\ ~iter[c]
                     THEN ToAll("LRT_REPEAT_ITERATION_EN") ELSE << >>
           batches == enable \o ToAll("LRT_START_ITERATION")
<1>1. enable \in Seq(Batch) /\ ToAll("LRT_START_ITERATION") \in Seq(Batch)
    BY ToAllType, NoBatch DEF NotificationType
<1>2. batches \in Seq(Batch)
    <2> HIDE DEF enable
    <2> QED
        BY <1>1, ConcatType
<1>3. /\ outbox' = [outbox EXCEPT ![GRTIx] = batches]
      /\ pc' = [pc EXCEPT ![GRTIx] = "Launch"] /\ "Launch" \in GRTPC
    BY DEF StartRound, GoTo, GRTPC
<1>4. waitForJob' \in [LRT -> BOOLEAN] /\ blockingPop' \in [LRT -> BOOLEAN]
    BY DEF TypeOK, RunnerTypeOK
<1> HIDE DEF batches
<1>5. CommTypeOK' /\ RunnerTypeOK' /\ pc'[GRTIx] = "Launch"
    BY <1>2, <1>3, <1>4, GRTMoves
<1>6. toLaunch' \in SUBSET Task /\ round' \in Nat /\ readParam' \in Nat
    BY DEF StartRound, JobsToSend, TasksOfRound, TasksOf
<1> QED
    BY <1>5, <1>6

LEMMA ExecuteType ==
    ASSUME TypeOK, Execute
    PROVE  TypeOK'
<1>1. /\ LoopGoesOn /\ StartRound(context, 1)
      /\ UNCHANGED <<queue, runner, stamps, waitForJob, blockingPop>>
      /\ done' \in SUBSET Task
    BY DEF Execute
<1>2. /\ CommTypeOK' /\ RunnerTypeOK' /\ pc'[GRTIx] = "Launch"
      /\ toLaunch' \in SUBSET Task /\ round' \in Nat /\ readParam' \in Nat
    BY <1>1, StartRoundType
<1>3. GRTTypeOK'
    BY <1>1, <1>2 DEF Execute, LoopGoesOn, TypeOK, GRTTypeOK
<1> QED
    BY <1>2, <1>3 DEF TypeOK

LEMMA NextRoundType ==
    ASSUME TypeOK, NextRound
    PROVE  TypeOK'
<1>1. /\ round + 1 \in Nat /\ StartRound(context, round + 1)
      /\ UNCHANGED <<queue, runner, stamps, waitForJob, blockingPop>>
      /\ done' \in SUBSET Task
    BY DEF NextRound, TypeOK, GRTTypeOK, RunnerTypeOK
<1>2. /\ CommTypeOK' /\ RunnerTypeOK' /\ pc'[GRTIx] = "Launch"
      /\ toLaunch' \in SUBSET Task /\ round' \in Nat /\ readParam' \in Nat
    BY <1>1, StartRoundType
<1>3. loopsLeft > 0 /\ At("Params")
    BY DEF NextRound, At, TypeOK, GRTTypeOK
<1>4. GRTTypeOK'
    BY <1>2, <1>3 DEF NextRound, TypeOK, GRTTypeOK
<1> QED
    BY <1>2, <1>4 DEF TypeOK

LEMMA LaunchTaskType ==
    ASSUME TypeOK, NEW t \in Task, LaunchTask(t)
    PROVE  TypeOK'
<1> DEFINE batches == ToEach({MappedLRT[t]}, Notify("JOB_ADD", GRTIx, t))
<1>1. {MappedLRT[t]} \in SUBSET Endpoint
    BY MappingAssumption, EndpointType
<1>2. Notify("JOB_ADD", GRTIx, t) \in Notification
    BY NotifyType, TaskType, EndpointType DEF NotificationType
<1>3. batches \in Seq(Batch)
    BY <1>1, <1>2, ToEachType
<1>4. /\ outbox' = [outbox EXCEPT ![GRTIx] = batches]
      /\ UNCHANGED <<queue, runner, stamps, pc, waitForJob, blockingPop, done>>
    BY DEF LaunchTask, runnerVars
<1> HIDE DEF batches
<1>5. CommTypeOK'
    BY <1>3, <1>4 DEF TypeOK, CommTypeOK
<1>6. RunnerTypeOK'
    BY <1>4 DEF TypeOK, RunnerTypeOK
<1>7. GRTTypeOK'
    BY <1>4 DEF LaunchTask, TypeOK, GRTTypeOK
<1> QED
    BY <1>5, <1>6, <1>7 DEF TypeOK

LEMMA EndLaunchType ==
    ASSUME TypeOK, EndLaunch
    PROVE  TypeOK'
<1> DEFINE delay == IF IsStatic THEN << >>
                    ELSE ToAll("JOB_DELAY_BROADCAST_JOBSTAMP")
           batches == delay \o ToAll("LRT_END_ITERATION")
<1>1. delay \in Seq(Batch) /\ ToAll("LRT_END_ITERATION") \in Seq(Batch)
    BY ToAllType, NoBatch DEF NotificationType
<1>2. batches \in Seq(Batch)
    <2> HIDE DEF delay
    <2> QED
        BY <1>1, ConcatType
<1>3. /\ outbox' = [outbox EXCEPT ![GRTIx] = batches]
      /\ pc' = [pc EXCEPT ![GRTIx] = "Read"] /\ "Read" \in RunnerPC
      /\ UNCHANGED <<queue, runner, stamps, done, grtVars>>
    BY DEF EndLaunch, GoTo, RunnerPC
<1>4. /\ waitForJob' \in [LRT -> BOOLEAN] /\ blockingPop' \in [LRT -> BOOLEAN]
      /\ done' \in SUBSET Task
    BY <1>3 DEF EndLaunch, TypeOK, RunnerTypeOK
<1> HIDE DEF batches
<1>5. CommTypeOK' /\ RunnerTypeOK'
    BY <1>2, <1>3, <1>4, GRTMoves
<1>6. loopsLeft > 0 /\ At("Launch")
    BY DEF EndLaunch, At, TypeOK, GRTTypeOK
<1>7. GRTTypeOK'
    BY <1>3, <1>6 DEF TypeOK, GRTTypeOK, grtVars
<1> QED
    BY <1>5, <1>7 DEF TypeOK

LEMMA LeaveRunType ==
    ASSUME TypeOK, LeaveRun
    PROVE  TypeOK'
<1> DEFINE m == Closed(runner[GRTIx])
<1>1. RunnerTypeOK /\ GRTIx \in LRT
    BY GRTAssumption DEF TypeOK
<1>2. Broadcast(GRTIx) \in Seq(Batch)
    BY <1>1, BroadcastType
<1>3. m \in RunnerState /\ m.jobQueueCurrentPos <= Len(m.jobQueue)
    BY <1>1, RunnerFields, ClosedType DEF RunnerTypeOK
<1>4. /\ outbox' = [outbox EXCEPT ![GRTIx] = Broadcast(GRTIx)]
      /\ runner' = [runner EXCEPT ![GRTIx] = m]
      /\ pc' = [pc EXCEPT ![GRTIx] = "Wait"] /\ "Wait" \in GRTPC
      /\ UNCHANGED <<queue, stamps, waitForJob, blockingPop, done>>
    BY DEF LeaveRun, GoTo, GRTPC
<1>5. CommTypeOK'
    BY <1>2, <1>4 DEF TypeOK, CommTypeOK
<1>6. /\ waitForJob' \in [LRT -> BOOLEAN] /\ blockingPop' \in [LRT -> BOOLEAN]
      /\ done' \in SUBSET Task /\ stamps' \in [LRT -> [LRT -> Stamp]]
    BY <1>1, <1>4 DEF RunnerTypeOK
<1> HIDE DEF m
<1>7. RunnerTypeOK'
    BY <1>1, <1>3, <1>4, <1>6, RunnerStepType
<1>8. loopsLeft > 0
    BY DEF LeaveRun, TypeOK, GRTTypeOK
<1>9. GRTTypeOK'
    BY <1>8 DEF LeaveRun, TypeOK, GRTTypeOK
<1> QED
    BY <1>5, <1>7, <1>9 DEF TypeOK

LEMMA ReadFinishedType ==
    ASSUME TypeOK, ReadFinished
    PROVE  TypeOK'
<1>1. /\ CommTypeOK /\ RunnerTypeOK /\ GRTIx \in LRT
      /\ Received(GRTIx, "LRT_FINISHED_ITERATION")
      /\ pc' = pc /\ runner' = runner /\ stamps' = stamps
    BY GRTAssumption DEF TypeOK, ReadFinished
<1>2. CommTypeOK'
    BY <1>1, ReceivedType
<1>3. /\ blockingPop' \in [LRT -> BOOLEAN] /\ UNCHANGED <<waitForJob, done>>
    BY <1>1 DEF Received, RunnerTypeOK
<1>4. RunnerTypeOK'
    BY <1>1, <1>3 DEF RunnerTypeOK
<1>5. GRTTypeOK'
    BY <1>1 DEF ReadFinished, TypeOK, GRTTypeOK
<1> QED
    BY <1>2, <1>4, <1>5 DEF TypeOK

\* Steps of the GRT that take a notification and leave the threads where they are.
LEMMA PoppedType ==
    ASSUME TypeOK, queue' \in [Endpoint -> Seq(Notification)],
           UNCHANGED <<outbox, runner, stamps, pc, waitForJob, blockingPop, done>>
    PROVE  CommTypeOK' /\ RunnerTypeOK'
BY DEF TypeOK, CommTypeOK, RunnerTypeOK

LEMMA WaitFinishedType ==
    ASSUME TypeOK, NEW i \in LRT, WaitFinished(i)
    PROVE  TypeOK'
<1>1. CommTypeOK /\ GRTIx \in Endpoint /\ Pop(GRTIx, "LRT_FINISHED_ITERATION")
    BY EndpointType DEF TypeOK, WaitFinished
<1>2. queue' \in [Endpoint -> Seq(Notification)]
    BY <1>1, PopType
<1>3. UNCHANGED <<outbox, runner, stamps, pc, waitForJob, blockingPop, done>>
    BY DEF WaitFinished, runnerVars
<1>4. CommTypeOK' /\ RunnerTypeOK'
    BY <1>2, <1>3, PoppedType
<1>5. GRTTypeOK'
    BY <1>3 DEF WaitFinished, TypeOK, GRTTypeOK
<1> QED
    BY <1>4, <1>5 DEF TypeOK

LEMMA SetAsideType ==
    ASSUME TypeOK, SetAside
    PROVE  TypeOK'
<1>1. queue[GRTIx] \in Seq(Notification) /\ queue[GRTIx] # << >>
    BY EndpointType DEF TypeOK, CommTypeOK, SetAside
<1>2. /\ Head(queue[GRTIx]) \in Notification
      /\ Tail(queue[GRTIx]) \in Seq(Notification)
    BY <1>1, HeadTailProperties
<1>3. queue' \in [Endpoint -> Seq(Notification)]
    BY <1>2 DEF SetAside, TypeOK, CommTypeOK
<1>4. UNCHANGED <<outbox, runner, stamps, pc, waitForJob, blockingPop, done>>
    BY DEF SetAside, runnerVars
<1>5. CommTypeOK' /\ RunnerTypeOK'
    BY <1>3, <1>4, PoppedType
<1>6. notifVector' \in Seq(Notification)
    BY <1>2, AppendProperties DEF SetAside, TypeOK, GRTTypeOK
<1>7. GRTTypeOK'
    BY <1>4, <1>6 DEF SetAside, TypeOK, GRTTypeOK
<1> QED
    BY <1>5, <1>7 DEF TypeOK

LEMMA EndWaitType ==
    ASSUME TypeOK, EndWait
    PROVE  TypeOK'
<1> DEFINE batches == [i \in 1 .. Len(notifVector) |->
                          [note |-> notifVector[i], to |-> {GRTIx}]]
<1>1. notifVector \in Seq(Notification) /\ Len(notifVector) \in Nat
    BY LenProperties DEF TypeOK, GRTTypeOK
<1>2. batches \in Seq(Batch)
    <2>1. \A i \in 1 .. Len(notifVector) : notifVector[i] \in Notification
        BY <1>1, ElementOfSeq
    <2>2. \A i \in 1 .. Len(notifVector) :
              [note |-> notifVector[i], to |-> {GRTIx}] \in Batch
        BY <2>1, EndpointType DEF Batch
    <2>3. batches \in [1 .. Len(notifVector) -> Batch]
        BY <2>2
    <2> HIDE DEF batches
    <2> QED
        BY <1>1, <2>3, SeqDef
<1>3. /\ outbox' = [outbox EXCEPT ![GRTIx] = batches]
      /\ pc' = [pc EXCEPT ![GRTIx] = "Params"] /\ "Params" \in GRTPC
      /\ UNCHANGED <<queue, runner, stamps, waitForJob, blockingPop, done>>
    BY DEF EndWait, GoTo, GRTPC
<1>4. /\ waitForJob' \in [LRT -> BOOLEAN] /\ blockingPop' \in [LRT -> BOOLEAN]
      /\ done' \in SUBSET Task
    BY <1>3 DEF TypeOK, RunnerTypeOK
<1> HIDE DEF batches
<1>5. CommTypeOK' /\ RunnerTypeOK' /\ pc'[GRTIx] = "Params"
    BY <1>2, <1>3, <1>4, GRTMoves
<1>6. loopsLeft > 0
    BY DEF EndWait, At, TypeOK, GRTTypeOK
<1>7. notifVector' \in Seq(Notification) /\ finishedRunner' \in [LRT -> BOOLEAN]
    BY DEF EndWait
<1>8. GRTTypeOK'
    BY <1>6, <1>7 DEF EndWait, TypeOK, GRTTypeOK
<1> QED
    BY <1>5, <1>8 DEF TypeOK

LEMMA ReadParamType ==
    ASSUME TypeOK, ReadParam
    PROVE  TypeOK'
<1>1. CommTypeOK /\ ParamQueue \in Endpoint /\ Pop(ParamQueue, "JOB_SENT_PARAM")
    BY EndpointType DEF TypeOK, ReadParam
<1>2. queue' \in [Endpoint -> Seq(Notification)]
    BY <1>1, PopType
<1>3. UNCHANGED <<outbox, runner, stamps, pc, waitForJob, blockingPop, done>>
    BY DEF ReadParam, runnerVars
<1>4. CommTypeOK' /\ RunnerTypeOK'
    BY <1>2, <1>3, PoppedType
<1>5. GRTTypeOK'
    BY <1>3 DEF ReadParam, TypeOK, GRTTypeOK
<1> QED
    BY <1>4, <1>5 DEF TypeOK

LEMMA EndExecuteType ==
    ASSUME TypeOK, EndExecute
    PROVE  TypeOK'
<1> DEFINE batches == IF IsStatic THEN ToAll("LRT_RST_ITERATION")
                      ELSE ToAll("LRT_CLEAR_ITERATION")
<1>1. batches \in Seq(Batch)
    BY ToAllType DEF NotificationType
<1>2. /\ outbox' = [outbox EXCEPT ![GRTIx] = batches]
      /\ pc' = [pc EXCEPT ![GRTIx] = "Execute"] /\ "Execute" \in GRTPC
      /\ UNCHANGED <<queue, runner, stamps, waitForJob, blockingPop, done>>
    BY DEF EndExecute, GoTo, GRTPC
<1>3. /\ waitForJob' \in [LRT -> BOOLEAN] /\ blockingPop' \in [LRT -> BOOLEAN]
      /\ done' \in SUBSET Task
    BY <1>2 DEF TypeOK, RunnerTypeOK
<1> HIDE DEF batches
<1>4. CommTypeOK' /\ RunnerTypeOK' /\ pc'[GRTIx] = "Execute"
    BY <1>1, <1>2, <1>3, GRTMoves
<1>5. loopsLeft - 1 \in Nat
    BY DEF EndExecute, At, TypeOK, GRTTypeOK
<1>6. iter' \in [Context -> BOOLEAN]
  <2> DEFINE static == IsStatic
  <2>1. static \in BOOLEAN
      BY DEF IsStatic
  <2>2. iter' = [iter EXCEPT ![context] = static]
      BY DEF EndExecute
  <2>3. iter \in [Context -> BOOLEAN]
      BY DEF TypeOK, GRTTypeOK
  <2> HIDE DEF static
  <2> QED
      BY <2>1, <2>2, <2>3
<1>7. GRTTypeOK'
    BY <1>4, <1>5, <1>6 DEF EndExecute, TypeOK, GRTTypeOK
<1> QED
    BY <1>4, <1>7 DEF TypeOK

-----------------------------------------------------------------------------
(* Type correctness                                                        *)

LEMMA InitTypeOK == Init => TypeOK
<1> SUFFICES ASSUME Init PROVE TypeOK
    OBVIOUS
<1>1. /\ << >> \in Seq(Notification) /\ << >> \in Seq(Batch)
      /\ << >> \in Seq(Task) /\ Len(<< >>) = 0
    BY EmptySeq
<1>2. CommTypeOK
    BY <1>1 DEF Init, CommInit, CommTypeOK
<1>3. InitialRunner \in RunnerState
    BY <1>1 DEF InitialRunner, RunnerState, Stamp
<1>4. /\ InitialRunner.jobQueueCurrentPos = 0
      /\ InitialRunner.jobQueue = << >>
    BY DEF InitialRunner
<1>5. /\ pc \in [LRT -> RunnerPC \cup GRTPC] /\ pc[GRTIx] = "App"
      /\ \A r \in LRT \ {GRTIx} : pc[r] \in RunnerPC
      /\ \A r \in LRT : pc[r] # "Kernel"
    BY GRTAssumption DEF Init, RunnerPC, GRTPC
<1> HIDE DEF InitialRunner
<1>6. \A r \in LRT : runner[r] = InitialRunner
    BY DEF Init
<1>7. \A r \in LRT :
          runner[r].jobQueueCurrentPos <= Len(runner[r].jobQueue)
    BY <1>1, <1>4, <1>6
<1>8. RunnerTypeOK
    BY <1>3, <1>5, <1>7, NoStampsType DEF Init, RunnerTypeOK
<1>9. GRTTypeOK
    BY <1>1, <1>5 DEF Init, GRTTypeOK
<1> QED
    BY <1>2, <1>8, <1>9 DEF TypeOK

LEMMA NextTypeOK == TypeOK /\ [Next]_vars => TypeOK'
<1> SUFFICES ASSUME TypeOK, [Next]_vars PROVE TypeOK'
    OBVIOUS
<1>1. CASE \E r \in LRT : RunnerStep(r) /\ UNCHANGED grtVars
    BY <1>1, RunnerStepGRT
<1>2. CASE GRTStep
    BY <1>2, RunReturnsType, ExecuteType, LaunchTaskType, EndLaunchType,
       LeaveRunType, ReadFinishedType, WaitFinishedType, SetAsideType,
       EndWaitType, ReadParamType, NextRoundType, EndExecuteType, JoinType
       DEF GRTStep
<1>3. CASE \E c \in Context : CallRun(c)
    BY <1>3, CallRunType
<1>4. CASE Quit \/ Interrupt
    BY <1>4, QuitType, InterruptType
<1>5. CASE Terminated \/ UNCHANGED vars
    <2>1. UNCHANGED vars
        BY <1>5 DEF Terminated
    <2>2. UNCHANGED <<queue, outbox, runner, stamps, pc, waitForJob, blockingPop,
                      done>> /\ UNCHANGED grtVars
        BY <2>1 DEF vars, commVars, runnerVars
    <2>3. CommTypeOK' /\ RunnerTypeOK'
        BY <2>2 DEF TypeOK, CommTypeOK, RunnerTypeOK
    <2>4. GRTTypeOK'
        BY <2>2 DEF TypeOK, GRTTypeOK, grtVars
    <2> QED
        BY <2>3, <2>4 DEF TypeOK
<1> QED
    BY <1>1, <1>2, <1>3, <1>4, <1>5 DEF Next

\* Whatever the graphs, the mapping and the interleaving, every variable keeps
\* its type: a runner never runs a job that is not in its queue, the batches name
\* existing queues, and a call of run() never executes more often than loopCount_.
THEOREM TypeCorrectness == Spec => []TypeOK
<1>1. Spec => Init /\ [][Next]_vars
    BY DEF Spec
<1> QED
    BY <1>1, InitTypeOK, NextTypeOK, PTL

-----------------------------------------------------------------------------
(* What a runner may conclude from its stamps                              *)

\* When the stamps of a runner are sound, the job it starts has all of its
\* dependencies done, although isJobRunnable compares one stamp per LRT and the
\* job waits for one job per LRT only (TaskLauncher::buildExecConstraints).
THEOREM SoundStampsGivePrecedence ==
    ASSUME TypeOK, StampsSound, NEW r \in LRT, StartJob(r),
           ContextOf[CurrentJob(r)] = context
    PROVE  Deps[CurrentJob(r)] \subseteq done
<1> DEFINE t == CurrentJob(r)
<1>1. runner[r].start /\ Unmet(r, t) = {}
    BY DEF StartJob, HasJob, IsJobRunnable
<1>2. t \in Task
  <2>1. RunnerTypeOK
      BY DEF TypeOK
  <2>2. runner[r].jobQueueCurrentPos < Len(runner[r].jobQueue)
      BY <2>1, RunnerFields DEF StartJob, HasJob, RunnerTypeOK
  <2> QED
      BY <2>1, <2>2, CurrentJobType
<1> HIDE DEF t
<1> SUFFICES ASSUME NEW s \in Deps[t] PROVE s \in done
    BY DEF t
<1>3. s \in Task /\ ContextOf[s] = context /\ MappedLRT[s] \in LRT
    BY <1>2, TaskAssumption, MappingAssumption DEF t
<1>4. PICK c \in ExecConstraints(MappedLRT, t) :
          c.lrtToWait = MappedLRT[s] /\ JobExecIx(MappedLRT, s) <= c.jobToWait
    BY <1>2, ConstraintsCoverDeps, MappingAssumption
<1>5. c \in Constraints[t]
    BY <1>2, <1>4 DEF Constraints
<1>6. ~(stamps[r][c.lrtToWait] < c.jobToWait)
    BY <1>1, <1>5 DEF Unmet
<1>7. stamps[r][MappedLRT[s]] \in Int /\ c.jobToWait \in Int
    <2>1. stamps[r][MappedLRT[s]] \in Int
        BY <1>3 DEF TypeOK, RunnerTypeOK, Stamp
    <2>2. c.jobToWait \in Int
        BY <1>2, <1>4, ConstraintsAreDeps, JobExecIxType, TaskAssumption,
           MappingAssumption
    <2> QED
        BY <2>1, <2>2
<1>8. JobExecIx(MappedLRT, s) \in Int /\ ExecIx[s] = JobExecIx(MappedLRT, s)
    BY <1>3, JobExecIxType, MappingAssumption DEF ExecIx
<1>9. ExecIx[s] <= stamps[r][MappedLRT[s]]
    BY <1>4, <1>6, <1>7, <1>8
<1> QED
    BY <1>1, <1>3, <1>9 DEF StampsSound, TasksOf

-----------------------------------------------------------------------------
(* The use of contexts                                                     *)

\* How the runtime is to be used.  A runner that has been told to repeat its jobs
\* does so for ever, and forgets them at the end of a LOOP call: with a static
\* context and another context, or a second LOOP call, the properties do not
\* hold (section 5 of README.md).
SupportedUse ==
    \/ StaticContext = {}
    \/ \E c \in Context : /\ Context = {c}
                          /\ StaticContext = {c}
                          /\ RunMode[c] = "EXTERN_LOOP" \/ MaxRuns <= 1

-----------------------------------------------------------------------------
(* What the GRT has sent                                                   *)

Resets == {"LRT_CLEAR_ITERATION", "LRT_RST_ITERATION"}

\* The notifications that only the GRT sends, to the runners.
ControlType ==
    Resets \cup {"LRT_START_ITERATION", "LRT_END_ITERATION",
                 "LRT_REPEAT_ITERATION_EN", "LRT_STOP", "JOB_ADD",
                 "JOB_DELAY_BROADCAST_JOBSTAMP"}

\* m may be sent to a LRT before n.
Before(m, n) ==
    \/ m.type \in Resets
    \/ /\ m.type = "LRT_REPEAT_ITERATION_EN"
       /\ n.type \in {"LRT_START_ITERATION", "JOB_ADD",
                      "JOB_DELAY_BROADCAST_JOBSTAMP", "LRT_END_ITERATION"}
    \/ /\ m.type = "LRT_START_ITERATION"
       /\ n.type \in {"JOB_ADD", "JOB_DELAY_BROADCAST_JOBSTAMP", "LRT_END_ITERATION"}
    \/ /\ m.type = "JOB_ADD"
       /\ n.type \in {"JOB_DELAY_BROADCAST_JOBSTAMP", "LRT_END_ITERATION"}
    \/ /\ m.type = "JOB_ADD" /\ n.type = "JOB_ADD"
       /\ m.notificationIx < n.notificationIx
    \/ /\ m.type = "JOB_DELAY_BROADCAST_JOBSTAMP"
       /\ n.type = "LRT_END_ITERATION"

\* In that order, the others left aside.
InOrder(m, n) == m.type \in ControlType /\ n.type \in ControlType => Before(m, n)

InQueue(r) == {queue[r][i] : i \in DOMAIN queue[r]}

ToPush(r) ==
    {outbox[GRTIx][b].note :
        b \in {a \in DOMAIN outbox[GRTIx] : r \in outbox[GRTIx][a].to}}

\* What the GRT has sent to r and r has not read.
Coming(r) == {n \in InQueue(r) \cup ToPush(r) : n.type \in ControlType}

Expects(r, type) == \E n \in Coming(r) : n.type = type

\* The GRT sends the notifications of a round in the order of the protocol.
SentInOrder ==
    /\ \A r \in LRT :
          /\ \A i, j \in DOMAIN queue[r] : i < j => InOrder(queue[r][i], queue[r][j])
          /\ \A i \in DOMAIN queue[r], b \in DOMAIN outbox[GRTIx] :
                r \in outbox[GRTIx][b].to
                    => InOrder(queue[r][i], outbox[GRTIx][b].note)
    /\ \A a, b \in DOMAIN outbox[GRTIx] :
          a < b => InOrder(outbox[GRTIx][a].note, outbox[GRTIx][b].note)
    /\ \A o \in LRT : \A b \in DOMAIN outbox[o] :
          /\ outbox[o][b].to # {}
          /\ outbox[o][b].note.type \in ControlType => o = GRTIx
    /\ \A r \in LRT : pc[r] \in {"Check", "Kernel"} => Ready(r)

-----------------------------------------------------------------------------
(* Where a round is                                                        *)

Launched == {"Read", "Check", "Kernel", "Finish", "Wait"}

InRound == pc[GRTIx] = "Launch" \/ pc[GRTIx] \in Launched

\* r has still to close the round.
Active(r) == runner[r].start \/ Expects(r, "LRT_START_ITERATION")

\* What may be on its way to r, at each label of the GRT.
ComingInPhase(r) ==
    \A n \in Coming(r) :
        /\ n.type = "LRT_STOP" => pc[GRTIx] \in {"Join", "Exited"}
        /\ n.type \in Resets =>
              /\ pc[GRTIx] # "Params"
              /\ InRound => round = 1 /\ Expects(r, "LRT_START_ITERATION")
        /\ n.type = "LRT_REPEAT_ITERATION_EN" => Expects(r, "LRT_START_ITERATION")
        /\ n.type = "LRT_START_ITERATION" => InRound /\ ~runner[r].start
        /\ n.type = "JOB_ADD" => InRound
        /\ n.type \in {"JOB_DELAY_BROADCAST_JOBSTAMP", "LRT_END_ITERATION"} =>
              pc[GRTIx] \in Launched

\* The flags of the runner, and what they say of what is on its way.
RunnerInPhase(r) ==
    /\ runner[r].finished = ~runner[r].start
    /\ runner[r].start => InRound
    /\ ~runner[r].start => /\ ~runner[r].receivedEnd /\ ~runner[r].shouldBroadcast
                           /\ pc[r] # "Kernel"
    /\ runner[r].receivedEnd => /\ Coming(r) = {}
                                /\ runner[r].jobCount = Len(runner[r].jobQueue)
                                /\ pc[GRTIx] \in Launched
    /\ pc[r] # "Thrown"
    /\ pc[GRTIx] = "Launch" => Active(r)
    /\ pc[GRTIx] \in Launched =>
          \/ Active(r) /\ Expects(r, "LRT_END_ITERATION")
          \/ runner[r].start /\ runner[r].receivedEnd
          \/ ~runner[r].start /\ Coming(r) = {}

GRTInPhase ==
    /\ pc[GRTIx] # "Stopped"
    /\ executing <=> InRound \/ pc[GRTIx] = "Params"
    /\ pc[GRTIx] = "Read" => Active(GRTIx)
    /\ pc[GRTIx] \in {"Check", "Kernel", "Finish"} =>
          Coming(GRTIx) = {} /\ runner[GRTIx].start
    /\ pc[GRTIx] = "Wait" => Coming(GRTIx) = {} /\ ~runner[GRTIx].start

PhaseInv ==
    /\ GRTInPhase
    /\ \A r \in LRT : ComingInPhase(r) /\ RunnerInPhase(r)

-----------------------------------------------------------------------------
(* The jobs of the round                                                   *)

RoundJobs(r) == {t \in TasksOfRound(context, round) : MappedLRT[t] = r}

Adds(r) == {n.notificationIx : n \in {m \in Coming(r) : m.type = "JOB_ADD"}}

Queued(r) == {runner[r].jobQueue[i] : i \in DOMAIN runner[r].jobQueue}

Ran(r) == {runner[r].jobQueue[i] : i \in 1 .. runner[r].jobQueueCurrentPos}

\* The jobs that a runner keeps when it is not iterating.
Kept(r) ==
    IF context \in StaticContext /\ (executing \/ iter[context])
    THEN RoundJobs(r) ELSE {}

\* A LOOP call has returned: the runners forget the jobs of a static context.
Dropped == /\ pc[GRTIx] \in {"App", "Join", "Exited"}
           /\ context \in StaticContext
           /\ RunMode[context] = "LOOP"

\* What the calls of run() have left.
CallInv ==
    /\ context = None => /\ pc[GRTIx] \in {"App", "Join", "Exited"}
                         /\ \A c \in Context : ~iter[c]
    /\ context # None => runs >= 1
    /\ \A c \in Context : iter[c] => c \in StaticContext
    /\ context \in StaticContext /\ iter[context] => round = 1
    /\ executing => round \in 1 .. Rounds[context]
    /\ pc[GRTIx] # "Launch" => toLaunch = {}
    /\ toLaunch \subseteq TasksOfRound(context, round)
    /\ \A t \in TasksOfRound(context, round) \ toLaunch, u \in toLaunch : t < u

\* The tasks done are those of the earlier rounds and those the runners ran.
DoneInv ==
    /\ executing => /\ done \subseteq {t \in TasksOf(context) : RoundOf[t] <= round}
                    /\ {t \in TasksOf(context) : RoundOf[t] < round} \subseteq done
    /\ pc[GRTIx] = "Params" => TasksOfRound(context, round) \subseteq done
    /\ executing => \A t \in done :
                        ExecIx[t] <= stamps[MappedLRT[t]][MappedLRT[t]]

\* The jobs of r in this round are in its queue, on their way or to be sent, in
\* the order of their indices, and those behind its position are done.
JobsOfRound(r) ==
    /\ \A i, j \in DOMAIN runner[r].jobQueue :
          i < j => runner[r].jobQueue[i] < runner[r].jobQueue[j]
    /\ InRound /\ Active(r) =>
          /\ Queued(r) \cup Adds(r) \cup {t \in toLaunch : MappedLRT[t] = r} = RoundJobs(r)
          /\ (Queued(r) \cup Adds(r)) \cap toLaunch = {}
          /\ \A t \in Queued(r), u \in Adds(r) : t < u
          /\ RoundJobs(r) \cap done = IF runner[r].start THEN Ran(r) ELSE {}
    /\ InRound /\ Active(r) /\ ~runner[r].start =>
          Queued(r) = IF iter[context] THEN RoundJobs(r) ELSE {}
    /\ InRound /\ ~Active(r) => RoundJobs(r) \subseteq done

\* Runners repeat the jobs of a static context only.
KeptInv(r) ==
    /\ runner[r].repeat \/ Expects(r, "LRT_REPEAT_ITERATION_EN") => StaticContext # {}
    /\ context \in StaticContext /\ (executing \/ iter[context]) =>
          runner[r].repeat \/ Expects(r, "LRT_REPEAT_ITERATION_EN")
    /\ ~Active(r) => Queued(r) = Kept(r) \/ Dropped
    /\ Expects(r, "LRT_CLEAR_ITERATION") => StaticContext = {} \/ Dropped

JobsInv ==
    /\ CallInv
    /\ DoneInv
    /\ \A r \in LRT : JobsOfRound(r) /\ KeptInv(r)

-----------------------------------------------------------------------------
(* The barrier                                                             *)

Finished(n) == n.type = "LRT_FINISHED_ITERATION"

\* r has told the GRT that it has closed the round, and the GRT has not read it.
TokenInQueue(r) == \E i \in DOMAIN queue[GRTIx] :
                       Finished(queue[GRTIx][i]) /\ queue[GRTIx][i].senderIx = r
TokenInOutbox(r) == \E b \in DOMAIN outbox[r] : Finished(outbox[r][b].note)
Token(r) == TokenInQueue(r) \/ TokenInOutbox(r)

\* The runners that the GRT has still to wait for.
Pending == {r \in LRT \ {GRTIx} : Active(r) \/ Token(r)}

\* A runner tells it once, after everything else it had to tell.
TokenOnce(r) ==
    /\ \A i, j \in DOMAIN queue[GRTIx] :
          /\ Finished(queue[GRTIx][i]) /\ queue[GRTIx][i].senderIx = r
          /\ Finished(queue[GRTIx][j]) /\ queue[GRTIx][j].senderIx = r
          => i = j
    /\ ~(TokenInQueue(r) /\ TokenInOutbox(r))
    /\ \A b \in DOMAIN outbox[r] : Finished(outbox[r][b].note) =>
          /\ b = Len(outbox[r])
          /\ outbox[r][b].note.senderIx = r
          /\ outbox[r][b].to = {GRTIx}

\* It has closed the round by then.
TokenAfter(r) ==
    /\ Token(r) => /\ r # GRTIx /\ ~Active(r) /\ pc[GRTIx] \in Launched
    /\ r # GRTIx /\ outbox[r] # << >> => runner[r].start \/ TokenInOutbox(r)

\* Nobody tells it to another LRT.
OnlyToGRT ==
    \A e \in LRT \ {GRTIx} : \A i \in DOMAIN queue[e] : ~Finished(queue[e][i])

BarrierInv ==
    /\ \A r \in LRT : TokenOnce(r) /\ TokenAfter(r)
    /\ OnlyToGRT
    /\ pc[GRTIx] # "Wait" => notifVector = << >>
    /\ \A i \in DOMAIN notifVector :
          notifVector[i].type \notin ControlType /\ ~Finished(notifVector[i])
    /\ pc[GRTIx] \notin Launched => \A r \in LRT : ~finishedRunner[r]
    /\ pc[GRTIx] \in Launched \ {"Wait"} =>
          /\ ~finishedRunner[GRTIx]
          /\ \A r \in LRT \ {GRTIx} :
                finishedRunner[r] <=> ~Active(r) /\ ~Token(r)
    /\ pc[GRTIx] = "Wait" =>
          Cardinality({r \in LRT : ~finishedRunner[r]}) = Cardinality(Pending)

\* The inductive invariant of the rounds.
RoundInv == TypeOK /\ SentInOrder /\ PhaseInv /\ JobsInv /\ BarrierInv

-----------------------------------------------------------------------------
(* Sequences                                                               *)

\* What is left of a sequence without its head.
LEMMA TailOf ==
    ASSUME NEW S, NEW s \in Seq(S), s # << >>
    PROVE  /\ Tail(s) \in Seq(S) /\ Head(s) \in S /\ Head(s) = s[1]
           /\ Len(s) \in Nat \ {0} /\ Len(Tail(s)) = Len(s) - 1
           /\ DOMAIN s = 1 .. Len(s) /\ DOMAIN Tail(s) = 1 .. Len(s) - 1
           /\ \A i \in 1 .. Len(s) - 1 : Tail(s)[i] = s[i + 1]
<1>1. Tail(s) \in Seq(S) /\ Head(s) \in S /\ Len(Tail(s)) = Len(s) - 1
    BY HeadTailProperties
<1>2. Len(s) \in Nat \ {0}
    BY EmptySeq
<1>3. DOMAIN s = 1 .. Len(s) /\ DOMAIN Tail(s) = 1 .. Len(s) - 1
    BY <1>1, LenProperties
<1>4. Head(s) = s[1] /\ \A i \in 1 .. Len(s) - 1 : Tail(s)[i] = s[i + 1]
    BY <1>1, <1>2
<1> QED
    BY <1>1, <1>2, <1>3, <1>4

\* A sequence with one more element.
LEMMA AppendOf ==
    ASSUME NEW S, NEW s \in Seq(S), NEW x \in S
    PROVE  /\ Append(s, x) \in Seq(S) /\ Len(s) \in Nat
           /\ DOMAIN s = 1 .. Len(s) /\ DOMAIN Append(s, x) = 1 .. Len(s) + 1
           /\ \A i \in 1 .. Len(s) : Append(s, x)[i] = s[i]
           /\ Append(s, x)[Len(s) + 1] = x
<1>1. /\ Append(s, x) \in Seq(S) /\ Len(Append(s, x)) = Len(s) + 1
      /\ \A i \in 1 .. Len(s) : Append(s, x)[i] = s[i]
      /\ Append(s, x)[Len(s) + 1] = x
    BY AppendProperties
<1>2. Len(s) \in Nat /\ DOMAIN s = 1 .. Len(s) /\ DOMAIN Append(s, x) = 1 .. Len(s) + 1
    BY <1>1, LenProperties
<1> QED
    BY <1>1, <1>2

\* The batches that ToEach makes.
LEMMA ToEachOf ==
    ASSUME NEW R, NEW note
    PROVE  /\ R = {} => ToEach(R, note) = << >>
           /\ R # {} => ToEach(R, note) = <<[note |-> note, to |-> R]>>
BY DEF ToEach

\* The places of a queue and of an outbox.
LEMMA Places ==
    ASSUME TypeOK
    PROVE  /\ \A e \in Endpoint : /\ queue[e] \in Seq(Notification)
                                  /\ Len(queue[e]) \in Nat
                                  /\ DOMAIN queue[e] = 1 .. Len(queue[e])
           /\ \A o \in LRT : /\ outbox[o] \in Seq(Batch)
                             /\ Len(outbox[o]) \in Nat
                             /\ DOMAIN outbox[o] = 1 .. Len(outbox[o])
                             /\ \A b \in DOMAIN outbox[o] : outbox[o][b] \in Batch
<1>1. /\ \A e \in Endpoint : queue[e] \in Seq(Notification)
      /\ \A o \in LRT : outbox[o] \in Seq(Batch)
    BY DEF TypeOK, CommTypeOK
<1> QED
    BY <1>1, LenProperties, ElementOfSeq

\* Queues are numbered from 0, the one for parameters last.
LEMMA EndpointsAreNat == Endpoint \subseteq Nat
BY TaskAssumption DEF Endpoint, ParamQueue, LRT

\* A push takes one receiver from the first batch, and the batch with the last.
PushedTo(r, e, shift) ==
    /\ outbox[r] # << >>
    /\ e \in outbox[r][1].to
    /\ shift \in {0, 1}
    /\ shift = 1 <=> outbox[r][1].to = {e}
    /\ queue' = [queue EXCEPT ![e] = Append(@, outbox[r][1].note)]
    /\ DOMAIN outbox'[r] = 1 .. Len(outbox[r]) - shift
    /\ Len(outbox'[r]) = Len(outbox[r]) - shift
    /\ \A b \in 1 .. Len(outbox[r]) - shift :
          /\ outbox'[r][b].note = outbox[r][b + shift].note
          /\ outbox'[r][b].to = IF b + shift = 1 THEN outbox[r][1].to \ {e}
                                ELSE outbox[r][b + shift].to
    /\ \A o \in LRT \ {r} : outbox'[o] = outbox[o]

\* A push moves the first notification of an outbox to the end of one queue.
LEMMA PushEffect ==
    ASSUME TypeOK, SentInOrder, NEW r \in LRT, Push(r)
    PROVE  \E e \in Endpoint, shift \in {0, 1} : PushedTo(r, e, shift)
<1> DEFINE s == outbox[r]
           batch == Head(s)
           e == CHOOSE x \in batch.to : \A f \in batch.to : x <= f
           left == batch.to \ {e}
           new == ToEach(left, batch.note) \o Tail(s)
<1>1. s \in Seq(Batch) /\ s # << >> /\ outbox \in [LRT -> Seq(Batch)]
    BY DEF Push, TypeOK, CommTypeOK
<1>2. /\ Tail(s) \in Seq(Batch) /\ batch \in Batch /\ batch = s[1]
      /\ Len(s) \in Nat \ {0} /\ Len(Tail(s)) = Len(s) - 1
      /\ DOMAIN s = 1 .. Len(s)
      /\ \A i \in 1 .. Len(s) - 1 : Tail(s)[i] = s[i + 1]
    BY <1>1, TailOf
<1>3. batch.to # {} /\ batch.to \subseteq Endpoint /\ batch.note \in Notification
    BY <1>2 DEF SentInOrder, Batch
<1>4. e \in batch.to /\ e \in Endpoint
    <2>1. \E x \in batch.to : \A f \in batch.to : x <= f
        BY <1>3, EndpointsAreNat, LeastNat
    <2> QED
        BY <1>3, <2>1
<1>5. /\ queue' = [queue EXCEPT ![e] = Append(@, batch.note)]
      /\ outbox' = [outbox EXCEPT ![r] = new]
    BY DEF Push
<1> HIDE DEF e
<1>6. CASE left = {}
    <2>1. new = Tail(s)
        <3>1. ToEach(left, batch.note) = << >>
            BY <1>6, ToEachOf
        <3>2. << >> \o Tail(s) = Tail(s)
            BY <1>2
        <3> QED
            BY <3>1, <3>2
    <2>2. outbox'[r] = Tail(s) /\ \A o \in LRT \ {r} : outbox'[o] = outbox[o]
        BY <1>1, <1>5, <2>1
    <2>3. batch.to = {e}
        BY <1>4, <1>6
    <2>4. DOMAIN Tail(s) = 1 .. Len(s) - 1
        BY <1>1, TailOf
    <2>5. \A b \in 1 .. Len(s) - 1 : b + 1 # 1
        BY <1>2
    <2>6. PushedTo(r, e, 1)
        BY <1>1, <1>2, <1>4, <1>5, <2>2, <2>3, <2>4, <2>5 DEF PushedTo
    <2> QED
        BY <1>4, <2>6
<1>7. CASE left # {}
    <2> DEFINE first == [note |-> batch.note, to |-> left]
    <2>1. ToEach(left, batch.note) = <<first>>
        BY <1>7, ToEachOf
    <2>2. first \in Batch /\ <<first>> \in Seq(Batch) /\ Len(<<first>>) = 1
          /\ <<first>>[1] = first
        BY <1>3 DEF Batch
    <2> DEFINE f == <<first>>
               t == Tail(s)
    <2>3. new = f \o t /\ f \in Seq(Batch) /\ t \in Seq(Batch) /\ Len(f) = 1 /\ f[1] = first
          /\ Len(t) = Len(s) - 1
        BY <1>2, <2>1, <2>2
    <2>4. Len(new) = Len(s) /\ DOMAIN new = 1 .. Len(s)
        <3> HIDE DEF f, t, new
        <3>1. new \in Seq(Batch) /\ Len(new) = Len(f) + Len(t)
            BY <2>3, ConcatProperties
        <3>2. Len(new) = Len(s)
            BY <1>2, <2>3, <3>1
        <3> QED
            BY <3>1, <3>2, LenProperties
    <2>5. /\ new[1] = first
          /\ \A i \in 2 .. Len(s) : new[i] = s[i]
        <3> HIDE DEF f, t, new
        <3>1. \A i \in 1 .. Len(f) + Len(t) :
                 new[i] = IF i <= Len(f) THEN f[i] ELSE t[i - Len(f)]
            BY <2>3, ConcatProperties
        <3>2. new[1] = first
            <4>1. 1 \in 1 .. Len(f) + Len(t) /\ 1 <= Len(f)
                BY <1>2, <2>3
            <4>2. new[1] = f[1]
                BY <3>1, <4>1
            <4> QED
                BY <2>3, <4>2
        <3>3. ASSUME NEW i \in 2 .. Len(s) PROVE new[i] = s[i]
            <4>1. /\ i \in 1 .. Len(f) + Len(t) /\ ~ (i <= Len(f)) /\ i - Len(f) = i - 1
                  /\ i - 1 \in 1 .. Len(s) - 1 /\ i - 1 + 1 = i
                BY <1>2, <2>3, <3>3
            <4>2. new[i] = t[i - 1] /\ t[i - 1] = s[i - 1 + 1]
                BY <1>2, <3>1, <4>1 DEF t
            <4> QED
                BY <4>1, <4>2
        <3> QED
            BY <3>2, <3>3
    <2>6. outbox'[r] = new /\ \A o \in LRT \ {r} : outbox'[o] = outbox[o]
        BY <1>1, <1>5
    <2>7. first.note = batch.note /\ first.to = batch.to \ {e}
        OBVIOUS
    <2> HIDE DEF new, first, f, t
    <2>8. \A b \in 1 .. Len(s) - 0 :
             /\ b + 0 = b
             /\ outbox'[r][b].note = s[b].note
             /\ outbox'[r][b].to = IF b = 1 THEN s[1].to \ {e} ELSE s[b].to
        <3> TAKE b \in 1 .. Len(s) - 0
        <3>1. CASE b = 1
            BY <1>2, <2>5, <2>6, <2>7, <3>1
        <3>2. CASE b # 1
            <4>1. b \in 2 .. Len(s)
                BY <1>2, <3>2
            <4> QED
                BY <1>2, <2>5, <2>6, <3>2, <4>1
        <3> QED
            BY <3>1, <3>2
    <2>9. batch.to # {e} /\ Len(s) - 0 = Len(s)
        BY <1>2, <1>4, <1>7
    <2>10. PushedTo(r, e, 0)
        <3>1. s # << >> /\ e \in s[1].to /\ 0 \in {0, 1} /\ ~ (0 = 1) /\ s[1].to # {e}
              /\ queue' = [queue EXCEPT ![e] = Append(@, s[1].note)]
            BY <1>1, <1>2, <1>4, <1>5, <2>9
        <3>2. /\ DOMAIN outbox'[r] = 1 .. Len(s) - 0 /\ Len(outbox'[r]) = Len(s) - 0
              /\ \A o \in LRT \ {r} : outbox'[o] = outbox[o]
            BY <2>4, <2>6, <2>9
        <3>3. \A b \in 1 .. Len(s) - 0 :
                 /\ outbox'[r][b].note = s[b + 0].note
                 /\ outbox'[r][b].to = IF b + 0 = 1 THEN s[1].to \ {e} ELSE s[b + 0].to
            BY <2>8
        <3> QED
            BY <3>1, <3>2, <3>3 DEF PushedTo
    <2> QED
        BY <1>4, <2>10
<1> QED
    BY <1>6, <1>7

-----------------------------------------------------------------------------
(* What a step does to what the GRT has sent                               *)

\* Coming, without its sets.
LEMMA ComingOf ==
    ASSUME NEW r, NEW n
    PROVE  n \in Coming(r) <=>
              /\ n.type \in ControlType
              /\ \/ \E i \in DOMAIN queue[r] : n = queue[r][i]
                 \/ \E b \in DOMAIN outbox[GRTIx] :
                       r \in outbox[GRTIx][b].to /\ n = outbox[GRTIx][b].note
BY DEF Coming, InQueue, ToPush

\* The same after a step.
LEMMA ComingOfNext ==
    ASSUME NEW r, NEW n
    PROVE  n \in Coming(r)' <=>
              /\ n.type \in ControlType
              /\ \/ \E i \in DOMAIN queue'[r] : n = queue'[r][i]
                 \/ \E b \in DOMAIN outbox'[GRTIx] :
                       r \in outbox'[GRTIx][b].to /\ n = outbox'[GRTIx][b].note
BY DEF Coming, InQueue, ToPush

\* A queue with one more notification.
LEMMA QueueAppended ==
    ASSUME TypeOK, NEW e \in Endpoint, NEW x \in Notification,
           queue' = [queue EXCEPT ![e] = Append(@, x)]
    PROVE  /\ DOMAIN queue[e] = 1 .. Len(queue[e]) /\ Len(queue[e]) \in Nat
           /\ DOMAIN queue'[e] = 1 .. Len(queue[e]) + 1
           /\ \A i \in DOMAIN queue[e] : queue'[e][i] = queue[e][i]
           /\ queue'[e][Len(queue[e]) + 1] = x
           /\ \A f \in Endpoint \ {e} : queue'[f] = queue[f]
<1>1. queue \in [Endpoint -> Seq(Notification)]
    BY DEF TypeOK, CommTypeOK
<1>2. queue'[e] = Append(queue[e], x) /\ \A f \in Endpoint \ {e} : queue'[f] = queue[f]
    BY <1>1
<1> QED
    BY <1>1, <1>2, AppendOf

\* A queue without its first notification.
LEMMA QueuePopped ==
    ASSUME TypeOK, NEW e \in Endpoint, queue[e] # << >>,
           queue' = [queue EXCEPT ![e] = Tail(@)]
    PROVE  /\ DOMAIN queue[e] = 1 .. Len(queue[e]) /\ Len(queue[e]) \in Nat \ {0}
           /\ DOMAIN queue'[e] = 1 .. Len(queue[e]) - 1
           /\ \A i \in 1 .. Len(queue[e]) - 1 : queue'[e][i] = queue[e][i + 1]
           /\ Head(queue[e]) = queue[e][1] /\ Head(queue[e]) \in Notification
           /\ \A f \in Endpoint \ {e} : queue'[f] = queue[f]
<1>1. queue \in [Endpoint -> Seq(Notification)]
    BY DEF TypeOK, CommTypeOK
<1>2. queue'[e] = Tail(queue[e]) /\ \A f \in Endpoint \ {e} : queue'[f] = queue[f]
    BY <1>1
<1> QED
    BY <1>1, <1>2, TailOf

\* A push delivers a notification; it does not change what is coming.
LEMMA PushKeepsComing ==
    ASSUME TypeOK, SentInOrder, NEW p \in LRT, Push(p), pc' = pc
    PROVE  SentInOrder' /\ \A r \in LRT : Coming(r)' = Coming(r)
<1> DEFINE ob == outbox[GRTIx]
           ob2 == outbox'[GRTIx]
<1>1. PICK e \in Endpoint, shift \in {0, 1} : PushedTo(p, e, shift)
    BY PushEffect
<1> DEFINE x == outbox[p][1].note
<1>2. /\ outbox[p] \in Seq(Batch) /\ outbox[p] # << >> /\ Len(outbox[p]) \in Nat \ {0}
      /\ DOMAIN outbox[p] = 1 .. Len(outbox[p]) /\ 1 \in DOMAIN outbox[p]
    <2>1. outbox[p] \in Seq(Batch) /\ outbox[p] # << >>
        BY Places, <1>1 DEF PushedTo
    <2> QED
        BY <2>1, TailOf
<1>3. x \in Notification /\ (x.type \in ControlType => p = GRTIx) /\ GRTIx \in LRT
    BY <1>2, Places, GRTAssumption DEF Batch, SentInOrder
<1>4. /\ DOMAIN queue[e] = 1 .. Len(queue[e]) /\ Len(queue[e]) \in Nat
      /\ DOMAIN queue'[e] = 1 .. Len(queue[e]) + 1
      /\ \A i \in DOMAIN queue[e] : queue'[e][i] = queue[e][i]
      /\ queue'[e][Len(queue[e]) + 1] = x
      /\ \A f \in Endpoint \ {e} : queue'[f] = queue[f]
    <2>1. queue' = [queue EXCEPT ![e] = Append(@, x)]
        BY <1>1 DEF PushedTo
    <2> HIDE DEF x
    <2> QED
        BY <1>3, <2>1, QueueAppended
<1>5. /\ e \in outbox[p][1].to
      /\ shift = 1 <=> outbox[p][1].to = {e}
      /\ DOMAIN outbox'[p] = 1 .. Len(outbox[p]) - shift
      /\ \A b \in 1 .. Len(outbox[p]) - shift :
          /\ outbox'[p][b].note = outbox[p][b + shift].note
          /\ outbox'[p][b].to = IF b + shift = 1 THEN outbox[p][1].to \ {e}
                                ELSE outbox[p][b + shift].to
      /\ \A o \in LRT \ {p} : outbox'[o] = outbox[o]
    BY <1>1 DEF PushedTo
<1>6. \A b \in 1 .. Len(outbox[p]) - shift :
          /\ b + shift \in DOMAIN outbox[p]
          /\ outbox'[p][b].to \subseteq outbox[p][b + shift].to
          /\ outbox'[p][b].to # {}
          /\ e \in outbox'[p][b].to => b + shift # 1 /\ 1 < b + shift
    <2> TAKE b \in 1 .. Len(outbox[p]) - shift
    <2>1. b + shift \in DOMAIN outbox[p] /\ b + shift \in Nat \ {0}
        BY <1>2
    <2>2. outbox[p][b + shift].to # {}
        BY <2>1 DEF SentInOrder
    <2>3. CASE b + shift = 1
        <3>1. shift # 1
            BY <1>2, <2>3
        <3>2. outbox'[p][b].to = outbox[p][1].to \ {e} /\ outbox[p][1].to # {e}
            BY <1>5, <2>3, <3>1
        <3> QED
            BY <1>5, <2>1, <2>3, <3>2
    <2>4. CASE b + shift # 1
        <3>1. outbox'[p][b].to = outbox[p][b + shift].to /\ 1 < b + shift
            BY <1>5, <2>1, <2>4
        <3> QED
            BY <2>1, <2>2, <2>4, <3>1
    <2> QED
        BY <2>3, <2>4
<1>7. LRT \subseteq Endpoint
    BY EndpointType
<1> HIDE DEF x
<1>8. ASSUME NEW r \in LRT, NEW n
      PROVE  n \in Coming(r)' <=> n \in Coming(r)
    <2>1. CASE p # GRTIx
        <3>1. ob2 = ob /\ x.type \notin ControlType
            BY <1>3, <1>5, <2>1
        <3>2. n.type \in ControlType =>
                 ((\E i \in DOMAIN queue'[r] : n = queue'[r][i])
                    <=> (\E i \in DOMAIN queue[r] : n = queue[r][i]))
            BY <1>4, <1>7, <3>1
        <3> QED
            BY <3>1, <3>2, ComingOf, ComingOfNext
    <2>2. CASE p = GRTIx /\ r # e
        <3>1. queue'[r] = queue[r]
            BY <1>4, <1>7, <2>2
        <3>2. ASSUME NEW b \in DOMAIN ob2, r \in ob2[b].to
              PROVE  \E a \in DOMAIN ob : r \in ob[a].to /\ ob[a].note = ob2[b].note
            <4>1. b \in 1 .. Len(outbox[p]) - shift
                BY <1>5, <2>2, <3>2
            <4>2. /\ b + shift \in DOMAIN ob /\ ob2[b].note = ob[b + shift].note
                  /\ r \in ob[b + shift].to
                BY <1>5, <1>6, <2>2, <3>2, <4>1
            <4> QED
                BY <4>2
        <3>3. ASSUME NEW a \in DOMAIN ob, r \in ob[a].to
              PROVE  \E b \in DOMAIN ob2 : r \in ob2[b].to /\ ob2[b].note = ob[a].note
            <4>1. shift = 1 => a # 1
                BY <1>5, <2>2, <3>3
            <4>2. a - shift \in DOMAIN ob2 /\ a - shift + shift = a
                BY <1>2, <1>5, <2>2, <4>1
            <4>3. r \in ob2[a - shift].to /\ ob2[a - shift].note = ob[a].note
                BY <1>5, <2>2, <3>3, <4>2
            <4> QED
                BY <4>2, <4>3
        <3> QED
            BY <3>1, <3>2, <3>3, ComingOf, ComingOfNext
    <2>3. CASE p = GRTIx /\ r = e
        <3>1. (\E i \in DOMAIN queue'[r] : n = queue'[r][i])
                <=> (n = x \/ \E i \in DOMAIN queue[r] : n = queue[r][i])
            BY <1>4, <2>3
        <3>2. ASSUME NEW b \in DOMAIN ob2, r \in ob2[b].to
              PROVE  \E a \in DOMAIN ob : r \in ob[a].to /\ ob[a].note = ob2[b].note
            <4>1. b \in 1 .. Len(outbox[p]) - shift
                BY <1>5, <2>3, <3>2
            <4>2. /\ b + shift \in DOMAIN ob /\ ob2[b].note = ob[b + shift].note
                  /\ r \in ob[b + shift].to
                BY <1>5, <1>6, <2>3, <3>2, <4>1
            <4> QED
                BY <4>2
        <3>3. ASSUME NEW a \in DOMAIN ob, r \in ob[a].to, a # 1
              PROVE  \E b \in DOMAIN ob2 : r \in ob2[b].to /\ ob2[b].note = ob[a].note
            <4>2. a - shift \in DOMAIN ob2 /\ a - shift + shift = a
                BY <1>2, <1>5, <2>3, <3>3
            <4>3. r \in ob2[a - shift].to /\ ob2[a - shift].note = ob[a].note
                BY <1>5, <2>3, <3>3, <4>2
            <4> QED
                BY <4>2, <4>3
        <3>4. 1 \in DOMAIN ob /\ r \in ob[1].to /\ ob[1].note = x
            BY <1>2, <1>5, <2>3 DEF x
        <3> QED
            BY <3>1, <3>2, <3>3, <3>4, ComingOf, ComingOfNext
    <2> QED
        BY <2>1, <2>2, <2>3
<1>9. \A r \in LRT : Coming(r)' = Coming(r)
    <2> TAKE r \in LRT
    <2>1. \A n : n \in Coming(r)' <=> n \in Coming(r)
        BY <1>8
    <2> QED
        BY <2>1

\* In the queues, in the outbox of the GRT, and from those to that.
<1>10. ASSUME NEW r \in LRT, NEW i \in DOMAIN queue'[r], NEW j \in DOMAIN queue'[r], i < j
       PROVE  InOrder(queue'[r][i], queue'[r][j])
    <2>1. CASE r # e
        BY <1>4, <1>7, <1>10, <2>1 DEF SentInOrder
    <2>2. CASE r = e /\ j <= Len(queue[e])
        BY <1>4, <1>10, <2>2 DEF SentInOrder
    <2>3. CASE r = e /\ j = Len(queue[e]) + 1
        <3>1. i \in DOMAIN queue[e] /\ queue'[r][i] = queue[r][i] /\ queue'[r][j] = x
            BY <1>4, <1>10, <2>3
        <3>2. p = GRTIx => InOrder(queue[r][i], ob[1].note)
            BY <1>2, <1>5, <2>3, <3>1 DEF SentInOrder
        <3>3. p # GRTIx => InOrder(queue[r][i], x)
            BY <1>3 DEF InOrder
        <3> QED
            BY <3>1, <3>2, <3>3 DEF x
    <2> QED
        BY <1>4, <2>1, <2>2, <2>3
<1>11. ASSUME NEW r \in LRT, NEW i \in DOMAIN queue'[r], NEW b \in DOMAIN ob2, r \in ob2[b].to
       PROVE  InOrder(queue'[r][i], ob2[b].note)
    <2>1. PICK a \in DOMAIN ob : /\ ob2[b].note = ob[a].note /\ r \in ob[a].to
                                 /\ p = GRTIx /\ r = e => a # 1 /\ 1 < a
        <3>1. CASE p # GRTIx
            BY <1>3, <1>5, <1>11, <3>1
        <3>2. CASE p = GRTIx
            <4>1. b \in 1 .. Len(outbox[p]) - shift
                BY <1>5, <3>2
            <4>2. b + shift \in DOMAIN ob /\ ob2[b].note = ob[b + shift].note
                BY <1>5, <1>6, <3>2, <4>1
            <4>3. r \in ob[b + shift].to /\ (r = e => b + shift # 1 /\ 1 < b + shift)
                BY <1>6, <1>11, <3>2, <4>1
            <4> QED
                BY <4>2, <4>3
        <3> QED
            BY <3>1, <3>2
    <2>2. CASE r = e /\ i = Len(queue[e]) + 1
        <3>1. queue'[r][i] = x
            BY <1>4, <2>2
        <3>2. p = GRTIx => InOrder(ob[1].note, ob[a].note)
            BY <1>2, <2>1, <2>2 DEF SentInOrder
        <3>3. p # GRTIx => InOrder(x, ob[a].note)
            BY <1>3 DEF InOrder
        <3> QED
            BY <2>1, <3>1, <3>2, <3>3 DEF x
    <2>3. CASE ~(r = e /\ i = Len(queue[e]) + 1)
        <3>1. i \in DOMAIN queue[r] /\ queue'[r][i] = queue[r][i]
            BY <1>4, <1>7, <2>3
        <3> QED
            BY <2>1, <3>1 DEF SentInOrder
    <2> QED
        BY <2>2, <2>3
<1>12. ASSUME NEW a \in DOMAIN ob2, NEW b \in DOMAIN ob2, a < b
       PROVE  InOrder(ob2[a].note, ob2[b].note)
    <2>1. CASE p # GRTIx
        BY <1>3, <1>5, <1>12, <2>1 DEF SentInOrder
    <2>2. CASE p = GRTIx
        <3>1. a \in 1 .. Len(outbox[p]) - shift /\ b \in 1 .. Len(outbox[p]) - shift
            BY <1>5, <2>2
        <3>2. a + shift < b + shift
            BY <1>2, <1>12, <3>1
        <3> QED
            BY <1>5, <1>6, <2>2, <3>1, <3>2 DEF SentInOrder
    <2> QED
        BY <2>1, <2>2
<1>13. ASSUME NEW o \in LRT, NEW b \in DOMAIN outbox'[o]
       PROVE  /\ outbox'[o][b].to # {}
              /\ outbox'[o][b].note.type \in ControlType => o = GRTIx
    <2>1. CASE o # p
        BY <1>5, <2>1 DEF SentInOrder
    <2>2. CASE o = p
        <3>1. b \in 1 .. Len(outbox[p]) - shift
            BY <1>5, <2>2
        <3> QED
            BY <1>5, <1>6, <2>2, <3>1 DEF SentInOrder
    <2> QED
        BY <2>1, <2>2
<1>14. \A r \in LRT : pc'[r] \in {"Check", "Kernel"} => Ready(r)'
    BY <1>1, <1>5 DEF SentInOrder, Ready, PushedTo
<1> QED
    BY <1>9, <1>10, <1>11, <1>12, <1>13, <1>14 DEF SentInOrder

\* The threads that are about to check or run a job have nothing to push.
ReadyKept == \A r \in LRT : pc'[r] \in {"Check", "Kernel"} => Ready(r)'

\* Nothing is pushed, popped or sent.
LEMMA CommKept ==
    ASSUME SentInOrder, queue' = queue, outbox' = outbox, ReadyKept
    PROVE  SentInOrder' /\ \A r \in LRT : Coming(r)' = Coming(r)
<1>1. \A r \in LRT : Coming(r)' = Coming(r)
    BY DEF Coming, InQueue, ToPush
<1>2. SentInOrder'
    BY DEF SentInOrder, ReadyKept
<1> QED
    BY <1>1, <1>2

\* Reading the head of a queue takes nothing else from what is coming.
LEMMA ReadFrom ==
    ASSUME NEW e, NEW h, outbox' = outbox,
           \A n : (\E i \in DOMAIN queue[e] : n = queue[e][i])
                    <=> (n = h \/ \E i \in DOMAIN queue'[e] : n = queue'[e][i])
    PROVE  \A n : n \in Coming(e) <=> n \in Coming(e)' \/ (n = h /\ h.type \in ControlType)
BY ComingOf, ComingOfNext

\* A notification of the GRT is read: it came before all that is coming now.
LEMMA PopComing ==
    ASSUME TypeOK, SentInOrder, NEW e \in Endpoint, queue[e] # << >>,
           queue' = [queue EXCEPT ![e] = Tail(@)], outbox' = outbox, ReadyKept
    PROVE  /\ SentInOrder'
           /\ \A r \in LRT : /\ r # e => Coming(r)' = Coming(r)
                             /\ Coming(r)' \subseteq Coming(r)
           /\ Head(queue[e]) \in Notification
           /\ e \in LRT /\ Head(queue[e]).type \in ControlType =>
                 /\ Head(queue[e]) \in Coming(e)
                 /\ Coming(e) = Coming(e)' \cup {Head(queue[e])}
                 /\ \A n \in Coming(e)' : Before(Head(queue[e]), n)
           /\ e \in LRT /\ Head(queue[e]).type \notin ControlType =>
                 Coming(e)' = Coming(e)
<1> DEFINE h == Head(queue[e])
           ob == outbox[GRTIx]
<1>1. /\ DOMAIN queue[e] = 1 .. Len(queue[e]) /\ Len(queue[e]) \in Nat \ {0}
      /\ DOMAIN queue'[e] = 1 .. Len(queue[e]) - 1
      /\ \A i \in 1 .. Len(queue[e]) - 1 : queue'[e][i] = queue[e][i + 1]
      /\ h = queue[e][1] /\ h \in Notification
      /\ \A f \in Endpoint \ {e} : queue'[f] = queue[f]
    BY QueuePopped
<1>2. LRT \subseteq Endpoint
    BY EndpointType
<1> HIDE DEF h
<1>3. /\ \A i \in DOMAIN queue'[e] : i + 1 \in DOMAIN queue[e] /\ 1 < i + 1
      /\ \A i \in DOMAIN queue[e] : i # 1 => i - 1 \in DOMAIN queue'[e] /\ i - 1 + 1 = i
      /\ 1 \in DOMAIN queue[e]
    BY <1>1
<1>4. \A n : (\E i \in DOMAIN queue[e] : n = queue[e][i])
                <=> (n = h \/ \E i \in DOMAIN queue'[e] : n = queue'[e][i])
    <2> TAKE n
    <2>1. ASSUME NEW i \in DOMAIN queue[e], n = queue[e][i], i # 1
          PROVE  \E j \in DOMAIN queue'[e] : n = queue'[e][j]
        <3>1. i - 1 \in DOMAIN queue'[e] /\ queue'[e][i - 1] = queue[e][i]
            BY <1>1, <1>3, <2>1
        <3> QED
            BY <2>1, <3>1
    <2>2. ASSUME NEW i \in DOMAIN queue'[e], n = queue'[e][i]
          PROVE  \E j \in DOMAIN queue[e] : n = queue[e][j]
        <3>1. i + 1 \in DOMAIN queue[e] /\ queue'[e][i] = queue[e][i + 1]
            BY <1>1, <1>3, <2>2
        <3> QED
            BY <2>2, <3>1
    <2> QED
        BY <1>1, <1>3, <2>1, <2>2
<1>5. ASSUME NEW r \in LRT, r # e PROVE Coming(r)' = Coming(r)
    <2>1. queue'[r] = queue[r]
        BY <1>1, <1>2, <1>5
    <2>2. Coming(r)' = Coming(r)
        BY <2>1 DEF Coming, InQueue, ToPush
    <2> QED
        BY <2>2
<1>6. ASSUME e \in LRT
      PROVE  \A n : n \in Coming(e) <=> n \in Coming(e)' \/ (n = h /\ h.type \in ControlType)
    BY <1>4, ReadFrom
<1>7. ASSUME e \in LRT, h.type \in ControlType, NEW n \in Coming(e)'
      PROVE  Before(h, n)
    <2>1. n.type \in ControlType
        BY <1>7, ComingOfNext
    <2>2. CASE \E i \in DOMAIN queue'[e] : n = queue'[e][i]
        <3>1. PICK i \in DOMAIN queue'[e] : n = queue'[e][i]
            BY <2>2
        <3>2. n = queue[e][i + 1] /\ i + 1 \in DOMAIN queue[e] /\ 1 < i + 1
            BY <1>1, <1>3, <3>1
        <3>3. InOrder(queue[e][1], queue[e][i + 1])
            BY <1>3, <1>7, <3>2 DEF SentInOrder
        <3> QED
            BY <1>1, <1>7, <2>1, <3>2, <3>3 DEF InOrder
    <2>3. CASE \E b \in DOMAIN ob : e \in ob[b].to /\ n = ob[b].note
        <3>1. InOrder(queue[e][1], n)
            BY <1>3, <1>7, <2>3 DEF SentInOrder
        <3> QED
            BY <1>1, <1>7, <2>1, <3>1 DEF InOrder
    <2> QED
        BY <1>7, <2>2, <2>3, ComingOfNext
<1>8. ASSUME NEW r \in LRT, NEW i \in DOMAIN queue'[r]
      PROVE  \E k \in DOMAIN queue[r] :
                /\ queue'[r][i] = queue[r][k]
                /\ k = IF r = e THEN i + 1 ELSE i
    BY <1>1, <1>2, <1>3, <1>8
<1>9. SentInOrder'
    <2>1. ASSUME NEW r \in LRT, NEW i \in DOMAIN queue'[r], NEW j \in DOMAIN queue'[r], i < j
          PROVE  InOrder(queue'[r][i], queue'[r][j])
        <3>1. PICK k \in DOMAIN queue[r] : /\ queue'[r][i] = queue[r][k]
                                           /\ k = IF r = e THEN i + 1 ELSE i
            BY <1>8
        <3>2. PICK l \in DOMAIN queue[r] : /\ queue'[r][j] = queue[r][l]
                                           /\ l = IF r = e THEN j + 1 ELSE j
            BY <1>8
        <3>3. k < l
            BY <1>1, <2>1, <3>1, <3>2
        <3> QED
            BY <3>1, <3>2, <3>3 DEF SentInOrder
    <2>2. ASSUME NEW r \in LRT, NEW i \in DOMAIN queue'[r], NEW b \in DOMAIN ob, r \in ob[b].to
          PROVE  InOrder(queue'[r][i], ob[b].note)
        BY <1>8, <2>2 DEF SentInOrder
    <2> QED
        BY <2>1, <2>2 DEF SentInOrder, ReadyKept
<1>10. \A r \in LRT : Coming(r)' \subseteq Coming(r)
    BY <1>5, <1>6
<1>11. ASSUME e \in LRT, h.type \in ControlType
       PROVE  h \in Coming(e) /\ Coming(e) = Coming(e)' \cup {h}
    BY <1>6, <1>11
<1>12. ASSUME e \in LRT, h.type \notin ControlType
       PROVE  Coming(e)' = Coming(e)
    <2>1. \A n : n \in Coming(e) <=> n \in Coming(e)'
        BY <1>6, <1>12
    <2> QED
        BY <2>1
<1> QED
    BY <1>1, <1>5, <1>7, <1>9, <1>10, <1>11, <1>12 DEF h

\* A thread sends notifications that are not those of the GRT.
LEMMA OthersSent ==
    ASSUME TypeOK, SentInOrder, NEW o \in LRT, Ready(o), NEW batches \in Seq(Batch),
           queue' = queue, outbox' = [outbox EXCEPT ![o] = batches], ReadyKept,
           \A b \in DOMAIN batches : /\ batches[b].to # {}
                                     /\ batches[b].note.type \notin ControlType
    PROVE  SentInOrder' /\ \A r \in LRT : Coming(r)' = Coming(r)
<1>1. outbox'[o] = batches /\ \A q \in LRT \ {o} : outbox'[q] = outbox[q]
    BY DEF TypeOK, CommTypeOK
<1>2. GRTIx \in LRT /\ DOMAIN outbox[o] = {}
    BY GRTAssumption DEF Ready
<1>3. \A b \in DOMAIN outbox'[GRTIx] :
          \/ outbox'[GRTIx] = outbox[GRTIx]
          \/ outbox'[GRTIx][b].note.type \notin ControlType
    BY <1>1, <1>2
<1>4. \A r \in LRT : Coming(r)' = Coming(r)
    <2> TAKE r \in LRT
    <2>1. \A n : n \in Coming(r)' <=> n \in Coming(r)
        BY <1>1, <1>2, <1>3, ComingOf, ComingOfNext
    <2> QED
        BY <2>1
<1>5. SentInOrder'
    BY <1>1, <1>3 DEF SentInOrder, ReadyKept, InOrder
<1> QED
    BY <1>4, <1>5

\* What the GRT sends to r with batches.
Sent(batches, r) ==
    {batches[b].note : b \in {a \in DOMAIN batches : r \in batches[a].to}}

\* The GRT sends notifications, after those it has sent.
LEMMA GRTSent ==
    ASSUME TypeOK, SentInOrder, Ready(GRTIx), NEW batches \in Seq(Batch),
           queue' = queue, outbox' = [outbox EXCEPT ![GRTIx] = batches], ReadyKept,
           \A b \in DOMAIN batches : /\ batches[b].to # {}
                                     /\ batches[b].note.type \in ControlType,
           \A a, b \in DOMAIN batches : a < b => Before(batches[a].note, batches[b].note),
           \A r \in LRT : \A n \in Coming(r), m \in Sent(batches, r) : Before(n, m)
    PROVE  SentInOrder' /\ \A r \in LRT : Coming(r)' = Coming(r) \cup Sent(batches, r)
<1>1. /\ GRTIx \in LRT /\ DOMAIN outbox[GRTIx] = {}
      /\ outbox'[GRTIx] = batches /\ \A q \in LRT \ {GRTIx} : outbox'[q] = outbox[q]
    BY GRTAssumption DEF TypeOK, CommTypeOK, Ready
<1>2. ASSUME NEW r \in LRT PROVE Coming(r)' = Coming(r) \cup Sent(batches, r)
    <2>1. \A n : n \in Sent(batches, r) <=>
                    /\ n.type \in ControlType
                    /\ \E b \in DOMAIN batches : r \in batches[b].to /\ n = batches[b].note
        BY DEF Sent
    <2>2. \A n : n \in Coming(r)' <=> n \in Coming(r) \cup Sent(batches, r)
        BY <1>1, <2>1, ComingOf, ComingOfNext
    <2> QED
        BY <2>2
<1>3. ASSUME NEW r \in LRT, NEW i \in DOMAIN queue[r], NEW b \in DOMAIN batches, r \in batches[b].to
      PROVE  InOrder(queue[r][i], batches[b].note)
    <2>1. queue[r][i].type \in ControlType => queue[r][i] \in Coming(r)
        BY <1>3, ComingOf
    <2>2. batches[b].note \in Sent(batches, r)
        BY <1>3 DEF Sent
    <2> QED
        BY <2>1, <2>2 DEF InOrder
<1>4. SentInOrder'
    BY <1>1, <1>3 DEF SentInOrder, ReadyKept, InOrder
<1> QED
    BY <1>2, <1>4

-----------------------------------------------------------------------------
(* What a step leaves as it is                                             *)

\* The label of the GRT stays in the same part of the round.
PhaseStays == \/ pc'[GRTIx] = pc[GRTIx]
              \/ pc[GRTIx] \in Launched /\ pc'[GRTIx] \in Launched

SameRound == PhaseStays /\ UNCHANGED <<context, round, toLaunch, executing, iter, runs>>

\* A step that leaves the label of the GRT among those of its thread leaves
\* the phase.
LEMMA PhaseIs ==
    ASSUME PhaseStays
    PROVE  /\ InRound' <=> InRound
           /\ pc'[GRTIx] \in Launched <=> pc[GRTIx] \in Launched
           /\ pc'[GRTIx] = "Launch" <=> pc[GRTIx] = "Launch"
           /\ pc'[GRTIx] = "Params" <=> pc[GRTIx] = "Params"
           /\ pc'[GRTIx] = "Stopped" <=> pc[GRTIx] = "Stopped"
           /\ pc'[GRTIx] \in {"Join", "Exited"} <=> pc[GRTIx] \in {"Join", "Exited"}
           /\ pc'[GRTIx] \in {"App", "Join", "Exited"}
                 <=> pc[GRTIx] \in {"App", "Join", "Exited"}
BY DEF PhaseStays, Launched, InRound

\* What is expected depends on what is coming only.
LEMMA SameComing ==
    ASSUME NEW r, Coming(r)' = Coming(r)
    PROVE  /\ \A type : Expects(r, type)' <=> Expects(r, type)
           /\ Adds(r)' = Adds(r)
BY DEF Expects, Adds

\* A runner whose flags and whose notifications are the same.
LEMMA PhaseKept ==
    ASSUME PhaseStays, NEW r \in LRT, ComingInPhase(r), RunnerInPhase(r),
           round' = round, Coming(r)' = Coming(r),
           runner'[r].start = runner[r].start,
           runner'[r].finished = runner[r].finished,
           runner'[r].receivedEnd = runner[r].receivedEnd,
           runner'[r].shouldBroadcast = runner[r].shouldBroadcast,
           runner'[r].jobCount = runner[r].jobCount,
           runner'[r].jobQueue = runner[r].jobQueue,
           pc'[r] # "Thrown", pc'[r] = "Kernel" => runner[r].start
    PROVE  ComingInPhase(r)' /\ RunnerInPhase(r)'
<1>1. /\ \A type : Expects(r, type)' <=> Expects(r, type)
      /\ Active(r)' <=> Active(r)
    BY SameComing DEF Active
<1>2. ComingInPhase(r)'
    BY <1>1, PhaseIs DEF ComingInPhase
<1>3. RunnerInPhase(r)'
    BY <1>1, PhaseIs DEF RunnerInPhase
<1> QED
    BY <1>2, <1>3

\* A runner whose jobs and whose notifications are the same.
LEMMA JobsKept ==
    ASSUME SameRound, NEW r \in LRT, JobsOfRound(r), KeptInv(r),
           Coming(r)' = Coming(r),
           runner'[r].start = runner[r].start,
           runner'[r].repeat = runner[r].repeat,
           runner'[r].jobQueue = runner[r].jobQueue,
           runner'[r].jobQueueCurrentPos = runner[r].jobQueueCurrentPos,
           \A t \in Task : t \in done' /\ t \notin done => MappedLRT[t] # r,
           done \subseteq done'
    PROVE  JobsOfRound(r)' /\ KeptInv(r)'
<1>1. /\ \A type : Expects(r, type)' <=> Expects(r, type)
      /\ Active(r)' <=> Active(r)
      /\ Adds(r)' = Adds(r)
    BY SameComing DEF Active
<1>2. /\ RoundJobs(r)' = RoundJobs(r) /\ Queued(r)' = Queued(r) /\ Ran(r)' = Ran(r)
      /\ Kept(r)' = Kept(r)
    BY DEF SameRound, RoundJobs, Queued, Ran, Kept, TasksOfRound, TasksOf
<1>3. \A t \in RoundJobs(r) : t \in Task /\ (t \in done' <=> t \in done)
    BY DEF RoundJobs, TasksOfRound, TasksOf
<1>4. RoundJobs(r) \cap done' = RoundJobs(r) \cap done
    BY <1>3
<1>5. (Dropped' <=> Dropped) /\ (InRound' <=> InRound)
    BY PhaseIs DEF SameRound, Dropped
<1>6. UNCHANGED <<context, round, toLaunch, executing, iter>>
    BY DEF SameRound
<1>7. JobsOfRound(r)'
    BY <1>1, <1>2, <1>3, <1>4, <1>5, <1>6 DEF JobsOfRound
<1>8. KeptInv(r)'
    BY <1>1, <1>2, <1>5, <1>6 DEF KeptInv
<1> QED
    BY <1>7, <1>8

\* A step that leaves the variables of the calls leaves what is said of them.
LEMMA CallKept ==
    ASSUME SameRound, CallInv
    PROVE  CallInv'
BY PhaseIs DEF SameRound, CallInv, TasksOfRound, TasksOf

\* So does a step that executes nothing, for the tasks done.
LEMMA DoneKept ==
    ASSUME SameRound, DoneInv, TypeOK, done' = done,
           \A l \in LRT : stamps'[l][l] = stamps[l][l]
    PROVE  DoneInv'
<1>1. \A t \in done : MappedLRT[t] \in LRT
    BY MappingAssumption DEF TypeOK, RunnerTypeOK
<1> QED
    BY <1>1, PhaseIs DEF SameRound, DoneInv, TasksOfRound, TasksOf

\* The invariants, once the runner that steps is dealt with.
LEMMA RunnerRound ==
    ASSUME PhaseInv, JobsInv, NEW r \in LRT, SameRound,
           \A q \in LRT \ {r} : /\ runner'[q] = runner[q] /\ pc'[q] = pc[q]
                                /\ Coming(q)' = Coming(q),
           \A t \in Task : t \in done' /\ t \notin done => MappedLRT[t] = r,
           done \subseteq done',
           ComingInPhase(r)', RunnerInPhase(r)', r = GRTIx => GRTInPhase',
           JobsOfRound(r)', KeptInv(r)', DoneInv'
    PROVE  PhaseInv' /\ JobsInv'
<1>1. ASSUME NEW q \in LRT \ {r}
      PROVE  /\ ComingInPhase(q)' /\ RunnerInPhase(q)'
             /\ JobsOfRound(q)' /\ KeptInv(q)'
    <2>1. /\ runner'[q] = runner[q] /\ pc'[q] = pc[q] /\ Coming(q)' = Coming(q)
          /\ q \in LRT /\ round' = round /\ PhaseStays
        BY DEF SameRound
    <2>2. ComingInPhase(q) /\ RunnerInPhase(q) /\ JobsOfRound(q) /\ KeptInv(q)
        BY DEF PhaseInv, JobsInv
    <2>3. pc'[q] # "Thrown" /\ (pc'[q] = "Kernel" => runner[q].start)
        BY <2>1, <2>2 DEF RunnerInPhase
    <2>4. ComingInPhase(q)' /\ RunnerInPhase(q)'
        BY <2>1, <2>2, <2>3, PhaseKept
    <2>5. \A t \in Task : t \in done' /\ t \notin done => MappedLRT[t] # q
        OBVIOUS
    <2>6. JobsOfRound(q)' /\ KeptInv(q)'
        BY <2>1, <2>2, <2>5, JobsKept
    <2> QED
        BY <2>4, <2>6
<1>2. r # GRTIx => GRTInPhase'
    <2> SUFFICES ASSUME r # GRTIx PROVE GRTInPhase'
        OBVIOUS
    <2>1. /\ runner'[GRTIx] = runner[GRTIx] /\ pc'[GRTIx] = pc[GRTIx]
          /\ Coming(GRTIx)' = Coming(GRTIx) /\ executing' = executing
        BY GRTAssumption DEF SameRound
    <2>2. Active(GRTIx)' <=> Active(GRTIx)
        BY <2>1 DEF Active, Expects
    <2> QED
        BY <2>1, <2>2 DEF GRTInPhase, PhaseInv, InRound
<1>3. CallInv'
    BY CallKept DEF JobsInv
<1> QED
    BY <1>1, <1>2, <1>3 DEF PhaseInv, JobsInv

-----------------------------------------------------------------------------
(* What a runner reads                                                     *)

\* What a runner does when it reads a notification, in general.
LEMMA ReadStep ==
    ASSUME TypeOK, SentInOrder, UNCHANGED grtVars, NEW r \in LRT, NEW type,
           Received(r, type), pc' = pc, NEW m, runner' = [runner EXCEPT ![r] = m]
    PROVE  /\ SentInOrder' /\ SameRound
           /\ pc[r] = "Read" /\ done' = done /\ runner'[r] = m
           /\ \A q \in LRT \ {r} : /\ runner'[q] = runner[q] /\ pc'[q] = pc[q]
                                   /\ Coming(q)' = Coming(q)
           /\ \A t \in Task : t \in done' /\ t \notin done => MappedLRT[t] = r
           /\ done \subseteq done'
<1>1. /\ queue[r] # << >> /\ queue' = [queue EXCEPT ![r] = Tail(@)]
      /\ pc[r] = "Read" /\ outbox' = outbox /\ done' = done
    BY DEF Received, Reading, Pop
<1>2. ReadyKept
    BY <1>1 DEF ReadyKept, SentInOrder, Ready
<1>3. SentInOrder' /\ \A q \in LRT : q # r => Coming(q)' = Coming(q)
    BY <1>1, <1>2, EndpointType, PopComing
<1>4. SameRound
    BY DEF SameRound, PhaseStays, grtVars
<1>5. runner'[r] = m /\ \A q \in LRT \ {r} : runner'[q] = runner[q]
    BY DEF TypeOK, RunnerTypeOK
<1> QED
    BY <1>1, <1>3, <1>4, <1>5

\* Reading a notification of the GRT takes the first one that was sent.
LEMMA ReadControl ==
    ASSUME TypeOK, SentInOrder, NEW r \in LRT, NEW type \in ControlType,
           Received(r, type), pc'[r] \in {"Read", "Stopped"},
           \A q \in LRT \ {r} : pc'[q] = pc[q]
    PROVE  /\ \E h \in Coming(r) :
                 /\ h = Head(queue[r]) /\ h.type = type /\ h \in Notification
                 /\ Coming(r) = Coming(r)' \cup {h}
                 /\ \A n \in Coming(r)' : Before(h, n)
           /\ \A ty : ty # type => (Expects(r, ty)' <=> Expects(r, ty))
           /\ type # "JOB_ADD" => Adds(r)' = Adds(r)
<1>1. /\ queue[r] # << >> /\ queue' = [queue EXCEPT ![r] = Tail(@)]
      /\ pc[r] = "Read" /\ outbox' = outbox /\ Head(queue[r]).type = type
    BY DEF Received, Reading, Pop
<1>2. ReadyKept
    BY <1>1 DEF ReadyKept, SentInOrder, Ready
<1> DEFINE h == Head(queue[r])
<1>3. /\ h \in Coming(r) /\ h.type = type /\ h \in Notification
      /\ Coming(r) = Coming(r)' \cup {h}
      /\ \A n \in Coming(r)' : Before(h, n)
    <2>1. r \in Endpoint
        BY EndpointType
    <2> QED
        BY <1>1, <1>2, <2>1, PopComing
<1> HIDE DEF h
<1>4. \A ty : ty # type => (Expects(r, ty)' <=> Expects(r, ty))
    BY <1>3 DEF Expects
<1>5. type # "JOB_ADD" => Adds(r)' = Adds(r)
    <2> SUFFICES ASSUME type # "JOB_ADD" PROVE Adds(r)' = Adds(r)
        OBVIOUS
    <2>1. {m \in Coming(r)' : m.type = "JOB_ADD"} = {m \in Coming(r) : m.type = "JOB_ADD"}
        BY <1>3
    <2> QED
        BY <2>1 DEF Adds
<1> QED
    BY <1>3, <1>4, <1>5 DEF h

\* What the types of the notifications say of their order.
LEMMA BeforeTypes ==
    ASSUME NEW m, NEW n, Before(m, n)
    PROVE  /\ m.type = "LRT_START_ITERATION" =>
                 n.type \in {"JOB_ADD", "JOB_DELAY_BROADCAST_JOBSTAMP", "LRT_END_ITERATION"}
           /\ m.type = "JOB_ADD" =>
                 n.type \in {"JOB_ADD", "JOB_DELAY_BROADCAST_JOBSTAMP", "LRT_END_ITERATION"}
           /\ m.type = "JOB_ADD" /\ n.type = "JOB_ADD" => m.notificationIx < n.notificationIx
           /\ m.type = "JOB_DELAY_BROADCAST_JOBSTAMP" => n.type = "LRT_END_ITERATION"
           /\ m.type = "LRT_REPEAT_ITERATION_EN" =>
                 n.type \in {"LRT_START_ITERATION", "JOB_ADD",
                             "JOB_DELAY_BROADCAST_JOBSTAMP", "LRT_END_ITERATION"}
           /\ m.type # "LRT_END_ITERATION" /\ m.type # "LRT_STOP"
BY DEF Before, Resets

\* At the start of its queue a runner has run nothing.
LEMMA NoRan == ASSUME NEW r, runner'[r].jobQueueCurrentPos = 0 PROVE Ran(r)' = {}
<1>1. 1 .. 0 = {}
    OBVIOUS
<1> QED
    BY <1>1 DEF Ran

\* The notification at the head of a queue came first.
LEMMA HeadFirst ==
    ASSUME TypeOK, SentInOrder, NEW r \in LRT, queue[r] # << >>,
           Head(queue[r]).type \in ControlType
    PROVE  /\ Head(queue[r]) \in Coming(r)
           /\ \A n \in Coming(r) : n = Head(queue[r]) \/ Before(Head(queue[r]), n)
<1>1. queue[r] \in Seq(Notification)
    BY EndpointType DEF TypeOK, CommTypeOK
<1>2. /\ Head(queue[r]) = queue[r][1] /\ 1 \in DOMAIN queue[r]
      /\ \A i \in DOMAIN queue[r] : i # 1 => 1 < i
    BY <1>1, TailOf
<1>3. Head(queue[r]) \in Coming(r)
    BY <1>2, ComingOf
<1>4. ASSUME NEW n \in Coming(r), n # Head(queue[r])
      PROVE  Before(Head(queue[r]), n)
    <2>1. n.type \in ControlType
        BY <1>4, ComingOf
    <2>2. InOrder(queue[r][1], n)
        <3>1. CASE \E i \in DOMAIN queue[r] : n = queue[r][i]
            BY <1>2, <1>4, <3>1 DEF SentInOrder
        <3>2. CASE \E b \in DOMAIN outbox[GRTIx] :
                      r \in outbox[GRTIx][b].to /\ n = outbox[GRTIx][b].note
            BY <1>2, <3>2 DEF SentInOrder
        <3> QED
            BY <1>4, <3>1, <3>2, ComingOf
    <2> QED
        BY <1>2, <2>1, <2>2 DEF InOrder
<1> QED
    BY <1>3, <1>4

\* What the GRT sends after the start of a round meets a runner that iterates.
LEMMA StartedForJobs ==
    ASSUME TypeOK, SentInOrder, PhaseInv, NEW r \in LRT, queue[r] # << >>,
           Head(queue[r]).type \in {"JOB_ADD", "JOB_DELAY_BROADCAST_JOBSTAMP",
                                   "LRT_END_ITERATION"}
    PROVE  runner[r].start /\ InRound
<1> DEFINE h == Head(queue[r])
<1>1. h \in Coming(r) /\ \A n \in Coming(r) : n = h \/ Before(h, n)
    BY HeadFirst DEF ControlType
<1> HIDE DEF h
<1>2. h.type \in {"JOB_ADD", "JOB_DELAY_BROADCAST_JOBSTAMP", "LRT_END_ITERATION"}
    BY DEF h
<1>3. ~Expects(r, "LRT_START_ITERATION")
    BY <1>1, <1>2, BeforeTypes DEF Expects
<1>4. InRound
    BY <1>1, <1>2 DEF PhaseInv, ComingInPhase, InRound
<1> QED
    BY <1>1, <1>3, <1>4 DEF PhaseInv, RunnerInPhase, Active, InRound

\* The GRT goes on reading.
LEMMA GRTReads ==
    ASSUME GRTInPhase, pc' = pc, executing' = executing, pc[GRTIx] = "Read", Active(GRTIx)'
    PROVE  GRTInPhase'
BY DEF GRTInPhase, InRound

\* A step that leaves the job queue of a runner leaves its jobs.
LEMMA SameJobs ==
    ASSUME SameRound, NEW r, runner'[r].jobQueue = runner[r].jobQueue
    PROVE  /\ RoundJobs(r)' = RoundJobs(r) /\ Queued(r)' = Queued(r)
           /\ runner'[r].jobQueueCurrentPos = runner[r].jobQueueCurrentPos
                => Ran(r)' = Ran(r)
           /\ Kept(r)' = Kept(r)
           /\ Dropped' <=> Dropped
           /\ InRound' <=> InRound
<1>1. (Dropped' <=> Dropped) /\ (InRound' <=> InRound)
    BY PhaseIs DEF SameRound, Dropped
<1> QED
    BY <1>1 DEF SameRound, RoundJobs, Queued, Ran, Kept, TasksOfRound, TasksOf

\* A runner starts an iteration that it has closed.
LEMMA ReadStartRound ==
    ASSUME TypeOK, SentInOrder, PhaseInv, JobsInv, UNCHANGED grtVars,
           NEW r \in LRT, ReadStart(r)
    PROVE  SentInOrder' /\ PhaseInv' /\ JobsInv'
<1>1. Head(queue[r]).type = "LRT_START_ITERATION" /\ queue[r] # << >> /\ pc[r] = "Read"
    BY DEF ReadStart, Received, Reading, Pop
<1>2. ComingInPhase(r) /\ RunnerInPhase(r) /\ JobsOfRound(r) /\ KeptInv(r) /\ GRTInPhase
    BY DEF PhaseInv, JobsInv
<1>3. Head(queue[r]) \in Coming(r)
    <2>1. queue[r] \in Seq(Notification)
        BY EndpointType DEF TypeOK, CommTypeOK
    <2>2. Head(queue[r]) = queue[r][1] /\ 1 \in DOMAIN queue[r]
        BY <1>1, <2>1, TailOf
    <2> QED
        BY <1>1, <2>2, ComingOf DEF ControlType
<1>4. InRound /\ ~runner[r].start /\ runner[r].finished /\ ~runner[r].receivedEnd
    BY <1>1, <1>2, <1>3 DEF ComingInPhase, RunnerInPhase
<1> DEFINE m == [runner[r] EXCEPT !.start = TRUE, !.finished = FALSE,
                                  !.jobCount = 0, !.jobQueueCurrentPos = 0]
<1>5. /\ Received(r, "LRT_START_ITERATION") /\ runner' = [runner EXCEPT ![r] = m]
      /\ UNCHANGED <<stamps, pc>>
    BY <1>4 DEF ReadStart
<1>6. /\ m.start = TRUE /\ m.finished = FALSE /\ m.jobQueueCurrentPos = 0
      /\ m.receivedEnd = runner[r].receivedEnd /\ m.jobQueue = runner[r].jobQueue
      /\ m.shouldBroadcast = runner[r].shouldBroadcast /\ m.repeat = runner[r].repeat
    BY RunnerFields DEF RunnerState, TypeOK
<1> HIDE DEF m
<1>7. /\ SentInOrder' /\ SameRound
      /\ pc[r] = "Read" /\ done' = done /\ runner'[r] = m
      /\ \A q \in LRT \ {r} : /\ runner'[q] = runner[q] /\ pc'[q] = pc[q]
                              /\ Coming(q)' = Coming(q)
      /\ \A t \in Task : t \in done' /\ t \notin done => MappedLRT[t] = r
      /\ done \subseteq done'
    BY <1>5, ReadStep
<1>8. PICK h \in Coming(r) : /\ h.type = "LRT_START_ITERATION"
                             /\ Coming(r) = Coming(r)' \cup {h}
                             /\ \A n \in Coming(r)' : Before(h, n)
    BY <1>1, <1>5, ReadControl DEF ControlType
<1>9. /\ \A ty : ty # "LRT_START_ITERATION" => (Expects(r, ty)' <=> Expects(r, ty))
      /\ Adds(r)' = Adds(r)
    BY <1>1, <1>5, ReadControl DEF ControlType
<1>10. /\ round' = round /\ context' = context /\ toLaunch' = toLaunch
       /\ executing' = executing /\ iter' = iter /\ pc' = pc
       /\ InRound' <=> InRound
    BY <1>5, <1>7, PhaseIs DEF SameRound
<1>11. ComingInPhase(r)'
    BY <1>2, <1>7, <1>8, <1>9, <1>10, BeforeTypes DEF ComingInPhase, Resets
<1>12. Active(r) /\ Active(r)' /\ runner'[r].start /\ ~runner'[r].receivedEnd
       /\ runner'[r].finished = FALSE
    BY <1>4, <1>6, <1>7, <1>8 DEF Active, Expects
<1>13. RunnerInPhase(r)'
    BY <1>2, <1>4, <1>7, <1>8, <1>9, <1>10, <1>12 DEF RunnerInPhase
<1>14. GRTInPhase'
    <2>1. r # GRTIx => Coming(GRTIx)' = Coming(GRTIx) /\ runner'[GRTIx] = runner[GRTIx]
        BY <1>7, GRTAssumption
    <2>2. r # GRTIx => (Active(GRTIx)' <=> Active(GRTIx))
        BY <2>1 DEF Active, Expects
    <2> QED
        BY <1>1, <1>2, <1>10, <1>12, <2>1, <2>2 DEF GRTInPhase
<1>15. RoundJobs(r)' = RoundJobs(r) /\ Queued(r)' = Queued(r) /\ Ran(r)' = {}
    <2>1. Ran(r)' = {}
        BY <1>6, <1>7, NoRan
    <2> QED
        BY <1>6, <1>7, <1>10, <2>1 DEF RoundJobs, Queued, TasksOfRound, TasksOf
<1>16. JobsOfRound(r)'
    BY <1>2, <1>4, <1>6, <1>7, <1>9, <1>10, <1>12, <1>15 DEF JobsOfRound
<1>17. KeptInv(r)'
    BY <1>2, <1>6, <1>7, <1>9, <1>10, <1>12 DEF KeptInv, Dropped
<1>18. DoneInv'
    BY <1>5, <1>7, DoneKept DEF JobsInv
<1> QED
    BY <1>7, <1>11, <1>13, <1>14, <1>16, <1>17, <1>18, RunnerRound

\* A runner reads that it has been sent all its jobs.
LEMMA ReadEndRound ==
    ASSUME TypeOK, SentInOrder, PhaseInv, JobsInv, UNCHANGED grtVars,
           NEW r \in LRT, ReadEnd(r)
    PROVE  SentInOrder' /\ PhaseInv' /\ JobsInv'
<1>1. /\ Received(r, "LRT_END_ITERATION") /\ UNCHANGED stamps
      /\ Head(queue[r]).type = "LRT_END_ITERATION" /\ queue[r] # << >> /\ pc[r] = "Read"
    BY DEF ReadEnd, Received, Reading, Pop
<1>2. ComingInPhase(r) /\ RunnerInPhase(r) /\ JobsOfRound(r) /\ KeptInv(r) /\ GRTInPhase
    BY DEF PhaseInv, JobsInv
<1>3. runner[r].start /\ InRound
    BY <1>1, StartedForJobs
<1> DEFINE m == [runner[r] EXCEPT !.receivedEnd = TRUE,
                                  !.jobCount = Len(runner[r].jobQueue)]
<1>4. runner' = [runner EXCEPT ![r] = m] /\ pc' = pc
    BY <1>3 DEF ReadEnd
<1>5. /\ m.start = TRUE /\ m.finished = runner[r].finished
      /\ m.jobQueueCurrentPos = runner[r].jobQueueCurrentPos
      /\ m.receivedEnd /\ m.jobQueue = runner[r].jobQueue
      /\ m.jobCount = Len(runner[r].jobQueue) /\ m.repeat = runner[r].repeat
    BY <1>3, RunnerFields DEF RunnerState, TypeOK
<1> HIDE DEF m
<1>6. /\ SentInOrder' /\ SameRound
      /\ done' = done /\ runner'[r] = m
      /\ \A q \in LRT \ {r} : /\ runner'[q] = runner[q] /\ pc'[q] = pc[q]
                              /\ Coming(q)' = Coming(q)
      /\ \A t \in Task : t \in done' /\ t \notin done => MappedLRT[t] = r
      /\ done \subseteq done'
    BY <1>1, <1>4, ReadStep
<1>7. PICK h \in Coming(r) : /\ h.type = "LRT_END_ITERATION"
                             /\ Coming(r) = Coming(r)' \cup {h}
                             /\ \A n \in Coming(r)' : Before(h, n)
    BY <1>1, <1>4, ReadControl DEF ControlType
<1>8. Coming(r)' = {} /\ pc[GRTIx] \in Launched
    BY <1>2, <1>7, BeforeTypes DEF ComingInPhase
<1>9. /\ \A ty : ty # "LRT_END_ITERATION" => (Expects(r, ty)' <=> Expects(r, ty))
      /\ Adds(r)' = Adds(r)
    BY <1>1, <1>4, ReadControl DEF ControlType
<1>10. /\ context' = context /\ toLaunch' = toLaunch
       /\ executing' = executing /\ iter' = iter
    BY <1>6 DEF SameRound
<1>11. Active(r) /\ Active(r)'
    BY <1>3, <1>5, <1>6 DEF Active
<1>12. ComingInPhase(r)' /\ RunnerInPhase(r)'
    BY <1>1, <1>2, <1>3, <1>4, <1>5, <1>6, <1>8, <1>11
       DEF ComingInPhase, RunnerInPhase, InRound
<1>13. r = GRTIx => GRTInPhase'
    BY <1>1, <1>2, <1>4, <1>10, <1>11, GRTReads
<1>14. /\ RoundJobs(r)' = RoundJobs(r) /\ Queued(r)' = Queued(r) /\ Ran(r)' = Ran(r)
       /\ Dropped' <=> Dropped
       /\ InRound' <=> InRound
    BY <1>5, <1>6, SameJobs
<1>15. JobsOfRound(r)' /\ KeptInv(r)'
    BY <1>2, <1>3, <1>5, <1>6, <1>9, <1>10, <1>11, <1>14 DEF JobsOfRound, KeptInv
<1>16. DoneInv'
    BY <1>1, <1>6, DoneKept DEF JobsInv
<1> QED
    BY <1>6, <1>12, <1>13, <1>15, <1>16, RunnerRound

\* A runner reads that it is to broadcast its last stamp when it closes the round.
LEMMA ReadDelayRound ==
    ASSUME TypeOK, SentInOrder, PhaseInv, JobsInv, UNCHANGED grtVars,
           NEW r \in LRT, ReadDelayBroadcast(r)
    PROVE  SentInOrder' /\ PhaseInv' /\ JobsInv'
<1>1. /\ Received(r, "JOB_DELAY_BROADCAST_JOBSTAMP") /\ UNCHANGED <<stamps, pc>>
      /\ Head(queue[r]).type = "JOB_DELAY_BROADCAST_JOBSTAMP"
      /\ queue[r] # << >> /\ pc[r] = "Read"
    BY DEF ReadDelayBroadcast, Received, Reading, Pop
<1>2. ComingInPhase(r) /\ RunnerInPhase(r) /\ JobsOfRound(r) /\ KeptInv(r) /\ GRTInPhase
    BY DEF PhaseInv, JobsInv
<1>3. runner[r].start /\ InRound
    BY <1>1, StartedForJobs
<1> DEFINE m == [runner[r] EXCEPT !.shouldBroadcast = TRUE]
<1>4. runner' = [runner EXCEPT ![r] = m] /\ pc' = pc
    BY <1>1 DEF ReadDelayBroadcast
<1>5. /\ m.start = TRUE /\ m.finished = runner[r].finished
      /\ m.jobQueueCurrentPos = runner[r].jobQueueCurrentPos
      /\ m.receivedEnd = runner[r].receivedEnd /\ m.jobQueue = runner[r].jobQueue
      /\ m.jobCount = runner[r].jobCount /\ m.repeat = runner[r].repeat
    BY <1>3, RunnerFields DEF RunnerState, TypeOK
<1> HIDE DEF m
<1>6. /\ SentInOrder' /\ SameRound
      /\ done' = done /\ runner'[r] = m
      /\ \A q \in LRT \ {r} : /\ runner'[q] = runner[q] /\ pc'[q] = pc[q]
                              /\ Coming(q)' = Coming(q)
      /\ \A t \in Task : t \in done' /\ t \notin done => MappedLRT[t] = r
      /\ done \subseteq done'
    BY <1>1, <1>4, ReadStep
<1>7. PICK h \in Coming(r) : /\ h.type = "JOB_DELAY_BROADCAST_JOBSTAMP"
                             /\ Coming(r) = Coming(r)' \cup {h}
                             /\ \A n \in Coming(r)' : Before(h, n)
    BY <1>1, <1>4, ReadControl DEF ControlType
<1>8. /\ \A ty : ty # "JOB_DELAY_BROADCAST_JOBSTAMP" => (Expects(r, ty)' <=> Expects(r, ty))
      /\ Adds(r)' = Adds(r)
    BY <1>1, <1>4, ReadControl DEF ControlType
<1>9. /\ context' = context /\ toLaunch' = toLaunch /\ round' = round
      /\ executing' = executing /\ iter' = iter
    BY <1>6 DEF SameRound
<1>10. Active(r) /\ Active(r)'
    BY <1>3, <1>5, <1>6 DEF Active
<1>11. \A n \in Coming(r)' : n \in Coming(r) /\ n.type = "LRT_END_ITERATION"
    BY <1>7, BeforeTypes
<1>12. InRound' <=> InRound
    BY <1>4 DEF InRound
<1>13. ComingInPhase(r)'
    BY <1>2, <1>4, <1>11 DEF ComingInPhase, Resets
<1>14. RunnerInPhase(r)'
    BY <1>1, <1>2, <1>3, <1>4, <1>5, <1>6, <1>7, <1>8, <1>10, <1>12 DEF RunnerInPhase
<1>15. r = GRTIx => GRTInPhase'
    BY <1>1, <1>2, <1>4, <1>9, <1>10, GRTReads
<1>16. /\ RoundJobs(r)' = RoundJobs(r) /\ Queued(r)' = Queued(r) /\ Ran(r)' = Ran(r)
       /\ Dropped' <=> Dropped
    BY <1>5, <1>6, SameJobs
<1>17. JobsOfRound(r)' /\ KeptInv(r)'
    BY <1>2, <1>3, <1>5, <1>6, <1>8, <1>9, <1>10, <1>12, <1>16 DEF JobsOfRound, KeptInv
<1>18. DoneInv'
    BY <1>1, <1>6, DoneKept DEF JobsInv
<1> QED
    BY <1>6, <1>13, <1>14, <1>15, <1>17, <1>18, RunnerRound

\* A runner reads that it is to repeat its jobs.
LEMMA ReadRepeatRound ==
    ASSUME TypeOK, SentInOrder, PhaseInv, JobsInv, UNCHANGED grtVars,
           NEW r \in LRT, ReadRepeat(r)
    PROVE  SentInOrder' /\ PhaseInv' /\ JobsInv'
<1>1. /\ Received(r, "LRT_REPEAT_ITERATION_EN") /\ UNCHANGED <<stamps, pc>>
      /\ pc[r] = "Read"
    BY DEF ReadRepeat, Received, Reading
<1>2. ComingInPhase(r) /\ RunnerInPhase(r) /\ JobsOfRound(r) /\ KeptInv(r) /\ GRTInPhase
    BY DEF PhaseInv, JobsInv
<1> DEFINE m == [runner[r] EXCEPT !.repeat = TRUE]
<1>4. runner' = [runner EXCEPT ![r] = m] /\ pc' = pc
    BY <1>1 DEF ReadRepeat
<1>5. /\ m.start = runner[r].start /\ m.finished = runner[r].finished
      /\ m.jobQueueCurrentPos = runner[r].jobQueueCurrentPos
      /\ m.receivedEnd = runner[r].receivedEnd /\ m.jobQueue = runner[r].jobQueue
      /\ m.jobCount = runner[r].jobCount /\ m.repeat = TRUE
      /\ m.shouldBroadcast = runner[r].shouldBroadcast
    BY RunnerFields DEF RunnerState, TypeOK
<1> HIDE DEF m
<1>6. /\ SentInOrder' /\ SameRound
      /\ done' = done /\ runner'[r] = m
      /\ \A q \in LRT \ {r} : /\ runner'[q] = runner[q] /\ pc'[q] = pc[q]
                              /\ Coming(q)' = Coming(q)
      /\ \A t \in Task : t \in done' /\ t \notin done => MappedLRT[t] = r
      /\ done \subseteq done'
    BY <1>1, <1>4, ReadStep
<1>7. PICK h \in Coming(r) : /\ h.type = "LRT_REPEAT_ITERATION_EN"
                             /\ Coming(r) = Coming(r)' \cup {h}
                             /\ \A n \in Coming(r)' : Before(h, n)
    BY <1>1, <1>4, ReadControl DEF ControlType
<1>8. /\ \A ty : ty # "LRT_REPEAT_ITERATION_EN" => (Expects(r, ty)' <=> Expects(r, ty))
      /\ Adds(r)' = Adds(r)
    BY <1>1, <1>4, ReadControl DEF ControlType
<1>9. /\ context' = context /\ toLaunch' = toLaunch /\ round' = round
      /\ executing' = executing /\ iter' = iter
    BY <1>6 DEF SameRound
<1>10. Active(r)' <=> Active(r)
    BY <1>5, <1>6, <1>8 DEF Active
<1>11. InRound /\ ~runner[r].start /\ Active(r)
    <2>1. Expects(r, "LRT_START_ITERATION")
        BY <1>2, <1>7 DEF ComingInPhase
    <2> QED
        BY <1>2, <2>1 DEF ComingInPhase, Expects, Active
<1>12. InRound' <=> InRound
    BY <1>4 DEF InRound
<1>13. ComingInPhase(r)'
    BY <1>2, <1>4, <1>5, <1>6, <1>7, <1>8, <1>9, <1>12 DEF ComingInPhase
<1>14. RunnerInPhase(r)'
    BY <1>1, <1>2, <1>4, <1>5, <1>6, <1>7, <1>8, <1>10, <1>11, <1>12 DEF RunnerInPhase
<1>15. r = GRTIx => GRTInPhase'
    BY <1>1, <1>2, <1>4, <1>9, <1>10, <1>11, GRTReads
<1>16. /\ RoundJobs(r)' = RoundJobs(r) /\ Queued(r)' = Queued(r) /\ Ran(r)' = Ran(r)
       /\ Dropped' <=> Dropped
    BY <1>5, <1>6, SameJobs
<1>17. JobsOfRound(r)'
    BY <1>2, <1>5, <1>6, <1>8, <1>9, <1>10, <1>12, <1>16 DEF JobsOfRound
<1>18. KeptInv(r)'
    <2>1. StaticContext # {}
        BY <1>2, <1>7 DEF KeptInv, Expects
    <2> QED
        BY <1>2, <1>5, <1>6, <1>8, <1>9, <1>10, <1>11, <1>16, <2>1 DEF KeptInv
<1>19. DoneInv'
    BY <1>1, <1>6, DoneKept DEF JobsInv
<1> QED
    BY <1>6, <1>13, <1>14, <1>15, <1>17, <1>18, <1>19, RunnerRound

\* What CLEAR and RST do to a runner: it has closed its iteration, and it keeps
\* or forgets its jobs.
LEMMA ResetRound ==
    ASSUME TypeOK, SentInOrder, PhaseInv, JobsInv, UNCHANGED grtVars,
           NEW r \in LRT, NEW type \in Resets, Received(r, type), pc' = pc,
           stamps' = [stamps EXCEPT ![r] = NoStamps],
           NEW m \in RunnerState, runner' = [runner EXCEPT ![r] = m],
           m.start = FALSE, m.receivedEnd = FALSE, m.finished = TRUE,
           m.shouldBroadcast = FALSE, m.repeat = runner[r].repeat,
           m.jobQueueCurrentPos = 0,
           type = "LRT_RST_ITERATION" => m.jobQueue = runner[r].jobQueue,
           type = "LRT_CLEAR_ITERATION" => m.jobQueue = << >>
    PROVE  SentInOrder' /\ PhaseInv' /\ JobsInv'
<1>1. type \in ControlType /\ pc[r] = "Read"
    BY DEF ControlType, Received, Reading
<1>2. ComingInPhase(r) /\ RunnerInPhase(r) /\ JobsOfRound(r) /\ KeptInv(r) /\ GRTInPhase
    BY DEF PhaseInv, JobsInv
<1>3. /\ SentInOrder' /\ SameRound
      /\ done' = done /\ runner'[r] = m
      /\ \A q \in LRT \ {r} : /\ runner'[q] = runner[q] /\ pc'[q] = pc[q]
                              /\ Coming(q)' = Coming(q)
      /\ \A t \in Task : t \in done' /\ t \notin done => MappedLRT[t] = r
      /\ done \subseteq done'
    BY ReadStep
<1>4. PICK h \in Coming(r) : /\ h.type = type
                             /\ Coming(r) = Coming(r)' \cup {h}
    BY <1>1, ReadControl
<1>5. /\ \A ty : ty # type => (Expects(r, ty)' <=> Expects(r, ty))
      /\ Adds(r)' = Adds(r)
    BY <1>1, ReadControl DEF Resets
<1>6. /\ context' = context /\ toLaunch' = toLaunch /\ round' = round
      /\ executing' = executing /\ iter' = iter /\ PhaseStays
    BY <1>3 DEF SameRound
<1>7. /\ InRound => round = 1 /\ Expects(r, "LRT_START_ITERATION")
      /\ pc[GRTIx] # "Params"
    BY <1>2, <1>4 DEF ComingInPhase
<1>8. ~runner[r].start
    <2>1. CASE InRound
        BY <1>2, <1>7, <2>1 DEF ComingInPhase, Expects
    <2>2. CASE ~InRound
        BY <1>2, <2>2 DEF RunnerInPhase
    <2> QED
        BY <2>1, <2>2
<1>9. /\ Expects(r, "LRT_START_ITERATION")' <=> Expects(r, "LRT_START_ITERATION")
      /\ Expects(r, "LRT_END_ITERATION")' <=> Expects(r, "LRT_END_ITERATION")
      /\ Expects(r, "LRT_REPEAT_ITERATION_EN")' <=> Expects(r, "LRT_REPEAT_ITERATION_EN")
    BY <1>5 DEF Resets
<1>10. Active(r)' <=> Active(r)
    BY <1>3, <1>8, <1>9 DEF Active
<1>11. InRound' <=> InRound
    BY <1>6, PhaseIs
<1>12. ComingInPhase(r)'
    BY <1>2, <1>3, <1>4, <1>6, <1>8, <1>9, <1>11 DEF ComingInPhase
<1>13. RunnerInPhase(r)'
    BY <1>1, <1>2, <1>3, <1>4, <1>6, <1>7, <1>8, <1>9, <1>10, <1>11
       DEF RunnerInPhase, InRound, Active
<1>14. r = GRTIx => GRTInPhase'
    BY <1>1, <1>2, <1>6, <1>10, GRTReads DEF GRTInPhase
<1>15. /\ RoundJobs(r)' = RoundJobs(r) /\ Kept(r)' = Kept(r)
       /\ Dropped' <=> Dropped
    BY <1>3, <1>6, PhaseIs
       DEF SameRound, RoundJobs, Kept, Dropped, TasksOfRound, TasksOf
\* The jobs are forgotten only when there are none to be kept.
<1>16. \/ Queued(r)' = Queued(r)
       \/ Queued(r)' = {} /\ (StaticContext = {} \/ Dropped)
    <2>1. CASE type = "LRT_RST_ITERATION"
        <3>1. runner'[r].jobQueue = runner[r].jobQueue
            BY <1>3, <2>1
        <3>2. Queued(r)' = Queued(r)
            BY <1>3, <3>1, SameJobs
        <3> QED
            BY <3>2
    <2>2. CASE type = "LRT_CLEAR_ITERATION"
        <3>1. StaticContext = {} \/ Dropped
            BY <1>2, <1>4, <2>2 DEF KeptInv, Expects
        <3>2. runner'[r].jobQueue = << >>
            BY <1>3, <2>2
        <3> QED
            BY <3>1, <3>2 DEF Queued
    <2> QED
        BY <2>1, <2>2 DEF Resets
<1>17. Dropped => ~InRound
    BY DEF Dropped, InRound, Launched
<1>18. StaticContext = {} => Kept(r) = {} /\ (InRound => ~iter[context])
    <2>1. StaticContext = {} => Kept(r) = {}
        BY DEF Kept
    <2>2. InRound => context \in Context
        BY DEF InRound, Launched, JobsInv, CallInv, TypeOK, GRTTypeOK
    <2>3. StaticContext = {} => \A c \in Context : ~iter[c]
        BY DEF JobsInv, CallInv
    <2> QED
        BY <2>1, <2>2, <2>3
<1>19. InRound /\ Active(r) => Queued(r)' = Queued(r)
    <2> SUFFICES ASSUME InRound, Active(r), StaticContext = {}, Queued(r)' = {}
                 PROVE  Queued(r) = {}
        BY <1>16, <1>17
    <2> QED
        BY <1>2, <1>8, <1>18 DEF JobsOfRound
<1>20. ~Active(r) => Queued(r)' = Kept(r) \/ Dropped
    BY <1>2, <1>16, <1>18 DEF KeptInv
<1>21. \A i, j \in DOMAIN m.jobQueue : i < j => m.jobQueue[i] < m.jobQueue[j]
    BY <1>2 DEF JobsOfRound, Resets
<1>22. JobsOfRound(r)'
    <2> HIDE DEF Active, RoundJobs, Queued, Adds, Ran, InRound
    <2>1. \A i, j \in DOMAIN runner'[r].jobQueue :
              i < j => runner'[r].jobQueue[i] < runner'[r].jobQueue[j]
        BY <1>3, <1>21
    <2>2. ~runner'[r].start
        BY <1>3
    <2> QED
        BY <1>2, <1>3, <1>5, <1>6, <1>8, <1>10, <1>11, <1>15, <1>19, <2>1, <2>2 DEF JobsOfRound
<1>23. KeptInv(r)'
    <2>1. Expects(r, "LRT_CLEAR_ITERATION")' => Expects(r, "LRT_CLEAR_ITERATION")
        BY <1>4 DEF Expects
    <2>2. runner'[r].repeat = runner[r].repeat
        BY <1>3
    <2> QED
        BY <1>2, <1>6, <1>9, <1>10, <1>15, <1>20, <2>1, <2>2 DEF KeptInv
\* No job of this runner has been done in this execution.
<1>24. DoneInv'
    <2>1. executing => InRound
        BY <1>2, <1>7 DEF GRTInPhase
    <2>2. executing => \A t \in done : MappedLRT[t] # r
        <3> SUFFICES ASSUME executing, NEW t \in done, MappedLRT[t] = r PROVE FALSE
            OBVIOUS
        <3>1. round = 1 /\ Active(r) /\ InRound
            BY <1>7, <2>1 DEF Active
        <3>2. t \in TasksOf(context) /\ RoundOf[t] <= 1 /\ t \in Task
            BY <3>1 DEF JobsInv, DoneInv, TasksOf
        <3>3. RoundOf[t] \in Nat \ {0}
            BY <3>2, TaskAssumption
        <3>4. RoundOf[t] = 1
            BY <3>2, <3>3
        <3>5. t \in RoundJobs(r)
            BY <3>1, <3>2, <3>4 DEF RoundJobs, TasksOfRound
        <3> QED
            BY <1>2, <1>8, <3>1, <3>5 DEF JobsOfRound
    <2>3. executing => \A t \in done : stamps'[MappedLRT[t]] = stamps[MappedLRT[t]]
        <3>1. \A t \in done : MappedLRT[t] \in LRT
            BY MappingAssumption DEF TypeOK, RunnerTypeOK
        <3> QED
            BY <2>2, <3>1 DEF TypeOK, RunnerTypeOK
    <2>4. DoneInv
        BY DEF JobsInv
    <2> QED
        BY <1>3, <1>6, <2>3, <2>4, PhaseIs DEF DoneInv, TasksOfRound, TasksOf
<1> QED
    BY <1>3, <1>12, <1>13, <1>14, <1>22, <1>23, <1>24, RunnerRound

\* The flags of a cleared runner.
LEMMA ClearedFlags ==
    ASSUME NEW m \in RunnerState
    PROVE  /\ Cleared(m).start = FALSE /\ Cleared(m).receivedEnd = FALSE
           /\ Cleared(m).finished = TRUE /\ Cleared(m).shouldBroadcast = FALSE
           /\ Cleared(m).repeat = m.repeat
BY DEF Cleared, RunnerState

\* LRT_RST_ITERATION arrives before the round it prepares.
LEMMA ReadResetRound ==
    ASSUME TypeOK, SentInOrder, PhaseInv, JobsInv, UNCHANGED grtVars,
           NEW r \in LRT, ReadReset(r)
    PROVE  SentInOrder' /\ PhaseInv' /\ JobsInv'
<1> DEFINE m == Cleared(runner[r])
<1>1. runner[r] \in RunnerState
    BY RunnerFields DEF TypeOK
<1>2. /\ m \in RunnerState /\ m.jobQueueCurrentPos = 0 /\ m.jobQueue = runner[r].jobQueue
      /\ m.start = FALSE /\ m.receivedEnd = FALSE /\ m.finished = TRUE
      /\ m.shouldBroadcast = FALSE /\ m.repeat = runner[r].repeat
    BY <1>1, ClearedType, ClearedFlags
<1>3. /\ Received(r, "LRT_RST_ITERATION") /\ runner' = [runner EXCEPT ![r] = m]
      /\ stamps' = [stamps EXCEPT ![r] = NoStamps] /\ pc' = pc
    BY DEF ReadReset
<1>4. "LRT_RST_ITERATION" \in Resets /\ "LRT_RST_ITERATION" # "LRT_CLEAR_ITERATION"
    BY DEF Resets
<1> HIDE DEF m
<1> QED
    BY <1>2, <1>3, <1>4, ResetRound

\* LRT_CLEAR_ITERATION arrives when the jobs of the runner are over.
LEMMA ReadClearRound ==
    ASSUME TypeOK, SentInOrder, PhaseInv, JobsInv, UNCHANGED grtVars,
           NEW r \in LRT, ReadClear(r)
    PROVE  SentInOrder' /\ PhaseInv' /\ JobsInv'
<1> DEFINE k == Cleared(runner[r])
           m == [k EXCEPT !.jobQueue = << >>]
<1>1. runner[r] \in RunnerState
    BY RunnerFields DEF TypeOK
<1>2. /\ k \in RunnerState /\ k.jobQueueCurrentPos = 0
      /\ k.start = FALSE /\ k.receivedEnd = FALSE /\ k.finished = TRUE
      /\ k.shouldBroadcast = FALSE /\ k.repeat = runner[r].repeat
    BY <1>1, ClearedType, ClearedFlags
<1>3. /\ Received(r, "LRT_CLEAR_ITERATION") /\ runner' = [runner EXCEPT ![r] = m]
      /\ stamps' = [stamps EXCEPT ![r] = NoStamps] /\ pc' = pc
    BY DEF ReadClear
<1> HIDE DEF k
<1>4. /\ m \in RunnerState /\ m.jobQueueCurrentPos = 0 /\ m.jobQueue = << >>
      /\ m.start = FALSE /\ m.receivedEnd = FALSE /\ m.finished = TRUE
      /\ m.shouldBroadcast = FALSE /\ m.repeat = runner[r].repeat
    BY <1>2, EmptiedType DEF RunnerState
<1>5. "LRT_CLEAR_ITERATION" \in Resets /\ "LRT_RST_ITERATION" # "LRT_CLEAR_ITERATION"
    BY DEF Resets
<1> HIDE DEF m
<1> QED
    BY <1>3, <1>4, <1>5, ResetRound

\* A runner adds a job to its queue.
LEMMA ReadJobAddRound ==
    ASSUME TypeOK, SentInOrder, PhaseInv, JobsInv, UNCHANGED grtVars,
           NEW r \in LRT, ReadJobAdd(r)
    PROVE  SentInOrder' /\ PhaseInv' /\ JobsInv'
<1>1. /\ Received(r, "JOB_ADD") /\ UNCHANGED <<stamps, pc>>
      /\ Head(queue[r]).type = "JOB_ADD" /\ queue[r] # << >> /\ pc[r] = "Read"
    BY DEF ReadJobAdd, Received, Reading, Pop
<1>2. ComingInPhase(r) /\ RunnerInPhase(r) /\ JobsOfRound(r) /\ KeptInv(r) /\ GRTInPhase
    BY DEF PhaseInv, JobsInv
<1>3. runner[r].start /\ InRound
    BY <1>1, StartedForJobs
<1> DEFINE t == Head(queue[r]).notificationIx
           s == runner[r].jobQueue
           m == [runner[r] EXCEPT !.jobQueue = Append(s, t)]
<1>4. runner' = [runner EXCEPT ![r] = m] /\ pc' = pc
    BY <1>1, <1>3 DEF ReadJobAdd
<1>5. PICK h \in Coming(r) : /\ h = Head(queue[r]) /\ h.type = "JOB_ADD" /\ h \in Notification
                             /\ Coming(r) = Coming(r)' \cup {h}
                             /\ \A n \in Coming(r)' : Before(h, n)
    BY <1>1, <1>4, ReadControl DEF ControlType
<1>6. t \in Task /\ t = h.notificationIx
    BY <1>5 DEF Notification
<1>7. /\ s \in Seq(Task) /\ Len(s) \in Nat /\ DOMAIN s = 1 .. Len(s)
      /\ Append(s, t) \in Seq(Task)
      /\ DOMAIN Append(s, t) = 1 .. Len(s) + 1
      /\ \A i \in 1 .. Len(s) : Append(s, t)[i] = s[i]
      /\ Append(s, t)[Len(s) + 1] = t
    <2>1. s \in Seq(Task)
        BY RunnerFields DEF TypeOK
    <2> HIDE DEF s, t
    <2> QED
        BY <1>6, <2>1, AppendOf
<1>8. /\ m.start = TRUE /\ m.finished = runner[r].finished
      /\ m.jobQueueCurrentPos = runner[r].jobQueueCurrentPos
      /\ m.receivedEnd = runner[r].receivedEnd /\ m.jobQueue = Append(s, t)
      /\ m.jobCount = runner[r].jobCount /\ m.repeat = runner[r].repeat
      /\ m.shouldBroadcast = runner[r].shouldBroadcast
    BY <1>3, RunnerFields DEF RunnerState, TypeOK
<1>9. runner[r].jobQueueCurrentPos \in Nat /\ runner[r].jobQueueCurrentPos <= Len(s)
    BY RunnerFields DEF TypeOK, RunnerTypeOK
<1> HIDE DEF m
<1>10. /\ SentInOrder' /\ SameRound
       /\ done' = done /\ runner'[r] = m
       /\ \A q \in LRT \ {r} : /\ runner'[q] = runner[q] /\ pc'[q] = pc[q]
                               /\ Coming(q)' = Coming(q)
       /\ \A u \in Task : u \in done' /\ u \notin done => MappedLRT[u] = r
       /\ done \subseteq done'
    BY <1>1, <1>4, ReadStep
<1>11. \A ty : ty # "JOB_ADD" => (Expects(r, ty)' <=> Expects(r, ty))
    BY <1>1, <1>4, ReadControl DEF ControlType
<1>12. /\ context' = context /\ toLaunch' = toLaunch /\ round' = round
       /\ executing' = executing /\ iter' = iter
    BY <1>10 DEF SameRound
<1>13. Active(r) /\ Active(r)' /\ (InRound' <=> InRound)
    BY <1>3, <1>4, <1>8, <1>10 DEF Active, InRound
<1>14. ComingInPhase(r)'
    BY <1>2, <1>3, <1>4, <1>5, <1>8, <1>10, <1>11, <1>12, <1>13, BeforeTypes
       DEF ComingInPhase, Resets
<1>15. ~runner[r].receivedEnd
    BY <1>2, <1>5 DEF RunnerInPhase
<1>16. RunnerInPhase(r)'
    BY <1>1, <1>2, <1>3, <1>4, <1>5, <1>8, <1>10, <1>11, <1>13, <1>15 DEF RunnerInPhase
<1>17. r = GRTIx => GRTInPhase'
    BY <1>1, <1>2, <1>4, <1>12, <1>13, GRTReads
<1>18. Queued(r)' = Queued(r) \cup {t}
    <2>1. /\ Queued(r) = {s[i] : i \in 1 .. Len(s)}
          /\ Queued(r)' = {Append(s, t)[i] : i \in 1 .. Len(s) + 1}
        <3>1. PICK a : a = Append(s, t)
            OBVIOUS
        <3>2. runner'[r].jobQueue = a /\ DOMAIN a = 1 .. Len(s) + 1
            BY <1>7, <1>8, <1>10, <3>1
        <3>3. Queued(r)' = {a[i] : i \in DOMAIN a}
            BY <3>2 DEF Queued
        <3>4. Queued(r) = {s[i] : i \in 1 .. Len(s)}
            BY <1>7 DEF Queued
        <3> QED
            BY <3>1, <3>2, <3>3, <3>4
    <2>2. \A i \in 1 .. Len(s) + 1 : i \in 1 .. Len(s) \/ i = Len(s) + 1
        BY <1>7
    <2>3. \A i \in 1 .. Len(s) : i \in 1 .. Len(s) + 1
        BY <1>7
    <2>4. Len(s) + 1 \in 1 .. Len(s) + 1
        BY <1>7
    <2> HIDE DEF s, t
    <2> QED
        BY <1>7, <2>1, <2>2, <2>3, <2>4
<1>19. Ran(r)' = Ran(r)
    <2>1. \A i \in 1 .. runner[r].jobQueueCurrentPos : Append(s, t)[i] = s[i]
        BY <1>7, <1>9
    <2>2. PICK a : a = Append(s, t)
        OBVIOUS
    <2>3. /\ runner'[r].jobQueue = a
          /\ runner'[r].jobQueueCurrentPos = runner[r].jobQueueCurrentPos
        BY <1>8, <1>10, <2>2
    <2>4. Ran(r)' = {a[i] : i \in 1 .. runner[r].jobQueueCurrentPos}
        BY <2>3 DEF Ran
    <2>5. Ran(r) = {s[i] : i \in 1 .. runner[r].jobQueueCurrentPos}
        BY DEF Ran
    <2> HIDE DEF s, t
    <2> QED
        BY <2>1, <2>2, <2>4, <2>5
<1>20. /\ t \in Adds(r) /\ Adds(r) = Adds(r)' \cup {t}
       /\ \A u \in Adds(r)' : t < u
    BY <1>5, <1>6, BeforeTypes DEF Adds
<1>21. RoundJobs(r)' = RoundJobs(r)
    BY <1>12 DEF RoundJobs, TasksOfRound, TasksOf
<1>22. \A i, j \in DOMAIN runner'[r].jobQueue :
           i < j => runner'[r].jobQueue[i] < runner'[r].jobQueue[j]
    <2> SUFFICES ASSUME NEW i \in 1 .. Len(s) + 1, NEW j \in 1 .. Len(s) + 1, i < j
                 PROVE  Append(s, t)[i] < Append(s, t)[j]
        BY <1>7, <1>8, <1>10
    <2>1. i \in 1 .. Len(s)
        BY <1>7
    <2>2. CASE j \in 1 .. Len(s)
        BY <1>2, <1>7, <2>1, <2>2 DEF JobsOfRound
    <2>3. CASE j = Len(s) + 1
        <3>1. s[i] \in Queued(r)
            BY <1>7, <2>1 DEF Queued
        <3> QED
            BY <1>2, <1>3, <1>7, <1>13, <1>20, <2>1, <2>3, <3>1 DEF JobsOfRound
    <2>4. j \in 1 .. Len(s) \/ j = Len(s) + 1
        BY <1>7
    <2> QED
        BY <2>2, <2>3, <2>4
<1>23. JobsOfRound(r)'
    <2> DEFINE rest == {u \in toLaunch : MappedLRT[u] = r}
    <2>1. /\ Queued(r) \cup Adds(r) \cup rest = RoundJobs(r)
          /\ (Queued(r) \cup Adds(r)) \cap toLaunch = {}
          /\ \A v \in Queued(r), u \in Adds(r) : v < u
          /\ RoundJobs(r) \cap done = Ran(r)
        BY <1>2, <1>3, <1>13 DEF JobsOfRound
    <2>2. Queued(r)' \cup Adds(r)' = Queued(r) \cup Adds(r)
        BY <1>18, <1>20
    <2> HIDE DEF rest, t
    <2>3. \A v \in Queued(r)', u \in Adds(r)' : v < u
        BY <1>18, <1>20, <2>1
    <2>4. /\ Queued(r)' \cup Adds(r)' \cup rest = RoundJobs(r)
          /\ (Queued(r)' \cup Adds(r)') \cap toLaunch = {}
        BY <2>1, <2>2
    <2>5. runner'[r].start = TRUE /\ rest = {u \in toLaunch' : MappedLRT[u] = r}
        BY <1>8, <1>10, <1>12 DEF rest
    <2> QED
        BY <1>10, <1>12, <1>13, <1>19, <1>21, <1>22, <2>1, <2>3, <2>4, <2>5 DEF JobsOfRound
<1>24. KeptInv(r)'
    BY <1>2, <1>4, <1>8, <1>10, <1>11, <1>12, <1>13 DEF KeptInv, Dropped
<1>25. DoneInv'
    BY <1>1, <1>10, DoneKept DEF JobsInv
<1> QED
    BY <1>10, <1>14, <1>16, <1>17, <1>23, <1>24, <1>25, RunnerRound

\* A runner stops, once the application has quit.
LEMMA ReadStopRound ==
    ASSUME TypeOK, SentInOrder, PhaseInv, JobsInv, UNCHANGED grtVars,
           NEW r \in LRT, ReadStop(r)
    PROVE  SentInOrder' /\ PhaseInv' /\ JobsInv'
<1>1. /\ Received(r, "LRT_STOP") /\ UNCHANGED <<runner, stamps, done, outbox>>
      /\ queue[r] # << >> /\ pc[r] = "Read"
      /\ queue' = [queue EXCEPT ![r] = Tail(@)]
      /\ pc'[r] = "Stopped" /\ \A q \in LRT \ {r} : pc'[q] = pc[q]
    BY DEF ReadStop, Received, Reading, Pop, TypeOK, RunnerTypeOK
<1>2. ComingInPhase(r) /\ RunnerInPhase(r) /\ JobsOfRound(r) /\ KeptInv(r) /\ GRTInPhase
    BY DEF PhaseInv, JobsInv
<1>3. PICK h \in Coming(r) : /\ h.type = "LRT_STOP"
                             /\ Coming(r) = Coming(r)' \cup {h}
    BY <1>1, ReadControl DEF ControlType
<1>4. /\ \A ty : ty # "LRT_STOP" => (Expects(r, ty)' <=> Expects(r, ty))
      /\ Adds(r)' = Adds(r)
    BY <1>1, ReadControl DEF ControlType
<1>5. pc[GRTIx] \in {"Join", "Exited"} /\ r # GRTIx /\ ~InRound
    <2>1. pc[GRTIx] \in {"Join", "Exited"}
        BY <1>2, <1>3 DEF ComingInPhase
    <2> QED
        BY <1>1, <2>1 DEF InRound, Launched
<1>6. /\ pc'[GRTIx] = pc[GRTIx] /\ PhaseStays /\ SameRound
    BY <1>1, <1>5, GRTAssumption DEF PhaseStays, SameRound, grtVars
<1>7. ReadyKept
    BY <1>1 DEF ReadyKept, SentInOrder, Ready
<1>8. SentInOrder' /\ \A q \in LRT \ {r} : Coming(q)' = Coming(q)
    BY <1>1, <1>7, EndpointType, PopComing
<1>9. Active(r)' <=> Active(r)
    BY <1>1, <1>4 DEF Active
<1>10. InRound' <=> InRound
    BY <1>6, PhaseIs
<1>11. ComingInPhase(r)'
    BY <1>1, <1>2, <1>3, <1>4, <1>6, <1>10 DEF ComingInPhase, SameRound
<1>12. RunnerInPhase(r)'
    BY <1>1, <1>2, <1>3, <1>4, <1>5, <1>6, <1>9, <1>10 DEF RunnerInPhase, InRound
<1>13. /\ RoundJobs(r)' = RoundJobs(r) /\ Queued(r)' = Queued(r) /\ Ran(r)' = Ran(r)
       /\ Kept(r)' = Kept(r)
       /\ Dropped' <=> Dropped
    BY <1>1, <1>6, SameJobs
<1>14. JobsOfRound(r)' /\ KeptInv(r)'
    BY <1>1, <1>2, <1>4, <1>5, <1>6, <1>9, <1>10, <1>13
       DEF JobsOfRound, KeptInv, SameRound
<1>15. DoneInv'
    BY <1>1, <1>6, DoneKept DEF JobsInv
<1> QED
    BY <1>1, <1>5, <1>6, <1>8, <1>11, <1>12, <1>14, <1>15, RunnerRound

-----------------------------------------------------------------------------
(* What a runner does with its jobs                                        *)

\* The stamps of the LRTs about themselves may grow.
LEMMA DoneKeptUp ==
    ASSUME SameRound, DoneInv, TypeOK, done' = done,
           \A l \in LRT : \A n \in Nat : n <= stamps[l][l] => n <= stamps'[l][l]
    PROVE  DoneInv'
<1>1. \A t \in done : MappedLRT[t] \in LRT /\ ExecIx[t] \in Nat
    BY MappingAssumption, ExecIxType DEF TypeOK, RunnerTypeOK
<1> QED
    BY <1>1, PhaseIs DEF SameRound, DoneInv, TasksOfRound, TasksOf

\* A stamp never decreases.
LEMMA StampGrows ==
    ASSUME TypeOK, NEW r \in LRT, NEW l \in LRT, NEW job \in Int,
           stamps' = UpdatedStamp(r, l, job)
    PROVE  \A k \in LRT : \A n \in Nat : n <= stamps[k][k] => n <= stamps'[k][k]
<1>1. stamps \in [LRT -> [LRT -> Int]]
    BY DEF TypeOK, RunnerTypeOK, Stamp
<1>2. /\ stamps'[r][l] = IF stamps[r][l] = NoStamp \/ stamps[r][l] < job THEN job
                         ELSE stamps[r][l]
      /\ \A k \in LRT : ~(k = r /\ k = l) => stamps'[k][k] = stamps[k][k]
    BY <1>1 DEF UpdatedStamp
<1>3. \A n \in Nat : n <= stamps[r][l] => n <= stamps'[r][l]
    BY <1>1, <1>2 DEF NoStamp
<1> QED
    BY <1>2, <1>3

\* The stamp of another LRT changes nothing in the round.
LEMMA ReadJobStampRound ==
    ASSUME TypeOK, SentInOrder, PhaseInv, JobsInv, UNCHANGED grtVars,
           NEW r \in LRT, ReadJobStamp(r)
    PROVE  SentInOrder' /\ PhaseInv' /\ JobsInv'
<1>1. /\ Received(r, "JOB_UPDATE_JOBSTAMP") /\ UNCHANGED <<runner, pc, done, outbox>>
      /\ queue[r] # << >> /\ pc[r] = "Read" /\ Head(queue[r]).type = "JOB_UPDATE_JOBSTAMP"
      /\ queue' = [queue EXCEPT ![r] = Tail(@)]
      /\ stamps' = UpdatedStamp(r, Head(queue[r]).senderIx, Head(queue[r]).notificationIx)
    BY DEF ReadJobStamp, Received, Reading, Pop
<1>2. ComingInPhase(r) /\ RunnerInPhase(r) /\ JobsOfRound(r) /\ KeptInv(r) /\ GRTInPhase
    BY DEF PhaseInv, JobsInv
<1>3. ReadyKept
    BY <1>1 DEF ReadyKept, SentInOrder, Ready
<1>4. "JOB_UPDATE_JOBSTAMP" \notin ControlType
    BY DEF ControlType, Resets
<1>5. /\ SentInOrder' /\ Head(queue[r]) \in Notification
      /\ \A q \in LRT : Coming(q)' = Coming(q)
    BY <1>1, <1>3, <1>4, EndpointType, PopComing
<1>6. SameRound /\ PhaseStays /\ round' = round
    BY <1>1 DEF SameRound, PhaseStays, grtVars
<1>7. ComingInPhase(r)' /\ RunnerInPhase(r)'
    BY <1>1, <1>2, <1>5, <1>6, PhaseKept
<1>8. JobsOfRound(r)' /\ KeptInv(r)'
    BY <1>1, <1>2, <1>5, <1>6, JobsKept
<1>9. r = GRTIx => GRTInPhase'
    <2>1. Active(GRTIx)' <=> Active(GRTIx)
        BY <1>1, <1>5, GRTAssumption DEF Active, Expects
    <2> QED
        BY <1>1, <1>2, <1>6, <2>1, GRTReads DEF GRTInPhase, SameRound
<1>10. DoneInv'
    <2>1. Head(queue[r]).senderIx \in LRT /\ Head(queue[r]).notificationIx \in Int
        BY <1>5 DEF Notification
    <2>2. \A k \in LRT : \A n \in Nat : n <= stamps[k][k] => n <= stamps'[k][k]
        BY <1>1, <2>1, StampGrows
    <2> QED
        BY <1>1, <1>6, <2>2, DoneKeptUp DEF JobsInv
<1> QED
    BY <1>1, <1>5, <1>6, <1>7, <1>8, <1>9, <1>10, RunnerRound

\* A step inside the loop of run() that reads, runs and sends nothing.
LEMMA LocalRound ==
    ASSUME TypeOK, SentInOrder, PhaseInv, JobsInv, UNCHANGED grtVars,
           NEW r \in LRT, UNCHANGED <<commVars, runner, stamps, done>>,
           pc[r] \in {"Read", "Check", "Finish"},
           NEW label \in {"Read", "Check", "Kernel", "Finish"},
           pc' = [pc EXCEPT ![r] = label],
           label \in {"Check", "Kernel"} => Ready(r),
           label = "Kernel" => runner[r].start,
           r = GRTIx =>
              /\ label = "Read" => Active(GRTIx)
              /\ label # "Read" => Coming(GRTIx) = {} /\ runner[GRTIx].start
    PROVE  SentInOrder' /\ PhaseInv' /\ JobsInv'
<1>1. pc'[r] = label /\ \A q \in LRT \ {r} : pc'[q] = pc[q]
    BY DEF TypeOK, RunnerTypeOK
<1>2. ComingInPhase(r) /\ RunnerInPhase(r) /\ JobsOfRound(r) /\ KeptInv(r) /\ GRTInPhase
    BY DEF PhaseInv, JobsInv
<1>3. ReadyKept
    BY <1>1 DEF ReadyKept, SentInOrder, Ready, commVars
<1>4. SentInOrder' /\ \A q \in LRT : Coming(q)' = Coming(q)
    BY <1>3, CommKept DEF commVars
<1>5. SameRound /\ PhaseStays /\ round' = round
    BY <1>1, GRTAssumption DEF SameRound, PhaseStays, grtVars, Launched
<1>6. ComingInPhase(r)' /\ RunnerInPhase(r)'
    BY <1>1, <1>2, <1>4, <1>5, PhaseKept
<1>7. JobsOfRound(r)' /\ KeptInv(r)'
    BY <1>2, <1>4, <1>5, JobsKept
<1>8. r = GRTIx => GRTInPhase'
    <2>1. Active(GRTIx)' <=> Active(GRTIx)
        BY <1>4, GRTAssumption DEF Active, Expects
    <2>2. Coming(GRTIx)' = Coming(GRTIx) /\ executing' = executing
        BY <1>4, <1>5, GRTAssumption DEF SameRound
    <2>3. r = GRTIx => InRound /\ pc'[GRTIx] # "Wait" /\ pc'[GRTIx] # "Stopped"
        BY <1>1 DEF InRound, Launched
    <2>4. InRound' <=> InRound
        BY <1>5, PhaseIs
    <2>5. r = GRTIx => executing
        BY <1>2, <2>3 DEF GRTInPhase
    <2> QED
        BY <1>1, <2>1, <2>2, <2>3, <2>4, <2>5 DEF GRTInPhase
<1>9. DoneInv'
    BY <1>5, DoneKept DEF JobsInv
<1> QED
    BY <1>1, <1>4, <1>5, <1>6, <1>7, <1>8, <1>9, RunnerRound

\* The job a runner is at is one of the round, not done, and all those of the
\* graph that are before it on this LRT are done.
LEMMA AtJob ==
    ASSUME TypeOK, PhaseInv, JobsInv, NEW r \in LRT, runner[r].start,
           runner[r].jobQueueCurrentPos < Len(runner[r].jobQueue)
    PROVE  /\ CurrentJob(r) \in RoundJobs(r) /\ CurrentJob(r) \notin done
           /\ executing /\ InRound
           /\ \A s \in TasksOf(context) :
                 MappedLRT[s] = r /\ s < CurrentJob(r) => s \in done
<1> DEFINE s == runner[r].jobQueue
           p == runner[r].jobQueueCurrentPos
           t == CurrentJob(r)
<1>1. /\ s \in Seq(Task) /\ Len(s) \in Nat /\ DOMAIN s = 1 .. Len(s) /\ p \in Nat
      /\ p + 1 \in 1 .. Len(s) /\ t = s[p + 1] /\ t \in Task
    <2>1. s \in Seq(Task) /\ Len(s) \in Nat /\ p \in Nat
        BY RunnerFields DEF TypeOK
    <2>2. DOMAIN s = 1 .. Len(s) /\ p + 1 \in 1 .. Len(s)
        BY <2>1, LenProperties
    <2>3. t \in Task
        BY CurrentJobType DEF TypeOK
    <2> QED
        BY <2>1, <2>2, <2>3 DEF CurrentJob
<1>2. RunnerInPhase(r) /\ JobsOfRound(r) /\ GRTInPhase /\ CallInv /\ DoneInv
    BY DEF PhaseInv, JobsInv
<1>3. InRound /\ Active(r) /\ executing
    BY <1>2 DEF RunnerInPhase, Active, GRTInPhase
<1>4. /\ Queued(r) \cup Adds(r) \cup {v \in toLaunch : MappedLRT[v] = r} = RoundJobs(r)
      /\ (Queued(r) \cup Adds(r)) \cap toLaunch = {}
      /\ \A v \in Queued(r), u \in Adds(r) : v < u
      /\ RoundJobs(r) \cap done = Ran(r)
    BY <1>2, <1>3 DEF JobsOfRound
<1>5. \A i, j \in 1 .. Len(s) : i < j => s[i] < s[j]
    BY <1>1, <1>2 DEF JobsOfRound
<1>6. Queued(r) = {s[i] : i \in 1 .. Len(s)} /\ Ran(r) = {s[i] : i \in 1 .. p}
    BY <1>1 DEF Queued, Ran
<1> HIDE DEF s, p, t
<1>7. t \in Queued(r) /\ t \in RoundJobs(r)
    BY <1>1, <1>4, <1>6
<1>8. t \notin Ran(r)
    <2> SUFFICES ASSUME NEW i \in 1 .. p, t = s[i] PROVE FALSE
        BY <1>6
    <2>1. i \in 1 .. Len(s) /\ i < p + 1
        BY <1>1
    <2>2. s[i] < s[p + 1]
        BY <1>1, <1>5, <2>1
    <2>3. t \in Nat
        BY <1>1, TaskType
    <2> QED
        BY <1>1, <2>2, <2>3
<1>9. t \notin done
    BY <1>4, <1>7, <1>8
<1>10. ASSUME NEW v \in TasksOf(context), MappedLRT[v] = r, v < t
       PROVE  v \in done
    <2>1. v \in Task /\ ContextOf[v] = context /\ t \in TasksOfRound(context, round)
        BY <1>7 DEF TasksOf, RoundJobs
    <2>2. ContextOf[t] = context /\ RoundOf[t] = round
        BY <2>1 DEF TasksOfRound, TasksOf
    <2>3. RoundOf[v] <= round /\ RoundOf[v] \in Nat /\ round \in Nat /\ v \in Nat /\ t \in Nat
        BY <1>1, <1>10, <2>1, <2>2, TaskAssumption
    <2>4. CASE RoundOf[v] < round
        BY <1>2, <1>3, <1>10, <2>4 DEF DoneInv
    <2>5. CASE ~(RoundOf[v] < round)
        <3>1. RoundOf[v] = round
            BY <2>3, <2>5
        <3>2. v \in RoundJobs(r) /\ v \in TasksOfRound(context, round)
            BY <1>10, <2>1, <3>1 DEF RoundJobs, TasksOfRound, TasksOf
        <3>3. v \notin Adds(r)
            <4> SUFFICES ASSUME v \in Adds(r) PROVE FALSE
                OBVIOUS
            <4>1. t < v
                BY <1>4, <1>7
            <4> QED
                BY <1>10, <2>3, <4>1
        <3>4. v \notin toLaunch
            <4> SUFFICES ASSUME v \in toLaunch PROVE FALSE
                OBVIOUS
            <4>1. t \in TasksOfRound(context, round) \ toLaunch
                BY <1>4, <1>7, <2>1
            <4>2. t < v
                BY <1>2, <4>1 DEF CallInv
            <4> QED
                BY <1>10, <2>3, <4>2
        <3>5. v \in Queued(r)
            BY <1>4, <3>2, <3>3, <3>4
        <3>6. PICK i \in 1 .. Len(s) : v = s[i]
            BY <1>6, <3>5
        <3>7. i < p + 1
            <4> SUFFICES ASSUME ~(i < p + 1) PROVE FALSE
                OBVIOUS
            <4>1. i = p + 1 \/ p + 1 < i
                BY <1>1
            <4>2. t <= v
                BY <1>1, <1>5, <2>3, <3>6, <4>1
            <4> QED
                BY <1>10, <2>3, <4>2
        <3>8. i \in 1 .. p
            BY <1>1, <3>7
        <3> QED
            BY <1>4, <1>6, <3>6, <3>8
    <2> QED
        BY <2>4, <2>5
<1> QED
    BY <1>3, <1>7, <1>9, <1>10 DEF t

\* ... so it never waits for a job of its own LRT.
LEMMA NeverWaitsForItself ==
    ASSUME TypeOK, PhaseInv, JobsInv, NEW r \in LRT, HasJob(r)
    PROVE  ~WaitsForItself(r, CurrentJob(r))
<1> DEFINE t == CurrentJob(r)
<1>1. /\ runner[r].start
      /\ runner[r].jobQueueCurrentPos < Len(runner[r].jobQueue)
    BY RunnerFields DEF HasJob, TypeOK, RunnerTypeOK
<1>2. /\ t \in RoundJobs(r) /\ executing
      /\ \A s \in TasksOf(context) : MappedLRT[s] = r /\ s < t => s \in done
    BY <1>1, AtJob
<1>3. t \in Task /\ ContextOf[t] = context
    BY <1>2 DEF RoundJobs, TasksOfRound, TasksOf
<1> HIDE DEF t
<1> SUFFICES ASSUME NEW c \in Unmet(r, t), c.lrtToWait = r PROVE FALSE
    BY DEF WaitsForItself, t
<1>4. c \in ExecConstraints(MappedLRT, t)
    BY <1>3 DEF Unmet, Constraints
<1>5. PICK s \in Deps[t] : MappedLRT[s] = r /\ c.jobToWait = JobExecIx(MappedLRT, s)
    BY <1>3, <1>4, ConstraintsAreDeps, MappingAssumption
<1>6. s \in Task /\ s < t /\ ContextOf[s] = context
    BY <1>3, TaskAssumption
<1>7. s \in done
    BY <1>2, <1>5, <1>6 DEF TasksOf
<1>8. ExecIx[s] <= stamps[r][r] /\ ExecIx[s] \in Nat
    BY <1>2, <1>5, <1>6, <1>7, ExecIxType DEF JobsInv, DoneInv
<1>9. ExecIx[s] = c.jobToWait /\ stamps[r][r] \in Int
    BY <1>5, <1>6 DEF ExecIx, TypeOK, RunnerTypeOK, Stamp
<1> QED
    BY <1>8, <1>9 DEF Unmet, NoStamp

\* Nothing to read: the runner looks for a job or for the end.
LEMMA NothingToReadRound ==
    ASSUME TypeOK, SentInOrder, PhaseInv, JobsInv, UNCHANGED grtVars,
           NEW r \in LRT, NothingToRead(r)
    PROVE  SentInOrder' /\ PhaseInv' /\ JobsInv'
<1>1. /\ pc[r] = "Read" /\ Ready(r) /\ queue[r] = << >>
      /\ pc' = [pc EXCEPT ![r] = "Check"]
      /\ UNCHANGED <<commVars, runner, stamps, done>>
    BY DEF NothingToRead, Reading
<1>2. r = GRTIx => Coming(GRTIx) = {} /\ runner[GRTIx].start
    <2> SUFFICES ASSUME r = GRTIx PROVE Coming(GRTIx) = {} /\ runner[GRTIx].start
        OBVIOUS
    <2>1. Coming(GRTIx) = {}
        BY <1>1 DEF Coming, InQueue, ToPush, Ready
    <2>2. Active(GRTIx)
        BY <1>1 DEF PhaseInv, GRTInPhase
    <2> QED
        BY <2>1, <2>2 DEF Active, Expects
<1> QED
    BY <1>1, <1>2, LocalRound

\* No job: the runner looks for the end.
LEMMA NoJobRound ==
    ASSUME TypeOK, SentInOrder, PhaseInv, JobsInv, UNCHANGED grtVars,
           NEW r \in LRT, NoJob(r)
    PROVE  SentInOrder' /\ PhaseInv' /\ JobsInv'
<1>1. /\ pc[r] = "Check" /\ pc' = [pc EXCEPT ![r] = "Finish"]
      /\ UNCHANGED <<commVars, runner, stamps, done>>
    BY DEF NoJob
<1>2. r = GRTIx => Coming(GRTIx) = {} /\ runner[GRTIx].start
    BY <1>1 DEF PhaseInv, GRTInPhase
<1> QED
    BY <1>1, <1>2, LocalRound

\* A job starts.
LEMMA StartJobRound ==
    ASSUME TypeOK, SentInOrder, PhaseInv, JobsInv, UNCHANGED grtVars,
           NEW r \in LRT, StartJob(r)
    PROVE  SentInOrder' /\ PhaseInv' /\ JobsInv'
<1>1. /\ pc[r] = "Check" /\ pc' = [pc EXCEPT ![r] = "Kernel"]
      /\ UNCHANGED <<commVars, runner, stamps, done>> /\ runner[r].start
    BY DEF StartJob, HasJob
<1>2. r = GRTIx => Coming(GRTIx) = {} /\ runner[GRTIx].start
    BY <1>1 DEF PhaseInv, GRTInPhase
<1>3. Ready(r)
    BY <1>1 DEF SentInOrder
<1> QED
    BY <1>1, <1>2, <1>3, LocalRound

\* A job waits for a stamp.
LEMMA WaitJobRound ==
    ASSUME TypeOK, SentInOrder, PhaseInv, JobsInv, UNCHANGED grtVars,
           NEW r \in LRT, WaitJob(r)
    PROVE  SentInOrder' /\ PhaseInv' /\ JobsInv'
<1>1. pc' = [pc EXCEPT ![r] = "Finish"]
    BY NeverWaitsForItself DEF WaitJob
<1>2. /\ pc[r] = "Check"
      /\ UNCHANGED <<commVars, runner, stamps, done>>
    BY DEF WaitJob
<1>3. r = GRTIx => Coming(GRTIx) = {} /\ runner[GRTIx].start
    BY <1>2 DEF PhaseInv, GRTInPhase
<1> QED
    BY <1>1, <1>2, <1>3, LocalRound

\* The iteration is not finished.
LEMMA ContinueRound ==
    ASSUME TypeOK, SentInOrder, PhaseInv, JobsInv, UNCHANGED grtVars,
           NEW r \in LRT, Continue(r)
    PROVE  SentInOrder' /\ PhaseInv' /\ JobsInv'
<1>1. /\ pc[r] = "Finish" /\ pc' = [pc EXCEPT ![r] = "Read"]
      /\ UNCHANGED <<commVars, runner, stamps, done>>
    BY DEF Continue
<1>2. r = GRTIx => Active(GRTIx)
    BY <1>1 DEF PhaseInv, GRTInPhase, Active
<1> QED
    BY <1>1, <1>2, LocalRound

\* s is a batch of n1 to R1 and one of n2 to R2, those that have a receiver.
AreBatches(s, R1, n1, R2, n2) ==
    /\ s \in Seq(Batch)
    /\ \A b \in DOMAIN s : \/ s[b] = [note |-> n1, to |-> R1] /\ R1 # {}
                           \/ s[b] = [note |-> n2, to |-> R2] /\ R2 # {}
    /\ \A a, b \in DOMAIN s : a < b => /\ s[a] = [note |-> n1, to |-> R1]
                                       /\ s[b] = [note |-> n2, to |-> R2]
                                       /\ b = Len(s)
    /\ \A r : Sent(s, r) = {n \in {n1, n2} : (n = n1 /\ r \in R1) \/ (n = n2 /\ r \in R2)}
    /\ R2 # {} => /\ Len(s) \in DOMAIN s
                  /\ s[Len(s)] = [note |-> n2, to |-> R2]

\* Two loops of pushes, each without batch when it has no target.
LEMMA TwoBatches ==
    ASSUME NEW R1 \in SUBSET Endpoint, NEW R2 \in SUBSET Endpoint,
           NEW n1 \in Notification, NEW n2 \in Notification,
           NEW s, s = ToEach(R1, n1) \o ToEach(R2, n2)
    PROVE  AreBatches(s, R1, n1, R2, n2)
<1> DEFINE x == [note |-> n1, to |-> R1]
           y == [note |-> n2, to |-> R2]
<1>1. ToEach(R1, n1) \in Seq(Batch) /\ ToEach(R2, n2) \in Seq(Batch)
    BY ToEachType
<1>2. s \in Seq(Batch)
    BY <1>1, ConcatType
<1>3. /\ x.note = n1 /\ x.to = R1 /\ y.note = n2 /\ y.to = R2
    OBVIOUS
<1> HIDE DEF x, y
<1>4. CASE R1 = {} /\ R2 = {}
    <2>1. s = << >>
        BY <1>4 DEF ToEach
    <2>2. DOMAIN s = {}
        BY <2>1
    <2> QED
        BY <1>2, <1>4, <2>2 DEF Sent, AreBatches
<1>5. CASE R1 # {} /\ R2 = {}
    <2>1. s = <<x>>
        BY <1>5 DEF ToEach, x
    <2>2. DOMAIN s = {1} /\ s[1] = x /\ Len(s) = 1
        BY <2>1
    <2>3. \A r : Sent(s, r) = {n \in {n1, n2} : (n = n1 /\ r \in R1) \/ (n = n2 /\ r \in R2)}
        BY <1>3, <1>5, <2>2 DEF Sent
    <2> QED
        BY <1>2, <1>5, <2>2, <2>3 DEF x, y, AreBatches
<1>6. CASE R1 = {} /\ R2 # {}
    <2>1. s = <<y>>
        BY <1>6 DEF ToEach, y
    <2>2. DOMAIN s = {1} /\ s[1] = y /\ Len(s) = 1
        BY <2>1
    <2>3. \A r : Sent(s, r) = {n \in {n1, n2} : (n = n1 /\ r \in R1) \/ (n = n2 /\ r \in R2)}
        BY <1>3, <1>6, <2>2 DEF Sent
    <2> QED
        BY <1>2, <1>6, <2>2, <2>3 DEF x, y, AreBatches
<1>7. CASE R1 # {} /\ R2 # {}
    <2> DEFINE f == <<x>>
               g == <<y>>
    <2>1. /\ f \in Seq(Batch) /\ Len(f) = 1 /\ f[1] = x
          /\ g \in Seq(Batch) /\ Len(g) = 1 /\ g[1] = y
          /\ s = f \o g
        BY <1>1, <1>7 DEF ToEach, x, y
    <2>2. DOMAIN s = {1, 2} /\ s[1] = x /\ s[2] = y /\ Len(s) = 2
        <3> HIDE DEF f, g
        <3>1. /\ Len(s) = Len(f) + Len(g)
              /\ \A i \in 1 .. Len(f) + Len(g) : s[i] = IF i <= Len(f) THEN f[i] ELSE g[i - Len(f)]
            BY <2>1, ConcatProperties
        <3>2. Len(s) = 2 /\ DOMAIN s = 1 .. 2
            BY <1>2, <2>1, <3>1, LenProperties
        <3>3. /\ 1 \in 1 .. Len(f) + Len(g) /\ 1 <= Len(f)
              /\ 2 \in 1 .. Len(f) + Len(g) /\ ~(2 <= Len(f)) /\ 2 - Len(f) = 1
            BY <2>1
        <3>4. s[1] = f[1] /\ s[2] = g[1]
            BY <3>1, <3>3
        <3>5. 1 .. 2 = {1, 2}
            OBVIOUS
        <3> QED
            BY <2>1, <3>2, <3>4, <3>5
    <2>3. \A r : Sent(s, r) = {n \in {n1, n2} : (n = n1 /\ r \in R1) \/ (n = n2 /\ r \in R2)}
        BY <1>3, <1>7, <2>2 DEF Sent
    <2> QED
        BY <1>2, <1>7, <2>2, <2>3 DEF x, y, AreBatches
<1> QED
    BY <1>4, <1>5, <1>6, <1>7

\* What a runner does when the kernel of its job t returns: it sends s.
EndJobDoes(r, t, s) ==
    /\ t = CurrentJob(r) /\ outbox' = [outbox EXCEPT ![r] = s]
    /\ \A b \in DOMAIN s :
          \/ /\ s[b].note = Notify("JOB_UPDATE_JOBSTAMP", r, ExecIx[t])
             /\ s[b].to = SynchronizationFlags[t] \ {r} /\ s[b].to # {}
          \/ /\ s[b].note = Notify("JOB_SENT_PARAM", r, t)
             /\ s[b].to = {ParamQueue}
    /\ \A l \in SynchronizationFlags[t] \ {r} : \E b \in DOMAIN s :
          /\ s[b].note = Notify("JOB_UPDATE_JOBSTAMP", r, ExecIx[t])
          /\ l \in s[b].to
    /\ done' = done \cup {t} /\ stamps' = UpdatedStamp(r, r, ExecIx[t])
    /\ runner'[r].jobQueueCurrentPos = runner[r].jobQueueCurrentPos + 1
    /\ runner'[r].lastJobStamp = ExecIx[t]
    /\ runner'[r].jobQueue = runner[r].jobQueue
    /\ runner'[r].jobCount = runner[r].jobCount
    /\ runner'[r].start = runner[r].start
    /\ runner'[r].receivedEnd = runner[r].receivedEnd
    /\ runner'[r].finished = runner[r].finished
    /\ runner'[r].repeat = runner[r].repeat
    /\ runner'[r].shouldBroadcast = runner[r].shouldBroadcast
    /\ \A q \in LRT \ {r} : runner'[q] = runner[q]
    /\ pc[r] = "Kernel" /\ pc' = [pc EXCEPT ![r] = "Finish"]
    /\ queue' = queue

\* What the end of a job does, whatever it sends.
LEMMA EndJobEffect ==
    ASSUME TypeOK, NEW r \in LRT, EndJob(r)
    PROVE  \E t \in Task, s \in Seq(Batch) : EndJobDoes(r, t, s)
<1> DEFINE t == CurrentJob(r)
           n1 == Notify("JOB_UPDATE_JOBSTAMP", r, ExecIx[t])
           n2 == Notify("JOB_SENT_PARAM", r, t)
           R1 == SynchronizationFlags[t] \ {r}
           R2 == IF t \in ConfigTask THEN {ParamQueue} ELSE {}
           s == ToEach(R1, n1) \o ToEach(R2, n2)
<1>1. t \in Task
    <2>1. runner[r].jobQueueCurrentPos < Len(runner[r].jobQueue)
        BY DEF EndJob, TypeOK, RunnerTypeOK
    <2> QED
        BY <2>1, CurrentJobType DEF TypeOK
<1>2. R1 \in SUBSET Endpoint /\ R2 \in SUBSET Endpoint /\ ExecIx[t] \in Nat
    <2>1. ExecIx[t] \in Nat /\ SynchronizationFlags[t] \subseteq LRT
        BY <1>1, ExecIxType
    <2>2. R1 \in SUBSET Endpoint
        BY <2>1, EndpointType, Zenon
    <2>3. R2 \in SUBSET Endpoint
        BY EndpointType
    <2> QED
        BY <2>1, <2>2, <2>3
<1>3. n1 \in Notification /\ n2 \in Notification
    <2>1. t \in Int /\ ExecIx[t] \in Int
        <3> HIDE DEF t
        <3> QED
            BY <1>1, <1>2, TaskType
    <2> QED
        <3> HIDE DEF t
        <3> QED
            BY <1>1, <2>1, NotifyType DEF NotificationType
<1>4. /\ outbox' = [outbox EXCEPT ![r] = s]
      /\ runner' = [runner EXCEPT ![r].lastJobStamp = ExecIx[t],
                                  ![r].jobQueueCurrentPos = @ + 1]
      /\ stamps' = UpdatedStamp(r, r, ExecIx[t])
      /\ done' = done \cup {t}
      /\ pc[r] = "Kernel" /\ pc' = [pc EXCEPT ![r] = "Finish"]
      /\ queue' = queue
    BY DEF EndJob
<1>5. /\ s \in Seq(Batch)
      /\ \A b \in DOMAIN s : \/ s[b] = [note |-> n1, to |-> R1] /\ R1 # {}
                             \/ s[b] = [note |-> n2, to |-> R2] /\ R2 # {}
      /\ \A x : Sent(s, x) = {n \in {n1, n2} : (n = n1 /\ x \in R1) \/ (n = n2 /\ x \in R2)}
    <2>1. s = ToEach(R1, n1) \o ToEach(R2, n2)
        OBVIOUS
    <2> HIDE DEF n1, n2, R1, R2, s
    <2>2. AreBatches(s, R1, n1, R2, n2)
        BY <1>2, <1>3, <2>1, TwoBatches
    <2> QED
        BY <2>2 DEF AreBatches
<1>6. \A b \in DOMAIN s : \/ s[b].note = n1 /\ s[b].to = R1 /\ s[b].to # {}
                          \/ s[b].note = n2 /\ s[b].to = {ParamQueue}
    <2>1. R2 # {} => R2 = {ParamQueue}
        OBVIOUS
    <2> HIDE DEF n1, n2, R1, R2, s
    <2> QED
        BY <1>5, <2>1
<1>7. \A l \in R1 : \E b \in DOMAIN s : s[b].note = n1 /\ l \in s[b].to
    <2> HIDE DEF n1, n2, R1, R2, s
    <2> SUFFICES ASSUME NEW l \in R1
                 PROVE  \E b \in DOMAIN s : s[b].note = n1 /\ l \in s[b].to
        OBVIOUS
    <2>1. n1 \in Sent(s, l)
        BY <1>5
    <2> QED
        BY <2>1 DEF Sent
<1>8. /\ runner'[r].jobQueueCurrentPos = runner[r].jobQueueCurrentPos + 1
      /\ runner'[r].lastJobStamp = ExecIx[t]
      /\ runner'[r].jobQueue = runner[r].jobQueue
      /\ runner'[r].jobCount = runner[r].jobCount
      /\ runner'[r].start = runner[r].start
      /\ runner'[r].receivedEnd = runner[r].receivedEnd
      /\ runner'[r].finished = runner[r].finished
      /\ runner'[r].repeat = runner[r].repeat
      /\ runner'[r].shouldBroadcast = runner[r].shouldBroadcast
      /\ \A q \in LRT \ {r} : runner'[q] = runner[q]
    <2> HIDE DEF t
    <2> QED
        BY <1>4 DEF TypeOK, RunnerTypeOK, RunnerState
<1>9. /\ \A b \in DOMAIN s :
            \/ /\ s[b].note = Notify("JOB_UPDATE_JOBSTAMP", r, ExecIx[t])
               /\ s[b].to = SynchronizationFlags[t] \ {r} /\ s[b].to # {}
            \/ /\ s[b].note = Notify("JOB_SENT_PARAM", r, t)
               /\ s[b].to = {ParamQueue}
      /\ \A l \in SynchronizationFlags[t] \ {r} : \E b \in DOMAIN s :
            /\ s[b].note = Notify("JOB_UPDATE_JOBSTAMP", r, ExecIx[t])
            /\ l \in s[b].to
    <2> HIDE DEF t, s
    <2> QED
        BY <1>6, <1>7
<1>10. t = CurrentJob(r)
    OBVIOUS
<1> HIDE DEF t, s, n1, n2, R1, R2
<1>11. EndJobDoes(r, t, s)
    BY <1>4, <1>8, <1>9, <1>10 DEF EndJobDoes
<1> QED
    BY <1>1, <1>5, <1>11

\* A job ends: it is done, and it is the next one that its runner runs.
LEMMA EndJobRound ==
    ASSUME TypeOK, SentInOrder, PhaseInv, JobsInv, UNCHANGED grtVars,
           NEW r \in LRT, EndJob(r)
    PROVE  SentInOrder' /\ PhaseInv' /\ JobsInv'
<1>0. PICK t \in Task, s \in Seq(Batch) : EndJobDoes(r, t, s)
    BY EndJobEffect
<1>1. /\ t = CurrentJob(r) /\ outbox' = [outbox EXCEPT ![r] = s]
      /\ done' = done \cup {t} /\ stamps' = UpdatedStamp(r, r, ExecIx[t])
      /\ runner'[r].jobQueueCurrentPos = runner[r].jobQueueCurrentPos + 1
      /\ runner'[r].jobQueue = runner[r].jobQueue
      /\ runner'[r].jobCount = runner[r].jobCount
      /\ runner'[r].start = runner[r].start
      /\ runner'[r].receivedEnd = runner[r].receivedEnd
      /\ runner'[r].finished = runner[r].finished
      /\ runner'[r].repeat = runner[r].repeat
      /\ runner'[r].shouldBroadcast = runner[r].shouldBroadcast
      /\ \A q \in LRT \ {r} : runner'[q] = runner[q]
      /\ pc[r] = "Kernel" /\ pc' = [pc EXCEPT ![r] = "Finish"]
      /\ queue' = queue
    BY <1>0 DEF EndJobDoes
<1>2. ComingInPhase(r) /\ RunnerInPhase(r) /\ JobsOfRound(r) /\ KeptInv(r) /\ GRTInPhase
    BY DEF PhaseInv, JobsInv
<1>3. runner[r].start /\ runner[r].jobQueueCurrentPos < Len(runner[r].jobQueue)
    BY <1>1, <1>2 DEF RunnerInPhase, TypeOK, RunnerTypeOK
<1>4. t \in RoundJobs(r) /\ executing /\ InRound
    BY <1>1, <1>3, AtJob
<1>5. pc'[r] = "Finish" /\ \A q \in LRT \ {r} : pc'[q] = pc[q]
    BY <1>1 DEF TypeOK, RunnerTypeOK
<1>6. Ready(r)
    BY <1>1 DEF SentInOrder
<1>7. ReadyKept
    <2>1. \A q \in LRT \ {r} : outbox'[q] = outbox[q]
        BY <1>1 DEF TypeOK, CommTypeOK
    <2> QED
        BY <1>5, <2>1 DEF ReadyKept, SentInOrder, Ready
<1>8. \A b \in DOMAIN s : s[b].to # {} /\ s[b].note.type \notin ControlType
    <2>1. \A ix : /\ Notify("JOB_UPDATE_JOBSTAMP", r, ix).type = "JOB_UPDATE_JOBSTAMP"
                  /\ Notify("JOB_SENT_PARAM", r, ix).type = "JOB_SENT_PARAM"
        BY DEF Notify
    <2>2. "JOB_UPDATE_JOBSTAMP" \notin ControlType /\ "JOB_SENT_PARAM" \notin ControlType
        BY DEF ControlType, Resets
    <2>3. ASSUME NEW b \in DOMAIN s
          PROVE  /\ s[b].to # {}
                 /\ \/ s[b].note = Notify("JOB_UPDATE_JOBSTAMP", r, ExecIx[t])
                    \/ s[b].note = Notify("JOB_SENT_PARAM", r, t)
        BY <1>0 DEF EndJobDoes
    <2> QED
        BY <2>1, <2>2, <2>3
<1>9. SentInOrder' /\ \A q \in LRT : Coming(q)' = Coming(q)
    BY <1>1, <1>6, <1>7, <1>8, OthersSent
<1>10. SameRound /\ PhaseStays /\ round' = round /\ toLaunch' = toLaunch
       /\ context' = context /\ iter' = iter /\ executing' = executing
    BY <1>1, <1>5, GRTAssumption DEF SameRound, PhaseStays, grtVars, Launched
<1>11. ComingInPhase(r)' /\ RunnerInPhase(r)'
    BY <1>1, <1>2, <1>5, <1>9, <1>10, PhaseKept
<1>12. /\ RoundJobs(r)' = RoundJobs(r) /\ Queued(r)' = Queued(r)
       /\ Kept(r)' = Kept(r)
       /\ Dropped' <=> Dropped
       /\ InRound' <=> InRound
    BY <1>1, <1>10, SameJobs
<1>13. /\ \A type : Expects(r, type)' <=> Expects(r, type)
       /\ Active(r)' <=> Active(r)
       /\ Adds(r)' = Adds(r)
    BY <1>1, <1>9, SameComing DEF Active
<1>14. Active(r)
    BY <1>3 DEF Active
<1>15. Ran(r)' = Ran(r) \cup {t}
    <2> DEFINE j == runner[r].jobQueue
               p == runner[r].jobQueueCurrentPos
    <2>1. p \in Nat
        BY RunnerFields DEF TypeOK
    <2>2. /\ Ran(r) = {j[i] : i \in 1 .. p}
          /\ Ran(r)' = {j[i] : i \in 1 .. p + 1}
          /\ t = j[p + 1]
        BY <1>1 DEF Ran, CurrentJob
    <2> HIDE DEF j, p
    <2>3. \A i : i \in 1 .. p + 1 <=> i \in 1 .. p \/ i = p + 1
        BY <2>1
    <2> QED
        BY <2>2, <2>3
<1>16. RoundJobs(r) \cap done' = Ran(r)'
    BY <1>1, <1>2, <1>3, <1>4, <1>14, <1>15 DEF JobsOfRound
<1>17. JobsOfRound(r)'
    BY <1>1, <1>2, <1>3, <1>4, <1>10, <1>12, <1>13, <1>14, <1>16 DEF JobsOfRound
<1>18. KeptInv(r)'
    BY <1>1, <1>2, <1>10, <1>12, <1>13 DEF KeptInv
<1>19. r = GRTIx => GRTInPhase'
    <2> SUFFICES ASSUME r = GRTIx PROVE GRTInPhase'
        OBVIOUS
    <2>1. Coming(GRTIx)' = {} /\ runner'[GRTIx].start
        BY <1>1, <1>2, <1>9 DEF GRTInPhase
    <2> QED
        BY <1>4, <1>5, <1>10, <1>12, <2>1 DEF GRTInPhase
<1>20. DoneInv'
    <2>1. t \in TasksOf(context) /\ RoundOf[t] = round /\ MappedLRT[t] = r
        BY <1>4 DEF RoundJobs, TasksOfRound, TasksOf
    <2>2. executing /\ DoneInv /\ round \in Nat
        BY <1>4 DEF JobsInv, TypeOK, GRTTypeOK
    <2>3. pc[GRTIx] # "Params" /\ pc'[GRTIx] # "Params"
        BY <1>4, <1>12 DEF InRound, Launched
    <2>4. ExecIx[t] \in Nat
        BY ExecIxType
    <2>5. \A k \in LRT : \A n \in Nat : n <= stamps[k][k] => n <= stamps'[k][k]
        BY <1>1, <2>4, StampGrows
    <2>6. ExecIx[t] <= stamps'[r][r]
        <3>1. stamps \in [LRT -> [LRT -> Int]]
            BY DEF TypeOK, RunnerTypeOK, Stamp
        <3>2. stamps'[r][r] = IF stamps[r][r] = NoStamp \/ stamps[r][r] < ExecIx[t]
                              THEN ExecIx[t] ELSE stamps[r][r]
            BY <1>1, <3>1 DEF UpdatedStamp
        <3> QED
            BY <2>4, <3>1, <3>2
    <2>7. \A u \in done' : ExecIx[u] <= stamps'[MappedLRT[u]][MappedLRT[u]]
        <3> SUFFICES ASSUME NEW u \in done'
                     PROVE  ExecIx[u] <= stamps'[MappedLRT[u]][MappedLRT[u]]
            OBVIOUS
        <3>1. CASE u = t
            BY <2>1, <2>6, <3>1
        <3>2. CASE u # t
            <4>1. u \in done /\ u \in Task
                BY <1>1, <3>2 DEF TypeOK, RunnerTypeOK
            <4>2. ExecIx[u] \in Nat /\ MappedLRT[u] \in LRT
                BY <4>1, ExecIxType, MappingAssumption
            <4> QED
                BY <2>2, <2>5, <4>1, <4>2 DEF DoneInv
        <3> QED
            BY <3>1, <3>2
    <2>8. /\ done' \subseteq {u \in TasksOf(context) : RoundOf[u] <= round}
          /\ {u \in TasksOf(context) : RoundOf[u] < round} \subseteq done'
        BY <1>1, <2>1, <2>2 DEF DoneInv
    <2> QED
        BY <1>10, <2>3, <2>7, <2>8 DEF DoneInv, TasksOf
<1>21. /\ \A u \in Task : u \in done' /\ u \notin done => MappedLRT[u] = r
       /\ done \subseteq done'
    BY <1>1, <1>4 DEF RoundJobs
<1> QED
    BY <1>1, <1>5, <1>9, <1>10, <1>11, <1>17, <1>18, <1>19, <1>20, <1>21, RunnerRound

-----------------------------------------------------------------------------
(* The end of the round of a runner                                        *)

StampNote(r) == Notify("JOB_UPDATE_JOBSTAMP", r, runner[r].lastJobStamp)
FinishedNote(r) == Notify("LRT_FINISHED_ITERATION", r, NoStamp)

BroadcastTo(r) == IF runner[r].shouldBroadcast /\ runner[r].lastJobStamp # NoStamp
                  THEN LRT \ {r} ELSE {}

\* What a runner does when it closes the round, sending s: all of them but the
\* GRT's tell it to the GRT.
Closes(r, s) ==
    /\ pc[r] = "Finish" /\ Ready(r) /\ FinishedIteration(r)
    /\ runner' = [runner EXCEPT ![r] = Closed(runner[r])]
    /\ outbox' = [outbox EXCEPT ![r] = s]
    /\ AreBatches(s, BroadcastTo(r), StampNote(r),
                  IF r = GRTIx THEN {} ELSE {GRTIx}, FinishedNote(r))
    /\ pc' = [pc EXCEPT ![r] = IF r = GRTIx THEN "Wait" ELSE "Read"]
    /\ UNCHANGED <<queue, stamps, done, notifVector>>
    /\ UNCHANGED <<context, round, toLaunch, executing, iter, runs>>
    /\ finishedRunner' = IF r = GRTIx THEN [finishedRunner EXCEPT ![GRTIx] = TRUE]
                         ELSE finishedRunner

\* What a runner sends when it closes a round is not for the runners' protocol.
LEMMA NotesAre ==
    ASSUME TypeOK, NEW r \in LRT
    PROVE  /\ StampNote(r) \in Notification /\ FinishedNote(r) \in Notification
           /\ StampNote(r).type = "JOB_UPDATE_JOBSTAMP"
           /\ FinishedNote(r).type = "LRT_FINISHED_ITERATION"
           /\ FinishedNote(r).senderIx = r
           /\ StampNote(r).type \notin ControlType
           /\ FinishedNote(r).type \notin ControlType
<1>1. runner[r].lastJobStamp \in Int /\ NoStamp \in Int
    BY RunnerFields DEF TypeOK, NoStamp
<1>2. StampNote(r) \in Notification /\ FinishedNote(r) \in Notification
    BY <1>1, NotifyType DEF StampNote, FinishedNote, NotificationType
<1>3. /\ StampNote(r).type = "JOB_UPDATE_JOBSTAMP"
      /\ FinishedNote(r).type = "LRT_FINISHED_ITERATION"
      /\ FinishedNote(r).senderIx = r
    BY DEF StampNote, FinishedNote, Notify
<1> QED
    BY <1>2, <1>3 DEF ControlType, Resets

\* The broadcast of the stamp is one loop.
LEMMA BroadcastIs ==
    ASSUME NEW r \in LRT
    PROVE  /\ Broadcast(r) = ToEach(BroadcastTo(r), StampNote(r))
           /\ BroadcastTo(r) \in SUBSET Endpoint
<1>1. Broadcast(r) = ToEach(BroadcastTo(r), StampNote(r))
    BY ToEachOf DEF Broadcast, BroadcastTo, StampNote
<1> QED
    BY <1>1, EndpointType DEF BroadcastTo

\* A runner that has finished its iteration closes the round.
LEMMA FinishIterationCloses ==
    ASSUME TypeOK, UNCHANGED grtVars, NEW r \in LRT, FinishIteration(r)
    PROVE  \E s \in Seq(Batch) : Closes(r, s)
<1> DEFINE s == ClosingBatches(r)
<1>1. r # GRTIx
    BY DEF FinishIteration, InfiniteLoop
<1>2. s = ToEach(BroadcastTo(r), StampNote(r)) \o ToEach({GRTIx}, FinishedNote(r))
    BY BroadcastIs DEF ClosingBatches, FinishedNote
<1>3. /\ BroadcastTo(r) \in SUBSET Endpoint /\ {GRTIx} \in SUBSET Endpoint
      /\ StampNote(r) \in Notification /\ FinishedNote(r) \in Notification
    BY BroadcastIs, NotesAre, EndpointType
<1>4. AreBatches(s, BroadcastTo(r), StampNote(r), {GRTIx}, FinishedNote(r))
    <2> HIDE DEF s
    <2> QED
        BY <1>2, <1>3, TwoBatches
<1>5. Closes(r, s)
    BY <1>1, <1>4 DEF FinishIteration, Closes, grtVars
<1> QED
    BY <1>4, <1>5 DEF AreBatches

\* So does the GRT when it leaves its own runner.
LEMMA LeaveRunCloses ==
    ASSUME TypeOK, LeaveRun
    PROVE  \E s \in Seq(Batch) : Closes(GRTIx, s)
<1> DEFINE s == Broadcast(GRTIx)
<1>1. GRTIx \in LRT
    BY GRTAssumption
<1>2. /\ BroadcastTo(GRTIx) \in SUBSET Endpoint /\ {} \in SUBSET Endpoint
      /\ StampNote(GRTIx) \in Notification /\ FinishedNote(GRTIx) \in Notification
    BY <1>1, BroadcastIs, NotesAre
<1>3. s = ToEach(BroadcastTo(GRTIx), StampNote(GRTIx)) \o ToEach({}, FinishedNote(GRTIx))
    <2>1. s = ToEach(BroadcastTo(GRTIx), StampNote(GRTIx))
        BY <1>1, BroadcastIs
    <2>2. s \in Seq(Batch)
        BY <1>2, <2>1, ToEachType
    <2>3. ToEach({}, FinishedNote(GRTIx)) = << >>
        BY ToEachOf
    <2> HIDE DEF s
    <2>4. s \o << >> = s
        BY <2>2
    <2> QED
        BY <2>1, <2>3, <2>4
<1>4. AreBatches(s, BroadcastTo(GRTIx), StampNote(GRTIx), {}, FinishedNote(GRTIx))
    <2> HIDE DEF s
    <2> QED
        BY <1>2, <1>3, TwoBatches
<1>5. Closes(GRTIx, s)
    BY <1>4 DEF LeaveRun, Closes, GoTo
<1> QED
    BY <1>4, <1>5 DEF AreBatches

\* When a runner closes the round it has run all its jobs.
LEMMA ClosingRunner ==
    ASSUME TypeOK, PhaseInv, JobsInv, NEW r \in LRT, pc[r] = "Finish", FinishedIteration(r)
    PROVE  /\ runner[r].start /\ Coming(r) = {} /\ pc[GRTIx] \in Launched
           /\ InRound /\ executing /\ Active(r) /\ context \in Context
           /\ Queued(r) = RoundJobs(r) /\ RoundJobs(r) \subseteq done
<1>1. ComingInPhase(r) /\ RunnerInPhase(r) /\ JobsOfRound(r) /\ GRTInPhase /\ CallInv
    BY DEF PhaseInv, JobsInv
<1>2. /\ runner[r].jobQueueCurrentPos \in Nat /\ Len(runner[r].jobQueue) \in Nat
      /\ runner[r].jobQueueCurrentPos <= Len(runner[r].jobQueue)
      /\ DOMAIN runner[r].jobQueue = 1 .. Len(runner[r].jobQueue)
    BY RunnerFields, LenProperties DEF TypeOK, RunnerTypeOK
<1>3. runner[r].receivedEnd
    <2>1. CASE runner[r].receivedEnd
        BY <2>1
    <2>2. CASE r = GRTIx
        BY <1>1, <2>2 DEF GRTInPhase, RunnerInPhase, Launched, Expects
    <2> QED
        BY <2>1, <2>2 DEF FinishedIteration, InfiniteLoop
<1>4. /\ runner[r].start /\ Coming(r) = {} /\ pc[GRTIx] \in Launched
      /\ runner[r].jobCount = Len(runner[r].jobQueue)
    BY <1>1, <1>3 DEF RunnerInPhase
<1>5. InRound /\ executing /\ Active(r)
    BY <1>1, <1>4 DEF InRound, GRTInPhase, Active
<1>6. runner[r].jobQueueCurrentPos = Len(runner[r].jobQueue)
    <2>1. CASE runner[r].jobQueueCurrentPos = runner[r].jobCount
        BY <1>4, <2>1
    <2>2. CASE runner[r].jobQueue = << >>
        <3>1. Len(runner[r].jobQueue) = 0
            BY <2>2
        <3> QED
            BY <1>2, <3>1
    <2> QED
        BY <2>1, <2>2 DEF FinishedIteration
<1>7. toLaunch = {} /\ Adds(r) = {}
    BY <1>1, <1>4 DEF CallInv, Launched, Adds
<1>8. Ran(r) = Queued(r)
    BY <1>2, <1>6 DEF Ran, Queued
<1>9. Queued(r) = RoundJobs(r) /\ RoundJobs(r) \cap done = Ran(r)
    BY <1>1, <1>4, <1>5, <1>7 DEF JobsOfRound
<1>10. context \in Context
    BY <1>1, <1>4 DEF CallInv, TypeOK, GRTTypeOK, Launched
<1> QED
    BY <1>4, <1>5, <1>8, <1>9, <1>10

\* The flags of a runner that has closed the round.
LEMMA ClosingFlags ==
    ASSUME NEW m \in RunnerState
    PROVE  /\ ~Closed(m).start /\ ~Closed(m).receivedEnd /\ Closed(m).finished
           /\ ~Closed(m).shouldBroadcast /\ Closed(m).repeat = m.repeat
           /\ Closed(m).jobQueue = IF m.repeat THEN m.jobQueue ELSE << >>
BY DEF Closed, RunnerState

\* A runner that closes the round has run all of its jobs.
LEMMA ClosingRound ==
    ASSUME SupportedUse, TypeOK, SentInOrder, PhaseInv, JobsInv,
           NEW r \in LRT, NEW s \in Seq(Batch), Closes(r, s)
    PROVE  SentInOrder' /\ PhaseInv' /\ JobsInv'
<1>1. /\ pc[r] = "Finish" /\ Ready(r) /\ FinishedIteration(r)
      /\ outbox' = [outbox EXCEPT ![r] = s]
      /\ UNCHANGED <<queue, stamps, done>>
      /\ UNCHANGED <<context, round, toLaunch, executing, iter, runs>>
    BY DEF Closes
<1>2. ComingInPhase(r) /\ RunnerInPhase(r) /\ JobsOfRound(r) /\ KeptInv(r) /\ GRTInPhase
    BY DEF PhaseInv, JobsInv
<1>3. /\ runner[r].start /\ Coming(r) = {} /\ pc[GRTIx] \in Launched
      /\ InRound /\ executing /\ context \in Context
      /\ Queued(r) = RoundJobs(r) /\ RoundJobs(r) \subseteq done
    BY <1>1, ClosingRunner
<1>4. /\ runner'[r] = Closed(runner[r]) /\ runner[r] \in RunnerState
      /\ \A q \in LRT \ {r} : runner'[q] = runner[q]
    BY DEF Closes, TypeOK, RunnerTypeOK
<1>5. /\ ~runner'[r].start /\ ~runner'[r].receivedEnd /\ runner'[r].finished
      /\ ~runner'[r].shouldBroadcast /\ runner'[r].repeat = runner[r].repeat
      /\ runner'[r].jobQueue = IF runner[r].repeat THEN runner[r].jobQueue ELSE << >>
    BY <1>4, ClosingFlags
<1>6. /\ pc'[r] = IF r = GRTIx THEN "Wait" ELSE "Read"
      /\ \A q \in LRT \ {r} : pc'[q] = pc[q]
    BY DEF Closes, TypeOK, RunnerTypeOK
<1>7. ReadyKept
    <2>1. \A q \in LRT \ {r} : outbox'[q] = outbox[q]
        BY <1>1 DEF TypeOK, CommTypeOK
    <2> QED
        BY <1>6, <2>1 DEF ReadyKept, SentInOrder, Ready
<1>8. \A b \in DOMAIN s : s[b].to # {} /\ s[b].note.type \notin ControlType
    <2> DEFINE R2 == IF r = GRTIx THEN {} ELSE {GRTIx}
    <2>1. AreBatches(s, BroadcastTo(r), StampNote(r), R2, FinishedNote(r))
        BY DEF Closes
    <2> HIDE DEF R2
    <2>2. ASSUME NEW b \in DOMAIN s
          PROVE  s[b].to # {} /\ s[b].note \in {StampNote(r), FinishedNote(r)}
        BY <2>1 DEF AreBatches
    <2> QED
        BY <2>2, NotesAre
<1>9. SentInOrder' /\ \A q \in LRT : Coming(q)' = Coming(q)
    BY <1>1, <1>7, <1>8, OthersSent
<1>10. SameRound /\ PhaseStays /\ (InRound' <=> InRound)
    <2>1. PhaseStays
        BY <1>3, <1>6, GRTAssumption DEF PhaseStays, Launched
    <2> QED
        BY <1>1, <2>1, PhaseIs DEF SameRound
<1>11. Coming(r)' = {}
    BY <1>3, <1>9
<1>12. ~Active(r)' /\ \A type : ~Expects(r, type)'
    BY <1>5, <1>11 DEF Active, Expects
<1>13. ComingInPhase(r)' /\ RunnerInPhase(r)'
    <2>1. pc'[GRTIx] \in Launched
        BY <1>3, <1>10 DEF PhaseStays
    <2>2. pc'[r] # "Thrown" /\ pc'[r] # "Kernel" /\ pc'[GRTIx] # "Launch"
        BY <1>6, <2>1 DEF Launched
    <2> QED
        BY <1>5, <1>11, <2>1, <2>2 DEF ComingInPhase, RunnerInPhase
<1>14. r = GRTIx => GRTInPhase'
    <2> SUFFICES ASSUME r = GRTIx PROVE GRTInPhase'
        OBVIOUS
    <2>1. pc'[GRTIx] = "Wait"
        BY <1>6
    <2> QED
        BY <1>1, <1>3, <1>5, <1>10, <1>11, <2>1 DEF GRTInPhase
<1>15. /\ RoundJobs(r)' = RoundJobs(r)
       /\ Queued(r)' = IF runner[r].repeat THEN Queued(r) ELSE {}
    <2>1. RoundJobs(r)' = RoundJobs(r)
        BY <1>1 DEF RoundJobs, TasksOfRound, TasksOf
    <2>2. CASE runner[r].repeat
        BY <1>5, <2>1, <2>2 DEF Queued
    <2>3. CASE ~runner[r].repeat
        <3>1. runner'[r].jobQueue = << >>
            BY <1>5, <2>3
        <3> QED
            BY <2>1, <2>3, <3>1 DEF Queued
    <2> QED
        BY <2>2, <2>3
<1>16. JobsOfRound(r)'
    <2>1. \A i, j \in DOMAIN runner'[r].jobQueue :
             i < j => runner'[r].jobQueue[i] < runner'[r].jobQueue[j]
        <3>1. runner'[r].jobQueue = runner[r].jobQueue \/ runner'[r].jobQueue = << >>
            BY <1>5
        <3> QED
            BY <1>2, <3>1 DEF JobsOfRound
    <2> QED
        BY <1>1, <1>3, <1>12, <1>15, <2>1 DEF JobsOfRound
<1>17. KeptInv(r)'
    <2>1. CASE context \in StaticContext
        <3>1. runner[r].repeat
            BY <1>2, <1>3, <2>1 DEF KeptInv, Expects
        <3>2. Queued(r)' = RoundJobs(r)' /\ Kept(r)' = RoundJobs(r)'
            BY <1>1, <1>3, <1>15, <2>1, <3>1 DEF Kept
        <3> QED
            BY <1>2, <1>5, <1>12, <3>1, <3>2 DEF KeptInv
    <2>2. CASE context \notin StaticContext
        <3>1. StaticContext = {}
            BY <1>3, <2>2 DEF SupportedUse
        <3>2. ~runner[r].repeat
            BY <1>2, <3>1 DEF KeptInv
        <3>3. Queued(r)' = {} /\ Kept(r)' = {}
            BY <1>1, <1>15, <2>2, <3>2 DEF Kept
        <3> QED
            BY <1>1, <1>5, <1>12, <3>1, <3>2, <3>3 DEF KeptInv
    <2> QED
        BY <2>1, <2>2
<1>18. DoneInv'
    BY <1>1, <1>10, DoneKept DEF JobsInv
<1> QED
    BY <1>1, <1>4, <1>6, <1>9, <1>10, <1>13, <1>14, <1>16, <1>17, <1>18, RunnerRound

-----------------------------------------------------------------------------
(* What the GRT does between the rounds                                    *)

\* A step that changes neither the runners nor what is coming to them.
LEMMA QuietRound ==
    ASSUME TypeOK, PhaseInv, JobsInv, UNCHANGED <<runner, stamps, done, pc>>,
           UNCHANGED <<context, round, toLaunch, executing, iter, runs>>,
           \A r \in LRT : Coming(r)' = Coming(r)
    PROVE  PhaseInv' /\ JobsInv'
<1>1. SameRound /\ PhaseStays /\ (InRound' <=> InRound)
    BY PhaseIs DEF SameRound, PhaseStays
<1>2. ASSUME NEW r \in LRT
      PROVE  ComingInPhase(r)' /\ RunnerInPhase(r)' /\ JobsOfRound(r)' /\ KeptInv(r)'
    <2>1. ComingInPhase(r) /\ RunnerInPhase(r) /\ JobsOfRound(r) /\ KeptInv(r)
        BY DEF PhaseInv, JobsInv
    <2>2. pc'[r] # "Thrown" /\ (pc'[r] = "Kernel" => runner[r].start)
        BY <2>1 DEF RunnerInPhase
    <2>3. ComingInPhase(r)' /\ RunnerInPhase(r)'
        BY <1>1, <2>1, <2>2, PhaseKept
    <2>4. JobsOfRound(r)' /\ KeptInv(r)'
        BY <1>1, <2>1, JobsKept
    <2> QED
        BY <2>3, <2>4
<1>3. GRTInPhase'
    <2>1. Coming(GRTIx)' = Coming(GRTIx)
        BY GRTAssumption
    <2> QED
        BY <1>1, <2>1 DEF PhaseInv, GRTInPhase, Active, Expects
<1>4. CallInv' /\ DoneInv'
    BY <1>1, CallKept, DoneKept DEF JobsInv
<1> QED
    BY <1>2, <1>3, <1>4 DEF PhaseInv, JobsInv

\* A push changes nothing of what is coming.
LEMMA PushRound ==
    ASSUME TypeOK, SentInOrder, PhaseInv, JobsInv, NEW r \in LRT,
           Push(r), UNCHANGED runnerVars, UNCHANGED grtVars
    PROVE  SentInOrder' /\ PhaseInv' /\ JobsInv'
<1>1. UNCHANGED <<runner, stamps, done, pc>>
      /\ UNCHANGED <<context, round, toLaunch, executing, iter, runs>>
    BY DEF runnerVars, grtVars
<1>2. SentInOrder' /\ \A q \in LRT : Coming(q)' = Coming(q)
    BY <1>1, PushKeepsComing
<1> QED
    BY <1>1, <1>2, QuietRound

\* A notification that is not for a runner is taken from a queue.
LEMMA PopRound ==
    ASSUME TypeOK, SentInOrder, PhaseInv, JobsInv, NEW e \in Endpoint, queue[e] # << >>,
           queue' = [queue EXCEPT ![e] = Tail(@)], outbox' = outbox,
           Head(queue[e]).type \notin ControlType \/ e \notin LRT,
           UNCHANGED <<runner, stamps, done, pc>>,
           UNCHANGED <<context, round, toLaunch, executing, iter, runs>>
    PROVE  SentInOrder' /\ PhaseInv' /\ JobsInv'
<1>1. ReadyKept
    BY DEF ReadyKept, SentInOrder, Ready
<1>2. SentInOrder' /\ \A q \in LRT : Coming(q)' = Coming(q)
    BY <1>1, PopComing
<1> QED
    BY <1>2, QuietRound

\* Notifications for the GRT are not those of the protocol.
LEMMA NotForRunners ==
    "LRT_FINISHED_ITERATION" \notin ControlType /\ "JOB_SENT_PARAM" \notin ControlType
BY DEF ControlType, Resets

\* The GRT reads that a runner has finished, before the barrier.
LEMMA ReadFinishedRound ==
    ASSUME TypeOK, SentInOrder, PhaseInv, JobsInv, ReadFinished
    PROVE  SentInOrder' /\ PhaseInv' /\ JobsInv'
<1>1. /\ queue[GRTIx] # << >> /\ Head(queue[GRTIx]).type = "LRT_FINISHED_ITERATION"
      /\ queue' = [queue EXCEPT ![GRTIx] = Tail(@)] /\ outbox' = outbox
      /\ UNCHANGED <<runner, stamps, done, pc>>
      /\ UNCHANGED <<context, round, toLaunch, executing, iter, runs>>
    BY DEF ReadFinished, Received, Pop
<1> QED
    BY <1>1, NotForRunners, EndpointType, PopRound

\* And at the barrier.
LEMMA WaitFinishedRound ==
    ASSUME TypeOK, SentInOrder, PhaseInv, JobsInv, NEW i, WaitFinished(i)
    PROVE  SentInOrder' /\ PhaseInv' /\ JobsInv'
<1>1. /\ queue[GRTIx] # << >> /\ Head(queue[GRTIx]).type = "LRT_FINISHED_ITERATION"
      /\ queue' = [queue EXCEPT ![GRTIx] = Tail(@)] /\ outbox' = outbox
      /\ UNCHANGED <<runner, stamps, done, pc>>
      /\ UNCHANGED <<context, round, toLaunch, executing, iter, runs>>
    BY DEF WaitFinished, Pop, runnerVars
<1> QED
    BY <1>1, NotForRunners, EndpointType, PopRound

\* Nothing of the GRT's own is in its queue while it waits.
LEMMA SetAsideRound ==
    ASSUME TypeOK, SentInOrder, PhaseInv, JobsInv, SetAside
    PROVE  /\ SentInOrder' /\ PhaseInv' /\ JobsInv'
           /\ Head(queue[GRTIx]).type \notin ControlType
<1>1. /\ pc[GRTIx] = "Wait" /\ queue[GRTIx] # << >>
      /\ queue' = [queue EXCEPT ![GRTIx] = Tail(@)] /\ outbox' = outbox
      /\ UNCHANGED <<runner, stamps, done, pc>>
      /\ UNCHANGED <<context, round, toLaunch, executing, iter, runs>>
    BY DEF SetAside, At, runnerVars
<1>2. Coming(GRTIx) = {}
    BY <1>1 DEF PhaseInv, GRTInPhase
<1>3. Head(queue[GRTIx]).type \notin ControlType
    BY <1>1, <1>2, HeadFirst, EndpointType
<1> QED
    BY <1>1, <1>3, EndpointType, PopRound

\* The GRT reads parameters.
LEMMA ReadParamRound ==
    ASSUME TypeOK, SentInOrder, PhaseInv, JobsInv, ReadParam
    PROVE  SentInOrder' /\ PhaseInv' /\ JobsInv'
<1>1. /\ queue[ParamQueue] # << >>
      /\ queue' = [queue EXCEPT ![ParamQueue] = Tail(@)] /\ outbox' = outbox
      /\ UNCHANGED <<runner, stamps, done, pc>>
      /\ UNCHANGED <<context, round, toLaunch, executing, iter, runs>>
    BY DEF ReadParam, Pop, runnerVars
<1>2. ParamQueue \notin LRT
    BY TaskAssumption DEF ParamQueue, LRT
<1> QED
    BY <1>1, <1>2, EndpointType, PopRound

\* A step that leaves the queues and the runners leaves the round.
LEMMA NothingChangesRound ==
    ASSUME TypeOK, SentInOrder, PhaseInv, JobsInv, UNCHANGED <<commVars, runnerVars>>,
           UNCHANGED <<context, round, toLaunch, executing, iter, runs>>
    PROVE  SentInOrder' /\ PhaseInv' /\ JobsInv'
<1>1. queue' = queue /\ outbox' = outbox /\ UNCHANGED <<runner, stamps, done, pc>>
    BY DEF commVars, runnerVars
<1>2. ReadyKept
    BY <1>1 DEF ReadyKept, SentInOrder, Ready
<1>3. SentInOrder' /\ \A q \in LRT : Coming(q)' = Coming(q)
    BY <1>1, <1>2, CommKept
<1> QED
    BY <1>1, <1>3, QuietRound

\* What is coming when no round is executed.
LEMMA BetweenRounds ==
    ASSUME PhaseInv, NEW r \in LRT, ~InRound
    PROVE  /\ pc[GRTIx] \notin {"Join", "Exited"} => \A n \in Coming(r) : n.type \in Resets
           /\ pc[GRTIx] = "Params" => Coming(r) = {}
           /\ ~runner[r].start /\ ~Active(r)
           /\ \A n \in Coming(r) : n.type \in Resets \cup {"LRT_STOP"}
<1>1. ComingInPhase(r) /\ RunnerInPhase(r)
    BY DEF PhaseInv
<1>2. ~Expects(r, "LRT_START_ITERATION") /\ ~runner[r].start
    BY <1>1 DEF ComingInPhase, RunnerInPhase, Expects
<1>3. \A n \in Coming(r) : n.type \in Resets \cup {"LRT_STOP"}
    <2> TAKE n \in Coming(r)
    <2>1. n.type \in ControlType
        BY DEF Coming
    <2> QED
        BY <1>1, <1>2, <2>1 DEF ComingInPhase, ControlType, InRound
<1> QED
    BY <1>1, <1>2, <1>3 DEF ComingInPhase, Active

GRTNote(type) == Notify(type, GRTIx, NoStamp)

\* What the GRT broadcasts is a notification of the protocol.
LEMMA GRTNotes ==
    ASSUME NEW type \in ControlType, type # "JOB_ADD"
    PROVE  GRTNote(type) \in Notification /\ GRTNote(type).type = type
<1>1. /\ type \in NotificationType /\ type \notin {"JOB_ADD", "JOB_SENT_PARAM"}
      /\ GRTIx \in LRT /\ NoStamp \in Int
    BY EndpointType DEF ControlType, Resets, NotificationType
<1> QED
    BY <1>1, NotifyType DEF GRTNote, Notify

\* The GRT goes to a label and sends s; no runner steps.
GRTGoes(label, s) ==
    /\ Ready(GRTIx)
    /\ queue' = queue /\ outbox' = [outbox EXCEPT ![GRTIx] = s]
    /\ UNCHANGED <<runner, stamps>>
    /\ pc' = [pc EXCEPT ![GRTIx] = label]

\* The GRT moves to a label: the other threads stay where they are.
LEMMA GRTGoesTo ==
    ASSUME TypeOK, SentInOrder, NEW label, label \notin {"Check", "Kernel"},
           NEW s, GRTGoes(label, s)
    PROVE  /\ ReadyKept /\ pc'[GRTIx] = label /\ GRTIx \in LRT
           /\ \A q \in LRT \ {GRTIx} : pc'[q] = pc[q]
<1>1. /\ GRTIx \in LRT /\ pc'[GRTIx] = label /\ outbox'[GRTIx] = s
      /\ \A q \in LRT \ {GRTIx} : pc'[q] = pc[q] /\ outbox'[q] = outbox[q]
    BY GRTAssumption DEF GRTGoes, TypeOK, CommTypeOK, RunnerTypeOK
<1> QED
    BY <1>1 DEF ReadyKept, SentInOrder, Ready

\* The GRT sends n1 to R1 and n2 to R2, in the order of the protocol.
MaySend(R1, n1, R2, n2) ==
    /\ R1 \in SUBSET Endpoint /\ R2 \in SUBSET Endpoint
    /\ n1 \in Notification /\ n2 \in Notification
    /\ n1.type \in ControlType /\ n2.type \in ControlType
    /\ R1 # {} => Before(n1, n2)
    /\ \A r \in LRT : \A n \in Coming(r) : /\ r \in R1 => Before(n, n1)
                                           /\ r \in R2 => Before(n, n2)

HasSent(R1, n1, R2, n2) ==
    /\ SentInOrder'
    /\ \A r \in LRT : \A n : n \in Coming(r)' <=>
             n \in Coming(r) \/ (n = n1 /\ r \in R1) \/ (n = n2 /\ r \in R2)

\* What it sends is coming, to each of the LRTs it sends it to.
LEMMA GRTSends ==
    ASSUME TypeOK, SentInOrder, NEW label, label \notin {"Check", "Kernel"},
           NEW R1, NEW R2, NEW n1, NEW n2, MaySend(R1, n1, R2, n2),
           NEW s, s = ToEach(R1, n1) \o ToEach(R2, n2), GRTGoes(label, s)
    PROVE  HasSent(R1, n1, R2, n2)
<1>0. /\ R1 \in SUBSET Endpoint /\ R2 \in SUBSET Endpoint
      /\ n1 \in Notification /\ n2 \in Notification
      /\ n1.type \in ControlType /\ n2.type \in ControlType
      /\ R1 # {} => Before(n1, n2)
      /\ \A r \in LRT : \A n \in Coming(r) : /\ r \in R1 => Before(n, n1)
                                             /\ r \in R2 => Before(n, n2)
    BY DEF MaySend
<1>1. AreBatches(s, R1, n1, R2, n2)
    BY <1>0, TwoBatches
<1>2. s \in Seq(Batch)
    BY <1>1 DEF AreBatches
<1>3. \A b \in DOMAIN s : s[b].to # {} /\ s[b].note.type \in ControlType
    <2> TAKE b \in DOMAIN s
    <2>1. CASE s[b] = [note |-> n1, to |-> R1] /\ R1 # {}
        BY <1>0, <2>1
    <2>2. CASE s[b] = [note |-> n2, to |-> R2] /\ R2 # {}
        BY <1>0, <2>2
    <2> QED
        BY <1>1, <2>1, <2>2 DEF AreBatches
<1>4. \A a, b \in DOMAIN s : a < b => Before(s[a].note, s[b].note)
    <2> SUFFICES ASSUME NEW a \in DOMAIN s, NEW b \in DOMAIN s, a < b
                 PROVE  Before(s[a].note, s[b].note)
        OBVIOUS
    <2>1. s[a] = [note |-> n1, to |-> R1] /\ s[b] = [note |-> n2, to |-> R2]
        BY <1>1 DEF AreBatches
    <2>2. s[a].note = n1 /\ s[a].to = R1 /\ s[b].note = n2
        BY <2>1
    <2>3. R1 # {}
        BY <1>3, <2>2
    <2> QED
        BY <1>0, <2>2, <2>3
<1>5. \A r : Sent(s, r) = {n \in {n1, n2} : (n = n1 /\ r \in R1) \/ (n = n2 /\ r \in R2)}
    BY <1>1 DEF AreBatches
<1>6. \A r \in LRT : \A n \in Coming(r), m \in Sent(s, r) : Before(n, m)
    <2> SUFFICES ASSUME NEW r \in LRT, NEW n \in Coming(r), NEW m \in Sent(s, r)
                 PROVE  Before(n, m)
        OBVIOUS
    <2>1. (m = n1 /\ r \in R1) \/ (m = n2 /\ r \in R2)
        BY <1>5
    <2>2. (r \in R1 => Before(n, n1)) /\ (r \in R2 => Before(n, n2))
        BY <1>0
    <2> QED
        BY <2>1, <2>2
<1>7. ReadyKept
    BY GRTGoesTo
<1>8. SentInOrder' /\ \A r \in LRT : Coming(r)' = Coming(r) \cup Sent(s, r)
    BY <1>2, <1>3, <1>4, <1>6, <1>7, GRTSent DEF GRTGoes
<1> QED
    BY <1>5, <1>8 DEF HasSent

\* One notification at most.
LEMMA GRTSendsOne ==
    ASSUME TypeOK, SentInOrder, NEW label, label \notin {"Check", "Kernel"},
           NEW R \in SUBSET Endpoint, NEW m \in Notification, m.type \in ControlType,
           \A r \in LRT : \A n \in Coming(r) : r \in R => Before(n, m),
           GRTGoes(label, ToEach(R, m))
    PROVE  /\ SentInOrder'
           /\ \A r \in LRT : \A n : n \in Coming(r)' <=>
                    n \in Coming(r) \/ (n = m /\ r \in R)
<1> DEFINE s == ToEach(R, m)
           Z == {}
<1>1. s \in Seq(Batch) /\ ToEach(Z, m) = << >>
    BY ToEachType, ToEachOf
<1>2. s = ToEach(Z, m) \o ToEach(R, m)
    <2>1. s = << >> \o s
        <3> HIDE DEF s
        <3> QED
            BY <1>1
    <2> QED
        BY <1>1, <2>1
<1>3. /\ Z \in SUBSET Endpoint /\ (Z # {} => Before(m, m))
      /\ GRTGoes(label, s) /\ \A r : r \notin Z
    OBVIOUS
<1> HIDE DEF s, Z
<1>4. MaySend(Z, m, R, m)
    BY <1>3 DEF MaySend
<1>5. HasSent(Z, m, R, m)
    BY <1>2, <1>3, <1>4, GRTSends
<1> QED
    BY <1>3, <1>5 DEF HasSent

\* Labels at which no round is executed and no runner iterates.
Resting == {"App", "Execute", "Join", "Exited"}

\* Between the rounds the GRT may move without disturbing the runners.
LEMMA RestingRunner ==
    ASSUME TypeOK, SentInOrder, PhaseInv, JobsInv, ~InRound, NEW label \in Resting \cup {"Params"},
           NEW s, GRTGoes(label, s)
    PROVE  /\ ~InRound' /\ pc'[GRTIx] = label
           /\ \A r \in LRT : RunnerInPhase(r)' /\ JobsOfRound(r)' /\ Queued(r)' = Queued(r)
<1>1. /\ ReadyKept /\ pc'[GRTIx] = label /\ GRTIx \in LRT
      /\ \A q \in LRT \ {GRTIx} : pc'[q] = pc[q]
    BY GRTGoesTo DEF Resting
<1>2. ~InRound' /\ pc'[GRTIx] # "Launch" /\ pc'[GRTIx] \notin Launched
    BY <1>1 DEF InRound, Launched, Resting
<1>3. runner' = runner
    BY DEF GRTGoes
<1>4. ASSUME NEW r \in LRT
      PROVE  RunnerInPhase(r)' /\ JobsOfRound(r)' /\ Queued(r)' = Queued(r)
    <2>1. RunnerInPhase(r) /\ JobsOfRound(r) /\ ~runner[r].start
        BY BetweenRounds DEF PhaseInv, JobsInv
    <2>2. pc'[r] # "Kernel" /\ pc'[r] # "Thrown"
        BY <1>1, <2>1 DEF RunnerInPhase, Resting
    <2>3. RunnerInPhase(r)'
        BY <1>2, <1>3, <2>1, <2>2 DEF RunnerInPhase
    <2>4. JobsOfRound(r)'
        BY <1>2, <1>3, <2>1 DEF JobsOfRound
    <2> QED
        BY <1>3, <2>3, <2>4 DEF Queued
<1> QED
    BY <1>1, <1>2, <1>4

\* Between the calls the GRT executes nothing.
LEMMA RestingGRT ==
    ASSUME GRTInPhase, ~InRound, ~InRound', pc'[GRTIx] \in Resting, executing' = FALSE
    PROVE  GRTInPhase'
BY DEF GRTInPhase, Resting

\* What the GRT may send while it rests is not a start.
LEMMA RestingActive ==
    ASSUME PhaseInv, NEW r \in LRT, ~InRound, runner' = runner,
           \A n \in Coming(r)' : n \in Coming(r) \/ n.type # "LRT_START_ITERATION"
    PROVE  ~Active(r)'
<1>1. ~runner[r].start /\ ~Expects(r, "LRT_START_ITERATION")
    BY BetweenRounds DEF Active
<1> QED
    BY <1>1 DEF Active, Expects

\* A step of the GRT that sends nothing.
LEMMA GRTStays ==
    ASSUME TypeOK, SentInOrder, NEW label, label \notin {"Check", "Kernel"},
           Ready(GRTIx), UNCHANGED commVars, UNCHANGED <<runner, stamps>>,
           pc' = [pc EXCEPT ![GRTIx] = label]
    PROVE  /\ GRTGoes(label, << >>) /\ SentInOrder'
           /\ \A r \in LRT : Coming(r)' = Coming(r)
<1>1. queue' = queue /\ outbox' = outbox
    BY DEF commVars
<1>2. outbox = [outbox EXCEPT ![GRTIx] = << >>]
    BY GRTAssumption DEF Ready, TypeOK, CommTypeOK
<1>3. GRTGoes(label, << >>)
    BY <1>1, <1>2 DEF GRTGoes
<1>4. ReadyKept
    BY <1>3, GRTGoesTo
<1> QED
    BY <1>1, <1>3, <1>4, CommKept

\* The contexts in use, in what the properties are about.
LEMMA StaticAlone ==
    ASSUME SupportedUse, TypeOK, NEW c \in Context
    PROVE  /\ c \notin StaticContext => StaticContext = {}
           /\ c \in StaticContext => /\ Context = {c} /\ context \in {c, None}
                                     /\ RunMode[c] = "LOOP" => MaxRuns <= 1
           /\ None \notin StaticContext /\ None \notin Context
           /\ context # None => context \in Context
BY ContextAssumption DEF SupportedUse, TypeOK, GRTTypeOK

\* spider::run on a context finds all runners at rest.
LEMMA CallRunRound ==
    ASSUME SupportedUse, TypeOK, SentInOrder, PhaseInv, JobsInv,
           NEW c \in Context, CallRun(c)
    PROVE  SentInOrder' /\ PhaseInv' /\ JobsInv'
<1>1. /\ pc[GRTIx] = "App" /\ Ready(GRTIx) /\ runs < MaxRuns /\ runs' = runs + 1
      /\ context' = c /\ pc' = [pc EXCEPT ![GRTIx] = "Execute"]
      /\ UNCHANGED commVars /\ UNCHANGED <<runner, stamps, done>>
      /\ UNCHANGED <<executing, iter, round, toLaunch>>
    BY DEF CallRun, At, GoTo
<1>2. /\ GRTGoes("Execute", << >>) /\ SentInOrder'
      /\ \A r \in LRT : Coming(r)' = Coming(r)
    BY <1>1, GRTStays
<1>3. ~InRound /\ GRTInPhase /\ CallInv /\ DoneInv
    BY <1>1 DEF InRound, Launched, PhaseInv, JobsInv
<1>4. /\ ~InRound' /\ pc'[GRTIx] = "Execute"
      /\ \A r \in LRT : RunnerInPhase(r)' /\ JobsOfRound(r)' /\ Queued(r)' = Queued(r)
    BY <1>2, <1>3, RestingRunner DEF Resting
<1>5. GRTInPhase' /\ ~executing /\ executing' = FALSE
    <2>1. ~executing
        BY <1>1, <1>3 DEF GRTInPhase
    <2> QED
        BY <1>1, <1>3, <1>4, <2>1, RestingGRT DEF Resting, TypeOK, GRTTypeOK
<1>6. ASSUME NEW r \in LRT PROVE ComingInPhase(r)'
    <2>1. \A n \in Coming(r)' : n.type \in Resets
        BY <1>1, <1>2, <1>3, BetweenRounds
    <2> QED
        BY <1>4, <2>1 DEF ComingInPhase, Resets
<1>7. ~Dropped /\ ~Dropped'
    <2>1. runs \in Nat /\ MaxRuns \in Nat
        BY ContextAssumption DEF TypeOK, GRTTypeOK
    <2>2. ASSUME Dropped PROVE FALSE
        <3>1. context \in StaticContext /\ RunMode[context] = "LOOP" /\ context \in Context
            BY <2>2, ContextAssumption DEF Dropped
        <3>2. runs >= 1 /\ MaxRuns <= 1
            BY <1>3, <3>1, StaticAlone DEF CallInv
        <3> QED
            BY <1>1, <2>1, <3>2
    <2> QED
        BY <1>4, <2>2 DEF Dropped
<1>8. c \in StaticContext /\ iter[c] => context = c
    BY <1>3, StaticAlone DEF CallInv
<1>9. CallInv'
    <2>1. toLaunch = {} /\ runs \in Nat /\ c # None
        BY <1>1, <1>3, StaticAlone DEF CallInv, TypeOK, GRTTypeOK
    <2> QED
        BY <1>1, <1>3, <1>4, <1>5, <1>8, <2>1 DEF CallInv
<1>10. DoneInv'
    BY <1>4, <1>5 DEF DoneInv
<1>11. ASSUME NEW r \in LRT PROVE KeptInv(r)'
    <2>1. KeptInv(r) /\ ~Active(r)
        BY <1>3, BetweenRounds DEF JobsInv
    <2>2. /\ \A type : Expects(r, type)' <=> Expects(r, type)
          /\ runner' = runner
        BY <1>1, <1>2, SameComing
    <2>3. Kept(r)' = Kept(r)
        <3>1. CASE c \in StaticContext /\ iter[c]
            <4>1. context' = context
                BY <1>1, <1>8, <3>1
            <4> QED
                BY <1>1, <4>1 DEF Kept, RoundJobs, TasksOfRound, TasksOf
        <3>2. CASE ~(c \in StaticContext /\ iter[c])
            <4>1. ~(context \in StaticContext /\ iter[context])
                <5>1. context = None \/ context \in Context
                    BY DEF TypeOK, GRTTypeOK
                <5> QED
                    BY <3>2, <5>1, StaticAlone
            <4> QED
                BY <1>1, <1>5, <3>2, <4>1 DEF Kept
        <3> QED
            BY <3>1, <3>2
    <2>4. Queued(r)' = Kept(r)'
        BY <1>4, <1>7, <2>1, <2>3 DEF KeptInv
    <2>5. c \in StaticContext /\ iter[c] =>
              runner[r].repeat \/ Expects(r, "LRT_REPEAT_ITERATION_EN")
        BY <1>8, <2>1 DEF KeptInv
    <2>6. runner[r].repeat \/ Expects(r, "LRT_REPEAT_ITERATION_EN") => StaticContext # {}
        BY <2>1 DEF KeptInv
    <2>7. Expects(r, "LRT_CLEAR_ITERATION") => StaticContext = {}
        BY <1>7, <2>1 DEF KeptInv
    <2> QED
        BY <1>1, <1>5, <2>2, <2>4, <2>5, <2>6, <2>7 DEF KeptInv
<1> QED
    BY <1>2, <1>4, <1>5, <1>6, <1>9, <1>10, <1>11 DEF PhaseInv, JobsInv

\* The GRT rests and sends m to R; what it knows of the calls stays.
LEMMA RestingSends ==
    ASSUME TypeOK, SentInOrder, PhaseInv, JobsInv, pc[GRTIx] \in {"App", "Execute", "Join"},
           NEW label \in Resting, NEW R \in SUBSET Endpoint, NEW m \in Notification,
           m.type \in {"LRT_CLEAR_ITERATION", "LRT_STOP"},
           R # {} => pc[GRTIx] # "Join",
           m.type = "LRT_STOP" /\ R # {} => label \in {"Join", "Exited"},
           pc[GRTIx] = "Join" => label \in {"Join", "Exited"},
           label = "Execute" => context # None,
           GRTGoes(label, ToEach(R, m)), done' = done,
           UNCHANGED <<context, round, toLaunch, executing, iter, runs>>,
           Dropped => Dropped',
           \A r \in LRT \cap R : m.type = "LRT_CLEAR_ITERATION" => StaticContext = {} \/ Dropped'
    PROVE  SentInOrder' /\ PhaseInv' /\ JobsInv'
<1>1. ~InRound /\ GRTInPhase /\ CallInv /\ DoneInv /\ ~executing
    BY DEF InRound, Launched, PhaseInv, JobsInv, GRTInPhase
<1>2. label \notin {"Check", "Kernel"} /\ m.type \in ControlType /\ label # "Params"
    BY DEF Resting, ControlType, Resets
<1>3. \A r \in LRT : \A n \in Coming(r) : r \in R => Before(n, m)
    BY <1>1, BetweenRounds DEF Before
<1>4. /\ SentInOrder'
      /\ \A r \in LRT : \A n : n \in Coming(r)' <=> n \in Coming(r) \/ (n = m /\ r \in R)
    BY <1>2, <1>3, GRTSendsOne
<1>5. /\ ~InRound' /\ pc'[GRTIx] = label
      /\ \A r \in LRT : RunnerInPhase(r)' /\ JobsOfRound(r)' /\ Queued(r)' = Queued(r)
    BY <1>1, RestingRunner
<1>6. GRTInPhase'
    BY <1>1, <1>5, RestingGRT DEF TypeOK, GRTTypeOK
<1>7. ASSUME NEW r \in LRT PROVE ComingInPhase(r)'
    <2>1. \A n \in Coming(r)' : n.type \in Resets \cup {"LRT_STOP"}
        BY <1>1, <1>4, BetweenRounds DEF Resets
    <2>2. ASSUME NEW n \in Coming(r)', n.type = "LRT_STOP"
          PROVE  pc'[GRTIx] \in {"Join", "Exited"}
        <3>1. CASE n \in Coming(r)
            <4>1. pc[GRTIx] = "Join"
                BY <1>1, <2>2, <3>1, BetweenRounds DEF Resets
            <4> QED
                BY <1>5, <4>1
        <3>2. CASE n = m /\ r \in R
            BY <1>5, <2>2, <3>2
        <3> QED
            BY <1>4, <3>1, <3>2
    <2> QED
        BY <1>2, <1>5, <2>1, <2>2 DEF ComingInPhase, Resets
<1>8. CallInv'
    <2>1. context = None => label \in {"App", "Join", "Exited"}
        BY DEF Resting
    <2>2. toLaunch = {} /\ label # "Launch"
        BY <1>1 DEF CallInv, Resting
    <2> QED
        BY <1>1, <1>5, <2>1, <2>2 DEF CallInv, TasksOfRound, TasksOf
<1>9. DoneInv'
    BY <1>1, <1>2, <1>5 DEF DoneInv
<1>10. ASSUME NEW r \in LRT PROVE KeptInv(r)'
    <2>1. KeptInv(r) /\ ~Active(r) /\ runner' = runner
        BY <1>1, BetweenRounds DEF JobsInv, GRTGoes
    <2>2. /\ Expects(r, "LRT_REPEAT_ITERATION_EN")' <=> Expects(r, "LRT_REPEAT_ITERATION_EN")
          /\ Expects(r, "LRT_CLEAR_ITERATION")' =>
                \/ Expects(r, "LRT_CLEAR_ITERATION")
                \/ r \in R /\ m.type = "LRT_CLEAR_ITERATION"
        BY <1>4 DEF Expects
    <2>3. Kept(r)' = Kept(r)
        BY DEF Kept, RoundJobs, TasksOfRound, TasksOf
    <2>4. Queued(r)' = Kept(r)' \/ Dropped'
        BY <1>5, <2>1, <2>3 DEF KeptInv
    <2> QED
        BY <2>1, <2>2, <2>4 DEF KeptInv
<1> QED
    BY <1>4, <1>5, <1>6, <1>7, <1>8, <1>9, <1>10 DEF PhaseInv, JobsInv

\* spider::run returns, and at the end of a LOOP call clears the runners.
LEMMA RunReturnsRound ==
    ASSUME SupportedUse, TypeOK, SentInOrder, PhaseInv, JobsInv, RunReturns
    PROVE  SentInOrder' /\ PhaseInv' /\ JobsInv'
<1> DEFINE m == GRTNote("LRT_CLEAR_ITERATION")
           R == IF RunMode[context] = "LOOP" THEN LRT ELSE {}
<1>1. m \in Notification /\ m.type = "LRT_CLEAR_ITERATION" /\ R \in SUBSET Endpoint
    BY GRTNotes, EndpointType DEF ControlType, Resets
<1>2. /\ pc[GRTIx] = "Execute" /\ Ready(GRTIx)
      /\ GRTGoes("App", ToEach(R, m))
      /\ done' = done /\ UNCHANGED <<context, round, toLaunch, executing, iter, runs>>
    <2>1. ToEach(R, m) = IF RunMode[context] = "LOOP" THEN ToAll("LRT_CLEAR_ITERATION") ELSE << >>
        BY ToEachOf DEF ToAll, GRTNote
    <2> HIDE DEF R, m
    <2> QED
        BY <2>1 DEF RunReturns, At, GoTo, GRTGoes, grtVars
<1>3. pc'[GRTIx] = "App"
    BY <1>2, GRTGoesTo
<1>4. ~Dropped
    BY <1>2 DEF Dropped
<1>5. \A r \in LRT \cap R : StaticContext = {} \/ Dropped'
    <2> SUFFICES ASSUME NEW r \in LRT \cap R PROVE StaticContext = {} \/ Dropped'
        OBVIOUS
    <2>1. RunMode[context] = "LOOP"
        OBVIOUS
    <2>2. context \in Context
        BY <1>2, StaticAlone DEF JobsInv, CallInv, TypeOK, GRTTypeOK
    <2> QED
        BY <1>2, <1>3, <2>1, <2>2, StaticAlone DEF Dropped
<1> HIDE DEF m, R
<1> QED
    BY <1>1, <1>2, <1>4, <1>5, RestingSends DEF Resting

\* spider::quit.
LEMMA QuitRound ==
    ASSUME TypeOK, SentInOrder, PhaseInv, JobsInv, Quit
    PROVE  SentInOrder' /\ PhaseInv' /\ JobsInv'
<1> DEFINE m == GRTNote("LRT_STOP")
<1>1. m \in Notification /\ m.type = "LRT_STOP" /\ LRT \in SUBSET Endpoint
    BY GRTNotes, EndpointType DEF ControlType
<1>2. /\ pc[GRTIx] = "App"
      /\ GRTGoes("Join", ToEach(LRT, m))
      /\ done' = done /\ UNCHANGED <<context, round, toLaunch, executing, iter, runs>>
    BY DEF Quit, At, GoTo, GRTGoes, grtVars, ToAll, GRTNote
<1>3. pc'[GRTIx] = "Join"
    BY <1>2, GRTGoesTo
<1>4. Dropped => Dropped'
    BY <1>2, <1>3 DEF Dropped
<1> HIDE DEF m
<1> QED
    BY <1>1, <1>2, <1>4, RestingSends DEF Resting

\* The destructor of the platform stops the threads.
LEMMA JoinRound ==
    ASSUME TypeOK, SentInOrder, PhaseInv, JobsInv, Join
    PROVE  SentInOrder' /\ PhaseInv' /\ JobsInv'
<1> DEFINE m == GRTNote("LRT_STOP")
           Z == {}
<1>1. m \in Notification /\ m.type = "LRT_STOP"
    BY GRTNotes DEF ControlType
<1>2. /\ pc[GRTIx] = "Join"
      /\ GRTGoes("Exited", << >>)
      /\ done' = done /\ UNCHANGED <<context, round, toLaunch, executing, iter, runs>>
    <2>1. /\ pc[GRTIx] = "Join" /\ Ready(GRTIx) /\ pc' = [pc EXCEPT ![GRTIx] = "Exited"]
          /\ UNCHANGED commVars /\ UNCHANGED <<runner, stamps>>
          /\ done' = done /\ UNCHANGED <<context, round, toLaunch, executing, iter, runs>>
        BY DEF Join, At, GoTo, grtVars
    <2> QED
        BY <2>1, GRTStays
<1>3. ToEach(Z, m) = << >> /\ Z \in SUBSET Endpoint /\ Z = {} /\ \A r \in LRT \cap Z : FALSE
    BY ToEachOf
<1>4. pc'[GRTIx] = "Exited"
    BY <1>2, GRTGoesTo
<1>5. Dropped => Dropped'
    BY <1>2, <1>4 DEF Dropped
<1> HIDE DEF m, Z
<1>6. GRTGoes("Exited", ToEach(Z, m))
    BY <1>2, <1>3
<1> QED
    BY <1>1, <1>2, <1>3, <1>5, <1>6, RestingSends DEF Resting

-----------------------------------------------------------------------------
(* The start of a round                                                    *)

JobsAt(r, k) == {t \in TasksOfRound(context, k) : MappedLRT[t] = r}

\* What the GRT finds when it starts round k.
MayStart(k) ==
    /\ pc[GRTIx] \in {"Execute", "Params"} /\ Ready(GRTIx)
    /\ context \in Context /\ k \in 1 .. Rounds[context]
    /\ iter[context] => context \in StaticContext /\ k = 1
    /\ \A r \in LRT :
          /\ k = 1 \/ Coming(r) = {}
          /\ Queued(r) = IF iter[context] THEN JobsAt(r, k) ELSE {}

\* The tasks done when round k starts.
DoneBefore(k, tasks) ==
    /\ tasks \subseteq {t \in TasksOf(context) : RoundOf[t] < k}
    /\ {t \in TasksOf(context) : RoundOf[t] < k} \subseteq tasks
    /\ \A t \in tasks : ExecIx[t] <= stamps[MappedLRT[t]][MappedLRT[t]]

\* A round starts: from here every LRT has to close it.
LEMMA StartRoundRound ==
    ASSUME SupportedUse, TypeOK, SentInOrder, PhaseInv, JobsInv, NEW k, MayStart(k),
           StartRound(context, k), DoneBefore(k, done'), executing' = TRUE,
           UNCHANGED <<queue, runner, stamps>>, UNCHANGED <<context, iter, runs>>
    PROVE  SentInOrder' /\ PhaseInv' /\ JobsInv'
<1> DEFINE n1 == GRTNote("LRT_REPEAT_ITERATION_EN")
           n2 == GRTNote("LRT_START_ITERATION")
           R1 == IF context \in StaticContext /\ ~iter[context] THEN LRT ELSE {}
           s == ToEach(R1, n1) \o ToEach(LRT, n2)
<1>1. /\ n1 \in Notification /\ n1.type = "LRT_REPEAT_ITERATION_EN"
      /\ n2 \in Notification /\ n2.type = "LRT_START_ITERATION"
      /\ R1 \in SUBSET Endpoint /\ LRT \in SUBSET Endpoint
    BY GRTNotes, EndpointType DEF ControlType
<1>2. /\ pc[GRTIx] \in {"Execute", "Params"} /\ Ready(GRTIx)
      /\ context \in Context /\ k \in 1 .. Rounds[context] /\ Rounds[context] \in Nat /\ k \in Nat
      /\ iter[context] => context \in StaticContext /\ k = 1
      /\ \A r \in LRT : /\ k = 1 \/ Coming(r) = {}
                        /\ Queued(r) = IF iter[context] THEN JobsAt(r, k) ELSE {}
    BY ContextAssumption DEF MayStart
<1>3. GRTGoes("Launch", s)
    <2>1. ToEach(R1, n1) = IF context \in StaticContext /\ ~iter[context]
                           THEN ToAll("LRT_REPEAT_ITERATION_EN") ELSE << >>
        BY ToEachOf DEF ToAll, GRTNote
    <2>2. ToEach(LRT, n2) = ToAll("LRT_START_ITERATION")
        BY DEF ToAll, GRTNote
    <2> HIDE DEF R1, n1, n2
    <2> QED
        BY <1>2, <2>1, <2>2 DEF StartRound, GRTGoes, GoTo
<1>4. /\ toLaunch' = IF iter[context] THEN {} ELSE TasksOfRound(context, k)
      /\ round' = k
    BY DEF StartRound, JobsToSend
<1>5. ~InRound /\ GRTInPhase /\ CallInv /\ ~Dropped
    BY <1>2 DEF InRound, Launched, PhaseInv, JobsInv, Dropped
<1>6. \A r \in LRT : \A n \in Coming(r) : n.type \in Resets
    BY <1>2, <1>5, BetweenRounds
<1>7. \A r \in LRT : r \in R1 => context \in StaticContext /\ ~iter[context]
    OBVIOUS
<1>8. context \in StaticContext /\ ~iter[context] => R1 = LRT
    OBVIOUS
<1> HIDE DEF n1, n2, R1
<1>9. MaySend(R1, n1, LRT, n2)
    BY <1>1, <1>6 DEF MaySend, Before, ControlType
<1>10. HasSent(R1, n1, LRT, n2)
    <2>1. s = ToEach(R1, n1) \o ToEach(LRT, n2) /\ "Launch" \notin {"Check", "Kernel"}
        OBVIOUS
    <2> HIDE DEF s
    <2> QED
        BY <1>3, <1>9, <2>1, GRTSends
<1>11. /\ SentInOrder'
       /\ \A r \in LRT : \A n : n \in Coming(r)' <=>
             n \in Coming(r) \/ (n = n1 /\ r \in R1) \/ n = n2
    BY <1>10 DEF HasSent
<1>12. /\ pc'[GRTIx] = "Launch" /\ \A q \in LRT \ {GRTIx} : pc'[q] = pc[q]
       /\ runner' = runner
    BY <1>3, GRTGoesTo DEF GRTGoes
<1>13. InRound' /\ pc'[GRTIx] \notin Launched
    BY <1>12 DEF InRound, Launched
<1>14. ASSUME NEW r \in LRT
       PROVE  /\ Expects(r, "LRT_START_ITERATION")' /\ Active(r)'
              /\ Expects(r, "LRT_REPEAT_ITERATION_EN")' <=> r \in R1
              /\ Expects(r, "LRT_CLEAR_ITERATION")' <=> Expects(r, "LRT_CLEAR_ITERATION")
              /\ Adds(r)' = {}
              /\ ~Expects(r, "LRT_REPEAT_ITERATION_EN")
    <2>1. /\ Expects(r, "LRT_START_ITERATION")'
          /\ Expects(r, "LRT_REPEAT_ITERATION_EN")' <=> r \in R1
          /\ Expects(r, "LRT_CLEAR_ITERATION")' <=> Expects(r, "LRT_CLEAR_ITERATION")
          /\ ~Expects(r, "LRT_REPEAT_ITERATION_EN")
        BY <1>1, <1>6, <1>11 DEF Expects, Resets
    <2>2. Adds(r)' = {}
        BY <1>1, <1>6, <1>11 DEF Adds, Resets
    <2> QED
        BY <2>1, <2>2 DEF Active
<1>15. ASSUME NEW r \in LRT PROVE ComingInPhase(r)'
    <2> SUFFICES ASSUME NEW n \in Coming(r)'
                 PROVE  \/ /\ n.type \in Resets /\ round' = 1
                        \/ n.type = "LRT_REPEAT_ITERATION_EN"
                        \/ n.type = "LRT_START_ITERATION" /\ ~runner'[r].start
        BY <1>12, <1>13, <1>14 DEF ComingInPhase, Resets
    <2>1. ~runner[r].start
        BY <1>5, BetweenRounds
    <2> QED
        BY <1>1, <1>2, <1>4, <1>6, <1>11, <1>12, <2>1
<1>16. ASSUME NEW r \in LRT PROVE RunnerInPhase(r)'
    <2>1. RunnerInPhase(r) /\ ~runner[r].start
        BY <1>5, BetweenRounds DEF PhaseInv
    <2>2. pc'[r] # "Kernel" /\ pc'[r] # "Thrown"
        BY <1>12, <2>1 DEF RunnerInPhase
    <2> QED
        BY <1>12, <1>13, <1>14, <2>1, <2>2 DEF RunnerInPhase
<1>17. GRTInPhase'
    BY <1>12, <1>13 DEF GRTInPhase
<1>18. CallInv'
    <2>1. context # None /\ runs' >= 1
        BY <1>2, <1>5, ContextAssumption DEF CallInv
    <2>2. /\ toLaunch' = TasksOfRound(context, k) \/ toLaunch' = {}
          /\ toLaunch' \subseteq TasksOfRound(context, k)
        BY <1>4
    <2>3. \A t \in TasksOfRound(context, k) \ toLaunch', u \in toLaunch' : t < u
        BY <2>2
    <2>4. \A c \in Context : iter'[c] => c \in StaticContext
        BY <1>5 DEF CallInv
    <2>5. TasksOfRound(context', round') = TasksOfRound(context, k)
        BY <1>4
    <2> QED
        BY <1>2, <1>4, <1>12, <2>1, <2>2, <2>3, <2>4, <2>5 DEF CallInv, TasksOfRound, TasksOf
<1>19. DoneInv'
    <2>1. \A t \in TasksOf(context) : RoundOf[t] \in Nat
        BY TaskAssumption DEF TasksOf
    <2> QED
        BY <1>2, <1>4, <1>12, <2>1 DEF DoneInv, DoneBefore, TasksOf
<1>20. ASSUME NEW r \in LRT PROVE JobsOfRound(r)'
    <2>1. JobsOfRound(r) /\ ~runner[r].start
        BY <1>5, BetweenRounds DEF JobsInv
    <2>2. RoundJobs(r)' = JobsAt(r, k) /\ Queued(r)' = Queued(r)
        BY <1>4, <1>12 DEF RoundJobs, JobsAt, Queued, TasksOfRound, TasksOf
    <2>3. JobsAt(r, k) \cap done' = {}
        <3>1. \A t \in JobsAt(r, k) : RoundOf[t] = k
            BY DEF JobsAt, TasksOfRound
        <3>2. \A t \in done' : RoundOf[t] < k /\ RoundOf[t] \in Nat
            BY TaskAssumption DEF DoneBefore, TasksOf
        <3> QED
            BY <1>2, <3>1, <3>2
    <2>4. Queued(r) = IF iter[context] THEN JobsAt(r, k) ELSE {}
        BY <1>2
    <2>5. {t \in toLaunch' : MappedLRT[t] = r} = IF iter[context] THEN {} ELSE JobsAt(r, k)
        BY <1>4 DEF JobsAt
    <2>6. Queued(r)' \cap toLaunch' = {}
        BY <1>4, <2>2, <2>4
    <2> QED
        BY <1>12, <1>14, <2>1, <2>2, <2>3, <2>4, <2>5, <2>6 DEF JobsOfRound
<1>21. ASSUME NEW r \in LRT PROVE KeptInv(r)'
    <2>1. KeptInv(r)
        BY DEF JobsInv
    <2>2. Expects(r, "LRT_CLEAR_ITERATION") => StaticContext = {}
        BY <1>5, <2>1 DEF KeptInv
    <2>3. runner[r].repeat \/ r \in R1 => StaticContext # {}
        BY <1>7, <2>1 DEF KeptInv
    <2>4. context \in StaticContext => runner[r].repeat \/ r \in R1
        <3>1. CASE iter[context]
            BY <1>14, <2>1, <3>1 DEF KeptInv
        <3>2. CASE ~iter[context]
            BY <1>8, <3>2
        <3> QED
            BY <3>1, <3>2
    <2> QED
        BY <1>12, <1>14, <2>2, <2>3, <2>4 DEF KeptInv
<1> QED
    BY <1>11, <1>15, <1>16, <1>17, <1>18, <1>19, <1>20, <1>21 DEF PhaseInv, JobsInv

\* execute() starts the first round.
LEMMA ExecuteRound ==
    ASSUME SupportedUse, TypeOK, SentInOrder, PhaseInv, JobsInv, Execute
    PROVE  SentInOrder' /\ PhaseInv' /\ JobsInv'
<1>1. /\ pc[GRTIx] = "Execute" /\ Ready(GRTIx) /\ StartRound(context, 1)
      /\ executing' = TRUE /\ done' = {}
      /\ UNCHANGED <<queue, runner, stamps>> /\ UNCHANGED <<context, iter, runs>>
    BY DEF Execute, At
<1>2. CallInv /\ ~InRound /\ ~Dropped /\ ~executing
    BY <1>1 DEF JobsInv, PhaseInv, GRTInPhase, InRound, Launched, Dropped
<1>3. context \in Context
    BY <1>1, <1>2, StaticAlone DEF CallInv, TypeOK, GRTTypeOK
<1>4. 1 \in 1 .. Rounds[context]
    BY <1>3, ContextAssumption
<1>5. iter[context] => context \in StaticContext /\ round = 1
    BY <1>2, <1>3 DEF CallInv
<1>6. ASSUME NEW r \in LRT PROVE Queued(r) = IF iter[context] THEN JobsAt(r, 1) ELSE {}
    <2>1. Queued(r) = Kept(r)
        BY <1>2, BetweenRounds DEF JobsInv, KeptInv
    <2>2. iter[context] => RoundJobs(r) = JobsAt(r, 1)
        BY <1>5 DEF RoundJobs, JobsAt
    <2> QED
        BY <1>2, <1>5, <2>1, <2>2 DEF Kept
<1>7. MayStart(1)
    BY <1>1, <1>3, <1>4, <1>5, <1>6 DEF MayStart
<1>8. DoneBefore(1, done')
    <2>1. \A t \in TasksOf(context) : ~(RoundOf[t] < 1)
        BY TaskAssumption DEF TasksOf
    <2> QED
        BY <1>1, <2>1 DEF DoneBefore
<1> QED
    BY <1>1, <1>7, <1>8, StartRoundRound

\* A context of several rounds is dynamic.
LEMMA NextRoundRound ==
    ASSUME SupportedUse, TypeOK, SentInOrder, PhaseInv, JobsInv, NextRound
    PROVE  SentInOrder' /\ PhaseInv' /\ JobsInv'
<1>1. /\ pc[GRTIx] = "Params" /\ Ready(GRTIx) /\ StartRound(context, round + 1)
      /\ round < Rounds[context] /\ done' = done /\ executing' = executing
      /\ UNCHANGED <<queue, runner, stamps>> /\ UNCHANGED <<context, iter, runs>>
    BY DEF NextRound, At
<1>2. CallInv /\ DoneInv /\ ~InRound /\ ~Dropped /\ executing
    BY <1>1 DEF JobsInv, PhaseInv, GRTInPhase, InRound, Launched, Dropped
<1>3. context \in Context
    BY <1>1, <1>2, StaticAlone DEF CallInv, TypeOK, GRTTypeOK
<1>4. round \in 1 .. Rounds[context] /\ Rounds[context] \in Nat
    BY <1>2, <1>3, ContextAssumption DEF CallInv
<1>5. round + 1 \in 1 .. Rounds[context] /\ round \in Nat
    BY <1>1, <1>4
<1>6. context \notin StaticContext /\ ~iter[context]
    <2>1. context \notin StaticContext
        BY <1>1, <1>4, ContextAssumption
    <2> QED
        BY <1>2, <1>3, <2>1 DEF CallInv
<1>7. ASSUME NEW r \in LRT PROVE Coming(r) = {} /\ Queued(r) = {}
    <2>1. Queued(r) = Kept(r) /\ Coming(r) = {}
        BY <1>1, <1>2, BetweenRounds DEF JobsInv, KeptInv
    <2> QED
        BY <1>6, <2>1 DEF Kept
<1>8. MayStart(round + 1)
    BY <1>1, <1>3, <1>5, <1>6, <1>7 DEF MayStart
<1>9. DoneBefore(round + 1, done')
    <2>1. \A t \in TasksOf(context) : /\ RoundOf[t] \in Nat
                                      /\ RoundOf[t] < round + 1 <=> RoundOf[t] <= round
                                      /\ RoundOf[t] <= round <=> RoundOf[t] < round \/ RoundOf[t] = round
        BY <1>5, TaskAssumption DEF TasksOf
    <2>2. /\ done \subseteq {t \in TasksOf(context) : RoundOf[t] <= round}
          /\ {t \in TasksOf(context) : RoundOf[t] < round} \subseteq done
          /\ TasksOfRound(context, round) \subseteq done
          /\ \A t \in done : ExecIx[t] <= stamps[MappedLRT[t]][MappedLRT[t]]
        BY <1>1, <1>2 DEF DoneInv
    <2> QED
        BY <1>1, <2>1, <2>2 DEF DoneBefore, TasksOfRound
<1>10. executing' = TRUE
    BY <1>1, <1>2 DEF TypeOK, GRTTypeOK
<1> QED
    BY <1>1, <1>8, <1>9, <1>10, StartRoundRound

\* execute() returns.
LEMMA EndExecuteRound ==
    ASSUME SupportedUse, TypeOK, SentInOrder, PhaseInv, JobsInv, EndExecute
    PROVE  SentInOrder' /\ PhaseInv' /\ JobsInv'
<1> DEFINE type == IF IsStatic THEN "LRT_RST_ITERATION" ELSE "LRT_CLEAR_ITERATION"
           m == GRTNote(type)
<1>1. type \in Resets /\ type \in ControlType /\ type # "JOB_ADD"
    BY DEF ControlType, Resets
<1>2. m \in Notification /\ m.type = type /\ LRT \in SUBSET Endpoint
    <2> HIDE DEF type
    <2> QED
        BY <1>1, GRTNotes, EndpointType
<1>3. /\ pc[GRTIx] = "Params" /\ GRTGoes("Execute", ToEach(LRT, m))
      /\ round = Rounds[context] /\ done' = done /\ executing' = FALSE
      /\ iter' = [iter EXCEPT ![context] = IsStatic]
      /\ UNCHANGED <<context, round, toLaunch, runs>>
    BY DEF EndExecute, At, GoTo, GRTGoes, ToAll, GRTNote
<1>4. /\ CallInv /\ DoneInv /\ ~InRound /\ ~Dropped /\ executing
    BY <1>3 DEF JobsInv, PhaseInv, GRTInPhase, InRound, Launched, Dropped
<1>5. context \in Context /\ context # None
    BY <1>3, <1>4, StaticAlone DEF CallInv, TypeOK, GRTTypeOK
<1>6. \A r \in LRT : Coming(r) = {}
    BY <1>3, <1>4, BetweenRounds
<1>7. IsStatic => type = "LRT_RST_ITERATION"
    OBVIOUS
<1>8. ~IsStatic => type = "LRT_CLEAR_ITERATION"
    OBVIOUS
<1> HIDE DEF type, m
<1>9. /\ SentInOrder'
      /\ \A r \in LRT : \A n : n \in Coming(r)' <=>
             n \in Coming(r) \/ (n = m /\ r \in LRT)
    BY <1>1, <1>2, <1>3, <1>6, GRTSendsOne
<1>10. \A r \in LRT : \A n : n \in Coming(r)' <=> n = m
    BY <1>6, <1>9
<1>11. /\ ~InRound' /\ pc'[GRTIx] = "Execute"
       /\ \A r \in LRT : RunnerInPhase(r)' /\ JobsOfRound(r)' /\ Queued(r)' = Queued(r)
    BY <1>3, <1>4, RestingRunner DEF Resting
<1>12. GRTInPhase'
    BY <1>3, <1>11 DEF GRTInPhase
<1>13. ASSUME NEW r \in LRT PROVE ComingInPhase(r)'
    BY <1>1, <1>2, <1>10, <1>11 DEF ComingInPhase, Resets
<1>14. /\ iter'[context] <=> IsStatic
       /\ \A c \in Context : c # context => iter'[c] = iter[c]
    BY <1>3, <1>5 DEF TypeOK, GRTTypeOK
<1>15. IsStatic => round = 1
    BY <1>3, <1>5, ContextAssumption DEF IsStatic
<1>16. CallInv'
    <2>1. \A c \in Context : iter'[c] => c \in StaticContext
        BY <1>4, <1>14 DEF CallInv, IsStatic
    <2>2. toLaunch = {} /\ runs >= 1
        BY <1>3, <1>4, <1>5 DEF CallInv
    <2> QED
        BY <1>3, <1>5, <1>11, <1>15, <2>1, <2>2 DEF CallInv, IsStatic
<1>17. DoneInv'
    BY <1>3, <1>11 DEF DoneInv
<1>18. ASSUME NEW r \in LRT PROVE KeptInv(r)'
    <2>1. KeptInv(r) /\ ~Active(r) /\ runner' = runner
        BY <1>3, <1>4, BetweenRounds DEF JobsInv, GRTGoes
    <2>2. /\ ~Expects(r, "LRT_REPEAT_ITERATION_EN")'
          /\ ~Expects(r, "LRT_REPEAT_ITERATION_EN")
          /\ Expects(r, "LRT_CLEAR_ITERATION")' => ~IsStatic
        BY <1>1, <1>2, <1>6, <1>7, <1>10 DEF Expects, Resets
    <2>3. Queued(r) = Kept(r)
        BY <1>4, <2>1 DEF KeptInv
    <2>4. Kept(r)' = Kept(r)
        BY <1>3, <1>4, <1>14 DEF Kept, IsStatic, RoundJobs, TasksOfRound, TasksOf
    <2>5. ~IsStatic => StaticContext = {}
        BY <1>5, StaticAlone DEF IsStatic
    <2>6. context \in StaticContext => runner[r].repeat
        BY <1>4, <2>1, <2>2 DEF KeptInv
    <2> QED
        BY <1>3, <1>11, <2>1, <2>2, <2>3, <2>4, <2>5, <2>6 DEF KeptInv
<1> QED
    BY <1>9, <1>11, <1>12, <1>13, <1>16, <1>17, <1>18 DEF PhaseInv, JobsInv

\* What is coming while the GRT launches the tasks.
LEMMA WhileLaunching ==
    ASSUME PhaseInv, pc[GRTIx] = "Launch", NEW r \in LRT
    PROVE  /\ \A n \in Coming(r) :
                 n.type \in Resets \cup {"LRT_REPEAT_ITERATION_EN",
                                         "LRT_START_ITERATION", "JOB_ADD"}
           /\ Active(r) /\ ~runner[r].receivedEnd
<1>1. ComingInPhase(r) /\ RunnerInPhase(r)
    BY DEF PhaseInv
<1>2. pc[GRTIx] \notin Launched /\ pc[GRTIx] \notin {"Join", "Exited"}
    BY DEF Launched
<1>3. \A n \in Coming(r) : n.type \in ControlType
    BY DEF Coming
<1> QED
    BY <1>1, <1>2, <1>3 DEF ComingInPhase, RunnerInPhase, ControlType

\* The next task of the round is sent to its LRT, and to no other.
LEMMA LaunchTaskRound ==
    ASSUME TypeOK, SentInOrder, PhaseInv, JobsInv, NEW t \in Task, LaunchTask(t)
    PROVE  SentInOrder' /\ PhaseInv' /\ JobsInv'
<1> DEFINE m == Notify("JOB_ADD", GRTIx, t)
           l == MappedLRT[t]
<1>1. /\ l \in LRT /\ {l} \in SUBSET Endpoint /\ m \in Notification
      /\ m.type = "JOB_ADD" /\ m.notificationIx = t /\ "JOB_ADD" \in ControlType
    <2>1. l \in LRT /\ t \in Int /\ GRTIx \in LRT
        BY MappingAssumption, TaskType, EndpointType
    <2>2. m \in Notification
        BY <2>1, NotifyType DEF NotificationType
    <2> QED
        BY <2>1, <2>2, EndpointType DEF Notify, ControlType
<1>2. /\ pc[GRTIx] = "Launch" /\ t \in toLaunch /\ toLaunch' = toLaunch \ {t}
      /\ \A u \in toLaunch : t <= u
      /\ UNCHANGED <<runner, stamps, done, pc>>
      /\ UNCHANGED <<context, executing, iter, round, runs>>
      /\ GRTGoes("Launch", ToEach({l}, m))
    <2>1. pc' = [pc EXCEPT ![GRTIx] = "Launch"]
        BY DEF LaunchTask, At, runnerVars, TypeOK, RunnerTypeOK
    <2> QED
        BY <2>1 DEF LaunchTask, At, runnerVars, GRTGoes
<1>3. CallInv /\ InRound /\ GRTInPhase
    BY <1>2 DEF JobsInv, InRound, PhaseInv
<1> HIDE DEF m, l
<1>4. l = MappedLRT[t]
    BY DEF l
<1>5. ASSUME NEW n \in Coming(l) PROVE Before(n, m)
    <2>1. n.type \in Resets \cup {"LRT_REPEAT_ITERATION_EN", "LRT_START_ITERATION", "JOB_ADD"}
        BY <1>1, <1>2, WhileLaunching
    <2>2. ASSUME n.type = "JOB_ADD" PROVE n.notificationIx < t
        <3>1. n.notificationIx \in Adds(l)
            BY <2>2 DEF Adds
        <3>2. /\ Queued(l) \cup Adds(l) \cup {u \in toLaunch : MappedLRT[u] = l} = RoundJobs(l)
              /\ (Queued(l) \cup Adds(l)) \cap toLaunch = {}
            BY <1>1, <1>2, <1>3, WhileLaunching DEF JobsInv, JobsOfRound
        <3>3. n.notificationIx \in TasksOfRound(context, round) \ toLaunch
            BY <3>1, <3>2 DEF RoundJobs
        <3> QED
            BY <1>2, <1>3, <3>3 DEF CallInv
    <2> QED
        BY <1>1, <2>1, <2>2 DEF Before
<1>6. /\ SentInOrder'
      /\ \A r \in LRT : \A n : n \in Coming(r)' <=> n \in Coming(r) \/ (n = m /\ r \in {l})
    <2>1. \A r \in LRT : \A n \in Coming(r) : r \in {l} => Before(n, m)
        BY <1>5
    <2> QED
        BY <1>1, <1>2, <2>1, GRTSendsOne
<1>7. InRound' /\ pc'[GRTIx] = "Launch"
    BY <1>2, <1>3 DEF InRound
<1>8. ASSUME NEW r \in LRT
      PROVE  /\ \A type : type # "JOB_ADD" => (Expects(r, type)' <=> Expects(r, type))
             /\ Active(r)' <=> Active(r)
             /\ Adds(r)' = Adds(r) \cup (IF r = l THEN {t} ELSE {})
    <2>1. \A type : type # "JOB_ADD" => (Expects(r, type)' <=> Expects(r, type))
        BY <1>1, <1>6 DEF Expects
    <2>2. Active(r)' <=> Active(r)
        BY <1>2, <2>1 DEF Active
    <2>3. \A x : x \in Adds(r)' <=> x \in Adds(r) \/ (r = l /\ x = t)
        BY <1>1, <1>6 DEF Adds
    <2> QED
        BY <2>1, <2>2, <2>3
<1>9. ASSUME NEW r \in LRT PROVE ComingInPhase(r)' /\ RunnerInPhase(r)'
    <2>1. ComingInPhase(r) /\ RunnerInPhase(r) /\ ~runner[r].receivedEnd
        BY <1>2, WhileLaunching DEF PhaseInv
    <2>2. ComingInPhase(r)'
        BY <1>1, <1>2, <1>3, <1>6, <1>7, <1>8, <2>1 DEF ComingInPhase, Resets
    <2>3. RunnerInPhase(r)'
        BY <1>2, <1>3, <1>7, <1>8, <2>1 DEF RunnerInPhase, Launched
    <2> QED
        BY <2>2, <2>3
<1>10. GRTInPhase'
    BY <1>2, <1>3, <1>7 DEF GRTInPhase
<1>11. ASSUME NEW r \in LRT PROVE JobsOfRound(r)' /\ KeptInv(r)'
    <2>1. JobsOfRound(r) /\ KeptInv(r) /\ Active(r)
        BY <1>2, WhileLaunching DEF JobsInv
    <2>2. RoundJobs(r)' = RoundJobs(r) /\ Queued(r)' = Queued(r) /\ Ran(r)' = Ran(r)
        BY <1>2 DEF RoundJobs, Queued, Ran, TasksOfRound, TasksOf
    <2>3. /\ Queued(r) \cup Adds(r) \cup {u \in toLaunch : MappedLRT[u] = r} = RoundJobs(r)
          /\ (Queued(r) \cup Adds(r)) \cap toLaunch = {}
          /\ \A s \in Queued(r), u \in Adds(r) : s < u
        BY <1>3, <2>1 DEF JobsOfRound
    <2>4. Queued(r) \cup Adds(r)' \cup {u \in toLaunch' : MappedLRT[u] = r} = RoundJobs(r)
        BY <1>2, <1>4, <1>8, <2>3
    <2>5. (Queued(r) \cup Adds(r)') \cap toLaunch' = {}
        BY <1>2, <1>8, <2>3
    <2>6. \A s \in Queued(r), u \in Adds(r)' : s < u
        <3>1. \A s \in Queued(r) : s \in TasksOfRound(context, round) \ toLaunch
            BY <2>3 DEF RoundJobs
        <3>2. \A s \in Queued(r) : s < t
            BY <1>2, <1>3, <3>1 DEF CallInv
        <3> QED
            BY <1>8, <2>3, <3>2
    <2>7. JobsOfRound(r)'
        BY <1>2, <1>3, <1>7, <1>8, <2>1, <2>2, <2>4, <2>5, <2>6 DEF JobsOfRound
    <2>8. KeptInv(r)'
        BY <1>2, <1>8, <2>1 DEF KeptInv, Dropped
    <2> QED
        BY <2>7, <2>8
<1>12. CallInv'
    <2>1. \A u \in toLaunch' : t < u
        <3>1. t \in Nat /\ \A u \in toLaunch : u \in Nat
            BY TaskAssumption DEF TypeOK, GRTTypeOK
        <3> QED
            BY <1>2, <3>1
    <2>2. \A s \in TasksOfRound(context, round) \ toLaunch', u \in toLaunch' : s < u
        BY <1>2, <1>3, <2>1 DEF CallInv
    <2>3. toLaunch' \subseteq TasksOfRound(context, round)
        BY <1>2, <1>3 DEF CallInv
    <2> QED
        BY <1>2, <1>3, <1>7, <2>2, <2>3 DEF CallInv, TasksOfRound, TasksOf
<1>13. DoneInv'
    BY <1>2 DEF DoneInv, JobsInv, TasksOfRound, TasksOf
<1> QED
    BY <1>6, <1>9, <1>10, <1>11, <1>12, <1>13 DEF PhaseInv, JobsInv

\* The end of the round is sent to every LRT.
LEMMA EndLaunchRound ==
    ASSUME TypeOK, SentInOrder, PhaseInv, JobsInv, EndLaunch
    PROVE  /\ SentInOrder' /\ PhaseInv' /\ JobsInv'
           /\ \A r \in LRT : Active(r)'
<1> DEFINE n1 == GRTNote("JOB_DELAY_BROADCAST_JOBSTAMP")
           n2 == GRTNote("LRT_END_ITERATION")
           R1 == IF IsStatic THEN {} ELSE LRT
           s == ToEach(R1, n1) \o ToEach(LRT, n2)
<1>1. /\ n1 \in Notification /\ n1.type = "JOB_DELAY_BROADCAST_JOBSTAMP"
      /\ n2 \in Notification /\ n2.type = "LRT_END_ITERATION"
      /\ R1 \in SUBSET Endpoint /\ LRT \in SUBSET Endpoint
    BY GRTNotes, EndpointType DEF ControlType
<1>2. /\ pc[GRTIx] = "Launch" /\ toLaunch = {} /\ UNCHANGED <<runner, stamps, done>>
      /\ UNCHANGED <<context, executing, iter, round, runs, toLaunch>>
      /\ GRTGoes("Read", s)
    <2>1. ToEach(R1, n1) = IF IsStatic THEN << >> ELSE ToAll("JOB_DELAY_BROADCAST_JOBSTAMP")
        BY ToEachOf DEF ToAll, GRTNote
    <2>2. ToEach(LRT, n2) = ToAll("LRT_END_ITERATION")
        BY DEF ToAll, GRTNote
    <2> HIDE DEF R1, n1, n2
    <2> QED
        BY <2>1, <2>2 DEF EndLaunch, At, GoTo, GRTGoes, grtVars
<1>3. CallInv /\ InRound /\ GRTInPhase
    BY <1>2 DEF JobsInv, InRound, PhaseInv
<1>4. \A r \in LRT : \A n \in Coming(r) :
          n.type \in Resets \cup {"LRT_REPEAT_ITERATION_EN", "LRT_START_ITERATION", "JOB_ADD"}
    BY <1>2, WhileLaunching
<1> HIDE DEF n1, n2, R1
<1>5. MaySend(R1, n1, LRT, n2)
    BY <1>1, <1>4 DEF MaySend, Before, ControlType
<1>6. HasSent(R1, n1, LRT, n2)
    <2>1. s = ToEach(R1, n1) \o ToEach(LRT, n2) /\ "Read" \notin {"Check", "Kernel"}
        OBVIOUS
    <2> HIDE DEF s
    <2> QED
        BY <1>2, <1>5, <2>1, GRTSends
<1>7. /\ SentInOrder'
      /\ \A r \in LRT : \A n : n \in Coming(r)' <=>
            n \in Coming(r) \/ (n = n1 /\ r \in R1) \/ n = n2
    BY <1>6 DEF HasSent
<1>8. pc'[GRTIx] = "Read" /\ \A q \in LRT \ {GRTIx} : pc'[q] = pc[q]
    BY <1>2, GRTGoesTo
<1>9. InRound' /\ pc'[GRTIx] \in Launched
    BY <1>8 DEF InRound, Launched
<1>10. ASSUME NEW r \in LRT
       PROVE  /\ \A type : type \notin {"JOB_DELAY_BROADCAST_JOBSTAMP", "LRT_END_ITERATION"}
                               => (Expects(r, type)' <=> Expects(r, type))
              /\ Active(r)' <=> Active(r)
              /\ Adds(r)' = Adds(r)
              /\ Expects(r, "LRT_END_ITERATION")'
    <2>1. /\ \A type : type \notin {"JOB_DELAY_BROADCAST_JOBSTAMP", "LRT_END_ITERATION"}
                           => (Expects(r, type)' <=> Expects(r, type))
          /\ Expects(r, "LRT_END_ITERATION")'
        BY <1>1, <1>7 DEF Expects
    <2>2. Active(r)' <=> Active(r)
        BY <1>2, <2>1 DEF Active
    <2>3. \A x : x \in Adds(r)' <=> x \in Adds(r)
        BY <1>1, <1>7 DEF Adds
    <2> QED
        BY <2>1, <2>2, <2>3
<1>11. ASSUME NEW r \in LRT PROVE ComingInPhase(r)' /\ RunnerInPhase(r)'
    <2>1. /\ ComingInPhase(r) /\ RunnerInPhase(r) /\ ~runner[r].receivedEnd /\ Active(r)
        BY <1>2, WhileLaunching DEF PhaseInv
    <2>2. ComingInPhase(r)'
        BY <1>1, <1>2, <1>3, <1>7, <1>8, <1>9, <1>10, <2>1 DEF ComingInPhase, Resets
    <2>3. pc'[r] # "Thrown" /\ (pc'[r] = "Kernel" => pc[r] = "Kernel")
        BY <1>8, <2>1 DEF RunnerInPhase
    <2>4. RunnerInPhase(r)'
        BY <1>2, <1>8, <1>9, <1>10, <2>1, <2>3 DEF RunnerInPhase
    <2> QED
        BY <2>2, <2>4
<1>12. GRTInPhase'
    BY <1>2, <1>3, <1>8, <1>9, <1>10, WhileLaunching, EndpointType DEF GRTInPhase
<1>13. ASSUME NEW r \in LRT PROVE JobsOfRound(r)' /\ KeptInv(r)'
    <2>1. JobsOfRound(r) /\ KeptInv(r) /\ Active(r)
        BY <1>2, WhileLaunching DEF JobsInv
    <2>2. RoundJobs(r)' = RoundJobs(r) /\ Queued(r)' = Queued(r) /\ Ran(r)' = Ran(r)
        BY <1>2 DEF RoundJobs, Queued, Ran, TasksOfRound, TasksOf
    <2>3. JobsOfRound(r)'
        BY <1>2, <1>3, <1>9, <1>10, <2>1, <2>2 DEF JobsOfRound
    <2>4. KeptInv(r)'
        BY <1>2, <1>10, <2>1 DEF KeptInv, Dropped
    <2> QED
        BY <2>3, <2>4
<1>14. CallInv'
    BY <1>2, <1>3, <1>8 DEF CallInv, TasksOfRound, TasksOf
<1>15. DoneInv'
    BY <1>2, <1>8 DEF DoneInv, JobsInv, TasksOfRound, TasksOf
<1>16. \A r \in LRT : Active(r)'
    BY <1>2, <1>10, WhileLaunching
<1> QED
    BY <1>7, <1>11, <1>12, <1>13, <1>14, <1>15, <1>16 DEF PhaseInv, JobsInv

\* When every flag is set, every runner has closed the round.
LEMMA AllClosed ==
    ASSUME TypeOK, PhaseInv, BarrierInv, pc[GRTIx] = "Wait", AllFinished
    PROVE  /\ Pending = {}
           /\ \A r \in LRT : Coming(r) = {} /\ ~runner[r].start /\ ~Active(r)
<1>1. Pending = {}
    <2>1. {r \in LRT : ~finishedRunner[r]} = {}
        BY DEF AllFinished
    <2>2. Cardinality(Pending) = 0
        BY <2>1, FS_EmptySet DEF BarrierInv
    <2>3. IsFiniteSet(LRT)
        BY TaskAssumption, FS_Interval DEF LRT
    <2>4. IsFiniteSet(Pending)
        BY <2>3, FS_Subset DEF Pending
    <2> QED
        BY <2>2, <2>4, FS_EmptySet
<1>2. ASSUME NEW r \in LRT PROVE Coming(r) = {} /\ ~runner[r].start /\ ~Active(r)
    <2>1. RunnerInPhase(r) /\ GRTInPhase
        BY DEF PhaseInv
    <2>2. CASE r = GRTIx
        BY <2>1, <2>2 DEF GRTInPhase, Active, Expects
    <2>3. CASE r # GRTIx
        <3>1. ~Active(r)
            BY <1>1, <2>3 DEF Pending
        <3> QED
            BY <2>1, <3>1 DEF RunnerInPhase, Launched, Active
    <2> QED
        BY <2>2, <2>3
<1> QED
    BY <1>1, <1>2

\* The GRT passes the barrier when every LRT has closed the round.
LEMMA EndWaitRound ==
    ASSUME TypeOK, SentInOrder, PhaseInv, JobsInv, BarrierInv, EndWait
    PROVE  SentInOrder' /\ PhaseInv' /\ JobsInv'
<1> DEFINE s == [i \in 1 .. Len(notifVector) |-> [note |-> notifVector[i], to |-> {GRTIx}]]
<1>1. /\ pc[GRTIx] = "Wait" /\ Ready(GRTIx) /\ AllFinished
      /\ GRTGoes("Params", s) /\ done' = done
      /\ UNCHANGED <<context, executing, iter, round, runs, toLaunch>>
    BY DEF EndWait, At, GoTo, GRTGoes
<1>2. \A r \in LRT : Coming(r) = {} /\ ~runner[r].start /\ ~Active(r)
    BY <1>1, AllClosed
<1>3. /\ s \in Seq(Batch)
      /\ \A b \in DOMAIN s : s[b].to # {} /\ s[b].note.type \notin ControlType
    <2>1. notifVector \in Seq(Notification) /\ Len(notifVector) \in Nat
          /\ DOMAIN notifVector = 1 .. Len(notifVector)
        BY LenProperties DEF TypeOK, GRTTypeOK
    <2>2. \A i \in 1 .. Len(notifVector) : notifVector[i] \in Notification
        BY <2>1, ElementOfSeq
    <2>3. \A i \in 1 .. Len(notifVector) : notifVector[i].type \notin ControlType
        BY <2>1 DEF BarrierInv
    <2>4. {GRTIx} \subseteq Endpoint
        BY EndpointType
    <2>5. \A i \in 1 .. Len(notifVector) : s[i] \in Batch
        BY <2>2, <2>4 DEF Batch
    <2>6. s \in Seq(Batch)
        BY <2>1, <2>5, SeqDef
    <2> QED
        BY <2>3, <2>6
<1>4. /\ ReadyKept /\ pc'[GRTIx] = "Params" /\ GRTIx \in LRT
      /\ \A q \in LRT \ {GRTIx} : pc'[q] = pc[q]
    <2> HIDE DEF s
    <2> QED
        BY <1>1, GRTGoesTo
<1>5. SentInOrder' /\ \A r \in LRT : Coming(r)' = Coming(r)
    <2> HIDE DEF s
    <2> QED
        BY <1>1, <1>3, <1>4, OthersSent DEF GRTGoes
<1>6. runner' = runner /\ stamps' = stamps
    BY <1>1 DEF GRTGoes
<1>7. InRound /\ ~InRound' /\ pc'[GRTIx] \notin Launched
    BY <1>1, <1>4 DEF InRound, Launched
<1>8. ASSUME NEW r \in LRT
      PROVE  ComingInPhase(r)' /\ RunnerInPhase(r)' /\ JobsOfRound(r)' /\ KeptInv(r)'
    <2>1. RunnerInPhase(r) /\ JobsOfRound(r) /\ KeptInv(r) /\ Coming(r)' = {}
        BY <1>2, <1>5 DEF PhaseInv, JobsInv
    <2>2. ComingInPhase(r)'
        BY <2>1 DEF ComingInPhase
    <2>3. pc'[r] # "Thrown" /\ pc'[r] # "Kernel"
        BY <1>2, <1>4, <2>1 DEF RunnerInPhase
    <2>4. RunnerInPhase(r)'
        BY <1>2, <1>4, <1>6, <1>7, <2>1, <2>3 DEF RunnerInPhase
    <2>5. JobsOfRound(r)'
        BY <1>6, <1>7, <2>1 DEF JobsOfRound
    <2>6. Queued(r)' = Queued(r) /\ Kept(r)' = Kept(r)
        BY <1>1, <1>6 DEF Queued, Kept, RoundJobs, TasksOfRound, TasksOf
    <2>7. Queued(r) = Kept(r)
        BY <1>1, <1>2, <2>1 DEF KeptInv, Dropped
    <2>8. \A type : ~Expects(r, type) /\ ~Expects(r, type)'
        BY <1>2, <2>1 DEF Expects
    <2>9. KeptInv(r)'
        BY <1>1, <1>6, <2>1, <2>6, <2>7, <2>8 DEF KeptInv
    <2> QED
        BY <2>2, <2>4, <2>5, <2>9
<1>9. GRTInPhase'
    BY <1>1, <1>4, <1>7 DEF GRTInPhase, PhaseInv
<1>10. CallInv'
    BY <1>1, <1>4 DEF CallInv, JobsInv, TasksOfRound, TasksOf
<1>11. DoneInv'
    <2>1. TasksOfRound(context, round) \subseteq done
        <3> SUFFICES ASSUME NEW t \in TasksOfRound(context, round) PROVE t \in done
            OBVIOUS
        <3>1. MappedLRT[t] \in LRT
            BY MappingAssumption DEF TasksOfRound, TasksOf
        <3>2. RoundJobs(MappedLRT[t]) \subseteq done
            BY <1>2, <1>7, <3>1 DEF JobsInv, JobsOfRound
        <3> QED
            BY <3>2 DEF RoundJobs
    <2> QED
        BY <1>1, <1>6, <2>1 DEF DoneInv, JobsInv, TasksOfRound, TasksOf
<1> QED
    BY <1>5, <1>8, <1>9, <1>10, <1>11 DEF PhaseInv, JobsInv

-----------------------------------------------------------------------------
(* The barrier                                                             *)

\* A step that leaves who is active and who has reported leaves the barrier.
LEMMA BarrierSame ==
    ASSUME BarrierInv, PhaseStays, pc'[GRTIx] = "Wait" <=> pc[GRTIx] = "Wait",
           UNCHANGED <<finishedRunner, notifVector>>, OnlyToGRT',
           \A r \in LRT : /\ Active(r)' <=> Active(r)
                          /\ Token(r)' <=> Token(r)
                          /\ TokenOnce(r)'
                          /\ r # GRTIx /\ outbox'[r] # << >> =>
                                runner'[r].start \/ TokenInOutbox(r)'
    PROVE  BarrierInv'
<1>1. pc'[GRTIx] \in Launched <=> pc[GRTIx] \in Launched
    BY PhaseIs
<1>2. \A r \in LRT : TokenAfter(r)'
    BY <1>1 DEF BarrierInv, TokenAfter
<1>3. Pending' = Pending
    BY DEF Pending
<1> QED
    BY <1>1, <1>2, <1>3 DEF BarrierInv

\* The same queue for the GRT and the same batches: the same tokens.
LEMMA SameTokens ==
    ASSUME queue' = queue, NEW r, outbox'[r] = outbox[r]
    PROVE  /\ TokenInQueue(r)' <=> TokenInQueue(r)
           /\ TokenInOutbox(r)' <=> TokenInOutbox(r)
           /\ Token(r)' <=> Token(r)
           /\ TokenOnce(r) => TokenOnce(r)'
BY DEF TokenInQueue, TokenInOutbox, Token, TokenOnce

\* A queue loses its first notification.
LEMMA PopTokens ==
    ASSUME TypeOK, BarrierInv, NEW e \in Endpoint, queue[e] # << >>,
           queue' = [queue EXCEPT ![e] = Tail(@)], outbox' = outbox
    PROVE  /\ OnlyToGRT'
           /\ \A r \in LRT : TokenOnce(r)'
           /\ \A r \in LRT : TokenInOutbox(r)' <=> TokenInOutbox(r)
           /\ \A r \in LRT : TokenInQueue(r)' <=>
                 /\ TokenInQueue(r)
                 /\ ~(e = GRTIx /\ Finished(Head(queue[e])) /\ Head(queue[e]).senderIx = r)
<1> DEFINE h == Head(queue[e])
<1>1. /\ DOMAIN queue[e] = 1 .. Len(queue[e]) /\ Len(queue[e]) \in Nat \ {0}
      /\ DOMAIN queue'[e] = 1 .. Len(queue[e]) - 1
      /\ \A i \in 1 .. Len(queue[e]) - 1 : queue'[e][i] = queue[e][i + 1]
      /\ h = queue[e][1] /\ h \in Notification
      /\ \A f \in Endpoint \ {e} : queue'[f] = queue[f]
    BY QueuePopped
<1>2. LRT \subseteq Endpoint /\ GRTIx \in LRT
    BY EndpointType
<1> HIDE DEF h
<1>3. /\ \A i \in DOMAIN queue'[e] : i + 1 \in DOMAIN queue[e]
      /\ \A i \in DOMAIN queue[e] : i # 1 => i - 1 \in DOMAIN queue'[e] /\ i - 1 + 1 = i
      /\ 1 \in DOMAIN queue[e] /\ \A i \in DOMAIN queue'[e] : i + 1 # 1
      /\ \A i \in DOMAIN queue'[e], j \in DOMAIN queue'[e] : i + 1 = j + 1 => i = j
    BY <1>1
<1>4. OnlyToGRT'
    <2> SUFFICES ASSUME NEW f \in LRT \ {GRTIx}, NEW i \in DOMAIN queue'[f]
                 PROVE  ~Finished(queue'[f][i])
        BY DEF OnlyToGRT, Finished
    <2>1. CASE f = e
        BY <1>1, <1>3, <2>1 DEF BarrierInv, OnlyToGRT, Finished
    <2>2. CASE f # e
        <3>1. queue'[f] = queue[f]
            BY <1>1, <1>2, <2>2
        <3> QED
            BY <3>1 DEF BarrierInv, OnlyToGRT, Finished
    <2> QED
        BY <2>1, <2>2
<1>5. \A r \in LRT : TokenInOutbox(r)' <=> TokenInOutbox(r)
    BY DEF TokenInOutbox, Finished
<1>6. CASE e # GRTIx
    <2>1. queue'[GRTIx] = queue[GRTIx]
        BY <1>1, <1>2, <1>6
    <2>2. \A r \in LRT : TokenInQueue(r)' <=> TokenInQueue(r)
        BY <2>1 DEF TokenInQueue, Finished
    <2>3. ASSUME NEW r \in LRT PROVE TokenOnce(r)'
        <3>1. TokenOnce(r)
            BY DEF BarrierInv
        <3> QED
            BY <1>5, <2>1, <2>2, <3>1 DEF TokenOnce, Finished
    <2> QED
        BY <1>4, <1>5, <1>6, <2>2, <2>3
<1>7. CASE e = GRTIx
    <2>1. ASSUME NEW r \in LRT, TokenInQueue(r)'
          PROVE  TokenInQueue(r) /\ ~(Finished(h) /\ h.senderIx = r)
        <3>1. PICK i \in DOMAIN queue'[e] : Finished(queue'[e][i]) /\ queue'[e][i].senderIx = r
            BY <1>7, <2>1 DEF TokenInQueue, Finished
        <3>2. /\ i + 1 \in DOMAIN queue[e] /\ i + 1 # 1
              /\ Finished(queue[e][i + 1]) /\ queue[e][i + 1].senderIx = r
            BY <1>1, <1>3, <3>1
        <3>3. ~(Finished(queue[e][1]) /\ queue[e][1].senderIx = r)
            BY <1>3, <1>7, <3>2 DEF BarrierInv, TokenOnce
        <3> QED
            BY <1>1, <1>7, <3>2, <3>3 DEF TokenInQueue
    <2>2. ASSUME NEW r \in LRT, TokenInQueue(r), ~(Finished(h) /\ h.senderIx = r)
          PROVE  TokenInQueue(r)'
        <3>1. PICK i \in DOMAIN queue[e] : Finished(queue[e][i]) /\ queue[e][i].senderIx = r
            BY <1>7, <2>2 DEF TokenInQueue
        <3>2. i # 1
            BY <1>1, <2>2, <3>1
        <3>3. i - 1 \in DOMAIN queue'[e] /\ queue'[e][i - 1] = queue[e][i]
            BY <1>1, <1>3, <3>1, <3>2
        <3> QED
            BY <1>7, <3>1, <3>3 DEF TokenInQueue, Finished
    <2>3. ASSUME NEW r \in LRT PROVE TokenOnce(r)'
        <3>1. TokenOnce(r)
            BY DEF BarrierInv
        <3>2. ASSUME NEW i \in DOMAIN queue'[e], NEW j \in DOMAIN queue'[e],
                     Finished(queue'[e][i]), queue'[e][i].senderIx = r,
                     Finished(queue'[e][j]), queue'[e][j].senderIx = r
              PROVE  i = j
            <4>1. /\ i + 1 \in DOMAIN queue[e] /\ j + 1 \in DOMAIN queue[e]
                  /\ queue'[e][i] = queue[e][i + 1] /\ queue'[e][j] = queue[e][j + 1]
                BY <1>1, <1>3, <3>2
            <4> DEFINE a == i + 1
                       b == j + 1
            <4>2. /\ Finished(queue[e][a]) /\ queue[e][a].senderIx = r
                  /\ Finished(queue[e][b]) /\ queue[e][b].senderIx = r
                BY <3>2, <4>1 DEF Finished
            <4> HIDE DEF a, b
            <4>3. a = b
                BY <1>7, <3>1, <4>1, <4>2 DEF TokenOnce, a, b
            <4> QED
                BY <1>3, <3>2, <4>3 DEF a, b
        <3>3. ~(TokenInQueue(r)' /\ TokenInOutbox(r)')
            BY <1>5, <2>1, <3>1 DEF TokenOnce
        <3>4. \A b \in DOMAIN outbox'[r] : Finished(outbox'[r][b].note) =>
                 /\ b = Len(outbox'[r])
                 /\ outbox'[r][b].note.senderIx = r
                 /\ outbox'[r][b].to = {GRTIx}
            BY <3>1 DEF TokenOnce
        <3> QED
            BY <1>7, <3>2, <3>3, <3>4 DEF TokenOnce, Finished
    <2> QED
        BY <1>4, <1>5, <1>7, <2>1, <2>2, <2>3 DEF h
<1> QED
    BY <1>6, <1>7

\* A runner that steps leaves the GRT where it waits, or does not.
LEMMA RunnerLabel ==
    ASSUME TypeOK, PhaseInv, PhaseInv', NEW r \in LRT, NEW label \in RunnerPC,
           pc[r] \in RunnerPC, pc' = [pc EXCEPT ![r] = label]
    PROVE  PhaseStays /\ (pc'[GRTIx] = "Wait" <=> pc[GRTIx] = "Wait")
<1>1. pc'[r] = label /\ (r # GRTIx => pc'[GRTIx] = pc[GRTIx])
    BY GRTAssumption DEF TypeOK, RunnerTypeOK
<1>2. /\ pc'[GRTIx] # "Stopped" /\ pc'[GRTIx] # "Thrown"
      /\ pc[GRTIx] # "Stopped" /\ pc[GRTIx] # "Thrown"
    BY GRTAssumption DEF PhaseInv, GRTInPhase, RunnerInPhase
<1>3. CASE r # GRTIx
    BY <1>1, <1>3 DEF PhaseStays
<1>4. CASE r = GRTIx
    <2>1. pc[GRTIx] \in {"Read", "Check", "Kernel", "Finish"}
        BY <1>2, <1>4 DEF RunnerPC
    <2>2. pc'[GRTIx] \in {"Read", "Check", "Kernel", "Finish"}
        BY <1>1, <1>2, <1>4 DEF RunnerPC
    <2> QED
        BY <2>1, <2>2 DEF PhaseStays, Launched
<1> QED
    BY <1>3, <1>4

\* What a runner does when it reads: only the start of an iteration makes it
\* iterate, and nothing it reads meets it in the wrong state.
Reads(r, type) ==
    /\ Received(r, type)
    /\ pc' = pc \/ pc' = [pc EXCEPT ![r] = "Stopped"]
    /\ \A q \in LRT \ {r} : runner'[q] = runner[q]
    /\ type = "LRT_START_ITERATION" => runner'[r].start
    /\ type # "LRT_START_ITERATION" => (runner'[r].start <=> runner[r].start)

\* A runner reads a reset when it is not iterating.
LEMMA NotInRound ==
    ASSUME TypeOK, SentInOrder, PhaseInv, NEW r \in LRT, queue[r] # << >>,
           Head(queue[r]).type \in Resets
    PROVE  ~runner[r].start
<1>1. Head(queue[r]) \in Coming(r)
    BY HeadFirst DEF ControlType
<1>2. ComingInPhase(r) /\ RunnerInPhase(r)
    BY DEF PhaseInv
<1>3. CASE InRound
    <2>1. Expects(r, "LRT_START_ITERATION")
        BY <1>1, <1>2, <1>3 DEF ComingInPhase
    <2> QED
        BY <1>2, <2>1 DEF ComingInPhase, Expects
<1>4. CASE ~InRound
    BY <1>2, <1>4 DEF RunnerInPhase
<1> QED
    BY <1>3, <1>4

\* What a runner may read at all.
LEMMA ReadsWhat ==
    ASSUME TypeOK, SentInOrder, PhaseInv, NEW r \in LRT, ReadNotification(r)
    PROVE  \E type \in ControlType \cup {"JOB_UPDATE_JOBSTAMP"} : Reads(r, type)
<1>1. /\ runner[r] \in RunnerState /\ DOMAIN runner = LRT
      /\ \A m : /\ [runner EXCEPT ![r] = m][r] = m
                /\ \A q \in LRT \ {r} : [runner EXCEPT ![r] = m][q] = runner[q]
    BY RunnerFields DEF TypeOK, RunnerTypeOK
<1>2. ASSUME ReadStart(r) PROVE Reads(r, "LRT_START_ITERATION")
    <2>1. queue[r] # << >> /\ Head(queue[r]).type = "LRT_START_ITERATION"
        BY <1>2 DEF ReadStart, Received, Pop
    <2>2. Head(queue[r]) \in Coming(r)
        BY <2>1, HeadFirst DEF ControlType
    <2>3. runner[r].finished
        BY <2>1, <2>2 DEF PhaseInv, ComingInPhase, RunnerInPhase
    <2> DEFINE m == [runner[r] EXCEPT !.start = TRUE, !.finished = FALSE,
                                      !.jobCount = 0, !.jobQueueCurrentPos = 0]
    <2>4. /\ Received(r, "LRT_START_ITERATION") /\ runner' = [runner EXCEPT ![r] = m]
          /\ pc' = pc
        BY <1>2, <2>3 DEF ReadStart
    <2>5. m.start
        BY <1>1 DEF RunnerState
    <2> HIDE DEF m
    <2> QED
        BY <1>1, <2>4, <2>5 DEF Reads
<1>3. ASSUME ReadEnd(r) PROVE Reads(r, "LRT_END_ITERATION")
    <2>1. queue[r] # << >> /\ Head(queue[r]).type = "LRT_END_ITERATION"
        BY <1>3 DEF ReadEnd, Received, Pop
    <2>2. runner[r].start
        BY <2>1, StartedForJobs
    <2> DEFINE m == [runner[r] EXCEPT !.receivedEnd = TRUE,
                                      !.jobCount = Len(runner[r].jobQueue)]
    <2>3. /\ Received(r, "LRT_END_ITERATION") /\ runner' = [runner EXCEPT ![r] = m]
          /\ pc' = pc
        BY <1>3, <2>2 DEF ReadEnd
    <2>4. m.start = runner[r].start
        BY <1>1 DEF RunnerState
    <2> HIDE DEF m
    <2> QED
        BY <1>1, <2>3, <2>4 DEF Reads
<1>4. ASSUME ReadClear(r) PROVE Reads(r, "LRT_CLEAR_ITERATION")
    <2>1. ~runner[r].start
        BY <1>4, NotInRound DEF ReadClear, Received, Pop, Resets
    <2> DEFINE k == Cleared(runner[r])
               m == [k EXCEPT !.jobQueue = << >>]
    <2>2. /\ Received(r, "LRT_CLEAR_ITERATION") /\ runner' = [runner EXCEPT ![r] = m]
          /\ pc' = pc
        BY <1>4 DEF ReadClear
    <2>3. k \in RunnerState /\ k.start = FALSE
        BY <1>1, ClearedType, ClearedFlags
    <2> HIDE DEF k
    <2>4. m.start = FALSE
        BY <2>3 DEF RunnerState
    <2> HIDE DEF m
    <2> QED
        BY <1>1, <2>1, <2>2, <2>4 DEF Reads
<1>5. ASSUME ReadReset(r) PROVE Reads(r, "LRT_RST_ITERATION")
    <2>1. ~runner[r].start
        BY <1>5, NotInRound DEF ReadReset, Received, Pop, Resets
    <2> DEFINE m == Cleared(runner[r])
    <2>2. /\ Received(r, "LRT_RST_ITERATION") /\ runner' = [runner EXCEPT ![r] = m]
          /\ pc' = pc
        BY <1>5 DEF ReadReset
    <2>3. m.start = FALSE
        BY <1>1, ClearedFlags
    <2> HIDE DEF m
    <2> QED
        BY <1>1, <2>1, <2>2, <2>3 DEF Reads
<1>6. ASSUME ReadRepeat(r) PROVE Reads(r, "LRT_REPEAT_ITERATION_EN")
    <2> DEFINE m == [runner[r] EXCEPT !.repeat = TRUE]
    <2>1. /\ Received(r, "LRT_REPEAT_ITERATION_EN") /\ runner' = [runner EXCEPT ![r] = m]
          /\ pc' = pc
        BY <1>6 DEF ReadRepeat
    <2>2. m.start = runner[r].start
        BY <1>1 DEF RunnerState
    <2> HIDE DEF m
    <2> QED
        BY <1>1, <2>1, <2>2 DEF Reads
<1>7. ASSUME ReadStop(r) PROVE Reads(r, "LRT_STOP")
    BY <1>7 DEF ReadStop, Reads
<1>8. ASSUME ReadJobAdd(r) PROVE Reads(r, "JOB_ADD")
    <2>1. queue[r] # << >> /\ Head(queue[r]).type = "JOB_ADD"
        BY <1>8 DEF ReadJobAdd, Received, Pop
    <2>2. runner[r].start
        BY <2>1, StartedForJobs
    <2> DEFINE m == [runner[r] EXCEPT !.jobQueue = Append(@, Head(queue[r]).notificationIx)]
    <2>3. Received(r, "JOB_ADD") /\ runner' = [runner EXCEPT ![r] = m] /\ pc' = pc
        BY <1>8, <2>2 DEF ReadJobAdd
    <2>4. m.start = runner[r].start
        BY <1>1 DEF RunnerState
    <2> HIDE DEF m
    <2> QED
        BY <1>1, <2>3, <2>4 DEF Reads
<1>9. ASSUME ReadDelayBroadcast(r) PROVE Reads(r, "JOB_DELAY_BROADCAST_JOBSTAMP")
    <2> DEFINE m == [runner[r] EXCEPT !.shouldBroadcast = TRUE]
    <2>1. /\ Received(r, "JOB_DELAY_BROADCAST_JOBSTAMP")
          /\ runner' = [runner EXCEPT ![r] = m] /\ pc' = pc
        BY <1>9 DEF ReadDelayBroadcast
    <2>2. m.start = runner[r].start
        BY <1>1 DEF RunnerState
    <2> HIDE DEF m
    <2> QED
        BY <1>1, <2>1, <2>2 DEF Reads
<1>10. ASSUME ReadJobStamp(r) PROVE Reads(r, "JOB_UPDATE_JOBSTAMP")
    BY <1>10 DEF ReadJobStamp, Reads
<1> QED
    BY <1>2, <1>3, <1>4, <1>5, <1>6, <1>7, <1>8, <1>9, <1>10
    DEF ReadNotification, ControlType, Resets

\* Reading does not change who has still to close the round.
LEMMA ReadActive ==
    ASSUME TypeOK, SentInOrder, NEW r \in LRT,
           NEW type \in ControlType \cup {"JOB_UPDATE_JOBSTAMP"}, Reads(r, type)
    PROVE  \A q \in LRT : Active(q)' <=> Active(q)
<1>1. /\ queue[r] # << >> /\ queue' = [queue EXCEPT ![r] = Tail(@)]
      /\ pc[r] = "Read" /\ outbox' = outbox /\ Head(queue[r]).type = type
      /\ \A q \in LRT \ {r} : runner'[q] = runner[q] /\ pc'[q] = pc[q]
      /\ pc'[r] \in {"Read", "Stopped"}
    BY DEF Reads, Received, Reading, Pop, TypeOK, RunnerTypeOK
<1>2. ReadyKept
    BY <1>1 DEF ReadyKept, SentInOrder, Ready
<1>3. /\ \A q \in LRT : q # r => Coming(q)' = Coming(q)
      /\ Head(queue[r]).type \in ControlType => /\ Head(queue[r]) \in Coming(r)
                                               /\ Coming(r) = Coming(r)' \cup {Head(queue[r])}
      /\ Head(queue[r]).type \notin ControlType => Coming(r)' = Coming(r)
    BY <1>1, <1>2, EndpointType, PopComing
<1>4. ASSUME NEW q \in LRT \ {r} PROVE Active(q)' <=> Active(q)
    BY <1>1, <1>3 DEF Active, Expects
<1>5. CASE type = "LRT_START_ITERATION"
    <2>1. type \in ControlType
        BY <1>5 DEF ControlType
    <2>2. Active(r)
        BY <1>1, <1>3, <1>5, <2>1 DEF Active, Expects
    <2>3. Active(r)'
        BY <1>5 DEF Reads, Active
    <2> QED
        BY <1>4, <2>2, <2>3
<1>6. CASE type # "LRT_START_ITERATION"
    <2>1. Expects(r, "LRT_START_ITERATION")' <=> Expects(r, "LRT_START_ITERATION")
        BY <1>1, <1>3, <1>6 DEF Expects
    <2>2. runner'[r].start <=> runner[r].start
        BY <1>6 DEF Reads
    <2>3. Active(r)' <=> Active(r)
        BY <2>1, <2>2 DEF Active
    <2> QED
        BY <1>4, <2>3
<1> QED
    BY <1>5, <1>6

\* Reading keeps the barrier: it reports nothing and closes nothing.
LEMMA ReadBarrier ==
    ASSUME TypeOK, SentInOrder, PhaseInv, PhaseInv', BarrierInv, UNCHANGED grtVars,
           NEW r \in LRT, ReadNotification(r)
    PROVE  BarrierInv'
<1>1. PICK type \in ControlType \cup {"JOB_UPDATE_JOBSTAMP"} : Reads(r, type)
    BY ReadsWhat
<1>2. \A q \in LRT : Active(q)' <=> Active(q)
    BY <1>1, ReadActive
<1>3. /\ queue[r] # << >> /\ queue' = [queue EXCEPT ![r] = Tail(@)]
      /\ pc[r] = "Read" /\ outbox' = outbox /\ Head(queue[r]).type = type
      /\ outbox[r] = << >>
      /\ \A q \in LRT \ {r} : runner'[q] = runner[q]
    BY <1>1 DEF Reads, Received, Reading, Pop, Ready
<1>4. ~Finished(Head(queue[r]))
    BY <1>3, NotForRunners DEF Finished
<1>5. /\ OnlyToGRT'
      /\ \A q \in LRT : TokenOnce(q)'
      /\ \A q \in LRT : TokenInOutbox(q)' <=> TokenInOutbox(q)
      /\ \A q \in LRT : TokenInQueue(q)' <=> TokenInQueue(q)
    BY <1>3, <1>4, EndpointType, PopTokens
<1>6. \A q \in LRT : Token(q)' <=> Token(q)
    BY <1>5 DEF Token
<1>7. PhaseStays /\ (pc'[GRTIx] = "Wait" <=> pc[GRTIx] = "Wait")
    <2>1. CASE pc' = pc
        BY <2>1 DEF PhaseStays
    <2>2. CASE pc' = [pc EXCEPT ![r] = "Stopped"]
        <3>1. pc[r] \in RunnerPC /\ "Stopped" \in RunnerPC
            BY <1>3 DEF RunnerPC
        <3> QED
            BY <2>2, <3>1, RunnerLabel
    <2> QED
        BY <1>1, <2>1, <2>2 DEF Reads
<1>8. \A q \in LRT : q # GRTIx /\ outbox'[q] # << >> =>
                        runner'[q].start \/ TokenInOutbox(q)'
    BY <1>3, <1>5 DEF BarrierInv, TokenAfter
<1>9. UNCHANGED <<finishedRunner, notifVector>>
    BY DEF grtVars
<1> QED
    BY <1>2, <1>5, <1>6, <1>7, <1>8, <1>9, BarrierSame

\* A step inside the loop of run() that reads and sends nothing.
LEMMA LocalBarrier ==
    ASSUME TypeOK, PhaseInv, PhaseInv', BarrierInv, UNCHANGED grtVars,
           NEW r \in LRT, UNCHANGED <<commVars, runner>>, NEW label \in RunnerPC,
           pc[r] \in RunnerPC, pc' = [pc EXCEPT ![r] = label]
    PROVE  BarrierInv'
<1>1. queue' = queue /\ outbox' = outbox /\ runner' = runner
    BY DEF commVars
<1>2. \A q \in LRT : Active(q)' <=> Active(q)
    BY <1>1 DEF Active, Expects, Coming, InQueue, ToPush
<1>3. \A q \in LRT : /\ TokenInOutbox(q)' <=> TokenInOutbox(q)
                     /\ Token(q)' <=> Token(q)
                     /\ TokenOnce(q)'
    BY <1>1, SameTokens DEF BarrierInv
<1>4. OnlyToGRT'
    BY <1>1 DEF BarrierInv, OnlyToGRT, Finished
<1>5. PhaseStays /\ (pc'[GRTIx] = "Wait" <=> pc[GRTIx] = "Wait")
    BY RunnerLabel
<1>6. \A q \in LRT : q # GRTIx /\ outbox'[q] # << >> =>
                        runner'[q].start \/ TokenInOutbox(q)'
    BY <1>1, <1>3 DEF BarrierInv, TokenAfter
<1>7. UNCHANGED <<finishedRunner, notifVector>>
    BY DEF grtVars
<1> QED
    BY <1>2, <1>3, <1>4, <1>5, <1>6, <1>7, BarrierSame

\* Steps of the loop of run().
LEMMA LoopBarrier ==
    ASSUME TypeOK, PhaseInv, PhaseInv', BarrierInv, UNCHANGED grtVars, NEW r \in LRT,
           NothingToRead(r) \/ StartJob(r) \/ WaitJob(r) \/ NoJob(r) \/ Continue(r)
    PROVE  BarrierInv'
<1>1. \E label \in RunnerPC : /\ UNCHANGED <<commVars, runner>>
                              /\ pc[r] \in RunnerPC
                              /\ pc' = [pc EXCEPT ![r] = label]
    BY DEF NothingToRead, StartJob, WaitJob, NoJob, Continue, Reading, RunnerPC
<1> QED
    BY <1>1, LocalBarrier

-----------------------------------------------------------------------------
\* A push of another notification.
LEMMA PushOther ==
    ASSUME TypeOK, SentInOrder, BarrierInv, NEW p \in LRT,
           NEW e \in Endpoint, NEW shift \in {0, 1}, PushedTo(p, e, shift),
           ~Finished(outbox[p][1].note)
    PROVE  /\ OnlyToGRT' /\ \A r \in LRT : TokenOnce(r)'
           /\ \A r \in LRT : TokenInOutbox(r)' <=> TokenInOutbox(r)
           /\ \A r \in LRT : TokenInQueue(r)' <=> TokenInQueue(r)
<1> DEFINE x == outbox[p][1].note
           L == Len(outbox[p])
<1>1. /\ L \in Nat \ {0} /\ DOMAIN outbox[p] = 1 .. L /\ 1 \in DOMAIN outbox[p]
      /\ outbox[p][1] \in Batch /\ x \in Notification
    <2>1. outbox[p] \in Seq(Batch) /\ outbox[p] # << >>
        BY Places DEF PushedTo
    <2>2. L \in Nat \ {0} /\ DOMAIN outbox[p] = 1 .. L
        BY <2>1, TailOf
    <2>3. 1 \in DOMAIN outbox[p]
        BY <2>2
    <2> QED
        BY <2>2, <2>3, Places DEF Batch
<1>2. /\ DOMAIN queue[e] = 1 .. Len(queue[e]) /\ Len(queue[e]) \in Nat
      /\ DOMAIN queue'[e] = 1 .. Len(queue[e]) + 1
      /\ \A i \in DOMAIN queue[e] : queue'[e][i] = queue[e][i]
      /\ queue'[e][Len(queue[e]) + 1] = x
      /\ \A f \in Endpoint \ {e} : queue'[f] = queue[f]
    <2>1. queue' = [queue EXCEPT ![e] = Append(@, x)]
        BY DEF PushedTo
    <2> HIDE DEF x
    <2> QED
        BY <1>1, <2>1, QueueAppended
<1>3. /\ DOMAIN outbox'[p] = 1 .. L - shift /\ Len(outbox'[p]) = L - shift
      /\ \A b \in 1 .. L - shift :
          /\ outbox'[p][b].note = outbox[p][b + shift].note
          /\ outbox'[p][b].to = IF b + shift = 1 THEN outbox[p][1].to \ {e}
                                ELSE outbox[p][b + shift].to
      /\ \A o \in LRT \ {p} : outbox'[o] = outbox[o]
    BY DEF PushedTo
<1>4. ~Finished(x)
    OBVIOUS
<1> HIDE DEF x
<1>5. ASSUME NEW f \in Endpoint, NEW i \in DOMAIN queue'[f], Finished(queue'[f][i])
      PROVE  i \in DOMAIN queue[f] /\ queue'[f][i] = queue[f][i]
    <2>1. CASE f = e
        <3>1. i # Len(queue[e]) + 1
            BY <1>2, <1>4, <1>5, <2>1
        <3> QED
            BY <1>2, <1>5, <2>1, <3>1
    <2>2. CASE f # e
        BY <1>2, <1>5, <2>2
    <2> QED
        BY <2>1, <2>2
<1>6. ASSUME NEW f \in Endpoint, NEW i \in DOMAIN queue[f]
      PROVE  i \in DOMAIN queue'[f] /\ queue'[f][i] = queue[f][i]
    BY <1>2, <1>6
<1>7. LRT \subseteq Endpoint /\ GRTIx \in Endpoint /\ GRTIx \in LRT
    BY EndpointType
<1>8. OnlyToGRT'
    BY <1>5, <1>7 DEF BarrierInv, OnlyToGRT, Finished
<1>9. \A r \in LRT : TokenInQueue(r)' <=> TokenInQueue(r)
    BY <1>5, <1>6, <1>7 DEF TokenInQueue, Finished
<1>10. ASSUME NEW b \in DOMAIN outbox'[p], Finished(outbox'[p][b].note)
       PROVE  /\ b + shift \in DOMAIN outbox[p] /\ b + shift # 1
              /\ outbox'[p][b].note = outbox[p][b + shift].note
              /\ outbox'[p][b].to = outbox[p][b + shift].to
    <2>1. b + shift \in DOMAIN outbox[p]
        BY <1>1, <1>3
    <2>2. outbox'[p][b].note = outbox[p][b + shift].note
        BY <1>3
    <2>3. b + shift # 1
        BY <1>4, <1>10, <2>2 DEF x
    <2> QED
        BY <1>3, <2>1, <2>2, <2>3
<1>11. ASSUME NEW b \in DOMAIN outbox[p], Finished(outbox[p][b].note)
       PROVE  b - shift \in DOMAIN outbox'[p] /\ Finished(outbox'[p][b - shift].note)
    <2>1. b # 1 /\ b \in 1 .. L
        BY <1>1, <1>4, <1>11 DEF x
    <2>2. b - shift \in 1 .. L - shift /\ b - shift + shift = b
        BY <1>1, <2>1
    <2> QED
        BY <1>3, <1>11, <2>2
<1>12. \A r \in LRT : TokenInOutbox(r)' <=> TokenInOutbox(r)
    <2> TAKE r \in LRT
    <2>1. CASE r = p
        BY <1>10, <1>11, <2>1 DEF TokenInOutbox, Finished
    <2>2. CASE r # p
        BY <1>3, <2>2 DEF TokenInOutbox, Finished
    <2> QED
        BY <2>1, <2>2
<1>13. ASSUME NEW r \in LRT PROVE TokenOnce(r)'
    <2>1. TokenOnce(r)
        BY DEF BarrierInv
    <2>2. ASSUME NEW i \in DOMAIN queue'[GRTIx], NEW j \in DOMAIN queue'[GRTIx],
                 Finished(queue'[GRTIx][i]), queue'[GRTIx][i].senderIx = r,
                 Finished(queue'[GRTIx][j]), queue'[GRTIx][j].senderIx = r
          PROVE  i = j
        <3>1. /\ i \in DOMAIN queue[GRTIx] /\ queue'[GRTIx][i] = queue[GRTIx][i]
              /\ j \in DOMAIN queue[GRTIx] /\ queue'[GRTIx][j] = queue[GRTIx][j]
            BY <1>5, <1>7, <2>2
        <3> QED
            BY <2>1, <2>2, <3>1 DEF TokenOnce
    <2>3. ~(TokenInQueue(r)' /\ TokenInOutbox(r)')
        BY <1>9, <1>12, <2>1 DEF TokenOnce
    <2>4. ASSUME NEW b \in DOMAIN outbox'[r], Finished(outbox'[r][b].note)
          PROVE  /\ b = Len(outbox'[r]) /\ outbox'[r][b].note.senderIx = r
                 /\ outbox'[r][b].to = {GRTIx}
        <3>1. CASE r = p
            <4>1. /\ b + shift \in DOMAIN outbox[p]
                  /\ outbox'[p][b].note = outbox[p][b + shift].note
                  /\ outbox'[p][b].to = outbox[p][b + shift].to
                BY <1>10, <2>4, <3>1
            <4> DEFINE a == b + shift
            <4>2. a \in DOMAIN outbox[p] /\ Finished(outbox[p][a].note)
                BY <2>4, <3>1, <4>1
            <4> HIDE DEF a
            <4>3. /\ a = L /\ outbox[p][a].note.senderIx = p
                  /\ outbox[p][a].to = {GRTIx}
                BY <2>1, <3>1, <4>2 DEF TokenOnce
            <4>4. b = L - shift
                BY <1>1, <1>3, <2>4, <3>1, <4>3 DEF a
            <4> QED
                BY <1>3, <3>1, <4>1, <4>3, <4>4 DEF a
        <3>2. CASE r # p
            BY <1>3, <2>1, <2>4, <3>2 DEF TokenOnce
        <3> QED
            BY <3>1, <3>2
    <2> QED
        BY <2>2, <2>3, <2>4 DEF TokenOnce, Finished
<1> QED
    BY <1>8, <1>9, <1>12, <1>13

\* A push of the token of p.
LEMMA PushToken ==
    ASSUME TypeOK, TypeOK', SentInOrder, BarrierInv, NEW p \in LRT,
           NEW e \in Endpoint, NEW shift \in {0, 1}, PushedTo(p, e, shift),
           Finished(outbox[p][1].note)
    PROVE  /\ OnlyToGRT' /\ \A r \in LRT : TokenOnce(r)'
           /\ \A r \in LRT : Token(r)' <=> Token(r)
           /\ outbox'[p] = << >>
           /\ \A r \in LRT \ {p} : TokenInOutbox(r)' <=> TokenInOutbox(r)
<1> DEFINE x == outbox[p][1].note
<1>1. /\ Len(outbox[p]) \in Nat \ {0} /\ DOMAIN outbox[p] = 1 .. Len(outbox[p])
      /\ 1 \in DOMAIN outbox[p] /\ outbox[p][1] \in Batch /\ x \in Notification
    <2>1. outbox[p] \in Seq(Batch) /\ outbox[p] # << >>
        BY Places DEF PushedTo
    <2>2. Len(outbox[p]) \in Nat \ {0} /\ DOMAIN outbox[p] = 1 .. Len(outbox[p])
        BY <2>1, TailOf
    <2>3. 1 \in DOMAIN outbox[p]
        BY <2>2
    <2> QED
        BY <2>2, <2>3, Places DEF Batch
<1>2. /\ 1 = Len(outbox[p]) /\ x.senderIx = p /\ outbox[p][1].to = {GRTIx}
      /\ TokenInOutbox(p) /\ ~TokenInQueue(p) /\ Token(p)
    <2>1. TokenOnce(p)
        BY DEF BarrierInv
    <2>2. TokenInOutbox(p)
        BY <1>1 DEF TokenInOutbox
    <2>3. /\ 1 = Len(outbox[p]) /\ x.senderIx = p
          /\ outbox[p][1].to = {GRTIx}
        BY <1>1, <2>1 DEF TokenOnce
    <2> QED
        BY <2>1, <2>2, <2>3 DEF TokenOnce, Token
<1>3. e = GRTIx /\ shift = 1
    BY <1>2 DEF PushedTo
<1>4. /\ DOMAIN queue[GRTIx] = 1 .. Len(queue[GRTIx]) /\ Len(queue[GRTIx]) \in Nat
      /\ DOMAIN queue'[GRTIx] = 1 .. Len(queue[GRTIx]) + 1
      /\ \A i \in DOMAIN queue[GRTIx] : queue'[GRTIx][i] = queue[GRTIx][i]
      /\ queue'[GRTIx][Len(queue[GRTIx]) + 1] = x
      /\ \A f \in Endpoint \ {GRTIx} : queue'[f] = queue[f]
    <2>1. queue' = [queue EXCEPT ![GRTIx] = Append(@, x)] /\ GRTIx \in Endpoint
        BY <1>3 DEF PushedTo
    <2> HIDE DEF x
    <2> QED
        BY <1>1, <2>1, QueueAppended
<1>5. /\ Len(outbox'[p]) = 0 /\ \A o \in LRT \ {p} : outbox'[o] = outbox[o]
    BY <1>2, <1>3 DEF PushedTo
<1>6. outbox'[p] = << >>
    <2>1. outbox'[p] \in Seq(Batch)
        BY DEF TypeOK, CommTypeOK
    <2> QED
        BY <1>5, <2>1, EmptySeq
<1>7. Finished(x) /\ LRT \subseteq Endpoint
    BY EndpointType
<1> HIDE DEF x
<1>8. OnlyToGRT'
    BY <1>4, <1>7 DEF BarrierInv, OnlyToGRT, Finished
<1>9. \A r \in LRT \ {p} : TokenInOutbox(r)' <=> TokenInOutbox(r)
    BY <1>5 DEF TokenInOutbox, Finished
<1>10. ~TokenInOutbox(p)'
    BY <1>6 DEF TokenInOutbox, Finished
<1>11. TokenInQueue(p)'
    BY <1>2, <1>4, <1>7 DEF TokenInQueue, Finished
<1>12. \A r \in LRT \ {p} : TokenInQueue(r)' <=> TokenInQueue(r)
    <2> TAKE r \in LRT \ {p}
    <2>1. ASSUME TokenInQueue(r) PROVE TokenInQueue(r)'
        BY <1>4, <2>1 DEF TokenInQueue, Finished
    <2>2. ASSUME TokenInQueue(r)' PROVE TokenInQueue(r)
        <3>1. PICK i \in DOMAIN queue'[GRTIx] : Finished(queue'[GRTIx][i])
                                                 /\ queue'[GRTIx][i].senderIx = r
            BY <2>2 DEF TokenInQueue, Finished
        <3>2. i # Len(queue[GRTIx]) + 1
            BY <1>2, <1>4, <3>1
        <3>3. i \in DOMAIN queue[GRTIx]
            BY <1>4, <3>2
        <3> QED
            BY <1>4, <3>1, <3>3 DEF TokenInQueue
    <2> QED
        BY <2>1, <2>2
<1>13. ASSUME NEW r \in LRT PROVE TokenOnce(r)'
    <2>1. TokenOnce(r)
        BY DEF BarrierInv
    <2>2. ASSUME NEW i \in DOMAIN queue'[GRTIx], NEW j \in DOMAIN queue'[GRTIx],
                 Finished(queue'[GRTIx][i]), queue'[GRTIx][i].senderIx = r,
                 Finished(queue'[GRTIx][j]), queue'[GRTIx][j].senderIx = r
          PROVE  i = j
        <3>1. CASE r = p
            <4>1. \A k \in DOMAIN queue[GRTIx] :
                     ~(Finished(queue[GRTIx][k]) /\ queue[GRTIx][k].senderIx = p)
                BY <1>2 DEF TokenInQueue
            <4>2. i \notin DOMAIN queue[GRTIx] /\ j \notin DOMAIN queue[GRTIx]
                BY <1>4, <2>2, <3>1, <4>1
            <4> QED
                BY <1>4, <4>2
        <3>2. CASE r # p
            <4>1. i # Len(queue[GRTIx]) + 1 /\ j # Len(queue[GRTIx]) + 1
                BY <1>2, <1>4, <2>2, <3>2
            <4>2. i \in DOMAIN queue[GRTIx] /\ j \in DOMAIN queue[GRTIx]
                BY <1>4, <4>1
            <4>3. queue'[GRTIx][i] = queue[GRTIx][i] /\ queue'[GRTIx][j] = queue[GRTIx][j]
                BY <1>4, <4>2
            <4> QED
                BY <2>1, <2>2, <4>2, <4>3 DEF TokenOnce
        <3> QED
            BY <3>1, <3>2
    <2>3. ~(TokenInQueue(r)' /\ TokenInOutbox(r)')
        BY <1>9, <1>10, <1>12, <2>1 DEF TokenOnce
    <2>4. ASSUME NEW b \in DOMAIN outbox'[r], Finished(outbox'[r][b].note)
          PROVE  /\ b = Len(outbox'[r]) /\ outbox'[r][b].note.senderIx = r
                 /\ outbox'[r][b].to = {GRTIx}
        <3>1. r # p
            BY <1>6, <2>4
        <3> QED
            BY <1>5, <2>1, <2>4, <3>1 DEF TokenOnce
    <2> QED
        BY <2>2, <2>3, <2>4 DEF TokenOnce, Finished
<1>14. \A r \in LRT : Token(r)' <=> Token(r)
    BY <1>2, <1>9, <1>11, <1>12 DEF Token
<1> QED
    BY <1>6, <1>8, <1>9, <1>13, <1>14

\* A push carries the report of a runner to the GRT, once.
LEMMA PushBarrier ==
    ASSUME TypeOK, TypeOK', SentInOrder, BarrierInv, NEW p \in LRT, Push(p),
           UNCHANGED runnerVars, UNCHANGED grtVars
    PROVE  BarrierInv'
<1>1. runner' = runner /\ pc' = pc /\ UNCHANGED <<finishedRunner, notifVector>>
    BY DEF runnerVars, grtVars
<1>2. \A q \in LRT : Coming(q)' = Coming(q)
    BY <1>1, PushKeepsComing
<1>3. \A q \in LRT : Active(q)' <=> Active(q)
    BY <1>1, <1>2 DEF Active, Expects
<1>4. PICK e \in Endpoint, shift \in {0, 1} : PushedTo(p, e, shift)
    BY PushEffect
<1>5. /\ outbox[p] # << >> /\ \A o \in LRT \ {p} : outbox'[o] = outbox[o]
    BY <1>4 DEF PushedTo
<1>6. PhaseStays /\ (pc'[GRTIx] = "Wait" <=> pc[GRTIx] = "Wait")
    BY <1>1 DEF PhaseStays
<1>7. CASE ~Finished(outbox[p][1].note)
    <2>1. /\ OnlyToGRT' /\ \A r \in LRT : TokenOnce(r)'
          /\ \A r \in LRT : TokenInOutbox(r)' <=> TokenInOutbox(r)
          /\ \A r \in LRT : TokenInQueue(r)' <=> TokenInQueue(r)
        BY <1>4, <1>7, PushOther
    <2>2. \A q \in LRT : q # GRTIx /\ outbox'[q] # << >> =>
                            runner'[q].start \/ TokenInOutbox(q)'
        BY <1>1, <1>5, <2>1 DEF BarrierInv, TokenAfter
    <2>3. \A r \in LRT : Token(r)' <=> Token(r)
        BY <2>1 DEF Token
    <2> QED
        BY <1>1, <1>3, <1>6, <2>1, <2>2, <2>3, BarrierSame
<1>8. CASE Finished(outbox[p][1].note)
    <2>1. /\ OnlyToGRT' /\ \A r \in LRT : TokenOnce(r)'
          /\ \A r \in LRT : Token(r)' <=> Token(r)
          /\ outbox'[p] = << >>
          /\ \A r \in LRT \ {p} : TokenInOutbox(r)' <=> TokenInOutbox(r)
        BY <1>4, <1>8, PushToken
    <2>2. \A q \in LRT : q # GRTIx /\ outbox'[q] # << >> =>
                            runner'[q].start \/ TokenInOutbox(q)'
        BY <1>1, <1>5, <2>1 DEF BarrierInv, TokenAfter
    <2> QED
        BY <1>1, <1>3, <1>6, <2>1, <2>2, BarrierSame
<1> QED
    BY <1>7, <1>8

-----------------------------------------------------------------------------
\* r sends notifications that are no token.
LEMMA SentOther ==
    ASSUME TypeOK, BarrierInv, NEW r \in LRT, Ready(r), NEW s,
           queue' = queue, outbox' = [outbox EXCEPT ![r] = s],
           \A b \in DOMAIN s : ~Finished(s[b].note)
    PROVE  /\ OnlyToGRT' /\ \A q \in LRT : TokenOnce(q)'
           /\ \A q \in LRT : TokenInOutbox(q)' <=> TokenInOutbox(q)
           /\ \A q \in LRT : TokenInQueue(q)' <=> TokenInQueue(q)
           /\ \A q \in LRT : Token(q)' <=> Token(q)
<1>1. outbox'[r] = s /\ \A q \in LRT \ {r} : outbox'[q] = outbox[q]
    BY DEF TypeOK, CommTypeOK
<1>2. OnlyToGRT'
    BY DEF BarrierInv, OnlyToGRT, Finished
<1>3. \A q \in LRT : TokenInQueue(q)' <=> TokenInQueue(q)
    BY DEF TokenInQueue, Finished
<1>4. ~TokenInOutbox(r) /\ ~TokenInOutbox(r)'
    BY <1>1 DEF TokenInOutbox, Finished, Ready
<1>5. \A q \in LRT : TokenInOutbox(q)' <=> TokenInOutbox(q)
    BY <1>1, <1>4 DEF TokenInOutbox, Finished
<1>6. ASSUME NEW q \in LRT PROVE TokenOnce(q)'
    <2>1. TokenOnce(q)
        BY DEF BarrierInv
    <2>2. CASE q = r
        BY <1>1, <1>3, <1>5, <2>1, <2>2 DEF TokenOnce, Finished
    <2>3. CASE q # r
        BY <1>1, <1>3, <1>5, <2>1, <2>3 DEF TokenOnce, Finished
    <2> QED
        BY <2>2, <2>3
<1> QED
    BY <1>2, <1>3, <1>5, <1>6 DEF Token

\* The end of a job reports nothing.
LEMMA EndJobBarrier ==
    ASSUME TypeOK, SentInOrder, PhaseInv, PhaseInv', BarrierInv, UNCHANGED grtVars,
           NEW r \in LRT, EndJob(r)
    PROVE  BarrierInv'
<1>1. PICK t \in Task, s \in Seq(Batch) : EndJobDoes(r, t, s)
    BY EndJobEffect
<1>2. /\ outbox' = [outbox EXCEPT ![r] = s] /\ queue' = queue
      /\ runner'[r].start = runner[r].start
      /\ \A q \in LRT \ {r} : runner'[q] = runner[q]
      /\ pc[r] = "Kernel" /\ pc' = [pc EXCEPT ![r] = "Finish"]
      /\ \A b \in DOMAIN s :
            \/ s[b].note = Notify("JOB_UPDATE_JOBSTAMP", r, ExecIx[t])
            \/ s[b].note = Notify("JOB_SENT_PARAM", r, t)
    BY <1>1 DEF EndJobDoes
<1>3. \A b \in DOMAIN s : /\ ~Finished(s[b].note)
                          /\ s[b].note.type \notin ControlType
    BY <1>2 DEF Notify, Finished, ControlType, Resets
<1>4. Ready(r) /\ runner[r].start
    BY <1>2 DEF SentInOrder, PhaseInv, RunnerInPhase
<1>5. /\ OnlyToGRT' /\ \A q \in LRT : TokenOnce(q)'
      /\ \A q \in LRT : TokenInOutbox(q)' <=> TokenInOutbox(q)
      /\ \A q \in LRT : Token(q)' <=> Token(q)
    BY <1>2, <1>3, <1>4, SentOther
<1>6. PhaseStays /\ (pc'[GRTIx] = "Wait" <=> pc[GRTIx] = "Wait")
    BY <1>2, RunnerLabel DEF RunnerPC
<1>7. outbox'[r] = s /\ \A q \in LRT \ {r} : outbox'[q] = outbox[q]
    BY <1>2 DEF TypeOK, CommTypeOK
<1>8. ASSUME NEW q \in LRT PROVE Active(q)' <=> Active(q)
    <2>1. \A n : n \in ToPush(q)' /\ n.type \in ControlType <=>
                 n \in ToPush(q) /\ n.type \in ControlType
        <3>1. CASE r = GRTIx
            <4>1. \A n \in ToPush(q) : FALSE
                BY <1>4, <3>1 DEF ToPush, Ready
            <4>2. \A n \in ToPush(q)' : n.type \notin ControlType
                BY <1>3, <1>7, <3>1 DEF ToPush
            <4> QED
                BY <4>1, <4>2
        <3>2. CASE r # GRTIx
            BY <1>7, <3>2, GRTAssumption DEF ToPush
        <3> QED
            BY <3>1, <3>2
    <2>2. InQueue(q)' = InQueue(q)
        BY <1>2 DEF InQueue
    <2>3. Expects(q, "LRT_START_ITERATION")' <=> Expects(q, "LRT_START_ITERATION")
        BY <2>1, <2>2 DEF Expects, Coming
    <2> QED
        BY <1>2, <2>3 DEF Active
<1>9. \A q \in LRT : q # GRTIx /\ outbox'[q] # << >> =>
                        runner'[q].start \/ TokenInOutbox(q)'
    BY <1>2, <1>4, <1>5, <1>7 DEF BarrierInv, TokenAfter
<1>10. UNCHANGED <<finishedRunner, notifVector>>
    BY DEF grtVars
<1> QED
    BY <1>5, <1>6, <1>8, <1>9, <1>10, BarrierSame

\* A runner that closes the round is the only one to stop being active.
LEMMA ClosingActive ==
    ASSUME TypeOK, SentInOrder, PhaseInv, JobsInv,
           NEW r \in LRT, NEW s \in Seq(Batch), Closes(r, s)
    PROVE  /\ Active(r) /\ ~Active(r)' /\ PhaseStays /\ pc[GRTIx] \in Launched
           /\ \A q \in LRT \ {r} : Active(q)' <=> Active(q)
<1>1. /\ pc[r] = "Finish" /\ Ready(r) /\ FinishedIteration(r)
      /\ outbox' = [outbox EXCEPT ![r] = s] /\ queue' = queue
      /\ runner[r] \in RunnerState /\ runner'[r] = Closed(runner[r])
      /\ \A q \in LRT \ {r} : runner'[q] = runner[q]
      /\ pc'[r] = IF r = GRTIx THEN "Wait" ELSE "Read"
      /\ \A q \in LRT \ {r} : pc'[q] = pc[q] /\ outbox'[q] = outbox[q]
    BY DEF Closes, TypeOK, CommTypeOK, RunnerTypeOK
<1>2. Active(r) /\ Coming(r) = {} /\ pc[GRTIx] \in Launched
    BY <1>1, ClosingRunner
<1>3. ReadyKept
    BY <1>1 DEF ReadyKept, SentInOrder, Ready
<1>4. \A b \in DOMAIN s : s[b].to # {} /\ s[b].note.type \notin ControlType
    <2> DEFINE R2 == IF r = GRTIx THEN {} ELSE {GRTIx}
    <2>1. AreBatches(s, BroadcastTo(r), StampNote(r), R2, FinishedNote(r))
        BY DEF Closes
    <2> HIDE DEF R2
    <2>2. ASSUME NEW b \in DOMAIN s
          PROVE  s[b].to # {} /\ s[b].note \in {StampNote(r), FinishedNote(r)}
        BY <2>1 DEF AreBatches
    <2> QED
        BY <2>2, NotesAre
<1>5. \A q \in LRT : Coming(q)' = Coming(q)
    BY <1>1, <1>3, <1>4, OthersSent
<1>6. ~runner'[r].start
    BY <1>1, ClosingFlags
<1>7. ~Active(r)'
    BY <1>2, <1>5, <1>6 DEF Active, Expects
<1>8. \A q \in LRT \ {r} : Active(q)' <=> Active(q)
    BY <1>1, <1>5 DEF Active, Expects
<1>9. PhaseStays
    BY <1>1, <1>2, GRTAssumption DEF PhaseStays, Launched
<1> QED
    BY <1>2, <1>7, <1>8, <1>9

\* A runner that is not the GRT's sends its token.
LEMMA ClosingToken ==
    ASSUME TypeOK, SentInOrder, PhaseInv, JobsInv, BarrierInv,
           NEW r \in LRT, NEW s \in Seq(Batch), Closes(r, s), r # GRTIx
    PROVE  BarrierInv'
<1>1. /\ Active(r) /\ ~Active(r)' /\ PhaseStays /\ pc[GRTIx] \in Launched
      /\ \A q \in LRT \ {r} : Active(q)' <=> Active(q)
    BY ClosingActive
<1>2. /\ Ready(r) /\ queue' = queue /\ outbox'[r] = s
      /\ \A q \in LRT \ {r} : outbox'[q] = outbox[q] /\ runner'[q] = runner[q]
      /\ pc'[GRTIx] = pc[GRTIx] /\ UNCHANGED <<finishedRunner, notifVector>>
    BY GRTAssumption DEF Closes, TypeOK, CommTypeOK, RunnerTypeOK
<1>3. ~TokenInQueue(r) /\ ~TokenInOutbox(r) /\ ~Token(r)
    BY <1>1 DEF BarrierInv, TokenAfter, Token
<1> DEFINE R2 == {GRTIx}
           n1 == StampNote(r)
           n2 == FinishedNote(r)
<1>4. AreBatches(s, BroadcastTo(r), n1, R2, n2)
    BY DEF Closes
<1>5. R2 # {} /\ Finished(n2) /\ n2.senderIx = r /\ ~Finished(n1)
    BY NotesAre DEF Finished
<1> HIDE DEF R2, n1, n2
<1>6. /\ Len(s) \in DOMAIN s /\ s[Len(s)] = [note |-> n2, to |-> R2]
      /\ Len(s) \in Nat /\ DOMAIN s = 1 .. Len(s)
    BY <1>4, <1>5, LenProperties DEF AreBatches
<1>7. ASSUME NEW b \in DOMAIN s, Finished(s[b].note) PROVE b = Len(s)
    <2> SUFFICES ASSUME b # Len(s) PROVE FALSE
        OBVIOUS
    <2>1. b < Len(s)
        BY <1>6
    <2>2. s[b] = [note |-> n1, to |-> BroadcastTo(r)]
        BY <1>4, <1>6, <2>1 DEF AreBatches
    <2>3. s[b].note = n1
        BY <2>2
    <2> QED
        BY <1>5, <1>7, <2>3
<1>8. s[Len(s)].note = n2 /\ s[Len(s)].to = {GRTIx}
    BY <1>6 DEF R2
<1>9. TokenInOutbox(r)' /\ Token(r)'
    <2>1. TokenInOutbox(r)'
        BY <1>2, <1>5, <1>6, <1>8 DEF TokenInOutbox, Finished
    <2> QED
        BY <2>1 DEF Token
<1>10. \A q \in LRT : TokenInQueue(q)' <=> TokenInQueue(q)
    BY <1>2 DEF TokenInQueue, Finished
<1>11. OnlyToGRT'
    BY <1>2 DEF BarrierInv, OnlyToGRT, Finished
<1>12. ASSUME NEW q \in LRT \ {r}
       PROVE  /\ TokenInOutbox(q)' <=> TokenInOutbox(q)
              /\ Token(q)' <=> Token(q)
              /\ TokenOnce(q)'
    <2>1. TokenOnce(q)
        BY DEF BarrierInv
    <2> QED
        BY <1>2, <2>1, SameTokens
<1>13. TokenOnce(r)'
    <2>1. TokenOnce(r)
        BY DEF BarrierInv
    <2>2. \A i, j \in DOMAIN queue'[GRTIx] :
              /\ Finished(queue'[GRTIx][i]) /\ queue'[GRTIx][i].senderIx = r
              /\ Finished(queue'[GRTIx][j]) /\ queue'[GRTIx][j].senderIx = r
              => i = j
        BY <1>2, <2>1 DEF TokenOnce
    <2>3. \A b \in DOMAIN outbox'[r] : Finished(outbox'[r][b].note) =>
              /\ b = Len(outbox'[r])
              /\ outbox'[r][b].note.senderIx = r
              /\ outbox'[r][b].to = {GRTIx}
        BY <1>2, <1>5, <1>7, <1>8
    <2>4. ~TokenInQueue(r)'
        BY <1>3, <1>10
    <2> QED
        BY <2>2, <2>3, <2>4 DEF TokenOnce, Finished
<1>14. \A q \in LRT : TokenAfter(q)'
    <2> TAKE q \in LRT
    <2>1. CASE q = r
        BY <1>1, <1>2, <1>9, <2>1 DEF TokenAfter
    <2>2. CASE q # r
        <3>1. TokenAfter(q)
            BY DEF BarrierInv
        <3> QED
            BY <1>1, <1>2, <1>12, <2>2, <3>1 DEF TokenAfter
    <2> QED
        BY <2>1, <2>2
<1>15. \A q \in LRT : Active(q) \/ Token(q) <=> Active(q)' \/ Token(q)'
    BY <1>1, <1>9, <1>12
<1>16. Pending' = Pending
    BY <1>15 DEF Pending
<1>17. \A q \in LRT : TokenOnce(q)'
    BY <1>12, <1>13
<1> QED
    BY <1>2, <1>11, <1>14, <1>15, <1>16, <1>17 DEF BarrierInv

\* The runner of the GRT is the first that it counts when it waits.
LEMMA ClosingGRT ==
    ASSUME TypeOK, SentInOrder, PhaseInv, JobsInv, BarrierInv,
           NEW s \in Seq(Batch), Closes(GRTIx, s)
    PROVE  BarrierInv'
<1>1. /\ Active(GRTIx) /\ ~Active(GRTIx)' /\ PhaseStays /\ pc[GRTIx] \in Launched
      /\ \A q \in LRT \ {GRTIx} : Active(q)' <=> Active(q)
    BY ClosingActive, GRTAssumption
<1>2. /\ Ready(GRTIx) /\ queue' = queue /\ outbox' = [outbox EXCEPT ![GRTIx] = s]
      /\ pc[GRTIx] = "Finish" /\ pc'[GRTIx] = "Wait" /\ notifVector' = notifVector
      /\ finishedRunner'[GRTIx] /\ GRTIx \in LRT
      /\ \A q \in LRT \ {GRTIx} : /\ finishedRunner'[q] = finishedRunner[q]
                                  /\ runner'[q] = runner[q]
                                  /\ outbox'[q] = outbox[q]
    BY GRTAssumption DEF Closes, TypeOK, CommTypeOK, RunnerTypeOK, GRTTypeOK
<1> DEFINE R2 == {}
           n1 == StampNote(GRTIx)
           n2 == FinishedNote(GRTIx)
<1>3. AreBatches(s, BroadcastTo(GRTIx), n1, R2, n2)
    BY DEF Closes
<1>4. R2 = {} /\ ~Finished(n1)
    BY <1>2, NotesAre DEF Finished
<1> HIDE DEF R2, n1, n2
<1>5. \A b \in DOMAIN s : ~Finished(s[b].note)
    BY <1>3, <1>4 DEF AreBatches
<1>6. /\ OnlyToGRT' /\ \A q \in LRT : TokenOnce(q)'
      /\ \A q \in LRT : TokenInOutbox(q)' <=> TokenInOutbox(q)
      /\ \A q \in LRT : Token(q)' <=> Token(q)
    BY <1>2, <1>5, SentOther
<1>7. \A q \in LRT : TokenAfter(q)'
    <2> TAKE q \in LRT
    <2>1. TokenAfter(q) /\ TokenAfter(GRTIx)
        BY <1>2 DEF BarrierInv
    <2>2. pc'[GRTIx] \in Launched
        BY <1>2 DEF Launched
    <2>3. CASE q = GRTIx
        BY <1>2, <1>6, <2>1, <2>3 DEF TokenAfter
    <2>4. CASE q # GRTIx
        BY <1>1, <1>2, <1>6, <2>1, <2>2, <2>4 DEF TokenAfter
    <2> QED
        BY <2>3, <2>4
<1>8. /\ notifVector = << >>
      /\ \A q \in LRT \ {GRTIx} : finishedRunner[q] <=> ~Active(q) /\ ~Token(q)
    BY <1>2 DEF BarrierInv, Launched
<1>9. \A q \in LRT : ~finishedRunner'[q] <=> q # GRTIx /\ (Active(q)' \/ Token(q)')
    BY <1>1, <1>2, <1>6, <1>8
<1>10. {q \in LRT : ~finishedRunner'[q]} = Pending'
    BY <1>9 DEF Pending
<1>11. Cardinality({q \in LRT : ~finishedRunner'[q]}) = Cardinality(Pending')
    BY <1>10
<1>12. DOMAIN notifVector' = {}
    BY <1>2, <1>8
<1> QED
    BY <1>2, <1>6, <1>7, <1>11, <1>12 DEF BarrierInv, Launched

\* A runner that closes the round reports it, after all it had to send.
LEMMA ClosingBarrier ==
    ASSUME TypeOK, SentInOrder, PhaseInv, JobsInv, BarrierInv,
           NEW r \in LRT, NEW s \in Seq(Batch), Closes(r, s)
    PROVE  BarrierInv'
BY ClosingToken, ClosingGRT

-----------------------------------------------------------------------------
\* The GRT takes a notification that is not for a runner.
LEMMA PopActive ==
    ASSUME TypeOK, SentInOrder, NEW e \in Endpoint, queue[e] # << >>,
           queue' = [queue EXCEPT ![e] = Tail(@)], outbox' = outbox,
           Head(queue[e]).type \notin ControlType \/ e \notin LRT,
           UNCHANGED <<runner, pc>>
    PROVE  \A q \in LRT : Active(q)' <=> Active(q)
<1>1. ReadyKept
    BY DEF ReadyKept, SentInOrder, Ready
<1>2. \A q \in LRT : Coming(q)' = Coming(q)
    BY <1>1, PopComing
<1> QED
    BY <1>2 DEF Active, Expects

\* The token that the GRT reads is that of a runner that has closed the round.
LEMMA TokenRead ==
    ASSUME TypeOK, SentInOrder, BarrierInv, queue[GRTIx] # << >>,
           Finished(Head(queue[GRTIx])),
           queue' = [queue EXCEPT ![GRTIx] = Tail(@)], outbox' = outbox,
           UNCHANGED <<runner, pc>>
    PROVE  \E p \in LRT \ {GRTIx} :
              /\ p = Head(queue[GRTIx]).senderIx
              /\ Token(p) /\ ~Token(p)' /\ ~Active(p)
              /\ \A q \in LRT \ {p} : Token(q)' <=> Token(q)
              /\ \A q \in LRT : Active(q)' <=> Active(q)
              /\ OnlyToGRT' /\ \A q \in LRT : TokenOnce(q)' /\ TokenAfter(q)'
<1>0. PICK p : p = Head(queue[GRTIx]).senderIx
    OBVIOUS
<1>1. /\ Head(queue[GRTIx]) = queue[GRTIx][1] /\ 1 \in DOMAIN queue[GRTIx]
      /\ Head(queue[GRTIx]) \in Notification
    <2>1. /\ Head(queue[GRTIx]) = queue[GRTIx][1] /\ Head(queue[GRTIx]) \in Notification
          /\ DOMAIN queue[GRTIx] = 1 .. Len(queue[GRTIx])
          /\ Len(queue[GRTIx]) \in Nat \ {0}
        BY QueuePopped, EndpointType
    <2> QED
        BY <2>1
<1>2. p \in LRT
    BY <1>0, <1>1 DEF Notification
<1>3. TokenInQueue(p) /\ Token(p)
    BY <1>0, <1>1 DEF TokenInQueue, Token
<1>4. TokenOnce(p) /\ TokenAfter(p)
    BY <1>2 DEF BarrierInv
<1>5. ~TokenInOutbox(p) /\ p # GRTIx /\ ~Active(p)
    BY <1>3, <1>4 DEF TokenOnce, TokenAfter
<1>6. /\ OnlyToGRT' /\ \A r \in LRT : TokenOnce(r)'
      /\ \A r \in LRT : TokenInOutbox(r)' <=> TokenInOutbox(r)
      /\ \A r \in LRT : TokenInQueue(r)' <=> TokenInQueue(r) /\ r # p
    BY <1>0, EndpointType, PopTokens
<1>7. ~Token(p)' /\ \A q \in LRT \ {p} : Token(q)' <=> Token(q)
    BY <1>2, <1>5, <1>6 DEF Token
<1>8. \A q \in LRT : Active(q)' <=> Active(q)
    BY PopActive, EndpointType, NotForRunners DEF Finished
<1>9. \A q \in LRT : TokenAfter(q)'
    <2> TAKE q \in LRT
    <2>1. TokenAfter(q)
        BY DEF BarrierInv
    <2> QED
        BY <1>6, <1>7, <1>8, <2>1 DEF TokenAfter
<1> QED
    BY <1>0, <1>2, <1>3, <1>5, <1>6, <1>7, <1>8, <1>9

\* The GRT reads a report before it waits.
LEMMA ReadFinishedBarrier ==
    ASSUME TypeOK, SentInOrder, BarrierInv, ReadFinished
    PROVE  BarrierInv'
<1>1. /\ queue[GRTIx] # << >> /\ Finished(Head(queue[GRTIx]))
      /\ queue' = [queue EXCEPT ![GRTIx] = Tail(@)] /\ outbox' = outbox
      /\ UNCHANGED <<runner, pc, notifVector>> /\ pc[GRTIx] = "Read"
      /\ finishedRunner' = [finishedRunner EXCEPT ![Head(queue[GRTIx]).senderIx] = TRUE]
    BY DEF ReadFinished, Received, Reading, Pop, Finished
<1>2. PICK p \in LRT \ {GRTIx} :
              /\ p = Head(queue[GRTIx]).senderIx
              /\ Token(p) /\ ~Token(p)' /\ ~Active(p)
              /\ \A q \in LRT \ {p} : Token(q)' <=> Token(q)
              /\ \A q \in LRT : Active(q)' <=> Active(q)
              /\ OnlyToGRT' /\ \A q \in LRT : TokenOnce(q)' /\ TokenAfter(q)'
    BY <1>1, TokenRead
<1>3. finishedRunner'[p] /\ \A q \in LRT \ {p} : finishedRunner'[q] = finishedRunner[q]
    BY <1>1, <1>2 DEF TypeOK, GRTTypeOK
<1>4. /\ ~finishedRunner[GRTIx] /\ notifVector = << >> /\ GRTIx \in LRT
      /\ \A r \in LRT \ {GRTIx} : finishedRunner[r] <=> ~Active(r) /\ ~Token(r)
    BY <1>1, GRTAssumption DEF BarrierInv, Launched
<1>5. \A r \in LRT \ {GRTIx} : finishedRunner'[r] <=> ~Active(r)' /\ ~Token(r)'
    <2> TAKE r \in LRT \ {GRTIx}
    <2>1. CASE r = p
        BY <1>2, <1>3, <2>1
    <2>2. CASE r # p
        BY <1>2, <1>3, <1>4, <2>2
    <2> QED
        BY <2>1, <2>2
<1>6. ~finishedRunner'[GRTIx] /\ DOMAIN notifVector' = {}
    BY <1>1, <1>2, <1>3, <1>4
<1> QED
    BY <1>1, <1>2, <1>4, <1>5, <1>6 DEF BarrierInv, Launched

\* There are finitely many LRTs.
LEMMA LRTFinite == IsFiniteSet(LRT)
BY TaskAssumption, FS_Interval DEF LRT

\* The barrier counts one runner per report.
LEMMA WaitFinishedBarrier ==
    ASSUME TypeOK, SentInOrder, BarrierInv, NEW i \in LRT, WaitFinished(i)
    PROVE  BarrierInv'
<1>1. /\ queue[GRTIx] # << >> /\ Finished(Head(queue[GRTIx]))
      /\ queue' = [queue EXCEPT ![GRTIx] = Tail(@)] /\ outbox' = outbox
      /\ UNCHANGED <<runner, pc, notifVector>> /\ pc[GRTIx] = "Wait"
      /\ ~finishedRunner[i] /\ finishedRunner' = [finishedRunner EXCEPT ![i] = TRUE]
    BY DEF WaitFinished, At, Pop, Finished, runnerVars
<1>2. PICK p \in LRT \ {GRTIx} :
              /\ Token(p) /\ ~Token(p)' /\ ~Active(p)
              /\ \A q \in LRT \ {p} : Token(q)' <=> Token(q)
              /\ \A q \in LRT : Active(q)' <=> Active(q)
              /\ OnlyToGRT' /\ \A q \in LRT : TokenOnce(q)' /\ TokenAfter(q)'
    BY <1>1, TokenRead
<1> DEFINE A == {r \in LRT : ~finishedRunner[r]}
           B == {r \in LRT : ~finishedRunner'[r]}
           P == Pending
           Q == Pending'
<1>3. B = A \ {i} /\ i \in A
    BY <1>1 DEF TypeOK, GRTTypeOK
<1>4. Q = P \ {p} /\ p \in P
    <2>1. \A r \in LRT \ {GRTIx} : Active(r)' \/ Token(r)' <=> (Active(r) \/ Token(r)) /\ r # p
        BY <1>2
    <2> QED
        BY <1>2, <2>1 DEF Pending
<1>5. IsFiniteSet(A) /\ IsFiniteSet(P)
    BY LRTFinite, FS_Subset DEF Pending
<1>6. Cardinality(A) = Cardinality(P)
    BY <1>1 DEF BarrierInv
<1> HIDE DEF A, B, P, Q
<1>7. Cardinality(A \ {i}) = Cardinality(A) - 1 /\ Cardinality(P \ {p}) = Cardinality(P) - 1
    BY <1>3, <1>4, <1>5, FS_RemoveElement
<1>8. Cardinality(B) = Cardinality(Q)
    BY <1>3, <1>4, <1>6, <1>7
<1>9. Cardinality({r \in LRT : ~finishedRunner'[r]}) = Cardinality(Pending')
    BY <1>8 DEF B, Q
<1>10. /\ pc'[GRTIx] = "Wait"
       /\ \A k \in DOMAIN notifVector' :
             notifVector'[k].type \notin ControlType /\ ~Finished(notifVector'[k])
    BY <1>1 DEF BarrierInv
<1> QED
    BY <1>2, <1>9, <1>10 DEF BarrierInv, Launched, Finished

\* What is set aside at the barrier is no report.
LEMMA SetAsideBarrier ==
    ASSUME TypeOK, SentInOrder, PhaseInv, JobsInv, BarrierInv, SetAside
    PROVE  BarrierInv'
<1> DEFINE h == Head(queue[GRTIx])
<1>1. /\ queue[GRTIx] # << >> /\ ~Finished(h) /\ pc[GRTIx] = "Wait"
      /\ queue' = [queue EXCEPT ![GRTIx] = Tail(@)] /\ outbox' = outbox
      /\ UNCHANGED <<runner, pc, finishedRunner>>
      /\ notifVector' = Append(notifVector, h)
    BY DEF SetAside, At, Finished, runnerVars
<1>2. h.type \notin ControlType
    BY SetAsideRound
<1>3. \A q \in LRT : Active(q)' <=> Active(q)
    BY <1>1, <1>2, PopActive, EndpointType
<1>4. /\ OnlyToGRT' /\ \A r \in LRT : TokenOnce(r)'
      /\ \A r \in LRT : TokenInOutbox(r)' <=> TokenInOutbox(r)
      /\ \A r \in LRT : TokenInQueue(r)' <=> TokenInQueue(r)
    BY <1>1, EndpointType, PopTokens
<1>5. \A r \in LRT : Token(r)' <=> Token(r)
    BY <1>4 DEF Token
<1>6. \A q \in LRT : TokenAfter(q)'
    <2> TAKE q \in LRT
    <2>1. TokenAfter(q)
        BY DEF BarrierInv
    <2> QED
        BY <1>1, <1>3, <1>4, <1>5, <2>1 DEF TokenAfter
<1>7. Pending' = Pending
    BY <1>3, <1>5 DEF Pending
<1>8. h \in Notification /\ notifVector \in Seq(Notification)
    BY <1>1, QueuePopped, EndpointType DEF TypeOK, GRTTypeOK
<1> HIDE DEF h
<1>9. \A k \in DOMAIN notifVector' :
             notifVector'[k].type \notin ControlType /\ ~Finished(notifVector'[k])
    <2> TAKE k \in DOMAIN notifVector'
    <2>1. \/ k \in DOMAIN notifVector /\ notifVector'[k] = notifVector[k]
          \/ notifVector'[k] = h
        BY <1>1, <1>8, AppendOf
    <2> QED
        BY <1>1, <1>2, <2>1 DEF BarrierInv
<1>10. pc'[GRTIx] = "Wait" /\ Cardinality({r \in LRT : ~finishedRunner'[r]}) = Cardinality(Pending')
    BY <1>1, <1>7 DEF BarrierInv
<1> QED
    BY <1>4, <1>6, <1>9, <1>10 DEF BarrierInv, Launched, Finished

\* The GRT reads a parameter.
LEMMA ReadParamBarrier ==
    ASSUME TypeOK, SentInOrder, BarrierInv, ReadParam
    PROVE  BarrierInv'
<1>1. /\ queue[ParamQueue] # << >>
      /\ queue' = [queue EXCEPT ![ParamQueue] = Tail(@)] /\ outbox' = outbox
      /\ UNCHANGED <<runner, pc, finishedRunner, notifVector>>
    BY DEF ReadParam, Pop, runnerVars
<1>2. ParamQueue \notin LRT /\ ParamQueue # GRTIx /\ ParamQueue \in Endpoint
    BY TaskAssumption, EndpointType DEF ParamQueue, LRT
<1>3. \A q \in LRT : Active(q)' <=> Active(q)
    BY <1>1, <1>2, PopActive
<1>4. /\ OnlyToGRT' /\ \A r \in LRT : TokenOnce(r)'
      /\ \A r \in LRT : TokenInOutbox(r)' <=> TokenInOutbox(r)
      /\ \A r \in LRT : TokenInQueue(r)' <=> TokenInQueue(r)
    BY <1>1, <1>2, PopTokens
<1>5. \A q \in LRT : q # GRTIx /\ outbox'[q] # << >> =>
                        runner'[q].start \/ TokenInOutbox(q)'
    BY <1>1, <1>4 DEF BarrierInv, TokenAfter
<1>6. \A q \in LRT : Token(q)' <=> Token(q)
    BY <1>4 DEF Token
<1> QED
    BY <1>1, <1>3, <1>4, <1>5, <1>6, BarrierSame DEF PhaseStays

\* A step that leaves queues, runners and counts leaves the barrier.
LEMMA NothingChangesBarrier ==
    ASSUME BarrierInv, UNCHANGED <<commVars, runnerVars>>,
           UNCHANGED <<finishedRunner, notifVector>>
    PROVE  BarrierInv'
<1>1. queue' = queue /\ outbox' = outbox /\ runner' = runner /\ pc' = pc
    BY DEF commVars, runnerVars
<1>2. \A q \in LRT : Active(q)' <=> Active(q)
    BY <1>1 DEF Active, Expects, Coming, InQueue, ToPush
<1>3. \A q \in LRT : /\ TokenInOutbox(q)' <=> TokenInOutbox(q)
                     /\ Token(q)' <=> Token(q)
                     /\ TokenOnce(q)'
    BY <1>1, SameTokens DEF BarrierInv
<1>4. OnlyToGRT'
    BY <1>1 DEF BarrierInv, OnlyToGRT, Finished
<1>5. \A q \in LRT : q # GRTIx /\ outbox'[q] # << >> =>
                        runner'[q].start \/ TokenInOutbox(q)'
    BY <1>1, <1>3 DEF BarrierInv, TokenAfter
<1> QED
    BY <1>1, <1>2, <1>3, <1>4, <1>5, BarrierSame DEF PhaseStays

-----------------------------------------------------------------------------
NoToken(s) == \A b \in DOMAIN s : ~Finished(s[b].note)

\* What the GRT broadcasts reports nothing.
LEMMA NoTokens ==
    /\ NoToken(<< >>)
    /\ \A R, n : ~Finished(n) => NoToken(ToEach(R, n))
<1>1. NoToken(<< >>)
    BY DEF NoToken
<1>2. ASSUME NEW R, NEW n, ~Finished(n) PROVE NoToken(ToEach(R, n))
    <2>1. CASE R = {}
        BY <1>1, <2>1, ToEachOf
    <2>2. CASE R # {}
        <3>1. ToEach(R, n) = <<[note |-> n, to |-> R]>>
            BY <2>2, ToEachOf
        <3> QED
            BY <1>2, <3>1 DEF NoToken
    <2> QED
        BY <2>1, <2>2
<1> QED
    BY <1>1, <1>2

\* Nor do two loops.
LEMMA NoTwoTokens ==
    ASSUME NEW R1 \in SUBSET Endpoint, NEW R2 \in SUBSET Endpoint,
           NEW n1 \in Notification, NEW n2 \in Notification,
           ~Finished(n1), ~Finished(n2)
    PROVE  NoToken(ToEach(R1, n1) \o ToEach(R2, n2))
<1> DEFINE s == ToEach(R1, n1) \o ToEach(R2, n2)
<1>1. AreBatches(s, R1, n1, R2, n2)
    BY TwoBatches
<1> HIDE DEF s
<1>2. ASSUME NEW b \in DOMAIN s PROVE s[b].note \in {n1, n2}
    BY <1>1 DEF AreBatches
<1>3. NoToken(s)
    BY <1>2 DEF NoToken
<1> QED
    BY <1>3 DEF s

\* Nobody waits for a token while the GRT sends or rests.
LEMMA IdleBarrier ==
    ASSUME TypeOK, BarrierInv, NEW label, label \notin Launched, pc[GRTIx] \notin Launched,
           NEW s, GRTGoes(label, s), NoToken(s), UNCHANGED <<finishedRunner, notifVector>>
    PROVE  BarrierInv'
<1>1. /\ Ready(GRTIx) /\ queue' = queue /\ outbox' = [outbox EXCEPT ![GRTIx] = s]
      /\ runner' = runner /\ pc'[GRTIx] = label /\ GRTIx \in LRT
      /\ \A q \in LRT \ {GRTIx} : outbox'[q] = outbox[q]
    BY GRTAssumption DEF GRTGoes, TypeOK, CommTypeOK, RunnerTypeOK
<1>2. /\ OnlyToGRT' /\ \A q \in LRT : TokenOnce(q)'
      /\ \A q \in LRT : TokenInOutbox(q)' <=> TokenInOutbox(q)
      /\ \A q \in LRT : Token(q)' <=> Token(q)
    BY <1>1, SentOther DEF NoToken
<1>3. \A q \in LRT : TokenAfter(q)'
    <2> TAKE q \in LRT
    <2>1. TokenAfter(q)
        BY DEF BarrierInv
    <2>2. ~Token(q)'
        BY <1>2, <2>1 DEF TokenAfter
    <2> QED
        BY <1>1, <1>2, <2>1, <2>2 DEF TokenAfter
<1>4. pc'[GRTIx] \notin Launched /\ pc'[GRTIx] # "Wait" /\ pc[GRTIx] # "Wait"
    BY <1>1 DEF Launched
<1>5. DOMAIN notifVector' = {} /\ notifVector' = << >>
    BY <1>4 DEF BarrierInv
<1>6. \A r \in LRT : ~finishedRunner'[r]
    BY DEF BarrierInv
<1> QED
    BY <1>2, <1>3, <1>4, <1>5, <1>6 DEF BarrierInv

\* Calls and returns of run() keep the barrier.
LEMMA CallBarrier ==
    ASSUME TypeOK, SentInOrder, BarrierInv,
           (\E c \in Context : CallRun(c)) \/ RunReturns \/ Quit \/ Join \/ EndExecute
    PROVE  BarrierInv'
<1>1. ASSUME NEW type \in ControlType PROVE NoToken(ToAll(type))
    <2>1. ~Finished(Notify(type, GRTIx, NoStamp))
        BY <1>1 DEF Finished, Notify, ControlType, Resets
    <2> QED
        BY <2>1, NoTokens DEF ToAll
<1>2. "App" \notin Launched /\ "Execute" \notin Launched /\ "Join" \notin Launched
      /\ "Exited" \notin Launched /\ "Params" \notin Launched
    BY DEF Launched
<1>3. CASE \E c \in Context : CallRun(c)
    <2>1. GRTGoes("Execute", << >>)
        BY <1>3, GRTStays DEF CallRun, At, GoTo
    <2> QED
        BY <1>2, <1>3, <2>1, NoTokens, IdleBarrier DEF CallRun, At
<1>4. CASE RunReturns
    <2> DEFINE s == IF RunMode[context] = "LOOP" THEN ToAll("LRT_CLEAR_ITERATION") ELSE << >>
    <2>1. NoToken(s)
        BY <1>1, NoTokens DEF ControlType, Resets
    <2>2. GRTGoes("App", s) /\ pc[GRTIx] = "Execute" /\ UNCHANGED <<finishedRunner, notifVector>>
        BY <1>4 DEF RunReturns, At, GoTo, GRTGoes, grtVars
    <2> HIDE DEF s
    <2> QED
        BY <1>2, <2>1, <2>2, IdleBarrier
<1>5. CASE Quit
    <2>1. NoToken(ToAll("LRT_STOP"))
        BY <1>1 DEF ControlType
    <2>2. /\ GRTGoes("Join", ToAll("LRT_STOP")) /\ pc[GRTIx] = "App"
          /\ UNCHANGED <<finishedRunner, notifVector>>
        BY <1>5 DEF Quit, At, GoTo, GRTGoes, grtVars
    <2> QED
        BY <1>2, <2>1, <2>2, IdleBarrier
<1>6. CASE Join
    <2>1. GRTGoes("Exited", << >>) /\ pc[GRTIx] = "Join" /\ UNCHANGED <<finishedRunner, notifVector>>
        BY <1>6, GRTStays DEF Join, At, GoTo, grtVars
    <2> QED
        BY <1>2, <2>1, NoTokens, IdleBarrier
<1>7. CASE EndExecute
    <2> DEFINE s == IF IsStatic THEN ToAll("LRT_RST_ITERATION") ELSE ToAll("LRT_CLEAR_ITERATION")
    <2>1. NoToken(s)
        BY <1>1 DEF ControlType, Resets
    <2>2. /\ GRTGoes("Execute", s) /\ pc[GRTIx] = "Params"
          /\ UNCHANGED <<finishedRunner, notifVector>>
        BY <1>7 DEF EndExecute, At, GoTo, GRTGoes
    <2> HIDE DEF s
    <2> QED
        BY <1>2, <2>1, <2>2, IdleBarrier
<1> QED
    BY <1>3, <1>4, <1>5, <1>6, <1>7

\* A round starts with nobody finished.
LEMMA StartBarrier ==
    ASSUME TypeOK, BarrierInv, Execute \/ NextRound
    PROVE  BarrierInv'
<1> DEFINE n1 == GRTNote("LRT_REPEAT_ITERATION_EN")
           n2 == GRTNote("LRT_START_ITERATION")
           R1 == IF context \in StaticContext /\ ~iter[context] THEN LRT ELSE {}
           s == ToEach(R1, n1) \o ToEach(LRT, n2)
<1>1. /\ n1 \in Notification /\ ~Finished(n1) /\ n2 \in Notification /\ ~Finished(n2)
      /\ R1 \in SUBSET Endpoint /\ LRT \in SUBSET Endpoint
    BY GRTNotes, EndpointType DEF ControlType, Finished
<1>2. /\ pc[GRTIx] \in {"Execute", "Params"} /\ GRTGoes("Launch", s)
      /\ UNCHANGED <<finishedRunner, notifVector>>
    <2>1. ToEach(R1, n1) = IF context \in StaticContext /\ ~iter[context]
                           THEN ToAll("LRT_REPEAT_ITERATION_EN") ELSE << >>
        BY ToEachOf DEF ToAll, GRTNote
    <2>2. ToEach(LRT, n2) = ToAll("LRT_START_ITERATION")
        BY DEF ToAll, GRTNote
    <2> HIDE DEF R1, n1, n2
    <2> QED
        BY <2>1, <2>2 DEF Execute, NextRound, At, StartRound, GRTGoes, GoTo
<1> HIDE DEF n1, n2, R1
<1>3. NoToken(s)
    BY <1>1, NoTwoTokens
<1>4. "Launch" \notin Launched /\ pc[GRTIx] \notin Launched
    BY <1>2 DEF Launched
<1> HIDE DEF s
<1> QED
    BY <1>2, <1>3, <1>4, IdleBarrier

\* Sending a task keeps the barrier.
LEMMA LaunchTaskBarrier ==
    ASSUME TypeOK, BarrierInv, NEW t \in Task, LaunchTask(t)
    PROVE  BarrierInv'
<1> DEFINE m == Notify("JOB_ADD", GRTIx, t)
<1>1. ~Finished(m)
    BY DEF Notify, Finished
<1>2. /\ pc[GRTIx] = "Launch" /\ GRTGoes("Launch", ToEach({MappedLRT[t]}, m))
      /\ UNCHANGED <<finishedRunner, notifVector>>
    <2>1. pc' = [pc EXCEPT ![GRTIx] = "Launch"]
        BY DEF LaunchTask, At, runnerVars, TypeOK, RunnerTypeOK
    <2> QED
        BY <2>1 DEF LaunchTask, At, runnerVars, GRTGoes
<1> HIDE DEF m
<1>3. NoToken(ToEach({MappedLRT[t]}, m)) /\ "Launch" \notin Launched
    BY <1>1, NoTokens DEF Launched
<1> QED
    BY <1>2, <1>3, IdleBarrier

\* All the runners have the round to close.
LEMMA EndLaunchBarrier ==
    ASSUME TypeOK, SentInOrder, PhaseInv, JobsInv, BarrierInv, EndLaunch
    PROVE  BarrierInv'
<1> DEFINE n1 == GRTNote("JOB_DELAY_BROADCAST_JOBSTAMP")
           n2 == GRTNote("LRT_END_ITERATION")
           R1 == IF IsStatic THEN {} ELSE LRT
           s == ToEach(R1, n1) \o ToEach(LRT, n2)
<1>1. /\ n1 \in Notification /\ ~Finished(n1) /\ n2 \in Notification /\ ~Finished(n2)
      /\ R1 \in SUBSET Endpoint /\ LRT \in SUBSET Endpoint
    BY GRTNotes, EndpointType DEF ControlType, Finished
<1>2. /\ pc[GRTIx] = "Launch" /\ GRTGoes("Read", s)
      /\ UNCHANGED <<finishedRunner, notifVector>>
    <2>1. ToEach(R1, n1) = IF IsStatic THEN << >> ELSE ToAll("JOB_DELAY_BROADCAST_JOBSTAMP")
        BY ToEachOf DEF ToAll, GRTNote
    <2>2. ToEach(LRT, n2) = ToAll("LRT_END_ITERATION")
        BY DEF ToAll, GRTNote
    <2> HIDE DEF R1, n1, n2
    <2> QED
        BY <2>1, <2>2 DEF EndLaunch, At, GoTo, GRTGoes, grtVars
<1> HIDE DEF n1, n2, R1
<1>3. NoToken(s)
    BY <1>1, NoTwoTokens
<1> HIDE DEF s
<1>4. /\ Ready(GRTIx) /\ queue' = queue /\ outbox' = [outbox EXCEPT ![GRTIx] = s]
      /\ runner' = runner /\ pc'[GRTIx] = "Read" /\ GRTIx \in LRT
      /\ \A q \in LRT \ {GRTIx} : outbox'[q] = outbox[q]
    BY <1>2, GRTAssumption DEF GRTGoes, TypeOK, CommTypeOK, RunnerTypeOK
<1>5. /\ OnlyToGRT' /\ \A q \in LRT : TokenOnce(q)'
      /\ \A q \in LRT : TokenInOutbox(q)' <=> TokenInOutbox(q)
      /\ \A q \in LRT : Token(q)' <=> Token(q)
    BY <1>3, <1>4, SentOther DEF NoToken
<1>6. pc[GRTIx] \notin Launched /\ pc'[GRTIx] \in Launched \ {"Wait"} /\ pc[GRTIx] # "Wait"
    BY <1>2, <1>4 DEF Launched
<1>7. \A q \in LRT : TokenAfter(q)' /\ ~Token(q)'
    <2> TAKE q \in LRT
    <2>1. TokenAfter(q)
        BY DEF BarrierInv
    <2>2. ~Token(q)'
        BY <1>5, <1>6, <2>1 DEF TokenAfter
    <2> QED
        BY <1>4, <1>5, <2>1, <2>2 DEF TokenAfter
<1>8. \A r \in LRT : Active(r)'
    BY EndLaunchRound
<1>9. /\ DOMAIN notifVector' = {} /\ notifVector' = << >>
      /\ \A r \in LRT : ~finishedRunner'[r]
    BY <1>2, <1>6 DEF BarrierInv
<1> QED
    BY <1>4, <1>5, <1>6, <1>7, <1>8, <1>9 DEF BarrierInv, Launched

\* Nothing of the round is left when the GRT has waited.
LEMMA EndWaitBarrier ==
    ASSUME TypeOK, SentInOrder, PhaseInv, JobsInv, BarrierInv, EndWait
    PROVE  BarrierInv'
<1> DEFINE s == [i \in 1 .. Len(notifVector) |-> [note |-> notifVector[i], to |-> {GRTIx}]]
<1>1. /\ pc[GRTIx] = "Wait" /\ Ready(GRTIx) /\ AllFinished
      /\ queue' = queue /\ outbox' = [outbox EXCEPT ![GRTIx] = s] /\ runner' = runner
      /\ pc'[GRTIx] = "Params" /\ notifVector' = << >>
      /\ finishedRunner' = [r \in LRT |-> FALSE] /\ GRTIx \in LRT
      /\ \A q \in LRT \ {GRTIx} : outbox'[q] = outbox[q]
    BY GRTAssumption DEF EndWait, At, GoTo, TypeOK, CommTypeOK, RunnerTypeOK
<1>2. /\ Pending = {} /\ \A r \in LRT : ~runner[r].start /\ ~Active(r)
    BY <1>1, AllClosed
<1>3. \A b \in DOMAIN s : ~Finished(s[b].note)
    <2>1. DOMAIN notifVector = 1 .. Len(notifVector)
        BY LenProperties DEF TypeOK, GRTTypeOK
    <2> QED
        BY <2>1 DEF BarrierInv
<1> HIDE DEF s
<1>4. /\ OnlyToGRT' /\ \A q \in LRT : TokenOnce(q)'
      /\ \A q \in LRT : TokenInOutbox(q)' <=> TokenInOutbox(q)
      /\ \A q \in LRT : Token(q)' <=> Token(q)
    BY <1>1, <1>3, SentOther
<1>5. \A q \in LRT : ~Token(q)
    <2> TAKE q \in LRT
    <2>1. CASE q = GRTIx
        BY <2>1 DEF BarrierInv, TokenAfter
    <2>2. CASE q # GRTIx
        BY <1>2, <2>2 DEF Pending
    <2> QED
        BY <2>1, <2>2
<1>6. \A q \in LRT : TokenAfter(q)'
    <2> TAKE q \in LRT
    <2>1. TokenAfter(q) /\ ~Token(q)'
        BY <1>4, <1>5 DEF BarrierInv
    <2> QED
        BY <1>1, <1>4, <2>1 DEF TokenAfter
<1>7. pc'[GRTIx] \notin Launched /\ pc'[GRTIx] # "Wait" /\ DOMAIN notifVector' = {}
      /\ \A r \in LRT : ~finishedRunner'[r]
    BY <1>1 DEF Launched
<1> QED
    BY <1>1, <1>4, <1>6, <1>7 DEF BarrierInv

-----------------------------------------------------------------------------
(* The invariant of the rounds                                             *)

\* At the start there is no round.
LEMMA InitRoundInv == Init => RoundInv
<1> SUFFICES ASSUME Init PROVE RoundInv
    OBVIOUS
<1>1. TypeOK
    BY InitTypeOK
<1>2. /\ \A e \in Endpoint : queue[e] = << >>
      /\ \A r \in LRT : /\ outbox[r] = << >> /\ runner[r] = InitialRunner
                        /\ ~finishedRunner[r]
                        /\ pc[r] = IF r = GRTIx THEN "App" ELSE "Read"
      /\ pc[GRTIx] = "App" /\ LRT \subseteq Endpoint /\ GRTIx \in LRT
    BY EndpointType DEF Init, CommInit
<1>3. /\ executing = FALSE /\ context = None /\ toLaunch = {} /\ notifVector = << >>
      /\ \A c \in Context : ~iter[c]
    BY DEF Init
<1>4. \A r \in LRT : /\ runner[r].start = FALSE /\ runner[r].finished = TRUE
                     /\ runner[r].receivedEnd = FALSE /\ runner[r].shouldBroadcast = FALSE
                     /\ runner[r].repeat = FALSE /\ runner[r].jobQueue = << >>
    BY <1>2 DEF InitialRunner
<1>5. \A r \in LRT : Coming(r) = {}
    BY <1>2 DEF Coming, InQueue, ToPush
<1>6. \A r \in LRT : (\A type : ~Expects(r, type)) /\ ~Active(r)
    BY <1>4, <1>5 DEF Expects, Active
<1>7. ~InRound /\ pc[GRTIx] \notin Launched
    BY <1>2 DEF InRound, Launched
<1>8. SentInOrder
    BY <1>2 DEF SentInOrder, Ready
<1>9. PhaseInv
    BY <1>2, <1>3, <1>4, <1>5, <1>6, <1>7
    DEF PhaseInv, GRTInPhase, ComingInPhase, RunnerInPhase
<1>10. CallInv /\ DoneInv
    BY <1>2, <1>3, ContextAssumption DEF CallInv, DoneInv
<1>11. \A r \in LRT : JobsOfRound(r) /\ KeptInv(r)
    <2> TAKE r \in LRT
    <2>1. Queued(r) = {} /\ Kept(r) = {}
        BY <1>3, <1>4, ContextAssumption DEF Queued, Kept
    <2>2. JobsOfRound(r)
        BY <1>4, <1>7 DEF JobsOfRound
    <2>3. KeptInv(r)
        BY <1>3, <1>4, <1>6, <2>1, ContextAssumption DEF KeptInv
    <2> QED
        BY <2>2, <2>3
<1>12. \A r \in LRT : ~TokenInQueue(r) /\ ~TokenInOutbox(r) /\ ~Token(r)
    BY <1>2 DEF TokenInQueue, TokenInOutbox, Token
<1>13. \A r \in LRT : TokenOnce(r) /\ TokenAfter(r)
    BY <1>2, <1>12 DEF TokenOnce, TokenAfter
<1>14. OnlyToGRT
    BY <1>2 DEF OnlyToGRT
<1>15. BarrierInv
    BY <1>2, <1>3, <1>7, <1>13, <1>14 DEF BarrierInv, Launched
<1> QED
    BY <1>1, <1>8, <1>9, <1>10, <1>11, <1>15 DEF RoundInv, JobsInv

\* A runner steps.
LEMMA RunnerStepRound ==
    ASSUME SupportedUse, RoundInv, TypeOK', UNCHANGED grtVars,
           NEW r \in LRT, RunnerStep(r)
    PROVE  RoundInv'
<1>1. TypeOK /\ SentInOrder /\ PhaseInv /\ JobsInv /\ BarrierInv
    BY DEF RoundInv
<1>2. CASE Push(r) /\ UNCHANGED runnerVars
    <2>1. SentInOrder' /\ PhaseInv' /\ JobsInv'
        BY <1>1, <1>2, PushRound
    <2>2. BarrierInv'
        BY <1>1, <1>2, PushBarrier
    <2> QED
        BY <2>1, <2>2 DEF RoundInv
<1>3. CASE ReadNotification(r)
    <2>1. SentInOrder' /\ PhaseInv' /\ JobsInv'
        BY <1>1, <1>3, ReadStartRound, ReadEndRound, ReadClearRound, ReadResetRound,
           ReadRepeatRound, ReadStopRound, ReadJobAddRound, ReadDelayRound,
           ReadJobStampRound DEF ReadNotification
    <2>2. BarrierInv'
        BY <1>1, <1>3, <2>1, ReadBarrier
    <2> QED
        BY <2>1, <2>2 DEF RoundInv
<1>4. CASE NothingToRead(r) \/ StartJob(r) \/ WaitJob(r) \/ NoJob(r) \/ Continue(r)
    <2>1. SentInOrder' /\ PhaseInv' /\ JobsInv'
        BY <1>1, <1>4, NothingToReadRound, StartJobRound, WaitJobRound, NoJobRound,
           ContinueRound
    <2>2. BarrierInv'
        BY <1>1, <1>4, <2>1, LoopBarrier
    <2> QED
        BY <2>1, <2>2 DEF RoundInv
<1>5. CASE EndJob(r)
    <2>1. SentInOrder' /\ PhaseInv' /\ JobsInv'
        BY <1>1, <1>5, EndJobRound
    <2>2. BarrierInv'
        BY <1>1, <1>5, <2>1, EndJobBarrier
    <2> QED
        BY <2>1, <2>2 DEF RoundInv
<1>6. CASE FinishIteration(r)
    <2>1. PICK s \in Seq(Batch) : Closes(r, s)
        BY <1>1, <1>6, FinishIterationCloses
    <2>2. SentInOrder' /\ PhaseInv' /\ JobsInv'
        BY <1>1, <2>1, ClosingRound
    <2>3. BarrierInv'
        BY <1>1, <2>1, ClosingBarrier
    <2> QED
        BY <2>2, <2>3 DEF RoundInv
<1> QED
    BY <1>2, <1>3, <1>4, <1>5, <1>6 DEF RunnerStep

\* The GRT steps.
LEMMA GRTStepRound ==
    ASSUME SupportedUse, RoundInv, TypeOK', GRTStep
    PROVE  RoundInv'
<1>1. TypeOK /\ SentInOrder /\ PhaseInv /\ JobsInv /\ BarrierInv
    BY DEF RoundInv
<1>2. SentInOrder' /\ PhaseInv' /\ JobsInv'
    <2>1. CASE LeaveRun
        BY <1>1, <2>1, LeaveRunCloses, ClosingRound, GRTAssumption
    <2>2. CASE RunReturns \/ Execute \/ NextRound \/ EndExecute \/ Join
        BY <1>1, <2>2, RunReturnsRound, ExecuteRound, NextRoundRound, EndExecuteRound,
           JoinRound
    <2>3. CASE \/ \E t \in Task : LaunchTask(t)
               \/ EndLaunch \/ EndWait
        BY <1>1, <2>3, LaunchTaskRound, EndLaunchRound, EndWaitRound
    <2>4. CASE \/ ReadFinished \/ SetAside \/ ReadParam
               \/ \E i \in LRT : WaitFinished(i)
        BY <1>1, <2>4, ReadFinishedRound, SetAsideRound, ReadParamRound, WaitFinishedRound
    <2> QED
        BY <2>1, <2>2, <2>3, <2>4 DEF GRTStep
<1>3. BarrierInv'
    <2>1. CASE LeaveRun
        BY <1>1, <2>1, LeaveRunCloses, ClosingBarrier, GRTAssumption
    <2>2. CASE RunReturns \/ Join \/ EndExecute
        BY <1>1, <2>2, CallBarrier
    <2>3. CASE Execute \/ NextRound
        BY <1>1, <2>3, StartBarrier
    <2>4. CASE \/ \E t \in Task : LaunchTask(t)
               \/ EndLaunch \/ EndWait
        BY <1>1, <2>4, LaunchTaskBarrier, EndLaunchBarrier, EndWaitBarrier
    <2>5. CASE \/ ReadFinished \/ SetAside \/ ReadParam
               \/ \E i \in LRT : WaitFinished(i)
        BY <1>1, <2>5, ReadFinishedBarrier, SetAsideBarrier, ReadParamBarrier,
           WaitFinishedBarrier
    <2> QED
        BY <2>1, <2>2, <2>3, <2>4, <2>5 DEF GRTStep
<1> QED
    BY <1>2, <1>3 DEF RoundInv

\* Every step keeps the invariant of the rounds.
LEMMA NextRoundInv ==
    ASSUME SupportedUse, RoundInv, [Next]_vars
    PROVE  RoundInv'
<1>1. TypeOK /\ SentInOrder /\ PhaseInv /\ JobsInv /\ BarrierInv
    BY DEF RoundInv
<1>2. TypeOK'
    BY <1>1, NextTypeOK
<1>3. CASE \E r \in LRT : RunnerStep(r) /\ UNCHANGED grtVars
    BY <1>2, <1>3, RunnerStepRound
<1>4. CASE GRTStep
    BY <1>2, <1>4, GRTStepRound
<1>5. CASE (\E c \in Context : CallRun(c)) \/ Quit
    <2>1. SentInOrder' /\ PhaseInv' /\ JobsInv'
        BY <1>1, <1>5, CallRunRound, QuitRound
    <2>2. BarrierInv'
        BY <1>1, <1>5, CallBarrier
    <2> QED
        BY <1>2, <2>1, <2>2 DEF RoundInv
<1>6. CASE Interrupt \/ Terminated \/ UNCHANGED vars
    <2>1. /\ UNCHANGED <<commVars, runnerVars>>
          /\ UNCHANGED <<context, round, toLaunch, executing, iter, runs>>
          /\ UNCHANGED <<finishedRunner, notifVector>>
        BY <1>6 DEF Interrupt, Terminated, vars, grtVars
    <2>2. SentInOrder' /\ PhaseInv' /\ JobsInv'
        BY <1>1, <2>1, NothingChangesRound
    <2>3. BarrierInv'
        BY <1>1, <2>1, NothingChangesBarrier
    <2> QED
        BY <1>2, <2>2, <2>3 DEF RoundInv
<1> QED
    BY <1>3, <1>4, <1>5, <1>6 DEF Next

\* The rounds are sent, executed and closed in step, whatever the interleaving
\* of the threads and whatever the number of LRTs, the graphs and the mapping.
THEOREM RoundInvariant ==
    ASSUME SupportedUse
    PROVE  Spec => []RoundInv
<1>1. Spec => Init /\ [][Next]_vars
    BY DEF Spec
<1>2. Init => RoundInv
    BY InitRoundInv
<1>3. RoundInv /\ [Next]_vars => RoundInv'
    BY NextRoundInv
<1> QED
    BY <1>1, <1>2, <1>3, PTL

-----------------------------------------------------------------------------
(* What it shows of the runtime                                            *)

\* In a round in order, no notification finds a runner in another state.
LEMMA RoundProtocol == RoundInv => ProtocolRespected
<1> SUFFICES ASSUME RoundInv, NEW r \in LRT
             PROVE  /\ pc[r] # "Thrown"
                    /\ Reading(r) /\ queue[r] # << >> =>
                          CASE Head(queue[r]).type = "LRT_START_ITERATION" -> runner[r].finished
                            [] Head(queue[r]).type = "JOB_ADD" -> runner[r].start
                            [] OTHER -> TRUE
    BY DEF ProtocolRespected
<1>1. TypeOK /\ SentInOrder /\ PhaseInv
    BY DEF RoundInv
<1>2. ComingInPhase(r) /\ RunnerInPhase(r)
    BY <1>1 DEF PhaseInv
<1>3. pc[r] # "Thrown"
    BY <1>2 DEF RunnerInPhase
<1>4. queue[r] # << >> /\ Head(queue[r]).type = "LRT_START_ITERATION" => runner[r].finished
    <2> SUFFICES ASSUME queue[r] # << >>, Head(queue[r]).type = "LRT_START_ITERATION"
                 PROVE  runner[r].finished
        OBVIOUS
    <2>1. Head(queue[r]) \in Coming(r)
        BY <1>1, HeadFirst DEF ControlType
    <2> QED
        BY <1>2, <2>1 DEF ComingInPhase, RunnerInPhase
<1>5. queue[r] # << >> /\ Head(queue[r]).type = "JOB_ADD" => runner[r].start
    BY <1>1, StartedForJobs
<1> QED
    BY <1>3, <1>4, <1>5

\* In a round in order, the barrier is sound.
LEMMA RoundBarrier == RoundInv => BarrierSound
<1> SUFFICES ASSUME RoundInv, pc[GRTIx] = "Params" PROVE BarrierSound
    BY DEF BarrierSound
<1>1. TypeOK /\ SentInOrder /\ PhaseInv /\ JobsInv /\ BarrierInv
    BY DEF RoundInv
<1>2. ~InRound /\ executing /\ pc[GRTIx] \notin Launched
    BY <1>1 DEF InRound, Launched, PhaseInv, GRTInPhase
<1>3. {t \in TasksOf(context) : RoundOf[t] <= round} \subseteq done
    <2>1. \A t \in TasksOf(context) : RoundOf[t] \in Int /\ round \in Int
        BY <1>1, TaskAssumption DEF TasksOf, TypeOK, GRTTypeOK
    <2> QED
        BY <1>1, <1>2, <2>1 DEF JobsInv, DoneInv, TasksOfRound
<1>4. ASSUME NEW r \in LRT
      PROVE  /\ runner[r].finished /\ ~runner[r].start
             /\ \A i \in 1 .. Len(queue[r]) :
                   queue[r][i].type \notin {"LRT_START_ITERATION", "JOB_ADD",
                       "LRT_END_ITERATION", "LRT_FINISHED_ITERATION"}
    <2>1. Coming(r) = {} /\ ~runner[r].start
        BY <1>1, <1>2, BetweenRounds
    <2>2. runner[r].finished
        BY <1>1, <2>1 DEF PhaseInv, RunnerInPhase
    <2>3. ASSUME NEW i \in 1 .. Len(queue[r])
          PROVE  queue[r][i].type \notin {"LRT_START_ITERATION", "JOB_ADD",
                       "LRT_END_ITERATION", "LRT_FINISHED_ITERATION"}
        <3>1. /\ i \in DOMAIN queue[r] /\ queue[r][i] \in Notification
            BY <1>1, Places, EndpointType, ElementOfSeq
        <3>2. queue[r][i].type \notin ControlType
            BY <2>1, <3>1, ComingOf
        <3>3. ~Finished(queue[r][i])
            <4>1. CASE r = GRTIx
                <5>1. queue[r][i].senderIx \in LRT
                    BY <3>1 DEF Notification
                <5>2. ~Token(queue[r][i].senderIx)
                    BY <1>1, <1>2, <5>1 DEF BarrierInv, TokenAfter
                <5> QED
                    BY <3>1, <4>1, <5>2 DEF Token, TokenInQueue
            <4>2. CASE r # GRTIx
                BY <1>1, <3>1, <4>2 DEF BarrierInv, OnlyToGRT
            <4> QED
                BY <4>1, <4>2
        <3> QED
            BY <3>2, <3>3 DEF ControlType, Finished
    <2> QED
        BY <2>1, <2>2, <2>3
<1> QED
    BY <1>3, <1>4 DEF BarrierSound

\* After the last round every task has been executed.
LEMMA RoundComplete == RoundInv => IterationComplete
<1> SUFFICES ASSUME RoundInv, pc[GRTIx] = "Params", round = Rounds[context],
                    NEW t \in TasksOf(context)
             PROVE  t \in done
    BY DEF IterationComplete
<1>1. {s \in TasksOf(context) : RoundOf[s] <= round} \subseteq done
    BY RoundBarrier DEF BarrierSound
<1>2. RoundOf[t] <= round
    BY ContextAssumption DEF TasksOf
<1> QED
    BY <1>1, <1>2

\* Only StartJob enters a kernel.
LEMMA EntersKernel ==
    ASSUME TypeOK, [Next]_vars, NEW r \in LRT, pc[r] # "Kernel", pc'[r] = "Kernel"
    PROVE  StartJob(r) /\ UNCHANGED grtVars
<1>1. ASSUME NEW q \in LRT, NEW label, label # "Kernel", pc' = [pc EXCEPT ![q] = label]
      PROVE  FALSE
    BY <1>1 DEF TypeOK, RunnerTypeOK
<1>2. ASSUME NEW q \in LRT, RunnerStep(q), UNCHANGED grtVars
      PROVE  StartJob(r)
    <2>1. CASE q = r
        <3>1. ~(Push(q) /\ UNCHANGED runnerVars)
            BY DEF runnerVars
        <3>2. ~ReadNotification(q)
            BY <1>1, <2>1 DEF ReadNotification, ReadStart, ReadEnd, ReadClear, ReadReset,
               ReadRepeat, ReadStop, ReadJobAdd, ReadDelayBroadcast, ReadJobStamp
        <3>3. /\ ~NothingToRead(q) /\ ~WaitJob(q) /\ ~NoJob(q) /\ ~EndJob(q)
              /\ ~FinishIteration(q) /\ ~Continue(q)
            BY <1>1 DEF NothingToRead, WaitJob, NoJob, EndJob, FinishIteration, Continue
        <3> QED
            BY <1>2, <2>1, <3>1, <3>2, <3>3 DEF RunnerStep
    <2>2. CASE q # r
        <3>1. pc'[r] = pc[r]
            <4>1. \/ pc' = pc
                  \/ \E label \in RunnerPC : pc' = [pc EXCEPT ![q] = label]
                BY <1>2, RunnerStepMoves
            <4> QED
                BY <2>2, <4>1 DEF TypeOK, RunnerTypeOK
        <3> QED
            BY <3>1
    <2> QED
        BY <2>1, <2>2
<1>3. GRTIx \in LRT
    BY GRTAssumption
<1>4. ~GRTStep
    <2>1. /\ ~RunReturns /\ ~Execute /\ ~EndLaunch /\ ~LeaveRun /\ ~EndWait
          /\ ~NextRound /\ ~EndExecute /\ ~Join
        BY <1>1, <1>3 DEF RunReturns, Execute, EndLaunch, LeaveRun, EndWait, NextRound,
           EndExecute, Join, GoTo, StartRound
    <2>2. /\ \A t \in Task : ~LaunchTask(t)
          /\ ~ReadFinished /\ ~SetAside /\ ~ReadParam
          /\ \A i \in LRT : ~WaitFinished(i)
        BY DEF LaunchTask, ReadFinished, SetAside, ReadParam, WaitFinished, runnerVars
    <2> QED
        BY <2>1, <2>2 DEF GRTStep
<1>5. ~(\E c \in Context : CallRun(c)) /\ ~Quit
    BY <1>1, <1>3 DEF CallRun, Quit, GoTo
<1>6. ~Interrupt /\ ~Terminated /\ ~UNCHANGED vars
    BY DEF Interrupt, Terminated, vars, runnerVars
<1> QED
    BY <1>2, <1>4, <1>5, <1>6 DEF Next

\* The job that enters its kernel is of the context, and not done yet.
LEMMA RoundFires ==
    ASSUME RoundInv, [Next]_vars, NEW r \in LRT, pc[r] # "Kernel", pc'[r] = "Kernel"
    PROVE  ContextOf[CurrentJob(r)] = context /\ CurrentJob(r) \notin done
<1>1. TypeOK /\ PhaseInv /\ JobsInv
    BY DEF RoundInv
<1>2. HasJob(r)
    BY <1>1, EntersKernel DEF StartJob
<1>3. runner[r].start /\ runner[r].jobQueueCurrentPos < Len(runner[r].jobQueue)
    <2>1. RunnerTypeOK
        BY <1>1 DEF TypeOK
    <2> QED
        BY <1>2, <2>1, RunnerFields DEF HasJob, RunnerTypeOK
<1>4. CurrentJob(r) \in RoundJobs(r) /\ CurrentJob(r) \notin done
    BY <1>1, <1>3, AtJob
<1> QED
    BY <1>4 DEF RoundJobs, TasksOfRound, TasksOf

\* A runner never throws, never drops a job and never pushes the start of an
\* iteration back behind its jobs.
THEOREM ProtocolAlwaysRespected ==
    ASSUME SupportedUse
    PROVE  Spec => []ProtocolRespected
BY RoundInvariant, RoundProtocol, PTL

\* waitForRunnersToFinish returns when all the work of the round is done, and
\* leaves no notification of the round in a queue.
THEOREM BarrierAlwaysSound ==
    ASSUME SupportedUse
    PROVE  Spec => []BarrierSound
BY RoundInvariant, RoundBarrier, PTL

\* An iteration of the graph executes all of its tasks.
THEOREM IterationsComplete ==
    ASSUME SupportedUse
    PROVE  Spec => []IterationComplete
BY RoundInvariant, RoundComplete, PTL

\* Each of them once, and none of another graph.
THEOREM TasksFireOnce ==
    ASSUME SupportedUse
    PROVE  Spec => FiresOnce
<1>1. Spec => [][Next]_vars
    BY DEF Spec
<1>2. RoundInv /\ [Next]_vars =>
          [\A r \in LRT : pc[r] # "Kernel" /\ pc'[r] = "Kernel" =>
              /\ ContextOf[CurrentJob(r)] = context
              /\ CurrentJob(r) \notin done]_vars
    BY RoundFires
<1> QED
    BY <1>1, <1>2, RoundInvariant, PTL DEF FiresOnce
=============================================================================
