------------------------------ MODULE Delivery ------------------------------
(***************************************************************************)
(* How the jobs of the resources allocator reach the runners, and the      *)
(* parameters of the configuration jobs come back: ThreadRTCommunicator    *)
(* over the containers of src/libspider/thread.                            *)
(*                                                                         *)
(* A message is pushed in the IndexedQueue that all the threads share,     *)
(* and the index of its slot in the notification Queue of the receiver.    *)
(* The receiver pops the notification, then the message at that index,     *)
(* which frees the slot for the next push.  Each push and each pop locks   *)
(* one of these containers: it is one step.                                *)
(*                                                                         *)
(* The other notifications, and the stamps a job waits for, are those of   *)
(* RTCommunicator and JITMSRTRunner: here a job may run once the jobs it   *)
(* waits for have run, and a round ends when every job has.                *)
(***************************************************************************)
EXTENDS ResourcesAllocator

CONSTANT Configs    \* the tasks of configuration actors, which send parameters

ASSUME ConfigsAssumption == Configs \subseteq Task

VARIABLES
    slots,          \* IndexedQueue::queue_ of the job and of the parameter messages
    freeIndex,      \* IndexedQueue::freeIndexQueue_ of the two
    notified,       \* the JOB_ADD notifications in notificationQueueArray_[lrt]
    paramNotified,  \* paramNotificationQueue_
    sending,        \* per thread of an LRT: the push it is in the middle of
    fetching,       \* per LRT: the index read in a notification, its slot not yet
    jobQueue,       \* RTRunner::jobQueue_
    jobsRun,        \* RTRunner::jobQueueCurrentPos_
    fetchingParam,  \* the same for the parameters, in the GRT
    received        \* the tasks whose parameters the GRT has received

queueVars == <<slots, freeIndex>>
jobVars == <<notified, fetching, jobQueue, jobsRun>>
paramVars == <<paramNotified, fetchingParam, received>>
deliveryVars == <<queueVars, jobVars, paramVars, sending>>
dvars == <<allocatorVars, deliveryVars>>

Kind == {"job", "param"}
GRT == GRTPE
Nothing == [stage |-> "none"]
NoIndex == 0    \* slots are numbered from 1
Moved == "moved from"

DInit ==
    /\ Init
    /\ slots = [k \in Kind |-> << >>]
    /\ freeIndex = [k \in Kind |-> << >>]
    /\ notified = [l \in LRT |-> << >>]
    /\ paramNotified = << >>
    /\ sending = [l \in LRT |-> Nothing]
    /\ fetching = [l \in LRT |-> NoIndex]
    /\ jobQueue = [l \in LRT |-> << >>]
    /\ jobsRun = [l \in LRT |-> 0]
    /\ fetchingParam = NoIndex
    /\ received = {}

-----------------------------------------------------------------------------
(* IndexedQueue                                                            *)

\* Mutant: the front of the free indices is used but stays in their queue.
PushSlot_Keep(kind, message) ==
    /\ IF freeIndex[kind] = << >>
       THEN slots' = [slots EXCEPT ![kind] = Append(@, message)]
       ELSE slots' = [slots EXCEPT ![kind][Head(freeIndex[kind])] = message]
    /\ UNCHANGED freeIndex

\* IndexedQueue::push: in the slot freed first, in a new one when none is free.
PushSlot(kind, message) ==
    IF freeIndex[kind] = << >>
    THEN /\ slots' = [slots EXCEPT ![kind] = Append(@, message)]
         /\ UNCHANGED freeIndex
    ELSE /\ slots' = [slots EXCEPT ![kind][Head(freeIndex[kind])] = message]
         /\ freeIndex' = [freeIndex EXCEPT ![kind] = Tail(@)]

\* The index that IndexedQueue::push returns.
PushedAt(kind) ==
    IF freeIndex[kind] = << >> THEN Len(slots[kind]) + 1 ELSE Head(freeIndex[kind])

\* IndexedQueue::pop
PopSlot(kind, ix) ==
    /\ slots' = [slots EXCEPT ![kind][ix] = Moved]
    /\ freeIndex' = [freeIndex EXCEPT ![kind] = Append(@, ix)]

-----------------------------------------------------------------------------
(* The GRT sends jobs                                                      *)

\* The GRT's thread schedules, maps and launches between two calls of the
\* communicator; it is a runner once the tasks of the round are launched.
GRTAllocates == sending[GRT] = Nothing /\ fetching[GRT] = NoIndex

RoundOver ==
    /\ \A l \in LRT : jobsRun[l] = Len(jobs[l]) /\ sending[l] = Nothing
    /\ received = {t \in Configs : RoundOf[t] <= round}

\* waitForRunnersToFinish, and the parameters are read, before the next round.
DSchedule ==
    /\ GRTAllocates
    /\ RoundOver
    /\ Schedule
    /\ UNCHANGED deliveryVars

DMap(t) ==
    /\ GRTAllocates
    /\ Map(t)
    /\ UNCHANGED deliveryVars

\* TaskLauncher::sendTask, up to its first push.
DLaunch(t) ==
    /\ GRTAllocates
    /\ Launch(t)
    /\ sending' = [sending EXCEPT ![GRT] =
          IF \E l \in LRT : jobs'[l] # jobs[l]
          THEN LET to == CHOOSE l \in LRT : jobs'[l] # jobs[l]
               IN  [stage |-> "message", kind |-> "job", to |-> to,
                    message |-> jobs'[to][Len(jobs'[to])]]
          ELSE Nothing]
    /\ UNCHANGED <<queueVars, jobVars, paramVars>>

\* communicator->push(message, lrt)
PushMessage(l) ==
    /\ sending[l].stage = "message"
    /\ PushSlot(sending[l].kind, sending[l].message)
    /\ sending' = [sending EXCEPT ![l] =
          [stage |-> "notification", kind |-> @.kind, to |-> @.to, ix |-> PushedAt(@.kind)]]
    /\ UNCHANGED <<allocatorVars, jobVars, paramVars>>

\* communicator->push(Notification{ JOB_ADD, grtIx, messageIx }, lrt), and
\* pushParamNotification
PushNotification(l) ==
    /\ sending[l].stage = "notification"
    /\ IF sending[l].kind = "job"
       THEN /\ notified' = [notified EXCEPT ![sending[l].to] = Append(@, sending[l].ix)]
            /\ UNCHANGED paramNotified
       ELSE /\ paramNotified' = Append(paramNotified, sending[l].ix)
            /\ UNCHANGED notified
    /\ sending' = [sending EXCEPT ![l] = Nothing]
    /\ UNCHANGED <<allocatorVars, queueVars, fetching, jobQueue, jobsRun, fetchingParam, received>>

-----------------------------------------------------------------------------
(* The runners                                                             *)

\* The thread of a runner is in its loop; the GRT's is while it has nothing left
\* to launch and has jobs left to run.
Running(l) ==
    /\ sending[l] = Nothing
    /\ l = GRT => toLaunch = {}

\* readNotification: the index is read, the message not yet.
ReadNotification(l) ==
    /\ Running(l)
    /\ fetching[l] = NoIndex
    /\ notified[l] # << >>
    /\ fetching' = [fetching EXCEPT ![l] = Head(notified[l])]
    /\ notified' = [notified EXCEPT ![l] = Tail(@)]
    /\ UNCHANGED <<allocatorVars, queueVars, paramVars, sending, jobQueue, jobsRun>>

\* JOB_ADD: the message is moved into the job queue.
FetchJob(l) ==
    /\ fetching[l] # NoIndex
    /\ PopSlot("job", fetching[l])
    /\ jobQueue' = [jobQueue EXCEPT ![l] = Append(@, slots["job"][fetching[l]])]
    /\ fetching' = [fetching EXCEPT ![l] = NoIndex]
    /\ UNCHANGED <<allocatorVars, paramVars, sending, notified, jobsRun>>

\* The jobs that a job waits for have run.
CanRun(job) ==
    \A c \in job.execConstraints :
        c.lrtToWait \in LRT => jobsRun[c.lrtToWait] > c.jobToWait

\* runJob, with the parameters it sends when the task is of a configuration actor.
RunJob(l) ==
    /\ Running(l)
    /\ fetching[l] = NoIndex
    /\ jobsRun[l] < Len(jobQueue[l])
    /\ LET job == jobQueue[l][jobsRun[l] + 1]
       IN  /\ CanRun(job)
           /\ IF job.taskIx \in Configs
              THEN sending' = [sending EXCEPT ![l] =
                      [stage |-> "message", kind |-> "param", to |-> GRT,
                       message |-> job.taskIx]]
              ELSE UNCHANGED sending
    /\ jobsRun' = [jobsRun EXCEPT ![l] = @ + 1]
    /\ UNCHANGED <<allocatorVars, queueVars, paramVars, notified, fetching, jobQueue>>

-----------------------------------------------------------------------------
(* The GRT receives parameters                                             *)

\* The runners have finished the round: one more parameter is expected.
ReadParamNotification ==
    /\ toLaunch = {}
    /\ GRTAllocates
    /\ \A l \in LRT : jobsRun[l] = Len(jobs[l])
    /\ fetchingParam = NoIndex
    /\ paramNotified # << >>
    /\ fetchingParam' = Head(paramNotified)
    /\ paramNotified' = Tail(paramNotified)
    /\ UNCHANGED <<allocatorVars, queueVars, jobVars, sending, received>>

\* The message at that index names the task that receives the values.
FetchParam ==
    /\ fetchingParam # NoIndex
    /\ PopSlot("param", fetchingParam)
    /\ received' = received \cup {slots["param"][fetchingParam]}
    /\ fetchingParam' = NoIndex
    /\ UNCHANGED <<allocatorVars, jobVars, paramNotified, sending>>

\* The runners are cleared with the schedule; the containers are not.
DClear ==
    /\ GRTAllocates
    /\ RoundOver
    /\ Clear
    /\ jobQueue' = [l \in LRT |-> << >>]
    /\ jobsRun' = [l \in LRT |-> 0]
    /\ received' = {}
    /\ UNCHANGED <<queueVars, notified, fetching, paramNotified, fetchingParam, sending>>

DNext ==
    \/ DSchedule
    \/ \E t \in Task : DMap(t) \/ DLaunch(t)
    \/ \E l \in LRT : \/ PushMessage(l) \/ PushNotification(l)
                      \/ ReadNotification(l) \/ FetchJob(l) \/ RunJob(l)
    \/ ReadParamNotification
    \/ FetchParam
    \/ DClear

DSpec == DInit /\ [][DNext]_dvars

-----------------------------------------------------------------------------
\* The jobs on their way to an LRT, the first to arrive first: those whose slot
\* it is about to empty or has been notified, then the one being sent.
OnTheWay(l) ==
    LET sent == IF sending[GRT].stage = "none" THEN << >>
                ELSE IF sending[GRT].kind # "job" \/ sending[GRT].to # l THEN << >>
                ELSE IF sending[GRT].stage = "message" THEN <<sending[GRT].message>>
                ELSE <<slots["job"][sending[GRT].ix]>>
        indices == (IF fetching[l] = NoIndex THEN << >> ELSE <<fetching[l]>>) \o notified[l]
    IN  [i \in 1 .. Len(indices) |-> slots["job"][indices[i]]] \o sent

\* The tasks whose parameters are on their way to the GRT, a list per place.
ParamsOnTheWay ==
    [i \in 1 .. Len(paramNotified) |-> slots["param"][paramNotified[i]]]
        \o (IF fetchingParam = NoIndex THEN << >> ELSE <<slots["param"][fetchingParam]>>)

ParamsSent(l) ==
    IF sending[l].stage = "none" THEN {}
    ELSE IF sending[l].kind = "job" THEN {}
    ELSE IF sending[l].stage = "message" THEN {sending[l].message}
    ELSE {slots["param"][sending[l].ix]}

\* No message is lost, repeated, read by another LRT or overwritten while its
\* slot waits to be read, and each LRT receives its jobs in the order in which
\* they were launched, although all the threads push and pop the same slots.
\* The GRT receives the parameters of each configuration job that has run.
MessagesDelivered ==
    /\ \A l \in LRT : jobQueue[l] \o OnTheWay(l) = jobs[l]
    /\ {t \in Configs : \E l \in LRT : \E i \in 1 .. jobsRun[l] : jobQueue[l][i].taskIx = t}
         = received \cup {ParamsOnTheWay[i] : i \in 1 .. Len(ParamsOnTheWay)}
             \cup UNION {ParamsSent(l) : l \in LRT}
=============================================================================
