--------------------------- MODULE RTCommunicator ---------------------------
(***************************************************************************)
(* The notification queues of ThreadRTCommunicator and the threads that    *)
(* push into them.                                                         *)
(*                                                                         *)
(* Every LRT owns one FIFO of notifications and the GRT owns one more for  *)
(* the parameters that jobs send.  A thread pushes one notification at a   *)
(* time: a loop over the LRTs is a batch, whose pushes interleave with the *)
(* steps of the other threads, and the thread goes on once its outbox is   *)
(* empty.  A JobMessage or ParameterMessage travels in an IndexedQueue     *)
(* slot whose index the notification carries; here the notification names  *)
(* the task directly.                                                      *)
(***************************************************************************)
EXTENDS TaskLauncher, Sequences

CONSTANT GRTIx      \* Platform::getGRTIx, the LRT run by the caller's thread

ASSUME GRTAssumption == GRTIx \in LRT

ParamQueue == LRTCount          \* paramNotificationQueue_
Endpoint == LRT \cup {ParamQueue}

NoStamp == -1                   \* SIZE_MAX used as a job stamp

NotificationType ==
    {"LRT_START_ITERATION", "LRT_END_ITERATION", "LRT_CLEAR_ITERATION",
     "LRT_RST_ITERATION", "LRT_FINISHED_ITERATION", "LRT_REPEAT_ITERATION_EN",
     "LRT_STOP", "JOB_ADD", "JOB_DELAY_BROADCAST_JOBSTAMP",
     "JOB_UPDATE_JOBSTAMP", "JOB_SENT_PARAM", "MEM_UPDATE_COUNT"}

\* notificationIx_ is a task (JOB_ADD, JOB_SENT_PARAM), a job index
\* (JOB_UPDATE_JOBSTAMP), an address or a count (MEM_UPDATE_COUNT, which
\* JITMSMemory sends) or unused.
Notification ==
    {n \in [type: NotificationType, senderIx: LRT, notificationIx: Int] :
        n.type \in {"JOB_ADD", "JOB_SENT_PARAM"} => n.notificationIx \in Task}

Notify(type, sender, ix) ==
    [type |-> type, senderIx |-> sender, notificationIx |-> ix]

\* A batch: one notification to push to each of a set of receivers.
Batch == [note: Notification, to: SUBSET Endpoint]

ToEach(receivers, note) ==
    IF receivers = {} THEN << >> ELSE <<[note |-> note, to |-> receivers]>>

ToAll(type) == ToEach(LRT, Notify(type, GRTIx, NoStamp))

VARIABLES
    queue,      \* notificationQueueArray_ and paramNotificationQueue_
    outbox      \* per thread: the batches it still has to push

commVars == <<queue, outbox>>

CommTypeOK ==
    /\ queue \in [Endpoint -> Seq(Notification)]
    /\ outbox \in [LRT -> Seq(Batch)]

CommInit ==
    /\ queue = [e \in Endpoint |-> << >>]
    /\ outbox = [r \in LRT |-> << >>]

\* The thread of LRT r is between two calls of the communicator.
Ready(r) == outbox[r] = << >>

\* One push: the loops over the LRTs go by increasing index.
Push(r) ==
    /\ outbox[r] # << >>
    /\ LET batch == Head(outbox[r])
           receiver == CHOOSE e \in batch.to : \A f \in batch.to : e <= f
           left == batch.to \ {receiver}
       IN  /\ queue' = [queue EXCEPT ![receiver] = Append(@, batch.note)]
           /\ outbox' = [outbox EXCEPT ![r] =
                            ToEach(left, batch.note) \o Tail(@)]

\* Take the notification at the front of a queue.
Pop(e, type) ==
    /\ queue[e] # << >>
    /\ Head(queue[e]).type = type
    /\ queue' = [queue EXCEPT ![e] = Tail(@)]
=============================================================================
