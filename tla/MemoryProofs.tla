---------------------------- MODULE MemoryProofs ----------------------------
(***************************************************************************)
(* Why a buffer lives until its last reader is done and is freed once, for *)
(* every number of LRTs, graph, mapping and choice of forks, although the  *)
(* threads share the use counts and some counts are completed later.       *)
(*                                                                         *)
(* The invariant says who holds the uses of a buffer (Claims): its count   *)
(* is their number.  And it follows each update of a count from the GRT to *)
(* the runner that reads it, between the start of a round and its jobs.    *)
(***************************************************************************)
EXTENDS JITMSMemory, PrecedenceProofs, FunctionTheorems

\* The readers that are counted later run on the LRT of the job that wrote the
\* buffer.  Nothing orders the others after the update (section 5 of README.md).
ReadersAtHome ==
    \A f \in Dynamic : \A t \in Readers[f] : MappedLRT[t] = MappedLRT[Source[f]]

\* Every use that is counted is given up by somebody: the outputs of a fork are
\* read, and so are the buffers whose readers are counted later (section 5).
NoLostUses ==
    /\ \A f \in Fifo : Borrowed(f) => ~IsSink(f)
    /\ \A f \in Dynamic : Readers[f] # {}

-----------------------------------------------------------------------------
(* The updates on their way                                                *)

Update(n) == n.type = "MEM_UPDATE_COUNT"

NoUpdateIn(batches) == \A b \in DOMAIN batches : ~Update(batches[b].note)

\* The LRT that completes the count of f, and the two halves of the update.
Home(f) == MappedLRT[Source[f]]
AddressNote(f) == Notify("MEM_UPDATE_COUNT", GRTIx, f)
CountNote(f) == Notify("MEM_UPDATE_COUNT", GRTIx, UsesToAdd(f))

ToHome(f, note) == [note |-> note, to |-> {Home(f)}]

Halves(f) == <<ToHome(f, AddressNote(f)), ToHome(f, CountNote(f))>>
LastHalf(f) == <<ToHome(f, CountNote(f))>>

\* What the GRT has still to push of an update.
BothToPush(f) == outbox[GRTIx] = Halves(f)
CountToPush(f) == outbox[GRTIx] = LastHalf(f)

\* The LRT has the address, and the count comes next.
HasAddress(f) ==
    LET q == queue[Home(f)]
    IN  IF q = << >> THEN updating[Home(f)] = f ELSE q[Len(q)] = AddressNote(f)

AddressIn(f) == {i \in DOMAIN queue[Home(f)] : queue[Home(f)][i] = AddressNote(f)}

\* The update of f has been sent and not applied.
OnWay(f) == BothToPush(f) \/ AddressIn(f) # {} \/ updating[Home(f)] = f

UpdateToPush == ~NoUpdateIn(outbox[GRTIx])

UpdatesComing(r) == updating[r] # None \/ \E i \in DOMAIN queue[r] : Update(queue[r][i])

\* The GRT sends one update at a time.
OutboxUpdates ==
    /\ \A o \in LRT \ {GRTIx} : NoUpdateIn(outbox[o])
    /\ UpdateToPush => \E f \in Fifo : BothToPush(f) \/ (CountToPush(f) /\ HasAddress(f))
    /\ \A i \in DOMAIN notifVector : ~Update(notifVector[i])

\* At place i of the queue of r is the address of f, and the count comes next.
AddressAt(r, i, f) ==
    /\ Home(f) = r /\ queue[r][i] = AddressNote(f)
    /\ IF i = Len(queue[r]) THEN CountToPush(f) ELSE queue[r][i + 1] = CountNote(f)

\* In a queue, the count of an update follows its address.
QueueUpdates ==
    \A r \in LRT : \A i \in DOMAIN queue[r] : Update(queue[r][i]) =>
        LET ix == queue[r][i].notificationIx
        IN  IF ix \in Fifo THEN AddressAt(r, i, ix)
            ELSE IF i = 1 THEN updating[r] # None
            ELSE Update(queue[r][i - 1]) /\ queue[r][i - 1].notificationIx \in Fifo

\* A runner that has read the address reads the count next.
ReadUpdates ==
    \A r \in LRT : updating[r] # None =>
        /\ updating[r] \in Fifo /\ Home(updating[r]) = r
        /\ IF queue[r] = << >> THEN CountToPush(updating[r])
           ELSE queue[r][1] = CountNote(updating[r])

\* An update is sent once.
UpdatesOnce ==
    \A f \in Fifo :
        /\ \A i, j \in AddressIn(f) : i = j
        /\ updating[Home(f)] = f => AddressIn(f) = {}
        /\ BothToPush(f) => AddressIn(f) = {} /\ updating[Home(f)] # f
        /\ f \in dynamicBuffers => ~OnWay(f)

\* The GRT has started the round and has sent no job of it.
BeforeJobs == pc[GRTIx] = "Launch" /\ toLaunch = TasksOfRound(context, round)

JobTypes == {"JOB_ADD", "JOB_DELAY_BROADCAST_JOBSTAMP", "LRT_END_ITERATION"}

\* Updates are sent after the start of a round and before its jobs, and read
\* before those.
UpdatesInTime ==
    /\ UpdateToPush => BeforeJobs
    /\ \A r \in LRT :
          /\ UpdatesComing(r) => /\ runner[r].jobQueue = << >>
                                 /\ pc[GRTIx] = "Launch" \/ Expects(r, "LRT_END_ITERATION")
          /\ \A i, j \in DOMAIN queue[r] :
                i < j /\ Update(queue[r][j]) => queue[r][i].type \notin JobTypes

\* A runner with something to push has run a job of the round or has closed it.
BusyInv ==
    \A o \in LRT \ {GRTIx} :
        outbox[o] # << >> => TokenInOutbox(o) \/ runner[o].jobQueueCurrentPos > 0

\* The updates travel whole, each once.
TravelInv == OutboxUpdates /\ QueueUpdates /\ ReadUpdates /\ UpdatesOnce

UpdateInv == TravelInv /\ UpdatesInTime /\ BusyInv

-----------------------------------------------------------------------------
(* The FIFOs that are counted later                                        *)

WasLaunched(t) ==
    executing /\ t \in TasksOf(context) /\ RoundOf[t] <= round /\ t \notin toLaunch

DynamicInv ==
    /\ \A f \in dynamicBuffers :
          /\ f \in Dynamic /\ WasLaunched(Source[f])
          /\ \A t \in Readers[f] :
                /\ RoundOf[t] >= round
                /\ RoundOf[t] = round => BeforeJobs
    /\ \A f \in Fifo : OnWay(f) =>
          /\ f \in Dynamic /\ Readers[f] # {} /\ Source[f] \in done
          /\ \A t \in Readers[f] : RoundOf[t] >= round
    /\ \A f \in Dynamic :
          Readers[f] # {} /\ WasLaunched(Source[f]) /\ Source[f] \notin done
              => f \in dynamicBuffers

-----------------------------------------------------------------------------
(* The uses of a buffer                                                    *)

Begun == done \cup Firing

Uncounted(f) == f \in Dynamic /\ (Readers[f] = {} \/ f \in dynamicBuffers \/ OnWay(f))

\* Who holds a use of f, once its source has begun: nobody gives up that of a
\* reader to come before it is counted, nor that of an output nobody reads.
Users(f) ==
    IF IsSink(f) THEN IF Borrowed(f) \/ Source[f] \notin done THEN {Source[f]} ELSE {}
    ELSE IF Uncounted(f) THEN {Source[f]}
    ELSE Readers[f] \ done

Claims(b) ==
    {use \in Fifo \X Task : /\ AddressOf[use[1]] = b /\ Source[use[1]] \in Begun
                            /\ use[2] \in Users(use[1])}

DoneClosed == \A t \in done : Deps[t] \subseteq done

CountInv ==
    \A b \in Fifo :
        executing /\ ~Borrowed(b) /\ Source[b] \in Begun
            => buffers[b].count = Cardinality(Claims(b))

LeftInv ==
    NoLostUses => \A b \in Fifo :
        ~executing \/ Borrowed(b) \/ Source[b] \notin Begun => buffers[b].count = 0

\* A count is the number of the uses that are held.
LedgerInv == CountsExact /\ CountInv /\ LeftInv

MemoryTypeOK ==
    /\ buffers \in [Fifo -> [count: Int, live: BOOLEAN]]
    /\ dynamicBuffers \subseteq Fifo
    /\ updating \in [LRT -> Fifo \cup {None}]

\* The inductive invariant of the buffers.
MemoryInv ==
    /\ RoundInv /\ StampInv
    /\ MemoryTypeOK /\ UpdateInv /\ DynamicInv
    /\ PrecedenceRespected /\ DoneClosed /\ LedgerInv

-----------------------------------------------------------------------------
(* The two halves of an update                                             *)

\* What the assumptions say of a FIFO.
LEMMA FifoOf ==
    ASSUME NEW f \in Fifo
    PROVE  /\ Source[f] \in Task /\ Readers[f] \in SUBSET Task /\ AddressOf[f] \in Fifo
           /\ Home(f) \in LRT /\ GRTIx \in LRT
           /\ f \in Int /\ f # None
           /\ IsFiniteSet(Readers[f]) /\ Cardinality(Readers[f]) \in Nat
           /\ UsesToAdd(f) \in Int /\ UsesToAdd(f) \notin Fifo
<1>1. /\ Source[f] \in Task /\ Readers[f] \in SUBSET Task /\ AddressOf[f] \in Fifo
      /\ f \in Nat /\ f # None /\ f > Cardinality(Task)
    BY FifoAssumption
<1>2. Home(f) \in LRT /\ GRTIx \in LRT
    BY <1>1, MappingAssumption, GRTAssumption DEF Home
<1>3. /\ IsFiniteSet(Task) /\ IsFiniteSet(Readers[f])
      /\ Cardinality(Task) \in Nat /\ Cardinality(Readers[f]) \in Nat
      /\ Cardinality(Readers[f]) <= Cardinality(Task)
    BY <1>1, TaskAssumption, FS_Subset, FS_CardinalityType
<1>4. UsesToAdd(f) \in Int /\ UsesToAdd(f) < Cardinality(Task)
    BY <1>3 DEF UsesToAdd
<1>5. \A g \in Fifo : g \in Nat /\ g > Cardinality(Task)
    BY FifoAssumption
<1>6. UsesToAdd(f) \notin Fifo
    BY <1>3, <1>4, <1>5
<1> QED
    BY <1>1, <1>2, <1>3, <1>4, <1>6

\* The notifications of an update name the FIFO, then the uses to add.
LEMMA UpdateNotes ==
    ASSUME NEW f \in Fifo
    PROVE  /\ AddressNote(f) \in Notification /\ CountNote(f) \in Notification
           /\ Update(AddressNote(f)) /\ Update(CountNote(f))
           /\ AddressNote(f).notificationIx = f
           /\ CountNote(f).notificationIx = UsesToAdd(f)
           /\ CountNote(f).notificationIx \notin Fifo
           /\ \A g \in Fifo : /\ AddressNote(f) = AddressNote(g) => f = g
                              /\ AddressNote(f) # CountNote(g)
           /\ \A note : ToHome(f, note).note = note /\ ToHome(f, note).to = {Home(f)}
<1>1. "MEM_UPDATE_COUNT" \in NotificationType
    BY DEF NotificationType
<1>2. AddressNote(f) \in Notification /\ CountNote(f) \in Notification
    BY <1>1, FifoOf, NotifyType DEF AddressNote, CountNote
<1>3. /\ Update(AddressNote(f)) /\ Update(CountNote(f))
      /\ AddressNote(f).notificationIx = f
      /\ CountNote(f).notificationIx = UsesToAdd(f)
    BY DEF AddressNote, CountNote, Notify, Update
<1>4. \A g \in Fifo : /\ AddressNote(g).notificationIx = g
                      /\ CountNote(g).notificationIx = UsesToAdd(g)
                      /\ UsesToAdd(g) \notin Fifo
    BY FifoOf DEF AddressNote, CountNote, Notify
<1>5. \A note : ToHome(f, note).note = note /\ ToHome(f, note).to = {Home(f)}
    BY DEF ToHome
<1> QED
    BY <1>2, <1>3, <1>4, <1>5

\* An update is none of the notifications of the round.
LEMMA UpdateType ==
    ASSUME NEW n, Update(n)
    PROVE  /\ n.type \notin ControlType /\ n.type \notin Resets /\ n.type \notin JobTypes
           /\ ~Finished(n) /\ ~IsStamp(n) /\ ~IsParam(n)
    BY DEF Update, ControlType, Resets, JobTypes, Finished, IsStamp, IsParam

\* The batches of an update, by their places.
LEMMA HalvesOf ==
    ASSUME NEW f \in Fifo
    PROVE  /\ Len(Halves(f)) = 2 /\ DOMAIN Halves(f) = {1, 2} /\ Halves(f) # << >>
           /\ Halves(f)[1] = ToHome(f, AddressNote(f))
           /\ Halves(f)[2] = ToHome(f, CountNote(f))
           /\ ~NoUpdateIn(Halves(f))
           /\ Len(LastHalf(f)) = 1 /\ DOMAIN LastHalf(f) = {1} /\ LastHalf(f) # << >>
           /\ LastHalf(f)[1] = ToHome(f, CountNote(f))
           /\ ~NoUpdateIn(LastHalf(f))
<1>1. /\ Update(ToHome(f, AddressNote(f)).note) /\ Update(ToHome(f, CountNote(f)).note)
    BY UpdateNotes
<1>2. /\ Len(Halves(f)) = 2 /\ DOMAIN Halves(f) = {1, 2}
      /\ Halves(f)[1] = ToHome(f, AddressNote(f))
      /\ Halves(f)[2] = ToHome(f, CountNote(f))
    BY DEF Halves
<1>3. /\ Len(LastHalf(f)) = 1 /\ DOMAIN LastHalf(f) = {1}
      /\ LastHalf(f)[1] = ToHome(f, CountNote(f))
    BY DEF LastHalf
<1>4. << >> # LastHalf(f) /\ << >> # Halves(f)
    BY DEF Halves, LastHalf
<1> QED
    BY <1>1, <1>2, <1>3, <1>4 DEF NoUpdateIn

\* They are not there when the outbox holds no update.
LEMMA NoHalves ==
    ASSUME NEW s, NoUpdateIn(s) \/ s = << >>
    PROVE  \A f \in Fifo : s # Halves(f) /\ s # LastHalf(f)
BY HalvesOf

\* Each FIFO has batches of its own.
LEMMA HalvesDiffer ==
    ASSUME NEW f \in Fifo, NEW g \in Fifo
    PROVE  Halves(f) = Halves(g) => f = g
<1>1. ToHome(f, AddressNote(f)) = ToHome(g, AddressNote(g)) => AddressNote(f) = AddressNote(g)
    BY DEF ToHome
<1> QED
    BY <1>1, HalvesOf, UpdateNotes

-----------------------------------------------------------------------------
(* The rounds and the stamps go on as without buffers                      *)

\* The GRT sends the two halves of an update.
LEMMA UpdateCountSends ==
    ASSUME TypeOK, NEW f \in Fifo, UpdateCount(f)
    PROVE  /\ Sends(GRTIx, Halves(f)) /\ Halves(f) \in Seq(Batch)
           /\ \A b \in DOMAIN Halves(f) : /\ Update(Halves(f)[b].note)
                                          /\ Halves(f)[b].to = {Home(f)}
           /\ pc[GRTIx] = "Launch"
           /\ UNCHANGED runnerVars /\ UNCHANGED grtVars
<1>1. ToEach({Home(f)}, AddressNote(f)) \o ToEach({Home(f)}, CountNote(f)) = Halves(f)
    <2>1. {Home(f)} # {}
        OBVIOUS
    <2>2. \A note : ToEach({Home(f)}, note) = <<ToHome(f, note)>>
        BY <2>1 DEF ToEach, ToHome
    <2>3. ASSUME NEW a, NEW b PROVE <<a>> \o <<b>> = <<a, b>>
        <3>1. <<a>> \in Seq({a, b}) /\ <<b>> \in Seq({a, b}) /\ <<a, b>> \in Seq({a, b})
            OBVIOUS
        <3>2. /\ <<a>> \o <<b>> \in Seq({a, b}) /\ Len(<<a>> \o <<b>>) = 2
              /\ (<<a>> \o <<b>>)[1] = a /\ (<<a>> \o <<b>>)[2] = b
            BY <3>1, ConcatProperties
        <3>3. /\ Len(<<a, b>>) = 2 /\ <<a, b>>[1] = a /\ <<a, b>>[2] = b
            OBVIOUS
        <3>4. \A i \in 1 .. 2 : i = 1 \/ i = 2
            OBVIOUS
        <3>5. \A i \in 1 .. 2 : (<<a>> \o <<b>>)[i] = <<a, b>>[i]
            BY <3>2, <3>3, <3>4
        <3> QED
            BY <3>1, <3>2, <3>3, <3>5, SeqEqual
    <2> QED
        BY <2>2, <2>3 DEF Halves
<1>2. Sends(GRTIx, Halves(f))
    BY <1>1 DEF UpdateCount, Sends, At, Home, AddressNote, CountNote
<1>3. {Home(f)} \in SUBSET Endpoint
    BY FifoOf, EndpointType
<1>4. Halves(f) \in Seq(Batch)
    <2>1. /\ ToEach({Home(f)}, AddressNote(f)) \in Seq(Batch)
          /\ ToEach({Home(f)}, CountNote(f)) \in Seq(Batch)
        BY <1>3, UpdateNotes, ToEachType
    <2> QED
        BY <1>1, <2>1, ConcatType
<1>5. /\ Halves(f)[1] = ToHome(f, AddressNote(f)) /\ Halves(f)[2] = ToHome(f, CountNote(f))
      /\ DOMAIN Halves(f) = {1, 2}
    BY DEF Halves
<1>6. \A b \in DOMAIN Halves(f) : Update(Halves(f)[b].note) /\ Halves(f)[b].to = {Home(f)}
    BY <1>5, UpdateNotes
<1> QED
    BY <1>2, <1>4, <1>6 DEF UpdateCount, At

\* Sending an update changes nothing of the round nor of the stamps.
LEMMA UpdateCountRound ==
    ASSUME RoundInv, StampInv, NEW f \in Fifo, UpdateCount(f)
    PROVE  RoundInv' /\ StampInv'
<1> DEFINE s == Halves(f)
<1>1. /\ TypeOK /\ SentInOrder /\ PhaseInv /\ JobsInv /\ BarrierInv /\ GRTIx \in LRT
    BY GRTAssumption DEF RoundInv
<1>2. /\ Sends(GRTIx, s) /\ s \in Seq(Batch)
      /\ \A b \in DOMAIN s : Update(s[b].note) /\ s[b].to = {Home(f)}
      /\ UNCHANGED runnerVars /\ UNCHANGED grtVars
    BY <1>1, UpdateCountSends
<1> HIDE DEF s
<1>3. /\ Ready(GRTIx) /\ queue' = queue /\ outbox' = [outbox EXCEPT ![GRTIx] = s]
      /\ UNCHANGED <<runner, stamps, pc, waitForJob, blockingPop, done>>
      /\ UNCHANGED <<finishedRunner, notifVector, context, loopsLeft, executing, iter,
                     round, toLaunch, readParam, runs, stopRunning>>
    BY <1>2 DEF Sends, runnerVars, grtVars
<1>4. TypeOK'
    BY <1>1, <1>2, <1>3 DEF TypeOK, CommTypeOK, RunnerTypeOK, GRTTypeOK, CurrentJob
<1>5. ReadyKept
    <2> SUFFICES ASSUME NEW r \in LRT, pc'[r] \in {"Check", "Kernel"} PROVE Ready(r)'
        BY DEF ReadyKept
    <2>1. Ready(r) /\ r # GRTIx
        BY <1>1, <1>3, UpdateCountSends DEF SentInOrder
    <2> QED
        BY <1>1, <1>3, <2>1 DEF Ready, TypeOK, CommTypeOK
<1>6. \A b \in DOMAIN s : /\ s[b].to # {} /\ s[b].note.type \notin ControlType
                          /\ ~Finished(s[b].note) /\ ~IsStamp(s[b].note)
    BY <1>2, UpdateType
<1>7. SentInOrder' /\ \A r \in LRT : Coming(r)' = Coming(r)
    BY <1>1, <1>2, <1>3, <1>5, <1>6, OthersSent
<1>8. PhaseInv' /\ JobsInv'
    BY <1>1, <1>3, <1>7, QuietRound
<1>9. BarrierInv'
    <2>1. /\ OnlyToGRT' /\ \A q \in LRT : TokenOnce(q)'
          /\ \A q \in LRT : TokenInOutbox(q)' <=> TokenInOutbox(q)
          /\ \A q \in LRT : Token(q)' <=> Token(q)
        BY <1>1, <1>3, <1>6, SentOther
    <2>2. \A q \in LRT : Active(q)' <=> Active(q)
        BY <1>3, <1>7 DEF Active, Expects
    <2>3. \A q \in LRT : q # GRTIx /\ outbox'[q] # << >> =>
                            runner'[q].start \/ TokenInOutbox(q)'
        BY <1>1, <1>3, <2>1 DEF BarrierInv, TokenAfter, TypeOK, CommTypeOK
    <2> QED
        BY <1>1, <1>3, <2>1, <2>2, <2>3, BarrierSame DEF PhaseStays
<1>10. StampInv'
    <2>1. StampsStay /\ HeldKept
        BY <1>3, StampsStayTrue DEF HeldKept
    <2>2. \A b \in DOMAIN s : TrueNote(s[b].note)'
        BY <1>6 DEF TrueNote, IsStamp
    <2> QED
        BY <1>1, <1>2, <1>3, <2>1, <2>2, AsideTrue, SendsTrue
<1> QED
    BY <1>4, <1>7, <1>8, <1>9, <1>10 DEF RoundInv

\* Nor does reading one.
LEMMA ReadUpdateRound ==
    ASSUME RoundInv, StampInv, NEW r \in LRT, queue[r] # << >>, Update(Head(queue[r])),
           queue' = [queue EXCEPT ![r] = Tail(@)], outbox' = outbox,
           UNCHANGED <<runner, stamps, pc, waitForJob, done>>,
           blockingPop' \in [LRT -> BOOLEAN], UNCHANGED grtVars
    PROVE  RoundInv' /\ StampInv'
<1>1. /\ TypeOK /\ SentInOrder /\ PhaseInv /\ JobsInv /\ BarrierInv /\ r \in Endpoint
    BY EndpointType DEF RoundInv
<1>2. UNCHANGED <<finishedRunner, notifVector, context, loopsLeft, executing, iter,
                  round, toLaunch, readParam, runs, stopRunning>>
    BY DEF grtVars
<1>3. TypeOK'
    <2>1. queue' \in [Endpoint -> Seq(Notification)]
        BY <1>1, QueuePopped DEF TypeOK, CommTypeOK
    <2> QED
        BY <1>1, <1>2, <2>1 DEF TypeOK, CommTypeOK, RunnerTypeOK, GRTTypeOK, CurrentJob
<1>4. /\ Head(queue[r]).type \notin ControlType /\ Head(queue[r]).type \notin Resets
      /\ ~Finished(Head(queue[r]))
    BY UpdateType
<1>5. SentInOrder' /\ PhaseInv' /\ JobsInv'
    BY <1>1, <1>2, <1>4, PopRound
<1>6. BarrierInv'
    <2>1. \A q \in LRT : Active(q)' <=> Active(q)
        BY <1>1, <1>4, PopActive
    <2>2. /\ OnlyToGRT' /\ \A q \in LRT : TokenOnce(q)'
          /\ \A q \in LRT : TokenInOutbox(q)' <=> TokenInOutbox(q)
          /\ \A q \in LRT : TokenInQueue(q)' <=> TokenInQueue(q)
        BY <1>1, <1>4, PopTokens
    <2>3. \A q \in LRT : Token(q)' <=> Token(q)
        BY <2>2 DEF Token
    <2>4. \A q \in LRT : q # GRTIx /\ outbox'[q] # << >> =>
                            runner'[q].start \/ TokenInOutbox(q)'
        BY <1>1, <2>2 DEF BarrierInv, TokenAfter
    <2> QED
        BY <1>1, <1>2, <2>1, <2>2, <2>3, <2>4, BarrierSame DEF PhaseStays
<1>7. StampInv'
    <2>1. StampsStay /\ HeldKept
        BY <1>2, StampsStayTrue DEF HeldKept
    <2>2. \A i \in DOMAIN notifVector' : TrueNote(notifVector[i])'
        BY <1>2, <2>1, AsideTrue
    <2> QED
        BY <1>1, <1>4, <2>1, <2>2, PopTrue
<1> QED
    BY <1>3, <1>5, <1>6, <1>7 DEF RoundInv

-----------------------------------------------------------------------------
(* When updates travel                                                     *)

\* Before the jobs of a round are sent, no runner has one or has closed the round.
LEMMA BeforeJobsRunner ==
    ASSUME RoundInv, BeforeJobs, NEW r \in LRT
    PROVE  /\ runner[r].jobQueue = << >> /\ runner[r].jobQueueCurrentPos = 0
           /\ \A i \in DOMAIN queue[r] : queue[r][i].type \notin JobTypes
<1>1. pc[GRTIx] = "Launch" /\ InRound /\ TypeOK /\ PhaseInv /\ JobsInv
    BY DEF BeforeJobs, InRound, RoundInv
<1>2. /\ Active(r)
      /\ \A n \in Coming(r) : n.type \in Resets \cup {"LRT_REPEAT_ITERATION_EN",
                                                      "LRT_START_ITERATION", "JOB_ADD"}
    BY <1>1, WhileLaunching
<1>3. /\ Queued(r) \cup Adds(r) \subseteq RoundJobs(r)
      /\ (Queued(r) \cup Adds(r)) \cap toLaunch = {}
    BY <1>1, <1>2 DEF JobsInv, JobsOfRound
<1>4. Queued(r) = {} /\ Adds(r) = {}
    BY <1>3 DEF BeforeJobs, RoundJobs
<1>5. /\ runner[r].jobQueue \in Seq(Task) /\ runner[r].jobQueueCurrentPos \in Nat
      /\ runner[r].jobQueueCurrentPos <= Len(runner[r].jobQueue)
    BY <1>1, RunnerFields DEF TypeOK, RunnerTypeOK
<1>6. runner[r].jobQueue = << >>
    <2> SUFFICES ASSUME runner[r].jobQueue # << >> PROVE FALSE
        OBVIOUS
    <2>1. 1 \in DOMAIN runner[r].jobQueue
        BY <1>5, TailOf
    <2> QED
        BY <1>4, <2>1 DEF Queued
<1>7. runner[r].jobQueueCurrentPos = 0
    BY <1>5, <1>6
<1>8. ASSUME NEW i \in DOMAIN queue[r], queue[r][i].type \in JobTypes PROVE FALSE
    <2>1. queue[r][i].type \in ControlType
        BY <1>8 DEF JobTypes, ControlType
    <2>2. queue[r][i] \in Coming(r)
        BY <2>1 DEF Coming, InQueue
    <2>3. queue[r][i].type = "JOB_ADD"
        BY <1>2, <1>8, <2>2 DEF JobTypes, Resets
    <2> QED
        BY <1>4, <2>2, <2>3 DEF Adds
<1> QED
    BY <1>6, <1>7, <1>8

\* While an update is pushed, nobody else pushes.
LEMMA BeforeJobsAlone ==
    ASSUME RoundInv, BeforeJobs, BusyInv, NEW o \in LRT \ {GRTIx}
    PROVE  outbox[o] = << >>
<1>1. ~(runner[o].jobQueueCurrentPos > 0)
    BY BeforeJobsRunner
<1>2. ~TokenInOutbox(o)
    BY DEF RoundInv, BarrierInv, TokenAfter, Token, BeforeJobs, Launched
<1> QED
    BY <1>1, <1>2 DEF BusyInv

\* An update on its way is to be pushed or to be read.
LEMMA OnWayWhere ==
    ASSUME NEW f \in Fifo, OnWay(f)
    PROVE  UpdateToPush \/ UpdatesComing(Home(f))
<1>1. CASE BothToPush(f)
    BY <1>1, HalvesOf DEF BothToPush, UpdateToPush
<1>2. CASE AddressIn(f) # {}
    BY <1>2, UpdateNotes DEF AddressIn, UpdatesComing
<1>3. CASE updating[Home(f)] = f
    BY <1>3, FifoOf DEF UpdatesComing
<1> QED
    BY <1>1, <1>2, <1>3 DEF OnWay

\* A LRT that has an update to read runs no job and has not closed the round.
LEMMA UpdatesComingWhen ==
    ASSUME RoundInv, UpdatesInTime, NEW r \in LRT, UpdatesComing(r)
    PROVE  /\ InRound /\ Active(r) /\ ~runner[r].receivedEnd
           /\ runner[r].jobQueue = << >> /\ runner[r].jobQueueCurrentPos = 0
           /\ pc[r] # "Kernel"
<1>1. /\ runner[r].jobQueue = << >>
      /\ pc[GRTIx] = "Launch" \/ Expects(r, "LRT_END_ITERATION")
    BY DEF UpdatesInTime
<1>2. ComingInPhase(r) /\ RunnerInPhase(r) /\ TypeOK
    BY DEF RoundInv, PhaseInv
<1>3. /\ runner[r].jobQueueCurrentPos = 0 /\ pc[r] # "Kernel"
    <2>1. /\ Len(runner[r].jobQueue) = 0 /\ runner[r].jobQueueCurrentPos \in Nat
          /\ runner[r].jobQueueCurrentPos <= Len(runner[r].jobQueue)
          /\ pc[r] = "Kernel" => runner[r].jobQueueCurrentPos < Len(runner[r].jobQueue)
        BY <1>1, <1>2, RunnerFields DEF TypeOK, RunnerTypeOK
    <2> QED
        BY <2>1
<1>4. CASE pc[GRTIx] = "Launch"
    BY <1>1, <1>2, <1>3, <1>4 DEF InRound, RunnerInPhase, Launched
<1>5. CASE Expects(r, "LRT_END_ITERATION")
    <2>1. pc[GRTIx] \in Launched /\ Coming(r) # {}
        BY <1>2, <1>5 DEF Expects, ComingInPhase
    <2> QED
        BY <1>1, <1>2, <1>3, <2>1 DEF InRound, RunnerInPhase
<1> QED
    BY <1>1, <1>4, <1>5

\* Between the rounds no update is on its way.
LEMMA NoUpdates ==
    ASSUME RoundInv, UpdatesInTime, ~InRound
    PROVE  /\ ~UpdateToPush /\ \A r \in LRT : ~UpdatesComing(r)
           /\ \A f \in Fifo : ~OnWay(f)
<1>1. ~UpdateToPush
    BY DEF UpdatesInTime, BeforeJobs, InRound
<1>2. \A r \in LRT : ~UpdatesComing(r)
    BY UpdatesComingWhen
<1> QED
    BY <1>1, <1>2, OnWayWhere, FifoOf

-----------------------------------------------------------------------------
(* How updates travel                                                      *)

\* Threads that had nothing to push send what is no update.
SendsOthers ==
    /\ queue' = queue
    /\ \A o \in LRT : \/ outbox'[o] = outbox[o]
                      \/ outbox[o] = << >> /\ NoUpdateIn(outbox'[o])

\* What is on its way is the same after a step.
SameWay ==
    /\ \A f \in Fifo : OnWay(f)' <=> OnWay(f)
    /\ \A r \in LRT : UpdatesComing(r)' => UpdatesComing(r)

\* What is sent beside the updates changes nothing for them.
LEMMA SendsTravel ==
    ASSUME TravelInv, SendsOthers, updating' = updating,
           \A i \in DOMAIN notifVector' : ~Update(notifVector'[i]),
           \A f \in Fifo : f \in dynamicBuffers' => f \in dynamicBuffers \/ ~OnWay(f)
    PROVE  TravelInv' /\ SameWay /\ (UpdateToPush' => UpdateToPush)
<1>1. GRTIx \in LRT
    BY GRTAssumption
<1>2. /\ \A f \in Fifo : /\ BothToPush(f)' <=> BothToPush(f)
                         /\ CountToPush(f)' <=> CountToPush(f)
      /\ UpdateToPush' => UpdateToPush
    <2>1. CASE outbox'[GRTIx] = outbox[GRTIx]
        BY <2>1 DEF BothToPush, CountToPush, UpdateToPush, NoUpdateIn, Update
    <2>2. CASE outbox[GRTIx] = << >> /\ NoUpdateIn(outbox'[GRTIx])
        <3>1. \A f \in Fifo : /\ outbox[GRTIx] # Halves(f) /\ outbox[GRTIx] # LastHalf(f)
                              /\ outbox'[GRTIx] # Halves(f) /\ outbox'[GRTIx] # LastHalf(f)
            BY <2>2, NoHalves
        <3>2. ~UpdateToPush'
            BY <2>2 DEF UpdateToPush, NoUpdateIn, Update
        <3> QED
            BY <3>1, <3>2 DEF BothToPush, CountToPush, Halves, LastHalf, ToHome, AddressNote,
                              CountNote, Notify, Home, UsesToAdd
    <2> QED
        BY <1>1, <2>1, <2>2 DEF SendsOthers
<1>3. queue' = queue /\ updating' = updating
    BY DEF SendsOthers
<1>4. \A f \in Fifo : /\ AddressIn(f)' = AddressIn(f)
                      /\ HasAddress(f)' <=> HasAddress(f)
    BY <1>3 DEF AddressIn, HasAddress, AddressNote, Home, Notify
<1>5. \A f \in Fifo : OnWay(f)' <=> OnWay(f)
    BY <1>2, <1>3, <1>4 DEF OnWay, Home
<1>6. \A r \in LRT : UpdatesComing(r)' => UpdatesComing(r)
    BY <1>3 DEF UpdatesComing, Update
<1>7. OutboxUpdates'
    <2>1. \A o \in LRT \ {GRTIx} : NoUpdateIn(outbox[o])'
        BY DEF SendsOthers, TravelInv, OutboxUpdates, NoUpdateIn, Update
    <2>2. UpdateToPush' => \E f \in Fifo : BothToPush(f)' \/ (CountToPush(f) /\ HasAddress(f))'
        BY <1>2, <1>4 DEF TravelInv, OutboxUpdates
    <2> QED
        BY <2>1, <2>2 DEF OutboxUpdates, Update
<1>8. QueueUpdates'
    BY <1>2, <1>3 DEF TravelInv, QueueUpdates, AddressAt, Update, Home, AddressNote, CountNote, Notify, UsesToAdd
<1>9. ReadUpdates'
    BY <1>2, <1>3, FifoOf DEF TravelInv, ReadUpdates, Home, CountNote, UsesToAdd, Notify
<1>10. UpdatesOnce'
    BY <1>2, <1>3, <1>4, <1>5 DEF TravelInv, UpdatesOnce, Home
<1> QED
    BY <1>2, <1>5, <1>6, <1>7, <1>8, <1>9, <1>10 DEF TravelInv, SameWay

\* A queue is read: the updates behind come closer.
LEMMA PopQueue ==
    ASSUME TypeOK, TravelInv, NEW e \in Endpoint, queue[e] # << >>,
           queue' = [queue EXCEPT ![e] = Tail(@)], outbox' = outbox,
           \A r \in LRT \ {e} : updating'[r] = updating[r],
           e \in LRT /\ Update(queue[e][1]) /\ queue[e][1].notificationIx \in Fifo
               => updating'[e] # None
    PROVE  /\ QueueUpdates'
           /\ \A f \in Fifo : /\ BothToPush(f)' <=> BothToPush(f)
                              /\ CountToPush(f)' <=> CountToPush(f)
                              /\ Home(f) # e => AddressIn(f)' = AddressIn(f)
                              /\ Home(f) = e => \A i : i \in AddressIn(f)' <=>
                                                    i \in Nat \ {0} /\ i + 1 \in AddressIn(f)
                              /\ CountToPush(f) /\ HasAddress(f) /\ queue[e][1] # AddressNote(f)
                                    => HasAddress(f)'
           /\ \A r \in LRT : (\E i \in DOMAIN queue'[r] : Update(queue'[r][i]))
                                => \E i \in DOMAIN queue[r] : Update(queue[r][i])
           /\ \A r \in LRT \ {e} : queue'[r] = queue[r]
<1> DEFINE q == queue[e]
           L == Len(q)
<1>1. /\ DOMAIN q = 1 .. L /\ L \in Nat \ {0} /\ DOMAIN queue'[e] = 1 .. L - 1
      /\ \A i \in 1 .. L - 1 : queue'[e][i] = q[i + 1]
      /\ \A r \in Endpoint \ {e} : queue'[r] = queue[r]
      /\ queue'[e] \in Seq(Notification) /\ Len(queue'[e]) = L - 1
    BY QueuePopped, TailOf DEF TypeOK, CommTypeOK
<1>2. LRT \subseteq Endpoint /\ \A f \in Fifo : Home(f) \in LRT
    BY EndpointType, FifoOf
<1>3. \A f \in Fifo : /\ BothToPush(f)' <=> BothToPush(f)
                      /\ CountToPush(f)' <=> CountToPush(f)
    BY DEF BothToPush, CountToPush
<1> HIDE DEF q, L
<1>4. ASSUME NEW f \in Fifo, Home(f) = e, NEW i
      PROVE  i \in AddressIn(f)' <=> i \in Nat \ {0} /\ i + 1 \in AddressIn(f)
    <2>1. AddressIn(f)' = {j \in 1 .. L - 1 : queue'[e][j] = AddressNote(f)}
        BY <1>1, <1>4 DEF AddressIn
    <2>2. AddressIn(f) = {j \in 1 .. L : q[j] = AddressNote(f)}
        BY <1>1, <1>4 DEF AddressIn, q
    <2>3. \A j \in Nat \ {0} : j + 1 \in 1 .. L <=> j \in 1 .. L - 1
        BY <1>1
    <2>4. 1 .. L - 1 \subseteq Nat \ {0}
        BY <1>1
    <2> QED
        BY <1>1, <2>1, <2>2, <2>3, <2>4
<1>5. \A f \in Fifo : Home(f) # e => AddressIn(f)' = AddressIn(f)
    BY <1>1, <1>2 DEF AddressIn
<1>6. ASSUME NEW f \in Fifo, CountToPush(f), HasAddress(f), q[1] # AddressNote(f)
      PROVE  HasAddress(f)'
    <2>1. CASE Home(f) # e
        BY <1>1, <1>2, <1>6, <2>1 DEF HasAddress
    <2>2. CASE Home(f) = e
        <3>1. q[L] = AddressNote(f) /\ L # 1
            BY <1>1, <1>6, <2>2 DEF HasAddress, q, L
        <3>2. L - 1 \in 1 .. L - 1 /\ (L - 1) + 1 = L
            BY <1>1, <3>1
        <3>3. queue'[e][L - 1] = AddressNote(f)
            BY <1>1, <3>1, <3>2
        <3>4. queue'[e] # << >>
            <4>1. Len(queue'[e]) # 0
                BY <1>1, <3>1
            <4> QED
                BY <4>1
        <3> QED
            BY <1>1, <2>2, <3>3, <3>4 DEF HasAddress
    <2> QED
        BY <2>1, <2>2
<1>7. ASSUME NEW r \in LRT, NEW i \in DOMAIN queue'[r], Update(queue'[r][i])
      PROVE  \E j \in DOMAIN queue[r] : Update(queue[r][j])
    <2>1. CASE r # e
        BY <1>1, <1>2, <1>7, <2>1
    <2>2. CASE r = e
        <3>1. i \in 1 .. L - 1 /\ i + 1 \in DOMAIN q
            BY <1>1, <1>7, <2>2
        <3> QED
            BY <1>1, <1>7, <2>2, <3>1 DEF q
    <2> QED
        BY <2>1, <2>2
<1>8. QueueUpdates'
    <2> SUFFICES ASSUME NEW r \in LRT, NEW i \in DOMAIN queue'[r], Update(queue'[r][i]),
                        NEW ix, ix = queue'[r][i].notificationIx
                 PROVE  IF ix \in Fifo THEN AddressAt(r, i, ix)'
                        ELSE IF i = 1 THEN updating'[r] # None
                        ELSE Update(queue'[r][i - 1]) /\ queue'[r][i - 1].notificationIx \in Fifo
        BY DEF QueueUpdates, Update
    <2>1. CASE r # e
        <3>1. queue'[r] = queue[r]
            BY <1>1, <1>2, <2>1
        <3>2. IF ix \in Fifo THEN AddressAt(r, i, ix)
                ELSE IF i = 1 THEN updating[r] # None
                ELSE Update(queue[r][i - 1]) /\ queue[r][i - 1].notificationIx \in Fifo
            BY <3>1 DEF TravelInv, QueueUpdates
        <3>3. ix \in Fifo /\ AddressAt(r, i, ix) => AddressAt(r, i, ix)'
            BY <1>3, <3>1 DEF AddressAt
        <3> QED
            BY <2>1, <3>1, <3>2, <3>3
    <2>2. CASE r = e
        <3>1. i \in 1 .. L - 1 /\ i + 1 \in DOMAIN q /\ queue'[r][i] = q[i + 1] /\ i + 1 # 1
            BY <1>1, <2>2
        <3>2. IF ix \in Fifo THEN AddressAt(r, i + 1, ix)
                ELSE Update(q[i]) /\ q[i].notificationIx \in Fifo
            <4>1. (i + 1) - 1 = i
                BY <3>1
            <4> QED
                BY <2>2, <3>1, <4>1 DEF TravelInv, QueueUpdates, q
        <3>3. ASSUME ix \in Fifo PROVE AddressAt(r, i, ix)'
            <4>1. AddressAt(r, i + 1, ix)
                BY <3>2, <3>3
            <4>2. CASE i + 1 = L
                <5>1. i = Len(queue'[r])
                    BY <1>1, <2>2, <3>1, <4>2
                <5> QED
                    BY <1>3, <2>2, <3>1, <3>3, <4>1, <4>2, <5>1 DEF AddressAt, q, L
            <4>3. CASE i + 1 # L
                <5>1. i # Len(queue'[r]) /\ i + 1 \in 1 .. L - 1 /\ queue'[r][i + 1] = q[i + 1 + 1]
                    BY <1>1, <2>2, <3>1, <4>3
                <5> QED
                    BY <1>3, <2>2, <3>1, <3>3, <4>1, <4>3, <5>1 DEF AddressAt, q, L
            <4> QED
                BY <4>2, <4>3
        <3>4. ASSUME ix \notin Fifo, i # 1
              PROVE  Update(queue'[r][i - 1]) /\ queue'[r][i - 1].notificationIx \in Fifo
            <4>1. Update(q[i]) /\ q[i].notificationIx \in Fifo
                BY <3>2, <3>4
            <4>2. i - 1 \in 1 .. L - 1 /\ (i - 1) + 1 = i
                BY <1>1, <3>1, <3>4
            <4> QED
                BY <1>1, <2>2, <4>1, <4>2
        <3>5. ix \notin Fifo /\ i = 1 => updating'[r] # None
            BY <2>2, <3>2 DEF q
        <3> QED
            BY <3>3, <3>4, <3>5
    <2> QED
        BY <2>1, <2>2
<1> QED
    BY <1>1, <1>2, <1>3, <1>4, <1>5, <1>6, <1>7, <1>8 DEF q

\* Reading what is no update changes nothing for the updates.
LEMMA PopTravel ==
    ASSUME TypeOK, TravelInv, NEW e \in Endpoint, queue[e] # << >>,
           queue' = [queue EXCEPT ![e] = Tail(@)], outbox' = outbox,
           ~Update(Head(queue[e])), UNCHANGED <<dynamicBuffers, updating>>,
           \A i \in DOMAIN notifVector' : ~Update(notifVector'[i])
    PROVE  TravelInv' /\ SameWay /\ (UpdateToPush' => UpdateToPush)
<1>1. /\ ~Update(queue[e][1]) /\ 1 \in DOMAIN queue[e]
      /\ \A f \in Fifo : AddressNote(f) # queue[e][1] /\ CountNote(f) # queue[e][1]
    <2>1. /\ Head(queue[e]) = queue[e][1]
          /\ DOMAIN queue[e] = 1 .. Len(queue[e]) /\ Len(queue[e]) \in Nat \ {0}
        BY QueuePopped
    <2>2. 1 \in DOMAIN queue[e]
        BY <2>1
    <2> QED
        BY <2>1, <2>2, UpdateNotes
<1>2. /\ QueueUpdates'
      /\ \A f \in Fifo : /\ BothToPush(f)' <=> BothToPush(f)
                         /\ CountToPush(f)' <=> CountToPush(f)
                         /\ Home(f) # e => AddressIn(f)' = AddressIn(f)
                         /\ Home(f) = e => \A i : i \in AddressIn(f)' <=>
                                               i \in Nat \ {0} /\ i + 1 \in AddressIn(f)
                         /\ CountToPush(f) /\ HasAddress(f) => HasAddress(f)'
      /\ \A r \in LRT : (\E i \in DOMAIN queue'[r] : Update(queue'[r][i]))
                           => \E i \in DOMAIN queue[r] : Update(queue[r][i])
      /\ \A r \in LRT \ {e} : queue'[r] = queue[r]
    BY <1>1, PopQueue
<1>3. e \in LRT => updating[e] = None
    BY <1>1 DEF TravelInv, ReadUpdates
<1>4. \A f \in Fifo : Home(f) = e => \A i \in AddressIn(f) : i \in Nat \ {0, 1}
    <2> SUFFICES ASSUME NEW f \in Fifo, Home(f) = e, NEW i \in AddressIn(f) PROVE i \in Nat \ {0, 1}
        OBVIOUS
    <2>1. i \in DOMAIN queue[e] /\ queue[e][i] = AddressNote(f)
        BY DEF AddressIn
    <2>2. i # 1 /\ DOMAIN queue[e] = 1 .. Len(queue[e]) /\ Len(queue[e]) \in Nat
        BY <1>1, <2>1, Places
    <2> QED
        BY <2>1, <2>2
<1>5. \A f \in Fifo : /\ AddressIn(f)' = {} <=> AddressIn(f) = {}
                      /\ (\A i, j \in AddressIn(f) : i = j) => \A i, j \in AddressIn(f)' : i = j
    <2> SUFFICES ASSUME NEW f \in Fifo
                 PROVE  /\ AddressIn(f)' = {} <=> AddressIn(f) = {}
                        /\ (\A i, j \in AddressIn(f) : i = j) => \A i, j \in AddressIn(f)' : i = j
        OBVIOUS
    <2>1. CASE Home(f) = e
        <3>1. \A i \in AddressIn(f) : i - 1 \in Nat \ {0} /\ (i - 1) + 1 = i
            BY <1>4, <2>1
        <3>2. \A i : i \in AddressIn(f)' <=> i \in Nat \ {0} /\ i + 1 \in AddressIn(f)
            BY <1>2, <2>1
        <3> QED
            BY <3>1, <3>2
    <2> QED
        BY <1>2, <2>1
<1>6. \A f \in Fifo : OnWay(f)' <=> OnWay(f)
    BY <1>2, <1>5 DEF OnWay, Home
<1>7. \A r \in LRT : UpdatesComing(r)' => UpdatesComing(r)
    BY <1>2 DEF UpdatesComing, Update
<1>8. OutboxUpdates' /\ (UpdateToPush' => UpdateToPush)
    <2>1. (\A o \in LRT \ {GRTIx} : NoUpdateIn(outbox[o])') /\ (UpdateToPush' <=> UpdateToPush)
        BY DEF TravelInv, OutboxUpdates, NoUpdateIn, UpdateToPush, Update
    <2>2. UpdateToPush' => \E f \in Fifo : BothToPush(f)' \/ (CountToPush(f) /\ HasAddress(f))'
        BY <1>2, <2>1 DEF TravelInv, OutboxUpdates
    <2> QED
        BY <2>1, <2>2 DEF OutboxUpdates, Update
<1>9. ReadUpdates'
    <2> SUFFICES ASSUME NEW r \in LRT, updating'[r] # None, NEW f, f = updating'[r]
                 PROVE  /\ f \in Fifo /\ Home(f) = r
                        /\ IF queue'[r] = << >> THEN CountToPush(f)'
                           ELSE queue'[r][1] = CountNote(f)
        BY DEF ReadUpdates, CountToPush, LastHalf, ToHome, CountNote, UsesToAdd, Home, Notify
    <2>1. queue'[r] = queue[r]
        BY <1>2, <1>3
    <2> QED
        BY <1>2, <2>1 DEF TravelInv, ReadUpdates
<1>10. UpdatesOnce'
    BY <1>2, <1>5, <1>6 DEF TravelInv, UpdatesOnce, Home
<1> QED
    BY <1>2, <1>6, <1>7, <1>8, <1>9, <1>10 DEF TravelInv, SameWay

\* A notification is added to a queue: an address whose count is to be pushed next,
\* a count whose address is the last, or what is no update.
LEMMA AppendTravel ==
    ASSUME TypeOK, TravelInv, updating' = updating, NEW e \in Endpoint, NEW n \in Notification,
           queue' = [queue EXCEPT ![e] = Append(@, n)],
           \A f \in Fifo : CountToPush(f) /\ HasAddress(f) => Home(f) = e /\ n = CountNote(f),
           Update(n) => \E f \in Fifo :
               /\ Home(f) = e
               /\ \/ n = AddressNote(f) /\ outbox'[GRTIx] = LastHalf(f)
                  \/ n = CountNote(f) /\ HasAddress(f)
    PROVE  /\ QueueUpdates' /\ ReadUpdates'
           /\ \A f \in Fifo : AddressIn(f)' =
                 AddressIn(f) \cup (IF Home(f) = e /\ n = AddressNote(f)
                                    THEN {Len(queue[e]) + 1} ELSE {})
<1> DEFINE L == Len(queue[e])
<1>1. /\ DOMAIN queue[e] = 1 .. L /\ L \in Nat /\ DOMAIN queue'[e] = 1 .. L + 1
      /\ \A i \in 1 .. L : queue'[e][i] = queue[e][i]
      /\ queue'[e][L + 1] = n
      /\ \A r \in Endpoint \ {e} : queue'[r] = queue[r]
      /\ Len(queue'[e]) = L + 1 /\ queue'[e] # << >>
    <2>1. queue'[e] = Append(queue[e], n) /\ queue[e] \in Seq(Notification)
        BY DEF TypeOK, CommTypeOK
    <2>2. Len(queue'[e]) = L + 1 /\ queue'[e] # << >>
        BY <2>1
    <2> QED
        BY <2>2, QueueAppended
<1>2. LRT \subseteq Endpoint /\ \A r \in LRT : queue[r] \in Seq(Notification)
    BY EndpointType DEF TypeOK, CommTypeOK
<1>3. \A f \in Fifo : Home(f) \in LRT
    BY FifoOf
<1> HIDE DEF L
<1>4. ASSUME NEW f \in Fifo, NEW r \in LRT, NEW i \in DOMAIN queue[r], AddressAt(r, i, f)
      PROVE  /\ i = Len(queue[r]) => r = e /\ n = CountNote(f)
             /\ i # Len(queue[r]) => i + 1 \in DOMAIN queue[r] /\ queue[r][i + 1] = CountNote(f)
    <2>1. queue[r] # << >> /\ i \in 1 .. Len(queue[r]) /\ Len(queue[r]) \in Nat
        BY <1>2, <1>4
    <2>2. i = Len(queue[r]) => CountToPush(f) /\ HasAddress(f) /\ Home(f) = r
        BY <1>4, <2>1 DEF AddressAt, HasAddress
    <2>3. DOMAIN queue[r] = 1 .. Len(queue[r])
        BY <1>2
    <2>4. i # Len(queue[r]) => i + 1 \in DOMAIN queue[r]
        BY <2>1, <2>3
    <2> QED
        BY <1>4, <2>2, <2>4 DEF AddressAt
<1>5. QueueUpdates'
    <2> SUFFICES ASSUME NEW r \in LRT, NEW i \in DOMAIN queue'[r], Update(queue'[r][i]),
                        NEW ix, ix = queue'[r][i].notificationIx
                 PROVE  IF ix \in Fifo THEN AddressAt(r, i, ix)'
                        ELSE IF i = 1 THEN updating'[r] # None
                        ELSE Update(queue'[r][i - 1]) /\ queue'[r][i - 1].notificationIx \in Fifo
        BY DEF QueueUpdates, Update
    <2>1. CASE i \in DOMAIN queue[r] /\ queue'[r][i] = queue[r][i]
        <3>1. IF ix \in Fifo THEN AddressAt(r, i, ix)
              ELSE IF i = 1 THEN updating[r] # None
              ELSE Update(queue[r][i - 1]) /\ queue[r][i - 1].notificationIx \in Fifo
            BY <2>1 DEF TravelInv, QueueUpdates
        <3>2. ASSUME ix \in Fifo PROVE AddressAt(r, i, ix)'
            <4>1. /\ Home(ix) = r /\ queue'[r][i] = AddressNote(ix)
                  /\ i = Len(queue[r]) => r = e /\ n = CountNote(ix)
                  /\ i # Len(queue[r]) => i + 1 \in DOMAIN queue[r] /\ queue[r][i + 1] = CountNote(ix)
                BY <1>4, <2>1, <3>1, <3>2 DEF AddressAt
            <4>2. i # Len(queue'[r]) /\ queue'[r][i + 1] = CountNote(ix)
                <5>1. CASE r # e
                    BY <1>1, <1>2, <4>1, <5>1
                <5>2. CASE r = e /\ i = L
                    BY <1>1, <4>1, <5>2 DEF L
                <5>3. CASE r = e /\ i # L
                    BY <1>1, <2>1, <4>1, <5>3 DEF L
                <5> QED
                    BY <5>1, <5>2, <5>3
            <4> QED
                BY <3>2, <4>1, <4>2 DEF AddressAt
        <3>3. ASSUME ix \notin Fifo, i # 1
              PROVE  Update(queue'[r][i - 1]) /\ queue'[r][i - 1].notificationIx \in Fifo
            <4>1. queue'[r][i - 1] = queue[r][i - 1]
                <5>1. CASE r # e
                    BY <1>1, <1>2, <5>1
                <5>2. CASE r = e
                    <6>1. i - 1 \in 1 .. L
                        BY <1>1, <2>1, <3>3, <5>2
                    <6> QED
                        BY <1>1, <5>2, <6>1
                <5> QED
                    BY <5>1, <5>2
            <4> QED
                BY <3>1, <3>3, <4>1
        <3> QED
            BY <3>1, <3>2, <3>3
    <2>2. CASE r = e /\ i = L + 1
        <3>1. queue'[r][i] = n /\ Update(n)
            BY <1>1, <2>2
        <3>2. PICK f \in Fifo :
                 /\ Home(f) = e
                 /\ \/ n = AddressNote(f) /\ outbox'[GRTIx] = LastHalf(f)
                    \/ n = CountNote(f) /\ HasAddress(f)
            BY <3>1
        <3>3. CASE n = AddressNote(f) /\ outbox'[GRTIx] = LastHalf(f)
            <4>1. ix = f
                BY <3>1, <3>3, UpdateNotes
            <4>2. i = Len(queue'[r])
                BY <1>1, <2>2
            <4> QED
                BY <2>2, <3>1, <3>2, <3>3, <4>1, <4>2
                   DEF AddressAt, CountToPush, LastHalf, ToHome, CountNote, AddressNote, Home, Notify, UsesToAdd
        <3>4. CASE n = CountNote(f) /\ HasAddress(f)
            <4>1. ix \notin Fifo
                BY <3>1, <3>4, UpdateNotes
            <4>2. CASE queue[e] = << >>
                <5>1. L = 0 /\ updating[e] = f
                    BY <3>2, <3>4, <4>2 DEF HasAddress, L
                <5>2. f # None
                    BY FifoOf
                <5>3. i = 1
                    BY <2>2, <5>1
                <5> QED
                    BY <2>2, <4>1, <5>1, <5>2, <5>3
            <4>3. CASE queue[e] # << >>
                <5>1. queue[e][L] = AddressNote(f)
                    BY <3>2, <3>4, <4>3 DEF HasAddress, L
                <5>2. L # 0
                    BY <1>2, <1>3, <3>2, <4>3 DEF L
                <5>3. i # 1 /\ i - 1 = L /\ L \in 1 .. L
                    BY <1>1, <2>2, <5>2
                <5>4. Update(queue[e][L]) /\ queue[e][L].notificationIx \in Fifo
                    BY <5>1, UpdateNotes
                <5> QED
                    BY <1>1, <2>2, <4>1, <5>3, <5>4
            <4> QED
                BY <4>2, <4>3
        <3> QED
            BY <3>2, <3>3, <3>4
    <2>3. CASE r # e
        BY <1>1, <1>2, <2>1, <2>3
    <2>4. CASE r = e /\ i # L + 1
        <3>1. i \in 1 .. L
            BY <1>1, <2>4
        <3> QED
            BY <1>1, <2>1, <2>4, <3>1
    <2> QED
        BY <2>2, <2>3, <2>4
<1>6. ReadUpdates'
    <2> SUFFICES ASSUME NEW r \in LRT, updating'[r] # None, NEW f, f = updating'[r]
                 PROVE  /\ f \in Fifo /\ Home(f) = r
                        /\ queue'[r] # << >> /\ queue'[r][1] = CountNote(f)
        BY DEF ReadUpdates, CountToPush, LastHalf, ToHome, CountNote, UsesToAdd, Home, Notify
    <2>1. /\ f \in Fifo /\ Home(f) = r
          /\ IF queue[r] = << >> THEN CountToPush(f) ELSE queue[r][1] = CountNote(f)
        BY DEF TravelInv, ReadUpdates
    <2>2. CASE queue[r] = << >>
        <3>1. CountToPush(f) /\ HasAddress(f)
            BY <2>1, <2>2 DEF HasAddress
        <3>2. r = e /\ n = CountNote(f) /\ L = 0
            BY <2>1, <2>2, <3>1 DEF L
        <3> QED
            BY <1>1, <2>1, <3>2
    <2>3. CASE queue[r] # << >> /\ r = e
        <3>1. L # 0
            BY <1>2, <2>3 DEF L
        <3>2. 1 \in 1 .. L
            BY <1>1, <3>1
        <3> QED
            BY <1>1, <2>1, <2>3, <3>2
    <2>4. CASE queue[r] # << >> /\ r # e
        BY <1>1, <1>2, <2>1, <2>4
    <2> QED
        BY <2>2, <2>3, <2>4
<1>7. ASSUME NEW f \in Fifo
      PROVE  AddressIn(f)' = AddressIn(f) \cup (IF Home(f) = e /\ n = AddressNote(f)
                                                THEN {L + 1} ELSE {})
    <2>1. CASE Home(f) # e
        BY <1>1, <1>2, <1>3, <2>1 DEF AddressIn
    <2>2. CASE Home(f) = e
        <3>1. AddressIn(f)' = {i \in 1 .. L + 1 : queue'[e][i] = AddressNote(f)}
            BY <1>1, <2>2 DEF AddressIn
        <3>2. AddressIn(f) = {i \in 1 .. L : queue[e][i] = AddressNote(f)}
            BY <1>1, <2>2 DEF AddressIn
        <3>3. 1 .. L + 1 = (1 .. L) \cup {L + 1}
            BY <1>1
        <3> QED
            BY <1>1, <2>2, <3>1, <3>2, <3>3
    <2> QED
        BY <2>1, <2>2
<1> QED
    BY <1>5, <1>6, <1>7 DEF L

\* A thread pushes what is no update.
LEMMA PushOtherTravel ==
    ASSUME TypeOK, TravelInv, UNCHANGED <<updating, dynamicBuffers, notifVector>>,
           NEW p \in LRT, NEW e \in Endpoint, NEW shift \in {0, 1}, PushedTo(p, e, shift),
           ~UpdateToPush
    PROVE  TravelInv' /\ SameWay /\ ~UpdateToPush'
<1> DEFINE n == outbox[p][1].note
<1>1. \A o \in LRT : NoUpdateIn(outbox[o])
    BY DEF TravelInv, OutboxUpdates, UpdateToPush
<1>2. \A o \in LRT : \A b \in DOMAIN outbox'[o] : ~Update(outbox'[o][b].note)
    <2>1. ASSUME NEW b \in DOMAIN outbox'[p] PROVE ~Update(outbox'[p][b].note)
        <3>1. b + shift \in DOMAIN outbox[p] /\ outbox'[p][b].note = outbox[p][b + shift].note
            BY Places DEF PushedTo
        <3> QED
            BY <1>1, <3>1 DEF NoUpdateIn
    <2> QED
        BY <1>1, <2>1 DEF PushedTo, NoUpdateIn
<1>3. n \in Notification /\ ~Update(n)
    <2>1. 1 \in DOMAIN outbox[p] /\ outbox[p][1] \in Batch
        BY Places DEF PushedTo
    <2> QED
        BY <1>1, <2>1 DEF NoUpdateIn, Batch
<1>4. queue' = [queue EXCEPT ![e] = Append(@, n)]
    BY DEF PushedTo
<1> HIDE DEF n
<1>5. \A o \in LRT : NoUpdateIn(outbox'[o]) /\ NoUpdateIn(outbox[o])'
    BY <1>2 DEF NoUpdateIn, Update
<1>6. GRTIx \in LRT /\ ~UpdateToPush'
    BY <1>5, GRTAssumption DEF UpdateToPush
<1>7. \A f \in Fifo : /\ outbox[GRTIx] # Halves(f) /\ outbox[GRTIx] # LastHalf(f)
                      /\ outbox'[GRTIx] # Halves(f) /\ outbox'[GRTIx] # LastHalf(f)
    BY <1>1, <1>5, <1>6, NoHalves
<1>8. \A f \in Fifo : /\ ~BothToPush(f) /\ ~CountToPush(f)
                      /\ ~BothToPush(f)' /\ ~CountToPush(f)'
    BY <1>7 DEF BothToPush, CountToPush, Halves, LastHalf, ToHome, AddressNote, CountNote,
                Notify, Home, UsesToAdd
<1>9. /\ QueueUpdates' /\ ReadUpdates'
      /\ \A f \in Fifo : AddressIn(f)' =
            AddressIn(f) \cup (IF Home(f) = e /\ n = AddressNote(f) THEN {Len(queue[e]) + 1} ELSE {})
    BY <1>3, <1>4, <1>8, AppendTravel
<1>10. \A f \in Fifo : AddressIn(f)' = AddressIn(f)
    <2>1. \A f \in Fifo : n # AddressNote(f)
        BY <1>3, UpdateNotes
    <2> QED
        BY <1>9, <2>1
<1>11. \A f \in Fifo : OnWay(f)' <=> OnWay(f)
    BY <1>8, <1>10 DEF OnWay, Home
<1>12. \A r \in LRT : UpdatesComing(r)' => UpdatesComing(r)
    <2> SUFFICES ASSUME NEW r \in LRT, updating[r] = None, NEW i \in DOMAIN queue'[r],
                        Update(queue'[r][i])
                 PROVE  \E j \in DOMAIN queue[r] : Update(queue[r][j])
        BY DEF UpdatesComing, Update
    <2>1. /\ \A j \in 1 .. Len(queue[e]) : queue'[e][j] = queue[e][j]
          /\ DOMAIN queue[e] = 1 .. Len(queue[e]) /\ Len(queue[e]) \in Nat
          /\ DOMAIN queue'[e] = 1 .. Len(queue[e]) + 1
          /\ queue'[e][Len(queue[e]) + 1] = n
          /\ \A q \in Endpoint \ {e} : queue'[q] = queue[q]
        BY <1>3, <1>4, QueueAppended
    <2>2. CASE r # e
        BY <2>1, <2>2, EndpointType
    <2>3. CASE r = e
        <3>1. i # Len(queue[e]) + 1
            BY <1>3, <2>1, <2>3
        <3>2. i \in 1 .. Len(queue[e])
            BY <2>1, <2>3, <3>1
        <3> QED
            BY <2>1, <2>3, <3>2
    <2> QED
        BY <2>2, <2>3
<1>13. OutboxUpdates'
    BY <1>5, <1>6 DEF OutboxUpdates, TravelInv, Update
<1>14. UpdatesOnce'
    BY <1>8, <1>10, <1>11 DEF TravelInv, UpdatesOnce, Home
<1> QED
    BY <1>6, <1>9, <1>11, <1>12, <1>13, <1>14 DEF TravelInv, SameWay

\* What is left of the batches of an update when the GRT has pushed one.
LEMMA HalfPushed ==
    ASSUME TypeOK, TypeOK', NEW f \in Fifo, NEW e \in Endpoint, NEW shift \in {0, 1},
           PushedTo(GRTIx, e, shift), BothToPush(f) \/ CountToPush(f)
    PROVE  /\ e = Home(f) /\ shift = 1
           /\ BothToPush(f) => /\ outbox[GRTIx][1].note = AddressNote(f)
                               /\ outbox'[GRTIx] = LastHalf(f)
           /\ CountToPush(f) => /\ outbox[GRTIx][1].note = CountNote(f)
                                /\ outbox'[GRTIx] = << >>
<1>1. GRTIx \in LRT /\ outbox'[GRTIx] \in Seq(Batch)
    BY GRTAssumption DEF TypeOK, CommTypeOK
<1>2. /\ outbox[GRTIx][1].to = {Home(f)}
      /\ BothToPush(f) => outbox[GRTIx][1].note = AddressNote(f) /\ Len(outbox[GRTIx]) = 2
      /\ CountToPush(f) => outbox[GRTIx][1].note = CountNote(f) /\ Len(outbox[GRTIx]) = 1
    BY HalvesOf, UpdateNotes DEF BothToPush, CountToPush
<1>3. e = Home(f) /\ shift = 1
    BY <1>2 DEF PushedTo
<1>4. ASSUME BothToPush(f) PROVE outbox'[GRTIx] = LastHalf(f)
    <2>1. Len(outbox'[GRTIx]) = 1 /\ DOMAIN outbox'[GRTIx] = {1}
        BY <1>2, <1>3, <1>4 DEF PushedTo
    <2>2. /\ outbox[GRTIx][2] = ToHome(f, CountNote(f))
          /\ ToHome(f, CountNote(f)).note = CountNote(f)
          /\ ToHome(f, CountNote(f)).to = {Home(f)}
        BY <1>4, HalvesOf, UpdateNotes DEF BothToPush
    <2>3. outbox'[GRTIx][1].note = CountNote(f) /\ outbox'[GRTIx][1].to = {Home(f)}
        <3>1. /\ 1 \in 1 .. Len(outbox[GRTIx]) - shift /\ 1 + shift = 2
            BY <1>2, <1>3, <1>4
        <3>2. /\ outbox'[GRTIx][1].note = outbox[GRTIx][2].note
              /\ outbox'[GRTIx][1].to = outbox[GRTIx][2].to
            <4>1. \A b \in 1 .. Len(outbox[GRTIx]) - shift :
                     /\ outbox'[GRTIx][b].note = outbox[GRTIx][b + shift].note
                     /\ outbox'[GRTIx][b].to = IF b + shift = 1 THEN outbox[GRTIx][1].to \ {e}
                                               ELSE outbox[GRTIx][b + shift].to
                BY DEF PushedTo
            <4> QED
                BY <3>1, <4>1
        <3> QED
            BY <2>2, <3>2
    <2>4. outbox'[GRTIx][1] \in Batch
        BY <1>1, <2>1
    <2>5. outbox'[GRTIx][1] = ToHome(f, CountNote(f))
        BY <2>3, <2>4 DEF Batch, ToHome
    <2>6. LastHalf(f) = <<outbox'[GRTIx][1]>>
        BY <2>5 DEF LastHalf
    <2>7. LastHalf(f) \in Seq(Batch)
        BY <2>4, <2>6
    <2>8. \A i \in 1 .. Len(outbox'[GRTIx]) : outbox'[GRTIx][i] = LastHalf(f)[i]
        BY <2>1, <2>6
    <2>9. Len(LastHalf(f)) = 1
        BY HalvesOf
    <2> QED
        BY <1>1, <2>1, <2>7, <2>8, <2>9, SeqEqual
<1>5. ASSUME CountToPush(f) PROVE outbox'[GRTIx] = << >>
    <2>1. Len(outbox'[GRTIx]) = 0
        BY <1>2, <1>3, <1>5 DEF PushedTo
    <2> QED
        BY <1>1, <2>1
<1> QED
    BY <1>2, <1>3, <1>4, <1>5

\* The GRT pushes the address of an update.
LEMMA PushAddressTravel ==
    ASSUME TypeOK, TypeOK', TravelInv, UNCHANGED <<updating, dynamicBuffers, notifVector>>,
           NEW e \in Endpoint, NEW shift \in {0, 1}, PushedTo(GRTIx, e, shift),
           NEW f \in Fifo, BothToPush(f)
    PROVE  /\ TravelInv' /\ \A g \in Fifo : OnWay(g)' <=> OnWay(g)
           /\ \A r \in LRT \ {Home(f)} : UpdatesComing(r)' => UpdatesComing(r)
<1> DEFINE n == AddressNote(f)
<1>1. /\ e = Home(f) /\ outbox[GRTIx][1].note = n /\ outbox'[GRTIx] = LastHalf(f)
      /\ \A o \in LRT \ {GRTIx} : outbox'[o] = outbox[o]
      /\ queue' = [queue EXCEPT ![e] = Append(@, n)]
    <2>1. e = Home(f) /\ outbox[GRTIx][1].note = n /\ outbox'[GRTIx] = LastHalf(f)
        BY HalfPushed
    <2> QED
        BY <2>1 DEF PushedTo
<1>2. /\ n \in Notification /\ Update(n) /\ Home(f) \in LRT /\ GRTIx \in LRT /\ f # None
      /\ \A g \in Fifo : n = AddressNote(g) => g = f
    BY FifoOf, UpdateNotes
<1>3. \A g \in Fifo : /\ ~CountToPush(g) /\ (BothToPush(g) => g = f)
                      /\ outbox'[GRTIx] # Halves(g)
    <2>1. \A g \in Fifo : /\ Len(Halves(g)) = 2 /\ Len(LastHalf(g)) = 1
                          /\ Halves(f) = Halves(g) => f = g
        BY HalvesOf, HalvesDiffer
    <2>2. Len(LastHalf(f)) = 1 /\ Len(Halves(f)) = 2
        BY <2>1
    <2> QED
        BY <1>1, <2>1, <2>2 DEF BothToPush, CountToPush
<1> HIDE DEF n
<1>4. \A g \in Fifo : ~BothToPush(g)'
    BY <1>3 DEF BothToPush, Halves, ToHome, AddressNote, CountNote, Notify, Home, UsesToAdd
<1>5. /\ QueueUpdates' /\ ReadUpdates'
      /\ \A g \in Fifo : AddressIn(g)' =
            AddressIn(g) \cup (IF Home(g) = e /\ n = AddressNote(g) THEN {Len(queue[e]) + 1} ELSE {})
    <2>1. Update(n) => \E g \in Fifo :
               /\ Home(g) = e
               /\ \/ n = AddressNote(g) /\ outbox'[GRTIx] = LastHalf(g)
                  \/ n = CountNote(g) /\ HasAddress(g)
        BY <1>1 DEF n
    <2> QED
        BY <1>1, <1>2, <1>3, <2>1, AppendTravel
<1>6. /\ AddressIn(f) = {} /\ updating[Home(f)] # f /\ OnWay(f) /\ f \notin dynamicBuffers
      /\ AddressIn(f)' = {Len(queue[e]) + 1}
      /\ \A g \in Fifo : g # f => AddressIn(g)' = AddressIn(g)
    <2>1. AddressIn(f) = {} /\ updating[Home(f)] # f /\ OnWay(f) /\ f \notin dynamicBuffers
        BY DEF TravelInv, UpdatesOnce, OnWay
    <2> QED
        BY <1>1, <1>2, <1>5, <2>1 DEF n
<1>7. \A g \in Fifo : OnWay(g)' <=> OnWay(g)
    <2> SUFFICES ASSUME NEW g \in Fifo PROVE OnWay(g)' <=> OnWay(g)
        OBVIOUS
    <2>1. CASE g = f
        <3>1. AddressIn(f)' # {}
            BY <1>6
        <3> QED
            BY <1>6, <2>1, <3>1 DEF OnWay
    <2>2. CASE g # f
        BY <1>3, <1>4, <1>6, <2>2 DEF OnWay, Home
    <2> QED
        BY <2>1, <2>2
<1>8. ASSUME NEW r \in LRT, r # Home(f) PROVE UpdatesComing(r)' => UpdatesComing(r)
    <2>1. queue'[r] = queue[r]
        BY <1>1, <1>8, EndpointType DEF TypeOK, CommTypeOK
    <2> QED
        BY <2>1 DEF UpdatesComing, Update
<1>9. OutboxUpdates'
    <2>1. \A o \in LRT \ {GRTIx} : NoUpdateIn(outbox[o])'
        BY <1>1 DEF TravelInv, OutboxUpdates, NoUpdateIn, Update
    <2>2. queue'[e] = Append(queue[e], n) /\ queue[e] \in Seq(Notification)
        BY <1>1 DEF TypeOK, CommTypeOK
    <2>3. Len(queue'[e]) = Len(queue[e]) + 1 /\ queue'[e] # << >>
          /\ queue'[e][Len(queue[e]) + 1] = n
        BY <1>2, <2>2, AppendOf
    <2>4. CountToPush(f)' /\ HasAddress(f)'
        BY <1>1, <2>3 DEF CountToPush, HasAddress, LastHalf, ToHome, AddressNote, CountNote,
                          Notify, Home, UsesToAdd, n
    <2> QED
        BY <2>1, <2>4 DEF TravelInv, OutboxUpdates, Update
<1>10. UpdatesOnce'
    <2> SUFFICES ASSUME NEW g \in Fifo
                 PROVE  /\ \A i, j \in AddressIn(g)' : i = j
                        /\ updating'[Home(g)] = g => AddressIn(g)' = {}
                        /\ ~BothToPush(g)'
                        /\ g \in dynamicBuffers' => ~OnWay(g)'
        BY DEF UpdatesOnce, Home
    <2>1. CASE g = f
        BY <1>4, <1>6, <2>1
    <2>2. CASE g # f
        BY <1>4, <1>6, <1>7, <2>2 DEF TravelInv, UpdatesOnce
    <2> QED
        BY <2>1, <2>2
<1> QED
    BY <1>5, <1>7, <1>8, <1>9, <1>10 DEF TravelInv

\* It pushes the count, right behind the address.
LEMMA PushCountTravel ==
    ASSUME TypeOK, TypeOK', TravelInv, UNCHANGED <<updating, dynamicBuffers, notifVector>>,
           NEW e \in Endpoint, NEW shift \in {0, 1}, PushedTo(GRTIx, e, shift),
           NEW f \in Fifo, CountToPush(f), HasAddress(f)
    PROVE  TravelInv' /\ SameWay /\ ~UpdateToPush'
<1> DEFINE n == CountNote(f)
<1>1. /\ e = Home(f) /\ outbox[GRTIx][1].note = n /\ outbox'[GRTIx] = << >>
      /\ \A o \in LRT \ {GRTIx} : outbox'[o] = outbox[o]
      /\ queue' = [queue EXCEPT ![e] = Append(@, n)]
    <2>1. e = Home(f) /\ outbox[GRTIx][1].note = n /\ outbox'[GRTIx] = << >>
        BY HalfPushed
    <2> QED
        BY <2>1 DEF PushedTo
<1>2. /\ n \in Notification /\ Update(n) /\ Home(f) \in LRT /\ GRTIx \in LRT /\ f # None
      /\ \A g \in Fifo : n # AddressNote(g)
    BY FifoOf, UpdateNotes
<1>3. \A g \in Fifo : ~BothToPush(g) /\ ~BothToPush(g)' /\ ~CountToPush(g)'
    <2>1. \A g \in Fifo : Len(Halves(g)) = 2 /\ Len(LastHalf(g)) = 1
        BY HalvesOf
    <2>2. Len(LastHalf(f)) = 1
        BY <2>1
    <2>3. \A g \in Fifo : outbox'[GRTIx] # Halves(g) /\ outbox'[GRTIx] # LastHalf(g)
        BY <1>1, NoHalves
    <2> QED
        BY <2>1, <2>2, <2>3 DEF BothToPush, CountToPush, Halves, LastHalf, ToHome, AddressNote,
                                CountNote, Notify, Home, UsesToAdd
<1>4. \A g \in Fifo : CountToPush(g) /\ HasAddress(g) => g = f
    <2> SUFFICES ASSUME NEW g \in Fifo, CountToPush(g), HasAddress(g) PROVE g = f
        OBVIOUS
    <2>1. ToHome(g, CountNote(g)) = ToHome(f, CountNote(f))
        <3>1. LastHalf(g)[1] = ToHome(g, CountNote(g)) /\ LastHalf(f)[1] = ToHome(f, CountNote(f))
            BY HalvesOf
        <3> QED
            BY <3>1 DEF CountToPush
    <2>2. Home(g) = Home(f)
        BY <2>1, UpdateNotes
    <2>3. CASE queue[Home(f)] = << >>
        BY <2>2, <2>3 DEF HasAddress
    <2>4. CASE queue[Home(f)] # << >>
        <3>1. AddressNote(f) = AddressNote(g)
            BY <2>2, <2>4 DEF HasAddress
        <3> QED
            BY <3>1, UpdateNotes
    <2> QED
        BY <2>3, <2>4
<1> HIDE DEF n
<1>5. /\ QueueUpdates' /\ ReadUpdates'
      /\ \A g \in Fifo : AddressIn(g)' =
            AddressIn(g) \cup (IF Home(g) = e /\ n = AddressNote(g) THEN {Len(queue[e]) + 1} ELSE {})
    <2>1. Update(n) => \E g \in Fifo :
               /\ Home(g) = e
               /\ \/ n = AddressNote(g) /\ outbox'[GRTIx] = LastHalf(g)
                  \/ n = CountNote(g) /\ HasAddress(g)
        BY <1>1 DEF n
    <2>2. \A g \in Fifo : CountToPush(g) /\ HasAddress(g) => Home(g) = e /\ n = CountNote(g)
        BY <1>1, <1>4 DEF n
    <2> QED
        BY <1>1, <1>2, <2>1, <2>2, AppendTravel
<1>6. \A g \in Fifo : AddressIn(g)' = AddressIn(g)
    BY <1>2, <1>5
<1>7. \A g \in Fifo : OnWay(g)' <=> OnWay(g)
    BY <1>3, <1>6 DEF OnWay, Home
<1>8. ASSUME NEW r \in LRT, UpdatesComing(r)' PROVE UpdatesComing(r)
    <2>1. CASE r = Home(f)
        <3>1. CASE queue[r] = << >>
            BY <1>2, <2>1, <3>1 DEF HasAddress, UpdatesComing
        <3>2. CASE queue[r] # << >>
            <4>1. queue[r][Len(queue[r])] = AddressNote(f) /\ Update(AddressNote(f))
                BY <2>1, <3>2, UpdateNotes DEF HasAddress
            <4>2. queue[r] \in Seq(Notification)
                BY EndpointType DEF TypeOK, CommTypeOK
            <4>3. Len(queue[r]) \in DOMAIN queue[r]
                BY <3>2, <4>2
            <4> QED
                BY <4>1, <4>3 DEF UpdatesComing
        <3> QED
            BY <3>1, <3>2
    <2>2. CASE r # Home(f)
        <3>1. queue'[r] = queue[r]
            BY <1>1, <2>2, EndpointType DEF TypeOK, CommTypeOK
        <3> QED
            BY <1>8, <3>1 DEF UpdatesComing, Update
    <2> QED
        BY <2>1, <2>2
<1>9. OutboxUpdates' /\ ~UpdateToPush'
    <2>1. \A o \in LRT \ {GRTIx} : NoUpdateIn(outbox[o])'
        BY <1>1 DEF TravelInv, OutboxUpdates, NoUpdateIn, Update
    <2>2. ~UpdateToPush'
        BY <1>1 DEF UpdateToPush, NoUpdateIn
    <2> QED
        BY <2>1, <2>2 DEF TravelInv, OutboxUpdates, Update
<1>10. UpdatesOnce'
    BY <1>3, <1>6, <1>7 DEF TravelInv, UpdatesOnce, Home
<1> QED
    BY <1>5, <1>7, <1>8, <1>9, <1>10 DEF TravelInv, SameWay

\* The GRT sends an update.
LEMMA UpdateCountTravel ==
    ASSUME TypeOK, TravelInv, NEW f \in Fifo, UpdateCount(f)
    PROVE  /\ TravelInv' /\ OnWay(f)'
           /\ \A g \in Fifo : g # f => (OnWay(g)' <=> OnWay(g))
           /\ \A r \in LRT : UpdatesComing(r)' => UpdatesComing(r)
<1>1. /\ outbox[GRTIx] = << >> /\ queue' = queue /\ GRTIx \in LRT
      /\ outbox'[GRTIx] = Halves(f) /\ \A o \in LRT \ {GRTIx} : outbox'[o] = outbox[o]
      /\ updating' = updating /\ notifVector' = notifVector
      /\ f \in dynamicBuffers /\ dynamicBuffers' = dynamicBuffers \ {f}
    <2>1. Sends(GRTIx, Halves(f))
        BY UpdateCountSends
    <2> QED
        BY <2>1, GRTAssumption DEF Sends, Ready, UpdateCount, grtVars, TypeOK, CommTypeOK
<1>2. \A g \in Fifo : /\ ~BothToPush(g) /\ ~CountToPush(g) /\ ~CountToPush(g)'
                      /\ BothToPush(g)' <=> g = f
    <2>1. \A g \in Fifo : /\ << >> # Halves(g) /\ << >> # LastHalf(g)
                          /\ Halves(f) # LastHalf(g) /\ (Halves(f) = Halves(g) => f = g)
        <3>1. \A g \in Fifo : Len(Halves(g)) = 2 /\ Len(LastHalf(g)) = 1
            BY HalvesOf
        <3>2. Len(Halves(f)) = 2
            BY <3>1
        <3> QED
            BY <3>1, <3>2, NoHalves, HalvesDiffer
    <2>2. \A g \in Fifo : /\ CountToPush(g)' <=> outbox'[GRTIx] = LastHalf(g)
                          /\ BothToPush(g)' <=> outbox'[GRTIx] = Halves(g)
        BY DEF BothToPush, CountToPush, Halves, LastHalf, ToHome, AddressNote, CountNote,
               Notify, Home, UsesToAdd
    <2> QED
        BY <1>1, <2>1, <2>2 DEF BothToPush, CountToPush
<1>3. /\ ~OnWay(f) /\ AddressIn(f) = {} /\ updating[Home(f)] # f
      /\ \A g \in Fifo : AddressIn(g)' = AddressIn(g)
    <2>1. ~OnWay(f)
        BY <1>1 DEF TravelInv, UpdatesOnce
    <2>2. \A g \in Fifo : AddressIn(g)' = AddressIn(g)
        BY <1>1 DEF AddressIn, AddressNote, Home, Notify
    <2> QED
        BY <2>1, <2>2 DEF OnWay
<1>4. OnWay(f)' /\ \A g \in Fifo : g # f => (OnWay(g)' <=> OnWay(g))
    BY <1>1, <1>2, <1>3 DEF OnWay, Home
<1>5. \A r \in LRT : UpdatesComing(r)' => UpdatesComing(r)
    BY <1>1 DEF UpdatesComing, Update
<1>6. OutboxUpdates'
    <2>1. \A o \in LRT \ {GRTIx} : NoUpdateIn(outbox[o])'
        BY <1>1 DEF TravelInv, OutboxUpdates, NoUpdateIn, Update
    <2>2. \E g \in Fifo : BothToPush(g)' \/ (CountToPush(g) /\ HasAddress(g))'
        BY <1>2
    <2> QED
        BY <1>1, <2>1, <2>2 DEF TravelInv, OutboxUpdates, Update
<1>7. QueueUpdates'
    <2> SUFFICES ASSUME NEW r \in LRT, NEW i \in DOMAIN queue'[r], Update(queue'[r][i]),
                        NEW ix, ix = queue'[r][i].notificationIx
                 PROVE  IF ix \in Fifo THEN AddressAt(r, i, ix)'
                        ELSE IF i = 1 THEN updating'[r] # None
                        ELSE Update(queue'[r][i - 1]) /\ queue'[r][i - 1].notificationIx \in Fifo
        BY DEF QueueUpdates, Update
    <2>1. IF ix \in Fifo THEN AddressAt(r, i, ix)
          ELSE IF i = 1 THEN updating[r] # None
          ELSE Update(queue[r][i - 1]) /\ queue[r][i - 1].notificationIx \in Fifo
        BY <1>1 DEF TravelInv, QueueUpdates
    <2>2. ix \in Fifo /\ AddressAt(r, i, ix) => AddressAt(r, i, ix)'
        BY <1>1, <1>2 DEF AddressAt
    <2> QED
        BY <1>1, <2>1, <2>2
<1>8. ReadUpdates'
    <2> SUFFICES ASSUME NEW r \in LRT, updating'[r] # None, NEW g, g = updating'[r]
                 PROVE  /\ g \in Fifo /\ Home(g) = r
                        /\ queue'[r] # << >> /\ queue'[r][1] = CountNote(g)
        BY DEF ReadUpdates, CountToPush, LastHalf, ToHome, CountNote, UsesToAdd, Home, Notify
    <2> QED
        BY <1>1, <1>2 DEF TravelInv, ReadUpdates
<1>9. UpdatesOnce'
    <2> SUFFICES ASSUME NEW g \in Fifo
                 PROVE  /\ \A i, j \in AddressIn(g)' : i = j
                        /\ updating'[Home(g)] = g => AddressIn(g)' = {}
                        /\ BothToPush(g)' => AddressIn(g)' = {} /\ updating'[Home(g)] # g
                        /\ g \in dynamicBuffers' => ~OnWay(g)'
        BY DEF UpdatesOnce, Home
    <2>1. /\ \A i, j \in AddressIn(g)' : i = j
          /\ updating'[Home(g)] = g => AddressIn(g)' = {}
        BY <1>1, <1>3 DEF TravelInv, UpdatesOnce
    <2>2. BothToPush(g)' => AddressIn(g)' = {} /\ updating'[Home(g)] # g
        BY <1>1, <1>2, <1>3
    <2>3. g \in dynamicBuffers' => ~OnWay(g)'
        BY <1>1, <1>4 DEF TravelInv, UpdatesOnce
    <2> QED
        BY <2>1, <2>2, <2>3
<1> QED
    BY <1>4, <1>5, <1>6, <1>7, <1>8, <1>9 DEF TravelInv

\* The LRT reads the address: it knows the FIFO whose count comes next.
LEMMA ReadAddressTravel ==
    ASSUME TypeOK, MemoryTypeOK, TravelInv, NEW r \in LRT, ReadUpdateAddress(r)
    PROVE  TravelInv' /\ SameWay /\ (UpdateToPush' => UpdateToPush) /\ Update(Head(queue[r]))
<1> DEFINE ix == queue[r][1].notificationIx
           L == Len(queue[r])
<1>1. /\ queue[r] # << >> /\ queue' = [queue EXCEPT ![r] = Tail(@)] /\ outbox' = outbox
      /\ updating[r] = None /\ Head(queue[r]) = queue[r][1] /\ Update(queue[r][1])
      /\ updating'[r] = ix /\ \A q \in LRT \ {r} : updating'[q] = updating[q]
      /\ dynamicBuffers' = dynamicBuffers /\ notifVector' = notifVector
      /\ r \in Endpoint /\ queue[r] \in Seq(Notification)
    <2>1. /\ queue[r] # << >> /\ queue' = [queue EXCEPT ![r] = Tail(@)] /\ outbox' = outbox
          /\ updating[r] = None /\ Update(Head(queue[r]))
          /\ updating' = [updating EXCEPT ![r] = Head(queue[r]).notificationIx]
          /\ dynamicBuffers' = dynamicBuffers /\ notifVector' = notifVector
        BY DEF ReadUpdateAddress, Received, Pop, Update, grtVars
    <2>2. r \in Endpoint /\ queue[r] \in Seq(Notification)
        BY EndpointType DEF TypeOK, CommTypeOK
    <2>3. Head(queue[r]) = queue[r][1]
        BY <2>1, <2>2
    <2>4. updating'[r] = ix /\ \A q \in LRT \ {r} : updating'[q] = updating[q]
        BY <2>1, <2>3 DEF MemoryTypeOK
    <2> QED
        BY <2>1, <2>2, <2>3, <2>4
<1>2. /\ DOMAIN queue[r] = 1 .. L /\ L \in Nat \ {0} /\ DOMAIN queue'[r] = 1 .. L - 1
      /\ \A i \in 1 .. L - 1 : queue'[r][i] = queue[r][i + 1]
      /\ queue'[r] = Tail(queue[r]) /\ Len(queue'[r]) = L - 1
      /\ queue'[r] = << >> <=> L = 1
    <2>1. queue'[r] = Tail(queue[r])
        BY <1>1 DEF TypeOK, CommTypeOK
    <2>2. /\ DOMAIN queue[r] = 1 .. L /\ L \in Nat \ {0} /\ DOMAIN queue'[r] = 1 .. L - 1
          /\ \A i \in 1 .. L - 1 : queue'[r][i] = queue[r][i + 1]
          /\ Len(queue'[r]) = L - 1 /\ queue'[r] \in Seq(Notification)
        BY <1>1, <2>1, TailOf
    <2>3. queue'[r] = << >> <=> Len(queue'[r]) = 0
        <3>1. queue'[r] # << >> => Len(queue'[r]) # 0
            BY <2>2, TailOf
        <3>2. queue'[r] = << >> => Len(queue'[r]) = 0
            OBVIOUS
        <3> QED
            BY <3>1, <3>2
    <2>4. L - 1 = 0 <=> L = 1
        BY <2>2
    <2> QED
        BY <2>1, <2>2, <2>3, <2>4
<1>3. PICK f \in Fifo : f = ix /\ AddressAt(r, 1, f)
    <2>1. 1 \in DOMAIN queue[r]
        BY <1>2
    <2>2. ix \in Fifo /\ AddressAt(r, 1, ix)
        BY <1>1, <2>1 DEF TravelInv, QueueUpdates
    <2> QED
        BY <2>2
<1> HIDE DEF L
<1>4. /\ Home(f) = r /\ queue[r][1] = AddressNote(f)
      /\ IF L = 1 THEN CountToPush(f) ELSE queue[r][2] = CountNote(f)
      /\ f # None /\ 1 \in AddressIn(f) /\ updating'[r] = f
    <2>1. 1 \in DOMAIN queue[r] /\ 1 + 1 = 2
        BY <1>2
    <2> QED
        BY <1>1, <1>3, <2>1, FifoOf DEF AddressAt, AddressIn, L
<1>5. /\ QueueUpdates'
      /\ \A g \in Fifo : /\ BothToPush(g)' <=> BothToPush(g)
                         /\ CountToPush(g)' <=> CountToPush(g)
                         /\ Home(g) # r => AddressIn(g)' = AddressIn(g)
                         /\ Home(g) = r => \A i : i \in AddressIn(g)' <=>
                                               i \in Nat \ {0} /\ i + 1 \in AddressIn(g)
                         /\ CountToPush(g) /\ HasAddress(g) /\ queue[r][1] # AddressNote(g)
                               => HasAddress(g)'
      /\ \A q \in LRT : (\E i \in DOMAIN queue'[q] : Update(queue'[q][i]))
                           => \E i \in DOMAIN queue[q] : Update(queue[q][i])
      /\ \A q \in LRT \ {r} : queue'[q] = queue[q]
    BY <1>1, <1>3, <1>4, PopQueue
<1>6. /\ AddressIn(f)' = {} /\ ~BothToPush(f)
      /\ \A g \in Fifo : g # f /\ Home(g) = r =>
            /\ AddressIn(g)' = {} <=> AddressIn(g) = {}
            /\ \A i, j \in AddressIn(g)' : i = j
            /\ updating[Home(g)] # g /\ updating'[Home(g)] # g
    <2>1. AddressIn(f)' = {} /\ ~BothToPush(f)
        <3>1. \A i \in AddressIn(f) : i = 1
            BY <1>3, <1>4 DEF TravelInv, UpdatesOnce
        <3>2. ASSUME NEW i \in AddressIn(f)' PROVE FALSE
            <4>1. i \in Nat \ {0} /\ i + 1 \in AddressIn(f)
                BY <1>3, <1>4, <1>5, <3>2
            <4> QED
                BY <3>1, <4>1
        <3> QED
            BY <1>3, <1>4, <3>2 DEF TravelInv, UpdatesOnce
    <2>2. ASSUME NEW g \in Fifo, g # f, Home(g) = r
          PROVE  /\ AddressIn(g)' = {} <=> AddressIn(g) = {}
                 /\ \A i, j \in AddressIn(g)' : i = j
                 /\ updating[Home(g)] # g /\ updating'[Home(g)] # g
        <3>1. \A i : i \in AddressIn(g)' <=> i \in Nat \ {0} /\ i + 1 \in AddressIn(g)
            BY <1>5, <2>2
        <3>2. queue[r][1] # AddressNote(g) /\ g # None
            BY <1>3, <1>4, <2>2, UpdateNotes, FifoOf
        <3>3. \A i \in AddressIn(g) : i - 1 \in Nat \ {0} /\ (i - 1) + 1 = i
            BY <1>2, <2>2, <3>2 DEF AddressIn
        <3>4. \A i, j \in AddressIn(g) : i = j
            BY DEF TravelInv, UpdatesOnce
        <3>5. \A i, j \in AddressIn(g)' : i = j
            <4> SUFFICES ASSUME NEW i \in AddressIn(g)', NEW j \in AddressIn(g)' PROVE i = j
                OBVIOUS
            <4>1. i \in Nat /\ j \in Nat /\ i + 1 = j + 1
                BY <3>1, <3>4
            <4> QED
                BY <4>1
        <3> QED
            BY <1>1, <1>4, <2>2, <3>1, <3>2, <3>3, <3>5
    <2> QED
        BY <2>1, <2>2
<1>7. \A g \in Fifo : OnWay(g)' <=> OnWay(g)
    <2> SUFFICES ASSUME NEW g \in Fifo PROVE OnWay(g)' <=> OnWay(g)
        OBVIOUS
    <2>1. CASE g = f
        BY <1>1, <1>4, <2>1 DEF OnWay, Home
    <2>2. CASE g # f /\ Home(g) = r
        <3>1. BothToPush(g)' <=> BothToPush(g)
            BY <1>5
        <3>2. (AddressIn(g)' = {} <=> AddressIn(g) = {}) /\ updating[Home(g)] # g /\ updating'[Home(g)] # g
            BY <1>6, <2>2
        <3> QED
            BY <3>1, <3>2 DEF OnWay, Home
    <2>3. CASE Home(g) # r
        <3>1. (BothToPush(g)' <=> BothToPush(g)) /\ AddressIn(g)' = AddressIn(g)
            BY <1>5, <2>3
        <3>2. updating'[Home(g)] = updating[Home(g)]
            BY <1>1, <2>3, FifoOf
        <3> QED
            BY <3>1, <3>2 DEF OnWay, Home
    <2> QED
        BY <2>1, <2>2, <2>3
<1>8. \A q \in LRT : UpdatesComing(q)' => UpdatesComing(q)
    <2> SUFFICES ASSUME NEW q \in LRT, UpdatesComing(q)' PROVE UpdatesComing(q)
        OBVIOUS
    <2>1. CASE q = r
        <3>1. 1 \in DOMAIN queue[r]
            BY <1>2
        <3> QED
            BY <1>1, <2>1, <3>1 DEF UpdatesComing
    <2>2. CASE q # r
        BY <1>1, <1>5, <2>2 DEF UpdatesComing, Update
    <2> QED
        BY <2>1, <2>2
<1>9. OutboxUpdates' /\ (UpdateToPush' => UpdateToPush)
    <2>1. (\A o \in LRT \ {GRTIx} : NoUpdateIn(outbox[o])') /\ (UpdateToPush' <=> UpdateToPush)
        BY <1>1 DEF TravelInv, OutboxUpdates, NoUpdateIn, UpdateToPush, Update
    <2>2. ASSUME NEW g \in Fifo, CountToPush(g), HasAddress(g) PROVE HasAddress(g)'
        <3>1. CASE queue[r][1] # AddressNote(g)
            BY <1>5, <2>2, <3>1
        <3>2. CASE queue[r][1] = AddressNote(g)
            <4>1. g = f
                BY <1>3, <1>4, <3>2, UpdateNotes
            <4>2. queue[r][L] = AddressNote(f)
                BY <1>1, <1>4, <2>2, <4>1 DEF HasAddress, L
            <4>3. L = 1
                <5>1. L \in AddressIn(f)
                    BY <1>2, <1>4, <4>2 DEF AddressIn
                <5> QED
                    BY <1>3, <1>4, <5>1 DEF TravelInv, UpdatesOnce
            <4>4. queue'[Home(f)] = << >> /\ updating'[Home(f)] = f
                BY <1>1, <1>2, <1>4, <4>3
            <4> QED
                BY <4>1, <4>4 DEF HasAddress, Home
        <3> QED
            BY <3>1, <3>2
    <2>3. UpdateToPush' => \E g \in Fifo : BothToPush(g)' \/ (CountToPush(g) /\ HasAddress(g))'
        BY <1>5, <2>1, <2>2 DEF TravelInv, OutboxUpdates
    <2> QED
        BY <1>1, <2>1, <2>3 DEF TravelInv, OutboxUpdates, Update
<1>10. ReadUpdates'
    <2> SUFFICES ASSUME NEW q \in LRT, updating'[q] # None, NEW g, g = updating'[q]
                 PROVE  /\ g \in Fifo /\ Home(g) = q
                        /\ IF queue'[q] = << >> THEN CountToPush(g)'
                           ELSE queue'[q][1] = CountNote(g)
        BY DEF ReadUpdates, CountToPush, LastHalf, ToHome, CountNote, UsesToAdd, Home, Notify
    <2>1. CASE q = r
        <3>1. g = f /\ (CountToPush(f)' <=> CountToPush(f))
            BY <1>1, <1>3, <1>5, <2>1
        <3>2. CASE L = 1
            BY <1>2, <1>3, <1>4, <2>1, <3>1, <3>2
        <3>3. CASE L # 1
            <4>1. 1 \in 1 .. L - 1 /\ 1 + 1 = 2
                BY <1>2, <3>3
            <4> QED
                BY <1>2, <1>3, <1>4, <2>1, <3>1, <3>3, <4>1
        <3> QED
            BY <3>2, <3>3
    <2>2. CASE q # r
        <3>1. queue'[q] = queue[q] /\ g = updating[q] /\ updating[q] # None
            BY <1>1, <1>5, <2>2
        <3>2. /\ g \in Fifo /\ Home(g) = q
              /\ IF queue[q] = << >> THEN CountToPush(g) ELSE queue[q][1] = CountNote(g)
            BY <3>1 DEF TravelInv, ReadUpdates
        <3> QED
            BY <1>5, <3>1, <3>2
    <2> QED
        BY <2>1, <2>2
<1>11. UpdatesOnce'
    <2> SUFFICES ASSUME NEW g \in Fifo
                 PROVE  /\ \A i, j \in AddressIn(g)' : i = j
                        /\ updating'[Home(g)] = g => AddressIn(g)' = {}
                        /\ BothToPush(g)' => AddressIn(g)' = {} /\ updating'[Home(g)] # g
                        /\ g \in dynamicBuffers' => ~OnWay(g)'
        BY DEF UpdatesOnce, Home
    <2>1. /\ \A i, j \in AddressIn(g) : i = j
          /\ updating[Home(g)] = g => AddressIn(g) = {}
          /\ BothToPush(g) => AddressIn(g) = {} /\ updating[Home(g)] # g
          /\ g \in dynamicBuffers' => ~OnWay(g)
        BY <1>1 DEF TravelInv, UpdatesOnce
    <2>2. (BothToPush(g)' <=> BothToPush(g)) /\ (OnWay(g)' <=> OnWay(g))
        BY <1>5, <1>7
    <2>3. CASE g = f
        BY <1>6, <2>1, <2>2, <2>3
    <2>4. CASE g # f /\ Home(g) = r
        <3>1. /\ AddressIn(g)' = {} <=> AddressIn(g) = {}
              /\ \A i, j \in AddressIn(g)' : i = j
              /\ updating'[Home(g)] # g
            BY <1>6, <2>4
        <3> QED
            BY <2>1, <2>2, <3>1
    <2>5. CASE Home(g) # r
        <3>1. AddressIn(g)' = AddressIn(g) /\ updating'[Home(g)] = updating[Home(g)]
            BY <1>1, <1>5, <2>5, FifoOf
        <3> QED
            BY <2>1, <2>2, <3>1
    <2> QED
        BY <2>3, <2>4, <2>5
<1> QED
    BY <1>1, <1>5, <1>7, <1>8, <1>9, <1>10, <1>11 DEF TravelInv, SameWay

\* It reads the count, which is the next notification, and the update is over.
LEMMA ReadCountTravel ==
    ASSUME TypeOK, MemoryTypeOK, TravelInv, NEW r \in LRT, ReadUpdateCount(r),
           NEW f, f = updating[r]
    PROVE  /\ f \in Fifo /\ Home(f) = r /\ OnWay(f) /\ queue[r] # << >>
           /\ Head(queue[r]) = CountNote(f) /\ Update(Head(queue[r]))
           /\ buffers' = [buffers EXCEPT ![AddressOf[f]].count = @ + UsesToAdd(f)]
           /\ updating' = [updating EXCEPT ![r] = None]
           /\ queue' = [queue EXCEPT ![r] = Tail(@)]
           /\ TravelInv' /\ ~OnWay(f)'
           /\ \A g \in Fifo : g # f => (OnWay(g)' <=> OnWay(g))
           /\ \A q \in LRT : UpdatesComing(q)' => UpdatesComing(q)
           /\ UpdateToPush' => UpdateToPush
<1> DEFINE L == Len(queue[r])
<1>1. /\ queue[r] # << >> /\ outbox' = outbox /\ f # None /\ r \in Endpoint
      /\ dynamicBuffers' = dynamicBuffers /\ notifVector' = notifVector
      /\ queue[r] \in Seq(Notification)
    BY EndpointType DEF ReadUpdateCount, TypeOK, CommTypeOK, grtVars
<1>2. /\ f \in Fifo /\ Home(f) = r /\ queue[r][1] = CountNote(f)
      /\ Head(queue[r]) = queue[r][1] /\ Update(queue[r][1])
      /\ queue[r][1].notificationIx = UsesToAdd(f) /\ UsesToAdd(f) \notin Fifo
      /\ \A g \in Fifo : queue[r][1] # AddressNote(g)
    <2>1. f \in Fifo /\ Home(f) = r /\ queue[r][1] = CountNote(f)
        BY <1>1 DEF TravelInv, ReadUpdates
    <2>2. Head(queue[r]) = queue[r][1]
        BY <1>1
    <2> QED
        BY <2>1, <2>2, UpdateNotes
<1>3. /\ queue' = [queue EXCEPT ![r] = Tail(@)]
      /\ buffers' = [buffers EXCEPT ![AddressOf[f]].count = @ + UsesToAdd(f)]
      /\ updating' = [updating EXCEPT ![r] = None]
      /\ updating'[r] = None /\ \A q \in LRT \ {r} : updating'[q] = updating[q]
    BY <1>2 DEF ReadUpdateCount, Update, MemoryTypeOK
<1>4. DOMAIN queue[r] = 1 .. L /\ L \in Nat \ {0}
    BY <1>1, TailOf
<1> HIDE DEF L
<1>5. /\ QueueUpdates'
      /\ \A g \in Fifo : /\ BothToPush(g)' <=> BothToPush(g)
                         /\ CountToPush(g)' <=> CountToPush(g)
                         /\ Home(g) # r => AddressIn(g)' = AddressIn(g)
                         /\ Home(g) = r => \A i : i \in AddressIn(g)' <=>
                                               i \in Nat \ {0} /\ i + 1 \in AddressIn(g)
                         /\ CountToPush(g) /\ HasAddress(g) => HasAddress(g)'
      /\ \A q \in LRT : (\E i \in DOMAIN queue'[q] : Update(queue'[q][i]))
                           => \E i \in DOMAIN queue[q] : Update(queue[q][i])
      /\ \A q \in LRT \ {r} : queue'[q] = queue[q]
    BY <1>1, <1>2, <1>3, PopQueue
<1>6. ASSUME NEW g \in Fifo
      PROVE  /\ AddressIn(g)' = {} <=> AddressIn(g) = {}
             /\ \A i, j \in AddressIn(g)' : i = j
    <2>1. \A i, j \in AddressIn(g) : i = j
        BY DEF TravelInv, UpdatesOnce
    <2>2. CASE Home(g) = r
        <3>1. \A i : i \in AddressIn(g)' <=> i \in Nat \ {0} /\ i + 1 \in AddressIn(g)
            BY <1>5, <2>2
        <3>2. \A i \in AddressIn(g) : i - 1 \in Nat \ {0} /\ (i - 1) + 1 = i
            BY <1>2, <1>4, <2>2 DEF AddressIn
        <3>3. \A i, j \in AddressIn(g)' : i = j
            <4> SUFFICES ASSUME NEW i \in AddressIn(g)', NEW j \in AddressIn(g)' PROVE i = j
                OBVIOUS
            <4>1. i \in Nat /\ j \in Nat /\ i + 1 = j + 1
                BY <2>1, <3>1
            <4> QED
                BY <4>1
        <3> QED
            BY <3>1, <3>2, <3>3
    <2>3. CASE Home(g) # r
        BY <1>5, <2>1, <2>3
    <2> QED
        BY <2>2, <2>3
<1>7. OnWay(f) /\ AddressIn(f) = {} /\ ~BothToPush(f) /\ ~OnWay(f)'
    <2>1. OnWay(f) /\ AddressIn(f) = {} /\ ~BothToPush(f)
        BY <1>2 DEF OnWay, TravelInv, UpdatesOnce
    <2>2. AddressIn(f)' = {} /\ ~BothToPush(f)' /\ updating'[Home(f)] # f
        BY <1>1, <1>2, <1>3, <1>5, <1>6, <2>1
    <2> QED
        BY <2>1, <2>2 DEF OnWay, Home
<1>8. ASSUME NEW g \in Fifo, g # f
      PROVE  /\ updating'[Home(g)] = g <=> updating[Home(g)] = g
             /\ OnWay(g)' <=> OnWay(g)
    <2>1. updating'[Home(g)] = g <=> updating[Home(g)] = g
        BY <1>3, <1>8, FifoOf
    <2> QED
        BY <1>5, <1>6, <2>1 DEF OnWay, Home
<1>9. \A q \in LRT : UpdatesComing(q)' => UpdatesComing(q)
    <2> SUFFICES ASSUME NEW q \in LRT, UpdatesComing(q)' PROVE UpdatesComing(q)
        OBVIOUS
    <2>1. CASE q = r
        BY <1>1, <2>1 DEF UpdatesComing
    <2>2. CASE q # r
        BY <1>3, <1>5, <2>2 DEF UpdatesComing, Update
    <2> QED
        BY <2>1, <2>2
<1>10. OutboxUpdates' /\ (UpdateToPush' => UpdateToPush)
    <2>1. (\A o \in LRT \ {GRTIx} : NoUpdateIn(outbox[o])') /\ (UpdateToPush' <=> UpdateToPush)
        BY <1>1 DEF TravelInv, OutboxUpdates, NoUpdateIn, UpdateToPush, Update
    <2>2. UpdateToPush' => \E g \in Fifo : BothToPush(g)' \/ (CountToPush(g) /\ HasAddress(g))'
        BY <1>5, <2>1 DEF TravelInv, OutboxUpdates
    <2> QED
        BY <1>1, <2>1, <2>2 DEF TravelInv, OutboxUpdates, Update
<1>11. ReadUpdates'
    <2> SUFFICES ASSUME NEW q \in LRT, updating'[q] # None, NEW g, g = updating'[q]
                 PROVE  /\ g \in Fifo /\ Home(g) = q
                        /\ IF queue'[q] = << >> THEN CountToPush(g)'
                           ELSE queue'[q][1] = CountNote(g)
        BY DEF ReadUpdates, CountToPush, LastHalf, ToHome, CountNote, UsesToAdd, Home, Notify
    <2>1. q # r /\ queue'[q] = queue[q] /\ g = updating[q] /\ updating[q] # None
        BY <1>3, <1>5
    <2>2. /\ g \in Fifo /\ Home(g) = q
          /\ IF queue[q] = << >> THEN CountToPush(g) ELSE queue[q][1] = CountNote(g)
        BY <2>1 DEF TravelInv, ReadUpdates
    <2> QED
        BY <1>5, <2>1, <2>2
<1>12. UpdatesOnce'
    <2> SUFFICES ASSUME NEW g \in Fifo
                 PROVE  /\ \A i, j \in AddressIn(g)' : i = j
                        /\ updating'[Home(g)] = g => AddressIn(g)' = {}
                        /\ BothToPush(g)' => AddressIn(g)' = {} /\ updating'[Home(g)] # g
                        /\ g \in dynamicBuffers' => ~OnWay(g)'
        BY DEF UpdatesOnce, Home
    <2>1. /\ updating[Home(g)] = g => AddressIn(g) = {}
          /\ BothToPush(g) => AddressIn(g) = {} /\ updating[Home(g)] # g
          /\ g \in dynamicBuffers' => ~OnWay(g)
        BY <1>1 DEF TravelInv, UpdatesOnce
    <2>2. CASE g = f
        BY <1>5, <1>6, <1>7, <2>2
    <2>3. CASE g # f
        BY <1>5, <1>6, <1>8, <2>1, <2>3
    <2> QED
        BY <2>2, <2>3
<1> QED
    BY <1>1, <1>2, <1>3, <1>5, <1>7, <1>8, <1>9, <1>10, <1>11, <1>12 DEF TravelInv

\* A push takes the updates on their way as they are.
LEMMA PushTravel ==
    ASSUME RoundInv, TypeOK', UpdateInv, UNCHANGED <<updating, dynamicBuffers, notifVector>>,
           NEW p \in LRT, Push(p)
    PROVE  /\ TravelInv' /\ (UpdateToPush' => UpdateToPush)
           /\ \A f \in Fifo : OnWay(f)' <=> OnWay(f)
           /\ \A r \in LRT : UpdatesComing(r)' => UpdatesComing(r) \/ BeforeJobs
           /\ \/ ~Update(outbox[p][1].note)
              \/ BeforeJobs
<1>1. PICK e \in Endpoint, shift \in {0, 1} : PushedTo(p, e, shift)
    BY PushEffect DEF RoundInv
<1>2. TypeOK /\ TravelInv /\ GRTIx \in LRT
    BY GRTAssumption DEF RoundInv, UpdateInv
<1>3. CASE ~UpdateToPush
    <2>1. TravelInv' /\ SameWay /\ ~UpdateToPush'
        BY <1>1, <1>2, <1>3, PushOtherTravel
    <2>2. NoUpdateIn(outbox[p]) /\ 1 \in DOMAIN outbox[p]
        <3>1. outbox[p] \in Seq(Batch) /\ outbox[p] # << >>
            BY <1>1, <1>2, Places DEF PushedTo
        <3>2. 1 \in DOMAIN outbox[p]
            BY <3>1, TailOf
        <3> QED
            BY <1>2, <1>3, <3>2 DEF TravelInv, OutboxUpdates, UpdateToPush
    <2> QED
        BY <2>1, <2>2 DEF SameWay, NoUpdateIn
<1>4. CASE UpdateToPush
    <2>1. BeforeJobs
        BY <1>4 DEF UpdateInv, UpdatesInTime
    <2>2. p = GRTIx
        <3>1. outbox[p] # << >>
            BY DEF Push
        <3> QED
            BY <2>1, <3>1, BeforeJobsAlone DEF UpdateInv
    <2>3. PICK f \in Fifo : BothToPush(f) \/ (CountToPush(f) /\ HasAddress(f))
        BY <1>2, <1>4 DEF TravelInv, OutboxUpdates
    <2>4. CASE BothToPush(f)
        BY <1>1, <1>2, <1>4, <2>1, <2>2, <2>4, PushAddressTravel
    <2>5. CASE CountToPush(f) /\ HasAddress(f)
        <3>1. TravelInv' /\ SameWay /\ ~UpdateToPush'
            BY <1>1, <1>2, <2>2, <2>5, PushCountTravel
        <3> QED
            BY <2>1, <3>1 DEF SameWay
    <2> QED
        BY <2>3, <2>4, <2>5
<1> QED
    BY <1>3, <1>4

\* A push keeps the updates in time.
LEMMA PushTime ==
    ASSUME RoundInv, TypeOK', UpdateInv, UNCHANGED <<updating, dynamicBuffers>>,
           NEW p \in LRT, Push(p), UNCHANGED runnerVars, UNCHANGED grtVars
    PROVE  UpdatesInTime' /\ BusyInv'
<1>1. /\ TypeOK /\ SentInOrder /\ BarrierInv /\ pc' = pc /\ runner' = runner
      /\ notifVector' = notifVector
      /\ UNCHANGED <<context, round, toLaunch>>
    BY DEF RoundInv, runnerVars, grtVars
<1>2. /\ UpdateToPush' => UpdateToPush
      /\ \A r \in LRT : UpdatesComing(r)' => UpdatesComing(r) \/ BeforeJobs
      /\ ~Update(outbox[p][1].note) \/ BeforeJobs
    BY <1>1, PushTravel
<1>3. PICK e \in Endpoint, shift \in {0, 1} : PushedTo(p, e, shift)
    BY <1>1, PushEffect
<1>4. BeforeJobs' <=> BeforeJobs
    BY <1>1 DEF BeforeJobs, TasksOfRound, TasksOf
<1>5. \A r \in LRT : Coming(r)' = Coming(r)
    BY <1>1, PushKeepsComing
<1>6. ASSUME NEW r \in LRT, UpdatesComing(r)'
      PROVE  /\ runner'[r].jobQueue = << >>
             /\ pc'[GRTIx] = "Launch" \/ Expects(r, "LRT_END_ITERATION")'
    <2>1. CASE BeforeJobs
        BY <1>1, <2>1, BeforeJobsRunner DEF BeforeJobs
    <2>2. CASE UpdatesComing(r)
        BY <1>1, <1>5, <2>2, SameComing DEF UpdateInv, UpdatesInTime
    <2> QED
        BY <1>2, <1>6, <2>1, <2>2
<1>7. ASSUME NEW r \in LRT, NEW i \in DOMAIN queue'[r], NEW j \in DOMAIN queue'[r],
             i < j, Update(queue'[r][j]), queue'[r][i].type \in JobTypes
      PROVE  FALSE
    <2> DEFINE L == Len(queue[e])
               n == outbox[p][1].note
    <2>1. /\ DOMAIN queue[e] = 1 .. L /\ L \in Nat /\ DOMAIN queue'[e] = 1 .. L + 1
          /\ \A k \in 1 .. L : queue'[e][k] = queue[e][k]
          /\ queue'[e][L + 1] = n
          /\ \A q \in Endpoint \ {e} : queue'[q] = queue[q]
        <3>1. n \in Notification
            BY <1>1, <1>3, Places DEF PushedTo, Batch
        <3>2. queue' = [queue EXCEPT ![e] = Append(@, n)]
            BY <1>3 DEF PushedTo
        <3> QED
            BY <1>1, <3>1, <3>2, QueueAppended
    <2>2. \A k, m \in DOMAIN queue[r] :
              k < m /\ Update(queue[r][m]) => queue[r][k].type \notin JobTypes
        BY DEF UpdateInv, UpdatesInTime
    <2>3. CASE r # e
        BY <1>7, <2>1, <2>2, <2>3, EndpointType
    <2>4. CASE r = e
        <3>1. i \in 1 .. L
            BY <1>7, <2>1, <2>4
        <3>2. queue[e][i].type \in JobTypes /\ ~BeforeJobs
            BY <1>7, <2>1, <2>4, <3>1, BeforeJobsRunner
        <3>3. j \in 1 .. L
            BY <1>2, <1>7, <2>1, <2>4, <3>2
        <3> QED
            BY <1>7, <2>1, <2>2, <2>4, <3>1, <3>2, <3>3
    <2> QED
        BY <2>3, <2>4
<1>8. UpdatesInTime'
    BY <1>2, <1>4, <1>6, <1>7 DEF UpdateInv, UpdatesInTime, Update
<1>9. ASSUME NEW o \in LRT \ {GRTIx}, outbox'[o] # << >>
      PROVE  TokenInOutbox(o)' \/ runner'[o].jobQueueCurrentPos > 0
    <2>1. outbox[o] # << >>
        BY <1>3, <1>9 DEF PushedTo
    <2>2. TokenInOutbox(o) \/ runner[o].jobQueueCurrentPos > 0
        BY <2>1 DEF UpdateInv, BusyInv
    <2>3. CASE ~Finished(outbox[p][1].note)
        BY <1>1, <1>3, <2>2, <2>3, PushOther
    <2>4. CASE Finished(outbox[p][1].note)
        <3>1. outbox'[p] = << >> /\ \A r \in LRT \ {p} : TokenInOutbox(r)' <=> TokenInOutbox(r)
            BY <1>1, <1>3, <2>4, PushToken
        <3> QED
            BY <1>1, <1>9, <2>2, <3>1
    <2> QED
        BY <2>3, <2>4
<1> QED
    BY <1>8, <1>9 DEF BusyInv

-----------------------------------------------------------------------------
(* What the other steps leave of the updates                               *)

\* A step that leaves the queues, or reads one, keeps the updates in time.
LEMMA TimeKept ==
    ASSUME TypeOK, UpdatesInTime, UpdateToPush' => UpdateToPush,
           UpdateToPush /\ BeforeJobs => BeforeJobs',
           \A r \in LRT : UpdatesComing(r)' =>
               /\ runner'[r].jobQueue = << >>
               /\ pc'[GRTIx] = "Launch" \/ Expects(r, "LRT_END_ITERATION")',
           \/ queue' = queue
           \/ \E e \in Endpoint : queue[e] # << >> /\ queue' = [queue EXCEPT ![e] = Tail(@)]
    PROVE  UpdatesInTime'
<1>1. \A r \in LRT : \A i, j \in DOMAIN queue[r] :
          i < j /\ Update(queue[r][j]) => queue[r][i].type \notin JobTypes
    BY DEF UpdatesInTime
<1>2. ASSUME NEW r \in LRT, NEW i \in DOMAIN queue'[r], NEW j \in DOMAIN queue'[r],
             i < j, Update(queue'[r][j])
      PROVE  queue'[r][i].type \notin JobTypes
    <2>1. CASE queue' = queue
        BY <1>1, <1>2, <2>1
    <2>2. ASSUME NEW e \in Endpoint, queue[e] # << >>, queue' = [queue EXCEPT ![e] = Tail(@)]
          PROVE  queue'[r][i].type \notin JobTypes
        <3>1. CASE r # e
            BY <1>1, <1>2, <2>2, <3>1, QueuePopped, EndpointType
        <3>2. CASE r = e
            <4>1. /\ DOMAIN queue[e] = 1 .. Len(queue[e]) /\ Len(queue[e]) \in Nat \ {0}
                  /\ DOMAIN queue'[e] = 1 .. Len(queue[e]) - 1
                  /\ \A k \in 1 .. Len(queue[e]) - 1 : queue'[e][k] = queue[e][k + 1]
                BY <2>2, QueuePopped
            <4>2. /\ i + 1 \in DOMAIN queue[e] /\ j + 1 \in DOMAIN queue[e] /\ i + 1 < j + 1
                  /\ queue'[r][i] = queue[e][i + 1] /\ queue'[r][j] = queue[e][j + 1]
                BY <1>2, <3>2, <4>1
            <4> QED
                BY <1>1, <1>2, <3>2, <4>2
        <3> QED
            BY <3>1, <3>2
    <2> QED
        BY <2>1, <2>2
<1> QED
    BY <1>2 DEF UpdatesInTime, Update

\* What the GRT has sent stays until it is read.
LEMMA SentStays ==
    ASSUME TypeOK, SendsOthers, NEW r \in LRT, NEW type, Expects(r, type)
    PROVE  Expects(r, type)'
<1>1. PICK n \in Coming(r) : n.type = type
    BY DEF Expects
<1>2. \/ outbox'[GRTIx] = outbox[GRTIx]
      \/ outbox[GRTIx] = << >>
    BY GRTAssumption DEF SendsOthers
<1>3. n \in Coming(r)'
    <2>1. CASE \E i \in DOMAIN queue[r] : n = queue[r][i]
        BY <1>1, <2>1, ComingOf, ComingOfNext DEF SendsOthers
    <2>2. CASE outbox'[GRTIx] = outbox[GRTIx]
        BY <1>1, <2>2, ComingOf, ComingOfNext DEF SendsOthers
    <2>3. CASE outbox[GRTIx] = << >>
        BY <1>1, <2>1, <2>3, ComingOf
    <2> QED
        BY <1>2, <2>2, <2>3
<1> QED
    BY <1>1, <1>3 DEF Expects

\* A step that reads nothing keeps the updates.
LEMMA SendKeeps ==
    ASSUME RoundInv, UpdateInv, SendsOthers, updating' = updating,
           \A i \in DOMAIN notifVector' : ~Update(notifVector'[i]),
           \A f \in Fifo : f \in dynamicBuffers' => f \in dynamicBuffers \/ ~OnWay(f),
           UpdateToPush /\ BeforeJobs => BeforeJobs',
           \A r \in LRT : UpdatesComing(r) =>
               /\ runner'[r].jobQueue = << >>
               /\ \/ pc'[GRTIx] = "Launch"
                  \/ Expects(r, "LRT_END_ITERATION") \/ Expects(r, "LRT_END_ITERATION")',
           BusyInv'
    PROVE  UpdateInv' /\ SameWay
<1>1. TypeOK /\ TravelInv /\ UpdatesInTime
    BY DEF RoundInv, UpdateInv
<1>2. TravelInv' /\ SameWay /\ (UpdateToPush' => UpdateToPush)
    BY <1>1, SendsTravel
<1>3. \A r \in LRT : UpdatesComing(r)' =>
          /\ runner'[r].jobQueue = << >>
          /\ pc'[GRTIx] = "Launch" \/ Expects(r, "LRT_END_ITERATION")'
    BY <1>1, <1>2, SentStays DEF SameWay
<1>4. UpdatesInTime'
    BY <1>1, <1>2, <1>3, TimeKept DEF SendsOthers
<1> QED
    BY <1>2, <1>4 DEF UpdateInv

\* Nor does one that reads what is no update.
LEMMA PopKeeps ==
    ASSUME RoundInv, UpdateInv, UNCHANGED <<dynamicBuffers, updating>>,
           \A i \in DOMAIN notifVector' : ~Update(notifVector'[i]),
           NEW e \in Endpoint, queue[e] # << >>, ~Update(Head(queue[e])),
           queue' = [queue EXCEPT ![e] = Tail(@)], outbox' = outbox, ReadyKept,
           e \in LRT => updating[e] = None,
           BeforeJobs => BeforeJobs', pc[GRTIx] = "Launch" => pc'[GRTIx] = "Launch",
           \A r \in LRT :
               \/ runner'[r].jobQueue \in {runner[r].jobQueue, << >>}
               \/ r = e /\ Head(queue[e]).type \in JobTypes,
           \A o \in LRT \ {GRTIx} :
               Ready(o) \/ runner'[o].jobQueueCurrentPos = runner[o].jobQueueCurrentPos
    PROVE  UpdateInv' /\ SameWay
<1>1. TypeOK /\ SentInOrder /\ TravelInv /\ UpdatesInTime /\ BusyInv
    BY DEF RoundInv, UpdateInv
<1>2. TravelInv' /\ SameWay /\ (UpdateToPush' => UpdateToPush)
    BY <1>1, PopTravel
<1>3. ASSUME NEW r \in LRT, UpdatesComing(r)'
      PROVE  /\ runner'[r].jobQueue = << >>
             /\ pc'[GRTIx] = "Launch" \/ Expects(r, "LRT_END_ITERATION")'
    <2>1. /\ UpdatesComing(r) /\ runner[r].jobQueue = << >>
          /\ pc[GRTIx] = "Launch" \/ Expects(r, "LRT_END_ITERATION")
        BY <1>1, <1>2, <1>3 DEF SameWay, UpdatesInTime
    <2>2. r = e => Head(queue[e]).type \notin JobTypes
        <3> SUFFICES ASSUME r = e PROVE Head(queue[e]).type \notin JobTypes
            OBVIOUS
        <3>1. PICK j \in DOMAIN queue[e] : Update(queue[e][j])
            BY <2>1 DEF UpdatesComing
        <3>2. /\ DOMAIN queue[e] = 1 .. Len(queue[e]) /\ Len(queue[e]) \in Nat \ {0}
              /\ Head(queue[e]) = queue[e][1]
            BY <1>1, QueuePopped
        <3>3. 1 \in DOMAIN queue[e] /\ 1 < j
            BY <3>1, <3>2
        <3> QED
            BY <1>1, <3>1, <3>2, <3>3 DEF UpdatesInTime
    <2>3. Expects(r, "LRT_END_ITERATION") => Expects(r, "LRT_END_ITERATION")'
        <3>1. CASE r # e
            BY <1>1, <3>1, PopComing, SameComing
        <3>2. CASE r = e
            <4>1. Head(queue[e]).type # "LRT_END_ITERATION"
                BY <2>2, <3>2 DEF JobTypes
            <4>2. \A n \in Coming(r) : n \in Coming(r)' \/ n = Head(queue[e])
                BY <1>1, <3>2, PopComing
            <4> QED
                BY <4>1, <4>2 DEF Expects
        <3> QED
            BY <3>1, <3>2
    <2> QED
        BY <2>1, <2>2, <2>3
<1>4. UpdatesInTime'
    BY <1>1, <1>2, <1>3, TimeKept
<1>5. BusyInv'
    <2> SUFFICES ASSUME NEW o \in LRT \ {GRTIx}, outbox'[o] # << >>
                 PROVE  TokenInOutbox(o)' \/ runner'[o].jobQueueCurrentPos > 0
        BY DEF BusyInv
    <2>1. TokenInOutbox(o) \/ runner[o].jobQueueCurrentPos > 0
        BY <1>1 DEF BusyInv
    <2>2. TokenInOutbox(o)' <=> TokenInOutbox(o)
        BY DEF TokenInOutbox
    <2>3. ~Ready(o)
        BY DEF Ready
    <2> QED
        BY <2>1, <2>2, <2>3
<1> QED
    BY <1>2, <1>4, <1>5 DEF UpdateInv

\* A runner that reads sends nothing: it has nothing to push.
LEMMA ReadKeeps ==
    ASSUME RoundInv, UpdateInv, UNCHANGED <<dynamicBuffers, updating>>, UNCHANGED grtVars,
           NEW r \in LRT, ReadNotification(r), updating[r] = None
    PROVE  UpdateInv' /\ SameWay
<1>1. /\ TypeOK /\ SentInOrder /\ PhaseInv /\ TravelInv /\ r \in Endpoint
      /\ GRTIx \in LRT /\ runner[r] \in RunnerState
      /\ runner \in [LRT -> RunnerState] /\ pc \in [LRT -> RunnerPC \cup GRTPC]
    BY EndpointType, GRTAssumption DEF RoundInv, UpdateInv, TypeOK, RunnerTypeOK
<1>2. PICK type \in ControlType \cup {"JOB_UPDATE_JOBSTAMP"} : Reads(r, type)
    BY <1>1, ReadsWhat
<1>3. /\ queue[r] # << >> /\ Head(queue[r]).type = type /\ outbox' = outbox
      /\ queue' = [queue EXCEPT ![r] = Tail(@)] /\ Ready(r) /\ pc[r] = "Read"
      /\ pc' = pc \/ pc' = [pc EXCEPT ![r] = "Stopped"]
      /\ \A q \in LRT \ {r} : runner'[q] = runner[q]
    BY <1>2 DEF Reads, Received, Reading, Pop
<1>4. ~Update(Head(queue[r]))
    BY <1>2, <1>3 DEF Update, ControlType, Resets
<1>5. \A i \in DOMAIN notifVector' : ~Update(notifVector'[i])
    BY <1>1 DEF TravelInv, OutboxUpdates, grtVars
<1>6. pc[GRTIx] = "Launch" => pc'[GRTIx] = "Launch"
    BY <1>1, <1>3
<1>7. BeforeJobs => BeforeJobs'
    BY <1>6 DEF BeforeJobs, TasksOfRound, TasksOf, grtVars
<1>8. ReadyKept
    BY <1>1, <1>3 DEF ReadyKept, SentInOrder, Ready
<1>9. \/ runner'[r].jobQueue \in {runner[r].jobQueue, << >>}
      \/ type \in JobTypes
    <2>1. CASE ReadJobAdd(r) \/ ReadEnd(r)
        BY <1>3, <2>1 DEF ReadJobAdd, ReadEnd, Received, Pop, JobTypes
    <2>2. CASE ReadStart(r)
        <3> DEFINE m == [runner[r] EXCEPT !.start = TRUE, !.finished = FALSE,
                                          !.jobCount = 0, !.jobQueueCurrentPos = 0]
        <3>1. m.jobQueue = runner[r].jobQueue
            BY <1>1 DEF RunnerState
        <3>2. runner' = runner \/ runner' = [runner EXCEPT ![r] = m]
            BY <2>2 DEF ReadStart
        <3> HIDE DEF m
        <3> QED
            BY <1>1, <3>1, <3>2
    <2>3. CASE ReadClear(r) \/ ReadReset(r)
        <3>1. /\ Cleared(runner[r]).jobQueue = runner[r].jobQueue
              /\ [Cleared(runner[r]) EXCEPT !.jobQueue = << >>].jobQueue = << >>
            BY <1>1, ClearedType, EmptiedType
        <3>2. \/ runner'[r] = Cleared(runner[r])
              \/ runner'[r] = [Cleared(runner[r]) EXCEPT !.jobQueue = << >>]
            BY <1>1, <2>3 DEF ReadClear, ReadReset
        <3> QED
            BY <3>1, <3>2
    <2>4. CASE ReadRepeat(r) \/ ReadDelayBroadcast(r)
        BY <1>1, <2>4 DEF ReadRepeat, ReadDelayBroadcast, RunnerState
    <2>5. CASE ReadStop(r) \/ ReadJobStamp(r)
        BY <1>1, <2>5 DEF ReadStop, ReadJobStamp
    <2> QED
        BY <2>1, <2>2, <2>3, <2>4, <2>5 DEF ReadNotification
<1> QED
    BY <1>1, <1>3, <1>4, <1>5, <1>6, <1>7, <1>8, <1>9, PopKeeps

\* A runner that looks for a job neither reads nor sends.
LEMMA LoopKeeps ==
    ASSUME RoundInv, UpdateInv, UNCHANGED <<dynamicBuffers, updating>>,
           UNCHANGED <<context, round, toLaunch, notifVector>>,
           UNCHANGED <<commVars, runner>>, pc[GRTIx] = "Launch" => pc'[GRTIx] = "Launch"
    PROVE  UpdateInv' /\ SameWay
<1>1. /\ TypeOK /\ TravelInv /\ UpdatesInTime /\ BusyInv
      /\ queue' = queue /\ outbox' = outbox /\ runner' = runner
    BY DEF RoundInv, UpdateInv, commVars
<1>2. \A i \in DOMAIN notifVector' : ~Update(notifVector'[i])
    BY <1>1 DEF TravelInv, OutboxUpdates
<1>3. BeforeJobs => BeforeJobs'
    BY DEF BeforeJobs, TasksOfRound, TasksOf
<1>4. SendsOthers
    BY <1>1 DEF SendsOthers
<1>5. BusyInv'
    BY <1>1 DEF BusyInv, TokenInOutbox
<1> QED
    BY <1>1, <1>2, <1>3, <1>4, <1>5, SendKeeps DEF UpdatesInTime

\* A runner whose job ends sends its stamp and its parameters.
LEMMA EndJobKeeps ==
    ASSUME RoundInv, UpdateInv, UNCHANGED <<dynamicBuffers, updating>>, UNCHANGED grtVars,
           NEW r \in LRT, EndJob(r)
    PROVE  UpdateInv' /\ SameWay
<1>1. /\ TypeOK /\ SentInOrder /\ TravelInv /\ UpdatesInTime /\ BusyInv
      /\ runner \in [LRT -> RunnerState] /\ pc \in [LRT -> RunnerPC \cup GRTPC]
      /\ outbox \in [LRT -> Seq(Batch)] /\ GRTIx \in LRT
    BY GRTAssumption DEF RoundInv, UpdateInv, TypeOK, CommTypeOK, RunnerTypeOK
<1>2. PICK t \in Task, s \in Seq(Batch) : EndJobDoes(r, t, s)
    BY <1>1, EndJobEffect
<1>3. /\ outbox' = [outbox EXCEPT ![r] = s] /\ queue' = queue /\ pc[r] = "Kernel"
      /\ pc' = [pc EXCEPT ![r] = "Finish"]
      /\ runner'[r].jobQueueCurrentPos = runner[r].jobQueueCurrentPos + 1
      /\ \A q \in LRT \ {r} : runner'[q] = runner[q]
      /\ outbox[r] = << >>
    BY <1>1, <1>2 DEF EndJobDoes, SentInOrder, Ready
<1>4. NoUpdateIn(s)
    BY <1>2 DEF EndJobDoes, NoUpdateIn, Update, Notify
<1>5. SendsOthers
    BY <1>1, <1>3, <1>4 DEF SendsOthers
<1>6. \A i \in DOMAIN notifVector' : ~Update(notifVector'[i])
    BY <1>1 DEF TravelInv, OutboxUpdates, grtVars
<1>7. pc[GRTIx] = "Launch" => pc'[GRTIx] = "Launch"
    BY <1>1, <1>3
<1>8. BeforeJobs => BeforeJobs'
    BY <1>7 DEF BeforeJobs, TasksOfRound, TasksOf, grtVars
<1>9. \A q \in LRT : UpdatesComing(q) => runner'[q].jobQueue = << >>
    BY <1>1, <1>3, UpdatesComingWhen
<1>10. BusyInv'
    <2> SUFFICES ASSUME NEW o \in LRT \ {GRTIx}, outbox'[o] # << >>
                 PROVE  TokenInOutbox(o)' \/ runner'[o].jobQueueCurrentPos > 0
        BY DEF BusyInv
    <2>1. CASE o = r
        BY <1>1, <1>3, <2>1, RunnerFields DEF TypeOK
    <2>2. CASE o # r
        BY <1>1, <1>3, <2>2 DEF BusyInv, TokenInOutbox
    <2> QED
        BY <2>1, <2>2
<1> QED
    BY <1>1, <1>5, <1>6, <1>7, <1>8, <1>9, <1>10, SendKeeps DEF UpdatesInTime

\* A runner that closes the round has read all the updates.
LEMMA ClosingKeeps ==
    ASSUME RoundInv, UpdateInv, UNCHANGED <<dynamicBuffers, updating>>,
           NEW r \in LRT, NEW s \in Seq(Batch), Closes(r, s)
    PROVE  UpdateInv' /\ SameWay
<1>1. /\ TypeOK /\ PhaseInv /\ JobsInv /\ TravelInv /\ UpdatesInTime /\ BusyInv
      /\ runner \in [LRT -> RunnerState] /\ pc \in [LRT -> RunnerPC \cup GRTPC]
      /\ outbox \in [LRT -> Seq(Batch)] /\ GRTIx \in LRT
    BY GRTAssumption DEF RoundInv, UpdateInv, TypeOK, CommTypeOK, RunnerTypeOK
<1>2. /\ pc[r] = "Finish" /\ outbox[r] = << >> /\ FinishedIteration(r)
      /\ runner' = [runner EXCEPT ![r] = Closed(runner[r])]
      /\ outbox' = [outbox EXCEPT ![r] = s] /\ queue' = queue /\ notifVector' = notifVector
      /\ AreBatches(s, BroadcastTo(r), StampNote(r),
                    IF r = GRTIx THEN {} ELSE {GRTIx}, FinishedNote(r))
      /\ pc' = [pc EXCEPT ![r] = IF r = GRTIx THEN "Wait" ELSE "Read"]
      /\ UNCHANGED <<context, round, toLaunch>>
    BY DEF Closes, Ready
<1>3. NoUpdateIn(s)
    BY <1>1, <1>2, NotesAre DEF AreBatches, NoUpdateIn, Update
<1>4. SendsOthers
    BY <1>1, <1>2, <1>3 DEF SendsOthers
<1>5. \A i \in DOMAIN notifVector' : ~Update(notifVector'[i])
    BY <1>1, <1>2 DEF TravelInv, OutboxUpdates
<1>6. pc[GRTIx] = "Launch" => pc'[GRTIx] = "Launch"
    BY <1>1, <1>2
<1>7. BeforeJobs => BeforeJobs'
    BY <1>2, <1>6 DEF BeforeJobs, TasksOfRound, TasksOf
<1>8. ~UpdatesComing(r)
    <2>1. Coming(r) = {} /\ pc[GRTIx] \in Launched
        BY <1>1, <1>2, ClosingRunner
    <2> QED
        BY <1>1, <2>1 DEF UpdatesInTime, Expects, Launched
<1>9. BusyInv'
    <2> SUFFICES ASSUME NEW o \in LRT \ {GRTIx}, outbox'[o] # << >>
                 PROVE  TokenInOutbox(o)' \/ runner'[o].jobQueueCurrentPos > 0
        BY DEF BusyInv
    <2>1. CASE o = r
        <3>1. Len(s) \in DOMAIN s /\ s[Len(s)].note = FinishedNote(r)
            BY <1>2, <2>1 DEF AreBatches
        <3>2. outbox'[o] = s /\ Finished(FinishedNote(r))
            BY <1>1, <1>2, <2>1, NotesAre DEF Finished
        <3> QED
            BY <3>1, <3>2 DEF TokenInOutbox, Finished
    <2>2. CASE o # r
        BY <1>1, <1>2, <2>2 DEF BusyInv, TokenInOutbox
    <2> QED
        BY <2>1, <2>2
<1> QED
    BY <1>1, <1>2, <1>4, <1>5, <1>6, <1>7, <1>8, <1>9, SendKeeps DEF UpdatesInTime

\* What is no update, sent in one loop or two.
LEMMA NoUpdateSent ==
    /\ NoUpdateIn(<< >>)
    /\ \A R, n : ~Update(n) => NoUpdateIn(ToEach(R, n))
    /\ \A s, t \in Seq(Batch) : NoUpdateIn(s) /\ NoUpdateIn(t) => NoUpdateIn(s \o t)
<1>1. NoUpdateIn(<< >>)
    BY DEF NoUpdateIn
<1>2. ASSUME NEW R, NEW n, ~Update(n) PROVE NoUpdateIn(ToEach(R, n))
    <2>1. CASE R = {}
        BY <1>1, <2>1, ToEachOf
    <2>2. CASE R # {}
        <3>1. ToEach(R, n) = <<[note |-> n, to |-> R]>>
            BY <2>2, ToEachOf
        <3> QED
            BY <1>2, <3>1 DEF NoUpdateIn
    <2> QED
        BY <2>1, <2>2
<1>3. ASSUME NEW s \in Seq(Batch), NEW t \in Seq(Batch), NoUpdateIn(s), NoUpdateIn(t)
      PROVE  NoUpdateIn(s \o t)
    <2> SUFFICES ASSUME NEW b \in DOMAIN (s \o t) PROVE ~Update((s \o t)[b].note)
        BY DEF NoUpdateIn
    <2>1. /\ Len(s) \in Nat /\ Len(t) \in Nat /\ Len(s \o t) = Len(s) + Len(t)
          /\ DOMAIN s = 1 .. Len(s) /\ DOMAIN t = 1 .. Len(t)
          /\ s \o t \in Seq(Batch)
          /\ \A i \in 1 .. Len(s) + Len(t) :
                (s \o t)[i] = IF i <= Len(s) THEN s[i] ELSE t[i - Len(s)]
        BY ConcatProperties
    <2>2. b \in 1 .. Len(s) + Len(t)
        BY <2>1
    <2>3. CASE b <= Len(s)
        BY <1>3, <2>1, <2>2, <2>3 DEF NoUpdateIn
    <2>4. CASE b > Len(s)
        <3>1. b - Len(s) \in DOMAIN t
            BY <2>1, <2>2, <2>4
        <3> QED
            BY <1>3, <2>1, <2>2, <2>4, <3>1 DEF NoUpdateIn
    <2> QED
        BY <2>1, <2>2, <2>3, <2>4
<1> QED
    BY <1>1, <1>2, <1>3

\* Beside UpdateCount the GRT sends no update.
LEMMA GRTSendsOthers ==
    ASSUME TypeOK, OutboxUpdates,
           \/ RunReturns \/ Execute \/ (\E t \in Task : LaunchTask(t)) \/ EndLaunch
           \/ EndWait \/ NextRound \/ EndExecute \/ Quit
    PROVE  /\ SendsOthers /\ ~UpdateToPush
           /\ runner' = runner
           /\ \A o \in LRT \ {GRTIx} : outbox'[o] = outbox[o]
           /\ \A i \in DOMAIN notifVector' : ~Update(notifVector'[i])
<1>1. ASSUME NEW type \in NotificationType \ {"JOB_ADD", "JOB_SENT_PARAM", "MEM_UPDATE_COUNT"}
      PROVE  NoUpdateIn(ToAll(type)) /\ ToAll(type) \in Seq(Batch)
    <2>1. ~Update(Notify(type, GRTIx, NoStamp))
        BY DEF Update, Notify
    <2> QED
        BY <2>1, NoUpdateSent, ToAllType DEF ToAll
<1>2. << >> \in Seq(Batch) /\ NoUpdateIn(<< >>)
    BY NoBatch, NoUpdateSent
<1>3. ASSUME NEW c
      PROVE  NoUpdateIn((IF c \in StaticContext /\ ~iter[c]
                         THEN ToAll("LRT_REPEAT_ITERATION_EN") ELSE << >>)
                        \o ToAll("LRT_START_ITERATION"))
    BY <1>1, <1>2, NoUpdateSent DEF NotificationType
<1>4. \E s : /\ NoUpdateIn(s) /\ Ready(GRTIx) /\ queue' = queue
             /\ outbox' = [outbox EXCEPT ![GRTIx] = s] /\ runner' = runner
             /\ notifVector' = notifVector \/ notifVector' = << >>
    <2>1. CASE Execute \/ NextRound
        BY <1>3, <2>1 DEF Execute, NextRound, StartRound, At
    <2>2. CASE \E t \in Task : LaunchTask(t)
        <3>1. \A t : ~Update(Notify("JOB_ADD", GRTIx, t))
            BY DEF Update, Notify
        <3> QED
            BY <2>2, <3>1, NoUpdateSent DEF LaunchTask, At, runnerVars
    <2>3. CASE EndLaunch
        <3>1. NoUpdateIn((IF IsStatic THEN << >> ELSE ToAll("JOB_DELAY_BROADCAST_JOBSTAMP"))
                         \o ToAll("LRT_END_ITERATION"))
            BY <1>1, <1>2, NoUpdateSent DEF NotificationType
        <3> QED
            BY <2>3, <3>1 DEF EndLaunch, At, grtVars
    <2>4. CASE RunReturns \/ EndExecute \/ Quit
        BY <1>1, <1>2, <2>4 DEF RunReturns, EndExecute, Quit, At, grtVars, NotificationType
    <2>5. CASE EndWait
        <3> DEFINE s == [i \in 1 .. Len(notifVector) |-> [note |-> notifVector[i], to |-> {GRTIx}]]
        <3>1. NoUpdateIn(s)
            <4>1. \A i \in 1 .. Len(notifVector) : ~Update(notifVector[i])
                BY DEF OutboxUpdates, TypeOK, GRTTypeOK
            <4>2. /\ DOMAIN s = 1 .. Len(notifVector)
                  /\ \A i \in 1 .. Len(notifVector) : s[i].note = notifVector[i]
                OBVIOUS
            <4> HIDE DEF s
            <4> QED
                BY <4>1, <4>2 DEF NoUpdateIn
        <3>2. /\ Ready(GRTIx) /\ queue' = queue /\ outbox' = [outbox EXCEPT ![GRTIx] = s]
              /\ runner' = runner /\ notifVector' = << >>
            BY <2>5 DEF EndWait, At
        <3> HIDE DEF s
        <3> QED
            BY <3>1, <3>2
    <2> QED
        BY <2>1, <2>2, <2>3, <2>4, <2>5
<1>5. outbox \in [LRT -> Seq(Batch)] /\ GRTIx \in LRT
    BY GRTAssumption DEF TypeOK, CommTypeOK
<1>6. SendsOthers /\ \A o \in LRT \ {GRTIx} : outbox'[o] = outbox[o]
    BY <1>4, <1>5 DEF SendsOthers, Ready
<1>7. ~UpdateToPush
    BY <1>2, <1>4 DEF UpdateToPush, Ready
<1> QED
    BY <1>4, <1>6, <1>7 DEF OutboxUpdates

\* What the runner of o has to push does not change when the GRT steps.
LEMMA BusyKept ==
    ASSUME BusyInv, runner' = runner, \A o \in LRT \ {GRTIx} : outbox'[o] = outbox[o]
    PROVE  BusyInv'
BY DEF BusyInv, TokenInOutbox

\* The GRT sends the tasks of a round, then its end, and passes the barrier.
LEMMA LaunchKeeps ==
    ASSUME RoundInv, UpdateInv, UNCHANGED updating,
           \/ \E t \in Task : LaunchTask(t)
           \/ EndLaunch \/ EndWait,
           \A f \in Fifo : f \in dynamicBuffers' => f \in dynamicBuffers \/ ~OnWay(f),
           RoundInv'
    PROVE  UpdateInv' /\ SameWay
<1>1. /\ TypeOK /\ SentInOrder /\ PhaseInv /\ JobsInv /\ BarrierInv /\ BusyInv /\ OutboxUpdates
      /\ pc \in [LRT -> RunnerPC \cup GRTPC] /\ GRTIx \in LRT /\ UpdatesInTime
    BY GRTAssumption DEF RoundInv, UpdateInv, TravelInv, TypeOK, RunnerTypeOK
<1>2. /\ SendsOthers /\ ~UpdateToPush /\ runner' = runner
      /\ \A o \in LRT \ {GRTIx} : outbox'[o] = outbox[o]
      /\ \A i \in DOMAIN notifVector' : ~Update(notifVector'[i])
    BY <1>1, GRTSendsOthers
<1>3. BusyInv'
    BY <1>1, <1>2, BusyKept
<1>4. ASSUME NEW r \in LRT, UpdatesComing(r)
      PROVE  /\ runner'[r].jobQueue = << >>
             /\ \/ pc'[GRTIx] = "Launch"
                \/ Expects(r, "LRT_END_ITERATION") \/ Expects(r, "LRT_END_ITERATION")'
    <2>1. /\ Active(r) /\ ~runner[r].receivedEnd /\ runner[r].jobQueue = << >>
        BY <1>1, <1>4, UpdatesComingWhen
    <2>2. CASE \E t \in Task : LaunchTask(t)
        BY <1>2, <2>1, <2>2 DEF LaunchTask, At, runnerVars
    <2>3. CASE EndLaunch
        <3>1. pc'[GRTIx] \in Launched /\ RunnerInPhase(r)' /\ Active(r)'
            BY <1>1, <2>3, EndLaunchRound DEF EndLaunch, GoTo, Launched, RoundInv, PhaseInv
        <3> QED
            BY <1>2, <2>1, <3>1 DEF RunnerInPhase, Active, Expects
    <2>4. CASE EndWait
        BY <1>1, <2>1, <2>4, AllClosed DEF EndWait, At
    <2> QED
        BY <2>2, <2>3, <2>4
<1> QED
    BY <1>2, <1>3, <1>4, SendKeeps

\* Between the rounds there is no update.
LEMMA IdleKeeps ==
    ASSUME RoundInv, UpdateInv, UNCHANGED updating,
           \/ RunReturns \/ Execute \/ NextRound \/ EndExecute \/ Quit \/ Join
           \/ \E c \in Context : CallRun(c)
    PROVE  UpdateInv' /\ SameWay /\ \A f \in Fifo : ~OnWay(f)
<1>1. TypeOK /\ BusyInv /\ OutboxUpdates /\ UpdatesInTime /\ GRTIx \in LRT
    BY GRTAssumption DEF RoundInv, UpdateInv, TravelInv
<1>2. ~InRound
    <2>1. pc[GRTIx] \in {"App", "Execute", "Params", "Join"}
        BY DEF RunReturns, Execute, NextRound, EndExecute, Quit, Join, CallRun, At
    <2> QED
        BY <2>1 DEF InRound, Launched
<1>3. /\ ~UpdateToPush /\ \A r \in LRT : ~UpdatesComing(r)
      /\ \A f \in Fifo : ~OnWay(f)
    BY <1>1, <1>2, NoUpdates
<1>4. /\ SendsOthers /\ runner' = runner
      /\ \A o \in LRT \ {GRTIx} : outbox'[o] = outbox[o]
      /\ \A i \in DOMAIN notifVector' : ~Update(notifVector'[i])
    <2>1. CASE RunReturns \/ Execute \/ NextRound \/ EndExecute \/ Quit
        BY <1>1, <2>1, GRTSendsOthers
    <2>2. CASE Join \/ \E c \in Context : CallRun(c)
        <3>1. queue' = queue /\ outbox' = outbox /\ runner' = runner /\ notifVector' = notifVector
            BY <2>2 DEF Join, CallRun, commVars, grtVars
        <3> QED
            BY <1>1, <3>1 DEF SendsOthers, OutboxUpdates
    <2> QED
        BY <2>1, <2>2
<1>5. BusyInv'
    BY <1>1, <1>4, BusyKept
<1>6. UpdateInv' /\ SameWay
    BY <1>3, <1>4, <1>5, SendKeeps
<1> QED
    BY <1>3, <1>6

\* The GRT reads what is no update.
LEMMA GRTReadKeeps ==
    ASSUME RoundInv, UpdateInv, UNCHANGED <<dynamicBuffers, updating>>,
           \/ ReadFinished /\ updating[GRTIx] = None
           \/ \E i \in LRT : WaitFinished(i)
           \/ SetAside \/ ReadParam
    PROVE  UpdateInv' /\ SameWay
<1>1. /\ TypeOK /\ SentInOrder /\ PhaseInv /\ JobsInv /\ OutboxUpdates /\ UpdatesInTime
      /\ GRTIx \in LRT /\ GRTIx \in Endpoint /\ ParamQueue \in Endpoint /\ ParamQueue \notin LRT
    BY EndpointType, ParamQueueApart DEF RoundInv, UpdateInv, TravelInv
<1>2. pc[GRTIx] = "Wait" => ~UpdatesComing(GRTIx)
    <2>1. pc[GRTIx] = "Wait" => ~Active(GRTIx)
        BY <1>1 DEF PhaseInv, GRTInPhase, Active, Expects
    <2> QED
        BY <1>1, <2>1, UpdatesComingWhen
<1>3. \E e \in Endpoint :
          /\ queue[e] # << >> /\ queue' = [queue EXCEPT ![e] = Tail(@)] /\ outbox' = outbox
          /\ e \in LRT => updating[e] = None
          /\ ~Update(Head(queue[e]))
    <2>1. CASE ReadFinished /\ updating[GRTIx] = None
        BY <1>1, <2>1 DEF ReadFinished, Received, Pop, Update
    <2>2. CASE \E i \in LRT : WaitFinished(i)
        BY <1>1, <1>2, <2>2 DEF WaitFinished, At, Pop, Update, UpdatesComing
    <2>3. CASE SetAside
        <3>1. /\ pc[GRTIx] = "Wait" /\ queue[GRTIx] # << >> /\ outbox' = outbox
              /\ queue' = [queue EXCEPT ![GRTIx] = Tail(@)]
            BY <2>3 DEF SetAside, At
        <3>2. /\ DOMAIN queue[GRTIx] = 1 .. Len(queue[GRTIx]) /\ Len(queue[GRTIx]) \in Nat \ {0}
              /\ Head(queue[GRTIx]) = queue[GRTIx][1]
            BY <1>1, <3>1, QueuePopped
        <3>3. 1 \in DOMAIN queue[GRTIx]
            BY <3>2
        <3> QED
            BY <1>1, <1>2, <3>1, <3>2, <3>3 DEF UpdatesComing
    <2>4. CASE ReadParam
        BY <1>1, <2>4 DEF ReadParam, Pop, Update
    <2> QED
        BY <2>1, <2>2, <2>3, <2>4
<1>4. PICK e \in Endpoint :
          /\ queue[e] # << >> /\ queue' = [queue EXCEPT ![e] = Tail(@)] /\ outbox' = outbox
          /\ e \in LRT => updating[e] = None
          /\ ~Update(Head(queue[e]))
    BY <1>3
<1>5. UNCHANGED <<runner, pc, context, round, toLaunch>>
    BY DEF ReadFinished, WaitFinished, SetAside, ReadParam, runnerVars
<1>6. \A i \in DOMAIN notifVector' : ~Update(notifVector'[i])
    <2>1. CASE SetAside
        <3>1. /\ notifVector' = Append(notifVector, Head(queue[GRTIx]))
              /\ queue' = [queue EXCEPT ![GRTIx] = Tail(@)] /\ queue[GRTIx] # << >>
              /\ pc[GRTIx] = "Wait"
            BY <2>1 DEF SetAside, At
        <3>2. /\ DOMAIN queue[GRTIx] = 1 .. Len(queue[GRTIx]) /\ Len(queue[GRTIx]) \in Nat \ {0}
              /\ Head(queue[GRTIx]) = queue[GRTIx][1] /\ Head(queue[GRTIx]) \in Notification
            BY <1>1, <3>1, QueuePopped
        <3>7. 1 \in DOMAIN queue[GRTIx]
            BY <3>2
        <3>3. ~Update(Head(queue[GRTIx]))
            BY <1>2, <3>1, <3>2, <3>7 DEF UpdatesComing
        <3>4. notifVector \in Seq(Notification)
            BY <1>1 DEF TypeOK, GRTTypeOK
        <3>5. /\ DOMAIN notifVector = 1 .. Len(notifVector) /\ Len(notifVector) \in Nat
              /\ DOMAIN notifVector' = 1 .. Len(notifVector) + 1
              /\ \A i \in 1 .. Len(notifVector) : notifVector'[i] = notifVector[i]
              /\ notifVector'[Len(notifVector) + 1] = Head(queue[GRTIx])
            BY <3>1, <3>2, <3>4, AppendOf
        <3>6. \A i \in 1 .. Len(notifVector) + 1 :
                  i \in 1 .. Len(notifVector) \/ i = Len(notifVector) + 1
            BY <3>5
        <3> QED
            BY <1>1, <3>3, <3>5, <3>6 DEF OutboxUpdates
    <2>2. CASE ~SetAside
        BY <1>1, <2>2 DEF ReadFinished, WaitFinished, ReadParam, OutboxUpdates
    <2> QED
        BY <2>1, <2>2
<1>7. ReadyKept
    BY <1>1, <1>4, <1>5 DEF ReadyKept, SentInOrder, Ready
<1>8. BeforeJobs' <=> BeforeJobs
    BY <1>5 DEF BeforeJobs, TasksOfRound, TasksOf
<1> QED
    BY <1>4, <1>5, <1>6, <1>7, <1>8, PopKeeps

-----------------------------------------------------------------------------
(* The steps, as the updates see them                                      *)

\* A step of a runner that is no update.
OwnStep(r) ==
    \/ Push(r) /\ UNCHANGED runnerVars
    \/ ReadNotification(r) /\ updating[r] = None
    \/ NothingToRead(r) \/ StartJob(r) \/ WaitJob(r) \/ NoJob(r) \/ Continue(r)
    \/ EndJob(r) \/ FinishIteration(r)

RunnerMoves(r) ==
    OwnStep(r) /\ UNCHANGED grtVars /\ UNCHANGED <<dynamicBuffers, updating>>

\* A step of the GRT that launches nothing and executes nothing.
GRTMovesOn ==
    /\ \/ RunReturns \/ LeaveRun
       \/ EndLaunch /\ NothingToCount
       \/ ReadFinished /\ updating[GRTIx] = None
       \/ \E i \in LRT : WaitFinished(i)
       \/ SetAside \/ EndWait \/ ReadParam \/ Join
       \/ Quit \/ Interrupt \/ Terminated \/ UNCHANGED vars
    /\ UNCHANGED <<dynamicBuffers, updating>>

\* Every step is one of these.
LEMMA MemoryKinds ==
    ASSUME TypeOK, [MemoryNext]_<<vars, memoryVars>>
    PROVE  \/ \E r \in LRT : StartJob(r) /\ RunnerMoves(r) /\ buffers' = Acquired(CurrentJob(r))
           \/ \E r \in LRT : EndJob(r) /\ RunnerMoves(r) /\ buffers' = Released(CurrentJob(r))
           \/ \E r \in LRT : ReadClear(r) /\ RunnerMoves(r) /\ buffers' = Collected
           \/ \E r \in LRT : RunnerMoves(r) /\ ~StartJob(r) /\ ~EndJob(r) /\ buffers' = buffers
           \/ GRTMovesOn /\ buffers' = buffers
           \/ \E r \in LRT : ReadUpdateAddress(r) \/ ReadUpdateCount(r)
           \/ \E f \in Fifo : UpdateCount(f)
           \/ \E t \in Task : MemoryLaunchTask(t)
           \/ MemoryEndExecute
           \/ (Execute \/ NextRound \/ \E c \in Context : CallRun(c)) /\ UNCHANGED memoryVars
<1>1. CASE \E r \in LRT : OtherRunnerStep(r)
    <2>1. PICK r \in LRT : OtherRunnerStep(r)
        BY <1>1
    <2>2. RunnerMoves(r) /\ buffers' = buffers
        BY <2>1 DEF OtherRunnerStep, RunnerMoves, OwnStep, ReadNotification, memoryVars
    <2>3. ~StartJob(r) /\ ~EndJob(r)
        <3>1. CASE pc' = pc
            <4>1. r \in DOMAIN pc
                BY DEF TypeOK, RunnerTypeOK
            <4> QED
                BY <3>1, <4>1 DEF StartJob, EndJob
        <3>2. CASE pc[r] \in {"Read", "Finish"}
            BY <3>2 DEF StartJob, EndJob
        <3>3. CASE WaitJob(r) \/ NoJob(r)
            BY <3>3 DEF WaitJob, NoJob, StartJob, EndJob
        <3> QED
            BY <2>1, <3>1, <3>2, <3>3 DEF OtherRunnerStep, ReadStart, ReadEnd, ReadReset,
               ReadRepeat, ReadStop, ReadJobAdd, ReadDelayBroadcast, ReadJobStamp,
               NothingToRead, FinishIteration, Continue, Received, Reading, runnerVars
    <2> QED
        BY <2>2, <2>3
<1>2. CASE \E r \in LRT : MemoryStartJob(r) \/ MemoryEndJob(r) \/ MemoryReadClear(r)
    BY <1>2 DEF MemoryStartJob, MemoryEndJob, MemoryReadClear, RunnerMoves, OwnStep,
                ReadNotification
<1>3. CASE OtherGRTStep
    BY <1>3 DEF OtherGRTStep, GRTMovesOn, memoryVars
<1>4. CASE UNCHANGED <<vars, memoryVars>>
    BY <1>4 DEF GRTMovesOn, memoryVars
<1> QED
    BY <1>1, <1>2, <1>3, <1>4 DEF MemoryNext

\* They are steps of the runtime.
LEMMA KindsRuntime ==
    /\ \A r \in LRT : RunnerMoves(r) => RunnerStep(r) /\ UNCHANGED grtVars /\ Next
    /\ GRTMovesOn => [Next]_vars
    /\ GRTMovesOn => \/ GRTStep \/ Quit \/ Interrupt \/ Terminated \/ UNCHANGED vars
    /\ \A t \in Task : MemoryLaunchTask(t) => Next
    /\ MemoryEndExecute \/ Execute \/ NextRound \/ (\E c \in Context : CallRun(c)) => Next
<1>1. \A r \in LRT : RunnerMoves(r) => RunnerStep(r) /\ UNCHANGED grtVars /\ Next
    BY DEF RunnerMoves, OwnStep, RunnerStep, Next
<1>2. GRTMovesOn => \/ GRTStep \/ Quit \/ Interrupt \/ Terminated \/ UNCHANGED vars
    BY DEF GRTMovesOn, GRTStep
<1>3. GRTMovesOn => [Next]_vars
    BY <1>2 DEF Next
<1>4. \A t \in Task : MemoryLaunchTask(t) => Next
    BY DEF MemoryLaunchTask, Next, GRTStep
<1>5. MemoryEndExecute \/ Execute \/ NextRound \/ (\E c \in Context : CallRun(c)) => Next
    BY DEF MemoryEndExecute, Next, GRTStep
<1> QED
    BY <1>1, <1>2, <1>3, <1>4, <1>5

\* The step of a runner leaves the GRT where it launches.
LEMMA MovesLaunch ==
    ASSUME TypeOK, NEW r \in LRT, RunnerStep(r)
    PROVE  pc[GRTIx] = "Launch" => pc'[GRTIx] = "Launch"
<1>1. \/ pc' = pc
      \/ /\ pc[r] \in {"Read", "Check", "Kernel", "Finish"}
         /\ \E label \in RunnerPC : pc' = [pc EXCEPT ![r] = label]
    BY RunnerStepMoves
<1> QED
    BY <1>1, GRTAssumption DEF TypeOK, RunnerTypeOK

\* A runner that goes on keeps the updates.
LEMMA RunnerMovesKeep ==
    ASSUME RoundInv, UpdateInv, NEW r \in LRT, RunnerMoves(r), RoundInv'
    PROVE  UpdateInv' /\ \A f \in Fifo : OnWay(f)' <=> OnWay(f)
<1>1. /\ OwnStep(r) /\ UNCHANGED grtVars /\ UNCHANGED <<dynamicBuffers, updating>>
      /\ TypeOK /\ TypeOK' /\ RunnerStep(r)
    BY KindsRuntime DEF RunnerMoves, RoundInv
<1>2. UNCHANGED <<context, round, toLaunch, notifVector>>
    BY <1>1 DEF grtVars
<1>3. CASE Push(r) /\ UNCHANGED runnerVars
    <2>1. UpdatesInTime' /\ BusyInv'
        BY <1>1, <1>3, PushTime
    <2>2. TravelInv' /\ \A f \in Fifo : OnWay(f)' <=> OnWay(f)
        BY <1>1, <1>2, <1>3, PushTravel
    <2> QED
        BY <2>1, <2>2 DEF UpdateInv
<1>4. CASE ReadNotification(r) /\ updating[r] = None
    BY <1>1, <1>4, ReadKeeps DEF SameWay
<1>5. CASE NothingToRead(r) \/ StartJob(r) \/ WaitJob(r) \/ NoJob(r) \/ Continue(r)
    <2>1. UNCHANGED <<commVars, runner>>
        BY <1>5 DEF NothingToRead, StartJob, WaitJob, NoJob, Continue
    <2> QED
        BY <1>1, <1>2, <2>1, MovesLaunch, LoopKeeps DEF SameWay
<1>6. CASE EndJob(r)
    BY <1>1, <1>6, EndJobKeeps DEF SameWay
<1>7. CASE FinishIteration(r)
    BY <1>1, <1>7, FinishIterationCloses, ClosingKeeps DEF SameWay
<1> QED
    BY <1>1, <1>3, <1>4, <1>5, <1>6, <1>7 DEF OwnStep

\* So does the GRT.
LEMMA GRTMovesKeep ==
    ASSUME RoundInv, UpdateInv, GRTMovesOn, RoundInv'
    PROVE  UpdateInv' /\ \A f \in Fifo : OnWay(f)' <=> OnWay(f)
<1>1. UNCHANGED <<dynamicBuffers, updating>> /\ TypeOK
    BY DEF GRTMovesOn, RoundInv
<1>2. CASE RunReturns \/ Quit \/ Join
    BY <1>1, <1>2, IdleKeeps DEF SameWay
<1>3. CASE LeaveRun
    BY <1>1, <1>3, LeaveRunCloses, ClosingKeeps, GRTAssumption DEF SameWay
<1>4. CASE EndLaunch \/ EndWait
    BY <1>1, <1>4, LaunchKeeps DEF SameWay
<1>5. CASE \/ ReadFinished /\ updating[GRTIx] = None
           \/ \E i \in LRT : WaitFinished(i)
           \/ SetAside \/ ReadParam
    BY <1>1, <1>5, GRTReadKeeps DEF SameWay
<1>6. CASE Interrupt \/ Terminated \/ UNCHANGED vars
    <2>1. UNCHANGED <<context, round, toLaunch, notifVector>> /\ UNCHANGED <<commVars, runner>>
          /\ pc' = pc
        BY <1>6 DEF Interrupt, Terminated, vars, runnerVars, grtVars
    <2> QED
        BY <1>1, <2>1, LoopKeeps DEF SameWay
<1> QED
    BY <1>2, <1>3, <1>4, <1>5, <1>6 DEF GRTMovesOn

\* The GRT sends an update before it sends a job of the round.
LEMMA UpdateCountKeeps ==
    ASSUME RoundInv, UpdateInv, DynamicInv, NEW f \in Fifo, UpdateCount(f)
    PROVE  /\ UpdateInv' /\ OnWay(f)' /\ BeforeJobs /\ BeforeJobs'
           /\ \A g \in Fifo : g # f => (OnWay(g)' <=> OnWay(g))
<1>1. /\ TypeOK /\ TravelInv /\ UpdatesInTime /\ BusyInv
    BY DEF RoundInv, UpdateInv
<1>2. /\ pc[GRTIx] = "Launch" /\ f \in dynamicBuffers /\ UNCHANGED runnerVars
      /\ UNCHANGED grtVars /\ queue' = queue /\ UNCHANGED <<buffers, updating>>
      /\ \E t \in Readers[f] : RoundOf[t] <= round
    BY DEF UpdateCount, At, Countable
<1>3. BeforeJobs
    <2>1. PICK t \in Readers[f] : RoundOf[t] <= round
        BY <1>2
    <2>2. RoundOf[t] >= round /\ (RoundOf[t] = round => BeforeJobs)
        BY <1>2, <2>1 DEF DynamicInv
    <2>3. RoundOf[t] \in Nat /\ round \in Nat
        BY <1>1, <2>1, FifoOf, TaskAssumption DEF TypeOK, GRTTypeOK
    <2> QED
        BY <2>1, <2>2, <2>3
<1>4. BeforeJobs'
    BY <1>2, <1>3 DEF BeforeJobs, TasksOfRound, TasksOf, runnerVars, grtVars
<1>5. /\ TravelInv' /\ OnWay(f)'
      /\ \A g \in Fifo : g # f => (OnWay(g)' <=> OnWay(g))
      /\ \A r \in LRT : UpdatesComing(r)' => UpdatesComing(r)
    BY <1>1, UpdateCountTravel
<1>6. UpdatesInTime'
    BY <1>1, <1>2, <1>4, <1>5 DEF UpdatesInTime, BeforeJobs, Update, runnerVars
<1>7. BusyInv'
    <2>1. runner' = runner /\ \A o \in LRT \ {GRTIx} : outbox'[o] = outbox[o]
        BY <1>1, UpdateCountSends DEF Sends, TypeOK, CommTypeOK, runnerVars
    <2> QED
        BY <1>1, <2>1, BusyKept
<1> QED
    BY <1>3, <1>4, <1>5, <1>6, <1>7 DEF UpdateInv

\* A runner reads a half of an update.
ReadsHalf(r) ==
    /\ queue[r] # << >> /\ Update(Head(queue[r]))
    /\ queue' = [queue EXCEPT ![r] = Tail(@)] /\ outbox' = outbox
    /\ UNCHANGED <<runner, stamps, pc, waitForJob, done, dynamicBuffers>>
    /\ blockingPop' \in [LRT -> BOOLEAN] /\ UNCHANGED grtVars

\* What it reads does not disturb the updates behind.
LEMMA HalfKeeps ==
    ASSUME RoundInv, UpdateInv, NEW r \in LRT, ReadsHalf(r), TravelInv',
           UpdateToPush' => UpdateToPush, \A q \in LRT : UpdatesComing(q)' => UpdatesComing(q)
    PROVE  UpdateInv'
<1>1. /\ TypeOK /\ SentInOrder /\ UpdatesInTime /\ BusyInv /\ r \in Endpoint
    BY EndpointType DEF RoundInv, UpdateInv
<1>2. /\ queue[r] # << >> /\ Update(Head(queue[r]))
      /\ queue' = [queue EXCEPT ![r] = Tail(@)] /\ outbox' = outbox
      /\ UNCHANGED <<runner, pc, context, round, toLaunch>>
    BY DEF ReadsHalf, grtVars
<1>3. ReadyKept
    BY <1>1, <1>2 DEF ReadyKept, SentInOrder, Ready
<1>4. \A q \in LRT : Coming(q)' = Coming(q)
    BY <1>1, <1>2, <1>3, PopComing, UpdateType
<1>5. \A q \in LRT : Expects(q, "LRT_END_ITERATION") => Expects(q, "LRT_END_ITERATION")'
    BY <1>4, SameComing
<1>6. BeforeJobs => BeforeJobs'
    BY <1>2 DEF BeforeJobs, TasksOfRound, TasksOf
<1>7. \A q \in LRT : UpdatesComing(q)' =>
          /\ runner'[q].jobQueue = << >>
          /\ pc'[GRTIx] = "Launch" \/ Expects(q, "LRT_END_ITERATION")'
    BY <1>1, <1>2, <1>5 DEF UpdatesInTime
<1>8. UpdatesInTime'
    BY <1>1, <1>2, <1>6, <1>7, TimeKept
<1>9. BusyInv'
    BY <1>1, <1>2, BusyKept
<1> QED
    BY <1>8, <1>9 DEF UpdateInv

\* The address, then the count.
LEMMA ReadUpdateKeeps ==
    ASSUME RoundInv, StampInv, UpdateInv, MemoryTypeOK, NEW r \in LRT,
           ReadUpdateAddress(r) \/ ReadUpdateCount(r)
    PROVE  /\ ReadsHalf(r) /\ UpdateInv' /\ RoundInv' /\ StampInv'
           /\ ReadUpdateAddress(r) => \A f \in Fifo : OnWay(f)' <=> OnWay(f)
           /\ ReadUpdateCount(r) => \A f \in Fifo :
                 OnWay(f)' <=> OnWay(f) /\ f # updating[r]
<1>1. /\ TypeOK /\ TravelInv
    BY DEF RoundInv, UpdateInv
<1>2. /\ ReadsHalf(r) /\ TravelInv' /\ (UpdateToPush' => UpdateToPush)
      /\ \A q \in LRT : UpdatesComing(q)' => UpdatesComing(q)
      /\ ReadUpdateAddress(r) => \A f \in Fifo : OnWay(f)' <=> OnWay(f)
      /\ ReadUpdateCount(r) => \A f \in Fifo :
            OnWay(f)' <=> OnWay(f) /\ f # updating[r]
    <2>1. CASE ReadUpdateAddress(r)
        <3>1. TravelInv' /\ SameWay /\ (UpdateToPush' => UpdateToPush) /\ Update(Head(queue[r]))
            BY <1>1, <2>1, ReadAddressTravel
        <3>2. blockingPop \in [LRT -> BOOLEAN]
            BY <1>1 DEF TypeOK, RunnerTypeOK
        <3>3. ReadsHalf(r)
            BY <2>1, <3>1, <3>2 DEF ReadUpdateAddress, Received, Pop, ReadsHalf
        <3>4. updating[r] = None
            BY <2>1 DEF ReadUpdateAddress
        <3>5. ~ReadUpdateCount(r)
            BY <3>4 DEF ReadUpdateCount
        <3> QED
            BY <3>1, <3>3, <3>5 DEF SameWay
    <2>2. CASE ReadUpdateCount(r)
        <3>1. PICK f : f = updating[r]
            OBVIOUS
        <3>2. /\ f \in Fifo /\ OnWay(f) /\ queue[r] # << >> /\ Update(Head(queue[r]))
              /\ queue' = [queue EXCEPT ![r] = Tail(@)]
              /\ TravelInv' /\ ~OnWay(f)'
              /\ \A g \in Fifo : g # f => (OnWay(g)' <=> OnWay(g))
              /\ \A q \in LRT : UpdatesComing(q)' => UpdatesComing(q)
              /\ UpdateToPush' => UpdateToPush
            BY <1>1, <2>2, <3>1, ReadCountTravel
        <3>3. blockingPop \in [LRT -> BOOLEAN]
            BY <1>1 DEF TypeOK, RunnerTypeOK
        <3>4. outbox' = outbox /\ UNCHANGED runnerVars /\ UNCHANGED grtVars
              /\ UNCHANGED dynamicBuffers /\ updating[r] # None
            BY <2>2 DEF ReadUpdateCount
        <3>5. ReadsHalf(r)
            BY <3>2, <3>3, <3>4 DEF ReadsHalf, runnerVars
        <3>6. ~ReadUpdateAddress(r)
            BY <3>4 DEF ReadUpdateAddress
        <3> QED
            BY <3>1, <3>2, <3>5, <3>6
    <2> QED
        BY <2>1, <2>2
<1>3. UpdateInv'
    BY <1>2, HalfKeeps
<1>4. RoundInv' /\ StampInv'
    BY <1>2, ReadUpdateRound DEF ReadsHalf
<1> QED
    BY <1>2, <1>3, <1>4

-----------------------------------------------------------------------------
(* The FIFOs that are counted later, step by step                          *)

\* The tasks still to be sent are tasks of the round that nobody has run.
LEMMA NotLaunched ==
    ASSUME RoundInv, NEW t \in toLaunch
    PROVE  /\ t \in Task /\ t \in TasksOfRound(context, round)
           /\ t \notin Begun /\ executing
<1>1. /\ TypeOK /\ PhaseInv /\ JobsInv
    BY DEF RoundInv
<1>2. /\ pc[GRTIx] = "Launch" /\ InRound /\ executing /\ t \in TasksOfRound(context, round)
    BY <1>1 DEF JobsInv, CallInv, InRound, PhaseInv, GRTInPhase
<1>3. t \in Task /\ MappedLRT[t] \in LRT
    BY <1>2, MappingAssumption DEF TasksOfRound, TasksOf
<1>4. ASSUME NEW r \in LRT PROVE Active(r) /\ JobsOfRound(r) /\ Queued(r) \cap toLaunch = {}
    <2>1. Active(r) /\ JobsOfRound(r)
        BY <1>1, <1>2, WhileLaunching DEF JobsInv
    <2> QED
        BY <1>2, <2>1 DEF JobsOfRound
<1>5. t \notin done
    <2> SUFFICES ASSUME t \in done PROVE FALSE
        OBVIOUS
    <2> DEFINE r == MappedLRT[t]
    <2>1. t \in RoundJobs(r)
        BY <1>2 DEF RoundJobs
    <2>2. t \in Ran(r)
        BY <1>2, <1>3, <1>4, <2>1 DEF JobsOfRound
    <2>3. runner[r].jobQueueCurrentPos <= Len(runner[r].jobQueue)
          /\ runner[r].jobQueue \in Seq(Task)
          /\ Len(runner[r].jobQueue) \in Nat /\ runner[r].jobQueueCurrentPos \in Nat
        BY <1>1, <1>3, RunnerFields DEF TypeOK, RunnerTypeOK
    <2>4. 1 .. runner[r].jobQueueCurrentPos \subseteq DOMAIN runner[r].jobQueue
        BY <2>3
    <2>5. t \in Queued(r)
        BY <2>2, <2>4 DEF Ran, Queued
    <2> QED
        BY <1>3, <1>4, <2>5
<1>6. t \notin Firing
    <2> SUFFICES ASSUME NEW r \in LRT, pc[r] = "Kernel", t = CurrentJob(r) PROVE FALSE
        BY DEF Firing
    <2>1. runner[r].jobQueueCurrentPos < Len(runner[r].jobQueue)
          /\ runner[r].jobQueue \in Seq(Task)
          /\ Len(runner[r].jobQueue) \in Nat /\ runner[r].jobQueueCurrentPos \in Nat
        BY <1>1, RunnerFields DEF TypeOK, RunnerTypeOK
    <2>2. runner[r].jobQueueCurrentPos + 1 \in DOMAIN runner[r].jobQueue
        BY <2>1
    <2>3. t \in Queued(r)
        BY <2>2 DEF Queued, CurrentJob
    <2> QED
        BY <1>4, <2>3
<1> QED
    BY <1>2, <1>3, <1>5, <1>6 DEF Begun

\* The readers that are counted later run in a later round of the same graph.
LEMMA ReaderOf ==
    ASSUME NEW f \in Fifo, NEW t \in Readers[f]
    PROVE  /\ t \in Task /\ Source[f] \in Task /\ Source[f] \in Deps[t]
           /\ ContextOf[t] = ContextOf[Source[f]]
           /\ RoundOf[t] \in Nat \ {0} /\ RoundOf[Source[f]] \in Nat \ {0}
           /\ f \in Dynamic => RoundOf[Source[f]] < RoundOf[t]
           /\ RoundOf[t] <= Rounds[ContextOf[t]]
BY FifoAssumption, TaskAssumption, ContextAssumption

\* A step that starts no round and launches no task.
LEMMA DynamicKept ==
    ASSUME DynamicInv, UNCHANGED <<context, round, toLaunch, executing, dynamicBuffers>>,
           done \subseteq done', \A f \in Fifo : OnWay(f)' => OnWay(f),
           BeforeJobs => BeforeJobs' \/ NothingToCount
    PROVE  DynamicInv'
<1>1. \A t : WasLaunched(t)' <=> WasLaunched(t)
    BY DEF WasLaunched, TasksOf
<1>2. ASSUME NEW f \in dynamicBuffers, NEW t \in Readers[f]
      PROVE  /\ RoundOf[t] >= round
             /\ RoundOf[t] = round => BeforeJobs'
    <2>1. /\ RoundOf[t] >= round
          /\ RoundOf[t] = round => BeforeJobs
        BY <1>2 DEF DynamicInv
    <2>2. RoundOf[t] = round => ~NothingToCount
        BY <1>2, <2>1 DEF NothingToCount, Countable
    <2> QED
        BY <2>1, <2>2
<1> QED
    BY <1>1, <1>2 DEF DynamicInv

\* So the steps of the runners keep these FIFOs.
LEMMA RunnerMovesDynamic ==
    ASSUME RoundInv, DynamicInv, NEW r \in LRT, RunnerMoves(r),
           \A f \in Fifo : OnWay(f)' <=> OnWay(f)
    PROVE  DynamicInv'
<1>1. /\ TypeOK /\ RunnerStep(r) /\ UNCHANGED grtVars /\ UNCHANGED dynamicBuffers
    BY KindsRuntime DEF RoundInv, RunnerMoves
<1>2. BeforeJobs => BeforeJobs'
    BY <1>1, MovesLaunch DEF BeforeJobs, TasksOfRound, TasksOf, grtVars
<1>3. done \subseteq done'
    BY <1>1 DEF RunnerStep, ReadNotification, ReadStart, ReadEnd, ReadClear, ReadReset,
       ReadRepeat, ReadStop, ReadJobAdd, ReadDelayBroadcast, ReadJobStamp, Received,
       NothingToRead, StartJob, WaitJob, NoJob, EndJob, FinishIteration, Continue, runnerVars
<1>4. UNCHANGED <<context, round, toLaunch, executing>>
    BY <1>1 DEF grtVars
<1> QED
    BY <1>1, <1>2, <1>3, <1>4, DynamicKept

\* So do those of the GRT.
LEMMA GRTMovesDynamic ==
    ASSUME RoundInv, DynamicInv, GRTMovesOn, \A f \in Fifo : OnWay(f)' <=> OnWay(f)
    PROVE  DynamicInv'
<1>1. UNCHANGED <<context, round, toLaunch, executing, dynamicBuffers, done>>
    BY DEF GRTMovesOn, RunReturns, LeaveRun, EndLaunch, ReadFinished, Received, WaitFinished,
           SetAside, EndWait, ReadParam, Join, Quit, Interrupt, Terminated, vars, runnerVars,
           grtVars
<1>2. BeforeJobs => BeforeJobs' \/ NothingToCount
    <2>1. CASE pc' = pc
        BY <1>1, <2>1 DEF BeforeJobs, TasksOfRound, TasksOf
    <2>2. CASE pc[GRTIx] # "Launch"
        BY <2>2 DEF BeforeJobs
    <2> QED
        BY <2>1, <2>2 DEF GRTMovesOn, RunReturns, LeaveRun, ReadFinished, WaitFinished,
           SetAside, EndWait, ReadParam, Join, Quit, Interrupt, Terminated, vars, runnerVars, At
<1> QED
    BY <1>1, <1>2, DynamicKept

\* The runners read updates of FIFOs that are counted already.
LEMMA ReadUpdateDynamic ==
    ASSUME DynamicInv, NEW r \in LRT, ReadsHalf(r), \A f \in Fifo : OnWay(f)' => OnWay(f)
    PROVE  DynamicInv'
<1>1. UNCHANGED <<context, round, toLaunch, executing, dynamicBuffers, done, pc>>
    BY DEF ReadsHalf, grtVars
<1>2. BeforeJobs => BeforeJobs'
    BY <1>1 DEF BeforeJobs, TasksOfRound, TasksOf
<1> QED
    BY <1>1, <1>2, DynamicKept

\* The GRT sends the update of a FIFO whose source is done.
LEMMA UpdateCountDynamic ==
    ASSUME RoundInv, UpdateInv, DynamicInv, NEW f \in Fifo, UpdateCount(f)
    PROVE  DynamicInv'
<1>1. /\ OnWay(f)' /\ BeforeJobs /\ BeforeJobs'
      /\ \A g \in Fifo : g # f => (OnWay(g)' <=> OnWay(g))
    BY UpdateCountKeeps
<1>2. /\ f \in dynamicBuffers /\ dynamicBuffers' = dynamicBuffers \ {f}
      /\ UNCHANGED <<context, round, toLaunch, executing, done>>
      /\ \E t \in Readers[f] : RoundOf[t] <= round
    BY DEF UpdateCount, Countable, runnerVars, grtVars
<1>3. \A t : WasLaunched(t)' <=> WasLaunched(t)
    BY <1>2 DEF WasLaunched, TasksOf
<1>4. /\ f \in Dynamic /\ Readers[f] # {} /\ WasLaunched(Source[f])
      /\ \A t \in Readers[f] : RoundOf[t] >= round
    BY <1>2 DEF DynamicInv
<1>5. Source[f] \in done
    <2>1. PICK t \in Readers[f] : RoundOf[t] <= round
        BY <1>2
    <2>2. RoundOf[Source[f]] < round
        BY <1>4, <2>1, ReaderOf DEF RoundInv, TypeOK, GRTTypeOK
    <2> QED
        BY <1>4, <2>2 DEF WasLaunched, RoundInv, JobsInv, DoneInv
<1> QED
    BY <1>1, <1>2, <1>3, <1>4, <1>5 DEF DynamicInv

\* A task is launched once the FIFOs of the round are counted.
LEMMA LaunchTaskKeeps ==
    ASSUME RoundInv, UpdateInv, DynamicInv, NEW t \in Task, MemoryLaunchTask(t), RoundInv'
    PROVE  /\ UpdateInv' /\ DynamicInv' /\ \A f \in Fifo : OnWay(f)' <=> OnWay(f)
           /\ t \notin Begun /\ executing' = executing /\ done' = done
<1>1. /\ t \in toLaunch /\ toLaunch' = toLaunch \ {t} /\ NothingToCount /\ LaunchTask(t)
      /\ dynamicBuffers' = dynamicBuffers \cup (OutputsOf(t) \cap Dynamic)
      /\ UNCHANGED <<context, round, executing, done, pc, updating>>
    BY DEF MemoryLaunchTask, LaunchTask, runnerVars
<1>2. /\ t \in TasksOfRound(context, round) /\ t \notin Begun /\ executing
    BY <1>1, NotLaunched
<1>3. \A f \in Fifo : f \in dynamicBuffers' => f \in dynamicBuffers \/ ~OnWay(f)
    BY <1>1, <1>2 DEF OutputsOf, DynamicInv, Begun
<1>4. UpdateInv' /\ \A f \in Fifo : OnWay(f)' <=> OnWay(f)
    BY <1>1, <1>3, LaunchKeeps DEF SameWay
<1>5. round \in Nat
    BY DEF RoundInv, TypeOK, GRTTypeOK
<1>6. \A s : WasLaunched(s)' <=> WasLaunched(s) \/ s = t
    BY <1>1, <1>2, <1>5 DEF WasLaunched, TasksOfRound, TasksOf
<1>7. ASSUME NEW f \in dynamicBuffers', NEW u \in Readers[f]
      PROVE  f \in Dynamic /\ WasLaunched(Source[f])' /\ RoundOf[u] > round
    <2>1. CASE f \in dynamicBuffers
        <3>1. f \in Dynamic /\ WasLaunched(Source[f]) /\ RoundOf[u] >= round
            BY <1>7, <2>1 DEF DynamicInv
        <3>2. RoundOf[u] \in Nat /\ ~(RoundOf[u] <= round)
            BY <1>1, <1>7, <2>1, <3>1, ReaderOf, FifoAssumption DEF NothingToCount, Countable
        <3> QED
            BY <1>5, <1>6, <3>1, <3>2
    <2>2. CASE f \in OutputsOf(t) \cap Dynamic
        <3>1. f \in Dynamic /\ Source[f] = t /\ f \in Fifo
            BY <2>2 DEF OutputsOf
        <3>2. RoundOf[t] < RoundOf[u] /\ RoundOf[t] = round
            BY <1>2, <1>7, <3>1, ReaderOf DEF TasksOfRound
        <3> QED
            BY <1>5, <1>6, <3>1, <3>2
    <2> QED
        BY <1>1, <1>7, <2>1, <2>2
<1>8. \A f \in dynamicBuffers' : f \in Dynamic /\ WasLaunched(Source[f])'
    BY <1>1, <1>6 DEF DynamicInv, OutputsOf
<1>9. DynamicInv'
    <2>1. \A f \in dynamicBuffers' : \A u \in Readers[f] : RoundOf[u] >= round /\ RoundOf[u] # round
        <3>1. \A f \in dynamicBuffers' : \A u \in Readers[f] : RoundOf[u] \in Nat
            BY <1>8, ReaderOf, FifoAssumption
        <3> QED
            BY <1>5, <1>7, <3>1
    <2>2. \A f \in Dynamic :
              Readers[f] # {} /\ WasLaunched(Source[f])' /\ Source[f] \notin done'
                  => f \in dynamicBuffers'
        BY <1>1, <1>6, FifoAssumption DEF DynamicInv, OutputsOf
    <2>3. \A f \in Fifo : OnWay(f)' =>
              /\ f \in Dynamic /\ Readers[f] # {} /\ Source[f] \in done'
              /\ \A u \in Readers[f] : RoundOf[u] >= round'
        BY <1>1, <1>4 DEF DynamicInv
    <2> QED
        BY <1>1, <1>8, <2>1, <2>2, <2>3 DEF DynamicInv
<1> QED
    BY <1>1, <1>2, <1>4, <1>9

\* Nothing is counted later outside of an execution.
LEMMA NoneLater ==
    ASSUME DynamicInv, ~executing
    PROVE  dynamicBuffers = {}
BY DEF DynamicInv, WasLaunched

\* spider::run is called, and execute() returns.
LEMMA OutsideDynamic ==
    ASSUME RoundInv, DynamicInv, \A f \in Fifo : ~OnWay(f)',
           \/ \E c \in Context : CallRun(c) /\ UNCHANGED memoryVars
           \/ MemoryEndExecute
    PROVE  DynamicInv'
<1>1. ~executing' /\ dynamicBuffers' = {}
    <2>1. CASE \E c \in Context : CallRun(c) /\ UNCHANGED memoryVars
        <3>1. ~executing
            BY <2>1 DEF CallRun, At, RoundInv, PhaseInv, GRTInPhase, InRound, Launched
        <3> QED
            BY <2>1, <3>1, NoneLater DEF CallRun, memoryVars
    <2>2. CASE MemoryEndExecute
        BY <2>2 DEF MemoryEndExecute, EndExecute
    <2> QED
        BY <2>1, <2>2
<1> QED
    BY <1>1 DEF DynamicInv, WasLaunched

\* The first round of an execution: nothing was launched yet, or everything was
\* and is in one round.
LEMMA ExecuteDynamic ==
    ASSUME RoundInv, DynamicInv, Execute, dynamicBuffers' = dynamicBuffers,
           \A f \in Fifo : ~OnWay(f)'
    PROVE  DynamicInv'
<1>1. /\ pc[GRTIx] = "Execute" /\ context' = context /\ round' = 1
      /\ toLaunch' = JobsToSend(context, 1)
    BY DEF Execute, At, StartRound
<1>2. ~executing /\ context \in Context
    <2>1. context # None /\ ~executing
        BY <1>1 DEF RoundInv, JobsInv, CallInv, PhaseInv, GRTInPhase, InRound, Launched
    <2> QED
        BY <2>1 DEF RoundInv, TypeOK, GRTTypeOK
<1>3. dynamicBuffers' = {}
    BY <1>2, NoneLater
<1>4. ASSUME NEW f \in Dynamic, Readers[f] # {}, WasLaunched(Source[f])' PROVE FALSE
    <2>1. f \in Fifo
        BY FifoAssumption
    <2>2. PICK t \in Readers[f] : TRUE
        BY <1>4
    <2>3. /\ Source[f] \in Task /\ ContextOf[Source[f]] = context /\ RoundOf[Source[f]] <= 1
          /\ Source[f] \notin JobsToSend(context, 1)
        BY <1>1, <1>4 DEF WasLaunched, TasksOf
    <2>4. /\ RoundOf[Source[f]] = 1 /\ RoundOf[t] > 1 /\ RoundOf[t] <= Rounds[context]
        BY <2>1, <2>2, <2>3, ReaderOf
    <2>5. iter[context]
        BY <2>3, <2>4 DEF JobsToSend, TasksOfRound, TasksOf
    <2>6. Rounds[context] = 1
        BY <1>2, <2>5, ContextAssumption DEF RoundInv, JobsInv, CallInv
    <2>7. RoundOf[t] \in Nat
        BY <2>1, <2>2, ReaderOf
    <2> QED
        BY <2>4, <2>6, <2>7
<1> QED
    BY <1>3, <1>4 DEF DynamicInv

\* A later round: the tasks of the earlier ones are done.
LEMMA NextRoundDynamic ==
    ASSUME RoundInv, DynamicInv, NextRound, dynamicBuffers' = dynamicBuffers,
           \A f \in Fifo : ~OnWay(f)'
    PROVE  DynamicInv'
<1>1. /\ pc[GRTIx] = "Params" /\ context' = context /\ round' = round + 1
      /\ round < Rounds[context] /\ done' = done /\ executing' = executing
      /\ toLaunch' = JobsToSend(context, round + 1) /\ pc' = [pc EXCEPT ![GRTIx] = "Launch"]
    BY DEF NextRound, At, StartRound, GoTo
<1>2. /\ executing /\ context \in Context /\ round \in Nat \ {0} /\ toLaunch = {}
      /\ {t \in TasksOf(context) : RoundOf[t] < round} \subseteq done
      /\ TasksOfRound(context, round) \subseteq done
    <2>1. executing
        BY <1>1 DEF RoundInv, PhaseInv, GRTInPhase
    <2>2. context # None /\ round \in 1 .. Rounds[context] /\ toLaunch = {}
        BY <1>1, <2>1 DEF RoundInv, JobsInv, CallInv
    <2>3. /\ {t \in TasksOf(context) : RoundOf[t] < round} \subseteq done
          /\ TasksOfRound(context, round) \subseteq done
        BY <1>1, <2>1 DEF RoundInv, JobsInv, DoneInv
    <2>4. context \in Context /\ round \in Nat
        BY <2>2 DEF RoundInv, TypeOK, GRTTypeOK
    <2> QED
        BY <2>1, <2>2, <2>3, <2>4
<1>3. toLaunch' = TasksOfRound(context, round + 1)
    <2>1. ~iter[context]
        <3>1. iter[context] => context \in StaticContext
            BY <1>2 DEF RoundInv, JobsInv, CallInv
        <3>2. context \in StaticContext => Rounds[context] = 1
            BY ContextAssumption
        <3> QED
            BY <1>1, <1>2, <3>1, <3>2
    <2> QED
        BY <1>1, <2>1 DEF JobsToSend
<1>4. BeforeJobs'
    <2>1. pc'[GRTIx] = "Launch"
        BY <1>1, GRTAssumption DEF RoundInv, TypeOK, RunnerTypeOK
    <2> QED
        BY <1>1, <1>3, <2>1 DEF BeforeJobs, TasksOfRound, TasksOf
<1>5. ASSUME NEW t \in Task
      PROVE  WasLaunched(t)' <=> t \in TasksOf(context) /\ RoundOf[t] <= round
    <2>1. RoundOf[t] \in Nat
        BY TaskAssumption
    <2> QED
        BY <1>1, <1>2, <1>3, <2>1 DEF WasLaunched, TasksOfRound, TasksOf
<1>6. ASSUME NEW f \in dynamicBuffers
      PROVE  /\ f \in Dynamic /\ WasLaunched(Source[f])'
             /\ \A t \in Readers[f] : RoundOf[t] >= round'
    <2>1. f \in Dynamic /\ f \in Fifo /\ WasLaunched(Source[f])
        BY <1>6, FifoAssumption DEF DynamicInv
    <2>2. WasLaunched(Source[f])'
        BY <1>5, <2>1, FifoOf DEF WasLaunched
    <2>3. ASSUME NEW t \in Readers[f] PROVE RoundOf[t] >= round'
        <3>1. RoundOf[t] >= round /\ RoundOf[t] # round
            BY <1>1, <1>6 DEF DynamicInv, BeforeJobs
        <3>2. RoundOf[t] \in Nat
            BY <2>1, ReaderOf
        <3> QED
            BY <1>1, <1>2, <3>1, <3>2
    <2> QED
        BY <2>1, <2>2, <2>3
<1>7. \A t \in Task : WasLaunched(t)' => t \in done'
    <2>1. \A t \in Task : RoundOf[t] \in Nat
        BY TaskAssumption
    <2> QED
        BY <1>1, <1>2, <1>5, <2>1 DEF TasksOfRound
<1>8. \A f \in Dynamic : WasLaunched(Source[f])' => Source[f] \in done'
    BY <1>7, FifoAssumption
<1> QED
    BY <1>4, <1>6, <1>8 DEF DynamicInv

\* The calls and the rounds keep the updates and what is counted later.
LEMMA RestKeeps ==
    ASSUME RoundInv, UpdateInv, DynamicInv,
           \/ MemoryEndExecute
           \/ (Execute \/ NextRound \/ \E c \in Context : CallRun(c)) /\ UNCHANGED memoryVars
    PROVE  UpdateInv' /\ DynamicInv' /\ \A f \in Fifo : ~OnWay(f) /\ ~OnWay(f)'
<1>1. updating' = updating
    BY DEF MemoryEndExecute, memoryVars
<1>2. UpdateInv' /\ \A f \in Fifo : ~OnWay(f) /\ ~OnWay(f)'
    BY <1>1, IdleKeeps DEF MemoryEndExecute, SameWay
<1>3. DynamicInv'
    BY <1>2, OutsideDynamic, ExecuteDynamic, NextRoundDynamic DEF memoryVars
<1> QED
    BY <1>2, <1>3

-----------------------------------------------------------------------------
(* Buffers and their uses                                                  *)

\* The buffer of a FIFO belongs to one that is in a buffer of its own, written no
\* later: by a task of every set that holds the dependencies of its tasks.
LEMMA Roots ==
    ASSUME NEW S, \A t \in S : Deps[t] \subseteq S, NEW f \in Fifo
    PROVE  /\ AddressOf[f] \in Fifo /\ ~Borrowed(AddressOf[f])
           /\ AddressOf[AddressOf[f]] = AddressOf[f]
           /\ Source[f] \in S => Source[AddressOf[f]] \in S
<1> DEFINE Sound(g) == /\ ~Borrowed(AddressOf[g])
                       /\ AddressOf[AddressOf[g]] = AddressOf[g]
                       /\ Source[g] \in S => Source[AddressOf[g]] \in S
           Bad == {n \in Task : \E g \in Fifo : Source[g] = n /\ ~Sound(g)}
<1>1. ASSUME NEW g \in Fifo, ~Sound(g)
      PROVE  \E h \in Fifo : Source[h] < Source[g] /\ ~Sound(h)
    <2>1. CASE Source[g] \notin ForkTask
        <3>1. AddressOf[g] = g
            BY <2>1, FifoAssumption
        <3> QED
            BY <1>1, <2>1, <3>1 DEF Borrowed
    <2>2. CASE Source[g] \in ForkTask
        <3>1. PICK h \in Fifo : Source[g] \in Readers[h] /\ AddressOf[g] = AddressOf[h]
            BY <2>2, FifoAssumption
        <3>2. Source[h] \in Deps[Source[g]]
            BY <3>1, FifoAssumption
        <3>3. Source[h] < Source[g]
            BY <3>2, FifoAssumption, TaskAssumption
        <3>4. Source[g] \in S => Source[h] \in S
            BY <3>2
        <3> QED
            BY <1>1, <3>1, <3>3, <3>4
    <2> QED
        BY <2>1, <2>2
<1> HIDE DEF Sound
<1>2. Bad = {}
    <2> SUFFICES ASSUME Bad # {} PROVE FALSE
        OBVIOUS
    <2>1. Bad \subseteq Nat
        BY TaskAssumption
    <2>2. PICK n \in Bad : \A m \in Bad : n <= m
        BY <2>1, LeastNat
    <2>3. PICK g \in Fifo : Source[g] = n /\ ~Sound(g)
        BY <2>2
    <2>4. PICK h \in Fifo : Source[h] < Source[g] /\ ~Sound(h)
        BY <1>1, <2>3
    <2>5. Source[h] \in Task /\ Source[g] \in Task
        BY FifoAssumption
    <2>6. Source[h] \in Bad /\ Source[h] \in Nat /\ Source[g] \in Nat
        BY <2>4, <2>5, TaskAssumption
    <2> QED
        BY <2>2, <2>3, <2>4, <2>6
<1>3. Sound(f)
    BY <1>2, FifoAssumption
<1> QED
    BY <1>3, FifoAssumption DEF Sound

\* The tasks that have begun hold their dependencies.
LEMMA BegunClosed ==
    ASSUME PrecedenceRespected, DoneClosed
    PROVE  \A t \in Begun : Deps[t] \subseteq done /\ Deps[t] \subseteq Begun
BY DEF Begun, Firing, PrecedenceRespected, DoneClosed

\* What the buffer of a FIFO that has begun to be written is.
LEMMA BufferOf ==
    ASSUME PrecedenceRespected, DoneClosed, NEW f \in Fifo
    PROVE  /\ AddressOf[f] \in Fifo /\ ~Borrowed(AddressOf[f])
           /\ AddressOf[AddressOf[f]] = AddressOf[f]
           /\ Source[f] \in Begun => Source[AddressOf[f]] \in Begun
BY BegunClosed, Roots

\* Uses are finitely many.
LEMMA UsesFinite ==
    ASSUME NEW b, NEW t
    PROVE  /\ IsFiniteSet(Claims(b)) /\ Cardinality(Claims(b)) \in Nat
           /\ IsFiniteSet(UsesOn(t, b)) /\ Cardinality(UsesOn(t, b)) \in Nat
<1>1. IsFiniteSet(Fifo \X Task)
    BY FifoAssumption, TaskAssumption, FS_Product
<1>2. Claims(b) \in SUBSET (Fifo \X Task) /\ UsesOn(t, b) \in SUBSET (Fifo \X Task)
    BY DEF Claims, UsesOn
<1>3. IsFiniteSet(Claims(b)) /\ IsFiniteSet(UsesOn(t, b))
    BY <1>1, <1>2, FS_Subset
<1> QED
    BY <1>3, FS_CardinalityType

\* The same uses are held after a step that neither starts nor ends a job and
\* that counts no readers.
SameUses ==
    /\ UNCHANGED <<done, executing>> /\ Firing' = Firing
    /\ \A f \in Fifo : Source[f] \in Begun => (Uncounted(f)' <=> Uncounted(f))

LEMMA LedgerSame ==
    ASSUME DoneClosed, LedgerInv, SameUses, buffers' = buffers
    PROVE  DoneClosed' /\ LedgerInv'
<1>1. Begun' = Begun /\ done' = done /\ executing' = executing
    BY DEF SameUses, Begun
<1>2. \A f \in Fifo : Source[f] \in Begun => Users(f)' = Users(f)
    BY <1>1 DEF SameUses, Users
<1>3. \A b \in Fifo : Claims(b)' = Claims(b)
    BY <1>1, <1>2 DEF Claims
<1> QED
    BY <1>1, <1>3 DEF LedgerInv, CountsExact, CountInv, LeftInv, DoneClosed

\* The same kernels run.
LEMMA FiringKept ==
    ASSUME KernelsKept
    PROVE  Firing' = Firing
BY DEF KernelsKept, Firing, CurrentJob

\* Nothing is left to collect.
LEMMA CollectedIs ==
    ASSUME MemoryTypeOK, CountsExact
    PROVE  Collected = buffers
<1>1. \A b \in Fifo : ~(buffers[b].count < 0) /\ buffers[b].count \in Int
    BY DEF MemoryTypeOK, CountsExact
<1> QED
    BY <1>1 DEF Collected, MemoryTypeOK

-----------------------------------------------------------------------------
(* A job starts                                                            *)

\* The job that starts has been launched.
LEMMA StartLaunched ==
    ASSUME RoundInv, NEW r \in LRT, StartJob(r), NEW t, t = CurrentJob(r)
    PROVE  WasLaunched(t)
<1>1. /\ TypeOK /\ PhaseInv /\ JobsInv /\ RunnerTypeOK
    BY DEF RoundInv, TypeOK
<1>2. /\ runner[r].start /\ runner[r].jobQueueCurrentPos < Len(runner[r].jobQueue)
      /\ runner[r].jobQueue \in Seq(Task)
      /\ Len(runner[r].jobQueue) \in Nat /\ runner[r].jobQueueCurrentPos \in Nat
    BY <1>1, RunnerFields DEF StartJob, HasJob, RunnerTypeOK
<1>3. t \in RoundJobs(r) /\ executing /\ InRound
    BY <1>1, <1>2, AtJob
<1>4. runner[r].jobQueueCurrentPos + 1 \in DOMAIN runner[r].jobQueue
    BY <1>2
<1>5. t \in Queued(r)
    BY <1>4 DEF Queued, CurrentJob
<1>6. Active(r) /\ JobsOfRound(r)
    BY <1>1, <1>2 DEF JobsInv, Active
<1>7. t \notin toLaunch
    BY <1>3, <1>5, <1>6 DEF JobsOfRound
<1>8. t \in Task /\ t \in TasksOf(context) /\ RoundOf[t] = round
    BY <1>3 DEF RoundJobs, TasksOfRound, TasksOf
<1>9. round \in Nat
    BY <1>1 DEF TypeOK, GRTTypeOK
<1> QED
    BY <1>3, <1>7, <1>8, <1>9 DEF WasLaunched

\* The uses of the FIFOs it writes are those that getOutputBuffers counts.
LEMMA UsersAtStart ==
    ASSUME DynamicInv, DoneClosed, NEW f \in Fifo, WasLaunched(Source[f]), Source[f] \notin done
    PROVE  Users(f) = UsersOf(f)
<1>1. CASE f \in Dynamic
    <2>1. Uncounted(f)
        BY <1>1 DEF DynamicInv, Uncounted
    <2> QED
        BY <1>1, <2>1 DEF Users, UsersOf, IsSink
<1>2. CASE f \notin Dynamic
    <2>1. Readers[f] \cap done = {}
        BY ReaderOf DEF DoneClosed
    <2> QED
        BY <1>2, <2>1 DEF Users, UsersOf, IsSink, Uncounted
<1> QED
    BY <1>1, <1>2

\* A job whose dependencies are done uses the buffer of another job through a FIFO
\* that it reads.
LEMMA BorrowedUse ==
    ASSUME PrecedenceRespected, DoneClosed, NEW t, Deps[t] \subseteq done,
           NEW b \in Fifo, UsesOn(t, b) # {}, ~(Source[b] = t /\ ~Borrowed(b))
    PROVE  /\ ~Borrowed(b) /\ Source[b] \in Begun
           /\ \E g \in Fifo : t \in Readers[g] /\ AddressOf[g] = b /\ Source[g] \in done
<1>1. PICK f \in Fifo : Source[f] = t /\ AddressOf[f] = b
    BY DEF UsesOn
<1>2. ~Borrowed(b) /\ Source[b] # t
    BY <1>1, BufferOf
<1>3. PICK g \in Fifo : t \in Readers[g] /\ AddressOf[g] = b
    BY <1>1, <1>2, FifoAssumption
<1>4. Source[g] \in done
    BY <1>3, ReaderOf
<1>5. Source[b] \in Begun
    BY <1>3, <1>4, BufferOf DEF Begun
<1> QED
    BY <1>2, <1>3, <1>4, <1>5

\* A reader that is not done holds a use of the buffer, or the writer does for it.
LEMMA ReaderHolds ==
    ASSUME NEW g \in Fifo, NEW t \in Readers[g], t \notin done, Source[g] \in Begun
    PROVE  Claims(AddressOf[g]) # {}
<1>1. t \in Task /\ Source[g] \in Task /\ ~IsSink(g)
    BY FifoAssumption DEF IsSink
<1>2. \E u \in Task : u \in Users(g)
    BY <1>1 DEF Users
<1>3. PICK u \in Task : u \in Users(g)
    BY <1>2
<1>4. <<g, u>> \in Claims(AddressOf[g])
    BY <1>3 DEF Claims
<1> QED
    BY <1>4

\* A buffer that somebody uses is allocated.
LEMMA ClaimsCount ==
    ASSUME MemoryTypeOK, CountsExact, CountInv, executing, NEW b \in Fifo,
           ~Borrowed(b), Source[b] \in Begun, Claims(b) # {}
    PROVE  buffers[b].count > 0 /\ buffers[b].live
<1>1. buffers[b].count = Cardinality(Claims(b)) /\ buffers[b].count >= 0
    BY DEF CountInv, CountsExact
<1>2. Cardinality(Claims(b)) # 0 /\ Cardinality(Claims(b)) \in Nat
    BY UsesFinite, FS_EmptySet
<1> QED
    BY <1>1, <1>2 DEF CountsExact


\* The claims of a job that starts are those of its FIFOs, and no others change.
LEMMA StartClaims ==
    ASSUME MemoryInv, NEW r \in LRT, StartJob(r), UNCHANGED grtVars,
           UNCHANGED <<dynamicBuffers, updating>>, NEW t, t = CurrentJob(r),
           \A f \in Fifo : OnWay(f)' <=> OnWay(f)
    PROVE  /\ Begun' = Begun \cup {t} /\ t \notin Begun
           /\ \A b \in Fifo : /\ Claims(b)' = Claims(b) \cup UsesOn(t, b)
                              /\ Claims(b) \cap UsesOn(t, b) = {}
<1>1. /\ t \notin done /\ t \notin Firing /\ Firing' = Firing \cup {t} /\ done' = done
    BY JobStarts DEF MemoryInv
<1>2. Begun' = Begun \cup {t} /\ t \notin Begun
    BY <1>1 DEF Begun
<1>3. WasLaunched(t)
    BY StartLaunched DEF MemoryInv
<1>4. \A f \in Fifo : Users(f)' = Users(f)
    BY <1>1 DEF Users, Uncounted
<1>5. \A f \in Fifo : Source[f] = t => Users(f) = UsersOf(f)
    BY <1>1, <1>3, UsersAtStart DEF MemoryInv
<1>6. ASSUME NEW b \in Fifo
      PROVE  /\ Claims(b)' = Claims(b) \cup UsesOn(t, b)
             /\ Claims(b) \cap UsesOn(t, b) = {}
    <2>1. Claims(b)' = {use \in Fifo \X Task :
                            /\ AddressOf[use[1]] = b /\ Source[use[1]] \in Begun \cup {t}
                            /\ use[2] \in Users(use[1])}
        BY <1>2, <1>4 DEF Claims
    <2>2. \A use \in Fifo \X Task : use[1] \in Fifo
        OBVIOUS
    <2> QED
        BY <1>2, <1>5, <2>1, <2>2 DEF Claims, UsesOn
<1> QED
    BY <1>2, <1>6

\* A job that starts counts its uses.
LEMMA StartJobLedger ==
    ASSUME MemoryInv, NEW r \in LRT, StartJob(r), UNCHANGED grtVars,
           UNCHANGED <<dynamicBuffers, updating>>, buffers' = Acquired(CurrentJob(r)),
           \A f \in Fifo : OnWay(f)' <=> OnWay(f)
    PROVE  DoneClosed' /\ LedgerInv' /\ MemoryTypeOK'
<1> DEFINE New(t, b) == Source[b] = t /\ ~Borrowed(b)
<1>1. PICK t : t = CurrentJob(r)
    OBVIOUS
<1>2. /\ t \in Task /\ Deps[t] \subseteq done /\ t \notin done /\ executing
      /\ done' = done /\ executing' = executing
    BY <1>1, JobStarts DEF MemoryInv
<1>3. /\ Begun' = Begun \cup {t} /\ t \notin Begun
      /\ \A b \in Fifo : /\ Claims(b)' = Claims(b) \cup UsesOn(t, b)
                         /\ Claims(b) \cap UsesOn(t, b) = {}
    BY <1>1, StartClaims
<1>4. PrecedenceRespected /\ DoneClosed /\ CountsExact /\ CountInv /\ LeftInv /\ MemoryTypeOK
    BY DEF MemoryInv, LedgerInv
<1>5. \A b \in Fifo :
          /\ buffers[b].count \in Int
          /\ buffers'[b].count = (IF New(t, b) THEN 0 ELSE buffers[b].count)
                                 + Cardinality(UsesOn(t, b))
          /\ buffers'[b].live <=> New(t, b) \/ buffers[b].live
          /\ Cardinality(UsesOn(t, b)) \in Nat /\ IsFiniteSet(UsesOn(t, b))
          /\ Cardinality(Claims(b)) \in Nat /\ IsFiniteSet(Claims(b))
          /\ Cardinality(UsesOn(t, b)) = 0 <=> UsesOn(t, b) = {}
    BY <1>1, <1>4, UsesFinite, FS_EmptySet DEF Acquired, MemoryTypeOK
<1>6. MemoryTypeOK'
    <2>1. \A b \in Fifo : [count |-> (IF New(t, b) THEN 0 ELSE buffers[b].count)
                                     + Cardinality(UsesOn(t, b)),
                           live |-> New(t, b) \/ buffers[b].live]
                             \in [count : Int, live : BOOLEAN]
        BY <1>4, <1>5 DEF MemoryTypeOK
    <2>2. buffers' \in [Fifo -> [count : Int, live : BOOLEAN]]
        BY <1>1, <2>1 DEF Acquired
    <2> QED
        BY <1>4, <2>2 DEF MemoryTypeOK
<1>7. \A b \in Fifo : New(t, b) => /\ UsesOn(t, b) # {} /\ Claims(b) = {}
    <2> TAKE b \in Fifo
    <2> HAVE New(t, b)
    <2>1. AddressOf[b] = b
        BY FifoAssumption DEF Borrowed
    <2>2. \E u \in Task : u \in UsersOf(b)
        BY FifoAssumption DEF UsersOf, IsSink
    <2>3. UsesOn(t, b) # {}
        <3>1. PICK u \in Task : u \in UsersOf(b)
            BY <2>2
        <3>2. <<b, u>> \in UsesOn(t, b)
            BY <2>1, <3>1 DEF UsesOn
        <3> QED
            BY <3>2
    <2>4. Claims(b) = {}
        BY <1>3, <1>4, BufferOf DEF Claims
    <2> QED
        BY <2>3, <2>4
<1>8. \A b \in Fifo : UsesOn(t, b) # {} /\ ~New(t, b) =>
          /\ ~Borrowed(b) /\ Source[b] \in Begun
          /\ buffers[b].count > 0 /\ buffers[b].live
    <2> TAKE b \in Fifo
    <2> HAVE UsesOn(t, b) # {} /\ ~New(t, b)
    <2>1. /\ ~Borrowed(b) /\ Source[b] \in Begun
          /\ \E g \in Fifo : t \in Readers[g] /\ AddressOf[g] = b /\ Source[g] \in done
        BY <1>2, <1>4, BorrowedUse
    <2>2. Claims(b) # {}
        BY <1>2, <2>1, ReaderHolds DEF Begun
    <2> QED
        BY <1>2, <1>4, <2>1, <2>2, ClaimsCount
<1> HIDE DEF New
<1>9. CountsExact'
    <2> SUFFICES ASSUME NEW b \in Fifo
                 PROVE  /\ buffers'[b].count >= 0
                        /\ buffers'[b].live <=> buffers'[b].count > 0
        BY DEF CountsExact
    <2>1. buffers[b].count >= 0 /\ (buffers[b].live <=> buffers[b].count > 0)
        BY <1>4 DEF CountsExact
    <2>2. /\ buffers[b].count \in Int /\ Cardinality(UsesOn(t, b)) \in Nat
          /\ buffers'[b].count = (IF New(t, b) THEN 0 ELSE buffers[b].count)
                                 + Cardinality(UsesOn(t, b))
          /\ buffers'[b].live <=> New(t, b) \/ buffers[b].live
          /\ Cardinality(UsesOn(t, b)) = 0 <=> UsesOn(t, b) = {}
        BY <1>5
    <2>3. CASE New(t, b)
        <3>1. Cardinality(UsesOn(t, b)) # 0
            BY <1>7, <2>2, <2>3
        <3> QED
            BY <2>2, <2>3, <3>1
    <2>4. CASE ~New(t, b) /\ UsesOn(t, b) = {}
        BY <2>1, <2>2, <2>4
    <2>5. CASE ~New(t, b) /\ UsesOn(t, b) # {}
        <3>1. buffers[b].count > 0 /\ buffers[b].live
            BY <1>8, <2>5
        <3> QED
            BY <2>2, <2>5, <3>1
    <2> QED
        BY <2>3, <2>4, <2>5
<1>10. CountInv'
    <2> SUFFICES ASSUME NEW b \in Fifo, ~Borrowed(b), Source[b] \in Begun \cup {t}
                 PROVE  buffers'[b].count = Cardinality(Claims(b)')
        BY <1>3 DEF CountInv
    <2>1. Cardinality(Claims(b) \cup UsesOn(t, b)) =
              Cardinality(Claims(b)) + Cardinality(UsesOn(t, b))
        <3>1. Cardinality(Claims(b) \cap UsesOn(t, b)) = 0
            BY <1>3, FS_EmptySet
        <3>2. /\ IsFiniteSet(Claims(b)) /\ IsFiniteSet(UsesOn(t, b))
              /\ Cardinality(Claims(b)) \in Nat /\ Cardinality(UsesOn(t, b)) \in Nat
            BY <1>5
        <3>3. Cardinality(Claims(b) \cup UsesOn(t, b)) =
                  Cardinality(Claims(b)) + Cardinality(UsesOn(t, b))
                  - Cardinality(Claims(b) \cap UsesOn(t, b))
            BY <3>2, FS_Union
        <3> QED
            BY <3>1, <3>2, <3>3
    <2>2. CASE New(t, b)
        <3>1. /\ buffers'[b].count = 0 + Cardinality(UsesOn(t, b))
              /\ Cardinality(UsesOn(t, b)) \in Nat
            BY <1>5, <2>2
        <3>2. Claims(b)' = UsesOn(t, b)
            BY <1>3, <1>7, <2>2
        <3> QED
            BY <3>1, <3>2
    <2>3. CASE ~New(t, b)
        <3>1. Source[b] \in Begun
            BY <2>3 DEF New
        <3> QED
            BY <1>2, <1>3, <1>4, <1>5, <2>1, <2>3, <3>1 DEF CountInv
    <2> QED
        BY <2>2, <2>3
<1>11. LeftInv'
    <2> SUFFICES ASSUME NoLostUses, NEW b \in Fifo, Borrowed(b) \/ Source[b] \notin Begun \cup {t}
                 PROVE  buffers'[b].count = 0
        BY <1>2, <1>3 DEF LeftInv
    <2>1. ~New(t, b) /\ UsesOn(t, b) = {}
        BY <1>8 DEF New
    <2>2. buffers[b].count = 0
        BY <1>4 DEF LeftInv
    <2> QED
        BY <1>5, <2>1, <2>2
<1> QED
    BY <1>2, <1>4, <1>6, <1>9, <1>10, <1>11 DEF LedgerInv, DoneClosed


-----------------------------------------------------------------------------
(* A job ends                                                              *)

\* The readers of what a job reads have been counted.
LEMMA InputCounted ==
    ASSUME MemoryInv, ReadersAtHome, NEW r \in LRT, pc[r] = "Kernel",
           NEW t, t = CurrentJob(r), NEW f \in Fifo, t \in Readers[f]
    PROVE  ~Uncounted(f)
<1>1. RoundInv /\ UpdateInv /\ DynamicInv /\ TypeOK
    BY DEF MemoryInv, RoundInv
<1>2. t \in RoundJobs(r) /\ RoundOf[t] = round /\ MappedLRT[t] = r
    BY <1>1, InKernel DEF RoundJobs, TasksOfRound
<1>3. runner[r].jobQueue # << >>
    <2>1. runner[r].jobQueueCurrentPos < Len(runner[r].jobQueue)
          /\ runner[r].jobQueueCurrentPos \in Nat
        BY <1>1, RunnerFields DEF TypeOK, RunnerTypeOK
    <2> QED
        BY <2>1
<1>4. ~BeforeJobs
    BY <1>1, <1>3, BeforeJobsRunner
<1>5. f \in Dynamic => f \notin dynamicBuffers
    BY <1>1, <1>2, <1>4 DEF DynamicInv
<1>6. f \in Dynamic => ~OnWay(f)
    <2> SUFFICES ASSUME f \in Dynamic, OnWay(f) PROVE FALSE
        OBVIOUS
    <2>1. ~UpdateToPush /\ UpdatesInTime
        BY <1>1, <1>4 DEF UpdateInv, UpdatesInTime
    <2>2. Home(f) = r
        BY <1>2 DEF ReadersAtHome, Home
    <2>3. UpdatesComing(r)
        BY <2>1, <2>2, OnWayWhere
    <2> QED
        BY <1>1, <2>1, <2>3, UpdatesComingWhen
<1> QED
    BY <1>5, <1>6 DEF Uncounted

GivenUpIn(t, b) == {f \in GivenUp(t) : AddressOf[f] = b}

\* The uses it gives up.
Gone(t, b) == {<<f, t>> : f \in GivenUpIn(t, b)}

\* One per FIFO.
LEMMA GoneCount ==
    ASSUME NEW t, NEW b
    PROVE  /\ IsFiniteSet(Gone(t, b))
           /\ Cardinality(GivenUpIn(t, b)) = Cardinality(Gone(t, b))
           /\ Cardinality(Gone(t, b)) \in Nat
           /\ Cardinality(Gone(t, b)) = 0 <=> GivenUpIn(t, b) = {}
<1> DEFINE G == GivenUpIn(t, b)
           H == Gone(t, b)
           use == [f \in G |-> <<f, t>>]
<1>1. IsFiniteSet(G)
    <2>1. G \in SUBSET Fifo
        BY DEF GivenUpIn, GivenUp, InputsOf, OutputsOf
    <2> QED
        BY <2>1, FifoAssumption, FS_Subset
<1>2. use \in [G -> H]
    BY DEF Gone
<1>3. \A x, y \in G : use[x] = use[y] => x = y
    OBVIOUS
<1>4. \A c \in H : \E x \in G : use[x] = c
    BY DEF Gone
<1>5. H = {} => G = {}
    BY DEF Gone
<1> HIDE DEF use, G, H
<1>6. use \in Bijection(G, H)
    BY <1>2, <1>3, <1>4, Fun_IsBij
<1>7. ExistsBijection(G, H)
    BY <1>6 DEF ExistsBijection
<1>8. IsFiniteSet(H) /\ Cardinality(H) = Cardinality(G)
    BY <1>1, <1>7, FS_Bijection
<1>9. Cardinality(H) \in Nat /\ (Cardinality(G) = 0 <=> G = {})
    BY <1>1, <1>8, FS_CardinalityType, FS_EmptySet
<1> QED
    BY <1>8, <1>9 DEF G, H

\* The claims of a job that ends are those it gives up, and no others change.
LEMMA EndClaims ==
    ASSUME MemoryInv, ReadersAtHome, NEW r \in LRT, EndJob(r), UNCHANGED grtVars,
           UNCHANGED <<dynamicBuffers, updating>>, NEW t, t = CurrentJob(r),
           \A f \in Fifo : OnWay(f)' <=> OnWay(f)
    PROVE  /\ Begun' = Begun
           /\ \A b \in Fifo :
                 /\ Claims(b)' = Claims(b) \ Gone(t, b)
                 /\ Gone(t, b) \subseteq Claims(b)
                 /\ GivenUpIn(t, b) # {} => ~Borrowed(b) /\ Source[b] \in Begun
<1>1. /\ t \in Task /\ t \in Firing /\ t \notin done /\ pc[r] = "Kernel"
      /\ Firing' = Firing \ {t} /\ done' = done \cup {t}
    BY JobEnds DEF MemoryInv
<1>2. PrecedenceRespected /\ DoneClosed /\ Deps[t] \subseteq done
    BY <1>1 DEF MemoryInv, PrecedenceRespected
<1>3. Begun' = Begun /\ t \in Begun
    BY <1>1 DEF Begun
<1>4. \A f \in Fifo : Uncounted(f)' <=> Uncounted(f)
    BY DEF Uncounted
<1>5. \A f \in Fifo : t \in Readers[f] => ~Uncounted(f) /\ Source[f] \in done /\ ~IsSink(f)
    BY <1>1, <1>2, InputCounted, ReaderOf DEF IsSink
<1>6. \A f \in GivenUp(t) : f \in Fifo /\ Source[f] \in Begun /\ t \in Users(f)
    <2> TAKE f \in GivenUp(t)
    <2>1. CASE f \in Fifo /\ t \in Readers[f]
        BY <1>1, <1>5, <2>1 DEF Users, Begun
    <2>2. CASE f \in Fifo /\ Source[f] = t /\ IsSink(f)
        BY <1>1, <1>3, <2>2 DEF Users
    <2> QED
        BY <2>1, <2>2 DEF GivenUp, InputsOf, OutputsOf
<1>7. \A f \in Fifo : Users(f)' = IF f \in GivenUp(t) THEN Users(f) \ {t} ELSE Users(f)
    <2> TAKE f \in Fifo
    <2>1. CASE IsSink(f)
        <3>1. f \in GivenUp(t) <=> Source[f] = t /\ ~Borrowed(f)
            BY <1>5, <2>1 DEF GivenUp, InputsOf, OutputsOf
        <3> QED
            BY <1>1, <2>1, <3>1 DEF Users
    <2>2. CASE ~IsSink(f)
        <3>1. f \in GivenUp(t) <=> t \in Readers[f]
            BY <2>2 DEF GivenUp, InputsOf, OutputsOf
        <3> QED
            BY <1>1, <1>4, <1>5, <2>2, <3>1 DEF Users
    <2> QED
        BY <2>1, <2>2
<1>8. ASSUME NEW b \in Fifo
      PROVE  /\ Claims(b)' = Claims(b) \ Gone(t, b)
             /\ Gone(t, b) \subseteq Claims(b)
             /\ GivenUpIn(t, b) # {} => ~Borrowed(b) /\ Source[b] \in Begun
    <2>1. Claims(b)' = {use \in Fifo \X Task :
                            /\ AddressOf[use[1]] = b /\ Source[use[1]] \in Begun
                            /\ use[2] \in Users(use[1])'}
        BY <1>3 DEF Claims
    <2>2. \A use \in Fifo \X Task : /\ use[1] \in Fifo
                                    /\ use \in Gone(t, b) <=>
                                          /\ use[1] \in GivenUp(t) /\ AddressOf[use[1]] = b
                                          /\ use[2] = t
        BY DEF Gone, GivenUpIn
    <2>3. Claims(b)' = Claims(b) \ Gone(t, b)
        BY <1>7, <2>1, <2>2 DEF Claims
    <2>4. Gone(t, b) \subseteq Fifo \X Task
        BY <1>1, <1>6 DEF Gone, GivenUpIn
    <2>5. Gone(t, b) \subseteq Claims(b)
        BY <1>6, <2>2, <2>4 DEF Claims
    <2>6. GivenUpIn(t, b) # {} => ~Borrowed(b) /\ Source[b] \in Begun
        BY <1>2, <1>6, BufferOf DEF GivenUpIn
    <2> QED
        BY <2>3, <2>5, <2>6
<1> QED
    BY <1>3, <1>8


\* A job that ends gives up its uses.
LEMMA EndJobLedger ==
    ASSUME MemoryInv, ReadersAtHome, NEW r \in LRT, EndJob(r), UNCHANGED grtVars,
           UNCHANGED <<dynamicBuffers, updating>>, buffers' = Released(CurrentJob(r)),
           \A f \in Fifo : OnWay(f)' <=> OnWay(f)
    PROVE  DoneClosed' /\ LedgerInv' /\ MemoryTypeOK'
<1>1. PICK t : t = CurrentJob(r)
    OBVIOUS
<1>2. /\ t \in Task /\ t \notin done /\ executing /\ pc[r] = "Kernel"
      /\ done' = done \cup {t} /\ executing' = executing
    BY <1>1, JobEnds DEF MemoryInv
<1>3. /\ Begun' = Begun
      /\ \A b \in Fifo :
            /\ Claims(b)' = Claims(b) \ Gone(t, b)
            /\ Gone(t, b) \subseteq Claims(b)
            /\ GivenUpIn(t, b) # {} => ~Borrowed(b) /\ Source[b] \in Begun
    BY <1>1, EndClaims
<1>4. PrecedenceRespected /\ DoneClosed /\ CountsExact /\ CountInv /\ LeftInv /\ MemoryTypeOK
    BY DEF MemoryInv, LedgerInv
<1>5. \A b \in Fifo :
          LET after == buffers[b].count - Cardinality(Gone(t, b))
          IN  /\ buffers[b].count \in Int
              /\ Cardinality(Gone(t, b)) \in Nat
              /\ Cardinality(Gone(t, b)) = 0 <=> GivenUpIn(t, b) = {}
              /\ buffers'[b].count = after
              /\ buffers'[b].live <=>
                    buffers[b].live /\ 0 \notin after .. buffers[b].count - 1
    BY <1>1, <1>4, GoneCount DEF Released, GivenUpIn, MemoryTypeOK
<1>6. MemoryTypeOK'
    <2>1. \A b \in Fifo : buffers[b].count - Cardinality(GivenUpIn(t, b)) \in Int
        BY <1>5, GoneCount
    <2>2. \A b \in Fifo :
              [count |-> buffers[b].count - Cardinality(GivenUpIn(t, b)),
               live |-> buffers[b].live
                   /\ 0 \notin buffers[b].count - Cardinality(GivenUpIn(t, b))
                               .. buffers[b].count - 1]
                  \in [count : Int, live : BOOLEAN]
        BY <1>4, <2>1 DEF MemoryTypeOK
    <2>3. buffers' \in [Fifo -> [count : Int, live : BOOLEAN]]
        BY <1>1, <2>2 DEF Released, GivenUpIn
    <2> QED
        BY <1>4, <2>3 DEF MemoryTypeOK
<1>7. \A b \in Fifo : ~Borrowed(b) /\ Source[b] \in Begun =>
          /\ buffers'[b].count = Cardinality(Claims(b)')
          /\ buffers'[b].count \in Nat
    <2> TAKE b \in Fifo
    <2> HAVE ~Borrowed(b) /\ Source[b] \in Begun
    <2>1. buffers[b].count = Cardinality(Claims(b))
        BY <1>2, <1>4 DEF CountInv
    <2>2. /\ IsFiniteSet(Claims(b)) /\ Cardinality(Claims(b)) \in Nat
          /\ Claims(b) \cap Gone(t, b) = Gone(t, b)
        BY <1>3, UsesFinite
    <2>3. /\ IsFiniteSet(Claims(b)')
          /\ Cardinality(Claims(b)') = Cardinality(Claims(b)) - Cardinality(Gone(t, b))
        BY <1>3, <2>2, FS_Difference
    <2>4. Cardinality(Claims(b)') \in Nat
        BY <2>3, FS_CardinalityType
    <2> QED
        BY <1>5, <2>1, <2>3, <2>4
<1>8. \A b \in Fifo : GivenUpIn(t, b) = {} =>
          /\ buffers'[b].count = buffers[b].count
          /\ buffers'[b].live <=> buffers[b].live
    <2> TAKE b \in Fifo
    <2> HAVE GivenUpIn(t, b) = {}
    <2>1. buffers[b].count \in Int /\ Cardinality(Gone(t, b)) = 0
        BY <1>5
    <2> QED
        BY <1>5, <2>1
<1>9. CountsExact'
    <2> SUFFICES ASSUME NEW b \in Fifo
                 PROVE  /\ buffers'[b].count >= 0
                        /\ buffers'[b].live <=> buffers'[b].count > 0
        BY DEF CountsExact
    <2>1. buffers[b].count >= 0 /\ (buffers[b].live <=> buffers[b].count > 0)
        BY <1>4 DEF CountsExact
    <2>2. CASE GivenUpIn(t, b) = {}
        BY <1>8, <2>1, <2>2
    <2>3. CASE GivenUpIn(t, b) # {}
        <3>1. buffers'[b].count \in Nat
            BY <1>3, <1>7, <2>3
        <3>2. /\ buffers[b].count \in Int
              /\ Cardinality(Gone(t, b)) \in Nat /\ Cardinality(Gone(t, b)) # 0
              /\ buffers'[b].count = buffers[b].count - Cardinality(Gone(t, b))
              /\ buffers'[b].live <=>
                    /\ buffers[b].live
                    /\ 0 \notin buffers[b].count - Cardinality(Gone(t, b))
                                .. buffers[b].count - 1
            BY <1>5, <2>3
        <3> QED
            BY <2>1, <3>1, <3>2
    <2> QED
        BY <2>2, <2>3
<1>10. CountInv'
    BY <1>2, <1>3, <1>7 DEF CountInv
<1>11. LeftInv'
    <2> SUFFICES ASSUME NoLostUses, NEW b \in Fifo, Borrowed(b) \/ Source[b] \notin Begun
                 PROVE  buffers'[b].count = 0
        BY <1>2, <1>3 DEF LeftInv
    <2>1. buffers[b].count = 0
        BY <1>4 DEF LeftInv
    <2>2. GivenUpIn(t, b) = {}
        BY <1>3
    <2> QED
        BY <1>8, <2>1, <2>2
<1>12. DoneClosed'
    BY <1>1, <1>2, <1>4 DEF DoneClosed, PrecedenceRespected
<1> QED
    BY <1>6, <1>9, <1>10, <1>11, <1>12 DEF LedgerInv


-----------------------------------------------------------------------------
(* Readers are counted                                                     *)

\* No reader of a FIFO whose update is being read has run.
LEMMA NoReaderDone ==
    ASSUME MemoryInv, ReadersAtHome, NEW r \in LRT, NEW f \in Fifo, updating[r] = f, Home(f) = r
    PROVE  /\ executing /\ f \notin dynamicBuffers /\ f \in Dynamic
           /\ Readers[f] # {} /\ Source[f] \in done
           /\ Readers[f] \cap done = {}
<1>1. RoundInv /\ UpdateInv /\ DynamicInv /\ TypeOK /\ PhaseInv /\ JobsInv
    BY DEF MemoryInv, RoundInv
<1>2. f # None /\ OnWay(f)
    BY FifoOf DEF OnWay
<1>3. /\ InRound /\ Active(r) /\ runner[r].jobQueueCurrentPos = 0
    BY <1>1, <1>2, UpdatesComingWhen DEF UpdatesComing, UpdateInv
<1>4. executing
    BY <1>1, <1>3 DEF PhaseInv, GRTInPhase
<1>5. /\ f \in Dynamic /\ Readers[f] # {} /\ Source[f] \in done
      /\ \A x \in Readers[f] : RoundOf[x] >= round
    BY <1>1, <1>2 DEF DynamicInv
<1>6. f \notin dynamicBuffers
    BY <1>1, <1>2 DEF UpdateInv, TravelInv, UpdatesOnce
<1>7. RoundJobs(r) \cap done = {}
    <2>1. JobsOfRound(r)
        BY <1>1 DEF JobsInv
    <2>2. Ran(r) = {}
        BY <1>3 DEF Ran
    <2> QED
        BY <1>3, <2>1, <2>2 DEF JobsOfRound
<1>8. Readers[f] \cap done = {}
    <2> SUFFICES ASSUME NEW x \in Readers[f], x \in done PROVE FALSE
        OBVIOUS
    <2>1. x \in TasksOf(context) /\ RoundOf[x] <= round
        BY <1>1, <1>4 DEF JobsInv, DoneInv
    <2>2. RoundOf[x] = round
        <3>1. RoundOf[x] \in Nat /\ round \in Nat /\ RoundOf[x] >= round
            BY <1>1, <1>5, ReaderOf DEF TypeOK, GRTTypeOK
        <3> QED
            BY <2>1, <3>1
    <2>3. MappedLRT[x] = r
        BY <1>5 DEF ReadersAtHome, Home
    <2>4. x \in RoundJobs(r)
        BY <2>1, <2>2, <2>3 DEF RoundJobs, TasksOfRound
    <2> QED
        BY <1>7, <2>4
<1> QED
    BY <1>4, <1>5, <1>6, <1>8

\* The uses of the readers of f.
ReaderUses(f) == {<<f, x>> : x \in Readers[f]}

LEMMA ReaderUsesCount ==
    ASSUME NEW f \in Fifo
    PROVE  IsFiniteSet(ReaderUses(f)) /\ Cardinality(ReaderUses(f)) = Cardinality(Readers[f])
<1> DEFINE G == Readers[f]
           H == ReaderUses(f)
           use == [x \in G |-> <<f, x>>]
<1>1. IsFiniteSet(G)
    BY FifoOf
<1>2. use \in [G -> H]
    BY DEF ReaderUses
<1>3. \A x, y \in G : use[x] = use[y] => x = y
    OBVIOUS
<1>4. \A c \in H : \E x \in G : use[x] = c
    BY DEF ReaderUses
<1> HIDE DEF use, G, H
<1>5. use \in Bijection(G, H)
    BY <1>2, <1>3, <1>4, Fun_IsBij
<1>6. ExistsBijection(G, H)
    BY <1>5 DEF ExistsBijection
<1>7. IsFiniteSet(H) /\ Cardinality(H) = Cardinality(G)
    BY <1>1, <1>6, FS_Bijection
<1> QED
    BY <1>7 DEF G, H

\* The use that the writer held for the readers becomes theirs.
LEMMA CountClaims ==
    ASSUME MemoryInv, ReadersAtHome, NEW r \in LRT, NEW f \in Fifo, updating[r] = f,
           Home(f) = r, Begun' = Begun, UNCHANGED <<done, dynamicBuffers>>,
           ~OnWay(f)', \A g \in Fifo : g # f => (OnWay(g)' <=> OnWay(g))
    PROVE  /\ \A b \in Fifo : b # AddressOf[f] => Claims(b)' = Claims(b)
           /\ <<f, Source[f]>> \in Claims(AddressOf[f])
           /\ Claims(AddressOf[f])' =
                 (Claims(AddressOf[f]) \ {<<f, Source[f]>>}) \cup ReaderUses(f)
           /\ (Claims(AddressOf[f]) \ {<<f, Source[f]>>}) \cap ReaderUses(f) = {}
<1>1. /\ f \notin dynamicBuffers /\ f \in Dynamic /\ Readers[f] # {} /\ Source[f] \in done
      /\ Readers[f] \cap done = {}
    BY NoReaderDone
<1>2. Uncounted(f) /\ ~Uncounted(f)' /\ ~IsSink(f)
    BY <1>1 DEF Uncounted, OnWay, IsSink
<1>3. Users(f) = {Source[f]} /\ Users(f)' = Readers[f]
    BY <1>1, <1>2 DEF Users
<1>4. \A g \in Fifo : g # f => Users(g)' = Users(g)
    BY DEF Users, Uncounted
<1>5. Source[f] \in Begun /\ Source[f] \in Task /\ Readers[f] \in SUBSET Task
    BY <1>1, FifoOf DEF Begun
<1>6. \A b \in Fifo : Claims(b)' =
          {use \in Fifo \X Task : /\ AddressOf[use[1]] = b /\ Source[use[1]] \in Begun
                                  /\ use[2] \in Users(use[1])'}
    BY DEF Claims
<1>7. \A use \in Fifo \X Task : use = <<use[1], use[2]>> /\ use[1] \in Fifo
    OBVIOUS
<1>8. \A b \in Fifo : b # AddressOf[f] => Claims(b)' = Claims(b)
    <2> TAKE b \in Fifo
    <2> HAVE b # AddressOf[f]
    <2>1. \A use \in Fifo \X Task : AddressOf[use[1]] = b => Users(use[1])' = Users(use[1])
        BY <1>4, <1>7
    <2> QED
        BY <1>6, <2>1 DEF Claims
<1>9. <<f, Source[f]>> \in Claims(AddressOf[f])
    BY <1>3, <1>5 DEF Claims
<1>10. \A x : <<f, x>> \in Claims(AddressOf[f]) => x = Source[f]
    BY <1>3 DEF Claims
<1>11. (Claims(AddressOf[f]) \ {<<f, Source[f]>>}) \cap ReaderUses(f) = {}
    BY <1>10 DEF ReaderUses
<1>12. Claims(AddressOf[f])' =
          (Claims(AddressOf[f]) \ {<<f, Source[f]>>}) \cup ReaderUses(f)
    <2> DEFINE b == AddressOf[f]
               C == (Claims(b) \ {<<f, Source[f]>>}) \cup ReaderUses(f)
    <2>1. C \subseteq Fifo \X Task /\ Claims(b)' \subseteq Fifo \X Task /\ b \in Fifo
        BY <1>5, <1>6, FifoOf DEF Claims, ReaderUses
    <2>2. ASSUME NEW use \in Fifo \X Task PROVE use \in Claims(b)' <=> use \in C
        <3>1. /\ use[1] \in Fifo /\ use = <<use[1], use[2]>>
              /\ use \in ReaderUses(f) <=> use[1] = f /\ use[2] \in Readers[f]
            BY <1>7 DEF ReaderUses
        <3>2. use \in Claims(b)' <=> /\ AddressOf[use[1]] = b /\ Source[use[1]] \in Begun
                                     /\ use[2] \in Users(use[1])'
            BY <1>6, <2>1
        <3>3. use \in Claims(b) <=> /\ AddressOf[use[1]] = b /\ Source[use[1]] \in Begun
                                    /\ use[2] \in Users(use[1])
            BY DEF Claims
        <3>4. CASE use[1] = f
            BY <1>3, <1>5, <1>10, <3>1, <3>2, <3>3, <3>4
        <3>5. CASE use[1] # f
            BY <1>4, <3>1, <3>2, <3>3, <3>5
        <3> QED
            BY <3>4, <3>5
    <2> QED
        BY <2>1, <2>2
<1> QED
    BY <1>8, <1>9, <1>11, <1>12


\* A count is completed: every use that was added is that of a reader.
LEMMA ReadCountLedger ==
    ASSUME MemoryInv, ReadersAtHome, NEW r \in LRT, ReadUpdateCount(r)
    PROVE  DoneClosed' /\ LedgerInv' /\ MemoryTypeOK'
<1>1. /\ RoundInv /\ StampInv /\ UpdateInv /\ TypeOK /\ TravelInv /\ MemoryTypeOK
      /\ PrecedenceRespected /\ DoneClosed /\ CountsExact /\ CountInv /\ LeftInv
    BY DEF MemoryInv, RoundInv, UpdateInv, LedgerInv
<1>2. PICK f : f = updating[r]
    OBVIOUS
<1>3. /\ f \in Fifo /\ Home(f) = r
      /\ buffers' = [buffers EXCEPT ![AddressOf[f]].count = @ + UsesToAdd(f)]
      /\ updating' = [updating EXCEPT ![r] = None]
      /\ ~OnWay(f)' /\ \A g \in Fifo : g # f => (OnWay(g)' <=> OnWay(g))
    BY <1>1, <1>2, ReadCountTravel
<1>4. /\ done' = done /\ dynamicBuffers' = dynamicBuffers /\ executing' = executing
      /\ runner' = runner /\ pc' = pc
    BY <1>1, ReadUpdateKeeps DEF ReadsHalf, grtVars
<1>5. Begun' = Begun
    BY <1>4 DEF Begun, Firing, CurrentJob
<1>6. /\ executing /\ Readers[f] # {} /\ Source[f] \in done
    BY <1>2, <1>3, NoReaderDone
<1>7. PICK b : b = AddressOf[f]
    OBVIOUS
<1>8. /\ b \in Fifo /\ ~Borrowed(b) /\ Source[b] \in Begun
    BY <1>1, <1>3, <1>6, <1>7, BufferOf DEF Begun
<1>9. PICK o : o = <<f, Source[f]>>
    OBVIOUS
<1>10. /\ \A c \in Fifo : c # b => Claims(c)' = Claims(c)
       /\ o \in Claims(b)
       /\ Claims(b)' = (Claims(b) \ {o}) \cup ReaderUses(f)
       /\ (Claims(b) \ {o}) \cap ReaderUses(f) = {}
    BY <1>2, <1>3, <1>4, <1>5, <1>7, <1>9, CountClaims
<1>11. /\ IsFiniteSet(Readers[f]) /\ Cardinality(Readers[f]) \in Nat \ {0}
       /\ UsesToAdd(f) = Cardinality(Readers[f]) - 1
    <2>1. IsFiniteSet(Readers[f]) /\ Cardinality(Readers[f]) \in Nat
        BY <1>3, FifoOf
    <2> QED
        BY <1>6, <2>1, FS_EmptySet DEF UsesToAdd
<1>12. Cardinality(Claims(b)') = Cardinality(Claims(b)) + UsesToAdd(f)
    <2>1. IsFiniteSet(Claims(b)) /\ Cardinality(Claims(b)) \in Nat
        BY UsesFinite
    <2>2. /\ IsFiniteSet(Claims(b) \ {o})
          /\ Cardinality(Claims(b) \ {o}) = Cardinality(Claims(b)) - 1
        BY <1>10, <2>1, FS_RemoveElement
    <2>3. /\ IsFiniteSet(ReaderUses(f))
          /\ Cardinality(ReaderUses(f)) = Cardinality(Readers[f])
        BY <1>3, ReaderUsesCount
    <2>4. Cardinality((Claims(b) \ {o}) \cap ReaderUses(f)) = 0
        BY <1>10, FS_EmptySet
    <2>5. Cardinality((Claims(b) \ {o}) \cup ReaderUses(f)) =
              Cardinality(Claims(b) \ {o}) + Cardinality(ReaderUses(f))
              - Cardinality((Claims(b) \ {o}) \cap ReaderUses(f))
        BY <2>2, <2>3, FS_Union
    <2> QED
        BY <1>10, <1>11, <2>1, <2>2, <2>3, <2>4, <2>5
<1>13. /\ buffers[b].count \in Int /\ buffers[b].count = Cardinality(Claims(b))
       /\ buffers[b].count > 0 /\ buffers[b].live
    <2>1. Claims(b) # {}
        BY <1>10
    <2> QED
        BY <1>1, <1>6, <1>8, <2>1, ClaimsCount DEF CountInv, MemoryTypeOK
<1>14. /\ buffers'[b].count = buffers[b].count + UsesToAdd(f)
       /\ buffers'[b].live = buffers[b].live
       /\ \A c \in Fifo : c # b => buffers'[c] = buffers[c]
    BY <1>1, <1>3, <1>7, <1>8 DEF MemoryTypeOK
<1>15. MemoryTypeOK'
    <2>1. \A c \in Fifo : buffers'[c] \in [count : Int, live : BOOLEAN]
        <3> SUFFICES ASSUME NEW c \in Fifo
                     PROVE  buffers'[c] \in [count : Int, live : BOOLEAN]
            OBVIOUS
        <3>1. CASE c # b
            BY <1>1, <1>14, <3>1 DEF MemoryTypeOK
        <3>2. CASE c = b
            <4>1. buffers[b] \in [count : Int, live : BOOLEAN] /\ UsesToAdd(f) \in Int
                BY <1>1, <1>8, <1>11 DEF MemoryTypeOK
            <4>2. buffers'[b] = [buffers[b] EXCEPT !.count = buffers[b].count + UsesToAdd(f)]
                BY <1>1, <1>3, <1>7, <1>8 DEF MemoryTypeOK
            <4>3. buffers[b].count + UsesToAdd(f) \in Int
                BY <1>13, <4>1
            <4> QED
                BY <3>2, <4>1, <4>2, <4>3
        <3> QED
            BY <3>1, <3>2
    <2>2. buffers' \in [Fifo -> [count : Int, live : BOOLEAN]]
        <3>1. buffers' = [c \in Fifo |-> buffers'[c]]
            BY <1>1, <1>3 DEF MemoryTypeOK
        <3> QED
            BY <2>1, <3>1
    <2> QED
        BY <1>1, <1>3, <1>4, <2>2 DEF MemoryTypeOK
<1>16. CountsExact'
    <2> SUFFICES ASSUME NEW c \in Fifo
                 PROVE  /\ buffers'[c].count >= 0
                        /\ buffers'[c].live <=> buffers'[c].count > 0
        BY DEF CountsExact
    <2>1. CASE c = b
        <3>1. buffers'[b].count > 0 /\ buffers'[b].live /\ buffers'[b].count \in Int
            BY <1>11, <1>13, <1>14
        <3> QED
            BY <2>1, <3>1
    <2>2. CASE c # b
        BY <1>1, <1>14, <2>2 DEF CountsExact
    <2> QED
        BY <2>1, <2>2
<1>17. CountInv'
    <2> SUFFICES ASSUME NEW c \in Fifo, ~Borrowed(c), Source[c] \in Begun
                 PROVE  buffers'[c].count = Cardinality(Claims(c)')
        BY <1>5 DEF CountInv
    <2>1. CASE c = b
        BY <1>12, <1>13, <1>14, <2>1
    <2>2. CASE c # b
        BY <1>1, <1>6, <1>10, <1>14, <2>2 DEF CountInv
    <2> QED
        BY <2>1, <2>2
<1>18. LeftInv'
    BY <1>1, <1>4, <1>5, <1>6, <1>8, <1>14 DEF LeftInv
<1>19. DoneClosed'
    BY <1>1, <1>4 DEF DoneClosed
<1> QED
    BY <1>15, <1>16, <1>17, <1>18, <1>19 DEF LedgerInv


-----------------------------------------------------------------------------
(* The other steps                                                         *)

\* A silent step that keeps what is counted later keeps the ledger.
LEMMA SilentLedger ==
    ASSUME MemoryInv, Silent, buffers' = buffers, updating' \in [LRT -> Fifo \cup {None}],
           dynamicBuffers' \subseteq Fifo,
           \A f \in Fifo : Source[f] \in Begun => (Uncounted(f)' <=> Uncounted(f))
    PROVE  DoneClosed' /\ LedgerInv' /\ MemoryTypeOK'
<1>1. SameUses
    BY FiringKept DEF Silent, SameUses
<1> QED
    BY <1>1, LedgerSame DEF MemoryInv, MemoryTypeOK

\* A step that leaves them where they are does.
LEMMA MovesLedger ==
    ASSUME MemoryInv, Silent, buffers' = buffers, UNCHANGED <<dynamicBuffers, updating>>,
           \A f \in Fifo : OnWay(f)' <=> OnWay(f)
    PROVE  DoneClosed' /\ LedgerInv' /\ MemoryTypeOK'
BY SilentLedger DEF MemoryInv, MemoryTypeOK, Uncounted

\* The steps of the runners.
LEMMA RunnerMovesLedger ==
    ASSUME MemoryInv, NEW r \in LRT, RunnerMoves(r), ~StartJob(r), ~EndJob(r),
           buffers' = buffers, \A f \in Fifo : OnWay(f)' <=> OnWay(f)
    PROVE  DoneClosed' /\ LedgerInv' /\ MemoryTypeOK'
<1>1. RunnerStep(r) /\ UNCHANGED grtVars /\ RoundInv
    BY KindsRuntime DEF MemoryInv
<1>2. Silent
    BY <1>1, RunnerSilent
<1> QED
    BY <1>2, MovesLedger DEF RunnerMoves

\* The steps of the GRT.
LEMMA GRTMovesLedger ==
    ASSUME MemoryInv, GRTMovesOn, buffers' = buffers, \A f \in Fifo : OnWay(f)' <=> OnWay(f)
    PROVE  DoneClosed' /\ LedgerInv' /\ MemoryTypeOK'
<1>1. Silent
    BY GRTSilent DEF MemoryInv, GRTMovesOn
<1> QED
    BY <1>1, MovesLedger DEF GRTMovesOn

\* A runner reads the address of an update.
LEMMA ReadAddressLedger ==
    ASSUME MemoryInv, NEW r \in LRT, ReadUpdateAddress(r)
    PROVE  DoneClosed' /\ LedgerInv' /\ MemoryTypeOK'
<1>1. RoundInv /\ StampInv /\ UpdateInv /\ MemoryTypeOK
    BY DEF MemoryInv
<1>2. ReadsHalf(r) /\ UpdateInv' /\ \A f \in Fifo : OnWay(f)' <=> OnWay(f)
    BY <1>1, ReadUpdateKeeps
<1>3. Silent
    BY <1>2 DEF ReadsHalf, Silent, KernelsKept, grtVars
<1>4. updating' \in [LRT -> Fifo \cup {None}]
    <2>1. updating \in [LRT -> Fifo \cup {None}] /\ \E x : updating' = [updating EXCEPT ![r] = x]
        BY <1>1 DEF MemoryTypeOK, ReadUpdateAddress
    <2>2. updating'[r] # None => updating'[r] \in Fifo
        BY <1>2 DEF UpdateInv, TravelInv, ReadUpdates
    <2> QED
        BY <2>1, <2>2
<1>5. buffers' = buffers /\ dynamicBuffers' = dynamicBuffers
    BY DEF ReadUpdateAddress
<1> QED
    BY <1>1, <1>2, <1>3, <1>4, <1>5, SilentLedger DEF Uncounted, MemoryTypeOK

\* An update is sent: its readers are not counted yet.
LEMMA UpdateCountLedger ==
    ASSUME MemoryInv, NEW f \in Fifo, UpdateCount(f)
    PROVE  DoneClosed' /\ LedgerInv' /\ MemoryTypeOK'
<1>1. RoundInv /\ UpdateInv /\ DynamicInv /\ MemoryTypeOK
    BY DEF MemoryInv
<1>2. OnWay(f)' /\ \A g \in Fifo : g # f => (OnWay(g)' <=> OnWay(g))
    BY <1>1, UpdateCountKeeps
<1>3. /\ Silent /\ buffers' = buffers /\ updating' = updating
      /\ f \in dynamicBuffers /\ dynamicBuffers' = dynamicBuffers \ {f}
    BY DEF UpdateCount, Silent, KernelsKept, runnerVars, grtVars
<1>4. \A g \in Fifo : Uncounted(g)' <=> Uncounted(g)
    BY <1>1, <1>2, <1>3 DEF Uncounted, DynamicInv
<1> QED
    BY <1>1, <1>3, <1>4, SilentLedger DEF MemoryTypeOK

\* A task is launched: it has written nothing.
LEMMA LaunchTaskLedger ==
    ASSUME MemoryInv, NEW t \in Task, MemoryLaunchTask(t), t \notin Begun,
           \A f \in Fifo : OnWay(f)' <=> OnWay(f)
    PROVE  DoneClosed' /\ LedgerInv' /\ MemoryTypeOK'
<1>1. RoundInv /\ LaunchTask(t)
    BY DEF MemoryInv, MemoryLaunchTask
<1>2. Silent
    BY <1>1, GRTSilent
<1>3. \A f \in Fifo : Source[f] \in Begun => (Uncounted(f)' <=> Uncounted(f))
    BY DEF MemoryLaunchTask, OutputsOf, Uncounted
<1> QED
    BY <1>2, <1>3, SilentLedger DEF MemoryInv, MemoryTypeOK, MemoryLaunchTask, OutputsOf

\* spider::run is called, and a later round starts.
LEMMA NextRoundLedger ==
    ASSUME MemoryInv, NextRound \/ (\E c \in Context : CallRun(c)), UNCHANGED memoryVars,
           \A f \in Fifo : ~OnWay(f) /\ ~OnWay(f)'
    PROVE  DoneClosed' /\ LedgerInv' /\ MemoryTypeOK'
<1>1. Silent
    BY GRTSilent DEF MemoryInv
<1> QED
    BY <1>1, MovesLedger DEF memoryVars

\* execute() starts with no buffer that is used.
LEMMA ExecuteLedger ==
    ASSUME MemoryInv, Execute, UNCHANGED memoryVars
    PROVE  DoneClosed' /\ LedgerInv' /\ MemoryTypeOK'
<1>1. RoundInv /\ MemoryTypeOK /\ LedgerInv
    BY DEF MemoryInv
<1>2. done' = {} /\ ~executing /\ pc[GRTIx] = "Execute"
    BY <1>1 DEF Execute, At, RoundInv, PhaseInv, GRTInPhase, InRound, Launched
<1>3. Begun' = {}
    BY <1>1, <1>2, NoKernel DEF Begun, Firing
<1>4. buffers' = buffers /\ MemoryTypeOK'
    BY <1>1 DEF memoryVars, MemoryTypeOK
<1>5. LedgerInv'
    BY <1>1, <1>2, <1>3, <1>4 DEF LedgerInv, CountsExact, CountInv, LeftInv
<1> QED
    BY <1>2, <1>4, <1>5 DEF DoneClosed

\* When execute() returns, all the uses that were counted have been given up.
LEMMA NoClaimsLeft ==
    ASSUME MemoryInv, NoLostUses, EndExecute, \A f \in Fifo : ~OnWay(f)
    PROVE  \A b \in Fifo : Claims(b) = {}
<1>1. RoundInv /\ DynamicInv /\ DoneInv
    BY DEF MemoryInv, RoundInv, JobsInv
<1>2. /\ pc[GRTIx] = "Params" /\ round = Rounds[context] /\ context \in Context
      /\ executing
    BY <1>1, NoKernel DEF EndExecute, At, RoundInv, PhaseInv, GRTInPhase
<1>3. done = TasksOf(context)
    <2>1. TasksOf(context) \subseteq done
        BY <1>1, <1>2, RoundComplete DEF IterationComplete
    <2> QED
        BY <1>1, <1>2, <2>1 DEF DoneInv
<1>4. Begun = done
    BY <1>1, NoKernel DEF Begun, Firing
<1>5. ASSUME NEW f \in Fifo, Source[f] \in done PROVE Users(f) = {}
    <2>1. \A t \in Readers[f] : t \in done /\ RoundOf[t] <= round /\ RoundOf[t] \in Nat
        BY <1>2, <1>3, <1>5, ReaderOf DEF TasksOf
    <2>2. ~Uncounted(f)
        <3>1. f \in Dynamic => Readers[f] # {} /\ ~OnWay(f)
            BY DEF NoLostUses
        <3>2. f \in Dynamic => f \notin dynamicBuffers
            <4> SUFFICES ASSUME f \in Dynamic, f \in dynamicBuffers PROVE FALSE
                OBVIOUS
            <4>1. PICK t \in Readers[f] : TRUE
                BY <3>1
            <4>2. RoundOf[t] >= round /\ RoundOf[t] # round
                BY <1>1, <1>2 DEF DynamicInv, BeforeJobs
            <4>3. round \in Nat
                BY <1>1 DEF RoundInv, TypeOK, GRTTypeOK
            <4> QED
                BY <2>1, <4>2, <4>3
        <3> QED
            BY <3>1, <3>2 DEF Uncounted
    <2>3. IsSink(f) => ~Borrowed(f)
        BY DEF NoLostUses
    <2> QED
        BY <1>5, <2>1, <2>2, <2>3 DEF Users
<1> QED
    BY <1>4, <1>5 DEF Claims

LEMMA EndExecuteLedger ==
    ASSUME MemoryInv, MemoryEndExecute, \A f \in Fifo : ~OnWay(f)
    PROVE  DoneClosed' /\ LedgerInv' /\ MemoryTypeOK'
<1>1. RoundInv /\ MemoryTypeOK /\ LedgerInv /\ DoneClosed /\ EndExecute
    BY DEF MemoryInv, MemoryEndExecute
<1>2. done' = done /\ ~executing' /\ buffers' = buffers /\ updating' = updating
    BY <1>1 DEF EndExecute, MemoryEndExecute
<1>3. executing
    BY <1>1 DEF EndExecute, At, RoundInv, PhaseInv, GRTInPhase
<1>4. MemoryTypeOK' /\ CountsExact' /\ DoneClosed' /\ CountInv'
    BY <1>1, <1>2 DEF MemoryTypeOK, CountsExact, DoneClosed, CountInv, LedgerInv,
       MemoryEndExecute
<1>5. LeftInv'
    <2> SUFFICES ASSUME NoLostUses, NEW b \in Fifo PROVE buffers[b].count = 0
        BY <1>2 DEF LeftInv
    <2>1. CASE Borrowed(b) \/ Source[b] \notin Begun
        BY <1>1, <2>1 DEF LedgerInv, LeftInv
    <2>2. CASE ~Borrowed(b) /\ Source[b] \in Begun
        <3>1. Claims(b) = {}
            BY <1>1, NoClaimsLeft
        <3> QED
            BY <1>1, <1>3, <2>2, <3>1, FS_EmptySet DEF LedgerInv, CountInv
    <2> QED
        BY <2>1, <2>2
<1> QED
    BY <1>4, <1>5 DEF LedgerInv


-----------------------------------------------------------------------------
(* The invariant of the buffers                                            *)

\* Nothing is allocated nor sent before the first call.
LEMMA InitMemoryInv == MemoryInit => MemoryInv
<1> SUFFICES ASSUME MemoryInit PROVE MemoryInv
    OBVIOUS
<1>1. RoundInv /\ StampInv /\ Init
    BY InitRoundInv, InitStampInv DEF MemoryInit
<1>2. /\ executing = FALSE /\ done = {} /\ notifVector = << >> /\ ~InRound
      /\ \A r \in LRT : pc[r] # "Kernel"
      /\ \A r \in LRT : outbox[r] = << >> /\ queue[r] = << >> /\ updating[r] = None
    BY GRTAssumption DEF MemoryInit, Init, CommInit, InRound, Launched, Endpoint
<1>3. Begun = {}
    BY <1>2 DEF Begun, Firing
<1>4. MemoryTypeOK
    BY DEF MemoryInit, MemoryTypeOK
<1>5. \A f \in Fifo : AddressIn(f) = {} /\ ~BothToPush(f) /\ ~OnWay(f)
    BY <1>2, FifoOf, HalvesOf DEF AddressIn, BothToPush, OnWay
<1>6. ~UpdateToPush /\ \A o \in LRT : NoUpdateIn(outbox[o])
    BY <1>2, GRTAssumption DEF UpdateToPush, NoUpdateIn
<1>7. \A r \in LRT : DOMAIN queue[r] = {} /\ ~UpdatesComing(r)
    BY <1>2 DEF UpdatesComing
<1>8. TravelInv
    BY <1>2, <1>5, <1>6, <1>7 DEF TravelInv, OutboxUpdates, QueueUpdates, ReadUpdates,
       UpdatesOnce, MemoryInit
<1>9. UpdatesInTime /\ BusyInv
    BY <1>2, <1>6, <1>7 DEF UpdatesInTime, BusyInv
<1>10. DynamicInv
    BY <1>2, <1>5 DEF DynamicInv, MemoryInit, WasLaunched
<1>11. PrecedenceRespected /\ DoneClosed
    BY <1>2 DEF PrecedenceRespected, DoneClosed
<1>12. LedgerInv
    BY <1>2, <1>3 DEF LedgerInv, CountsExact, CountInv, LeftInv, MemoryInit
<1> QED
    BY <1>1, <1>4, <1>8, <1>9, <1>10, <1>11, <1>12 DEF MemoryInv, UpdateInv

\* A step of the runtime keeps its invariants.
LEMMA RuntimeKept ==
    ASSUME SupportedUse, NoLateStart, MemoryInv, [Next]_vars
    PROVE  RoundInv' /\ StampInv' /\ PrecedenceRespected'
BY NextRoundInv, NextStampInv, NextPrecedence DEF MemoryInv

\* So does one of the updates.
LEMMA PrecedenceKept ==
    ASSUME PrecedenceRespected, UNCHANGED <<runner, pc, done>>
    PROVE  PrecedenceRespected'
BY DEF PrecedenceRespected, CurrentJob

\* The steps of the runners keep the invariant.
LEMMA RunnerKeepsMemory ==
    ASSUME SupportedUse, NoLateStart, ReadersAtHome, MemoryInv, NEW r \in LRT, RunnerMoves(r),
           \/ StartJob(r) /\ buffers' = Acquired(CurrentJob(r))
           \/ EndJob(r) /\ buffers' = Released(CurrentJob(r))
           \/ ReadClear(r) /\ buffers' = Collected
           \/ ~StartJob(r) /\ ~EndJob(r) /\ buffers' = buffers
    PROVE  MemoryInv'
<1>1. RoundInv /\ StampInv /\ UpdateInv /\ DynamicInv /\ MemoryTypeOK /\ CountsExact
    BY DEF MemoryInv, LedgerInv
<1>2. Next /\ UNCHANGED grtVars /\ UNCHANGED <<dynamicBuffers, updating>>
    BY KindsRuntime DEF RunnerMoves
<1>3. RoundInv' /\ StampInv' /\ PrecedenceRespected'
    BY <1>2, RuntimeKept
<1>4. UpdateInv' /\ \A f \in Fifo : OnWay(f)' <=> OnWay(f)
    BY <1>1, <1>3, RunnerMovesKeep
<1>5. DynamicInv'
    BY <1>1, <1>4, RunnerMovesDynamic
<1>6. ReadClear(r) => ~StartJob(r) /\ ~EndJob(r)
    BY DEF ReadClear, Received, Reading, StartJob, EndJob
<1>7. ReadClear(r) /\ buffers' = Collected => buffers' = buffers
    BY <1>1, CollectedIs
<1>8. DoneClosed' /\ LedgerInv' /\ MemoryTypeOK'
    BY <1>2, <1>4, <1>6, <1>7, StartJobLedger, EndJobLedger, RunnerMovesLedger
<1> QED
    BY <1>3, <1>4, <1>5, <1>8 DEF MemoryInv

\* Those of the GRT and of the application do.
LEMMA GRTKeepsMemory ==
    ASSUME SupportedUse, NoLateStart, MemoryInv,
           \/ GRTMovesOn /\ buffers' = buffers
           \/ \E t \in Task : MemoryLaunchTask(t)
           \/ MemoryEndExecute
           \/ (Execute \/ NextRound \/ \E c \in Context : CallRun(c)) /\ UNCHANGED memoryVars
    PROVE  MemoryInv'
<1>1. RoundInv /\ StampInv /\ UpdateInv /\ DynamicInv
    BY DEF MemoryInv
<1>2. RoundInv' /\ StampInv' /\ PrecedenceRespected'
    <2>1. [Next]_vars
        BY KindsRuntime
    <2> QED
        BY <2>1, RuntimeKept
<1>3. CASE GRTMovesOn /\ buffers' = buffers
    <2>1. UpdateInv' /\ \A f \in Fifo : OnWay(f)' <=> OnWay(f)
        BY <1>1, <1>2, <1>3, GRTMovesKeep
    <2>2. DynamicInv'
        BY <1>1, <1>3, <2>1, GRTMovesDynamic
    <2>3. DoneClosed' /\ LedgerInv' /\ MemoryTypeOK'
        BY <1>3, <2>1, GRTMovesLedger
    <2> QED
        BY <1>2, <2>1, <2>2, <2>3 DEF MemoryInv
<1>4. ASSUME NEW t \in Task, MemoryLaunchTask(t) PROVE MemoryInv'
    <2>1. /\ UpdateInv' /\ DynamicInv' /\ \A f \in Fifo : OnWay(f)' <=> OnWay(f)
          /\ t \notin Begun
        BY <1>1, <1>2, <1>4, LaunchTaskKeeps
    <2>2. DoneClosed' /\ LedgerInv' /\ MemoryTypeOK'
        BY <1>4, <2>1, LaunchTaskLedger
    <2> QED
        BY <1>2, <2>1, <2>2 DEF MemoryInv
<1>5. CASE \/ MemoryEndExecute
           \/ (Execute \/ NextRound \/ \E c \in Context : CallRun(c)) /\ UNCHANGED memoryVars
    <2>1. UpdateInv' /\ DynamicInv' /\ \A f \in Fifo : ~OnWay(f) /\ ~OnWay(f)'
        BY <1>1, <1>5, RestKeeps
    <2>2. DoneClosed' /\ LedgerInv' /\ MemoryTypeOK'
        BY <1>5, <2>1, EndExecuteLedger, ExecuteLedger, NextRoundLedger
    <2> QED
        BY <1>2, <2>1, <2>2 DEF MemoryInv
<1> QED
    BY <1>3, <1>4, <1>5

\* The steps of the updates do.
LEMMA UpdateKeepsMemory ==
    ASSUME ReadersAtHome, MemoryInv,
           \/ \E r \in LRT : ReadUpdateAddress(r) \/ ReadUpdateCount(r)
           \/ \E f \in Fifo : UpdateCount(f)
    PROVE  MemoryInv'
<1>1. /\ RoundInv /\ StampInv /\ UpdateInv /\ DynamicInv /\ MemoryTypeOK /\ TypeOK
      /\ TravelInv /\ PrecedenceRespected
    BY DEF MemoryInv, RoundInv, UpdateInv
<1>2. ASSUME NEW r \in LRT, ReadUpdateAddress(r) \/ ReadUpdateCount(r) PROVE MemoryInv'
    <2>1. /\ ReadsHalf(r) /\ UpdateInv' /\ RoundInv' /\ StampInv'
          /\ \A f \in Fifo : OnWay(f)' => OnWay(f)
        BY <1>1, <1>2, ReadUpdateKeeps
    <2>2. DynamicInv'
        BY <1>1, <2>1, ReadUpdateDynamic
    <2>3. PrecedenceRespected'
        BY <1>1, <2>1, PrecedenceKept DEF ReadsHalf
    <2>4. DoneClosed' /\ LedgerInv' /\ MemoryTypeOK'
        BY <1>2, ReadAddressLedger, ReadCountLedger
    <2> QED
        BY <2>1, <2>2, <2>3, <2>4 DEF MemoryInv
<1>3. ASSUME NEW f \in Fifo, UpdateCount(f) PROVE MemoryInv'
    <2>1. UpdateInv' /\ DynamicInv' /\ RoundInv' /\ StampInv'
        BY <1>1, <1>3, UpdateCountKeeps, UpdateCountDynamic, UpdateCountRound
    <2>2. PrecedenceRespected'
        <3>1. UNCHANGED <<runner, pc, done>>
            BY <1>3 DEF UpdateCount, runnerVars
        <3> QED
            BY <1>1, <3>1, PrecedenceKept
    <2>3. DoneClosed' /\ LedgerInv' /\ MemoryTypeOK'
        BY <1>3, UpdateCountLedger
    <2> QED
        BY <2>1, <2>2, <2>3 DEF MemoryInv
<1> QED
    BY <1>2, <1>3

LEMMA NextMemoryInv ==
    ASSUME SupportedUse, NoLateStart, ReadersAtHome,
           MemoryInv, [MemoryNext]_<<vars, memoryVars>>
    PROVE  MemoryInv'
<1>1. TypeOK
    BY DEF MemoryInv, RoundInv
<1> QED
    BY <1>1, MemoryKinds, RunnerKeepsMemory, GRTKeepsMemory, UpdateKeepsMemory

\* A buffer's count is that of the uses that are held, and the updates of the counts
\* are between the start of a round and its jobs.
THEOREM MemoryInvariant ==
    ASSUME SupportedUse, NoLateStart, ReadersAtHome
    PROVE  MemorySpec => []MemoryInv
<1>1. MemoryInit => MemoryInv
    BY InitMemoryInv
<1>2. MemoryInv /\ [MemoryNext]_<<vars, memoryVars>> => MemoryInv'
    BY NextMemoryInv
<1> QED
    BY <1>1, <1>2, PTL DEF MemorySpec


-----------------------------------------------------------------------------
(* What it shows of the buffers                                            *)

\* What is still to be read is in a buffer that is allocated.
LEMMA HeldIsLive ==
    ASSUME MemoryInv, executing, NEW f \in Fifo, Source[f] \in Begun,
           Claims(AddressOf[f]) # {}
    PROVE  buffers[AddressOf[f]].live
<1>1. /\ AddressOf[f] \in Fifo /\ ~Borrowed(AddressOf[f]) /\ Source[AddressOf[f]] \in Begun
    BY BufferOf DEF MemoryInv
<1> QED
    BY <1>1, ClaimsCount DEF MemoryInv, LedgerInv

\* A buffer is freed exactly when its count reaches zero, and never twice, whatever
\* the order in which the LRTs give up their uses and read the updates.
THEOREM CountsAlwaysExact ==
    ASSUME SupportedUse, NoLateStart, ReadersAtHome
    PROVE  MemorySpec => []CountsExact
<1>1. MemoryInv => CountsExact
    BY DEF MemoryInv, LedgerInv
<1> QED
    BY <1>1, MemoryInvariant, PTL

\* A buffer that was written stays allocated until its last reader is done.
LEMMA KeptWhileRead == MemoryInv => KeptForReaders
<1> SUFFICES ASSUME MemoryInv, NEW f \in Fifo, executing, Source[f] \in done,
                    Readers[f] \ done # {}
             PROVE  buffers[AddressOf[f]].live
    BY DEF KeptForReaders
<1>1. PICK t \in Readers[f] : t \notin done
    OBVIOUS
<1>2. Source[f] \in Begun
    BY DEF Begun
<1> QED
    BY <1>1, <1>2, ReaderHolds, HeldIsLive

\* MemoryInterface frees no buffer before its last reader is done, be it a reader of
\* the output of a fork, and although the count may come after the writer is done.
THEOREM AlwaysKeptForReaders ==
    ASSUME SupportedUse, NoLateStart, ReadersAtHome
    PROVE  MemorySpec => []KeptForReaders
BY KeptWhileRead, MemoryInvariant, PTL

\* A kernel reads and writes buffers that are allocated.
LEMMA LiveInKernel == MemoryInv => BuffersLive
<1> SUFFICES ASSUME MemoryInv, NEW r \in LRT, pc[r] = "Kernel",
                    NEW f \in InputsOf(CurrentJob(r)) \cup OutputsOf(CurrentJob(r))
             PROVE  buffers[AddressOf[f]].live
    BY DEF BuffersLive
<1>1. PICK t : t = CurrentJob(r)
    OBVIOUS
<1>2. /\ t \notin done /\ executing /\ t \in Begun /\ Deps[t] \subseteq done
    BY <1>1, InKernel DEF MemoryInv, PrecedenceRespected, Begun, Firing
<1>3. CASE f \in Fifo /\ t \in Readers[f]
    <2>1. Source[f] \in Begun
        BY <1>2, <1>3, ReaderOf DEF Begun
    <2> QED
        BY <1>2, <1>3, <2>1, ReaderHolds, HeldIsLive
<1>4. CASE f \in Fifo /\ Source[f] = t
    <2>1. Readers[f] \cap done = {}
        BY <1>2, <1>4, ReaderOf DEF MemoryInv, DoneClosed
    <2>2. \E u \in Task : u \in Users(f)
        BY <1>2, <1>4, <2>1, FifoOf DEF Users, IsSink, Uncounted
    <2>3. PICK u \in Task : u \in Users(f)
        BY <2>2
    <2>4. <<f, u>> \in Claims(AddressOf[f])
        BY <1>2, <1>4, <2>3 DEF Claims
    <2> QED
        BY <1>2, <1>4, <2>4, HeldIsLive
<1> QED
    BY <1>1, <1>3, <1>4 DEF InputsOf, OutputsOf

\* While a kernel runs, no other LRT frees a buffer it reads or writes.
THEOREM BuffersAlwaysLive ==
    ASSUME SupportedUse, NoLateStart, ReadersAtHome
    PROVE  MemorySpec => []BuffersLive
BY LiveInKernel, MemoryInvariant, PTL

\* The count follows the address.
LEMMA UpdatesTogether == MemoryInv => UpdateUninterrupted
<1> SUFFICES ASSUME MemoryInv, NEW r \in LRT, updating[r] # None, queue[r] # << >>
             PROVE  Head(queue[r]).type = "MEM_UPDATE_COUNT"
    BY DEF UpdateUninterrupted
<1>1. updating[r] \in Fifo /\ queue[r][1] = CountNote(updating[r])
    BY DEF MemoryInv, UpdateInv, TravelInv, ReadUpdates
<1>2. queue[r] \in Seq(Notification)
    BY Places DEF MemoryInv, RoundInv, Endpoint
<1>3. Head(queue[r]) = queue[r][1]
    BY <1>2, TailOf
<1> QED
    BY <1>1, <1>3, UpdateNotes DEF Update

\* The two halves of an update are read one after the other: the runner never has
\* to push back what comes between them.
THEOREM UpdatesNeverInterrupted ==
    ASSUME SupportedUse, NoLateStart, ReadersAtHome
    PROVE  MemorySpec => []UpdateUninterrupted
BY UpdatesTogether, MemoryInvariant, PTL

\* Between two calls of execute() no buffer is allocated, if every use that is
\* counted is given up.
THEOREM NothingAlwaysLeft ==
    ASSUME SupportedUse, NoLateStart, ReadersAtHome, NoLostUses
    PROVE  MemorySpec => []NothingLeft
<1>1. MemoryInv => NothingLeft
    BY DEF MemoryInv, LedgerInv, CountsExact, LeftInv, NothingLeft
<1> QED
    BY <1>1, MemoryInvariant, PTL

=============================================================================
