-------------------------- MODULE PrecedenceProofs --------------------------
(***************************************************************************)
(* Why a job starts after the tasks it depends on, whatever the threads    *)
(* do: the stamps that a runner compares with are never ahead of the LRTs  *)
(* they are about.  And why no parameter is taken for that of a later      *)
(* round.                                                                  *)
(*                                                                         *)
(* A stamp is true of the execution it was sent in.  The invariant says of *)
(* every stamp, held by a runner or on its way in a queue, in an outbox or *)
(* among the notifications set aside at the barrier, that it is true of    *)
(* this execution or that the runner will read a reset before it compares  *)
(* with it.                                                                *)
(***************************************************************************)
EXTENDS RoundProofs

\* A LRT that runs tasks of a context runs one in its first round.  A LRT that
\* does not broadcasts the stamp of a job it has not run (section 5 of README.md).
NoLateStart ==
    \A t \in Task : \E s \in TasksOfRound(ContextOf[t], 1) : MappedLRT[s] = MappedLRT[t]

-----------------------------------------------------------------------------
(* Stamps                                                                  *)

IsStamp(n) == n.type = "JOB_UPDATE_JOBSTAMP"

\* What a stamp says of the context: the jobs of l up to the one of index ix.
UpTo(l, ix) == {t \in TasksOf(context) : MappedLRT[t] = l /\ ExecIx[t] <= ix}

\* The stamp is true of this execution.
TrueStamp(l, ix) == executing /\ UpTo(l, ix) \subseteq done

TrueNote(n) == IsStamp(n) => TrueStamp(n.senderIx, n.notificationIx)

\* A reset is on its way to r behind the first i notifications of its queue.
ResetAfter(r, i) ==
    \/ \E b \in DOMAIN outbox[GRTIx] :
          r \in outbox[GRTIx][b].to /\ outbox[GRTIx][b].note.type \in Resets
    \/ \E j \in DOMAIN queue[r] : i < j /\ queue[r][j].type \in Resets

\* Every stamp on its way is true, or forgotten before it is used.
NotesTrue ==
    /\ \A r \in LRT : \A i \in DOMAIN queue[r] : TrueNote(queue[r][i]) \/ ResetAfter(r, i)
    /\ \A o \in LRT : \A b \in DOMAIN outbox[o] : TrueNote(outbox[o][b].note)
    /\ \A i \in DOMAIN notifVector : TrueNote(notifVector[i])

\* So is every stamp that a runner holds.
HeldTrue ==
    \A r \in LRT :
        /\ \A l \in LRT : \/ stamps[r][l] = NoStamp
                          \/ TrueStamp(l, stamps[r][l])
                          \/ ResetAfter(r, 0)
        /\ \/ runner[r].lastJobStamp \in {NoStamp, 0}
           \/ TrueStamp(r, runner[r].lastJobStamp)
           \/ ResetAfter(r, 0)

\* The inductive invariant of the stamps.
StampInv == NotesTrue /\ HeldTrue

-----------------------------------------------------------------------------
(* Parameters                                                              *)

IsParam(n) == n.type = "JOB_SENT_PARAM"

\* A parameter is set by one configuration task, and under SRDAGJITMSRuntime a
\* graph has one configuration task (section 5 of README.md).
OwnParams ==
    \A s, t \in ConfigTask :
        s # t /\ ContextOf[s] = ContextOf[t] /\ RoundOf[s] = RoundOf[t] =>
            \A p \in ParamsSetBy[s], q \in ParamsSetBy[t] :
                IF ContextOf[s] \in SRDAGContext THEN RunGraphOf[p] # RunGraphOf[q]
                ELSE p # q

\* The tasks of the round that set parameters.
ConfigOfRound == TasksOfRound(context, round) \cap ConfigTask

\* The LRTs that have a message of parameters to push.
ParamSenders == {o \in LRT : \E b \in DOMAIN outbox[o] : IsParam(outbox[o][b].note)}

\* A message of parameters goes to its queue only, and is the last that its
\* sender has to push.
ParamNotes ==
    /\ \A o \in LRT : \A b \in DOMAIN outbox[o] :
          IF IsParam(outbox[o][b].note)
          THEN outbox[o][b].to = {ParamQueue} /\ b = Len(outbox[o])
          ELSE ParamQueue \notin outbox[o][b].to
    /\ \A r \in LRT : \A i \in DOMAIN queue[r] : ~IsParam(queue[r][i])
    /\ \A i \in DOMAIN notifVector : ~IsParam(notifVector[i])

\* The messages sent in a round are those of its configuration tasks that are done.
ParamCount ==
    /\ InRound => readParam = 0
    /\ executing => Len(queue[ParamQueue]) + Cardinality(ParamSenders) + readParam
                        = Cardinality(ConfigOfRound \cap done)
    /\ ~executing => queue[ParamQueue] = << >> /\ ParamSenders = {}

\* The inductive invariant of the parameters.
ParamInv == ParamNotes /\ ParamCount

-----------------------------------------------------------------------------
(* What keeps a stamp true                                                 *)

\* A true stamp stays true.
StampsStay == \A l, ix : TrueStamp(l, ix) => TrueStamp(l, ix)'

\* It does in a step that forgets nothing of the execution, or outside of one.
LEMMA StampsStayTrue ==
    ASSUME \/ ~executing
           \/ UNCHANGED <<executing, context>> /\ done \subseteq done'
    PROVE  StampsStay
BY DEF StampsStay, TrueStamp, UpTo, TasksOf

\* So does a notification that carries it.
LEMMA NotesStayTrue ==
    ASSUME StampsStay, NEW n, TrueNote(n)
    PROVE  TrueNote(n)'
BY DEF StampsStay, TrueNote, IsStamp

\* The thread of r sends the batches s.
Sends(r, s) ==
    /\ Ready(r)
    /\ queue' = queue
    /\ outbox' = [outbox EXCEPT ![r] = s]

\* A runner forgets all the stamps it holds.
Forgets(q) == stamps'[q] = NoStamps /\ runner'[q].lastJobStamp = NoStamp

\* Otherwise it keeps the stamps it holds, or takes true ones, or takes one that a
\* reset behind makes it forget.
HeldKept ==
    \A q \in LRT :
        \/ Forgets(q)
        \/ /\ \A l \in LRT : \/ stamps'[q][l] = stamps[q][l]
                             \/ TrueStamp(l, stamps[q][l])'
                             \/ ResetAfter(q, 0)'
           /\ \/ runner'[q].lastJobStamp = runner[q].lastJobStamp
              \/ TrueStamp(q, runner[q].lastJobStamp)'

\* What is held stays true until a runner reads the reset.
LEMMA HeldStays ==
    ASSUME HeldTrue, StampsStay, HeldKept,
           \A q \in LRT : Forgets(q) \/ (ResetAfter(q, 0) => ResetAfter(q, 0)')
    PROVE  HeldTrue'
<1> SUFFICES ASSUME NEW q \in LRT
             PROVE  /\ \A l \in LRT : \/ stamps'[q][l] = NoStamp
                                      \/ TrueStamp(l, stamps[q][l])'
                                      \/ ResetAfter(q, 0)'
                    /\ \/ runner'[q].lastJobStamp \in {NoStamp, 0}
                       \/ TrueStamp(q, runner[q].lastJobStamp)'
                       \/ ResetAfter(q, 0)'
    BY DEF HeldTrue, NoStamp
<1>0. CASE Forgets(q)
    BY <1>0 DEF Forgets, NoStamps, NoStamp
<1> SUFFICES ASSUME ~Forgets(q), ResetAfter(q, 0) => ResetAfter(q, 0)'
             PROVE  /\ \A l \in LRT : \/ stamps'[q][l] = NoStamp
                                      \/ TrueStamp(l, stamps[q][l])'
                                      \/ ResetAfter(q, 0)'
                    /\ \/ runner'[q].lastJobStamp \in {NoStamp, 0}
                       \/ TrueStamp(q, runner[q].lastJobStamp)'
                       \/ ResetAfter(q, 0)'
    BY <1>0
<1>1. ASSUME NEW l \in LRT
      PROVE  \/ stamps'[q][l] = NoStamp
             \/ TrueStamp(l, stamps[q][l])'
             \/ ResetAfter(q, 0)'
    <2>1. CASE stamps'[q][l] = stamps[q][l]
        <3>1. TrueStamp(l, stamps[q][l]) => TrueStamp(l, stamps[q][l])'
            <4>1. PICK ix : ix = stamps[q][l]
                OBVIOUS
            <4>2. TrueStamp(l, ix) => TrueStamp(l, ix)'
                BY DEF StampsStay
            <4>3. ix = stamps'[q][l]
                BY <2>1, <4>1
            <4> QED
                BY <4>1, <4>2, <4>3 DEF TrueStamp, UpTo
        <3> QED
            BY <2>1, <3>1 DEF HeldTrue
    <2> QED
        BY <2>1 DEF HeldKept
<1>2. \/ runner'[q].lastJobStamp \in {NoStamp, 0}
      \/ TrueStamp(q, runner[q].lastJobStamp)'
      \/ ResetAfter(q, 0)'
    <2>1. CASE runner'[q].lastJobStamp = runner[q].lastJobStamp
        <3>1. TrueStamp(q, runner[q].lastJobStamp) => TrueStamp(q, runner[q].lastJobStamp)'
            <4>1. PICK ix : ix = runner[q].lastJobStamp
                OBVIOUS
            <4>2. TrueStamp(q, ix) => TrueStamp(q, ix)'
                BY DEF StampsStay
            <4>3. ix = runner'[q].lastJobStamp
                BY <2>1, <4>1
            <4> QED
                BY <4>1, <4>2, <4>3 DEF TrueStamp, UpTo
        <3> QED
            BY <2>1, <3>1 DEF HeldTrue
    <2> QED
        BY <2>1 DEF HeldKept
<1> QED
    BY <1>1, <1>2

\* What is set aside stays true.
LEMMA AsideTrue ==
    ASSUME StampInv, StampsStay, notifVector' = notifVector
    PROVE  \A i \in DOMAIN notifVector' : TrueNote(notifVector[i])'
<1> SUFFICES ASSUME NEW i \in DOMAIN notifVector'
             PROVE  TrueNote(notifVector[i])'
    OBVIOUS
<1>1. PICK m : m = notifVector[i]
    OBVIOUS
<1>2. TrueNote(m)' /\ m = notifVector'[i]
    BY <1>1, NotesStayTrue DEF StampInv, NotesTrue
<1> QED
    BY <1>2 DEF TrueNote, IsStamp, TrueStamp, UpTo

\* A thread that sends true stamps leaves what is on its way.
LEMMA SendsTrue ==
    ASSUME TypeOK, StampInv, StampsStay, HeldKept,
           NEW r \in LRT, NEW s, Sends(r, s), \A b \in DOMAIN s : TrueNote(s[b].note)',
           \A i \in DOMAIN notifVector' : TrueNote(notifVector[i])'
    PROVE  StampInv'
<1>1. /\ outbox'[r] = s /\ \A o \in LRT \ {r} : outbox'[o] = outbox[o]
      /\ queue' = queue /\ DOMAIN outbox[r] = {}
    BY DEF Sends, Ready, TypeOK, CommTypeOK
<1>2. \A q \in LRT : \A i : ResetAfter(q, i) => ResetAfter(q, i)'
    <2>1. GRTIx = r \/ outbox'[GRTIx] = outbox[GRTIx]
        BY <1>1, GRTAssumption
    <2> QED
        BY <1>1, <2>1 DEF ResetAfter, Resets
<1>3. HeldTrue'
    BY <1>2, HeldStays DEF StampInv
<1>4. ASSUME NEW q \in LRT, NEW i \in DOMAIN queue'[q]
      PROVE  TrueNote(queue[q][i])' \/ ResetAfter(q, i)'
    <2>1. PICK n : n = queue[q][i]
        OBVIOUS
    <2>2. n = queue'[q][i] /\ i \in DOMAIN queue[q]
        BY <1>1, <1>4, <2>1
    <2>3. TrueNote(n) \/ ResetAfter(q, i)
        BY <2>1, <2>2 DEF StampInv, NotesTrue
    <2>4. TrueNote(n)' \/ ResetAfter(q, i)'
        BY <1>2, <2>3, NotesStayTrue
    <2> QED
        BY <2>2, <2>4 DEF TrueNote, IsStamp, TrueStamp, UpTo
<1>5. ASSUME NEW o \in LRT, NEW b \in DOMAIN outbox'[o]
      PROVE  TrueNote(outbox[o][b].note)'
    <2>1. CASE o = r
        <3>1. PICK n : n = s[b].note
            OBVIOUS
        <3>2. TrueNote(n)' /\ n = outbox'[o][b].note
            BY <1>1, <1>5, <2>1, <3>1
        <3> QED
            BY <3>2 DEF TrueNote, IsStamp, TrueStamp, UpTo
    <2>2. CASE o # r
        <3>1. PICK n : n = outbox[o][b].note
            OBVIOUS
        <3>2. TrueNote(n) /\ n = outbox'[o][b].note
            BY <1>1, <1>5, <2>2, <3>1 DEF StampInv, NotesTrue
        <3>3. TrueNote(n)'
            BY <3>2, NotesStayTrue
        <3> QED
            BY <3>2, <3>3 DEF TrueNote, IsStamp, TrueStamp, UpTo
    <2> QED
        BY <2>1, <2>2
<1>6. NotesTrue'
    BY <1>4, <1>5 DEF NotesTrue
<1> QED
    BY <1>3, <1>6 DEF StampInv

\* A push keeps what is on its way: in an outbox, then at the end of a queue.
LEMMA PushResets ==
    ASSUME TypeOK, NEW p \in LRT, NEW e \in Endpoint, NEW shift \in {0, 1},
           PushedTo(p, e, shift), NEW q \in LRT, NEW i, i = 0 \/ i \in DOMAIN queue[q],
           ResetAfter(q, i)
    PROVE  ResetAfter(q, i)'
<1> DEFINE x == outbox[p][1].note
<1>1. /\ outbox[p] \in Seq(Batch) /\ outbox[p] # << >> /\ queue' = [queue EXCEPT ![e] = Append(@, x)]
      /\ \A o \in LRT \ {p} : outbox'[o] = outbox[o]
    BY DEF PushedTo, TypeOK, CommTypeOK
<1>2. /\ Len(outbox[p]) \in Nat \ {0} /\ DOMAIN outbox[p] = 1 .. Len(outbox[p])
      /\ x \in Notification
    <2>1. /\ Len(outbox[p]) \in Nat \ {0} /\ DOMAIN outbox[p] = 1 .. Len(outbox[p])
          /\ outbox[p][1] \in Batch
        BY <1>1, TailOf
    <2> QED
        BY <2>1 DEF Batch
<1> HIDE DEF x
<1>3. /\ DOMAIN queue[e] = 1 .. Len(queue[e]) /\ Len(queue[e]) \in Nat
      /\ DOMAIN queue'[e] = 1 .. Len(queue[e]) + 1
      /\ \A j \in DOMAIN queue[e] : queue'[e][j] = queue[e][j]
      /\ queue'[e][Len(queue[e]) + 1] = x
      /\ \A f \in Endpoint \ {e} : queue'[f] = queue[f]
    BY <1>1, <1>2, QueueAppended
<1>4. DOMAIN queue[q] \subseteq DOMAIN queue'[q] /\ q \in Endpoint
      /\ \A j \in DOMAIN queue[q] : queue'[q][j] = queue[q][j]
    <2>1. q \in Endpoint
        BY EndpointType
    <2>2. CASE q = e
        BY <1>3, <2>1, <2>2
    <2>3. CASE q # e
        BY <1>3, <2>1, <2>3
    <2> QED
        BY <2>1, <2>2, <2>3
<1>5. CASE \E j \in DOMAIN queue[q] : i < j /\ queue[q][j].type \in Resets
    BY <1>4, <1>5 DEF ResetAfter, Resets
<1>6. CASE \E b \in DOMAIN outbox[GRTIx] :
              q \in outbox[GRTIx][b].to /\ outbox[GRTIx][b].note.type \in Resets
    <2>1. PICK b \in DOMAIN outbox[GRTIx] :
              q \in outbox[GRTIx][b].to /\ outbox[GRTIx][b].note.type \in Resets
        BY <1>6
    <2>2. CASE GRTIx # p
        <3>1. outbox'[GRTIx] = outbox[GRTIx]
            BY <1>1, <2>2, GRTAssumption
        <3> QED
            BY <2>1, <3>1 DEF ResetAfter, Resets
    <2>3. CASE GRTIx = p /\ (b = 1 => q # e)
        <3>1. b \in 1 .. Len(outbox[p]) /\ (b = 1 => shift = 0)
            BY <1>2, <2>1, <2>3 DEF PushedTo
        <3>2. b - shift \in 1 .. Len(outbox[p]) - shift /\ b - shift + shift = b
            BY <1>2, <3>1
        <3>3. PICK c \in DOMAIN outbox'[p] : c + shift = b
            BY <3>2 DEF PushedTo
        <3>4. c \in 1 .. Len(outbox[p]) - shift
            BY <3>3 DEF PushedTo
        <3>5. /\ outbox'[p][c].note = outbox[p][b].note
              /\ outbox'[p][c].to = IF b = 1 THEN outbox[p][1].to \ {e} ELSE outbox[p][b].to
            BY <3>3, <3>4 DEF PushedTo
        <3>6. q \in outbox'[p][c].to
            BY <2>1, <2>3, <3>5
        <3> QED
            BY <2>1, <2>3, <3>3, <3>5, <3>6 DEF ResetAfter, Resets
    <2>4. CASE GRTIx = p /\ b = 1 /\ q = e
        <3>1. Len(queue[e]) + 1 \in DOMAIN queue'[e] /\ i < Len(queue[e]) + 1
            BY <1>3, <2>4
        <3>2. queue'[q][Len(queue[e]) + 1].type \in Resets
            BY <1>3, <2>1, <2>4 DEF x
        <3> QED
            BY <2>4, <3>1, <3>2 DEF ResetAfter, Resets
    <2> QED
        BY <2>2, <2>3, <2>4
<1> QED
    BY <1>5, <1>6 DEF ResetAfter

\* A push moves a true stamp.
LEMMA PushTrue ==
    ASSUME TypeOK, SentInOrder, StampInv, NEW p \in LRT, Push(p),
           UNCHANGED runnerVars, UNCHANGED grtVars
    PROVE  StampInv'
<1>1. /\ runner' = runner /\ stamps' = stamps /\ notifVector' = notifVector
      /\ UNCHANGED <<executing, context>> /\ done' = done
    BY DEF runnerVars, grtVars
<1>2. StampsStay
    BY <1>1, StampsStayTrue
<1>3. PICK e \in Endpoint, shift \in {0, 1} : PushedTo(p, e, shift)
    BY PushEffect
<1> DEFINE x == outbox[p][1].note
<1>4. /\ outbox[p] \in Seq(Batch) /\ outbox[p] # << >> /\ queue' = [queue EXCEPT ![e] = Append(@, x)]
      /\ \A o \in LRT \ {p} : outbox'[o] = outbox[o]
    BY <1>3 DEF PushedTo, TypeOK, CommTypeOK
<1>5. /\ Len(outbox[p]) \in Nat \ {0} /\ DOMAIN outbox[p] = 1 .. Len(outbox[p])
      /\ x \in Notification
    <2>1. /\ Len(outbox[p]) \in Nat \ {0} /\ DOMAIN outbox[p] = 1 .. Len(outbox[p])
          /\ outbox[p][1] \in Batch
        BY <1>4, TailOf
    <2> QED
        BY <2>1 DEF Batch
<1>6. TrueNote(x)
    <2>1. 1 \in DOMAIN outbox[p]
        BY <1>5
    <2> QED
        BY <2>1 DEF StampInv, NotesTrue
<1>7. PICK n : n = x
    OBVIOUS
<1> HIDE DEF x
<1>8. /\ DOMAIN queue[e] = 1 .. Len(queue[e]) /\ Len(queue[e]) \in Nat
      /\ DOMAIN queue'[e] = 1 .. Len(queue[e]) + 1
      /\ \A j \in DOMAIN queue[e] : queue'[e][j] = queue[e][j]
      /\ queue'[e][Len(queue[e]) + 1] = n
      /\ \A f \in Endpoint \ {e} : queue'[f] = queue[f]
    BY <1>4, <1>5, <1>7, QueueAppended
<1>9. TrueNote(n)'
    BY <1>2, <1>6, <1>7, NotesStayTrue
<1>10. HeldTrue'
    <2>1. HeldKept
        BY <1>1 DEF HeldKept
    <2>2. \A q \in LRT : ResetAfter(q, 0) => ResetAfter(q, 0)'
        BY <1>3, PushResets
    <2> QED
        BY <1>2, <2>1, <2>2, HeldStays DEF StampInv
<1>11. ASSUME NEW q \in LRT, NEW i \in DOMAIN queue'[q]
       PROVE  TrueNote(queue[q][i])' \/ ResetAfter(q, i)'
    <2>0. q \in Endpoint
        BY EndpointType
    <2>1. CASE i \in DOMAIN queue[q]
        <3>1. PICK m : m = queue[q][i]
            OBVIOUS
        <3>2. m = queue'[q][i]
            BY <1>8, <2>0, <2>1, <3>1
        <3>3. TrueNote(m) \/ ResetAfter(q, i)
            BY <2>1, <3>1 DEF StampInv, NotesTrue
        <3>4. TrueNote(m)' \/ ResetAfter(q, i)'
            BY <1>2, <1>3, <2>1, <3>3, NotesStayTrue, PushResets
        <3> QED
            BY <3>2, <3>4 DEF TrueNote, IsStamp, TrueStamp, UpTo
    <2>2. CASE i \notin DOMAIN queue[q]
        <3>1. q = e /\ queue'[q][i] = n
            BY <1>8, <1>11, <2>0, <2>2
        <3> QED
            BY <1>9, <3>1 DEF TrueNote, IsStamp, TrueStamp, UpTo
    <2> QED
        BY <2>1, <2>2
<1>12. ASSUME NEW o \in LRT, NEW b \in DOMAIN outbox'[o]
       PROVE  TrueNote(outbox[o][b].note)'
    <2>1. \E a \in DOMAIN outbox[o] : outbox'[o][b].note = outbox[o][a].note
        <3>1. CASE o = p
            <4>1. b \in 1 .. Len(outbox[p]) - shift
                BY <1>3, <1>12, <3>1 DEF PushedTo
            <4>2. b + shift \in 1 .. Len(outbox[p])
                BY <1>5, <4>1
            <4> QED
                BY <1>3, <1>5, <3>1, <4>1, <4>2 DEF PushedTo
        <3>2. CASE o # p
            BY <1>4, <1>12, <3>2
        <3> QED
            BY <3>1, <3>2
    <2>2. PICK a \in DOMAIN outbox[o] : outbox'[o][b].note = outbox[o][a].note
        BY <2>1
    <2>3. PICK m : m = outbox[o][a].note
        OBVIOUS
    <2>4. TrueNote(m)'
        BY <1>2, <2>3, NotesStayTrue DEF StampInv, NotesTrue
    <2> QED
        BY <2>2, <2>3, <2>4 DEF TrueNote, IsStamp, TrueStamp, UpTo
<1>13. \A i \in DOMAIN notifVector' : TrueNote(notifVector[i])'
    BY <1>1, <1>2, AsideTrue
<1>14. NotesTrue'
    BY <1>11, <1>12, <1>13 DEF NotesTrue
<1> QED
    BY <1>10, <1>14 DEF StampInv

\* Reading a queue brings the resets behind closer.
LEMMA PopResets ==
    ASSUME TypeOK, NEW e \in Endpoint, queue[e] # << >>,
           queue' = [queue EXCEPT ![e] = Tail(@)], outbox' = outbox, NEW q \in LRT
    PROVE  /\ q # e => \A i : ResetAfter(q, i) => ResetAfter(q, i)'
           /\ q = e => \A i \in Nat : ResetAfter(q, i + 1) => ResetAfter(q, i)'
           /\ Head(queue[e]).type \notin Resets /\ ResetAfter(q, 0) => ResetAfter(q, 0)'
<1>1. /\ DOMAIN queue[e] = 1 .. Len(queue[e]) /\ Len(queue[e]) \in Nat \ {0}
      /\ DOMAIN queue'[e] = 1 .. Len(queue[e]) - 1
      /\ \A i \in 1 .. Len(queue[e]) - 1 : queue'[e][i] = queue[e][i + 1]
      /\ Head(queue[e]) = queue[e][1]
      /\ \A f \in Endpoint \ {e} : queue'[f] = queue[f]
    BY QueuePopped
<1>2. q \in Endpoint
    BY EndpointType
<1>3. q # e => \A i : ResetAfter(q, i) => ResetAfter(q, i)'
    BY <1>1, <1>2 DEF ResetAfter, Resets
<1>4. ASSUME q = e, NEW i \in Nat, NEW j \in DOMAIN queue[e], i + 1 < j,
             queue[e][j].type \in Resets
      PROVE  ResetAfter(q, i)'
    <2>1. j - 1 \in DOMAIN queue'[e] /\ i < j - 1 /\ queue'[e][j - 1] = queue[e][j - 1 + 1]
          /\ j - 1 + 1 = j
        BY <1>1, <1>4
    <2>2. queue'[e][j - 1].type \in Resets
        BY <1>4, <2>1
    <2> QED
        BY <1>4, <2>1, <2>2 DEF ResetAfter, Resets
<1>5. q = e => \A i \in Nat : ResetAfter(q, i + 1) => ResetAfter(q, i)'
    BY <1>4 DEF ResetAfter, Resets
<1>6. ASSUME q = e, Head(queue[e]).type \notin Resets, ResetAfter(q, 0) PROVE ResetAfter(q, 0)'
    <2>1. ResetAfter(q, 0 + 1)
        <3>1. ASSUME NEW j \in DOMAIN queue[e], 0 < j, queue[e][j].type \in Resets
              PROVE  0 + 1 < j
            BY <1>1, <1>6, <3>1
        <3> QED
            BY <1>6, <3>1 DEF ResetAfter
    <2> QED
        BY <1>5, <1>6, <2>1
<1> QED
    BY <1>3, <1>5, <1>6

\* What is left on its way is true, when a notification is read.
LEMMA PopNotes ==
    ASSUME TypeOK, StampInv, StampsStay, NEW e \in Endpoint, queue[e] # << >>,
           queue' = [queue EXCEPT ![e] = Tail(@)], outbox' = outbox,
           \A i \in DOMAIN notifVector' : TrueNote(notifVector[i])'
    PROVE  NotesTrue'
<1>1. /\ DOMAIN queue[e] = 1 .. Len(queue[e]) /\ Len(queue[e]) \in Nat \ {0}
      /\ DOMAIN queue'[e] = 1 .. Len(queue[e]) - 1
      /\ \A i \in 1 .. Len(queue[e]) - 1 : queue'[e][i] = queue[e][i + 1]
      /\ \A f \in Endpoint \ {e} : queue'[f] = queue[f]
    BY QueuePopped
<1>2. ASSUME NEW q \in LRT, NEW i \in DOMAIN queue'[q]
      PROVE  TrueNote(queue[q][i])' \/ ResetAfter(q, i)'
    <2>0. q \in Endpoint
        BY EndpointType
    <2>1. CASE q # e
        <3>1. PICK m : m = queue[q][i]
            OBVIOUS
        <3>2. m = queue'[q][i] /\ i \in DOMAIN queue[q]
            BY <1>1, <1>2, <2>0, <2>1, <3>1
        <3>3. TrueNote(m) \/ ResetAfter(q, i)
            BY <3>1, <3>2 DEF StampInv, NotesTrue
        <3>4. TrueNote(m)' \/ ResetAfter(q, i)'
            BY <2>1, <3>3, NotesStayTrue, PopResets
        <3> QED
            BY <3>2, <3>4 DEF TrueNote, IsStamp, TrueStamp, UpTo
    <2>2. CASE q = e
        <3>1. i \in Nat /\ i + 1 \in DOMAIN queue[q]
            BY <1>1, <1>2, <2>2
        <3>2. PICK m : m = queue[q][i + 1]
            OBVIOUS
        <3>3. m = queue'[q][i]
            BY <1>1, <1>2, <2>2, <3>2
        <3>4. TrueNote(m) \/ ResetAfter(q, i + 1)
            BY <3>1, <3>2 DEF StampInv, NotesTrue
        <3>5. TrueNote(m)' \/ ResetAfter(q, i)'
            BY <2>2, <3>1, <3>4, NotesStayTrue, PopResets
        <3> QED
            BY <3>3, <3>5 DEF TrueNote, IsStamp, TrueStamp, UpTo
    <2> QED
        BY <2>1, <2>2
<1>3. ASSUME NEW o \in LRT, NEW b \in DOMAIN outbox'[o]
      PROVE  TrueNote(outbox[o][b].note)'
    <2>1. PICK m : m = outbox[o][b].note
        OBVIOUS
    <2>2. TrueNote(m)' /\ m = outbox'[o][b].note
        BY <1>3, <2>1, NotesStayTrue DEF StampInv, NotesTrue
    <2> QED
        BY <2>2 DEF TrueNote, IsStamp, TrueStamp, UpTo
<1> QED
    BY <1>2, <1>3 DEF NotesTrue

\* Reading anything but a reset leaves true what is on its way.
LEMMA PopTrue ==
    ASSUME TypeOK, StampInv, StampsStay, HeldKept, NEW e \in Endpoint, queue[e] # << >>,
           queue' = [queue EXCEPT ![e] = Tail(@)], outbox' = outbox,
           Head(queue[e]).type \notin Resets,
           \A i \in DOMAIN notifVector' : TrueNote(notifVector[i])'
    PROVE  StampInv'
<1>1. HeldTrue'
    <2>1. \A q \in LRT : ResetAfter(q, 0) => ResetAfter(q, 0)'
        BY PopResets
    <2> QED
        BY <2>1, HeldStays DEF StampInv
<1> QED
    BY <1>1, PopNotes DEF StampInv

\* A runner that reads anything but a reset keeps its stamps, or takes the one read.
LEMMA ReadOther ==
    ASSUME TypeOK, StampInv, UNCHANGED grtVars, NEW r \in LRT, NEW type,
           Received(r, type), type \notin Resets, HeldKept
    PROVE  StampInv'
<1>1. /\ queue[r] # << >> /\ queue' = [queue EXCEPT ![r] = Tail(@)]
      /\ Head(queue[r]).type = type /\ outbox' = outbox /\ done' = done
      /\ notifVector' = notifVector /\ UNCHANGED <<executing, context>> /\ r \in Endpoint
    BY EndpointType DEF Received, Pop, grtVars
<1>2. StampsStay
    BY <1>1, StampsStayTrue
<1>3. \A i \in DOMAIN notifVector' : TrueNote(notifVector[i])'
    BY <1>1, <1>2, AsideTrue
<1> QED
    BY <1>1, <1>2, <1>3, PopTrue

\* A runner that reads a reset forgets its stamps.
LEMMA ReadForgets ==
    ASSUME TypeOK, StampInv, UNCHANGED grtVars, NEW r \in LRT, NEW type,
           Received(r, type), Forgets(r),
           \A q \in LRT \ {r} : stamps'[q] = stamps[q] /\ runner'[q] = runner[q]
    PROVE  StampInv'
<1>1. /\ queue[r] # << >> /\ queue' = [queue EXCEPT ![r] = Tail(@)]
      /\ outbox' = outbox /\ done' = done
      /\ notifVector' = notifVector /\ UNCHANGED <<executing, context>> /\ r \in Endpoint
    BY EndpointType DEF Received, Pop, grtVars
<1>2. StampsStay
    BY <1>1, StampsStayTrue
<1>3. HeldTrue'
    <2>1. \A q \in LRT : Forgets(q) \/ (ResetAfter(q, 0) => ResetAfter(q, 0)')
        BY <1>1, PopResets
    <2>2. HeldKept
        BY DEF HeldKept
    <2> QED
        BY <1>2, <2>1, <2>2, HeldStays DEF StampInv
<1>4. \A i \in DOMAIN notifVector' : TrueNote(notifVector[i])'
    BY <1>1, <1>2, AsideTrue
<1> QED
    BY <1>1, <1>2, <1>3, <1>4, PopNotes DEF StampInv

-----------------------------------------------------------------------------
(* The steps of the runners                                                *)

\* A reset behind is coming.
LEMMA ResetIsComing ==
    ASSUME NEW r, NEW i, ResetAfter(r, i)
    PROVE  \E n \in Coming(r) : n.type \in Resets
<1>1. Resets \subseteq ControlType
    BY DEF ControlType
<1> QED
    BY <1>1, ComingOf DEF ResetAfter

\* A step that sends and reads nothing, and leaves the runners.
LEMMA NothingChangesTrue ==
    ASSUME StampInv, UNCHANGED <<commVars, runner, stamps, done, notifVector, executing>>,
           context' = context \/ ~executing
    PROVE  StampInv'
<1>1. /\ queue' = queue /\ outbox' = outbox /\ runner' = runner /\ stamps' = stamps
      /\ notifVector' = notifVector /\ done' = done /\ executing' = executing
    BY DEF commVars
<1>2. \A l, ix : TrueStamp(l, ix)' <=> TrueStamp(l, ix)
    BY <1>1 DEF TrueStamp, UpTo, TasksOf
<1>3. StampsStay /\ HeldKept
    BY <1>1, <1>2 DEF StampsStay, HeldKept
<1>4. HeldTrue'
    <2>1. \A q \in LRT : ResetAfter(q, 0) => ResetAfter(q, 0)'
        BY <1>1 DEF ResetAfter, Resets
    <2> QED
        BY <1>3, <2>1, HeldStays DEF StampInv
<1>5. \A n : TrueNote(n) => TrueNote(n)'
    BY <1>3, NotesStayTrue
<1>6. \A q \in LRT : \A i \in DOMAIN queue'[q] : TrueNote(queue[q][i])' \/ ResetAfter(q, i)'
    <2> TAKE q \in LRT
    <2> TAKE i \in DOMAIN queue'[q]
    <2>1. PICK n : n = queue[q][i]
        OBVIOUS
    <2>2. TrueNote(n)' \/ ResetAfter(q, i)
        BY <1>1, <1>5, <2>1 DEF StampInv, NotesTrue
    <2>3. n = queue'[q][i] /\ (ResetAfter(q, i) => ResetAfter(q, i)')
        BY <1>1, <2>1 DEF ResetAfter, Resets
    <2> QED
        BY <2>2, <2>3 DEF TrueNote, IsStamp, TrueStamp, UpTo
<1>7. \A o \in LRT : \A b \in DOMAIN outbox'[o] : TrueNote(outbox[o][b].note)'
    <2> TAKE o \in LRT
    <2> TAKE b \in DOMAIN outbox'[o]
    <2>1. PICK n : n = outbox[o][b].note
        OBVIOUS
    <2>2. TrueNote(n)' /\ n = outbox'[o][b].note
        BY <1>1, <1>5, <2>1 DEF StampInv, NotesTrue
    <2> QED
        BY <2>2 DEF TrueNote, IsStamp, TrueStamp, UpTo
<1> QED
    BY <1>1, <1>3, <1>4, <1>6, <1>7, AsideTrue DEF NotesTrue, StampInv

\* A runner reads its queue.
LEMMA ReadTrue ==
    ASSUME RoundInv, StampInv, UNCHANGED grtVars, NEW r \in LRT, ReadNotification(r)
    PROVE  StampInv'
<1>1. TypeOK /\ CommTypeOK /\ RunnerTypeOK
    BY DEF RoundInv, TypeOK
<1>2. CASE ReadReset(r) \/ ReadClear(r)
    <2>1. /\ stamps' = [stamps EXCEPT ![r] = NoStamps]
          /\ \/ runner' = [runner EXCEPT ![r] = Cleared(@)]
             \/ runner' = [runner EXCEPT ![r] = [Cleared(@) EXCEPT !.jobQueue = << >>]]
          /\ runner[r] \in RunnerState
        BY <1>1, <1>2 DEF ReadReset, ReadClear, RunnerTypeOK
    <2>2. runner'[r].lastJobStamp = NoStamp
        BY <1>1, <2>1 DEF RunnerTypeOK, Cleared, RunnerState
    <2>3. stamps'[r] = NoStamps
        BY <1>1, <2>1 DEF RunnerTypeOK
    <2>4. \A q \in LRT \ {r} : stamps'[q] = stamps[q] /\ runner'[q] = runner[q]
        BY <1>1, <2>1 DEF RunnerTypeOK
    <2>5. \E type : Received(r, type)
        BY <1>2 DEF ReadReset, ReadClear
    <2> QED
        BY <1>1, <2>2, <2>3, <2>4, <2>5, ReadForgets DEF Forgets
<1>3. CASE ReadJobStamp(r)
    <2> DEFINE note == Head(queue[r])
    <2>1. /\ Received(r, "JOB_UPDATE_JOBSTAMP") /\ note.type = "JOB_UPDATE_JOBSTAMP"
          /\ stamps' = UpdatedStamp(r, note.senderIx, note.notificationIx)
          /\ runner' = runner /\ queue[r] # << >> /\ queue' = [queue EXCEPT ![r] = Tail(@)]
          /\ outbox' = outbox /\ done' = done /\ UNCHANGED <<executing, context>>
          /\ r \in Endpoint
        BY <1>3, EndpointType DEF ReadJobStamp, Received, Pop, grtVars
    <2>2. note = queue[r][1] /\ 1 \in DOMAIN queue[r] /\ note \in Notification
        <3>1. /\ Head(queue[r]) = queue[r][1] /\ Head(queue[r]) \in Notification
              /\ DOMAIN queue[r] = 1 .. Len(queue[r]) /\ Len(queue[r]) \in Nat \ {0}
            BY <1>1, <2>1, QueuePopped
        <3>2. 1 \in DOMAIN queue[r]
            BY <3>1
        <3> QED
            BY <3>1, <3>2
    <2>3. PICK l, ix : l = note.senderIx /\ ix = note.notificationIx
        OBVIOUS
    <2>4. TrueStamp(l, ix) \/ ResetAfter(r, 1)
        BY <2>1, <2>2, <2>3 DEF StampInv, NotesTrue, TrueNote, IsStamp
    <2>5. TrueStamp(l, ix)' \/ ResetAfter(r, 0)'
        <3>1. StampsStay
            BY <2>1, StampsStayTrue
        <3>2. ResetAfter(r, 0 + 1) => ResetAfter(r, 0)'
            BY <1>1, <2>1, PopResets
        <3> QED
            BY <2>4, <3>1, <3>2 DEF StampsStay
    <2>6. /\ \A q \in LRT \ {r} : stamps'[q] = stamps[q]
          /\ \A k \in LRT \ {l} : stamps'[r][k] = stamps[r][k]
          /\ stamps'[r][l] = stamps[r][l] \/ stamps'[r][l] = ix
        BY <1>1, <2>1, <2>2, <2>3 DEF UpdatedStamp, RunnerTypeOK, Notification
    <2>7. HeldKept
        <3>1. TrueStamp(l, ix)' /\ stamps'[r][l] = ix => TrueStamp(l, stamps[r][l])'
            BY DEF TrueStamp, UpTo
        <3> QED
            BY <2>1, <2>5, <2>6, <3>1 DEF HeldKept
    <2>8. "JOB_UPDATE_JOBSTAMP" \notin Resets
        BY DEF Resets
    <2> QED
        BY <1>1, <2>1, <2>7, <2>8, ReadOther
<1>4. CASE \/ ReadStart(r) \/ ReadEnd(r) \/ ReadRepeat(r) \/ ReadStop(r)
           \/ ReadJobAdd(r) \/ ReadDelayBroadcast(r)
    <2>1. ReadStart(r) => runner[r].finished
        BY RoundProtocol DEF ProtocolRespected, ReadStart
    <2>2. /\ stamps' = stamps
          /\ \A q \in LRT : runner'[q].lastJobStamp = runner[q].lastJobStamp
        <3>1. stamps' = stamps
            BY <1>4 DEF ReadStart, ReadEnd, ReadRepeat, ReadStop, ReadJobAdd, ReadDelayBroadcast
        <3>2. ASSUME NEW q \in LRT PROVE runner'[q].lastJobStamp = runner[q].lastJobStamp
            <4>1. runner[q] \in RunnerState /\ runner \in [LRT -> RunnerState]
                BY <1>1 DEF RunnerTypeOK
            <4>2. CASE q = r
                BY <1>4, <2>1, <4>1, <4>2 DEF ReadStart, ReadEnd, ReadRepeat, ReadStop,
                   ReadJobAdd, ReadDelayBroadcast, RunnerState
            <4>3. CASE q # r
                BY <1>4, <2>1, <4>1, <4>3 DEF ReadStart, ReadEnd, ReadRepeat, ReadStop,
                   ReadJobAdd, ReadDelayBroadcast
            <4> QED
                BY <4>2, <4>3
        <3> QED
            BY <3>1, <3>2
    <2>3. \E type : Received(r, type) /\ type \notin Resets
        BY <1>4, <2>1 DEF ReadStart, ReadEnd, ReadRepeat, ReadStop, ReadJobAdd,
           ReadDelayBroadcast, Resets
    <2>4. HeldKept
        BY <2>2 DEF HeldKept
    <2> QED
        BY <1>1, <2>3, <2>4, ReadOther
<1> QED
    BY <1>2, <1>3, <1>4 DEF ReadNotification

\* Jobs of an LRT have different indices, in the order of their tasks.
LEMMA ExecIxIncreases ==
    ASSUME NEW s \in Task, NEW t \in Task,
           ContextOf[s] = ContextOf[t], MappedLRT[s] = MappedLRT[t], s < t
    PROVE  ExecIx[s] < ExecIx[t]
<1> DEFINE Earlier(u) == {v \in Task : /\ v < u
                                      /\ ContextOf[v] = ContextOf[u]
                                      /\ MappedLRT[v] = MappedLRT[u]}
<1>1. IsFiniteSet(Earlier(s)) /\ IsFiniteSet(Earlier(t))
    BY TaskAssumption, FS_Subset
<1>2. s \notin Earlier(s)
    BY TaskAssumption
<1>3. Earlier(s) \cup {s} \subseteq Earlier(t)
    <2>1. \A v \in Task : v < s => v < t
        BY TaskAssumption
    <2> QED
        BY <2>1
<1>4. ExecIx[s] = Cardinality(Earlier(s)) /\ ExecIx[t] = Cardinality(Earlier(t))
    BY DEF ExecIx, JobExecIx
<1> HIDE DEF Earlier
<1>5. Cardinality(Earlier(s) \cup {s}) = Cardinality(Earlier(s)) + 1
    BY <1>1, <1>2, FS_AddElement
<1>6. Cardinality(Earlier(s) \cup {s}) <= Cardinality(Earlier(t))
    BY <1>1, <1>3, FS_Subset
<1>7. Cardinality(Earlier(s)) \in Nat /\ Cardinality(Earlier(t)) \in Nat
    BY <1>1, FS_CardinalityType
<1> QED
    BY <1>4, <1>5, <1>6, <1>7

\* A job ends: its stamp is that of a runner that has executed all up to it.
LEMMA EndJobTrue ==
    ASSUME RoundInv, StampInv, UNCHANGED grtVars, NEW r \in LRT, EndJob(r)
    PROVE  StampInv'
<1>1. TypeOK /\ RunnerTypeOK /\ PhaseInv /\ JobsInv /\ SentInOrder
    BY DEF RoundInv, TypeOK
<1>2. PICK t \in Task, s \in Seq(Batch) : EndJobDoes(r, t, s)
    BY <1>1, EndJobEffect
<1>3. /\ t = CurrentJob(r) /\ done' = done \cup {t} /\ UNCHANGED <<executing, context>>
      /\ notifVector' = notifVector /\ queue' = queue
      /\ outbox' = [outbox EXCEPT ![r] = s] /\ pc[r] = "Kernel"
      /\ stamps' = UpdatedStamp(r, r, ExecIx[t])
      /\ runner'[r].lastJobStamp = ExecIx[t]
      /\ \A q \in LRT \ {r} : runner'[q] = runner[q]
    BY <1>1, <1>2 DEF EndJobDoes, EndJob, grtVars, RunnerTypeOK
<1>4. runner[r].start /\ runner[r].jobQueueCurrentPos < Len(runner[r].jobQueue)
    BY <1>1, <1>3 DEF PhaseInv, RunnerInPhase, RunnerTypeOK
<1>5. /\ t \in RoundJobs(r) /\ executing
      /\ \A u \in TasksOf(context) : MappedLRT[u] = r /\ u < t => u \in done
    BY <1>1, <1>3, <1>4, AtJob
<1>6. PICK ix : ix = ExecIx[t]
    OBVIOUS
<1>7. TrueStamp(r, ix)'
    <2>1. executing' /\ context' = context
        BY <1>3, <1>5
    <2>2. ASSUME NEW u \in TasksOf(context), MappedLRT[u] = r, ExecIx[u] <= ix
          PROVE  u \in done'
        <3>1. u \in Task /\ t \in Task /\ ContextOf[u] = ContextOf[t] /\ MappedLRT[t] = r
            BY <1>5 DEF TasksOf, RoundJobs, TasksOfRound
        <3>2. ~(t < u)
            <4>1. ExecIx[u] \in Nat /\ ExecIx[t] \in Nat
                BY <3>1, ExecIxType
            <4> QED
                BY <1>6, <2>2, <3>1, <4>1, ExecIxIncreases
        <3>3. u < t \/ u = t
            BY <3>1, <3>2, TaskAssumption
        <3> QED
            BY <1>3, <1>5, <2>2, <3>3
    <2> QED
        BY <2>1, <2>2 DEF TrueStamp, UpTo, TasksOf
<1>8. StampsStay
    BY <1>3, StampsStayTrue
<1>9. HeldKept
    <2>1. \A q \in LRT \ {r} : stamps'[q] = stamps[q]
        BY <1>1, <1>3 DEF UpdatedStamp, RunnerTypeOK
    <2>2. \A l \in LRT \ {r} : stamps'[r][l] = stamps[r][l]
        BY <1>1, <1>3 DEF UpdatedStamp, RunnerTypeOK
    <2>3. stamps'[r][r] = stamps[r][r] \/ stamps'[r][r] = ix
        BY <1>1, <1>3, <1>6 DEF UpdatedStamp, RunnerTypeOK
    <2>4. stamps'[r][r] = ix => TrueStamp(r, stamps[r][r])'
        BY <1>7 DEF TrueStamp, UpTo
    <2>5. TrueStamp(r, runner[r].lastJobStamp)'
        BY <1>3, <1>6, <1>7 DEF TrueStamp, UpTo
    <2> QED
        BY <1>3, <2>1, <2>2, <2>3, <2>4, <2>5 DEF HeldKept
<1>10. \A b \in DOMAIN s : TrueNote(s[b].note)'
    <2> SUFFICES ASSUME NEW b \in DOMAIN s PROVE TrueNote(s[b].note)'
        OBVIOUS
    <2>1. \/ s[b].note = Notify("JOB_UPDATE_JOBSTAMP", r, ix)
          \/ s[b].note = Notify("JOB_SENT_PARAM", r, t)
        BY <1>2, <1>6 DEF EndJobDoes
    <2> QED
        BY <1>7, <2>1 DEF TrueNote, IsStamp, Notify
<1> QED
    BY <1>1, <1>3, <1>8, <1>9, <1>10, AsideTrue, SendsTrue DEF Sends, SentInOrder, Ready

\* A runner closes the round: it has executed all of its tasks up to this round.
LEMMA ClosingTrue ==
    ASSUME NoLateStart, RoundInv, StampInv, NEW r \in LRT, NEW s \in Seq(Batch), Closes(r, s)
    PROVE  StampInv'
<1>1. TypeOK /\ RunnerTypeOK /\ PhaseInv /\ JobsInv /\ SentInOrder
    BY DEF RoundInv, TypeOK
<1>2. /\ pc[r] = "Finish" /\ Ready(r) /\ FinishedIteration(r)
      /\ runner' = [runner EXCEPT ![r] = Closed(runner[r])]
      /\ outbox' = [outbox EXCEPT ![r] = s]
      /\ UNCHANGED <<queue, stamps, done, notifVector, context, executing>>
    BY DEF Closes
<1>3. /\ Coming(r) = {} /\ executing /\ InRound /\ RoundJobs(r) \subseteq done
    BY <1>1, <1>2, ClosingRunner
<1>4. /\ {t \in TasksOf(context) : RoundOf[t] < round} \subseteq done
      /\ round \in Nat \ {0}
    BY <1>1, <1>3 DEF JobsInv, DoneInv, CallInv, TypeOK, GRTTypeOK
<1>5. ASSUME runner[r].lastJobStamp # NoStamp
      PROVE  TrueStamp(r, runner[r].lastJobStamp)
    <2>1. ~ResetAfter(r, 0)
        BY <1>3, ResetIsComing
    <2>2. CASE runner[r].lastJobStamp = 0
        <3>1. ASSUME NEW u \in TasksOf(context), MappedLRT[u] = r, ExecIx[u] <= 0
              PROVE  u \in done
            <4>1. u \in Task /\ ContextOf[u] = context
                BY <3>1 DEF TasksOf
            <4>2. PICK v \in TasksOfRound(context, 1) : MappedLRT[v] = r
                BY <3>1, <4>1 DEF NoLateStart
            <4>3. v \in Task /\ ContextOf[v] = context /\ RoundOf[v] = 1
                BY <4>2 DEF TasksOfRound, TasksOf
            <4>4. ~(v < u)
                <5>1. ExecIx[u] \in Nat /\ ExecIx[v] \in Nat
                    BY <4>1, <4>3, ExecIxType
                <5> QED
                    BY <3>1, <4>1, <4>2, <4>3, <5>1, ExecIxIncreases
            <4>5. RoundOf[u] <= 1
                BY <4>1, <4>3, <4>4, TaskAssumption
            <4>6. RoundOf[u] < round \/ RoundOf[u] = round
                BY <1>4, <4>1, <4>5, TaskAssumption
            <4> QED
                BY <1>3, <1>4, <3>1, <4>6 DEF RoundJobs, TasksOfRound
        <3> QED
            BY <1>3, <2>2, <3>1 DEF TrueStamp, UpTo
    <2>3. CASE runner[r].lastJobStamp # 0
        BY <1>5, <2>1, <2>3 DEF StampInv, HeldTrue
    <2> QED
        BY <2>2, <2>3
<1>6. StampsStay
    BY <1>2, StampsStayTrue
<1>7. HeldKept
    <2>1. runner[r] \in RunnerState
        BY <1>1 DEF RunnerTypeOK
    <2>2. runner'[r].lastJobStamp = runner[r].lastJobStamp
        BY <1>1, <1>2, <2>1 DEF RunnerTypeOK, Closed, RunnerState
    <2>3. \A q \in LRT \ {r} : runner'[q] = runner[q]
        BY <1>1, <1>2 DEF RunnerTypeOK
    <2> QED
        BY <1>2, <2>2, <2>3 DEF HeldKept
<1>8. \A b \in DOMAIN s : TrueNote(s[b].note)'
    <2> SUFFICES ASSUME NEW b \in DOMAIN s PROVE TrueNote(s[b].note)'
        OBVIOUS
    <2>1. \/ s[b].note = StampNote(r) /\ BroadcastTo(r) # {}
          \/ s[b].note = FinishedNote(r)
        BY DEF Closes, AreBatches
    <2>2. PICK ix : ix = runner[r].lastJobStamp
        OBVIOUS
    <2>3. CASE s[b].note = StampNote(r) /\ BroadcastTo(r) # {}
        <3>1. ix # NoStamp
            BY <2>2, <2>3 DEF BroadcastTo
        <3>2. TrueStamp(r, ix)'
            BY <1>5, <1>6, <2>2, <3>1 DEF StampsStay
        <3>3. s[b].note.senderIx = r /\ s[b].note.notificationIx = ix
            BY <2>2, <2>3 DEF StampNote, Notify
        <3> QED
            BY <3>2, <3>3 DEF TrueNote
    <2>4. CASE s[b].note = FinishedNote(r)
        BY <2>4 DEF TrueNote, IsStamp, FinishedNote, Notify
    <2> QED
        BY <2>1, <2>3, <2>4
<1> QED
    BY <1>1, <1>2, <1>6, <1>7, <1>8, AsideTrue, SendsTrue DEF Sends

-----------------------------------------------------------------------------
(* The steps of the GRT                                                    *)

\* s sends no stamp.
NoStampIn(s) == \A b \in DOMAIN s : ~IsStamp(s[b].note)

\* What the GRT broadcasts in one loop is not a stamp.
LEMMA NoStampSent ==
    /\ NoStampIn(<< >>)
    /\ \A R, n : ~IsStamp(n) => NoStampIn(ToEach(R, n))
<1>1. NoStampIn(<< >>)
    BY DEF NoStampIn
<1>2. ASSUME NEW R, NEW n, ~IsStamp(n) PROVE NoStampIn(ToEach(R, n))
    <2>1. CASE R = {}
        BY <1>1, <2>1, ToEachOf
    <2>2. CASE R # {}
        <3>1. ToEach(R, n) = <<[note |-> n, to |-> R]>>
            BY <2>2, ToEachOf
        <3> QED
            BY <1>2, <3>1 DEF NoStampIn
    <2> QED
        BY <2>1, <2>2
<1> QED
    BY <1>1, <1>2

\* Nor is what it broadcasts in two loops.
LEMMA NoTwoStampsSent ==
    ASSUME NEW R1 \in SUBSET Endpoint, NEW R2 \in SUBSET Endpoint,
           NEW n1 \in Notification, NEW n2 \in Notification,
           ~IsStamp(n1), ~IsStamp(n2)
    PROVE  NoStampIn(ToEach(R1, n1) \o ToEach(R2, n2))
<1> DEFINE s == ToEach(R1, n1) \o ToEach(R2, n2)
<1>1. AreBatches(s, R1, n1, R2, n2)
    BY TwoBatches
<1> HIDE DEF s
<1>2. ASSUME NEW b \in DOMAIN s PROVE s[b].note \in {n1, n2}
    BY <1>1 DEF AreBatches
<1>3. NoStampIn(s)
    BY <1>2 DEF NoStampIn
<1> QED
    BY <1>3 DEF s

\* The GRT broadcasts something else.
LEMMA GRTSendsTrue ==
    ASSUME TypeOK, StampInv, StampsStay, NEW label, NEW s, GRTGoes(label, s),
           NoStampIn(s), notifVector' = notifVector
    PROVE  StampInv'
<1>1. GRTIx \in LRT /\ Sends(GRTIx, s)
    BY GRTAssumption DEF Sends, GRTGoes
<1>2. HeldKept
    BY DEF HeldKept, GRTGoes
<1>3. \A b \in DOMAIN s : TrueNote(s[b].note)'
    <2> TAKE b \in DOMAIN s
    <2> QED
        BY DEF NoStampIn, TrueNote, IsStamp
<1> QED
    BY <1>1, <1>2, <1>3, AsideTrue, SendsTrue

\* Calls and returns of run() execute nothing.
LEMMA CallTrue ==
    ASSUME RoundInv, StampInv,
           (\E c \in Context : CallRun(c)) \/ RunReturns \/ Quit \/ Join \/ Interrupt
    PROVE  StampInv'
<1>1. TypeOK /\ GRTInPhase
    BY DEF RoundInv, PhaseInv
<1>2. ASSUME NEW type \in ControlType PROVE NoStampIn(ToAll(type))
    <2>1. ~IsStamp(Notify(type, GRTIx, NoStamp))
        BY <1>2 DEF IsStamp, Notify, ControlType, Resets
    <2> QED
        BY <2>1, NoStampSent DEF ToAll
<1>3. CASE \E c \in Context : CallRun(c)
    <2>1. pc[GRTIx] = "App"
        BY <1>3 DEF CallRun, At
    <2>2. ~executing
        BY <1>1, <2>1 DEF GRTInPhase, InRound, Launched
    <2> QED
        BY <1>3, <2>2, NothingChangesTrue DEF CallRun
<1>4. CASE RunReturns
    <2> DEFINE s == IF RunMode[context] = "LOOP" THEN ToAll("LRT_CLEAR_ITERATION") ELSE << >>
    <2>1. NoStampIn(s)
        BY <1>2, NoStampSent DEF ControlType, Resets
    <2>2. GRTGoes("App", s) /\ UNCHANGED <<done, executing, context, notifVector>>
        BY <1>4 DEF RunReturns, At, GoTo, GRTGoes, grtVars
    <2>3. StampsStay
        BY <2>2, StampsStayTrue
    <2> HIDE DEF s
    <2> QED
        BY <1>1, <2>1, <2>2, <2>3, GRTSendsTrue
<1>5. CASE Quit
    <2>1. NoStampIn(ToAll("LRT_STOP"))
        BY <1>2 DEF ControlType
    <2>2. GRTGoes("Join", ToAll("LRT_STOP")) /\ UNCHANGED <<done, executing, context, notifVector>>
        BY <1>5 DEF Quit, At, GoTo, GRTGoes, grtVars
    <2>3. StampsStay
        BY <2>2, StampsStayTrue
    <2> QED
        BY <1>1, <2>1, <2>2, <2>3, GRTSendsTrue
<1>6. CASE Join \/ Interrupt
    BY <1>6, NothingChangesTrue DEF Join, Interrupt, runnerVars, grtVars
<1> QED
    BY <1>3, <1>4, <1>5, <1>6

\* A round starts: no stamp was true between two executions.
LEMMA StartTrue ==
    ASSUME RoundInv, StampInv, Execute \/ NextRound
    PROVE  StampInv'
<1> DEFINE n1 == GRTNote("LRT_REPEAT_ITERATION_EN")
           n2 == GRTNote("LRT_START_ITERATION")
           R1 == IF context \in StaticContext /\ ~iter[context] THEN LRT ELSE {}
           s == ToEach(R1, n1) \o ToEach(LRT, n2)
<1>1. /\ n1 \in Notification /\ ~IsStamp(n1) /\ n2 \in Notification /\ ~IsStamp(n2)
      /\ R1 \in SUBSET Endpoint /\ LRT \in SUBSET Endpoint
    BY GRTNotes, EndpointType DEF ControlType, IsStamp
<1>2. GRTGoes("Launch", s) /\ notifVector' = notifVector
    <2>1. ToEach(R1, n1) = IF context \in StaticContext /\ ~iter[context]
                           THEN ToAll("LRT_REPEAT_ITERATION_EN") ELSE << >>
        BY ToEachOf DEF ToAll, GRTNote
    <2>2. ToEach(LRT, n2) = ToAll("LRT_START_ITERATION")
        BY DEF ToAll, GRTNote
    <2> HIDE DEF R1, n1, n2
    <2> QED
        BY <2>1, <2>2 DEF Execute, NextRound, At, StartRound, GRTGoes, GoTo
<1> HIDE DEF n1, n2, R1
<1>3. NoStampIn(s)
    BY <1>1, NoTwoStampsSent
<1>4. StampsStay
    <2>1. CASE Execute
        <3>1. pc[GRTIx] = "Execute" /\ GRTInPhase
            BY <2>1 DEF Execute, At, RoundInv, PhaseInv
        <3>2. ~executing
            BY <3>1 DEF GRTInPhase, InRound, Launched
        <3> QED
            BY <3>2, StampsStayTrue
    <2>2. CASE NextRound
        BY <2>2, StampsStayTrue DEF NextRound
    <2> QED
        BY <2>1, <2>2
<1> HIDE DEF s
<1> QED
    BY <1>2, <1>3, <1>4, GRTSendsTrue DEF RoundInv

\* The jobs of the round are sent, then its end.
LEMMA LaunchTrue ==
    ASSUME RoundInv, StampInv, (\E t \in Task : LaunchTask(t)) \/ EndLaunch
    PROVE  StampInv'
<1>1. TypeOK
    BY DEF RoundInv
<1>2. CASE \E t \in Task : LaunchTask(t)
    <2>1. PICK t \in Task : LaunchTask(t)
        BY <1>2
    <2> DEFINE m == Notify("JOB_ADD", GRTIx, t)
    <2>2. ~IsStamp(m)
        BY DEF Notify, IsStamp
    <2>3. /\ GRTGoes("Launch", ToEach({MappedLRT[t]}, m))
          /\ UNCHANGED <<done, executing, context, notifVector>>
        <3>1. pc' = [pc EXCEPT ![GRTIx] = "Launch"]
            BY <1>1, <2>1 DEF LaunchTask, At, runnerVars, TypeOK, RunnerTypeOK
        <3> QED
            BY <2>1, <3>1 DEF LaunchTask, At, runnerVars, GRTGoes
    <2> HIDE DEF m
    <2>4. NoStampIn(ToEach({MappedLRT[t]}, m)) /\ StampsStay
        BY <2>2, <2>3, NoStampSent, StampsStayTrue
    <2> QED
        BY <1>1, <2>3, <2>4, GRTSendsTrue
<1>3. CASE EndLaunch
    <2> DEFINE n1 == GRTNote("JOB_DELAY_BROADCAST_JOBSTAMP")
               n2 == GRTNote("LRT_END_ITERATION")
               R1 == IF IsStatic THEN {} ELSE LRT
               s == ToEach(R1, n1) \o ToEach(LRT, n2)
    <2>1. /\ n1 \in Notification /\ ~IsStamp(n1) /\ n2 \in Notification /\ ~IsStamp(n2)
          /\ R1 \in SUBSET Endpoint /\ LRT \in SUBSET Endpoint
        BY GRTNotes, EndpointType DEF ControlType, IsStamp
    <2>2. GRTGoes("Read", s) /\ UNCHANGED <<done, executing, context, notifVector>>
        <3>1. ToEach(R1, n1) = IF IsStatic THEN << >> ELSE ToAll("JOB_DELAY_BROADCAST_JOBSTAMP")
            BY ToEachOf DEF ToAll, GRTNote
        <3>2. ToEach(LRT, n2) = ToAll("LRT_END_ITERATION")
            BY DEF ToAll, GRTNote
        <3> HIDE DEF R1, n1, n2
        <3> QED
            BY <1>3, <3>1, <3>2 DEF EndLaunch, At, GoTo, GRTGoes, grtVars
    <2> HIDE DEF n1, n2, R1
    <2>3. NoStampIn(s) /\ StampsStay
        BY <2>1, <2>2, NoTwoStampsSent, StampsStayTrue
    <2> HIDE DEF s
    <2> QED
        BY <1>1, <2>2, <2>3, GRTSendsTrue
<1> QED
    BY <1>2, <1>3

\* Tokens and parameters are not stamps, and the GRT reads no reset at the barrier.
LEMMA GRTReadsTrue ==
    ASSUME RoundInv, StampInv, ReadFinished \/ ReadParam \/ \E i \in LRT : WaitFinished(i)
    PROVE  StampInv'
<1>1. PICK e \in Endpoint : /\ queue[e] # << >> /\ queue' = [queue EXCEPT ![e] = Tail(@)]
                            /\ Head(queue[e]).type \notin Resets
    BY EndpointType DEF ReadFinished, ReadParam, WaitFinished, Received, Pop, Resets
<1>2. /\ outbox' = outbox /\ runner' = runner /\ stamps' = stamps /\ notifVector' = notifVector
      /\ UNCHANGED <<done, executing, context>>
    BY DEF ReadFinished, ReadParam, WaitFinished, Received, runnerVars
<1>3. StampsStay /\ HeldKept
    BY <1>2, StampsStayTrue DEF HeldKept
<1>4. \A i \in DOMAIN notifVector' : TrueNote(notifVector[i])'
    BY <1>2, <1>3, AsideTrue
<1> QED
    BY <1>1, <1>2, <1>3, <1>4, PopTrue DEF RoundInv

\* What the GRT sets aside at the barrier is true: no reset is coming.
LEMMA SetAsideStampTrue ==
    ASSUME RoundInv, StampInv, SetAside
    PROVE  StampInv'
<1>1. TypeOK /\ GRTInPhase /\ GRTIx \in LRT /\ GRTIx \in Endpoint
    BY EndpointType, GRTAssumption DEF RoundInv, PhaseInv
<1>2. /\ pc[GRTIx] = "Wait" /\ queue[GRTIx] # << >>
      /\ queue' = [queue EXCEPT ![GRTIx] = Tail(@)]
      /\ notifVector' = Append(notifVector, Head(queue[GRTIx]))
      /\ outbox' = outbox /\ runner' = runner /\ stamps' = stamps
      /\ UNCHANGED <<done, executing, context>>
    BY DEF SetAside, At, runnerVars
<1>3. StampsStay /\ HeldKept
    BY <1>2, StampsStayTrue DEF HeldKept
<1>4. Coming(GRTIx) = {}
    BY <1>1, <1>2 DEF GRTInPhase
<1>5. PICK h : h = Head(queue[GRTIx])
    OBVIOUS
<1>6. h = queue[GRTIx][1] /\ 1 \in DOMAIN queue[GRTIx] /\ h \in Notification
    <2>1. /\ h = queue[GRTIx][1] /\ h \in Notification
          /\ DOMAIN queue[GRTIx] = 1 .. Len(queue[GRTIx]) /\ Len(queue[GRTIx]) \in Nat \ {0}
        BY <1>1, <1>2, <1>5, QueuePopped
    <2>2. 1 \in DOMAIN queue[GRTIx]
        BY <2>1
    <2> QED
        BY <2>1, <2>2
<1>7. h.type \notin Resets
    <2>1. h.type \in ControlType => h \in Coming(GRTIx)
        BY <1>6 DEF Coming, InQueue
    <2> QED
        BY <1>4, <2>1 DEF ControlType
<1>8. TrueNote(h)
    <2>1. ~ResetAfter(GRTIx, 1)
        BY <1>4, ResetIsComing
    <2> QED
        BY <1>1, <1>6, <2>1 DEF StampInv, NotesTrue
<1>9. \A i \in DOMAIN notifVector' : TrueNote(notifVector[i])'
    <2> SUFFICES ASSUME NEW i \in DOMAIN notifVector' PROVE TrueNote(notifVector[i])'
        OBVIOUS
    <2>1. \/ i \in DOMAIN notifVector /\ notifVector'[i] = notifVector[i]
          \/ notifVector'[i] = h
        BY <1>1, <1>2, <1>5, <1>6, AppendOf DEF TypeOK, GRTTypeOK
    <2>2. PICK m : m = notifVector'[i] /\ TrueNote(m)
        BY <1>8, <2>1 DEF StampInv, NotesTrue
    <2>3. TrueNote(m)'
        BY <1>3, <2>2, NotesStayTrue
    <2> QED
        BY <2>2, <2>3 DEF TrueNote, IsStamp, TrueStamp, UpTo
<1> QED
    BY <1>1, <1>2, <1>3, <1>5, <1>7, <1>9, PopTrue

\* It pushes them back as they are.
LEMMA EndWaitTrue ==
    ASSUME RoundInv, StampInv, EndWait
    PROVE  StampInv'
<1>0. PICK s : s = [i \in 1 .. Len(notifVector) |-> [note |-> notifVector[i], to |-> {GRTIx}]]
    OBVIOUS
<1>1. TypeOK /\ GRTIx \in LRT
    BY GRTAssumption DEF RoundInv
<1>2. /\ Sends(GRTIx, s) /\ runner' = runner /\ stamps' = stamps /\ notifVector' = << >>
      /\ UNCHANGED <<done, executing, context>>
    BY <1>0 DEF EndWait, At, Sends
<1>3. StampsStay /\ HeldKept
    BY <1>2, StampsStayTrue DEF HeldKept
<1>4. \A b \in DOMAIN s : TrueNote(s[b].note)'
    <2> SUFFICES ASSUME NEW b \in DOMAIN s PROVE TrueNote(s[b].note)'
        OBVIOUS
    <2>1. b \in DOMAIN notifVector
        BY <1>0, <1>1, LenProperties DEF TypeOK, GRTTypeOK
    <2>2. PICK m : m = notifVector[b]
        OBVIOUS
    <2>3. TrueNote(m)' /\ s[b].note = m
        BY <1>0, <1>3, <2>1, <2>2, NotesStayTrue DEF StampInv, NotesTrue
    <2> QED
        BY <2>3 DEF TrueNote, IsStamp, TrueStamp, UpTo
<1>5. \A i \in DOMAIN notifVector' : TrueNote(notifVector[i])'
    <2>1. DOMAIN notifVector' = {}
        BY <1>2
    <2> QED
        BY <2>1
<1> QED
    BY <1>1, <1>2, <1>3, <1>4, <1>5, SendsTrue

\* When execute() returns, every runner is to read a reset, and nobody else has
\* anything to push.
LEMMA EndExecuteTrue ==
    ASSUME RoundInv, StampInv, EndExecute
    PROVE  StampInv'
<1> DEFINE type == IF IsStatic THEN "LRT_RST_ITERATION" ELSE "LRT_CLEAR_ITERATION"
           m == GRTNote(type)
<1>1. TypeOK /\ PhaseInv /\ BarrierInv /\ GRTIx \in LRT
    BY GRTAssumption DEF RoundInv
<1>2. /\ pc[GRTIx] = "Params" /\ queue' = queue /\ notifVector' = notifVector
      /\ outbox' = [outbox EXCEPT ![GRTIx] = ToEach(LRT, m)]
    BY DEF EndExecute, At, ToAll, GRTNote
<1>3. m.type \in Resets /\ m.type # "JOB_UPDATE_JOBSTAMP"
    BY DEF GRTNote, Notify, Resets
<1>4. ToEach(LRT, m) = <<[note |-> m, to |-> LRT]>>
    BY <1>1, ToEachOf
<1> HIDE DEF type, m
<1>5. /\ DOMAIN outbox'[GRTIx] = {1} /\ outbox'[GRTIx][1].note = m
      /\ outbox'[GRTIx][1].to = LRT
    BY <1>1, <1>2, <1>4 DEF TypeOK, CommTypeOK
<1>6. \A q \in LRT : \A i : ResetAfter(q, i)'
    BY <1>3, <1>5 DEF ResetAfter, Resets
<1>7. ~InRound /\ pc[GRTIx] \notin Launched /\ notifVector = << >>
    BY <1>1, <1>2 DEF InRound, Launched, BarrierInv
<1>8. ASSUME NEW o \in LRT, o # GRTIx PROVE DOMAIN outbox'[o] = {}
    <2>1. ~runner[o].start
        BY <1>1, <1>7, BetweenRounds
    <2>2. ~Token(o)
        BY <1>1, <1>7 DEF BarrierInv, TokenAfter
    <2>3. outbox[o] = << >>
        BY <1>1, <1>8, <2>1, <2>2 DEF BarrierInv, TokenAfter, Token
    <2> QED
        BY <1>1, <1>2, <1>8, <2>3 DEF TypeOK, CommTypeOK
<1>9. \A o \in LRT : \A b \in DOMAIN outbox'[o] : TrueNote(outbox[o][b].note)'
    <2> SUFFICES ASSUME NEW o \in LRT, NEW b \in DOMAIN outbox'[o]
                 PROVE  TrueNote(outbox[o][b].note)'
        OBVIOUS
    <2>1. outbox'[o][b].note = m
        BY <1>5, <1>8
    <2> QED
        BY <1>3, <2>1 DEF TrueNote, IsStamp
<1>10. DOMAIN notifVector' = {}
    BY <1>2, <1>7
<1>11. NotesTrue'
    BY <1>6, <1>9, <1>10 DEF NotesTrue
<1>12. HeldTrue'
    BY <1>6 DEF HeldTrue
<1> QED
    BY <1>11, <1>12 DEF StampInv

-----------------------------------------------------------------------------
(* The invariant of the stamps                                             *)

\* No stamp is sent yet.
LEMMA InitStampInv == Init => StampInv
<1> SUFFICES ASSUME Init PROVE StampInv
    OBVIOUS
<1>1. /\ \A r \in LRT : /\ queue[r] = << >> /\ outbox[r] = << >>
                        /\ runner[r].lastJobStamp = 0
                        /\ \A l \in LRT : stamps[r][l] = NoStamp
      /\ notifVector = << >>
    BY EndpointType DEF Init, CommInit, InitialRunner, NoStamps
<1>2. NotesTrue
    BY <1>1 DEF NotesTrue
<1>3. HeldTrue
    BY <1>1 DEF HeldTrue
<1> QED
    BY <1>2, <1>3 DEF StampInv

\* Every step keeps the stamps true.
LEMMA NextStampInv ==
    ASSUME NoLateStart, RoundInv, StampInv, [Next]_vars
    PROVE  StampInv'
<1>1. TypeOK /\ SentInOrder /\ PhaseInv
    BY DEF RoundInv
<1>2. ASSUME NEW r \in LRT, RunnerStep(r), UNCHANGED grtVars PROVE StampInv'
    <2>1. CASE Push(r) /\ UNCHANGED runnerVars
        BY <1>1, <1>2, <2>1, PushTrue
    <2>2. CASE ReadNotification(r)
        BY <1>2, <2>2, ReadTrue
    <2>3. CASE NothingToRead(r) \/ StartJob(r) \/ WaitJob(r) \/ NoJob(r) \/ Continue(r)
        BY <1>2, <2>3, NothingChangesTrue
        DEF NothingToRead, StartJob, WaitJob, NoJob, Continue, grtVars
    <2>4. CASE EndJob(r)
        BY <1>2, <2>4, EndJobTrue
    <2>5. CASE FinishIteration(r)
        BY <1>1, <1>2, <2>5, FinishIterationCloses, ClosingTrue
    <2> QED
        BY <1>2, <2>1, <2>2, <2>3, <2>4, <2>5 DEF RunnerStep
<1>3. CASE GRTStep
    <2>1. CASE LeaveRun
        BY <1>1, <2>1, LeaveRunCloses, ClosingTrue, GRTAssumption
    <2>2. CASE RunReturns \/ Join
        BY <2>2, CallTrue
    <2>3. CASE Execute \/ NextRound
        BY <2>3, StartTrue
    <2>4. CASE (\E t \in Task : LaunchTask(t)) \/ EndLaunch
        BY <2>4, LaunchTrue
    <2>5. CASE ReadFinished \/ ReadParam \/ \E i \in LRT : WaitFinished(i)
        BY <2>5, GRTReadsTrue
    <2>6. CASE SetAside \/ EndWait \/ EndExecute
        BY <2>6, SetAsideStampTrue, EndWaitTrue, EndExecuteTrue
    <2> QED
        BY <1>3, <2>1, <2>2, <2>3, <2>4, <2>5, <2>6 DEF GRTStep
<1>4. CASE (\E c \in Context : CallRun(c)) \/ Quit \/ Interrupt
    BY <1>4, CallTrue
<1>5. CASE Terminated \/ UNCHANGED vars
    BY <1>5, NothingChangesTrue DEF Terminated, vars, runnerVars, grtVars
<1> QED
    BY <1>2, <1>3, <1>4, <1>5 DEF Next

\* A stamp that is held or on its way is true of this execution, or a reset is
\* behind it: JITMSRTRunner::updateJobStamp never keeps one of an earlier execution.
THEOREM StampInvariant ==
    ASSUME SupportedUse, NoLateStart
    PROVE  Spec => []StampInv
<1>1. Init => StampInv
    BY InitStampInv
<1>2. RoundInv /\ StampInv /\ [Next]_vars => StampInv'
    BY NextStampInv
<1>3. Spec => []RoundInv
    BY RoundInvariant
<1> QED
    BY <1>1, <1>2, <1>3, PTL DEF Spec

\* The stamps that an iterating runner compares with are true: no reset is coming.
LEMMA StampsAreSound == RoundInv /\ StampInv => StampsSound
<1> SUFFICES ASSUME RoundInv, StampInv, NEW r \in LRT, NEW l \in LRT, runner[r].start,
                    NEW t \in TasksOf(context), MappedLRT[t] = l, ExecIx[t] <= stamps[r][l]
             PROVE  t \in done
    BY DEF StampsSound
<1>1. ComingInPhase(r) /\ RunnerInPhase(r)
    BY DEF RoundInv, PhaseInv
<1>2. InRound
    BY <1>1 DEF RunnerInPhase
<1>3. ~ResetAfter(r, 0)
    <2>1. ASSUME NEW n \in Coming(r), n.type \in Resets PROVE FALSE
        <3>1. Expects(r, "LRT_START_ITERATION")
            BY <1>1, <1>2, <2>1 DEF ComingInPhase
        <3> QED
            BY <1>1, <3>1 DEF ComingInPhase, Expects
    <2> QED
        BY <2>1, ResetIsComing
<1>4. ExecIx[t] \in Nat
    BY ExecIxType DEF TasksOf
<1>5. stamps[r][l] # NoStamp
    BY <1>4 DEF NoStamp
<1>6. TrueStamp(l, stamps[r][l])
    BY <1>3, <1>5 DEF StampInv, HeldTrue
<1> QED
    BY <1>6 DEF TrueStamp, UpTo

-----------------------------------------------------------------------------
(* The execution of the dataflow graph                                     *)

\* A kernel runs a job of the round that is not done yet.
LEMMA InKernel ==
    ASSUME RoundInv, NEW r \in LRT, pc[r] = "Kernel"
    PROVE  /\ CurrentJob(r) \in RoundJobs(r) /\ CurrentJob(r) \notin done
           /\ executing /\ InRound
<1>1. TypeOK /\ PhaseInv /\ JobsInv
    BY DEF RoundInv
<1>2. runner[r].start /\ runner[r].jobQueueCurrentPos < Len(runner[r].jobQueue)
    BY <1>1 DEF PhaseInv, RunnerInPhase, TypeOK, RunnerTypeOK
<1> QED
    BY <1>1, <1>2, AtJob

\* So does the job that starts.
LEMMA AtStart ==
    ASSUME RoundInv, NEW r \in LRT, StartJob(r)
    PROVE  /\ CurrentJob(r) \in RoundJobs(r) /\ CurrentJob(r) \notin done
           /\ executing /\ pc[r] # "Kernel"
<1>1. TypeOK /\ PhaseInv /\ JobsInv
    BY DEF RoundInv
<1>2. runner[r].start /\ runner[r].jobQueueCurrentPos < Len(runner[r].jobQueue)
    <2>1. RunnerTypeOK
        BY <1>1 DEF TypeOK
    <2> QED
        BY <2>1, RunnerFields DEF StartJob, HasJob, RunnerTypeOK
<1> QED
    BY <1>1, <1>2, AtJob DEF StartJob

\* A runner's step leaves the members of the other runners.
LEMMA OthersKept ==
    ASSUME TypeOK, NEW q \in LRT, RunnerStep(q), NEW r \in LRT, r # q
    PROVE  runner'[r] = runner[r] /\ pc'[r] = pc[r]
<1>1. runner \in [LRT -> RunnerState] /\ pc \in [LRT -> RunnerPC \cup GRTPC]
    BY DEF TypeOK, RunnerTypeOK
<1>2. pc'[r] = pc[r]
    BY <1>1, RunnerStepMoves
<1>3. runner'[r] = runner[r]
    <2>1. CASE ReadNotification(q)
        BY <1>1, <2>1 DEF ReadNotification, ReadStart, ReadEnd, ReadClear, ReadReset,
           ReadRepeat, ReadStop, ReadJobAdd, ReadDelayBroadcast, ReadJobStamp
    <2>2. CASE \/ Push(q) /\ UNCHANGED runnerVars
               \/ NothingToRead(q) \/ StartJob(q) \/ WaitJob(q) \/ NoJob(q) \/ EndJob(q)
               \/ FinishIteration(q) \/ Continue(q)
        BY <1>1, <2>2 DEF runnerVars, NothingToRead, StartJob, WaitJob, NoJob, EndJob,
           FinishIteration, Continue
    <2> QED
        BY <2>1, <2>2 DEF RunnerStep
<1> QED
    BY <1>2, <1>3

\* The kernels that run go on running their jobs.
KernelsKept ==
    \A r \in LRT : /\ pc'[r] = "Kernel" <=> pc[r] = "Kernel"
                   /\ pc[r] = "Kernel" => runner'[r] = runner[r]

\* A step that the application does not see: it starts and ends no job.
Silent ==
    /\ KernelsKept
    /\ UNCHANGED <<done, executing>>
    /\ context' = context \/ ~executing

\* A step of a runner other than the start and the end of a job is silent.
LEMMA RunnerSilent ==
    ASSUME RoundInv, NEW q \in LRT, RunnerStep(q), UNCHANGED grtVars,
           ~StartJob(q), ~EndJob(q)
    PROVE  Silent
<1>1. TypeOK /\ SentInOrder /\ pc \in [LRT -> RunnerPC \cup GRTPC]
    BY DEF RoundInv, TypeOK, RunnerTypeOK
<1>2. /\ done' = done
      /\ \/ pc' = pc /\ runner' = runner
         \/ pc[q] # "Kernel" /\ pc'[q] # "Kernel"
    <2>1. CASE Push(q) /\ UNCHANGED runnerVars
        BY <2>1 DEF runnerVars
    <2>2. CASE ReadNotification(q)
        BY <1>1, <2>2 DEF ReadNotification, ReadStart, ReadEnd, ReadClear, ReadReset,
           ReadRepeat, ReadStop, ReadJobAdd, ReadDelayBroadcast, ReadJobStamp, Received,
           Reading
    <2>3. CASE NothingToRead(q) \/ WaitJob(q) \/ NoJob(q) \/ FinishIteration(q) \/ Continue(q)
        BY <1>1, <2>3 DEF NothingToRead, Reading, WaitJob, NoJob, FinishIteration, Continue
    <2> QED
        BY <2>1, <2>2, <2>3 DEF RunnerStep
<1>3. \A r \in LRT \ {q} : runner'[r] = runner[r] /\ pc'[r] = pc[r]
    BY <1>1, OthersKept
<1>4. KernelsKept
    BY <1>2, <1>3 DEF KernelsKept
<1> QED
    BY <1>2, <1>4 DEF Silent, grtVars

\* So are the steps of the GRT and of the application, but for execute().
LEMMA GRTSilent ==
    ASSUME RoundInv,
           \/ RunReturns \/ (\E t \in Task : LaunchTask(t)) \/ EndLaunch \/ LeaveRun
           \/ ReadFinished \/ (\E i \in LRT : WaitFinished(i))
           \/ SetAside \/ EndWait \/ ReadParam \/ NextRound \/ Join
           \/ (\E c \in Context : CallRun(c)) \/ Quit \/ Interrupt \/ Terminated
           \/ UNCHANGED vars
    PROVE  Silent
<1>1. /\ TypeOK /\ pc \in [LRT -> RunnerPC \cup GRTPC] /\ GRTIx \in LRT /\ GRTInPhase
      /\ runner \in [LRT -> RunnerState]
    BY GRTAssumption DEF RoundInv, PhaseInv, TypeOK, RunnerTypeOK
<1>2. CASE \/ RunReturns \/ EndLaunch \/ EndWait \/ NextRound \/ Join \/ Quit
           \/ \E c \in Context : CallRun(c)
    <2>1. /\ runner' = runner /\ UNCHANGED <<done, executing>>
          /\ pc[GRTIx] # "Kernel"
          /\ \E label : label # "Kernel" /\ pc' = [pc EXCEPT ![GRTIx] = label]
        BY <1>2 DEF RunReturns, EndLaunch, EndWait, NextRound, Join, Quit, CallRun, At,
           GoTo, StartRound, grtVars
    <2>2. KernelsKept
        BY <1>1, <2>1 DEF KernelsKept
    <2>3. context' = context \/ ~executing
        <3>1. CASE \E c \in Context : CallRun(c)
            BY <1>1, <3>1 DEF CallRun, At, GRTInPhase, InRound, Launched
        <3>2. CASE RunReturns \/ EndLaunch \/ EndWait \/ NextRound \/ Join \/ Quit
            BY <3>2 DEF RunReturns, EndLaunch, EndWait, NextRound, Join, Quit, grtVars
        <3> QED
            BY <1>2, <3>1, <3>2
    <2> QED
        BY <2>1, <2>2, <2>3 DEF Silent
<1>3. CASE LeaveRun
    <2>1. /\ pc[GRTIx] = "Finish" /\ pc' = [pc EXCEPT ![GRTIx] = "Wait"]
          /\ UNCHANGED <<done, executing, context>>
          /\ \A r \in LRT \ {GRTIx} : runner'[r] = runner[r]
        BY <1>1, <1>3 DEF LeaveRun, GoTo
    <2>2. KernelsKept
        BY <1>1, <2>1 DEF KernelsKept
    <2> QED
        BY <2>1, <2>2 DEF Silent
<1>4. CASE \/ ReadFinished \/ SetAside \/ ReadParam \/ Interrupt \/ Terminated
           \/ UNCHANGED vars \/ (\E i \in LRT : WaitFinished(i))
           \/ (\E t \in Task : LaunchTask(t))
    <2>1. UNCHANGED <<runner, pc, done, executing, context>>
        BY <1>4 DEF ReadFinished, Received, SetAside, ReadParam, Interrupt, Terminated, vars,
           WaitFinished, LaunchTask, runnerVars, grtVars
    <2> QED
        BY <2>1 DEF Silent, KernelsKept
<1> QED
    BY <1>2, <1>3, <1>4

\* The steps that are seen.
LEMMA StepKinds ==
    ASSUME RoundInv, [Next]_vars
    PROVE  \/ Execute \/ EndExecute \/ Silent
           \/ \E r \in LRT : (StartJob(r) \/ EndJob(r)) /\ UNCHANGED grtVars
<1>1. CASE \E r \in LRT : RunnerStep(r) /\ UNCHANGED grtVars
    BY <1>1, RunnerSilent
<1>2. CASE GRTStep \/ (\E c \in Context : CallRun(c)) \/ Quit \/ Interrupt
           \/ Terminated \/ UNCHANGED vars
    BY <1>2, GRTSilent DEF GRTStep
<1> QED
    BY <1>1, <1>2 DEF Next

\* No kernel runs when execute() starts or returns.
LEMMA NoKernel ==
    ASSUME RoundInv, Execute \/ EndExecute
    PROVE  /\ \A r \in LRT : pc[r] # "Kernel" /\ pc'[r] # "Kernel"
           /\ context \in Context /\ context # None /\ context' = context
<1>1. /\ TypeOK /\ pc \in [LRT -> RunnerPC \cup GRTPC] /\ GRTIx \in LRT /\ CallInv
      /\ pc[GRTIx] \in {"Execute", "Params"} /\ context' = context
      /\ \E label \in {"Launch", "Execute"} : pc' = [pc EXCEPT ![GRTIx] = label]
    BY GRTAssumption DEF RoundInv, JobsInv, TypeOK, RunnerTypeOK, Execute, EndExecute, At,
       StartRound, GoTo
<1>2. ~InRound
    BY <1>1 DEF InRound, Launched
<1>3. \A r \in LRT : pc[r] # "Kernel"
    BY <1>2, InKernel
<1>4. \A r \in LRT : pc'[r] # "Kernel"
    BY <1>1, <1>3
<1>5. context \in Context /\ context # None
    BY <1>1 DEF CallInv, TypeOK, GRTTypeOK
<1> QED
    BY <1>1, <1>3, <1>4, <1>5

\* A job that starts has its dependencies done.
LEMMA StartHasDeps ==
    ASSUME RoundInv, StampInv, NEW r \in LRT, StartJob(r)
    PROVE  Deps[CurrentJob(r)] \subseteq done
<1>1. TypeOK /\ StampsSound
    BY StampsAreSound DEF RoundInv
<1>2. ContextOf[CurrentJob(r)] = context
    BY AtStart DEF RoundJobs, TasksOfRound, TasksOf
<1> QED
    BY <1>1, <1>2, SoundStampsGivePrecedence

\* ... and goes on having them.
LEMMA NextPrecedence ==
    ASSUME RoundInv, StampInv, PrecedenceRespected, [Next]_vars
    PROVE  PrecedenceRespected'
<1>1. runner \in [LRT -> RunnerState] /\ pc \in [LRT -> RunnerPC \cup GRTPC] /\ TypeOK
    BY DEF RoundInv, TypeOK, RunnerTypeOK
<1> SUFFICES ASSUME NEW q \in LRT, pc'[q] = "Kernel"
             PROVE  Deps[CurrentJob(q)'] \subseteq done'
    BY DEF PrecedenceRespected
<1>2. CASE Execute \/ EndExecute
    BY <1>2, NoKernel
<1>3. CASE Silent
    BY <1>3 DEF Silent, KernelsKept, PrecedenceRespected, CurrentJob
<1>4. ASSUME NEW r \in LRT, StartJob(r), UNCHANGED grtVars
      PROVE  Deps[CurrentJob(q)'] \subseteq done'
    <2>1. /\ runner' = runner /\ done' = done
          /\ q # r => pc[q] = "Kernel"
        BY <1>1, <1>4 DEF StartJob
    <2> QED
        BY <1>4, <2>1, StartHasDeps DEF PrecedenceRespected, CurrentJob
<1>5. ASSUME NEW r \in LRT, EndJob(r), UNCHANGED grtVars
      PROVE  Deps[CurrentJob(q)'] \subseteq done'
    <2>1. q # r /\ done \subseteq done'
        BY <1>1, <1>5 DEF EndJob
    <2>2. runner'[q] = runner[q] /\ pc'[q] = pc[q]
        BY <1>1, <1>5, <2>1, OthersKept DEF RunnerStep
    <2> QED
        BY <2>1, <2>2 DEF PrecedenceRespected, CurrentJob
<1> QED
    BY <1>2, <1>3, <1>4, <1>5, StepKinds

\* Two kernels run different jobs.
LEMMA OwnJobs ==
    ASSUME RoundInv, NEW q \in LRT, NEW r \in LRT, q # r, pc[q] = "Kernel",
           pc[r] = "Kernel" \/ StartJob(r)
    PROVE  CurrentJob(q) # CurrentJob(r)
<1>1. CurrentJob(q) \in RoundJobs(q) /\ CurrentJob(r) \in RoundJobs(r)
    BY InKernel, AtStart
<1> QED
    BY <1>1 DEF RoundJobs

\* execute() starts with no kernel running.
LEMMA ExecuteRefines ==
    ASSUME RoundInv, Execute
    PROVE  Dataflow!Next
<1>1. /\ context \in Context /\ context' = context
      /\ \A r \in LRT : pc[r] # "Kernel" /\ pc'[r] # "Kernel"
    BY NoKernel
<1>2. executing' /\ done' = {}
    BY DEF Execute
<1>3. ~executing
    BY DEF Execute, At, RoundInv, PhaseInv, GRTInPhase, InRound, Launched
<1>4. Firing = {} /\ Firing' = {}
    BY <1>1 DEF Firing
<1>5. Dataflow!Execute(context)
    BY <1>1, <1>2, <1>3, <1>4 DEF Dataflow!Execute
<1> QED
    BY <1>1, <1>5 DEF Dataflow!Next

\* It returns when each task of the graph has been executed.
LEMMA EndExecuteRefines ==
    ASSUME RoundInv, EndExecute
    PROVE  Dataflow!Next
<1>1. /\ context # None /\ \A r \in LRT : pc[r] # "Kernel" /\ pc'[r] # "Kernel"
    BY NoKernel
<1>2. pc[GRTIx] = "Params" /\ round = Rounds[context] /\ ~executing' /\ done' = done
    BY DEF EndExecute, At
<1>3. executing /\ GRTInPhase /\ DoneInv
    BY <1>2 DEF RoundInv, PhaseInv, JobsInv, GRTInPhase
<1>4. done = TasksOf(context)
    <2>1. TasksOf(context) \subseteq done
        BY <1>2, RoundComplete DEF IterationComplete
    <2> QED
        BY <1>3, <2>1 DEF DoneInv
<1>5. Firing = {} /\ Firing' = {}
    BY <1>1 DEF Firing
<1>6. Dataflow!Return
    BY <1>1, <1>2, <1>3, <1>4, <1>5 DEF Dataflow!Return, TasksOf
<1> QED
    BY <1>6 DEF Dataflow!Next

\* A job that starts is a task of the round whose dependencies are done.
LEMMA JobStarts ==
    ASSUME RoundInv, StampInv, NEW r \in LRT, StartJob(r), UNCHANGED grtVars,
           NEW t, t = CurrentJob(r)
    PROVE  /\ t \in Task /\ t \in RoundJobs(r) /\ ContextOf[t] = context
           /\ t \notin done /\ t \notin Firing /\ Deps[t] \subseteq done
           /\ executing /\ Firing' = Firing \cup {t}
           /\ UNCHANGED <<runner, done, context, executing>>
<1>1. /\ t \in RoundJobs(r) /\ t \notin done /\ executing /\ pc[r] # "Kernel"
    BY AtStart
<1>2. t \in Task /\ ContextOf[t] = context
    BY <1>1 DEF RoundJobs, TasksOfRound, TasksOf
<1>3. t \notin Firing
    BY <1>1, OwnJobs DEF Firing
<1>4. Deps[t] \subseteq done
    BY StartHasDeps
<1>5. /\ runner' = runner /\ done' = done /\ pc' = [pc EXCEPT ![r] = "Kernel"]
      /\ pc \in [LRT -> RunnerPC \cup GRTPC] /\ UNCHANGED <<context, executing>>
    BY DEF StartJob, grtVars, RoundInv, TypeOK, RunnerTypeOK
<1>6. \A q : CurrentJob(q)' = CurrentJob(q)
    BY <1>5 DEF CurrentJob
<1>7. {q \in LRT : pc'[q] = "Kernel"} = {q \in LRT : pc[q] = "Kernel"} \cup {r}
    BY <1>5
<1>8. Firing' = Firing \cup {t}
    BY <1>6, <1>7 DEF Firing
<1> QED
    BY <1>1, <1>2, <1>3, <1>4, <1>5, <1>8

\* A job that ends is one that no other runner runs.
LEMMA JobEnds ==
    ASSUME RoundInv, NEW r \in LRT, EndJob(r), UNCHANGED grtVars,
           NEW t, t = CurrentJob(r)
    PROVE  /\ t \in Task /\ t \in RoundJobs(r) /\ pc[r] = "Kernel"
           /\ t \in Firing /\ t \notin done /\ executing
           /\ Firing' = Firing \ {t} /\ done' = done \cup {t}
           /\ UNCHANGED <<context, executing>>
<1>1. pc[r] = "Kernel" /\ done' = done \cup {t} /\ UNCHANGED <<context, executing>>
    BY DEF EndJob, grtVars
<1>2. t \in RoundJobs(r) /\ t \in Task /\ t \notin done /\ executing
    BY <1>1, InKernel DEF RoundJobs, TasksOfRound, TasksOf
<1>3. t \in Firing
    BY <1>1 DEF Firing
<1>4. pc' = [pc EXCEPT ![r] = "Finish"] /\ TypeOK /\ pc \in [LRT -> RunnerPC \cup GRTPC]
    BY DEF EndJob, RoundInv, TypeOK, RunnerTypeOK
<1>5. {q \in LRT : pc'[q] = "Kernel"} = {q \in LRT : pc[q] = "Kernel"} \ {r}
    BY <1>4
<1>6. \A q \in LRT \ {r} : CurrentJob(q)' = CurrentJob(q)
    <2> TAKE q \in LRT \ {r}
    <2>1. runner'[q] = runner[q]
        BY <1>4, OthersKept DEF RunnerStep
    <2> QED
        BY <2>1 DEF CurrentJob
<1>7. \A q \in LRT \ {r} : pc[q] = "Kernel" => CurrentJob(q) # t
    BY <1>1, OwnJobs
<1>8. Firing' = Firing \ {t}
    <2>1. Firing' = {CurrentJob(q)' : q \in {p \in LRT : pc'[p] = "Kernel"}}
        BY DEF Firing
    <2>2. Firing' = {CurrentJob(q) : q \in {p \in LRT : pc[p] = "Kernel"} \ {r}}
        BY <1>5, <1>6, <2>1
    <2>3. Firing = {CurrentJob(q) : q \in {p \in LRT : pc[p] = "Kernel"}}
        BY DEF Firing
    <2> QED
        BY <1>7, <2>2, <2>3
<1> QED
    BY <1>1, <1>2, <1>3, <1>8

\* A job that starts fires its task.
LEMMA StartJobRefines ==
    ASSUME RoundInv, StampInv, NEW r \in LRT, StartJob(r), UNCHANGED grtVars
    PROVE  Dataflow!Next
<1>1. PICK t : t = CurrentJob(r)
    OBVIOUS
<1>2. t \in Task /\ Dataflow!Fire(t)
    BY <1>1, JobStarts DEF Dataflow!Fire
<1> QED
    BY <1>2 DEF Dataflow!Next

\* A job that ends completes its task.
LEMMA EndJobRefines ==
    ASSUME RoundInv, NEW r \in LRT, EndJob(r), UNCHANGED grtVars
    PROVE  Dataflow!Next
<1>1. PICK t : t = CurrentJob(r)
    OBVIOUS
<1>2. t \in Task /\ Dataflow!Complete(t)
    BY <1>1, JobEnds DEF Dataflow!Complete
<1> QED
    BY <1>2 DEF Dataflow!Next

\* Every step of the runtime is one of the dataflow execution, or none.
LEMMA NextRefines ==
    ASSUME RoundInv, StampInv, [Next]_vars
    PROVE  [Dataflow!Next]_Dataflow!vars
<1>1. CASE Silent
    <2>1. \A q \in LRT : pc[q] = "Kernel" => CurrentJob(q)' = CurrentJob(q)
        BY <1>1 DEF Silent, KernelsKept, CurrentJob
    <2>2. {q \in LRT : pc'[q] = "Kernel"} = {q \in LRT : pc[q] = "Kernel"}
        BY <1>1 DEF Silent, KernelsKept
    <2>3. Firing' = Firing
        BY <2>1, <2>2 DEF Firing
    <2> QED
        BY <1>1, <2>3 DEF Silent, Dataflow!vars
<1> QED
    BY <1>1, StepKinds, ExecuteRefines, EndExecuteRefines, StartJobRefines, EndJobRefines

\* Before the first call nothing is active.
LEMMA InitRefines == Init => Dataflow!Init
<1> SUFFICES ASSUME Init PROVE Dataflow!Init
    OBVIOUS
<1>1. executing = FALSE /\ done = {} /\ \A r \in LRT : pc[r] # "Kernel"
    BY DEF Init
<1> QED
    BY <1>1 DEF Dataflow!Init, Firing

\* The stamps an iterating runner holds are never ahead of the LRTs they are about.
THEOREM StampsAlwaysSound ==
    ASSUME SupportedUse, NoLateStart
    PROVE  Spec => []StampsSound
BY RoundInvariant, StampInvariant, StampsAreSound, PTL

\* A job starts only when every task it depends on is done, whatever the mapping,
\* the number of LRTs and the interleaving of their threads.
THEOREM PrecedenceAlwaysRespected ==
    ASSUME SupportedUse, NoLateStart
    PROVE  Spec => []PrecedenceRespected
<1>1. Init => PrecedenceRespected
    BY DEF Init, PrecedenceRespected
<1>2. RoundInv /\ StampInv /\ PrecedenceRespected /\ [Next]_vars => PrecedenceRespected'
    BY NextPrecedence
<1> QED
    BY <1>1, <1>2, RoundInvariant, StampInvariant, PTL DEF Spec

\* The runtime implements the dataflow execution: each execute() fires each task
\* of its graph once, after the tasks it depends on, and returns after the last.
THEOREM RuntimeRefinesDataflow ==
    ASSUME SupportedUse, NoLateStart
    PROVE  Spec => DataflowSafety
<1>1. Init => Dataflow!Init
    BY InitRefines
<1>2. RoundInv /\ StampInv /\ [Next]_vars => [Dataflow!Next]_Dataflow!vars
    BY NextRefines
<1> QED
    BY <1>1, <1>2, RoundInvariant, StampInvariant, PTL DEF Spec, DataflowSafety

-----------------------------------------------------------------------------
(* The parameters                                                          *)

\* Nothing of s is for the queue of parameters.
ParamFree(s) == \A b \in DOMAIN s : ~IsParam(s[b].note) /\ ParamQueue \notin s[b].to

\* The queue of parameters is no runner's.
LEMMA ParamQueueApart ==
    ParamQueue \notin LRT /\ ParamQueue # GRTIx /\ ParamQueue \in Endpoint
BY TaskAssumption, EndpointType, GRTAssumption DEF ParamQueue, LRT

\* A thread sends nothing for the queue of parameters.
LEMMA SendsNoParam ==
    ASSUME TypeOK, ParamNotes, NEW r \in LRT, NEW s, Sends(r, s), ParamFree(s),
           \A i \in DOMAIN notifVector' : ~IsParam(notifVector'[i])
    PROVE  ParamNotes' /\ ParamSenders' = ParamSenders /\ queue' = queue
<1>1. /\ outbox'[r] = s /\ \A o \in LRT \ {r} : outbox'[o] = outbox[o]
      /\ queue' = queue /\ DOMAIN outbox[r] = {}
    BY DEF Sends, Ready, TypeOK, CommTypeOK
<1>2. \A o \in LRT : \A b \in DOMAIN outbox'[o] :
          IF IsParam(outbox'[o][b].note)
          THEN outbox'[o][b].to = {ParamQueue} /\ b = Len(outbox'[o])
          ELSE ParamQueue \notin outbox'[o][b].to
    BY <1>1 DEF ParamNotes, ParamFree
<1>3. ParamNotes'
    BY <1>1, <1>2 DEF ParamNotes, IsParam
<1>4. ParamSenders' = ParamSenders
    BY <1>1 DEF ParamSenders, ParamFree, IsParam
<1> QED
    BY <1>1, <1>3, <1>4

\* A runner, or the GRT for it, reads its queue.
LEMMA PopNoParam ==
    ASSUME TypeOK, ParamNotes, NEW e \in Endpoint, queue[e] # << >>,
           queue' = [queue EXCEPT ![e] = Tail(@)], outbox' = outbox,
           \A i \in DOMAIN notifVector' : ~IsParam(notifVector'[i])
    PROVE  ParamNotes' /\ ParamSenders' = ParamSenders
<1>1. /\ DOMAIN queue[e] = 1 .. Len(queue[e]) /\ Len(queue[e]) \in Nat \ {0}
      /\ DOMAIN queue'[e] = 1 .. Len(queue[e]) - 1
      /\ \A i \in 1 .. Len(queue[e]) - 1 : queue'[e][i] = queue[e][i + 1]
      /\ \A f \in Endpoint \ {e} : queue'[f] = queue[f]
    BY QueuePopped
<1>2. ASSUME NEW q \in LRT, NEW i \in DOMAIN queue'[q] PROVE ~IsParam(queue'[q][i])
    <2>1. q \in Endpoint
        BY EndpointType
    <2>2. CASE q = e
        <3>1. i \in 1 .. Len(queue[e]) - 1 /\ i + 1 \in DOMAIN queue[q]
            BY <1>1, <1>2, <2>2
        <3>2. queue'[q][i] = queue[q][i + 1]
            BY <1>1, <2>2, <3>1
        <3> QED
            BY <3>1, <3>2 DEF ParamNotes
    <2>3. CASE q # e
        BY <1>1, <1>2, <2>1, <2>3 DEF ParamNotes
    <2> QED
        BY <2>2, <2>3
<1>3. ParamNotes'
    BY <1>2 DEF ParamNotes, IsParam
<1>4. ParamSenders' = ParamSenders
    BY DEF ParamSenders, IsParam
<1> QED
    BY <1>3, <1>4

\* A step that sends and reads no parameter, ends no configuration task and
\* starts no round.
LEMMA ParamCountKept ==
    ASSUME ParamCount, queue'[ParamQueue] = queue[ParamQueue], ParamSenders' = ParamSenders,
           executing' = executing, readParam' = readParam, InRound' => InRound,
           executing => UNCHANGED <<context, round>> /\ ConfigTask \cap done' = ConfigTask \cap done
    PROVE  ParamCount'
<1>1. executing => (ConfigOfRound \cap done)' = ConfigOfRound \cap done
    <2> SUFFICES ASSUME executing PROVE ConfigOfRound' \cap done' = ConfigOfRound \cap done
        OBVIOUS
    <2>1. ConfigOfRound' = ConfigOfRound
        BY DEF ConfigOfRound, TasksOfRound, TasksOf
    <2> QED
        BY <2>1 DEF ConfigOfRound
<1> QED
    BY <1>1 DEF ParamCount

\* A runner's step leaves the phase of the GRT's.
LEMMA RunnerInRound ==
    ASSUME NEW r \in LRT, RunnerStep(r), TypeOK
    PROVE  InRound' => InRound
<1>1. pc \in [LRT -> RunnerPC \cup GRTPC] /\ GRTIx \in LRT
    BY GRTAssumption DEF TypeOK, RunnerTypeOK
<1>2. CASE pc' = pc
    BY <1>2 DEF InRound
<1>3. CASE /\ pc[r] \in {"Read", "Check", "Kernel", "Finish"}
           /\ \E label \in RunnerPC : pc' = [pc EXCEPT ![r] = label]
    BY <1>1, <1>3 DEF InRound, Launched
<1> QED
    BY <1>2, <1>3, RunnerStepMoves

\* A push delivers a message of parameters, or something else elsewhere.
LEMMA PushParams ==
    ASSUME TypeOK, SentInOrder, ParamInv, NEW p \in LRT, Push(p),
           UNCHANGED runnerVars, UNCHANGED grtVars
    PROVE  ParamInv'
<1>1. PICK e \in Endpoint, shift \in {0, 1} : PushedTo(p, e, shift)
    BY PushEffect
<1> DEFINE x == outbox[p][1].note
<1>2. /\ outbox[p] \in Seq(Batch) /\ outbox[p] # << >> /\ queue' = [queue EXCEPT ![e] = Append(@, x)]
      /\ \A o \in LRT \ {p} : outbox'[o] = outbox[o]
    BY <1>1 DEF PushedTo, TypeOK, CommTypeOK
<1>3. /\ Len(outbox[p]) \in Nat \ {0} /\ DOMAIN outbox[p] = 1 .. Len(outbox[p])
      /\ x \in Notification
    <2>1. /\ Len(outbox[p]) \in Nat \ {0} /\ DOMAIN outbox[p] = 1 .. Len(outbox[p])
          /\ outbox[p][1] \in Batch
        BY <1>2, TailOf
    <2> QED
        BY <2>1 DEF Batch
<1>4. 1 \in DOMAIN outbox[p]
    BY <1>3
<1>5. IF IsParam(x) THEN outbox[p][1].to = {ParamQueue} /\ 1 = Len(outbox[p])
                    ELSE ParamQueue \notin outbox[p][1].to
    BY <1>4 DEF ParamInv, ParamNotes
<1>6. /\ e = ParamQueue <=> IsParam(x)
      /\ IsParam(x) => shift = 1 /\ Len(outbox[p]) = 1
    BY <1>1, <1>5 DEF PushedTo
<1>7. PICK n : n = x
    OBVIOUS
<1> HIDE DEF x
<1>8. /\ DOMAIN queue[e] = 1 .. Len(queue[e]) /\ Len(queue[e]) \in Nat
      /\ DOMAIN queue'[e] = 1 .. Len(queue[e]) + 1
      /\ \A j \in DOMAIN queue[e] : queue'[e][j] = queue[e][j]
      /\ queue'[e][Len(queue[e]) + 1] = n
      /\ \A f \in Endpoint \ {e} : queue'[f] = queue[f]
    BY <1>2, <1>3, <1>7, QueueAppended
<1>9. ASSUME NEW q \in LRT, NEW i \in DOMAIN queue'[q] PROVE ~IsParam(queue'[q][i])
    <2>1. q \in Endpoint /\ q # ParamQueue
        BY EndpointType, ParamQueueApart
    <2>2. CASE i \in DOMAIN queue[q]
        <3>1. queue'[q][i] = queue[q][i]
            BY <1>8, <2>1, <2>2
        <3> QED
            BY <2>2, <3>1 DEF ParamInv, ParamNotes
    <2>3. CASE i \notin DOMAIN queue[q]
        <3>1. q = e /\ queue'[q][i] = n
            BY <1>8, <1>9, <2>1, <2>3
        <3> QED
            BY <1>6, <1>7, <2>1, <3>1
    <2> QED
        BY <2>2, <2>3
<1>10. ASSUME NEW b \in DOMAIN outbox'[p]
       PROVE  /\ b + shift \in DOMAIN outbox[p] /\ b \in 1 .. Len(outbox[p]) - shift
              /\ outbox'[p][b].note = outbox[p][b + shift].note
              /\ outbox'[p][b].to \subseteq outbox[p][b + shift].to
              /\ IsParam(outbox[p][b + shift].note) =>
                    outbox'[p][b].to = outbox[p][b + shift].to
    <2>1. b \in 1 .. Len(outbox[p]) - shift
        BY <1>1, <1>10 DEF PushedTo
    <2>2. b + shift \in DOMAIN outbox[p]
        BY <1>3, <2>1
    <2>3. /\ outbox'[p][b].note = outbox[p][b + shift].note
          /\ outbox'[p][b].to = IF b + shift = 1 THEN outbox[p][1].to \ {e}
                                ELSE outbox[p][b + shift].to
        BY <1>1, <2>1 DEF PushedTo
    <2>4. b + shift = 1 => shift = 0
        BY <2>1
    <2>5. b + shift = 1 => ~IsParam(outbox[p][1].note)
        BY <1>6, <2>4 DEF x
    <2> QED
        BY <2>1, <2>2, <2>3, <2>5
<1>11. ASSUME NEW o \in LRT, NEW b \in DOMAIN outbox'[o]
       PROVE  IF IsParam(outbox'[o][b].note)
              THEN outbox'[o][b].to = {ParamQueue} /\ b = Len(outbox'[o])
              ELSE ParamQueue \notin outbox'[o][b].to
    <2>1. CASE o # p
        BY <1>2, <1>11, <2>1 DEF ParamInv, ParamNotes
    <2>2. CASE o = p
        <3>1. IF IsParam(outbox[p][b + shift].note)
              THEN outbox[p][b + shift].to = {ParamQueue} /\ b + shift = Len(outbox[p])
              ELSE ParamQueue \notin outbox[p][b + shift].to
            BY <1>10, <1>11, <2>2 DEF ParamInv, ParamNotes
        <3>2. b + shift = Len(outbox[p]) => b = Len(outbox[p]) - shift
            BY <1>3, <1>10, <1>11, <2>2
        <3>3. Len(outbox'[p]) = Len(outbox[p]) - shift
            BY <1>1 DEF PushedTo
        <3> QED
            BY <1>10, <1>11, <2>2, <3>1, <3>2, <3>3
    <2> QED
        BY <2>1, <2>2
<1>12. ParamNotes'
    BY <1>9, <1>11 DEF ParamInv, ParamNotes, IsParam, grtVars
<1>13. /\ UNCHANGED <<executing, readParam, context, round>> /\ done' = done
       /\ InRound' <=> InRound
    BY DEF grtVars, runnerVars, InRound
<1>14. CASE ~IsParam(x)
    <2>1. queue'[ParamQueue] = queue[ParamQueue]
        BY <1>6, <1>8, <1>14, ParamQueueApart
    <2>2. (\E b \in DOMAIN outbox'[p] : IsParam(outbox'[p][b].note))
             <=> \E b \in DOMAIN outbox[p] : IsParam(outbox[p][b].note)
        <3>1. ASSUME NEW b \in DOMAIN outbox[p], IsParam(outbox[p][b].note)
              PROVE  \E c \in DOMAIN outbox'[p] : IsParam(outbox'[p][c].note)
            <4>1. b \in 1 .. Len(outbox[p]) /\ b # 1
                BY <1>3, <1>14, <3>1 DEF x
            <4>2. b - shift \in 1 .. Len(outbox[p]) - shift /\ b - shift + shift = b
                BY <1>3, <4>1
            <4>3. b - shift \in DOMAIN outbox'[p]
                BY <1>1, <4>2 DEF PushedTo
            <4>4. outbox'[p][b - shift].note = outbox[p][b].note
                BY <1>10, <4>2, <4>3
            <4> QED
                BY <3>1, <4>3, <4>4
        <3> QED
            BY <1>10, <3>1
    <2>3. ParamSenders' = ParamSenders
        BY <1>2, <2>2 DEF ParamSenders, IsParam
    <2> QED
        BY <1>12, <1>13, <2>1, <2>3, ParamCountKept DEF ParamInv
<1>15. CASE IsParam(x)
    <2>1. DOMAIN outbox'[p] = {}
        <3>1. DOMAIN outbox'[p] = 1 .. Len(outbox[p]) - shift /\ Len(outbox[p]) - shift = 0
            BY <1>1, <1>6, <1>15 DEF PushedTo
        <3> QED
            BY <3>1
    <2>2. p \in ParamSenders
        BY <1>4, <1>15 DEF ParamSenders, x
    <2>3. ParamSenders' = ParamSenders \ {p}
        BY <1>2, <2>1 DEF ParamSenders, IsParam
    <2>4. Cardinality(ParamSenders') = Cardinality(ParamSenders) - 1
          /\ Cardinality(ParamSenders) \in Nat
        <3>1. IsFiniteSet(ParamSenders)
            BY LRTFinite, FS_Subset DEF ParamSenders
        <3> QED
            BY <2>2, <2>3, <3>1, FS_RemoveElement, FS_CardinalityType
    <2>5. /\ Len(queue'[ParamQueue]) = Len(queue[ParamQueue]) + 1
          /\ Len(queue[ParamQueue]) \in Nat
        <3>1. queue[ParamQueue] \in Seq(Notification)
            BY ParamQueueApart DEF TypeOK, CommTypeOK
        <3>2. queue'[ParamQueue] = Append(queue[ParamQueue], x)
            BY <1>2, <1>6, <1>15, ParamQueueApart DEF TypeOK, CommTypeOK
        <3> QED
            BY <1>3, <3>1, <3>2, AppendProperties, LenProperties
    <2>6. executing
        BY <2>2 DEF ParamInv, ParamCount
    <2>7. ConfigOfRound' \cap done' = ConfigOfRound \cap done
        BY <1>13 DEF ConfigOfRound, TasksOfRound, TasksOf
    <2>8. readParam \in Nat
        BY DEF TypeOK, GRTTypeOK
    <2>9. Len(queue'[ParamQueue]) + Cardinality(ParamSenders') + readParam
              = Len(queue[ParamQueue]) + Cardinality(ParamSenders) + readParam
        BY <2>4, <2>5, <2>8
    <2>10. ParamCount'
        BY <1>13, <2>6, <2>7, <2>9 DEF ParamInv, ParamCount
    <2> QED
        BY <1>12, <2>10 DEF ParamInv
<1> QED
    BY <1>14, <1>15

\* A step that sends and reads nothing, and ends no job.
LEMMA NothingChangesParams ==
    ASSUME ParamInv, UNCHANGED <<queue, outbox, notifVector, executing, readParam>>,
           InRound' => InRound, executing => UNCHANGED <<context, round, done>>
    PROVE  ParamInv'
<1>1. ParamNotes' /\ ParamSenders' = ParamSenders
    BY DEF ParamInv, ParamNotes, ParamSenders, IsParam
<1> QED
    BY <1>1, ParamCountKept DEF ParamInv

\* A runner reads no parameter.
LEMMA ReadParams ==
    ASSUME RoundInv, ParamInv, NEW r \in LRT, ReadNotification(r), UNCHANGED grtVars
    PROVE  ParamInv'
<1>1. TypeOK /\ r \in Endpoint /\ r # ParamQueue /\ ParamNotes /\ ParamCount
    BY EndpointType, ParamQueueApart DEF RoundInv, ParamInv
<1>2. ReadStart(r) => runner[r].finished
    BY RoundProtocol DEF ProtocolRespected, ReadStart
<1>3. PICK type : Received(r, type)
    BY <1>2 DEF ReadNotification, ReadStart, ReadEnd, ReadClear, ReadReset, ReadRepeat,
       ReadStop, ReadJobAdd, ReadDelayBroadcast, ReadJobStamp
<1>4. /\ queue[r] # << >> /\ queue' = [queue EXCEPT ![r] = Tail(@)]
      /\ outbox' = outbox /\ done' = done
    BY <1>3 DEF Received, Pop
<1>5. /\ notifVector' = notifVector
      /\ UNCHANGED <<executing, readParam, context, round>>
    BY DEF grtVars
<1>6. \A i \in DOMAIN notifVector' : ~IsParam(notifVector'[i])
    BY <1>1, <1>5 DEF ParamNotes
<1>7. ParamNotes' /\ ParamSenders' = ParamSenders
    BY <1>1, <1>4, <1>6, PopNoParam
<1>8. queue'[ParamQueue] = queue[ParamQueue]
    BY <1>1, <1>4, ParamQueueApart DEF TypeOK, CommTypeOK
<1>9. InRound' => InRound
    BY <1>1, RunnerInRound DEF RunnerStep
<1>10. ParamCount'
    BY <1>1, <1>4, <1>5, <1>7, <1>8, <1>9, ParamCountKept
<1> QED
    BY <1>7, <1>10 DEF ParamInv

\* A job that ends sends its parameters, if it has some.
LEMMA EndJobParams ==
    ASSUME RoundInv, ParamInv, NEW r \in LRT, EndJob(r), UNCHANGED grtVars
    PROVE  ParamInv'
<1>1. TypeOK /\ SentInOrder /\ ParamNotes /\ ParamCount /\ r \in Endpoint
    BY EndpointType DEF RoundInv, ParamInv
<1>2. PICK t : t = CurrentJob(r)
    OBVIOUS
<1> DEFINE n1 == Notify("JOB_UPDATE_JOBSTAMP", r, ExecIx[t])
           n2 == Notify("JOB_SENT_PARAM", r, t)
           R1 == SynchronizationFlags[t] \ {r}
           R2 == IF t \in ConfigTask THEN {ParamQueue} ELSE {}
<1>3. pc[r] = "Kernel"
    BY DEF EndJob
<1>4. t \in RoundJobs(r) /\ t \notin done /\ executing /\ InRound /\ t \in Task
    BY <1>2, <1>3, InKernel DEF RoundJobs, TasksOfRound, TasksOf
<1>5. ExecIx[t] \in Nat /\ SynchronizationFlags[t] \subseteq LRT
    BY <1>4, ExecIxType
<1>6. /\ n1 \in Notification /\ n2 \in Notification /\ ~IsParam(n1) /\ IsParam(n2)
      /\ R1 \in SUBSET LRT /\ R1 \in SUBSET Endpoint /\ R2 \in SUBSET Endpoint
    <2>1. t \in Int /\ ExecIx[t] \in Int
        BY <1>4, <1>5, TaskType
    <2>2. n1 \in Notification /\ n2 \in Notification
        BY <1>4, <2>1, NotifyType DEF NotificationType
    <2>3. ~IsParam(n1) /\ IsParam(n2)
        BY DEF IsParam, Notify
    <2>4. R1 \in SUBSET LRT /\ R1 \in SUBSET Endpoint
        BY <1>5, EndpointType, Zenon
    <2>5. R2 \in SUBSET Endpoint
        BY ParamQueueApart
    <2> QED
        BY <2>2, <2>3, <2>4, <2>5
<1>7. PICK s : s = ToEach(R1, n1) \o ToEach(R2, n2)
    OBVIOUS
<1>8. /\ outbox' = [outbox EXCEPT ![r] = s] /\ queue' = queue /\ done' = done \cup {t}
      /\ notifVector' = notifVector
      /\ UNCHANGED <<executing, readParam, context, round>>
    BY <1>2, <1>7 DEF EndJob, grtVars
<1>9. R2 = {} <=> t \notin ConfigTask
    OBVIOUS
<1>10. R2 # {} => R2 = {ParamQueue}
    OBVIOUS
<1> HIDE DEF n1, n2, R1, R2
<1>11. AreBatches(s, R1, n1, R2, n2)
    BY <1>6, <1>7, TwoBatches
<1>12. DOMAIN s = 1 .. Len(s) /\ Len(s) \in Nat
    BY <1>11, LenProperties DEF AreBatches
<1>13. ASSUME NEW b \in DOMAIN s
       PROVE  IF IsParam(s[b].note) THEN s[b].to = {ParamQueue} /\ b = Len(s)
                                    ELSE ParamQueue \notin s[b].to
    <2>1. CASE s[b] = [note |-> n1, to |-> R1]
        <3>1. s[b].note = n1 /\ s[b].to = R1
            BY <2>1
        <3> QED
            BY <1>6, <3>1, ParamQueueApart
    <2>2. CASE s[b] = [note |-> n2, to |-> R2] /\ R2 # {}
        <3>1. s[b].note = n2 /\ s[b].to = R2
            BY <2>2
        <3>2. Len(s) \in DOMAIN s
            BY <1>11, <2>2 DEF AreBatches
        <3>3. ~(b < Len(s))
            <4>1. b < Len(s) => s[b] = [note |-> n1, to |-> R1]
                BY <1>11, <1>13, <3>2 DEF AreBatches
            <4>2. b < Len(s) => s[b].note = n1
                BY <4>1
            <4> QED
                BY <1>6, <3>1, <4>2
        <3>4. b = Len(s)
            BY <1>12, <1>13, <3>3
        <3> QED
            BY <1>6, <1>10, <2>2, <3>1, <3>4
    <2> QED
        BY <1>11, <2>1, <2>2 DEF AreBatches
<1>14. outbox'[r] = s /\ \A o \in LRT \ {r} : outbox'[o] = outbox[o]
    BY <1>1, <1>8 DEF TypeOK, CommTypeOK
<1>15. ParamNotes'
    <2>1. \A o \in LRT : \A b \in DOMAIN outbox'[o] :
              IF IsParam(outbox'[o][b].note)
              THEN outbox'[o][b].to = {ParamQueue} /\ b = Len(outbox'[o])
              ELSE ParamQueue \notin outbox'[o][b].to
        BY <1>1, <1>13, <1>14 DEF ParamNotes
    <2> QED
        BY <1>1, <1>8, <2>1 DEF ParamNotes, IsParam
<1>16. r \notin ParamSenders /\ \A o \in LRT \ {r} : o \in ParamSenders' <=> o \in ParamSenders
    <2>1. outbox[r] = << >>
        BY <1>1, <1>3 DEF SentInOrder, Ready
    <2> QED
        BY <1>14, <2>1 DEF ParamSenders, IsParam
<1>17. r \in ParamSenders' <=> t \in ConfigTask
    <2>1. ASSUME t \in ConfigTask PROVE \E b \in DOMAIN s : IsParam(s[b].note)
        <3>1. Len(s) \in DOMAIN s /\ s[Len(s)] = [note |-> n2, to |-> R2]
            BY <1>9, <1>11, <2>1 DEF AreBatches
        <3>2. s[Len(s)].note = n2
            BY <3>1
        <3> QED
            BY <1>6, <3>1, <3>2
    <2>2. ASSUME t \notin ConfigTask, NEW b \in DOMAIN s PROVE ~IsParam(s[b].note)
        <3>1. s[b] = [note |-> n1, to |-> R1]
            BY <1>9, <1>11, <2>2 DEF AreBatches
        <3>2. s[b].note = n1
            BY <3>1
        <3> QED
            BY <1>6, <3>2
    <2> QED
        BY <1>14, <2>1, <2>2 DEF ParamSenders, IsParam
<1>18. InRound' => InRound
    BY <1>4
<1>19. ConfigOfRound' = ConfigOfRound
    BY <1>8 DEF ConfigOfRound, TasksOfRound, TasksOf
<1>20. CASE t \notin ConfigTask
    <2>1. ParamSenders' = ParamSenders
        <3>1. ParamSenders' \subseteq LRT /\ ParamSenders \subseteq LRT
            BY DEF ParamSenders
        <3> QED
            BY <1>16, <1>17, <1>20, <3>1
    <2>2. ConfigTask \cap done' = ConfigTask \cap done
        BY <1>8, <1>20
    <2>3. ParamCount'
        BY <1>1, <1>8, <1>18, <2>1, <2>2, ParamCountKept
    <2> QED
        BY <1>15, <2>3 DEF ParamInv
<1>21. CASE t \in ConfigTask
    <2>1. ParamSenders' = ParamSenders \cup {r}
        <3>1. ParamSenders' \subseteq LRT /\ ParamSenders \subseteq LRT
            BY DEF ParamSenders
        <3> QED
            BY <1>16, <1>17, <1>21, <3>1
    <2>2. Cardinality(ParamSenders') = Cardinality(ParamSenders) + 1
          /\ Cardinality(ParamSenders) \in Nat
        <3>1. IsFiniteSet(ParamSenders)
            BY LRTFinite, FS_Subset DEF ParamSenders
        <3> QED
            BY <1>16, <2>1, <3>1, FS_AddElement, FS_CardinalityType
    <2>3. /\ Cardinality(ConfigOfRound' \cap done') = Cardinality(ConfigOfRound \cap done) + 1
          /\ Cardinality(ConfigOfRound \cap done) \in Nat
        <3>1. IsFiniteSet(ConfigOfRound \cap done)
            <4>1. ConfigOfRound \cap done \subseteq Task /\ IsFiniteSet(Task)
                BY TaskAssumption DEF ConfigOfRound, TasksOfRound, TasksOf
            <4> QED
                BY <4>1, FS_Subset
        <3>2. t \in ConfigOfRound
            BY <1>4, <1>21 DEF ConfigOfRound, RoundJobs
        <3>3. ConfigOfRound' \cap done' = (ConfigOfRound \cap done) \cup {t}
            BY <1>8, <1>19, <3>2
        <3>4. t \notin ConfigOfRound \cap done
            BY <1>4
        <3> QED
            BY <3>1, <3>3, <3>4, FS_AddElement, FS_CardinalityType
    <2>4. Len(queue[ParamQueue]) \in Nat /\ readParam \in Nat
        BY <1>1, Places, ParamQueueApart DEF TypeOK, GRTTypeOK
    <2>5. Len(queue'[ParamQueue]) + Cardinality(ParamSenders') + readParam'
              = Cardinality(ConfigOfRound' \cap done')
        <3>1. Len(queue[ParamQueue]) + Cardinality(ParamSenders) + readParam
                  = Cardinality(ConfigOfRound \cap done)
            BY <1>1, <1>4 DEF ParamCount
        <3> QED
            BY <1>8, <2>2, <2>3, <2>4, <3>1
    <2>6. executing' /\ (InRound' => readParam' = 0)
        BY <1>1, <1>4, <1>8 DEF ParamCount
    <2>7. ParamCount'
        BY <2>5, <2>6 DEF ParamCount
    <2> QED
        BY <1>15, <2>7 DEF ParamInv
<1> QED
    BY <1>20, <1>21

\* A runner that closes the round sends none.
LEMMA ClosingParams ==
    ASSUME TypeOK, ParamInv, NEW r \in LRT, NEW s \in Seq(Batch), Closes(r, s),
           readParam' = readParam
    PROVE  ParamInv'
<1>1. /\ Sends(r, s) /\ queue' = queue /\ done' = done /\ notifVector' = notifVector
      /\ UNCHANGED <<context, round, executing>>
      /\ pc[r] = "Finish" /\ pc' = [pc EXCEPT ![r] = IF r = GRTIx THEN "Wait" ELSE "Read"]
    BY DEF Closes, Sends
<1>2. ParamFree(s)
    <2> SUFFICES ASSUME NEW b \in DOMAIN s
                 PROVE  ~IsParam(s[b].note) /\ ParamQueue \notin s[b].to
        BY DEF ParamFree
    <2> DEFINE R2 == IF r = GRTIx THEN {} ELSE {GRTIx}
    <2>1. \/ s[b] = [note |-> StampNote(r), to |-> BroadcastTo(r)]
          \/ s[b] = [note |-> FinishedNote(r), to |-> R2]
        BY DEF Closes, AreBatches
    <2>2. ParamQueue \notin BroadcastTo(r) /\ ParamQueue \notin R2
        BY ParamQueueApart DEF BroadcastTo
    <2> HIDE DEF R2
    <2>3. \/ s[b].note = StampNote(r) /\ s[b].to = BroadcastTo(r)
          \/ s[b].note = FinishedNote(r) /\ s[b].to = R2
        BY <2>1
    <2>4. ~IsParam(StampNote(r)) /\ ~IsParam(FinishedNote(r))
        BY DEF IsParam, StampNote, FinishedNote, Notify
    <2> QED
        BY <2>2, <2>3, <2>4
<1>3. ParamNotes' /\ ParamSenders' = ParamSenders
    BY <1>1, <1>2, SendsNoParam DEF ParamInv, ParamNotes
<1>4. InRound' => InRound
    <2>1. pc \in [LRT -> RunnerPC \cup GRTPC] /\ GRTIx \in LRT
        BY GRTAssumption DEF TypeOK, RunnerTypeOK
    <2> QED
        BY <1>1, <2>1 DEF InRound, Launched
<1>5. ParamCount'
    BY <1>1, <1>3, <1>4, ParamCountKept DEF ParamInv
<1> QED
    BY <1>3, <1>5 DEF ParamInv

\* What the GRT broadcasts in one loop is no parameter.
LEMMA NoParamSent ==
    /\ ParamFree(<< >>)
    /\ \A R \in SUBSET LRT : \A n : ~IsParam(n) => ParamFree(ToEach(R, n))
<1>1. ParamFree(<< >>)
    BY DEF ParamFree
<1>2. ASSUME NEW R \in SUBSET LRT, NEW n, ~IsParam(n) PROVE ParamFree(ToEach(R, n))
    <2>1. CASE R = {}
        BY <1>1, <2>1, ToEachOf
    <2>2. CASE R # {}
        <3>1. ToEach(R, n) = <<[note |-> n, to |-> R]>> /\ ParamQueue \notin R
            BY <2>2, ToEachOf, ParamQueueApart
        <3> QED
            BY <1>2, <3>1 DEF ParamFree
    <2> QED
        BY <2>1, <2>2
<1> QED
    BY <1>1, <1>2

\* Nor is what it broadcasts in two loops.
LEMMA NoTwoParamsSent ==
    ASSUME NEW R1 \in SUBSET LRT, NEW R2 \in SUBSET LRT,
           NEW n1 \in Notification, NEW n2 \in Notification,
           ~IsParam(n1), ~IsParam(n2)
    PROVE  ParamFree(ToEach(R1, n1) \o ToEach(R2, n2))
<1> DEFINE s == ToEach(R1, n1) \o ToEach(R2, n2)
<1>0. R1 \in SUBSET Endpoint /\ R2 \in SUBSET Endpoint
    BY EndpointType
<1>1. AreBatches(s, R1, n1, R2, n2)
    BY <1>0, TwoBatches
<1> HIDE DEF s
<1>2. ASSUME NEW b \in DOMAIN s
      PROVE  s[b].note \in {n1, n2} /\ s[b].to \in {R1, R2}
    BY <1>1 DEF AreBatches
<1>3. ParamFree(s)
    BY <1>2, ParamQueueApart DEF ParamFree
<1> QED
    BY <1>3 DEF s

\* The GRT broadcasts something else.
LEMMA GRTSendsParams ==
    ASSUME TypeOK, ParamInv, NEW label, NEW s, GRTGoes(label, s), ParamFree(s),
           notifVector' = notifVector
    PROVE  ParamNotes' /\ ParamSenders' = ParamSenders /\ queue' = queue
<1>1. Sends(GRTIx, s) /\ GRTIx \in LRT
    BY GRTAssumption DEF GRTGoes, Sends
<1>2. \A i \in DOMAIN notifVector' : ~IsParam(notifVector'[i])
    BY DEF ParamInv, ParamNotes
<1> QED
    BY <1>1, <1>2, SendsNoParam DEF ParamInv

\* Calls and returns of run() send none.
LEMMA CallParams ==
    ASSUME RoundInv, ParamInv,
           (\E c \in Context : CallRun(c)) \/ RunReturns \/ Quit \/ Join \/ Interrupt
    PROVE  ParamInv'
<1>1. /\ TypeOK /\ GRTInPhase /\ GRTIx \in LRT
      /\ pc \in [LRT -> RunnerPC \cup GRTPC]
    BY GRTAssumption DEF RoundInv, PhaseInv, TypeOK, RunnerTypeOK
<1>2. ASSUME NEW type \in ControlType PROVE ParamFree(ToAll(type))
    <2>1. ~IsParam(Notify(type, GRTIx, NoStamp))
        BY <1>2 DEF IsParam, Notify, ControlType, Resets
    <2> QED
        BY <2>1, NoParamSent DEF ToAll
<1>3. CASE (\E c \in Context : CallRun(c)) \/ Join
    <2>1. /\ pc[GRTIx] \in {"App", "Join"}
          /\ \E label \in {"Execute", "Exited"} : pc' = [pc EXCEPT ![GRTIx] = label]
          /\ UNCHANGED <<queue, outbox, notifVector, executing, readParam>>
        BY <1>3 DEF CallRun, Join, At, GoTo, commVars, grtVars
    <2>2. ~executing /\ ~InRound'
        BY <1>1, <2>1 DEF GRTInPhase, InRound, Launched
    <2> QED
        BY <2>1, <2>2, NothingChangesParams
<1>4. CASE RunReturns \/ Quit
    <2>1. PICK label, s :
              /\ label \in {"App", "Join"}
              /\ GRTGoes(label, s) /\ ParamFree(s)
              /\ pc[GRTIx] \in {"App", "Execute"}
              /\ UNCHANGED <<notifVector, executing, readParam>>
        <3>1. CASE RunReturns
            <4> DEFINE s == IF RunMode[context] = "LOOP" THEN ToAll("LRT_CLEAR_ITERATION")
                            ELSE << >>
            <4>1. ParamFree(s)
                BY <1>2, NoParamSent DEF ControlType, Resets
            <4>2. /\ GRTGoes("App", s) /\ pc[GRTIx] = "Execute"
                  /\ UNCHANGED <<notifVector, executing, readParam>>
                BY <3>1 DEF RunReturns, At, GoTo, GRTGoes, grtVars
            <4> HIDE DEF s
            <4> QED
                BY <4>1, <4>2
        <3>2. CASE Quit
            <4>1. ParamFree(ToAll("LRT_STOP"))
                BY <1>2 DEF ControlType
            <4>2. /\ GRTGoes("Join", ToAll("LRT_STOP")) /\ pc[GRTIx] = "App"
                  /\ UNCHANGED <<notifVector, executing, readParam>>
                BY <3>2 DEF Quit, At, GoTo, GRTGoes, grtVars
            <4> QED
                BY <4>1, <4>2
        <3> QED
            BY <1>4, <3>1, <3>2
    <2>2. ParamNotes' /\ ParamSenders' = ParamSenders /\ queue' = queue
        BY <1>1, <2>1, GRTSendsParams
    <2>3. ~executing /\ ~InRound'
        BY <1>1, <2>1 DEF GRTInPhase, GRTGoes, InRound, Launched
    <2> QED
        BY <2>1, <2>2, <2>3, ParamCountKept DEF ParamInv
<1>5. CASE Interrupt
    <2>1. /\ UNCHANGED <<queue, outbox, notifVector, executing, readParam, context, round, done>>
          /\ pc' = pc
        BY <1>5 DEF Interrupt, commVars, runnerVars
    <2>2. InRound' <=> InRound
        BY <2>1 DEF InRound
    <2> QED
        BY <2>1, <2>2, NothingChangesParams
<1> QED
    BY <1>3, <1>4, <1>5

\* Each configuration task of a round is expected to send a message.
LEMMA OneMessageEach ==
    ASSUME OwnParams, context \in Context
    PROVE  Cardinality(ConfigOfRound) <= ExpectedParams
<1>1. \A t \in ConfigTask : ParamsSetBy[t] \subseteq Param /\ ParamsSetBy[t] # {}
    BY ContextAssumption
<1>2. ConfigOfRound \subseteq ConfigTask
    BY DEF ConfigOfRound
<1>3. ParamsOfRound = UNION {ParamsSetBy[t] : t \in ConfigOfRound}
    BY DEF ParamsOfRound, ConfigOfRound
<1>4. ParamsOfRound \subseteq Param /\ IsFiniteSet(ParamsOfRound)
    <2>1. ParamsOfRound \subseteq Param
        BY <1>1, <1>2, <1>3
    <2> QED
        BY <2>1, ContextAssumption, FS_Subset
<1> DEFINE one == [t \in ConfigOfRound |-> CHOOSE p \in ParamsSetBy[t] : TRUE]
<1>5. \A t \in ConfigOfRound : one[t] \in ParamsSetBy[t] /\ one[t] \in ParamsOfRound
    BY <1>1, <1>2, <1>3
<1>6. \A s, t \in ConfigOfRound : s # t =>
          \A p \in ParamsSetBy[s], q \in ParamsSetBy[t] :
              IF context \in SRDAGContext THEN RunGraphOf[p] # RunGraphOf[q] ELSE p # q
    BY DEF OwnParams, ConfigOfRound, TasksOfRound, TasksOf
<1>7. DOMAIN one = ConfigOfRound
    OBVIOUS
<1> HIDE DEF one
<1>8. CASE context \in SRDAGContext
    <2> DEFINE T == {RunGraphOf[p] : p \in ParamsOfRound}
               g == [p \in ParamsOfRound |-> RunGraphOf[p]]
               f == [t \in ConfigOfRound |-> RunGraphOf[one[t]]]
    <2>1. IsFiniteSet(T)
        <3>1. g \in Surjection(ParamsOfRound, T)
            BY DEF Surjection
        <3> HIDE DEF g, T
        <3> QED
            BY <1>4, <3>1, FS_Surjection
    <2>2. f \in [ConfigOfRound -> T]
        BY <1>5
    <2>3. \A s, t \in ConfigOfRound : f[s] = f[t] => s = t
        BY <1>5, <1>6, <1>8
    <2>4. DOMAIN f = ConfigOfRound
        OBVIOUS
    <2> HIDE DEF f, T
    <2>5. f \in Injection(ConfigOfRound, T)
        BY <2>2, <2>3, <2>4 DEF Injection, IsInjective
    <2>6. Cardinality(ConfigOfRound) <= Cardinality(T)
        BY <2>1, <2>5, FS_Injection
    <2> QED
        BY <1>8, <2>6 DEF ExpectedParams, T
<1>9. CASE context \notin SRDAGContext
    <2>1. one \in [ConfigOfRound -> ParamsOfRound]
        <3>1. one = [t \in ConfigOfRound |-> one[t]]
            BY DEF one
        <3> QED
            BY <1>5, <3>1
    <2>2. \A s, t \in ConfigOfRound : one[s] = one[t] => s = t
        BY <1>5, <1>6, <1>9
    <2>3. one \in Injection(ConfigOfRound, ParamsOfRound)
        BY <1>7, <2>1, <2>2 DEF Injection, IsInjective
    <2>4. Cardinality(ConfigOfRound) <= Cardinality(ParamsOfRound)
        BY <1>4, <2>3, FS_Injection
    <2> QED
        BY <1>9, <2>4 DEF ExpectedParams
<1> QED
    BY <1>8, <1>9

\* When the GRT has read what it expects, nothing is left.
LEMMA AllRead ==
    ASSUME OwnParams, RoundInv, ParamInv,
           pc[GRTIx] = "Params", readParam = ExpectedParams
    PROVE  queue[ParamQueue] = << >> /\ ParamSenders = {}
<1>1. TypeOK /\ GRTInPhase /\ DoneInv /\ CallInv
    BY DEF RoundInv, PhaseInv, JobsInv
<1>2. executing /\ TasksOfRound(context, round) \subseteq done
    BY <1>1 DEF GRTInPhase, DoneInv
<1>3. ConfigOfRound \cap done = ConfigOfRound
    BY <1>2 DEF ConfigOfRound
<1>4. context \in Context
    BY <1>1 DEF CallInv, TypeOK, GRTTypeOK
<1>5. Len(queue[ParamQueue]) + Cardinality(ParamSenders) + readParam <= readParam
    BY <1>2, <1>3, <1>4, OneMessageEach DEF ParamInv, ParamCount
<1>6. /\ queue[ParamQueue] \in Seq(Notification) /\ Len(queue[ParamQueue]) \in Nat
      /\ readParam \in Nat
    BY <1>1, Places, ParamQueueApart DEF TypeOK, GRTTypeOK
<1>7. IsFiniteSet(ParamSenders) /\ Cardinality(ParamSenders) \in Nat
    <2>1. IsFiniteSet(ParamSenders)
        BY LRTFinite, FS_Subset DEF ParamSenders
    <2> QED
        BY <2>1, FS_CardinalityType
<1>8. Len(queue[ParamQueue]) = 0 /\ Cardinality(ParamSenders) = 0
    BY <1>5, <1>6, <1>7
<1> QED
    BY <1>6, <1>7, <1>8, FS_EmptySet, EmptySeq

\* A round starts with no message left of the one before.
LEMMA StartParams ==
    ASSUME OwnParams, RoundInv, ParamInv, Execute \/ NextRound
    PROVE  ParamInv'
<1> DEFINE n1 == GRTNote("LRT_REPEAT_ITERATION_EN")
           n2 == GRTNote("LRT_START_ITERATION")
           R1 == IF context \in StaticContext /\ ~iter[context] THEN LRT ELSE {}
           s == ToEach(R1, n1) \o ToEach(LRT, n2)
<1>1. /\ n1 \in Notification /\ ~IsParam(n1) /\ n2 \in Notification /\ ~IsParam(n2)
      /\ R1 \in SUBSET LRT /\ LRT \in SUBSET LRT
    BY GRTNotes DEF ControlType, IsParam
<1>2. GRTGoes("Launch", s) /\ notifVector' = notifVector
    <2>1. ToEach(R1, n1) = IF context \in StaticContext /\ ~iter[context]
                           THEN ToAll("LRT_REPEAT_ITERATION_EN") ELSE << >>
        BY ToEachOf DEF ToAll, GRTNote
    <2>2. ToEach(LRT, n2) = ToAll("LRT_START_ITERATION")
        BY DEF ToAll, GRTNote
    <2> HIDE DEF R1, n1, n2
    <2> QED
        BY <2>1, <2>2 DEF Execute, NextRound, At, StartRound, GRTGoes, GoTo
<1> HIDE DEF n1, n2, R1
<1>3. ParamFree(s)
    BY <1>1, NoTwoParamsSent
<1> HIDE DEF s
<1>4. TypeOK /\ GRTInPhase /\ DoneInv /\ CallInv
    BY DEF RoundInv, PhaseInv, JobsInv
<1>5. ParamNotes' /\ ParamSenders' = ParamSenders /\ queue' = queue
    BY <1>2, <1>3, <1>4, GRTSendsParams
<1>6. /\ queue[ParamQueue] = << >> /\ ParamSenders = {}
      /\ executing' /\ readParam' = 0 /\ ConfigOfRound' \cap done' = {}
    <2>1. CASE Execute
        <3>1. ~executing
            BY <1>4, <2>1 DEF Execute, At, GRTInPhase, InRound, Launched
        <3> QED
            BY <2>1, <3>1 DEF Execute, StartRound, ParamInv, ParamCount
    <2>2. CASE NextRound
        <3>1. /\ pc[GRTIx] = "Params" /\ readParam = ExpectedParams /\ readParam' = 0
              /\ round' = round + 1 /\ done' = done /\ UNCHANGED <<executing, context>>
            BY <2>2 DEF NextRound, At, StartRound
        <3>2. executing /\ round \in Nat
            BY <1>4, <3>1 DEF GRTInPhase, TypeOK, GRTTypeOK
        <3>3. \A t \in done : RoundOf[t] <= round
            BY <1>4, <3>2 DEF DoneInv
        <3>4. ASSUME NEW t \in ConfigOfRound' \cap done' PROVE FALSE
            <4>1. t \in Task /\ RoundOf[t] = round + 1 /\ t \in done
                BY <3>1, <3>4 DEF ConfigOfRound, TasksOfRound, TasksOf
            <4>2. RoundOf[t] <= round
                BY <3>3, <4>1
            <4> QED
                BY <3>2, <4>1, <4>2
        <3> QED
            BY <3>1, <3>2, <3>4, AllRead
    <2> QED
        BY <2>1, <2>2
<1>7. ParamCount'
    <2>1. Len(queue'[ParamQueue]) = 0 /\ Cardinality(ParamSenders') = 0
          /\ Cardinality(ConfigOfRound' \cap done') = 0
        BY <1>5, <1>6, FS_EmptySet
    <2> QED
        BY <1>6, <2>1 DEF ParamCount
<1> QED
    BY <1>5, <1>7 DEF ParamInv

\* The jobs of the round are sent, then its end.
LEMMA LaunchParams ==
    ASSUME RoundInv, ParamInv, (\E t \in Task : LaunchTask(t)) \/ EndLaunch
    PROVE  ParamInv'
<1>1. TypeOK /\ InRound
    BY DEF RoundInv, LaunchTask, EndLaunch, At, InRound
<1>2. PICK label, s : /\ GRTGoes(label, s) /\ ParamFree(s)
                      /\ UNCHANGED <<done, executing, context, round, readParam, notifVector>>
    <2>1. CASE \E t \in Task : LaunchTask(t)
        <3>1. PICK t \in Task : LaunchTask(t)
            BY <2>1
        <3> DEFINE m == Notify("JOB_ADD", GRTIx, t)
        <3>2. ~IsParam(m)
            BY DEF Notify, IsParam
        <3>3. /\ GRTGoes("Launch", ToEach({MappedLRT[t]}, m))
              /\ UNCHANGED <<done, executing, context, round, readParam, notifVector>>
            <4>1. pc' = [pc EXCEPT ![GRTIx] = "Launch"]
                BY <1>1, <3>1 DEF LaunchTask, At, runnerVars, TypeOK, RunnerTypeOK
            <4> QED
                BY <3>1, <4>1 DEF LaunchTask, At, runnerVars, GRTGoes
        <3> HIDE DEF m
        <3>4. {MappedLRT[t]} \in SUBSET LRT
            BY MappingAssumption
        <3> QED
            BY <3>2, <3>3, <3>4, NoParamSent
    <2>2. CASE EndLaunch
        <3> DEFINE n1 == GRTNote("JOB_DELAY_BROADCAST_JOBSTAMP")
                   n2 == GRTNote("LRT_END_ITERATION")
                   R1 == IF IsStatic THEN {} ELSE LRT
                   s == ToEach(R1, n1) \o ToEach(LRT, n2)
        <3>1. /\ n1 \in Notification /\ ~IsParam(n1) /\ n2 \in Notification /\ ~IsParam(n2)
              /\ R1 \in SUBSET LRT /\ LRT \in SUBSET LRT
            BY GRTNotes DEF ControlType, IsParam
        <3>2. /\ GRTGoes("Read", s)
              /\ UNCHANGED <<done, executing, context, round, readParam, notifVector>>
            <4>1. ToEach(R1, n1) = IF IsStatic THEN << >> ELSE ToAll("JOB_DELAY_BROADCAST_JOBSTAMP")
                BY ToEachOf DEF ToAll, GRTNote
            <4>2. ToEach(LRT, n2) = ToAll("LRT_END_ITERATION")
                BY DEF ToAll, GRTNote
            <4> HIDE DEF R1, n1, n2
            <4> QED
                BY <2>2, <4>1, <4>2 DEF EndLaunch, At, GoTo, GRTGoes, grtVars
        <3> HIDE DEF n1, n2, R1
        <3>3. ParamFree(s)
            BY <3>1, NoTwoParamsSent
        <3> HIDE DEF s
        <3> QED
            BY <3>2, <3>3
    <2> QED
        BY <2>1, <2>2
<1>3. ParamNotes' /\ ParamSenders' = ParamSenders /\ queue' = queue
    BY <1>1, <1>2, GRTSendsParams
<1>4. ParamCount'
    BY <1>1, <1>2, <1>3, ParamCountKept DEF ParamInv
<1> QED
    BY <1>3, <1>4 DEF ParamInv

\* The GRT's own queue holds no parameter.
LEMMA GRTReadsParams ==
    ASSUME RoundInv, ParamInv,
           ReadFinished \/ SetAside \/ \E i \in LRT : WaitFinished(i)
    PROVE  ParamInv'
<1>1. TypeOK /\ GRTIx \in Endpoint /\ GRTIx \in LRT /\ ParamNotes /\ ParamCount
    BY EndpointType, GRTAssumption DEF RoundInv, ParamInv
<1>2. /\ queue[GRTIx] # << >> /\ queue' = [queue EXCEPT ![GRTIx] = Tail(@)]
      /\ outbox' = outbox /\ pc' = pc
      /\ UNCHANGED <<done, executing, context, round, readParam>>
      /\ notifVector' \in {notifVector, Append(notifVector, Head(queue[GRTIx]))}
    BY DEF ReadFinished, SetAside, WaitFinished, Received, Pop, runnerVars
<1>3. PICK h : h = Head(queue[GRTIx])
    OBVIOUS
<1>4. h \in Notification /\ ~IsParam(h)
    <2>1. /\ h = queue[GRTIx][1] /\ h \in Notification
          /\ DOMAIN queue[GRTIx] = 1 .. Len(queue[GRTIx]) /\ Len(queue[GRTIx]) \in Nat \ {0}
        BY <1>1, <1>2, <1>3, QueuePopped
    <2>2. 1 \in DOMAIN queue[GRTIx]
        BY <2>1
    <2> QED
        BY <1>1, <2>1, <2>2 DEF ParamNotes
<1>5. \A i \in DOMAIN notifVector' : ~IsParam(notifVector'[i])
    <2>1. CASE notifVector' = notifVector
        BY <1>1, <2>1 DEF ParamNotes
    <2>2. CASE notifVector' = Append(notifVector, h)
        <3> TAKE i \in DOMAIN notifVector'
        <3>1. \/ i \in DOMAIN notifVector /\ notifVector'[i] = notifVector[i]
              \/ notifVector'[i] = h
            BY <1>1, <1>4, <2>2, AppendOf DEF TypeOK, GRTTypeOK
        <3> QED
            BY <1>1, <1>4, <3>1 DEF ParamNotes
    <2> QED
        BY <1>2, <1>3, <2>1, <2>2
<1>6. ParamNotes' /\ ParamSenders' = ParamSenders
    BY <1>1, <1>2, <1>5, PopNoParam
<1>7. queue'[ParamQueue] = queue[ParamQueue] /\ (InRound' <=> InRound)
    BY <1>1, <1>2, ParamQueueApart DEF TypeOK, CommTypeOK, InRound
<1>8. ParamCount'
    BY <1>1, <1>2, <1>6, <1>7, ParamCountKept
<1> QED
    BY <1>6, <1>8 DEF ParamInv

\* Nor does what it has set aside.
LEMMA EndWaitParams ==
    ASSUME RoundInv, ParamInv, EndWait
    PROVE  ParamInv'
<1>1. PICK s : s = [i \in 1 .. Len(notifVector) |-> [note |-> notifVector[i], to |-> {GRTIx}]]
    OBVIOUS
<1>2. TypeOK /\ GRTIx \in LRT /\ ParamNotes /\ ParamCount
    BY GRTAssumption DEF RoundInv, ParamInv
<1>3. /\ Sends(GRTIx, s) /\ queue' = queue /\ notifVector' = << >>
      /\ UNCHANGED <<done, executing, context, round, readParam>>
      /\ pc' = [pc EXCEPT ![GRTIx] = "Params"]
    BY <1>1 DEF EndWait, At, Sends, GoTo
<1>4. ParamFree(s)
    <2> SUFFICES ASSUME NEW b \in DOMAIN s
                 PROVE  ~IsParam(s[b].note) /\ ParamQueue \notin s[b].to
        BY DEF ParamFree
    <2>1. b \in DOMAIN notifVector
        BY <1>1, <1>2, LenProperties DEF TypeOK, GRTTypeOK
    <2>2. s[b].note = notifVector[b] /\ s[b].to = {GRTIx}
        BY <1>1
    <2> QED
        BY <1>2, <2>1, <2>2, ParamQueueApart DEF ParamNotes
<1>5. \A i \in DOMAIN notifVector' : ~IsParam(notifVector'[i])
    <2>1. DOMAIN notifVector' = {}
        BY <1>3
    <2> QED
        BY <2>1
<1>6. ParamNotes' /\ ParamSenders' = ParamSenders
    BY <1>2, <1>3, <1>4, <1>5, SendsNoParam
<1>7. ~InRound'
    BY <1>2, <1>3 DEF InRound, Launched, TypeOK, RunnerTypeOK
<1>8. ParamCount'
    BY <1>2, <1>3, <1>6, <1>7, ParamCountKept
<1> QED
    BY <1>6, <1>8 DEF ParamInv

\* It counts each message that it reads.
LEMMA ReadParamParams ==
    ASSUME RoundInv, ParamInv, ReadParam
    PROVE  ParamInv'
<1>1. TypeOK /\ GRTInPhase /\ ParamNotes /\ ParamCount /\ ParamQueue \in Endpoint
    BY ParamQueueApart DEF RoundInv, PhaseInv, ParamInv
<1>2. /\ pc[GRTIx] = "Params" /\ pc' = pc
      /\ queue[ParamQueue] # << >> /\ queue' = [queue EXCEPT ![ParamQueue] = Tail(@)]
      /\ outbox' = outbox /\ notifVector' = notifVector /\ readParam' = readParam + 1
      /\ UNCHANGED <<done, executing, context, round>>
    BY DEF ReadParam, At, Pop, runnerVars
<1>3. executing /\ ~InRound'
    BY <1>1, <1>2 DEF GRTInPhase, InRound, Launched
<1>4. ParamNotes' /\ ParamSenders' = ParamSenders
    <2>1. \A i \in DOMAIN notifVector' : ~IsParam(notifVector'[i])
        BY <1>1, <1>2 DEF ParamNotes
    <2> QED
        BY <1>1, <1>2, <2>1, PopNoParam
<1>5. /\ Len(queue'[ParamQueue]) = Len(queue[ParamQueue]) - 1
      /\ Len(queue[ParamQueue]) \in Nat /\ readParam \in Nat
    <2>1. queue[ParamQueue] \in Seq(Notification) /\ queue'[ParamQueue] = Tail(queue[ParamQueue])
        BY <1>1, <1>2 DEF TypeOK, CommTypeOK
    <2>2. Len(queue[ParamQueue]) \in Nat /\ Len(Tail(queue[ParamQueue])) = Len(queue[ParamQueue]) - 1
        BY <1>2, <2>1, TailOf
    <2> QED
        BY <1>1, <2>1, <2>2 DEF TypeOK, GRTTypeOK
<1>6. Cardinality(ParamSenders) \in Nat
    <2>1. IsFiniteSet(ParamSenders)
        BY LRTFinite, FS_Subset DEF ParamSenders
    <2> QED
        BY <2>1, FS_CardinalityType
<1>7. ConfigOfRound' \cap done' = ConfigOfRound \cap done
    BY <1>2 DEF ConfigOfRound, TasksOfRound, TasksOf
<1>8. Len(queue'[ParamQueue]) + Cardinality(ParamSenders') + readParam'
          = Len(queue[ParamQueue]) + Cardinality(ParamSenders) + readParam
    BY <1>2, <1>4, <1>5, <1>6
<1>9. Len(queue'[ParamQueue]) + Cardinality(ParamSenders') + readParam'
          = Cardinality(ConfigOfRound' \cap done')
    BY <1>1, <1>3, <1>7, <1>8 DEF ParamCount
<1>10. ParamCount'
    BY <1>2, <1>3, <1>9 DEF ParamCount
<1> QED
    BY <1>4, <1>10 DEF ParamInv

\* Nothing is left when execute() returns.
LEMMA EndExecuteParams ==
    ASSUME OwnParams, RoundInv, ParamInv, EndExecute
    PROVE  ParamInv'
<1> DEFINE type == IF IsStatic THEN "LRT_RST_ITERATION" ELSE "LRT_CLEAR_ITERATION"
           m == GRTNote(type)
<1>1. TypeOK /\ GRTIx \in LRT /\ LRT \in SUBSET LRT
    BY GRTAssumption DEF RoundInv
<1>2. ToEach(LRT, m) = IF IsStatic THEN ToAll("LRT_RST_ITERATION")
                       ELSE ToAll("LRT_CLEAR_ITERATION")
    BY DEF ToAll, GRTNote
<1>3. ~IsParam(m)
    BY DEF GRTNote, Notify, IsParam
<1> HIDE DEF type, m
<1>4. /\ GRTGoes("Execute", ToEach(LRT, m)) /\ notifVector' = notifVector
      /\ pc[GRTIx] = "Params" /\ readParam = ExpectedParams /\ ~executing'
    BY <1>2 DEF EndExecute, At, GoTo, GRTGoes
<1>5. ParamNotes' /\ ParamSenders' = ParamSenders /\ queue' = queue
    <2>1. ParamFree(ToEach(LRT, m))
        BY <1>1, <1>3, NoParamSent
    <2> QED
        BY <1>1, <1>4, <2>1, GRTSendsParams
<1>6. queue[ParamQueue] = << >> /\ ParamSenders = {}
    BY <1>4, AllRead
<1>7. ~InRound'
    BY <1>1, <1>4 DEF GRTGoes, InRound, Launched, TypeOK, RunnerTypeOK
<1>8. ParamCount'
    BY <1>4, <1>5, <1>6, <1>7 DEF ParamCount
<1> QED
    BY <1>5, <1>8 DEF ParamInv

-----------------------------------------------------------------------------
(* The invariant of the parameters                                         *)

\* No message of parameters is sent yet.
LEMMA InitParamInv == Init => ParamInv
<1> SUFFICES ASSUME Init PROVE ParamInv
    OBVIOUS
<1>1. /\ \A r \in LRT : queue[r] = << >> /\ outbox[r] = << >>
      /\ queue[ParamQueue] = << >> /\ notifVector = << >> /\ readParam = 0 /\ executing = FALSE
    BY EndpointType, ParamQueueApart DEF Init, CommInit
<1>2. ParamSenders = {}
    BY <1>1 DEF ParamSenders
<1>3. ParamNotes
    BY <1>1 DEF ParamNotes
<1>4. ParamCount
    BY <1>1, <1>2 DEF ParamCount
<1> QED
    BY <1>3, <1>4 DEF ParamInv

\* Every step keeps the count.
LEMMA NextParamInv ==
    ASSUME OwnParams, RoundInv, ParamInv, [Next]_vars
    PROVE  ParamInv'
<1>1. TypeOK /\ SentInOrder
    BY DEF RoundInv
<1>2. ASSUME NEW r \in LRT, RunnerStep(r), UNCHANGED grtVars PROVE ParamInv'
    <2>1. CASE Push(r) /\ UNCHANGED runnerVars
        BY <1>1, <1>2, <2>1, PushParams
    <2>2. CASE ReadNotification(r)
        BY <1>2, <2>2, ReadParams
    <2>3. CASE NothingToRead(r) \/ StartJob(r) \/ WaitJob(r) \/ NoJob(r) \/ Continue(r)
        <3>1. /\ UNCHANGED <<queue, outbox, notifVector, executing, readParam>>
              /\ UNCHANGED <<context, round, done>>
            BY <1>2, <2>3
            DEF NothingToRead, StartJob, WaitJob, NoJob, Continue, grtVars, commVars
        <3>2. InRound' => InRound
            BY <1>1, <1>2, RunnerInRound
        <3> QED
            BY <3>1, <3>2, NothingChangesParams
    <2>4. CASE EndJob(r)
        BY <1>2, <2>4, EndJobParams
    <2>5. CASE FinishIteration(r)
        <3>1. readParam' = readParam
            BY <1>2 DEF grtVars
        <3> QED
            BY <1>1, <1>2, <2>5, <3>1, FinishIterationCloses, ClosingParams
    <2> QED
        BY <1>2, <2>1, <2>2, <2>3, <2>4, <2>5 DEF RunnerStep
<1>3. CASE GRTStep
    <2>1. CASE LeaveRun
        <3>1. readParam' = readParam
            BY <2>1 DEF LeaveRun
        <3> QED
            BY <1>1, <2>1, <3>1, LeaveRunCloses, ClosingParams, GRTAssumption
    <2>2. CASE RunReturns \/ Join
        BY <2>2, CallParams
    <2>3. CASE Execute \/ NextRound
        BY <2>3, StartParams
    <2>4. CASE (\E t \in Task : LaunchTask(t)) \/ EndLaunch
        BY <2>4, LaunchParams
    <2>5. CASE ReadFinished \/ SetAside \/ \E i \in LRT : WaitFinished(i)
        BY <2>5, GRTReadsParams
    <2>6. CASE EndWait \/ ReadParam \/ EndExecute
        BY <2>6, EndWaitParams, ReadParamParams, EndExecuteParams
    <2> QED
        BY <1>3, <2>1, <2>2, <2>3, <2>4, <2>5, <2>6 DEF GRTStep
<1>4. CASE (\E c \in Context : CallRun(c)) \/ Quit \/ Interrupt
    BY <1>4, CallParams
<1>5. CASE Terminated \/ UNCHANGED vars
    <2>1. /\ UNCHANGED <<queue, outbox, notifVector, executing, readParam>>
          /\ UNCHANGED <<context, round, done>> /\ pc' = pc
        BY <1>5 DEF Terminated, vars, commVars, runnerVars, grtVars
    <2>2. InRound' <=> InRound
        BY <2>1 DEF InRound
    <2> QED
        BY <2>1, <2>2, NothingChangesParams
<1> QED
    BY <1>2, <1>3, <1>4, <1>5 DEF Next

\* Outside of execute() the queue of parameters is empty: a message that a job
\* sends is read in its round, and none is taken for the answer to a later one.
THEOREM ParamsAlwaysMatched ==
    ASSUME SupportedUse, OwnParams
    PROVE  Spec => []ParamsMatched
<1>1. Init => ParamInv
    BY InitParamInv
<1>2. RoundInv /\ ParamInv /\ [Next]_vars => ParamInv'
    BY NextParamInv
<1>3. RoundInv /\ ParamInv => ParamsMatched
    <2> SUFFICES ASSUME RoundInv, ParamInv, pc[GRTIx] \in {"App", "Execute"}
                 PROVE  queue[ParamQueue] = << >>
        BY DEF ParamsMatched
    <2>1. ~executing
        BY DEF RoundInv, PhaseInv, GRTInPhase, InRound, Launched
    <2> QED
        BY <2>1 DEF ParamInv, ParamCount
<1> QED
    BY <1>1, <1>2, <1>3, RoundInvariant, PTL DEF Spec
=============================================================================
