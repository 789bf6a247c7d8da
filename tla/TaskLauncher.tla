---------------------------- MODULE TaskLauncher ----------------------------
(***************************************************************************)
(* What the global runtime (GRT) computes about a task when it turns the   *)
(* task into a job of a local runtime (LRT):                               *)
(*   - Mapper::computeStartTime keeps, for each LRT, the last task there   *)
(*     that feeds the task (syncExecIxOnLRT);                              *)
(*   - Schedule::updateTaskAndSetReady numbers the jobs of each LRT;       *)
(*   - TaskLauncher::buildExecConstraints waits only for that last task;   *)
(*   - TaskLauncher::buildJobNotificationFlags selects the LRTs that the   *)
(*     runner notifies once the job is done.                               *)
(*                                                                         *)
(* A task is its index in the schedule (Task::ix), so t < u says that t    *)
(* was scheduled before u.  A PE is identified with its LRT: a PE starts   *)
(* as its own LRT (archi/PE.h:68) and attachPEToLRT never changes that.    *)
(***************************************************************************)
EXTENDS Integers, FiniteSets, FiniteSetsExt

CONSTANTS
    LRTCount,   \* number of local runtimes, the GRT's own included
    Task,       \* indices of the tasks in the schedule
    Deps,       \* Deps[t]: the tasks Task::previousTask returns for t
    Context,    \* the runtime contexts of the application (spider::RuntimeContext)
    ContextOf,  \* the context whose graph a task belongs to
    RoundOf     \* the schedule-and-run round in which a task is scheduled

LRT == 0 .. LRTCount - 1

\* The schedulers add a task after the tasks it depends on (topological order),
\* and a later round appends to the schedule of the context.
ASSUME TaskAssumption ==
    /\ LRTCount \in Nat \ {0}
    /\ IsFiniteSet(Task)
    /\ Task \subseteq Nat
    /\ ContextOf \in [Task -> Context]
    /\ RoundOf \in [Task -> Nat \ {0}]
    /\ Deps \in [Task -> SUBSET Task]
    /\ \A t \in Task : \A s \in Deps[t] : s < t /\ ContextOf[s] = ContextOf[t]
    /\ \A s, t \in Task :
          ContextOf[s] = ContextOf[t] /\ s < t => RoundOf[s] <= RoundOf[t]

NoSync == -1    \* UINT32_MAX in Task::syncExecIxOnLRT

ExecutionPolicy == {"JIT", "DELAYED"}

-----------------------------------------------------------------------------
(* In what follows lrtOf maps each task to the LRT it is mapped on.        *)

\* Number of jobs already mapped on the PE when the task is mapped.
JobExecIx(lrtOf, t) ==
    Cardinality({s \in Task : /\ s < t
                              /\ ContextOf[s] = ContextOf[t]
                              /\ lrtOf[s] = lrtOf[t]})

SourcesOn(lrtOf, t, l) == {s \in Deps[t] : lrtOf[s] = l}

\* Mutant: keep the first source met instead of the last one scheduled.
SyncExecIxOnLRT_First(lrtOf, t, l) ==
    IF SourcesOn(lrtOf, t, l) = {} THEN NoSync ELSE Min(SourcesOn(lrtOf, t, l))

\* The last source of t on LRT l, NoSync when it has none there.
SyncExecIxOnLRT(lrtOf, t, l) ==
    IF SourcesOn(lrtOf, t, l) = {} THEN NoSync ELSE Max(SourcesOn(lrtOf, t, l))

\* One SyncInfo per LRT that t synchronises on.
ExecConstraints(lrtOf, t) ==
    {[lrtToWait |-> l, jobToWait |-> JobExecIx(lrtOf, SyncExecIxOnLRT(lrtOf, t, l))] :
        l \in {k \in LRT : SyncExecIxOnLRT(lrtOf, t, k) # NoSync}}

Successors(t) == {u \in Task : t \in Deps[u]}

\* A sink that is not READY when t is launched may be mapped anywhere: notify
\* every LRT.  Otherwise notify the LRT of a sink that synchronises on t.
NotificationFlags(lrtOf, ready, t) ==
    IF Successors(t) \subseteq ready
    THEN {lrtOf[u] : u \in {s \in Successors(t) :
              /\ lrtOf[s] # lrtOf[t]
              /\ \/ SyncExecIxOnLRT(lrtOf, s, lrtOf[t]) = NoSync
                 \/ t >= SyncExecIxOnLRT(lrtOf, s, lrtOf[t])}}
    ELSE LRT

\* The tasks that are READY when t is launched: in JIT mode a task is launched
\* as soon as it is mapped, in DELAYED mode once its whole round is mapped.
ReadyWhenLaunched(policy, t) ==
    {u \in Task : /\ ContextOf[u] = ContextOf[t]
                  /\ RoundOf[u] = RoundOf[t]
                  /\ u >= t
                  /\ policy = "JIT" => u = t}
=============================================================================
