-------------------------- MODULE DataflowExecution --------------------------
(***************************************************************************)
(* What the runtime promises of one call of Runtime::execute(): every task *)
(* of the context's graph fires exactly once, and only after every task it *)
(* depends on has completed.  Nothing is said about LRTs, queues or order. *)
(***************************************************************************)
CONSTANTS
    Task, Deps,             \* the dataflow graph, unrolled into tasks
    Context, ContextOf,     \* the graph each task belongs to
    None                    \* no call in progress

VARIABLES
    active,     \* the context being executed, or None
    firing,     \* tasks whose kernel is running
    fired       \* tasks completed by the current (or last) call

vars == <<active, firing, fired>>

Init == active = None /\ firing = {} /\ fired = {}

Execute(c) ==
    /\ active = None
    /\ active' = c
    /\ fired' = {}
    /\ UNCHANGED firing

Fire(t) ==
    /\ active = ContextOf[t]
    /\ t \notin firing \cup fired
    /\ Deps[t] \subseteq fired
    /\ firing' = firing \cup {t}
    /\ UNCHANGED <<active, fired>>

Complete(t) ==
    /\ t \in firing
    /\ firing' = firing \ {t}
    /\ fired' = fired \cup {t}
    /\ UNCHANGED active

Return ==
    /\ active # None
    /\ firing = {}
    /\ fired = {t \in Task : ContextOf[t] = active}
    /\ active' = None
    /\ UNCHANGED <<firing, fired>>

Next ==
    \/ \E c \in Context : Execute(c)
    \/ \E t \in Task : Fire(t) \/ Complete(t)
    \/ Return

\* Once called, execute() runs every task and returns.
Fairness ==
    /\ \A t \in Task : WF_vars(Fire(t)) /\ WF_vars(Complete(t))
    /\ WF_vars(Return)

Spec == Init /\ [][Next]_vars /\ Fairness
=============================================================================
