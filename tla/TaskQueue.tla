---- MODULE TaskQueue ----
(***************************************************************************)
(* What the task engine promises (vodum-docs/docs/tasks.md): a deduplicated,*)
(* strictly sequential queue.  A task is requested at most once at a time,  *)
(* one task executes at a time, and an execution begins only by consuming a *)
(* request for that very task.                                              *)
(***************************************************************************)
CONSTANTS Task, NoTask

VARIABLES
    requested,    \* tasks asked for and not begun
    executing     \* the task being executed, or NoTask

vars == <<requested, executing>>

Init == requested = {} /\ executing = NoTask

Ask(t) == requested' = requested \cup {t} /\ UNCHANGED executing

Withdraw(t) == requested' = requested \ {t} /\ UNCHANGED executing

Begin(t) ==
    /\ executing = NoTask
    /\ t \in requested
    /\ requested' = requested \ {t}
    /\ executing' = t

\* The execution returns, fails, or dies with the process.
End ==
    /\ executing # NoTask
    /\ executing' = NoTask
    /\ UNCHANGED requested

Next == (\E t \in Task : Ask(t) \/ Withdraw(t) \/ Begin(t)) \/ End

Spec == Init /\ [][Next]_vars
====
