----------------------------- MODULE SerialTasks -----------------------------
(***************************************************************************)
(* What a background runner promises whoever submits tasks: a task is       *)
(* accepted only when none is live, the callback of a task is called once,  *)
(* after the task has returned, and callbacks never overlap, although the   *)
(* next task may be accepted while one is under way.  BackgroundRunner      *)
(* implements this specification.                                           *)
(***************************************************************************)
CONSTANTS Task, None

VARIABLES
    live,     \* the task that is accepted and has not returned
    calling,  \* the task whose callback is under way
    done      \* the tasks whose callback is over

vars == <<live, calling, done>>

Init == live = None /\ calling = None /\ done = {}

Accept(t) ==
    /\ live = None
    /\ t # calling /\ t \notin done
    /\ live' = t
    /\ UNCHANGED <<calling, done>>

Return ==
    /\ live # None /\ calling = None
    /\ calling' = live
    /\ live' = None
    /\ UNCHANGED done

EndCallback ==
    /\ calling # None
    /\ done' = done \cup {calling}
    /\ calling' = None
    /\ UNCHANGED live

Next == (\E t \in Task : Accept(t)) \/ Return \/ EndCallback

Spec == Init /\ [][Next]_vars /\ WF_vars(EndCallback)
=============================================================================
