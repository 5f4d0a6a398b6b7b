-------------------------- MODULE BackgroundRunner --------------------------
(***************************************************************************)
(* BackgroundTaskRunner of core/background_runner.py: one slot, guarded by  *)
(* a lock, in front of a ThreadPoolExecutor with one worker thread.         *)
(*                                                                         *)
(* Callers are threads of the bots.  A critical section of the runner's    *)
(* lock is one action; what happens between two sections is interleaved.   *)
(* A submit is two steps, because the slot is taken under the lock and the  *)
(* work handed to the executor after it.  The slot's handle and token are   *)
(* set and cleared together and are one variable here; _active_future is    *)
(* written but never read and is left out.                                  *)
(***************************************************************************)
EXTENDS Sequences, FiniteSets

CONSTANTS
    Task,     \* the tasks there are to submit, each of them once
    Caller,   \* the threads that call the runner
    None

ASSUME RunnerAssumption == None \notin Task

VARIABLES
    active,     \* _active_handle (and _active_token)
    shut,       \* _shutdown
    closed,     \* the executor refuses new work
    queue,      \* the executor's work queue
    holding,    \* the task a caller has registered and not yet handed over
    closing,    \* the callers inside shutdown(), past its critical section
    work,       \* what the worker thread is at
    stage,      \* how far each task has come
    cancelled   \* the tasks whose token is set

vars == <<active, shut, closed, queue, holding, closing, work, stage, cancelled>>

Idle == [task |-> None, at |-> "idle"]

(* "run": in run_fn;  "complete": slot released, in on_complete.            *)
Work == {Idle} \cup [task : Task, at : {"run", "complete"}]

Stage == {"new", "registered", "queued", "running", "completing", "over", "lost"}

TypeOK ==
    /\ active \in Task \cup {None}
    /\ shut \in BOOLEAN /\ closed \in BOOLEAN
    /\ queue \in Seq(Task)
    /\ holding \in [Caller -> Task \cup {None}]
    /\ closing \in SUBSET Caller
    /\ work \in Work
    /\ stage \in [Task -> Stage]
    /\ cancelled \in SUBSET Task

Init ==
    /\ active = None
    /\ shut = FALSE /\ closed = FALSE
    /\ queue = <<>>
    /\ holding = [c \in Caller |-> None]
    /\ closing = {}
    /\ work = Idle
    /\ stage = [t \in Task |-> "new"]
    /\ cancelled = {}

-----------------------------------------------------------------------------
(* The callers.                                                            *)

Free(c) == holding[c] = None /\ c \notin closing

(* Mutant of Register: the slot is not looked at under the same lock.      *)
RegisterUnchecked(c, t) ==
    /\ Free(c)
    /\ ~shut
    /\ stage[t] = "new"
    /\ active' = t
    /\ holding' = [holding EXCEPT ![c] = t]
    /\ stage' = [stage EXCEPT ![t] = "registered"]
    /\ UNCHANGED <<shut, closed, queue, closing, work, cancelled>>

(* submit, under the lock.  A busy or shut-down runner raises instead, and  *)
(* nothing changes.                                                         *)
Register(c, t) ==
    /\ Free(c)
    /\ ~shut
    /\ active = None
    /\ stage[t] = "new"
    /\ active' = t
    /\ holding' = [holding EXCEPT ![c] = t]
    /\ stage' = [stage EXCEPT ![t] = "registered"]
    /\ UNCHANGED <<shut, closed, queue, closing, work, cancelled>>

(* submit, after the lock: executor.submit accepts the work.               *)
HandOver(c) ==
    /\ holding[c] # None
    /\ ~closed
    /\ queue' = Append(queue, holding[c])
    /\ stage' = [stage EXCEPT ![holding[c]] = "queued"]
    /\ holding' = [holding EXCEPT ![c] = None]
    /\ UNCHANGED <<active, shut, closed, closing, work, cancelled>>

(* executor.submit raises: the caller gets the RuntimeError, and nobody     *)
(* releases the slot.                                                       *)
HandOverRefused(c) ==
    /\ holding[c] # None
    /\ closed
    /\ stage' = [stage EXCEPT ![holding[c]] = "lost"]
    /\ holding' = [holding EXCEPT ![c] = None]
    /\ UNCHANGED <<active, shut, closed, queue, closing, work, cancelled>>

(* cancel, when it returns True.                                           *)
Cancel(c) ==
    /\ Free(c)
    /\ active # None
    /\ cancelled' = cancelled \cup {active}
    /\ UNCHANGED <<active, shut, closed, queue, holding, closing, work, stage>>

(* shutdown, under the lock.  A second shutdown returns at once.           *)
BeginShutdown(c) ==
    /\ Free(c)
    /\ ~shut
    /\ shut' = TRUE
    /\ closing' = closing \cup {c}
    /\ UNCHANGED <<active, closed, queue, holding, work, stage, cancelled>>

(* Mutant of CloseExecutor: pending work is cancelled.                     *)
CloseExecutorDropping(c) ==
    /\ c \in closing /\ ~closed
    /\ closed' = TRUE
    /\ queue' = <<>>
    /\ UNCHANGED <<active, shut, holding, closing, work, stage, cancelled>>

(* Mutant of EndShutdown: waits for the slot as well.                      *)
EndShutdownWhenFree(c) ==
    /\ c \in closing /\ closed
    /\ work = Idle /\ queue = <<>> /\ active = None
    /\ closing' = closing \ {c}
    /\ UNCHANGED <<active, shut, closed, queue, holding, work, stage, cancelled>>

(* executor.shutdown: no new work, then wait for the worker to drain the    *)
(* queue.                                                                   *)
CloseExecutor(c) ==
    /\ c \in closing /\ ~closed
    /\ closed' = TRUE
    /\ UNCHANGED <<active, shut, queue, holding, closing, work, stage, cancelled>>

EndShutdown(c) ==
    /\ c \in closing /\ closed
    /\ work = Idle /\ queue = <<>>
    /\ closing' = closing \ {c}
    /\ UNCHANGED <<active, shut, closed, queue, holding, work, stage, cancelled>>

-----------------------------------------------------------------------------
(* The worker thread: _run_wrapped.                                        *)

BeginRun ==
    /\ work = Idle
    /\ queue # <<>>
    /\ work' = [task |-> Head(queue), at |-> "run"]
    /\ stage' = [stage EXCEPT ![Head(queue)] = "running"]
    /\ queue' = Tail(queue)
    /\ UNCHANGED <<active, shut, closed, holding, closing, cancelled>>

(* Mutant of ReleaseSlot: the slot is kept until on_complete is over, and   *)
(* a failing on_complete keeps it.                                          *)
KeepSlot ==
    /\ work.at = "run"
    /\ work' = [work EXCEPT !.at = "complete"]
    /\ stage' = [stage EXCEPT ![work.task] = "completing"]
    /\ UNCHANGED <<active, shut, closed, queue, holding, closing, cancelled>>

(* run_fn has returned or raised: the slot is released, whoever holds it.   *)
ReleaseSlot ==
    /\ work.at = "run"
    /\ active' = None
    /\ work' = [work EXCEPT !.at = "complete"]
    /\ stage' = [stage EXCEPT ![work.task] = "completing"]
    /\ UNCHANGED <<shut, closed, queue, holding, closing, cancelled>>

(* on_complete has returned, or its exception was suppressed.              *)
EndRun ==
    /\ work.at = "complete"
    /\ work' = Idle
    /\ stage' = [stage EXCEPT ![work.task] = "over"]
    /\ UNCHANGED <<active, shut, closed, queue, holding, closing, cancelled>>

-----------------------------------------------------------------------------
CallerStep(c) == HandOver(c) \/ HandOverRefused(c) \/ CloseExecutor(c) \/ EndShutdown(c)

WorkerStep == BeginRun \/ ReleaseSlot \/ EndRun

Next ==
    \/ \E c \in Caller :
        \/ \E t \in Task : Register(c, t)
        \/ Cancel(c)
        \/ BeginShutdown(c)
        \/ CallerStep(c)
    \/ WorkerStep

(* A thread that has begun a call finishes it, and the worker thread runs:  *)
(* run_fn and on_complete return.  Nobody has to call.                      *)
Fairness == WF_vars(WorkerStep) /\ \A c \in Caller : WF_vars(CallerStep(c))

Spec == Init /\ [][Next]_vars /\ Fairness

-----------------------------------------------------------------------------
(* Properties.                                                             *)

(* The slot is held by a task exactly while it is accepted and has not      *)
(* returned, through the gap between the two halves of submit and the wait  *)
(* behind a slow on_complete; so the unconditional release of _run_wrapped  *)
(* never frees another task's slot, and cancel never hits a finished task.  *)
SlotIsHeldByLiveTask ==
    \A t \in Task :
        active = t <=> stage[t] \in {"registered", "queued", "running", "lost"}

(* When the shutdown that closed the executor has returned, the worker is   *)
(* at rest and stays so, also for a caller that was half-way through submit. *)
QuietAfterShutdown == closed /\ closing = {} => work = Idle /\ queue = <<>>

(* A shutdown returns, even when a submit that crossed it left the slot      *)
(* taken.                                                                   *)
ShutdownReturns == \A c \in Caller : c \in closing ~> c \notin closing

Serial == INSTANCE SerialTasks WITH
    live    <- active,
    calling <- IF work.at = "complete" THEN work.task ELSE None,
    done    <- {t \in Task : stage[t] = "over"}

(* Seen from outside, tasks are accepted and called back one by one.        *)
RunsSerially == Serial!Spec
=============================================================================
