------------------------- MODULE TaskHandlerProofs -------------------------
(***************************************************************************)
(* Theorems about BackgroundRunner and TaskHandler, for any number of       *)
(* callers and tasks.  The runner comes first; the runner inside the task   *)
(* handler takes only its steps, so what is proved of it carries over.      *)
(***************************************************************************)
EXTENDS TaskHandler, TLAPS

(* What a caller holds is registered, and only one caller holds anything.   *)
HoldingInv ==
    /\ \A c \in Caller : holding[c] # None => stage[holding[c]] = "registered"
    /\ \A c, d \in Caller : holding[c] # None /\ holding[d] # None => c = d

(* At most one task waits in the executor.                                 *)
QueueInv == queue = <<>> \/ \E t \in Task : queue = <<t>> /\ stage[t] = "queued"

WorkInv ==
    /\ work.at = "run" => stage[work.task] = "running"
    /\ work.at = "complete" => stage[work.task] = "completing"

Inv ==
    /\ TypeOK
    /\ SlotIsHeldByLiveTask
    /\ HoldingInv /\ QueueInv /\ WorkInv
    /\ QuietAfterShutdown

LEMMA InvInit == Init => Inv
<1> SUFFICES ASSUME Init PROVE Inv
  OBVIOUS
<1>1. TypeOK
  <2>1. queue \in Seq(Task) /\ work \in Work
    BY DEF Init, Work
  <2>2. holding \in [Caller -> Task \cup {None}] /\ stage \in [Task -> Stage]
    BY DEF Init, Stage
  <2>3. QED BY <2>1, <2>2 DEF Init, TypeOK
<1>2. SlotIsHeldByLiveTask
  BY RunnerAssumption DEF RunnerAssumption, Init, SlotIsHeldByLiveTask
<1>3. HoldingInv /\ QueueInv
  BY DEF Init, HoldingInv, QueueInv
<1>4. WorkInv /\ QuietAfterShutdown
  BY DEF Init, Idle, WorkInv, QuietAfterShutdown
<1>5. QED BY <1>1, <1>2, <1>3, <1>4 DEF Inv

LEMMA RegisterKeepsInv ==
    ASSUME Inv, NEW c \in Caller, NEW t \in Task, Register(c, t)
    PROVE  Inv'
<1>1. TypeOK'
  BY DEF Inv, TypeOK, Register, Stage
<1>2. SlotIsHeldByLiveTask'
  BY RunnerAssumption DEF RunnerAssumption, Inv, TypeOK, Register, SlotIsHeldByLiveTask
<1>3. \A d \in Caller : holding[d] = None
  BY RunnerAssumption DEF RunnerAssumption, Inv, TypeOK, Register, SlotIsHeldByLiveTask, HoldingInv
<1>4. HoldingInv'
  BY <1>3 DEF Inv, TypeOK, Register, HoldingInv
<1>5. QueueInv' /\ WorkInv'
  BY DEF Inv, TypeOK, Work, Idle, Register, QueueInv, WorkInv
<1>6. QuietAfterShutdown'
  BY DEF Inv, Register, QuietAfterShutdown
<1>7. QED BY <1>1, <1>2, <1>4, <1>5, <1>6 DEF Inv

LEMMA HandOverKeepsInv ==
    ASSUME Inv, NEW c \in Caller, HandOver(c) \/ HandOverRefused(c)
    PROVE  Inv'
<1> DEFINE t == holding[c]
<1>1. t \in Task /\ stage[t] = "registered" /\ active = t
  BY DEF Inv, TypeOK, HandOver, HandOverRefused, HoldingInv, SlotIsHeldByLiveTask
<1>2. queue = <<>>
  BY <1>1 DEF Inv, QueueInv, SlotIsHeldByLiveTask
<1>3. HoldingInv'
  BY <1>1 DEF Inv, TypeOK, HandOver, HandOverRefused, HoldingInv
<1>4. WorkInv'
  BY <1>1 DEF Inv, TypeOK, Work, Idle, HandOver, HandOverRefused, WorkInv
<1>5. CASE HandOver(c)
  <2>1. queue' = <<t>> /\ stage' = [stage EXCEPT ![t] = "queued"]
    BY <1>2, <1>5 DEF HandOver
  <2>2. TypeOK'
    BY <1>1, <1>5, <2>1 DEF Inv, TypeOK, HandOver, Stage
  <2>3. SlotIsHeldByLiveTask' /\ QueueInv'
    BY <1>1, <1>5, <2>1 DEF Inv, TypeOK, HandOver, SlotIsHeldByLiveTask, QueueInv
  <2>4. QuietAfterShutdown'
    BY <1>5 DEF HandOver, QuietAfterShutdown
  <2>5. QED BY <1>3, <1>4, <2>2, <2>3, <2>4 DEF Inv
<1>6. CASE HandOverRefused(c)
  <2>1. TypeOK'
    BY <1>1, <1>6 DEF Inv, TypeOK, HandOverRefused, Stage
  <2>2. SlotIsHeldByLiveTask' /\ QueueInv'
    BY <1>1, <1>2, <1>6 DEF Inv, TypeOK, HandOverRefused, SlotIsHeldByLiveTask, QueueInv
  <2>3. QuietAfterShutdown'
    BY <1>6 DEF Inv, HandOverRefused, QuietAfterShutdown
  <2>4. QED BY <1>3, <1>4, <2>1, <2>2, <2>3 DEF Inv
<1>7. QED BY <1>5, <1>6

LEMMA CallKeepsInv ==
    ASSUME Inv, NEW c \in Caller,
           Cancel(c) \/ BeginShutdown(c) \/ CloseExecutor(c) \/ EndShutdown(c)
    PROVE  Inv'
<1>1. TypeOK'
  BY DEF Inv, TypeOK, Cancel, BeginShutdown, CloseExecutor, EndShutdown
<1>2. SlotIsHeldByLiveTask' /\ HoldingInv' /\ QueueInv' /\ WorkInv'
  BY DEF Inv, Cancel, BeginShutdown, CloseExecutor, EndShutdown, SlotIsHeldByLiveTask,
     HoldingInv, QueueInv, WorkInv
<1>3. QuietAfterShutdown'
  BY DEF Inv, Cancel, BeginShutdown, CloseExecutor, EndShutdown, QuietAfterShutdown
<1>4. QED BY <1>1, <1>2, <1>3 DEF Inv

LEMMA BeginRunKeepsInv ==
    ASSUME Inv, BeginRun
    PROVE  Inv'
<1>1. PICK t \in Task : queue = <<t>> /\ stage[t] = "queued"
  BY DEF Inv, QueueInv, BeginRun
<1>2. Head(queue) = t /\ Tail(queue) = <<>>
  BY <1>1
<1>3. /\ queue' = <<>> /\ work' = [task |-> t, at |-> "run"]
      /\ stage' = [stage EXCEPT ![t] = "running"]
      /\ UNCHANGED <<active, shut, closed, holding, closing, cancelled>>
  BY <1>2 DEF BeginRun
<1>4. TypeOK'
  BY <1>3 DEF Inv, TypeOK, Stage, Work
<1>5. SlotIsHeldByLiveTask' /\ HoldingInv'
  BY <1>1, <1>3 DEF Inv, TypeOK, SlotIsHeldByLiveTask, HoldingInv
<1>6. QueueInv' /\ WorkInv'
  BY <1>1, <1>3 DEF Inv, TypeOK, QueueInv, WorkInv
<1>7. QuietAfterShutdown'
  BY <1>1, <1>3 DEF Inv, QuietAfterShutdown
<1>8. QED BY <1>4, <1>5, <1>6, <1>7 DEF Inv

(* The task whose slot is released is the one that holds it.               *)
LEMMA ReleasesItsOwn ==
    ASSUME Inv, ReleaseSlot
    PROVE  /\ work.task \in Task /\ active = work.task
           /\ work' = [task |-> work.task, at |-> "complete"]
<1>1. work \in [task : Task, at : {"run", "complete"}]
  BY DEF Inv, TypeOK, Work, Idle, ReleaseSlot
<1>2. QED BY <1>1 DEF Inv, WorkInv, SlotIsHeldByLiveTask, ReleaseSlot

LEMMA ReleaseSlotKeepsInv ==
    ASSUME Inv, ReleaseSlot
    PROVE  Inv'
<1> DEFINE t == work.task
<1>1. t \in Task /\ active = t /\ work' = [task |-> t, at |-> "complete"]
  BY ReleasesItsOwn
<1>2. /\ active' = None /\ stage' = [stage EXCEPT ![t] = "completing"]
      /\ stage[t] = "running"
      /\ UNCHANGED <<shut, closed, queue, holding, closing, cancelled>>
  BY DEF ReleaseSlot, Inv, WorkInv
<1>3. work # Idle
  BY DEF ReleaseSlot, Idle
<1> HIDE DEF t
<1>4. TypeOK'
  BY <1>1, <1>2 DEF Inv, TypeOK, Stage, Work
<1>5. SlotIsHeldByLiveTask'
  BY <1>1, <1>2, RunnerAssumption DEF RunnerAssumption, Inv, TypeOK, SlotIsHeldByLiveTask
<1>6. HoldingInv' /\ QueueInv' /\ WorkInv'
  BY <1>1, <1>2 DEF Inv, TypeOK, HoldingInv, QueueInv, WorkInv
<1>7. QuietAfterShutdown'
  BY <1>2, <1>3 DEF Inv, QuietAfterShutdown
<1>8. QED BY <1>4, <1>5, <1>6, <1>7 DEF Inv

LEMMA EndRunKeepsInv ==
    ASSUME Inv, EndRun
    PROVE  Inv'
<1> DEFINE t == work.task
<1>1. t \in Task /\ stage[t] = "completing" /\ work # Idle
  BY DEF Inv, TypeOK, Work, Idle, EndRun, WorkInv
<1>2. /\ work' = Idle /\ stage' = [stage EXCEPT ![t] = "over"]
      /\ UNCHANGED <<active, shut, closed, queue, holding, closing, cancelled>>
  BY DEF EndRun
<1> HIDE DEF t
<1>3. TypeOK'
  BY <1>1, <1>2 DEF Inv, TypeOK, Stage, Work
<1>4. SlotIsHeldByLiveTask' /\ HoldingInv' /\ QueueInv'
  BY <1>1, <1>2 DEF Inv, TypeOK, SlotIsHeldByLiveTask, HoldingInv, QueueInv
<1>5. WorkInv' /\ QuietAfterShutdown'
  BY <1>1, <1>2 DEF Inv, WorkInv, QuietAfterShutdown, Idle
<1>6. QED BY <1>3, <1>4, <1>5 DEF Inv

LEMMA InvStep == Inv /\ [Next]_vars => Inv'
<1> SUFFICES ASSUME Inv, [Next]_vars PROVE Inv'
  OBVIOUS
<1>1. ASSUME NEW c \in Caller, NEW t \in Task, Register(c, t)
      PROVE  Inv'
  BY <1>1, RegisterKeepsInv
<1>2. ASSUME NEW c \in Caller, HandOver(c) \/ HandOverRefused(c)
      PROVE  Inv'
  BY <1>2, HandOverKeepsInv
<1>3. ASSUME NEW c \in Caller,
             Cancel(c) \/ BeginShutdown(c) \/ CloseExecutor(c) \/ EndShutdown(c)
      PROVE  Inv'
  BY <1>3, CallKeepsInv
<1>4. CASE BeginRun
  BY <1>4, BeginRunKeepsInv
<1>5. CASE ReleaseSlot
  BY <1>5, ReleaseSlotKeepsInv
<1>6. CASE EndRun
  BY <1>6, EndRunKeepsInv
<1>7. CASE UNCHANGED vars
  BY <1>7 DEF vars, Inv, TypeOK, SlotIsHeldByLiveTask, HoldingInv, QueueInv, WorkInv,
     QuietAfterShutdown
<1>8. QED
  BY <1>1, <1>2, <1>3, <1>4, <1>5, <1>6, <1>7 DEF Next, CallerStep, WorkerStep

LEMMA InvHolds == Spec => []Inv
<1> DEFINE I == Inv
<1>1. Init => I
  BY InvInit
<1>2. I /\ [Next]_vars => I'
  BY InvStep
<1>3. I => Inv
  OBVIOUS
<1> HIDE DEF I
<1>4. QED BY <1>1, <1>2, <1>3, PTL DEF Spec

(* Every variable of the runner keeps its type.                            *)
THEOREM TypeCorrect == Spec => []TypeOK
<1>1. Inv => TypeOK
  BY DEF Inv
<1>2. QED BY <1>1, InvHolds, PTL

(* The one slot is held exactly by the task that is accepted and has not    *)
(* returned: two tasks are never live, the worker's release frees its own   *)
(* task's slot and cancel sets the token of a live task.                    *)
THEOREM SlotIsHeldByLiveTaskHolds == Spec => []SlotIsHeldByLiveTask
<1>1. Inv => SlotIsHeldByLiveTask
  BY DEF Inv
<1>2. QED BY <1>1, InvHolds, PTL

(* Once the shutdown that closed the executor has returned, nothing runs.   *)
THEOREM QuietAfterShutdownHolds == Spec => []QuietAfterShutdown
<1>1. Inv => QuietAfterShutdown
  BY DEF Inv
<1>2. QED BY <1>1, InvHolds, PTL

-----------------------------------------------------------------------------
(* Refinement.                                                             *)

LEMMA SerialInit == Init => Serial!Init
BY DEF Init, Idle, Serial!Init

LEMMA SerialStep ==
    ASSUME Inv, [Next]_vars
    PROVE  [Serial!Next]_Serial!vars
<1>1. ASSUME NEW c \in Caller, NEW t \in Task, Register(c, t)
      PROVE  Serial!Next
  <2>1. /\ active = None /\ active' = t /\ work' = work /\ stage[t] = "new"
        /\ stage' = [stage EXCEPT ![t] = "registered"]
    BY <1>1 DEF Register
  <2>2. work.at = "complete" => work.task # t
    BY <2>1 DEF Inv, WorkInv
  <2>3. {u \in Task : stage'[u] = "over"} = {u \in Task : stage[u] = "over"}
    BY <2>1 DEF Inv, TypeOK
  <2>4. Serial!Accept(t)
    BY <2>1, <2>2, <2>3, RunnerAssumption DEF RunnerAssumption, Serial!Accept
  <2>5. QED BY <2>4 DEF Serial!Next
<1>2. ASSUME NEW c \in Caller,
             \/ HandOver(c) \/ HandOverRefused(c) \/ Cancel(c)
             \/ BeginShutdown(c) \/ CloseExecutor(c) \/ EndShutdown(c)
      PROVE  UNCHANGED Serial!vars
  <2>1. UNCHANGED <<active, work>>
    BY <1>2 DEF HandOver, HandOverRefused, Cancel, BeginShutdown, CloseExecutor,
       EndShutdown
  <2>2. {u \in Task : stage'[u] = "over"} = {u \in Task : stage[u] = "over"}
    BY <1>2 DEF HandOver, HandOverRefused, Cancel, BeginShutdown, CloseExecutor,
       EndShutdown, Inv, TypeOK, HoldingInv
  <2>3. QED BY <2>1, <2>2 DEF Serial!vars
<1>3. CASE BeginRun
  <2>1. PICK t \in Task : queue = <<t>> /\ stage[t] = "queued"
    BY <1>3 DEF Inv, QueueInv, BeginRun
  <2>2. /\ work = Idle /\ work' = [task |-> t, at |-> "run"] /\ active' = active
        /\ stage' = [stage EXCEPT ![t] = "running"]
    BY <1>3, <2>1 DEF BeginRun
  <2>3. {u \in Task : stage'[u] = "over"} = {u \in Task : stage[u] = "over"}
    BY <2>1, <2>2 DEF Inv, TypeOK
  <2>4. QED BY <2>2, <2>3 DEF Serial!vars, Idle
<1>4. CASE ReleaseSlot
  <2>1. /\ work.task \in Task /\ active = work.task /\ work.at = "run"
        /\ work' = [task |-> work.task, at |-> "complete"] /\ active' = None
        /\ stage[work.task] = "running"
        /\ stage' = [stage EXCEPT ![work.task] = "completing"]
    BY <1>4, ReleasesItsOwn DEF ReleaseSlot, Inv, WorkInv
  <2>2. {u \in Task : stage'[u] = "over"} = {u \in Task : stage[u] = "over"}
    BY <2>1 DEF Inv, TypeOK
  <2>3. Serial!Return
    BY <2>1, <2>2, RunnerAssumption DEF RunnerAssumption, Serial!Return
  <2>4. QED BY <2>3 DEF Serial!Next
<1>5. CASE EndRun
  <2>1. /\ work.task \in Task /\ work.at = "complete" /\ work' = Idle
        /\ active' = active /\ stage' = [stage EXCEPT ![work.task] = "over"]
    BY <1>5 DEF EndRun, Inv, TypeOK, Work, Idle
  <2>2. {u \in Task : stage'[u] = "over"}
          = {u \in Task : stage[u] = "over"} \cup {work.task}
    BY <2>1 DEF Inv, TypeOK
  <2>3. work.task # None /\ Idle.at = "idle"
    BY <2>1, RunnerAssumption DEF RunnerAssumption, Idle
  <2>4. Serial!EndCallback
    BY <2>1, <2>2, <2>3 DEF Serial!EndCallback
  <2>5. QED BY <2>4 DEF Serial!Next
<1>6. CASE UNCHANGED vars
  BY <1>6 DEF vars, Serial!vars
<1>7. QED
  BY <1>1, <1>2, <1>3, <1>4, <1>5, <1>6 DEF Next, CallerStep, WorkerStep

(* Every step of the runner is one SerialTasks allows or does not see: the  *)
(* safety half of RunsSerially (that callbacks end is left to TLC).         *)
THEOREM RunnerRefinesSerial == Spec => Serial!Init /\ [][Serial!Next]_Serial!vars
<1> DEFINE I == Inv
<1>1. Spec => []I
  BY InvHolds
<1>2. Init => Serial!Init
  BY SerialInit
<1>3. I /\ [Next]_vars => [Serial!Next]_Serial!vars
  BY SerialStep
<1> HIDE DEF I
<1>4. QED BY <1>1, <1>2, <1>3, PTL DEF Spec

-----------------------------------------------------------------------------
LEMMA HandlerStepIsRunnerStep == [HandlerNext]_hVars => [Next]_vars
<1> SUFFICES ASSUME [HandlerNext]_hVars PROVE [Next]_vars
  OBVIOUS
<1>1. ASSUME NEW c \in Caller, NEW t \in Task, HandleTask(c, t) \/ HandleBusy(c, t)
      PROVE  [Next]_vars
  BY <1>1 DEF HandleTask, HandleBusy, Next
<1>2. ASSUME NEW c \in Caller, HandleStop(c) \/ HandleShutdown(c) \/ FinishCall(c)
      PROVE  [Next]_vars
  BY <1>2 DEF HandleStop, HandleShutdown, FinishCall, Next
<1>3. CASE HandlerWorker
  BY <1>3 DEF HandlerWorker, BeginTask, RunTask, TaskReturned, Record, TellVerdict,
     CallbackReturns, Next, WorkerStep
<1>4. CASE UNCHANGED hVars \/ \E t \in Task : SendMessage(t)
  BY <1>4 DEF hVars, SendMessage
<1>5. QED BY <1>1, <1>2, <1>3, <1>4 DEF HandlerNext

(* Whatever the task handler does around it, the runner behaves as one.     *)
THEOREM HandlerRefinesRunner == HandlerSpec => Init /\ [][Next]_vars
<1>1. HandlerInit => Init
  BY DEF HandlerInit
<1>2. QED BY <1>1, HandlerStepIsRunnerStep, PTL DEF HandlerSpec

(* The runner's invariants, inside the task handler: two tasks of different  *)
(* chats are never live together, and /stop reaches a live task.            *)
THEOREM SlotInHandler == HandlerSpec => []SlotIsHeldByLiveTask
<1> DEFINE I == Inv
<1>1. Init => I
  BY InvInit
<1>2. I /\ [Next]_vars => I'
  BY InvStep
<1>3. I => SlotIsHeldByLiveTask
  BY DEF Inv
<1> HIDE DEF I
<1>4. QED BY <1>1, <1>2, <1>3, HandlerRefinesRunner, PTL

-----------------------------------------------------------------------------
USE DEF log, chat

(* The messages.  The invariant follows one task from its run to its last   *)
(* message: what the worker knows of it (verdict, committed, callback) is    *)
(* tied to what is kept for all tasks (branches, history, posted).          *)

RunInv ==
    /\ cancelled \subseteq stopTold
    /\ work.at \in {"run", "complete"} => (committed <=> work.task \in branches)
    /\ work.at = "run" => callback = "none"
    /\ work.at = "idle" => callback = "none"
    /\ phase \in {"open", "committing"} => ~committed /\ verdict = "none"
    /\ verdict = "SUCCESS" => committed
    /\ verdict = "CANCELLED" => ~committed
    /\ work.at \in {"run", "complete"} /\ verdict = "CANCELLED" => work.task \in cancelled

KeptInv ==
    /\ \A t \in branches : t \in Task /\ stage[t] \in {"running", "completing", "over"}
    /\ \A t \in Task : stage[t] \in {"running", "completing"} => t = work.task
    /\ \A t \in Task : posted[t] # "nothing" => stage[t] \in {"completing", "over"}
    /\ \A t \in Task :
        /\ posted[t] = "SUCCESS" => t \in branches
        /\ posted[t] = "CANCELLED" => t \in stopTold /\ t \notin branches
        /\ t = work.task /\ posted[t] # "nothing" => callback = "end"

HistoryInv ==
    /\ \A i \in DOMAIN history :
        /\ history[i].task \in Task
        /\ stage[history[i].task] \in {"completing", "over"}
        /\ posted[history[i].task] \in {"nothing", history[i].final}
        /\ history[i].task = work.task => history[i].final = verdict
    /\ \A t \in pushedOut : t \in Task /\ stage[t] \in {"completing", "over"}

TaskRecord == [task : Task, final : Verdict]

KnownInv ==
    /\ posted \in [Task -> Verdict \cup {"nothing"}]
    /\ history \in Seq(TaskRecord) /\ Len(history) <= HistoryLen
    /\ verdict \in Verdict \cup {"none"}
    /\ work.at = "complete" => verdict \in Verdict
    /\ work.at = "run" /\ phase \in {"ending", "returned"} => verdict \in Verdict

HandlerInv == Inv /\ KnownInv /\ RunInv /\ KeptInv /\ HistoryInv

LEMMA WorkCases ==
    ASSUME Inv
    PROVE  /\ None \notin Task
           /\ \/ work = Idle /\ work.at = "idle" /\ work.task = None
              \/ work.at \in {"run", "complete"} /\ work.task \in Task
<1>1. None \notin Task
  BY RunnerAssumption DEF RunnerAssumption
<1>2. work = Idle \/ work \in [task : Task, at : {"run", "complete"}]
  BY DEF Inv, TypeOK, Work
<1>3. work = Idle => work.at = "idle" /\ work.task = None
  BY DEF Idle
<1>4. QED BY <1>1, <1>2, <1>3

LEMMA HandlerInvInit == HandlerInit => HandlerInv
<1> SUFFICES ASSUME HandlerInit PROVE HandlerInv
  OBVIOUS
<1>1. Inv
  BY InvInit DEF HandlerInit
<1>2. KnownInv /\ RunInv
  BY HistoryAssumption DEF HandlerInit, Init, Idle, KnownInv, RunInv
<1>3. KeptInv /\ HistoryInv
  BY DEF HandlerInit, Init, KeptInv, HistoryInv
<1>4. QED BY <1>1, <1>2, <1>3 DEF HandlerInv

(* A new record comes last; the others move up by one when the history was  *)
(* full.                                                                    *)
LEMMA AppendToHistory ==
    ASSUME KnownInv, NEW rec \in TaskRecord, AppendRecord(rec)
    PROVE  \E k \in {0, 1} :
              /\ history' \in Seq(TaskRecord) /\ Len(history') <= HistoryLen
              /\ Len(history) \in Nat /\ DOMAIN history = 1..Len(history)
              /\ Len(history') \in Nat \ {0} /\ DOMAIN history' = 1..Len(history')
              /\ history'[Len(history')] = rec
              /\ Len(history') = Len(history) + 1 - k
              /\ \A i \in 1..(Len(history') - 1) :
                    i + k \in DOMAIN history /\ history'[i] = history[i + k]
              /\ k = 0 => pushedOut' = pushedOut
              /\ k = 1 => /\ Len(history) = HistoryLen /\ 1 \in DOMAIN history
                          /\ pushedOut' = pushedOut \cup {history[1].task}
<1>0. /\ HistoryLen \in Nat \ {0}
      /\ history \in Seq(TaskRecord) /\ Len(history) <= HistoryLen
  BY HistoryAssumption DEF HistoryAssumption, KnownInv
<1> DEFINE P(k) ==
      /\ history' \in Seq(TaskRecord) /\ Len(history') <= HistoryLen
      /\ Len(history) \in Nat /\ DOMAIN history = 1..Len(history)
      /\ Len(history') \in Nat \ {0} /\ DOMAIN history' = 1..Len(history')
      /\ history'[Len(history')] = rec
      /\ Len(history') = Len(history) + 1 - k
      /\ \A i \in 1..(Len(history') - 1) :
            i + k \in DOMAIN history /\ history'[i] = history[i + k]
      /\ k = 0 => pushedOut' = pushedOut
      /\ k = 1 => /\ Len(history) = HistoryLen /\ 1 \in DOMAIN history
                  /\ pushedOut' = pushedOut \cup {history[1].task}
<1>1. CASE Len(history) < HistoryLen
  <2>1. history' = Append(history, rec) /\ pushedOut' = pushedOut
    BY <1>1 DEF AppendRecord
  <2>2. P(0)
    BY <1>0, <1>1, <2>1
  <2>3. QED BY <2>2
<1>2. CASE ~(Len(history) < HistoryLen)
  <2>1. /\ history' = Append(Tail(history), rec)
        /\ pushedOut' = pushedOut \cup {Head(history).task}
    BY <1>2 DEF AppendRecord
  <2>2. P(1)
    BY <1>0, <1>2, <2>1
  <2>3. QED BY <2>2
<1>3. QED BY <1>1, <1>2

(* What the bots' threads do leaves the run and its messages alone.         *)
LEMMA CallerKeepsHandlerInv ==
    ASSUME HandlerInv, Inv', NEW c \in Caller,
           \/ \E t \in Task : HandleTask(c, t) \/ HandleBusy(c, t)
           \/ HandleStop(c) \/ HandleShutdown(c) \/ FinishCall(c)
    PROVE  HandlerInv'
<1>1. UNCHANGED <<work, run, records>>
  BY DEF HandleTask, HandleBusy, HandleStop, HandleShutdown, FinishCall, Register, Cancel,
     BeginShutdown, CallerStep, HandOver, HandOverRefused, CloseExecutor, EndShutdown,
     vars, handlerVars
<1>2. /\ cancelled' \subseteq stopTold' /\ cancelled \subseteq cancelled'
      /\ stopTold \subseteq stopTold'
  BY DEF HandlerInv, RunInv, HandleTask, HandleBusy, HandleStop, HandleShutdown,
     FinishCall, Register, Cancel, BeginShutdown, CallerStep, HandOver, HandOverRefused,
     CloseExecutor, EndShutdown, vars, handlerVars
<1> DEFINE Moves(t) == /\ stage[t] \in {"new", "registered"}
                       /\ stage'[t] \in {"registered", "queued", "lost"}
<1>3. \A t \in Task : stage'[t] = stage[t] \/ Moves(t)
  <2>1. stage \in [Task -> Stage]
    BY DEF HandlerInv, Inv, TypeOK
  <2>2. ASSUME NEW u \in Task, Register(c, u)
        PROVE  \A t \in Task : stage'[t] = stage[t] \/ Moves(t)
    BY <2>1, <2>2 DEF Register
  <2>3. CASE HandOver(c) \/ HandOverRefused(c)
    BY <2>1, <2>3 DEF HandlerInv, Inv, HoldingInv, TypeOK, HandOver, HandOverRefused
  <2>4. CASE UNCHANGED stage
    BY <2>4
  <2>5. QED
    BY <2>2, <2>3, <2>4 DEF HandleTask, HandleBusy, HandleStop, HandleShutdown,
       FinishCall, Cancel, BeginShutdown, CallerStep, CloseExecutor, EndShutdown, vars
<1>4. KnownInv'
  BY <1>1 DEF HandlerInv, KnownInv, run, records
<1>5. RunInv'
  BY <1>1, <1>2 DEF HandlerInv, RunInv, run, records
<1>6. KeptInv'
  BY <1>1, <1>2, <1>3 DEF HandlerInv, KeptInv, run, records
<1>7. HistoryInv'
  BY <1>1, <1>3 DEF HandlerInv, HistoryInv, run, records
<1>8. QED BY <1>4, <1>5, <1>6, <1>7 DEF HandlerInv

LEMMA BeginTaskKeepsHandlerInv ==
    ASSUME HandlerInv, Inv', BeginTask
    PROVE  HandlerInv'
<1>1. PICK t \in Task : queue = <<t>> /\ stage[t] = "queued"
  BY DEF HandlerInv, Inv, QueueInv, BeginTask, BeginRun
<1>2. /\ work = Idle /\ work.task = None /\ work' = [task |-> t, at |-> "run"]
      /\ stage' = [stage EXCEPT ![t] = "running"] /\ stage \in [Task -> Stage]
      /\ phase' = "open" /\ verdict' = "none" /\ committed' = FALSE
      /\ UNCHANGED <<cancelled, callback, branches, history, pushedOut, posted, stopTold>>
  BY <1>1, WorkCases DEF HandlerInv, Inv, TypeOK, BeginTask, BeginRun, records, Idle
<1>3. callback = "none" /\ t \notin branches /\ posted[t] = "nothing"
  BY <1>1, <1>2, WorkCases DEF HandlerInv, RunInv, KeptInv, KnownInv
<1>4. KnownInv'
  BY <1>2 DEF HandlerInv, KnownInv
<1>5. RunInv'
  BY <1>2, <1>3 DEF HandlerInv, RunInv
<1>6. KeptInv'
  BY <1>1, <1>2, <1>3, WorkCases DEF HandlerInv, KeptInv
<1>7. HistoryInv'
  BY <1>1, <1>2 DEF HandlerInv, HistoryInv
<1>8. QED BY <1>4, <1>5, <1>6, <1>7 DEF HandlerInv

LEMMA RunTaskKeepsHandlerInv ==
    ASSUME HandlerInv, Inv', RunTask
    PROVE  HandlerInv'
<1> DEFINE t == work.task
<1>1. /\ t \in Task /\ work.at = "run" /\ stage[t] = "running" /\ callback = "none"
      /\ UNCHANGED <<active, work, stage, cancelled, callback, history, pushedOut, posted, stopTold>>
  BY WorkCases DEF HandlerInv, Inv, WorkInv, RunInv, RunTask, vars
<1>2. /\ posted[t] = "nothing"
      /\ \A i \in DOMAIN history : history[i].task # t
  BY <1>1 DEF HandlerInv, KeptInv, HistoryInv
<1>3. branches' = IF committed' THEN branches \cup {t} ELSE branches
  BY DEF RunTask
<1>4. /\ committed => committed'
      /\ phase' \in {"open", "committing"} => ~committed' /\ verdict' = "none"
      /\ verdict' = "SUCCESS" => committed'
      /\ verdict' = "CANCELLED" => ~committed' /\ t \in cancelled
      /\ verdict' \in Verdict \cup {"none"}
      /\ phase' \in {"ending", "returned"} => verdict' \in Verdict
  BY <1>1 DEF RunTask, Run!Work, Run!Raise, Run!Cancelled, Run!Failed, Run!Succeeded,
     Run!Commit, Run!Return, HandlerInv, RunInv, KnownInv, Verdict
<1>5. KnownInv'
  BY <1>1, <1>4 DEF HandlerInv, KnownInv
<1>6. RunInv'
  BY <1>1, <1>3, <1>4 DEF HandlerInv, RunInv
<1>7. KeptInv'
  BY <1>1, <1>2, <1>3 DEF HandlerInv, KeptInv
<1>8. HistoryInv'
  BY <1>1, <1>2 DEF HandlerInv, HistoryInv
<1>9. QED BY <1>5, <1>6, <1>7, <1>8 DEF HandlerInv

LEMMA TaskReturnedKeepsHandlerInv ==
    ASSUME HandlerInv, Inv', TaskReturned
    PROVE  HandlerInv'
<1> DEFINE t == work.task
<1>1. /\ t \in Task /\ work.at = "run" /\ stage[t] = "running" /\ phase = "returned"
      /\ work' = [task |-> t, at |-> "complete"]
      /\ stage' = [stage EXCEPT ![t] = "completing"] /\ stage \in [Task -> Stage]
      /\ callback' \in {"record", "tell"}
      /\ UNCHANGED <<cancelled, run, branches, history, pushedOut, posted, stopTold>>
  BY ReleasesItsOwn
     DEF HandlerInv, Inv, TypeOK, WorkInv, TaskReturned, ReleaseSlot
<1>2. posted[t] = "nothing"
  BY <1>1 DEF HandlerInv, KeptInv
<1> HIDE DEF t
<1>3. t = work.task
  BY DEF t
<1>4. KnownInv'
  BY <1>1 DEF HandlerInv, KnownInv, run
<1>5. RunInv'
  BY <1>1, <1>3 DEF HandlerInv, RunInv, run
<1>6. KeptInv'
  BY <1>1, <1>2, <1>3 DEF HandlerInv, KeptInv
<1>7. HistoryInv'
  BY <1>1, <1>3 DEF HandlerInv, HistoryInv, run
<1>8. QED BY <1>4, <1>5, <1>6, <1>7 DEF HandlerInv

LEMMA CallbackKeepsHandlerInv ==
    ASSUME HandlerInv, Inv', Record \/ TellVerdict
    PROVE  HandlerInv'
<1> DEFINE t == work.task
<1>1. /\ t \in Task /\ work.at = "complete" /\ stage[t] = "completing"
      /\ UNCHANGED <<work, stage, cancelled, run, branches, stopTold>>
      /\ callback \in {"record", "tell"} /\ callback' \in {"tell", "end"}
  BY WorkCases DEF HandlerInv, Inv, WorkInv, RunInv, Record, TellVerdict, vars
<1>2. posted[t] = "nothing" /\ verdict \in Verdict /\ (committed <=> t \in branches)
  BY <1>1 DEF HandlerInv, KeptInv, KnownInv, RunInv
<1>3. RunInv'
  BY <1>1 DEF HandlerInv, RunInv, run
<1>4. CASE Record
  <2>1. /\ UNCHANGED posted
        /\ \/ UNCHANGED <<history, pushedOut>>
           \/ AppendRecord([task |-> t, final |-> verdict])
    BY <1>4 DEF Record
  <2>2. KeptInv'
    BY <1>1, <1>2, <2>1 DEF HandlerInv, KeptInv
  <2>3. CASE UNCHANGED <<history, pushedOut>>
    <3>1. KnownInv'
      BY <1>1, <1>2, <2>1, <2>3 DEF HandlerInv, KnownInv, run
    <3>2. HistoryInv'
      BY <1>1, <2>1, <2>3 DEF HandlerInv, HistoryInv, run
    <3>3. QED BY <1>3, <2>2, <3>1, <3>2 DEF HandlerInv
  <2>4. CASE AppendRecord([task |-> t, final |-> verdict])
    <3> DEFINE rec == [task |-> t, final |-> verdict]
    <3>1. rec \in TaskRecord
      BY <1>1, <1>2 DEF TaskRecord
    <3>2. PICK k \in {0, 1} :
              /\ history' \in Seq(TaskRecord) /\ Len(history') <= HistoryLen
              /\ Len(history') \in Nat \ {0} /\ DOMAIN history' = 1..Len(history')
              /\ history'[Len(history')] = rec
              /\ \A i \in 1..(Len(history') - 1) :
                    i + k \in DOMAIN history /\ history'[i] = history[i + k]
              /\ k = 0 => pushedOut' = pushedOut
              /\ k = 1 => /\ 1 \in DOMAIN history
                          /\ pushedOut' = pushedOut \cup {history[1].task}
      BY <2>4, <3>1, AppendToHistory DEF HandlerInv
    <3>3. KnownInv'
      BY <1>1, <1>2, <2>1, <3>2 DEF HandlerInv, KnownInv, run
    <3>4. ASSUME NEW i \in DOMAIN history'
          PROVE  \/ history'[i] = rec
                 \/ \E j \in DOMAIN history : history'[i] = history[j]
      <4>1. i = Len(history') \/ i \in 1..(Len(history') - 1)
        BY <3>2, <3>4
      <4>2. QED BY <3>2, <4>1
    <3>5. \A u \in pushedOut' : u \in pushedOut \/ \E j \in DOMAIN history : u = history[j].task
      BY <3>2
    <3>6. HistoryInv'
      BY <1>1, <1>2, <2>1, <3>4, <3>5 DEF HandlerInv, HistoryInv, run
    <3>7. QED BY <1>3, <2>2, <3>3, <3>6 DEF HandlerInv
  <2>5. QED BY <2>1, <2>3, <2>4
<1>5. CASE TellVerdict
  <2>1. /\ UNCHANGED <<history, pushedOut>> /\ callback' = "end"
        /\ posted' = [posted EXCEPT ![t] = verdict] /\ posted \in [Task -> Verdict \cup {"nothing"}]
    BY <1>5 DEF TellVerdict, HandlerInv, KnownInv
  <2>2. KnownInv'
    BY <1>1, <1>2, <2>1 DEF HandlerInv, KnownInv, run
  <2>3. /\ verdict = "SUCCESS" => t \in branches
        /\ verdict = "CANCELLED" => t \in stopTold /\ t \notin branches
    BY <1>1, <1>2 DEF HandlerInv, RunInv
  <2>4. KeptInv'
    BY <1>1, <1>2, <2>1, <2>3 DEF HandlerInv, KeptInv
  <2>5. HistoryInv'
    BY <1>1, <1>2, <2>1 DEF HandlerInv, HistoryInv, run
  <2>6. QED BY <1>3, <2>2, <2>4, <2>5 DEF HandlerInv
<1>6. QED BY <1>4, <1>5

LEMMA CallbackReturnsKeepsHandlerInv ==
    ASSUME HandlerInv, Inv', CallbackReturns
    PROVE  HandlerInv'
<1> DEFINE t == work.task
<1>1. /\ t \in Task /\ work.at = "complete" /\ stage[t] = "completing"
      /\ work' = Idle /\ work'.at = "idle" /\ work'.task = None
      /\ stage' = [stage EXCEPT ![t] = "over"] /\ stage \in [Task -> Stage]
      /\ callback' = "none"
      /\ UNCHANGED <<cancelled, run, branches, history, pushedOut, posted, stopTold>>
      /\ None \notin Task
  BY WorkCases DEF HandlerInv, Inv, TypeOK, WorkInv, CallbackReturns, EndRun, Idle
<1>2. KnownInv'
  BY <1>1 DEF HandlerInv, KnownInv, run
<1> HIDE DEF t
<1>3. t = work.task
  BY DEF t
<1>5. KeptInv'
  BY <1>1, <1>3 DEF HandlerInv, KeptInv
<1>6. HistoryInv'
  BY <1>1, <1>3 DEF HandlerInv, HistoryInv, run
<1>4. RunInv'
  BY <1>1 DEF HandlerInv, RunInv, run
<1>7. QED BY <1>2, <1>4, <1>5, <1>6 DEF HandlerInv

LEMMA HandlerInvStep == HandlerInv /\ [HandlerNext]_hVars => HandlerInv'
<1> SUFFICES ASSUME HandlerInv, [HandlerNext]_hVars PROVE HandlerInv'
  OBVIOUS
<1>1. Inv'
  <2>1. Inv /\ [Next]_vars
    BY HandlerStepIsRunnerStep DEF HandlerInv
  <2>2. QED BY <2>1, InvStep
<1>2. ASSUME NEW c \in Caller,
             \/ \E t \in Task : HandleTask(c, t) \/ HandleBusy(c, t)
             \/ HandleStop(c) \/ HandleShutdown(c) \/ FinishCall(c)
      PROVE  HandlerInv'
  BY <1>1, <1>2, CallerKeepsHandlerInv
<1>3. CASE BeginTask
  BY <1>1, <1>3, BeginTaskKeepsHandlerInv
<1>4. CASE RunTask
  BY <1>1, <1>4, RunTaskKeepsHandlerInv
<1>5. CASE TaskReturned
  BY <1>1, <1>5, TaskReturnedKeepsHandlerInv
<1>6. CASE Record \/ TellVerdict
  BY <1>1, <1>6, CallbackKeepsHandlerInv
<1>7. CASE CallbackReturns
  BY <1>1, <1>7, CallbackReturnsKeepsHandlerInv
<1>8. CASE UNCHANGED hVars \/ \E t \in Task : SendMessage(t)
  <2>1. UNCHANGED <<work, stage, cancelled, run, callback, branches, history, pushedOut,
                    posted, stopTold>>
    BY <1>8 DEF hVars, vars, handlerVars, records, SendMessage
  <2>2. QED
    BY <1>1, <2>1 DEF HandlerInv, KnownInv, RunInv, KeptInv, HistoryInv, run
<1>9. QED
  BY <1>2, <1>3, <1>4, <1>5, <1>6, <1>7, <1>8 DEF HandlerNext, HandlerWorker

(* A chat shows nothing of a task but the message posted about it.          *)
ChatInv ==
    /\ told \in [Task -> Verdict \cup {"nothing"}]
    /\ \A t \in Task : told[t] \in {"nothing", posted[t]}

LEMMA ChatInvStep ==
    ASSUME HandlerInv, ChatInv, [HandlerNext]_hVars
    PROVE  ChatInv'
<1>1. CASE TellVerdict
  <2>1. /\ callback = "tell" /\ work.task \in Task
        /\ posted' = [posted EXCEPT ![work.task] = verdict] /\ UNCHANGED told
    BY <1>1, WorkCases DEF TellVerdict, HandlerInv, RunInv
  <2>2. posted[work.task] = "nothing"
    BY <2>1 DEF HandlerInv, KeptInv
  <2>3. QED BY <2>1, <2>2 DEF ChatInv, HandlerInv, KnownInv
<1>2. ASSUME NEW t \in Task, SendMessage(t)
      PROVE  ChatInv'
  BY <1>2 DEF SendMessage, ChatInv, HandlerInv, KnownInv
<1>3. CASE UNCHANGED <<posted, told>>
  BY <1>3 DEF ChatInv
<1>4. CASE UNCHANGED hVars
  BY <1>3, <1>4 DEF hVars, handlerVars, records
<1>5. ASSUME NEW c \in Caller,
             \/ \E t \in Task : HandleTask(c, t) \/ HandleBusy(c, t)
             \/ HandleStop(c) \/ HandleShutdown(c) \/ FinishCall(c)
      PROVE  ChatInv'
  BY <1>3, <1>5 DEF HandleTask, HandleBusy, HandleStop, HandleShutdown, FinishCall,
     handlerVars, records
<1>6. CASE BeginTask \/ RunTask \/ TaskReturned \/ Record \/ CallbackReturns
  BY <1>3, <1>6 DEF BeginTask, RunTask, TaskReturned, Record, CallbackReturns, records
<1>7. QED BY <1>1, <1>2, <1>4, <1>5, <1>6 DEF HandlerNext, HandlerWorker

(* What the user and the history are told about a task is what became of    *)
(* it, for every number of tasks and chats, whichever messages get lost.    *)
THEOREM VerdictIsTrueHolds == HandlerSpec => []VerdictIsTrue
<1> DEFINE I == HandlerInv /\ ChatInv
<1>1. HandlerInit => I
  BY HandlerInvInit DEF HandlerInit, ChatInv
<1>2. I /\ [HandlerNext]_hVars => I'
  BY HandlerInvStep, ChatInvStep
<1>3. I => VerdictIsTrue
  <2> SUFFICES ASSUME I PROVE VerdictIsTrue
    OBVIOUS
  <2>1. ASSUME NEW t \in Task
        PROVE  /\ told[t] = "SUCCESS" => t \in branches
               /\ told[t] = "CANCELLED" => t \in stopTold /\ t \notin branches
    BY DEF HandlerInv, KeptInv, ChatInv
  <2>2. ASSUME NEW i \in DOMAIN history
        PROVE  told[history[i].task] \in {"nothing", history[i].final}
    BY <2>2 DEF HandlerInv, HistoryInv, ChatInv
  <2>3. QED BY <2>1, <2>2 DEF VerdictIsTrue
<1> HIDE DEF I
<1>4. QED BY <1>1, <1>2, <1>3, PTL DEF HandlerSpec

-----------------------------------------------------------------------------
(* The order of the records.  Tasks move on in the order of acceptance: one *)
(* is accepted only when those before it have left the slot, and runs only  *)
(* when those before it are over.                                           *)

Left == {"completing", "over"}
Begun == {"running", "completing", "over"}

AcceptedInv ==
    /\ accepted \in Seq(Task)
    /\ \A n \in DOMAIN accepted : stage[accepted[n]] # "new"
    /\ \A t \in Task : stage[t] # "new" => \E n \in DOMAIN accepted : accepted[n] = t
    /\ \A m, n \in DOMAIN accepted : m < n =>
          /\ accepted[m] # accepted[n]
          /\ stage[accepted[m]] \in Left
          /\ stage[accepted[n]] \in Begun => stage[accepted[m]] = "over"

Recorded(t, final) == \E i \in DOMAIN history : history[i] = [task |-> t, final |-> final]

Found(t, final) ==
    \/ Recorded(t, final)
    \/ t \in unrecorded
    \/ t \in pushedOut /\ Len(history) = HistoryLen

RecordInv ==
    /\ callback \in {"none", "record", "tell", "end"}
    /\ callback # "none" => work.at = "complete"
    /\ callback = "record" => /\ \A i \in DOMAIN history : history[i].task # work.task
                              /\ work.task \notin pushedOut
    /\ callback = "tell" /\ verdict = "SUCCESS" => Found(work.task, verdict)
    /\ \A t \in Task : posted[t] = "SUCCESS" => Found(t, "SUCCESS")
    /\ pushedOut # {} => Len(history) = HistoryLen

LEMMA AppendOne ==
    ASSUME NEW S, NEW s \in Seq(S), NEW e \in S
    PROVE  /\ Append(s, e) \in Seq(S)
           /\ Len(s) \in Nat /\ DOMAIN s = 1..Len(s)
           /\ DOMAIN Append(s, e) = 1..(Len(s) + 1)
           /\ \A i \in 1..Len(s) : Append(s, e)[i] = s[i]
           /\ Append(s, e)[Len(s) + 1] = e
  OBVIOUS

LEMMA AcceptedInvStep ==
    ASSUME HandlerInv, AcceptedInv, [HandlerNext]_hVars
    PROVE  AcceptedInv'
<1>1. /\ stage \in [Task -> Stage] /\ None \notin Task
      /\ work = Idle \/ work.task \in Task
      /\ \A c \in Caller : holding[c] # None =>
            holding[c] \in Task /\ stage[holding[c]] = "registered"
  BY WorkCases, RunnerAssumption DEF RunnerAssumption, HandlerInv, Inv, TypeOK, HoldingInv
<1>2. ASSUME NEW c \in Caller, NEW t \in Task, HandleTask(c, t)
      PROVE  AcceptedInv'
  <2>1. /\ active = None /\ stage[t] = "new" /\ stage' = [stage EXCEPT ![t] = "registered"]
        /\ accepted' = Append(accepted, t)
    BY <1>2 DEF HandleTask, Register
  <2>2. \A x \in Task : stage[x] # "new" => stage[x] \in Left
    BY <1>1, <2>1 DEF HandlerInv, Inv, SlotIsHeldByLiveTask, Stage, Left
  <2>3. /\ accepted' \in Seq(Task)
        /\ Len(accepted) \in Nat /\ DOMAIN accepted = 1..Len(accepted)
        /\ DOMAIN accepted' = 1..(Len(accepted) + 1)
        /\ \A i \in 1..Len(accepted) : accepted'[i] = accepted[i]
        /\ accepted'[Len(accepted) + 1] = t
    BY <2>1, AppendOne DEF AcceptedInv
  <2>4. \A i \in 1..Len(accepted) : accepted[i] \in Task
    BY <2>3 DEF AcceptedInv
  <2>5. /\ stage'[t] = "registered"
        /\ \A x \in Task : x # t => stage'[x] = stage[x]
    BY <1>1, <2>1
  <2>6. \A i \in 1..Len(accepted) : accepted[i] # t
    BY <2>1, <2>3 DEF AcceptedInv
  <2>7. \A n \in DOMAIN accepted' : stage'[accepted'[n]] # "new"
    BY <2>3, <2>4, <2>5, <2>6 DEF AcceptedInv
  <2>8. \A x \in Task : stage'[x] # "new" => \E n \in DOMAIN accepted' : accepted'[n] = x
    BY <2>3, <2>5 DEF AcceptedInv
  <2>9. ASSUME NEW m \in DOMAIN accepted', NEW n \in DOMAIN accepted', m < n
        PROVE  /\ accepted'[m] # accepted'[n]
               /\ stage'[accepted'[m]] \in Left
               /\ stage'[accepted'[n]] \in Begun => stage'[accepted'[m]] = "over"
    <3>1. m \in 1..Len(accepted) /\ accepted'[m] = accepted[m]
      BY <2>3, <2>9
    <3>2. CASE n \in 1..Len(accepted)
      BY <2>3, <2>4, <2>5, <2>6, <2>9, <3>1, <3>2 DEF AcceptedInv
    <3>3. CASE n = Len(accepted) + 1
      BY <2>2, <2>3, <2>4, <2>5, <2>6, <3>1, <3>3 DEF AcceptedInv, Begun
    <3>4. QED BY <2>3, <3>2, <3>3
  <2>10. QED BY <2>3, <2>7, <2>8, <2>9 DEF AcceptedInv
<1>3. ASSUME UNCHANGED <<accepted, stage>>
      PROVE  AcceptedInv'
  BY <1>3 DEF AcceptedInv
<1>4. ASSUME UNCHANGED accepted, NEW t \in Task, NEW next \in Stage \ {"new"},
             stage' = [stage EXCEPT ![t] = next],
             \/ next \in {"queued", "lost"} /\ stage[t] = "registered"
             \/ /\ next = "running" /\ stage[t] = "queued"
                /\ \A x \in Task : stage[x] # "completing"
             \/ next = "completing" /\ stage[t] = "running"
             \/ next = "over" /\ stage[t] = "completing"
      PROVE  AcceptedInv'
  <2>1. stage'[t] = next /\ \A x \in Task : x # t => stage'[x] = stage[x]
    BY <1>1, <1>4
  <2>2. \A i \in DOMAIN accepted : accepted[i] \in Task
    BY DEF AcceptedInv
  <2>3. \A n \in DOMAIN accepted : stage'[accepted[n]] # "new"
    BY <1>4, <2>1, <2>2 DEF AcceptedInv
  <2>4. \A x \in Task : stage'[x] # "new" => \E n \in DOMAIN accepted : accepted[n] = x
    BY <1>4, <2>1 DEF AcceptedInv
  <2>5. ASSUME NEW m \in DOMAIN accepted, NEW n \in DOMAIN accepted, m < n
        PROVE  /\ accepted[m] # accepted[n]
               /\ stage'[accepted[m]] \in Left
               /\ stage'[accepted[n]] \in Begun => stage'[accepted[m]] = "over"
    <3>1. /\ accepted[m] # accepted[n] /\ stage[accepted[m]] \in Left
          /\ stage[accepted[n]] \in Begun => stage[accepted[m]] = "over"
      BY <2>5 DEF AcceptedInv
    <3>2. QED BY <1>4, <2>1, <2>2, <3>1 DEF Left, Begun
  <2>6. QED BY <1>4, <2>3, <2>4, <2>5 DEF AcceptedInv
<1>5. ASSUME NEW c \in Caller, FinishCall(c)
      PROVE  AcceptedInv'
  <2>1. CASE HandOver(c) \/ HandOverRefused(c)
    <3>1. PICK next \in {"queued", "lost"} : stage' = [stage EXCEPT ![holding[c]] = next]
      BY <2>1 DEF HandOver, HandOverRefused
    <3>2. holding[c] # None /\ UNCHANGED accepted
      BY <1>5, <2>1 DEF FinishCall, HandOver, HandOverRefused, handlerVars
    <3>3. holding[c] \in Task /\ stage[holding[c]] = "registered"
      BY <1>1, <3>2
    <3>4. QED BY <1>4, <3>1, <3>2, <3>3 DEF Stage
  <2>2. CASE CloseExecutor(c) \/ EndShutdown(c)
    BY <1>3, <1>5, <2>2 DEF FinishCall, CloseExecutor, EndShutdown, handlerVars
  <2>3. QED BY <1>5, <2>1, <2>2 DEF FinishCall, CallerStep
<1>6. CASE BeginTask
  <2>1. PICK t \in Task : queue = <<t>> /\ stage[t] = "queued"
    BY <1>6 DEF BeginTask, BeginRun, HandlerInv, Inv, QueueInv
  <2>2. \A x \in Task : stage[x] # "completing"
    BY <1>1, <1>6 DEF BeginTask, BeginRun, HandlerInv, KeptInv, Idle
  <2>3. stage' = [stage EXCEPT ![t] = "running"] /\ UNCHANGED accepted
    BY <1>6, <2>1 DEF BeginTask, BeginRun
  <2>4. QED BY <1>4, <2>1, <2>2, <2>3 DEF Stage
<1>7. CASE TaskReturned
  <2>1. /\ work.task \in Task /\ stage[work.task] = "running" /\ UNCHANGED accepted
        /\ stage' = [stage EXCEPT ![work.task] = "completing"]
    BY <1>1, <1>7 DEF TaskReturned, ReleaseSlot, HandlerInv, Inv, WorkInv, Idle
  <2>2. QED BY <1>4, <2>1 DEF Stage
<1>8. CASE CallbackReturns
  <2>1. /\ work.task \in Task /\ stage[work.task] = "completing" /\ UNCHANGED accepted
        /\ stage' = [stage EXCEPT ![work.task] = "over"]
    BY <1>1, <1>8 DEF CallbackReturns, EndRun, HandlerInv, Inv, WorkInv, Idle
  <2>2. QED BY <1>4, <2>1 DEF Stage
<1>9. ASSUME \/ RunTask \/ Record \/ TellVerdict \/ UNCHANGED hVars
             \/ \E t \in Task : SendMessage(t)
             \/ \E c \in Caller : \/ HandleStop(c) \/ HandleShutdown(c)
                                  \/ \E t \in Task : HandleBusy(c, t)
      PROVE  AcceptedInv'
  BY <1>3, <1>9 DEF RunTask, Record, TellVerdict, SendMessage, hVars, vars, handlerVars,
     HandleStop, Cancel, HandleShutdown, BeginShutdown, HandleBusy
<1>10. QED
  BY <1>2, <1>5, <1>6, <1>7, <1>8, <1>9 DEF HandlerNext, HandlerWorker

(* A record is written once, after those of all tasks accepted before.      *)
LEMMA RecordKeepsOrder ==
    ASSUME HandlerInv, AcceptedInv, RecordInv, HistoryInOrder, Record,
           AppendRecord([task |-> work.task, final |-> verdict])
    PROVE  HistoryInOrder'
<1> DEFINE t == work.task
           rec == [task |-> t, final |-> verdict]
<1>1. /\ t \in Task /\ stage[t] = "completing" /\ UNCHANGED accepted
      /\ callback = "record" /\ verdict \in Verdict
  BY WorkCases DEF Record, HandlerInv, KnownInv, Inv, WorkInv, RecordInv
<1>2. rec \in TaskRecord
  BY <1>1 DEF TaskRecord
<1>3. PICK k \in {0, 1} :
          /\ Len(history') \in Nat \ {0} /\ DOMAIN history' = 1..Len(history')
          /\ Len(history) \in Nat /\ DOMAIN history = 1..Len(history)
          /\ history'[Len(history')] = rec
          /\ \A i \in 1..(Len(history') - 1) :
                i + k \in DOMAIN history /\ history'[i] = history[i + k]
          /\ k = 0 => pushedOut' = pushedOut
          /\ k = 1 => /\ 1 \in DOMAIN history
                      /\ pushedOut' = pushedOut \cup {history[1].task}
  BY <1>2, AppendToHistory DEF HandlerInv
<1>4. PICK n \in DOMAIN accepted : accepted[n] = t
  BY <1>1 DEF AcceptedInv
<1>5. /\ DOMAIN accepted = 1..Len(accepted) /\ Len(accepted) \in Nat
      /\ \A i \in DOMAIN accepted : accepted[i] \in Task
  BY DEF AcceptedInv
<1>6. ASSUME NEW u \in Task, u # t, stage[u] \in Left
      PROVE  After(u, t)
  <2>1. PICK m \in DOMAIN accepted : accepted[m] = u
    BY <1>6 DEF AcceptedInv, Left
  <2>2. m # n
    BY <1>4, <1>6, <2>1
  <2>3. ~(n < m)
    BY <1>1, <1>4, <1>6, <2>1 DEF AcceptedInv, Left, Begun
  <2>4. m < n
    BY <1>5, <2>2, <2>3
  <2>5. QED BY <1>4, <2>1, <2>4 DEF After
<1>7. \A u, v : After(u, v)' <=> After(u, v)
  BY <1>1 DEF After
<1>8. \A i \in DOMAIN history : After(history[i].task, t)
  BY <1>1, <1>6 DEF HandlerInv, HistoryInv, RecordInv, Left
<1>9. \A u \in pushedOut : After(u, t)
  BY <1>1, <1>6 DEF HandlerInv, HistoryInv, RecordInv, Left
<1>10. ASSUME NEW i \in DOMAIN history', NEW j \in DOMAIN history', i < j
       PROVE  After(history'[i].task, history'[j].task)
  <2>1. /\ i \in 1..(Len(history') - 1) /\ i + k \in DOMAIN history
        /\ history'[i] = history[i + k]
    BY <1>3, <1>10
  <2>2. CASE j = Len(history')
    BY <1>3, <1>8, <2>1, <2>2
  <2>3. CASE j \in 1..(Len(history') - 1)
    <3>1. j + k \in DOMAIN history /\ history'[j] = history[j + k]
      BY <1>3, <2>3
    <3>2. i \in Int /\ j \in Int /\ k \in Int
      BY <1>3
    <3>3. i + k < j + k
      BY <1>10, <3>2
    <3>4. QED BY <2>1, <3>1, <3>3 DEF HistoryInOrder
  <2>4. QED BY <1>3, <2>2, <2>3
<1>11. ASSUME NEW u \in pushedOut', NEW i \in DOMAIN history'
       PROVE  After(u, history'[i].task)
  <2>1. u \in pushedOut \/ (k = 1 /\ 1 \in DOMAIN history /\ u = history[1].task)
    BY <1>3
  <2>2. CASE i = Len(history')
    BY <1>3, <1>8, <1>9, <2>1, <2>2
  <2>3. CASE i \in 1..(Len(history') - 1)
    <3>1. i + k \in DOMAIN history /\ history'[i] = history[i + k]
      BY <1>3, <2>3
    <3>2. i \in Nat \ {0}
      BY <1>3
    <3>3. k = 1 => 1 < i + k
      BY <3>2
    <3>4. QED BY <2>1, <3>1, <3>3 DEF HistoryInOrder
  <2>4. QED BY <1>3, <2>2, <2>3
<1>12. QED BY <1>7, <1>10, <1>11 DEF HistoryInOrder

LEMMA HistoryInOrderStep ==
    ASSUME HandlerInv, AcceptedInv, RecordInv, HistoryInOrder, [HandlerNext]_hVars
    PROVE  HistoryInOrder'
<1>1. CASE Record
  <2>1. CASE UNCHANGED <<history, pushedOut>>
    BY <1>1, <2>1 DEF Record, HistoryInOrder, After
  <2>2. CASE AppendRecord([task |-> work.task, final |-> verdict])
    BY <1>1, <2>2, RecordKeepsOrder
  <2>3. QED BY <1>1, <2>1, <2>2 DEF Record
<1>2. ASSUME NEW c \in Caller, NEW t \in Task, HandleTask(c, t)
      PROVE  HistoryInOrder'
  <2>1. /\ accepted' = Append(accepted, t) /\ UNCHANGED <<history, pushedOut>>
    BY <1>2 DEF HandleTask, records
  <2>2. /\ DOMAIN accepted \subseteq DOMAIN accepted'
        /\ \A i \in DOMAIN accepted : accepted'[i] = accepted[i]
    BY <2>1, AppendOne DEF AcceptedInv
  <2>3. \A u, v : After(u, v) => After(u, v)'
    BY <2>2 DEF After
  <2>4. QED BY <2>1, <2>3 DEF HistoryInOrder
<1>3. ASSUME \/ BeginTask \/ RunTask \/ TaskReturned \/ TellVerdict \/ CallbackReturns
             \/ UNCHANGED hVars \/ \E t \in Task : SendMessage(t)
             \/ \E c \in Caller : \/ HandleStop(c) \/ HandleShutdown(c) \/ FinishCall(c)
                                  \/ \E t \in Task : HandleBusy(c, t)
      PROVE  HistoryInOrder'
  <2>1. UNCHANGED <<accepted, history, pushedOut>>
    BY <1>3 DEF BeginTask, RunTask, TaskReturned, TellVerdict, CallbackReturns, SendMessage,
       hVars, handlerVars, HandleStop, HandleShutdown, FinishCall, HandleBusy, records
  <2>2. QED BY <2>1 DEF HistoryInOrder, After
<1>4. QED BY <1>1, <1>2, <1>3 DEF HandlerNext, HandlerWorker

(* A task's message waits for its record.                                   *)
LEMMA RecordInvStep ==
    ASSUME HandlerInv, RecordInv, [HandlerNext]_hVars
    PROVE  RecordInv'
<1>1. /\ posted \in [Task -> Verdict \cup {"nothing"}]
      /\ work = Idle \/ work.task \in Task
      /\ work.at = "run" => stage[work.task] = "running"
      /\ \A i \in DOMAIN history : stage[history[i].task] \in {"completing", "over"}
      /\ \A u \in pushedOut : stage[u] \in {"completing", "over"}
  BY WorkCases DEF HandlerInv, KnownInv, Inv, WorkInv, HistoryInv
<1>2. CASE TaskReturned
  <2>1. /\ work.at = "run" /\ work' = [work EXCEPT !.at = "complete"]
        /\ UNCHANGED <<history, pushedOut, posted, unrecorded, verdict>>
        /\ callback' = IF verdict = "raised" THEN "tell" ELSE "record"
    BY <1>2 DEF TaskReturned, ReleaseSlot, run
  <2>2. work'.at = "complete" /\ work'.task = work.task
    BY <1>1, <2>1, WorkCases DEF HandlerInv, Inv, TypeOK, Work, Idle
  <2>3. (\A i \in DOMAIN history : history[i].task # work.task) /\ work.task \notin pushedOut
    BY <1>1, <2>1
  <2>4. QED BY <2>1, <2>2, <2>3 DEF RecordInv, Recorded, Found
<1>3. CASE Record
  <2>1. /\ callback' = "tell" /\ UNCHANGED <<work, posted, verdict>> /\ work.at = "complete"
        /\ work.task \in Task
    BY <1>1, <1>3, WorkCases DEF Record, vars, run, RecordInv, HandlerInv
  <2>2. CASE UNCHANGED <<history, pushedOut>> /\ unrecorded' = unrecorded \cup {work.task}
    BY <2>1, <2>2 DEF RecordInv, Recorded, Found
  <2>3. CASE /\ UNCHANGED unrecorded
             /\ AppendRecord([task |-> work.task, final |-> verdict])
    <3> DEFINE rec == [task |-> work.task, final |-> verdict]
    <3>0. rec \in TaskRecord
      BY <2>1 DEF HandlerInv, KnownInv, TaskRecord
    <3>1. PICK k \in {0, 1} :
          /\ Len(history') \in Nat \ {0} /\ DOMAIN history' = 1..Len(history')
          /\ Len(history') <= HistoryLen
          /\ Len(history) \in Nat /\ DOMAIN history = 1..Len(history)
          /\ history'[Len(history')] = rec
          /\ Len(history') = Len(history) + 1 - k
          /\ \A i \in 1..(Len(history') - 1) :
                i + k \in DOMAIN history /\ history'[i] = history[i + k]
          /\ k = 0 => pushedOut' = pushedOut
          /\ k = 1 => /\ Len(history) = HistoryLen /\ 1 \in DOMAIN history
                      /\ pushedOut' = pushedOut \cup {history[1].task}
      BY <2>3, <3>0, AppendToHistory DEF HandlerInv
    <3>2. HistoryLen \in Nat /\ Len(history) <= HistoryLen
      BY HistoryAssumption DEF HistoryAssumption, HandlerInv, KnownInv
    <3>3. /\ Len(history) = HistoryLen => Len(history') = HistoryLen
          /\ k = 1 => Len(history') = HistoryLen
          /\ pushedOut \subseteq pushedOut'
      BY <3>1, <3>2
    <3>4. ASSUME NEW u, NEW f, NEW j \in DOMAIN history, history[j] = [task |-> u, final |-> f]
          PROVE  Found(u, f)'
      <4>1. CASE k = 1 /\ j = 1
        BY <3>1, <3>3, <3>4, <4>1 DEF Found
      <4>2. CASE k = 0 \/ j # 1
        <5>1. j - k \in 1..(Len(history') - 1) /\ (j - k) + k = j
          BY <3>1, <4>2
        <5>2. j - k \in DOMAIN history' /\ history'[j - k] = history[j]
          BY <3>1, <5>1
        <5>3. QED BY <3>4, <5>2 DEF Found, Recorded
      <4>3. QED BY <4>1, <4>2
    <3>5. \A u, f : Found(u, f) => Found(u, f)'
      BY <2>3, <3>3, <3>4 DEF Found, Recorded
    <3>6. Found(work.task, verdict)'
      BY <2>1, <3>1 DEF Recorded, Found
    <3>7. pushedOut' # {} => Len(history') = HistoryLen
      BY <3>1, <3>3 DEF RecordInv
    <3>8. QED BY <2>1, <2>3, <3>5, <3>6, <3>7 DEF RecordInv
  <2>4. QED BY <1>3, <2>2, <2>3 DEF Record
<1>4. CASE TellVerdict
  <2>1. /\ callback = "tell" /\ callback' = "end" /\ posted' = [posted EXCEPT ![work.task] = verdict]
        /\ UNCHANGED <<work, history, pushedOut, unrecorded, verdict>>
    BY <1>4 DEF TellVerdict, vars, run
  <2>2. QED BY <1>1, <2>1 DEF RecordInv, Recorded, Found
<1>5. CASE BeginTask \/ RunTask \/ CallbackReturns
  <2>1. /\ callback = "none" \/ CallbackReturns
        /\ callback' = "none"
        /\ UNCHANGED <<history, pushedOut, unrecorded, posted>>
    BY <1>5 DEF HandlerInv, RunInv, RecordInv, BeginTask, BeginRun, RunTask, CallbackReturns,
       records, Idle
  <2>2. QED BY <2>1 DEF RecordInv, Recorded, Found
<1>6. ASSUME \/ UNCHANGED hVars \/ \E t \in Task : SendMessage(t)
             \/ \E c \in Caller : \/ HandleStop(c) \/ HandleShutdown(c) \/ FinishCall(c)
                                  \/ \E t \in Task : HandleTask(c, t) \/ HandleBusy(c, t)
      PROVE  RecordInv'
  <2>1. UNCHANGED <<work, history, pushedOut, unrecorded, posted, callback, verdict>>
    BY <1>6 DEF hVars, vars, handlerVars, records, run, SendMessage, HandleTask, HandleBusy, HandleStop,
       HandleShutdown, FinishCall, Register, Cancel, BeginShutdown, CallerStep, HandOver,
       HandOverRefused, CloseExecutor, EndShutdown
  <2>2. QED BY <2>1 DEF RecordInv, Recorded, Found
<1>7. QED BY <1>2, <1>3, <1>4, <1>5, <1>6 DEF HandlerNext, HandlerWorker

(* Records come in the order of acceptance, although the slot is free and   *)
(* the next task accepted before a record is written; a full history, of    *)
(* whatever length, drops the earliest first; and when a chat reads "done",  *)
(* /push finds the task unless its record was refused or is among those     *)
(* dropped by a history full of later ones.                                 *)
THEOREM HistoryServesPushHolds == HandlerSpec => []HistoryServesPush
<1> DEFINE H == HandlerInv /\ ChatInv
           I == AcceptedInv /\ RecordInv /\ HistoryInOrder
<1>1. HandlerInit => H /\ I
  <2> SUFFICES ASSUME HandlerInit PROVE H /\ I
    OBVIOUS
  <2>1. H
    BY HandlerInvInit DEF HandlerInit, ChatInv
  <2>2. AcceptedInv /\ HistoryInOrder
    BY DEF HandlerInit, Init, AcceptedInv, HistoryInOrder
  <2>3. RecordInv
    BY DEF HandlerInit, Init, RecordInv
  <2>4. QED BY <2>1, <2>2, <2>3
<1>2. H /\ [HandlerNext]_hVars => H'
  BY HandlerInvStep, ChatInvStep
<1>3. H /\ I /\ [HandlerNext]_hVars => I'
  BY AcceptedInvStep, RecordInvStep, HistoryInOrderStep
<1>4. H /\ I => HistoryServesPush
  BY DEF ChatInv, RecordInv, Recorded, Found, HistoryServesPush, PushFindsTask
<1> HIDE DEF H, I
<1>5. QED BY <1>1, <1>2, <1>3, <1>4, PTL DEF HandlerSpec
=============================================================================
