----------------------------- MODULE TaskHandler -----------------------------
(***************************************************************************)
(* make_real_task_handler of core/real_task_handler.py together with        *)
(* make_stop_handler of core/bot_runner.py: what the threads of the bots    *)
(* and the worker thread do to one BackgroundTaskRunner, to the task        *)
(* history and to the chats.                                                *)
(*                                                                         *)
(* The runner is BackgroundRunner; the run of a task is TaskRun, which      *)
(* SandboxRun implements.  A task here is one message that passed the       *)
(* handler's own checks (tier, runtime, artifacts, task id).                *)
(***************************************************************************)
EXTENDS BackgroundRunner, Integers

CONSTANT HistoryLen  \* the task history is a ring of so many records (50)

ASSUME HistoryAssumption == HistoryLen \in Nat \ {0}

VARIABLES
    phase, verdict, committed,  \* the run of work.task, see TaskRun
    callback,   \* what on_complete does next
    branches,   \* the tasks whose branch has a commit
    history,    \* the records of the task history
    pushedOut,  \* the tasks whose record a full history has dropped
    unrecorded, \* the tasks whose record raised (the database), suppressed
    posted,     \* the final message about each task, as given to the event loop
    inFlight,   \* the tasks whose final message the loop has still to send
    told,       \* the final message about each task in its chat
    lost,       \* the tasks whose final message was not sent, or failed
    stopTold,   \* the tasks /stop said it has stopped
    refused,    \* the tasks turned away with "busy"
    accepted    \* the tasks in the order the runner accepted them

run == <<phase, verdict, committed>>
log == <<history, pushedOut, unrecorded>>
chat == <<inFlight, told, lost>>
records == <<callback, branches, log, posted, chat>>
handlerVars == <<run, records, stopTold, refused, accepted>>
hVars == <<vars, handlerVars>>

Verdict == {"SUCCESS", "FAIL", "BLOCKED", "CANCELLED", "raised"}

HandlerInit ==
    /\ Init
    /\ phase = "returned" /\ verdict = "none" /\ committed = FALSE
    /\ callback = "none"
    /\ branches = {} /\ unrecorded = {} /\ stopTold = {} /\ refused = {}
    /\ history = <<>> /\ pushedOut = {} /\ accepted = <<>>
    /\ posted = [t \in Task |-> "nothing"]
    /\ told = [t \in Task |-> "nothing"]
    /\ inFlight = {} /\ lost = {}

-----------------------------------------------------------------------------
(* The threads of the bots.                                                *)

(* _handle submits; a free runner accepts, and the ack is sent when submit  *)
(* returns.                                                                 *)
HandleTask(c, t) ==
    /\ Register(c, t)
    /\ accepted' = Append(accepted, t)
    /\ UNCHANGED <<run, records, stopTold, refused>>

(* RunnerBusyError: the user is told what the runner is at and that this    *)
(* task will be next.                                                       *)
HandleBusy(c, t) ==
    /\ Free(c) /\ ~shut /\ active # None /\ stage[t] = "new"
    /\ refused' = refused \cup {t}
    /\ UNCHANGED <<vars, run, records, stopTold, accepted>>

HandleStop(c) ==
    /\ Cancel(c)
    /\ stopTold' = stopTold \cup {active}
    /\ UNCHANGED <<run, records, refused, accepted>>

FinishCall(c) ==
    /\ CallerStep(c)
    /\ UNCHANGED handlerVars

HandleShutdown(c) ==
    /\ BeginShutdown(c)
    /\ UNCHANGED handlerVars

-----------------------------------------------------------------------------
(* The worker thread.                                                      *)

(* The token the run polls is the one submit made for its task.            *)
Run == INSTANCE TaskRun WITH token <- work.task \in cancelled

BeginTask ==
    /\ BeginRun
    /\ phase' = "open" /\ verdict' = "none" /\ committed' = FALSE
    /\ UNCHANGED <<records, stopTold, refused, accepted>>

RunTask ==
    /\ work.at = "run"
    /\ UNCHANGED vars
    /\ Run!Work
    /\ branches' = IF committed' THEN branches \cup {work.task} ELSE branches
    /\ UNCHANGED <<callback, log, posted, chat, stopTold, refused, accepted>>

(* The slot is free from here on; a run that raised is not recorded.       *)
TaskReturned ==
    /\ ReleaseSlot
    /\ phase = "returned"
    /\ callback' = IF verdict = "raised" THEN "tell" ELSE "record"
    /\ UNCHANGED <<run, branches, log, posted, chat, stopTold, refused, accepted>>

(* A full history drops its oldest record for the new one.                  *)
AppendRecord(record) ==
    IF Len(history) < HistoryLen
      THEN history' = Append(history, record) /\ UNCHANGED pushedOut
      ELSE /\ history' = Append(Tail(history), record)
           /\ pushedOut' = pushedOut \cup {Head(history).task}

Record ==
    /\ callback = "record"
    /\ callback' = "tell"
    /\ \/ /\ AppendRecord([task |-> work.task, final |-> verdict])
          /\ UNCHANGED unrecorded
       \/ /\ unrecorded' = unrecorded \cup {work.task}
          /\ UNCHANGED <<history, pushedOut>>
    /\ UNCHANGED <<vars, run, branches, posted, chat, stopTold, refused, accepted>>

(* Mutant of TellVerdict: the message is about the task in the slot.       *)
TellActive ==
    /\ callback = "tell"
    /\ callback' = "end"
    /\ LET t == IF active = None THEN work.task ELSE active IN
        /\ posted' = [posted EXCEPT ![t] = verdict]
        /\ inFlight' = inFlight \cup {t}
    /\ UNCHANGED <<vars, run, branches, log, told, lost,
                   stopTold, refused, accepted>>

(* _safe_send_envelope makes a coroutine for the coordinator's event loop    *)
(* and returns: whatever is raised on the way is suppressed or logged, the   *)
(* message is lost, and the worker goes on.                                 *)
TellVerdict ==
    /\ callback = "tell"
    /\ callback' = "end"
    /\ posted' = [posted EXCEPT ![work.task] = verdict]
    /\ \/ inFlight' = inFlight \cup {work.task} /\ UNCHANGED lost
       \/ lost' = lost \cup {work.task} /\ UNCHANGED inFlight
    /\ UNCHANGED <<vars, run, branches, log, told, stopTold, refused, accepted>>

CallbackReturns ==
    /\ callback = "end"
    /\ EndRun
    /\ callback' = "none"
    /\ UNCHANGED <<run, branches, log, posted, chat, stopTold, refused, accepted>>

-----------------------------------------------------------------------------
(* The event loop: a message is sent once, in no order among the others, and *)
(* a failure, or a loop that ends first, is at most logged.                  *)
SendMessage(t) ==
    /\ t \in inFlight
    /\ inFlight' = inFlight \ {t}
    /\ \/ told' = [told EXCEPT ![t] = posted[t]] /\ UNCHANGED lost
       \/ lost' = lost \cup {t} /\ UNCHANGED told
    /\ UNCHANGED <<vars, run, callback, branches, log, posted,
                   stopTold, refused, accepted>>

-----------------------------------------------------------------------------
HandlerWorker == BeginTask \/ RunTask \/ TaskReturned \/ Record \/ TellVerdict \/ CallbackReturns

HandlerNext ==
    \/ \E c \in Caller :
        \/ \E t \in Task : HandleTask(c, t) \/ HandleBusy(c, t)
        \/ HandleStop(c) \/ HandleShutdown(c) \/ FinishCall(c)
    \/ HandlerWorker
    \/ \E t \in Task : SendMessage(t)

(* As in BackgroundRunner; that a run returns is part of TaskRun.  The loop  *)
(* comes round to every message, if only to drop it when it ends.           *)
HandlerSpec ==
    /\ HandlerInit /\ [][HandlerNext]_hVars
    /\ WF_hVars(HandlerWorker)
    /\ \A c \in Caller : WF_hVars(FinishCall(c))
    /\ \A t \in Task : WF_hVars(SendMessage(t))

-----------------------------------------------------------------------------
(* Properties.                                                             *)

(* What the user is told is true: "done" only with a commit on the branch,  *)
(* "cancelled, no commit made" only for a task /stop was pressed on and     *)
(* without a commit, although other tasks come and go meanwhile; and the    *)
(* history never says something else than the chat.                         *)
VerdictIsTrue ==
    /\ \A t \in Task :
        /\ told[t] = "SUCCESS" => t \in branches
        /\ told[t] = "CANCELLED" => t \in stopTold /\ t \notin branches
    /\ \A i \in DOMAIN history :
        told[history[i].task] \in {"nothing", history[i].final}

After(t, u) ==
    \E m, n \in DOMAIN accepted : m < n /\ accepted[m] = t /\ accepted[n] = u

(* Records come in the order in which the tasks were accepted, each once,   *)
(* although the next task is accepted before a record is written; and a full *)
(* history drops the records of earlier tasks only.                         *)
HistoryInOrder ==
    /\ \A i, j \in DOMAIN history : i < j => After(history[i].task, history[j].task)
    /\ \A t \in pushedOut : \A i \in DOMAIN history : After(t, history[i].task)

(* When the user reads "done, push it with /push", /push finds the task,    *)
(* unless the database refused the record, or as many later tasks as the     *)
(* history holds have been recorded since.                                  *)
PushFindsTask ==
    \A t \in Task : told[t] = "SUCCESS" =>
        \/ \E i \in DOMAIN history : history[i] = [task |-> t, final |-> "SUCCESS"]
        \/ t \in unrecorded
        \/ t \in pushedOut /\ Len(history) = HistoryLen

(* What /push and /pr need of the history.                                  *)
HistoryServesPush == HistoryInOrder /\ PushFindsTask

(* A task the executor took ends in a final message, whatever happens to    *)
(* the run, the history or the runner: the chat shows it, or its one send    *)
(* failed, which nobody repairs (real_task_handler.py:500-502 suppresses,    *)
(* run_telegram_bot.py:360-379 only logs).                                  *)
TakenTaskIsReported ==
    \A t \in Task : stage[t] = "queued" ~> (told[t] # "nothing" \/ t \in lost)
=============================================================================
