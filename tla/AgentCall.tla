----------------------------- MODULE AgentCall ------------------------------
(***************************************************************************)
(* A call of one of the pipeline's agents (core/dispatcher_agents.py): the   *)
(* models of the tier are tried in order (core/llm_dispatcher.py,            *)
(* core/model_tier.py), and instead of an answer a model may ask another     *)
(* agent (core/agent_collaboration.py), which goes over the AgentBus and     *)
(* through the models again.  Tasks run one at a time, in one thread.        *)
(***************************************************************************)
EXTENDS AgentBus

CONSTANTS
    Askable,        \* the roles that may be asked
    Models,         \* length of every role's chain
    MaxConsults,    \* max_consultations_per_call
    Now,            \* what time.time() may return; it may step back
    MaxLog,         \* bound: no call that could take the log beyond it
    MaxCrashes,     \* bound: crashes
    None

ASSUME CallAssumption ==
    /\ Models \in Nat \ {0} /\ MaxConsults \in Nat \ {0}
    /\ Now \subseteq Nat \ {0}
    /\ None \notin Task \cup Role \cup Askable

VARIABLES
    task,      \* the running task
    phase,     \* where the call is: idle, dispatch, publish, consult, answered,
               \* returned, raised
    role,      \* the agent called
    asked,     \* the agent it asks
    request,   \* the message it asked with
    model,     \* the model of the chain that is tried
    consults,  \* consultations_used
    total,     \* total_attempts, and the models that answered
    usage,     \* response_usage: what the registry keeps of the last call
    posts,     \* requests to the models since the call began
    crashes

callVars == <<task, phase, role, asked, request, model, consults, total, usage,
              posts, crashes>>
vars == <<busVars, callVars>>

Nothing == [answers |-> 0, attempts |-> 0]

Init ==
    /\ BusInit
    /\ task = None /\ phase = "idle" /\ role = None /\ asked = None /\ request = 0
    /\ model = 1 /\ consults = 0 /\ total = Nothing /\ posts = Nothing
    /\ usage = Nothing /\ crashes = 0

-----------------------------------------------------------------------------
(* The task, under an identifier of its own: its thread is opened and its       *)
(* registry of agents built first.                                            *)
StartTask(t) ==
    /\ task = None /\ ThreadOf(t) = {} /\ task' = t
    /\ \E now \in Now : OpenThread(t, now)
    /\ UNCHANGED <<log, projecting, throttle, outbox, undelivered, missed, lost, epoch, phase, role,
                   asked, request, model, consults, total, usage, posts, crashes>>

(* What is left of a call is never read again.                                *)
NoCall ==
    /\ role' = None /\ asked' = None /\ request' = 0 /\ model' = 1 /\ consults' = 0
    /\ total' = Nothing /\ usage' = Nothing /\ posts' = Nothing

EndTask ==
    /\ task # None /\ phase \in {"idle", "returned", "raised"}
    /\ task' = None /\ phase' = "idle" /\ NoCall
    /\ UNCHANGED <<busVars, crashes>>

Invoke(r) ==
    /\ task # None /\ phase \in {"idle", "returned"}
    /\ Len(log) + 2 * MaxConsults <= MaxLog
    /\ phase' = "dispatch" /\ role' = r /\ asked' = None /\ request' = 0
    /\ model' = 1 /\ consults' = 0 /\ total' = Nothing /\ posts' = Nothing
    /\ usage' = Nothing
    /\ UNCHANGED <<busVars, task, crashes>>

-----------------------------------------------------------------------------
(* LLMDispatcher.dispatch, one model per step.                              *)

(* Counted up to one more than a call can make.                               *)
Posted ==
    IF posts.attempts > Models * (2 * MaxConsults + 1) THEN posts.attempts
    ELSE posts.attempts + 1

Dispatching == phase \in {"dispatch", "consult"}
CallIs == UNCHANGED <<task, role, asked, request, usage, crashes>>

(* Plausible bug: after the last model of the chain comes the first.          *)
EndOfChainNever == FALSE
EndOfChain == model = Models

(* A timeout, a lost connection, 429, 5xx, another 4xx, or an answer without   *)
(* text: the next model is tried, if there is one.                            *)
ModelFails ==
    /\ Dispatching
    /\ posts' = [posts EXCEPT !.attempts = Posted]
    /\ model' = (model % Models) + 1
    /\ phase' = IF EndOfChain THEN "raised" ELSE phase
    /\ CallIs /\ UNCHANGED <<busVars, consults, total>>

(* 401, 402, 403: no model is tried after it.                                 *)
ModelRefuses ==
    /\ Dispatching
    /\ posts' = [posts EXCEPT !.attempts = Posted]
    /\ model' = 1 /\ phase' = "raised"
    /\ CallIs /\ UNCHANGED <<busVars, consults, total>>

Answered(u) == [answers |-> u.answers + 1, attempts |-> u.attempts + model]

(* Plausible bug: what the other agent's answer took is not added.            *)
TotalOfCaller == IF phase = "consult" THEN total ELSE Answered(total)
TotalWithAnswer == Answered(total)

ModelAnswers(next) ==
    /\ Dispatching
    /\ posts' = [answers |-> posts.answers + 1, attempts |-> Posted]
    /\ total' = TotalWithAnswer /\ model' = 1
    /\ phase' = next

(* _invoke_agent: the final answer ...                                        *)
Return ==
    /\ phase = "dispatch" /\ ModelAnswers("returned")
    /\ usage' = total'
    /\ UNCHANGED <<busVars, task, role, asked, request, consults, crashes>>

(* ... a request to ask another agent, within the limit and of an agent that  *)
(* may be asked ...                                                          *)
AskOther(r) ==
    /\ phase = "dispatch" /\ consults < MaxConsults /\ r # role
    /\ ModelAnswers("publish") /\ asked' = r
    /\ UNCHANGED <<busVars, task, role, request, consults, usage, crashes>>

(* ... or one that is refused: beyond the limit, of oneself, of an agent that  *)
(* cannot be asked, or with a question that is too long or no text.           *)
AskInVain ==
    /\ phase = "dispatch" /\ ModelAnswers("raised")
    /\ CallIs /\ UNCHANGED <<busVars, consults>>

-----------------------------------------------------------------------------
(* run_consultation.                                                        *)

RequestTime(now) ==
    LET last == threads[TheThread(task)].last IN IF now > last THEN now ELSE last

(* math.nextafter(request_message.created_at, math.inf)                       *)
NextAfter(at) == at + 1

Request(now) ==
    [thread |-> TheThread(task), re |-> 0, at |-> RequestTime(now),
     from |-> role, to |-> asked]

ReplyTo(id) ==
    [thread |-> log[id].thread, re |-> id, at |-> NextAfter(log[id].at),
     from |-> asked, to |-> role]

PublishRequest ==
    /\ phase = "publish"
    /\ \E now \in Now : Persist(Request(now))
    /\ request' = Len(log')
    /\ phase' = "consult"
    /\ UNCHANGED <<task, role, asked, model, consults, total, usage, posts, crashes>>

(* The answer of the agent that was asked; it may not ask in its turn.         *)
OtherAnswers ==
    /\ phase = "consult" /\ projecting = 0
    /\ ModelAnswers("answered")
    /\ CallIs /\ UNCHANGED <<busVars, consults>>

OtherAsks ==
    /\ phase = "consult" /\ projecting = 0
    /\ ModelAnswers("raised")
    /\ CallIs /\ UNCHANGED <<busVars, consults>>

PublishReply ==
    /\ phase = "answered" /\ Persist(ReplyTo(request))
    /\ consults' = consults + 1 /\ phase' = "dispatch"
    /\ UNCHANGED <<task, role, asked, request, model, total, usage, posts, crashes>>

(* Projection comes before anything else the call does; raising, it ends it.   *)
ProjectMessage ==
    \/ /\ \E sentStale, sent \in BOOLEAN : Project(sentStale, sent)
       /\ UNCHANGED callVars
    \/ /\ Skip \/ \E sentStale \in BOOLEAN : ProjectAndRaise(sentStale)
       /\ phase' = "raised"
       /\ UNCHANGED <<task, role, asked, request, model, consults, total, usage,
                      posts, crashes>>

(* The transaction fails, or anything else in a consultation raises.           *)
ConsultationFails ==
    /\ phase \in {"publish", "answered"} /\ projecting = 0
    /\ phase' = "raised"
    /\ UNCHANGED <<busVars, task, role, asked, request, model, consults, total, usage,
                   posts, crashes>>

FlushThread(t) == phase = "idle" /\ Flush(t) /\ UNCHANGED callVars

Crash ==
    /\ crashes < MaxCrashes /\ crashes' = crashes + 1
    /\ BusCrash
    /\ task' = None /\ phase' = "idle" /\ NoCall

Free == projecting = 0

CallActs ==
    \/ ProjectMessage
    \/ Free /\ ( \/ ModelFails \/ ModelRefuses \/ Return \/ AskInVain
                 \/ \E r \in Askable : AskOther(r)
                 \/ PublishRequest \/ OtherAnswers \/ OtherAsks \/ PublishReply
                 \/ ConsultationFails )

Next ==
    \/ \E t \in Task : StartTask(t)
    \/ EndTask
    \/ \E r \in Role : Invoke(r)
    \/ CallActs
    \/ \E t \in Thread : FlushThread(t)
    \/ \E p \in DOMAIN outbox : SendFails(p) /\ UNCHANGED callVars
    \/ Crash

(* A request to a model has a timeout; the rest is the thread's own work.     *)
Spec == Init /\ [][Next]_vars /\ WF_vars(CallActs)

-----------------------------------------------------------------------------
(* A thread reads like a conversation, even when the clock steps back: times    *)
(* do not go back, and an answer comes right after its question, later than     *)
(* it, from the one asked to the one who asked.  A question may stay without     *)
(* an answer, when the call fails.                                            *)
RepliesFollowRequests ==
    \A i \in Id :
       /\ \A j \in OfThread(log[i].thread) : j < i => log[j].at <= log[i].at
       /\ log[i].re # 0 =>
             LET q == log[log[i].re]
             IN  /\ q.re = 0 /\ q.thread = log[i].thread /\ q.at < log[i].at
                 /\ q.from = log[i].to /\ q.to = log[i].from
                 /\ \A j \in OfThread(log[i].thread) : j < i => j <= log[i].re

(* What is handed over to the chat is the conversation the agents had: in the  *)
(* order of the log, with answers after their questions, and throttled.        *)
PostsAreConversation == PostsFollowLog /\ BurstsAreThrottled /\ RepliesFollowRequests

(* What a call reports as its usage is everything it asked of the models: every  *)
(* attempt, failed ones too, its own and those of the agents it asked.          *)
UsageIsWhole == phase = "returned" => usage = posts

(* An agent's call ends, however often it wants to ask others.                 *)
CallEnds == phase \notin {"idle", "returned", "raised"} ~> phase \in {"idle", "returned", "raised"}
=============================================================================
