------------------------------ MODULE OwnerChat ------------------------------
(***************************************************************************)
(* The owner's private chat with one secondary agent bot:                   *)
(*   - TelegramBridge.handle, which the bot's thread runs for one message   *)
(*     after another (core/telegram_bridge.py);                             *)
(*   - the hook that first hands over the notifications queued for the      *)
(*     agent, and the two wrappers around the task handler                  *)
(*     (core/bot_runner.py): which project the message is about, and the    *)
(*     agent's direct answer.  What neither wrapper answers goes on to the  *)
(*     real task handler, which may start the pipeline of a project;        *)
(*   - the queue of notifications (core/agent_owner_notifications.py), into *)
(*     which other threads put rows at any time.                            *)
(*                                                                         *)
(* Every row of these tables is keyed by the agent's role and the thread of *)
(* that agent's bot alone works on it, so one role stands for all.  A call  *)
(* of StateDB is one transaction and one action.  Reads between which only  *)
(* this bot can write are one action with the step that uses them.  A role  *)
(* without a persona gets no bot (core/multi_bot_runtime.py), so the agent  *)
(* always has one.                                                          *)
(***************************************************************************)
EXTENDS Naturals, Sequences, FiniteSets, SequencesExt

CONSTANTS
    Project,        \* projects, and slugs of projects
    MaxNotes,       \* bound: rows put into the queue
    MaxTranscript,  \* DEFAULT_AGENT_DM_MESSAGE_MAXLEN, 20 in the code
    MaxFaults,      \* bound: crashes, failed sends, refused transactions
    None

ASSUME ChatAssumption ==
    /\ IsFiniteSet(Project) /\ None \notin Project
    /\ Project \cap {"plain", "command", "unreadable"} = {}
    /\ MaxTranscript \in Nat \ {0}
    /\ MaxNotes \in Nat /\ MaxFaults \in Nat

VARIABLES
    registered,  \* the projects in the registry
    mine,        \* those that belong to this owner
    live,        \* those with status "active"
    allowed,     \* those with a policy that has allow_agent_dm
    active,      \* active_snapshot of the bootstrap, fixed at the start
    session,     \* table agent_dm_sessions of this agent: none, active, closed
    transcript,  \* table agent_dm_messages of this agent
    notes,       \* table agent_owner_notifications of this agent, by id
    bot,         \* what the bot's thread is at
    seen,        \* how often the owner was sent a notification, up to 2
    cut,         \* the notifications whose delivery a fault cut short
    lastTalk,    \* the project of the session opened last
    faults

projects == <<registered, mine, live, allowed>>
history == <<cut, lastTalk, faults>>
vars == <<projects, active, session, transcript, notes, bot, seen, cut,
          lastTalk, faults>>

NoteIds == 1..MaxNotes

(* A message: plain text, text with "project <slug>:" in front, a command,   *)
(* or voice or a photo nothing can be made of.                               *)
Message == Project \cup {"plain", "command", "unreadable"}

(* An entry of the transcript: a question, an answer or a notification.       *)
Says(what) == [says |-> what, note |-> 0]
Tells(i) == [says |-> "note", note |-> i]

(* Where the bot is with a message: at the hook ("flush", then "open", "send" *)
(* and "ack" in turns), past it ("task"), then at the answer ("ask",         *)
(* "reopen", "question", "answer", "reply").  "open" and "reopen" are the    *)
(* activation of the session by the hook and by the answer.  "only" is the   *)
(* project of the context, put into the message when it arrives; "started"   *)
(* the project whose pipeline the message has started.                       *)
IdleBot == [at |-> "idle", msg |-> None, only |-> None, project |-> None,
            batch |-> {}, started |-> None]

(* resolve_telegram_context in a private chat of an owner: the only project  *)
(* of the registry, whoever owns it.                                         *)
OnlyProject ==
    IF Cardinality(registered) = 1 THEN CHOOSE p \in registered : TRUE ELSE None

(* build_project_bootstrap_result: that project too, if it has a runtime.    *)
Bootstrap == {None, OnlyProject}

Init ==
    /\ registered \in SUBSET Project
    /\ mine \in SUBSET registered
    /\ live \in SUBSET registered /\ allowed \in SUBSET registered
    /\ active \in Bootstrap
    /\ session = [p \in Project |-> "none"]
    /\ transcript = [p \in Project |-> <<>>]
    /\ notes = <<>>
    /\ bot = IdleBot
    /\ seen = [i \in NoteIds |-> 0]
    /\ cut = {}
    /\ lastTalk = None
    /\ faults = 0

-----------------------------------------------------------------------------
(* Which project a message is about.                                        *)

Candidates == {p \in registered : p \in mine /\ p \in live /\ p \in allowed}

Open(ps) == {p \in ps : session[p] = "active"}

Found(p) == [status |-> "resolved", project |-> p]
Ambiguous == [status |-> "ambiguous", project |-> None]
NotApplicable == [status |-> "not_applicable", project |-> None]

(* Plausible bug: plain text goes to the first candidate.                    *)
ResolveSomehow(msg, only) ==
    IF only # None THEN Found(only)
    ELSE IF msg \in Candidates THEN Found(msg)
    ELSE IF msg \notin Project /\ Candidates # {}
         THEN Found(CHOOSE p \in Candidates : TRUE)
    ELSE Ambiguous

(* The registry is read again; the project of the context is not.            *)
Resolve(msg, only) ==
    IF only # None THEN Found(only)
    ELSE IF Candidates = {} THEN NotApplicable
    ELSE IF msg \in Project
         THEN IF msg \in Candidates THEN Found(msg) ELSE Ambiguous
    ELSE IF Cardinality(Open(Candidates)) = 1
         THEN Found(CHOOSE p \in Open(Candidates) : TRUE)
    ELSE IF Cardinality(Candidates) = 1
         THEN Found(CHOOSE p \in Candidates : TRUE)
    ELSE Ambiguous

AllFor(p) == {i \in 1..Len(notes) : notes[i].project = p}
QueuedFor(p) == {i \in AllFor(p) : notes[i].status = "queued"}

Kept(s) == IF Len(s) > MaxTranscript THEN Tail(s) ELSE s

(* _record_agent_dm_message_conn refuses where no session is open.           *)
Record(p, entry) ==
    /\ session[p] = "active"
    /\ transcript' = [transcript EXCEPT ![p] = Kept(Append(@, entry))]

-----------------------------------------------------------------------------
(* Notifications.  dispatch_or_queue inserts the row first; it then reads    *)
(* the session only to tell its caller whether the Coordinator should speak. *)
NewRow(p) == [project |-> p, status |-> "queued"]

Queue(p) ==
    /\ p \in mine /\ Len(notes) < MaxNotes
    /\ notes' = Append(notes, NewRow(p))
    /\ UNCHANGED <<projects, active, session, transcript, bot, seen, history>>

(* register_project, at any time; no call deletes or changes a project, and  *)
(* the router keeps the active project it was built with.                    *)
Register(p) ==
    /\ p \notin registered
    /\ registered' = registered \cup {p}
    /\ mine' \in {mine, mine \cup {p}}
    /\ live' \in {live, live \cup {p}}
    /\ allowed' \in {allowed, allowed \cup {p}}
    /\ UNCHANGED <<active, session, transcript, notes, bot, seen, history>>

-----------------------------------------------------------------------------
(* The bot's thread.                                                        *)

Go(step) == bot' = [bot EXCEPT !.at = step]
Done == bot' = IdleBot

(* Nothing is left to do for the message but its answer.                     *)
Ended(started) == [IdleBot EXCEPT !.at = "reply", !.started = started]
Quiet == UNCHANGED <<projects, active, history>>

(* Plausible bug: a message without a project is blocked, as in a group.     *)
BlockedAsInGroups == OnlyProject = None

(* A secondary bot's private chat is blocked where there is no project; with *)
(* several, the project is looked for later.                                 *)
Blocked == registered = {}

(* Voice and photos become text, or an answer that says why not; a command   *)
(* is answered by its handler.  Neither changes anything here.               *)
IsText(msg) == msg \notin {"command", "unreadable"}

Receive(msg) ==
    /\ bot.at = "idle"
    /\ bot' = IF ~Blocked /\ IsText(msg)
              THEN [IdleBot EXCEPT !.at = "flush", !.msg = msg, !.only = OnlyProject]
              ELSE Ended(None)
    /\ UNCHANGED <<session, transcript, notes, seen>> /\ Quiet

(* _build_pending_direct_dm_replies_hook up to the session.                  *)
PendingAll(p) == AllFor(p)
Pending(p) == QueuedFor(p)

NeedsOpening(p) == session[p] # "active"

LoadPending ==
    /\ bot.at = "flush"
    /\ LET found == Resolve(bot.msg, bot.only)
           p == found.project
       IN  IF found.status # "resolved" \/ p \notin allowed \/ Pending(p) = {}
           THEN Go("task")
           ELSE bot' = [bot EXCEPT
                          !.at = IF NeedsOpening(p) THEN "open" ELSE "send",
                          !.project = p,
                          !.batch = Pending(p)]
    /\ UNCHANGED <<session, transcript, notes, seen>> /\ Quiet

(* _close_other_agent_sessions writes one session at a time, before          *)
(* _activate_session writes the one that opens.                              *)
OtherOpen == Open(Project \ {bot.project})

SetSession(p, status) == session' = [session EXCEPT ![p] = status]

CloseOther(p) ==
    /\ bot.at \in {"open", "reopen"}
    /\ p \in OtherOpen
    /\ SetSession(p, "closed")
    /\ UNCHANGED <<transcript, notes, bot, seen>> /\ Quiet

OthersLeft == TRUE
OthersClosed == OtherOpen = {}

Activate ==
    /\ bot.at \in {"open", "reopen"}
    /\ OthersClosed
    /\ SetSession(bot.project, "active")
    /\ lastTalk' = bot.project
    /\ Go(IF bot.at = "open" THEN "send" ELSE "question")
    /\ UNCHANGED <<projects, active, transcript, notes, seen, cut, faults>>

(* The batch is sent in the order of its rows.                               *)
First == Min(bot.batch)

Twice(n) == IF n < 2 THEN n + 1 ELSE n

SendNote ==
    /\ bot.at = "send"
    /\ seen' = [seen EXCEPT ![First] = Twice(@)]
    /\ Go("ack")
    /\ UNCHANGED <<session, transcript, notes>> /\ Quiet

MoveOn == [bot EXCEPT !.batch = @ \ {First},
                      !.at = IF bot.batch = {First} THEN "task" ELSE "send"]

(* A send that fails, or an ack that raises, drops the message.              *)
SkipNote == bot' = MoveOn
GiveUp == Done

(* ack_delivered: the row and the transcript in one transaction, which is    *)
(* refused for a row delivered before or a session closed meanwhile.         *)
Accepts(i) == notes[i].status = "queued" /\ session[notes[i].project] = "active"

Deliver(i) ==
    /\ notes' = [notes EXCEPT ![i].status = "delivered"]
    /\ Record(notes[i].project, Tells(i))

Ack ==
    /\ bot.at = "ack"
    /\ IF Accepts(First)
       THEN Deliver(First) /\ bot' = MoveOn
       ELSE GiveUp /\ UNCHANGED <<transcript, notes>>
    /\ UNCHANGED <<session, seen>> /\ Quiet

-----------------------------------------------------------------------------
(* The message itself: wrap_task_handler_with_agent_dm_disambiguation, then  *)
(* wrap_task_handler_with_agent_dm_single_reply, then the task handler.      *)

(* Whatever is not a direct answer reaches the real handler.  It works in    *)
(* the project of the message, or where that has none in the active one of   *)
(* the start; it may refuse (no runtime, no tier, a task in hand).           *)
BaseHandler(p) ==
    LET target == IF p # None THEN p ELSE active
    IN  \E started \in {None, target} : bot' = Ended(started)

Answered == bot' = Ended(None)

(* A chosen tier and a connected model are not this chat's to decide.        *)
Ask(p) == bot' = [IdleBot EXCEPT !.at = "ask", !.project = p]

(* Plausible bug: text that could mean several projects is a task like any   *)
(* other.                                                                    *)
AmbiguousIsTask == BaseHandler(None)

(* Another owner's project is none of this chat's (owner_project_mismatch).  *)
SingleReply(p) ==
    IF p \notin mine THEN BaseHandler(p)
    ELSE IF p \notin allowed THEN Answered
    ELSE Ask(p) \/ Answered

AmbiguousReply == Answered

Task ==
    /\ bot.at = "task"
    /\ LET found == Resolve(bot.msg, bot.only)
       IN  \/ found.status = "resolved" /\ SingleReply(found.project)
           \/ found.status = "ambiguous" /\ AmbiguousReply
           \/ found.status = "not_applicable" /\ BaseHandler(None)
    /\ UNCHANGED <<session, transcript, notes, seen>> /\ Quiet

(* reply_once: the transcript is read and the model asked; the session and   *)
(* the exchange are written only after it has answered.                      *)
ModelAnswers ==
    /\ bot.at = "ask" /\ Go("reopen")
    /\ UNCHANGED <<session, transcript, notes, seen>> /\ Quiet

ModelUnavailable ==
    /\ bot.at = "ask" /\ Go("reply")
    /\ UNCHANGED <<session, transcript, notes, seen>> /\ Quiet

RecordQuestion ==
    /\ bot.at = "question"
    /\ Record(bot.project, Says("question"))
    /\ Go("answer")
    /\ UNCHANGED <<session, notes, seen>> /\ Quiet

RecordAnswer ==
    /\ bot.at = "answer"
    /\ Record(bot.project, Says("answer"))
    /\ Go("reply")
    /\ UNCHANGED <<session, notes, seen>> /\ Quiet

Reply ==
    /\ bot.at = "reply" /\ Done
    /\ UNCHANGED <<session, transcript, notes, seen>> /\ Quiet

-----------------------------------------------------------------------------
(* Faults.  What is not a step of a send changes nothing but the bot.        *)
Fault ==
    /\ faults < MaxFaults /\ faults' = faults + 1
    /\ UNCHANGED <<projects, session, transcript, notes, seen, lastTalk>>

CutShort == cut' = cut \cup (IF bot.at = "ack" THEN {First} ELSE {})

DeliveryFails ==
    /\ bot.at \in {"send", "ack"} /\ GiveUp /\ CutShort
    /\ active' = active /\ Fault

(* The hook may raise: the bridge goes on with the message.                  *)
HookFails ==
    /\ bot.at \in {"flush", "open"} /\ Go("task")
    /\ UNCHANGED <<cut, active>> /\ Fault

(* The handler may raise: the owner is told so.                              *)
HandlerFails ==
    /\ bot.at \in {"task", "ask", "reopen", "question", "answer"}
    /\ Go("reply")
    /\ UNCHANGED <<cut, active>> /\ Fault

(* The process starts again, and the bootstrap with it.                      *)
Crash == bot.at # "idle" /\ Done /\ CutShort /\ active' \in Bootstrap /\ Fault

BotActs ==
    \/ LoadPending \/ (\E p \in Project : CloseOther(p)) \/ Activate
    \/ SendNote \/ Ack
    \/ Task \/ ModelAnswers \/ ModelUnavailable
    \/ RecordQuestion \/ RecordAnswer \/ Reply

Next ==
    \/ \E p \in Project : Queue(p) \/ Register(p)
    \/ \E msg \in Message : Receive(msg)
    \/ BotActs
    \/ DeliveryFails \/ HookFails \/ HandlerFails \/ Crash

(* The thread runs on, and the owner writes about every project again and    *)
(* again; the rest is up to chance.                                          *)
Fairness == WF_vars(BotActs) /\ \A p \in Project : SF_vars(Receive(p))

Spec == Init /\ [][Next]_vars /\ Fairness

-----------------------------------------------------------------------------
(* At most one project's conversation with the agent is open, so that plain  *)
(* text has one meaning: _activate_session closes the others first, in       *)
(* transactions of their own, wherever it is cut short.                      *)
OneConversationOpen == Cardinality(Open(Project)) <= 1

(* Notifications of a project reach the owner in the order they were queued, *)
(* whatever fails in between; a row is delivered, and in the transcript,     *)
(* only once the owner was sent it.                                          *)
Row == 1..Len(notes)
NotesReachOwnerInOrder ==
    /\ \A i, j \in Row : i < j /\ notes[i].project = notes[j].project =>
          /\ seen[j] > 0 => seen[i] > 0
          /\ notes[j].status = "delivered" => notes[i].status = "delivered"
    /\ \A i \in Row : notes[i].status = "delivered" => seen[i] > 0
    /\ \A p \in Project, i \in Row :
          Tells(i) \in Range(transcript[p]) =>
             notes[i].project = p /\ notes[i].status = "delivered"

(* A notification is sent twice only after a fault between its send and its  *)
(* ack: a batch read earlier never repeats what is delivered.                *)
RepeatedOnlyAfterFault == \A i \in NoteIds : seen[i] = 2 => i \in cut

(* "Это не запускало project pipeline": a message to an agent in private     *)
(* starts a pipeline only in another owner's project or, with several        *)
(* projects to choose from, where none is open to private chats; whatever    *)
(* is registered while the message or the bots are at work.                  *)
TalkStartsNoPipeline ==
    [][ bot'.started \notin {None, bot.started}
          => \/ bot'.started \notin mine
             \/ Candidates = {} /\ bot.only = None ]_vars

(* With several projects to choose from, text without a slug goes on in the  *)
(* conversation opened last, or nowhere: no silent guess, as core/           *)
(* agent_dm_disambiguation.py has it, after any switches, registrations and  *)
(* crashes.  A message that came when there was one project is about it.     *)
PlainTextStaysInTalk ==
    [][ (bot.msg = "plain" /\ bot.only = None /\ Cardinality(Candidates) > 1
           /\ bot'.project \notin {None, bot.project})
          => bot'.project = lastTalk ]_vars

(* A queued notification of a project with a private chat is delivered in    *)
(* the end if the owner goes on writing about that project.                  *)
QueuedIsDelivered ==
    \A i \in NoteIds :
        (i \in Row /\ notes[i].status = "queued" /\ notes[i].project \in Candidates)
           ~> (i \in Row /\ notes[i].status = "delivered")
=============================================================================
