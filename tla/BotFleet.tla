------------------------------ MODULE BotFleet ------------------------------
(***************************************************************************)
(* The process of scripts/run_telegram_bot.py, from its environment to its  *)
(* end and its next start: validation of the configuration, construction of *)
(* one application per bot, the probes, start and rollback, the updates     *)
(* handled meanwhile, and the shutdown; with the worktrees its tasks leave  *)
(* on disk and the sweep at start.                                          *)
(*                                                                         *)
(* The event loop runs one coroutine at a time; an action is what it does   *)
(* between two awaits.  Handlers run in threads of their own.  What python- *)
(* telegram-bot does is modelled from how the program uses it: a bot can    *)
(* send before it is initialized (the probe does) and not after shutdown(); *)
(* stop() waits for the updates already fetched.                            *)
(***************************************************************************)
EXTENDS Naturals, FiniteSets, FiniteSetsExt

CONSTANTS
    Roles,        \* number of roles; role i is the i-th in order of names
    Coordinator,
    Token,        \* bot tokens
    Task,         \* identifiers of tasks, one worktree each
    MaxLaunches,  \* bound: starts of the process
    None

Role == 1..Roles

ASSUME FleetAssumption ==
    /\ Roles \in Nat \ {0} /\ Coordinator \in Role
    /\ MaxLaunches \in Nat
    /\ None \notin Task

VARIABLES
    stage,     \* where main() is: down, launched, checked, built, probing,
               \* initialize, start, poll, serving, closing, exited
    exit,      \* why it returned: config (2), construction (5 or 4),
               \* startup (5), stopped (0), or cancelled while it started
    launches,
    config,    \* the environment, until the bots are built
    enabled,   \* the roles with a bot
    app,       \* the application of each role: none, built, ready, running,
               \* stopping, closed
    polls,     \* the roles whose updater is polling
    report,    \* the lifecycle report: how far a role has come (none, built,
               \* reachable, initialized, started, polling) ...
    failed,    \* ... and the roles with a failure reason
    todo,      \* what is still to be closed
    refused,   \* the roles one of whose closing calls raised
    inbox,     \* the roles with an update fetched and not handled
    busy,      \* the roles one of whose updates a thread is handling
    worker,    \* the task the worker thread runs
    dirs,      \* the tasks with a directory under the worktree root
    tracked    \* the tasks with a worktree git has a record of

bots == <<enabled, app, polls, report, failed, todo, refused, inbox, busy>>
disk == <<worker, dirs, tracked>>
vars == <<stage, exit, launches, config, bots, disk>>

(* TELEGRAM_AGENT_TOKENS: not in the environment, blank, one whose entries   *)
(* cannot be parsed or name no role of the runtime, or a mapping from roles  *)
(* to keys of the environment, which hold a token or nothing.                *)
Setting ==
    [agentTokens : {"unset", "blank", "malformed", "mapping"},
     token : [Role -> Token \cup {"unbound", "absent"}],
     botToken : BOOLEAN, owner : BOOLEAN, threshold : BOOLEAN,
     oddity : {"none", "log_level", "repo_path", "state_dir"}]

Environment ==
    {c \in Setting :
        c.agentTokens # "mapping" <=> \A r \in Role : c.token[r] = "unbound"}

Nothing == [polling |-> {}, started |-> {}, initialized |-> {}]

NoBots ==
    /\ enabled' = {} /\ polls' = {} /\ failed' = {} /\ refused' = {}
    /\ app' = [r \in Role |-> "none"] /\ report' = [r \in Role |-> "none"]
    /\ todo' = Nothing /\ inbox' = {} /\ busy' = {}

Init ==
    /\ stage = "down" /\ exit = None /\ launches = 0 /\ config = None
    /\ enabled = {} /\ polls = {} /\ failed = {} /\ refused = {}
    /\ app = [r \in Role |-> "none"] /\ report = [r \in Role |-> "none"]
    /\ todo = Nothing /\ inbox = {} /\ busy = {}
    /\ worker = None /\ dirs = {} /\ tracked = {}

-----------------------------------------------------------------------------
(* The configuration.                                                       *)

Bound(c) == {r \in Role : c.token[r] # "unbound"}

(* build_multi_bot_runtime_spec: the roles that get a bot, or that it raises. *)
Raises == {0}

Usable(c) ==
    /\ Coordinator \in Bound(c)
    /\ \A r \in Bound(c) : c.token[r] # "absent"
    /\ \A r, s \in Bound(c) : r # s => c.token[r] # c.token[s]

RuntimeSpec(c) ==
    CASE c.agentTokens = "unset" -> IF c.botToken THEN {Coordinator} ELSE {}
      [] c.agentTokens = "mapping" /\ Usable(c) -> Bound(c)
      [] OTHER -> Raises

(* validate_bot_startup_config.  A blank setting is read as a missing one.    *)
HasAgentTokens(c) == c.agentTokens \in {"malformed", "mapping"}

(* Plausible bug: the mapping is not tried out.                               *)
IdentityErrorUntried(c) == ~HasAgentTokens(c) /\ ~c.botToken

IdentityError(c) ==
    IF HasAgentTokens(c) THEN RuntimeSpec(c) = Raises ELSE ~c.botToken

Issue(condition, severity, code) ==
    IF condition THEN {[severity |-> severity, code |-> code]} ELSE {}

SharedIssues(c) == Issue(c.oddity = "log_level", "warning", "log_level")
LegacyIssues(c) == Issue(c.oddity = "repo_path", "warning", "legacy")

Issues(c) ==
    UNION {SharedIssues(c), Issue(~c.owner, "error", "owner_chat_id"),
           Issue(IdentityError(c), "error", "bot_identity"),
           Issue(~c.threshold, "error", "cost_threshold"), LegacyIssues(c)}

(* The four components of the health report, and what they add up to.         *)
Worst(issues) ==
    IF \E i \in issues : i.severity = "error" THEN "failed"
    ELSE IF issues # {} THEN "degraded" ELSE "ok"

IdentityComponent(c) ==
    IF \/ \E i \in Issues(c) : i.code = "bot_identity"
       \/ ~HasAgentTokens(c) /\ ~c.botToken
    THEN "failed" ELSE "ok"

PersistenceIssues(c) == Issue(c.oddity = "state_dir", "warning", "state_db")

LegacyComponent(c) ==
    IF \E i \in Issues(c) : i.code = "legacy" THEN "degraded" ELSE "ok"

Components(c) ==
    {Worst(Issues(c)), IdentityComponent(c), Worst(PersistenceIssues(c)),
     LegacyComponent(c)}

Health(c) ==
    IF "failed" \in Components(c) THEN "failed"
    ELSE IF "degraded" \in Components(c) THEN "degraded" ELSE "ok"

-----------------------------------------------------------------------------
(* main() up to the bots.                                                   *)

Launch(c) ==
    /\ stage = "down" /\ launches < MaxLaunches
    /\ launches' = launches + 1
    /\ stage' = "launched" /\ config' = c /\ exit' = None
    /\ UNCHANGED <<bots, disk>>

Leave(why) == stage' = "exited" /\ exit' = why

Validate ==
    /\ stage = "launched"
    /\ IF Health(config) = "failed" THEN Leave("config")
       ELSE stage' = "checked" /\ exit' = exit
    /\ UNCHANGED <<launches, config, bots, disk>>

(* cleanup_orphan_worktrees_from_env: directories git has no record of go,    *)
(* then the records without a directory; errors, and having no project to     *)
(* sweep for, count as nothing to do.                                         *)
SweepDone == dirs' = dirs \cap tracked /\ tracked' = tracked \cap dirs'

Sweep == (SweepDone \/ UNCHANGED <<dirs, tracked>>) /\ worker' = worker

(* _build_running_multi_bot_runtime; with one token, the same for one bot.    *)
(* Building the bridge may fail for reasons outside this model.               *)
Construct(roles) ==
    /\ stage' = "built" /\ exit' = exit /\ config' = None
    /\ enabled' = roles
    /\ app' = [r \in Role |-> IF r \in roles THEN "built" ELSE "none"]
    /\ report' = app'
    /\ UNCHANGED <<polls, failed, todo, refused, inbox, busy>>

Build ==
    /\ stage = "checked"
    /\ Sweep
    /\ \/ RuntimeSpec(config) # Raises /\ Construct(RuntimeSpec(config))
       \/ Leave("construction") /\ UNCHANGED <<config, bots>>
    /\ UNCHANGED launches

-----------------------------------------------------------------------------
(* Start and rollback.                                                      *)

(* The roles in order of their names; a loop over them stands at the first   *)
(* one that has not come so far.                                             *)
Behind(level) == {r \in enabled : report[r] = level}
Current(level) == Min(Behind(level))

Mark(r, level) ==
    /\ report' = [report EXCEPT ![r] = level]
    /\ failed' = failed \ {r}

Opened(states) == {r \in enabled : app[r] \in states}

(* Plausible bug: the bot that failed is left to itself.                      *)
RollbackOthers(r) ==
    [polling |-> Behind("polling"),
     started |-> Behind("polling"), initialized |-> Behind("polling")]

(* The three lists of _start_running_multi_bot_runtime at the point of the    *)
(* failure; polling_roles has a role before its start_polling is awaited.     *)
RollbackList(r) ==
    [polling |-> Behind("polling") \cup (IF stage = "poll" THEN {r} ELSE {}),
     started |-> Opened({"running"}),
     initialized |-> Opened({"ready", "running"})]

FailAt(r) ==
    /\ failed' = failed \cup {r}
    /\ todo' = RollbackList(r)
    /\ stage' = "closing" /\ exit' = "startup"
    /\ UNCHANGED <<app, polls, report>>

Starting == UNCHANGED <<launches, config, enabled, refused, inbox, busy, disk>>

BeginProbes ==
    /\ stage = "built" /\ stage' = "probing"
    /\ UNCHANGED <<exit, launches, config, bots, disk>>

Go(next) == stage' = next /\ exit' = exit /\ todo' = todo

Probe ==
    /\ stage = "probing" /\ Starting
    /\ LET r == Current("built")
       IN  \/ /\ Mark(r, "reachable")
              /\ Go(IF Behind("built") = {r} THEN "initialize" ELSE "probing")
              /\ UNCHANGED <<app, polls>>
           \/ FailAt(r)

Initialize ==
    /\ stage = "initialize" /\ Starting
    /\ LET r == Current("reachable")
       IN  \/ /\ app' = [app EXCEPT ![r] = "ready"] /\ Mark(r, "initialized")
              /\ Go("start") /\ UNCHANGED polls
           \/ FailAt(r)

Start ==
    /\ stage = "start" /\ Starting
    /\ LET r == Current("initialized")
       IN  \/ /\ app' = [app EXCEPT ![r] = "running"] /\ Mark(r, "started")
              /\ Go("poll") /\ UNCHANGED polls
           \/ FailAt(r)

StartPolling ==
    /\ stage = "poll" /\ Starting
    /\ LET r == Current("started")
       IN  \/ /\ polls' = polls \cup {r} /\ Mark(r, "polling")
              /\ Go(IF Behind("reachable") = {} THEN "serving" ELSE "initialize")
              /\ UNCHANGED app
           \/ FailAt(r)

-----------------------------------------------------------------------------
(* Updates.  A bot that polls is already served while others are started.    *)

Still == UNCHANGED <<stage, exit, launches, config, enabled, app, polls, report,
                     failed, todo, refused>>

Fetch(r) ==
    /\ r \in polls /\ app[r] = "running" /\ r \notin inbox
    /\ inbox' = inbox \cup {r}
    /\ UNCHANGED <<busy, disk>> /\ Still

(* MultiBotBridge.handle_incoming: of what reaches a secondary bot only the   *)
(* owner's private messages are handled, which is the sender's to decide.     *)
Handle(r) ==
    /\ r \in inbox /\ r \notin busy
    /\ inbox' = inbox \ {r}
    /\ busy' \in {busy \cup {r}} \cup (IF r = Coordinator THEN {} ELSE {busy})
    /\ UNCHANGED disk /\ Still

(* The answer goes out through the bot of the role it speaks for, or the      *)
(* Coordinator's.  The wait for it ends after 30 s, sent or not.              *)
Sender(speaker) == IF speaker \in enabled THEN speaker ELSE Coordinator

FinishHandling(r) ==
    /\ r \in busy /\ busy' = busy \ {r}
    /\ UNCHANGED <<inbox, disk>> /\ Still

(* Tasks: SandboxWorkspace.acquire and release.  git's record goes with the   *)
(* directory; where git cannot remove it, rmtree does and prune follows.      *)
Acquire(t) ==
    /\ busy # {} /\ worker = None /\ t \notin dirs /\ t \notin tracked
    /\ worker' = t
    /\ dirs' = dirs \cup {t} /\ tracked' = tracked \cup {t}
    /\ UNCHANGED <<inbox, busy>> /\ Still

ReleaseByGit ==
    /\ worker # None /\ worker \in dirs
    /\ dirs' = dirs \ {worker} /\ tracked' = tracked \ {worker}
    /\ worker' = None
    /\ UNCHANGED <<inbox, busy>> /\ Still

RemoveTree ==
    /\ worker # None /\ worker \in dirs
    /\ dirs' = dirs \ {worker}
    /\ UNCHANGED <<worker, tracked, inbox, busy>> /\ Still

Prune ==
    /\ worker # None /\ worker \notin dirs
    /\ tracked' = tracked \cap dirs /\ worker' = None
    /\ UNCHANGED <<dirs, inbox, busy>> /\ Still

-----------------------------------------------------------------------------
(* The end.                                                                 *)

(* Ctrl+C.  While it serves, main() closes everything it has; while it starts *)
(* or closes, the cancellation is no Exception and nothing is rolled back; an  *)
(* error while the only bot is closed ends main() in the same way.             *)
Interrupt ==
    /\ UNCHANGED <<launches, config, enabled, app, polls, report, failed,
                   refused, inbox, busy, disk>>
    /\ \/ /\ stage = "serving"
          /\ stage' = "closing" /\ exit' = "stopped"
          /\ todo' = [polling |-> enabled, started |-> enabled, initialized |-> enabled]
       \/ /\ stage \in {"probing", "initialize", "start", "poll", "closing"}
          /\ Leave("cancelled") /\ todo' = todo

Closing ==
    /\ stage = "closing"
    /\ UNCHANGED <<stage, exit, launches, config, enabled, report, failed,
                   inbox, busy, disk>>

(* In reverse order: every updater, then every application is stopped, then   *)
(* every one is shut down.  What they raise is suppressed; a stop may raise    *)
(* once its application runs no more and its handlers are through.            *)
MayRaise(r) == refused' = refused \/ refused' = refused \cup {r}

(* Plausible bug: an updater that will not stop is tried until it does.      *)
DropPollingOnceStopped(r) ==
    IF r \in refused' THEN todo ELSE [todo EXCEPT !.polling = @ \ {r}]
DropPolling(r) == [todo EXCEPT !.polling = @ \ {r}]

StopUpdater ==
    /\ Closing /\ todo.polling # {}
    /\ LET r == Max(todo.polling)
       IN  /\ MayRaise(r)
           /\ polls' = IF refused' = refused THEN polls \ {r} ELSE polls
           /\ todo' = DropPolling(r)
    /\ UNCHANGED app

StopApplication ==
    /\ Closing /\ todo.polling = {} /\ todo.started # {}
    /\ LET r == Max(todo.started)
       IN  \/ /\ app[r] = "running"
              /\ app' = [app EXCEPT ![r] = "stopping"]
              /\ UNCHANGED <<todo, refused>>
           \/ /\ app[r] = "stopping" /\ r \notin inbox \cup busy
              /\ MayRaise(r)
              /\ app' = [app EXCEPT ![r] = "ready"]
              /\ todo' = [todo EXCEPT !.started = @ \ {r}]
    /\ UNCHANGED polls

(* Plausible bug: one loop over the bots in place of three.                   *)
OwnStopped == Max(todo.initialized) \notin todo.started
AllStopped == todo.started = {}

ShutDownApplication ==
    /\ Closing /\ todo.polling = {} /\ todo.initialized # {}
    /\ LET r == Max(todo.initialized)
       IN  /\ AllStopped
           /\ MayRaise(r)
           /\ app' = IF refused' = refused THEN [app EXCEPT ![r] = "closed"] ELSE app
           /\ todo' = [todo EXCEPT !.initialized = @ \ {r}]
    /\ UNCHANGED polls

Closed ==
    /\ stage = "closing" /\ todo = Nothing
    /\ stage' = "exited"
    /\ UNCHANGED <<exit, launches, config, bots, disk>>

(* The interpreter ends when the worker thread has, or is killed.             *)
Gone == stage' = "down" /\ config' = None /\ NoBots /\ UNCHANGED <<exit, launches>>

EndProcess == stage = "exited" /\ worker = None /\ Gone /\ UNCHANGED disk

Kill == stage # "down" /\ Gone /\ worker' = None /\ UNCHANGED <<dirs, tracked>>

(* Between two runs the repository may be moved or cloned again.              *)
GitForgets ==
    /\ stage = "down" /\ tracked # {} /\ tracked' = {}
    /\ UNCHANGED <<stage, exit, launches, config, bots, worker, dirs>>

MainActs ==
    \/ Validate \/ Build \/ BeginProbes \/ Probe \/ Initialize \/ Start \/ StartPolling
    \/ StopUpdater \/ StopApplication \/ ShutDownApplication \/ Closed \/ EndProcess

HandlerActs(r) == Handle(r) \/ FinishHandling(r)

Next ==
    \/ \E c \in Environment : Launch(c)
    \/ MainActs
    \/ \E r \in Role : Fetch(r) \/ HandlerActs(r)
    \/ \E t \in Task : Acquire(t)
    \/ ReleaseByGit \/ RemoveTree \/ Prune
    \/ Interrupt \/ Kill \/ GitForgets

(* Every call is bounded by a timeout: the probes and updaters by their HTTP  *)
(* requests, a handler's answer by 30 s.                                      *)
Fairness == WF_vars(MainActs) /\ \A r \in Role : WF_vars(HandlerActs(r))

Spec == Init /\ [][Next]_vars /\ Fairness

-----------------------------------------------------------------------------
(* Validation and construction read the same environment with different code: *)
(* what validation lets pass can be built, and what it refuses for its bots    *)
(* cannot.  The one exception is a blank TELEGRAM_AGENT_TOKENS, which counts    *)
(* as missing in core/startup_config_validation.py and as a mapping in          *)
(* core/multi_bot_runtime.py.                                                  *)
ValidatorAgreesWithBuilder ==
    config # None =>
       LET buildable == RuntimeSpec(config) \notin {Raises, {}}
       IN  /\ stage = "checked" /\ config.agentTokens # "blank" => buildable
           /\ stage = "exited" /\ exit = "config" =>
                 ~config.owner \/ ~config.threshold \/ ~buildable

(* A start that fails names the bot it failed at, with the bots before it as   *)
(* far as they came and those after it untouched, and leaves no bot polling    *)
(* or open: what was begun is undone, wherever it stopped.                     *)
Left(r) == app[r] \notin {"none", "built", "closed"} \/ r \in polls

FailedStartIsUndone ==
    /\ exit = "startup" /\ stage \in {"closing", "exited"} =>
          \E f \in enabled :
             /\ failed = {f}
             /\ \A r \in enabled \ {f} :
                   report[r] = IF report[f] = "built"
                               THEN IF r < f THEN "reachable" ELSE "built"
                               ELSE IF r < f THEN "polling" ELSE "reachable"
    /\ exit \in {"startup", "stopped"} /\ stage = "exited" =>
          \A r \in enabled \ refused : ~Left(r)

(* As long as a handler may answer, the bot its answer goes out through can    *)
(* still send, whichever role it speaks for, in a rollback as in a shutdown.   *)
HandlersHaveTheirBots ==
    busy # {} /\ exit # "cancelled" => \A speaker \in Role : app[Sender(speaker)] # "closed"

(* A shutdown and a rollback come to an end, whatever the bots' calls raise    *)
(* and however many updates are waiting.                                      *)
ClosingEnds == stage = "closing" ~> stage \in {"exited", "down"}

(* What core/bot_runner.py:239-242 says the sweep is for: where it runs       *)
(* through, nothing is left on disk of a process that died during a task.      *)
SweptAtStart == [][Build /\ SweepDone => dirs' = {}]_vars
=============================================================================
