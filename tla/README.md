# Verification of the AI dev team

TLA+ specifications of this repository, checked with TLC on small instances and,
where it says so, proved with TLAPS for every instance. Paths below are relative
to the repository's root; `PROJECT.json` gives the lines of code behind each definition.

## 1. The system

A Telegram bot takes programming tasks. A task runs on the one worker thread of
the process: a pipeline of LLM agents, driven by a finite state machine, produces
code, reviews, tests and repairs it; a hook writes it into a git worktree and runs
the real tools on it; what passes is committed to `feature/<task_id>`. Several bots
(one per role) may share the process; projects, their chats, their team of
specialists, hiring requests, direct messages and the task history are kept in SQLite.

| Component (code) | State | Operations | Talks to |
|---|---|---|---|
| Pipeline FSM (`core/fsm.py`) | none | `can_transition`, `is_terminal` | used by the orchestrator and its memory |
| Orchestrator, pipeline memory (`core/orchestrator.py`, `core/memory.py`) | FSM state, transitions, agent calls, loop counters, artifacts (set once), latest code and review | one handler per state, retries, repairs, limits | agents (calls), runtime hook (callback), observability (cost) |
| Sandbox run (`core/real_task_handler.py:_run`, `sandbox_workspace.py`, `sandbox_runtime_hook.py`) | worktree, branch, validation report, cancellation token, summary | acquire, hook, commit, release | orchestrator, git, progress events, hiring |
| Background runner (`core/background_runner.py`) | the busy slot, executor queue, shutdown flag | submit, cancel, shutdown, `_run_wrapped` | called by all bots; runs the task |
| Task handler, `/stop` (`real_task_handler.py`, `bot_runner.py`) | none of its own | `_handle`, `on_complete`, stop | runner, history, chats (final messages go through an event loop) |
| Task history (`core/task_history.py`) | ring, index by id, table | record, get, recent, load at start | handler writes; `/push`, `/pr`, `/log` read |
| Project team (`hire_approval.py`, `logical_hiring.py`, `project_team_commands.py`) | roster, hiring requests (SQLite) | add, remove, hire, approve, reject, hire from hints after a run | bots' threads and the worker thread, through the database |
| Agent bus, projection, throttle (`agent_bus*.py`, `agent_collaboration.py`) | threads, messages, burst windows | publish, project, summarise | chats, through the bots' event loops |
| Direct messages, notifications (`agent_dm_*.py`, `agent_owner_notifications.py`) | sessions, queued notifications, transcript | dispatch or queue, flush, ack | bridge, database |
| Bridge and bots (`telegram_bridge.py`, `multi_bot_*.py`, `scripts/run_telegram_bot.py`) | pending confirmations, lifecycle reports | handle a message, start, roll back, stop | everything above |
| Tier sessions, budget (`tier_session.py`, `bot_runner.py`) | cache and store per chat | set, get, reset, load | handler |
| LLM dispatcher (`llm_dispatcher.py`) | none per request | fall back along a chain of models | agents |
| Projects and chats (`project_*.py`) | active project, chat and runtime bindings | bind, migrate, select | database |
| State database (`state_db.py`) | all tables | one write transaction at a time | all of the above |
| Identity, lifecycle (`bot_identity_lifecycle.py`, `multi_bot_runtime.py`, `startup_config_validation.py`, `healthcheck_model.py`) | environment, health and lifecycle reports | validate, probe, report | the bots' start |
| Web office (`web/`) | last signatures per client | read pages, event stream | database, read-only |
| Coordinator, observability, code tools | see `PROJECT.json` | mostly pure functions and I/O | |

Where it is hard: the busy slot is taken and used in two steps and released before
the callback runs; the token is read once; the code in hand changes while the stored
artifacts do not; a commit is four git commands; the handlers of several bots and the
worker thread share one database without a transaction around a whole command; a message is
sent first and acknowledged after, or handed to an event loop and never asked about; the process may die anywhere.
`PROJECT.json` lists these hazards at their lines, with the properties for them.

What makes each component correct, in short: a run **ends, within its limits, and
delivers only code approved after its last change**; what is **committed is what was
validated**, and **never after a stop in time**; tasks **run one by one, each is
reported once, and truthfully**; a hiring request is **decided once and a hired role is on the
team**; a queued message is **delivered at least once and marked when it was**; caches
**agree with their store**; history, index and table **agree**.

## 2. Modules

```
Fsm                operators of the FSM
 +- Orchestrator   one run ------------- implements --> PipelinePromise
     +- SandboxRun a task's run -------- implements --> TaskRun
BackgroundRunner   the runner ---------- implements --> SerialTasks
 +- TaskHandler    handler, /stop; its tasks are TaskRun
ProjectTeam        the team ------------ implements --> HiringDesk
TaskHistory        ring, index, table
 +- ProjectChats   projects, chats, tasks, /push and /pr
AgentBus           messages between agents and their posts to the chat
 +- AgentCall      an agent's call, models and consultations
OwnerChat          the owner's private chat with an agent
BotFleet           start, service and end of the process and its bots
ChatSettings       tier and budget of a chat
```

The two halves of a task meet in `TaskRun`: `SandboxRun` implements it, `TaskHandler` is
checked with it in the place of the run (assume/guarantee), so that neither has to be
checked with the other's state space. `ProjectChats` cuts the run down further, to the
branch and the history entry it leaves behind, because its questions are about *which*
project these belong to. `OwnerChat` takes over where `ProjectChats` stops: a secondary
bot's private messages.

**Fsm** (`core/fsm.py`). States, the transition table, and the classification
`_terminal_for` makes.

**Orchestrator** (`core/orchestrator.py`, `core/memory.py`). One action per outcome of
one iteration of `_drive`. An agent is an LLM: its answer is an input, up to what the
handler distinguishes (raises, unusable, `BLOCKED:`, verdicts with and without
`for_fixer`, a piece of code). Code is a member of `Code`; a review is a verdict with
the code it is about. `steps` and `calls` are the lengths of the memory's lists, `loops`
its counters, `artifact` its set-once map, `retry` the entry of `state_retry` for the
current state (it is reset on entry, so one number is enough), `reason` the prefix of the
failure reason. The dead fallback of `_terminate` is left out; the theorem
`TerminalAllowed` proves it dead. `BudgetEnforced` is the conjunction of conditions under
which `_check_cost_budget` can answer at all. The seeds of `initial_artifacts` are of the
three kinds no handler touches and are left out.

**SandboxRun** (`_run`). Extends `Orchestrator` with the worktree, the report, the token,
the branch, the terminal event and the summary. The hook's outcome and the pipeline's
step are one action (the hook runs inside `_handle_qa`); `/stop` is its own action and
may come anywhere. A worktree's content is the writer's files, overlaid or not, wholly or
in part, by the fix the hook wrote. `Writable` is the set of answers
`write_artifact_to_worktree` accepts.

**BackgroundRunner** (`core/background_runner.py`). A critical section of the lock is one
action; `submit` is two (`Register`, then `HandOver` or `HandOverRefused`), `shutdown`
three, `_run_wrapped` three. Handle and token are set and cleared together and are one
variable. `RuntimeError`s and `RunnerBusyError`s of `submit` change nothing and are the
negation of its guard.

**TaskHandler** (`make_real_task_handler`, `make_stop_handler`). Conjoins the runner's
actions with what the handler does at the same point: the order of acceptance, the busy
reply, what `/stop` said, the record in the history (which may fail and is suppressed, and
which drops the oldest one when the ring of `HistoryLen` is full) and the final message.
`on_complete` is two actions, because the record and the message are visible to other
threads one after the other. In production the message is a coroutine: `TellVerdict` puts it
into `inFlight` and goes on, `SendMessage` is the event loop's part, in any order among the
messages; a failure on either side is logged at most, and the task is in `lost`. `told` is
what arrived.

**ProjectTeam** (`core/hire_approval.py`, `core/logical_hiring.py`,
`core/project_team_commands.py`, the tables in `core/state_db.py`). See section 4.

**TaskHistory** (`core/task_history.py`). The rows of the table, the ring, and the index,
which holds a place in the ring. `Record` is the insert, the trim and the update of memory,
with either transaction failing (the caller suppresses it); `Load` is the reload at start,
a fold of the same `AppendLocked` over the rows. Nothing makes an identifier unique to the
history, so the same one may come twice.

**ProjectChats** (`core/project_registry.py`, `core/project_chat_binding_service.py`,
`core/project_migration_service.py`, `core/project_context.py`,
`core/project_bootstrap.py`, and `/push`, `/pr`, `/projects` of `core/bot_runner.py`).
A message finds its project when it comes (`Receive`) and is handled later; binding,
migrating and unbinding read in one transaction and write in another. Projects are
registered at any time (by an operator's process). A repository may be shared: `repoOf` is
chosen at the start and fixed, since nothing in the tree calls
`set_project_runtime_binding`. `branch` is what git has, `remote` what was pushed, for
whom.

**AgentBus** (`core/agent_bus.py`, `core/agent_bus_projection.py`,
`core/agent_bus_projection_throttle.py`). A message is persisted in one transaction and
projected afterwards; `throttle` is the in-memory state of a thread: the count of the
burst, the suppressed tail, and the batches deferred because their summary was not handed
over. `outbox` is what was handed over to an event loop of some bot, in order; the loop may
send in any other order, and `SendFails` is a send that fails after the bus has counted it as
posted and cleared its batch. So nothing here speaks of the order in which the chat shows
posts. A post that is *not* handed over (no chat bound, another provider) is seen by the bus.
`Skip` and `ProjectAndRaise` are exceptions after the message was persisted: the call that
published it ends, the message stays in the log.
**AgentCall** (`core/dispatcher_agents.py`, `core/llm_dispatcher.py`,
`core/agent_collaboration.py`) extends it with the one thread that calls agents: the chain
of models (a retryable failure tries the next model, a 401, 402 or 403 ends the call), a
consultation of another agent, its request and reply, and the usage the registry keeps.
The clock may step back. `MaxLog` bounds the messages, `MaxCrashes` the crashes, `MaxFailedSends` the sends that fail. `flush_thread`
has no caller outside the tests, so `FlushThread` is an action that may never happen.

**OwnerChat** (`core/telegram_bridge.py:handle`, the hook and wrappers of
`core/bot_runner.py`, `core/agent_dm_*.py`, `core/agent_owner_notifications.py`). The rows
are keyed by the agent's role and only that agent's thread works on them, so one role
stands for all; other threads only insert notifications (`Queue`). The steps of the hook
(read the queue: a set of rows, gone through oldest first; close other sessions, activate,
send, ack) and of the answer (ask, activate,
record question, record answer, reply) are actions, each a transaction. A fault ends a step: a
send that fails, a transaction that is refused, a crash. `Register` adds a project at any
time, also another owner's (`mine`); `active` is the project the runtime router was built
with and changes only when the process starts again (`Bootstrap`), and `only` the project the
bridge gave the message when it came. What neither wrapper answers goes to the real handler
(`BaseHandler`), which may start a pipeline in the project of the message or in the active
one (`started`). A role without a persona never gets there: `core/multi_bot_runtime.py:95`
and `:256` refuse to build a bot for one.

**BotFleet** (`scripts/run_telegram_bot.py`, `core/multi_bot_*.py`,
`core/bot_identity_lifecycle.py`, `core/startup_config_validation.py`,
`core/healthcheck_model.py`,
`sandbox_workspace.cleanup_orphans`). An action is what the event loop does between two
awaits. `Launch` takes *any* environment; validation, health report and construction are
operators on it. Each bot is probed, initialized, started and put to polling, any of which
may fail; `todo` is the three lists of the rollback, and a stop may itself raise. Handlers run in threads and may still
be at work while bots are closed. Directories and git's records of worktrees survive the
process. What python-telegram-bot does is modelled from how the program uses it.

**ChatSettings** (`core/tier_session.py`, `_BudgetState` of
`core/bot_runner.py`). `/tier` holds one lock over memory and disk and is one action;
`/budget` takes its lock twice with the database in between and is split there. Every start
picks a release (its tiers) and a store; the import of the legacy file goes row by row and
may be cut short anywhere. A file that cannot be read is ignored and kept: without a database
the bots come up with no choices (`unread`, until the next choice rewrites the file without
those of the other chats), with one nothing is imported (`leftover`).

**PipelinePromise, TaskRun, SerialTasks, HiringDesk** are the abstract specifications: a
handful of actions each, in the words of a user of the component.

**SandboxRunClaims**, and `SweptAtStart` in `BotFleet`, hold the statements of the
repository's comments that the code does not keep (section 5).

**SandboxRunProofs** (with those of `Orchestrator`), **TaskHandlerProofs** (with those of
`BackgroundRunner`), **ProjectTeamProofs, ChatSettingsProofs, ProjectChatsProofs** (with those
of `TaskHistory`), **OwnerChatProofs, BotFleetProofs, AgentCallProofs** (with those of
`AgentBus`) hold the theorems (section 6).

## 3. Runs

| Run | What is instantiated | States | Shows |
|---|---|---|---|
| `Orchestrator.cfg` | two codes, real loop (3, 2), retry (2) and step (25) limits, 23 calls, calls cost 0 or 4 of a budget of 9 | 367,167 | `LimitsHold`: 25 steps are never the reason to stop, and cost and calls are overrun by one call at most; `ApprovedBeforeUse`; `KeepsPromise` (refinement and termination) |
| `SandboxRun.cfg` | three codes, one of them not writable, 1 review and 2 QA repairs, no retries | 53,736 | `CommittedIsValidated`; `TerminalEventIsTrue`; `StopWhileRunningPreventsCommit`; `KeepsContract` (refinement; the run returns) |
| `BackgroundRunner.cfg` | three tasks, two threads | 2,502 | `SlotIsHeldByLiveTask`; `ShutdownReturns`; `RunsSerially` |
| `TaskHandler.cfg` | two tasks, two bots, a history of one record, the database may refuse a record, messages may be lost | 245,210 | `VerdictIsTrue`; `HistoryServesPush`: the history is in order and `/push` finds a task whose message is out, as long as the ring holds it; `TakenTaskIsReported`: every task taken has its final message in the chat or lost on its one way there |
| `ProjectTeam.cfg` | two roles, two requests, two bots, with and without the policy | 427,267 | `OpenQuestionsAreTidy`: one per role, none left behind; `ReplyIsTrueUnlessLate`; `OpenQuestionIsSettled`; `KeepsDesk` |
| `OwnerChat.cfg` | two projects in every state and of either owner, registered at any time, two notifications, a transcript of 1, two faults | 449,184 | `OneConversationOpen`; `NotesReachOwnerInOrder`; `RepeatedOnlyAfterFault`; `TalkStartsNoPipeline`: but for the two cases of section 5; `PlainTextStaysInTalk`; `QueuedIsDelivered` |
| `BotFleet.cfg` | three roles (the coordinator second), three tokens, every environment, one task, two starts | 130,963 | `ValidatorAgreesWithBuilder`; `FailedStartIsUndone`; `HandlersHaveTheirBots`; `ClosingEnds` |
| `AgentCall.cfg` | two tasks, two models, one consultation per call, at most 5 messages, a burst of 1, batches of 2, times 1 and 20, one crash, one failed send | 280,730 | `AccountedFor`: no message is handed over twice, and only a failed send drops one unseen; `PostsAreConversation`: posts are handed over in the order of the log, bursts are throttled, replies follow requests; `UsageIsWhole`; `CallEnds` |
| `ChatSettings.cfg` | two chats, two releases, two amounts, two bots, two faults | 441,555 | `TierIsSaved`; `ForgottenStaysForgotten`; `BudgetIsSaved`; `StartKeepsRows` |
| `ProjectChats.cfg` | two projects, groups, repositories and task ids, two bots, a history of 2, three branches, up to symmetry | 2,098,380 | `PushedIsOwnWork`; `WorkStaysInItsProject`; `OneProjectPerChat`; `ChatNeverMoves`; `CopiesAgree`: index, ring and table |
| `RunClaims_fix.cfg` | as `SandboxRun.cfg` | | `SuccessIsOnCheckedCode` is violated (section 5) |
| `BotFleetClaims_sweep.cfg` | two roles | | `SweptAtStart` is violated (section 5) |

The type invariants, `StepAccounting`, `ArtifactsImmutable` and `QuietAfterShutdown` are
proved (section 6) and need no run. Several properties are conjunctions of named parts,
which the modules define and comment one by one.

Deadlock is checked in `ProjectTeam.cfg`, `OwnerChat.cfg`, `ChatSettings.cfg` and
`ProjectChats.cfg`. In the others the system may really stop: a run ends, a process is not
started again, and nobody has to send another message.

**Bounds.** The orchestrator's counters need none: they are bounded by the code's own
limits, which are constants of the model, so nothing is cut off. 23 calls are one less than
the longest run without a retry needs, and far less than one with retries needs, so that
this limit is met by both kinds of run; with a price of 4 and a budget of 9 the third paid
call crosses the budget, with a price of 0 the other limits decide. Two codes tell a
rewritten code from the approved one; `SandboxRun` has a third that cannot be written. Two
QA repairs and one review repair are the fewest with which every order of two fixes (each
kind first) occurs. Two callers give every interleaving of the two halves of `submit` with
another call; the third task of the runner is the one let in while the second is queued
behind the first's callback. A wider instance would repeat these situations, which is what
the theorems of section 6 make precise. The identifiers of requests are the one bound of
`ProjectTeam`: with two, a request can be made, decided and made again for the same role
while it comes and goes, or one be made for each role; two roles let one be removed while
the other is hired; two bots give every interleaving of two commands, and the worker thread
is a third party.

`OwnerChat`: two notifications, of one project or of two, are the fewest that can be out of
order; a transcript of one is trimmed by every entry after the first; two faults let a
repeat be cut short again, and a crash change the active project after another fault.
`TaskHandler`: a history of one record makes the second task push out the first. `BotFleet`: with three roles there is a bot before and after the
one that fails, and the coordinator is neither first nor last; tokens may be equal; two
starts are a crash and its sweep. `AgentCall`: a burst limit of one and batches of two let
five messages be posted alone, kept, posted in a summary, and deferred behind a pause (a
window of 3 between the times 1 and 20); the two models give a failure before an answer, in
the caller's chain and in the asked agent's. `ChatSettings`: the second release retired a
tier the first knew; two failures let a start fail and the file then outlive the import.
`ProjectChats`: a history of two with three branches evicts an entry whose identifier is in
use again; one message is handled at a time (`MaxCalls`), which cuts nothing the properties
look at: only the coordinator's bot writes bindings, one message after another, and a secondary
bot's messages are private, so their project depends on the registry alone; registration by another
process and the worker still fall between its steps. The symmetry is sound: nothing is
checked under fairness there.

**Fairness.** `Orchestrator` and `SandboxRun`: weak fairness of the thread that runs the
pipeline, because each agent call goes through an HTTP client with a timeout and each git
or tool process through `subprocess` with a timeout, and a call that returns or raises is
one step. `BackgroundRunner`, `TaskHandler`: weak fairness of the worker thread and, per
caller, of the *rest* of a call it has begun; nobody is made to call, to stop or to shut
down. `on_complete` waits for no send. Weak fairness of
`SendMessage` says that the event loop comes round to every message, if only to drop it when
it ends; it is not assumed that a send succeeds. `ProjectTeam`:
weak fairness, per bot, of the rest of a command it has begun; nobody has to give one, and
logical hiring is not made to go on. `AgentCall`: weak fairness of the calling thread;
requests to models have timeouts. `BotFleet`: weak fairness of `main` and of each bot's
handlers, bounded by HTTP timeouts and the 30 s of a send; nobody has to start it again.
`OwnerChat`: weak fairness of the bot's thread, and strong fairness of the owner writing
about each project: a queued notification is handed over only when a message about its
project comes, so that it is delivered is conditional on that by design. No other strong
fairness is assumed. `ChatSettings` and `ProjectChats` are checked for safety only.

## 4. The team

A `/team` command runs in the thread of the bot that received it, logical hiring in the
worker thread after a task; both are several transactions. Each transaction of `StateDB`
is an action of `ProjectTeam` (SQLite's write lock and the lock of
`_run_write_transaction`), and what others do falls between them:

* `/team add` is `Add`, then `ListPending` and a `Settle` per request listed
  (`_reconcile_matching_pending_requests`); `/team remove` is `Remove`;
* `/team approve` and `/team reject` are `BeginDecision` (the reads of `apply_decision`, or
  at once the answer to what is decided already), then `Reject`, or `Approve` and `Compare`
  (the second read of the roster and what `HireApprovalResult` makes of the two);
* logical hiring is `BeginHiring`, then per hinted role `AskFor` or `HireHinted`, depending
  on the policy, or `SkipHinted`, then `EndHiring`.

`CutShort` and `HiringCutShort` end any of these anywhere: an exception of the database
that the handler does not catch, or a crash, after which the tables are what they were.
`told` is the answer given in the last step, `stranded` the requests an add that was cut
short left pending; both only observe. `late` marks an answer between whose read and write
another decision fell. The policy is chosen at the start and kept. A request that nobody
made, a command of somebody else than the owner and an unknown role are refused before
anything is changed, and are left out.

`HiringDesk` says what the database promises whoever works on it: a role is asked for only
while it is absent and nobody else has asked; a request is decided once; approving it and
hiring its role is one step; a rejected one hires nobody. `KeepsDesk` is the refinement.
`NoneLeftBehind` relates roster, requests and the calls under way: an open question about
a role of the team exists only while the add that brought the role is about to settle it,
or because that add was cut short; `OpenQuestionIsSettled` is its liveness half.
`ReplyIsTrueUnlessLate` is what is left of "the answer states what became of the request"
when two bots decide the same one; section 5 has the rest. The model also shows an effect
that no document speaks of: a `/team remove` between the two halves of a `/team add` is
undone when the add settles the request, because approving a request hires.

## 5. Where the code does not do what it says

Two are runs that end in a counterexample under the same specification as the passing run
of the component.

| Run | Statement | What happens |
|---|---|---|
| `RunClaims_fix.cfg` | `core/orchestrator.py:34`: no SUCCESS on code that does not pass the real tools | the hook reads the stored `fix`, which is the *first* fix: after a second one, what is validated and committed is not what was reviewed last. `CommittedIsValidated` still holds: the tools did see what is committed |
| `BotFleetClaims_sweep.cfg` | `core/bot_runner.py:239`: the sweep at start removes what a crash in the middle of a task left | `cleanup_orphans` (`core/sandbox_workspace.py:530`) removes only directories git does not track; the worktree of a task during which the process died is tracked, so it and its branch stay, and a task with that identifier is refused |

The others are behaviours the models contain, seen while writing them, without a run of their own:

* `core/orchestrator.py:28`: the accumulated cost is checked after every call. But
  `cost_snapshot` raises `RuntimeError` for every sink but the in-memory one,
  `_check_cost_budget` takes that for "no limit", and the programs install `JsonLinesSink`.
  Hence the constant `BudgetEnforced`.
* `docs/fsm_spec.md:87`: FIX only with remarks to fix. After a QA FAIL the fixer is handed
  the `for_fixer` of the reviewer's *approval*.
* `README.md:28`: real cancellation, no fake completion. The token is read once; a stop
  after that is confirmed to the user, and the task is committed.
  `StopWhileRunningPreventsCommit` is what is left.
* `core/real_task_handler.py:755`: a failed commit is reported honestly. But
  `commit_in_worktree` also fails after the commit was made.
* `tests/test_hire_approval.py:179`, `:211`: the answer to a request that is decided already
  is truthful. A reject overtaken by an approve is answered "rejected, roster unchanged",
  and the role is hired.
* `core/logical_hiring.py:208`: the final roster extends the initial one. A `/team remove`
  meanwhile makes the assertion fail after roles were hired; the task's message then says
  the roster has not changed (`core/real_task_handler.py:728`).
* `core/background_runner.py:21`: the runner is never stuck busy. A `shutdown` between the
  two halves of `submit` leaves the slot taken for good. Production code never shuts a
  running runner down (`main` does not), only one whose handler could not be built.
* A blank `TELEGRAM_AGENT_TOKENS` counts as missing in validation and as an unusable mapping
  in construction: the process exits later and with another code than for the same mistake
  otherwise. It is the one exception `ValidatorAgreesWithBuilder` names.
* "Это не запускало project pipeline", say the answers of the private-chat wrappers, and
  `README.md:139` and `:187` have it that with several projects an unbound chat gets no implicit
  runtime. Two fall-throughs to the real handler are left (`core/bot_runner.py:2382`, `:2445`):
  a message whose only project is another owner's (`owner_project_mismatch`), and text that
  comes when several projects are registered and none of the owner's is active and open to
  private chats. The second works in the project that was the only one at the start
  (`core/project_runtime_router.py:157`), which need not be the one the text names.
  `TalkStartsNoPipeline` says that these two are all.
* Final messages and the agents' posts are sent without anybody waiting
  (`scripts/run_telegram_bot.py:345`): one failed send and a finished task is never reported
  (`core/real_task_handler.py:500`), or a summary is missing in the chat although the bus
  counts it as posted. Two posts in flight may also change places. `TakenTaskIsReported` and
  `AccountedFor` say just how far the program itself can account for them.
* A `tier_sessions.json` that cannot be read is taken for none (`core/tier_session.py:171`):
  `/tier` answers "none chosen" until one chat chooses, which rewrites the file without the
  others, or until the next start, which may find all of them again.
* Ctrl+C while the bots are started is a cancellation, which the `except Exception` of the
  rollback does not catch: nothing is undone (`exit = "cancelled"`).

Other things a reader of the models may want to know: without a database a failing save of
the tiers is swallowed; the budget a chat sets is read by `/budget` only; its stale read
needs two bots in the owner's private chat; a secondary bot's `/push` in a private chat that
names no project falls back to the active project of the start, and the comparison with the
task's own project is what keeps it harmless (`PushedIsOwnWork`); identifiers of tasks are
drawn without a look at the history; an agent's direct answer is recorded before it is sent.

## 6. Proofs

All theorems are for arbitrary constants under the named assumptions of the modules
(`OrchestratorAssumption`, `WritableAssumption`, `ContentAssumption`, `RunnerAssumption`,
`TeamAssumption`, `SettingsAssumption`, `CoordinatorAssumption`, `NoneAssumption`,
`PrivateAssumption`, `UnfinishedAssumption`, `MaxLenAssumption`, `ChatAssumption`,
`FleetAssumption`, `BusAssumption`, `CallAssumption`: sentinels are not members of the sets
they stand outside of, sets of projects and tasks that are counted are finite, limits are
naturals, prices are bounded by `MaxCallCost`).

* **Orchestrator.** `TypeCorrect` by the type invariant strengthened with what the loop
  counters' domain is. `StepAccountingHolds`: a live run's `steps` equals
  `StepsTo(state, repairs)`, a linear function; it is inductive together with types, because
  each handler adds one transition and `Repair` adds the loop's worth.
  `StepLimitIsSlackHolds` follows for limits with `StepCeiling <= MaxTotalSteps` (22 <= 25
  in the code). `OverrunByOneCallHolds`: at a handler's start the limits hold, and a handler
  makes one call. `LimitsHoldAlways` is the two together. `ApprovedBeforeUseHolds` needs that in REVIEW there is a latest code and
  that it is the code in hand. `ArtifactsImmutableHolds` is `StoreFirst`.
  `RunRefinesPromise` maps the run to `PipelinePromise`; the invariant says that code
  appears with the first REVIEW, that FIX is exactly "a complaint is due", and that the
  granted repairs are what the counters say, cut at their limits.
* **SandboxRun.** `RunRefinesOrchestrator`: every step is an `Orchestrator` step or leaves
  it alone, so the theorems above carry over. `CommittedIsValidatedHolds`: invariant: in
  SUCCESS the report is ok and about the worktree as it is. `StopWhileRunningPreventsCommitHolds`:
  token set while the pipeline runs implies the run is never again in "committing" and has
  no commit. `RunRefinesContract`: steps map to `TaskRun`. `TerminalEventIsTrueHolds`: until
  the commit is tried no terminal event is out, and a worktree that is committed holds something
  (`EventInv`, `TreeInv`).
* **BackgroundRunner.** `Inv` ties the slot, the stages of the tasks, who holds what, the
  queue and the worker together (at most one registered or queued or running task; the queue
  has at most one entry; a lost task keeps the slot). `SlotIsHeldByLiveTaskHolds`,
  `QuietAfterShutdownHolds` and `RunnerRefinesSerial` follow.
* **TaskHandler.** `HandlerRefinesRunner` carries the runner's invariant over
  (`SlotInHandler`). `VerdictIsTrueHolds` strengthens `VerdictIsTrue` by what is known of
  the run under way (its verdict, its commit, whether it was stopped) and of tasks that are
  not there yet. `HistoryServesPushHolds`: the slot is free before the record is written, so
  the next task may be accepted by then; the records are in order all the same, because of two
  accepted tasks the earlier has left the slot, and is over before the later begins to run
  (`AcceptedInv`). `RecordInv` says where the record of a task that is over is: in the history,
  refused, or pushed out of a full one; what the chat shows is what was handed over (`ChatInv`).
* **ProjectTeam.** `TypeCorrect` with `CallsKnown` (a call is about requests that exist).
  `TeamRefinesDesk`: each transaction is one desk step or none, so `DeskStep` needs types only;
  `OnePendingPerRoleHolds` and the lemma `DecidedStays` are then read off the desk's five
  actions. `ReplyIsTrueUnlessLateHolds` adds `ComparesApproved`: a call that is about to compare
  and was not late has approved its request. `NoneLeftBehindHolds` adds that nobody asks without
  the policy (or a hint that hires would leave a question behind); it splits into "the question
  was open before" (`WasPending`), "its role was there, or an add brings it" (`WasOnTeam`, where
  one request per role is needed) and "it stays in somebody's hands" (`StaysTracked`).
  `OpenQuestionsAreTidyHolds` joins the two.
* **ChatSettings.** Three invariants over the type invariant, one per property, because each
  needs to know something else. `WhatIsShownIsSaved`: memory holds only tiers of the running
  release (`LoadedIsKnown`), and a migration goes to the database (`MigratesToDb`), so that
  what is saved survives the next load; a file that could not be read counts as empty (`Saved`). `ResetIsForGood`: a process that uses the database has
  no file beside it, unless the file could not be deleted (`NoFileBesideDb`).
  `BudgetShownIsSaved`: while no two `/budget` overlapped and no write failed, a bot about to
  write is alone, one about to fill the cache has the row as it is, and cache and row agree
  unless somebody is writing. `StartsKeepRows` is an action property: before a process is up
  only rows that are not there are written.
* **ProjectChats.** `Bindings` (`IInv`): a chat has one owner, only registered projects have
  chats, groups are the coordinator's to write, and what the checks of a binding found still
  holds when it is written (`CheckedStaysFree`): the coordinator's bot handles one message at
  a time, and a registration can only take the *chat*, which the write checks again.
  `OneProject` and `NeverMoves` follow. `WorkStays` adds that a task that waits for its handler
  has the project of its chat wherever there is a registry at all. These hold for any number of
  calls at once, so the bound `MaxCalls` of the run does not limit them.
  `CopiesAgreeHolds` rests on lemmas about the operators of `TaskHistory`: appending to a
  memory that is well indexed (`Sound`) leaves one that is (`AppendIsSound`, which contains the
  eviction), and trimming the table and dropping the ring's oldest entry are the same thing
  (`NewestAfterInsert`, `NewestTwice`). The reload is a fold over the rows: `FoldExists` and
  `LoadIsSound` are inductions over their number, by the least counterexample (`AllNumbers`).
  `PushedIsOwnWorkHolds` says of every committed entry, in memory, in the table or on its way
  there, that its branch is its project's (`HasBranch`), and that the branch of the run under
  way is nobody's. Since `acquire` refuses a branch that exists, no later task with the same
  identifier takes one over (`BranchesKept`), and what an old entry says stays true.
* **OwnerChat.** `TalkInv`: only the conversation opened last can be open, which is what
  survives a step that closed the others and then failed. `QueueInv` is of four parts: what
  is queued and not loaded came later than what is (`BatchInv`), who was sent what
  (`SentInv`), order of sends and of acks (`OrderInv`), and a row that was sent and is queued
  still is being acked or was cut (`CutInv`). `TranscriptInv` adds that the transcript's
  notifications are delivered ones. `PlainTextStaysInTalkHolds` is an action property: with several
  candidates plain text is resolved only to the one open session, which is that of the
  conversation opened last (`PlainTextResolved`). `TalkStartsNoPipelineHolds` is one too: it goes
  through the answers of both wrappers and needs no more than types.
* **BotFleet.** `ValidatorAgreesWithBuilderHolds` is about operators only, for any environment.
  `FailedStartIsUndoneHolds`: a start stands at one bot, those before it are as far as they
  go and those after it untouched (`StartInv`), and once it is undone whatever is polling,
  running or open is on the lists of what is to be closed (`ClosingInv`).
  `HandlersHaveTheirBotsHolds`: nothing is closed while an application is still to be stopped,
  and handlers work only for applications that run or are being stopped (`HandlerInv`).
* **AgentBus, AgentCall.** Three invariants. `CallInv`: types, the thread of a task is made
  once and has a number (there are as many numbers as tasks, by counting), times do not go
  back, a question's answer is the next message of its
  thread, a call's usage is the requests made up to here. `ChatInv`, thread by thread (`Settled`):
  what is handed over, missed, lost, deferred and suppressed are apart and make up what was
  projected, each in the order of the log, and what is kept is later than the late batches handed
  over so far (a send that fails only moves a post to `undelivered`): `AccountedForHolds` and `PostsFollowLogHolds`. `ThrottleInv`: the counter of a
  thread is the number of messages posted alone since its last pause (`Counted`), which goes on
  or begins anew with the next message (`CountGoesOn`, `CountBegins`) and is not touched by what
  comes later (`CountKept`); `BurstsAreThrottledHolds` reads it off at every message.
  `PostsAreConversationHolds` joins these with `RepliesFollowRequestsHolds`. Neither a
  bound on the log nor on crashes is used.

Every safety invariant and action property of a passing run is a theorem. Only
model-checked: everything temporal under fairness (the liveness half of the refinements
`KeepsPromise`, `KeepsContract`, `RunsSerially` and `KeepsDesk`, whose safety half is proved;
`ShutdownReturns`, `TakenTaskIsReported`, `OpenQuestionIsSettled`, `QueuedIsDelivered`,
`ClosingEnds`, `CallEnds`), which TLAPS does not reach; and the two counterexamples of
section 5, which are runs.

## 7. Plan and limits

Next, in order of weight:

1. Proofs: an abstract specification of the agents' chat (what is handed over, kept and lost) that
   `AgentBus` implements step by step, and one of a queue with at-least-once delivery for
   `OwnerChat`.
2. The bridge's gate in front of destructive commands (pending confirmations and their expiry).
3. The web office's event stream: signatures polled against the database, without missing the
   last change.
4. Schema migrations of the database, cut short between two versions.

Not modelled, and why:

* `dump_task`/`restore_task`, `set_project_runtime_binding`, `set_project_policy`,
  memberships, `needs_choice`: nothing outside tests calls them. `dispatch_or_queue` has no
  caller in the tree but its tests either; its insert is modelled because the other half, the
  delivery, runs in production.
* A process without a database in `ProjectChats`, and a project whose repository vanished after
  it was bound: they start nothing. A project's `base_branch` is not looked at by `/pr`, which
  opens its draft against the default; the draft is GitHub's and not in the model.
* The coordinator (texts and proposals computed from their arguments), observability (sums and
  events), the code index, quality gates and tools (stateless readers and process wrappers):
  there is no state of their own to say anything about.
* Texts and layout, prompts, HTTP clients, voice and photos: abstracted to whether they can be
  made sense of.
