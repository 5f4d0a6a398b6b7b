--------------------------- MODULE ProjectChats ---------------------------
(***************************************************************************)
(* Several projects, their Telegram groups, and what the owner may do from *)
(* which chat: binding a group to a project (core/                         *)
(* project_chat_binding_service.py, project_migration_service.py), finding *)
(* the project of a message (project_context.py, telegram_bridge.py), the  *)
(* start of the process (project_bootstrap.py, bot_runner.py), and the     *)
(* life of a task from the message to its branch, its entry in the history *)
(* and /push and /pr (real_task_handler.py, bot_runner.py).                *)
(*                                                                         *)
(* Groups are served by the coordinator's bot alone; the owner's private   *)
(* chat by every bot.  Each bot handles its messages one by one.  Projects *)
(* are registered by the operator at any time, from another process.  A    *)
(* private message to another bot never reaches the task handler: module   *)
(* OwnerChat.  The run of a task is cut down to what it leaves behind:     *)
(* module SandboxRun has the rest.                                         *)
(***************************************************************************)
EXTENDS TaskHistory, FiniteSets, TLC

CONSTANTS Group, Repo, Bot, Coordinator, None,
          MaxCalls,    \* messages handled at the same time, by different bots
          MaxBranches  \* branches ever created

Private == "private"

ASSUME CoordinatorAssumption == Coordinator \in Bot
ASSUME NoneAssumption == None \notin Group \cup Project \cup Repo
ASSUME PrivateAssumption == Private \notin Group

VARIABLES
    registered, \* the projects of the registry
    repoOf,     \* the repository of a project's runtime binding, if it has one
    chatOf,     \* project_chat_bindings
    process,    \* what the start of the process found and wired
    call,       \* the message each bot is at
    slot,       \* the task that holds the runner
    worker,     \* where the runner's thread is
    branch,     \* what each repository has as the branch of a task
    remote      \* what was pushed of it, for which project

registry == <<registered, repoOf>>
chats == <<registry, chatOf>>
runner == <<slot, worker>>
git == <<branch, remote>>
vars == <<chats, process, call, runner, git, history>>

Symmetric == Permutations(Task) \cup Permutations(Project)
                \cup Permutations(Group) \cup Permutations(Repo)

Chat == Group \cup {Private}
Command == [name : {"task", "migrate", "unbind"}]
              \cup [name : {"push", "pr"}, task : Task]
              \cup [name : {"bind"}, target : Project]
AboutProject(cmd) == cmd.name \in {"task", "push", "pr"}

Down == [up |-> FALSE, active |-> None, resolver |-> FALSE, wired |-> FALSE]
Idle == [at |-> "idle"]

(* A branch that acquire created and no successful task has committed to.  *)
Unfinished == "unfinished"
ASSUME UnfinishedAssumption == Unfinished \notin Project \cup {None}

Init ==
    /\ registered \in SUBSET Project
    /\ repoOf \in [Project -> Repo \cup {None}]
    /\ chatOf = [p \in Project |-> None]
    /\ process = Down
    /\ call = [b \in Bot |-> Idle]
    /\ slot = None /\ worker = Idle
    /\ branch = [r \in Repo |-> [t \in Task |-> None]]
    /\ remote = [r \in Repo |-> [t \in Task |-> None]]
    /\ db = <<>> /\ memory = Empty /\ gap = FALSE

Runnable == {p \in registered : repoOf[p] # None}

-----------------------------------------------------------------------------
(* The start of the process: build_project_bootstrap_result, which seeds an *)
(* empty registry from the environment, and what build_bridge_from_env      *)
(* makes of the registry as it then is.                                     *)
Seed(p) ==
    /\ registered = {} /\ repoOf[p] # None
    /\ registered' = {p}

ActiveProject(ps) ==
    IF Cardinality(ps) = 1 /\ \A p \in ps : repoOf[p] # None
    THEN CHOOSE p \in ps : TRUE ELSE None
Wired(ps) == \E p \in ps : repoOf[p] # None
Resolver(ps) == ps # {}

Start ==
    /\ ~process.up
    /\ (\E p \in Project : Seed(p)) \/ registered' = registered
    /\ process' = [up |-> TRUE, active |-> ActiveProject(registered'),
                   resolver |-> Resolver(registered'), wired |-> Wired(registered')]
    /\ IF Wired(registered') THEN Load ELSE Forget
    /\ UNCHANGED <<repoOf, chatOf, call, runner, git>>

Crash ==
    /\ process.up
    /\ process' = Down
    /\ call' = [b \in Bot |-> Idle]
    /\ slot' = None /\ worker' = Idle
    /\ Forget
    /\ UNCHANGED <<chats, git>>

-----------------------------------------------------------------------------
(* Chats and their projects in the database.                                *)
BoundTo(chat) == {p \in Project : chatOf[p] = chat}

(* Plausible bug: the write trusts the checks made before it.               *)
AvailableAsChecked(p, g) == TRUE
Available(p, g) == BoundTo(g) \subseteq {p}

(* register_project: one transaction, which a chat that is taken fails.     *)
Register(p, g) ==
    /\ p \notin registered /\ (g = None \/ Available(p, g))
    /\ registered' = registered \cup {p}
    /\ chatOf' = [chatOf EXCEPT ![p] = g]
    /\ UNCHANGED <<repoOf, process, call, runner, git, history>>

(* resolve_telegram_context: the project of the chat, in private the only   *)
(* one there is.                                                            *)
ContextOf(chat) ==
    IF chat \in Group
    THEN IF BoundTo(chat) = {} THEN None ELSE CHOOSE p \in BoundTo(chat) : TRUE
    ELSE IF Cardinality(registered) = 1 THEN CHOOSE p \in registered : TRUE ELSE None

Undecided(chat) == chat = Private /\ Cardinality(registered) > 1

(* Plausible bug: only the private chat is asked to name its project.       *)
BlockedInPrivate(b, chat, cmd) ==
    /\ process.resolver /\ ContextOf(chat) = None /\ AboutProject(cmd)
    /\ Undecided(chat) /\ b = Coordinator
Blocked(b, chat, cmd) ==
    /\ process.resolver /\ ContextOf(chat) = None /\ AboutProject(cmd)
    /\ ~(Undecided(chat) /\ b # Coordinator)

-----------------------------------------------------------------------------
(* A message: its project is found when it comes, and used by its handler.  *)

(* Another bot serves the private chat, where a group is not bound; what it *)
(* does with text is module OwnerChat's.                                    *)
Served(b, chat, cmd) ==
    /\ AboutProject(cmd) \/ chat \in Group
    /\ b = Coordinator \/ (chat = Private /\ cmd.name \in {"push", "pr"})

Receive(b, chat, cmd) ==
    /\ process.up /\ call[b] = Idle
    /\ Cardinality({c \in Bot : call[c] # Idle}) < MaxCalls
    /\ Served(b, chat, cmd) /\ ~Blocked(b, chat, cmd)
    /\ call' = [call EXCEPT ![b] =
                  IF AboutProject(cmd)
                  THEN [at |-> cmd.name, cmd |-> cmd, own |-> ContextOf(chat),
                        project |-> IF process.resolver THEN ContextOf(chat) ELSE None]
                  ELSE [at |-> cmd.name, cmd |-> cmd, chat |-> chat]]
    /\ UNCHANGED <<chats, process, runner, git, history>>

Done(b) == call' = [call EXCEPT ![b] = Idle]
Go(b, step) == call' = [call EXCEPT ![b].at = step]

(* resolve_message_runtime: the message's project, else the active one.     *)
Context(b) == IF call[b].project # None THEN call[b].project ELSE process.active
HasRuntime(b) == Context(b) \in Runnable

(* bind_chat_to_project: who may, and whether chat and project are free...  *)
(* Plausible bug: a project that has a chat may be bound to another.        *)
UnboundOrMoving(p, g) == BoundTo(g) \subseteq {p}
Unbound(p, g) == BoundTo(g) \subseteq {p} /\ chatOf[p] \in {None, g}

CheckBind(b) ==
    LET p == call[b].cmd.target
        g == call[b].chat
    IN  /\ call[b].at = "bind"
        /\ IF p \in Runnable /\ Unbound(p, g) /\ chatOf[p] # g
           THEN Go(b, "write") ELSE Done(b)
        /\ UNCHANGED <<chats, process, runner, git, history>>

(* ... and the write, a transaction of its own that checks the chat again.  *)
WriteBinding(b) ==
    LET p == call[b].cmd.target
        g == call[b].chat
    IN  /\ call[b].at = "write" /\ Done(b)
        /\ chatOf' = IF Available(p, g) THEN [chatOf EXCEPT ![p] = g] ELSE chatOf
        /\ UNCHANGED <<registry, process, runner, git, history>>

MayMigrate(p, g) ==
    /\ BoundTo(g) = {} /\ Cardinality(registered) = 1
    /\ p \in Runnable /\ chatOf[p] = None

(* get_migration_status; migrate_current_chat goes on as bind does.         *)
Migrate(b) ==
    LET g == call[b].chat
        p == CHOOSE q \in registered : TRUE
    IN  /\ call[b].at = "migrate"
        /\ IF MayMigrate(p, g) THEN call' = [call EXCEPT ![b].at = "bind",
                                             ![b].cmd = [name |-> "bind", target |-> p]]
           ELSE Done(b)
        /\ UNCHANGED <<chats, process, runner, git, history>>

(* unbind_chat: the binding is read, then deleted.                          *)
FindBinding(b) ==
    /\ call[b].at = "unbind"
    /\ IF BoundTo(call[b].chat) = {} THEN Done(b)
       ELSE \E p \in BoundTo(call[b].chat) :
               call' = [call EXCEPT ![b] = [at |-> "delete", chat |-> @.chat, project |-> p]]
    /\ UNCHANGED <<chats, process, runner, git, history>>

DeleteBinding(b) ==
    LET p == call[b].project
    IN  /\ call[b].at = "delete" /\ Done(b)
        /\ chatOf' = IF chatOf[p] = call[b].chat THEN [chatOf EXCEPT ![p] = None] ELSE chatOf
        /\ UNCHANGED <<registry, process, runner, git, history>>

ProjectsCommand(b) ==
    CheckBind(b) \/ WriteBinding(b) \/ Migrate(b) \/ FindBinding(b) \/ DeleteBinding(b)

-----------------------------------------------------------------------------
(* A task, from submit to its entry in the history.                         *)

(* The id is drawn anew for every task, without a look at the history.  No  *)
(* task starts without a runtime or where the runner is busy.               *)
HandleTask(b, t) ==
    /\ call[b].at = "task" /\ Done(b)
    /\ slot' = IF process.wired /\ HasRuntime(b) /\ slot = None
               THEN [task |-> t, project |-> Context(b), own |-> call[b].own]
               ELSE slot
    /\ UNCHANGED <<chats, process, worker, git, history>>

RepoOfJob == repoOf[slot.project]

(* acquire refuses a branch that exists, and may fail for other reasons:    *)
(* the run raises, and on_complete records nothing.                         *)
AcquireFails ==
    /\ worker = Idle /\ slot # None
    /\ slot' = None
    /\ UNCHANGED <<chats, process, call, worker, git, history>>

Acquire ==
    /\ worker = Idle /\ slot # None
    /\ branch[RepoOfJob][slot.task] = None
    /\ Cardinality({x \in Repo \X Task : branch[x[1]][x[2]] # None}) < MaxBranches
    /\ branch' = [branch EXCEPT ![RepoOfJob][slot.task] = Unfinished]
    /\ worker' = [at |-> "run"]
    /\ UNCHANGED <<chats, process, call, slot, remote, history>>

(* The slot is free before on_complete is called.                           *)
FinishRun(committed) ==
    /\ worker.at = "run"
    /\ branch' = IF committed THEN [branch EXCEPT ![RepoOfJob][slot.task] = slot.project]
                 ELSE branch
    /\ worker' = [at |-> "record",
                  summary |-> Entry(slot.task, slot.project, committed)]
    /\ slot' = None
    /\ UNCHANGED <<chats, process, call, remote, history>>

RecordTask ==
    /\ worker.at = "record"
    /\ Record(worker.summary)
    /\ worker' = Idle
    /\ UNCHANGED <<chats, process, call, slot, git>>

-----------------------------------------------------------------------------
(* /push and /pr: what the history says of the id, in the project of the    *)
(* message, decides; what git then pushes is the branch as it is.           *)

(* Plausible bug: any task in the history may be pushed from any chat.      *)
MayPushAny(b, t) == process.wired /\ HasRuntime(b) /\ Known(t) /\ Get(t).committed
MayPush(b, t) ==
    /\ process.wired /\ HasRuntime(b)
    /\ Known(t) /\ Get(t).committed /\ Get(t).project = Context(b)

GitPush(p, t) ==
    /\ branch[repoOf[p]][t] # None
    /\ remote' = [remote EXCEPT ![repoOf[p]][t] = p]

Push(b) ==
    /\ call[b].at = "push" /\ Done(b)
    /\ \/ MayPush(b, call[b].cmd.task) /\ GitPush(Context(b), call[b].cmd.task)
       \/ UNCHANGED remote
    /\ UNCHANGED <<chats, process, runner, branch, history>>

(* /pr pushes too, and opens a draft once the branch is there.              *)
PushForPullRequest(b) ==
    /\ call[b].at = "pr"
    /\ \/ /\ MayPush(b, call[b].cmd.task) /\ GitPush(Context(b), call[b].cmd.task)
          /\ Go(b, "open")
       \/ Done(b) /\ UNCHANGED remote
    /\ UNCHANGED <<chats, process, runner, branch, history>>

(* The pull request itself is GitHub's, whether gh makes it or fails.       *)
OpenPullRequest(b) ==
    /\ call[b].at = "open" /\ Done(b)
    /\ UNCHANGED <<chats, process, runner, git, history>>

Handle(b) ==
    \/ ProjectsCommand(b)
    \/ \E t \in Task : HandleTask(b, t)
    \/ Push(b) \/ PushForPullRequest(b) \/ OpenPullRequest(b)

Work ==
    \/ AcquireFails \/ Acquire \/ RecordTask
    \/ \E committed \in BOOLEAN : FinishRun(committed)

Next ==
    \/ Start \/ Crash
    \/ \E p \in Project, g \in Group \cup {None} : Register(p, g)
    \/ \E b \in Bot, chat \in Chat, cmd \in Command : Receive(b, chat, cmd)
    \/ \E b \in Bot : Handle(b)
    \/ Work

Spec == Init /\ [][Next]_vars

-----------------------------------------------------------------------------
(* What reaches the remote for a project is what a successful task of that  *)
(* project committed: "Операция остановлена, чтобы не работать с чужим      *)
(* repo/runtime", with ids drawn twice, a repository two projects share,    *)
(* evictions, restarts, chats bound anew and the fall back to the active    *)
(* project in between.                                                      *)
PushedIsOwnWork ==
    \A r \in Repo, t \in Task :
        remote[r][t] # None => branch[r][t] = remote[r][t]

(* A task runs for the project its chat had when it was sent: a chat        *)
(* without a project starts nothing, though there be an active one.         *)
WorkStaysInItsProject == slot # None => slot.project = slot.own

(* A group has one project, whatever is registered or bound between the     *)
(* checks of a binding and its write.                                       *)
OneProjectPerChat == \A g \in Group : Cardinality(BoundTo(g)) <= 1

(* A project leaves its group only by /projects unbind in that group.       *)
ChatNeverMoves ==
    [][\A p \in Project :
          chatOf[p] # None /\ chatOf'[p] # chatOf[p] =>
             /\ chatOf'[p] = None
             /\ \E b \in Bot : call[b].at = "delete" /\ call[b].chat = chatOf[p]]_vars

(* The history in memory is the newest rows of the table, in their order,   *)
(* unless a row was inserted that the memory was not told of; the next      *)
(* start mends that.                                                        *)
RingIsDbTail == process.wired /\ ~gap => memory.ring = RecentTasks

(* The index, the ring and the table tell the same history.                *)
CopiesAgree == IndexIsNewest /\ RingIsDbTail
=============================================================================
