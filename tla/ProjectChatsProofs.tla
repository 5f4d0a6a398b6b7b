------------------------ MODULE ProjectChatsProofs ------------------------
(***************************************************************************)
(* ProjectChats, for any projects, groups, bots, messages and bounds.      *)
(* Bindings: a group has one project, a project leaves its group only by   *)
(* /projects unbind, and a task runs for the project of its chat; the      *)
(* invariant says what holds between the checks of a binding and its       *)
(* write, which are transactions of their own.  History: index, ring and   *)
(* table agree, by induction over the rows that a start reads back.  Git:  *)
(* what is pushed for a project is what a task of that project committed.  *)
(***************************************************************************)
EXTENDS ProjectChats, FiniteSetTheorems, WellFoundedInduction, TLAPS

(* What a bot is at, and what it has of its message.                       *)
AboutCall == [at : {"task", "push", "pr", "open"}, cmd : Command,
              own : Project \cup {None}, project : Project \cup {None}]
BindCall == [at : {"bind", "write"}, cmd : [name : {"bind"}, target : Project], chat : Group]
OtherCall == [at : {"migrate", "unbind"}, cmd : Command, chat : Group]
DeleteCall == [at : {"delete"}, chat : Group, project : Project]
Call == {Idle} \cup AboutCall \cup BindCall \cup OtherCall \cup DeleteCall

CallsTyped ==
    /\ call \in [Bot -> Call]
    /\ registered \subseteq Project
    /\ chatOf \in [Project -> Group \cup {None}]

OneOwner ==
    \A p, q \in Project : chatOf[p] # None /\ chatOf[p] = chatOf[q] => p = q

OnlyRegisteredHaveChats == \A p \in Project : chatOf[p] # None => p \in registered

(* Groups are the coordinator's, which handles one message at a time.      *)
GroupsAreTheCoordinators ==
    \A b \in Bot :
        call[b].at \in {"bind", "write", "migrate", "unbind", "delete"} => b = Coordinator

(* What the checks found still holds of the project when it is written.    *)
CheckedStaysFree ==
    \A b \in Bot : call[b].at = "write" =>
        call[b].cmd.target \in registered /\ chatOf[call[b].cmd.target] = None

IInv ==
    /\ CallsTyped /\ OneOwner /\ OnlyRegisteredHaveChats
    /\ GroupsAreTheCoordinators /\ CheckedStaysFree

LEMMA InitIInv == Init => IInv
  BY DEF Init, IInv, CallsTyped, OneOwner, OnlyRegisteredHaveChats,
         GroupsAreTheCoordinators, CheckedStaysFree, Call, Idle

(* The steps of the runner and of /push leave the registry alone.          *)
LEMMA QuietKeepsIInv ==
    ASSUME IInv, UNCHANGED chats, NEW b \in Bot,
           \/ UNCHANGED call
           \/ call' = [call EXCEPT ![b] = Idle]
           \/ call[b].at = "pr" /\ call' = [call EXCEPT ![b].at = "open"]
    PROVE  IInv'
<1>1. CASE UNCHANGED call
  BY <1>1 DEF IInv, CallsTyped, OneOwner, OnlyRegisteredHaveChats,
          GroupsAreTheCoordinators, CheckedStaysFree, chats, registry
<1>2. CASE call' = [call EXCEPT ![b] = Idle]
  BY <1>2 DEF IInv, CallsTyped, OneOwner, OnlyRegisteredHaveChats,
          GroupsAreTheCoordinators, CheckedStaysFree, chats, registry, Call, Idle
<1>3. CASE call[b].at = "pr" /\ call' = [call EXCEPT ![b].at = "open"]
  <2>1. call[b] \in AboutCall
    BY <1>3 DEF IInv, CallsTyped, Call, Idle, BindCall, OtherCall, DeleteCall
  <2>2. call'[b] \in AboutCall /\ call'[b].at = "open"
    BY <1>3, <2>1 DEF IInv, CallsTyped, AboutCall
  <2>3. \A c \in Bot \ {b} : call'[c] = call[c]
    BY <1>3 DEF IInv, CallsTyped
  <2>4. call' \in [Bot -> Call]
    BY <1>3, <2>2, <2>3 DEF IInv, CallsTyped, Call
  <2>. QED
    BY <2>2, <2>3, <2>4 DEF IInv, CallsTyped, OneOwner, OnlyRegisteredHaveChats,
          GroupsAreTheCoordinators, CheckedStaysFree, chats, registry
<1>. QED BY <1>1, <1>2, <1>3

(* A message, a step of a handler: only the bot's own call changes.        *)
LEMMA ReceiveKeepsIInv ==
    ASSUME IInv, NEW b \in Bot, NEW chat \in Chat, NEW cmd \in Command,
           Receive(b, chat, cmd)
    PROVE  IInv'
<1>1. ContextOf(chat) \in Project \cup {None}
  BY DEF ContextOf, BoundTo, IInv, CallsTyped
<1>2. call'[b] \in Call /\ call'[b].at = cmd.name
  <2>1. CASE AboutProject(cmd)
    <3>1. call'[b] = [at |-> cmd.name, cmd |-> cmd, own |-> ContextOf(chat),
                      project |-> IF process.resolver THEN ContextOf(chat) ELSE None]
      BY <2>1 DEF Receive, IInv, CallsTyped
    <3>. QED BY <1>1, <2>1, <3>1 DEF AboutProject, Call, AboutCall
  <2>2. CASE ~AboutProject(cmd)
    <3>1. call'[b] = [at |-> cmd.name, cmd |-> cmd, chat |-> chat]
      BY <2>2 DEF Receive, IInv, CallsTyped
    <3>2. chat \in Group
      BY <2>2 DEF Receive, Served
    <3>3. CASE cmd.name \in {"migrate", "unbind"}
      BY <3>1, <3>2, <3>3 DEF Call, OtherCall
    <3>4. CASE cmd \in [name : {"bind"}, target : Project]
      BY <3>1, <3>2, <3>4 DEF Call, BindCall
    <3>. QED BY <2>2, <3>3, <3>4 DEF Command, AboutProject
  <2>. QED BY <2>1, <2>2
<1>3. cmd.name # "write" /\ cmd.name # "delete"
  BY DEF Command
<1>4. AboutProject(cmd) \/ b = Coordinator
  BY DEF Receive, Served, AboutProject
<1>5. \A c \in Bot \ {b} : call'[c] = call[c]
  BY DEF Receive, IInv, CallsTyped
<1>6. call' \in [Bot -> Call]
  BY <1>2, <1>5 DEF Receive, IInv, CallsTyped
<1>7. UNCHANGED <<registered, chatOf>>
  BY DEF Receive, chats, registry
<1>. QED
  BY <1>2, <1>3, <1>4, <1>5, <1>6, <1>7
  DEF IInv, CallsTyped, OneOwner, OnlyRegisteredHaveChats,
      GroupsAreTheCoordinators, CheckedStaysFree, AboutProject

LEMMA CheckBindKeepsIInv ==
    ASSUME IInv, NEW b \in Bot, CheckBind(b)
    PROVE  IInv'
<1>1. CASE Done(b)
  BY <1>1, QuietKeepsIInv DEF CheckBind, Done
<1>2. CASE ~Done(b)
  <2>1. call[b] \in BindCall
    BY DEF CheckBind, IInv, CallsTyped, Call, Idle, AboutCall, OtherCall, DeleteCall
  <2>2. /\ call' = [call EXCEPT ![b].at = "write"]
        /\ call[b].cmd.target \in Runnable
        /\ chatOf[call[b].cmd.target] \in {None, call[b].chat}
        /\ chatOf[call[b].cmd.target] # call[b].chat
    BY <1>2 DEF CheckBind, Go, Unbound
  <2>3. /\ call'[b] \in BindCall
        /\ call'[b].at = "write" /\ call'[b].cmd = call[b].cmd
    BY <2>1, <2>2 DEF IInv, CallsTyped, BindCall
  <2>4. \A c \in Bot \ {b} : call'[c] = call[c]
    BY <2>2 DEF IInv, CallsTyped
  <2>5. call' \in [Bot -> Call]
    BY <2>2, <2>3, <2>4 DEF IInv, CallsTyped, Call
  <2>6. b = Coordinator
    BY DEF CheckBind, IInv, GroupsAreTheCoordinators
  <2>. QED
    BY <2>2, <2>3, <2>4, <2>5, <2>6
    DEF CheckBind, chats, registry, Runnable, IInv, CallsTyped, OneOwner,
        OnlyRegisteredHaveChats, GroupsAreTheCoordinators, CheckedStaysFree
<1>. QED BY <1>1, <1>2

(* The write checks the chat again, and the project is free since the      *)
(* check: only the coordinator's bot writes bindings of projects there are. *)
LEMMA WriteBindingKeepsIInv ==
    ASSUME IInv, NEW b \in Bot, WriteBinding(b)
    PROVE  IInv'
<1>. DEFINE p == call[b].cmd.target
            g == call[b].chat
<1>1. call[b] \in BindCall
  BY DEF WriteBinding, IInv, CallsTyped, Call, Idle, AboutCall, OtherCall, DeleteCall
<1>2. p \in Project /\ g \in Group /\ p \in registered /\ chatOf[p] = None
  BY <1>1 DEF BindCall, WriteBinding, IInv, CheckedStaysFree
<1>3. CASE ~Available(p, g)
  BY <1>3, QuietKeepsIInv DEF WriteBinding, Done, chats
<1>4. CASE Available(p, g)
  <2>1. chatOf' = [chatOf EXCEPT ![p] = g]
    BY <1>4 DEF WriteBinding
  <2>2. call' = [call EXCEPT ![b] = Idle] /\ registered' = registered
    BY DEF WriteBinding, Done, registry
  <2>3. CallsTyped'
    BY <1>2, <2>1, <2>2 DEF IInv, CallsTyped, Call
  <2>4. \A q \in Project \ {p} : chatOf[q] # g
    BY <1>4 DEF Available, BoundTo
  <2>5. OneOwner'
    BY <1>2, <2>1, <2>4 DEF IInv, CallsTyped, OneOwner
  <2>6. OnlyRegisteredHaveChats'
    BY <1>2, <2>1, <2>2 DEF IInv, CallsTyped, OnlyRegisteredHaveChats
  <2>7. GroupsAreTheCoordinators'
    BY <2>2 DEF IInv, CallsTyped, GroupsAreTheCoordinators, Idle
  <2>8. CheckedStaysFree'
    <3>1. \A c \in Bot : call'[c].at # "write"
      BY <2>2 DEF WriteBinding, IInv, CallsTyped, GroupsAreTheCoordinators, Idle
    <3>. QED BY <3>1 DEF CheckedStaysFree
  <2>. QED BY <2>3, <2>5, <2>6, <2>7, <2>8 DEF IInv
<1>. QED BY <1>3, <1>4

LEMMA MigrateKeepsIInv ==
    ASSUME IInv, NEW b \in Bot, Migrate(b)
    PROVE  IInv'
<1>. DEFINE p == CHOOSE q \in registered : TRUE
<1>1. CASE Done(b)
  BY <1>1, QuietKeepsIInv DEF Migrate, Done
<1>2. CASE ~Done(b)
  <2>1. call[b] \in OtherCall
    BY DEF Migrate, IInv, CallsTyped, Call, Idle, AboutCall, BindCall, DeleteCall
  <2>2. /\ p \in Project
        /\ call' = [call EXCEPT ![b].at = "bind",
                                ![b].cmd = [name |-> "bind", target |-> p]]
    BY <1>2 DEF Migrate, MayMigrate, Runnable, IInv, CallsTyped
  <2>3. call'[b] \in BindCall /\ call'[b].at = "bind"
    BY <2>1, <2>2 DEF IInv, CallsTyped, BindCall, OtherCall
  <2>4. \A c \in Bot \ {b} : call'[c] = call[c]
    BY <2>2 DEF IInv, CallsTyped
  <2>5. call' \in [Bot -> Call]
    BY <2>2, <2>3, <2>4 DEF IInv, CallsTyped, Call
  <2>6. b = Coordinator
    BY DEF Migrate, IInv, GroupsAreTheCoordinators
  <2>. QED
    BY <2>3, <2>4, <2>5, <2>6
    DEF Migrate, chats, registry, IInv, CallsTyped, OneOwner,
        OnlyRegisteredHaveChats, GroupsAreTheCoordinators, CheckedStaysFree
<1>. QED BY <1>1, <1>2

LEMMA FindBindingKeepsIInv ==
    ASSUME IInv, NEW b \in Bot, FindBinding(b)
    PROVE  IInv'
<1>1. CASE Done(b)
  BY <1>1, QuietKeepsIInv DEF FindBinding, Done
<1>2. CASE ~Done(b)
  <2>1. call[b] \in OtherCall
    BY DEF FindBinding, IInv, CallsTyped, Call, Idle, AboutCall, BindCall, DeleteCall
  <2>2. PICK p \in Project :
          call' = [call EXCEPT ![b] = [at |-> "delete", chat |-> @.chat, project |-> p]]
    BY <1>2 DEF FindBinding, BoundTo
  <2>3. call'[b] \in DeleteCall /\ call'[b].at = "delete"
    BY <2>1, <2>2 DEF IInv, CallsTyped, DeleteCall, OtherCall
  <2>4. \A c \in Bot \ {b} : call'[c] = call[c]
    BY <2>2 DEF IInv, CallsTyped
  <2>5. call' \in [Bot -> Call]
    BY <2>2, <2>3, <2>4 DEF IInv, CallsTyped, Call
  <2>6. b = Coordinator
    BY DEF FindBinding, IInv, GroupsAreTheCoordinators
  <2>. QED
    BY <2>3, <2>4, <2>5, <2>6
    DEF FindBinding, chats, registry, IInv, CallsTyped, OneOwner,
        OnlyRegisteredHaveChats, GroupsAreTheCoordinators, CheckedStaysFree
<1>. QED BY <1>1, <1>2

LEMMA DeleteBindingKeepsIInv ==
    ASSUME IInv, NEW b \in Bot, DeleteBinding(b)
    PROVE  IInv'
<1>. DEFINE p == call[b].project
<1>1. call[b] \in DeleteCall
  BY DEF DeleteBinding, IInv, CallsTyped, Call, Idle, AboutCall, BindCall, OtherCall
<1>2. call' = [call EXCEPT ![b] = Idle] /\ registered' = registered
  BY DEF DeleteBinding, Done, registry
<1>3. p \in Project
  BY <1>1 DEF DeleteCall
<1>4. chatOf' = chatOf \/ chatOf' = [chatOf EXCEPT ![p] = None]
  BY DEF DeleteBinding
<1>. QED
  BY <1>2, <1>3, <1>4
  DEF IInv, CallsTyped, OneOwner, OnlyRegisteredHaveChats,
      GroupsAreTheCoordinators, CheckedStaysFree, Call, Idle

(* What is registered is new, so no check of a binding was about it.       *)
LEMMA RegisterKeepsIInv ==
    ASSUME IInv, NEW p \in Project, NEW g \in Group \cup {None}, Register(p, g)
    PROVE  IInv'
<1>1. /\ registered' = registered \cup {p} /\ call' = call
      /\ chatOf' = [chatOf EXCEPT ![p] = g] /\ p \notin registered
  BY DEF Register
<1>2. g = None \/ \A q \in Project \ {p} : chatOf[q] # g
  BY DEF Register, Available, BoundTo
<1>3. CallsTyped'
  BY <1>1 DEF IInv, CallsTyped
<1>4. OneOwner'
  BY <1>1, <1>2 DEF IInv, CallsTyped, OneOwner
<1>. QED
  BY <1>1, <1>3, <1>4
  DEF IInv, CallsTyped, OnlyRegisteredHaveChats, GroupsAreTheCoordinators, CheckedStaysFree

LEMMA NextKeepsIInv == IInv /\ [Next]_vars => IInv'
<1>. SUFFICES ASSUME IInv, [Next]_vars PROVE IInv'
  OBVIOUS
<1>. USE CoordinatorAssumption
<1>1. CASE UNCHANGED vars
  BY <1>1, QuietKeepsIInv DEF vars
<1>2. CASE Start
  <2>1. /\ UNCHANGED <<chatOf, call>> /\ registered \subseteq registered'
        /\ registered' \subseteq Project
    BY <1>2 DEF Start, Seed, IInv, CallsTyped
  <2>. QED
    BY <2>1 DEF IInv, CallsTyped, OneOwner, OnlyRegisteredHaveChats,
          GroupsAreTheCoordinators, CheckedStaysFree
<1>3. CASE Crash
  BY <1>3 DEF Crash, chats, registry, IInv, CallsTyped, OneOwner,
       OnlyRegisteredHaveChats, GroupsAreTheCoordinators, CheckedStaysFree, Call, Idle
<1>4. CASE \E p \in Project, g \in Group \cup {None} : Register(p, g)
  BY <1>4, RegisterKeepsIInv
<1>5. CASE \E b \in Bot, chat \in Chat, cmd \in Command : Receive(b, chat, cmd)
  BY <1>5, ReceiveKeepsIInv
<1>6. ASSUME NEW b \in Bot, Handle(b) PROVE IInv'
  <2>1. CASE ProjectsCommand(b)
    BY <2>1, CheckBindKeepsIInv, WriteBindingKeepsIInv, MigrateKeepsIInv,
       FindBindingKeepsIInv, DeleteBindingKeepsIInv DEF ProjectsCommand
  <2>2. CASE \E t \in Task : HandleTask(b, t)
    BY <2>2, QuietKeepsIInv DEF HandleTask, Done
  <2>3. CASE Push(b)
    BY <2>3, QuietKeepsIInv DEF Push, Done
  <2>4. CASE PushForPullRequest(b)
    BY <2>4, QuietKeepsIInv DEF PushForPullRequest, Done, Go
  <2>5. CASE OpenPullRequest(b)
    BY <2>5, QuietKeepsIInv DEF OpenPullRequest, Done
  <2>. QED BY <1>6, <2>1, <2>2, <2>3, <2>4, <2>5 DEF Handle
<1>7. CASE Work
  BY <1>7, QuietKeepsIInv DEF Work, AcquireFails, Acquire, RecordTask, FinishRun
<1>. QED BY <1>1, <1>2, <1>3, <1>4, <1>5, <1>6, <1>7 DEF Next

(* What the argument rests on, as one invariant.                           *)
THEOREM Bindings == Spec => []IInv
  BY InitIInv, NextKeepsIInv, PTL DEF Spec

(* A group has one project: a binding's write looks at the chat again, in  *)
(* the transaction that writes.                                            *)
THEOREM OneProject == Spec => []OneProjectPerChat
<1>1. ASSUME IInv PROVE OneProjectPerChat
  <2>. SUFFICES ASSUME NEW g \in Group PROVE Cardinality(BoundTo(g)) <= 1
    BY DEF OneProjectPerChat
  <2>1. CASE BoundTo(g) = {}
    <3>1. Cardinality(BoundTo(g)) = 0
      BY <2>1, FS_EmptySet
    <3>. QED BY <3>1
  <2>2. CASE BoundTo(g) # {}
    <3>1. PICK p \in Project : p \in BoundTo(g)
      BY <2>2 DEF BoundTo
    <3>2. \A q \in BoundTo(g) : q = p
      BY <1>1, <3>1, NoneAssumption DEF BoundTo, IInv, OneOwner
    <3>3. BoundTo(g) = {p}
      BY <3>1, <3>2
    <3>4. Cardinality({p}) = 1
      BY FS_Singleton
    <3>. QED BY <3>3, <3>4
  <2>. QED BY <2>1, <2>2
<1>. QED BY <1>1, Bindings, PTL

(* A project leaves its group only by /projects unbind: a binding checked  *)
(* earlier never moves a project that was bound meanwhile.                 *)
THEOREM NeverMoves == Spec => ChatNeverMoves
<1>. DEFINE Stays(p) == chatOf[p] # None /\ chatOf'[p] # chatOf[p] =>
              /\ chatOf'[p] = None
              /\ \E b \in Bot : call[b].at = "delete" /\ call[b].chat = chatOf[p]
<1>1. ASSUME IInv, [Next]_vars, NEW p \in Project PROVE Stays(p)
  <2>1. CASE UNCHANGED chatOf
    BY <2>1
  <2>2. ASSUME NEW q \in Project, NEW g \in Group \cup {None}, Register(q, g)
        PROVE  Stays(p)
    BY <1>1, <2>2 DEF Register, IInv, CallsTyped, OnlyRegisteredHaveChats
  <2>3. ASSUME NEW b \in Bot, WriteBinding(b) PROVE Stays(p)
    <3>1. chatOf[call[b].cmd.target] = None
      BY <1>1, <2>3 DEF WriteBinding, IInv, CheckedStaysFree
    <3>. QED BY <1>1, <2>3, <3>1 DEF WriteBinding, IInv, CallsTyped
  <2>4. ASSUME NEW b \in Bot, DeleteBinding(b) PROVE Stays(p)
    BY <1>1, <2>4 DEF DeleteBinding, IInv, CallsTyped
  <2>5. \/ UNCHANGED chatOf
        \/ \E q \in Project, g \in Group \cup {None} : Register(q, g)
        \/ \E b \in Bot : WriteBinding(b) \/ DeleteBinding(b)
    BY <1>1 DEF vars, chats, Next, Start, Crash, Receive, Handle, ProjectsCommand,
       CheckBind, Migrate, FindBinding, HandleTask, Push, PushForPullRequest,
       OpenPullRequest, Work, AcquireFails, Acquire, FinishRun, RecordTask
  <2>. QED BY <2>1, <2>2, <2>3, <2>4, <2>5
<1>2. IInv /\ [Next]_vars => [\A p \in Project : Stays(p)]_vars
  BY <1>1
<1>3. ChatNeverMoves <=> [][\A p \in Project : Stays(p)]_vars
  BY DEF ChatNeverMoves
<1>. QED BY <1>2, <1>3, Bindings, PTL DEF Spec

-----------------------------------------------------------------------------
(* A message about work has its chat's project, or there was no project at *)
(* all when the process started, and then there is no runner.              *)
WorkInv ==
    /\ process.up /\ ~process.resolver => ~process.wired
    /\ ~process.up => \A b \in Bot : call[b] = Idle
    /\ \A b \in Bot : call[b].at = "task" /\ process.resolver =>
          call[b].project # None /\ call[b].project = call[b].own
    /\ slot # None => slot.project = slot.own

LEMMA NextKeepsWorkInv == IInv /\ WorkInv /\ [Next]_vars => WorkInv'
<1>. SUFFICES ASSUME IInv, WorkInv, [Next]_vars PROVE WorkInv'
  OBVIOUS
<1>. USE CoordinatorAssumption
<1>1. CASE UNCHANGED vars
  BY <1>1 DEF vars, runner, WorkInv
<1>2. CASE Start
  <2>1. process' = [up |-> TRUE, active |-> ActiveProject(registered'),
                    resolver |-> Resolver(registered'), wired |-> Wired(registered')]
    BY <1>2 DEF Start
  <2>2. ~process.up /\ UNCHANGED <<call, slot>>
    BY <1>2 DEF Start, runner
  <2>3. ~process'.resolver => ~process'.wired
    BY <2>1 DEF Resolver, Wired
  <2>. QED BY <2>1, <2>2, <2>3 DEF WorkInv, Idle
<1>3. CASE Crash
  BY <1>3 DEF Crash, WorkInv, Idle, Down
<1>4. ASSUME NEW p \in Project, NEW g \in Group \cup {None}, Register(p, g)
      PROVE  WorkInv'
  BY <1>4 DEF Register, runner, WorkInv
<1>5. ASSUME NEW b \in Bot, NEW chat \in Chat, NEW cmd \in Command,
             Receive(b, chat, cmd)
      PROVE  WorkInv'
  <2>1. UNCHANGED <<process, slot>> /\ process.up
    BY <1>5 DEF Receive, runner
  <2>2. \A c \in Bot \ {b} : call'[c] = call[c]
    BY <1>5 DEF Receive, IInv, CallsTyped
  <2>3. CASE cmd.name = "task"
    <3>1. call'[b] = [at |-> cmd.name, cmd |-> cmd, own |-> ContextOf(chat),
                      project |-> IF process.resolver THEN ContextOf(chat) ELSE None]
      BY <1>5, <2>3 DEF Receive, AboutProject, IInv, CallsTyped
    <3>2. b = Coordinator
      BY <1>5, <2>3 DEF Receive, Served
    <3>3. process.resolver => ContextOf(chat) # None
      BY <1>5, <2>3, <3>2 DEF Receive, Blocked, AboutProject
    <3>. QED BY <2>1, <2>2, <3>1, <3>3 DEF WorkInv
  <2>4. CASE cmd.name # "task"
    <3>1. call'[b].at = cmd.name
      BY <1>5 DEF Receive, IInv, CallsTyped
    <3>. QED BY <2>1, <2>2, <2>4, <3>1 DEF WorkInv
  <2>. QED BY <2>3, <2>4
<1>6. ASSUME NEW b \in Bot, Handle(b) PROVE WorkInv'
  <2>1. process.up
    BY <1>6 DEF Handle, ProjectsCommand, CheckBind, WriteBinding, Migrate, FindBinding,
       DeleteBinding, HandleTask, Push, PushForPullRequest, OpenPullRequest, WorkInv, Idle
  <2>2. UNCHANGED process /\ \A c \in Bot \ {b} : call'[c] = call[c]
    BY <1>6 DEF Handle, ProjectsCommand, CheckBind, WriteBinding, Migrate, FindBinding,
       DeleteBinding, HandleTask, Push, PushForPullRequest, OpenPullRequest,
       Done, Go, IInv, CallsTyped
  <2>3. call'[b].at # "task"
    <3>1. CASE call' = [call EXCEPT ![b] = Idle]
      BY <3>1 DEF Idle, IInv, CallsTyped
    <3>2. CASE /\ call[b].at \in {"bind", "pr"}
               /\ \E step \in {"write", "open"} : call' = [call EXCEPT ![b].at = step]
      <4>1. call[b] \in AboutCall \cup BindCall
        BY <3>2 DEF IInv, CallsTyped, Call, Idle, OtherCall, DeleteCall
      <4>. QED BY <3>2, <4>1 DEF IInv, CallsTyped, AboutCall, BindCall
    <3>3. CASE Migrate(b)
      <4>1. call[b] \in OtherCall
        BY <3>3 DEF Migrate, IInv, CallsTyped, Call, Idle, AboutCall, BindCall, DeleteCall
      <4>. QED BY <3>1, <3>3, <4>1 DEF Migrate, Done, OtherCall, IInv, CallsTyped
    <3>4. CASE FindBinding(b)
      BY <3>1, <3>4 DEF FindBinding, Done, IInv, CallsTyped
    <3>. QED
      BY <1>6, <3>1, <3>2, <3>3, <3>4
      DEF Handle, ProjectsCommand, CheckBind, WriteBinding, DeleteBinding,
          HandleTask, Push, PushForPullRequest, OpenPullRequest, Done, Go
  <2>4. slot' # None => slot'.project = slot'.own
    <3>1. CASE UNCHANGED slot
      BY <3>1 DEF WorkInv
    <3>2. ASSUME NEW t \in Task, HandleTask(b, t), slot' # slot
          PROVE  slot'.project = slot'.own
      <4>1. /\ process.wired /\ call[b].at = "task"
            /\ slot' = [task |-> t, project |-> Context(b), own |-> call[b].own]
        BY <3>2 DEF HandleTask
      <4>2. process.resolver
        BY <2>1, <4>1 DEF WorkInv
      <4>3. Context(b) = call[b].own
        BY <4>1, <4>2 DEF Context, WorkInv
      <4>. QED BY <4>1, <4>3
    <3>. QED
      BY <1>6, <3>1, <3>2
      DEF Handle, ProjectsCommand, CheckBind, WriteBinding, Migrate, FindBinding,
          DeleteBinding, Push, PushForPullRequest, OpenPullRequest, runner
  <2>. QED BY <2>1, <2>2, <2>3, <2>4 DEF WorkInv
<1>7. CASE Work
  BY <1>7 DEF Work, AcquireFails, Acquire, RecordTask, FinishRun, WorkInv
<1>. QED BY <1>1, <1>2, <1>3, <1>4, <1>5, <1>6, <1>7 DEF Next

(* A task runs for the project its chat had when it was sent: the fall     *)
(* back to the active project is never taken by a chat without one.        *)
THEOREM WorkStays == Spec => []WorkStaysInItsProject
<1>1. Init => WorkInv
  BY DEF Init, WorkInv, Down, Idle
<1>2. WorkInv => WorkStaysInItsProject
  BY DEF WorkInv, WorkStaysInItsProject
<1>. QED BY <1>1, <1>2, NextKeepsWorkInv, Bindings, PTL DEF Spec
-----------------------------------------------------------------------------
(* The history: what memory holds is well indexed, whatever is appended.    *)
Row == [task : Task, project : Project, committed : BOOLEAN]

(* IndexIsNewest, of any memory.                                            *)
Indexed(m) ==
    \A t \in Task :
        \/ m.byId[t] = 0 /\ \A i \in DOMAIN m.ring : m.ring[i].task # t
        \/ /\ m.byId[t] \in DOMAIN m.ring /\ m.ring[m.byId[t]].task = t
           /\ \A i \in DOMAIN m.ring : m.ring[i].task = t => i <= m.byId[t]

Sound(m) ==
    /\ m \in [ring : Seq(Row), byId : [Task -> Nat]]
    /\ Len(m.ring) <= MaxLen
    /\ Indexed(m)

LEMMA EmptyIsSound == Sound(Empty)
<1>1. <<>> \in Seq(Row) /\ Len(<<>>) = 0 /\ DOMAIN <<>> = {}
  OBVIOUS
<1>2. QED BY <1>1, MaxLenAssumption DEF Sound, Indexed, Empty

(* Eviction drops the oldest entry and moves the index along.               *)
LEMMA EvictIsSound ==
    ASSUME NEW m, Sound(m), Full(m)
    PROVE  Sound(Evict(m)) /\ Evict(m).ring = Tail(m.ring) /\ Len(Evict(m).ring) = MaxLen - 1
<1> DEFINE r == m.ring
           q == Tail(r)
           e == Evict(m)
<1>1. r \in Seq(Row) /\ Len(r) = MaxLen /\ Len(r) \in Nat /\ r # <<>> /\ MaxLen \in Nat
  BY MaxLenAssumption DEF Sound, Full
<1>2. q \in Seq(Row) /\ Len(q) = MaxLen - 1 /\ DOMAIN q = 1..(MaxLen - 1)
  BY <1>1
<1>3. \A i \in DOMAIN q : i \in Nat /\ i + 1 \in DOMAIN r /\ q[i] = r[i + 1]
  BY <1>1
<1>4. e.ring = q /\ e.byId = [t \in Task |-> IF m.byId[t] \in (IF t = m.ring[1].task THEN {0, 1} ELSE {0})
                                           THEN 0 ELSE m.byId[t] - 1]
  BY DEF Evict
<1>5. \A t \in Task : m.byId[t] \in Nat
  BY DEF Sound
<1>6. e.byId \in [Task -> Nat]
  BY <1>4, <1>5
<1>7. e \in [ring : Seq(Row), byId : [Task -> Nat]]
  BY <1>2, <1>4, <1>6 DEF Evict
<1>8. ASSUME NEW t \in Task
      PROVE  \/ e.byId[t] = 0 /\ \A i \in DOMAIN q : q[i].task # t
             \/ /\ e.byId[t] \in DOMAIN q /\ q[e.byId[t]].task = t
                /\ \A i \in DOMAIN q : q[i].task = t => i <= e.byId[t]
  <2> DEFINE k == m.byId[t]
  <2>1. CASE k = 0
    <3>1. \A i \in DOMAIN r : r[i].task # t
      BY <1>1, <2>1 DEF Sound, Indexed
    <3>2. e.byId[t] = 0
      BY <1>4, <2>1
    <3>3. QED BY <1>3, <3>1, <3>2
  <2>2. CASE k # 0
    <3>1. /\ k \in DOMAIN r /\ r[k].task = t /\ k \in Nat
          /\ \A i \in DOMAIN r : r[i].task = t => i <= k
      BY <1>1, <1>5, <2>2 DEF Sound, Indexed
    <3>2. CASE k = 1
      <4>1. e.byId[t] = 0
        BY <1>4, <3>1, <3>2
      <4>2. \A i \in DOMAIN q : q[i].task # t
        <5>1. ASSUME NEW i \in DOMAIN q, q[i].task = t PROVE FALSE
          <6>1. i + 1 <= 1 /\ i >= 1
            BY <1>2, <1>3, <3>1, <3>2, <5>1
          <6>2. QED BY <1>3, <6>1
        <5>2. QED BY <5>1
      <4>3. QED BY <4>1, <4>2
    <3>3. CASE k > 1
      <4>1. e.byId[t] = k - 1
        BY <1>4, <3>1, <3>3
      <4>2. k - 1 \in DOMAIN q
        BY <1>1, <1>2, <3>1, <3>3
      <4>3. q[k - 1].task = t
        BY <1>3, <3>1, <4>2
      <4>4. \A i \in DOMAIN q : q[i].task = t => i <= k - 1
        BY <1>3, <3>1
      <4>5. QED BY <4>1, <4>2, <4>3, <4>4
    <3>4. QED BY <1>1, <3>1, <3>2, <3>3
  <2>3. QED BY <2>1, <2>2
<1>9. Indexed(e)
  BY <1>4, <1>8 DEF Indexed
<1>10. QED BY <1>1, <1>2, <1>4, <1>7, <1>9 DEF Sound

(* What AppendLocked leaves: the entry is last, what is too old is gone.    *)
LEMMA AppendIsSound ==
    ASSUME NEW m, Sound(m), NEW s \in Row
    PROVE  /\ Sound(AppendLocked(m, s))
           /\ AppendLocked(m, s).ring = Append(IF Full(m) THEN Tail(m.ring) ELSE m.ring, s)
<1> DEFINE k == IF Full(m) THEN Evict(m) ELSE m
           a == AppendLocked(m, s)
<1>1. Sound(k) /\ k.ring = (IF Full(m) THEN Tail(m.ring) ELSE m.ring) /\ Len(k.ring) < MaxLen
  BY EvictIsSound, MaxLenAssumption DEF Sound, Full
<1>2. a = [ring |-> Append(k.ring, s), byId |-> [k.byId EXCEPT ![s.task] = Len(k.ring) + 1]]
  BY DEF AppendLocked
<1> HIDE DEF k, a
<1>3. k.ring \in Seq(Row) /\ k.byId \in [Task -> Nat] /\ s.task \in Task /\ Len(k.ring) \in Nat
  <2>1. k.ring \in Seq(Row) /\ k.byId \in [Task -> Nat]
    BY <1>1 DEF Sound
  <2>2. s.task \in Task
    BY DEF Row
  <2>3. QED BY <2>1, <2>2
<1> DEFINE n == Len(k.ring) + 1
<1>4. /\ a.ring = Append(k.ring, s) /\ a.ring \in Seq(Row) /\ Len(a.ring) = n
      /\ DOMAIN a.ring = DOMAIN k.ring \cup {n} /\ n \notin DOMAIN k.ring
      /\ a.ring[n] = s /\ \A i \in DOMAIN k.ring : a.ring[i] = k.ring[i] /\ i \in Nat /\ i <= n
  BY <1>2, <1>3
<1>5. a \in [ring : Seq(Row), byId : [Task -> Nat]]
  BY <1>2, <1>3
<1>6. /\ a.byId[s.task] = n
      /\ \A t \in Task : t # s.task => a.byId[t] = k.byId[t]
  BY <1>2, <1>3
<1>7. ASSUME NEW t \in Task
      PROVE  \/ a.byId[t] = 0 /\ \A i \in DOMAIN a.ring : a.ring[i].task # t
             \/ /\ a.byId[t] \in DOMAIN a.ring /\ a.ring[a.byId[t]].task = t
                /\ \A i \in DOMAIN a.ring : a.ring[i].task = t => i <= a.byId[t]
  <2>1. CASE t = s.task
    <3>1. n <= n
      BY <1>3
    <3>2. QED BY <1>4, <1>6, <2>1, <3>1
  <2>2. CASE t # s.task
    <3>1. \/ k.byId[t] = 0 /\ \A i \in DOMAIN k.ring : k.ring[i].task # t
          \/ /\ k.byId[t] \in DOMAIN k.ring /\ k.ring[k.byId[t]].task = t
             /\ \A i \in DOMAIN k.ring : k.ring[i].task = t => i <= k.byId[t]
      BY <1>1 DEF Sound, Indexed
    <3>2. QED BY <1>4, <1>6, <2>2, <3>1
  <2>3. QED BY <2>1, <2>2
<1>8. Indexed(a)
  BY <1>7 DEF Indexed
<1>9. n <= MaxLen
  BY <1>1, <1>3, MaxLenAssumption
<1>10. Sound(a)
  BY <1>4, <1>5, <1>8, <1>9 DEF Sound
<1>11. QED BY <1>1, <1>4, <1>10 DEF a

(* The fold of the reload, over the rows numbered 1..n.                     *)
IsFold(f, rows, n) ==
    f = [s \in SUBSET (1..n) |->
           IF s = {} THEN Empty ELSE AppendLocked(f[s \ {Max(s)}], rows[Max(s)])]

LEMMA LeastIn ==
    ASSUME NEW S \in SUBSET Nat, S # {}
    PROVE  \E x \in S : \A y \in S : x <= y
<1>1. PICK x \in S : \A y \in S : ~(<<y, x>> \in OpToRel(<, Nat))
  BY NatLessThanWellFounded, WFMin, Zenon
<1>2. \A y \in S : ~(y < x)
  BY <1>1 DEF OpToRel
<1>3. QED BY <1>2

(* Induction on numbers, as a fact about sets.                              *)
LEMMA AllNumbers ==
    ASSUME NEW S, 0 \in S, \A n \in Nat : n \in S => n + 1 \in S
    PROVE  Nat \subseteq S
<1>1. SUFFICES ASSUME Nat \ S # {} PROVE FALSE
  OBVIOUS
<1>2. PICK x \in Nat \ S : \A y \in Nat \ S : x <= y
  BY <1>1, LeastIn
<1>3. x # 0 /\ x - 1 \in Nat /\ ~(x <= x - 1) /\ (x - 1) + 1 = x
  BY <1>2
<1>4. x - 1 \in S
  BY <1>2, <1>3
<1>5. QED BY <1>2, <1>3, <1>4

LEMMA MaxOfTop ==
    ASSUME NEW n \in Nat, NEW s \in SUBSET (1..(n + 1)), n + 1 \in s
    PROVE  Max(s) = n + 1
<1>1. \A y \in s : n + 1 >= y
  OBVIOUS
<1>2. \A x \in s : (\A y \in s : x >= y) => x = n + 1
  OBVIOUS
<1>3. QED BY <1>1, <1>2 DEF Max

LEMMA GreatestIn ==
    ASSUME NEW n \in Nat, NEW s \in SUBSET (1..n), s # {}
    PROVE  Max(s) \in s
<1> DEFINE above == {x \in Nat : \A y \in s : x >= y}
<1>1. n \in above
  OBVIOUS
<1>2. PICK x \in above : \A y \in above : x <= y
  BY <1>1, LeastIn
<1>3. x \in s
  <2>1. SUFFICES ASSUME x \notin s PROVE FALSE
    OBVIOUS
  <2>2. PICK z \in s : TRUE
    OBVIOUS
  <2>3. z \in Nat /\ z >= 1 /\ x >= z /\ x \in Nat
    BY <1>2, <2>2
  <2>4. x - 1 \in Nat /\ ~(x <= x - 1)
    BY <2>3
  <2>5. \A y \in s : x - 1 >= y
    BY <1>2, <2>1, <2>3
  <2>6. QED BY <1>2, <2>4, <2>5
<1>4. \A y \in s : x >= y
  BY <1>2
<1>5. QED BY <1>3, <1>4 DEF Max

(* A fold over n rows is there, for every n.                                *)
LEMMA FoldExists ==
    ASSUME NEW rows, NEW n \in Nat
    PROVE  \E f : IsFold(f, rows, n)
<1> DEFINE S == {k \in Nat : \E f : IsFold(f, rows, k)}
<1>1. 0 \in S
  <2> DEFINE f == [s \in SUBSET (1..0) |-> Empty]
  <2>1. \A s \in SUBSET (1..0) : s = {}
    OBVIOUS
  <2>2. f = [s \in SUBSET (1..0) |->
               IF s = {} THEN Empty ELSE AppendLocked(f[s \ {Max(s)}], rows[Max(s)])]
    BY <2>1
  <2>3. IsFold(f, rows, 0)
    BY <2>2 DEF IsFold
  <2>4. QED BY <2>3
<1>2. ASSUME NEW k \in Nat, k \in S PROVE k + 1 \in S
  <2>1. PICK f : IsFold(f, rows, k)
    BY <1>2
  <2> DEFINE g == [s \in SUBSET (1..(k + 1)) |->
                     IF k + 1 \in s THEN AppendLocked(f[s \ {k + 1}], rows[k + 1]) ELSE f[s]]
             h == [s \in SUBSET (1..(k + 1)) |->
                     IF s = {} THEN Empty ELSE AppendLocked(g[s \ {Max(s)}], rows[Max(s)])]
  <2>2. 1..(k + 1) = (1..k) \cup {k + 1} /\ k + 1 \notin 1..k
    OBVIOUS
  <2>3. ASSUME NEW s \in SUBSET (1..(k + 1)) PROVE g[s] = h[s]
    <3>1. CASE k + 1 \in s
      <4>1. Max(s) = k + 1
        BY <2>3, <3>1, MaxOfTop
      <4>2. s \ {k + 1} \in SUBSET (1..k) /\ k + 1 \notin s \ {k + 1}
            /\ s \ {k + 1} \in SUBSET (1..(k + 1))
        BY <2>2
      <4>3. g[s \ {k + 1}] = f[s \ {k + 1}]
        BY <4>2
      <4>4. g[s] = AppendLocked(f[s \ {k + 1}], rows[k + 1])
        BY <3>1
      <4>5. h[s] = AppendLocked(g[s \ {k + 1}], rows[k + 1])
        BY <3>1, <4>1
      <4>6. QED BY <4>3, <4>4, <4>5
    <3>2. CASE k + 1 \notin s
      <4>1. s \in SUBSET (1..k)
        BY <2>2, <3>2
      <4>2. s \ {Max(s)} \in SUBSET (1..(k + 1)) /\ k + 1 \notin s \ {Max(s)}
            /\ s \ {Max(s)} \in SUBSET (1..k)
        BY <3>2, <4>1
      <4>3. g[s \ {Max(s)}] = f[s \ {Max(s)}] /\ g[s] = f[s]
        BY <3>2, <4>2
      <4>4. f[s] = IF s = {} THEN Empty ELSE AppendLocked(f[s \ {Max(s)}], rows[Max(s)])
        BY <2>1, <4>1 DEF IsFold
      <4>5. h[s] = IF s = {} THEN Empty ELSE AppendLocked(g[s \ {Max(s)}], rows[Max(s)])
        OBVIOUS
      <4>6. QED BY <4>3, <4>4, <4>5
    <3>3. QED BY <3>1, <3>2
  <2>4. g = h
    BY <2>3
  <2>5. IsFold(g, rows, k + 1)
    BY <2>4 DEF IsFold
  <2>6. QED BY <2>5
<1>3. Nat \subseteq S
  BY <1>1, <1>2, AllNumbers
<1>4. QED BY <1>3

(* What a start reads back: memory is well indexed, and its ring the rows.  *)
LEMMA LoadIsSound ==
    ASSUME NEW rows \in Seq(Row), Len(rows) <= MaxLen
    PROVE  /\ Sound(FoldLeft(AppendLocked, Empty, rows))
           /\ FoldLeft(AppendLocked, Empty, rows).ring = rows
<1> DEFINE n == Len(rows)
           f == CHOOSE g : IsFold(g, rows, n)
<1>1. n \in Nat /\ DOMAIN rows = 1..n
  OBVIOUS
<1>2. FoldLeft(AppendLocked, Empty, rows) = f[1..n]
  BY <1>1 DEF FoldLeft, MapThenFoldSet, IsFold
<1>3. IsFold(f, rows, n)
  BY <1>1, FoldExists
<1> HIDE DEF f
<1>4. \A s \in SUBSET (1..n) :
         f[s] = IF s = {} THEN Empty ELSE AppendLocked(f[s \ {Max(s)}], rows[Max(s)])
  BY <1>3 DEF IsFold
<1> DEFINE S == {k \in Nat : k <= n => Sound(f[1..k]) /\ f[1..k].ring = SubSeq(rows, 1, k)}
<1>5. 0 \in S
  <2>1. 1..0 = {} /\ {} \in SUBSET (1..n)
    OBVIOUS
  <2>2. f[1..0] = Empty
    BY <1>4, <2>1
  <2>3. Empty.ring = SubSeq(rows, 1, 0)
    BY DEF Empty
  <2>4. QED BY <2>2, <2>3, EmptyIsSound
<1>6. ASSUME NEW k \in Nat, k \in S PROVE k + 1 \in S
  <2>1. SUFFICES ASSUME k + 1 <= n
                 PROVE  Sound(f[1..(k + 1)]) /\ f[1..(k + 1)].ring = SubSeq(rows, 1, k + 1)
    OBVIOUS
  <2>2. /\ Sound(f[1..k]) /\ f[1..k].ring = SubSeq(rows, 1, k)
        /\ k + 1 \in DOMAIN rows /\ k < MaxLen
    BY <1>1, <1>6, <2>1, MaxLenAssumption
  <2>3. Max(1..(k + 1)) = k + 1
    BY MaxOfTop
  <2>4. (1..(k + 1)) \ {k + 1} = 1..k /\ 1..(k + 1) \in SUBSET (1..n) /\ 1..(k + 1) # {}
    <3>1. \A x \in 1..(k + 1) : x \in 1..n
      BY <1>1, <2>1
    <3>2. k + 1 \in 1..(k + 1)
      OBVIOUS
    <3>3. (1..(k + 1)) \ {k + 1} = 1..k
      OBVIOUS
    <3>4. QED BY <3>1, <3>2, <3>3
  <2>5. f[1..(k + 1)] = AppendLocked(f[1..k], rows[k + 1])
    BY <1>4, <2>3, <2>4
  <2>6. Len(SubSeq(rows, 1, k)) = k
    BY <1>1, <2>1
  <2>7. ~Full(f[1..k])
    BY <2>2, <2>6, MaxLenAssumption DEF Full
  <2>8. rows[k + 1] \in Row
    BY <2>2
  <2>9. /\ Sound(AppendLocked(f[1..k], rows[k + 1]))
        /\ AppendLocked(f[1..k], rows[k + 1]).ring = Append(SubSeq(rows, 1, k), rows[k + 1])
    BY <2>2, <2>7, <2>8, AppendIsSound
  <2>10. Append(SubSeq(rows, 1, k), rows[k + 1]) = SubSeq(rows, 1, k + 1)
    BY <1>1, <2>1, <2>2
  <2>11. QED BY <2>5, <2>9, <2>10
<1>7. Nat \subseteq S
  BY <1>5, <1>6, AllNumbers
<1>8. Sound(f[1..n]) /\ f[1..n].ring = SubSeq(rows, 1, n)
  BY <1>1, <1>7
<1>9. SubSeq(rows, 1, n) = rows
  BY <1>1
<1>10. QED BY <1>2, <1>8, <1>9

(* The newest rows, before and after an insert and a trim.                  *)
LEMMA NewestIs ==
    ASSUME NEW S, NEW s \in Seq(S)
    PROVE  /\ Newest(s) \in Seq(S)
           /\ Len(Newest(s)) = IF Len(s) < MaxLen THEN Len(s) ELSE MaxLen
           /\ \A i \in 1..Len(Newest(s)) :
                 /\ Len(s) - Len(Newest(s)) + i \in 1..Len(s)
                 /\ Newest(s)[i] = s[Len(s) - Len(Newest(s)) + i]
<1> DEFINE n == IF Len(s) < MaxLen THEN Len(s) ELSE MaxLen
           d == Len(s) - n
<1>1. /\ Len(s) \in Nat /\ n \in Nat /\ n <= Len(s) /\ d \in Nat /\ d + n = Len(s)
      /\ DOMAIN s = 1..Len(s)
  BY MaxLenAssumption
<1>2. Newest(s) = SubSeq(s, d + 1, Len(s))
  BY DEF Newest
<1> HIDE DEF n, d
<1>3. /\ SubSeq(s, d + 1, Len(s)) \in Seq(S)
      /\ Len(SubSeq(s, d + 1, Len(s))) = n
      /\ \A i \in 1..n : d + i \in 1..Len(s) /\ SubSeq(s, d + 1, Len(s))[i] = s[d + i]
  <2>1. \A i \in (d + 1)..Len(s) : s[i] \in S
    BY <1>1
  <2>2. Len(s) - (d + 1) + 1 = n
    BY <1>1
  <2>3. \A i \in 1..n : d + i \in 1..Len(s) /\ (d + 1) + i - 1 = d + i
    BY <1>1
  <2>4. SubSeq(s, d + 1, Len(s)) \in Seq(S)
    BY <1>1
  <2>5. Len(SubSeq(s, d + 1, Len(s))) = n
    BY <1>1, <2>2
  <2>6. \A i \in 1..n : SubSeq(s, d + 1, Len(s))[i] = s[d + i]
    BY <1>1, <2>2, <2>3
  <2>7. QED BY <2>3, <2>4, <2>5, <2>6
<1>4. QED BY <1>1, <1>2, <1>3 DEF n, d

LEMMA NewestTwice ==
    ASSUME NEW S, NEW s \in Seq(S)
    PROVE  Newest(Newest(s)) = Newest(s)
<1>1. Newest(s) \in Seq(S) /\ Len(Newest(s)) \in Nat /\ Len(Newest(s)) <= MaxLen
  BY NewestIs, MaxLenAssumption
<1>2. /\ Newest(Newest(s)) \in Seq(S) /\ Len(Newest(Newest(s))) = Len(Newest(s))
      /\ \A i \in 1..Len(Newest(s)) : Newest(Newest(s))[i] = Newest(s)[i]
  <2>1. Len(Newest(Newest(s))) = Len(Newest(s)) /\ Newest(Newest(s)) \in Seq(S)
    BY <1>1, NewestIs, MaxLenAssumption
  <2>2. \A i \in 1..Len(Newest(s)) : Newest(Newest(s))[i] = Newest(s)[Len(Newest(s)) - Len(Newest(s)) + i]
    BY <1>1, <2>1, NewestIs
  <2>3. QED BY <1>1, <2>1, <2>2
<1>3. QED BY <1>1, <1>2

LEMMA NewestAfterInsert ==
    ASSUME NEW S, NEW s \in Seq(S), NEW e \in S
    PROVE  Newest(Append(s, e)) =
              Append(IF Len(Newest(s)) = MaxLen THEN Tail(Newest(s)) ELSE Newest(s), e)
<1> DEFINE a == Append(s, e)
           q == Newest(s)
           r == Newest(a)
           l == Append(IF Len(q) = MaxLen THEN Tail(q) ELSE q, e)
<1>1. /\ a \in Seq(S) /\ Len(a) = Len(s) + 1 /\ a[Len(s) + 1] = e
      /\ \A i \in 1..Len(s) : a[i] = s[i]
      /\ Len(s) \in Nat /\ MaxLen \in Nat /\ MaxLen >= 1
  BY MaxLenAssumption
<1>2. /\ q \in Seq(S) /\ Len(q) = IF Len(s) < MaxLen THEN Len(s) ELSE MaxLen
      /\ \A i \in 1..Len(q) : Len(s) - Len(q) + i \in 1..Len(s) /\ q[i] = s[Len(s) - Len(q) + i]
  BY NewestIs
<1>3. /\ r \in Seq(S) /\ Len(r) = IF Len(a) < MaxLen THEN Len(a) ELSE MaxLen
      /\ \A i \in 1..Len(r) : Len(a) - Len(r) + i \in 1..Len(a) /\ r[i] = a[Len(a) - Len(r) + i]
  BY <1>1, NewestIs
<1> HIDE DEF a, q, r
<1>4. CASE Len(q) = MaxLen
  <2>1. Len(s) >= MaxLen /\ Len(r) = MaxLen /\ Len(a) - Len(r) = Len(s) - MaxLen + 1
    <3>1. ~(Len(s) < MaxLen)
      BY <1>1, <1>2, <1>4
    <3>2. ~(Len(a) < MaxLen) /\ Len(a) = Len(s) + 1
      BY <1>1, <3>1
    <3>3. Len(r) = MaxLen
      BY <1>3, <3>2
    <3>4. QED BY <1>1, <3>1, <3>2, <3>3
  <2>2. /\ Tail(q) \in Seq(S) /\ Len(Tail(q)) = MaxLen - 1 /\ l = Append(Tail(q), e)
        /\ \A i \in 1..(MaxLen - 1) : Tail(q)[i] = q[i + 1] /\ i + 1 \in 1..Len(q)
    BY <1>1, <1>2, <1>4
  <2>3. /\ l \in Seq(S) /\ Len(l) = MaxLen /\ l[MaxLen] = e
        /\ \A i \in 1..(MaxLen - 1) : l[i] = q[i + 1]
    BY <1>1, <2>2
  <2>4. ASSUME NEW i \in 1..MaxLen PROVE r[i] = l[i]
    <3>1. r[i] = a[Len(s) - MaxLen + 1 + i]
      BY <1>3, <2>1, <2>4
    <3>2. CASE i = MaxLen
      <4>1. Len(s) - MaxLen + 1 + i = Len(s) + 1
        BY <1>1, <3>2
      <4>2. QED BY <1>1, <2>3, <3>1, <3>2, <4>1
    <3>3. CASE i # MaxLen
      <4>1. i \in 1..(MaxLen - 1) /\ Len(s) - MaxLen + 1 + i \in 1..Len(s)
        BY <1>1, <2>1, <2>4, <3>3
      <4>2. l[i] = s[Len(s) - MaxLen + (i + 1)]
        BY <1>2, <1>4, <2>2, <2>3, <4>1
      <4>3. Len(s) - MaxLen + (i + 1) = Len(s) - MaxLen + 1 + i
        BY <1>1, <4>1
      <4>4. QED BY <1>1, <3>1, <4>1, <4>2, <4>3
    <3>4. QED BY <3>2, <3>3
  <2> HIDE DEF l
  <2>5. r = l
    BY <1>3, <2>1, <2>3, <2>4
  <2>6. QED BY <2>5 DEF a, q, r, l
<1>5. CASE Len(q) # MaxLen
  <2>1. Len(q) = Len(s) /\ Len(r) = Len(s) + 1 /\ Len(a) - Len(r) = 0 /\ l = Append(q, e)
    BY <1>1, <1>2, <1>3, <1>5
  <2>2. /\ l \in Seq(S) /\ Len(l) = Len(s) + 1 /\ l[Len(s) + 1] = e
        /\ \A i \in 1..Len(s) : l[i] = q[i]
    BY <1>1, <1>2, <2>1
  <2>3. ASSUME NEW i \in 1..(Len(s) + 1) PROVE r[i] = l[i]
    <3>1. r[i] = a[i]
      <4>1. r[i] = a[0 + i] /\ 0 + i = i
        BY <1>3, <2>1, <2>3
      <4>2. QED BY <4>1
    <3>2. CASE i = Len(s) + 1
      BY <1>1, <2>2, <3>1, <3>2
    <3>3. CASE i # Len(s) + 1
      <4>1. i \in 1..Len(s) /\ Len(s) - Len(q) + i = i
        BY <1>1, <2>1, <2>3, <3>3
      <4>2. q[i] = s[i]
        BY <1>2, <2>1, <4>1
      <4>3. QED BY <1>1, <2>2, <3>1, <4>1, <4>2
    <3>4. QED BY <3>2, <3>3
  <2>4. r = l
    BY <1>3, <2>1, <2>2, <2>3
  <2>5. QED BY <2>4 DEF a, q, r
<1>6. QED BY <1>4, <1>5

LEMMA RecordIsSound ==
    ASSUME Sound(memory), db \in Seq(Row), NEW s \in Row, Record(s),
           NEW wired \in BOOLEAN, wired /\ ~gap => memory.ring = RecentTasks
    PROVE  /\ Sound(memory') /\ db' \in Seq(Row)
           /\ wired /\ ~gap' => memory'.ring = RecentTasks'
           /\ \A i \in DOMAIN memory'.ring :
                 memory'.ring[i] = s \/ \E j \in DOMAIN memory.ring : memory'.ring[i] = memory.ring[j]
           /\ \A i \in DOMAIN db' : db'[i] = s \/ \E j \in DOMAIN db : db'[i] = db[j]
<1> DEFINE a == Append(db, s)
           ringed == Append(IF Full(memory) THEN Tail(memory.ring) ELSE memory.ring, s)
<1>1. /\ a \in Seq(Row) /\ DOMAIN a = 1..Len(a)
      /\ \A i \in DOMAIN a : a[i] = s \/ \E j \in DOMAIN db : a[i] = db[j]
  <2>1. a \in Seq(Row) /\ Len(a) = Len(db) + 1
    OBVIOUS
  <2>2. DOMAIN a = 1..(Len(db) + 1) /\ DOMAIN db = 1..Len(db) /\ Len(db) \in Nat
    BY <2>1
  <2>3. a[Len(db) + 1] = s /\ \A i \in DOMAIN db : a[i] = db[i]
    OBVIOUS
  <2>4. \A i \in DOMAIN a : i = Len(db) + 1 \/ i \in DOMAIN db
    BY <2>2
  <2>5. QED BY <2>1, <2>2, <2>3, <2>4
<1>2. /\ Newest(a) \in Seq(Row) /\ DOMAIN Newest(a) = 1..Len(Newest(a))
      /\ \A i \in DOMAIN Newest(a) : \E j \in DOMAIN a : Newest(a)[i] = a[j]
  <2>1. /\ Newest(a) \in Seq(Row)
        /\ \A i \in 1..Len(Newest(a)) :
              /\ Len(a) - Len(Newest(a)) + i \in 1..Len(a)
              /\ Newest(a)[i] = a[Len(a) - Len(Newest(a)) + i]
    BY <1>1, NewestIs
  <2>2. DOMAIN Newest(a) = 1..Len(Newest(a))
    BY <2>1
  <2>3. QED BY <1>1, <2>1, <2>2
<1>3. Newest(Newest(a)) = Newest(a)
  BY <1>1, NewestTwice
<1>4. Newest(a) = Append(IF Len(Newest(db)) = MaxLen THEN Tail(Newest(db)) ELSE Newest(db), s)
  BY NewestAfterInsert
<1>5. /\ Sound(AppendLocked(memory, s)) /\ AppendLocked(memory, s).ring = ringed
      /\ \A i \in DOMAIN ringed : ringed[i] = s \/ \E j \in DOMAIN memory.ring : ringed[i] = memory.ring[j]
  <2>1. Sound(AppendLocked(memory, s)) /\ AppendLocked(memory, s).ring = ringed
    BY AppendIsSound
  <2>2. memory.ring \in Seq(Row) /\ MaxLen \in Nat /\ MaxLen # 0
    BY MaxLenAssumption DEF Sound
  <2>3. CASE Full(memory)
    <3>1. memory.ring # <<>>
      BY <2>2, <2>3 DEF Full
    <3> DEFINE t == Tail(memory.ring)
    <3>2. t \in Seq(Row) /\ \A i \in DOMAIN t : i + 1 \in DOMAIN memory.ring /\ t[i] = memory.ring[i + 1]
      BY <2>2, <3>1
    <3>3. ringed = Append(t, s)
      BY <2>3
    <3> HIDE DEF t
    <3>4. \A i \in DOMAIN Append(t, s) : Append(t, s)[i] = s \/ (i \in DOMAIN t /\ Append(t, s)[i] = t[i])
      BY <3>2
    <3>5. QED BY <2>1, <3>2, <3>3, <3>4
  <2>4. CASE ~Full(memory)
    <3> DEFINE t == memory.ring
    <3>1. ringed = Append(t, s)
      BY <2>4
    <3>2. t \in Seq(Row)
      BY <2>2
    <3> HIDE DEF t
    <3>3. \A i \in DOMAIN Append(t, s) : Append(t, s)[i] = s \/ (i \in DOMAIN t /\ Append(t, s)[i] = t[i])
      BY <3>2
    <3>4. QED BY <2>1, <3>1, <3>3 DEF t
  <2>5. QED BY <2>3, <2>4
<1> HIDE DEF a, ringed
<1>6. CASE db' = Newest(a) /\ memory' = AppendLocked(memory, s) /\ gap' = gap
  <2>1. wired /\ ~gap => memory'.ring = RecentTasks'
    <3>1. SUFFICES ASSUME wired, ~gap PROVE memory'.ring = Newest(db')
      BY DEF RecentTasks
    <3>2. memory.ring = Newest(db)
      BY <3>1 DEF RecentTasks
    <3>3. ringed = Newest(a)
      BY <1>4, <3>2 DEF ringed, Full
    <3>4. QED BY <1>3, <1>5, <1>6, <3>3
  <2>2. \A i \in DOMAIN db' : db'[i] = s \/ \E j \in DOMAIN db : db'[i] = db[j]
    BY <1>1, <1>2, <1>6
  <2>3. QED BY <1>2, <1>5, <1>6, <2>1, <2>2
<1>7. CASE UNCHANGED history
  BY <1>7 DEF history, RecentTasks
<1>8. CASE db' = a /\ memory' = memory /\ gap' = TRUE
  BY <1>1, <1>8
<1>9. QED BY <1>6, <1>7, <1>8 DEF Record, Inserted, a

-----------------------------------------------------------------------------
(* The copies of the history and the work of the runner.                    *)
HistInv ==
    /\ Sound(memory) /\ db \in Seq(Row)
    /\ worker \in {Idle, [at |-> "run"]} \cup [at : {"record"}, summary : Row]
    /\ worker.at = "run" => slot # None
    /\ slot # None => slot.task \in Task /\ slot.project \in Project
    /\ ~process.up => ~process.wired
    /\ slot # None \/ worker # Idle => process.wired
    /\ process.wired \in BOOLEAN
    /\ RingIsDbTail

LEMMA RecentAreRows ==
    ASSUME db \in Seq(Row)
    PROVE  /\ RecentTasks \in Seq(Row) /\ Len(RecentTasks) <= MaxLen
           /\ Sound(Loaded) /\ Loaded.ring = RecentTasks
           /\ \A i \in DOMAIN RecentTasks : \E j \in DOMAIN db : RecentTasks[i] = db[j]
<1>1. /\ Newest(db) \in Seq(Row)
      /\ Len(Newest(db)) = IF Len(db) < MaxLen THEN Len(db) ELSE MaxLen
      /\ \A i \in 1..Len(Newest(db)) :
            /\ Len(db) - Len(Newest(db)) + i \in 1..Len(db)
            /\ Newest(db)[i] = db[Len(db) - Len(Newest(db)) + i]
  BY NewestIs
<1>2. Len(Newest(db)) <= MaxLen
  <2>1. Len(db) \in Nat /\ MaxLen \in Nat
    BY MaxLenAssumption
  <2>2. QED BY <1>1, <2>1
<1>3. DOMAIN Newest(db) = 1..Len(Newest(db)) /\ DOMAIN db = 1..Len(db)
  BY <1>1
<1>4. \A i \in DOMAIN Newest(db) : \E j \in DOMAIN db : Newest(db)[i] = db[j]
  BY <1>1, <1>3
<1>5. QED BY <1>1, <1>2, <1>4, LoadIsSound DEF RecentTasks, Loaded

LEMMA NextKeepsHistInv == IInv /\ HistInv /\ [Next]_vars => HistInv'
<1> SUFFICES ASSUME IInv, HistInv, [Next]_vars PROVE HistInv'
  OBVIOUS
<1>1. CASE UNCHANGED vars
  BY <1>1 DEF vars, runner, history, HistInv, RingIsDbTail, RecentTasks
<1>2. CASE Start
  <2>1. slot = None /\ worker = Idle /\ UNCHANGED <<slot, worker>>
    BY <1>2 DEF Start, runner, HistInv
  <2>2. process'.up = TRUE /\ process'.wired = Wired(registered') /\ Wired(registered') \in BOOLEAN
    BY <1>2 DEF Start, Wired
  <2>3. CASE Wired(registered')
    <3>1. memory' = Loaded /\ db' = db
      BY <1>2, <2>3 DEF Start, Load
    <3>2. Sound(memory') /\ db' \in Seq(Row) /\ memory'.ring = RecentTasks'
      BY <3>1, RecentAreRows DEF HistInv, RecentTasks
    <3>3. QED BY <2>1, <2>2, <3>2 DEF HistInv, RingIsDbTail, Idle
  <2>4. CASE ~Wired(registered')
    <3>1. memory' = Empty /\ db' = db
      BY <1>2, <2>4 DEF Start, Forget
    <3>2. QED BY <2>1, <2>2, <2>4, <3>1, EmptyIsSound DEF HistInv, RingIsDbTail, Idle
  <2>5. QED BY <2>3, <2>4
<1>3. CASE Crash
  <2>1. /\ slot' = None /\ worker' = Idle /\ memory' = Empty /\ db' = db
        /\ process'.up = FALSE /\ process'.wired = FALSE
    BY <1>3 DEF Crash, Forget, Down
  <2>2. QED BY <2>1, EmptyIsSound DEF HistInv, RingIsDbTail, Idle
<1>4. ASSUME UNCHANGED <<process, worker, history>>, slot' # slot => slot' # None /\
             slot'.task \in Task /\ slot'.project \in Project /\ process.wired
      PROVE  HistInv'
  BY <1>4 DEF HistInv, history, RingIsDbTail, RecentTasks
<1>5. CASE \E p \in Project, g \in Group \cup {None} : Register(p, g)
  BY <1>4, <1>5 DEF Register, runner
<1>6. CASE \E b \in Bot, chat \in Chat, cmd \in Command : Receive(b, chat, cmd)
  BY <1>4, <1>6 DEF Receive, runner
<1>7. ASSUME NEW b \in Bot, Handle(b) PROVE HistInv'
  <2>1. CASE ProjectsCommand(b)
    BY <1>4, <2>1 DEF ProjectsCommand, CheckBind, WriteBinding, Migrate, FindBinding,
       DeleteBinding, runner
  <2>2. ASSUME NEW t \in Task, HandleTask(b, t) PROVE HistInv'
    <3>1. UNCHANGED <<process, worker, history>>
      BY <2>2 DEF HandleTask
    <3>2. CASE process.wired /\ HasRuntime(b) /\ slot = None
      <4>1. slot' = [task |-> t, project |-> Context(b), own |-> call[b].own]
        BY <2>2, <3>2 DEF HandleTask
      <4>2. Context(b) \in Project
        BY <3>2 DEF HasRuntime, Runnable, IInv, CallsTyped
      <4>3. slot'.task \in Task /\ slot'.project \in Project
        BY <4>1, <4>2
      <4>4. QED BY <3>1, <3>2, <4>3 DEF HistInv, history, RingIsDbTail, RecentTasks
    <3>3. CASE ~(process.wired /\ HasRuntime(b) /\ slot = None)
      <4>1. slot' = slot
        BY <2>2, <3>3 DEF HandleTask
      <4>2. QED BY <1>4, <3>1, <4>1
    <3>4. QED BY <3>2, <3>3
  <2>3. CASE Push(b) \/ PushForPullRequest(b) \/ OpenPullRequest(b)
    BY <1>4, <2>3 DEF Push, PushForPullRequest, OpenPullRequest, runner
  <2>4. QED BY <1>7, <2>1, <2>2, <2>3 DEF Handle
<1>8. CASE AcquireFails
  BY <1>8 DEF AcquireFails, HistInv, history, RingIsDbTail, RecentTasks, Idle
<1>9. CASE Acquire
  BY <1>9 DEF Acquire, HistInv, history, RingIsDbTail, RecentTasks, Idle
<1>10. ASSUME NEW committed \in BOOLEAN, FinishRun(committed) PROVE HistInv'
  <2>1. /\ worker.at = "run" /\ slot # None /\ slot' = None
        /\ worker' = [at |-> "record", summary |-> Entry(slot.task, slot.project, committed)]
        /\ UNCHANGED <<process, history>>
    BY <1>10 DEF FinishRun, HistInv
  <2>2. Entry(slot.task, slot.project, committed) \in Row
    BY <2>1 DEF HistInv, Entry, Row
  <2>3. worker' \in [at : {"record"}, summary : Row] /\ worker'.at = "record"
    BY <2>1, <2>2
  <2>4. worker # Idle
    BY <2>1 DEF Idle
  <2>5. QED BY <2>1, <2>3, <2>4 DEF HistInv, history, RingIsDbTail, RecentTasks
<1>11. CASE RecordTask
  <2>1. worker.at = "record" /\ Record(worker.summary) /\ worker' = Idle /\ UNCHANGED <<process, slot>>
    BY <1>11 DEF RecordTask
  <2>2. worker.summary \in Row /\ process.wired
    BY <2>1 DEF HistInv, Idle
  <2>3. /\ Sound(memory') /\ db' \in Seq(Row)
        /\ process.wired /\ ~gap' => memory'.ring = RecentTasks'
    BY <2>1, <2>2, RecordIsSound DEF HistInv, RingIsDbTail
  <2>4. QED BY <2>1, <2>2, <2>3 DEF HistInv, RingIsDbTail, Idle
<1>12. QED BY <1>1, <1>2, <1>3, <1>5, <1>6, <1>7, <1>8, <1>9, <1>10, <1>11 DEF Next, Work

LEMMA InitHistInv == Init => HistInv
<1>1. <<>> \in Seq(Row)
  OBVIOUS
<1>2. QED BY <1>1, EmptyIsSound DEF Init, HistInv, RingIsDbTail, Down, Idle

(* The index, the ring and the table tell the same history: after any       *)
(* evictions, repeated ids and restarts /push finds the newest entry of an  *)
(* id, and the ring is the tail of the table unless a record failed half.   *)
THEOREM CopiesAgreeHolds == Spec => []CopiesAgree
<1>1. ASSUME HistInv PROVE IndexIsNewest
  <2>1. SUFFICES ASSUME NEW t \in Task
        PROVE  LET places == {i \in 1..Len(memory.ring) : memory.ring[i].task = t}
               IN  IF places = {} THEN memory.byId[t] = 0
                   ELSE memory.byId[t] \in places /\ \A i \in places : i <= memory.byId[t]
    BY DEF IndexIsNewest
  <2>2. DOMAIN memory.ring = 1..Len(memory.ring)
    BY <1>1 DEF HistInv, Sound
  <2>3. \/ memory.byId[t] = 0 /\ \A i \in DOMAIN memory.ring : memory.ring[i].task # t
        \/ /\ memory.byId[t] \in DOMAIN memory.ring /\ memory.ring[memory.byId[t]].task = t
           /\ \A i \in DOMAIN memory.ring : memory.ring[i].task = t => i <= memory.byId[t]
    BY <1>1 DEF HistInv, Sound, Indexed
  <2>4. QED BY <2>2, <2>3
<1>2. HistInv => CopiesAgree
  BY <1>1 DEF CopiesAgree, HistInv
<1>3. QED BY <1>2, InitHistInv, NextKeepsHistInv, Bindings, PTL DEF Spec

-----------------------------------------------------------------------------
(* What git has.  A committed entry of the history, in memory, in the table *)
(* or on its way there, is about a branch that is its project's; while a    *)
(* run is under way its branch is nobody's.                                 *)
HasBranchIn(repos, branches, e) ==
    e.committed => repos[e.project] \in Repo /\ branches[repos[e.project]][e.task] = e.project
HasBranch(e) == HasBranchIn(repoOf, branch, e)

CommandsTyped == \A b \in Bot : call[b].at \in {"push", "pr"} => call[b].cmd.task \in Task

GitTyped ==
    /\ repoOf \in [Project -> Repo \cup {None}]
    /\ branch \in [Repo -> [Task -> Project \cup {None, Unfinished}]]
    /\ remote \in [Repo -> [Task -> Project \cup {None}]]

GitInv ==
    /\ GitTyped /\ CommandsTyped /\ PushedIsOwnWork
    /\ slot # None => repoOf[slot.project] \in Repo
    /\ worker.at = "run" => branch[RepoOfJob][slot.task] = Unfinished
    /\ worker.at = "record" => HasBranch(worker.summary)
    /\ \A i \in DOMAIN memory.ring : HasBranch(memory.ring[i])
    /\ \A i \in DOMAIN db : HasBranch(db[i])

(* A branch that is a project's stays so, and what rests on it holds.       *)
BranchesKept ==
    /\ repoOf' = repoOf
    /\ \A r \in Repo, t \in Task : branch[r][t] \in Project => branch'[r][t] = branch[r][t]

LEMMA EntriesKept ==
    ASSUME GitTyped, BranchesKept
    PROVE  /\ \A e \in Row : HasBranchIn(repoOf, branch, e) => HasBranchIn(repoOf', branch', e)
           /\ PushedIsOwnWork /\ UNCHANGED remote => PushedIsOwnWork'
<1>1. ASSUME NEW e \in Row, HasBranchIn(repoOf, branch, e) PROVE HasBranchIn(repoOf', branch', e)
  <2>1. e.project \in Project /\ e.task \in Task
    BY DEF Row
  <2>2. QED BY <1>1, <2>1 DEF HasBranchIn, BranchesKept
<1>2. ASSUME PushedIsOwnWork, UNCHANGED remote PROVE PushedIsOwnWork'
  <2>1. SUFFICES ASSUME NEW r \in Repo, NEW t \in Task, remote[r][t] # None
                 PROVE  branch'[r][t] = remote[r][t]
    BY <1>2 DEF PushedIsOwnWork
  <2>2. remote[r][t] \in Project
    BY <2>1 DEF GitTyped
  <2>3. branch[r][t] = remote[r][t]
    BY <1>2, <2>1 DEF PushedIsOwnWork
  <2>4. QED BY <2>2, <2>3 DEF BranchesKept
<1>3. QED BY <1>1, <1>2

LEMMA EntriesAreRows ==
    ASSUME HistInv
    PROVE  /\ \A i \in DOMAIN memory.ring : memory.ring[i] \in Row
           /\ \A i \in DOMAIN db : db[i] \in Row
<1>1. memory.ring \in Seq(Row) /\ db \in Seq(Row)
  BY DEF HistInv, Sound
<1>2. QED BY <1>1

(* The steps that leave git, the history and the runner alone.              *)
LEMMA QuietKeepsGitInv ==
    ASSUME GitInv, UNCHANGED <<repoOf, git, history, runner>>, CommandsTyped'
    PROVE  GitInv'
  BY DEF GitInv, GitTyped, PushedIsOwnWork, HasBranch, HasBranchIn, RepoOfJob, git, history, runner

(* A call's command is about a task where its step needs one.               *)
LEMMA NextKeepsCommandsTyped == IInv /\ CommandsTyped /\ [Next]_vars => CommandsTyped'
<1> SUFFICES ASSUME IInv, CommandsTyped, [Next]_vars PROVE CommandsTyped'
  OBVIOUS
<1>1. CASE UNCHANGED call
  BY <1>1 DEF CommandsTyped
<1>2. CASE Crash
  BY <1>2 DEF Crash, Idle, CommandsTyped
<1>3. ASSUME NEW b \in Bot, NEW chat \in Chat, NEW cmd \in Command, Receive(b, chat, cmd)
      PROVE  CommandsTyped'
  <2>1. \A c \in Bot \ {b} : call'[c] = call[c]
    BY <1>3 DEF Receive, IInv, CallsTyped
  <2>2. call'[b].at = cmd.name
    BY <1>3 DEF Receive, IInv, CallsTyped
  <2>3. cmd.name \in {"push", "pr"} => cmd.task \in Task /\ AboutProject(cmd)
    BY DEF Command, AboutProject
  <2>4. AboutProject(cmd) => call'[b].cmd = cmd
    BY <1>3 DEF Receive, IInv, CallsTyped
  <2>5. QED BY <2>1, <2>2, <2>3, <2>4 DEF CommandsTyped
<1>4. ASSUME NEW b \in Bot, Handle(b) PROVE CommandsTyped'
  <2>1. \A c \in Bot \ {b} : call'[c] = call[c]
    BY <1>4 DEF Handle, ProjectsCommand, CheckBind, WriteBinding, Migrate, FindBinding,
       DeleteBinding, HandleTask, Push, PushForPullRequest, OpenPullRequest,
       Done, Go, IInv, CallsTyped
  <2>2. call'[b].at \notin {"push", "pr"}
    <3>1. CASE call' = [call EXCEPT ![b] = Idle]
      BY <3>1 DEF Idle, IInv, CallsTyped
    <3>2. CASE /\ call[b].at \in {"bind", "pr"}
               /\ \E step \in {"write", "open"} : call' = [call EXCEPT ![b].at = step]
      <4>1. call[b] \in AboutCall \cup BindCall
        BY <3>2 DEF IInv, CallsTyped, Call, Idle, OtherCall, DeleteCall
      <4>2. QED BY <3>2, <4>1 DEF IInv, CallsTyped, AboutCall, BindCall
    <3>3. CASE Migrate(b)
      <4>1. call[b] \in OtherCall
        BY <3>3 DEF Migrate, IInv, CallsTyped, Call, Idle, AboutCall, BindCall, DeleteCall
      <4>2. QED BY <3>1, <3>3, <4>1 DEF Migrate, Done, OtherCall, IInv, CallsTyped
    <3>4. CASE FindBinding(b)
      BY <3>1, <3>4 DEF FindBinding, Done, IInv, CallsTyped
    <3>5. QED
      BY <1>4, <3>1, <3>2, <3>3, <3>4
      DEF Handle, ProjectsCommand, CheckBind, WriteBinding, DeleteBinding,
          HandleTask, Push, PushForPullRequest, OpenPullRequest, Done, Go
  <2>3. QED BY <2>1, <2>2 DEF CommandsTyped
<1>5. \/ UNCHANGED call \/ Crash
      \/ \E b \in Bot, chat \in Chat, cmd \in Command : Receive(b, chat, cmd)
      \/ \E b \in Bot : Handle(b)
  BY DEF vars, Next, Start, Register, Work, AcquireFails, Acquire, FinishRun, RecordTask
<1>6. QED BY <1>1, <1>2, <1>3, <1>4, <1>5

(* /push and /pr: the branch in hand is the project's own.                  *)
LEMMA PushKeepsGitInv ==
    ASSUME IInv, HistInv, GitInv, CommandsTyped', NEW b \in Bot, call[b].at \in {"push", "pr"},
           UNCHANGED <<repoOf, branch, history, runner>>,
           \/ MayPush(b, call[b].cmd.task) /\ GitPush(Context(b), call[b].cmd.task)
           \/ UNCHANGED remote
    PROVE  GitInv'
<1>1. CASE UNCHANGED remote
  BY <1>1, QuietKeepsGitInv DEF git
<1>2. CASE MayPush(b, call[b].cmd.task) /\ GitPush(Context(b), call[b].cmd.task)
  <2> DEFINE t == call[b].cmd.task
             p == Context(b)
  <2>1. t \in Task /\ p \in Project
    BY <1>2 DEF GitInv, CommandsTyped, MayPush, HasRuntime, Runnable, IInv, CallsTyped
  <2>2. /\ memory.byId[t] \in DOMAIN memory.ring /\ Get(t) \in Row
        /\ Get(t).task = t /\ Get(t).committed /\ Get(t).project = p
    <3>1. memory.byId[t] \in DOMAIN memory.ring /\ memory.ring[memory.byId[t]].task = t
      BY <1>2, <2>1 DEF MayPush, Known, HistInv, Sound, Indexed
    <3>2. memory.ring \in Seq(Row)
      BY DEF HistInv, Sound
    <3>3. QED BY <1>2, <3>1, <3>2 DEF MayPush, Get
  <2>3. repoOf[p] \in Repo /\ branch[repoOf[p]][t] = p
    BY <2>2 DEF GitInv, HasBranch, HasBranchIn, Get
  <2>4. remote' = [remote EXCEPT ![repoOf[p]][t] = p]
    BY <1>2 DEF GitPush
  <2> HIDE DEF t, p
  <2>5. GitTyped'
    BY <2>1, <2>3, <2>4 DEF GitInv, GitTyped
  <2>6. PushedIsOwnWork'
    <3>1. SUFFICES ASSUME NEW r \in Repo, NEW u \in Task, remote'[r][u] # None
                   PROVE  branch[r][u] = remote'[r][u]
      BY DEF PushedIsOwnWork
    <3>2. CASE r = repoOf[p] /\ u = t
      BY <2>1, <2>3, <2>4, <3>2 DEF GitInv, GitTyped
    <3>3. CASE ~(r = repoOf[p] /\ u = t)
      <4>1. remote'[r][u] = remote[r][u]
        BY <2>1, <2>3, <2>4, <3>3 DEF GitInv, GitTyped
      <4>2. QED BY <3>1, <4>1 DEF GitInv, PushedIsOwnWork
    <3>4. QED BY <3>2, <3>3
  <2>7. QED BY <2>5, <2>6 DEF GitInv, HasBranch, RepoOfJob, history, runner
<1>3. QED BY <1>1, <1>2

(* The steps of the runner.                                                 *)
LEMMA AcquireKeepsGitInv ==
    ASSUME HistInv, GitInv, CommandsTyped', Acquire
    PROVE  GitInv'
<1> DEFINE r == repoOf[slot.project]
           t == slot.task
<1>1. /\ slot # None /\ r \in Repo /\ t \in Task /\ branch[r][t] = None
      /\ branch' = [branch EXCEPT ![r][t] = Unfinished]
      /\ worker' = [at |-> "run"] /\ UNCHANGED <<repoOf, slot, remote, history>>
  BY DEF Acquire, HistInv, GitInv, RepoOfJob, chats, registry
<1> HIDE DEF r, t
<1>2. BranchesKept
  BY <1>1, NoneAssumption DEF BranchesKept, GitInv, GitTyped
<1>3. GitTyped' /\ branch'[r][t] = Unfinished
  BY <1>1 DEF GitInv, GitTyped
<1>4. PushedIsOwnWork' /\ \A e \in Row :
            HasBranchIn(repoOf, branch, e) => HasBranchIn(repoOf', branch', e)
  BY <1>1, <1>2, EntriesKept DEF GitInv
<1>5. /\ \A i \in DOMAIN memory.ring : HasBranchIn(repoOf', branch', memory.ring[i])
      /\ \A i \in DOMAIN db : HasBranchIn(repoOf', branch', db[i])
  BY <1>4, EntriesAreRows DEF GitInv, HasBranch
<1>6. QED BY <1>1, <1>3, <1>4, <1>5 DEF GitInv, HasBranch, RepoOfJob, history, r, t

LEMMA FinishKeepsGitInv ==
    ASSUME HistInv, GitInv, CommandsTyped', NEW committed \in BOOLEAN, FinishRun(committed)
    PROVE  GitInv'
<1> DEFINE p == slot.project
           r == repoOf[p]
           t == slot.task
           e == Entry(t, p, committed)
<1>1. /\ p \in Project /\ r \in Repo /\ t \in Task /\ branch[r][t] = Unfinished
      /\ branch' = (IF committed THEN [branch EXCEPT ![r][t] = p] ELSE branch)
      /\ worker' = [at |-> "record", summary |-> e] /\ slot' = None
      /\ UNCHANGED <<repoOf, remote, history>>
  BY DEF FinishRun, HistInv, GitInv, RepoOfJob, chats, registry
<1>2. e.task = t /\ e.project = p /\ e.committed = committed
  BY DEF Entry
<1>3. r = repoOf[p]
  OBVIOUS
<1> HIDE DEF r, t, p, e
<1>4. BranchesKept
  BY <1>1, UnfinishedAssumption DEF BranchesKept, GitInv, GitTyped
<1>5. GitTyped'
  BY <1>1 DEF GitInv, GitTyped
<1>6. HasBranchIn(repoOf', branch', e)
  <2>1. CASE committed
    <3>1. branch'[r][t] = p
      BY <1>1, <2>1 DEF GitInv, GitTyped
    <3>2. QED BY <1>1, <1>2, <1>3, <3>1 DEF HasBranchIn
  <2>2. CASE ~committed
    BY <1>2, <2>2 DEF HasBranchIn
  <2>3. QED BY <2>1, <2>2
<1>7. PushedIsOwnWork' /\ \A x \in Row :
            HasBranchIn(repoOf, branch, x) => HasBranchIn(repoOf', branch', x)
  BY <1>1, <1>4, EntriesKept DEF GitInv
<1>8. /\ \A i \in DOMAIN memory.ring : HasBranchIn(repoOf', branch', memory.ring[i])
      /\ \A i \in DOMAIN db : HasBranchIn(repoOf', branch', db[i])
  BY <1>7, EntriesAreRows DEF GitInv, HasBranch
<1>9. QED BY <1>1, <1>5, <1>6, <1>7, <1>8 DEF GitInv, HasBranch, history

LEMMA RecordKeepsGitInv ==
    ASSUME HistInv, GitInv, CommandsTyped', RecordTask
    PROVE  GitInv'
<1>1. /\ worker.at = "record" /\ Record(worker.summary) /\ worker' = Idle
      /\ UNCHANGED <<repoOf, branch, remote, slot>>
  BY DEF RecordTask, chats, registry, git
<1>2. worker.summary \in Row /\ HasBranch(worker.summary)
  BY <1>1 DEF HistInv, GitInv, Idle
<1>3. /\ \A i \in DOMAIN memory'.ring : memory'.ring[i] = worker.summary
                \/ \E j \in DOMAIN memory.ring : memory'.ring[i] = memory.ring[j]
      /\ \A i \in DOMAIN db' : db'[i] = worker.summary \/ \E j \in DOMAIN db : db'[i] = db[j]
  BY <1>1, <1>2, RecordIsSound DEF HistInv, RingIsDbTail
<1>4. /\ \A i \in DOMAIN memory'.ring : HasBranchIn(repoOf, branch, memory'.ring[i])
      /\ \A i \in DOMAIN db' : HasBranchIn(repoOf, branch, db'[i])
  BY <1>2, <1>3 DEF GitInv, HasBranch
<1>5. GitTyped' /\ PushedIsOwnWork'
  BY <1>1 DEF GitInv, GitTyped, PushedIsOwnWork
<1>6. QED BY <1>1, <1>4, <1>5 DEF GitInv, HasBranch, RepoOfJob, Idle

LEMMA NextKeepsGitInv == IInv /\ HistInv /\ GitInv /\ [Next]_vars => GitInv'
<1> SUFFICES ASSUME IInv, HistInv, GitInv, [Next]_vars PROVE GitInv'
  OBVIOUS
<1>0. CommandsTyped'
  BY NextKeepsCommandsTyped DEF GitInv
<1>1. CASE UNCHANGED vars
  BY <1>0, <1>1, QuietKeepsGitInv DEF vars, chats, registry
<1>2. CASE Start
  <2>1. /\ slot = None /\ worker = Idle /\ UNCHANGED <<slot, worker, repoOf, git>> /\ db' = db
        /\ memory' \in {Loaded, Empty}
    BY <1>2 DEF Start, runner, HistInv, Load, Forget
  <2>2. \A i \in DOMAIN memory'.ring : \E j \in DOMAIN db : memory'.ring[i] = db[j]
    <3>1. CASE memory' = Loaded
      BY <3>1, RecentAreRows DEF HistInv
    <3>2. CASE memory' = Empty
      BY <3>2 DEF Empty
    <3>3. QED BY <2>1, <3>1, <3>2
  <2>3. /\ \A i \in DOMAIN memory'.ring : HasBranchIn(repoOf, branch, memory'.ring[i])
        /\ \A i \in DOMAIN db : HasBranchIn(repoOf, branch, db[i])
    BY <2>2 DEF GitInv, HasBranch
  <2>4. QED BY <1>0, <2>1, <2>3 DEF GitInv, GitTyped, PushedIsOwnWork, HasBranch, Idle, git
<1>3. CASE Crash
  <2>1. /\ slot' = None /\ worker' = Idle /\ UNCHANGED <<repoOf, git>> /\ db' = db
        /\ memory' = Empty
    BY <1>3 DEF Crash, Forget, chats, registry
  <2>2. DOMAIN memory'.ring = {}
    BY <2>1 DEF Empty
  <2>3. QED BY <1>0, <2>1, <2>2 DEF GitInv, GitTyped, PushedIsOwnWork, HasBranch, Idle, git
<1>4. CASE \E p \in Project, g \in Group \cup {None} : Register(p, g)
  BY <1>0, <1>4, QuietKeepsGitInv DEF Register
<1>5. CASE \E b \in Bot, chat \in Chat, cmd \in Command : Receive(b, chat, cmd)
  BY <1>0, <1>5, QuietKeepsGitInv DEF Receive, chats, registry
<1>6. ASSUME NEW b \in Bot, Handle(b) PROVE GitInv'
  <2>1. CASE ProjectsCommand(b)
    BY <1>0, <2>1, QuietKeepsGitInv
    DEF ProjectsCommand, CheckBind, WriteBinding, Migrate, FindBinding, DeleteBinding, chats, registry
  <2>2. ASSUME NEW t \in Task, HandleTask(b, t) PROVE GitInv'
    <3>1. UNCHANGED <<repoOf, worker, git, history>>
      BY <2>2 DEF HandleTask, chats, registry
    <3>2. CASE process.wired /\ HasRuntime(b) /\ slot = None
      <4>1. slot' = [task |-> t, project |-> Context(b), own |-> call[b].own]
        BY <2>2, <3>2 DEF HandleTask
      <4>2. Context(b) \in Project /\ repoOf[Context(b)] \in Repo
        BY <3>2 DEF HasRuntime, Runnable, IInv, CallsTyped, GitInv, GitTyped
      <4>3. repoOf[slot'.project] \in Repo /\ worker.at # "run"
        BY <3>2, <4>1, <4>2 DEF HistInv
      <4>4. QED BY <1>0, <3>1, <4>3
            DEF GitInv, GitTyped, PushedIsOwnWork, HasBranch, git, history
    <3>3. CASE ~(process.wired /\ HasRuntime(b) /\ slot = None)
      <4>1. slot' = slot
        BY <2>2, <3>3 DEF HandleTask
      <4>2. QED BY <1>0, <3>1, <4>1, QuietKeepsGitInv DEF runner
    <3>4. QED BY <3>2, <3>3
  <2>3. CASE Push(b) \/ PushForPullRequest(b)
    BY <1>0, <2>3, PushKeepsGitInv DEF Push, PushForPullRequest, chats, registry
  <2>4. CASE OpenPullRequest(b)
    BY <1>0, <2>4, QuietKeepsGitInv DEF OpenPullRequest, chats, registry
  <2>5. QED BY <1>6, <2>1, <2>2, <2>3, <2>4 DEF Handle
<1>7. CASE AcquireFails
  <2>1. /\ worker.at # "run" /\ slot' = None
        /\ UNCHANGED <<repoOf, worker, git, history>>
    BY <1>7 DEF AcquireFails, Idle, chats, registry
  <2>2. QED BY <1>0, <2>1 DEF GitInv, GitTyped, PushedIsOwnWork, HasBranch, git, history
<1>8. CASE Acquire
  BY <1>0, <1>8, AcquireKeepsGitInv
<1>9. CASE \E committed \in BOOLEAN : FinishRun(committed)
  BY <1>0, <1>9, FinishKeepsGitInv
<1>10. CASE RecordTask
  BY <1>0, <1>10, RecordKeepsGitInv
<1>11. QED BY <1>1, <1>2, <1>3, <1>4, <1>5, <1>6, <1>7, <1>8, <1>9, <1>10 DEF Next, Work

LEMMA InitGitInv == Init => GitInv
<1>1. SUFFICES ASSUME Init PROVE GitInv
  OBVIOUS
<1>2. GitTyped /\ CommandsTyped /\ PushedIsOwnWork
  BY <1>1 DEF Init, GitTyped, CommandsTyped, PushedIsOwnWork, Idle
<1>3. DOMAIN memory.ring = {} /\ DOMAIN db = {} /\ slot = None /\ worker = Idle
  BY <1>1 DEF Init, Empty
<1>4. QED BY <1>2, <1>3 DEF GitInv, Idle

(* What reaches the remote for a project is what a successful task of that  *)
(* project committed, with ids drawn twice, a repository two projects       *)
(* share, evictions, restarts, chats bound anew and the fall back to the    *)
(* active project in between.                                               *)
THEOREM PushedIsOwnWorkHolds == Spec => []PushedIsOwnWork
<1>1. GitInv => PushedIsOwnWork
  BY DEF GitInv
<1>2. QED BY <1>1, InitGitInv, NextKeepsGitInv, InitHistInv, NextKeepsHistInv, Bindings, PTL DEF Spec
=============================================================================
