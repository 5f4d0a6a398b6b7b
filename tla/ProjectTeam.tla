---------------------------- MODULE ProjectTeam ----------------------------
(***************************************************************************)
(* The team of one project: its roster of specialists and its hiring        *)
(* requests, kept in the database, and those who change them:               *)
(*   - the owner's /team commands (core/project_team_commands.py and        *)
(*     core/hire_approval.py), which run in the threads of several bots;    *)
(*   - logical hiring (core/logical_hiring.py), which the worker thread     *)
(*     runs after a task.                                                   *)
(*                                                                         *)
(* A call of StateDB is one transaction and one action; what a command does *)
(* between two of them is interleaved with everybody else.  A command that  *)
(* is refused changes nothing and is the negation of a guard.  A call may   *)
(* be cut short anywhere, by an exception of the database or a crash.       *)
(***************************************************************************)
CONSTANTS
    Role,      \* the specialist roles
    Request,   \* the identifiers hiring requests are given
    Bot,       \* the threads that handle commands
    None

ASSUME TeamAssumption == None \notin Role /\ None \notin Request

VARIABLES
    needsApproval,  \* require_owner_approval_for_hires, set at registration
    roster,         \* table project_specialist_roster
    about, status,  \* table project_hire_requests
    call,           \* what each bot's thread is at
    hiring,         \* what the worker's logical hiring is at
    told,           \* the answer given in the last step, if it gave one
    stranded        \* the requests an add that was cut short left pending

db == <<needsApproval, roster, about, status>>
vars == <<db, call, hiring, told, stranded>>

IdleCall == [at |-> "idle"]

Call ==
    {IdleCall}
    \cup [at : {"list"}, role : Role]
    \cup [at : {"settle"}, ids : SUBSET Request]
    \cup [at : {"decide"}, id : Request, word : {"approve", "reject"},
          before : SUBSET Role]
    \cup [at : {"compare"}, id : Request, before : SUBSET Role, late : BOOLEAN]

IdleHiring == [at |-> "idle"]

(* did: a role has been hired, or asked for.                               *)
Hiring ==
    {IdleHiring}
    \cup [at : {"hire"}, initial : SUBSET Role, todo : SUBSET Role, did : BOOLEAN]

(* What a decision is answered with: the state of the request, or none; and  *)
(* whether another decision fell between its read and its write.  What the   *)
(* task's message says of hiring, and whether a role was hired or asked for. *)
Answer ==
    [of : {"decision"}, id : Request, says : {"approved", "rejected", "error"},
     late : BOOLEAN]
    \cup [of : {"hiring"}, says : {"asked", "hired", "satisfied", "unchanged"},
          did : BOOLEAN]

TypeOK ==
    /\ needsApproval \in BOOLEAN
    /\ roster \in SUBSET Role
    /\ about \in [Request -> Role \cup {None}]
    /\ status \in [Request -> {"unused", "pending", "approved", "rejected"}]
    /\ \A i \in Request : status[i] = "unused" <=> about[i] = None
    /\ call \in [Bot -> Call]
    /\ hiring \in Hiring
    /\ told \in Answer \cup {None}
    /\ stranded \in SUBSET Request

Init ==
    /\ needsApproval \in BOOLEAN
    /\ roster = {}
    /\ about = [i \in Request |-> None]
    /\ status = [i \in Request |-> "unused"]
    /\ call = [b \in Bot |-> IdleCall]
    /\ hiring = IdleHiring
    /\ told = None
    /\ stranded = {}

-----------------------------------------------------------------------------
(* The transactions of StateDB.                                            *)

PendingFor(r) == {i \in Request : status[i] = "pending" /\ about[i] = r}

Free == {i \in Request : status[i] = "unused"}

(* A new request is given an identifier no other has.                       *)
Insert(r) ==
    LET i == CHOOSE i \in Free : TRUE IN
    /\ Free # {}
    /\ status' = [status EXCEPT ![i] = "pending"]
    /\ about' = [about EXCEPT ![i] = r]

(* Mutant of CreateRequest: another request for the role is not looked for. *)
CreateRequestAgain(r) ==
    /\ Insert(r)
    /\ UNCHANGED <<needsApproval, roster>>

(* create_hire_request, for an absent role: a pending request is reused.    *)
CreateRequest(r) ==
    /\ IF PendingFor(r) # {}
       THEN UNCHANGED <<about, status>>
       ELSE Insert(r)
    /\ UNCHANGED <<needsApproval, roster>>

(* Mutant of MarkApproved: whatever was decided before.                    *)
MarkApprovedAnyway(i) ==
    /\ status' = [status EXCEPT ![i] = "approved"]
    /\ roster' = roster \cup {about[i]}
    /\ UNCHANGED <<needsApproval, about>>

(* mark_hire_request_approved: a decided request is returned as it is.      *)
MarkApproved(i) ==
    /\ IF status[i] = "pending"
       THEN /\ status' = [status EXCEPT ![i] = "approved"]
            /\ roster' = roster \cup {about[i]}
       ELSE UNCHANGED <<status, roster>>
    /\ UNCHANGED <<needsApproval, about>>

MarkRejected(i) ==
    /\ status' = IF status[i] = "pending"
                 THEN [status EXCEPT ![i] = "rejected"]
                 ELSE status
    /\ UNCHANGED <<needsApproval, roster, about>>

-----------------------------------------------------------------------------
(* /team add and /team remove.                                             *)

Silent == told' = None

Goto(b, next) == call' = [call EXCEPT ![b] = next]

Add(b, r) ==
    /\ call[b] = IdleCall
    /\ r \notin roster
    /\ roster' = roster \cup {r}
    /\ Goto(b, [at |-> "list", role |-> r])
    /\ UNCHANGED <<needsApproval, about, status, hiring, stranded>>
    /\ Silent

(* Mutant of ListPending: waits for the requests to be settled elsewhere.  *)
ListPendingUntilNone(b) ==
    /\ call[b].at = "list"
    /\ PendingFor(call[b].role) = {}
    /\ Goto(b, IdleCall)
    /\ UNCHANGED <<db, hiring, stranded>>
    /\ Silent

(* _reconcile_matching_pending_requests lists what is pending for the role, *)
ListPending(b) ==
    /\ call[b].at = "list"
    /\ Goto(b, IF PendingFor(call[b].role) = {}
               THEN IdleCall
               ELSE [at |-> "settle", ids |-> PendingFor(call[b].role)])
    /\ UNCHANGED <<db, hiring, stranded>>
    /\ Silent

(* and approves each.                                                      *)
Settle(b) ==
    /\ call[b].at = "settle"
    /\ \E i \in call[b].ids :
        /\ MarkApproved(i)
        /\ stranded' = stranded \ {i}
        /\ Goto(b, IF call[b].ids = {i}
                   THEN IdleCall
                   ELSE [call[b] EXCEPT !.ids = @ \ {i}])
    /\ UNCHANGED hiring
    /\ Silent

Remove(b, r) ==
    /\ call[b] = IdleCall
    /\ r \in roster
    /\ roster' = roster \ {r}
    /\ UNCHANGED <<needsApproval, about, status, call, hiring, stranded>>
    /\ Silent

-----------------------------------------------------------------------------
(* /team approve and /team reject: apply_decision.                         *)

AnswerDecision(i, says, late) ==
    told' = [of |-> "decision", id |-> i, says |-> says, late |-> late]

(* Mutant of BeginDecision: a decided request is answered with the command.  *)
BeginDecisionByWord(b, i, word) ==
    /\ call[b] = IdleCall
    /\ IF status[i] = "pending"
       THEN /\ Goto(b, [at |-> "decide", id |-> i, word |-> word,
                       before |-> IF word = "approve" THEN roster ELSE {}])
            /\ Silent
       ELSE /\ AnswerDecision(i, IF word = "approve" THEN "approved" ELSE "rejected", FALSE)
            /\ UNCHANGED call
    /\ UNCHANGED <<db, hiring, stranded>>

(* Reads the roster, which an approval needs again, then the request; one    *)
(* that is decided already is answered with its decision.  The two reads are *)
(* one step: what is pending at the second was pending at the first, and the *)
(* answer to what is not pending does not depend on the roster.              *)
BeginDecision(b, i, word) ==
    /\ call[b] = IdleCall
    /\ status[i] # "unused"
    /\ IF status[i] = "pending"
       THEN /\ Goto(b, [at |-> "decide", id |-> i, word |-> word,
                       before |-> IF word = "approve" THEN roster ELSE {}])
            /\ Silent
       ELSE /\ AnswerDecision(i, status[i], FALSE)
            /\ UNCHANGED call
    /\ UNCHANGED <<db, hiring, stranded>>

(* The answer to a reject does not look at what the transaction returned.   *)
Reject(b) ==
    /\ call[b].at = "decide" /\ call[b].word = "reject"
    /\ MarkRejected(call[b].id)
    /\ AnswerDecision(call[b].id, "rejected", status[call[b].id] # "pending")
    /\ Goto(b, IdleCall)
    /\ stranded' = stranded \ {call[b].id}
    /\ UNCHANGED hiring

Approve(b) ==
    /\ call[b].at = "decide" /\ call[b].word = "approve"
    /\ MarkApproved(call[b].id)
    /\ Goto(b, [at |-> "compare", id |-> call[b].id, before |-> call[b].before,
                late |-> status[call[b].id] # "pending"])
    /\ stranded' = stranded \ {call[b].id}
    /\ UNCHANGED hiring
    /\ Silent

(* roster_after is read and compared: "marked as approved" for a role that  *)
(* was there before; "approved and added" for a roster that has grown; for  *)
(* any other, HireApprovalResult refuses to be built and raises.            *)
Compare(b) ==
    /\ call[b].at = "compare"
    /\ LET before == call[b].before
           added == \/ about[call[b].id] \in before
                    \/ before \subseteq roster /\ before # roster
       IN AnswerDecision(call[b].id, IF added THEN "approved" ELSE "error", call[b].late)
    /\ Goto(b, IdleCall)
    /\ UNCHANGED <<db, hiring, stranded>>

-----------------------------------------------------------------------------
(* Logical hiring: run_from_hints, on the worker thread.                   *)

AnswerHiring(says, did) ==
    /\ told' = [of |-> "hiring", says |-> says, did |-> did]
    /\ hiring' = IdleHiring

(* apply_plan reads the roster and keeps the hinted roles it has not.  The   *)
(* roster is needed again only when roles are hired.                         *)
BeginHiring(hints) ==
    /\ hiring = IdleHiring
    /\ IF hints \subseteq roster
       THEN AnswerHiring("satisfied", FALSE)
       ELSE /\ hiring' = [at |-> "hire", todo |-> hints \ roster, did |-> FALSE,
                          initial |-> IF needsApproval THEN {} ELSE roster]
            /\ Silent
    /\ UNCHANGED <<db, call, stranded>>

(* request_sensitive_hire.  Whether the role is there is asked twice, before *)
(* and in the transaction; the answer that counts is the first that says yes. *)
AskFor(r) ==
    /\ hiring.at = "hire" /\ needsApproval
    /\ r \in hiring.todo /\ r \notin roster
    /\ CreateRequest(r)
    /\ hiring' = [hiring EXCEPT !.todo = @ \ {r}, !.did = TRUE]
    /\ UNCHANGED <<call, stranded>>
    /\ Silent

HireHinted(r) ==
    /\ hiring.at = "hire" /\ ~needsApproval
    /\ r \in hiring.todo /\ r \notin roster
    /\ roster' = roster \cup {r}
    /\ hiring' = [hiring EXCEPT !.todo = @ \ {r}, !.did = TRUE]
    /\ UNCHANGED <<needsApproval, about, status, call, stranded>>
    /\ Silent

(* The role has come in the meantime.                                      *)
SkipHinted(r) ==
    /\ hiring.at = "hire"
    /\ r \in hiring.todo /\ r \in roster
    /\ hiring' = [hiring EXCEPT !.todo = @ \ {r}]
    /\ UNCHANGED <<db, call, stranded>>
    /\ Silent

(* The final roster is read.  One that does not extend the initial one makes *)
(* LogicalHiringResult raise, and the task's message says that the roster    *)
(* has not changed.                                                          *)
EndHiring ==
    /\ hiring.at = "hire" /\ hiring.todo = {}
    /\ LET grown == hiring.initial \subseteq roster /\ hiring.initial # roster
           says == CASE ~hiring.did                    -> "satisfied"
                     [] hiring.did /\ needsApproval    -> "asked"
                     [] OTHER -> IF grown THEN "hired" ELSE "unchanged"
       IN AnswerHiring(says, hiring.did)
    /\ UNCHANGED <<db, call, stranded>>

-----------------------------------------------------------------------------
(* A call is cut short.                                                    *)

CutShort(b) ==
    /\ call[b] # IdleCall
    /\ Goto(b, IdleCall)
    /\ stranded' = stranded \cup
        (CASE call[b].at = "list"   -> PendingFor(call[b].role)
           [] call[b].at = "settle" -> {i \in call[b].ids : status[i] = "pending"}
           [] OTHER                 -> {})
    /\ UNCHANGED <<db, hiring>>
    /\ Silent

(* An exception in the middle of hiring is answered like one at its end; a    *)
(* crash is not answered.                                                    *)
HiringCutShort ==
    /\ hiring.at = "hire"
    /\ \/ AnswerHiring("unchanged", hiring.did)
       \/ hiring' = IdleHiring /\ Silent
    /\ UNCHANGED <<db, call, stranded>>

-----------------------------------------------------------------------------
Continue(b) ==
    \/ ListPending(b) \/ Settle(b)
    \/ Reject(b) \/ Approve(b) \/ Compare(b)

Next ==
    \/ \E b \in Bot :
        \/ \E r \in Role : Add(b, r) \/ Remove(b, r)
        \/ \E i \in Request : BeginDecision(b, i, "approve") \/ BeginDecision(b, i, "reject")
        \/ Continue(b) \/ CutShort(b)
    \/ \E hints \in SUBSET Role \ {{}} : BeginHiring(hints)
    \/ \E r \in Role : AskFor(r) \/ HireHinted(r) \/ SkipHinted(r)
    \/ EndHiring \/ HiringCutShort

(* A thread goes on with a command it has begun.                           *)
Spec == Init /\ [][Next]_vars /\ \A b \in Bot : WF_vars(Continue(b))

-----------------------------------------------------------------------------
(* Properties.                                                             *)

(* The owner is never asked twice about a role, although requests are made,  *)
(* decided and made again while roles come and go.                          *)
OnePendingPerRole ==
    \A i, j \in Request :
        status[i] = "pending" /\ status[j] = "pending" /\ about[i] = about[j] => i = j

Reconciles(b, i) ==
    \/ call[b].at = "list" /\ call[b].role = about[i]
    \/ call[b].at = "settle" /\ i \in call[b].ids

(* No question about a role that is on the team stays open: the add that put *)
(* it there is about to settle the request, or was cut short before it did,  *)
(* although adding and settling are transactions of their own.               *)
NoneLeftBehind ==
    \A i \in Request :
        status[i] = "pending" /\ about[i] \in roster =>
            i \in stranded \/ \E b \in Bot : Reconciles(b, i)

(* The owner's open questions are each about another role, and none of them  *)
(* is about a role the team has without somebody there to settle it.         *)
OpenQuestionsAreTidy == OnePendingPerRole /\ NoneLeftBehind

(* A question about a role of the team is settled, unless the role is removed again.                     *)
OpenQuestionIsSettled ==
    \A i \in Request :
        status[i] = "pending" /\ about[i] \in roster ~>
            status[i] # "pending" \/ about[i] \notin roster \/ i \in stranded

(* What the owner is told of a request is its state, unless another decision  *)
(* fell between the read and the write of this one.                         *)
ReplyIsTrueUnlessLate ==
    told # None /\ told.of = "decision" =>
        told.says \in {status[told.id], "error"} \/ told.late

Desk == INSTANCE HiringDesk

(* All the commands together implement the desk: requests are decided once, *)
(* by whoever comes first, and approving one hires its role in that step.   *)
KeepsDesk == Desk!Spec
=============================================================================
