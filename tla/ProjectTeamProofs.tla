------------------------- MODULE ProjectTeamProofs -------------------------
(***************************************************************************)
(* Proofs about ProjectTeam, for any roles, requests and bots.              *)
(***************************************************************************)
EXTENDS ProjectTeam, TLAPS

-----------------------------------------------------------------------------
(* The transactions, seen as functions of the tables.                       *)

(* A new request is one that did not exist.                                 *)
LEMMA InsertIsNew ==
    ASSUME NEW r, Insert(r)
    PROVE  \E i \in Request : /\ status[i] = "unused"
                              /\ status' = [status EXCEPT ![i] = "pending"]
                              /\ about' = [about EXCEPT ![i] = r]
<1> DEFINE i == CHOOSE i \in Free : TRUE
<1>1. i \in Free
  BY DEF Insert
<1>2. i \in Request /\ status[i] = "unused"
  BY <1>1 DEF Free
<1> QED
  BY <1>2 DEF Insert

-----------------------------------------------------------------------------
(* Type correctness.                                                       *)

LEMMA CreateRequestTyped ==
    ASSUME TypeOK, NEW r \in Role, CreateRequest(r)
    PROVE  /\ needsApproval' \in BOOLEAN
           /\ roster' \in SUBSET Role
           /\ about' \in [Request -> Role \cup {None}]
           /\ status' \in [Request -> {"unused", "pending", "approved", "rejected"}]
           /\ \A i \in Request : status'[i] = "unused" <=> about'[i] = None
<1>1. CASE PendingFor(r) # {}
  BY <1>1 DEF CreateRequest, TypeOK
<1>2. CASE PendingFor(r) = {}
  <2>1. PICK i \in Request : /\ status[i] = "unused"
                             /\ status' = [status EXCEPT ![i] = "pending"]
                             /\ about' = [about EXCEPT ![i] = r]
    BY <1>2, InsertIsNew DEF CreateRequest
  <2> QED
    BY <2>1, TeamAssumption DEF CreateRequest, TypeOK
<1> QED
  BY <1>1, <1>2

LEMMA MarkApprovedTyped ==
    ASSUME TypeOK, NEW i \in Request, status[i] # "unused", MarkApproved(i)
    PROVE  /\ needsApproval' \in BOOLEAN
           /\ roster' \in SUBSET Role
           /\ about' \in [Request -> Role \cup {None}]
           /\ status' \in [Request -> {"unused", "pending", "approved", "rejected"}]
           /\ \A j \in Request : status'[j] = "unused" <=> about'[j] = None
BY DEF TypeOK, MarkApproved

LEMMA MarkRejectedTyped ==
    ASSUME TypeOK, NEW i \in Request, status[i] # "unused", MarkRejected(i)
    PROVE  /\ needsApproval' \in BOOLEAN
           /\ roster' \in SUBSET Role
           /\ about' \in [Request -> Role \cup {None}]
           /\ status' \in [Request -> {"unused", "pending", "approved", "rejected"}]
           /\ \A j \in Request : status'[j] = "unused" <=> about'[j] = None
BY DEF TypeOK, MarkRejected

(* A call is about requests that exist.                                     *)
CallsKnown ==
    \A b \in Bot :
        /\ call[b].at \in {"decide", "compare"} =>
                call[b].id \in Request /\ status[call[b].id] # "unused"
        /\ call[b].at = "settle" => \A i \in call[b].ids : i \in Request /\ status[i] # "unused"

Typed == TypeOK /\ CallsKnown

(* A request never goes back to not existing.                               *)
LEMMA RequestsStay ==
    ASSUME TypeOK, NEW r \in Role, NEW i \in Request,
           CreateRequest(r) \/ MarkApproved(i) \/ MarkRejected(i)
    PROVE  \A j \in Request : status[j] # "unused" => status'[j] # "unused"
<1>1. CASE CreateRequest(r)
  <2>1. CASE PendingFor(r) # {}
    BY <1>1, <2>1 DEF CreateRequest
  <2>2. CASE PendingFor(r) = {}
    <3>1. Insert(r)
      BY <1>1, <2>2 DEF CreateRequest
    <3> QED
      BY <3>1, InsertIsNew DEF TypeOK
  <2> QED
    BY <2>1, <2>2
<1>2. CASE MarkApproved(i) \/ MarkRejected(i)
  BY <1>2 DEF MarkApproved, MarkRejected, TypeOK
<1> QED
  BY <1>1, <1>2

(* The tables do not change.                                                *)
LEMMA CallStepTyped ==
    ASSUME Typed, NEW b \in Bot, NEW next \in Call, Goto(b, next), UNCHANGED <<db, hiring>>,
           told' \in Answer \cup {None}, stranded' \in SUBSET Request,
           next.at \in {"decide", "compare"} =>
                next.id \in Request /\ status[next.id] # "unused",
           next.at = "settle" => \A i \in next.ids : i \in Request /\ status[i] # "unused"
    PROVE  Typed'
<1>1. call' \in [Bot -> Call]
  BY DEF Typed, TypeOK, Goto
<1>2. TypeOK'
  BY <1>1 DEF Typed, TypeOK, db
<1>3. CallsKnown'
  <2> SUFFICES ASSUME NEW c \in Bot
               PROVE  /\ call'[c].at \in {"decide", "compare"} =>
                            call'[c].id \in Request /\ status'[call'[c].id] # "unused"
                      /\ call'[c].at = "settle" =>
                            \A i \in call'[c].ids : i \in Request /\ status'[i] # "unused"
    BY DEF CallsKnown
  <2>1. CASE c = b
    BY <2>1 DEF Goto, db, Typed, TypeOK
  <2>2. CASE c # b
    BY <2>2 DEF Goto, db, Typed, TypeOK, CallsKnown
  <2> QED
    BY <2>1, <2>2
<1> QED
  BY <1>2, <1>3 DEF Typed

(* The tables change, the call ends or stays in the same place.              *)
LEMMA CallsStayKnown ==
    ASSUME Typed, call' = call, TypeOK',
           \A j \in Request : status[j] # "unused" => status'[j] # "unused"
    PROVE  CallsKnown'
BY DEF Typed, TypeOK, CallsKnown

LEMMA IdleIsKnown ==
    ASSUME Typed, NEW b \in Bot, Goto(b, IdleCall), TypeOK',
           \A j \in Request : status[j] # "unused" => status'[j] # "unused"
    PROVE  CallsKnown'
BY DEF Typed, TypeOK, CallsKnown, Goto, IdleCall

LEMMA AddTyped ==
    ASSUME Typed, NEW b \in Bot, NEW r \in Role, Add(b, r) \/ Remove(b, r)
    PROVE  Typed'
<1>1. CASE Add(b, r)
  <2>1. TypeOK'
    BY <1>1 DEF Typed, TypeOK, Add, Goto, Call, Silent
  <2>2. CallsKnown'
    BY <1>1 DEF Typed, TypeOK, CallsKnown, Add, Goto
  <2> QED
    BY <2>1, <2>2 DEF Typed
<1>2. CASE Remove(b, r)
  <2>1. TypeOK'
    BY <1>2 DEF Typed, TypeOK, Remove, Silent
  <2> QED
    BY <1>2, <2>1, CallsStayKnown DEF Typed, Remove
<1> QED
  BY <1>1, <1>2

LEMMA ListPendingTyped ==
    ASSUME Typed, NEW b \in Bot, ListPending(b)
    PROVE  Typed'
<1> DEFINE r == call[b].role
           next == IF PendingFor(r) = {}
                   THEN IdleCall
                   ELSE [at |-> "settle", ids |-> PendingFor(r)]
<1>1. next \in Call
  BY DEF Call, IdleCall, PendingFor
<1>2. \A i \in PendingFor(r) : i \in Request /\ status[i] # "unused"
  BY DEF PendingFor
<1>3. /\ Goto(b, next)
      /\ UNCHANGED <<db, hiring>>
      /\ told' \in Answer \cup {None}
      /\ stranded' \in SUBSET Request
  BY DEF ListPending, Silent, Typed, TypeOK
<1>4. next.at \notin {"decide", "compare"}
  BY DEF IdleCall
<1>5. next.at = "settle" => \A i \in next.ids : i \in Request /\ status[i] # "unused"
  BY <1>2 DEF IdleCall
<1> HIDE DEF next
<1> QED
  BY <1>1, <1>3, <1>4, <1>5, CallStepTyped

LEMMA SettleTyped ==
    ASSUME Typed, NEW b \in Bot, Settle(b)
    PROVE  Typed'
<1>1. PICK i \in call[b].ids :
        /\ MarkApproved(i)
        /\ stranded' = stranded \ {i}
        /\ Goto(b, IF call[b].ids = {i} THEN IdleCall ELSE [call[b] EXCEPT !.ids = @ \ {i}])
  BY DEF Settle
<1>2. i \in Request /\ status[i] # "unused" /\ call[b].at = "settle"
  BY DEF Settle, Typed, CallsKnown
<1>3. call[b] \in [at : {"settle"}, ids : SUBSET Request]
  BY <1>2 DEF Typed, TypeOK, Call, IdleCall
<1>4. call' \in [Bot -> Call]
  BY <1>1, <1>3 DEF Typed, TypeOK, Goto, Call
<1>5. TypeOK'
  BY <1>1, <1>2, <1>4, MarkApprovedTyped DEF Typed, TypeOK, Settle, Silent
<1>6. \A j \in Request : status[j] # "unused" => status'[j] # "unused"
  BY <1>1, <1>2 DEF MarkApproved, Typed, TypeOK
<1>7. CallsKnown'
  BY <1>1, <1>3, <1>4, <1>6 DEF Typed, TypeOK, CallsKnown, Goto, IdleCall
<1> QED
  BY <1>5, <1>7 DEF Typed

LEMMA DecisionAnswer ==
    ASSUME NEW i \in Request, NEW says \in {"approved", "rejected", "error"},
           NEW late \in BOOLEAN, AnswerDecision(i, says, late)
    PROVE  told' \in Answer
BY DEF AnswerDecision, Answer

LEMMA HiringAnswer ==
    ASSUME NEW says \in {"asked", "hired", "satisfied", "unchanged"}, NEW did \in BOOLEAN,
           AnswerHiring(says, did)
    PROVE  told' \in Answer /\ hiring' \in Hiring
BY DEF AnswerHiring, Answer, Hiring

LEMMA BeginDecisionTyped ==
    ASSUME Typed, NEW b \in Bot, NEW i \in Request, NEW word \in {"approve", "reject"},
           BeginDecision(b, i, word)
    PROVE  Typed'
<1>1. CASE status[i] = "pending"
  <2> DEFINE next == [at |-> "decide", id |-> i, word |-> word,
                      before |-> IF word = "approve" THEN roster ELSE {}]
  <2>1. next \in Call
    BY DEF Call, Typed, TypeOK
  <2>2. /\ Goto(b, next)
        /\ UNCHANGED <<db, hiring>>
        /\ told' \in Answer \cup {None}
        /\ stranded' \in SUBSET Request
    BY <1>1 DEF BeginDecision, Silent, Typed, TypeOK
  <2>3. next.at = "decide" /\ next.id \in Request /\ status[next.id] # "unused"
    BY <1>1
  <2> HIDE DEF next
  <2> QED
    BY <2>1, <2>2, <2>3, CallStepTyped
<1>2. CASE status[i] # "pending"
  <2>1. status[i] \in {"approved", "rejected"}
    BY <1>2 DEF BeginDecision, Typed, TypeOK
  <2>2. told' \in Answer
    BY <1>2, <2>1, DecisionAnswer DEF BeginDecision
  <2>3. TypeOK'
    BY <1>2, <2>2 DEF BeginDecision, Typed, TypeOK, db
  <2> QED
    BY <1>2, <2>3, CallsStayKnown DEF BeginDecision, db, Typed
<1> QED
  BY <1>1, <1>2

LEMMA RejectTyped ==
    ASSUME Typed, NEW b \in Bot, Reject(b)
    PROVE  Typed'
<1> DEFINE i == call[b].id
<1>1. i \in Request /\ status[i] # "unused"
  BY DEF Reject, Typed, CallsKnown
<1>2. told' \in Answer
  BY <1>1 DEF Reject, AnswerDecision, Answer
<1>3. call' \in [Bot -> Call]
  BY DEF Reject, Goto, Call, Typed, TypeOK
<1>4. TypeOK'
  BY <1>1, <1>2, <1>3, MarkRejectedTyped DEF Reject, Typed, TypeOK
<1>5. \A j \in Request : status[j] # "unused" => status'[j] # "unused"
  BY DEF Reject, MarkRejected, Typed, TypeOK
<1> QED
  BY <1>4, <1>5, IdleIsKnown DEF Reject, Typed

LEMMA ApproveTyped ==
    ASSUME Typed, NEW b \in Bot, Approve(b)
    PROVE  Typed'
<1> DEFINE i == call[b].id
<1>1. i \in Request /\ status[i] # "unused"
  BY DEF Approve, Typed, CallsKnown
<1>2. call[b] \in [at : {"decide"}, id : Request, word : {"approve", "reject"},
                   before : SUBSET Role]
  BY DEF Approve, Typed, TypeOK, Call, IdleCall
<1>3. call' \in [Bot -> Call]
  BY <1>1, <1>2 DEF Approve, Goto, Call, Typed, TypeOK
<1>4. TypeOK'
  BY <1>1, <1>3, MarkApprovedTyped DEF Approve, Typed, TypeOK, Silent
<1>5. \A j \in Request : status[j] # "unused" => status'[j] # "unused"
  BY DEF Approve, MarkApproved, Typed, TypeOK
<1>6. CallsKnown'
  BY <1>1, <1>5 DEF Approve, Goto, Typed, TypeOK, CallsKnown
<1> QED
  BY <1>4, <1>6 DEF Typed

LEMMA CompareTyped ==
    ASSUME Typed, NEW b \in Bot, Compare(b)
    PROVE  Typed'
<1>1. call[b] \in [at : {"compare"}, id : Request, before : SUBSET Role, late : BOOLEAN]
  BY DEF Compare, Typed, TypeOK, Call, IdleCall
<1>2. PICK says \in {"approved", "error"} : AnswerDecision(call[b].id, says, call[b].late)
  BY DEF Compare
<1>3. told' \in Answer
  <2>1. /\ says \in {"approved", "rejected", "error"}
        /\ call[b].id \in Request
        /\ call[b].late \in BOOLEAN
    BY <1>1
  <2> QED
    BY <1>2, <2>1, DecisionAnswer
<1>4. IdleCall \in Call
  BY DEF Call
<1> QED
  BY <1>3, <1>4, CallStepTyped DEF Compare, Typed, TypeOK, IdleCall

LEMMA CutShortTyped ==
    ASSUME Typed, NEW b \in Bot, CutShort(b)
    PROVE  Typed'
<1>1. stranded' \in SUBSET Request
  <2>1. CASE call[b].at = "list"
    BY <2>1 DEF CutShort, PendingFor, Typed, TypeOK
  <2>2. CASE call[b].at = "settle"
    BY <2>2 DEF CutShort, Typed, TypeOK, CallsKnown
  <2>3. CASE call[b].at \notin {"list", "settle"}
    BY <2>3 DEF CutShort, Typed, TypeOK
  <2> QED
    BY <2>1, <2>2, <2>3
<1>2. IdleCall \in Call
  BY DEF Call
<1> QED
  BY <1>1, <1>2, CallStepTyped DEF CutShort, Silent, IdleCall

(* Logical hiring leaves the calls of the bots alone.                       *)
LEMMA HiringTyped ==
    ASSUME Typed,
           \/ \E hints \in SUBSET Role \ {{}} : BeginHiring(hints)
           \/ \E r \in Role : AskFor(r) \/ HireHinted(r) \/ SkipHinted(r)
           \/ EndHiring \/ HiringCutShort
    PROVE  Typed'
<1> USE DEF Typed, TypeOK
<1>1. ASSUME NEW hints \in SUBSET Role, BeginHiring(hints)
      PROVE  Typed'
  <2>1. told' \in Answer \cup {None} /\ hiring' \in Hiring
    <3>1. CASE hints \subseteq roster
      BY <1>1, <3>1, HiringAnswer DEF BeginHiring
    <3>2. CASE ~(hints \subseteq roster)
      <4> DEFINE initial == IF needsApproval THEN {} ELSE roster
      <4>1. initial \in SUBSET Role /\ hints \ roster \in SUBSET Role
        OBVIOUS
      <4>2. hiring' = [at |-> "hire", todo |-> hints \ roster, did |-> FALSE,
                       initial |-> initial]
        BY <1>1, <3>2 DEF BeginHiring
      <4> QED
        BY <1>1, <3>2, <4>1, <4>2 DEF BeginHiring, Hiring, Silent
    <3> QED
      BY <3>1, <3>2
  <2>2. TypeOK'
    BY <1>1, <2>1 DEF BeginHiring, db
  <2> QED
    BY <1>1, <2>2, CallsStayKnown DEF BeginHiring, db
<1>2. ASSUME NEW r \in Role, AskFor(r)
      PROVE  Typed'
  <2>1. hiring' \in Hiring
    BY <1>2 DEF AskFor, Hiring, IdleHiring
  <2>2. TypeOK'
    BY <1>2, <2>1, CreateRequestTyped DEF AskFor, Silent
  <2>3. PICK i \in Request : TRUE
    BY <1>2, InsertIsNew, CallsStayKnown DEF AskFor, CreateRequest, PendingFor
  <2>4. \A j \in Request : status[j] # "unused" => status'[j] # "unused"
    BY <1>2, <2>3, RequestsStay DEF AskFor
  <2> QED
    BY <1>2, <2>2, <2>4, CallsStayKnown DEF AskFor
<1>3. ASSUME NEW r \in Role, HireHinted(r)
      PROVE  Typed'
  <2>1. hiring' \in Hiring
    BY <1>3 DEF HireHinted, Hiring, IdleHiring
  <2>2. TypeOK'
    BY <1>3, <2>1 DEF HireHinted, Silent
  <2> QED
    BY <1>3, <2>2, CallsStayKnown DEF HireHinted
<1>4. ASSUME NEW r \in Role, SkipHinted(r)
      PROVE  Typed'
  <2>1. hiring' \in Hiring
    BY <1>4 DEF SkipHinted, Hiring, IdleHiring
  <2>2. TypeOK'
    BY <1>4, <2>1 DEF SkipHinted, Silent, db
  <2> QED
    BY <1>4, <2>2, CallsStayKnown DEF SkipHinted, db
<1>5. ASSUME EndHiring \/ HiringCutShort
      PROVE  Typed'
  <2>1. hiring.did \in BOOLEAN
    BY <1>5 DEF EndHiring, HiringCutShort, Hiring, IdleHiring
  <2>2. \/ \E says \in {"asked", "hired", "satisfied", "unchanged"} :
                AnswerHiring(says, hiring.did)
        \/ hiring' = IdleHiring /\ Silent
    BY <1>5 DEF EndHiring, HiringCutShort
  <2>3. told' \in Answer \cup {None} /\ hiring' \in Hiring
    BY <2>1, <2>2, HiringAnswer DEF Hiring, Silent
  <2>4. TypeOK'
    BY <1>5, <2>3 DEF EndHiring, HiringCutShort, db
  <2> QED
    BY <1>5, <2>4, CallsStayKnown DEF EndHiring, HiringCutShort, db
<1> HIDE DEF Typed
<1> QED
  BY <1>1, <1>2, <1>3, <1>4, <1>5

LEMMA TypedStep ==
    ASSUME Typed, [Next]_vars
    PROVE  Typed'
<1>1. CASE UNCHANGED vars
  <2>1. TypeOK'
    BY <1>1 DEF vars, db, Typed, TypeOK
  <2> QED
    BY <1>1, <2>1, CallsStayKnown DEF vars, db, Typed
<1>2. CASE Next
  BY <1>2, AddTyped, ListPendingTyped, SettleTyped, BeginDecisionTyped, RejectTyped,
     ApproveTyped, CompareTyped, CutShortTyped, HiringTyped DEF Next, Continue
<1> QED
  BY <1>1, <1>2

LEMMA TypedHolds == Spec => []Typed
<1>1. Init => Typed
  BY DEF Init, Typed, TypeOK, CallsKnown, Call, IdleCall, Hiring
<1>2. Typed /\ [Next]_vars => Typed'
  BY TypedStep
<1> QED
  BY <1>1, <1>2, PTL DEF Spec

(* The tables, the calls and the answers have their types (StateDB's CHECK   *)
(* constraints, HireApprovalResult, LogicalHiringResult).                    *)
THEOREM TypeCorrect == Spec => []TypeOK
BY TypedHolds, PTL DEF Typed

-----------------------------------------------------------------------------
(* The desk.                                                               *)

(* Approving is the desk's Approve, or changes nothing.                     *)
LEMMA ApprovalAtDesk ==
    ASSUME NEW i \in Request, MarkApproved(i)
    PROVE  Desk!Approve(i) \/ UNCHANGED Desk!vars
BY DEF MarkApproved, Desk!Approve, Desk!vars

LEMMA RejectionAtDesk ==
    ASSUME NEW i \in Request, MarkRejected(i)
    PROVE  Desk!Reject(i) \/ UNCHANGED Desk!vars
BY DEF MarkRejected, Desk!Reject, Desk!vars

LEMMA RequestAtDesk ==
    ASSUME NEW r \in Role, r \notin roster, CreateRequest(r)
    PROVE  (\E i \in Request : Desk!Ask(i, r)) \/ UNCHANGED Desk!vars
<1>1. CASE PendingFor(r) # {}
  BY <1>1 DEF CreateRequest, Desk!vars
<1>2. CASE PendingFor(r) = {}
  <2>1. PICK i \in Request : /\ status[i] = "unused"
                             /\ status' = [status EXCEPT ![i] = "pending"]
                             /\ about' = [about EXCEPT ![i] = r]
    BY <1>2, InsertIsNew DEF CreateRequest
  <2>2. Desk!Ask(i, r)
    BY <1>2, <2>1 DEF CreateRequest, PendingFor, Desk!Ask
  <2> QED
    BY <2>2
<1> QED
  BY <1>1, <1>2

(* Every step of a command or of hiring is a step of the desk, or none.      *)
LEMMA DeskStep ==
    ASSUME Typed, [Next]_vars
    PROVE  [Desk!Next]_(Desk!vars)
<1>1. ASSUME NEW b \in Bot, NEW r \in Role, Add(b, r) \/ Remove(b, r)
      PROVE  Desk!Next
  BY <1>1 DEF Add, Remove, Desk!Next, Desk!Hire, Desk!Dismiss
<1>2. ASSUME NEW b \in Bot, Settle(b)
      PROVE  Desk!Next \/ UNCHANGED Desk!vars
  <2>1. PICK i \in Request : MarkApproved(i)
    BY <1>2 DEF Settle, Typed, CallsKnown
  <2> QED
    BY <2>1, ApprovalAtDesk DEF Desk!Next
<1>3. ASSUME NEW b \in Bot, Reject(b) \/ Approve(b)
      PROVE  Desk!Next \/ UNCHANGED Desk!vars
  <2>1. call[b].id \in Request
    BY <1>3 DEF Reject, Approve, Typed, CallsKnown
  <2> QED
    BY <1>3, <2>1, ApprovalAtDesk, RejectionAtDesk DEF Reject, Approve, Desk!Next
<1>4. ASSUME NEW r \in Role, AskFor(r)
      PROVE  Desk!Next \/ UNCHANGED Desk!vars
  BY <1>4, RequestAtDesk DEF AskFor, Desk!Next
<1>5. ASSUME NEW r \in Role, HireHinted(r)
      PROVE  Desk!Next
  BY <1>5 DEF HireHinted, Desk!Next, Desk!Hire
<1>6. ASSUME \/ UNCHANGED vars
             \/ \E b \in Bot : ListPending(b) \/ Compare(b) \/ CutShort(b)
             \/ \E b \in Bot, i \in Request, word \in {"approve", "reject"} :
                    BeginDecision(b, i, word)
             \/ \E hints \in SUBSET Role : BeginHiring(hints)
             \/ \E r \in Role : SkipHinted(r)
             \/ EndHiring \/ HiringCutShort
      PROVE  UNCHANGED Desk!vars
  BY <1>6 DEF vars, db, ListPending, Compare, CutShort, BeginDecision, BeginHiring,
     SkipHinted, EndHiring, HiringCutShort, Desk!vars
<1> QED
  BY <1>1, <1>2, <1>3, <1>4, <1>5, <1>6 DEF Next, Continue

(* The commands of all the bots and logical hiring together implement the    *)
(* desk, the safety part of KeepsDesk: a request is decided once, and         *)
(* approving it hires its role in the same step (core/state_db.py).           *)
THEOREM TeamRefinesDesk == Spec => Desk!Init /\ [][Desk!Next]_(Desk!vars)
<1>1. Init => Desk!Init
  BY DEF Init, Desk!Init
<1>2. Typed /\ [Next]_vars => [Desk!Next]_(Desk!vars)
  BY DeskStep
<1> QED
  BY <1>1, <1>2, TypedHolds, PTL DEF Spec

-----------------------------------------------------------------------------
(* One open question about a role: it is enough to look at the desk.         *)

LEMMA OnePendingStep ==
    ASSUME Typed, OnePendingPerRole, [Next]_vars
    PROVE  OnePendingPerRole'
<1>1. CASE UNCHANGED Desk!vars
  BY <1>1 DEF Desk!vars, OnePendingPerRole
<1>2. ASSUME NEW i \in Request, NEW r \in Role, Desk!Ask(i, r)
      PROVE  OnePendingPerRole'
  BY <1>2 DEF Desk!Ask, OnePendingPerRole, Typed, TypeOK
<1>3. ASSUME NEW i \in Request, Desk!Approve(i) \/ Desk!Reject(i)
      PROVE  OnePendingPerRole'
  BY <1>3 DEF Desk!Approve, Desk!Reject, OnePendingPerRole, Typed, TypeOK
<1>4. ASSUME NEW r \in Role, Desk!Hire(r) \/ Desk!Dismiss(r)
      PROVE  OnePendingPerRole'
  BY <1>4 DEF Desk!Hire, Desk!Dismiss, OnePendingPerRole
<1> QED
  BY <1>1, <1>2, <1>3, <1>4, DeskStep DEF Desk!Next

(* The owner is never asked twice about a role (create_hire_request).        *)
THEOREM OnePendingPerRoleHolds == Spec => []OnePendingPerRole
<1>1. Init => OnePendingPerRole
  BY DEF Init, OnePendingPerRole
<1>2. Typed /\ OnePendingPerRole /\ [Next]_vars => OnePendingPerRole'
  BY OnePendingStep
<1> QED
  BY <1>1, <1>2, TypedHolds, PTL DEF Spec

-----------------------------------------------------------------------------
(* Answers.                                                                *)

(* An approval that was not late has approved its request.                   *)
ComparesApproved ==
    \A b \in Bot : call[b].at = "compare" /\ ~call[b].late => status[call[b].id] = "approved"

(* What is decided stays decided.                                           *)
LEMMA DecidedStays ==
    ASSUME Typed, [Next]_vars, NEW i \in Request, status[i] \in {"approved", "rejected"}
    PROVE  status'[i] = status[i]
<1>1. CASE UNCHANGED Desk!vars
  BY <1>1 DEF Desk!vars
<1>2. ASSUME NEW j \in Request, NEW r \in Role, Desk!Ask(j, r)
      PROVE  status'[i] = status[i]
  BY <1>2 DEF Desk!Ask, Typed, TypeOK
<1>3. ASSUME NEW j \in Request, Desk!Approve(j) \/ Desk!Reject(j)
      PROVE  status'[i] = status[i]
  BY <1>3 DEF Desk!Approve, Desk!Reject, Typed, TypeOK
<1>4. ASSUME NEW r \in Role, Desk!Hire(r) \/ Desk!Dismiss(r)
      PROVE  status'[i] = status[i]
  BY <1>4 DEF Desk!Hire, Desk!Dismiss
<1> QED
  BY <1>1, <1>2, <1>3, <1>4, DeskStep DEF Desk!Next

(* Only Approve sends a call to compare.                                    *)
LEMMA CompareIsEntered ==
    ASSUME Typed, [Next]_vars, NEW c \in Bot, call'[c].at = "compare"
    PROVE  call'[c] = call[c] \/ Approve(c)
<1>1. ASSUME NEW b \in Bot, NEW r \in Role, Add(b, r) \/ Remove(b, r)
      PROVE  call'[c] = call[c]
  BY <1>1 DEF Add, Remove, Goto, Typed, TypeOK
<1>2. ASSUME NEW b \in Bot, ListPending(b)
      PROVE  call'[c] = call[c]
  <2>1. call'[b] = IdleCall \/ call'[b] = [at |-> "settle", ids |-> PendingFor(call[b].role)]
    BY <1>2 DEF ListPending, Goto, Typed, TypeOK
  <2>2. call'[b].at # "compare"
    BY <2>1 DEF IdleCall
  <2> QED
    BY <1>2, <2>2 DEF ListPending, Goto, Typed, TypeOK
<1>3. ASSUME NEW b \in Bot, Settle(b)
      PROVE  call'[c] = call[c]
  <2>1. PICK i \in call[b].ids :
          Goto(b, IF call[b].ids = {i} THEN IdleCall ELSE [call[b] EXCEPT !.ids = @ \ {i}])
    BY <1>3 DEF Settle
  <2>2. call[b] \in [at : {"settle"}, ids : SUBSET Request]
    BY <1>3 DEF Settle, Typed, TypeOK, Call, IdleCall
  <2>3. call'[b].at # "compare"
    BY <2>1, <2>2 DEF Goto, IdleCall, Typed, TypeOK
  <2> QED
    BY <2>1, <2>3 DEF Goto, Typed, TypeOK
<1>4. ASSUME NEW b \in Bot, NEW i \in Request, NEW word \in {"approve", "reject"},
             BeginDecision(b, i, word)
      PROVE  call'[c] = call[c]
  <2>1. \/ call' = call
        \/ \E next \in [at : {"decide"}, id : Request, word : {"approve", "reject"},
                        before : SUBSET Role] : call' = [call EXCEPT ![b] = next]
    <3> DEFINE before == IF word = "approve" THEN roster ELSE {}
    <3>1. before \in SUBSET Role
      BY DEF Typed, TypeOK
    <3>2. \/ call' = call
          \/ Goto(b, [at |-> "decide", id |-> i, word |-> word, before |-> before])
      BY <1>4 DEF BeginDecision
    <3> HIDE DEF before
    <3> QED
      BY <3>1, <3>2 DEF Goto
  <2> QED
    BY <2>1 DEF Typed, TypeOK
<1>5. ASSUME NEW b \in Bot, Reject(b) \/ Compare(b) \/ CutShort(b)
      PROVE  call'[c] = call[c]
  <2>1. call' = [call EXCEPT ![b] = IdleCall]
    BY <1>5 DEF Reject, Compare, CutShort, Goto
  <2> QED
    BY <2>1 DEF IdleCall, Typed, TypeOK
<1>6. ASSUME NEW b \in Bot, Approve(b)
      PROVE  call'[c] = call[c] \/ Approve(c)
  BY <1>6 DEF Approve, Goto, Typed, TypeOK
<1>7. ASSUME \/ UNCHANGED vars
             \/ \E hints \in SUBSET Role : BeginHiring(hints)
             \/ \E r \in Role : AskFor(r) \/ HireHinted(r) \/ SkipHinted(r)
             \/ EndHiring \/ HiringCutShort
      PROVE  call' = call
  BY <1>7 DEF vars, BeginHiring, AskFor, HireHinted, SkipHinted, EndHiring, HiringCutShort
<1> QED
  BY <1>1, <1>2, <1>3, <1>4, <1>5, <1>6, <1>7 DEF Next, Continue

LEMMA ComparesApprovedStep ==
    ASSUME Typed, ComparesApproved, [Next]_vars
    PROVE  ComparesApproved'
<1> SUFFICES ASSUME NEW c \in Bot, call'[c].at = "compare", ~call'[c].late
             PROVE  status'[call'[c].id] = "approved"
  BY DEF ComparesApproved
<1>1. CASE call'[c] = call[c]
  <2>1. call[c].id \in Request /\ status[call[c].id] = "approved"
    BY <1>1 DEF ComparesApproved, Typed, CallsKnown
  <2> QED
    BY <1>1, <2>1, DecidedStays
<1>2. CASE Approve(c)
  <2>1. call'[c].id = call[c].id /\ status[call[c].id] = "pending"
    BY <1>2 DEF Approve, Goto, Typed, TypeOK
  <2>2. call[c].id \in Request
    BY <1>2 DEF Approve, Typed, CallsKnown
  <2> QED
    BY <1>2, <2>1, <2>2 DEF Approve, MarkApproved, Typed, TypeOK
<1> QED
  BY <1>1, <1>2, CompareIsEntered

LEMMA ReplyStep ==
    ASSUME Typed, ComparesApproved, ReplyIsTrueUnlessLate, [Next]_vars
    PROVE  ReplyIsTrueUnlessLate'
<1>1. ASSUME NEW b \in Bot, NEW i \in Request, NEW word \in {"approve", "reject"},
             BeginDecision(b, i, word)
      PROVE  ReplyIsTrueUnlessLate'
  BY <1>1 DEF BeginDecision, AnswerDecision, Silent, db, ReplyIsTrueUnlessLate
<1>2. ASSUME NEW b \in Bot, Reject(b)
      PROVE  ReplyIsTrueUnlessLate'
  <2>1. call[b].id \in Request
    BY <1>2 DEF Reject, Typed, CallsKnown
  <2>2. status[call[b].id] = "pending" => status'[call[b].id] = "rejected"
    BY <1>2, <2>1 DEF Reject, MarkRejected, Typed, TypeOK
  <2> QED
    BY <1>2, <2>2 DEF Reject, AnswerDecision, ReplyIsTrueUnlessLate
<1>3. ASSUME NEW b \in Bot, Compare(b)
      PROVE  ReplyIsTrueUnlessLate'
  <2>1. PICK says \in {"approved", "error"} : AnswerDecision(call[b].id, says, call[b].late)
    BY <1>3 DEF Compare
  <2>2. ~call[b].late => status'[call[b].id] = "approved"
    BY <1>3 DEF Compare, ComparesApproved, db
  <2> QED
    BY <2>1, <2>2 DEF AnswerDecision, ReplyIsTrueUnlessLate
<1>4. ASSUME \/ \E b \in Bot : \/ \E r \in Role : Add(b, r) \/ Remove(b, r)
                               \/ ListPending(b) \/ Settle(b) \/ Approve(b) \/ CutShort(b)
             \/ \E r \in Role : AskFor(r) \/ HireHinted(r) \/ SkipHinted(r)
      PROVE  ReplyIsTrueUnlessLate'
  BY <1>4 DEF Add, Remove, ListPending, Settle, Approve, CutShort, AskFor, HireHinted,
     SkipHinted, Silent, ReplyIsTrueUnlessLate
<1>5. ASSUME \/ \E hints \in SUBSET Role : BeginHiring(hints)
             \/ EndHiring \/ HiringCutShort
      PROVE  ReplyIsTrueUnlessLate'
  <2>1. told' = None \/ told'.of = "hiring"
    BY <1>5 DEF BeginHiring, EndHiring, HiringCutShort, AnswerHiring, Silent
  <2> QED
    BY <2>1 DEF ReplyIsTrueUnlessLate
<1>6. CASE UNCHANGED vars
  BY <1>6 DEF vars, db, ReplyIsTrueUnlessLate
<1> QED
  BY <1>1, <1>2, <1>3, <1>4, <1>5, <1>6 DEF Next, Continue

(* A decision is answered with the state of its request, unless another fell  *)
(* between its read and its write (apply_decision).                          *)
THEOREM ReplyIsTrueUnlessLateHolds == Spec => []ReplyIsTrueUnlessLate
<1>1. Init => ComparesApproved /\ ReplyIsTrueUnlessLate
  BY DEF Init, IdleCall, ComparesApproved, ReplyIsTrueUnlessLate
<1>2. Typed /\ ComparesApproved /\ [Next]_vars => ComparesApproved'
  BY ComparesApprovedStep
<1>3. Typed /\ ComparesApproved /\ ReplyIsTrueUnlessLate /\ [Next]_vars => ReplyIsTrueUnlessLate'
  BY ReplyStep
<1> QED
  BY <1>1, <1>2, <1>3, TypedHolds, PTL DEF Spec

-----------------------------------------------------------------------------
(* No question is left behind.                                             *)

(* Without the policy nobody asks, so a hint that hires leaves no question.  *)
AskedByPolicy == ~needsApproval => \A i \in Request : status[i] # "pending"

Tracked(i) == i \in stranded \/ \E b \in Bot : Reconciles(b, i)

LEMMA AskedByPolicyStep ==
    ASSUME Typed, AskedByPolicy, [Next]_vars
    PROVE  AskedByPolicy'
<1>1. ASSUME NEW r \in Role, AskFor(r)
      PROVE  AskedByPolicy'
  BY <1>1 DEF AskFor, CreateRequest, AskedByPolicy
<1>2. ASSUME NEW j, MarkApproved(j) \/ MarkRejected(j)
      PROVE  AskedByPolicy'
  BY <1>2 DEF MarkApproved, MarkRejected, AskedByPolicy, Typed, TypeOK
<1>3. ASSUME NEW b \in Bot, Settle(b) \/ Reject(b) \/ Approve(b)
      PROVE  AskedByPolicy'
  BY <1>2, <1>3 DEF Settle, Reject, Approve
<1>4. ASSUME UNCHANGED <<needsApproval, status>>
      PROVE  AskedByPolicy'
  BY <1>4 DEF AskedByPolicy
<1>5. ASSUME \/ \E b \in Bot : \/ \E r \in Role : Add(b, r) \/ Remove(b, r)
                               \/ \E i \in Request : \/ BeginDecision(b, i, "approve")
                                                     \/ BeginDecision(b, i, "reject")
                               \/ ListPending(b) \/ Compare(b) \/ CutShort(b)
             \/ \E hints \in SUBSET Role : BeginHiring(hints)
             \/ \E r \in Role : HireHinted(r) \/ SkipHinted(r)
             \/ EndHiring \/ HiringCutShort \/ UNCHANGED vars
      PROVE  UNCHANGED <<needsApproval, status>>
  BY <1>5 DEF Add, Remove, BeginDecision, ListPending, Compare, CutShort, BeginHiring,
     HireHinted, SkipHinted, EndHiring, HiringCutShort, vars, db
<1> QED
  BY <1>1, <1>3, <1>4, <1>5 DEF Next, Continue

(* A question about a role of the team was open before the step: one is only  *)
(* asked about an absent role.                                               *)
LEMMA WasPending ==
    ASSUME Typed, [Next]_vars, NEW i \in Request, status'[i] = "pending", about'[i] \in roster'
    PROVE  status[i] = "pending" /\ about'[i] = about[i]
<1>1. CASE UNCHANGED Desk!vars
  BY <1>1 DEF Desk!vars
<1>2. ASSUME NEW j \in Request, NEW r \in Role, Desk!Ask(j, r)
      PROVE  status[i] = "pending" /\ about'[i] = about[i]
  BY <1>2 DEF Desk!Ask, Typed, TypeOK
<1>3. ASSUME NEW j \in Request, Desk!Approve(j) \/ Desk!Reject(j)
      PROVE  status[i] = "pending" /\ about'[i] = about[i]
  BY <1>3 DEF Desk!Approve, Desk!Reject, Typed, TypeOK
<1>4. ASSUME NEW r \in Role, Desk!Hire(r) \/ Desk!Dismiss(r)
      PROVE  status[i] = "pending" /\ about'[i] = about[i]
  BY <1>4 DEF Desk!Hire, Desk!Dismiss
<1> QED
  BY <1>1, <1>2, <1>3, <1>4, DeskStep DEF Desk!Next

(* Its role was there before, or an add has just brought it.                 *)
LEMMA WasOnTeam ==
    ASSUME Typed, OnePendingPerRole, AskedByPolicy, [Next]_vars,
           NEW i \in Request, status'[i] = "pending", about'[i] \in roster'
    PROVE  about[i] \in roster \/ \E b \in Bot : Add(b, about[i])
<1>0. status[i] = "pending" /\ about'[i] = about[i]
  BY WasPending
<1>1. ASSUME NEW b \in Bot, NEW r \in Role, Add(b, r) \/ Remove(b, r)
      PROVE  about[i] \in roster \/ Add(b, about[i])
  BY <1>0, <1>1 DEF Add, Remove
<1>2. ASSUME NEW j \in Request, MarkApproved(j)
      PROVE  about[i] \in roster
  BY <1>0, <1>2 DEF MarkApproved, OnePendingPerRole, Typed, TypeOK
<1>3. ASSUME NEW b \in Bot, Settle(b) \/ Approve(b)
      PROVE  about[i] \in roster
  BY <1>2, <1>3 DEF Settle, Approve, Typed, CallsKnown
<1>4. ASSUME NEW r \in Role, HireHinted(r)
      PROVE  FALSE
  BY <1>0, <1>4 DEF HireHinted, AskedByPolicy
<1>5. ASSUME \/ \E b \in Bot : \/ \E j \in Request : \/ BeginDecision(b, j, "approve")
                                                     \/ BeginDecision(b, j, "reject")
                               \/ ListPending(b) \/ Reject(b) \/ Compare(b) \/ CutShort(b)
             \/ \E hints \in SUBSET Role : BeginHiring(hints)
             \/ \E r \in Role : AskFor(r) \/ SkipHinted(r)
             \/ EndHiring \/ HiringCutShort \/ UNCHANGED vars
      PROVE  roster' = roster
  BY <1>5 DEF BeginDecision, ListPending, Reject, MarkRejected, Compare, CutShort, BeginHiring,
     AskFor, CreateRequest, SkipHinted, EndHiring, HiringCutShort, vars, db
<1> QED
  BY <1>0, <1>1, <1>3, <1>4, <1>5 DEF Next, Continue

(* A request stays in the hands of who is to settle it until it is decided.  *)
LEMMA StaysTracked ==
    ASSUME Typed, [Next]_vars, NEW i \in Request, Tracked(i), status[i] = "pending",
           status'[i] = "pending", about'[i] = about[i]
    PROVE  Tracked(i)'
<1>1. ASSUME UNCHANGED <<call, stranded>>
      PROVE  Tracked(i)'
  BY <1>1 DEF Tracked, Reconciles
<1>2. ASSUME NEW c \in Bot, call[c] = IdleCall, UNCHANGED stranded,
             \A b \in Bot : b # c => call'[b] = call[b]
      PROVE  Tracked(i)'
  <2>1. ~Reconciles(c, i)
    BY <1>2 DEF Reconciles, IdleCall
  <2> QED
    BY <1>2, <2>1 DEF Tracked, Reconciles
<1>3. ASSUME NEW c \in Bot, NEW r \in Role, Add(c, r)
      PROVE  Tracked(i)'
  BY <1>2, <1>3 DEF Add, Goto, Typed, TypeOK
<1>4. ASSUME NEW c \in Bot, NEW j \in Request, NEW word \in {"approve", "reject"},
             BeginDecision(c, j, word)
      PROVE  Tracked(i)'
  BY <1>2, <1>4 DEF BeginDecision, Goto, Typed, TypeOK
<1>5. ASSUME NEW c \in Bot, ListPending(c)
      PROVE  Tracked(i)'
  <2>1. CASE Reconciles(c, i)
    <3>1. i \in PendingFor(call[c].role)
      BY <1>5, <2>1 DEF Reconciles, ListPending, PendingFor
    <3>2. call'[c] = [at |-> "settle", ids |-> PendingFor(call[c].role)]
      BY <1>5, <3>1 DEF ListPending, Goto, Typed, TypeOK
    <3> QED
      BY <3>1, <3>2 DEF Tracked, Reconciles
  <2>2. CASE ~Reconciles(c, i)
    BY <1>5, <2>2 DEF ListPending, Goto, Tracked, Reconciles, Typed, TypeOK
  <2> QED
    BY <2>1, <2>2
<1>6. ASSUME NEW c \in Bot, Settle(c)
      PROVE  Tracked(i)'
  <2>1. PICK j \in call[c].ids :
          /\ MarkApproved(j)
          /\ stranded' = stranded \ {j}
          /\ Goto(c, IF call[c].ids = {j} THEN IdleCall ELSE [call[c] EXCEPT !.ids = @ \ {j}])
    BY <1>6 DEF Settle
  <2>2. i # j
    BY <2>1 DEF MarkApproved, Typed, TypeOK
  <2>3. CASE Reconciles(c, i)
    <3>1. i \in call[c].ids /\ call[c].at = "settle" /\ call[c].ids # {j}
      BY <1>6, <2>2, <2>3 DEF Reconciles, Settle
    <3>2. call[c] \in [at : {"settle"}, ids : SUBSET Request]
      BY <3>1 DEF Typed, TypeOK, Call, IdleCall
    <3>3. call'[c].at = "settle" /\ i \in call'[c].ids
      BY <2>1, <2>2, <3>1, <3>2 DEF Goto, Typed, TypeOK
    <3> QED
      BY <3>3 DEF Tracked, Reconciles
  <2>4. CASE ~Reconciles(c, i)
    BY <2>1, <2>2, <2>4 DEF Goto, Tracked, Reconciles, Typed, TypeOK
  <2> QED
    BY <2>3, <2>4
<1>7. ASSUME NEW c \in Bot, Reject(c) \/ Approve(c) \/ Compare(c)
      PROVE  Tracked(i)'
  <2>1. i \in stranded => i \in stranded'
    BY <1>7 DEF Reject, MarkRejected, Approve, MarkApproved, Compare, Typed, TypeOK
  <2>2. \A b \in Bot : Reconciles(b, i) => b # c /\ call'[b] = call[b]
    BY <1>7 DEF Reject, Approve, Compare, Reconciles, Goto, Typed, TypeOK
  <2> QED
    BY <2>1, <2>2 DEF Tracked, Reconciles
<1>8. ASSUME NEW c \in Bot, CutShort(c)
      PROVE  Tracked(i)'
  <2>1. CASE Reconciles(c, i)
    BY <1>8, <2>1 DEF CutShort, Reconciles, PendingFor, Tracked
  <2>2. CASE ~Reconciles(c, i)
    BY <1>8, <2>2 DEF CutShort, Goto, Tracked, Reconciles, Typed, TypeOK
  <2> QED
    BY <2>1, <2>2
<1>9. ASSUME \/ \E b \in Bot, r \in Role : Remove(b, r)
             \/ \E hints \in SUBSET Role : BeginHiring(hints)
             \/ \E r \in Role : AskFor(r) \/ HireHinted(r) \/ SkipHinted(r)
             \/ EndHiring \/ HiringCutShort \/ UNCHANGED vars
      PROVE  UNCHANGED <<call, stranded>>
  BY <1>9 DEF Remove, BeginHiring, AskFor, HireHinted, SkipHinted, EndHiring, HiringCutShort,
     vars
<1> QED
  BY <1>1, <1>3, <1>4, <1>5, <1>6, <1>7, <1>8, <1>9 DEF Next, Continue

LEMMA NoneLeftBehindStep ==
    ASSUME Typed, OnePendingPerRole, AskedByPolicy, NoneLeftBehind, [Next]_vars
    PROVE  NoneLeftBehind'
<1> SUFFICES ASSUME NEW i \in Request, status'[i] = "pending", about'[i] \in roster'
             PROVE  Tracked(i)'
  BY DEF NoneLeftBehind, Tracked
<1>1. status[i] = "pending" /\ about'[i] = about[i]
  BY WasPending
<1>2. CASE about[i] \in roster
  <2>1. Tracked(i)
    BY <1>1, <1>2 DEF NoneLeftBehind, Tracked
  <2> QED
    BY <1>1, <2>1, StaysTracked
<1>3. ASSUME NEW b \in Bot, Add(b, about[i])
      PROVE  Tracked(i)'
  BY <1>1, <1>3 DEF Add, Goto, Tracked, Reconciles, Typed, TypeOK
<1> QED
  BY <1>2, <1>3, WasOnTeam

(* A question about a role that is on the team is in the hands of the add     *)
(* that brought the role, or of nobody because that add was cut short         *)
(* (_reconcile_matching_pending_requests).                                    *)
THEOREM NoneLeftBehindHolds == Spec => []NoneLeftBehind
<1>1. Init => AskedByPolicy /\ NoneLeftBehind
  BY DEF Init, AskedByPolicy, NoneLeftBehind
<1>2. Typed /\ AskedByPolicy /\ [Next]_vars => AskedByPolicy'
  BY AskedByPolicyStep
<1>3. Typed /\ OnePendingPerRole /\ AskedByPolicy /\ NoneLeftBehind /\ [Next]_vars
        => NoneLeftBehind'
  BY NoneLeftBehindStep
<1> QED
  BY <1>1, <1>2, <1>3, TypedHolds, OnePendingPerRoleHolds, PTL DEF Spec

(* However commands and hiring interleave, the open questions are about       *)
(* different roles, each of them absent or about to be settled.              *)
THEOREM OpenQuestionsAreTidyHolds == Spec => []OpenQuestionsAreTidy
<1>1. OnePendingPerRole /\ NoneLeftBehind => OpenQuestionsAreTidy
  BY DEF OpenQuestionsAreTidy
<1> QED
  BY <1>1, OnePendingPerRoleHolds, NoneLeftBehindHolds, PTL
=============================================================================
