---------------------------- MODULE Orchestrator ----------------------------
(***************************************************************************)
(* One Orchestrator.run of core/orchestrator.py: the FSM driver, the       *)
(* handlers of its eight working states, the part of PipelineMemory they   *)
(* write, the retry, loop, call and cost limits, and the runtime           *)
(* validation hook called in QA.                                           *)
(*                                                                         *)
(* An action is one iteration of the loop of _drive: the limits are        *)
(* checked, the handler of the current state invokes its agent and decides.*)
(* An agent is an LLM: what it answers is an input of the action, up to    *)
(* the distinctions the handler makes.  Code is a member of Code; a review *)
(* is a verdict together with the code it is about.                        *)
(***************************************************************************)
EXTENDS Integers, Fsm

CONSTANTS
    Code,            \* what the writer and the fixer can produce
    None,            \* "no value" (Python's None)
    Doc,             \* a stored artifact that is not about any code
    CallCost,        \* what one agent call can cost
    MaxCallCost,     \* an upper bound of CallCost
    Budget,          \* cost_budget_usd
    BudgetEnforced,  \* budget and observability given, and the sink readable
    MaxTotalSteps, MaxTotalAgentCalls,
    MaxReviewFixLoops, MaxQaFixLoops, StateMaxRetry

ASSUME OrchestratorAssumption ==
    /\ None \notin Code /\ Doc \notin Code /\ None # Doc
    /\ MaxCallCost \in Nat
    /\ CallCost \subseteq 0..MaxCallCost
    /\ 0 \in CallCost
    /\ Budget \in Nat
    /\ BudgetEnforced \in BOOLEAN
    /\ MaxTotalSteps \in Nat /\ MaxTotalAgentCalls \in Nat
    /\ MaxReviewFixLoops \in Nat /\ MaxQaFixLoops \in Nat
    /\ StateMaxRetry \in Nat

(* The artifact kinds the pipeline writes (VALID_ARTIFACT_KINDS without the *)
(* three coordinator kinds, which no handler reads or writes).              *)
ArtifactKind == {"planning", "pm", "architect", "writer", "review", "test",
                 "qa", "fix"}

VARIABLES
    state,         \* the local variable of _drive
    steps,         \* len(memory.transitions)
    calls,         \* len(memory.agent_calls)
    spent,         \* total cost the observability has recorded for the task
    retry,         \* scratch.state_retry[state]
    loops,         \* memory.loop_counters
    artifact,      \* memory.artifacts: the code each kind holds or is about
    latestCode,    \* scratch.latest_code
    latestReview,  \* scratch.latest_review
    reason         \* failure_reason, up to its prefix

vars == <<state, steps, calls, spent, retry, loops, artifact, latestCode,
          latestReview, reason>>

Review == [verdict : {"APPROVED", "REJECTED"}, about : Code]

Reason == {"none", "max_total_steps", "max_total_agent_calls", "cost_budget",
           "agent_exception", "state_retry", "blocked", "no_for_fixer",
           "loop_exceeded", "runtime_validator"}

TypeOK ==
    /\ state \in State
    /\ steps \in Nat /\ calls \in Nat /\ spent \in Nat /\ retry \in Nat
    /\ loops \in [{"review_fix", "qa_fix"} -> Nat]
    /\ artifact \in [ArtifactKind -> Code \cup {None, Doc}]
    /\ latestCode \in Code \cup {None}
    /\ latestReview \in Review \cup {None}
    /\ reason \in Reason

Init ==
    /\ state = "IDLE"
    /\ steps = 0 /\ calls = 0 /\ spent = 0 /\ retry = 0
    /\ loops = [l \in {"review_fix", "qa_fix"} |-> 0]
    /\ artifact = [k \in ArtifactKind |-> None]
    /\ latestCode = None
    /\ latestReview = None
    /\ reason = "none"

-----------------------------------------------------------------------------
(* PipelineMemory and the driver's bookkeeping.                            *)

(* record_transition followed by entering the state.                       *)
MoveTo(t) ==
    /\ CanTransition(state, t)
    /\ state' = t
    /\ steps' = steps + 1
    /\ retry' = 0
    /\ reason' = reason

(* _terminate: the transition it records is always allowed (the lemma      *)
(* TerminalAllowed), so the branch for the other case is left out.         *)
Terminate(why) ==
    /\ CanTransition(state, TerminalFor(state))
    /\ state' = TerminalFor(state)
    /\ steps' = steps + 1
    /\ reason' = why

Fails(why) == Terminate(why) /\ UNCHANGED retry

(* A handler that decided nothing: the state is tried again, StateMaxRetry *)
(* times at most in one visit.                                             *)
NoDecision ==
    /\ retry' = retry + 1
    /\ \/ /\ retry < StateMaxRetry
          /\ UNCHANGED <<state, steps, reason>>
       \/ /\ retry >= StateMaxRetry
          /\ Terminate("state_retry")

(* The artifact of a kind is set once: only the first answer is stored.    *)
StoreFirst(kind, value) ==
    artifact' = IF artifact[kind] = None
                THEN [artifact EXCEPT ![kind] = value]
                ELSE artifact

(* increment_loop and the decision taken on its new value.                 *)
Repair(loop, max) ==
    /\ loops' = [loops EXCEPT ![loop] = @ + 1]
    /\ \/ /\ loops[loop] < max
          /\ MoveTo("FIX")
       \/ /\ loops[loop] >= max
          /\ Fails("loop_exceeded")

-----------------------------------------------------------------------------
(* The loop of _drive: limits first, then the handler of the state.        *)

OverSteps  == steps > MaxTotalSteps
OverCalls  == calls > MaxTotalAgentCalls
OverBudget == BudgetEnforced /\ spent > Budget

(* Mutant of WithinLimits: the cost budget is not consulted.               *)
WithinCountLimits == ~OverSteps /\ ~OverCalls

WithinLimits == ~OverSteps /\ ~OverCalls /\ ~OverBudget

Running == state # "IDLE" /\ ~IsTerminal(state)

InState(s) == state = s /\ WithinLimits

(* _check_global_limits: the first limit that is exceeded gives the reason. *)
LimitReason ==
    IF OverSteps THEN "max_total_steps"
    ELSE IF OverCalls THEN "max_total_agent_calls"
    ELSE "cost_budget"

StopAtLimit ==
    /\ Running /\ ~WithinLimits
    /\ Fails(LimitReason)
    /\ UNCHANGED <<calls, spent, loops, artifact, latestCode, latestReview>>

(* run: the validators and new_task accepted the task.                     *)
Start ==
    /\ state = "IDLE"
    /\ MoveTo("PLANNING")
    /\ UNCHANGED <<calls, spent, loops, artifact, latestCode, latestReview>>

(* _invoke: the call is recorded before it is made, its cost after it; a    *)
(* call that raises is recorded with no cost.                               *)
Invoke == calls' = calls + 1 /\ \E c \in CallCost : spent' = spent + c

AgentRaises ==
    /\ Running /\ WithinLimits
    /\ calls' = calls + 1
    /\ Fails("agent_exception")
    /\ UNCHANGED <<spent, loops, artifact, latestCode, latestReview>>

(* An empty answer, or one without a JSON object where one is due.          *)
UnusableAnswer ==
    /\ Running /\ WithinLimits
    /\ Invoke
    /\ NoDecision
    /\ UNCHANGED <<loops, artifact, latestCode, latestReview>>

(* The writer, the tester or the fixer answers "BLOCKED: ...".             *)
AgentBlocks ==
    /\ state \in {"WRITER", "TEST", "FIX"} /\ WithinLimits
    /\ Invoke
    /\ Fails("blocked")
    /\ UNCHANGED <<loops, artifact, latestCode, latestReview>>

-----------------------------------------------------------------------------
(* The handlers, for a usable answer.                                      *)

(* The three handlers that only produce a document.                        *)
Document(s, kind, next) ==
    /\ InState(s)
    /\ Invoke
    /\ StoreFirst(kind, Doc)
    /\ MoveTo(next)
    /\ UNCHANGED <<loops, latestCode, latestReview>>

HandlePlanning  == Document("PLANNING", "planning", "PM")
HandlePm        == Document("PM", "pm", "ARCHITECT")
HandleArchitect == Document("ARCHITECT", "architect", "WRITER")

HandleWriter(code) ==
    /\ InState("WRITER")
    /\ Invoke
    /\ StoreFirst("writer", code)
    /\ MoveTo("REVIEW")
    /\ latestCode' = code
    /\ UNCHANGED <<loops, latestReview>>

(* The code the later agents are given.                                    *)
CodeInHand == IF latestCode # None THEN latestCode ELSE artifact["writer"]

Verdict(v) == [verdict |-> v, about |-> CodeInHand]

(* The part of _handle_review common to every parsed answer.               *)
ReviewAnswer ==
    /\ InState("REVIEW")
    /\ Invoke
    /\ StoreFirst("review", CodeInHand)
    /\ UNCHANGED latestCode

(* Mutant of ReviewApproves: the first review is kept, as the first         *)
(* artifact is.                                                             *)
ReviewApprovesOnce ==
    /\ ReviewAnswer
    /\ MoveTo("TEST")
    /\ latestReview' = IF latestReview = None THEN Verdict("APPROVED") ELSE latestReview
    /\ UNCHANGED loops

ReviewApproves ==
    /\ ReviewAnswer
    /\ MoveTo("TEST")
    /\ latestReview' = Verdict("APPROVED")
    /\ UNCHANGED loops

ReviewRejects ==
    /\ ReviewAnswer
    /\ Repair("review_fix", MaxReviewFixLoops)
    /\ latestReview' = IF state' = "FIX" THEN Verdict("REJECTED") ELSE latestReview

ReviewRejectsBlankly ==
    /\ ReviewAnswer
    /\ Fails("no_for_fixer")
    /\ UNCHANGED <<loops, latestReview>>

ReviewUnknownVerdict ==
    /\ ReviewAnswer
    /\ NoDecision
    /\ UNCHANGED <<loops, latestReview>>

HandleReview == \/ ReviewApproves
                \/ ReviewRejects
                \/ ReviewRejectsBlankly
                \/ ReviewUnknownVerdict

HandleTest ==
    /\ InState("TEST")
    /\ Invoke
    /\ StoreFirst("test", CodeInHand)
    /\ MoveTo("QA")
    /\ UNCHANGED <<loops, latestCode, latestReview>>

(* The part of _handle_qa common to every parsed answer.                   *)
QaAnswer ==
    /\ InState("QA")
    /\ Invoke
    /\ StoreFirst("qa", CodeInHand)
    /\ UNCHANGED latestCode

(* PASS, and the runtime hook is absent, has no report, or reports ok.     *)
QaPasses ==
    /\ QaAnswer
    /\ MoveTo("SUCCESS")
    /\ UNCHANGED <<loops, latestReview>>

(* PASS, and the hook raises or returns an object without a verdict.       *)
RuntimeBreaks ==
    /\ QaAnswer
    /\ Fails("runtime_validator")
    /\ UNCHANGED <<loops, latestReview>>

(* PASS, and the hook reports a failure of `checked`: a review that rejects *)
(* it is synthesized and replaces the reviewer's.                           *)
RuntimeRejects(checked) ==
    /\ QaAnswer
    /\ Repair("qa_fix", MaxQaFixLoops)
    /\ latestReview' = IF state' = "FIX"
                       THEN [verdict |-> "REJECTED", about |-> checked]
                       ELSE latestReview

(* Mutant of QaFails: the repair loop is entered without being counted.     *)
QaFailsUncounted ==
    /\ QaAnswer
    /\ MoveTo("FIX")
    /\ UNCHANGED <<loops, latestReview>>

(* FAIL with instructions: the run goes to FIX, the review stays.          *)
QaFails ==
    /\ QaAnswer
    /\ Repair("qa_fix", MaxQaFixLoops)
    /\ UNCHANGED latestReview

QaFailsBlankly ==
    /\ QaAnswer
    /\ Fails("no_for_fixer")
    /\ UNCHANGED <<loops, latestReview>>

QaUnknownVerdict ==
    /\ QaAnswer
    /\ NoDecision
    /\ UNCHANGED <<loops, latestReview>>

(* The fixer is given the code in hand and the for_fixer of latestReview.  *)
HandleFix(code) ==
    /\ InState("FIX")
    /\ Invoke
    /\ StoreFirst("fix", code)
    /\ MoveTo("REVIEW")
    /\ latestCode' = code
    /\ UNCHANGED <<loops, latestReview>>

-----------------------------------------------------------------------------
(* Everything but the outcomes of QA that involve the runtime hook.        *)
AgentStep ==
    \/ AgentRaises \/ UnusableAnswer \/ AgentBlocks
    \/ HandlePlanning \/ HandlePm \/ HandleArchitect
    \/ \E code \in Code : HandleWriter(code)
    \/ HandleReview
    \/ HandleTest
    \/ QaFails \/ QaFailsBlankly \/ QaUnknownVerdict
    \/ \E code \in Code : HandleFix(code)

(* Here the hook is arbitrary: it may report on any code it likes.         *)
RuntimeStep ==
    \/ QaPasses
    \/ RuntimeBreaks
    \/ \E checked \in Code : RuntimeRejects(checked)

Next == Start \/ StopAtLimit \/ AgentStep \/ RuntimeStep

(* Every agent call returns or raises (the LLM client has a timeout), so   *)
(* the thread that runs _drive keeps going.                                *)
Spec == Init /\ [][Next]_vars /\ WF_vars(Next)

-----------------------------------------------------------------------------
(* Properties.                                                             *)

(* How many transitions lead to a state whose run has made r review repairs *)
(* and q QA repairs: five up to the first review, two more for each review  *)
(* repair (FIX, REVIEW) and four more for each QA repair (FIX, REVIEW,      *)
(* TEST, QA).                                                               *)
StepsTo(s, r, q) ==
    CASE s = "IDLE"      -> 0
      [] s = "PLANNING"  -> 1
      [] s = "PM"        -> 2
      [] s = "ARCHITECT" -> 3
      [] s = "WRITER"    -> 4
      [] s = "REVIEW"    -> 5 + 2 * r + 4 * q
      [] s = "TEST"      -> 6 + 2 * r + 4 * q
      [] s = "QA"        -> 7 + 2 * r + 4 * q
      [] s = "FIX"       -> 4 + 2 * r + 4 * q
      [] OTHER           -> 0

(* A live run has made no more repairs than its loop limits allow, and its  *)
(* number of transitions follows from its state and its repairs alone: the  *)
(* repair loops cannot leak steps.                                          *)
StepAccounting ==
    ~IsTerminal(state) =>
        /\ loops["review_fix"] <= MaxReviewFixLoops
        /\ loops["qa_fix"] <= MaxQaFixLoops
        /\ steps = StepsTo(state, loops["review_fix"], loops["qa_fix"])

(* The last transition a run can make, with every repair used.              *)
StepCeiling == 8 + 2 * MaxReviewFixLoops + 4 * MaxQaFixLoops

(* The global step limit of core/fsm.py (25) is never what stops a run: the *)
(* two loop limits and the shape of the FSM bound it first.                 *)
StepLimitIsSlack == steps <= StepCeiling /\ reason # "max_total_steps"

(* The check of _drive comes before a handler, so a limit is overrun by at  *)
(* most the one call that crosses it, never by a second one.                *)
OverrunByOneCall ==
    /\ calls <= MaxTotalAgentCalls + 1
    /\ BudgetEnforced => spent <= Budget + MaxCallCost

(* The limits of core/fsm.py as a caller sees them: steps are bounded by the *)
(* loop limits alone, calls and money by their own limit and one call more.  *)
LimitsHold == StepLimitIsSlack /\ OverrunByOneCall

(* Past REVIEW, the last review is an approval of exactly the code in hand: *)
(* after any FIX the reviewer has seen the new code before the tester, QA   *)
(* or the caller does.                                                      *)
ApprovedBeforeUse ==
    state \in {"TEST", "QA", "SUCCESS"} =>
        /\ latestReview = [verdict |-> "APPROVED", about |-> latestCode]
        /\ latestCode # None

(* The audit trail of PipelineMemory: no step rewrites or drops an artifact *)
(* an earlier one stored, however many times the loops come back to it.     *)
ArtifactsImmutable ==
    [][\A k \in ArtifactKind : artifact[k] # None => artifact'[k] = artifact[k]]_vars

(* The run implements PipelinePromise.  A repair counts when it is granted:  *)
(* the loop counter itself goes one beyond its limit when one is refused.   *)
Min2(a, b) == IF a <= b THEN a ELSE b

Repairs == Min2(loops["review_fix"], MaxReviewFixLoops)
           + Min2(loops["qa_fix"], MaxQaFixLoops)

Vetted == /\ state \in {"TEST", "QA", "SUCCESS"}
          /\ latestReview = [verdict |-> "APPROVED", about |-> latestCode]

Outcome == IF IsTerminal(state) THEN state ELSE "running"

Promise == INSTANCE PipelinePromise WITH
    MaxRepairs <- MaxReviewFixLoops + MaxQaFixLoops,
    candidate  <- latestCode,
    vetted     <- Vetted,
    due        <- state = "FIX",
    repairs    <- Repairs,
    outcome    <- Outcome

(* Whatever the agents and the runtime hook answer, the run ends, delivers  *)
(* only vetted code, and rewrites it a bounded number of times.             *)
KeepsPromise == Promise!Spec
=============================================================================
