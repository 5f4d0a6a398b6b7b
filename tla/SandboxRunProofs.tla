-------------------------- MODULE SandboxRunProofs --------------------------
(***************************************************************************)
(* Theorems about Orchestrator and SandboxRun, for every value of their     *)
(* constants.  The pipeline comes first; inside a task's run it takes only  *)
(* its own steps, so what is proved of it carries over.                     *)
(***************************************************************************)
EXTENDS SandboxRun, TLAPS

USE OrchestratorAssumption

(* The transition table, state by state.                                   *)
LEMMA Table ==
    /\ \A t : CanTransition("IDLE", t) <=> t = "PLANNING"
    /\ \A t : CanTransition("PLANNING", t) <=> t \in {"PM", "BLOCKED"}
    /\ \A t : CanTransition("PM", t) <=> t \in {"ARCHITECT", "BLOCKED"}
    /\ \A t : CanTransition("ARCHITECT", t) <=> t \in {"WRITER", "BLOCKED"}
    /\ \A t : CanTransition("WRITER", t) <=> t \in {"REVIEW", "BLOCKED"}
    /\ \A t : CanTransition("REVIEW", t) <=> t \in {"TEST", "FIX", "FAIL"}
    /\ \A t : CanTransition("TEST", t) <=> t \in {"QA", "FIX", "FAIL"}
    /\ \A t : CanTransition("QA", t) <=> t \in {"SUCCESS", "FIX", "FAIL"}
    /\ \A t : CanTransition("FIX", t) <=> t \in {"REVIEW", "FAIL"}
BY DEF CanTransition, AllowedTransitions, State

(* _terminate always finds its transition allowed: no abnormal end of a     *)
(* live run leaves it in a state that is not terminal.                      *)
THEOREM TerminalAllowed ==
    \A s \in State \ (TerminalStates \cup {"IDLE"}) :
        /\ CanTransition(s, TerminalFor(s))
        /\ IsTerminal(TerminalFor(s))
BY Table DEF State, TerminalStates, TerminalFor, PrepStates, IsTerminal

-----------------------------------------------------------------------------
(* Type correctness.                                                       *)

LEMMA MoveToType ==
    ASSUME TypeOK, NEW t \in State, MoveTo(t)
    PROVE  state' \in State /\ steps' \in Nat /\ retry' \in Nat /\ reason' \in Reason
BY DEF MoveTo, TypeOK

LEMMA FailsType ==
    ASSUME TypeOK, NEW why \in Reason, Fails(why)
    PROVE  state' \in State /\ steps' \in Nat /\ retry' \in Nat /\ reason' \in Reason
BY DEF Fails, Terminate, TerminalFor, TypeOK, State

LEMMA NoDecisionType ==
    ASSUME TypeOK, NoDecision
    PROVE  state' \in State /\ steps' \in Nat /\ retry' \in Nat /\ reason' \in Reason
BY DEF NoDecision, Terminate, TerminalFor, TypeOK, State, Reason

LEMMA InvokeType ==
    ASSUME TypeOK, Invoke
    PROVE  calls' \in Nat /\ spent' \in Nat
BY DEF Invoke, TypeOK

LEMMA StoreFirstType ==
    ASSUME TypeOK, NEW kind \in ArtifactKind, NEW v \in Code \cup {None, Doc},
           StoreFirst(kind, v)
    PROVE  artifact' \in [ArtifactKind -> Code \cup {None, Doc}]
BY DEF StoreFirst, TypeOK

LEMMA RepairType ==
    ASSUME TypeOK, NEW l \in {"review_fix", "qa_fix"}, NEW max, Repair(l, max)
    PROVE  /\ state' \in State /\ steps' \in Nat /\ retry' \in Nat
           /\ reason' \in Reason
           /\ loops' \in [{"review_fix", "qa_fix"} -> Nat]
<1>1. loops' \in [{"review_fix", "qa_fix"} -> Nat]
  BY DEF Repair, TypeOK
<1>2. CASE MoveTo("FIX")
  BY <1>1, <1>2, MoveToType DEF State
<1>3. CASE Fails("loop_exceeded")
  BY <1>1, <1>3, FailsType DEF Reason
<1>4. QED BY <1>2, <1>3 DEF Repair

(* TypeOK is not inductive: a review is about the code in hand, which has   *)
(* to be there.  From REVIEW on it is.                                     *)
CodeExists ==
    state \in {"REVIEW", "TEST", "QA", "FIX", "SUCCESS"} => latestCode \in Code

TypeInv == TypeOK /\ CodeExists

LEMMA TypeInvInit == Init => TypeInv
BY DEF Init, TypeInv, TypeOK, CodeExists, State, Reason

(* Where the driver's three ways to leave a handler lead.                  *)
LEMMA FailsLeads ==
    ASSUME NEW why, Fails(why)
    PROVE  state' \in {"FAIL", "BLOCKED"}
BY DEF Fails, Terminate, TerminalFor

LEMMA NoDecisionLeads ==
    ASSUME NoDecision
    PROVE  state' = state \/ state' \in {"FAIL", "BLOCKED"}
BY DEF NoDecision, Terminate, TerminalFor

LEMMA RepairLeads ==
    ASSUME NEW l, NEW max, Repair(l, max)
    PROVE  state' \in {"FIX", "FAIL", "BLOCKED"}
BY FailsLeads DEF Repair, MoveTo

LEMMA ReviewAnswerType ==
    ASSUME TypeInv, ReviewAnswer
    PROVE  /\ calls' \in Nat /\ spent' \in Nat
           /\ artifact' \in [ArtifactKind -> Code \cup {None, Doc}]
           /\ latestCode' \in Code
           /\ CodeInHand \in Code
           /\ \A v \in {"APPROVED", "REJECTED"} : Verdict(v) \in Review
<1>1. latestCode \in Code /\ CodeInHand \in Code
  BY DEF TypeInv, CodeExists, ReviewAnswer, InState, CodeInHand
<1>2. artifact' \in [ArtifactKind -> Code \cup {None, Doc}]
  BY <1>1, StoreFirstType DEF TypeInv, ReviewAnswer, ArtifactKind
<1>3. QED
  BY <1>1, <1>2, InvokeType DEF TypeInv, ReviewAnswer, Verdict, Review

LEMMA QaAnswerType ==
    ASSUME TypeInv, QaAnswer
    PROVE  /\ calls' \in Nat /\ spent' \in Nat
           /\ artifact' \in [ArtifactKind -> Code \cup {None, Doc}]
           /\ latestCode' \in Code
<1>1. latestCode \in Code /\ CodeInHand \in Code
  BY DEF TypeInv, CodeExists, QaAnswer, InState, CodeInHand
<1>2. artifact' \in [ArtifactKind -> Code \cup {None, Doc}]
  BY <1>1, StoreFirstType DEF TypeInv, QaAnswer, ArtifactKind
<1>3. QED
  BY <1>1, <1>2, InvokeType DEF TypeInv, QaAnswer

(* Every action keeps the types, and the code in hand.                     *)
LEMMA TypeInvStep == TypeInv /\ [Next]_vars => TypeInv'
<1> SUFFICES ASSUME TypeInv, [Next]_vars PROVE TypeInv'
  OBVIOUS
<1> USE DEF TypeInv, CodeExists
<1>1. CASE Start
  BY <1>1, MoveToType DEF Start, MoveTo, TypeOK, State
<1>2. CASE StopAtLimit
  <2>1. LimitReason \in Reason
    BY DEF LimitReason, Reason
  <2>2. QED
    BY <1>2, <2>1, FailsType, FailsLeads DEF StopAtLimit, TypeOK
<1>3. CASE AgentRaises
  BY <1>3, FailsType, FailsLeads DEF AgentRaises, TypeOK, Reason
<1>4. CASE UnusableAnswer
  BY <1>4, NoDecisionType, NoDecisionLeads, InvokeType DEF UnusableAnswer, TypeOK
<1>5. CASE AgentBlocks
  BY <1>5, FailsType, FailsLeads, InvokeType DEF AgentBlocks, TypeOK, Reason
<1>6. ASSUME NEW s, NEW kind \in ArtifactKind, NEW next \in {"PM", "ARCHITECT", "WRITER"},
             Document(s, kind, next)
      PROVE  TypeInv'
  BY <1>6, MoveToType, InvokeType, StoreFirstType DEF Document, MoveTo, TypeOK, State
<1>7. CASE HandlePlanning \/ HandlePm \/ HandleArchitect
  BY <1>6, <1>7 DEF HandlePlanning, HandlePm, HandleArchitect, ArtifactKind
<1>8. ASSUME NEW code \in Code, HandleWriter(code) PROVE TypeInv'
  BY <1>8, MoveToType, InvokeType, StoreFirstType
     DEF HandleWriter, TypeOK, State, ArtifactKind
<1>9. CASE HandleReview
  <2> USE ReviewAnswerType
  <2>1. CASE ReviewApproves
    BY <2>1, MoveToType DEF ReviewApproves, MoveTo, TypeOK, State
  <2>2. CASE ReviewRejects
    BY <2>2, RepairType, RepairLeads DEF ReviewRejects, TypeOK
  <2>3. CASE ReviewRejectsBlankly
    BY <2>3, FailsType, FailsLeads DEF ReviewRejectsBlankly, TypeOK, Reason
  <2>4. CASE ReviewUnknownVerdict
    BY <2>4, NoDecisionType, NoDecisionLeads DEF ReviewUnknownVerdict, TypeOK
  <2>5. QED BY <1>9, <2>1, <2>2, <2>3, <2>4 DEF HandleReview
<1>10. CASE HandleTest
  <2>1. CodeInHand \in Code
    BY <1>10 DEF HandleTest, InState, CodeInHand
  <2>2. QED
    BY <1>10, <2>1, MoveToType, InvokeType, StoreFirstType
       DEF HandleTest, MoveTo, InState, TypeOK, State, ArtifactKind
<1>11. CASE QaPasses
  BY <1>11, QaAnswerType, MoveToType DEF QaPasses, TypeOK, State
<1>12. CASE RuntimeBreaks
  BY <1>12, QaAnswerType, FailsType, FailsLeads DEF RuntimeBreaks, TypeOK, Reason
<1>13. ASSUME NEW checked \in Code, RuntimeRejects(checked) PROVE TypeInv'
  BY <1>13, QaAnswerType, RepairType, RepairLeads DEF RuntimeRejects, TypeOK, Review
<1>14. CASE QaFails
  BY <1>14, QaAnswerType, RepairType, RepairLeads DEF QaFails, TypeOK
<1>15. CASE QaFailsBlankly
  BY <1>15, QaAnswerType, FailsType, FailsLeads DEF QaFailsBlankly, TypeOK, Reason
<1>16. CASE QaUnknownVerdict
  BY <1>16, QaAnswerType, NoDecisionType, NoDecisionLeads DEF QaUnknownVerdict, TypeOK
<1>17. ASSUME NEW code \in Code, HandleFix(code) PROVE TypeInv'
  BY <1>17, MoveToType, InvokeType, StoreFirstType
     DEF HandleFix, TypeOK, State, ArtifactKind
<1>18. CASE UNCHANGED vars
  BY <1>18 DEF vars, TypeOK
<1>19. QED
  BY <1>1, <1>2, <1>3, <1>4, <1>5, <1>7, <1>8, <1>9, <1>10, <1>11, <1>12, <1>13,
     <1>14, <1>15, <1>16, <1>17, <1>18
  DEF Next, AgentStep, RuntimeStep

(* Every reachable state of a run has its type.                            *)
THEOREM TypeCorrect == Spec => []TypeOK
<1>1. Spec => []TypeInv
  BY TypeInvInit, TypeInvStep, PTL DEF Spec
<1>2. TypeInv => TypeOK
  BY DEF TypeInv
<1>3. QED BY <1>1, <1>2, PTL

-----------------------------------------------------------------------------
(* Steps and repairs.  The invariant that carries StepAccounting adds that  *)
(* no repair is made before REVIEW, and bounds the steps of a finished run. *)

NoEarlyRepair ==
    state \in PrepStates => loops["review_fix"] = 0 /\ loops["qa_fix"] = 0

StepInv ==
    /\ NoEarlyRepair
    /\ StepAccounting
    /\ steps <= StepCeiling

(* A run that leaves the pipeline abnormally has one step left for it.     *)
LEMMA RoomToFail ==
    ASSUME TypeInv, StepInv, Running
    PROVE  steps + 1 <= StepCeiling
BY DEF TypeInv, TypeOK, StepInv, StepAccounting, StepsTo, StepCeiling, Running,
       IsTerminal, TerminalStates, State

LEMMA FailsKeepsStepInv ==
    ASSUME TypeInv, StepInv, Running, NEW why, Fails(why)
    PROVE  StepInv'
BY RoomToFail
   DEF Fails, Terminate, TerminalFor, StepInv, NoEarlyRepair, StepAccounting,
       IsTerminal, TerminalStates, PrepStates, TypeInv, TypeOK, StepCeiling

LEMMA NoDecisionKeepsStepInv ==
    ASSUME TypeInv, StepInv, Running, NoDecision, UNCHANGED loops
    PROVE  StepInv'
<1>1. CASE UNCHANGED <<state, steps, reason>>
  BY <1>1 DEF StepInv, NoEarlyRepair, StepAccounting, IsTerminal, StepsTo, StepCeiling
<1>2. CASE Terminate("state_retry")
  BY <1>2, RoomToFail
     DEF Terminate, TerminalFor, StepInv, NoEarlyRepair, StepAccounting,
         IsTerminal, TerminalStates, PrepStates, TypeInv, TypeOK, StepCeiling
<1>3. QED BY <1>1, <1>2 DEF NoDecision

LEMMA ForwardKeepsStepInv ==
    ASSUME TypeInv, StepInv, NEW t \in State \ {"FIX"}, MoveTo(t),
           UNCHANGED loops
    PROVE  StepInv'
<1>1. /\ state' = t /\ steps' = steps + 1
      /\ \/ state = "IDLE" /\ t = "PLANNING"
         \/ state = "PLANNING" /\ t \in {"PM", "BLOCKED"}
         \/ state = "PM" /\ t \in {"ARCHITECT", "BLOCKED"}
         \/ state = "ARCHITECT" /\ t \in {"WRITER", "BLOCKED"}
         \/ state = "WRITER" /\ t \in {"REVIEW", "BLOCKED"}
         \/ state = "REVIEW" /\ t \in {"TEST", "FAIL"}
         \/ state = "TEST" /\ t \in {"QA", "FAIL"}
         \/ state = "QA" /\ t \in {"SUCCESS", "FAIL"}
         \/ state = "FIX" /\ t \in {"REVIEW", "FAIL"}
  BY DEF MoveTo, CanTransition, AllowedTransitions, TypeInv, TypeOK, State
<1>2. ~IsTerminal(state) /\ steps + 1 <= StepCeiling
  BY <1>1 DEF IsTerminal, TerminalStates, TypeInv, TypeOK, StepInv, StepAccounting,
              StepsTo, StepCeiling
<1>3. CASE IsTerminal(t)
  BY <1>1, <1>2, <1>3 DEF StepInv, NoEarlyRepair, StepAccounting, StepCeiling, IsTerminal,
                    TerminalStates, PrepStates
<1>4. CASE ~IsTerminal(t)
  <2>1. NoEarlyRepair'
    BY <1>1 DEF StepInv, NoEarlyRepair, PrepStates
  <2>2. steps' = StepsTo(t, loops["review_fix"], loops["qa_fix"])
    <3> DEFINE r == loops["review_fix"]
               q == loops["qa_fix"]
    <3>1. r \in Nat /\ q \in Nat /\ steps = StepsTo(state, r, q)
      BY <1>2 DEF TypeInv, TypeOK, StepInv, StepAccounting
    <3>2. state \in PrepStates => r = 0 /\ q = 0
      BY DEF StepInv, NoEarlyRepair
    <3> HIDE DEF r, q
    <3> SUFFICES steps' = StepsTo(t, r, q)
      BY DEF r, q
    <3>3. CASE state \in {"IDLE", "PLANNING", "PM", "ARCHITECT"}
      BY <1>1, <1>4, <3>1, <3>3 DEF StepsTo, IsTerminal, TerminalStates
    <3>4. CASE state = "WRITER"
      BY <1>1, <1>4, <3>1, <3>2, <3>4 DEF StepsTo, IsTerminal, TerminalStates, PrepStates
    <3>5. CASE state \in {"REVIEW", "TEST", "QA", "FIX"}
      BY <1>1, <1>4, <3>1, <3>5 DEF StepsTo, IsTerminal, TerminalStates
    <3>6. QED BY <1>1, <3>3, <3>4, <3>5
  <2>3. QED
    BY <1>1, <1>2, <2>1, <2>2 DEF StepInv, StepAccounting, StepCeiling
<1>5. QED BY <1>3, <1>4

LEMMA ReviewRepairKeepsStepInv ==
    ASSUME TypeInv, StepInv, state = "REVIEW",
           Repair("review_fix", MaxReviewFixLoops)
    PROVE  StepInv'
<1>1. loops' = [loops EXCEPT !["review_fix"] = @ + 1]
  BY DEF Repair
<1>2. CASE loops["review_fix"] < MaxReviewFixLoops /\ MoveTo("FIX")
  BY <1>1, <1>2
     DEF MoveTo, StepInv, NoEarlyRepair, StepAccounting, StepsTo, StepCeiling,
         IsTerminal, TerminalStates, PrepStates, TypeInv, TypeOK, State
<1>3. CASE Fails("loop_exceeded")
  BY <1>3, RoomToFail
     DEF Fails, Terminate, TerminalFor, StepInv, NoEarlyRepair, StepAccounting,
         Running, IsTerminal, TerminalStates, PrepStates, TypeInv, TypeOK, StepCeiling
<1>4. QED BY <1>2, <1>3 DEF Repair

LEMMA QaRepairKeepsStepInv ==
    ASSUME TypeInv, StepInv, state = "QA", Repair("qa_fix", MaxQaFixLoops)
    PROVE  StepInv'
<1>1. loops' = [loops EXCEPT !["qa_fix"] = @ + 1]
  BY DEF Repair
<1>2. CASE loops["qa_fix"] < MaxQaFixLoops /\ MoveTo("FIX")
  BY <1>1, <1>2
     DEF MoveTo, StepInv, NoEarlyRepair, StepAccounting, StepsTo, StepCeiling,
         IsTerminal, TerminalStates, PrepStates, TypeInv, TypeOK, State
<1>3. CASE Fails("loop_exceeded")
  BY <1>3, RoomToFail
     DEF Fails, Terminate, TerminalFor, StepInv, NoEarlyRepair, StepAccounting,
         Running, IsTerminal, TerminalStates, PrepStates, TypeInv, TypeOK, StepCeiling
<1>4. QED BY <1>2, <1>3 DEF Repair

LEMMA StepInvInit == Init => StepInv
BY DEF Init, StepInv, NoEarlyRepair, StepAccounting, StepsTo, StepCeiling,
       IsTerminal, TerminalStates

LEMMA StepInvStep == TypeInv /\ StepInv /\ [Next]_vars => StepInv'
<1> SUFFICES ASSUME TypeInv, StepInv, [Next]_vars PROVE StepInv'
  OBVIOUS
<1> USE DEF State
<1>1. CASE Start
  BY <1>1, ForwardKeepsStepInv DEF Start
<1>2. CASE StopAtLimit
  BY <1>2, FailsKeepsStepInv DEF StopAtLimit
<1>3. CASE AgentRaises
  BY <1>3, FailsKeepsStepInv DEF AgentRaises
<1>4. CASE UnusableAnswer
  BY <1>4, NoDecisionKeepsStepInv DEF UnusableAnswer
<1>5. CASE AgentBlocks
  BY <1>5, FailsKeepsStepInv DEF AgentBlocks, Running, IsTerminal, TerminalStates
<1>6. CASE HandlePlanning \/ HandlePm \/ HandleArchitect
  BY <1>6, ForwardKeepsStepInv DEF HandlePlanning, HandlePm, HandleArchitect, Document
<1>7. ASSUME NEW code \in Code, HandleWriter(code) PROVE StepInv'
  BY <1>7, ForwardKeepsStepInv DEF HandleWriter
<1>8. CASE HandleReview
  <2>1. state = "REVIEW" /\ Running
    BY <1>8 DEF HandleReview, ReviewApproves, ReviewRejects, ReviewRejectsBlankly,
       ReviewUnknownVerdict, ReviewAnswer, InState, Running, IsTerminal, TerminalStates
  <2>2. CASE ReviewApproves
    BY <2>2, ForwardKeepsStepInv DEF ReviewApproves
  <2>3. CASE ReviewRejects
    BY <2>1, <2>3, ReviewRepairKeepsStepInv DEF ReviewRejects
  <2>4. CASE ReviewRejectsBlankly
    BY <2>1, <2>4, FailsKeepsStepInv DEF ReviewRejectsBlankly
  <2>5. CASE ReviewUnknownVerdict
    BY <2>1, <2>5, NoDecisionKeepsStepInv DEF ReviewUnknownVerdict
  <2>6. QED BY <1>8, <2>2, <2>3, <2>4, <2>5 DEF HandleReview
<1>9. CASE HandleTest
  BY <1>9, ForwardKeepsStepInv DEF HandleTest
<1>10. ASSUME QaAnswer PROVE state = "QA" /\ Running
  BY <1>10 DEF QaAnswer, InState, Running, IsTerminal, TerminalStates
<1>11. CASE QaPasses
  BY <1>11, ForwardKeepsStepInv DEF QaPasses
<1>12. CASE RuntimeBreaks \/ QaFailsBlankly
  BY <1>10, <1>12, FailsKeepsStepInv DEF RuntimeBreaks, QaFailsBlankly
<1>13. ASSUME NEW checked \in Code, RuntimeRejects(checked) PROVE StepInv'
  BY <1>10, <1>13, QaRepairKeepsStepInv DEF RuntimeRejects
<1>14. CASE QaFails
  BY <1>10, <1>14, QaRepairKeepsStepInv DEF QaFails
<1>15. CASE QaUnknownVerdict
  BY <1>10, <1>15, NoDecisionKeepsStepInv DEF QaUnknownVerdict
<1>16. ASSUME NEW code \in Code, HandleFix(code) PROVE StepInv'
  BY <1>16, ForwardKeepsStepInv DEF HandleFix
<1>17. CASE UNCHANGED vars
  BY <1>17 DEF vars, StepInv, NoEarlyRepair, StepAccounting, StepsTo, StepCeiling,
               IsTerminal
<1>18. QED
  BY <1>1, <1>2, <1>3, <1>4, <1>5, <1>6, <1>7, <1>8, <1>9, <1>11, <1>12, <1>13,
     <1>14, <1>15, <1>16, <1>17
  DEF Next, AgentStep, RuntimeStep

LEMMA StepInvHolds == Spec => [](TypeInv /\ StepInv)
BY TypeInvInit, TypeInvStep, StepInvInit, StepInvStep, PTL DEF Spec

(* In every run, with every setting of the limits, the number of steps is   *)
(* the one its state and repairs account for.                              *)
THEOREM StepAccountingHolds == Spec => []StepAccounting
<1>1. TypeInv /\ StepInv => StepAccounting
  BY DEF StepInv
<1>2. QED BY <1>1, StepInvHolds, PTL

(* The limits of core/fsm.py leave room for every repair: then no run ever  *)
(* stops for its number of steps.  (With 3 review and 2 QA repairs the      *)
(* ceiling is 22, three below the limit.)                                   *)
THEOREM StepLimitIsSlackHolds ==
    ASSUME StepCeiling <= MaxTotalSteps
    PROVE  Spec => []StepLimitIsSlack
<1> DEFINE NotForSteps == reason # "max_total_steps"
<1>1. Init => NotForSteps
  BY DEF Init
<1>2. TypeInv /\ StepInv /\ NotForSteps /\ [Next]_vars => NotForSteps'
  <2> SUFFICES ASSUME TypeInv, StepInv, NotForSteps, [Next]_vars
               PROVE  NotForSteps'
    OBVIOUS
  <2>1. ~OverSteps
    BY DEF OverSteps, StepInv, TypeInv, TypeOK, StepCeiling
  <2>2. CASE StopAtLimit
    BY <2>1, <2>2 DEF StopAtLimit, LimitReason, Fails, Terminate
  <2>3. CASE Start \/ AgentStep \/ RuntimeStep \/ UNCHANGED vars
    BY <2>3 DEF Start, AgentStep, RuntimeStep, vars, AgentRaises, UnusableAnswer,
       AgentBlocks, HandlePlanning, HandlePm, HandleArchitect, Document, HandleWriter,
       HandleReview, ReviewApproves, ReviewRejects, ReviewRejectsBlankly,
       ReviewUnknownVerdict, HandleTest, QaFails, QaFailsBlankly, QaUnknownVerdict,
       HandleFix, QaPasses, RuntimeBreaks, RuntimeRejects, Fails, Terminate, MoveTo,
       NoDecision, Repair
  <2>4. QED BY <2>2, <2>3 DEF Next
<1>3. StepInv /\ NotForSteps => StepLimitIsSlack
  BY DEF StepInv, StepLimitIsSlack
<1> HIDE DEF NotForSteps
<1>4. QED BY <1>1, <1>2, <1>3, StepInvHolds, PTL DEF Spec

-----------------------------------------------------------------------------
(* Calls and money.                                                        *)

LEMMA InvokeWithinLimits ==
    ASSUME TypeInv, WithinLimits, Invoke
    PROVE  OverrunByOneCall'
BY DEF TypeInv, TypeOK, WithinLimits, OverCalls, OverBudget, Invoke, OverrunByOneCall

(* However the agents answer, a run overruns its call limit by one call and *)
(* an enforced budget by the cost of one call, at most.                     *)
THEOREM OverrunByOneCallHolds == Spec => []OverrunByOneCall
<1>1. Init => OverrunByOneCall
  BY DEF Init, OverrunByOneCall
<1>2. TypeInv /\ OverrunByOneCall /\ [Next]_vars => OverrunByOneCall'
  <2> SUFFICES ASSUME TypeInv, OverrunByOneCall, [Next]_vars PROVE OverrunByOneCall'
    OBVIOUS
  <2>1. CASE Start \/ StopAtLimit \/ UNCHANGED vars
    BY <2>1 DEF Start, StopAtLimit, vars, OverrunByOneCall
  <2>2. CASE AgentRaises
    BY <2>2 DEF AgentRaises, WithinLimits, OverCalls, OverrunByOneCall, TypeInv, TypeOK
  <2>3. CASE AgentStep \/ RuntimeStep
    <3>1. CASE AgentRaises
      BY <2>2, <3>1
    <3>2. CASE ~AgentRaises
      <4>1. WithinLimits /\ Invoke
        BY <2>3, <3>2 DEF AgentStep, RuntimeStep, UnusableAnswer, AgentBlocks,
           HandlePlanning, HandlePm, HandleArchitect, Document, HandleWriter,
           HandleReview, ReviewApproves, ReviewRejects, ReviewRejectsBlankly,
           ReviewUnknownVerdict, ReviewAnswer, HandleTest, QaFails, QaFailsBlankly,
           QaUnknownVerdict, QaAnswer, HandleFix, QaPasses, RuntimeBreaks,
           RuntimeRejects, InState
      <4>2. QED BY <4>1, InvokeWithinLimits
    <3>3. QED BY <3>1, <3>2
  <2>4. QED BY <2>1, <2>3 DEF Next
<1>3. QED BY <1>1, <1>2, TypeInvInit, TypeInvStep, PTL DEF Spec

-----------------------------------------------------------------------------
(* Reviews and artifacts.                                                  *)

(* The limits of core/fsm.py as a caller of Orchestrator.run sees them.      *)
THEOREM LimitsHoldAlways ==
    ASSUME StepCeiling <= MaxTotalSteps
    PROVE  Spec => []LimitsHold
<1>1. Spec => []StepLimitIsSlack
  BY StepLimitIsSlackHolds
<1>2. StepLimitIsSlack /\ OverrunByOneCall => LimitsHold
  BY DEF LimitsHold
<1> QED
  BY <1>1, <1>2, OverrunByOneCallHolds, PTL

LEMMA ApprovedStep ==
    TypeInv /\ ApprovedBeforeUse /\ [Next]_vars => ApprovedBeforeUse'
<1> SUFFICES ASSUME TypeInv, ApprovedBeforeUse, [Next]_vars PROVE ApprovedBeforeUse'
  OBVIOUS
<1> USE FailsLeads, NoDecisionLeads, RepairLeads
<1>1. CASE Start \/ StopAtLimit \/ AgentRaises \/ UnusableAnswer \/ AgentBlocks
  BY <1>1 DEF Start, StopAtLimit, AgentRaises, UnusableAnswer, AgentBlocks, MoveTo,
     ApprovedBeforeUse
<1>2. CASE HandlePlanning \/ HandlePm \/ HandleArchitect
  BY <1>2 DEF HandlePlanning, HandlePm, HandleArchitect, Document, MoveTo,
     ApprovedBeforeUse
<1>3. ASSUME NEW code \in Code, HandleWriter(code) \/ HandleFix(code)
      PROVE  ApprovedBeforeUse'
  BY <1>3 DEF HandleWriter, HandleFix, MoveTo, ApprovedBeforeUse
<1>4. CASE ReviewApproves
  <2>1. latestCode \in Code /\ CodeInHand = latestCode
    BY <1>4 DEF ReviewApproves, ReviewAnswer, InState, TypeInv, CodeExists, CodeInHand
  <2>2. QED
    BY <1>4, <2>1 DEF ReviewApproves, ReviewAnswer, Verdict, ApprovedBeforeUse
<1>5. CASE ReviewRejects \/ ReviewRejectsBlankly \/ ReviewUnknownVerdict
  BY <1>5 DEF ReviewRejects, ReviewRejectsBlankly, ReviewUnknownVerdict, ReviewAnswer,
     InState, ApprovedBeforeUse
<1>6. CASE HandleTest
  BY <1>6 DEF HandleTest, InState, MoveTo, ApprovedBeforeUse
<1>7. CASE QaPasses
  BY <1>7 DEF QaPasses, QaAnswer, InState, MoveTo, ApprovedBeforeUse
<1>8. CASE RuntimeBreaks \/ QaFails \/ QaFailsBlankly \/ QaUnknownVerdict
  BY <1>8 DEF RuntimeBreaks, QaFails, QaFailsBlankly, QaUnknownVerdict, QaAnswer,
     InState, ApprovedBeforeUse
<1>9. ASSUME NEW checked \in Code, RuntimeRejects(checked) PROVE ApprovedBeforeUse'
  BY <1>9 DEF RuntimeRejects, ApprovedBeforeUse
<1>10. CASE UNCHANGED vars
  BY <1>10 DEF vars, ApprovedBeforeUse
<1>11. QED
  BY <1>1, <1>2, <1>3, <1>4, <1>5, <1>6, <1>7, <1>8, <1>9, <1>10
  DEF Next, AgentStep, RuntimeStep, HandleReview

LEMMA ApprovedInvHolds == Spec => [](TypeInv /\ ApprovedBeforeUse)
<1>1. Init => ApprovedBeforeUse
  BY DEF Init, ApprovedBeforeUse
<1>2. QED BY <1>1, ApprovedStep, TypeInvInit, TypeInvStep, PTL DEF Spec

(* No run hands code to the tester, to QA or to its caller that is not the  *)
(* very code of the last approval.                                         *)
THEOREM ApprovedBeforeUseHolds == Spec => []ApprovedBeforeUse
BY ApprovedInvHolds, PTL

LEMMA StoreFirstKeeps ==
    ASSUME TypeOK, NEW kind \in ArtifactKind, NEW v, StoreFirst(kind, v)
    PROVE  \A k \in ArtifactKind : artifact[k] # None => artifact'[k] = artifact[k]
BY DEF StoreFirst, TypeOK

(* An artifact, once stored, is the same in every later state of the run.   *)
THEOREM ArtifactsImmutableHolds == Spec => ArtifactsImmutable
<1>1. TypeInv /\ [Next]_vars
        => [\A k \in ArtifactKind : artifact[k] # None => artifact'[k] = artifact[k]]_vars
  <2> SUFFICES ASSUME TypeOK, Next
               PROVE  \A k \in ArtifactKind :
                          artifact[k] # None => artifact'[k] = artifact[k]
    BY DEF TypeInv
  <2>1. \/ UNCHANGED artifact
        \/ \E kind \in ArtifactKind, v \in Code \cup {None, Doc, CodeInHand} :
               StoreFirst(kind, v)
    BY DEF Next, Start, StopAtLimit, AgentStep, RuntimeStep, AgentRaises,
       UnusableAnswer, AgentBlocks, HandlePlanning, HandlePm, HandleArchitect,
       Document, HandleWriter, HandleReview, ReviewApproves, ReviewRejects,
       ReviewRejectsBlankly, ReviewUnknownVerdict, ReviewAnswer, HandleTest,
       QaFails, QaFailsBlankly, QaUnknownVerdict, QaAnswer, HandleFix, QaPasses,
       RuntimeBreaks, RuntimeRejects, ArtifactKind
  <2>2. QED BY <2>1, StoreFirstKeeps
<1>2. QED BY <1>1, TypeInvInit, TypeInvStep, PTL DEF Spec, ArtifactsImmutable

-----------------------------------------------------------------------------
(* Refinement: every step of a run is a step of PipelinePromise or none.    *)

PromiseInv == TypeInv /\ StepInv /\ ApprovedBeforeUse

(* Before the writer answers there is no code; afterwards there is.         *)
CodeAppears ==
    /\ (state \in PrepStates \cup {"BLOCKED"} => latestCode = None)
    /\ (state = "FAIL" => latestCode # None)

LEMMA PromiseInit == Init => Promise!Init
BY DEF Init, Promise!Init, Outcome, Vetted, Repairs, IsTerminal, TerminalStates, Min2

LEMMA CodeIffLate ==
    ASSUME PromiseInv, CodeAppears, Running
    PROVE  state \in PrepStates <=> latestCode = None
BY DEF PromiseInv, TypeInv, TypeOK, Running, CodeAppears, CodeExists, State, PrepStates,
   IsTerminal, TerminalStates

(* An abnormal end is the promise's GiveUp.                                *)
LEMMA EndGivesUp ==
    ASSUME PromiseInv, CodeAppears, Running, NEW why, Terminate(why),
           UNCHANGED <<Repairs, latestCode>>
    PROVE  Promise!Next /\ CodeAppears'
<1>1. state' = TerminalFor(state)
  BY DEF Terminate
<1>2. Promise!GiveUp
  BY <1>1, CodeIffLate DEF Promise!GiveUp, Promise!Working, TerminalFor, IsTerminal,
     TerminalStates, Running, Outcome, Vetted
<1>3. CodeAppears'
  BY <1>1, CodeIffLate DEF TerminalFor, CodeAppears, PrepStates
<1>4. QED BY <1>2, <1>3 DEF Promise!Next

LEMMA RetryStutters ==
    ASSUME PromiseInv, CodeAppears, Running, NoDecision,
           UNCHANGED <<loops, latestCode>>,
           UNCHANGED latestReview \/ state = "REVIEW"
    PROVE  [Promise!Next]_Promise!vars /\ CodeAppears'
<1>1. UNCHANGED Repairs
  BY DEF Repairs
<1>2. CASE UNCHANGED <<state, steps, reason>>
  <2>1. UNCHANGED <<Vetted, Outcome>>
    BY <1>2 DEF Vetted, Outcome
  <2>2. QED
    BY <1>1, <1>2, <2>1 DEF Promise!vars, CodeAppears
<1>3. CASE Terminate("state_retry")
  BY <1>1, <1>3, EndGivesUp
<1>4. QED BY <1>2, <1>3 DEF NoDecision

(* A granted repair is the promise's Complain, a refused one its GiveUp.    *)
LEMMA RepairComplains ==
    ASSUME PromiseInv, CodeAppears, UNCHANGED latestCode,
           \/ state = "REVIEW" /\ Repair("review_fix", MaxReviewFixLoops)
           \/ state = "QA" /\ Repair("qa_fix", MaxQaFixLoops)
    PROVE  Promise!Next /\ CodeAppears'
<1>1. Running /\ latestCode # None
  BY DEF PromiseInv, TypeInv, CodeExists, Running, IsTerminal, TerminalStates
<1>2. PICK l \in {"review_fix", "qa_fix"} :
        /\ loops' = [loops EXCEPT ![l] = @ + 1]
        /\ \/ /\ l = "review_fix" /\ loops[l] < MaxReviewFixLoops
              /\ MoveTo("FIX")
           \/ /\ l = "qa_fix" /\ loops[l] < MaxQaFixLoops
              /\ MoveTo("FIX")
           \/ /\ l = "review_fix" /\ loops[l] >= MaxReviewFixLoops
              /\ Fails("loop_exceeded")
           \/ /\ l = "qa_fix" /\ loops[l] >= MaxQaFixLoops
              /\ Fails("loop_exceeded")
  BY DEF Repair
<1>3. CASE MoveTo("FIX")
  <2>1. state' = "FIX"
    BY <1>3 DEF MoveTo
  <2>2. state # "FIX"
    OBVIOUS
  <2>3. Repairs' = Repairs + 1 /\ Repairs < MaxReviewFixLoops + MaxQaFixLoops
    BY <1>2, <2>1 DEF Repairs, Min2, PromiseInv, TypeInv, TypeOK, Fails, Terminate,
       TerminalFor
  <2>4. Promise!Complain
    BY <1>1, <2>1, <2>2, <2>3 DEF Promise!Complain, Promise!Working, Outcome, Vetted,
       Running, IsTerminal, TerminalStates
  <2>5. CodeAppears'
    BY <1>1, <2>1 DEF CodeAppears, PrepStates
  <2>6. QED BY <2>4, <2>5 DEF Promise!Next
<1>4. CASE Fails("loop_exceeded")
  <2>1. UNCHANGED Repairs
    BY <1>2, <1>4 DEF Repairs, Min2, PromiseInv, TypeInv, TypeOK, Fails, Terminate,
       TerminalFor, MoveTo, PrepStates
  <2>2. QED BY <1>1, <1>4, <2>1, EndGivesUp DEF Fails
<1>5. QED BY <1>2, <1>3, <1>4

(* A step that moves on with the same code and no complaint changes nothing *)
(* the promise sees, or vets, or delivers.                                  *)
LEMMA SameCodeSteps ==
    ASSUME PromiseInv, CodeAppears, UNCHANGED <<loops, latestCode>>
    PROVE  /\ Start => UNCHANGED Promise!vars /\ CodeAppears'
           /\ HandlePlanning \/ HandlePm \/ HandleArchitect
                => UNCHANGED Promise!vars /\ CodeAppears'
           /\ ReviewApproves => Promise!Next /\ CodeAppears'
           /\ HandleTest => UNCHANGED Promise!vars /\ CodeAppears'
           /\ QaPasses => Promise!Next /\ CodeAppears'
<1>1. UNCHANGED Repairs
  BY DEF Repairs
<1>2. Start => UNCHANGED Promise!vars /\ CodeAppears'
  BY <1>1 DEF Start, MoveTo, Promise!vars, Vetted, Outcome, CodeAppears, IsTerminal,
     TerminalStates, PrepStates
<1>3. HandlePlanning \/ HandlePm \/ HandleArchitect
        => UNCHANGED Promise!vars /\ CodeAppears'
  BY <1>1 DEF HandlePlanning, HandlePm, HandleArchitect, Document, InState, MoveTo,
     Promise!vars, Vetted, Outcome, CodeAppears, IsTerminal, TerminalStates, PrepStates
<1>4. ASSUME ReviewApproves
      PROVE  Promise!Next /\ CodeAppears'
  <2>1. state = "REVIEW" /\ state' = "TEST" /\ latestReview' = Verdict("APPROVED")
    BY <1>4 DEF ReviewApproves, ReviewAnswer, InState, MoveTo
  <2>2. latestCode # None
    BY <2>1 DEF PromiseInv, TypeInv, CodeExists
  <2>3. Vetted'
    BY <2>1, <2>2 DEF Vetted, Verdict, CodeInHand
  <2>4. Promise!Vet
    BY <1>1, <2>1, <2>2, <2>3 DEF Promise!Vet, Promise!Working, Outcome, IsTerminal,
       TerminalStates
  <2>5. CodeAppears'
    BY <2>1 DEF CodeAppears, PrepStates
  <2>6. QED BY <2>4, <2>5 DEF Promise!Next
<1>5. HandleTest => UNCHANGED Promise!vars /\ CodeAppears'
  BY <1>1 DEF HandleTest, InState, MoveTo, Promise!vars, Vetted, Outcome, CodeAppears,
     IsTerminal, TerminalStates, PrepStates
<1>6. ASSUME QaPasses
      PROVE  Promise!Next /\ CodeAppears'
  <2>1. state = "QA" /\ state' = "SUCCESS" /\ UNCHANGED latestReview
    BY <1>6 DEF QaPasses, QaAnswer, InState, MoveTo
  <2>2. Vetted /\ Vetted'
    BY <2>1 DEF Vetted, PromiseInv, ApprovedBeforeUse
  <2>3. Promise!Deliver
    BY <1>1, <2>1, <2>2 DEF Promise!Deliver, Promise!Working, Outcome, IsTerminal,
       TerminalStates
  <2>4. CodeAppears'
    BY <2>1 DEF CodeAppears, PrepStates
  <2>5. QED BY <2>3, <2>4 DEF Promise!Next
<1>7. QED BY <1>2, <1>3, <1>4, <1>5, <1>6

(* The writer's answer is the promise's Draft, the fixer's its Rewrite.     *)
LEMMA NewCodeSteps ==
    ASSUME PromiseInv, CodeAppears, NEW code \in Code, HandleWriter(code) \/ HandleFix(code)
    PROVE  Promise!Next /\ CodeAppears'
<1>1. UNCHANGED Repairs
  BY DEF HandleWriter, HandleFix, Repairs
<1>2. code # None
  BY OrchestratorAssumption DEF OrchestratorAssumption
<1>3. CASE HandleWriter(code)
  <2>1. state = "WRITER" /\ state' = "REVIEW" /\ latestCode' = code
    BY <1>3 DEF HandleWriter, InState, MoveTo
  <2>2. Promise!Draft(code)
    BY <1>1, <2>1 DEF Promise!Draft, Promise!Working, Outcome, Vetted, IsTerminal,
       TerminalStates, CodeAppears, PrepStates
  <2>3. CodeAppears'
    BY <1>2, <2>1 DEF CodeAppears, PrepStates
  <2>4. QED BY <2>2, <2>3 DEF Promise!Next
<1>4. CASE HandleFix(code)
  <2>1. state = "FIX" /\ state' = "REVIEW" /\ latestCode' = code
    BY <1>4 DEF HandleFix, InState, MoveTo
  <2>2. Promise!Rewrite(code)
    BY <1>1, <2>1 DEF Promise!Rewrite, Promise!Working, Outcome, Vetted, IsTerminal,
       TerminalStates
  <2>3. CodeAppears'
    BY <1>2, <2>1 DEF CodeAppears, PrepStates
  <2>4. QED BY <2>2, <2>3 DEF Promise!Next
<1>5. QED BY <1>3, <1>4

LEMMA PromiseStep ==
    ASSUME PromiseInv, CodeAppears, [Next]_vars
    PROVE  [Promise!Next]_Promise!vars /\ CodeAppears'
<1>0. CASE UNCHANGED vars
  BY <1>0 DEF vars, Promise!vars, Vetted, Outcome, Repairs, CodeAppears
<1>1. CASE Start
  BY <1>1, SameCodeSteps DEF Start
<1>2. CASE StopAtLimit
  <2>1. UNCHANGED Repairs
    BY <1>2 DEF StopAtLimit, Repairs
  <2>2. QED BY <1>2, <2>1, EndGivesUp DEF StopAtLimit, Fails
<1>3. CASE AgentRaises
  <2>1. UNCHANGED Repairs
    BY <1>3 DEF AgentRaises, Repairs
  <2>2. QED BY <1>3, <2>1, EndGivesUp DEF AgentRaises, Fails
<1>4. CASE UnusableAnswer
  BY <1>4, RetryStutters DEF UnusableAnswer
<1>5. CASE AgentBlocks
  <2>1. UNCHANGED Repairs /\ Running
    BY <1>5 DEF AgentBlocks, Repairs, Running, IsTerminal, TerminalStates
  <2>2. QED BY <1>5, <2>1, EndGivesUp DEF AgentBlocks, Fails
<1>6. CASE HandlePlanning \/ HandlePm \/ HandleArchitect
  BY <1>6, SameCodeSteps DEF HandlePlanning, HandlePm, HandleArchitect, Document
<1>7. CASE \E code \in Code : HandleWriter(code) \/ HandleFix(code)
  BY <1>7, NewCodeSteps
<1>8. CASE HandleReview
  <2>0. state = "REVIEW" /\ Running
    BY <1>8 DEF HandleReview, ReviewApproves, ReviewRejects, ReviewRejectsBlankly,
       ReviewUnknownVerdict, ReviewAnswer, InState, Running, IsTerminal, TerminalStates
  <2>1. CASE ReviewApproves
    BY <2>1, SameCodeSteps DEF ReviewApproves, ReviewAnswer
  <2>2. CASE ReviewRejects
    BY <2>0, <2>2, RepairComplains DEF ReviewRejects, ReviewAnswer
  <2>3. CASE ReviewRejectsBlankly
    <3>1. UNCHANGED <<Repairs, latestCode>>
      BY <2>3 DEF ReviewRejectsBlankly, ReviewAnswer, Repairs
    <3>2. QED BY <2>0, <2>3, <3>1, EndGivesUp DEF ReviewRejectsBlankly, Fails
  <2>4. CASE ReviewUnknownVerdict
    BY <2>0, <2>4, RetryStutters DEF ReviewUnknownVerdict, ReviewAnswer
  <2>5. QED BY <1>8, <2>1, <2>2, <2>3, <2>4 DEF HandleReview
<1>9. CASE HandleTest
  BY <1>9, SameCodeSteps DEF HandleTest
<1>10. CASE QaFails \/ QaFailsBlankly \/ QaUnknownVerdict \/ RuntimeStep
  <2>0. state = "QA" /\ Running /\ UNCHANGED latestCode
    BY <1>10 DEF QaFails, QaFailsBlankly, QaUnknownVerdict, RuntimeStep, QaPasses,
       RuntimeBreaks, RuntimeRejects, QaAnswer, InState, Running, IsTerminal,
       TerminalStates
  <2>1. CASE QaPasses
    BY <2>1, SameCodeSteps DEF QaPasses, QaAnswer
  <2>2. CASE QaFails \/ \E checked \in Code : RuntimeRejects(checked)
    BY <2>0, <2>2, RepairComplains DEF QaFails, RuntimeRejects
  <2>3. CASE QaFailsBlankly \/ RuntimeBreaks
    <3>1. UNCHANGED <<Repairs, latestCode>>
      BY <2>0, <2>3 DEF QaFailsBlankly, RuntimeBreaks, Repairs
    <3>2. PICK why : Terminate(why)
      BY <2>3 DEF QaFailsBlankly, RuntimeBreaks, Fails
    <3>3. QED BY <2>0, <3>1, <3>2, EndGivesUp
  <2>4. CASE QaUnknownVerdict
    BY <2>0, <2>4, RetryStutters DEF QaUnknownVerdict
  <2>5. QED BY <1>10, <2>1, <2>2, <2>3, <2>4 DEF RuntimeStep
<1>11. QED
  BY <1>0, <1>1, <1>2, <1>3, <1>4, <1>5, <1>6, <1>7, <1>8, <1>9, <1>10 DEF Next, AgentStep

(* Whatever the agents and the runtime hook answer, every step of a run is  *)
(* a step its promise allows, or one it does not see: the safety half of    *)
(* KeepsPromise (that the run ends is left to TLC).                         *)
THEOREM RunRefinesPromise == Spec => Promise!Init /\ [][Promise!Next]_Promise!vars
<1> DEFINE Inv == PromiseInv
           Appears == CodeAppears
<1>1. Init => Promise!Init /\ Appears
  BY PromiseInit DEF Init, CodeAppears, PrepStates
<1>2. Spec => []Inv
  <2>1. TypeInv /\ StepInv /\ ApprovedBeforeUse => Inv
    BY DEF PromiseInv
  <2> HIDE DEF Inv
  <2>2. QED BY <2>1, StepInvHolds, ApprovedInvHolds, PTL
<1>3. Inv /\ Appears /\ [Next]_vars => [Promise!Next]_Promise!vars /\ Appears'
  BY PromiseStep
<1> HIDE DEF Inv, Appears
<1>4. QED BY <1>1, <1>2, <1>3, PTL DEF Spec

-----------------------------------------------------------------------------
LEMMA WrittenType ==
    ASSUME TypeOK, artifact["writer"] \in Writable, NEW content \in HookWrites
    PROVE  content \in Content /\ CodeOn(content) \in Code
<1>1. artifact["writer"] \in Code /\ (artifact["fix"] \in Writable => artifact["fix"] \in Code)
  BY WritableAssumption
<1>2. None \notin Code
  BY OrchestratorAssumption DEF OrchestratorAssumption
<1>3. PICK f \in Code \cup {None}, b \in BOOLEAN :
        content = [writer |-> artifact["writer"], fix |-> f, whole |-> b]
  <2>1. CASE artifact["fix"] \in Writable
    <3>1. content = Written(artifact["fix"], TRUE) \/ content = Written(artifact["fix"], FALSE)
      BY <2>1 DEF HookWrites
    <3>2. QED BY <1>1, <2>1, <3>1 DEF Written
  <2>2. CASE artifact["fix"] \notin Writable
    BY <2>2 DEF HookWrites, Written
  <2>3. QED BY <2>1, <2>2
<1>4. content \in Content
  BY <1>1, <1>3 DEF Content
<1>5. CodeOn(content) \in Code
  BY <1>1, <1>3 DEF CodeOn
<1>6. QED BY <1>4, <1>5

(* A step of the worker, seen from the pipeline: a step of Orchestrator or  *)
(* none.                                                                    *)
LEMMA PipelineStep ==
    ASSUME TypeOK, [RunNext]_allVars
    PROVE  [Next]_vars
<1>1. CASE Pipeline
  <2>1. CASE HookValidates(FALSE) /\ RuntimeRejects(CodeOn(tree'))
    <3>1. CodeOn(tree') \in Code
      BY <2>1, WrittenType DEF HookValidates
    <3>2. QED BY <2>1, <3>1 DEF Next, RuntimeStep
  <2>2. CASE Start \/ StopAtLimit \/ AgentStep \/ QaPasses \/ HookRaises
    BY <2>2 DEF Next, RuntimeStep, HookRaises
  <2>3. QED BY <1>1, <2>1, <2>2 DEF Pipeline
<1>2. CASE ~Pipeline
  BY <1>2 DEF RunNext, WorkerStep, Acquire, AcquireFails, Refused, JudgeCancelled, JudgeFailed,
     JudgeSuccess, Commit, CommitFails, CommitUnconfirmed, CommitReportedFailed, Release,
     Stop, allVars, vars
<1>3. QED BY <1>1, <1>2

-----------------------------------------------------------------------------
(* The pipeline's invariants hold of a task's run.                         *)

PipelineInv == TypeInv /\ ApprovedBeforeUse

LEMMA PipelineInvHolds == RunSpec => []PipelineInv
<1> DEFINE Inv == PipelineInv
<1>1. RunInit => Inv
  BY TypeInvInit DEF RunInit, Init, PipelineInv, ApprovedBeforeUse
<1>2. Inv /\ [RunNext]_allVars => Inv'
  <2> SUFFICES ASSUME PipelineInv, [RunNext]_allVars
               PROVE  PipelineInv'
    OBVIOUS
  <2>1. [Next]_vars
    BY PipelineStep DEF PipelineInv, TypeInv
  <2>2. QED BY <2>1, TypeInvStep, ApprovedStep DEF PipelineInv
<1> HIDE DEF Inv
<1>3. Inv => PipelineInv
  BY DEF Inv
<1>4. QED BY <1>1, <1>2, <1>3, PTL DEF RunSpec

(* The pipeline of a task's run is an Orchestrator run: the hook is one of   *)
(* those Orchestrator allows for.                                           *)
THEOREM RunRefinesOrchestrator == RunSpec => Init /\ [][Next]_vars
<1> DEFINE Inv == PipelineInv
<1>1. RunSpec => []Inv
  BY PipelineInvHolds
<1>2. RunInit => Init
  BY DEF RunInit
<1>3. Inv /\ [RunNext]_allVars => [Next]_vars
  BY PipelineStep DEF PipelineInv, TypeInv
<1> HIDE DEF Inv
<1>4. QED BY <1>1, <1>2, <1>3, PTL DEF RunSpec

-----------------------------------------------------------------------------
(* What is committed.  The invariant adds where the worker is: a successful *)
(* pipeline leaves a report that accepts the worktree as it stands, and     *)
(* nothing but a new run of the hook changes either.                        *)

CommitInv ==
    /\ worker = "queued" => state = "IDLE"
    /\ worker \in {"queued", "working", "committing"} => commit = None
    /\ worker \in {"working", "committing"} /\ state = "SUCCESS"
         => report = [of |-> tree, ok |-> TRUE]
    /\ worker = "committing" => state = "SUCCESS"
    /\ commit # None => state = "SUCCESS" /\ report = [of |-> commit, ok |-> TRUE]

(* The pipeline reaches SUCCESS by a QA pass only, and is then over.       *)
LEMMA SuccessOnlyByPass ==
    ASSUME TypeOK, Pipeline
    PROVE  /\ ~IsTerminal(state)
           /\ state' = "SUCCESS" => QaPasses /\ HookValidates(TRUE)
<1> USE FailsLeads, NoDecisionLeads, RepairLeads
<1>1. CASE Start \/ StopAtLimit
  BY <1>1 DEF Start, StopAtLimit, MoveTo, Running, IsTerminal, TerminalStates
<1>2. CASE AgentStep
  <2>1. CASE AgentRaises \/ UnusableAnswer \/ AgentBlocks
    BY <2>1 DEF AgentRaises, UnusableAnswer, AgentBlocks, Running, IsTerminal,
       TerminalStates
  <2>2. CASE HandlePlanning \/ HandlePm \/ HandleArchitect
    BY <2>2 DEF HandlePlanning, HandlePm, HandleArchitect, Document, InState, MoveTo,
       IsTerminal, TerminalStates
  <2>3. CASE \E code \in Code : HandleWriter(code) \/ HandleFix(code)
    BY <2>3 DEF HandleWriter, HandleFix, InState, MoveTo, IsTerminal, TerminalStates
  <2>4. CASE HandleReview
    BY <2>4 DEF HandleReview, ReviewApproves, ReviewRejects, ReviewRejectsBlankly,
       ReviewUnknownVerdict, ReviewAnswer, InState, MoveTo, IsTerminal, TerminalStates
  <2>5. CASE HandleTest
    BY <2>5 DEF HandleTest, InState, MoveTo, IsTerminal, TerminalStates
  <2>6. CASE QaFails \/ QaFailsBlankly \/ QaUnknownVerdict
    BY <2>6 DEF QaFails, QaFailsBlankly, QaUnknownVerdict, QaAnswer, InState,
       IsTerminal, TerminalStates
  <2>7. QED BY <1>2, <2>1, <2>2, <2>3, <2>4, <2>5, <2>6 DEF AgentStep
<1>3. CASE QaPasses /\ HookValidates(TRUE)
  BY <1>3 DEF QaPasses, QaAnswer, InState, IsTerminal, TerminalStates
<1>4. CASE (\E checked : RuntimeRejects(checked)) \/ RuntimeBreaks
  BY <1>4 DEF RuntimeRejects, RuntimeBreaks, QaAnswer, InState, IsTerminal,
     TerminalStates
<1>5. QED BY <1>1, <1>2, <1>3, <1>4 DEF Pipeline, HookRaises

LEMMA CommitInvStep ==
    ASSUME TypeOK, CommitInv, [RunNext]_allVars
    PROVE  CommitInv'
<1>1. CASE Pipeline
  <2>1. worker = "working" /\ UNCHANGED <<worker, commit>> /\ commit = None
    BY <1>1 DEF Pipeline, CommitInv
  <2>2. state' = "SUCCESS" => report' = [of |-> tree', ok |-> TRUE]
    BY <1>1, SuccessOnlyByPass DEF HookValidates
  <2>3. QED BY <2>1, <2>2 DEF CommitInv
<1>2. CASE Acquire \/ AcquireFails \/ Refused \/ Release \/ Stop \/ UNCHANGED allVars
  BY <1>2 DEF Acquire, AcquireFails, Refused, Release, Stop, allVars, runVars, vars,
     CommitInv
<1>3. CASE JudgeCancelled \/ JudgeFailed \/ JudgeSuccess
  BY <1>3 DEF JudgeCancelled, JudgeFailed, JudgeSuccess, Returned, vars, CommitInv
<1>4. CASE Commit \/ CommitFails \/ CommitUnconfirmed
  BY <1>4 DEF Commit, CommitFails, CommitUnconfirmed, CommitReportedFailed, vars,
     CommitInv
<1>5. QED BY <1>1, <1>2, <1>3, <1>4 DEF RunNext, WorkerStep

(* For every task: what the feature branch receives is the content the      *)
(* validator accepted last, and the reviewer's last word was an approval.    *)
THEOREM CommittedIsValidatedHolds == RunSpec => []CommittedIsValidated
<1> DEFINE Pipe == PipelineInv
           Inv == CommitInv
<1>1. RunSpec => []Pipe
  BY PipelineInvHolds
<1>2. RunInit => Inv
  BY DEF RunInit, Init, CommitInv
<1>3. Pipe /\ Inv /\ [RunNext]_allVars => Inv'
  BY CommitInvStep DEF PipelineInv, TypeInv
<1>4. Pipe /\ Inv => CommittedIsValidated
  BY DEF PipelineInv, ApprovedBeforeUse, CommitInv, CommittedIsValidated
<1> HIDE DEF Pipe, Inv
<1>5. QED BY <1>1, <1>2, <1>3, <1>4, PTL DEF RunSpec

(* A /stop in time is final: once the token is set while the pipeline runs, *)
(* the worker can only hand the worktree in, and never commits.             *)
THEOREM StopWhileRunningPreventsCommitHolds == RunSpec => StopWhileRunningPreventsCommit
<1> DEFINE Inv == CommitInv
           Pipe == PipelineInv
           InTime == token /\ worker \in {"queued", "working"}
           Stopped == token /\ worker # "committing" /\ commit = None
           Clean == commit = None
<1>1. RunSpec => []Pipe
  BY PipelineInvHolds
<1>2. RunInit => Inv
  BY DEF RunInit, Init, CommitInv
<1>3. Pipe /\ Inv /\ [RunNext]_allVars => Inv'
  BY CommitInvStep DEF PipelineInv, TypeInv
<1>4. Inv /\ InTime => Stopped
  BY DEF CommitInv
<1>5. Stopped /\ [RunNext]_allVars => Stopped'
  BY DEF RunNext, WorkerStep, Acquire, AcquireFails, Refused, Pipeline, JudgeCancelled,
     JudgeFailed, JudgeSuccess, Returned, Commit, CommitFails, CommitUnconfirmed,
     CommitReportedFailed, Release, Stop, allVars, runVars
<1>6. Stopped => Clean
  OBVIOUS
<1>7. StopWhileRunningPreventsCommit <=> [](InTime => []Clean)
  BY DEF StopWhileRunningPreventsCommit
<1> HIDE DEF Inv, Pipe, InTime, Stopped, Clean
<1>8. QED BY <1>1, <1>2, <1>3, <1>4, <1>5, <1>6, <1>7, PTL DEF RunSpec

-----------------------------------------------------------------------------
(* The contract with the task handler.                                     *)

TreeInv ==
    /\ worker \in Worker
    /\ tree \in Content \cup {None}
    /\ worker = "committing" => tree # None
    /\ worker = "working" /\ state = "SUCCESS" => tree # None
    /\ worker = "queued" => state = "IDLE"

LEMMA TreeInvStep ==
    ASSUME TypeOK, TreeInv, [RunNext]_allVars
    PROVE  TreeInv'
<1>1. CASE Pipeline
  <2>1. worker = "working" /\ worker' = "working"
    BY <1>1 DEF Pipeline
  <2>2. tree' = tree \/ (artifact["writer"] \in Writable /\ tree' \in HookWrites)
    BY <1>1 DEF Pipeline, HookValidates, HookRaises
  <2>3. tree' \in Content \cup {None}
    BY <2>2, WrittenType DEF TreeInv
  <2>4. state' = "SUCCESS" => tree' # None
    <3>1. state' = "SUCCESS" => artifact["writer"] \in Writable /\ tree' \in HookWrites
      BY <1>1, SuccessOnlyByPass DEF HookValidates
    <3>2. QED BY <3>1, WrittenType, ContentAssumption DEF ContentAssumption
  <2>5. QED BY <2>1, <2>3, <2>4 DEF TreeInv
<1>2. CASE ~Pipeline
  BY <1>2 DEF RunNext, WorkerStep, Acquire, AcquireFails, Refused, JudgeCancelled, JudgeFailed,
     JudgeSuccess, Returned, Commit, CommitFails, CommitUnconfirmed, CommitReportedFailed,
     Release, Stop, allVars, runVars, vars, TreeInv, Worker
<1>3. QED BY <1>1, <1>2

LEMMA ContractStep ==
    ASSUME TypeOK, TreeInv, CommitInv, [RunNext]_allVars
    PROVE  [Contract!Next]_Contract!vars
<1>1. CASE Acquire \/ Pipeline \/ UNCHANGED allVars
  BY <1>1 DEF Acquire, Pipeline, allVars, runVars, Contract!vars, Phase
<1>2. CASE AcquireFails \/ Refused
  BY <1>2 DEF AcquireFails, Refused, Contract!Next, Contract!Work, Contract!Raise, Phase
<1>3. CASE JudgeCancelled
  BY <1>3 DEF JudgeCancelled, Returned, Contract!Next, Contract!Work, Contract!Cancelled,
     Phase
<1>4. CASE JudgeFailed
  BY <1>4 DEF JudgeFailed, Returned, IsTerminal, TerminalStates, Contract!Next,
     Contract!Work, Contract!Failed, Phase
<1>5. CASE JudgeSuccess
  BY <1>5 DEF JudgeSuccess, Returned, Contract!Next, Contract!Work, Contract!Succeeded,
     Phase
<1>6. CASE Commit
  BY <1>6 DEF Commit, TreeInv, Contract!Next, Contract!Work, Contract!Commit, Phase
<1>7. CASE CommitFails \/ CommitUnconfirmed
  BY <1>7 DEF CommitFails, CommitUnconfirmed, CommitReportedFailed, Contract!Next,
     Contract!Work, Contract!Commit, Phase
<1>8. CASE Release
  BY <1>8 DEF Release, Contract!Next, Contract!Work, Contract!Return, Phase
<1>9. CASE Stop
  BY <1>9 DEF Stop, TreeInv, Worker, Contract!Next, Contract!Stop, Phase
<1>10. QED
  BY <1>1, <1>2, <1>3, <1>4, <1>5, <1>6, <1>7, <1>8, <1>9 DEF RunNext, WorkerStep

(* Every step of a task's run is one its contract allows or does not see:   *)
(* the safety half of KeepsContract (that runs return is left to TLC).      *)
THEOREM RunRefinesContract == RunSpec => Contract!Init /\ [][Contract!Next]_Contract!vars
<1> DEFINE Pipe == PipelineInv
           I == CommitInv
           T == TreeInv
<1>1. RunSpec => []Pipe
  BY PipelineInvHolds
<1>2. RunInit => I /\ T /\ Contract!Init
  BY DEF RunInit, Init, CommitInv, TreeInv, Worker, Contract!Init, Phase
<1>3. Pipe /\ I /\ [RunNext]_allVars => I'
  BY CommitInvStep DEF PipelineInv, TypeInv
<1>4. Pipe /\ T /\ [RunNext]_allVars => T'
  BY TreeInvStep DEF PipelineInv, TypeInv
<1>5. Pipe /\ I /\ T /\ [RunNext]_allVars => [Contract!Next]_Contract!vars
  BY ContractStep DEF PipelineInv, TypeInv
<1> HIDE DEF Pipe, I, T
<1>6. QED BY <1>1, <1>2, <1>3, <1>4, <1>5, PTL DEF RunSpec

-----------------------------------------------------------------------------
(* The terminal event.  Until the commit is tried no terminal event is out, *)
(* and the worktree that is committed holds something.                      *)

EventInv ==
    /\ worker \in {"queued", "working", "committing"} =>
          told = "nothing" /\ summary = "none" /\ commit = None
    /\ told = "task_completed" => commit # None /\ summary = "SUCCESS"
    /\ summary = "CANCELLED" => told = "nothing" /\ commit = None

LEMMA EventInvStep ==
    ASSUME TreeInv, EventInv, [RunNext]_allVars
    PROVE  EventInv'
<1>1. CASE Commit
  BY <1>1 DEF Commit, TreeInv, EventInv
<1>2. CASE JudgeCancelled \/ JudgeFailed \/ JudgeSuccess
  BY <1>2 DEF JudgeCancelled, JudgeFailed, JudgeSuccess, Returned, IsTerminal,
     TerminalStates, EventInv
<1>3. CASE CommitFails \/ CommitUnconfirmed
  BY <1>3 DEF CommitFails, CommitUnconfirmed, CommitReportedFailed, EventInv
<1>4. CASE Acquire \/ AcquireFails \/ Refused \/ Pipeline \/ Release \/ Stop \/ UNCHANGED allVars
  BY <1>4 DEF Acquire, AcquireFails, Refused, Pipeline, Release, Stop, allVars, runVars,
     EventInv
<1>5. QED BY <1>1, <1>2, <1>3, <1>4 DEF RunNext, WorkerStep

(* What the chat is told last agrees with the branch: "completed" only with *)
(* a commit behind it, and nothing after a stop in time.                    *)
THEOREM TerminalEventIsTrueHolds == RunSpec => []TerminalEventIsTrue
<1> DEFINE Pipe == PipelineInv
           T == TreeInv
           E == EventInv
<1>1. RunSpec => []Pipe
  BY PipelineInvHolds
<1>2. RunInit => T /\ E
  BY DEF RunInit, Init, TreeInv, EventInv, Worker
<1>3. Pipe /\ T /\ [RunNext]_allVars => T'
  BY TreeInvStep DEF PipelineInv, TypeInv
<1>4. T /\ E /\ [RunNext]_allVars => E'
  BY EventInvStep
<1>5. E => TerminalEventIsTrue
  BY DEF EventInv, TerminalEventIsTrue
<1> HIDE DEF Pipe, T, E
<1>6. QED BY <1>1, <1>2, <1>3, <1>4, <1>5, PTL DEF RunSpec
=============================================================================
