-------------------------------- MODULE Fsm --------------------------------
(***************************************************************************)
(* The transition relation of core/fsm.py: the states of a pipeline run,   *)
(* the transitions PipelineMemory.record_transition accepts, and the       *)
(* classification the orchestrator makes of them.  No variables: the       *)
(* modules that keep a state take these operators.                         *)
(***************************************************************************)

State == {"IDLE", "PLANNING", "PM", "ARCHITECT", "WRITER", "REVIEW", "TEST",
          "QA", "FIX", "SUCCESS", "FAIL", "BLOCKED"}

TerminalStates == {"SUCCESS", "FAIL", "BLOCKED"}

AllowedTransitions ==
    [s \in State |->
        CASE s = "IDLE"      -> {"PLANNING"}
          [] s = "PLANNING"  -> {"PM", "BLOCKED"}
          [] s = "PM"        -> {"ARCHITECT", "BLOCKED"}
          [] s = "ARCHITECT" -> {"WRITER", "BLOCKED"}
          [] s = "WRITER"    -> {"REVIEW", "BLOCKED"}
          [] s = "REVIEW"    -> {"TEST", "FIX", "FAIL"}
          [] s = "TEST"      -> {"QA", "FIX", "FAIL"}
          [] s = "QA"        -> {"SUCCESS", "FIX", "FAIL"}
          [] s = "FIX"       -> {"REVIEW", "FAIL"}
          [] OTHER           -> {}]

CanTransition(s, t) == t \in AllowedTransitions[s]

IsTerminal(s) == s \in TerminalStates

(* The states before the first reviewable code (_PREP_STATES).             *)
PrepStates == {"IDLE", "PLANNING", "PM", "ARCHITECT", "WRITER"}

(* Where an abnormal end of the run leads from s (_terminal_for).          *)
TerminalFor(s) == IF s \in PrepStates THEN "BLOCKED" ELSE "FAIL"
=============================================================================
