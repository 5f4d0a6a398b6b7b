------------------------------- MODULE TaskRun -------------------------------
(***************************************************************************)
(* What the run of one task promises the handler that submitted it: the     *)
(* token is looked at once, while no commit exists; a run that saw it ends  *)
(* CANCELLED without a commit; SUCCESS comes with a commit; every run       *)
(* returns.  SandboxRun implements this specification, TaskHandler uses it. *)
(***************************************************************************)
VARIABLES
    phase,      \* "open": the token has not been read
    token,      \* /stop was pressed
    verdict,    \* the final state to report, or "raised"
    committed   \* the task's branch has a commit

vars == <<phase, token, verdict, committed>>

Init ==
    /\ phase = "open"
    /\ token = FALSE
    /\ verdict = "none"
    /\ committed = FALSE

Raise ==
    /\ phase = "open"
    /\ phase' \in {"ending", "returned"}
    /\ verdict' = "raised"
    /\ UNCHANGED <<token, committed>>

Cancelled ==
    /\ phase = "open" /\ token
    /\ phase' = "ending"
    /\ verdict' = "CANCELLED"
    /\ UNCHANGED <<token, committed>>

Failed ==
    /\ phase = "open" /\ ~token
    /\ phase' = "ending"
    /\ verdict' \in {"FAIL", "BLOCKED"}
    /\ UNCHANGED <<token, committed>>

Succeeded ==
    /\ phase = "open" /\ ~token
    /\ phase' = "committing"
    /\ UNCHANGED <<token, verdict, committed>>

Commit ==
    /\ phase = "committing"
    /\ phase' = "ending"
    /\ \/ verdict' = "SUCCESS" /\ committed' = TRUE
       \/ verdict' = "FAIL" /\ committed' \in BOOLEAN
    /\ UNCHANGED token

Return ==
    /\ phase = "ending"
    /\ phase' = "returned"
    /\ UNCHANGED <<token, verdict, committed>>

Work == Raise \/ Cancelled \/ Failed \/ Succeeded \/ Commit \/ Return

Stop ==
    /\ phase # "returned"
    /\ token' = TRUE
    /\ UNCHANGED <<phase, verdict, committed>>

Next == Work \/ Stop

Spec == Init /\ [][Next]_vars /\ <>(phase = "returned")
=============================================================================
