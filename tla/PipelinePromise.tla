-------------------------- MODULE PipelinePromise --------------------------
(***************************************************************************)
(* What a pipeline run promises whoever started it, whatever its agents    *)
(* answer: it ends; the code it delivers is a candidate that was vetted    *)
(* after its last change; every rewrite answers a complaint of its own and *)
(* there are at most MaxRepairs of them; BLOCKED means that there never    *)
(* was any code.  Orchestrator implements this specification.              *)
(***************************************************************************)
EXTENDS Integers

CONSTANTS Code, None, MaxRepairs

VARIABLES
    candidate,  \* the code as it stands
    vetted,     \* the reviewer approved the candidate as it stands
    due,        \* a complaint is waiting for its rewrite
    repairs,    \* complaints so far
    outcome     \* "running" until the run ends

vars == <<candidate, vetted, due, repairs, outcome>>

Init ==
    /\ candidate = None
    /\ vetted = FALSE
    /\ due = FALSE
    /\ repairs = 0
    /\ outcome = "running"

Working == outcome = "running"

Draft(c) ==
    /\ Working /\ candidate = None
    /\ candidate' = c
    /\ UNCHANGED <<vetted, due, repairs, outcome>>

Vet ==
    /\ Working /\ candidate # None /\ ~due
    /\ vetted' = TRUE
    /\ UNCHANGED <<candidate, due, repairs, outcome>>

Complain ==
    /\ Working /\ candidate # None /\ ~due
    /\ repairs < MaxRepairs
    /\ repairs' = repairs + 1
    /\ vetted' = FALSE
    /\ due' = TRUE
    /\ UNCHANGED <<candidate, outcome>>

Rewrite(c) ==
    /\ Working /\ due
    /\ candidate' = c
    /\ due' = FALSE
    /\ UNCHANGED <<vetted, repairs, outcome>>

Deliver ==
    /\ Working /\ vetted
    /\ outcome' = "SUCCESS"
    /\ UNCHANGED <<candidate, vetted, due, repairs>>

GiveUp ==
    /\ Working
    /\ outcome' = IF candidate = None THEN "BLOCKED" ELSE "FAIL"
    /\ vetted' = FALSE
    /\ due' = FALSE
    /\ UNCHANGED <<candidate, repairs>>

Next ==
    \/ \E c \in Code : Draft(c) \/ Rewrite(c)
    \/ Vet \/ Complain \/ Deliver \/ GiveUp

Spec == Init /\ [][Next]_vars /\ <>(outcome # "running")
=============================================================================
