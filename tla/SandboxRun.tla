----------------------------- MODULE SandboxRun -----------------------------
(***************************************************************************)
(* The function the worker thread runs for one task: _run of               *)
(* core/real_task_handler.py.  It acquires a git worktree, drives an       *)
(* Orchestrator whose runtime hook (core/sandbox_runtime_hook.py) writes   *)
(* the stored artifacts into that worktree and validates it, reads the     *)
(* cancellation token once, commits the worktree and releases it.          *)
(*                                                                         *)
(* A worktree's content is the writer's files, overlaid or not by those of *)
(* the fix the hook wrote; what is on disk besides is the base branch.     *)
(***************************************************************************)
EXTENDS Orchestrator

CONSTANT Writable   \* the answers write_artifact_to_worktree accepts

ASSUME WritableAssumption == Writable \subseteq Code

VARIABLES
    worker,   \* where _run is
    tree,     \* the content of the worktree; None: only the base branch
    report,   \* the last ValidationReport: [of |-> content, ok |-> BOOLEAN]
    token,    \* the CancellationToken
    commit,   \* what the feature branch holds beyond the base branch
    told,     \* the last terminal progress event
    summary   \* summary["final_state"], or "raised"

runVars == <<worker, tree, report, token, commit, told, summary>>
allVars == <<vars, runVars>>

(* A fix may land partly: its files are written one by one, and an OSError  *)
(* on a later one is suppressed.                                            *)
Content == [writer : Code, fix : Code \cup {None}, whole : BOOLEAN]

ASSUME ContentAssumption == None \notin Content

Worker == {"queued", "working", "committing", "releasing", "done"}

RunInit ==
    /\ Init
    /\ worker = "queued"
    /\ tree = None /\ report = None /\ commit = None
    /\ token = FALSE
    /\ told = "nothing"
    /\ summary = "none"

-----------------------------------------------------------------------------
(* Before the pipeline.                                                    *)

(* SandboxWorkspace.acquire, and the hook built over the fresh worktree.    *)
Acquire ==
    /\ worker = "queued"
    /\ worker' = "working"
    /\ UNCHANGED <<vars, tree, report, token, commit, told, summary>>

AcquireFails ==
    /\ worker = "queued"
    /\ worker' = "done"
    /\ told' = "task_failed"
    /\ summary' = "raised"
    /\ UNCHANGED <<vars, tree, report, token, commit>>

(* A task validator, the agent registry or the collaboration thread refuses *)
(* the task: the exception leaves _run through its finally clause, and no   *)
(* terminal event is emitted.                                               *)
Refused ==
    /\ worker = "working" /\ state = "IDLE"
    /\ worker' = "releasing"
    /\ summary' = "raised"
    /\ UNCHANGED <<vars, tree, report, token, commit, told>>

-----------------------------------------------------------------------------
(* The runtime hook, called by QA after a PASS.                            *)

Written(fix, whole) == [writer |-> artifact["writer"], fix |-> fix, whole |-> whole]

(* The contents the hook can leave: the stored writer artifact, overlaid by *)
(* the stored fix if it is acceptable, or by a part of it.                  *)
HookWrites ==
    IF artifact["fix"] \in Writable
    THEN {Written(artifact["fix"], TRUE), Written(artifact["fix"], FALSE)}
    ELSE {Written(None, TRUE)}

(* The code whose files decide the content.                                *)
CodeOn(content) == IF content.fix = None THEN content.writer ELSE content.fix

(* Mutant of HookValidates: the report is about what was there before.     *)
HookValidatesFirst(ok) ==
    /\ artifact["writer"] \in Writable
    /\ tree' \in HookWrites
    /\ report' = [of |-> tree, ok |-> ok]

HookValidates(ok) ==
    /\ artifact["writer"] \in Writable
    /\ tree' \in HookWrites
    /\ report' = [of |-> tree', ok |-> ok]

(* The hook raises: the writer's answer is not acceptable, or the adapter or *)
(* the validator fails after the files were written.                        *)
HookRaises ==
    /\ RuntimeBreaks
    /\ \/ UNCHANGED tree
       \/ artifact["writer"] \in Writable /\ tree' \in HookWrites
    /\ UNCHANGED report

Pipeline ==
    /\ worker = "working"
    /\ \/ Start /\ UNCHANGED <<tree, report>>
       \/ StopAtLimit /\ UNCHANGED <<tree, report>>
       \/ AgentStep /\ UNCHANGED <<tree, report>>
       \/ QaPasses /\ HookValidates(TRUE)
       \/ HookValidates(FALSE) /\ RuntimeRejects(CodeOn(tree'))
       \/ HookRaises
    /\ UNCHANGED <<worker, token, commit, told, summary>>

-----------------------------------------------------------------------------
(* After the pipeline.                                                     *)

Returned == worker = "working" /\ IsTerminal(state)

(* Mutant of JudgeFailed: a failure is reported although the user stopped.  *)
JudgeFailedUnasked ==
    /\ Returned /\ state # "SUCCESS"
    /\ summary' = state
    /\ told' = "task_failed"
    /\ worker' = "releasing"
    /\ UNCHANGED <<vars, tree, report, token, commit>>

(* Mutant of JudgeSuccess: the token is not looked at.                     *)
JudgeSuccessUnasked ==
    /\ Returned /\ state = "SUCCESS"
    /\ worker' = "committing"
    /\ UNCHANGED <<vars, tree, report, token, commit, told, summary>>

(* The token is read once, when Orchestrator.run has returned.             *)
JudgeCancelled ==
    /\ Returned /\ token
    /\ summary' = "CANCELLED"
    /\ worker' = "releasing"
    /\ UNCHANGED <<vars, tree, report, token, commit, told>>

JudgeFailed ==
    /\ Returned /\ ~token /\ state # "SUCCESS"
    /\ summary' = state
    /\ told' = "task_failed"
    /\ worker' = "releasing"
    /\ UNCHANGED <<vars, tree, report, token, commit>>

JudgeSuccess ==
    /\ Returned /\ ~token /\ state = "SUCCESS"
    /\ worker' = "committing"
    /\ UNCHANGED <<vars, tree, report, token, commit, told, summary>>

(* commit_in_worktree commits all the worktree holds.                      *)
Commit ==
    /\ worker = "committing"
    /\ commit' = tree
    /\ told' = "task_completed"
    /\ summary' = "SUCCESS"
    /\ worker' = "releasing"
    /\ UNCHANGED <<vars, tree, report, token>>

(* Mutant of CommitReportedFailed: the event is emitted before the commit.  *)
CommitAnnouncedFirst ==
    /\ worker = "committing"
    /\ told' = "task_completed"
    /\ summary' = "FAIL"
    /\ worker' = "releasing"
    /\ UNCHANGED <<vars, tree, report, token>>

CommitReportedFailed ==
    /\ worker = "committing"
    /\ told' = "task_failed"
    /\ summary' = "FAIL"
    /\ worker' = "releasing"
    /\ UNCHANGED <<vars, tree, report, token>>

(* Nothing to commit, or git add or git commit fails.                      *)
CommitFails == CommitReportedFailed /\ UNCHANGED commit

(* git commit succeeds, but git rev-parse HEAD does not.                   *)
CommitUnconfirmed == CommitReportedFailed /\ commit' = tree

(* The finally clause; release keeps the branch and removes the worktree.   *)
Release ==
    /\ worker = "releasing"
    /\ worker' = "done"
    /\ tree' = None
    /\ UNCHANGED <<vars, report, token, commit, told, summary>>

(* BackgroundTaskRunner.cancel, from another thread, while _run is active.  *)
Stop ==
    /\ worker # "done"
    /\ token' = TRUE
    /\ UNCHANGED <<vars, worker, tree, report, commit, told, summary>>

-----------------------------------------------------------------------------
WorkerStep ==
    \/ Acquire \/ AcquireFails \/ Refused
    \/ Pipeline
    \/ JudgeCancelled \/ JudgeFailed \/ JudgeSuccess
    \/ Commit \/ CommitFails \/ CommitUnconfirmed
    \/ Release

RunNext == WorkerStep \/ Stop

(* The worker thread runs until _run returns; nobody has to press /stop.    *)
RunSpec == RunInit /\ [][RunNext]_allVars /\ WF_allVars(WorkerStep)

-----------------------------------------------------------------------------
(* Properties.                                                             *)

(* What reaches the feature branch is the very content the validator last   *)
(* accepted, on a run that succeeded with an approved review: nothing       *)
(* touches the worktree between the hook and the commit, whatever the       *)
(* repair loops did before.                                                 *)
CommittedIsValidated ==
    commit # None =>
        /\ state = "SUCCESS"
        /\ report = [of |-> commit, ok |-> TRUE]
        /\ latestReview = [verdict |-> "APPROVED", about |-> latestCode]

(* A /stop that arrives while the pipeline runs prevents the commit for     *)
(* good, although the pipeline cannot be interrupted and may still succeed. *)
StopWhileRunningPreventsCommit ==
    [](token /\ worker \in {"queued", "working"} => [](commit = None))

(* The terminal event in the chat agrees with the branch and the summary:   *)
(* "completed" only with a commit behind it and a SUCCESS to come, and      *)
(* never after a run the user stopped in time.                              *)
TerminalEventIsTrue ==
    /\ told = "task_completed" => commit # None /\ summary = "SUCCESS"
    /\ summary = "CANCELLED" => told = "nothing" /\ commit = None

Phase ==
    CASE worker \in {"queued", "working"} -> "open"
      [] worker = "committing"            -> "committing"
      [] worker = "releasing"             -> "ending"
      [] OTHER                            -> "returned"

Contract == INSTANCE TaskRun WITH
    phase     <- Phase,
    verdict   <- summary,
    committed <- commit # None

(* The run keeps the contract the task handler relies on.                  *)
KeepsContract == Contract!Spec
=============================================================================
