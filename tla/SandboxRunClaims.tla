-------------------------- MODULE SandboxRunClaims --------------------------
(***************************************************************************)
(* What the repository says of a task's run and the code does not do.      *)
(***************************************************************************)
EXTENDS SandboxRun

(* Contract 10 of core/orchestrator.py: the runtime hook rules out a SUCCESS *)
(* on code that did not go through the real tools.  The hook reads the       *)
(* stored "fix" artifact, which is the first fix and is never replaced: after *)
(* a second fix what is validated and committed is not the code the reviewer *)
(* and QA passed.  Fixes that cannot be written, or only in part, are        *)
(* documented to fall back on the baseline and are left out.                 *)
SuccessIsOnCheckedCode ==
    commit # None /\ latestCode \in Writable /\ commit.whole
        => CodeOn(commit) = latestCode
=============================================================================
