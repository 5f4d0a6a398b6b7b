----------------------------- MODULE HiringDesk -----------------------------
(***************************************************************************)
(* What the database promises of a project's team, whoever works on it and  *)
(* however the steps of their commands interleave: a role is asked for only *)
(* while it is absent and nobody else has asked; a request is decided once; *)
(* approving it and putting its role on the team is one step; a rejected    *)
(* request puts nobody on the team.  ProjectTeam implements this            *)
(* specification.                                                           *)
(***************************************************************************)
CONSTANTS Role, Request, None

VARIABLES
    roster,  \* the roles on the team
    about,   \* the role a request asks for
    status   \* "unused": the request does not exist yet

vars == <<roster, about, status>>

Init ==
    /\ roster = {}
    /\ about = [i \in Request |-> None]
    /\ status = [i \in Request |-> "unused"]

Ask(i, r) ==
    /\ status[i] = "unused"
    /\ r \notin roster
    /\ \A j \in Request : about[j] = r => status[j] # "pending"
    /\ about' = [about EXCEPT ![i] = r]
    /\ status' = [status EXCEPT ![i] = "pending"]
    /\ UNCHANGED roster

Approve(i) ==
    /\ status[i] = "pending"
    /\ status' = [status EXCEPT ![i] = "approved"]
    /\ roster' = roster \cup {about[i]}
    /\ UNCHANGED about

Reject(i) ==
    /\ status[i] = "pending"
    /\ status' = [status EXCEPT ![i] = "rejected"]
    /\ UNCHANGED <<roster, about>>

Hire(r) ==
    /\ r \notin roster
    /\ roster' = roster \cup {r}
    /\ UNCHANGED <<about, status>>

Dismiss(r) ==
    /\ r \in roster
    /\ roster' = roster \ {r}
    /\ UNCHANGED <<about, status>>

Next ==
    \/ \E i \in Request : Approve(i) \/ Reject(i) \/ \E r \in Role : Ask(i, r)
    \/ \E r \in Role : Hire(r) \/ Dismiss(r)

Spec == Init /\ [][Next]_vars
=============================================================================
