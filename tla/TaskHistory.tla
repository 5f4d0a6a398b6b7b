---------------------------- MODULE TaskHistory ----------------------------
(***************************************************************************)
(* core/task_history.py over the task_history table of core/state_db.py:   *)
(* a ring of the last tasks, an index from a task id to its newest entry,  *)
(* and the same entries in the database, trimmed after every insert in a   *)
(* transaction of its own.  An id is free text to the history: it may come *)
(* twice.                                                                  *)
(***************************************************************************)
EXTENDS Integers, SequencesExt

CONSTANTS Task, Project, MaxLen

ASSUME MaxLenAssumption == MaxLen \in Nat \ {0}

VARIABLES db,     \* the rows of the table, oldest first
          memory, \* the deque and _by_id of the TaskHistory
          gap     \* a row was inserted that the memory was not told of

history == <<db, memory, gap>>

(* A summary: its commit_sha is there or it is None.                       *)
Entry(t, p, committed) == [task |-> t, project |-> p, committed |-> committed]

(* _by_id holds the summary itself: here, its place in the ring, or 0.     *)
Empty == [ring |-> <<>>, byId |-> [t \in Task |-> 0]]

Full(m) == Len(m.ring) = MaxLen

(* Plausible bug: the evicted entry's id is forgotten, whoever holds it.   *)
EvictAnyway(m) ==
    [ring |-> Tail(m.ring),
     byId |-> [t \in Task |-> IF t = m.ring[1].task \/ m.byId[t] = 0
                              THEN 0 ELSE m.byId[t] - 1]]

(* An id is forgotten with its entry, unless a newer entry has replaced it. *)
Evict(m) ==
    [ring |-> Tail(m.ring),
     byId |-> [t \in Task |-> IF m.byId[t] \in (IF t = m.ring[1].task THEN {0, 1} ELSE {0})
                              THEN 0 ELSE m.byId[t] - 1]]

AppendLocked(m, s) ==
    LET kept == IF Full(m) THEN Evict(m) ELSE m
    IN  [ring |-> Append(kept.ring, s),
         byId |-> [kept.byId EXCEPT ![s.task] = Len(kept.ring) + 1]]

Newest(s) == SubSeq(s, Len(s) - (IF Len(s) < MaxLen THEN Len(s) ELSE MaxLen) + 1, Len(s))

(* recent_tasks, and trim_task_history: all but the newest rows go.        *)
RecentTasks == Newest(db)

(* Plausible bug: the rows come newest first, as the query has them.       *)
LoadedReversed == FoldLeft(AppendLocked, Empty, Reverse(RecentTasks))
Loaded == FoldLeft(AppendLocked, Empty, RecentTasks)

Load == memory' = Loaded /\ gap' = FALSE /\ db' = db
Forget == memory' = Empty /\ gap' = FALSE /\ db' = db

(* record_task: a row more.                                                *)
Inserted(s) == Append(db, s)

(* record: insert, trim, then the memory.  Either transaction may raise,   *)
(* and the caller suppresses what it raises.                               *)
Record(s) ==
    \/ db' = Newest(Inserted(s)) /\ memory' = AppendLocked(memory, s) /\ gap' = gap
    \/ UNCHANGED history
    \/ db' = Inserted(s) /\ memory' = memory /\ gap' = TRUE

(* get: the newest summary of a task, if the ring still has one.           *)
Known(t) == memory.byId[t] # 0
Get(t) == memory.ring[memory.byId[t]]

-----------------------------------------------------------------------------
(* The index and the ring are kept in step by hand: get answers with the   *)
(* newest entry of the id that the ring has, and with nothing only if the  *)
(* ring has none, after any evictions, repeated ids and restarts.          *)
IndexIsNewest ==
    \A t \in Task :
        LET places == {i \in 1..Len(memory.ring) : memory.ring[i].task = t}
        IN  IF places = {} THEN memory.byId[t] = 0
            ELSE memory.byId[t] \in places /\ \A i \in places : i <= memory.byId[t]
=============================================================================
