------------------------------ MODULE AgentBus ------------------------------
(***************************************************************************)
(* The internal mail of a project's agents (core/agent_bus.py over          *)
(* core/state_db.py) and its posts to the project's chat                    *)
(* (core/agent_bus_projection.py, core/agent_bus_projection_throttle.py):   *)
(* the first messages of a burst one by one, the rest in summaries.         *)
(*                                                                         *)
(* A message is persisted in one transaction and projected afterwards, by   *)
(* the thread that published it.  To post is to hand a coroutine to the     *)
(* event loop of a bot and go on (_build_send_progress_envelope_callable):  *)
(* the send may fail later, which is logged and never told to the bus, and  *)
(* nothing orders one send after another.  The properties are therefore     *)
(* about what is handed over and in which order, not what the chat shows.   *)
(*                                                                         *)
(* Threads are numbered as they are opened, one per task, and messages as   *)
(* they are inserted; neither is ever closed or deleted.  Times are 1, 2,   *)
(* ...; 0 stands for "none".                                               *)
(***************************************************************************)
EXTENDS Naturals, FiniteSets, SequencesExt

CONSTANTS
    Task,
    Role,          \* the agents of the pipeline
    RawLimit,      \* raw_burst_limit
    BatchSize,     \* summary_batch_size
    Window,        \* burst_window_seconds
    MaxFailedSends \* bound: posts whose send fails

ASSUME BusAssumption ==
    /\ IsFiniteSet(Task)
    /\ RawLimit \in Nat \ {0} /\ BatchSize \in Nat \ {0, 1} /\ Window \in Nat
    /\ MaxFailedSends \in Nat

VARIABLES
    threads,     \* the threads in the database, with the time of their last message
    log,         \* the messages in the database
    projecting,  \* the message persisted and not yet projected, or 0
    throttle,    \* the throttle's state of each thread, in memory
    outbox,      \* the posts handed over to the bots
    undelivered, \* those whose send failed, or was cut off by the process's end
    missed,      \* messages whose own post was not handed over
    lost,        \* messages that a crash or an exception took before that
    epoch        \* how many messages there were at the last crash

busVars == <<threads, log, projecting, throttle, outbox, undelivered, missed, lost, epoch>>

Id == DOMAIN log
Thread == 1..Cardinality(Task)

Fresh == [raw |-> 0, last |-> 0, deferred |-> <<>>, suppressed |-> <<>>]

BusInit ==
    /\ threads = <<>> /\ log = <<>> /\ projecting = 0
    /\ throttle = [t \in Thread |-> Fresh]
    /\ outbox = <<>> /\ undelivered = {} /\ missed = {} /\ lost = {} /\ epoch = 0

-----------------------------------------------------------------------------
(* The database.                                                            *)

ThreadOf(task) == {t \in DOMAIN threads : threads[t].task = task}
TheThread(task) == CHOOSE t \in ThreadOf(task) : TRUE

(* get_or_open_task_thread.                                                  *)
OpenThread(task, now) ==
    threads' = IF ThreadOf(task) # {} THEN threads
               ELSE Append(threads, [task |-> task, last |-> now])

(* _insert_agent_bus_message_conn: refused if older than the thread's last.   *)
Accepted(m) ==
    /\ m.at >= threads[m.thread].last
    /\ m.re # 0 => m.re \in Id /\ log[m.re].re = 0 /\ log[m.re].thread = m.thread

Persist(m) ==
    /\ projecting = 0 /\ Accepted(m)
    /\ log' = Append(log, m)
    /\ threads' = [threads EXCEPT ![m.thread].last = m.at]
    /\ projecting' = Len(log')
    /\ UNCHANGED <<throttle, outbox, undelivered, missed, lost, epoch>>

-----------------------------------------------------------------------------
(* The throttle.  A post is handed over or not: no chat is bound, it is of     *)
(* another provider, or the callable raises.                                 *)

(* kind: "raw", "summary", or "late", a summary of a burst long over.         *)
Posts(sent, t, ids, kind) ==
    IF sent THEN <<[thread |-> t, ids |-> ids, kind |-> kind]>> ELSE <<>>

IsIdleGap(s, at) == s.last # 0 /\ at > s.last + Window

(* Plausible bug: a burst's unsent tail goes with it.                         *)
CloseStaleBurstDropping(s, sent) == [s EXCEPT !.raw = 0, !.last = 0, !.suppressed = <<>>]

CloseStaleBurst(s, sent) ==
    [raw |-> 0, last |-> 0, suppressed |-> <<>>,
     deferred |-> IF sent \/ s.suppressed = <<>> THEN s.deferred
                  ELSE Append(s.deferred, s.suppressed)]

IsRaw(s) == s.suppressed = <<>> /\ s.raw < RawLimit

(* Plausible bug: the batch is kept after it was posted.                      *)
AppendSuppressedKeeping(s, id, sent) == [s EXCEPT !.suppressed = Append(@, id)]

AppendSuppressed(s, id, sent) ==
    [s EXCEPT !.suppressed =
        IF sent /\ Len(@) + 1 >= BatchSize THEN <<>> ELSE Append(@, id)]

(* _handle_persisted_message: sentStale says whether the stale burst's summary  *)
(* is handed over, sent whether the message's own post, or its batch's, is.    *)
Project(sentStale, sent) ==
    LET id == projecting
        t == log[id].thread
        old == throttle[t]
        stale == IsIdleGap(old, log[id].at)
        now == [(IF stale THEN CloseStaleBurst(old, sentStale) ELSE old)
                   EXCEPT !.last = log[id].at]
        tail == Posts(stale /\ sentStale /\ old.suppressed # <<>>, t, old.suppressed, "summary")
        batch == Append(now.suppressed, id)
    IN  /\ id # 0
        /\ projecting' = 0
        /\ \/ /\ IsRaw(now)
              /\ throttle' = [throttle EXCEPT ![t] = [now EXCEPT !.raw = @ + 1]]
              /\ outbox' = outbox \o tail \o Posts(sent, t, <<id>>, "raw")
              /\ missed' = IF sent THEN missed ELSE missed \cup {id}
           \/ /\ ~IsRaw(now)
              /\ throttle' = [throttle EXCEPT ![t] = AppendSuppressed(now, id, sent)]
              /\ outbox' = outbox \o tail
                              \o Posts(sent /\ Len(batch) >= BatchSize, t, batch, "summary")
              /\ missed' = missed
        /\ UNCHANGED <<threads, log, undelivered, lost, epoch>>

(* It raises, once the message is in the log: before anything was noted of the  *)
(* message, reading its thread or with the stale burst's summary ...           *)
Skip ==
    /\ projecting # 0 /\ projecting' = 0
    /\ lost' = lost \cup {projecting}
    /\ UNCHANGED <<threads, log, throttle, outbox, undelivered, missed, epoch>>

(* ... or with its own post, which counts, or its batch's, which is kept.       *)
ProjectAndRaise(sentStale) ==
    /\ Project(sentStale, FALSE)
    /\ Len(throttle'[log[projecting].thread].suppressed) \notin 1..(BatchSize - 1)

(* flush_thread, one post of it: it stops at the first that is not handed over *)
(* or raises.  Only tests call it.                                           *)
Flush(t) ==
    LET s == throttle[t]
        batch == IF s.deferred # <<>> THEN Head(s.deferred) ELSE s.suppressed
    IN  /\ projecting = 0 /\ batch # <<>>
        /\ throttle' = [throttle EXCEPT ![t] =
               IF s.deferred # <<>> THEN [s EXCEPT !.deferred = Tail(@)]
               ELSE [s EXCEPT !.suppressed = <<>>]]
        /\ outbox' = outbox \o Posts(TRUE, t, batch, IF s.deferred # <<>> THEN "late" ELSE "summary")
        /\ UNCHANGED <<threads, log, projecting, undelivered, missed, lost, epoch>>

(* A send fails, at any time after it was handed over.                        *)
SendFails(p) ==
    /\ p \notin undelivered /\ Cardinality(undelivered) < MaxFailedSends
    /\ undelivered' = undelivered \cup {p}
    /\ UNCHANGED <<threads, log, projecting, throttle, outbox, missed, lost, epoch>>

Held(t) ==
    (UNION {ToSet(batch) : batch \in ToSet(throttle[t].deferred)})
    \cup ToSet(throttle[t].suppressed)

BusCrash ==
    /\ lost' = lost \cup (UNION {Held(t) : t \in Thread}) \cup ({projecting} \ {0})
    /\ projecting' = 0
    /\ throttle' = [t \in Thread |-> Fresh]
    /\ epoch' = Len(log)
    /\ UNCHANGED <<threads, log, outbox, undelivered, missed>>

-----------------------------------------------------------------------------
(* Properties.                                                              *)

(* Every message the database has is in one place: in one post that was handed  *)
(* over, alone or in a summary, or in one whose send failed, or kept for a       *)
(* summary, or its own post was not handed over, or a crash or an exception      *)
(* took it.  Nothing is handed over twice, a summary that was not is kept, and    *)
(* only a failed send, after the batch was cleared, drops messages unseen.       *)
Places(i) ==
    LET s == throttle[log[i].thread]
    IN  ({"handed over"} \X {p \in DOMAIN outbox \ undelivered : i \in ToSet(outbox[p].ids)})
        \cup ({"undelivered"} \X {p \in undelivered : i \in ToSet(outbox[p].ids)})
        \cup ({"deferred"} \X {k \in DOMAIN s.deferred : i \in ToSet(s.deferred[k])})
        \cup ({"suppressed"} \X {k \in DOMAIN s.suppressed : s.suppressed[k] = i})
        \cup ({"missed"} \X (missed \cap {i})) \cup ({"lost"} \X (lost \cap {i}))
        \cup ({"projecting"} \X ({projecting} \cap {i}))

AccountedFor == \A i \in Id : \E place \in Places(i) : Places(i) = {place}

(* A thread's messages are handed over in the order of the database; only a     *)
(* batch whose summary was kept and whose burst is over may come later, with     *)
(* flush, and such batches come in order among themselves.                      *)
PostsFollowLog ==
    /\ \A p \in DOMAIN outbox : \A j, k \in DOMAIN outbox[p].ids :
          j < k => outbox[p].ids[j] < outbox[p].ids[k]
    /\ \A p, q \in DOMAIN outbox :
          /\ p < q /\ outbox[p].thread = outbox[q].thread
          /\ outbox[q].kind = "late" => outbox[p].kind = "late"
          => \A j \in DOMAIN outbox[p].ids, k \in DOMAIN outbox[q].ids :
                outbox[p].ids[j] < outbox[q].ids[k]

(* The point of the throttle: between two pauses of a thread, among the messages *)
(* that reached the throttle, at most RawLimit are posted one by one.            *)
OfThread(t) == {i \in Id : log[i].thread = t}
Reached(t) == OfThread(t) \ lost
SameBurst(i, j) ==
    \A k \in Reached(log[i].thread) : k \in (i + 1)..j =>
       \E h \in Reached(log[i].thread) : h \in i..(k - 1) /\ log[k].at <= log[h].at + Window

Alone(i) == i \in missed \/ \E p \in DOMAIN outbox : outbox[p] = Posts(TRUE, log[i].thread, <<i>>, "raw")[1]

BurstsAreThrottled ==
    \A j \in Id \ (0..epoch) : Alone(j) =>
       Cardinality({i \in OfThread(log[j].thread) :
                      epoch < i /\ i <= j /\ Alone(i) /\ SameBurst(i, j)}) <= RawLimit
=============================================================================
