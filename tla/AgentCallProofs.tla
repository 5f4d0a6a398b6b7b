--------------------------- MODULE AgentCallProofs ---------------------------
(***************************************************************************)
(* Theorems about AgentCall and the AgentBus under it, for any finite set   *)
(* of tasks, any agents, chains of models, limits, windows and crashes.     *)
(***************************************************************************)
EXTENDS AgentCall, FunctionTheorems, FiniteSetTheorems,
        SequenceTheorems, TLAPS

Agent == Role \cup Askable \cup {None}
Time == Nat \ {0}
ThreadRow == [task : Task, last : Time]
Message == [thread : Nat, re : Nat, at : Time, from : Agent, to : Agent]
Throttle == [raw : Nat, last : Nat, deferred : Seq(Seq(Nat)), suppressed : Seq(Nat)]
Post == [thread : Nat, ids : Seq(Nat), kind : {"raw", "summary", "late"}]
Amount == [answers : Nat, attempts : Nat]
Phase == {"idle", "dispatch", "publish", "consult", "answered", "returned", "raised"}

BusTypes ==
    /\ threads \in Seq(ThreadRow) /\ log \in Seq(Message) /\ projecting \in Nat
    /\ throttle \in [Thread -> Throttle]
    /\ outbox \in Seq(Post) /\ undelivered \subseteq DOMAIN outbox
    /\ missed \subseteq Nat /\ lost \subseteq Nat /\ epoch \in Nat

CallTypes ==
    /\ task \in Task \cup {None} /\ phase \in Phase
    /\ role \in Agent /\ asked \in Agent /\ request \in Nat
    /\ model \in 1..Models /\ consults \in Nat
    /\ total \in Amount /\ usage \in Amount /\ posts \in Amount

TypeOK == BusTypes /\ CallTypes

(* A task has one thread, and a message is in one that is there.            *)
ThreadInv ==
    /\ \A s, t \in DOMAIN threads : threads[s].task = threads[t].task => s = t
    /\ DOMAIN threads \subseteq Thread
    /\ task # None => ThreadOf(task) # {}
    /\ \A i \in Id : log[i].thread \in DOMAIN threads

(* The time of a thread is that of its last message, or later; an answer    *)
(* is the message after its question.                                       *)
LogInv ==
    /\ \A i \in Id : log[i].at <= threads[log[i].thread].last
    /\ \A i, j \in Id : j < i /\ log[j].thread = log[i].thread => log[j].at <= log[i].at
    /\ \A i \in Id : log[i].re # 0 =>
          LET q == log[log[i].re]
          IN  /\ log[i].re \in Id /\ i = log[i].re + 1
              /\ q.re = 0 /\ q.thread = log[i].thread /\ q.at < log[i].at
              /\ q.from = log[i].to /\ q.to = log[i].from

(* The question a consultation waits for is the last message there is.      *)
RequestInv ==
    phase \in {"consult", "answered"} =>
        /\ request # 0 /\ request = Len(log) /\ log[request].re = 0
        /\ log[request].from = role /\ log[request].to = asked

(* What a call has asked of the models: every answer is counted, and every  *)
(* model tried since the last one.                                          *)
Answers ==
    CASE phase = "dispatch" -> 2 * consults
      [] phase \in {"publish", "consult", "returned"} -> 2 * consults + 1
      [] OTHER -> 2 * consults + 2

UsageInv ==
    phase \in {"dispatch", "publish", "consult", "answered", "returned"} =>
        /\ consults <= MaxConsults
        /\ phase \in {"publish", "consult", "answered"} => consults < MaxConsults
        /\ phase \notin {"dispatch", "consult"} => model = 1
        /\ posts.answers = total.answers /\ total.answers = Answers
        /\ posts.attempts = total.attempts + (model - 1)
        /\ total.attempts <= Models * Answers
        /\ phase = "returned" => usage = total

-----------------------------------------------------------------------------
(* Steps of the bus and of the call.                                        *)

(* An answer is to the last message, which was a question.                  *)
Answering(m) ==
    LET q == log[m.re]
    IN  /\ m.re \in Id /\ m.re = Len(log)
        /\ q.re = 0 /\ q.thread = m.thread /\ q.at < m.at
        /\ q.from = m.to /\ q.to = m.from

Publishes(m) ==
    /\ Persist(m) /\ m \in Message /\ m.thread \in DOMAIN threads
    /\ m.re # 0 => Answering(m)

OpensThread ==
    /\ \E t \in Task, now \in Now : OpenThread(t, now)
    /\ UNCHANGED <<log, projecting, throttle, outbox, undelivered, missed, lost, epoch>>

BusStep ==
    \/ \E m : Publishes(m)
    \/ \E sentStale, sent \in BOOLEAN : Project(sentStale, sent)
    \/ Skip
    \/ \E t \in Thread : Flush(t)
    \/ \E p \in DOMAIN outbox : SendFails(p)
    \/ OpensThread \/ BusCrash \/ UNCHANGED busVars

LEMMA ThreadThere ==
    ASSUME TypeOK, ThreadInv, task # None
    PROVE  TheThread(task) \in DOMAIN threads /\ TheThread(task) \in Nat
                /\ threads[TheThread(task)].task = task
<1>1. TheThread(task) \in ThreadOf(task)
  BY DEF TheThread, ThreadInv
<1>2. QED BY <1>1 DEF ThreadOf, TypeOK, BusTypes

-----------------------------------------------------------------------------
(* What is projected is the last message; the rest was projected before.    *)
LastInv == projecting \in {0, Len(log)}

(* The throttle's state once a message of time at is seen.                  *)
Seen(s, at, sentStale) ==
    [(IF IsIdleGap(s, at) THEN CloseStaleBurst(s, sentStale) ELSE s) EXCEPT !.last = at]

LEMMA ThrottleFields ==
    ASSUME NEW s \in Throttle
    PROVE  /\ s.raw \in Nat /\ s.last \in Nat
           /\ s.deferred \in Seq(Seq(Nat)) /\ s.suppressed \in Seq(Nat)
  BY DEF Throttle

LEMMA WithDeferred ==
    ASSUME NEW s \in Throttle, NEW x \in Seq(Seq(Nat))
    PROVE  LET n == [s EXCEPT !.deferred = x]
           IN  /\ n \in Throttle /\ n.deferred = x /\ n.suppressed = s.suppressed
               /\ n.raw = s.raw /\ n.last = s.last
  BY DEF Throttle

LEMMA WithSuppressed ==
    ASSUME NEW s \in Throttle, NEW x \in Seq(Nat)
    PROVE  LET n == [s EXCEPT !.suppressed = x]
           IN  /\ n \in Throttle /\ n.deferred = s.deferred /\ n.suppressed = x
               /\ n.raw = s.raw /\ n.last = s.last
  BY DEF Throttle

LEMMA WithRaw ==
    ASSUME NEW s \in Throttle, NEW x \in Nat
    PROVE  LET n == [s EXCEPT !.raw = x]
           IN  /\ n \in Throttle /\ n.deferred = s.deferred /\ n.suppressed = s.suppressed
               /\ n.raw = x /\ n.last = s.last
  BY DEF Throttle

LEMMA WithLast ==
    ASSUME NEW s \in Throttle, NEW x \in Nat
    PROVE  LET n == [s EXCEPT !.last = x]
           IN  /\ n \in Throttle /\ n.deferred = s.deferred /\ n.suppressed = s.suppressed
               /\ n.raw = s.raw /\ n.last = x
  BY DEF Throttle

LEMMA ClosedBurst ==
    ASSUME NEW s \in Throttle, NEW sent \in BOOLEAN
    PROVE  LET n == CloseStaleBurst(s, sent)
           IN  /\ n \in Throttle /\ n.raw = 0 /\ n.suppressed = <<>>
               /\ sent \/ s.suppressed = <<>> => n.deferred = s.deferred
               /\ ~sent /\ s.suppressed # <<>> => n.deferred = Append(s.deferred, s.suppressed)
<1>1. s.deferred \in Seq(Seq(Nat)) /\ s.suppressed \in Seq(Nat)
  BY ThrottleFields
<1>2. Append(s.deferred, s.suppressed) \in Seq(Seq(Nat)) /\ <<>> \in Seq(Nat)
  BY <1>1
<1> DEFINE x == IF sent \/ s.suppressed = <<>> THEN s.deferred ELSE Append(s.deferred, s.suppressed)
<1>3. x \in Seq(Seq(Nat))
  BY <1>1, <1>2
<1>4. CloseStaleBurst(s, sent) = [raw |-> 0, last |-> 0, suppressed |-> <<>>, deferred |-> x]
  BY DEF CloseStaleBurst
<1> HIDE DEF x
<1>5. [raw |-> 0, last |-> 0, suppressed |-> <<>>, deferred |-> x] \in Throttle
  BY <1>2, <1>3 DEF Throttle
<1>6. CloseStaleBurst(s, sent).deferred = x /\ CloseStaleBurst(s, sent).suppressed = <<>>
        /\ CloseStaleBurst(s, sent).raw = 0
  BY <1>4
<1>7. QED BY <1>4, <1>5, <1>6 DEF x

LEMMA SeenIs ==
    ASSUME NEW s \in Throttle, NEW at \in Nat, NEW sent \in BOOLEAN
    PROVE  LET n == Seen(s, at, sent)
           IN  /\ n \in Throttle /\ n.last = at
               /\ ~IsIdleGap(s, at) =>
                     n.raw = s.raw /\ n.suppressed = s.suppressed /\ n.deferred = s.deferred
               /\ IsIdleGap(s, at) =>
                     /\ n.raw = 0 /\ n.suppressed = <<>>
                     /\ sent \/ s.suppressed = <<>> => n.deferred = s.deferred
                     /\ ~sent /\ s.suppressed # <<>> => n.deferred = Append(s.deferred, s.suppressed)
<1>1. CASE IsIdleGap(s, at)
  <2>1. Seen(s, at, sent) = [CloseStaleBurst(s, sent) EXCEPT !.last = at]
    BY <1>1 DEF Seen
  <2>2. CloseStaleBurst(s, sent) \in Throttle
    BY ClosedBurst
  <2>3. QED BY <1>1, <2>1, <2>2, ClosedBurst, WithLast
<1>2. CASE ~IsIdleGap(s, at)
  <2>1. Seen(s, at, sent) = [s EXCEPT !.last = at]
    BY <1>2 DEF Seen
  <2>2. QED BY <1>2, <2>1, WithLast
<1>3. QED BY <1>1, <1>2

-----------------------------------------------------------------------------
(* A projection, taken apart: the thread of the message, its throttle       *)
(* before, its throttle once the message is seen, the summary of a burst    *)
(* that is over, and the batch the message would join.                      *)
ItsThread == log[projecting].thread
Before == throttle[ItsThread]
Over == IsIdleGap(Before, log[projecting].at)
Upon(sentStale) == Seen(Before, log[projecting].at, sentStale)
StaleSummary(sentStale) ==
    Posts(Over /\ sentStale /\ Before.suppressed # <<>>, ItsThread, Before.suppressed, "summary")
Batch(sentStale) == Append(Upon(sentStale).suppressed, projecting)

ProjectedRaw(sentStale, sent) ==
    /\ IsRaw(Upon(sentStale))
    /\ throttle' = [throttle EXCEPT ![ItsThread] =
                       [Upon(sentStale) EXCEPT !.raw = Upon(sentStale).raw + 1]]
    /\ outbox' = outbox \o StaleSummary(sentStale) \o Posts(sent, ItsThread, <<projecting>>, "raw")
    /\ missed' = IF sent THEN missed ELSE missed \cup {projecting}

ProjectedInBatch(sentStale, sent) ==
    LET full == sent /\ Len(Batch(sentStale)) >= BatchSize
    IN  /\ ~IsRaw(Upon(sentStale))
        /\ throttle' = [throttle EXCEPT ![ItsThread] =
               [Upon(sentStale) EXCEPT !.suppressed = IF full THEN <<>> ELSE Batch(sentStale)]]
        /\ outbox' = outbox \o StaleSummary(sentStale)
                        \o Posts(full, ItsThread, Batch(sentStale), "summary")
        /\ missed' = missed

LEMMA PostsAre ==
    ASSUME NEW sent, NEW t \in Nat, NEW ids \in Seq(Nat),
           NEW kind \in {"raw", "summary", "late"}
    PROVE  /\ sent => Posts(sent, t, ids, kind) = <<[thread |-> t, ids |-> ids, kind |-> kind]>>
           /\ ~sent => Posts(sent, t, ids, kind) = <<>>
           /\ [thread |-> t, ids |-> ids, kind |-> kind] \in Post
           /\ Posts(sent, t, ids, kind) \in Seq(Post)
<1>1. [thread |-> t, ids |-> ids, kind |-> kind] \in Post
  BY DEF Post
<1>2. <<[thread |-> t, ids |-> ids, kind |-> kind]>> \in Seq(Post) /\ <<>> \in Seq(Post)
  BY <1>1
<1>3. QED BY <1>1, <1>2 DEF Posts

LEMMA ProjectIs ==
    ASSUME BusTypes, LastInv, \A i \in Id : log[i].thread \in Thread,
           NEW sentStale \in BOOLEAN, NEW sent \in BOOLEAN, Project(sentStale, sent)
    PROVE  /\ projecting = Len(log) /\ projecting \in Id /\ projecting \in Nat \ {0}
           /\ log[projecting] \in Message /\ ItsThread \in Thread /\ ItsThread \in Nat
           /\ log[projecting].at \in Time /\ Before \in Throttle
           /\ Upon(sentStale) \in Throttle /\ Batch(sentStale) \in Seq(Nat)
           /\ StaleSummary(sentStale) \in Seq(Post)
           /\ projecting' = 0 /\ UNCHANGED <<threads, log, undelivered, lost, epoch>>
           /\ ProjectedRaw(sentStale, sent) \/ ProjectedInBatch(sentStale, sent)
<1>1. projecting = Len(log) /\ projecting \in Id /\ projecting \in Nat \ {0}
  <2>1. projecting # 0
    BY DEF Project
  <2>2. Len(log) \in Nat /\ DOMAIN log = 1..Len(log)
    BY DEF BusTypes
  <2>3. projecting = Len(log)
    BY <2>1 DEF LastInv
  <2>4. QED BY <2>1, <2>2, <2>3 DEF Id
<1>2. log[projecting] \in Message
  BY <1>1 DEF BusTypes
<1>3. ItsThread \in Thread /\ ItsThread \in Nat /\ log[projecting].at \in Time
  BY <1>1, <1>2 DEF ItsThread, Message
<1>4. Before \in Throttle
  BY <1>3 DEF Before, BusTypes
<1>5. Upon(sentStale) \in Throttle
  BY <1>3, <1>4, SeenIs DEF Upon, Time
<1>6. Upon(sentStale).suppressed \in Seq(Nat) /\ Before.suppressed \in Seq(Nat)
  BY <1>4, <1>5, ThrottleFields
<1>7. Batch(sentStale) \in Seq(Nat)
  BY <1>1, <1>6 DEF Batch
<1>8. StaleSummary(sentStale) \in Seq(Post)
  BY <1>3, <1>6, PostsAre DEF StaleSummary
<1>9. projecting' = 0 /\ UNCHANGED <<threads, log, undelivered, lost, epoch>>
  BY DEF Project
<1> DEFINE id == projecting
           t == log[id].thread
           old == throttle[t]
           stale == IsIdleGap(old, log[id].at)
           now == [(IF stale THEN CloseStaleBurst(old, sentStale) ELSE old)
                      EXCEPT !.last = log[id].at]
           tail == Posts(stale /\ sentStale /\ old.suppressed # <<>>, t, old.suppressed, "summary")
           batch == Append(now.suppressed, id)
<1>10. /\ t = ItsThread /\ old = Before /\ now = Upon(sentStale) /\ tail = StaleSummary(sentStale)
       /\ batch = Batch(sentStale)
  BY DEF ItsThread, Before, Over, Upon, Seen, StaleSummary, Batch
<1>11. \/ /\ IsRaw(now)
          /\ throttle' = [throttle EXCEPT ![t] = [now EXCEPT !.raw = now.raw + 1]]
          /\ outbox' = outbox \o tail \o Posts(sent, t, <<id>>, "raw")
          /\ missed' = IF sent THEN missed ELSE missed \cup {id}
       \/ /\ ~IsRaw(now)
          /\ throttle' = [throttle EXCEPT ![t] = AppendSuppressed(now, id, sent)]
          /\ outbox' = outbox \o tail
                          \o Posts(sent /\ Len(batch) >= BatchSize, t, batch, "summary")
          /\ missed' = missed
  BY DEF Project
<1> HIDE DEF t, old, stale, now, tail, batch
<1>12. AppendSuppressed(Upon(sentStale), projecting, sent) =
         [Upon(sentStale) EXCEPT !.suppressed =
            IF sent /\ Len(Batch(sentStale)) >= BatchSize THEN <<>> ELSE Batch(sentStale)]
  <2>1. Len(Batch(sentStale)) = Len(Upon(sentStale).suppressed) + 1
    BY <1>1, <1>6 DEF Batch
  <2>2. QED BY <2>1 DEF AppendSuppressed, Batch
<1>13. ProjectedRaw(sentStale, sent) \/ ProjectedInBatch(sentStale, sent)
  BY <1>10, <1>11, <1>12 DEF ProjectedRaw, ProjectedInBatch
<1>14. QED BY <1>1, <1>2, <1>3, <1>4, <1>5, <1>7, <1>8, <1>9, <1>13

LEMMA Grows ==
    ASSUME NEW x \in Seq(Post), NEW y \in Seq(Post)
    PROVE  DOMAIN x \subseteq DOMAIN (x \o y)
<1>1. x \o y \in Seq(Post) /\ Len(x \o y) = Len(x) + Len(y)
  BY ConcatProperties
<1>2. /\ Len(x) \in Nat /\ Len(y) \in Nat
      /\ DOMAIN x = 1..Len(x) /\ DOMAIN (x \o y) = 1..Len(x \o y)
  BY <1>1
<1>3. QED BY <1>1, <1>2

LEMMA GrowsTwice ==
    ASSUME NEW x \in Seq(Post), NEW y \in Seq(Post), NEW z \in Seq(Post)
    PROVE  DOMAIN x \subseteq DOMAIN (x \o y \o z)
<1>1. x \o y \in Seq(Post)
  BY ConcatProperties
<1>2. QED BY <1>1, Grows

(* Opening a thread, publishing, projecting, flushing and crashing keep the *)
(* types of the bus.                                                        *)
LEMMA BusTypesStep ==
    ASSUME BusTypes, LastInv, \A i \in Id : log[i].thread \in Thread, BusStep
    PROVE  BusTypes'
<1>a. \A t \in Thread : throttle[t] \in Throttle /\ t \in Nat
  BY DEF BusTypes, Thread
<1>b. Fresh \in Throttle
  BY DEF Fresh, Throttle
<1>1. ASSUME NEW m, Publishes(m) PROVE BusTypes'
  <2>1. log' \in Seq(Message)
    BY <1>1 DEF BusTypes, Publishes, Persist
  <2>2. threads' \in Seq(ThreadRow)
    <3>1. \A k \in DOMAIN threads : threads[k] \in ThreadRow
      BY DEF BusTypes
    <3>2. DOMAIN threads = 1..Len(threads) /\ Len(threads) \in Nat
      BY DEF BusTypes
    <3>3. m.at \in Time
      BY <1>1 DEF Publishes, Message
    <3>4. [threads[m.thread] EXCEPT !.last = m.at] \in ThreadRow
      BY <1>1, <3>1, <3>3 DEF Publishes, ThreadRow
    <3>5. threads' = [threads EXCEPT ![m.thread] = [threads[m.thread] EXCEPT !.last = m.at]]
      BY <1>1 DEF Publishes, Persist
    <3>6. threads \in Seq(ThreadRow) /\ m.thread \in 1..Len(threads)
      BY <1>1, <3>2 DEF BusTypes, Publishes
    <3>7. QED BY <3>4, <3>5, <3>6, ExceptSeq
  <2>3. projecting' \in Nat
    BY <1>1, <2>1 DEF Publishes, Persist
  <2>4. QED BY <1>1, <2>1, <2>2, <2>3 DEF BusTypes, Publishes, Persist
<1>2. ASSUME NEW sentStale \in BOOLEAN, NEW sent \in BOOLEAN, Project(sentStale, sent)
      PROVE  BusTypes'
  <2> DEFINE up == Upon(sentStale)
             batch == Batch(sentStale)
             full == sent /\ Len(batch) >= BatchSize
  <2>1. /\ projecting \in Nat \ {0} /\ ItsThread \in Thread /\ ItsThread \in Nat
        /\ up \in Throttle /\ batch \in Seq(Nat) /\ StaleSummary(sentStale) \in Seq(Post)
        /\ projecting' = 0 /\ UNCHANGED <<threads, log, undelivered, lost, epoch>>
        /\ ProjectedRaw(sentStale, sent) \/ ProjectedInBatch(sentStale, sent)
    BY <1>2, ProjectIs
  <2>2. <<projecting>> \in Seq(Nat) /\ <<>> \in Seq(Nat)
    BY <2>1
  <2>3. /\ Posts(sent, ItsThread, <<projecting>>, "raw") \in Seq(Post)
        /\ Posts(full, ItsThread, batch, "summary") \in Seq(Post)
    BY <2>1, <2>2, PostsAre
  <2>4. outbox' \in Seq(Post)
    <3>1. /\ outbox \o StaleSummary(sentStale) \o Posts(sent, ItsThread, <<projecting>>, "raw")
                \in Seq(Post)
          /\ outbox \o StaleSummary(sentStale) \o Posts(full, ItsThread, batch, "summary") \in Seq(Post)
      BY <2>1, <2>3 DEF BusTypes
    <3>2. QED BY <2>1, <3>1 DEF ProjectedRaw, ProjectedInBatch
  <2>5. [up EXCEPT !.raw = up.raw + 1] \in Throttle
    <3>1. up.raw + 1 \in Nat
      BY <2>1, ThrottleFields
    <3>2. QED BY <2>1, <3>1, WithRaw
  <2>6. [up EXCEPT !.suppressed = IF full THEN <<>> ELSE batch] \in Throttle
    BY <2>1, <2>2, WithSuppressed
  <2>7. throttle' \in [Thread -> Throttle]
    BY <2>1, <2>5, <2>6 DEF ProjectedRaw, ProjectedInBatch, BusTypes
  <2>8. missed' \subseteq Nat
    BY <2>1 DEF ProjectedRaw, ProjectedInBatch, BusTypes
  <2>9. DOMAIN outbox \subseteq DOMAIN outbox'
    <3>1. \A x \in Seq(Post) : DOMAIN outbox \subseteq DOMAIN (outbox \o StaleSummary(sentStale) \o x)
      <4>1. outbox \in Seq(Post) /\ StaleSummary(sentStale) \in Seq(Post)
        BY <2>1 DEF BusTypes
      <4>2. QED BY <4>1, GrowsTwice
    <3>2. QED BY <2>1, <2>3, <3>1 DEF ProjectedRaw, ProjectedInBatch
  <2>10. QED BY <2>1, <2>4, <2>7, <2>8, <2>9 DEF BusTypes
<1>3. ASSUME NEW t \in Thread, Flush(t) PROVE BusTypes'
  <2> DEFINE s == throttle[t]
             kind == IF s.deferred # <<>> THEN "late" ELSE "summary"
             batch == IF s.deferred # <<>> THEN Head(s.deferred) ELSE s.suppressed
  <2>1. s \in Throttle /\ t \in Nat
    BY <1>a
  <2>2. s.deferred \in Seq(Seq(Nat)) /\ s.suppressed \in Seq(Nat) /\ <<>> \in Seq(Nat)
    BY <2>1, ThrottleFields
  <2>3. batch \in Seq(Nat) /\ (s.deferred # <<>> => Tail(s.deferred) \in Seq(Seq(Nat)))
    BY <2>2
  <2>4. kind \in {"raw", "summary", "late"}
    OBVIOUS
  <2>5. Posts(TRUE, t, batch, kind) \in Seq(Post)
    BY <2>1, <2>3, <2>4, PostsAre
  <2>6. [s EXCEPT !.suppressed = <<>>] \in Throttle
    BY <2>1, <2>2, WithSuppressed
  <2>7. s.deferred # <<>> => [s EXCEPT !.deferred = Tail(@)] \in Throttle
    BY <2>1, <2>3, WithDeferred
  <2>8. throttle' \in [Thread -> Throttle]
    BY <1>3, <2>6, <2>7 DEF Flush, BusTypes
  <2>9. outbox' = outbox \o Posts(TRUE, t, batch, kind)
    BY <1>3 DEF Flush
  <2>10. outbox' \in Seq(Post)
    BY <2>5, <2>9, ConcatProperties DEF BusTypes
  <2>11. DOMAIN outbox \subseteq DOMAIN outbox'
    BY <2>5, <2>9, Grows DEF BusTypes
  <2>12. QED BY <1>3, <2>8, <2>10, <2>11 DEF Flush, BusTypes
<1>4. ASSUME NEW t \in Task, NEW now \in Now, OpenThread(t, now) PROVE threads' \in Seq(ThreadRow)
  <2>1. now \in Time
    BY CallAssumption DEF Time
  <2>2. [task |-> t, last |-> now] \in ThreadRow
    BY <2>1 DEF ThreadRow
  <2>3. QED BY <1>4, <2>2 DEF OpenThread, BusTypes
<1>5. CASE OpensThread
  BY <1>4, <1>5 DEF OpensThread, BusTypes
<1>6. CASE BusCrash
  <2>1. ASSUME NEW t \in Thread PROVE Held(t) \subseteq Nat
    <3>1. throttle[t].deferred \in Seq(Seq(Nat)) /\ throttle[t].suppressed \in Seq(Nat)
      BY <1>a, ThrottleFields
    <3>2. ToSet(throttle[t].deferred) \subseteq Seq(Nat)
      BY <3>1 DEF ToSet
    <3>3. \A b \in Seq(Nat) : ToSet(b) \subseteq Nat
      BY DEF ToSet
    <3>4. QED BY <3>1, <3>2, <3>3 DEF Held
  <2>2. lost' = lost \cup (UNION {Held(t) : t \in Thread}) \cup ({projecting} \ {0})
    BY <1>6 DEF BusCrash
  <2>3. (UNION {Held(t) : t \in Thread}) \subseteq Nat
    BY <2>1
  <2>4. lost' \subseteq Nat
    BY <2>2, <2>3 DEF BusTypes
  <2>5. throttle' \in [Thread -> Throttle]
    BY <1>6, <1>b DEF BusCrash
  <2>6. Len(log) \in Nat
    BY DEF BusTypes
  <2>7. QED BY <1>6, <2>4, <2>5, <2>6 DEF BusCrash, BusTypes
<1>7. CASE UNCHANGED busVars
  BY <1>7 DEF busVars, BusTypes
<1>8. CASE Skip
  <2>1. lost' \subseteq Nat
    BY <1>8 DEF Skip, BusTypes
  <2>2. QED BY <1>8, <2>1 DEF Skip, BusTypes
<1>9. ASSUME NEW p \in DOMAIN outbox, SendFails(p) PROVE BusTypes'
  BY <1>9 DEF SendFails, BusTypes
<1>10. QED BY <1>1, <1>2, <1>3, <1>5, <1>6, <1>7, <1>8, <1>9 DEF BusStep

-----------------------------------------------------------------------------
(* What the call does to the bus, and the types of both.                    *)

LEMMA RequestIsMessage ==
    ASSUME TypeOK, ThreadInv, task # None, NEW now \in Now
    PROVE  /\ Request(now) \in Message /\ Request(now).thread = TheThread(task)
           /\ Request(now).thread \in DOMAIN threads
           /\ Request(now).re = 0 /\ Request(now).from = role /\ Request(now).to = asked
<1>1. TheThread(task) \in DOMAIN threads /\ TheThread(task) \in Nat
  BY ThreadThere
<1>2. threads[TheThread(task)].last \in Time
  <2>1. threads[TheThread(task)] \in ThreadRow
    BY <1>1 DEF TypeOK, BusTypes
  <2>2. QED BY <2>1 DEF ThreadRow
<1>3. RequestTime(now) \in Time
  BY <1>2, CallAssumption DEF RequestTime, Time
<1>4. QED BY <1>1, <1>3 DEF Request, Message, TypeOK, CallTypes

LEMMA ReplyIsMessage ==
    ASSUME TypeOK, ThreadInv, request \in Id
    PROVE  /\ ReplyTo(request) \in Message /\ ReplyTo(request).thread = log[request].thread
           /\ ReplyTo(request).thread \in DOMAIN threads
           /\ ReplyTo(request).re = request /\ ReplyTo(request).at = log[request].at + 1
           /\ ReplyTo(request).from = asked /\ ReplyTo(request).to = role
<1>1. log[request] \in Message /\ log[request].thread \in DOMAIN threads
  BY DEF TypeOK, BusTypes, Id, ThreadInv
<1>2. log[request].at \in Time /\ log[request].thread \in Nat
  BY <1>1 DEF Message
<1>3. log[request].at + 1 \in Time
  BY <1>2 DEF Time
<1>4. QED BY <1>1, <1>2, <1>3 DEF ReplyTo, NextAfter, Message, TypeOK, CallTypes

(* A call is of a task.                                                     *)
TaskInv ==
    /\ phase # "idle" => task # None
    /\ projecting # 0 => phase \in {"dispatch", "consult"}

(* A projection leaves the call where it is, or ends it.                    *)
Raises ==
    /\ projecting # 0 /\ phase' = "raised"
    /\ UNCHANGED <<task, role, asked, request, model, consults, total, usage, posts, crashes>>

LEMMA ProjectionOfCall ==
    ASSUME ProjectMessage
    PROVE  /\ UNCHANGED callVars \/ Raises
           /\ projecting # 0 /\ projecting' = 0
  BY DEF ProjectMessage, Project, ProjectAndRaise, Skip, Raises

LEMMA RequestThere ==
    ASSUME TypeOK, RequestInv, phase \in {"consult", "answered"}
    PROVE  request \in Id /\ request = Len(log) /\ request \in Nat \ {0}
  BY DEF TypeOK, BusTypes, CallTypes, RequestInv, Id

LEMMA StepOfBus ==
    ASSUME TypeOK, ThreadInv, RequestInv, TaskInv, [Next]_vars
    PROVE  BusStep
<1>1. ASSUME NEW t \in Task, StartTask(t) PROVE BusStep
  BY <1>1 DEF StartTask, BusStep, OpensThread
<1>2. CASE EndTask
  BY <1>2 DEF EndTask, BusStep
<1>3. ASSUME NEW r \in Role, Invoke(r) PROVE BusStep
  BY <1>3 DEF Invoke, BusStep
<1>4. CASE ProjectMessage
  BY <1>4 DEF ProjectMessage, ProjectAndRaise, BusStep
<1>5. CASE ModelFails \/ ModelRefuses \/ Return \/ AskInVain \/ OtherAnswers \/ OtherAsks
              \/ ConsultationFails \/ \E r \in Askable : AskOther(r)
  BY <1>5 DEF ModelFails, ModelRefuses, Return, AskInVain, OtherAnswers, OtherAsks,
              ConsultationFails, AskOther, BusStep
<1>6. CASE PublishRequest
  <2>1. PICK now \in Now : Persist(Request(now))
    BY <1>6 DEF PublishRequest
  <2>2. task # None
    BY <1>6 DEF PublishRequest, TaskInv
  <2>3. Publishes(Request(now))
    <3>1. /\ Request(now) \in Message /\ Request(now).thread \in DOMAIN threads
          /\ Request(now).re = 0
      BY <2>2, RequestIsMessage
    <3>2. QED BY <2>1, <3>1 DEF Publishes
  <2>4. QED BY <2>3 DEF BusStep
<1>7. CASE PublishReply
  <2>1. request \in Id /\ request = Len(log)
    BY <1>7, RequestThere DEF PublishReply
  <2>2. /\ ReplyTo(request) \in Message /\ ReplyTo(request).thread = log[request].thread
        /\ ReplyTo(request).thread \in DOMAIN threads
        /\ ReplyTo(request).re = request /\ ReplyTo(request).at = log[request].at + 1
        /\ ReplyTo(request).from = asked /\ ReplyTo(request).to = role
    BY <2>1, ReplyIsMessage
  <2>3. log[request].at \in Nat
    <3>1. log[request] \in Message
      BY <2>1 DEF TypeOK, BusTypes, Id
    <3>2. QED BY <3>1 DEF Message, Time
  <2>4. log[request].re = 0 /\ log[request].from = role /\ log[request].to = asked
    BY <1>7 DEF PublishReply, RequestInv
  <2>5. Answering(ReplyTo(request))
    BY <2>1, <2>2, <2>3, <2>4 DEF Answering
  <2>6. Publishes(ReplyTo(request))
    BY <1>7, <2>2, <2>5 DEF Publishes, PublishReply
  <2>7. QED BY <2>6 DEF BusStep
<1>8. ASSUME NEW t \in Thread, FlushThread(t) PROVE BusStep
  BY <1>8 DEF FlushThread, BusStep
<1>8a. ASSUME NEW p \in DOMAIN outbox, SendFails(p) PROVE BusStep
  BY <1>8a DEF BusStep
<1>9. CASE Crash
  BY <1>9 DEF Crash, BusStep
<1>10. CASE UNCHANGED vars
  BY <1>10 DEF vars, BusStep
<1>11. QED BY <1>1, <1>2, <1>3, <1>4, <1>5, <1>6, <1>7, <1>8, <1>8a, <1>9, <1>10 DEF Next, CallActs

(* A model's answer, and the requests counted.                              *)
LEMMA AnswerTypes ==
    ASSUME TypeOK, NEW next, ModelAnswers(next)
    PROVE  /\ posts' \in Amount /\ total' \in Amount /\ model' \in 1..Models
           /\ phase' = next
<1>1. /\ posts.answers \in Nat /\ posts.attempts \in Nat /\ total.answers \in Nat
      /\ total.attempts \in Nat /\ model \in Nat /\ Models \in Nat \ {0}
  BY CallAssumption DEF TypeOK, CallTypes, Amount
<1>2. Posted \in Nat
  BY <1>1 DEF Posted
<1>3. QED BY <1>1, <1>2 DEF ModelAnswers, TotalWithAnswer, Answered, Amount

LEMMA CallTypesStep ==
    ASSUME TypeOK, [Next]_vars, log' \in Seq(Message)
    PROVE  CallTypes'
<1>0. /\ Nothing \in Amount /\ None \in Agent /\ Role \subseteq Agent /\ Askable \subseteq Agent
      /\ 1 \in 1..Models
  BY CallAssumption DEF Nothing, Amount, Agent
<1>a. posts.attempts \in Nat /\ posts.answers \in Nat /\ Posted \in Nat
  <2>1. posts.attempts \in Nat /\ posts.answers \in Nat
    BY DEF TypeOK, CallTypes, Amount
  <2>2. QED BY <2>1 DEF Posted
<1>1. ASSUME NEW t \in Task, StartTask(t) PROVE CallTypes'
  BY <1>1 DEF StartTask, TypeOK, CallTypes
<1>2. CASE EndTask
  BY <1>0, <1>2 DEF EndTask, NoCall, TypeOK, CallTypes, Phase
<1>3. ASSUME NEW r \in Role, Invoke(r) PROVE CallTypes'
  BY <1>0, <1>3 DEF Invoke, TypeOK, CallTypes, Phase
<1>4. CASE Raises \/ ConsultationFails
  BY <1>4 DEF Raises, ConsultationFails, TypeOK, CallTypes, Phase
<1>4a. CASE UNCHANGED callVars
  BY <1>4a DEF callVars, TypeOK, CallTypes
<1>5. CASE ModelFails
  <2>1. posts' \in Amount
    <3>1. posts' = [posts EXCEPT !.attempts = Posted]
      BY <1>5 DEF ModelFails
    <3>2. QED BY <3>1, <1>a DEF TypeOK, CallTypes, Amount
  <2>2. model' \in 1..Models
    <3>1. model % Models \in 0..(Models - 1)
      BY CallAssumption DEF TypeOK, CallTypes
    <3>2. QED BY <1>5, <3>1, CallAssumption DEF ModelFails
  <2>3. phase' \in Phase
    BY <1>5 DEF ModelFails, TypeOK, CallTypes, Phase
  <2>4. QED BY <1>5, <2>1, <2>2, <2>3 DEF ModelFails, CallIs, TypeOK, CallTypes
<1>6. CASE ModelRefuses
  <2>1. posts' \in Amount
    <3>1. posts' = [posts EXCEPT !.attempts = Posted]
      BY <1>6 DEF ModelRefuses
    <3>2. QED BY <3>1, <1>a DEF TypeOK, CallTypes, Amount
  <2>2. QED BY <1>0, <1>6, <2>1 DEF ModelRefuses, CallIs, TypeOK, CallTypes, Phase
<1>7. CASE Return
  BY <1>7, AnswerTypes DEF Return, TypeOK, CallTypes, Phase
<1>8. CASE AskInVain \/ OtherAnswers \/ OtherAsks
  BY <1>8, AnswerTypes DEF AskInVain, OtherAnswers, OtherAsks, CallIs, TypeOK, CallTypes, Phase
<1>9. ASSUME NEW r \in Askable, AskOther(r) PROVE CallTypes'
  BY <1>0, <1>9, AnswerTypes DEF AskOther, TypeOK, CallTypes, Phase
<1>10. CASE PublishRequest \/ PublishReply
  <2>1. Len(log') \in Nat
    OBVIOUS
  <2>2. QED BY <1>10, <2>1 DEF PublishRequest, PublishReply, TypeOK, CallTypes, Phase
<1>11. CASE Crash
  BY <1>0, <1>11 DEF Crash, NoCall, TypeOK, CallTypes, Phase
<1>12. QED BY <1>1, <1>2, <1>3, <1>4, <1>4a, <1>5, <1>6, <1>7, <1>8, <1>9, <1>10, <1>11,
              ProjectionOfCall DEF Next, CallActs, FlushThread, vars

-----------------------------------------------------------------------------
(* The usage of a call.                                                     *)

LEMMA Times ==
    ASSUME NEW m \in Nat, NEW a \in Nat, NEW b \in Nat, a <= b
    PROVE  /\ m * a \in Nat /\ m * b \in Nat /\ m * (a + 1) = m * a + m
           /\ m * a <= m * b
<1>1. PICK c \in Nat : b = a + c
  <2>1. b - a \in Nat /\ b = a + (b - a)
    OBVIOUS
  <2>2. QED BY <2>1
<1>2. m * c \in Nat /\ m * a \in Nat
  OBVIOUS
<1>3. m * (a + c) = m * a + m * c /\ m * (a + 1) = m * a + m
  OBVIOUS
<1>4. QED BY <1>1, <1>2, <1>3

(* While a model is being asked, the requests made are within what a call   *)
(* can make.                                                                *)
LEMMA NotYetAll ==
    ASSUME TypeOK, UsageInv, Dispatching
    PROVE  /\ Answers \in Nat /\ total.attempts <= Models * Answers
           /\ posts.attempts = total.attempts + (model - 1)
           /\ Models * (Answers + 1) = Models * Answers + Models
           /\ Posted = posts.attempts + 1
<1>1. /\ posts.attempts \in Nat /\ total.attempts \in Nat /\ model \in Nat /\ model <= Models
      /\ Models \in Nat \ {0} /\ MaxConsults \in Nat \ {0} /\ consults \in Nat
  BY CallAssumption DEF TypeOK, CallTypes, Amount
<1>2. Answers \in Nat /\ Answers <= 2 * MaxConsults
  BY <1>1 DEF UsageInv, Dispatching, Answers
<1>3. posts.attempts = total.attempts + (model - 1) /\ total.attempts <= Models * Answers
  BY DEF UsageInv, Dispatching
<1>4. Answers + 1 \in Nat /\ 2 * MaxConsults + 1 \in Nat /\ Answers + 1 <= 2 * MaxConsults + 1
  BY <1>1, <1>2
<1>5. Models * (Answers + 1) <= Models * (2 * MaxConsults + 1)
        /\ Models * (Answers + 1) \in Nat /\ Models * (2 * MaxConsults + 1) \in Nat
  BY <1>1, <1>4, Times
<1>6. Models * (Answers + 1) = Models * Answers + Models /\ Models * Answers \in Nat
  BY <1>1, <1>2, Times
<1> DEFINE low == Models * Answers
           high == Models * (2 * MaxConsults + 1)
<1> HIDE DEF low, high
<1>7. low \in Nat /\ high \in Nat /\ low + Models <= high /\ total.attempts <= low
  BY <1>3, <1>5, <1>6 DEF low, high
<1>8. posts.attempts <= high
  BY <1>1, <1>3, <1>7
<1>9. Posted = posts.attempts + 1
  BY <1>1, <1>7, <1>8 DEF Posted, high
<1>10. QED BY <1>2, <1>3, <1>6, <1>9

(* A model's answer adds to what was asked of the models what it adds to    *)
(* the call's total.                                                        *)
LEMMA AnswerCounts ==
    ASSUME TypeOK, UsageInv, Dispatching, NEW next, ModelAnswers(next)
    PROVE  /\ posts'.answers = total'.answers /\ total'.answers = Answers + 1
           /\ posts'.attempts = total'.attempts
           /\ total'.attempts <= Models * (Answers + 1)
           /\ model' = 1 /\ phase' = next
<1>1. /\ posts.answers \in Nat /\ posts.attempts \in Nat /\ total.answers \in Nat
      /\ total.attempts \in Nat /\ model \in Nat /\ model <= Models
      /\ Models \in Nat \ {0}
  BY CallAssumption DEF TypeOK, CallTypes, Amount
<1>2. posts.answers = total.answers /\ total.answers = Answers
  BY DEF UsageInv, Dispatching
<1>3. /\ posts' = [answers |-> posts.answers + 1, attempts |-> Posted]
      /\ total' = [answers |-> total.answers + 1, attempts |-> total.attempts + model]
      /\ model' = 1 /\ phase' = next
  BY DEF ModelAnswers, TotalWithAnswer, Answered
<1> DEFINE low == Models * Answers
<1>4. /\ total.attempts <= low /\ posts.attempts = total.attempts + (model - 1)
      /\ Models * (Answers + 1) = low + Models /\ Posted = posts.attempts + 1
      /\ low \in Nat
  <2>1. Answers \in Nat
    BY NotYetAll
  <2>2. low \in Nat
    BY <1>1, <2>1
  <2>3. QED BY <2>2, NotYetAll
<1> HIDE DEF low
<1>5. total.attempts + model <= low + Models /\ Posted = total.attempts + model
  BY <1>1, <1>4
<1>6. QED BY <1>1, <1>2, <1>3, <1>4, <1>5

LEMMA UsageStep ==
    ASSUME TypeOK, UsageInv, [Next]_vars
    PROVE  UsageInv'
<1>0. /\ Models \in Nat \ {0} /\ MaxConsults \in Nat \ {0} /\ consults \in Nat
      /\ model \in Nat /\ model <= Models
  BY CallAssumption DEF TypeOK, CallTypes
<1>1. ASSUME NEW t \in Task, StartTask(t) PROVE UsageInv'
  BY <1>1 DEF StartTask, UsageInv, Answers
<1>2. CASE EndTask \/ Crash
  BY <1>2 DEF EndTask, Crash, UsageInv
<1>3. ASSUME NEW r \in Role, Invoke(r) PROVE UsageInv'
  <2>1. phase' = "dispatch" /\ consults' = 0 /\ model' = 1
    BY <1>3 DEF Invoke
  <2>2. posts' = Nothing /\ total' = Nothing
    BY <1>3 DEF Invoke
  <2>3. Answers' = 0
    BY <2>1 DEF Answers
  <2>4. Models * 0 = 0
    BY <1>0
  <2>5. QED BY <1>0, <2>1, <2>2, <2>3, <2>4 DEF UsageInv, Nothing
<1>4. CASE UNCHANGED callVars
  BY <1>4 DEF callVars, UsageInv, Answers
<1>5. CASE Raises \/ ConsultationFails \/ ModelRefuses
  BY <1>5 DEF Raises, ConsultationFails, ModelRefuses, UsageInv
<1>6. CASE ModelFails
  <2>1. CASE EndOfChain
    BY <1>6, <2>1 DEF ModelFails, UsageInv
  <2>2. CASE ~EndOfChain
    <3>1. model' = model + 1
      BY <1>0, <1>6, <2>2 DEF ModelFails, EndOfChain
    <3>2. phase' = phase /\ consults' = consults /\ total' = total
      BY <1>6, <2>2 DEF ModelFails
    <3>3. posts' = [posts EXCEPT !.attempts = posts.attempts + 1]
      BY <1>6, NotYetAll DEF ModelFails
    <3>4. posts'.answers = posts.answers /\ posts'.attempts = posts.attempts + 1
      BY <3>3 DEF TypeOK, CallTypes, Amount
    <3>5. posts.attempts = total.attempts + (model - 1) /\ total.attempts \in Nat
      BY <1>6, NotYetAll DEF ModelFails, TypeOK, CallTypes, Amount
    <3>6. posts'.attempts = total'.attempts + (model' - 1)
      BY <1>0, <3>1, <3>2, <3>4, <3>5
    <3>7. Answers' = Answers
      BY <3>2 DEF Answers
    <3>8. phase \in {"dispatch", "consult"}
      BY <1>6 DEF ModelFails, Dispatching
    <3>9. QED BY <3>2, <3>4, <3>6, <3>7, <3>8 DEF UsageInv
  <2>3. QED BY <2>1, <2>2
<1>7. CASE Return
  <2>1. phase = "dispatch" /\ Dispatching /\ ModelAnswers("returned") /\ usage' = total' /\ consults' = consults
    BY <1>7 DEF Return, Dispatching
  <2>2. /\ posts'.answers = total'.answers /\ total'.answers = Answers + 1
        /\ posts'.attempts = total'.attempts /\ total'.attempts <= Models * (Answers + 1)
        /\ model' = 1 /\ phase' = "returned"
    BY <2>1, AnswerCounts
  <2>3. Answers = 2 * consults /\ Answers' = 2 * consults + 1
    BY <2>1, <2>2 DEF Answers
  <2>4. total'.attempts \in Nat /\ posts' \in Amount /\ total' \in Amount
    BY <2>1, AnswerTypes DEF Amount
  <2>5. consults <= MaxConsults
    BY <2>1 DEF UsageInv
  <2>6. usage' = total' /\ posts'.attempts = total'.attempts + (model' - 1)
    BY <2>1, <2>2, <2>4
  <2>7. QED BY <1>0, <2>1, <2>2, <2>3, <2>5, <2>6 DEF UsageInv
<1>8. ASSUME NEW r \in Askable, AskOther(r) PROVE UsageInv'
  <2>1. phase = "dispatch" /\ Dispatching /\ ModelAnswers("publish") /\ consults' = consults
          /\ consults < MaxConsults
    BY <1>8 DEF AskOther, Dispatching
  <2>2. /\ posts'.answers = total'.answers /\ total'.answers = Answers + 1
        /\ posts'.attempts = total'.attempts /\ total'.attempts <= Models * (Answers + 1)
        /\ model' = 1 /\ phase' = "publish"
    BY <2>1, AnswerCounts
  <2>3. Answers = 2 * consults /\ Answers' = 2 * consults + 1
    BY <2>1, <2>2 DEF Answers
  <2>4. total'.attempts \in Nat
    BY <2>1, AnswerTypes DEF Amount
  <2>5. posts'.attempts = total'.attempts + (model' - 1)
    BY <2>2, <2>4
  <2>6. QED BY <1>0, <2>1, <2>2, <2>3, <2>5 DEF UsageInv
<1>9. CASE OtherAnswers
  <2>1. phase = "consult" /\ Dispatching /\ ModelAnswers("answered") /\ consults' = consults
    BY <1>9 DEF OtherAnswers, Dispatching
  <2>2. /\ posts'.answers = total'.answers /\ total'.answers = Answers + 1
        /\ posts'.attempts = total'.attempts /\ total'.attempts <= Models * (Answers + 1)
        /\ model' = 1 /\ phase' = "answered"
    BY <2>1, AnswerCounts
  <2>3. Answers = 2 * consults + 1 /\ Answers' = 2 * consults + 2
    BY <2>1, <2>2 DEF Answers
  <2>4. total'.attempts \in Nat
    BY <2>1, AnswerTypes DEF Amount
  <2>5. posts'.attempts = total'.attempts + (model' - 1) /\ consults < MaxConsults
    BY <2>1, <2>2, <2>4 DEF UsageInv
  <2>6. Answers' = Answers + 1
    BY <1>0, <2>3
  <2>7. QED BY <1>0, <2>1, <2>2, <2>5, <2>6 DEF UsageInv
<1>10. CASE AskInVain \/ OtherAsks
  <2>1. phase' = "raised"
    BY <1>10, AnswerTypes DEF AskInVain, OtherAsks
  <2>2. QED BY <2>1 DEF UsageInv
<1>11. CASE PublishRequest
  <2>1. phase = "publish" /\ phase' = "consult"
          /\ UNCHANGED <<model, consults, total, usage, posts>>
    BY <1>11 DEF PublishRequest
  <2>2. Answers' = Answers
    BY <2>1 DEF Answers
  <2>3. QED BY <2>1, <2>2 DEF UsageInv
<1>12. CASE PublishReply
  <2>1. phase = "answered" /\ phase' = "dispatch" /\ consults' = consults + 1
          /\ UNCHANGED <<model, total, usage, posts>>
    BY <1>12 DEF PublishReply
  <2>2. Answers = 2 * consults + 2 /\ Answers' = 2 * (consults + 1)
    BY <2>1 DEF Answers
  <2>3. Answers' = Answers /\ consults' <= MaxConsults
    BY <1>0, <2>1, <2>2 DEF UsageInv
  <2>4. QED BY <2>1, <2>3 DEF UsageInv
<1>13. QED BY <1>1, <1>2, <1>3, <1>4, <1>5, <1>6, <1>7, <1>8, <1>9, <1>10, <1>11, <1>12,
              ProjectionOfCall DEF Next, CallActs, FlushThread, vars

-----------------------------------------------------------------------------
(* Threads, the log and the question a consultation waits for.              *)

LEMMA TaskStep ==
    ASSUME TypeOK, TaskInv, [Next]_vars
    PROVE  TaskInv'
<1>1. CASE ProjectMessage
  BY <1>1, ProjectionOfCall DEF Raises, callVars, TaskInv
<1>2. CASE EndTask \/ Crash \/ \E r \in Role : Invoke(r)
  BY <1>2 DEF EndTask, Crash, BusCrash, Invoke, busVars, TaskInv
<1>3. ASSUME NEW t \in Task, StartTask(t) PROVE TaskInv'
  BY <1>3, CallAssumption DEF StartTask, TaskInv
<1>4. CASE Free /\ ( ModelFails \/ ModelRefuses \/ Return \/ AskInVain \/ OtherAnswers
                     \/ OtherAsks \/ ConsultationFails \/ \E r \in Askable : AskOther(r) )
  <2>1. projecting' = 0 /\ task' = task /\ phase # "idle"
    BY <1>4 DEF Free, ModelFails, ModelRefuses, Return, AskInVain, OtherAnswers, OtherAsks,
                ConsultationFails, AskOther, CallIs, Dispatching, busVars
  <2>2. QED BY <2>1 DEF TaskInv
<1>5. CASE PublishRequest \/ PublishReply
  <2>1. phase' \in {"dispatch", "consult"} /\ task' = task /\ phase # "idle"
    BY <1>5 DEF PublishRequest, PublishReply
  <2>2. QED BY <2>1 DEF TaskInv
<1>6. CASE UNCHANGED callVars /\ projecting' = projecting
  BY <1>6 DEF callVars, TaskInv
<1>7. ASSUME NEW t \in Thread, FlushThread(t) PROVE TaskInv'
  BY <1>6, <1>7 DEF FlushThread, Flush
<1>8. ASSUME NEW p \in DOMAIN outbox, SendFails(p), UNCHANGED callVars PROVE TaskInv'
  BY <1>6, <1>8 DEF SendFails
<1>9. CASE UNCHANGED vars
  BY <1>6, <1>9 DEF vars, busVars
<1>10. QED BY <1>1, <1>2, <1>3, <1>4, <1>5, <1>7, <1>8, <1>9 DEF Next, CallActs

LEMMA LastStep ==
    ASSUME BusTypes, LastInv, BusStep
    PROVE  LastInv'
<1>1. ASSUME NEW m, Publishes(m) PROVE LastInv'
  BY <1>1 DEF Publishes, Persist, LastInv
<1>2. CASE \E sentStale, sent \in BOOLEAN : Project(sentStale, sent)
  <2>1. projecting' = 0
    BY <1>2 DEF Project
  <2>2. QED BY <2>1 DEF LastInv
<1>3. QED BY <1>1, <1>2 DEF BusStep, Skip, Flush, SendFails, OpensThread, BusCrash, busVars, LastInv

(* What happens to the threads: one gets a later time, or one is opened for *)
(* a task that has none.                                                    *)
LEMMA ThreadsAre ==
    ASSUME BusTypes, BusTypes', BusStep
    PROVE  /\ DOMAIN threads \subseteq DOMAIN threads'
           /\ \A k \in DOMAIN threads :
                threads'[k].task = threads[k].task /\ threads'[k].last >= threads[k].last
           /\ DOMAIN threads' # DOMAIN threads =>
                \E t \in Task : /\ ThreadOf(t) = {} /\ DOMAIN threads' = 1..(Len(threads) + 1)
                                /\ threads'[Len(threads) + 1].task = t
<1>0. /\ Len(threads) \in Nat /\ DOMAIN threads = 1..Len(threads)
      /\ \A k \in DOMAIN threads : threads[k] \in ThreadRow /\ threads[k].last \in Nat
  <2>1. Len(threads) \in Nat /\ DOMAIN threads = 1..Len(threads)
    BY DEF BusTypes
  <2>2. \A k \in DOMAIN threads : threads[k] \in ThreadRow
    BY DEF BusTypes
  <2>3. QED BY <2>1, <2>2 DEF ThreadRow, Time
<1>1. ASSUME NEW m, Publishes(m)
      PROVE  /\ DOMAIN threads' = DOMAIN threads
             /\ \A k \in DOMAIN threads :
                  threads'[k].task = threads[k].task /\ threads'[k].last >= threads[k].last
  <2>1. threads' = [threads EXCEPT ![m.thread].last = m.at] /\ m.at >= threads[m.thread].last
    BY <1>1 DEF Publishes, Persist, Accepted
  <2>2. \A k \in DOMAIN threads : k # m.thread => threads'[k] = threads[k]
    BY <2>1
  <2>3. threads'[m.thread] = [threads[m.thread] EXCEPT !.last = m.at]
    BY <1>1, <2>1 DEF Publishes
  <2>4. threads'[m.thread].task = threads[m.thread].task /\ threads'[m.thread].last = m.at
    BY <1>0, <1>1, <2>3 DEF Publishes, ThreadRow
  <2>5. QED BY <1>0, <2>1, <2>2, <2>4
<1>2. CASE OpensThread
  <2>1. PICK t \in Task, now \in Now : OpenThread(t, now)
    BY <1>2 DEF OpensThread
  <2>2. CASE ThreadOf(t) # {}
    BY <1>0, <2>1, <2>2 DEF OpenThread
  <2>3. CASE ThreadOf(t) = {}
    <3>1. threads' = Append(threads, [task |-> t, last |-> now])
      BY <2>1, <2>3 DEF OpenThread
    <3>2. DOMAIN threads' = 1..(Len(threads) + 1)
      BY <1>0, <3>1 DEF BusTypes
    <3>3. \A k \in DOMAIN threads : threads'[k] = threads[k]
      BY <1>0, <3>1 DEF BusTypes
    <3>4. threads'[Len(threads) + 1] = [task |-> t, last |-> now]
      BY <1>0, <3>1 DEF BusTypes
    <3>5. threads'[Len(threads) + 1].task = t
      BY <3>4
    <3>6. DOMAIN threads \subseteq DOMAIN threads'
      BY <1>0, <3>2
    <3>7. \A k \in DOMAIN threads : threads'[k].last >= threads[k].last
      BY <1>0, <3>3
    <3>8. QED BY <2>3, <3>2, <3>3, <3>5, <3>6, <3>7
  <2>4. QED BY <2>2, <2>3
<1>3. CASE UNCHANGED threads
  BY <1>0, <1>3
<1>4. QED BY <1>1, <1>2, <1>3 DEF BusStep, Project, Skip, Flush, SendFails, BusCrash, busVars

(* One thread per task: there are no more of them than tasks.               *)
LEMMA ThreadsAreFew ==
    ASSUME NEW rows \in Seq(ThreadRow),
           \A s, t \in DOMAIN rows : rows[s].task = rows[t].task => s = t
    PROVE  DOMAIN rows \subseteq Thread
<1>0. /\ Len(rows) \in Nat /\ DOMAIN rows = 1..Len(rows) /\ IsFiniteSet(Task)
      /\ \A k \in DOMAIN rows : rows[k].task \in Task
  <2>1. Len(rows) \in Nat /\ DOMAIN rows = 1..Len(rows)
    OBVIOUS
  <2>2. \A k \in DOMAIN rows : rows[k] \in ThreadRow
    OBVIOUS
  <2>3. QED BY <2>1, <2>2, BusAssumption DEF ThreadRow
<1> DEFINE f == [k \in 1..Len(rows) |-> rows[k].task]
<1>1. f \in Injection(1..Len(rows), Task)
  BY <1>0 DEF Injection, IsInjective
<1>2. Cardinality(1..Len(rows)) <= Cardinality(Task)
  BY <1>0, <1>1, FS_Injection
<1>3. Cardinality(1..Len(rows)) = Len(rows)
  <2>1. 1 \in Int /\ Len(rows) \in Int /\ Len(rows) \in Nat
    BY <1>0
  <2>2. Cardinality(1..Len(rows)) = IF 1 > Len(rows) THEN 0 ELSE Len(rows) - 1 + 1
    BY <2>1, FS_Interval
  <2>3. QED BY <2>1, <2>2
<1>4. Cardinality(Task) \in Nat
  BY <1>0, FS_CardinalityType
<1>5. QED BY <1>0, <1>2, <1>3, <1>4 DEF Thread

LEMMA ThreadStep ==
    ASSUME TypeOK, TypeOK', ThreadInv, BusStep, [Next]_vars
    PROVE  ThreadInv'
<1>0. /\ Len(threads) \in Nat /\ DOMAIN threads = 1..Len(threads)
      /\ threads' \in Seq(ThreadRow)
  BY DEF TypeOK, BusTypes
<1>1. /\ DOMAIN threads \subseteq DOMAIN threads'
      /\ \A k \in DOMAIN threads : threads'[k].task = threads[k].task
      /\ DOMAIN threads' # DOMAIN threads =>
           \E t \in Task : /\ ThreadOf(t) = {} /\ DOMAIN threads' = 1..(Len(threads) + 1)
                           /\ threads'[Len(threads) + 1].task = t
  BY ThreadsAre DEF TypeOK
<1>2. \A s, t \in DOMAIN threads' : threads'[s].task = threads'[t].task => s = t
  <2>1. CASE DOMAIN threads' = DOMAIN threads
    BY <1>1, <2>1 DEF ThreadInv
  <2>2. CASE DOMAIN threads' # DOMAIN threads
    <3>1. PICK new \in Task : /\ ThreadOf(new) = {} /\ DOMAIN threads' = 1..(Len(threads) + 1)
                              /\ threads'[Len(threads) + 1].task = new
      BY <1>1, <2>2
    <3>2. \A k \in DOMAIN threads : threads'[k].task # new
      BY <1>1, <3>1 DEF ThreadOf
    <3>3. \A k \in DOMAIN threads' : k \in DOMAIN threads \/ k = Len(threads) + 1
      BY <1>0, <3>1
    <3>4. QED BY <1>1, <3>1, <3>2, <3>3 DEF ThreadInv
  <2>3. QED BY <2>1, <2>2
<1>3. DOMAIN threads' \subseteq Thread
  BY <1>0, <1>2, ThreadsAreFew
<1>4. task' # None => ThreadOf(task)' # {}
  <2>1. CASE task' = task
    BY <1>1, <2>1 DEF ThreadInv, ThreadOf
  <2>2. ASSUME NEW t \in Task, StartTask(t) PROVE ThreadOf(task)' # {}
    <3>1. PICK now \in Now : OpenThread(t, now)
      BY <2>2 DEF StartTask
    <3>2. threads' = Append(threads, [task |-> t, last |-> now]) /\ task' = t
      BY <2>2, <3>1 DEF StartTask, OpenThread
    <3>3. threads'[Len(threads) + 1] = [task |-> t, last |-> now]
            /\ Len(threads) + 1 \in DOMAIN threads'
      BY <1>0, <3>2 DEF TypeOK, BusTypes
    <3>4. QED BY <3>2, <3>3 DEF ThreadOf
  <2>3. task' = task \/ task' = None \/ \E t \in Task : StartTask(t)
    BY ProjectionOfCall DEF Raises, Next, CallActs, EndTask, Invoke, callVars, ModelFails, ModelRefuses,
           Return, AskInVain, AskOther, PublishRequest, OtherAnswers, OtherAsks, PublishReply,
           ConsultationFails, FlushThread, Crash, CallIs, vars
  <2>4. QED BY <2>1, <2>2, <2>3
<1>5. \A i \in Id' : log'[i].thread \in DOMAIN threads'
  <2>1. CASE log' = log
    BY <1>1, <2>1 DEF ThreadInv, Id
  <2>2. ASSUME NEW m, Publishes(m) PROVE \A i \in Id' : log'[i].thread \in DOMAIN threads'
    <3>1. log' = Append(log, m) /\ m.thread \in DOMAIN threads
      BY <2>2 DEF Publishes, Persist
    <3>2. \A i \in DOMAIN log' : IF i \in DOMAIN log THEN log'[i] = log[i] ELSE log'[i] = m
      BY <2>2, <3>1 DEF TypeOK, BusTypes, Publishes
    <3>3. QED BY <1>1, <3>1, <3>2 DEF ThreadInv, Id
  <2>3. QED BY <2>1, <2>2 DEF BusStep, Project, Skip, Flush, SendFails, OpensThread, BusCrash, busVars
<1>6. QED BY <1>2, <1>3, <1>4, <1>5 DEF ThreadInv

(* How the log grows.                                                       *)
LEMMA LogGrows ==
    ASSUME BusTypes, NEW m, Publishes(m)
    PROVE  /\ Len(log) \in Nat /\ Id = 1..Len(log) /\ Id' = 1..(Len(log) + 1)
           /\ Len(log') = Len(log) + 1
           /\ \A i \in Id : log'[i] = log[i] /\ i \in Nat /\ i # Len(log) + 1
           /\ log'[Len(log) + 1] = m
           /\ projecting = 0 /\ projecting' = Len(log) + 1
           /\ UNCHANGED <<throttle, outbox, undelivered, missed, lost, epoch>>
<1>1. log' = Append(log, m) /\ log \in Seq(Message) /\ m \in Message
  BY DEF Publishes, Persist, BusTypes
<1>2. projecting = 0 /\ projecting' = Len(log') /\ UNCHANGED <<throttle, outbox, undelivered, missed, lost, epoch>>
  BY DEF Publishes, Persist
<1>3. Len(log) \in Nat /\ DOMAIN log = 1..Len(log) /\ Len(log') = Len(log) + 1
        /\ DOMAIN log' = 1..(Len(log) + 1)
  BY <1>1
<1>4. (\A i \in 1..Len(log) : log'[i] = log[i]) /\ log'[Len(log) + 1] = m
  BY <1>1
<1>5. QED BY <1>2, <1>3, <1>4 DEF Id

LEMMA LogStep ==
    ASSUME TypeOK, TypeOK', ThreadInv, LogInv, BusStep
    PROVE  LogInv'
<1>0. /\ \A i \in Id : /\ log[i].at \in Nat /\ log[i].thread \in DOMAIN threads
                       /\ threads[log[i].thread].last \in Nat
      /\ \A k \in DOMAIN threads : threads[k].last \in Nat /\ threads'[k].last \in Nat
      /\ \A k \in DOMAIN threads : threads'[k].last >= threads[k].last
      /\ DOMAIN threads \subseteq DOMAIN threads'
  <2>1. /\ DOMAIN threads \subseteq DOMAIN threads'
        /\ \A k \in DOMAIN threads : threads'[k].last >= threads[k].last
    BY ThreadsAre DEF TypeOK
  <2>2. \A k \in DOMAIN threads : threads[k] \in ThreadRow
    BY DEF TypeOK, BusTypes
  <2>3. \A k \in DOMAIN threads' : threads'[k] \in ThreadRow
    BY DEF TypeOK, BusTypes
  <2>4. \A i \in Id : log[i] \in Message
    BY DEF TypeOK, BusTypes, Id
  <2>5. QED BY <2>1, <2>2, <2>3, <2>4 DEF ThreadRow, Message, Time, ThreadInv
<1>1. CASE log' = log
  <2>1. Id' = Id
    BY <1>1 DEF Id
  <2>2. \A i \in Id : log[i].at <= threads'[log[i].thread].last
    BY <1>0 DEF LogInv
  <2>3. QED BY <1>1, <2>1, <2>2 DEF LogInv
<1>2. ASSUME NEW m, Publishes(m) PROVE LogInv'
  <2> DEFINE n == Len(log) + 1
  <2>1. /\ n \in Nat /\ Id' = 1..n /\ Id = 1..(n - 1)
        /\ \A i \in Id : log'[i] = log[i] /\ i \in Nat /\ i < n
        /\ log'[n] = m
    <3>1. Len(log) \in Nat
      BY DEF TypeOK, BusTypes
    <3>2. QED BY <1>2, <3>1, LogGrows DEF TypeOK
  <2> HIDE DEF n
  <2>2. /\ m.at \in Nat /\ m.thread \in DOMAIN threads /\ m.at >= threads[m.thread].last
        /\ threads'[m.thread].last = m.at
    <3>1. threads' = [threads EXCEPT ![m.thread].last = m.at] /\ m \in Message
            /\ m.at >= threads[m.thread].last /\ m.thread \in DOMAIN threads
      BY <1>2 DEF Publishes, Persist, Accepted
    <3>2. threads[m.thread] \in ThreadRow
      BY <3>1 DEF TypeOK, BusTypes
    <3>3. threads'[m.thread] = [threads[m.thread] EXCEPT !.last = m.at]
      BY <3>1
    <3>4. threads'[m.thread].last = m.at
      BY <3>2, <3>3 DEF ThreadRow
    <3>5. QED BY <3>1, <3>4 DEF Message, Time
  <2>3. \A i \in Id' : i = n \/ i \in Id
    BY <2>1
  <2>4. \A i \in Id' : log'[i].at <= threads'[log'[i].thread].last
    <3>1. \A i \in Id : log[i].at <= threads'[log[i].thread].last
      BY <1>0 DEF LogInv
    <3>2. m.at <= threads'[m.thread].last
      BY <2>2
    <3>3. QED BY <2>1, <2>3, <3>1, <3>2
  <2>5. \A i, j \in Id' : j < i /\ log'[j].thread = log'[i].thread => log'[j].at <= log'[i].at
    <3>1. \A j \in Id : log[j].thread = m.thread => log[j].at <= m.at
      BY <1>0, <2>2 DEF LogInv
    <3>2. \A i, j \in Id : j < i /\ log[j].thread = log[i].thread => log[j].at <= log[i].at
      BY DEF LogInv
    <3>3. \A i \in Id : ~(n < i)
      BY <2>1
    <3>4. QED BY <2>1, <2>3, <3>1, <3>2, <3>3
  <2>6. ASSUME NEW i \in Id', log'[i].re # 0
        PROVE  LET q == log'[log'[i].re]
               IN  /\ log'[i].re \in Id' /\ i = log'[i].re + 1
                   /\ q.re = 0 /\ q.thread = log'[i].thread /\ q.at < log'[i].at
                   /\ q.from = log'[i].to /\ q.to = log'[i].from
    <3>1. CASE i \in Id
      <4>1. log'[i] = log[i] /\ log[i].re # 0
        BY <2>1, <2>6, <3>1
      <4>2. log[i].re \in Id /\ log'[log[i].re] = log[log[i].re] /\ log[i].re \in Id'
        BY <2>1, <3>1, <4>1 DEF LogInv
      <4>3. QED BY <3>1, <4>1, <4>2 DEF LogInv
    <3>2. CASE i = n
      <4>1. Answering(m) /\ log'[i] = m
        BY <1>2, <2>1, <2>6, <3>2 DEF Publishes
      <4>2. m.re \in Id /\ m.re + 1 = n /\ log'[m.re] = log[m.re] /\ m.re \in Id'
        BY <2>1, <4>1 DEF Answering, n
      <4>3. QED BY <3>2, <4>1, <4>2 DEF Answering
    <3>3. QED BY <2>3, <3>1, <3>2
  <2>7. QED BY <2>4, <2>5, <2>6 DEF LogInv
<1>3. QED BY <1>1, <1>2 DEF BusStep, Project, Skip, Flush, SendFails, OpensThread, BusCrash, busVars

LEMMA RequestStep ==
    ASSUME TypeOK, ThreadInv, RequestInv, TaskInv, [Next]_vars
    PROVE  RequestInv'
<1>1. CASE log' = log /\ UNCHANGED <<request, role, asked>> /\ (phase' \in {"consult", "answered"} => phase \in {"consult", "answered"})
  BY <1>1 DEF RequestInv
<1>2. CASE phase' \notin {"consult", "answered"}
  BY <1>2 DEF RequestInv
<1>3. CASE PublishRequest
  <2>1. PICK now \in Now : Persist(Request(now))
    BY <1>3 DEF PublishRequest
  <2>2. task # None
    BY <1>3 DEF PublishRequest, TaskInv
  <2>3. Request(now).re = 0 /\ Request(now).from = role /\ Request(now).to = asked
          /\ Request(now) \in Message
    BY <2>2, RequestIsMessage
  <2>4. log' = Append(log, Request(now)) /\ log \in Seq(Message)
    BY <2>1 DEF Persist, TypeOK, BusTypes
  <2>5. Len(log') = Len(log) + 1 /\ Len(log) \in Nat /\ log'[Len(log) + 1] = Request(now)
    BY <2>3, <2>4
  <2>6. request' = Len(log') /\ UNCHANGED <<role, asked>>
    BY <1>3 DEF PublishRequest
  <2>7. QED BY <2>3, <2>5, <2>6 DEF RequestInv
<1>4. CASE ProjectMessage
  <2>1. log' = log
    BY <1>4 DEF ProjectMessage, ProjectAndRaise, Project, Skip
  <2>2. QED BY <1>1, <1>2, <1>4, <2>1, ProjectionOfCall DEF Raises, callVars
<1>4a. CASE UNCHANGED callVars /\ log' = log
  BY <1>1, <1>4a DEF callVars
<1>4b. CASE \/ UNCHANGED vars \/ \E t \in Thread : FlushThread(t)
            \/ \E p \in DOMAIN outbox : SendFails(p) /\ UNCHANGED callVars
  BY <1>4a, <1>4b DEF FlushThread, Flush, SendFails, vars, busVars
<1>5. CASE EndTask \/ Crash \/ ModelRefuses \/ Return \/ AskInVain \/ OtherAsks \/ ConsultationFails
             \/ PublishReply \/ (\E r \in Role : Invoke(r)) \/ (\E r \in Askable : AskOther(r))
  <2>1. \A next : ModelAnswers(next) => phase' = next
    BY DEF ModelAnswers
  <2>2. QED BY <1>2, <1>5, <2>1 DEF EndTask, Crash, ModelRefuses, Return, AskInVain, OtherAsks,
              ConsultationFails, PublishReply, Invoke, AskOther
<1>6. CASE ModelFails \/ OtherAnswers \/ \E t \in Task : StartTask(t)
  <2>1. log' = log /\ UNCHANGED <<request, role, asked>>
    BY <1>6 DEF ModelFails, OtherAnswers, StartTask, CallIs, busVars
  <2>2. phase' \in {"consult", "answered"} => phase \in {"consult", "answered"}
    BY <1>6 DEF ModelFails, OtherAnswers, StartTask
  <2>3. QED BY <1>1, <2>1, <2>2
<1>7. QED BY <1>3, <1>4, <1>4b, <1>5, <1>6 DEF Next, CallActs

-----------------------------------------------------------------------------
(* The theorems about the log and about the usage of a call.                *)

CallInv ==
    TypeOK /\ LastInv /\ TaskInv /\ ThreadInv /\ LogInv /\ RequestInv /\ UsageInv

(* The bus and the call keep their types, a task its one thread, a thread   *)
(* its order, and a call the account of what it asked of the models.        *)
THEOREM CallInvHolds == Spec => []CallInv
<1>1. Init => CallInv
  <2>1. SUFFICES ASSUME Init PROVE CallInv
    OBVIOUS
  <2>2. /\ threads = <<>> /\ log = <<>> /\ projecting = 0 /\ outbox = <<>>
        /\ undelivered = {} /\ missed = {} /\ lost = {} /\ epoch = 0 /\ throttle = [t \in Thread |-> Fresh]
        /\ task = None /\ phase = "idle" /\ role = None /\ asked = None /\ request = 0
        /\ model = 1 /\ consults = 0 /\ total = Nothing /\ posts = Nothing
        /\ usage = Nothing
    BY <2>1 DEF Init, BusInit
  <2>3. Fresh \in Throttle
    BY DEF Fresh, Throttle
  <2>4. BusTypes
    BY <2>2, <2>3 DEF BusTypes
  <2>5. Nothing \in Amount
    BY DEF Nothing, Amount
  <2>6. CallTypes
    BY <2>2, <2>5, CallAssumption DEF CallTypes, Phase, Agent
  <2>7. LastInv /\ TaskInv /\ RequestInv /\ UsageInv
    BY <2>2 DEF LastInv, TaskInv, RequestInv, UsageInv
  <2>8. Id = {} /\ DOMAIN threads = {}
    BY <2>2 DEF Id
  <2>9. ThreadInv /\ LogInv
    BY <2>2, <2>8 DEF ThreadInv, LogInv
  <2>10. QED BY <2>4, <2>6, <2>7, <2>9 DEF CallInv, TypeOK
<1>2. CallInv /\ [Next]_vars => CallInv'
  <2>1. SUFFICES ASSUME CallInv, [Next]_vars PROVE CallInv'
    OBVIOUS
  <2>2. BusStep
    BY <2>1, StepOfBus DEF CallInv
  <2>3. BusTypes'
    BY <2>1, <2>2, BusTypesStep DEF CallInv, TypeOK, ThreadInv
  <2>4. CallTypes'
    BY <2>1, <2>3, CallTypesStep DEF CallInv, BusTypes
  <2>5. TypeOK'
    BY <2>3, <2>4 DEF TypeOK
  <2>6. LastInv' /\ TaskInv' /\ RequestInv' /\ UsageInv'
    BY <2>1, <2>2, LastStep, TaskStep, RequestStep, UsageStep DEF CallInv, TypeOK
  <2>7. ThreadInv' /\ LogInv'
    BY <2>1, <2>2, <2>5, ThreadStep, LogStep DEF CallInv
  <2>8. QED BY <2>5, <2>6, <2>7 DEF CallInv
<1>3. QED BY <1>1, <1>2, PTL DEF Spec

(* Every variable of the bus and of the call keeps its type.                *)
THEOREM TypeCorrect == Spec => []TypeOK
<1>1. CallInv => TypeOK
  BY DEF CallInv
<1>2. QED BY <1>1, CallInvHolds, PTL

(* Whatever fails and however often other agents are asked, the usage a     *)
(* call reports is every request made to the models for it.                 *)
THEOREM UsageIsWholeHolds == Spec => []UsageIsWhole
<1>1. CallInv => UsageIsWhole
  <2>1. SUFFICES ASSUME CallInv, phase = "returned" PROVE usage = posts
    BY DEF UsageIsWhole
  <2>2. /\ usage = total /\ model = 1 /\ posts.answers = total.answers
        /\ posts.attempts = total.attempts + (model - 1)
    BY <2>1 DEF CallInv, UsageInv
  <2>3. posts \in Amount /\ total \in Amount
    BY <2>1 DEF CallInv, TypeOK, CallTypes
  <2>4. posts.attempts = total.attempts
    BY <2>2, <2>3 DEF Amount
  <2>5. QED BY <2>2, <2>3, <2>4 DEF Amount
<1>2. QED BY <1>1, CallInvHolds, PTL

(* A thread's times do not go back, and an answer is the message of the     *)
(* thread right after its question, from the one asked to the one who asked.*)
THEOREM RepliesFollowRequestsHolds == Spec => []RepliesFollowRequests
<1>1. CallInv => RepliesFollowRequests
  <2>1. SUFFICES ASSUME CallInv, NEW i \in Id
        PROVE  /\ \A j \in OfThread(log[i].thread) : j < i => log[j].at <= log[i].at
               /\ log[i].re # 0 =>
                     LET q == log[log[i].re]
                     IN  /\ q.re = 0 /\ q.thread = log[i].thread /\ q.at < log[i].at
                         /\ q.from = log[i].to /\ q.to = log[i].from
                         /\ \A j \in OfThread(log[i].thread) : j < i => j <= log[i].re
    BY DEF RepliesFollowRequests
  <2>2. \A j \in OfThread(log[i].thread) : j < i => log[j].at <= log[i].at
    BY <2>1 DEF OfThread, CallInv, LogInv
  <2>3. log[i].re # 0 => i = log[i].re + 1 /\ log[i].re \in Id
    BY <2>1 DEF CallInv, LogInv
  <2>4. \A j \in Id : j \in Nat
    BY <2>1 DEF CallInv, TypeOK, BusTypes, Id
  <2>5. log[i].re # 0 => \A j \in OfThread(log[i].thread) : j < i => j <= log[i].re
    BY <2>1, <2>3, <2>4 DEF OfThread
  <2>6. QED BY <2>1, <2>2, <2>5 DEF CallInv, LogInv
<1>2. QED BY <1>1, CallInvHolds, PTL

-----------------------------------------------------------------------------
(* Where a message is: of a thread, s is the batch being collected and d    *)
(* the batches whose summary was not handed over; shown are the messages in *)
(* the outbox, late those put there by flush, gone those missed or lost,    *)
(* done all that were projected.  of gives a message's thread.              *)

Rising(s) == \A j, k \in DOMAIN s : j < k => s[j] < s[k]

Collecting(of, t, s, shown, gone, done) ==
    /\ Rising(s)
    /\ \A i \in ToSet(s) : i \in done /\ of[i] = t
    /\ \A i \in shown : of[i] = t => \A j \in ToSet(s) : i < j
    /\ ToSet(s) \cap gone = {}

Deferring(of, t, d, s, shown, late, gone, done) ==
    /\ \A k \in DOMAIN d :
          /\ Rising(d[k])
          /\ \A i \in ToSet(d[k]) :
                /\ i \in done /\ of[i] = t /\ i \notin shown \cup gone
                /\ \A l \in late : of[l] = t => l < i
                /\ \A j \in ToSet(s) : i < j
    /\ \A k, l \in DOMAIN d : k < l => \A i \in ToSet(d[k]), j \in ToSet(d[l]) : i < j

Somewhere(of, t, d, s, shown, gone, done) ==
    \A i \in done : of[i] = t =>
       i \in shown \cup gone \/ i \in ToSet(s) \/ \E k \in DOMAIN d : i \in ToSet(d[k])

Sorted(of, t, d, s, shown, late, gone, done) ==
    /\ Collecting(of, t, s, shown, gone, done)
    /\ Deferring(of, t, d, s, shown, late, gone, done)
    /\ Somewhere(of, t, d, s, shown, gone, done)

LEMMA SetOfAppend ==
    ASSUME NEW S, NEW s \in Seq(S), NEW x \in S
    PROVE  /\ ToSet(Append(s, x)) = ToSet(s) \cup {x} /\ ToSet(<<>>) = {} /\ ToSet(<<x>>) = {x}
           /\ Append(s, x) \in Seq(S) /\ DOMAIN Append(s, x) = DOMAIN s \cup {Len(s) + 1}
           /\ \A k \in DOMAIN s : Append(s, x)[k] = s[k] /\ k < Len(s) + 1 /\ k \in Nat
           /\ Append(s, x)[Len(s) + 1] = x /\ Len(s) \in Nat
<1>1. DOMAIN s = 1..Len(s) /\ Len(s) \in Nat
  OBVIOUS
<1>2. /\ Append(s, x) \in Seq(S) /\ DOMAIN Append(s, x) = 1..(Len(s) + 1)
      /\ \A k \in 1..Len(s) : Append(s, x)[k] = s[k]
      /\ Append(s, x)[Len(s) + 1] = x
  OBVIOUS
<1>3. DOMAIN Append(s, x) = DOMAIN s \cup {Len(s) + 1}
  BY <1>1, <1>2
<1>4. \A k \in DOMAIN s : Append(s, x)[k] = s[k] /\ k < Len(s) + 1 /\ k \in Nat
  BY <1>1, <1>2
<1>5. ToSet(Append(s, x)) = ToSet(s) \cup {x}
  BY <1>2, <1>3, <1>4 DEF ToSet
<1>6. ToSet(<<>>) = {}
  BY DEF ToSet
<1>7. ToSet(<<x>>) = {x}
  BY DEF ToSet
<1>8. QED BY <1>1, <1>2, <1>3, <1>4, <1>5, <1>6, <1>7

LEMMA RisingAppend ==
    ASSUME NEW s \in Seq(Nat), NEW x \in Nat, Rising(s), \A i \in ToSet(s) : i < x
    PROVE  Rising(Append(s, x))
<1>1. /\ DOMAIN Append(s, x) = DOMAIN s \cup {Len(s) + 1}
      /\ \A k \in DOMAIN s : Append(s, x)[k] = s[k] /\ k < Len(s) + 1 /\ k \in Nat
      /\ Append(s, x)[Len(s) + 1] = x /\ Len(s) \in Nat
  BY SetOfAppend
<1>2. \A k \in DOMAIN s : s[k] < x
  BY DEF ToSet
<1>3. QED BY <1>1, <1>2 DEF Rising

LEMMA TailIs ==
    ASSUME NEW S, NEW d \in Seq(S), d # <<>>
    PROVE  /\ Tail(d) \in Seq(S) /\ 1 \in DOMAIN d /\ Head(d) = d[1] /\ Head(d) \in S
           /\ \A k \in DOMAIN Tail(d) : k + 1 \in DOMAIN d /\ k \in Nat \ {0} /\ Tail(d)[k] = d[k + 1]
           /\ \A k \in DOMAIN d : k # 1 => k - 1 \in DOMAIN Tail(d) /\ Tail(d)[k - 1] = d[k]
<1>1. Len(d) \in Nat \ {0} /\ DOMAIN d = 1..Len(d)
  OBVIOUS
<1>2. Tail(d) \in Seq(S) /\ Head(d) = d[1] /\ Head(d) \in S /\ Len(Tail(d)) = Len(d) - 1
  BY <1>1
<1>3. DOMAIN Tail(d) = 1..(Len(d) - 1)
  BY <1>1, <1>2
<1>4. \A k \in 1..(Len(d) - 1) : Tail(d)[k] = d[k + 1]
  BY <1>1
<1>5. \A k \in DOMAIN Tail(d) : k + 1 \in DOMAIN d /\ k \in Nat \ {0} /\ Tail(d)[k] = d[k + 1]
  BY <1>1, <1>3, <1>4
<1>6. ASSUME NEW k \in DOMAIN d, k # 1 PROVE k - 1 \in DOMAIN Tail(d) /\ Tail(d)[k - 1] = d[k]
  <2>1. k - 1 \in DOMAIN Tail(d) /\ (k - 1) + 1 = k
    BY <1>1, <1>3, <1>6
  <2>2. QED BY <1>5, <2>1
<1>7. QED BY <1>1, <1>2, <1>5, <1>6

(* Only a thread's own messages matter to it.                               *)
LEMMA SortedFrame ==
    ASSUME NEW of, NEW t, NEW d, NEW s, NEW shown, NEW late, NEW gone, NEW done,
           NEW shown2, NEW late2, NEW gone2, NEW done2,
           Sorted(of, t, d, s, shown, late, gone, done),
           shown \subseteq shown2, late \subseteq late2, gone \subseteq gone2, done \subseteq done2,
           \A i \in (shown2 \ shown) \cup (late2 \ late) \cup (gone2 \ gone) \cup (done2 \ done) :
              of[i] # t
    PROVE  Sorted(of, t, d, s, shown2, late2, gone2, done2)
<1>1. \A i : of[i] = t => /\ (i \in shown2 <=> i \in shown) /\ (i \in late2 <=> i \in late)
                          /\ (i \in gone2 <=> i \in gone) /\ (i \in done2 <=> i \in done)
  OBVIOUS
<1>2. Collecting(of, t, s, shown2, gone2, done2)
  BY <1>1 DEF Sorted, Collecting
<1>3. Deferring(of, t, d, s, shown2, late2, gone2, done2)
  <2>1. \A k \in DOMAIN d : Rising(d[k])
    BY DEF Sorted, Deferring
  <2>2. \A k, l \in DOMAIN d : k < l => \A i \in ToSet(d[k]), j \in ToSet(d[l]) : i < j
    BY DEF Sorted, Deferring
  <2>3. ASSUME NEW k \in DOMAIN d, NEW i \in ToSet(d[k])
        PROVE  /\ i \in done2 /\ of[i] = t /\ i \notin shown2 \cup gone2
               /\ \A l \in late2 : of[l] = t => l < i
               /\ \A j \in ToSet(s) : i < j
    <3>1. /\ i \in done /\ of[i] = t /\ i \notin shown \cup gone
          /\ \A l \in late : of[l] = t => l < i
          /\ \A j \in ToSet(s) : i < j
      BY DEF Sorted, Deferring
    <3>2. QED BY <1>1, <3>1
  <2>4. QED BY <2>1, <2>2, <2>3 DEF Deferring
<1>4. Somewhere(of, t, d, s, shown2, gone2, done2)
  BY <1>1 DEF Sorted, Somewhere
<1>5. QED BY <1>2, <1>3, <1>4 DEF Sorted

(* The moves of the throttle.  The batch is posted ...                      *)
LEMMA BatchPosted ==
    ASSUME NEW of, NEW t, NEW d, NEW s, NEW shown, NEW late, NEW gone, NEW done,
           done \subseteq Nat, late \subseteq shown,
           Sorted(of, t, d, s, shown, late, gone, done)
    PROVE  Sorted(of, t, d, <<>>, shown \cup ToSet(s), late, gone, done)
<1>1. ToSet(<<>>) = {}
  BY DEF ToSet
<1>2. Collecting(of, t, <<>>, shown \cup ToSet(s), gone, done)
  BY <1>1 DEF Collecting, Rising
<1>3. \A i \in ToSet(s) : i \in Nat
  BY DEF Sorted, Collecting
<1>4. \A k \in DOMAIN d : \A i \in ToSet(d[k]) : i \notin ToSet(s)
  <2>1. \A k \in DOMAIN d : \A i \in ToSet(d[k]) : \A j \in ToSet(s) : i < j
    BY DEF Sorted, Deferring
  <2>2. \A j \in Nat : ~(j < j)
    OBVIOUS
  <2>3. QED BY <1>3, <2>1, <2>2
<1>5. Deferring(of, t, d, <<>>, shown \cup ToSet(s), late, gone, done)
  BY <1>1, <1>4 DEF Sorted, Deferring
<1>6. Somewhere(of, t, d, <<>>, shown \cup ToSet(s), gone, done)
  BY DEF Sorted, Somewhere
<1>7. QED BY <1>2, <1>5, <1>6 DEF Sorted

(* ... or is deferred; ...                                                  *)
LEMMA BatchDeferred ==
    ASSUME NEW of, NEW t, NEW d \in Seq(Seq(Nat)), NEW s \in Seq(Nat), NEW shown, NEW late,
           NEW gone, NEW done, done \subseteq Nat, late \subseteq shown,
           shown \cup gone \subseteq done,
           Sorted(of, t, d, s, shown, late, gone, done)
    PROVE  Sorted(of, t, Append(d, s), <<>>, shown, late, gone, done)
<1> DEFINE n == Len(d) + 1
           d2 == Append(d, s)
<1>1. ToSet(<<>>) = {}
  BY DEF ToSet
<1>2. /\ DOMAIN d2 = DOMAIN d \cup {n} /\ d2[n] = s
      /\ \A k \in DOMAIN d : d2[k] = d[k] /\ k < n /\ k \in Nat
      /\ n \in Nat /\ ~(n < n)
  BY SetOfAppend
<1> HIDE DEF n, d2
<1>3. Collecting(of, t, <<>>, shown, gone, done)
  BY <1>1 DEF Collecting, Rising
<1>4. ASSUME NEW k \in DOMAIN d2
      PROVE  /\ Rising(d2[k])
             /\ \A i \in ToSet(d2[k]) : /\ i \in done /\ of[i] = t /\ i \notin shown \cup gone
                                        /\ \A l \in late : of[l] = t => l < i
  <2>1. CASE k \in DOMAIN d
    BY <1>2, <2>1 DEF Sorted, Deferring
  <2>2. CASE k = n
    <3>1. \A i \in ToSet(s) : i \in done /\ of[i] = t /\ i \in Nat /\ ~(i < i)
      <4>1. \A i \in ToSet(s) : i \in done /\ of[i] = t
        BY DEF Sorted, Collecting
      <4>2. \A i \in Nat : ~(i < i)
        OBVIOUS
      <4>3. QED BY <4>1, <4>2
    <3>2. /\ \A i \in shown : of[i] = t => \A j \in ToSet(s) : i < j
          /\ ToSet(s) \cap gone = {}
      BY DEF Sorted, Collecting
    <3>3. Rising(s)
      BY DEF Sorted, Collecting
    <3>4. \A i \in ToSet(s) : i \notin shown \cup gone
      BY <3>1, <3>2
    <3>5. QED BY <1>2, <2>2, <3>1, <3>2, <3>3, <3>4
  <2>3. QED BY <1>2, <2>1, <2>2
<1>5. ASSUME NEW k \in DOMAIN d2, NEW l \in DOMAIN d2, k < l
      PROVE  \A i \in ToSet(d2[k]), j \in ToSet(d2[l]) : i < j
  <2>1. k \in DOMAIN d
    <3>1. \A m \in DOMAIN d : ~(n < m)
      BY <1>2
    <3>2. QED BY <1>2, <1>5, <3>1
  <2>2. CASE l \in DOMAIN d
    BY <1>2, <1>5, <2>1, <2>2 DEF Sorted, Deferring
  <2>3. CASE l = n
    BY <1>2, <2>1, <2>3 DEF Sorted, Deferring
  <2>4. QED BY <1>2, <2>2, <2>3
<1>6. Deferring(of, t, d2, <<>>, shown, late, gone, done)
  BY <1>1, <1>4, <1>5 DEF Deferring
<1>7. Somewhere(of, t, d2, <<>>, shown, gone, done)
  BY <1>2 DEF Sorted, Somewhere
<1>8. QED BY <1>3, <1>6, <1>7 DEF Sorted, d2

(* ... a message is projected: shown or missed when no batch is begun, ...  *)
LEMMA MessageAlone ==
    ASSUME NEW of, NEW t, NEW d, NEW s, NEW shown, NEW late, NEW gone, NEW done,
           NEW shown2, NEW gone2, NEW id \in Nat, s = <<>>,
           done \subseteq Nat, \A i \in done : i < id, shown \cup gone \subseteq done,
           shown2 \cup gone2 = shown \cup gone \cup {id},
           Sorted(of, t, d, s, shown, late, gone, done)
    PROVE  Sorted(of, t, d, s, shown2, late, gone2, done \cup {id})
<1>1. ToSet(s) = {}
  BY DEF ToSet
<1>2. Collecting(of, t, s, shown2, gone2, done \cup {id})
  BY <1>1 DEF Collecting, Rising
<1>3. ASSUME NEW k \in DOMAIN d
      PROVE  /\ Rising(d[k])
             /\ \A i \in ToSet(d[k]) : /\ i \in done /\ of[i] = t /\ i \notin shown2 \cup gone2
                                       /\ \A l \in late : of[l] = t => l < i
  <2>1. /\ Rising(d[k])
        /\ \A i \in ToSet(d[k]) : /\ i \in done /\ of[i] = t /\ i \notin shown \cup gone
                                  /\ \A l \in late : of[l] = t => l < i
    BY DEF Sorted, Deferring
  <2>2. \A i \in done : i # id
    OBVIOUS
  <2>3. QED BY <2>1, <2>2
<1>4. \A k, l \in DOMAIN d : k < l => \A i \in ToSet(d[k]), j \in ToSet(d[l]) : i < j
  BY DEF Sorted, Deferring
<1>5. Deferring(of, t, d, s, shown2, late, gone2, done \cup {id})
  BY <1>1, <1>3, <1>4 DEF Deferring
<1>6. Somewhere(of, t, d, s, shown2, gone2, done \cup {id})
  BY DEF Sorted, Somewhere
<1>7. QED BY <1>2, <1>5, <1>6 DEF Sorted

(* ... else it joins the batch.                                             *)
LEMMA MessageBatched ==
    ASSUME NEW of, NEW t, NEW d, NEW s \in Seq(Nat), NEW shown, NEW late, NEW gone, NEW done,
           NEW id \in Nat, of[id] = t,
           done \subseteq Nat, \A i \in done : i < id, shown \cup gone \subseteq done,
           Sorted(of, t, d, s, shown, late, gone, done)
    PROVE  Sorted(of, t, d, Append(s, id), shown, late, gone, done \cup {id})
<1>1. ToSet(Append(s, id)) = ToSet(s) \cup {id}
  <2>1. /\ DOMAIN Append(s, id) = DOMAIN s \cup {Len(s) + 1}
        /\ \A k \in DOMAIN s : Append(s, id)[k] = s[k]
        /\ Append(s, id)[Len(s) + 1] = id
    BY SetOfAppend
  <2>2. QED BY <2>1 DEF ToSet
<1>2. \A i \in ToSet(s) : i \in done /\ of[i] = t /\ i < id
  BY DEF Sorted, Collecting
<1>3. Rising(Append(s, id))
  <2>1. Rising(s)
    BY DEF Sorted, Collecting
  <2>2. QED BY <1>2, <2>1, RisingAppend
<1>4. /\ \A i \in shown : of[i] = t => \A j \in ToSet(s) \cup {id} : i < j
      /\ (ToSet(s) \cup {id}) \cap gone = {}
  <2>1. ~(id < id)
    OBVIOUS
  <2>2. QED BY <2>1 DEF Sorted, Collecting
<1>5. Collecting(of, t, Append(s, id), shown, gone, done \cup {id})
  BY <1>1, <1>2, <1>3, <1>4 DEF Collecting
<1>6. ASSUME NEW k \in DOMAIN d
      PROVE  /\ Rising(d[k])
             /\ \A i \in ToSet(d[k]) :
                   /\ i \in done /\ of[i] = t /\ i \notin shown \cup gone
                   /\ \A l \in late : of[l] = t => l < i
                   /\ \A j \in ToSet(s) \cup {id} : i < j
  <2>1. /\ Rising(d[k])
        /\ \A i \in ToSet(d[k]) : /\ i \in done /\ of[i] = t /\ i \notin shown \cup gone
                                  /\ \A l \in late : of[l] = t => l < i
                                  /\ \A j \in ToSet(s) : i < j
    BY DEF Sorted, Deferring
  <2>2. QED BY <2>1
<1>7. \A k, l \in DOMAIN d : k < l => \A i \in ToSet(d[k]), j \in ToSet(d[l]) : i < j
  BY DEF Sorted, Deferring
<1>8. Deferring(of, t, d, Append(s, id), shown, late, gone, done \cup {id})
  BY <1>1, <1>6, <1>7 DEF Deferring
<1>9. Somewhere(of, t, d, Append(s, id), shown, gone, done \cup {id})
  BY <1>1 DEF Sorted, Somewhere
<1>10. QED BY <1>5, <1>8, <1>9 DEF Sorted

(* A message the throttle never saw is in no batch.                         *)
LEMMA MessageSkipped ==
    ASSUME NEW of, NEW t, NEW d, NEW s, NEW shown, NEW late, NEW gone, NEW done,
           NEW id, id \notin done, shown \subseteq done,
           Sorted(of, t, d, s, shown, late, gone, done)
    PROVE  Sorted(of, t, d, s, shown, late, gone \cup {id}, done \cup {id})
<1>1. Collecting(of, t, s, shown, gone \cup {id}, done \cup {id})
  BY DEF Sorted, Collecting
<1>2. Deferring(of, t, d, s, shown, late, gone \cup {id}, done \cup {id})
  <2>1. Deferring(of, t, d, s, shown, late, gone, done)
    BY DEF Sorted
  <2>2. ASSUME NEW k \in DOMAIN d, NEW i \in ToSet(d[k])
        PROVE  /\ i \in done \cup {id} /\ of[i] = t /\ i \notin shown \cup (gone \cup {id})
               /\ \A l \in late : of[l] = t => l < i
               /\ \A j \in ToSet(s) : i < j
    BY <2>1 DEF Deferring
  <2>3. QED BY <2>1, <2>2 DEF Deferring
<1>3. Somewhere(of, t, d, s, shown, gone \cup {id}, done \cup {id})
  BY DEF Sorted, Somewhere
<1>4. QED BY <1>1, <1>2, <1>3 DEF Sorted

(* The oldest of the deferred batches is posted late.                       *)
LEMMA OldestPosted ==
    ASSUME NEW of, NEW t, NEW d \in Seq(Seq(Nat)), NEW s, NEW shown, NEW late, NEW gone, NEW done,
           d # <<>>, done \subseteq Nat, late \subseteq shown,
           Sorted(of, t, d, s, shown, late, gone, done)
    PROVE  Sorted(of, t, Tail(d), s, shown \cup ToSet(Head(d)), late \cup ToSet(Head(d)), gone, done)
<1> DEFINE h == ToSet(Head(d))
           r == Tail(d)
<1>1. /\ 1 \in DOMAIN d /\ h = ToSet(d[1])
      /\ \A k \in DOMAIN r : k + 1 \in DOMAIN d /\ k \in Nat \ {0} /\ r[k] = d[k + 1]
      /\ \A k \in DOMAIN d : k # 1 => k - 1 \in DOMAIN r /\ r[k - 1] = d[k]
  BY TailIs
<1> HIDE DEF h, r
<1>2. /\ \A i \in h : i \in done /\ of[i] = t /\ i \notin shown \cup gone
      /\ \A i \in h : \A j \in ToSet(s) : i < j
  BY <1>1 DEF Sorted, Deferring
<1>3. Collecting(of, t, s, shown \cup h, gone, done)
  BY <1>2 DEF Sorted, Collecting
<1>4. ASSUME NEW k \in DOMAIN r
      PROVE  /\ Rising(r[k])
             /\ \A i \in ToSet(r[k]) :
                   /\ i \in done /\ of[i] = t /\ i \notin shown \cup h \cup gone
                   /\ \A l \in late \cup h : of[l] = t => l < i
                   /\ \A j \in ToSet(s) : i < j
  <2>1. k + 1 \in DOMAIN d /\ 1 < k + 1 /\ r[k] = d[k + 1]
    BY <1>1
  <2>2. \A i \in h, j \in ToSet(r[k]) : i < j
    BY <1>1, <2>1 DEF Sorted, Deferring
  <2>3. /\ Rising(r[k])
        /\ \A i \in ToSet(r[k]) : /\ i \in done /\ of[i] = t /\ i \notin shown \cup gone
                                  /\ \A l \in late : of[l] = t => l < i
                                  /\ \A j \in ToSet(s) : i < j
    BY <2>1 DEF Sorted, Deferring
  <2>4. \A i \in done : ~(i < i)
    OBVIOUS
  <2>5. QED BY <1>2, <2>2, <2>3, <2>4
<1>5. ASSUME NEW k \in DOMAIN r, NEW l \in DOMAIN r, k < l
      PROVE  \A i \in ToSet(r[k]), j \in ToSet(r[l]) : i < j
  <2>1. k + 1 \in DOMAIN d /\ l + 1 \in DOMAIN d /\ k + 1 < l + 1
          /\ r[k] = d[k + 1] /\ r[l] = d[l + 1]
    BY <1>1, <1>5
  <2>2. QED BY <2>1 DEF Sorted, Deferring
<1>6. Deferring(of, t, r, s, shown \cup h, late \cup h, gone, done)
  BY <1>4, <1>5 DEF Deferring
<1>7. Somewhere(of, t, r, s, shown \cup h, gone, done)
  <2>1. SUFFICES ASSUME NEW i \in done, of[i] = t, i \notin shown \cup h \cup gone, i \notin ToSet(s)
        PROVE  \E k \in DOMAIN r : i \in ToSet(r[k])
    BY DEF Somewhere
  <2>2. PICK k \in DOMAIN d : i \in ToSet(d[k])
    BY <2>1 DEF Sorted, Somewhere
  <2>3. k # 1
    BY <1>1, <2>1, <2>2
  <2>4. QED BY <1>1, <2>2, <2>3
<1>8. QED BY <1>3, <1>6, <1>7 DEF Sorted, h, r

-----------------------------------------------------------------------------
(* The outbox: what is in it, and in which order.                           *)

Shown(ch) == UNION {ToSet(ch[p].ids) : p \in DOMAIN ch}
LateOnes(ch) == UNION {ToSet(ch[p].ids) : p \in {q \in DOMAIN ch : ch[q].kind = "late"}}

InOrder(of, ch) ==
    /\ \A p \in DOMAIN ch : /\ Rising(ch[p].ids)
                            /\ \A i \in ToSet(ch[p].ids) : of[i] = ch[p].thread
    /\ \A p, q \in DOMAIN ch :
          p < q /\ ch[p].thread = ch[q].thread /\ (ch[q].kind = "late" => ch[p].kind = "late") =>
             \A i \in ToSet(ch[p].ids), j \in ToSet(ch[q].ids) : i < j
    /\ \A p, q \in DOMAIN ch : p # q => ToSet(ch[p].ids) \cap ToSet(ch[q].ids) = {}

LEMMA PostAdded ==
    ASSUME NEW of, NEW ch \in Seq(Post), NEW post \in Post,
           InOrder(of, ch), Rising(post.ids),
           \A i \in ToSet(post.ids) : of[i] = post.thread,
           ToSet(post.ids) \cap Shown(ch) = {},
           \A i \in (IF post.kind = "late" THEN LateOnes(ch) ELSE Shown(ch)) :
              of[i] = post.thread => \A j \in ToSet(post.ids) : i < j
    PROVE  /\ InOrder(of, ch \o <<post>>)
           /\ Shown(ch \o <<post>>) = Shown(ch) \cup ToSet(post.ids)
           /\ LateOnes(ch \o <<post>>) =
                 LateOnes(ch) \cup (IF post.kind = "late" THEN ToSet(post.ids) ELSE {})
<1> DEFINE n == Len(ch) + 1
           c2 == ch \o <<post>>
<1>1. c2 = Append(ch, post)
  OBVIOUS
<1>2. /\ DOMAIN c2 = DOMAIN ch \cup {n} /\ c2[n] = post
      /\ \A k \in DOMAIN ch : c2[k] = ch[k] /\ k < n /\ k \in Nat
      /\ n \in Nat /\ n \notin DOMAIN ch
  <2>1. /\ DOMAIN Append(ch, post) = DOMAIN ch \cup {n} /\ Append(ch, post)[n] = post
        /\ \A k \in DOMAIN ch : Append(ch, post)[k] = ch[k] /\ k < n /\ k \in Nat
        /\ n \in Nat
    BY SetOfAppend
  <2>2. ~(n < n)
    BY <2>1
  <2>3. QED BY <1>1, <2>1, <2>2
<1> HIDE DEF n, c2
<1>3. Shown(c2) = Shown(ch) \cup ToSet(post.ids)
  BY <1>2 DEF Shown
<1>4. LateOnes(c2) = LateOnes(ch) \cup (IF post.kind = "late" THEN ToSet(post.ids) ELSE {})
  <2>1. \A i : i \in LateOnes(c2) <=>
                 \E p \in DOMAIN c2 : c2[p].kind = "late" /\ i \in ToSet(c2[p].ids)
    BY DEF LateOnes
  <2>2. \A i : i \in LateOnes(ch) <=>
                 \E p \in DOMAIN ch : ch[p].kind = "late" /\ i \in ToSet(ch[p].ids)
    BY DEF LateOnes
  <2>3. QED BY <1>2, <2>1, <2>2
<1>5. \A p \in DOMAIN c2 : /\ Rising(c2[p].ids)
                           /\ \A i \in ToSet(c2[p].ids) : of[i] = c2[p].thread
  BY <1>2 DEF InOrder
<1>6. ASSUME NEW p \in DOMAIN c2, NEW q \in DOMAIN c2, p < q, c2[p].thread = c2[q].thread,
             c2[q].kind = "late" => c2[p].kind = "late",
             NEW i \in ToSet(c2[p].ids), NEW j \in ToSet(c2[q].ids)
      PROVE  i < j
  <2>1. p \in DOMAIN ch /\ c2[p] = ch[p]
    <3>1. \A k \in DOMAIN ch : ~(n < k)
      BY <1>2
    <3>2. ~(n < n)
      BY <1>2
    <3>3. QED BY <1>2, <1>6, <3>1, <3>2
  <2>2. CASE q \in DOMAIN ch
    BY <1>2, <1>6, <2>1, <2>2 DEF InOrder
  <2>3. CASE q = n
    <3>1. c2[q] = post /\ j \in ToSet(post.ids) /\ of[i] = post.thread
      BY <1>2, <1>5, <1>6, <2>3
    <3>2. i \in Shown(ch)
      BY <1>6, <2>1 DEF Shown
    <3>3. post.kind = "late" => i \in LateOnes(ch)
      BY <1>6, <2>1, <3>1 DEF LateOnes
    <3>4. QED BY <3>1, <3>2, <3>3
  <2>4. QED BY <1>2, <2>2, <2>3
<1>7. ASSUME NEW p \in DOMAIN c2, NEW q \in DOMAIN c2, p # q
      PROVE  ToSet(c2[p].ids) \cap ToSet(c2[q].ids) = {}
  <2>1. CASE p \in DOMAIN ch /\ q \in DOMAIN ch
    BY <1>2, <1>7, <2>1 DEF InOrder
  <2>2. \A k \in DOMAIN ch : ToSet(ch[k].ids) \cap ToSet(post.ids) = {}
    BY DEF Shown
  <2>3. QED BY <1>2, <1>7, <2>1, <2>2
<1>8. InOrder(of, c2)
  BY <1>5, <1>6, <1>7 DEF InOrder
<1>9. QED BY <1>3, <1>4, <1>8 DEF c2

(* Every message is in one place at most, and a thread's are in order.      *)
Tidy(of, ch, mi, lo, done) ==
    /\ InOrder(of, ch)
    /\ Shown(ch) \cup mi \cup lo \subseteq done
    /\ Shown(ch) \cap (mi \cup lo) = {} /\ mi \cap lo = {}

Settled(of, t, ch, d, s, mi, lo, done) ==
    /\ Tidy(of, ch, mi, lo, done)
    /\ Sorted(of, t, d, s, Shown(ch), LateOnes(ch), mi \cup lo, done)

(* Only messages of the thread were added.                                  *)
Grown(of, t, before, after) == before \subseteq after /\ \A i \in after \ before : of[i] = t

Moved(of, t, ch, mi, done, ch2, mi2, done2) ==
    /\ Grown(of, t, Shown(ch), Shown(ch2)) /\ Grown(of, t, LateOnes(ch), LateOnes(ch2))
    /\ Grown(of, t, mi, mi2) /\ Grown(of, t, done, done2)

LEMMA LateAreShown ==
    ASSUME NEW ch
    PROVE  LateOnes(ch) \subseteq Shown(ch)
  BY DEF LateOnes, Shown

LEMMA SettledPosted ==
    ASSUME NEW of, NEW t \in Nat, NEW ch \in Seq(Post), NEW d, NEW s \in Seq(Nat), NEW mi, NEW lo,
           NEW done, done \subseteq Nat, Settled(of, t, ch, d, s, mi, lo, done)
    PROVE  LET ch2 == ch \o <<[thread |-> t, ids |-> s, kind |-> "summary"]>>
           IN  /\ Settled(of, t, ch2, d, <<>>, mi, lo, done)
               /\ Moved(of, t, ch, mi, done, ch2, mi, done)
<1> DEFINE post == [thread |-> t, ids |-> s, kind |-> "summary"]
           ch2 == ch \o <<post>>
<1>1. post \in Post /\ post.ids = s /\ post.thread = t /\ post.kind # "late"
  BY DEF Post
<1>2. /\ Rising(s) /\ \A i \in ToSet(s) : i \in done /\ of[i] = t
      /\ \A i \in Shown(ch) : of[i] = t => \A j \in ToSet(s) : i < j
      /\ ToSet(s) \cap (mi \cup lo) = {}
  BY DEF Settled, Sorted, Collecting
<1>3. ToSet(s) \cap (Shown(ch) \cup (mi \cup lo)) = {}
  <2>1. \A i \in Nat : ~(i < i)
    OBVIOUS
  <2>2. QED BY <1>2, <2>1
<1> HIDE DEF post
<1>4. InOrder(of, ch)
  BY DEF Settled, Tidy
<1>5. /\ InOrder(of, ch2) /\ Shown(ch2) = Shown(ch) \cup ToSet(s) /\ LateOnes(ch2) = LateOnes(ch) \cup {}
  <2>1. /\ \A i \in ToSet(post.ids) : of[i] = post.thread
        /\ ToSet(post.ids) \cap Shown(ch) = {}
        /\ \A i \in (IF post.kind = "late" THEN LateOnes(ch) ELSE Shown(ch)) :
              of[i] = post.thread => \A j \in ToSet(post.ids) : i < j
        /\ Rising(post.ids)
    BY <1>1, <1>2, <1>3
  <2>2. /\ InOrder(of, ch \o <<post>>)
        /\ Shown(ch \o <<post>>) = Shown(ch) \cup ToSet(post.ids)
        /\ LateOnes(ch \o <<post>>) =
              LateOnes(ch) \cup (IF post.kind = "late" THEN ToSet(post.ids) ELSE {})
    BY <1>1, <1>4, <2>1, PostAdded
  <2>3. QED BY <1>1, <2>2
<1>6. Tidy(of, ch2, mi, lo, done)
  BY <1>2, <1>3, <1>5 DEF Settled, Tidy
<1>7. Sorted(of, t, d, <<>>, Shown(ch) \cup ToSet(s), LateOnes(ch), mi \cup lo, done)
  BY BatchPosted, LateAreShown DEF Settled
<1>8. LateOnes(ch2) = LateOnes(ch)
  BY <1>5
<1>9. Settled(of, t, ch2, d, <<>>, mi, lo, done)
  BY <1>5, <1>6, <1>7, <1>8 DEF Settled
<1>10. Moved(of, t, ch, mi, done, ch2, mi, done)
  BY <1>2, <1>5, <1>8 DEF Moved, Grown
<1>11. QED BY <1>9, <1>10 DEF post

LEMMA SettledDeferred ==
    ASSUME NEW of, NEW t, NEW ch, NEW d \in Seq(Seq(Nat)), NEW s \in Seq(Nat), NEW mi, NEW lo,
           NEW done, done \subseteq Nat, Settled(of, t, ch, d, s, mi, lo, done)
    PROVE  Settled(of, t, ch, Append(d, s), <<>>, mi, lo, done)
<1>1. Shown(ch) \cup (mi \cup lo) \subseteq done
  BY DEF Settled, Tidy
<1>2. Sorted(of, t, Append(d, s), <<>>, Shown(ch), LateOnes(ch), mi \cup lo, done)
  BY <1>1, BatchDeferred, LateAreShown DEF Settled
<1>3. QED BY <1>2 DEF Settled

LEMMA SettledAlone ==
    ASSUME NEW of, NEW t \in Nat, NEW ch \in Seq(Post), NEW d, NEW mi, NEW lo,
           NEW done, NEW id \in Nat, of[id] = t, done \subseteq Nat, \A i \in done : i < id,
           Settled(of, t, ch, d, <<>>, mi, lo, done)
    PROVE  LET ch2 == ch \o <<[thread |-> t, ids |-> <<id>>, kind |-> "raw"]>>
           IN  /\ Settled(of, t, ch2, d, <<>>, mi, lo, done \cup {id})
               /\ Moved(of, t, ch, mi, done, ch2, mi, done \cup {id})
               /\ Settled(of, t, ch, d, <<>>, mi \cup {id}, lo, done \cup {id})
               /\ Moved(of, t, ch, mi, done, ch, mi \cup {id}, done \cup {id})
<1> DEFINE post == [thread |-> t, ids |-> <<id>>, kind |-> "raw"]
           ch2 == ch \o <<post>>
<1>1. post \in Post /\ post.ids = <<id>> /\ post.thread = t /\ post.kind # "late"
  <2>1. <<id>> \in Seq(Nat)
    OBVIOUS
  <2>2. QED BY <2>1 DEF Post
<1>2. ToSet(<<id>>) = {id} /\ Rising(<<id>>)
  <2>1. ToSet(<<id>>) = {id}
    BY DEF ToSet
  <2>2. \A j, k \in {1} : ~(j < k)
    OBVIOUS
  <2>3. DOMAIN <<id>> = {1}
    OBVIOUS
  <2>4. QED BY <2>1, <2>2, <2>3 DEF Rising
<1>3. Shown(ch) \cup (mi \cup lo) \subseteq done /\ id \notin done
  <2>1. ~(id < id)
    OBVIOUS
  <2>2. QED BY <2>1 DEF Settled, Tidy
<1> HIDE DEF post
<1>4. InOrder(of, ch)
  BY DEF Settled, Tidy
<1>5. \A i \in Shown(ch) : of[i] = t => \A j \in {id} : i < j
  BY <1>3
<1>6. /\ InOrder(of, ch2) /\ Shown(ch2) = Shown(ch) \cup {id} /\ LateOnes(ch2) = LateOnes(ch) \cup {}
  <2>1. /\ \A i \in ToSet(post.ids) : of[i] = post.thread
        /\ ToSet(post.ids) \cap Shown(ch) = {}
        /\ \A i \in (IF post.kind = "late" THEN LateOnes(ch) ELSE Shown(ch)) :
              of[i] = post.thread => \A j \in ToSet(post.ids) : i < j
        /\ Rising(post.ids)
    BY <1>1, <1>2, <1>3, <1>5
  <2>2. /\ InOrder(of, ch \o <<post>>)
        /\ Shown(ch \o <<post>>) = Shown(ch) \cup ToSet(post.ids)
        /\ LateOnes(ch \o <<post>>) =
              LateOnes(ch) \cup (IF post.kind = "late" THEN ToSet(post.ids) ELSE {})
    BY <1>1, <1>4, <2>1, PostAdded
  <2>3. QED BY <1>1, <1>2, <2>2
<1>7. Tidy(of, ch2, mi, lo, done \cup {id}) /\ Tidy(of, ch, mi \cup {id}, lo, done \cup {id})
  BY <1>3, <1>6 DEF Settled, Tidy
<1>8. Sorted(of, t, d, <<>>, Shown(ch), LateOnes(ch), mi \cup lo, done)
  BY DEF Settled
<1> DEFINE aside == mi \cup lo
           aside2 == (mi \cup {id}) \cup lo
<1>a. /\ (Shown(ch) \cup {id}) \cup aside = Shown(ch) \cup aside \cup {id}
      /\ Shown(ch) \cup aside2 = Shown(ch) \cup aside \cup {id}
      /\ Shown(ch) \cup aside \subseteq done
  BY <1>3
<1>b. Sorted(of, t, d, <<>>, Shown(ch), LateOnes(ch), aside, done)
  BY <1>8
<1> HIDE DEF aside, aside2
<1>9. Sorted(of, t, d, <<>>, Shown(ch) \cup {id}, LateOnes(ch), aside, done \cup {id})
  BY <1>a, <1>b, MessageAlone
<1>10. Sorted(of, t, d, <<>>, Shown(ch), LateOnes(ch), aside2, done \cup {id})
  BY <1>a, <1>b, MessageAlone
<1>11. LateOnes(ch2) = LateOnes(ch)
  BY <1>6
<1>12. /\ Settled(of, t, ch2, d, <<>>, mi, lo, done \cup {id})
       /\ Settled(of, t, ch, d, <<>>, mi \cup {id}, lo, done \cup {id})
  BY <1>6, <1>7, <1>9, <1>10, <1>11 DEF Settled, aside, aside2
<1>13. /\ Moved(of, t, ch, mi, done, ch2, mi, done \cup {id})
       /\ Moved(of, t, ch, mi, done, ch, mi \cup {id}, done \cup {id})
  BY <1>6, <1>11 DEF Moved, Grown
<1>14. QED BY <1>12, <1>13 DEF post

LEMMA SettledBatched ==
    ASSUME NEW of, NEW t, NEW ch, NEW d, NEW s \in Seq(Nat), NEW mi, NEW lo,
           NEW done, NEW id \in Nat, of[id] = t, done \subseteq Nat, \A i \in done : i < id,
           Settled(of, t, ch, d, s, mi, lo, done)
    PROVE  /\ Settled(of, t, ch, d, Append(s, id), mi, lo, done \cup {id})
           /\ Moved(of, t, ch, mi, done, ch, mi, done \cup {id})
<1>1. Shown(ch) \cup (mi \cup lo) \subseteq done
  BY DEF Settled, Tidy
<1>2. Sorted(of, t, d, Append(s, id), Shown(ch), LateOnes(ch), mi \cup lo, done \cup {id})
  BY <1>1, MessageBatched DEF Settled
<1>3. Tidy(of, ch, mi, lo, done \cup {id})
  BY DEF Settled, Tidy
<1>4. Moved(of, t, ch, mi, done, ch, mi, done \cup {id})
  BY DEF Moved, Grown
<1>5. QED BY <1>2, <1>3, <1>4 DEF Settled

LEMMA SettledLate ==
    ASSUME NEW of, NEW t \in Nat, NEW ch \in Seq(Post), NEW d \in Seq(Seq(Nat)), NEW s, NEW mi,
           NEW lo, NEW done, d # <<>>, done \subseteq Nat,
           Settled(of, t, ch, d, s, mi, lo, done)
    PROVE  LET ch2 == ch \o <<[thread |-> t, ids |-> Head(d), kind |-> "late"]>>
           IN  /\ Settled(of, t, ch2, Tail(d), s, mi, lo, done)
               /\ Moved(of, t, ch, mi, done, ch2, mi, done)
<1> DEFINE post == [thread |-> t, ids |-> Head(d), kind |-> "late"]
           ch2 == ch \o <<post>>
<1>1. Head(d) \in Seq(Nat) /\ 1 \in DOMAIN d /\ Head(d) = d[1]
  BY TailIs
<1>2. post \in Post /\ post.ids = Head(d) /\ post.thread = t /\ post.kind = "late"
  BY <1>1 DEF Post
<1>3. /\ Rising(Head(d))
      /\ \A i \in ToSet(Head(d)) :
            /\ i \in done /\ of[i] = t /\ i \notin Shown(ch) \cup (mi \cup lo)
            /\ \A l \in LateOnes(ch) : of[l] = t => l < i
  BY <1>1 DEF Settled, Sorted, Deferring
<1> HIDE DEF post
<1>4. InOrder(of, ch)
  BY DEF Settled, Tidy
<1>5. /\ InOrder(of, ch2) /\ Shown(ch2) = Shown(ch) \cup ToSet(Head(d))
      /\ LateOnes(ch2) = LateOnes(ch) \cup ToSet(Head(d))
  <2>1. /\ \A i \in ToSet(post.ids) : of[i] = post.thread
        /\ ToSet(post.ids) \cap Shown(ch) = {}
        /\ \A i \in LateOnes(ch) : of[i] = post.thread => \A j \in ToSet(post.ids) : i < j
        /\ Rising(post.ids)
    BY <1>2, <1>3
  <2>2. QED BY <1>2, <1>4, <2>1, PostAdded
<1>6. Tidy(of, ch2, mi, lo, done)
  BY <1>3, <1>5 DEF Settled, Tidy
<1>7. Sorted(of, t, Tail(d), s, Shown(ch) \cup ToSet(Head(d)), LateOnes(ch) \cup ToSet(Head(d)),
             mi \cup lo, done)
  BY OldestPosted, LateAreShown DEF Settled
<1>8. Settled(of, t, ch2, Tail(d), s, mi, lo, done)
  BY <1>5, <1>6, <1>7 DEF Settled
<1>9. Moved(of, t, ch, mi, done, ch2, mi, done)
  BY <1>3, <1>5 DEF Moved, Grown
<1>10. QED BY <1>8, <1>9 DEF post

-----------------------------------------------------------------------------
(* The bus keeps every message in one place.                                *)

Of == [i \in Id |-> log[i].thread]
Done == Id \ {projecting}

OutboxInv ==
    /\ Tidy(Of, outbox, missed, lost, Done)
    /\ \A t \in Thread :
          Settled(Of, t, outbox, throttle[t].deferred, throttle[t].suppressed, missed, lost, Done)

LEMMA OtherThread ==
    ASSUME NEW of, NEW t, NEW ch, NEW mi, NEW lo, NEW done, NEW d2, NEW s2, NEW ch2, NEW mi2, NEW done2,
           Moved(of, t, ch, mi, done, ch2, mi2, done2),
           Settled(of, t, ch2, d2, s2, mi2, lo, done2),
           NEW u, u # t, NEW d, NEW s, Settled(of, u, ch, d, s, mi, lo, done)
    PROVE  Settled(of, u, ch2, d, s, mi2, lo, done2)
<1>1. /\ Shown(ch) \subseteq Shown(ch2) /\ LateOnes(ch) \subseteq LateOnes(ch2)
      /\ (mi \cup lo) \subseteq (mi2 \cup lo) /\ done \subseteq done2
  BY DEF Moved, Grown
<1>2. \A i \in (Shown(ch2) \ Shown(ch)) \cup (LateOnes(ch2) \ LateOnes(ch))
            \cup ((mi2 \cup lo) \ (mi \cup lo)) \cup (done2 \ done) : of[i] # u
  BY DEF Moved, Grown
<1>3. Sorted(of, u, d, s, Shown(ch), LateOnes(ch), mi \cup lo, done)
  BY DEF Settled
<1>4. Sorted(of, u, d, s, Shown(ch2), LateOnes(ch2), mi2 \cup lo, done2)
  BY <1>1, <1>2, <1>3, SortedFrame
<1>5. QED BY <1>4 DEF Settled

LEMMA MovedTwice ==
    ASSUME NEW of, NEW t, NEW ch, NEW mi, NEW done, NEW ch2, NEW mi2, NEW done2,
           NEW ch3, NEW mi3, NEW done3,
           Moved(of, t, ch, mi, done, ch2, mi2, done2),
           Moved(of, t, ch2, mi2, done2, ch3, mi3, done3)
    PROVE  Moved(of, t, ch, mi, done, ch3, mi3, done3)
<1>1. ASSUME NEW a, NEW b, NEW c, Grown(of, t, a, b), Grown(of, t, b, c)
      PROVE  Grown(of, t, a, c)
  BY <1>1 DEF Grown
<1>2. QED BY <1>1 DEF Moved

LEMMA MovedNot ==
    ASSUME NEW of, NEW t, NEW ch, NEW mi, NEW done
    PROVE  Moved(of, t, ch, mi, done, ch, mi, done)
  BY DEF Moved, Grown

(* A stale burst is closed before the message of the next is counted.       *)
LEMMA StaleClosed ==
    ASSUME BusTypes, LastInv, \A i \in Id : log[i].thread \in Thread, OutboxInv,
           NEW sentStale \in BOOLEAN, NEW sent \in BOOLEAN, Project(sentStale, sent)
    PROVE  LET ch2 == outbox \o StaleSummary(sentStale)
               up == Upon(sentStale)
           IN  /\ ch2 \in Seq(Post)
               /\ Settled(Of, ItsThread, ch2, up.deferred, up.suppressed, missed, lost, Done)
               /\ Moved(Of, ItsThread, outbox, missed, Done, ch2, missed, Done)
<1> DEFINE ch2 == outbox \o StaleSummary(sentStale)
           up == Upon(sentStale)
           old == Before
<1>1. /\ ItsThread \in Thread /\ ItsThread \in Nat /\ log[projecting].at \in Time
      /\ old \in Throttle /\ up \in Throttle /\ StaleSummary(sentStale) \in Seq(Post)
  BY ProjectIs
<1>2. /\ old.suppressed \in Seq(Nat) /\ old.deferred \in Seq(Seq(Nat)) /\ outbox \in Seq(Post)
      /\ Done \subseteq Nat
  BY <1>1, ThrottleFields DEF BusTypes, Done, Id
<1>3. Settled(Of, ItsThread, outbox, old.deferred, old.suppressed, missed, lost, Done)
  BY <1>1 DEF OutboxInv, Before
<1>4. ch2 \in Seq(Post) /\ outbox \o <<>> = outbox
  BY <1>1, <1>2
<1>5. /\ ~Over => up.suppressed = old.suppressed /\ up.deferred = old.deferred
      /\ Over => /\ up.suppressed = <<>>
                 /\ sentStale \/ old.suppressed = <<>> => up.deferred = old.deferred
                 /\ ~sentStale /\ old.suppressed # <<>> =>
                       up.deferred = Append(old.deferred, old.suppressed)
  <2> DEFINE at == log[projecting].at
  <2>1. old \in Throttle /\ at \in Nat
    BY <1>1 DEF Time
  <2>2. up = Seen(old, at, sentStale)
    BY DEF Upon
  <2>3. Over <=> IsIdleGap(old, at)
    BY DEF Over
  <2> HIDE DEF old, up, at
  <2>4. QED BY <2>1, <2>2, <2>3, SeenIs
<1>6. StaleSummary(sentStale) =
         IF Over /\ sentStale /\ old.suppressed # <<>>
         THEN <<[thread |-> ItsThread, ids |-> old.suppressed, kind |-> "summary"]>> ELSE <<>>
  BY DEF StaleSummary, Posts
<1>7. Moved(Of, ItsThread, outbox, missed, Done, outbox, missed, Done)
  BY MovedNot
<1> HIDE DEF up, old
<1>8. CASE Over /\ sentStale /\ old.suppressed # <<>>
  <2>1. ch2 = outbox \o <<[thread |-> ItsThread, ids |-> old.suppressed, kind |-> "summary"]>>
    BY <1>6, <1>8
  <2>2. up.suppressed = <<>> /\ up.deferred = old.deferred
    BY <1>5, <1>8
  <2>3. /\ Settled(Of, ItsThread, ch2, old.deferred, <<>>, missed, lost, Done)
        /\ Moved(Of, ItsThread, outbox, missed, Done, ch2, missed, Done)
    BY <1>1, <1>2, <1>3, <2>1, SettledPosted
  <2>4. QED BY <1>4, <2>2, <2>3 DEF up
<1>9. CASE Over /\ ~sentStale /\ old.suppressed # <<>>
  <2>1. ch2 = outbox
    BY <1>4, <1>6, <1>9
  <2>2. up.suppressed = <<>> /\ up.deferred = Append(old.deferred, old.suppressed)
    BY <1>5, <1>9
  <2>3. Settled(Of, ItsThread, outbox, Append(old.deferred, old.suppressed), <<>>, missed, lost, Done)
    BY <1>2, <1>3, SettledDeferred
  <2>4. Settled(Of, ItsThread, ch2, up.deferred, up.suppressed, missed, lost, Done)
    BY <2>1, <2>2, <2>3
  <2>5. QED BY <1>4, <1>7, <2>1, <2>4 DEF up
<1>10. CASE ~Over \/ old.suppressed = <<>>
  <2>1. ch2 = outbox
    BY <1>4, <1>6, <1>10
  <2>2. up.suppressed = old.suppressed /\ up.deferred = old.deferred
    BY <1>5, <1>10
  <2>3. Settled(Of, ItsThread, ch2, up.deferred, up.suppressed, missed, lost, Done)
    BY <1>3, <2>1, <2>2
  <2>4. QED BY <1>4, <1>7, <2>1, <2>3 DEF up
<1>11. QED BY <1>8, <1>9, <1>10

LEMMA ProjectKeepsOutbox ==
    ASSUME BusTypes, LastInv, \A i \in Id : log[i].thread \in Thread, OutboxInv,
           NEW sentStale \in BOOLEAN, NEW sent \in BOOLEAN, Project(sentStale, sent)
    PROVE  OutboxInv'
<1> DEFINE id == projecting
           t == ItsThread
           up == Upon(sentStale)
           batch == Batch(sentStale)
           full == sent /\ Len(batch) >= BatchSize
           ch2 == outbox \o StaleSummary(sentStale)
           d2 == throttle'[t].deferred
           s2 == throttle'[t].suppressed
<1>1. /\ id = Len(log) /\ id \in Id /\ id \in Nat \ {0} /\ t \in Thread /\ t \in Nat
      /\ up \in Throttle /\ batch \in Seq(Nat) /\ projecting' = 0
      /\ UNCHANGED <<threads, log, undelivered, lost, epoch>>
      /\ ProjectedRaw(sentStale, sent) \/ ProjectedInBatch(sentStale, sent)
  BY ProjectIs
<1>2. /\ ch2 \in Seq(Post) /\ Settled(Of, t, ch2, up.deferred, up.suppressed, missed, lost, Done)
      /\ Moved(Of, t, outbox, missed, Done, ch2, missed, Done)
  BY StaleClosed
<1>3. /\ up.suppressed \in Seq(Nat) /\ up.deferred \in Seq(Seq(Nat)) /\ up.raw \in Nat
  BY <1>1, ThrottleFields
<1>4. /\ Done \subseteq Nat /\ (\A i \in Done : i < id) /\ Of[id] = t
      /\ Of' = Of /\ Done' = Done \cup {id}
  <2>1. DOMAIN log = 1..Len(log) /\ Len(log) \in Nat
    BY DEF BusTypes
  <2>2. Of' = Of /\ Id' = Id /\ Of[id] = t
    BY <1>1 DEF Of, Id, ItsThread
  <2>3. 0 \notin Id
    BY <2>1 DEF Id
  <2>4. QED BY <1>1, <2>1, <2>2, <2>3 DEF Done, Id
<1>5. throttle \in [Thread -> Throttle]
  BY DEF BusTypes
<1> HIDE DEF id, t, up, batch, full, ch2, d2, s2
<1>6. /\ Settled(Of, t, outbox', d2, s2, missed', lost, Done \cup {id})
      /\ Moved(Of, t, ch2, missed, Done, outbox', missed', Done \cup {id})
  <2>1. CASE ProjectedRaw(sentStale, sent)
    <3>1. /\ throttle' = [throttle EXCEPT ![t] = [up EXCEPT !.raw = up.raw + 1]]
          /\ outbox' = ch2 \o Posts(sent, t, <<id>>, "raw")
          /\ missed' = IF sent THEN missed ELSE missed \cup {id}
          /\ up.suppressed = <<>>
      BY <2>1 DEF ProjectedRaw, IsRaw, id, t, up, ch2
    <3>2. d2 = up.deferred /\ s2 = <<>>
      <4>1. throttle'[t] = [up EXCEPT !.raw = up.raw + 1] /\ up.raw + 1 \in Nat
        BY <1>1, <1>3, <1>5, <3>1
      <4>2. /\ [up EXCEPT !.raw = up.raw + 1].deferred = up.deferred
            /\ [up EXCEPT !.raw = up.raw + 1].suppressed = up.suppressed
        BY <1>1, <4>1, WithRaw
      <4>3. QED BY <3>1, <4>1, <4>2 DEF d2, s2
    <3>3. Settled(Of, t, ch2, up.deferred, <<>>, missed, lost, Done)
      BY <1>2, <3>1
    <3>4. LET ch3 == ch2 \o <<[thread |-> t, ids |-> <<id>>, kind |-> "raw"]>>
          IN  /\ Settled(Of, t, ch3, up.deferred, <<>>, missed, lost, Done \cup {id})
              /\ Moved(Of, t, ch2, missed, Done, ch3, missed, Done \cup {id})
              /\ Settled(Of, t, ch2, up.deferred, <<>>, missed \cup {id}, lost, Done \cup {id})
              /\ Moved(Of, t, ch2, missed, Done, ch2, missed \cup {id}, Done \cup {id})
      BY <1>1, <1>2, <1>4, <3>3, SettledAlone
    <3>5. CASE sent
      <4>1. outbox' = ch2 \o <<[thread |-> t, ids |-> <<id>>, kind |-> "raw"]>> /\ missed' = missed
        BY <3>1, <3>5 DEF Posts
      <4>2. QED BY <3>2, <3>4, <4>1
    <3>6. CASE ~sent
      <4>1. outbox' = ch2 /\ missed' = missed \cup {id}
        BY <1>2, <3>1, <3>6 DEF Posts
      <4>2. QED BY <3>2, <3>4, <4>1
    <3>7. QED BY <3>5, <3>6
  <2>2. CASE ProjectedInBatch(sentStale, sent)
    <3>1. /\ throttle' = [throttle EXCEPT ![t] =
                 [up EXCEPT !.suppressed = IF full THEN <<>> ELSE batch]]
          /\ outbox' = ch2 \o Posts(full, t, batch, "summary")
          /\ missed' = missed /\ batch = Append(up.suppressed, id)
      BY <2>2 DEF ProjectedInBatch, Batch, id, t, up, ch2, full, batch
    <3>2. d2 = up.deferred /\ s2 = IF full THEN <<>> ELSE batch
      <4>1. throttle'[t] = [up EXCEPT !.suppressed = IF full THEN <<>> ELSE batch]
              /\ (IF full THEN <<>> ELSE batch) \in Seq(Nat)
        BY <1>1, <1>5, <3>1
      <4>2. QED BY <1>1, <4>1, WithSuppressed DEF d2, s2
    <3>3. /\ Settled(Of, t, ch2, up.deferred, batch, missed, lost, Done \cup {id})
          /\ Moved(Of, t, ch2, missed, Done, ch2, missed, Done \cup {id})
      BY <1>1, <1>2, <1>3, <1>4, <3>1, SettledBatched
    <3>4. CASE full
      <4>1. outbox' = ch2 \o <<[thread |-> t, ids |-> batch, kind |-> "summary"]>>
        BY <3>1, <3>4 DEF Posts
      <4>2. Done \cup {id} \subseteq Nat
        BY <1>1, <1>4
      <4>3. /\ Settled(Of, t, outbox', up.deferred, <<>>, missed, lost, Done \cup {id})
            /\ Moved(Of, t, ch2, missed, Done \cup {id}, outbox', missed, Done \cup {id})
        BY <1>1, <1>2, <3>3, <4>1, <4>2, SettledPosted
      <4>4. Moved(Of, t, ch2, missed, Done, outbox', missed, Done \cup {id})
        BY <3>3, <4>3, MovedTwice
      <4>5. QED BY <3>1, <3>2, <3>4, <4>3, <4>4
    <3>5. CASE ~full
      <4>1. outbox' = ch2
        BY <1>2, <3>1, <3>5 DEF Posts
      <4>2. QED BY <3>1, <3>2, <3>3, <3>5, <4>1
    <3>6. QED BY <3>4, <3>5
  <2>3. QED BY <1>1, <2>1, <2>2
<1>7. Moved(Of, t, outbox, missed, Done, outbox', missed', Done \cup {id})
  BY <1>2, <1>6, MovedTwice
<1>8. \A u \in Thread : u # t => throttle'[u] = throttle[u]
  BY <1>1, <1>5 DEF ProjectedRaw, ProjectedInBatch, t
<1>9. ASSUME NEW u \in Thread
      PROVE  Settled(Of, u, outbox', throttle'[u].deferred, throttle'[u].suppressed,
                     missed', lost, Done \cup {id})
  <2>1. CASE u = t
    BY <1>6, <2>1 DEF d2, s2
  <2>2. CASE u # t
    <3>1. Settled(Of, u, outbox, throttle[u].deferred, throttle[u].suppressed, missed, lost, Done)
      BY DEF OutboxInv
    <3>2. Settled(Of, u, outbox', throttle[u].deferred, throttle[u].suppressed, missed', lost,
                  Done \cup {id})
      BY <1>6, <1>7, <2>2, <3>1, OtherThread
    <3>3. QED BY <1>8, <2>2, <3>2
  <2>3. QED BY <2>1, <2>2
<1>10. Tidy(Of, outbox', missed', lost, Done \cup {id})
  BY <1>6 DEF Settled
<1>11. QED BY <1>1, <1>4, <1>9, <1>10 DEF OutboxInv

LEMMA FlushKeepsOutbox ==
    ASSUME BusTypes, OutboxInv, NEW t \in Thread, Flush(t)
    PROVE  OutboxInv'
<1> DEFINE s == throttle[t]
           d2 == throttle'[t].deferred
           s2 == throttle'[t].suppressed
<1>1. s \in Throttle /\ t \in Nat /\ outbox \in Seq(Post) /\ throttle \in [Thread -> Throttle]
  BY DEF BusTypes, Thread
<1>2. s.deferred \in Seq(Seq(Nat)) /\ s.suppressed \in Seq(Nat) /\ <<>> \in Seq(Nat)
  BY <1>1, ThrottleFields
<1>3. Settled(Of, t, outbox, s.deferred, s.suppressed, missed, lost, Done)
  BY DEF OutboxInv
<1>4. UNCHANGED <<log, projecting, missed, lost>> /\ Of' = Of /\ Done' = Done /\ Done \subseteq Nat
  BY DEF Flush, Of, Done, Id, BusTypes
<1>5. /\ Settled(Of, t, outbox', d2, s2, missed, lost, Done)
      /\ Moved(Of, t, outbox, missed, Done, outbox', missed, Done)
  <2>1. CASE s.deferred # <<>>
    <3>1. /\ throttle' = [throttle EXCEPT ![t] = [s EXCEPT !.deferred = Tail(s.deferred)]]
          /\ outbox' = outbox \o <<[thread |-> t, ids |-> Head(s.deferred), kind |-> "late"]>>
      BY <2>1 DEF Flush, Posts
    <3>2. Tail(s.deferred) \in Seq(Seq(Nat))
      BY <1>2, <2>1
    <3>3. throttle'[t] = [s EXCEPT !.deferred = Tail(s.deferred)]
      BY <1>1, <3>1
    <3>4. d2 = Tail(s.deferred) /\ s2 = s.suppressed
      BY <1>1, <3>2, <3>3, WithDeferred
    <3>5. LET ch2 == outbox \o <<[thread |-> t, ids |-> Head(s.deferred), kind |-> "late"]>>
          IN  /\ Settled(Of, t, ch2, Tail(s.deferred), s.suppressed, missed, lost, Done)
              /\ Moved(Of, t, outbox, missed, Done, ch2, missed, Done)
      BY <1>1, <1>2, <1>3, <1>4, <2>1, SettledLate
    <3>6. QED BY <3>1, <3>4, <3>5
  <2>2. CASE s.deferred = <<>>
    <3>1. /\ throttle' = [throttle EXCEPT ![t] = [s EXCEPT !.suppressed = <<>>]]
          /\ outbox' = outbox \o <<[thread |-> t, ids |-> s.suppressed, kind |-> "summary"]>>
      BY <2>2 DEF Flush, Posts
    <3>2. throttle'[t] = [s EXCEPT !.suppressed = <<>>]
      BY <1>1, <3>1
    <3>3. d2 = s.deferred /\ s2 = <<>>
      BY <1>1, <1>2, <3>2, WithSuppressed
    <3>4. LET ch2 == outbox \o <<[thread |-> t, ids |-> s.suppressed, kind |-> "summary"]>>
          IN  /\ Settled(Of, t, ch2, s.deferred, <<>>, missed, lost, Done)
              /\ Moved(Of, t, outbox, missed, Done, ch2, missed, Done)
      BY <1>1, <1>2, <1>3, <1>4, SettledPosted
    <3>5. QED BY <3>1, <3>3, <3>4
  <2>3. QED BY <2>1, <2>2
<1>6. \A u \in Thread : u # t => throttle'[u] = throttle[u]
  BY <1>1 DEF Flush
<1>7. ASSUME NEW u \in Thread
      PROVE  Settled(Of, u, outbox', throttle'[u].deferred, throttle'[u].suppressed,
                     missed, lost, Done)
  <2>1. CASE u = t
    BY <1>5, <2>1
  <2>2. CASE u # t
    <3>1. Settled(Of, u, outbox, throttle[u].deferred, throttle[u].suppressed, missed, lost, Done)
      BY DEF OutboxInv
    <3>2. Settled(Of, u, outbox', throttle[u].deferred, throttle[u].suppressed, missed, lost, Done)
      BY <1>5, <2>2, <3>1, OtherThread
    <3>3. QED BY <1>6, <2>2, <3>2
  <2>3. QED BY <2>1, <2>2
<1>8. Tidy(Of, outbox', missed, lost, Done)
  BY <1>5 DEF Settled
<1>9. QED BY <1>4, <1>7, <1>8 DEF OutboxInv

(* A new message is not yet done; the threads of the others are the same.   *)
LEMMA PublishKeepsOutbox ==
    ASSUME BusTypes, OutboxInv, NEW m, Publishes(m)
    PROVE  OutboxInv'
<1>1. /\ Len(log) \in Nat /\ Id = 1..Len(log) /\ Id' = 1..(Len(log) + 1)
      /\ \A i \in Id : log'[i] = log[i]
      /\ projecting = 0 /\ projecting' = Len(log) + 1
      /\ UNCHANGED <<throttle, outbox, undelivered, missed, lost, epoch>>
  BY LogGrows
<1>2. Done' = Done /\ Done = Id
  BY <1>1 DEF Done
<1>3. \A i \in Done : Of'[i] = Of[i]
  BY <1>1 DEF Done, Of
<1>4. Tidy(Of, outbox, missed, lost, Done)
  BY DEF OutboxInv
<1>5. /\ Shown(outbox) \subseteq Done /\ LateOnes(outbox) \subseteq Done
      /\ (missed \cup lost) \subseteq Done
  BY <1>4, LateAreShown DEF Tidy
<1>6. InOrder(Of', outbox)
  <2>1. \A p \in DOMAIN outbox : ToSet(outbox[p].ids) \subseteq Done
    BY <1>5 DEF Shown
  <2>2. InOrder(Of, outbox)
    BY <1>4 DEF Tidy
  <2>3. QED BY <1>3, <2>1, <2>2 DEF InOrder
<1>7. Tidy(Of', outbox, missed, lost, Done)
  BY <1>4, <1>6 DEF Tidy
<1>8. ASSUME NEW t \in Thread
      PROVE  Settled(Of', t, outbox, throttle[t].deferred, throttle[t].suppressed, missed, lost, Done)
  <2> DEFINE d == throttle[t].deferred
             s == throttle[t].suppressed
             shown == Shown(outbox)
             late == LateOnes(outbox)
             gone == missed \cup lost
  <2>1. Sorted(Of, t, d, s, shown, late, gone, Done)
    BY DEF OutboxInv, Settled
  <2>2. shown \cup gone \cup late \subseteq Done
    BY <1>5
  <2> HIDE DEF d, s, shown, late, gone
  <2>3. Collecting(Of', t, s, shown, gone, Done)
    BY <1>3, <2>1, <2>2 DEF Sorted, Collecting
  <2>4. Deferring(Of', t, d, s, shown, late, gone, Done)
    <3>1. Deferring(Of, t, d, s, shown, late, gone, Done)
      BY <2>1 DEF Sorted
    <3>2. ASSUME NEW k \in DOMAIN d, NEW i \in ToSet(d[k])
          PROVE  /\ i \in Done /\ Of'[i] = t /\ i \notin shown \cup gone
                 /\ \A l \in late : Of'[l] = t => l < i
                 /\ \A j \in ToSet(s) : i < j
      <4>1. /\ i \in Done /\ Of[i] = t /\ i \notin shown \cup gone
            /\ \A l \in late : Of[l] = t => l < i
            /\ \A j \in ToSet(s) : i < j
        BY <3>1 DEF Deferring
      <4>2. QED BY <1>3, <2>2, <4>1
    <3>3. QED BY <3>1, <3>2 DEF Deferring
  <2>5. Somewhere(Of', t, d, s, shown, gone, Done)
    BY <1>3, <2>1 DEF Sorted, Somewhere
  <2>6. Sorted(Of', t, d, s, shown, late, gone, Done)
    BY <2>3, <2>4, <2>5 DEF Sorted
  <2>7. QED BY <1>7, <2>6 DEF Settled, d, s, shown, late, gone
<1>9. QED BY <1>1, <1>2, <1>7, <1>8 DEF OutboxInv

(* A crash takes what the throttles hold and what was to be projected.      *)
LEMMA CrashKeepsOutbox ==
    ASSUME BusTypes, LastInv, OutboxInv, BusCrash
    PROVE  OutboxInv'
<1> DEFINE held == UNION {Held(t) : t \in Thread}
<1>1. /\ lost' = lost \cup held \cup ({projecting} \ {0}) /\ projecting' = 0
      /\ throttle' = [t \in Thread |-> Fresh] /\ UNCHANGED <<log, outbox, missed>>
  BY DEF BusCrash
<1>2. Of' = Of /\ Id' = Id
  BY <1>1 DEF Of, Id
<1>3. /\ Done' = Id /\ Id \subseteq Nat \ {0} /\ ({projecting} \ {0}) \subseteq Id
      /\ projecting \notin Done
  <2>1. DOMAIN log = 1..Len(log) /\ Len(log) \in Nat
    BY DEF BusTypes
  <2>2. Done' = Id /\ projecting \notin Done
    <3>1. 0 \notin Id
      BY <2>1 DEF Id
    <3>2. QED BY <1>1, <1>2, <3>1 DEF Done
  <2>3. Id \subseteq Nat \ {0}
    BY <2>1 DEF Id
  <2>4. projecting # 0 => projecting \in 1..Len(log)
    <3>1. projecting # 0 => projecting = Len(log) /\ Len(log) \in Nat
      BY <2>1 DEF LastInv
    <3>2. \A n \in Nat : n # 0 => n \in 1..n
      OBVIOUS
    <3>3. QED BY <3>1, <3>2
  <2>5. QED BY <2>1, <2>2, <2>3, <2>4 DEF Id
<1>4. ASSUME NEW t \in Thread, NEW i \in Held(t)
      PROVE  i \in Done /\ i \notin Shown(outbox) \cup missed \cup lost
  <2> DEFINE d == throttle[t].deferred
             s == throttle[t].suppressed
             gone == missed \cup lost
  <2>1. Sorted(Of, t, d, s, Shown(outbox), LateOnes(outbox), gone, Done)
    BY DEF OutboxInv, Settled
  <2>2. d \in Seq(Seq(Nat)) /\ s \in Seq(Nat)
    BY ThrottleFields DEF BusTypes
  <2>3. i \in ToSet(s) \/ \E k \in DOMAIN d : i \in ToSet(d[k])
    BY <1>4, <2>2 DEF Held, ToSet
  <2> HIDE DEF d, s, gone
  <2>4. CASE i \in ToSet(s)
    <3>1. i \in Done /\ Of[i] = t /\ i \in Nat
      BY <1>3, <2>1, <2>4 DEF Sorted, Collecting, Done
    <3>2. /\ \A j \in Shown(outbox) : Of[j] = t => j < i
          /\ i \notin gone
      BY <2>1, <2>4 DEF Sorted, Collecting
    <3>3. ~(i < i)
      BY <3>1
    <3>4. QED BY <3>1, <3>2, <3>3 DEF gone
  <2>5. CASE \E k \in DOMAIN d : i \in ToSet(d[k])
    BY <2>1, <2>5 DEF Sorted, Deferring, gone
  <2>6. QED BY <2>3, <2>4, <2>5
<1>5. held \subseteq Done /\ held \cap (Shown(outbox) \cup missed \cup lost) = {}
  BY <1>4
<1> HIDE DEF held
<1>6. Tidy(Of, outbox, missed, lost, Done)
  BY DEF OutboxInv
<1>7. Done \subseteq Id /\ Shown(outbox) \cup missed \cup lost \subseteq Done
  BY <1>6 DEF Tidy, Done
<1>8. Tidy(Of, outbox, missed, lost', Id)
  BY <1>1, <1>3, <1>5, <1>6, <1>7 DEF Tidy
<1>9. ASSUME NEW t \in Thread
      PROVE  Settled(Of, t, outbox, <<>>, <<>>, missed, lost', Id)
  <2> DEFINE d == throttle[t].deferred
             s == throttle[t].suppressed
  <2>1. Collecting(Of, t, <<>>, Shown(outbox), missed \cup lost', Id)
    BY DEF Collecting, Rising, ToSet
  <2>2. Deferring(Of, t, <<>>, <<>>, Shown(outbox), LateOnes(outbox), missed \cup lost', Id)
    BY DEF Deferring
  <2>3. Somewhere(Of, t, <<>>, <<>>, Shown(outbox), missed \cup lost', Id)
    <3>1. SUFFICES ASSUME NEW i \in Id, Of[i] = t PROVE i \in Shown(outbox) \cup (missed \cup lost')
      BY DEF Somewhere
    <3>2. CASE i = projecting
      BY <1>1, <1>3, <3>2
    <3>3. CASE i # projecting
      <4>1. i \in Done
        BY <3>3 DEF Done
      <4>2. i \in Shown(outbox) \cup (missed \cup lost) \/ i \in ToSet(s)
               \/ \E k \in DOMAIN d : i \in ToSet(d[k])
        BY <3>1, <4>1 DEF OutboxInv, Settled, Sorted, Somewhere
      <4>3. i \in ToSet(s) \/ (\E k \in DOMAIN d : i \in ToSet(d[k])) => i \in Held(t)
        BY DEF Held, ToSet
      <4>4. i \in Held(t) => i \in held
        BY DEF held
      <4>5. QED BY <1>1, <4>2, <4>3, <4>4
    <3>4. QED BY <3>2, <3>3
  <2>4. Sorted(Of, t, <<>>, <<>>, Shown(outbox), LateOnes(outbox), missed \cup lost', Id)
    BY <2>1, <2>2, <2>3 DEF Sorted
  <2>5. QED BY <1>8, <2>4 DEF Settled
<1>10. \A t \in Thread : throttle'[t].deferred = <<>> /\ throttle'[t].suppressed = <<>>
  BY <1>1 DEF Fresh
<1>11. QED BY <1>1, <1>2, <1>3, <1>8, <1>9, <1>10 DEF OutboxInv

(* So does an exception, of the one message.                                *)
LEMMA SkipKeepsOutbox ==
    ASSUME BusTypes, LastInv, OutboxInv, Skip
    PROVE  OutboxInv'
<1> DEFINE id == projecting
<1>1. /\ lost' = lost \cup {id} /\ projecting' = 0 /\ id # 0
      /\ UNCHANGED <<log, throttle, outbox, missed>>
  BY DEF Skip
<1>2. Of' = Of /\ id \notin Done /\ Done' = Done \cup {id}
  <2>1. DOMAIN log = 1..Len(log) /\ Len(log) \in Nat
    BY DEF BusTypes
  <2>2. id = Len(log)
    BY <1>1 DEF LastInv
  <2>3. id \in Id /\ 0 \notin Id
    BY <1>1, <2>1, <2>2 DEF Id
  <2>4. Of' = Of /\ Id' = Id
    BY <1>1 DEF Of, Id
  <2>5. QED BY <1>1, <2>3, <2>4 DEF Done
<1> HIDE DEF id
<1>3. Tidy(Of, outbox, missed, lost, Done)
  BY DEF OutboxInv
<1>4. Tidy(Of, outbox, missed, lost', Done \cup {id})
  BY <1>1, <1>2, <1>3 DEF Tidy
<1>5. ASSUME NEW t \in Thread
      PROVE  Settled(Of, t, outbox, throttle[t].deferred, throttle[t].suppressed, missed, lost',
                     Done \cup {id})
  <2> DEFINE gone == missed \cup lost
             d == throttle[t].deferred
             s == throttle[t].suppressed
  <2>1. Sorted(Of, t, d, s, Shown(outbox), LateOnes(outbox), gone, Done)
    BY DEF OutboxInv, Settled
  <2>2. Shown(outbox) \subseteq Done
    BY <1>3 DEF Tidy
  <2>3. missed \cup lost' = gone \cup {id}
    BY <1>1
  <2> HIDE DEF gone, d, s
  <2>4. Sorted(Of, t, d, s, Shown(outbox), LateOnes(outbox), gone \cup {id}, Done \cup {id})
    BY <1>2, <2>1, <2>2, MessageSkipped
  <2>5. QED BY <1>4, <2>3, <2>4 DEF Settled, d, s
<1>6. QED BY <1>1, <1>2, <1>4, <1>5 DEF OutboxInv

LEMMA OutboxStep ==
    ASSUME BusTypes, LastInv, \A i \in Id : log[i].thread \in Thread, OutboxInv, BusStep
    PROVE  OutboxInv'
<1>1. CASE OpensThread \/ (\E p \in DOMAIN outbox : SendFails(p)) \/ UNCHANGED busVars
  <2>1. UNCHANGED <<log, projecting, throttle, outbox, missed, lost>>
    BY <1>1 DEF OpensThread, SendFails, busVars
  <2>2. Of' = Of /\ Done' = Done
    BY <2>1 DEF Of, Done, Id
  <2>3. QED BY <2>1, <2>2 DEF OutboxInv
<1>2. QED BY <1>1, ProjectKeepsOutbox, SkipKeepsOutbox, FlushKeepsOutbox, PublishKeepsOutbox,
             CrashKeepsOutbox DEF BusStep

-----------------------------------------------------------------------------
(* The theorems about the outbox's completeness and order.                  *)

BusInv == CallInv /\ OutboxInv

THEOREM BusInvHolds == Spec => []BusInv
<1>1. Init => OutboxInv
  <2>1. SUFFICES ASSUME Init PROVE OutboxInv
    OBVIOUS
  <2>2. /\ log = <<>> /\ outbox = <<>> /\ missed = {} /\ lost = {}
        /\ throttle = [t \in Thread |-> Fresh]
    BY <2>1 DEF Init, BusInit
  <2>3. Id = {} /\ Done = {} /\ DOMAIN outbox = {} /\ Shown(outbox) = {} /\ LateOnes(outbox) = {}
    BY <2>2 DEF Id, Done, Shown, LateOnes
  <2>4. Tidy(Of, outbox, missed, lost, Done)
    BY <2>2, <2>3 DEF Tidy, InOrder
  <2>5. ASSUME NEW t \in Thread
        PROVE  Sorted(Of, t, <<>>, <<>>, Shown(outbox), LateOnes(outbox), missed \cup lost, Done)
    <3>1. Collecting(Of, t, <<>>, Shown(outbox), missed \cup lost, Done)
      BY DEF Collecting, Rising, ToSet
    <3>2. Deferring(Of, t, <<>>, <<>>, Shown(outbox), LateOnes(outbox), missed \cup lost, Done)
      BY DEF Deferring
    <3>3. Somewhere(Of, t, <<>>, <<>>, Shown(outbox), missed \cup lost, Done)
      BY <2>3 DEF Somewhere
    <3>4. QED BY <3>1, <3>2, <3>3 DEF Sorted
  <2>6. \A t \in Thread : throttle[t].deferred = <<>> /\ throttle[t].suppressed = <<>>
    BY <2>2 DEF Fresh
  <2>7. QED BY <2>4, <2>5, <2>6 DEF OutboxInv, Settled
<1>2. CallInv /\ OutboxInv /\ [Next]_vars => OutboxInv'
  <2>1. SUFFICES ASSUME CallInv, OutboxInv, [Next]_vars PROVE OutboxInv'
    OBVIOUS
  <2>2. BusStep
    BY <2>1, StepOfBus DEF CallInv
  <2>3. \A i \in Id : log[i].thread \in Thread
    BY <2>1 DEF CallInv, ThreadInv
  <2>4. QED BY <2>1, <2>2, <2>3, OutboxStep DEF CallInv, TypeOK
<1>3. QED BY <1>1, <1>2, CallInvHolds, PTL DEF Spec, BusInv

(* A thread's messages are handed over in the order of the database; only   *)
(* batches whose summary was kept come later, in order among themselves.    *)
THEOREM PostsFollowLogHolds == Spec => []PostsFollowLog
<1>1. BusInv => PostsFollowLog
  <2>1. SUFFICES ASSUME BusInv PROVE PostsFollowLog
    OBVIOUS
  <2>2. InOrder(Of, outbox)
    BY <2>1 DEF BusInv, OutboxInv, Tidy
  <2>3. \A p \in DOMAIN outbox : \A j, k \in DOMAIN outbox[p].ids :
           j < k => outbox[p].ids[j] < outbox[p].ids[k]
    BY <2>2 DEF InOrder, Rising
  <2>4. \A p \in DOMAIN outbox : \A j \in DOMAIN outbox[p].ids : outbox[p].ids[j] \in ToSet(outbox[p].ids)
    BY DEF ToSet
  <2>5. \A p, q \in DOMAIN outbox :
           p < q /\ outbox[p].thread = outbox[q].thread /\ (outbox[q].kind = "late" => outbox[p].kind = "late") =>
             \A i \in ToSet(outbox[p].ids), j \in ToSet(outbox[q].ids) : i < j
    BY <2>2 DEF InOrder
  <2>6. QED BY <2>3, <2>4, <2>5 DEF PostsFollowLog
<1>2. QED BY <1>1, BusInvHolds, PTL

AllPlaces(a, b, c, d, e, f) ==
    a \cup ({"deferred"} \X b) \cup ({"suppressed"} \X c)
    \cup ({"missed"} \X d) \cup ({"lost"} \X e) \cup ({"projecting"} \X f)

OnlyIn(place, a, b, c, d, e, f) ==
    \/ a = {place} /\ b = {} /\ c = {} /\ d = {} /\ e = {} /\ f = {}
    \/ a = {} /\ b = {place} /\ c = {} /\ d = {} /\ e = {} /\ f = {}
    \/ a = {} /\ b = {} /\ c = {place} /\ d = {} /\ e = {} /\ f = {}
    \/ a = {} /\ b = {} /\ c = {} /\ d = {place} /\ e = {} /\ f = {}
    \/ a = {} /\ b = {} /\ c = {} /\ d = {} /\ e = {place} /\ f = {}
    \/ a = {} /\ b = {} /\ c = {} /\ d = {} /\ e = {} /\ f = {place}

LEMMA OnePlace ==
    ASSUME NEW a, NEW b, NEW c, NEW d, NEW e, NEW f, NEW place,
           OnlyIn(place, a, b, c, d, e, f)
    PROVE  \E one \in AllPlaces(a, b, c, d, e, f) : AllPlaces(a, b, c, d, e, f) = {one}
<1>1. ASSUME NEW kind PROVE {kind} \X {place} = {<<kind, place>>} /\ {kind} \X {} = {}
  OBVIOUS
<1>2. CASE a = {place} /\ b = {} /\ c = {} /\ d = {} /\ e = {} /\ f = {}
  <2>1. AllPlaces(a, b, c, d, e, f) = {place}
    BY <1>1, <1>2 DEF AllPlaces
  <2>2. QED BY <2>1
<1>3. CASE a = {} /\ b = {place} /\ c = {} /\ d = {} /\ e = {} /\ f = {}
  <2>1. AllPlaces(a, b, c, d, e, f) = {<<"deferred", place>>}
    BY <1>1, <1>3 DEF AllPlaces
  <2>2. QED BY <2>1
<1>4. CASE a = {} /\ b = {} /\ c = {place} /\ d = {} /\ e = {} /\ f = {}
  <2>1. AllPlaces(a, b, c, d, e, f) = {<<"suppressed", place>>}
    BY <1>1, <1>4 DEF AllPlaces
  <2>2. QED BY <2>1
<1>5. CASE a = {} /\ b = {} /\ c = {} /\ d = {place} /\ e = {} /\ f = {}
  <2>1. AllPlaces(a, b, c, d, e, f) = {<<"missed", place>>}
    BY <1>1, <1>5 DEF AllPlaces
  <2>2. QED BY <2>1
<1>6. CASE a = {} /\ b = {} /\ c = {} /\ d = {} /\ e = {place} /\ f = {}
  <2>1. AllPlaces(a, b, c, d, e, f) = {<<"lost", place>>}
    BY <1>1, <1>6 DEF AllPlaces
  <2>2. QED BY <2>1
<1>7. CASE a = {} /\ b = {} /\ c = {} /\ d = {} /\ e = {} /\ f = {place}
  <2>1. AllPlaces(a, b, c, d, e, f) = {<<"projecting", place>>}
    BY <1>1, <1>7 DEF AllPlaces
  <2>2. QED BY <2>1
<1>8. QED BY <1>2, <1>3, <1>4, <1>5, <1>6, <1>7 DEF OnlyIn

(* Every message the database has is in one place: in one post handed over, *)
(* or in one whose send failed, kept for a summary, missed, lost by a crash *)
(* or an exception, or being projected.                                     *)
THEOREM AccountedForHolds == Spec => []AccountedFor
<1>1. BusInv => AccountedFor
  <2>1. SUFFICES ASSUME BusInv, NEW i \in Id PROVE \E place \in Places(i) : Places(i) = {place}
    BY DEF AccountedFor
  <2> DEFINE t == log[i].thread
             s == throttle[t]
             shown == {p \in DOMAIN outbox : i \in ToSet(outbox[p].ids)}
             posted == ({"handed over"} \X (shown \ undelivered))
                       \cup ({"undelivered"} \X (shown \cap undelivered))
             waiting == {k \in DOMAIN s.deferred : i \in ToSet(s.deferred[k])}
             next == {k \in DOMAIN s.suppressed : s.suppressed[k] = i}
             aside == missed \cap {i}
             gone == lost \cap {i}
             now == {projecting} \cap {i}
  <2>2. BusTypes /\ OutboxInv /\ t \in Thread /\ i \in Nat /\ Of[i] = t
    BY <2>1 DEF BusInv, CallInv, TypeOK, ThreadInv, Id, BusTypes, Of
  <2>3. /\ Tidy(Of, outbox, missed, lost, Done)
        /\ Sorted(Of, t, s.deferred, s.suppressed, Shown(outbox), LateOnes(outbox), missed \cup lost, Done)
    BY <2>2 DEF OutboxInv, Settled
  <2>4. s.deferred \in Seq(Seq(Nat)) /\ s.suppressed \in Seq(Nat)
    BY <2>2, ThrottleFields DEF BusTypes
  <2>5. ~(i < i)
    BY <2>2
  <2>6. /\ \A p, q \in shown : p = q
        /\ i \in Shown(outbox) <=> shown # {}
    BY <2>3 DEF Tidy, InOrder, Shown
  <2>7. \A k, l \in waiting : k = l
    <3>1. SUFFICES ASSUME NEW k \in waiting, NEW l \in waiting, k # l PROVE FALSE
      OBVIOUS
    <3>2. k < l \/ l < k
      BY <2>4, <3>1
    <3>3. \A m, n \in DOMAIN s.deferred :
             m < n => \A x \in ToSet(s.deferred[m]), y \in ToSet(s.deferred[n]) : x < y
      BY <2>3 DEF Sorted, Deferring
    <3>4. QED BY <2>5, <3>1, <3>2, <3>3
  <2>8. (\A k, l \in next : k = l) /\ (i \in ToSet(s.suppressed) <=> next # {})
    <3>1. ASSUME NEW k \in next, NEW l \in next, k # l PROVE FALSE
      <4>1. k < l \/ l < k
        BY <2>4, <3>1
      <4>2. Rising(s.suppressed)
        BY <2>3 DEF Sorted, Collecting
      <4>3. QED BY <2>5, <3>1, <4>1, <4>2 DEF Rising
    <3>2. QED BY <3>1 DEF ToSet
  <2>9. waiting # {} => /\ i \in Done /\ i \notin Shown(outbox) \cup (missed \cup lost)
                        /\ i \notin ToSet(s.suppressed)
    BY <2>3, <2>5 DEF Sorted, Deferring
  <2>10. i \in ToSet(s.suppressed) => i \in Done /\ i \notin Shown(outbox) \cup (missed \cup lost)
    BY <2>2, <2>3, <2>5 DEF Sorted, Collecting
  <2>11. i \in Shown(outbox) \cup missed \cup lost => i \in Done
    BY <2>3 DEF Tidy
  <2>12. i \notin (Shown(outbox) \cap (missed \cup lost)) /\ i \notin missed \cap lost
    BY <2>3 DEF Tidy
  <2>13. i \in Done => i \in Shown(outbox) \cup (missed \cup lost) \/ i \in ToSet(s.suppressed)
                         \/ waiting # {}
    BY <2>2, <2>3 DEF Sorted, Somewhere
  <2>14. i \in Done <=> i # projecting
    BY DEF Done
  <2>15. /\ (aside = IF i \in missed THEN {i} ELSE {}) /\ (gone = IF i \in lost THEN {i} ELSE {})
         /\ (now = IF i = projecting THEN {i} ELSE {})
    OBVIOUS
  <2>16. Places(i) = AllPlaces(posted, waiting, next, aside, gone, now)
    <3>1. {p \in undelivered : i \in ToSet(outbox[p].ids)} = shown \cap undelivered
      BY <2>2 DEF BusTypes
    <3>2. {p \in DOMAIN outbox \ undelivered : i \in ToSet(outbox[p].ids)} = shown \ undelivered
      OBVIOUS
    <3>3. QED BY <3>1, <3>2 DEF Places, AllPlaces
  <2>a. shown = {} => posted = {}
    OBVIOUS
  <2>b. ASSUME NEW p, shown = {p}
        PROVE  \E place : posted = {place}
    <3>0. ASSUME NEW kind PROVE {kind} \X {p} = {<<kind, p>>} /\ {kind} \X {} = {}
      OBVIOUS
    <3>1. CASE p \in undelivered
      <4>1. shown \ undelivered = {} /\ shown \cap undelivered = {p}
        BY <2>b, <3>1
      <4>2. posted = {<<"undelivered", p>>}
        BY <3>0, <4>1
      <4>3. QED BY <4>2
    <3>2. CASE p \notin undelivered
      <4>1. shown \ undelivered = {p} /\ shown \cap undelivered = {}
        BY <2>b, <3>2
      <4>2. posted = {<<"handed over", p>>}
        BY <3>0, <4>1
      <4>3. QED BY <4>2
    <3>3. QED BY <3>1, <3>2
  <2> HIDE DEF t, s, posted, shown, waiting, next, aside, gone, now
  <2>17. PICK place : OnlyIn(place, posted, waiting, next, aside, gone, now)
    <3>1. CASE i \in Shown(outbox)
      <4>1. PICK p : p \in shown
        BY <2>6, <3>1
      <4>2. \E one : posted = {one}
        BY <2>6, <2>b, <4>1
      <4>3. waiting = {} /\ next = {} /\ aside = {} /\ gone = {} /\ now = {}
        BY <2>8, <2>9, <2>10, <2>11, <2>12, <2>14, <2>15, <3>1
      <4>4. QED BY <4>2, <4>3 DEF OnlyIn
    <3>2. CASE i \in missed
      <4>1. posted = {} /\ waiting = {} /\ next = {} /\ aside = {i} /\ gone = {} /\ now = {}
        BY <2>6, <2>a, <2>8, <2>9, <2>10, <2>11, <2>12, <2>14, <2>15, <3>2
      <4>2. QED BY <4>1 DEF OnlyIn
    <3>3. CASE i \in lost
      <4>1. posted = {} /\ waiting = {} /\ next = {} /\ aside = {} /\ gone = {i} /\ now = {}
        BY <2>6, <2>a, <2>8, <2>9, <2>10, <2>11, <2>12, <2>14, <2>15, <3>3
      <4>2. QED BY <4>1 DEF OnlyIn
    <3>4. CASE i \in ToSet(s.suppressed)
      <4>1. PICK p : p \in next
        BY <2>8, <3>4
      <4>2. next = {p}
        BY <2>8, <4>1
      <4>3. posted = {} /\ waiting = {} /\ aside = {} /\ gone = {} /\ now = {}
        BY <2>6, <2>a, <2>9, <2>10, <2>14, <2>15, <3>4
      <4>4. QED BY <4>2, <4>3 DEF OnlyIn
    <3>5. CASE waiting # {}
      <4>1. PICK p : p \in waiting
        BY <3>5
      <4>2. waiting = {p}
        BY <2>7, <4>1
      <4>3. posted = {} /\ next = {} /\ aside = {} /\ gone = {} /\ now = {}
        BY <2>6, <2>a, <2>8, <2>9, <2>14, <2>15, <3>5
      <4>4. QED BY <4>2, <4>3 DEF OnlyIn
    <3>6. CASE i \notin Done
      <4>1. now = {i} /\ aside = {} /\ gone = {}
        BY <2>11, <2>14, <2>15, <3>6
      <4>2. posted = {} /\ waiting = {} /\ next = {}
        BY <2>6, <2>a, <2>8, <2>9, <2>10, <2>11, <3>6
      <4>3. QED BY <4>1, <4>2 DEF OnlyIn
    <3>7. QED BY <2>13, <3>1, <3>2, <3>3, <3>4, <3>5, <3>6
  <2>18. QED BY <2>16, <2>17, OnePlace
<1>2. QED BY <1>1, BusInvHolds, PTL

-----------------------------------------------------------------------------
(* The throttle of a burst.  In a log lg, the messages i and j of a thread  *)
(* belong together when no pause of the thread lies between them; al are    *)
(* the messages posted one by one, and ep the messages before the crash.    *)

Together(lg, i, j) ==
    \A k \in DOMAIN lg : lg[k].thread = lg[i].thread /\ i < k /\ k <= j =>
       \E h \in DOMAIN lg : /\ lg[h].thread = lg[i].thread /\ i <= h /\ h < k
                            /\ lg[k].at <= lg[h].at + Window

Counted(lg, ep, al, j) ==
    {i \in DOMAIN lg : /\ lg[i].thread = lg[j].thread /\ ep < i /\ i <= j /\ i \in al
                       /\ Together(lg, i, j)}

(* The times of thread t do not go back; nothing of a thread between m and  *)
(* n.                                                                       *)
TimesRise(lg, t) ==
    \A i, j \in DOMAIN lg : j < i /\ lg[i].thread = t /\ lg[j].thread = t => lg[j].at <= lg[i].at
NextAfterIs(lg, m, n) ==
    \A k \in DOMAIN lg : ~(lg[k].thread = lg[n].thread /\ m < k /\ k < n)

AloneIds == {i \in Id : Alone(i)}

(* The log as the throttle knows it: what it never saw is of no thread.     *)
HeardOf(lg, ls) ==
    [i \in DOMAIN lg |-> IF i \in ls THEN [lg[i] EXCEPT !.thread = 0] ELSE lg[i]]
Heard == HeardOf(log, lost)

(* The messages of a thread the throttle has seen since the last crash.     *)
SeenOf(t) == {i \in Done \ lost : epoch < i /\ log[i].thread = t}

ThrottleInv ==
    /\ epoch <= Len(log) /\ (projecting # 0 => epoch < projecting)
    /\ \A t \in Thread : SeenOf(t) = {} => throttle[t].last = 0 /\ throttle[t].raw = 0
    /\ \A t \in Thread : SeenOf(t) # {} => \E m \in SeenOf(t) :
          /\ \A i \in SeenOf(t) : i <= m
          /\ throttle[t].last = log[m].at
          /\ throttle[t].raw = Cardinality(Counted(Heard, epoch, AloneIds, m))
    /\ \A j \in AloneIds : epoch < j => Cardinality(Counted(Heard, epoch, AloneIds, j)) <= RawLimit

LEMMA HeardOfIs ==
    ASSUME NEW lg \in Seq(Message), NEW ls
    PROVE  LET H == HeardOf(lg, ls) IN
           /\ H \in Seq(Message) /\ DOMAIN H = DOMAIN lg
           /\ \A i \in DOMAIN lg : /\ i \in ls => H[i].thread = 0
                                   /\ i \notin ls => H[i] = lg[i]
                                   /\ H[i].at = lg[i].at
<1> DEFINE H == HeardOf(lg, ls)
<1>1. DOMAIN lg = 1..Len(lg) /\ Len(lg) \in Nat /\ \A i \in DOMAIN lg : lg[i] \in Message
  OBVIOUS
<1>2. ASSUME NEW i \in DOMAIN lg
      PROVE  /\ [lg[i] EXCEPT !.thread = 0] \in Message
             /\ [lg[i] EXCEPT !.thread = 0].thread = 0
             /\ [lg[i] EXCEPT !.thread = 0].at = lg[i].at
  BY <1>1 DEF Message
<1>3. /\ DOMAIN H = 1..Len(lg)
      /\ \A i \in DOMAIN lg : H[i] \in Message
  BY <1>1, <1>2 DEF HeardOf
<1>4. H = [i \in 1..Len(lg) |-> H[i]]
  BY <1>1 DEF HeardOf
<1>5. H \in Seq(Message)
  <2> HIDE DEF H
  <2>1. QED BY <1>1, <1>3, <1>4, IsASeq
<1>6. \A i \in DOMAIN lg : /\ i \in ls => H[i].thread = 0
                           /\ i \notin ls => H[i] = lg[i]
                           /\ H[i].at = lg[i].at
  BY <1>2 DEF HeardOf
<1> HIDE DEF H
<1>7. QED BY <1>1, <1>3, <1>5, <1>6 DEF H

LEMMA HeardIs ==
    ASSUME BusTypes
    PROVE  /\ Heard \in Seq(Message) /\ DOMAIN Heard = Id
           /\ \A i \in Id : /\ i \in lost => Heard[i].thread = 0
                            /\ i \notin lost => Heard[i] = log[i]
                            /\ Heard[i].at = log[i].at
  BY HeardOfIs DEF BusTypes, Heard, Id

LEMMA HeardNext ==
    ASSUME BusTypes'
    PROVE  Heard' \in Seq(Message) /\ DOMAIN Heard' = Id'
  BY HeardOfIs DEF BusTypes, Heard, Id

LEMMA SameIsTogether ==
    ASSUME BusTypes, NEW i \in Id, NEW j \in Id, i \notin lost, log[i].thread # 0
    PROVE  SameBurst(i, j) <=> Together(Heard, i, j)
<1>1. /\ \A k \in Id : k \in Nat /\ (k \in (i + 1)..j <=> i < k /\ k <= j)
      /\ \A h, k \in Id : (h \in i..(k - 1) <=> i <= h /\ h < k)
  <2>1. \A k \in Id : k \in Nat
    BY DEF BusTypes, Id
  <2>2. QED BY <2>1
<1>2. \A k \in Id : Heard[k].at = log[k].at
  BY HeardIs
<1>3. DOMAIN Heard = Id
  BY HeardIs
<1>4. ASSUME NEW k \in Id
      PROVE  k \in Reached(log[i].thread) <=> Heard[k].thread = Heard[i].thread
  <2>1. Heard[i].thread = log[i].thread
    BY HeardIs
  <2>2. CASE k \in lost
    BY <2>1, <2>2, HeardIs DEF Reached
  <2>3. CASE k \notin lost
    BY <2>1, <2>3, HeardIs DEF Reached, OfThread
  <2>4. QED BY <2>2, <2>3
<1>5. \A t : Reached(t) \subseteq Id
  BY DEF Reached, OfThread
<1> DEFINE t == log[i].thread
           far(k) == \E h \in Id : /\ Heard[h].thread = Heard[i].thread /\ i <= h /\ h < k
                                   /\ log[k].at <= log[h].at + Window
<1>6. ASSUME NEW k \in Id
      PROVE  (\E h \in Reached(t) : h \in i..(k - 1) /\ log[k].at <= log[h].at + Window) <=> far(k)
  BY <1>1, <1>4, <1>5
<1>7. SameBurst(i, j) <=>
         \A k \in Id : Heard[k].thread = Heard[i].thread /\ i < k /\ k <= j => far(k)
  <2> HIDE DEF far
  <2>1. SameBurst(i, j) <=> \A k \in Reached(t) : k \in (i + 1)..j => far(k)
    BY <1>5, <1>6 DEF SameBurst
  <2>2. QED BY <1>1, <1>4, <1>5, <2>1
<1>8. Together(Heard, i, j) <=>
         \A k \in Id : Heard[k].thread = Heard[i].thread /\ i < k /\ k <= j => far(k)
  BY <1>2, <1>3 DEF Together
<1>9. QED BY <1>7, <1>8

LEMMA CountedIsFinite ==
    ASSUME NEW lg \in Seq(Message), NEW ep, NEW al, NEW j
    PROVE  /\ IsFiniteSet(Counted(lg, ep, al, j))
           /\ Cardinality(Counted(lg, ep, al, j)) \in Nat
<1>1. IsFiniteSet(DOMAIN lg)
  <2>1. DOMAIN lg = 1..Len(lg) /\ Len(lg) \in Int /\ 1 \in Int
    OBVIOUS
  <2>2. QED BY <2>1, FS_Interval
<1>2. Counted(lg, ep, al, j) \subseteq DOMAIN lg
  BY DEF Counted
<1>3. IsFiniteSet(Counted(lg, ep, al, j))
  BY <1>1, <1>2, FS_Subset
<1>4. QED BY <1>3, FS_CardinalityType

(* What is counted at n of the same thread, given what was counted at m.    *)
GoesOn(lg, ep, al, al2, m, n) ==
    Counted(lg, ep, al2, n) =
        (IF lg[n].at <= lg[m].at + Window THEN Counted(lg, ep, al, m) ELSE {}) \cup (al2 \cap {n})

(* The next message of a thread after m is n: what is counted goes on when  *)
(* there is no pause between them and begins anew when there is.            *)
LEMMA CountGoesOn ==
    ASSUME NEW lg \in Seq(Message), NEW ep \in Nat, NEW al, NEW al2,
           NEW m \in DOMAIN lg, NEW n \in DOMAIN lg, m < n, ep < m,
           lg[m].thread = lg[n].thread, n \notin al, al \subseteq al2, al2 \subseteq al \cup {n},
           NextAfterIs(lg, m, n), TimesRise(lg, lg[n].thread)
    PROVE  GoesOn(lg, ep, al, al2, m, n)
<1>0. /\ \A k \in DOMAIN lg : k \in Nat /\ lg[k].at \in Nat
      /\ Window \in Nat
  <2>1. \A k \in DOMAIN lg : k \in Nat /\ lg[k] \in Message
    OBVIOUS
  <2>2. QED BY <2>1, BusAssumption DEF Message, Time
<1>1. Together(lg, n, n)
  BY <1>0 DEF Together
<1>2. \A k \in DOMAIN lg : lg[k].thread = lg[n].thread /\ k < n => k <= m
  BY <1>0 DEF NextAfterIs
<1>3. ASSUME NEW i \in DOMAIN lg, lg[i].thread = lg[n].thread, i <= m
      PROVE  Together(lg, i, n) <=> Together(lg, i, m) /\ lg[n].at <= lg[m].at + Window
  <2>1. ASSUME Together(lg, i, n) PROVE Together(lg, i, m) /\ lg[n].at <= lg[m].at + Window
    <3>1. Together(lg, i, m)
      BY <1>0, <2>1 DEF Together
    <3>2. i < n /\ n <= n
      BY <1>0, <1>3
    <3>3. PICK h \in DOMAIN lg : /\ lg[h].thread = lg[i].thread /\ i <= h /\ h < n
                                 /\ lg[n].at <= lg[h].at + Window
      BY <1>3, <2>1, <3>2 DEF Together
    <3>4. h <= m
      BY <1>2, <1>3, <3>3
    <3>5. lg[h].at <= lg[m].at
      BY <1>0, <1>3, <3>3, <3>4 DEF TimesRise
    <3>6. QED BY <1>0, <3>1, <3>3, <3>5
  <2>2. ASSUME Together(lg, i, m), lg[n].at <= lg[m].at + Window PROVE Together(lg, i, n)
    <3>1. SUFFICES ASSUME NEW k \in DOMAIN lg, lg[k].thread = lg[i].thread, i < k, k <= n
          PROVE  \E h \in DOMAIN lg : /\ lg[h].thread = lg[i].thread /\ i <= h /\ h < k
                                      /\ lg[k].at <= lg[h].at + Window
      BY DEF Together
    <3>2. CASE k = n
      BY <1>3, <2>2, <3>2
    <3>3. CASE k # n
      <4>1. k <= m
        BY <1>0, <1>2, <1>3, <3>1, <3>3
      <4>2. QED BY <2>2, <3>1, <4>1 DEF Together
    <3>4. QED BY <3>2, <3>3
  <2>3. QED BY <2>1, <2>2
<1>4. ASSUME NEW i
      PROVE  i \in Counted(lg, ep, al2, n) <=>
                \/ i = n /\ n \in al2
                \/ i \in Counted(lg, ep, al, m) /\ lg[n].at <= lg[m].at + Window
  <2>1. CASE i = n
    <3>1. ~(n <= m) /\ ep < n /\ n <= n
      BY <1>0
    <3>2. QED BY <1>1, <2>1, <3>1 DEF Counted
  <2>2. CASE i # n /\ i \in DOMAIN lg
    <3>1. i \in al2 <=> i \in al
      BY <2>2
    <3>2. lg[i].thread = lg[n].thread => (i <= n <=> i <= m)
      BY <1>0, <1>2, <2>2
    <3>3. QED BY <1>3, <2>2, <3>1, <3>2 DEF Counted
  <2>3. CASE i \notin DOMAIN lg
    BY <2>3 DEF Counted
  <2>4. QED BY <2>1, <2>2, <2>3
<1>5. QED BY <1>4 DEF GoesOn

(* The first message of a thread after a crash is counted alone.            *)
LEMMA CountBegins ==
    ASSUME NEW lg \in Seq(Message), NEW ep \in Nat, NEW al, NEW n \in DOMAIN lg, ep < n,
           \A k \in DOMAIN lg : ~(lg[k].thread = lg[n].thread /\ ep < k /\ k < n)
    PROVE  Counted(lg, ep, al, n) = al \cap {n}
<1>1. \A k \in DOMAIN lg : k \in Nat
  OBVIOUS
<1>2. Together(lg, n, n)
  BY <1>1 DEF Together
<1>3. \A i \in DOMAIN lg : lg[i].thread = lg[n].thread /\ ep < i /\ i <= n => i = n
  BY <1>1
<1>4. n <= n
  BY <1>1
<1>5. QED BY <1>2, <1>3, <1>4 DEF Counted

(* What comes later changes no count.                                       *)
LEMMA CountKept ==
    ASSUME NEW lg \in Seq(Message), NEW lg2 \in Seq(Message), NEW ep, NEW al, NEW al2,
           NEW j \in DOMAIN lg, DOMAIN lg \subseteq DOMAIN lg2,
           \A i \in DOMAIN lg : i <= j => lg2[i] = lg[i],
           \A i \in DOMAIN lg : i <= j => (i \in al2 <=> i \in al),
           \A i \in DOMAIN lg2 : i <= j => i \in DOMAIN lg
    PROVE  Counted(lg2, ep, al2, j) = Counted(lg, ep, al, j)
<1>1. \A k \in DOMAIN lg2 : k \in Nat
  OBVIOUS
<1>2. ASSUME NEW i \in DOMAIN lg, i <= j PROVE Together(lg2, i, j) <=> Together(lg, i, j)
  <2>1. \A k \in DOMAIN lg2 : k <= j => k \in DOMAIN lg
    OBVIOUS
  <2>2. \A h, k \in DOMAIN lg2 : k <= j /\ h < k => h <= j
    BY <1>1
  <2>3. \A k \in DOMAIN lg : k <= j => k \in DOMAIN lg2 /\ lg2[k] = lg[k]
    OBVIOUS
  <2>4. ASSUME NEW k \in DOMAIN lg, k <= j
        PROVE  (\E h \in DOMAIN lg2 : /\ lg2[h].thread = lg2[i].thread /\ i <= h /\ h < k
                                      /\ lg2[k].at <= lg2[h].at + Window)
               <=> (\E h \in DOMAIN lg : /\ lg[h].thread = lg[i].thread /\ i <= h /\ h < k
                                         /\ lg[k].at <= lg[h].at + Window)
    BY <1>2, <2>1, <2>2, <2>3, <2>4
  <2>5. QED BY <1>2, <2>1, <2>3, <2>4 DEF Together
<1>3. j <= j
  BY <1>1
<1>4. QED BY <1>2, <1>3 DEF Counted

IsPosted(ch, x) == \E p \in DOMAIN ch : ch[p] = x
RawPost(t, i) == [thread |-> t, ids |-> <<i>>, kind |-> "raw"]

LEMMA PostedAdded ==
    ASSUME NEW ch \in Seq(Post), NEW post \in Post, NEW x
    PROVE  IsPosted(ch \o <<post>>, x) <=> IsPosted(ch, x) \/ post = x
<1>1. ch \o <<post>> = Append(ch, post)
  OBVIOUS
<1>2. /\ DOMAIN Append(ch, post) = DOMAIN ch \cup {Len(ch) + 1}
      /\ \A k \in DOMAIN ch : Append(ch, post)[k] = ch[k]
      /\ Append(ch, post)[Len(ch) + 1] = post
  BY SetOfAppend
<1>3. QED BY <1>1, <1>2 DEF IsPosted

LEMMA AloneIs ==
    ASSUME NEW i \in Id
    PROVE  Alone(i) <=> i \in missed \/ IsPosted(outbox, RawPost(log[i].thread, i))
<1>1. Posts(TRUE, log[i].thread, <<i>>, "raw")[1] = RawPost(log[i].thread, i)
  BY DEF Posts, RawPost
<1>2. QED BY <1>1 DEF Alone, IsPosted

(* AloneIs in the next state.                                               *)
LEMMA AloneNext ==
    ASSUME NEW i \in Id'
    PROVE  Alone(i)' <=> i \in missed' \/ IsPosted(outbox', RawPost(log'[i].thread, i))
<1>1. Posts(TRUE, log'[i].thread, <<i>>, "raw")[1] = RawPost(log'[i].thread, i)
  BY DEF Posts, RawPost
<1>2. QED BY <1>1 DEF Alone, IsPosted

LEMMA AloneAreDone ==
    ASSUME BusTypes, OutboxInv
    PROVE  /\ AloneIds \subseteq Done /\ AloneIds \cap lost = {} /\ lost \subseteq Done
           /\ \A t, i : IsPosted(outbox, RawPost(t, i)) => i \in Done
<1>1. Shown(outbox) \cup missed \cup lost \subseteq Done
  BY DEF OutboxInv, Tidy
<1>2. ASSUME NEW t, NEW i, IsPosted(outbox, RawPost(t, i)) PROVE i \in Done
  <2>1. PICK p \in DOMAIN outbox : outbox[p].ids = <<i>>
    BY <1>2 DEF IsPosted, RawPost
  <2>2. i \in ToSet(outbox[p].ids)
    BY <2>1 DEF ToSet
  <2>3. QED BY <1>1, <2>2 DEF Shown
<1>3. \A i \in Id : Alone(i) => i \in Done
  BY <1>1, <1>2, AloneIs
<1>4. ASSUME NEW t, NEW i, IsPosted(outbox, RawPost(t, i)) PROVE i \notin lost
  <2>1. PICK p \in DOMAIN outbox : outbox[p].ids = <<i>>
    BY <1>4 DEF IsPosted, RawPost
  <2>2. i \in ToSet(outbox[p].ids)
    BY <2>1 DEF ToSet
  <2>3. i \in Shown(outbox)
    BY <2>2 DEF Shown
  <2>4. QED BY <2>3 DEF OutboxInv, Tidy
<1>5. \A i \in missed : i \notin lost
  BY DEF OutboxInv, Tidy
<1>6. \A i \in Id : Alone(i) => i \notin lost
  BY <1>4, <1>5, AloneIs
<1>7. QED BY <1>1, <1>2, <1>3, <1>6 DEF AloneIds

LEMMA ThrottleSame ==
    ASSUME ThrottleInv, UNCHANGED <<log, epoch, projecting, lost>>, AloneIds' = AloneIds,
           \A t \in Thread : throttle'[t].last = throttle[t].last /\ throttle'[t].raw = throttle[t].raw
    PROVE  ThrottleInv'
<1>1. \A t : SeenOf(t)' = SeenOf(t)
  BY DEF SeenOf, Done, Id
<1>2. Heard' = Heard /\ \A j : Counted(Heard, epoch, AloneIds, j)' = Counted(Heard, epoch, AloneIds, j)
  <2>1. Heard' = Heard
    BY DEF Heard, HeardOf, Id
  <2>2. QED BY <2>1
<1>3. QED BY <1>1, <1>2 DEF ThrottleInv

LEMMA FlushKeepsThrottle ==
    ASSUME BusTypes, ThrottleInv, NEW t \in Thread, Flush(t)
    PROVE  ThrottleInv'
<1> DEFINE s == throttle[t]
           batch == IF s.deferred # <<>> THEN Head(s.deferred) ELSE s.suppressed
           kind == IF s.deferred # <<>> THEN "late" ELSE "summary"
           post == [thread |-> t, ids |-> batch, kind |-> kind]
<1>1. s \in Throttle /\ t \in Nat /\ outbox \in Seq(Post) /\ throttle \in [Thread -> Throttle]
  BY DEF BusTypes, Thread
<1>2. s.deferred \in Seq(Seq(Nat)) /\ s.suppressed \in Seq(Nat) /\ <<>> \in Seq(Nat)
  BY <1>1, ThrottleFields
<1>3. UNCHANGED <<log, epoch, projecting, missed, lost>> /\ outbox' = outbox \o <<post>>
  BY DEF Flush, Posts
<1>4. batch \in Seq(Nat) /\ kind \in {"summary", "late"}
  BY <1>2
<1> HIDE DEF batch, kind
<1>5. post \in Post /\ post.kind # "raw"
  BY <1>1, <1>4 DEF Post
<1>6. \A u, i : post # RawPost(u, i)
  BY <1>5 DEF RawPost
<1> HIDE DEF post
<1>7. \A i \in Id : Alone(i)' <=> Alone(i)
  <2>1. ASSUME NEW i \in Id PROVE Alone(i)' <=> Alone(i)
    <3>1. i \in Id'
      BY <1>3 DEF Id
    <3>2. IsPosted(outbox', RawPost(log[i].thread, i)) <=> IsPosted(outbox, RawPost(log[i].thread, i))
      BY <1>1, <1>3, <1>5, <1>6, PostedAdded
    <3>3. QED BY <1>3, <3>1, <3>2, AloneIs, AloneNext
  <2>2. QED BY <2>1
<1>8. AloneIds' = AloneIds
  BY <1>3, <1>7 DEF AloneIds, Id
<1>9. \A u \in Thread : throttle'[u].last = throttle[u].last /\ throttle'[u].raw = throttle[u].raw
  <2>1. CASE s.deferred # <<>>
    <3>1. throttle' = [throttle EXCEPT ![t] = [s EXCEPT !.deferred = Tail(s.deferred)]]
      BY <2>1 DEF Flush
    <3>2. Tail(s.deferred) \in Seq(Seq(Nat))
      BY <1>2, <2>1
    <3>3. QED BY <1>1, <3>1, <3>2, WithDeferred
  <2>2. CASE s.deferred = <<>>
    <3>1. throttle' = [throttle EXCEPT ![t] = [s EXCEPT !.suppressed = <<>>]]
      BY <2>2 DEF Flush
    <3>2. QED BY <1>1, <1>2, <3>1, WithSuppressed
  <2>3. QED BY <2>1, <2>2
<1>10. QED BY <1>3, <1>8, <1>9, ThrottleSame

LEMMA PublishKeepsThrottle ==
    ASSUME BusTypes, BusTypes', OutboxInv, ThrottleInv, NEW m, Publishes(m)
    PROVE  ThrottleInv'
<1>1. /\ Len(log) \in Nat /\ Id = 1..Len(log) /\ Id' = 1..(Len(log) + 1)
      /\ \A i \in Id : log'[i] = log[i]
      /\ projecting = 0 /\ projecting' = Len(log) + 1
      /\ UNCHANGED <<throttle, outbox, undelivered, missed, lost, epoch>>
  BY LogGrows
<1>2. Done' = Done /\ Done = Id
  BY <1>1 DEF Done
<1>3. \A t : SeenOf(t)' = SeenOf(t)
  BY <1>1, <1>2 DEF SeenOf
<1>4. ASSUME NEW i \in Id' PROVE Alone(i)' <=> i \in Id /\ Alone(i)
  <2>1. CASE i \in Id
    BY <1>1, <2>1, AloneIs, AloneNext
  <2>2. CASE i \notin Id
    <3>1. i \notin missed
      BY <1>2, <2>2 DEF OutboxInv, Tidy
    <3>2. ~IsPosted(outbox, RawPost(log'[i].thread, i))
      BY <1>2, <2>2, AloneAreDone
    <3>3. QED BY <1>1, <2>2, <3>1, <3>2, AloneNext
  <2>3. QED BY <2>1, <2>2
<1>5. AloneIds' = AloneIds
  BY <1>1, <1>4 DEF AloneIds
<1>6. ASSUME NEW j \in Id
      PROVE  Counted(Heard', epoch', AloneIds', j) = Counted(Heard, epoch, AloneIds, j)
  <2>1. /\ Heard \in Seq(Message) /\ DOMAIN Heard = Id
        /\ Heard' \in Seq(Message) /\ DOMAIN Heard' = Id'
    BY HeardIs, HeardNext
  <2>2. \A i \in Id' : i <= j => i \in Id
    BY <1>1
  <2>3. Id \subseteq Id'
    BY <1>1
  <2>4. \A i \in Id : Heard'[i] = Heard[i]
    BY <1>1, <2>3 DEF Heard, HeardOf, Id
  <2>5. QED BY <1>1, <1>5, <2>1, <2>2, <2>3, <2>4, CountKept
<1>7. AloneIds \subseteq Id /\ \A t : SeenOf(t) \subseteq Id
  BY <1>2 DEF AloneIds, SeenOf
<1>8. ThrottleInv'
  <2>1. \A t \in Thread : SeenOf(t)' = {} => throttle'[t].last = 0 /\ throttle'[t].raw = 0
    BY <1>1, <1>3 DEF ThrottleInv
  <2>2. ASSUME NEW t \in Thread, SeenOf(t)' # {}
        PROVE  \E k \in SeenOf(t)' :
                 /\ \A i \in SeenOf(t)' : i <= k
                 /\ throttle'[t].last = log'[k].at
                 /\ throttle'[t].raw = Cardinality(Counted(Heard', epoch', AloneIds', k))
    <3>1. PICK k \in SeenOf(t) :
             /\ \A i \in SeenOf(t) : i <= k
             /\ throttle[t].last = log[k].at
             /\ throttle[t].raw = Cardinality(Counted(Heard, epoch, AloneIds, k))
      BY <1>3, <2>2 DEF ThrottleInv
    <3>2. k \in Id
      BY <1>7
    <3>3. QED BY <1>1, <1>3, <1>6, <3>1, <3>2
  <2>3. \A j \in AloneIds' : epoch' < j =>
           Cardinality(Counted(Heard', epoch', AloneIds', j)) <= RawLimit
    BY <1>1, <1>5, <1>6, <1>7 DEF ThrottleInv
  <2>4. epoch' <= Len(log') /\ (projecting' # 0 => epoch' < projecting')
    <3>1. Len(log') = Len(log) + 1 /\ epoch \in Nat /\ epoch <= Len(log)
      BY LogGrows DEF ThrottleInv, BusTypes
    <3>2. QED BY <1>1, <3>1
  <2>5. QED BY <2>1, <2>2, <2>3, <2>4 DEF ThrottleInv
<1>9. QED BY <1>8

LEMMA CrashKeepsThrottle ==
    ASSUME BusTypes, BusCrash
    PROVE  ThrottleInv'
<1>1. /\ epoch' = Len(log) /\ log' = log /\ throttle' = [t \in Thread |-> Fresh]
      /\ Len(log) \in Nat /\ DOMAIN log = 1..Len(log)
      /\ projecting' = 0 /\ epoch' <= Len(log')
  BY DEF BusCrash, BusTypes
<1>2. \A i \in Id' : ~(epoch' < i)
  BY <1>1 DEF Id
<1>3. \A t : SeenOf(t)' = {}
  BY <1>2 DEF SeenOf, Done
<1>4. AloneIds' \subseteq Id'
  BY DEF AloneIds
<1>5. \A t \in Thread : throttle'[t].last = 0 /\ throttle'[t].raw = 0
  BY <1>1 DEF Fresh
<1>6. QED BY <1>1, <1>2, <1>3, <1>4, <1>5 DEF ThrottleInv

(* What projecting a message does to the counter of its thread.             *)
LEMMA ProjectedCounts ==
    ASSUME BusTypes, LastInv, \A i \in Id : log[i].thread \in Thread, OutboxInv,
           NEW sentStale \in BOOLEAN, NEW sent \in BOOLEAN, Project(sentStale, sent)
    PROVE  /\ \/ /\ AloneIds' = AloneIds \cup {projecting} /\ Upon(sentStale).raw < RawLimit
                 /\ throttle'[ItsThread].raw = Upon(sentStale).raw + 1
              \/ /\ AloneIds' = AloneIds
                 /\ throttle'[ItsThread].raw = Upon(sentStale).raw
           /\ throttle'[ItsThread].last = log[projecting].at
           /\ \A u \in Thread : u # ItsThread => throttle'[u] = throttle[u]
<1> DEFINE n == projecting
           t == ItsThread
           up == Upon(sentStale)
           old == Before
           batch == Batch(sentStale)
           full == sent /\ Len(batch) >= BatchSize
           ch2 == outbox \o StaleSummary(sentStale)
           at == log[n].at
<1>1. /\ n = Len(log) /\ n \in Id /\ n \in Nat \ {0} /\ t \in Thread /\ t \in Nat
      /\ up \in Throttle /\ old \in Throttle /\ batch \in Seq(Nat) /\ projecting' = 0
      /\ at \in Time /\ StaleSummary(sentStale) \in Seq(Post)
      /\ UNCHANGED <<threads, log, undelivered, lost, epoch>>
      /\ ProjectedRaw(sentStale, sent) \/ ProjectedInBatch(sentStale, sent)
  BY ProjectIs
<1>2. /\ up.raw \in Nat /\ up.last \in Nat /\ old.raw \in Nat /\ old.last \in Nat
      /\ up.suppressed \in Seq(Nat) /\ old.suppressed \in Seq(Nat)
  BY <1>1, ThrottleFields
<1>3. /\ \A i \in Id : i \in Nat /\ i <= n
      /\ Id' = Id /\ Done' = Done \cup {n} /\ n \notin Done
      /\ Done \subseteq Id /\ Id \subseteq Done \cup {n} /\ \A i \in Done : i < n
  <2>1. DOMAIN log = 1..Len(log) /\ Len(log) \in Nat
    BY DEF BusTypes
  <2>2. \A i \in Id : i \in Nat /\ i <= n /\ i # 0
    BY <1>1, <2>1 DEF Id
  <2>3. Id' = Id
    BY <1>1 DEF Id
  <2>4. QED BY <1>1, <2>2, <2>3 DEF Done
<1>4. throttle \in [Thread -> Throttle] /\ outbox \in Seq(Post) /\ log \in Seq(Message)
        /\ epoch \in Nat /\ DOMAIN log = Id
  BY DEF BusTypes, Id
<1>6. AloneIds \subseteq Done /\ (\A u, i : IsPosted(outbox, RawPost(u, i)) => i \in Done)
  BY AloneAreDone
<1>7. up.last = at
  <2>1. at \in Nat
    BY <1>1 DEF Time
  <2>2. QED BY <1>1, <2>1, SeenIs DEF Upon
<1> HIDE DEF n, t, up, old, batch, full, ch2, at
<1>8. ch2 \in Seq(Post) /\ \A u, i : IsPosted(ch2, RawPost(u, i)) <=> IsPosted(outbox, RawPost(u, i))
  <2> DEFINE post == [thread |-> t, ids |-> old.suppressed, kind |-> "summary"]
  <2>1. post \in Post /\ \A u, i : post # RawPost(u, i)
    BY <1>1, <1>2 DEF Post, RawPost
  <2>2. StaleSummary(sentStale) = <<post>> \/ StaleSummary(sentStale) = <<>>
    BY DEF StaleSummary, Posts, t, old
  <2> HIDE DEF post
  <2>3. ch2 = outbox \o <<post>> \/ ch2 = outbox
    <3>1. outbox \o <<>> = outbox
      BY <1>4
    <3>2. QED BY <2>2, <3>1 DEF ch2
  <2>4. outbox \o <<post>> \in Seq(Post)
    BY <1>4, <2>1
  <2>5. \A u, i : IsPosted(outbox \o <<post>>, RawPost(u, i)) <=> IsPosted(outbox, RawPost(u, i))
    BY <1>4, <2>1, PostedAdded
  <2>6. QED BY <1>4, <2>3, <2>4, <2>5
<1>9. CASE ProjectedRaw(sentStale, sent)
  <2>1. /\ throttle' = [throttle EXCEPT ![t] = [up EXCEPT !.raw = up.raw + 1]]
        /\ outbox' = ch2 \o Posts(sent, t, <<n>>, "raw")
        /\ missed' = IF sent THEN missed ELSE missed \cup {n}
        /\ up.raw < RawLimit
    BY <1>9 DEF ProjectedRaw, IsRaw, n, t, up, ch2
  <2>2. ASSUME NEW i \in Id PROVE Alone(i)' <=> Alone(i) \/ i = n
    <3>1. CASE sent
      <4>1. outbox' = ch2 \o <<RawPost(t, n)>> /\ missed' = missed
        BY <2>1, <3>1 DEF Posts, RawPost
      <4>2. RawPost(t, n) \in Post
        BY <1>1 DEF Post, RawPost
      <4>3. IsPosted(outbox', RawPost(log[i].thread, i)) <=>
               IsPosted(ch2, RawPost(log[i].thread, i)) \/ RawPost(t, n) = RawPost(log[i].thread, i)
        BY <1>8, <4>1, <4>2, PostedAdded
      <4>4. RawPost(t, n) = RawPost(log[i].thread, i) <=> i = n
        <5>1. i = n => log[i].thread = t
          BY DEF n, t, ItsThread
        <5>2. RawPost(t, n) = RawPost(log[i].thread, i) => <<n>> = <<i>>
          BY DEF RawPost
        <5>3. <<n>> = <<i>> => n = i
          OBVIOUS
        <5>4. QED BY <5>1, <5>2, <5>3
      <4>5. QED BY <1>1, <1>3, <1>8, <4>1, <4>3, <4>4, AloneIs, AloneNext
    <3>2. CASE ~sent
      <4>1. outbox' = ch2 /\ missed' = missed \cup {n}
        BY <1>8, <2>1, <3>2 DEF Posts
      <4>2. QED BY <1>1, <1>3, <1>8, <4>1, AloneIs, AloneNext
    <3>3. QED BY <3>1, <3>2
  <2>3. AloneIds' = AloneIds \cup {n}
    BY <1>1, <1>3, <2>2 DEF AloneIds
  <2>4. throttle'[t].last = at /\ throttle'[t].raw = up.raw + 1
    <3>1. throttle'[t] = [up EXCEPT !.raw = up.raw + 1] /\ up.raw + 1 \in Nat
      BY <1>1, <1>2, <1>4, <2>1
    <3>2. /\ [up EXCEPT !.raw = up.raw + 1].raw = up.raw + 1
          /\ [up EXCEPT !.raw = up.raw + 1].last = up.last
      BY <1>1, <3>1, WithRaw
    <3>3. QED BY <1>7, <3>1, <3>2
  <2>5. \A u \in Thread : u # t => throttle'[u] = throttle[u]
    BY <1>4, <2>1
  <2>6. QED BY <2>1, <2>3, <2>4, <2>5 DEF n, t, up, at
<1>10. CASE ProjectedInBatch(sentStale, sent)
  <2> DEFINE next == IF full THEN <<>> ELSE batch
             post == [thread |-> t, ids |-> batch, kind |-> "summary"]
  <2>1. /\ throttle' = [throttle EXCEPT ![t] = [up EXCEPT !.suppressed = next]]
        /\ outbox' = ch2 \o Posts(full, t, batch, "summary") /\ missed' = missed
    BY <1>10 DEF ProjectedInBatch, t, up, ch2, full, batch
  <2>2. next \in Seq(Nat)
    BY <1>1
  <2>3. post \in Post /\ (\A u, i : post # RawPost(u, i))
    BY <1>1 DEF Post, RawPost
  <2>4. outbox' = ch2 \o <<post>> \/ outbox' = ch2
    BY <1>8, <2>1 DEF Posts
  <2> HIDE DEF next, post
  <2>5. \A u, i : IsPosted(ch2 \o <<post>>, RawPost(u, i)) <=> IsPosted(ch2, RawPost(u, i))
    BY <1>8, <2>3, PostedAdded
  <2>6. \A i \in Id : Alone(i)' <=> Alone(i)
    BY <1>1, <1>3, <1>8, <2>1, <2>4, <2>5, AloneIs, AloneNext
  <2>7. AloneIds' = AloneIds
    BY <1>3, <2>6 DEF AloneIds
  <2>8. throttle'[t].last = at /\ throttle'[t].raw = up.raw
    <3>1. throttle'[t] = [up EXCEPT !.suppressed = next]
      BY <1>1, <1>4, <2>1
    <3>2. /\ [up EXCEPT !.suppressed = next].raw = up.raw
          /\ [up EXCEPT !.suppressed = next].last = up.last
      BY <1>1, <2>2, WithSuppressed
    <3>3. QED BY <1>7, <3>1, <3>2
  <2>9. \A u \in Thread : u # t => throttle'[u] = throttle[u]
    BY <1>4, <2>1
  <2>10. QED BY <2>7, <2>8, <2>9 DEF n, t, up, at
<1>11. QED BY <1>1, <1>9, <1>10

LEMMA ProjectKeepsThrottle ==
    ASSUME BusTypes, LastInv, LogInv, \A i \in Id : log[i].thread \in Thread, OutboxInv, ThrottleInv,
           NEW sentStale \in BOOLEAN, NEW sent \in BOOLEAN, Project(sentStale, sent)
    PROVE  ThrottleInv'
<1>a. PICK t \in Thread : t = ItsThread
  BY ProjectIs
<1> DEFINE n == projecting
           up == Upon(sentStale)
           old == Before
           at == log[n].at
           al2 == AloneIds'
<1>1. /\ n = Len(log) /\ n \in Id /\ n \in Nat \ {0}
      /\ up \in Throttle /\ old \in Throttle /\ projecting' = 0 /\ at \in Time
      /\ UNCHANGED <<threads, log, undelivered, lost, epoch>>
  BY ProjectIs
<1>2. up.raw \in Nat /\ old.raw \in Nat /\ old.last \in Nat /\ at \in Nat /\ at # 0
  BY <1>1, ThrottleFields DEF Time
<1>3. /\ \A i \in Id : i \in Nat /\ i <= n
      /\ Id' = Id /\ Done' = Done \cup {n} /\ n \notin Done
      /\ Done \subseteq Id /\ Id \subseteq Done \cup {n} /\ \A i \in Done : i < n
  <2>1. DOMAIN log = 1..Len(log) /\ Len(log) \in Nat
    BY DEF BusTypes
  <2>2. \A i \in Id : i \in Nat /\ i <= n /\ i # 0
    BY <1>1, <2>1 DEF Id
  <2>3. Id' = Id
    BY <1>1 DEF Id
  <2>4. QED BY <1>1, <2>2, <2>3 DEF Done
<1>4. log \in Seq(Message) /\ epoch \in Nat /\ DOMAIN log = Id /\ Window \in Nat
        /\ RawLimit \in Nat /\ \A i \in Id : log[i].at \in Nat /\ log[i].at # 0
  <2>1. log \in Seq(Message) /\ epoch \in Nat /\ DOMAIN log = Id /\ \A i \in Id : log[i] \in Message
    BY DEF BusTypes, Id
  <2>2. QED BY <2>1, BusAssumption DEF Message, Time
<1>5. epoch < n /\ epoch <= Len(log)
  BY <1>1 DEF ThrottleInv
<1>6. AloneIds \subseteq Done /\ lost \subseteq Done /\ n \notin lost
  BY <1>3, AloneAreDone
<1>b. /\ Heard \in Seq(Message) /\ DOMAIN Heard = Id /\ Heard' = Heard
      /\ Heard[n].thread = t /\ t # 0 /\ Heard[n] = log[n]
      /\ \A i \in Id : /\ i \in lost => Heard[i].thread = 0
                       /\ i \notin lost => Heard[i] = log[i]
                       /\ Heard[i].at = log[i].at
  <2>1. Heard' = Heard
    BY <1>1, <1>3 DEF Heard, HeardOf
  <2>2. t # 0 /\ log[n].thread = t
    BY <1>a DEF Thread, ItsThread
  <2>3. Heard[n] = log[n]
    BY <1>1, <1>6, HeardIs
  <2>4. QED BY <2>1, <2>2, <2>3, HeardIs
<1>7. /\ Over => up.raw = 0
      /\ ~Over => up.raw = old.raw
      /\ Over <=> (old.last # 0 /\ at > old.last + Window)
  <2>1. (Over => up.raw = 0) /\ (~Over => up.raw = old.raw)
    BY <1>1, <1>2, SeenIs DEF Upon, Over
  <2>2. Over <=> (old.last # 0 /\ at > old.last + Window)
    BY DEF Over, IsIdleGap
  <2>3. QED BY <2>1, <2>2
<1>8. /\ \/ al2 = AloneIds \cup {n} /\ up.raw < RawLimit /\ throttle'[t].raw = up.raw + 1
         \/ al2 = AloneIds /\ throttle'[t].raw = up.raw
      /\ throttle'[t].last = at
      /\ \A u \in Thread : u # t => throttle'[u] = throttle[u]
  BY <1>a, ProjectedCounts
<1>9. /\ \A u : u # t => SeenOf(u)' = SeenOf(u)
      /\ SeenOf(t)' = SeenOf(t) \cup {n} /\ log[n].thread = t
      /\ \A u : SeenOf(u) \subseteq Done
  <2>1. log[n].thread = t
    BY <1>a DEF ItsThread
  <2>2. log' = log /\ epoch' = epoch
    BY <1>1
  <2>3. \A u : SeenOf(u)' = {i \in Done' \ lost : epoch < i /\ log[i].thread = u}
    BY <1>1, <2>2 DEF SeenOf
  <2> HIDE DEF n
  <2>4. ASSUME NEW u, u # t PROVE SeenOf(u)' = SeenOf(u)
    BY <1>3, <2>1, <2>3, <2>4 DEF SeenOf
  <2>5. SeenOf(t)' = SeenOf(t) \cup {n}
    <3>1. SeenOf(t)' = {i \in (Done \cup {n}) \ lost : epoch < i /\ log[i].thread = t}
      BY <1>3, <2>3
    <3>2. \A i : i \in SeenOf(t)' <=> i \in SeenOf(t) \/ i = n
      BY <1>5, <1>6, <2>1, <3>1 DEF SeenOf
    <3>3. QED BY <3>2
  <2>6. \A u : SeenOf(u) \subseteq Done
    BY DEF SeenOf
  <2>7. QED BY <2>1, <2>4, <2>5, <2>6
<1> HIDE DEF n, up, old, at, al2
<1>10. ASSUME NEW j \in Done
       PROVE  Counted(Heard, epoch, al2, j) = Counted(Heard, epoch, AloneIds, j)
  <2>1. j \in Id /\ \A i \in Id : i <= j => (i \in al2 <=> i \in AloneIds)
    <3>1. j < n /\ j \in Nat /\ j \in Id
      BY <1>3
    <3>2. ~(n <= j)
      BY <1>1, <3>1
    <3>3. QED BY <1>8, <3>1, <3>2
  <2>2. QED BY <1>b, <2>1, CountKept
<1>11. throttle'[t].raw = Cardinality(Counted(Heard, epoch, al2, n))
  <2>1. n \notin AloneIds
    BY <1>3, <1>6
  <2>2. CASE SeenOf(t) = {}
    <3>1. old.last = 0 /\ old.raw = 0
      BY <1>a, <2>2 DEF ThrottleInv, old, Before
    <3>2. up.raw = 0
      BY <1>7, <3>1
    <3>3. \A k \in Id : ~(Heard[k].thread = Heard[n].thread /\ epoch < k /\ k < n)
      <4>1. ASSUME NEW k \in Id, Heard[k].thread = Heard[n].thread, epoch < k, k < n PROVE FALSE
        <5>1. k # n /\ k \notin lost /\ log[k].thread = t
          BY <1>1, <1>b, <4>1
        <5>2. k \in SeenOf(t)
          BY <1>3, <4>1, <5>1 DEF SeenOf
        <5>3. QED BY <2>2, <5>2
      <4>2. QED BY <4>1
    <3>4. Counted(Heard, epoch, al2, n) = al2 \cap {n}
      BY <1>1, <1>4, <1>5, <1>b, <3>3, CountBegins
    <3>5. CASE al2 = AloneIds \cup {n} /\ throttle'[t].raw = up.raw + 1
      <4>1. Counted(Heard, epoch, al2, n) = {n}
        BY <3>4, <3>5
      <4>2. Cardinality(Counted(Heard, epoch, al2, n)) = 1
        BY <4>1, FS_Singleton
      <4>3. throttle'[t].raw = 1
        BY <3>2, <3>5
      <4>4. QED BY <4>2, <4>3
    <3>6. CASE al2 = AloneIds /\ throttle'[t].raw = up.raw
      <4>1. Counted(Heard, epoch, al2, n) = {}
        BY <2>1, <3>4, <3>6
      <4>2. QED BY <3>2, <3>6, <4>1, FS_EmptySet
    <3>7. QED BY <1>8, <3>5, <3>6
  <2>3. CASE SeenOf(t) # {}
    <3>1. PICK m \in SeenOf(t) :
             /\ \A i \in SeenOf(t) : i <= m
             /\ old.last = log[m].at
             /\ old.raw = Cardinality(Counted(Heard, epoch, AloneIds, m))
      BY <1>a, <2>3 DEF ThrottleInv, old, Before
    <3>2. /\ m \in Id /\ m \in Done /\ m < n /\ m \in Nat /\ epoch < m
          /\ Heard[m].thread = Heard[n].thread /\ Heard[m] = log[m]
      BY <1>3, <1>9, <1>b DEF SeenOf
    <3>3. \A k \in Id : ~(Heard[k].thread = Heard[n].thread /\ m < k /\ k < n)
      <4>1. ASSUME NEW k \in Id, Heard[k].thread = Heard[n].thread, m < k, k < n PROVE FALSE
        <5>1. k # n /\ epoch < k /\ ~(k <= m)
          BY <1>1, <1>3, <1>4, <3>2, <4>1
        <5>a. k \notin lost /\ log[k].thread = t
          BY <1>b, <4>1
        <5>2. k \in SeenOf(t)
          BY <1>3, <4>1, <5>1, <5>a DEF SeenOf
        <5>3. QED BY <3>1, <5>1, <5>2
      <4>2. QED BY <4>1
    <3>4. \A i, j \in Id : j < i /\ log[j].thread = log[i].thread => log[j].at <= log[i].at
      BY DEF LogInv
    <3>5. AloneIds \subseteq al2 /\ al2 \subseteq AloneIds \cup {n}
      BY <1>8
    <3>6. /\ log[n].at <= log[m].at + Window =>
                Counted(Heard, epoch, al2, n) = Counted(Heard, epoch, AloneIds, m) \cup (al2 \cap {n})
          /\ ~(log[n].at <= log[m].at + Window) => Counted(Heard, epoch, al2, n) = al2 \cap {n}
      <4>1. /\ m \in DOMAIN Heard /\ n \in DOMAIN Heard /\ Heard \in Seq(Message) /\ epoch \in Nat
            /\ m < n /\ epoch < m /\ Heard[m].thread = Heard[n].thread
        BY <1>1, <1>4, <1>b, <3>2
      <4>2. NextAfterIs(Heard, m, n)
        BY <1>b, <3>3 DEF NextAfterIs
      <4>3. TimesRise(Heard, Heard[n].thread)
        <5>1. ASSUME NEW i \in Id, Heard[i].thread = t PROVE Heard[i] = log[i]
          BY <1>b, <5>1
        <5>2. QED BY <1>b, <3>4, <5>1 DEF TimesRise
      <4>4. GoesOn(Heard, epoch, AloneIds, al2, m, n)
        BY <2>1, <3>5, <4>1, <4>2, <4>3, CountGoesOn
      <4>5. QED BY <1>b, <3>2, <4>4 DEF GoesOn
    <3>7. Over <=> ~(log[n].at <= log[m].at + Window)
      BY <1>1, <1>2, <1>4, <1>7, <3>1, <3>2 DEF at
    <3> DEFINE before == IF Over THEN {} ELSE Counted(Heard, epoch, AloneIds, m)
    <3>8. /\ IsFiniteSet(before) /\ up.raw = Cardinality(before) /\ n \notin before
      <4>1. CASE Over
        BY <1>7, <4>1, FS_EmptySet
      <4>2. CASE ~Over
        <5>1. ~(n <= m)
          BY <1>1, <3>2
        <5>2. n \notin Counted(Heard, epoch, AloneIds, m)
          BY <5>1 DEF Counted
        <5>3. IsFiniteSet(Counted(Heard, epoch, AloneIds, m))
          BY <1>b, CountedIsFinite
        <5>4. QED BY <1>7, <3>1, <4>2, <5>2, <5>3
      <4>3. QED BY <4>1, <4>2
    <3>9. Counted(Heard, epoch, al2, n) = before \cup (al2 \cap {n})
      BY <3>6, <3>7
    <3> HIDE DEF before
    <3>10. CASE al2 = AloneIds \cup {n} /\ throttle'[t].raw = up.raw + 1
      <4>1. Counted(Heard, epoch, al2, n) = before \cup {n}
        BY <3>9, <3>10
      <4>2. Cardinality(before \cup {n}) = Cardinality(before) + 1
        BY <3>8, FS_AddElement
      <4>3. QED BY <3>8, <3>10, <4>1, <4>2
    <3>11. CASE al2 = AloneIds /\ throttle'[t].raw = up.raw
      <4>1. Counted(Heard, epoch, al2, n) = before
        BY <2>1, <3>9, <3>11
      <4>2. QED BY <3>8, <3>11, <4>1
    <3>12. QED BY <1>8, <3>10, <3>11
  <2>4. QED BY <2>2, <2>3
<1>12. /\ log' = log /\ Heard' = Heard /\ epoch' = epoch /\ projecting' = 0 /\ AloneIds' = al2
  BY <1>1, <1>b DEF al2
<1>13. \A u \in Thread : SeenOf(u)' = {} => throttle'[u].last = 0 /\ throttle'[u].raw = 0
  <2>1. \A u \in Thread : SeenOf(u)' = {} => u # t /\ SeenOf(u) = {}
    BY <1>9
  <2>2. QED BY <1>8, <2>1 DEF ThrottleInv
<1>14. ASSUME NEW u \in Thread, SeenOf(u)' # {}
       PROVE  \E k \in SeenOf(u)' :
                 /\ \A i \in SeenOf(u)' : i <= k
                 /\ throttle'[u].last = log'[k].at
                 /\ throttle'[u].raw = Cardinality(Counted(Heard', epoch', AloneIds', k))
  <2>1. CASE u = t
    <3>1. n \in SeenOf(t)' /\ \A i \in SeenOf(t)' : i <= n
      BY <1>1, <1>3, <1>9
    <3>2. /\ throttle'[t].last = log'[n].at
          /\ throttle'[t].raw = Cardinality(Counted(Heard', epoch', AloneIds', n))
      BY <1>8, <1>11, <1>12 DEF at
    <3>3. QED BY <2>1, <3>1, <3>2
  <2>2. CASE u # t
    <3>1. PICK k \in SeenOf(u) :
             /\ \A i \in SeenOf(u) : i <= k
             /\ throttle[u].last = log[k].at
             /\ throttle[u].raw = Cardinality(Counted(Heard, epoch, AloneIds, k))
      BY <1>9, <1>14, <2>2 DEF ThrottleInv
    <3>2. k \in Done
      BY <1>9
    <3>3. QED BY <1>8, <1>9, <1>10, <1>12, <2>2, <3>1, <3>2
  <2>3. QED BY <2>1, <2>2
<1>15. ASSUME NEW j \in al2, epoch < j
       PROVE  Cardinality(Counted(Heard, epoch, al2, j)) <= RawLimit
  <2>1. CASE j \in AloneIds
    BY <1>6, <1>10, <1>15, <2>1 DEF ThrottleInv
  <2>2. CASE j \notin AloneIds
    <3>1. j = n /\ up.raw < RawLimit /\ throttle'[t].raw = up.raw + 1
      BY <1>8, <1>15, <2>2
    <3>2. QED BY <1>2, <1>4, <1>11, <3>1
  <2>3. QED BY <2>1, <2>2
<1>16. epoch' <= Len(log') /\ (projecting' # 0 => epoch' < projecting')
  BY <1>5, <1>12
<1>17. QED BY <1>12, <1>13, <1>14, <1>15, <1>16 DEF ThrottleInv

(* A message the throttle never saw changes nothing it knows.               *)
LEMMA SkipKeepsThrottle ==
    ASSUME BusTypes, BusTypes', LastInv, OutboxInv, ThrottleInv, Skip
    PROVE  ThrottleInv'
<1> DEFINE id == projecting
<1>1. /\ lost' = lost \cup {id} /\ projecting' = 0 /\ id # 0
      /\ UNCHANGED <<log, throttle, outbox, missed, epoch>>
  BY DEF Skip
<1>2. /\ Id' = Id /\ id \in Id /\ id \in Nat /\ id \notin Done /\ Done' = Done \cup {id}
      /\ \A i \in Id : i \in Nat /\ i <= id /\ (i \in Done <=> i # id)
  <2>1. DOMAIN log = 1..Len(log) /\ Len(log) \in Nat
    BY DEF BusTypes
  <2>2. id = Len(log)
    BY <1>1 DEF LastInv
  <2>3. Id' = Id
    BY <1>1 DEF Id
  <2>4. \A i \in Id : i \in Nat /\ i <= id /\ i # 0
    BY <2>1, <2>2 DEF Id
  <2>5. id \in Id
    BY <1>1, <2>1, <2>2 DEF Id
  <2>6. QED BY <1>1, <2>3, <2>4, <2>5 DEF Done
<1>3. AloneIds' = AloneIds
  BY <1>1, <1>2 DEF AloneIds, Alone
<1>4. AloneIds \subseteq Done /\ Done \subseteq Id
  BY AloneAreDone DEF Done
<1> HIDE DEF id
<1>5. ASSUME NEW t PROVE SeenOf(t)' = SeenOf(t) /\ SeenOf(t) \subseteq Done
  <2>1. SeenOf(t)' = {i \in (Done \cup {id}) \ (lost \cup {id}) : epoch < i /\ log[i].thread = t}
    BY <1>1, <1>2 DEF SeenOf
  <2>2. (Done \cup {id}) \ (lost \cup {id}) = Done \ lost
    BY <1>2
  <2>3. QED BY <2>1, <2>2 DEF SeenOf
<1>6. ASSUME NEW j \in Done
      PROVE  Counted(Heard', epoch', AloneIds', j) = Counted(Heard, epoch, AloneIds, j)
  <2>1. /\ Heard \in Seq(Message) /\ DOMAIN Heard = Id
        /\ Heard' \in Seq(Message) /\ DOMAIN Heard' = Id
    BY <1>2, HeardIs, HeardNext
  <2>2. j \in Id /\ j \in Nat /\ j # id /\ j <= id
    BY <1>2, <1>4
  <2>3. ASSUME NEW i \in Id, i <= j PROVE Heard'[i] = Heard[i]
    <3>1. i # id
      BY <1>2, <2>2, <2>3
    <3>2. QED BY <1>1, <1>2, <3>1 DEF Heard, HeardOf, Id
  <2>4. QED BY <1>1, <1>3, <2>1, <2>2, <2>3, CountKept
<1>7. ASSUME NEW t \in Thread, SeenOf(t)' # {}
      PROVE  \E k \in SeenOf(t)' :
               /\ \A i \in SeenOf(t)' : i <= k
               /\ throttle'[t].last = log'[k].at
               /\ throttle'[t].raw = Cardinality(Counted(Heard', epoch', AloneIds', k))
  <2>1. PICK k \in SeenOf(t) :
           /\ \A i \in SeenOf(t) : i <= k
           /\ throttle[t].last = log[k].at
           /\ throttle[t].raw = Cardinality(Counted(Heard, epoch, AloneIds, k))
    BY <1>5, <1>7 DEF ThrottleInv
  <2>2. k \in Done
    BY <1>5
  <2>3. QED BY <1>1, <1>5, <1>6, <2>1, <2>2
<1>8. \A t \in Thread : SeenOf(t)' = {} => throttle'[t].last = 0 /\ throttle'[t].raw = 0
  BY <1>1, <1>5 DEF ThrottleInv
<1>9. \A j \in AloneIds' : epoch' < j =>
         Cardinality(Counted(Heard', epoch', AloneIds', j)) <= RawLimit
  BY <1>1, <1>3, <1>4, <1>6 DEF ThrottleInv
<1>10. epoch' <= Len(log') /\ (projecting' # 0 => epoch' < projecting')
  BY <1>1 DEF ThrottleInv
<1>11. QED BY <1>7, <1>8, <1>9, <1>10 DEF ThrottleInv

LEMMA ThrottleStep ==
    ASSUME BusTypes, BusTypes', LastInv, LogInv, \A i \in Id : log[i].thread \in Thread,
           OutboxInv, ThrottleInv, BusStep
    PROVE  ThrottleInv'
<1>1. CASE OpensThread \/ (\E p \in DOMAIN outbox : SendFails(p)) \/ UNCHANGED busVars
  <2>1. UNCHANGED <<log, epoch, projecting, throttle, outbox, missed, lost>>
    BY <1>1 DEF OpensThread, SendFails, busVars
  <2>2. AloneIds' = AloneIds
    BY <2>1 DEF AloneIds, Alone, Id
  <2>3. QED BY <2>1, <2>2, ThrottleSame
<1>2. QED BY <1>1, ProjectKeepsThrottle, SkipKeepsThrottle, FlushKeepsThrottle, PublishKeepsThrottle,
             CrashKeepsThrottle DEF BusStep

-----------------------------------------------------------------------------
(* The theorem about bursts, and about the outbox as a whole.               *)

(* Between two pauses of a thread, at most RawLimit of its messages are     *)
(* posted one by one (not counting across a crash, which forgets the burst).*)
THEOREM BurstsAreThrottledHolds == Spec => []BurstsAreThrottled
<1>1. Init => ThrottleInv
  <2>1. SUFFICES ASSUME Init PROVE ThrottleInv
    OBVIOUS
  <2>2. log = <<>> /\ epoch = 0 /\ projecting = 0 /\ throttle = [t \in Thread |-> Fresh]
    BY <2>1 DEF Init, BusInit
  <2>3. Id = {} /\ AloneIds = {} /\ \A t : SeenOf(t) = {}
    BY <2>2 DEF Id, AloneIds, SeenOf, Done
  <2>4. epoch <= Len(log)
    BY <2>2
  <2>5. QED BY <2>2, <2>3, <2>4 DEF ThrottleInv, Fresh
<1>2. BusInv /\ BusInv' /\ ThrottleInv /\ [Next]_vars => ThrottleInv'
  <2>1. SUFFICES ASSUME BusInv, BusInv', ThrottleInv, [Next]_vars PROVE ThrottleInv'
    OBVIOUS
  <2>2. BusStep
    BY <2>1, StepOfBus DEF BusInv, CallInv
  <2>3. \A i \in Id : log[i].thread \in Thread
    BY <2>1 DEF BusInv, CallInv, ThreadInv
  <2>4. QED BY <2>1, <2>2, <2>3, ThrottleStep DEF BusInv, CallInv, TypeOK
<1>3. BusInv /\ ThrottleInv => BurstsAreThrottled
  <2>1. SUFFICES ASSUME BusInv, ThrottleInv, NEW j \in Id \ (0..epoch), Alone(j)
        PROVE  Cardinality({i \in OfThread(log[j].thread) :
                      epoch < i /\ i <= j /\ Alone(i) /\ SameBurst(i, j)}) <= RawLimit
    BY DEF BurstsAreThrottled
  <2>2. BusTypes /\ j \in AloneIds
    BY <2>1 DEF BusInv, CallInv, TypeOK, AloneIds
  <2>3. epoch < j
    BY <2>1, <2>2 DEF BusTypes, Id
  <2>a. /\ j \in Id /\ j \notin lost /\ log[j].thread # 0 /\ Heard[j].thread = log[j].thread
    <3>1. j \in Id /\ j \notin lost
      BY <2>1, <2>2, AloneAreDone DEF BusInv
    <3>2. log[j].thread \in Thread
      BY <2>1, <3>1 DEF BusInv, CallInv, ThreadInv
    <3>3. QED BY <2>2, <3>1, <3>2, HeardIs DEF Thread
  <2>b. ASSUME NEW i \in Id, Alone(i)
        PROVE  /\ Heard[i].thread = Heard[j].thread <=> i \in OfThread(log[j].thread)
               /\ log[i].thread = log[j].thread => (SameBurst(i, j) <=> Together(Heard, i, j))
    <3>1. i \notin lost
      BY <2>1, <2>2, <2>b, AloneAreDone DEF BusInv, AloneIds
    <3>2. Heard[i] = log[i]
      BY <2>2, <3>1, HeardIs
    <3>3. QED BY <2>2, <2>a, <3>1, <3>2, SameIsTogether DEF OfThread
  <2>4. {i \in OfThread(log[j].thread) : epoch < i /\ i <= j /\ Alone(i) /\ SameBurst(i, j)}
           = Counted(Heard, epoch, AloneIds, j)
    <3>1. DOMAIN Heard = Id
      BY <2>2, HeardIs
    <3>2. QED BY <2>b, <3>1 DEF OfThread, Counted, AloneIds
  <2>5. QED BY <2>1, <2>2, <2>3, <2>4 DEF ThrottleInv
<1>4. QED BY <1>1, <1>2, <1>3, BusInvHolds, PTL DEF Spec

(* What is handed over is the conversation the agents had: in log order,    *)
(* answers right after their questions, and throttled.                      *)
THEOREM PostsAreConversationHolds == Spec => []PostsAreConversation
<1>1. PostsFollowLog /\ BurstsAreThrottled /\ RepliesFollowRequests => PostsAreConversation
  BY DEF PostsAreConversation
<1>2. QED BY <1>1, PostsFollowLogHolds, BurstsAreThrottledHolds, RepliesFollowRequestsHolds, PTL
=============================================================================
