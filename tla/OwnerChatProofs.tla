-------------------------- MODULE OwnerChatProofs --------------------------
(***************************************************************************)
(* Theorems about OwnerChat, for any finite set of projects and any number  *)
(* of notifications, entries of a transcript and faults.                    *)
(***************************************************************************)
EXTENDS OwnerChat, FiniteSetTheorems, WellFoundedInduction, TLAPS

Status == {"queued", "delivered"}
Note == [project : Project, status : Status]
Entry == [says : {"question", "answer", "note"}, note : Nat]
Delivering == {"open", "send", "ack"}
Answering == {"ask", "reopen", "question", "answer"}
Step == {"idle", "flush", "task", "reply"} \cup Delivering \cup Answering

Maybe == Project \cup {None}
Bot == [at : Step, msg : Message \cup {None}, only : Maybe, project : Maybe,
        batch : SUBSET NoteIds, started : Maybe]

TypeOK ==
    /\ registered \subseteq Project
    /\ mine \subseteq registered
    /\ live \subseteq registered /\ allowed \subseteq registered
    /\ active \in Maybe
    /\ session \in [Project -> {"none", "active", "closed"}]
    /\ transcript \in [Project -> Seq(Entry)]
    /\ notes \in Seq(Note) /\ Len(notes) <= MaxNotes
    /\ bot \in Bot
    /\ seen \in [NoteIds -> 0..2]
    /\ cut \subseteq NoteIds
    /\ lastTalk \in Project \cup {None}
    /\ faults \in Nat

(* Only the conversation opened last can be open.                           *)
TalkInv == \A p \in Project : session[p] = "active" => p = lastTalk

(* The bot works for a project.  What it has loaded is queued still, and    *)
(* whatever else is queued for the project came later; from the first send  *)
(* to the last ack the project's session is open.                           *)
BatchInv ==
    /\ bot.at \in Delivering \cup Answering => bot.project \in Project
    /\ bot.at \in Delivering =>
          /\ bot.batch # {} /\ bot.batch \subseteq QueuedFor(bot.project)
          /\ \A i \in bot.batch, j \in QueuedFor(bot.project) \ bot.batch : i < j
    /\ bot.at \in {"send", "ack"} => session[bot.project] = "active"

(* The owner was sent what is delivered, and what is about to be.           *)
SentInv ==
    /\ \A i \in NoteIds \ Row : seen[i] = 0
    /\ \A i \in Row : notes[i].status = "delivered" => seen[i] > 0
    /\ bot.at = "ack" => seen[First] > 0

OrderInv ==
    \A i, j \in Row : i < j /\ notes[i].project = notes[j].project =>
        /\ seen[j] > 0 => seen[i] > 0
        /\ notes[j].status = "delivered" => notes[i].status = "delivered"

TranscriptInv ==
    \A p \in Project, i \in NoteIds :
        Tells(i) \in Range(transcript[p]) =>
            i \in Row /\ notes[i].project = p /\ notes[i].status = "delivered"

(* A row that was sent and is queued still is being acked, or a fault fell  *)
(* between the two.                                                         *)
CutInv ==
    /\ RepeatedOnlyAfterFault
    /\ \A i \in Row : notes[i].status = "queued" /\ seen[i] > 0 =>
          i \in cut \/ (bot.at = "ack" /\ i = First)

QueueInv == BatchInv /\ SentInv /\ OrderInv /\ CutInv

-----------------------------------------------------------------------------
(* Facts about minima, sets of one element and the transcript.              *)

LEMMA MinIsLeast ==
    ASSUME NEW S \in SUBSET Nat, S # {}
    PROVE  Min(S) \in S /\ \A y \in S : Min(S) <= y
<1>1. PICK x \in S : \A y \in S : ~(<<y, x>> \in OpToRel(<, Nat))
  BY NatLessThanWellFounded, WFMin, Zenon
<1>2. \A y \in S : ~(y < x)
  BY <1>1 DEF OpToRel
<1>3. \A y \in S : x <= y
  BY <1>2
<1>4. QED BY <1>3 DEF Min

LEMMA OneMember ==
    ASSUME NEW S, Cardinality(S) = 1
    PROVE  (CHOOSE p \in S : TRUE) \in S
<1>1. S # {}
  BY FS_EmptySet
<1>2. QED BY <1>1

LEMMA KeptRange ==
    ASSUME NEW S, NEW s \in Seq(S), NEW e \in S
    PROVE  /\ Kept(Append(s, e)) \in Seq(S)
           /\ Range(Kept(Append(s, e))) \subseteq Range(s) \cup {e}
<1> DEFINE t == Append(s, e)
<1>1. t \in Seq(S) /\ Len(t) = Len(s) + 1
  OBVIOUS
<1>2. \A i \in 1..Len(t) : t[i] \in Range(s) \cup {e}
  BY DEF Range
<1>3. Tail(t) \in Seq(S) /\ Len(Tail(t)) = Len(t) - 1
  BY <1>1
<1>4. \A i \in 1..Len(Tail(t)) : Tail(t)[i] = t[i + 1]
  BY <1>1
<1>5. \A i \in 1..Len(Tail(t)) : i + 1 \in 1..Len(t)
  BY <1>1, <1>3
<1>6. Range(t) \subseteq Range(s) \cup {e}
  BY <1>1, <1>2 DEF Range
<1>7. Range(Tail(t)) \subseteq Range(s) \cup {e}
  BY <1>2, <1>3, <1>4, <1>5 DEF Range
<1>8. QED BY <1>1, <1>3, <1>6, <1>7 DEF Kept

LEMMA ReplaceOne ==
    ASSUME NEW S, NEW s \in Seq(S), NEW i \in 1..Len(s), NEW e \in S
    PROVE  [s EXCEPT ![i] = e] \in Seq(S) /\ Len([s EXCEPT ![i] = e]) = Len(s)
OBVIOUS

(* What a recorded entry does to a transcript.                              *)
LEMMA RecordAdds ==
    ASSUME TypeOK, NEW p \in Project, NEW e \in Entry, Record(p, e)
    PROVE  /\ transcript' \in [Project -> Seq(Entry)]
           /\ \A q \in Project : Range(transcript'[q]) \subseteq
                 Range(transcript[q]) \cup (IF q = p THEN {e} ELSE {})
<1>1. transcript[p] \in Seq(Entry)
  BY DEF TypeOK
<1>2. /\ Kept(Append(transcript[p], e)) \in Seq(Entry)
      /\ Range(Kept(Append(transcript[p], e))) \subseteq Range(transcript[p]) \cup {e}
  BY <1>1, KeptRange
<1>3. transcript' = [transcript EXCEPT ![p] = Kept(Append(transcript[p], e))]
  BY DEF Record
<1> HIDE DEF Entry
<1>4. QED BY <1>2, <1>3 DEF TypeOK

LEMMA OnlyIsOne == ASSUME TypeOK PROVE OnlyProject \in Maybe
  BY OneMember DEF OnlyProject, Maybe, TypeOK

(* A message is resolved to the project of its context or to a project of   *)
(* the registry.                                                            *)
LEMMA Resolved ==
    ASSUME TypeOK, NEW msg, NEW only \in Maybe
    PROVE  Resolve(msg, only).status = "resolved" =>
              Resolve(msg, only).project \in Project
<1>2. Cardinality(Candidates) = 1 => (CHOOSE p \in Candidates : TRUE) \in Candidates
  BY OneMember
<1>3. Cardinality(Open(Candidates)) = 1 =>
          (CHOOSE p \in Open(Candidates) : TRUE) \in Open(Candidates)
  BY OneMember
<1>4. Candidates \subseteq Project /\ Open(Candidates) \subseteq Candidates
  BY DEF Candidates, Open, TypeOK
<1>5. QED BY <1>2, <1>3, <1>4
  DEF Resolve, Found, Ambiguous, NotApplicable, Maybe

(* What the task handler does with a message: it answers it, starts the     *)
(* pipeline of a project or asks the agent about one.                       *)
LEMMA TaskLeadsOn ==
    ASSUME TypeOK, Task
    PROVE  \/ \E started \in Maybe : bot' = Ended(started)
           \/ \E p \in Project : bot' = [IdleBot EXCEPT !.at = "ask", !.project = p]
<1> DEFINE found == Resolve(bot.msg, bot.only)
           p == found.project
<1>1. bot.only \in Maybe /\ active \in Maybe /\ None \in Maybe
  BY DEF TypeOK, Bot, Maybe
<1>2. found.status = "resolved" => p \in Project
  BY <1>1, Resolved
<1>3. \A q \in Maybe : BaseHandler(q) => \E started \in Maybe : bot' = Ended(started)
  BY <1>1 DEF BaseHandler
<1>4. Project \subseteq Maybe
  BY DEF Maybe
<1> HIDE DEF p, found
<1>5. CASE found.status = "resolved" /\ SingleReply(p)
  BY <1>1, <1>2, <1>3, <1>4, <1>5 DEF SingleReply, Answered, Ask
<1>6. CASE AmbiguousReply
  BY <1>1, <1>6 DEF AmbiguousReply, Answered
<1>7. CASE BaseHandler(None)
  BY <1>1, <1>3, <1>7
<1>8. QED BY <1>5, <1>6, <1>7 DEF Task, p, found

-----------------------------------------------------------------------------
(* The row at the head of the batch: the oldest queued one of its project.  *)
LEMMA FirstIsOldest ==
    ASSUME TypeOK, BatchInv, bot.at \in Delivering
    PROVE  /\ First \in bot.batch /\ First \in Row /\ First \in NoteIds
           /\ notes[First].status = "queued"
           /\ notes[First].project = bot.project /\ bot.project \in Project
           /\ \A i \in QueuedFor(bot.project) : First <= i
<1>1. /\ bot.batch # {} /\ bot.batch \subseteq QueuedFor(bot.project)
      /\ bot.project \in Project
  BY DEF BatchInv
<1>2. QueuedFor(bot.project) \subseteq Row /\ Row \subseteq Nat /\ Row \subseteq NoteIds
  BY ChatAssumption DEF QueuedFor, AllFor, Row, TypeOK, NoteIds, ChatAssumption
<1>3. First \in bot.batch /\ \A i \in bot.batch : First <= i
  BY <1>1, <1>2, MinIsLeast DEF First
<1>4. \A i \in QueuedFor(bot.project) : First <= i
  <2>1. \A i \in QueuedFor(bot.project) \ bot.batch : First < i
    BY <1>3 DEF BatchInv
  <2>2. \A i \in QueuedFor(bot.project) : i \in Nat /\ First \in Nat
    BY <1>1, <1>2, <1>3
  <2>3. QED BY <1>3, <2>1, <2>2
<1>5. notes[First].status = "queued" /\ notes[First].project = bot.project
  BY <1>1, <1>3 DEF QueuedFor, AllFor
<1>6. QED BY <1>1, <1>2, <1>3, <1>4, <1>5

(* An ack is never refused: nothing else delivers this agent's rows or      *)
(* closes the session between a send and its ack.                           *)
LEMMA AckDelivers ==
    ASSUME TypeOK, BatchInv, Ack
    PROVE  /\ notes' = [notes EXCEPT ![First].status = "delivered"]
           /\ Record(bot.project, Tells(First))
           /\ bot' = MoveOn /\ UNCHANGED <<session, seen>> /\ Quiet
<1>1. bot.at = "ack"
  BY DEF Ack
<1>2. Accepts(First) /\ notes[First].project = bot.project
  BY <1>1, FirstIsOldest DEF BatchInv, Accepts, Delivering
<1>3. QED BY <1>2 DEF Ack, Deliver

-----------------------------------------------------------------------------
(* Types.                                                                   *)

LEMMA BotMoves ==
    ASSUME bot \in Bot
    PROVE  /\ IdleBot \in Bot
           /\ \A step \in Step : [bot EXCEPT !.at = step] \in Bot
           /\ \A started \in Maybe : Ended(started) \in Bot
           /\ \A p \in Project : [IdleBot EXCEPT !.at = "ask", !.project = p] \in Bot
BY DEF Bot, IdleBot, Ended, Step, Maybe, Answering

LEMMA NoteDelivered ==
    ASSUME NEW n \in Note
    PROVE  [n EXCEPT !.status = "delivered"] \in Note
BY DEF Note, Status

LEMMA TypeInit == Init => TypeOK
<1> SUFFICES ASSUME Init PROVE TypeOK
  OBVIOUS
<1>1. <<>> \in Seq(Entry) /\ <<>> \in Seq(Note) /\ Len(<<>>) = 0
  OBVIOUS
<1>2. transcript \in [Project -> Seq(Entry)]
  BY <1>1 DEF Init
<1>3. notes \in Seq(Note) /\ Len(notes) <= MaxNotes
  BY <1>1, ChatAssumption DEF Init, ChatAssumption
<1>4. bot \in Bot
  BY DEF Init, IdleBot, Bot, Step, Maybe
<1>5. seen \in [NoteIds -> 0..2]
  BY DEF Init
<1>6. active \in Maybe
  BY OneMember DEF Init, Bootstrap, OnlyProject, Maybe
<1>7. QED BY <1>2, <1>3, <1>4, <1>5, <1>6 DEF Init, TypeOK

LEMMA TypeStep == TypeOK /\ BatchInv /\ [Next]_vars => TypeOK'
<1> SUFFICES ASSUME TypeOK, BatchInv, [Next]_vars PROVE TypeOK'
  OBVIOUS
<1> USE DEF TypeOK, Bot, Quiet, projects, history, Step, Delivering, Answering, Maybe
<1>1. ASSUME NEW p \in Project, Queue(p) PROVE TypeOK'
  <2>1. NewRow(p) \in Note
    BY DEF NewRow, Note, Status
  <2>2. notes' \in Seq(Note) /\ Len(notes') = Len(notes) + 1
    BY <1>1, <2>1 DEF Queue
  <2>3. Len(notes') <= MaxNotes
    BY <1>1, <2>2, ChatAssumption DEF Queue, ChatAssumption
  <2>4. QED BY <1>1, <2>2, <2>3 DEF Queue
<1>2. ASSUME NEW msg \in Message, Receive(msg) PROVE TypeOK'
  <2>1. UNCHANGED <<session, transcript, notes, seen, projects, active, history>>
    BY <1>2 DEF Receive
  <2>2. OnlyProject \in Maybe
    BY OnlyIsOne
  <2>3. [IdleBot EXCEPT !.at = "flush", !.msg = msg, !.only = OnlyProject] \in Bot
    BY <2>2 DEF IdleBot
  <2>4. Ended(None) \in Bot
    BY BotMoves
  <2>5. bot' \in Bot
    BY <1>2, <2>3, <2>4 DEF Receive
  <2>6. QED BY <2>1, <2>5
<1>3. CASE LoadPending
  <2> DEFINE found == Resolve(bot.msg, bot.only)
             p == found.project
  <2>1. UNCHANGED <<session, transcript, notes, seen, projects, active, history>>
    BY <1>3 DEF LoadPending
  <2>2. CASE Go("task")
    BY <2>1, <2>2 DEF Go
  <2>3. CASE /\ found.status = "resolved"
             /\ bot' = [bot EXCEPT !.at = IF NeedsOpening(p) THEN "open" ELSE "send",
                                   !.project = p, !.batch = Pending(p)]
    <3>1. p \in Project
      BY <2>3, Resolved
    <3>2. Pending(p) \subseteq NoteIds
      BY ChatAssumption DEF Pending, QueuedFor, AllFor, NoteIds, ChatAssumption
    <3> HIDE DEF p, found
    <3>3. QED BY <2>1, <2>3, <3>1, <3>2
  <2>4. QED BY <1>3, <2>2, <2>3 DEF LoadPending
<1>4. ASSUME NEW p \in Project, CloseOther(p) PROVE TypeOK'
  BY <1>4 DEF CloseOther, SetSession
<1>5. CASE Activate
  BY <1>5 DEF Activate, SetSession, Go
<1>6. CASE SendNote
  <2>1. First \in NoteIds /\ seen[First] \in 0..2
    BY <1>6, FirstIsOldest DEF SendNote
  <2>2. Twice(seen[First]) \in 0..2
    BY <2>1 DEF Twice
  <2>3. seen' \in [NoteIds -> 0..2]
    BY <1>6, <2>1, <2>2 DEF SendNote
  <2>4. QED BY <1>6, <2>3 DEF SendNote, Go
<1>7. CASE Ack
  <2>1. First \in Row /\ First \in Nat /\ bot.project \in Project
    BY <1>7, FirstIsOldest DEF Ack, NoteIds
  <2>2. /\ notes' = [notes EXCEPT ![First].status = "delivered"]
        /\ Record(bot.project, Tells(First)) /\ bot' = MoveOn
        /\ UNCHANGED <<session, seen>> /\ Quiet
    BY <1>7, AckDelivers
  <2>3. transcript' \in [Project -> Seq(Entry)]
    BY <2>1, <2>2, RecordAdds DEF Tells, Entry
  <2>4. notes' \in Seq(Note) /\ Len(notes') = Len(notes)
    <3>1. [notes[First] EXCEPT !.status = "delivered"] \in Note
      BY <2>1, NoteDelivered DEF Row
    <3>2. notes' = [notes EXCEPT ![First] = [notes[First] EXCEPT !.status = "delivered"]]
      BY <2>2
    <3>3. notes \in Seq(Note) /\ First \in 1..Len(notes)
      BY <2>1 DEF Row
    <3> HIDE DEF Note, TypeOK
    <3>4. QED BY <3>1, <3>2, <3>3, ReplaceOne
  <2>5. bot' \in Bot
    BY <2>2 DEF MoveOn
  <2>6. QED BY <2>2, <2>3, <2>4, <2>5
<1>8. CASE Task
  <2>1. UNCHANGED <<projects, active, session, transcript, notes, seen, history>>
    BY <1>8 DEF Task
  <2>2. bot' \in Bot
    <3> HIDE DEF Bot, Step, Maybe, Delivering, Answering
    <3>1. QED BY <1>8, TaskLeadsOn, BotMoves
  <2>3. QED BY <2>1, <2>2
<1>9. CASE ModelAnswers \/ ModelUnavailable \/ Reply
  <2>1. UNCHANGED <<session, transcript, notes, seen, projects, active, history>>
    BY <1>9 DEF ModelAnswers, ModelUnavailable, Reply
  <2>2. \/ bot' = [bot EXCEPT !.at = "reopen"] \/ bot' = [bot EXCEPT !.at = "reply"]
        \/ bot' = IdleBot
    BY <1>9 DEF ModelAnswers, ModelUnavailable, Reply, Go, Done
  <2>3. bot' \in Bot
    <3>1. "reopen" \in Step /\ "reply" \in Step /\ bot \in Bot
      OBVIOUS
    <3> HIDE DEF Bot, Step, Maybe, Delivering, Answering, TypeOK
    <3>2. /\ [bot EXCEPT !.at = "reopen"] \in Bot /\ [bot EXCEPT !.at = "reply"] \in Bot
          /\ IdleBot \in Bot
      BY <3>1, BotMoves
    <3>3. QED BY <2>2, <3>2
  <2>4. QED BY <2>1, <2>3
<1>10. CASE RecordQuestion \/ RecordAnswer
  <2>1. bot.project \in Project
    BY <1>10 DEF RecordQuestion, RecordAnswer, BatchInv
  <2>2. transcript' \in [Project -> Seq(Entry)]
    BY <1>10, <2>1, RecordAdds DEF RecordQuestion, RecordAnswer, Says, Entry
  <2>3. QED BY <1>10, <2>2 DEF RecordQuestion, RecordAnswer, Go
<1>11. CASE DeliveryFails
  <2>1. First \in NoteIds
    BY <1>11, FirstIsOldest DEF DeliveryFails
  <2>2. QED BY <1>11, <2>1 DEF DeliveryFails, CutShort, Fault, GiveUp, Done, IdleBot
<1>12. CASE HookFails \/ HandlerFails
  <2>1. UNCHANGED <<projects, active, session, transcript, notes, seen, lastTalk, cut>>
    BY <1>12 DEF HookFails, HandlerFails, Fault
  <2>2. faults' = faults + 1
    BY <1>12 DEF HookFails, HandlerFails, Fault
  <2>3. \/ bot' = [bot EXCEPT !.at = "task"] \/ bot' = [bot EXCEPT !.at = "reply"]
    BY <1>12 DEF HookFails, HandlerFails, Go
  <2>4. bot' \in Bot
    <3>1. "task" \in Step /\ "reply" \in Step /\ bot \in Bot
      OBVIOUS
    <3> HIDE DEF Bot, Step, Maybe, Delivering, Answering, TypeOK
    <3>2. /\ [bot EXCEPT !.at = "task"] \in Bot /\ [bot EXCEPT !.at = "reply"] \in Bot
          /\ IdleBot \in Bot
      BY <3>1, BotMoves
    <3>3. QED BY <2>3, <3>2
  <2>5. QED BY <2>1, <2>2, <2>4
<1>13. CASE Crash
  <2>1. bot.at = "ack" => First \in NoteIds
    BY FirstIsOldest
  <2>2. active' \in Maybe
    BY <1>13, OnlyIsOne DEF Crash, Bootstrap
  <2>3. QED BY <1>13, <2>1, <2>2 DEF Crash, CutShort, Fault, Done, IdleBot
<1>14. CASE UNCHANGED vars
  BY <1>14 DEF vars
<1>15. ASSUME NEW p \in Project, Register(p) PROVE TypeOK'
  BY <1>15 DEF Register
<1>16. QED
  BY <1>1, <1>2, <1>3, <1>4, <1>5, <1>6, <1>7, <1>8, <1>9, <1>10, <1>11, <1>12, <1>13,
     <1>14, <1>15 DEF Next, BotActs

-----------------------------------------------------------------------------
(* What a step does to the queue, the sessions and the delivery.            *)

LoadStep ==
    /\ bot.at = "flush"
    /\ UNCHANGED <<notes, seen, session, lastTalk, cut, transcript>>
    /\ \E p \in Project :
          /\ QueuedFor(p) # {}
          /\ bot' = [bot EXCEPT
                       !.at = IF session[p] # "active" THEN "open" ELSE "send",
                       !.project = p, !.batch = QueuedFor(p)]

(* Nothing is delivered any more, or as before.                             *)
QuietStep ==
    /\ UNCHANGED <<notes, seen, session, lastTalk>>
    /\ cut \subseteq cut'
    /\ \/ bot' = bot
       \/ /\ bot'.at \notin Delivering
          /\ bot.at = "ack" => First \in cut'
          /\ bot'.at \in Answering => bot'.project \in Project

LEMMA Steps ==
    ASSUME TypeOK, BatchInv, [Next]_vars
    PROVE  \/ \E p \in Project : Queue(p) \/ CloseOther(p)
           \/ LoadStep \/ Activate \/ SendNote \/ Ack \/ QuietStep
<1> USE DEF Quiet, history, projects, QuietStep, Delivering, Answering
<1>1. ASSUME NEW msg \in Message, Receive(msg) PROVE QuietStep
  BY <1>1 DEF Receive, IdleBot, Ended
<1>2. CASE LoadPending
  <2> DEFINE found == Resolve(bot.msg, bot.only)
             p == found.project
  <2>1. UNCHANGED <<session, transcript, notes, seen, projects, active, history>>
    BY <1>2 DEF LoadPending
  <2>2. CASE Go("task")
    <3>1. bot'.at = "task"
      BY <2>2 DEF Go, TypeOK, Bot
    <3>2. bot.at = "flush"
      BY <1>2 DEF LoadPending
    <3>3. QED BY <2>1, <3>1, <3>2
  <2>3. CASE /\ found.status = "resolved" /\ Pending(p) # {}
             /\ bot' = [bot EXCEPT !.at = IF NeedsOpening(p) THEN "open" ELSE "send",
                                   !.project = p, !.batch = Pending(p)]
    <3>1. p \in Project
      BY <2>3, Resolved DEF TypeOK, Bot
    <3> HIDE DEF p, found
    <3>2. bot.at = "flush"
      BY <1>2 DEF LoadPending
    <3>3. QED BY <2>1, <2>3, <3>1, <3>2 DEF LoadStep, Pending, NeedsOpening
  <2>4. QED BY <1>2, <2>2, <2>3 DEF LoadPending
<1>3. CASE Task
  <2>1. UNCHANGED <<session, transcript, notes, seen, history>> /\ bot.at = "task"
    BY <1>3 DEF Task
  <2>2. bot'.at = "reply" \/ (bot'.at = "ask" /\ bot'.project \in Project)
    BY <1>3, TaskLeadsOn DEF Ended, IdleBot
  <2>3. QED BY <2>1, <2>2
<1>4. CASE ModelAnswers \/ ModelUnavailable \/ RecordQuestion \/ RecordAnswer
  <2>1. UNCHANGED <<session, notes, seen, lastTalk, cut>> /\ bot.at \in Answering
    BY <1>4 DEF ModelAnswers, ModelUnavailable, RecordQuestion, RecordAnswer
  <2>2. \E step \in {"reopen", "reply", "answer"} : bot' = [bot EXCEPT !.at = step]
    BY <1>4 DEF ModelAnswers, ModelUnavailable, RecordQuestion, RecordAnswer, Go
  <2>3. bot'.at \in {"reopen", "reply", "answer"} /\ bot'.project = bot.project
    BY <2>2 DEF TypeOK, Bot
  <2>4. QED BY <2>1, <2>3 DEF BatchInv
<1>5. CASE Reply
  BY <1>5 DEF Reply, Done, IdleBot
<1>6. CASE DeliveryFails \/ Crash
  BY <1>6 DEF DeliveryFails, Crash, GiveUp, Done, IdleBot, CutShort, Fault
<1>7. CASE HookFails \/ HandlerFails
  <2>1. UNCHANGED <<session, notes, seen, lastTalk, cut>> /\ bot.at # "ack"
    BY <1>7 DEF HookFails, HandlerFails, Fault
  <2>2. bot' = [bot EXCEPT !.at = "task"] \/ bot' = [bot EXCEPT !.at = "reply"]
    BY <1>7 DEF HookFails, HandlerFails, Go
  <2>3. bot'.at \in {"task", "reply"}
    BY <2>2 DEF TypeOK, Bot
  <2>4. QED BY <2>1, <2>3
<1>8. CASE UNCHANGED vars
  BY <1>8 DEF vars
<1>9. ASSUME NEW p \in Project, Register(p) PROVE QuietStep
  BY <1>9 DEF Register
<1> HIDE DEF QuietStep
<1>10. QED
  BY <1>1, <1>2, <1>3, <1>4, <1>5, <1>6, <1>7, <1>8, <1>9 DEF Next, BotActs

-----------------------------------------------------------------------------
(* Only the conversation opened last is open.                               *)
LEMMA TalkStep ==
    TypeOK /\ BatchInv /\ TalkInv /\ [Next]_vars => TalkInv'
<1> SUFFICES ASSUME TypeOK, BatchInv, TalkInv, [Next]_vars PROVE TalkInv'
  OBVIOUS
<1>1. ASSUME NEW p \in Project, Queue(p) \/ CloseOther(p) PROVE TalkInv'
  BY <1>1 DEF Queue, CloseOther, SetSession, Quiet, history, TalkInv, TypeOK
<1>2. CASE Activate
  <2>1. \A p \in Project \ {bot.project} : session[p] # "active"
    BY <1>2 DEF Activate, OthersClosed, OtherOpen, Open
  <2>2. QED BY <1>2, <2>1 DEF Activate, SetSession, TalkInv, TypeOK
<1>3. CASE LoadStep \/ SendNote \/ Ack \/ QuietStep
  BY <1>3 DEF LoadStep, SendNote, Ack, QuietStep, Quiet, history, TalkInv
<1>4. QED BY <1>1, <1>2, <1>3, Steps

-----------------------------------------------------------------------------
(* What is loaded stays queued until it is acked, and is the oldest.        *)

LEMMA Rows ==
    ASSUME TypeOK
    PROVE  /\ Row \subseteq NoteIds /\ NoteIds \subseteq Nat /\ Len(notes) \in Nat
           /\ \A i \in Row : notes[i] \in Note
           /\ \A p : QueuedFor(p) = {i \in Row : notes[i].project = p
                                               /\ notes[i].status = "queued"}
BY ChatAssumption DEF TypeOK, Row, NoteIds, QueuedFor, AllFor, ChatAssumption

(* A new row comes after all others.                                        *)
LEMMA NewRowIsLast ==
    ASSUME TypeOK, NEW p \in Project, Queue(p)
    PROVE  /\ Row' = Row \cup {Len(notes) + 1} /\ Len(notes) + 1 \in NoteIds \ Row
           /\ \A i \in Row : notes'[i] = notes[i] /\ i < Len(notes) + 1
           /\ notes'[Len(notes) + 1] = NewRow(p)
<1>1. Len(notes) \in Nat /\ Len(notes) < MaxNotes /\ MaxNotes \in Nat
  BY ChatAssumption DEF Queue, TypeOK, ChatAssumption
<1>2. Len(notes') = Len(notes) + 1 /\ notes'[Len(notes) + 1] = NewRow(p)
      /\ \A i \in 1..Len(notes) : notes'[i] = notes[i]
  BY DEF Queue, TypeOK
<1>3. QED BY <1>1, <1>2 DEF Row, NoteIds

(* An ack changes the row at the head of the batch, and takes it off.       *)
LEMMA AckedRow ==
    ASSUME TypeOK, BatchInv, Ack
    PROVE  /\ Row' = Row /\ UNCHANGED <<session, seen, cut>>
           /\ \A i \in Row : notes'[i].project = notes[i].project
           /\ \A i \in Row \ {First} : notes'[i] = notes[i]
           /\ notes'[First].status = "delivered"
           /\ bot'.batch = bot.batch \ {First} /\ bot'.project = bot.project
           /\ bot'.at = IF bot.batch = {First} THEN "task" ELSE "send"
<1>1. /\ notes' = [notes EXCEPT ![First].status = "delivered"]
      /\ bot' = MoveOn /\ UNCHANGED <<session, seen, cut>>
  BY AckDelivers DEF Quiet, history
<1>2. First \in Row
  BY FirstIsOldest DEF Ack, Delivering
<1>3. \A i \in Row : notes[i] \in Note
  BY Rows
<1>4. /\ \A i \in Row : notes'[i].project = notes[i].project
      /\ \A i \in Row \ {First} : notes'[i] = notes[i]
      /\ notes'[First].status = "delivered"
  BY <1>1, <1>2, <1>3 DEF Row, Note, TypeOK
<1>5. Row' = Row
  BY <1>1 DEF Row, TypeOK
<1>6. QED BY <1>1, <1>4, <1>5 DEF MoveOn, TypeOK, Bot

(* The head of the batch after a send is what it was before.                *)
LEMMA SentRow ==
    ASSUME TypeOK, BatchInv, SendNote
    PROVE  /\ UNCHANGED <<session, notes, cut, Row>> /\ bot.at = "send"
           /\ bot'.at = "ack" /\ bot'.batch = bot.batch
           /\ bot'.project = bot.project /\ First' = First
           /\ \A i \in NoteIds \ {First} : seen'[i] = seen[i]
           /\ seen'[First] > 0 /\ (seen'[First] = 2 => seen[First] > 0)
<1>1. First \in NoteIds
  BY FirstIsOldest DEF SendNote, Delivering
<1>2. bot' = [bot EXCEPT !.at = "ack"]
  BY DEF SendNote, Go
<1>3. bot'.at = "ack" /\ bot'.batch = bot.batch /\ bot'.project = bot.project
  BY <1>2 DEF TypeOK, Bot
<1>4. seen[First] \in 0..2 /\ seen'[First] = Twice(seen[First])
  BY <1>1 DEF SendNote, TypeOK
<1>5. seen'[First] > 0 /\ (seen'[First] = 2 => seen[First] > 0)
  BY <1>4 DEF Twice
<1>6. QED BY <1>1, <1>3, <1>5 DEF SendNote, Quiet, history, Row, First, TypeOK

LEMMA BatchStep == TypeOK /\ BatchInv /\ [Next]_vars => BatchInv'
<1> SUFFICES ASSUME TypeOK, BatchInv, [Next]_vars PROVE BatchInv'
  OBVIOUS
<1> DEFINE Q(p) == {i \in Row : notes[i].project = p /\ notes[i].status = "queued"}
<1>q. QueuedFor(bot.project) = Q(bot.project) /\ QueuedFor(bot.project)' = Q(bot.project)'
  BY DEF QueuedFor, AllFor, Row
<1> USE DEF Delivering, Answering
<1>1. ASSUME NEW p \in Project, Queue(p) PROVE BatchInv'
  <2>1. UNCHANGED <<bot, session>>
    BY <1>1 DEF Queue
  <2>2. Q(bot.project) \subseteq Q(bot.project)'
        /\ Q(bot.project)' \subseteq Q(bot.project) \cup {Len(notes) + 1}
    BY <1>1, <2>1, NewRowIsLast
  <2>3. \A i \in Q(bot.project) : i < Len(notes) + 1
    BY <1>1, NewRowIsLast
  <2>4. QED BY <1>q, <2>1, <2>2, <2>3 DEF BatchInv
<1>2. ASSUME NEW p \in Project, CloseOther(p) PROVE BatchInv'
  <2>1. UNCHANGED <<bot, notes>> /\ bot.at \in {"open", "reopen"}
    BY <1>2 DEF CloseOther
  <2>2. QED BY <1>q, <2>1 DEF BatchInv, Row
<1>3. CASE LoadStep
  <2> PICK p \in Project :
        /\ QueuedFor(p) # {}
        /\ bot' = [bot EXCEPT
                     !.at = IF session[p] # "active" THEN "open" ELSE "send",
                     !.project = p, !.batch = QueuedFor(p)]
    BY <1>3 DEF LoadStep
  <2>1. bot'.project = p /\ bot'.batch = Q(p) /\ Q(p) # {}
        /\ bot'.at = IF session[p] # "active" THEN "open" ELSE "send"
    BY Rows DEF TypeOK, Bot
  <2>2. UNCHANGED <<notes, session>>
    BY <1>3 DEF LoadStep
  <2>3. Q(bot.project)' = Q(p)
    BY <2>1, <2>2 DEF Row
  <2>4. QED BY <1>q, <2>1, <2>2, <2>3 DEF BatchInv
<1>4. CASE Activate
  <2>1. bot' = [bot EXCEPT !.at = IF bot.at = "open" THEN "send" ELSE "question"]
        /\ bot.at \in {"open", "reopen"} /\ UNCHANGED notes
        /\ session' = [session EXCEPT ![bot.project] = "active"]
    BY <1>4 DEF Activate, Go, SetSession
  <2>2. bot'.project = bot.project /\ bot'.batch = bot.batch
        /\ bot'.at = IF bot.at = "open" THEN "send" ELSE "question"
    BY <2>1 DEF TypeOK, Bot
  <2>3. session'[bot.project] = "active"
    BY <2>1 DEF BatchInv, TypeOK
  <2>4. QED BY <1>q, <2>1, <2>2, <2>3 DEF BatchInv, Row
<1>5. CASE SendNote
  BY <1>5, <1>q, SentRow DEF BatchInv
<1>6. CASE Ack
  <2>1. Q(bot.project)' = Q(bot.project) \ {First}
    BY <1>6, AckedRow
  <2>2. bot.at = "ack" /\ bot.batch # {} /\ bot.batch \subseteq Q(bot.project)
    BY <1>6, <1>q DEF Ack, BatchInv
  <2>3. bot'.at = "send" => bot'.batch # {}
    BY <1>6, <2>2, AckedRow
  <2>4. QED BY <1>6, <1>q, <2>1, <2>2, <2>3, AckedRow DEF BatchInv
<1>7. CASE QuietStep
  BY <1>7, <1>q DEF QuietStep, BatchInv, Row
<1>8. QED BY <1>1, <1>2, <1>3, <1>4, <1>5, <1>6, <1>7, Steps

-----------------------------------------------------------------------------
(* The owner was sent what is delivered.                                    *)
LEMMA SentStep ==
    TypeOK /\ BatchInv /\ SentInv /\ [Next]_vars => SentInv'
<1> SUFFICES ASSUME TypeOK, BatchInv, SentInv, [Next]_vars PROVE SentInv'
  OBVIOUS
<1>1. ASSUME NEW p \in Project, Queue(p) PROVE SentInv'
  <2>1. UNCHANGED <<bot, seen, First>>
    BY <1>1 DEF Queue, First
  <2>2. \A i \in NoteIds \ Row' : seen[i] = 0
    BY <1>1, NewRowIsLast DEF SentInv
  <2>3. \A i \in Row' : notes'[i].status = "delivered" => seen[i] > 0
    <3>1. notes'[Len(notes) + 1] = NewRow(p)
      BY <1>1, NewRowIsLast
    <3>2. notes'[Len(notes) + 1].status = "queued"
      BY <3>1 DEF NewRow
    <3>3. QED BY <1>1, <3>2, NewRowIsLast DEF SentInv
  <2>4. QED BY <2>1, <2>2, <2>3 DEF SentInv
<1>2. ASSUME NEW p \in Project, CloseOther(p) PROVE SentInv'
  BY <1>2 DEF CloseOther, SentInv, Row
<1>3. CASE LoadStep
  <2>1. UNCHANGED <<notes, seen>> /\ bot'.at # "ack"
    BY <1>3 DEF LoadStep, TypeOK, Bot
  <2>2. QED BY <2>1 DEF SentInv, Row
<1>4. CASE Activate
  <2>1. UNCHANGED <<notes, seen>> /\ bot'.at # "ack"
    BY <1>4 DEF Activate, Go, TypeOK, Bot
  <2>2. QED BY <2>1 DEF SentInv, Row
<1>5. CASE SendNote
  <2>1. seen'[First] > 0 /\ First \in Row
    BY <1>5, SentRow, FirstIsOldest DEF Delivering
  <2>2. QED BY <1>5, <2>1, SentRow, Rows DEF SentInv
<1>6. CASE Ack
  <2>1. First \in Row /\ seen[First] > 0 /\ bot'.at # "ack"
    BY <1>6, AckedRow, FirstIsOldest DEF Ack, SentInv, Delivering
  <2>2. QED BY <1>6, <2>1, AckedRow DEF SentInv
<1>7. CASE QuietStep
  BY <1>7 DEF QuietStep, SentInv, Row, Delivering, First
<1>8. QED BY <1>1, <1>2, <1>3, <1>4, <1>5, <1>6, <1>7, Steps

(* Earlier rows of the project at hand are delivered.                       *)
LEMMA EarlierAreDelivered ==
    ASSUME TypeOK, BatchInv, bot.at \in Delivering, NEW i \in Row, i < First,
           notes[i].project = bot.project
    PROVE  notes[i].status = "delivered"
<1>1. i \notin QueuedFor(bot.project)
  BY FirstIsOldest, Rows
<1>2. notes[i] \in Note
  BY Rows
<1>3. QED BY <1>1, <1>2, Rows DEF Note, Status

LEMMA OrderStep ==
    TypeOK /\ BatchInv /\ SentInv /\ OrderInv /\ [Next]_vars => OrderInv'
<1> SUFFICES ASSUME TypeOK, BatchInv, SentInv, OrderInv, [Next]_vars PROVE OrderInv'
  OBVIOUS
<1>1. ASSUME NEW p \in Project, Queue(p) PROVE OrderInv'
  <2>1. UNCHANGED seen /\ Len(notes) + 1 \in NoteIds \ Row /\ Row \subseteq Nat
    BY <1>1, NewRowIsLast, Rows DEF Queue
  <2>2. seen[Len(notes) + 1] = 0
    BY <2>1 DEF SentInv
  <2>3. \A i \in Row : ~(Len(notes) + 1 < i)
    BY <1>1, NewRowIsLast, Rows
  <2>4. /\ Row' = Row \cup {Len(notes) + 1} /\ \A i \in Row : notes'[i] = notes[i]
        /\ notes'[Len(notes) + 1] = NewRow(p)
    BY <1>1, NewRowIsLast
  <2>5. ASSUME NEW i \in Row', NEW j \in Row', i < j, notes'[i].project = notes'[j].project
        PROVE  /\ seen[j] > 0 => seen[i] > 0
               /\ notes'[j].status = "delivered" => notes'[i].status = "delivered"
    <3>1. CASE j = Len(notes) + 1
      BY <3>1, <2>2, <2>4 DEF NewRow
    <3>2. CASE i \in Row /\ j \in Row
      BY <2>4, <2>5, <3>2 DEF OrderInv
    <3>3. QED BY <2>3, <2>4, <2>5, <3>1, <3>2
  <2>6. QED BY <2>1, <2>5 DEF OrderInv
<1>2. CASE UNCHANGED <<notes, seen>>
  BY <1>2 DEF OrderInv, Row
<1>3. CASE SendNote
  <2>1. First \in Row /\ \A i \in Row : i < First /\ notes[i].project = notes[First].project
                           => seen[i] > 0
    BY <1>3, FirstIsOldest, EarlierAreDelivered DEF SendNote, SentInv, Delivering
  <2>2. Row \subseteq NoteIds /\ seen'[First] > 0
    BY <1>3, Rows, SentRow
  <2>3. QED BY <1>3, <2>1, <2>2, SentRow DEF OrderInv
<1>4. CASE Ack
  <2>1. First \in Row /\ \A i \in Row : i < First /\ notes[i].project = notes[First].project
                           => notes[i].status = "delivered"
    BY <1>4, FirstIsOldest, EarlierAreDelivered DEF Ack, Delivering
  <2>2. QED BY <1>4, <2>1, AckedRow DEF OrderInv
<1>5. CASE LoadStep \/ Activate \/ QuietStep
  BY <1>5, <1>2 DEF LoadStep, Activate, QuietStep
<1>6. ASSUME NEW p \in Project, CloseOther(p) PROVE OrderInv'
  BY <1>6, <1>2 DEF CloseOther
<1>7. QED BY <1>1, <1>3, <1>4, <1>5, <1>6, Steps

(* A row sent and not delivered is being acked, or its delivery was cut.    *)
LEMMA CutStep ==
    TypeOK /\ BatchInv /\ SentInv /\ CutInv /\ [Next]_vars => CutInv'
<1> SUFFICES ASSUME TypeOK, BatchInv, SentInv, CutInv, [Next]_vars PROVE CutInv'
  OBVIOUS
<1> USE DEF CutInv, RepeatedOnlyAfterFault
<1>1. ASSUME NEW p \in Project, Queue(p) PROVE CutInv'
  <2>1. UNCHANGED <<bot, seen, cut, First>>
    BY <1>1 DEF Queue, First, history
  <2>2. seen[Len(notes) + 1] = 0
    BY <1>1, NewRowIsLast DEF SentInv
  <2>3. QED BY <1>1, <2>1, <2>2, NewRowIsLast
<1>2. ASSUME NEW p \in Project, CloseOther(p) PROVE CutInv'
  BY <1>2 DEF CloseOther, Quiet, history, Row, First
<1>3. CASE LoadStep \/ Activate
  <2>1. UNCHANGED <<notes, seen, cut>> /\ bot.at # "ack"
    BY <1>3 DEF LoadStep, Activate
  <2>2. QED BY <2>1 DEF Row
<1>4. CASE SendNote
  <2>1. First \in Row
    BY <1>4, FirstIsOldest DEF SendNote, Delivering
  <2>2. seen'[First] = 2 => First \in cut
    BY <1>4, <2>1, SentRow, FirstIsOldest DEF SendNote, Delivering
  <2>3. \A i \in Row \ {First} : notes[i].status = "queued" /\ seen[i] > 0 => i \in cut
    BY <1>4 DEF SendNote
  <2>4. QED BY <1>4, <2>1, <2>2, <2>3, SentRow, Rows
<1>5. CASE Ack
  <2>1. \A i \in Row \ {First} : notes[i].status = "queued" /\ seen[i] > 0 => i \in cut
    OBVIOUS
  <2>2. QED BY <1>5, <2>1, AckedRow
<1>6. CASE QuietStep
  BY <1>6 DEF QuietStep, Row, First
<1>7. QED BY <1>1, <1>2, <1>3, <1>4, <1>5, <1>6, Steps

-----------------------------------------------------------------------------
(* The transcript tells of delivered rows of its project alone.             *)

LEMMA QuestionsAreNoNotes ==
    \A i : Tells(i) # Says("question") /\ Tells(i) # Says("answer")
BY DEF Tells, Says

LEMMA RowsStayDelivered ==
    ASSUME TypeOK, BatchInv, [Next]_vars
    PROVE  \A i \in Row :
              /\ i \in Row' /\ notes'[i].project = notes[i].project
              /\ notes[i].status = "delivered" => notes'[i].status = "delivered"
<1>1. ASSUME NEW p \in Project, Queue(p)
      PROVE  \A i \in Row : i \in Row' /\ notes'[i] = notes[i]
  BY <1>1, NewRowIsLast
<1>2. CASE UNCHANGED notes
  BY <1>2 DEF Row
<1>3. CASE Ack
  BY <1>3, AckedRow
<1>4. CASE LoadStep \/ Activate \/ SendNote \/ QuietStep
  BY <1>2, <1>4 DEF LoadStep, Activate, SendNote, QuietStep
<1>5. ASSUME NEW p \in Project, CloseOther(p) PROVE UNCHANGED notes
  BY <1>5 DEF CloseOther
<1>6. QED BY <1>1, <1>2, <1>3, <1>4, <1>5, Steps

LEMMA TranscriptStep ==
    TypeOK /\ BatchInv /\ TranscriptInv /\ [Next]_vars => TranscriptInv'
<1> SUFFICES ASSUME TypeOK, BatchInv, TranscriptInv, [Next]_vars,
                    NEW q \in Project, NEW i \in NoteIds,
                    Tells(i) \in Range(transcript'[q])
             PROVE  /\ i \in Row' /\ notes'[i].project = q
                    /\ notes'[i].status = "delivered"
  BY DEF TranscriptInv
<1>1. CASE Tells(i) \in Range(transcript[q])
  <2>1. i \in Row /\ notes[i].project = q /\ notes[i].status = "delivered"
    BY <1>1 DEF TranscriptInv
  <2>2. /\ i \in Row' /\ notes'[i].project = notes[i].project
        /\ notes[i].status = "delivered" => notes'[i].status = "delivered"
    BY <2>1, RowsStayDelivered, Zenon
  <2>3. QED BY <2>1, <2>2
<1>2. CASE UNCHANGED transcript
  BY <1>1, <1>2
<1>3. CASE Ack
  <2>1. First \in Row /\ First \in Nat /\ bot.project \in Project
        /\ notes[First].project = bot.project
    BY <1>3, FirstIsOldest, Rows DEF Ack, Delivering
  <2>2. Record(bot.project, Tells(First)) /\ Tells(First) \in Entry
    BY <1>3, <2>1, AckDelivers DEF Tells, Entry
  <2>3. Range(transcript'[q]) \subseteq
           Range(transcript[q]) \cup (IF q = bot.project THEN {Tells(First)} ELSE {})
    BY <2>1, <2>2, RecordAdds
  <2>4. CASE q = bot.project /\ Tells(i) = Tells(First)
    <3>1. i = First
      BY <2>4 DEF Tells
    <3>2. QED BY <1>3, <2>1, <2>4, <3>1, AckedRow
  <2>5. QED BY <1>1, <2>3, <2>4
<1>4. CASE RecordQuestion \/ RecordAnswer
  <2>1. bot.project \in Project
    BY <1>4 DEF RecordQuestion, RecordAnswer, BatchInv, Answering
  <2>2. PICK e \in {Says("question"), Says("answer")} : Record(bot.project, e)
    BY <1>4 DEF RecordQuestion, RecordAnswer
  <2>3. e \in Entry
    BY DEF Says, Entry
  <2>4. Range(transcript'[q]) \subseteq Range(transcript[q]) \cup {e}
    BY <2>1, <2>2, <2>3, RecordAdds
  <2>5. QED BY <1>1, <2>4, QuestionsAreNoNotes
<1>5. ASSUME NEW p \in Project, Queue(p) \/ Register(p) \/ CloseOther(p)
      PROVE  UNCHANGED transcript
  BY <1>5 DEF Queue, Register, CloseOther
<1>6. ASSUME NEW msg \in Message, Receive(msg) PROVE UNCHANGED transcript
  BY <1>6 DEF Receive
<1>7. CASE LoadPending \/ Activate \/ SendNote \/ Task \/ ModelAnswers
           \/ ModelUnavailable \/ Reply
  BY <1>2, <1>7
  DEF LoadPending, Activate, SendNote, Task, ModelAnswers, ModelUnavailable, Reply
<1>8. CASE DeliveryFails \/ HookFails \/ HandlerFails \/ Crash \/ UNCHANGED vars
  BY <1>2, <1>8 DEF DeliveryFails, HookFails, HandlerFails, Crash, Fault, vars
<1>9. QED
  BY <1>2, <1>3, <1>4, <1>5, <1>6, <1>7, <1>8 DEF Next, BotActs

-----------------------------------------------------------------------------
(* The theorems.                                                            *)

LEMMA InvInit == Init => TalkInv /\ QueueInv /\ TranscriptInv
<1> SUFFICES ASSUME Init PROVE TalkInv /\ QueueInv /\ TranscriptInv
  OBVIOUS
<1>1. TalkInv
  BY DEF Init, TalkInv
<1>2. bot.at = "idle" /\ Row = {}
  BY DEF Init, IdleBot, Row
<1>3. QueueInv
  BY <1>2 DEF Init, QueueInv, BatchInv, SentInv, OrderInv, CutInv,
     RepeatedOnlyAfterFault, Delivering, Answering
<1>4. \A p \in Project : Range(transcript[p]) = {}
  BY DEF Init, Range
<1>5. QED BY <1>1, <1>3, <1>4 DEF TranscriptInv, Init

Inv == TypeOK /\ TalkInv /\ QueueInv /\ TranscriptInv

(* Every run of the chat keeps the invariant.                               *)
THEOREM InvHolds == Spec => []Inv
<1>1. Init => Inv
  BY InvInit, TypeInit DEF Inv
<1>2. Inv /\ [Next]_vars => Inv'
  BY TypeStep, TalkStep, BatchStep, SentStep, OrderStep, CutStep, TranscriptStep
  DEF Inv, QueueInv
<1>3. QED BY <1>1, <1>2, PTL DEF Spec

(* The variables of the chat keep their types.                              *)
THEOREM TypeCorrect == Spec => []TypeOK
BY InvHolds, PTL DEF Inv

(* At most one conversation with the agent is open, wherever the closing of *)
(* the others or the opening of a new one is cut short.                     *)
THEOREM OneConversationOpenHolds == Spec => []OneConversationOpen
<1>1. Inv => OneConversationOpen
  <2> SUFFICES ASSUME Inv PROVE OneConversationOpen
    OBVIOUS
  <2>1. Open(Project) \subseteq {lastTalk}
    BY DEF Inv, TalkInv, Open
  <2>2. IsFiniteSet({lastTalk}) /\ Cardinality({lastTalk}) = 1
    BY FS_Singleton
  <2>3. Cardinality(Open(Project)) <= Cardinality({lastTalk})
    BY <2>1, <2>2, FS_Subset
  <2>4. QED BY <2>2, <2>3 DEF OneConversationOpen
<1>2. QED BY <1>1, InvHolds, PTL

(* Notifications of a project reach the owner in the order they were        *)
(* queued, and the transcript tells of those that did.                      *)
THEOREM NotesReachOwnerInOrderHolds == Spec => []NotesReachOwnerInOrder
<1>1. Inv => NotesReachOwnerInOrder
  BY Rows DEF Inv, QueueInv, SentInv, OrderInv, TranscriptInv, NotesReachOwnerInOrder
<1>2. QED BY <1>1, InvHolds, PTL

(* A notification is sent again only where a fault fell between its send    *)
(* and its ack.                                                             *)
THEOREM RepeatedOnlyAfterFaultHolds == Spec => []RepeatedOnlyAfterFault
BY InvHolds, PTL DEF Inv, QueueInv, CutInv

(* A message to an agent in private starts a pipeline only in another       *)
(* owner's project or where no project is open to private chats, whatever   *)
(* is registered meanwhile.                                                 *)
THEOREM TalkStartsNoPipelineHolds == Spec => TalkStartsNoPipeline
<1> DEFINE Starts == bot'.started \notin {None, bot.started}
                     => \/ bot'.started \notin mine
                        \/ Candidates = {} /\ bot.only = None
<1>1. Inv /\ [Next]_vars => [Starts]_vars
  <2> SUFFICES ASSUME Inv, Next, bot'.started \notin {None, bot.started}
               PROVE  \/ bot'.started \notin mine
                      \/ Candidates = {} /\ bot.only = None
    OBVIOUS
  <2> USE DEF Inv, TypeOK, Bot
  <2>1. CASE Task
    <3> DEFINE found == Resolve(bot.msg, bot.only)
               p == found.project
    <3>1. \A x : Ended(x).started = x
      BY DEF Ended, IdleBot
    <3>2. CASE found.status = "resolved" /\ SingleReply(p)
      <4> HIDE DEF p, found
      <4>1. p \notin mine /\ BaseHandler(p)
        BY <3>1, <3>2 DEF SingleReply, Answered, Ask, IdleBot
      <4>2. p \in Project
        BY <3>2, Resolved DEF p, found
      <4>3. p # None
        BY <4>2, ChatAssumption DEF ChatAssumption
      <4>4. bot' = Ended(None) \/ bot' = Ended(p)
        BY <4>1, <4>3 DEF BaseHandler
      <4>5. QED BY <3>1, <4>1, <4>4
    <3>3. CASE AmbiguousReply
      BY <3>1, <3>3 DEF AmbiguousReply, Answered
    <3>4. CASE found.status = "not_applicable"
      BY <3>4 DEF Resolve, Found, Ambiguous, NotApplicable
    <3>5. QED BY <2>1, <3>2, <3>3, <3>4 DEF Task
  <2>2. ASSUME NEW p \in Project, Queue(p) \/ Register(p) \/ CloseOther(p) PROVE FALSE
    BY <2>2 DEF Queue, Register, CloseOther
  <2>3. ASSUME NEW msg \in Message, Receive(msg) PROVE FALSE
    BY <2>3 DEF Receive, Ended, IdleBot
  <2>4. CASE LoadPending
    BY <2>4 DEF LoadPending, Go
  <2>5. CASE \/ Activate \/ SendNote \/ ModelAnswers \/ ModelUnavailable
             \/ RecordQuestion \/ RecordAnswer \/ Reply
    BY <2>5
    DEF Activate, SendNote, ModelAnswers, ModelUnavailable, RecordQuestion,
        RecordAnswer, Reply, Go, Done, IdleBot
  <2>6. CASE Ack
    <3>1. bot' = MoveOn
      BY <2>6, AckDelivers DEF QueueInv
    <3>2. QED BY <3>1 DEF MoveOn
  <2>7. CASE DeliveryFails \/ HookFails \/ HandlerFails \/ Crash
    BY <2>7 DEF DeliveryFails, HookFails, HandlerFails, Crash, Go, GiveUp, Done, IdleBot
  <2>8. QED BY <2>1, <2>2, <2>3, <2>4, <2>5, <2>6, <2>7 DEF Next, BotActs
<1>2. QED BY <1>1, InvHolds, PTL DEF Spec, TalkStartsNoPipeline

(* With several projects to choose from, plain text goes on in the          *)
(* conversation opened last, or nowhere.                                    *)
LEMMA PlainTextResolved ==
    ASSUME TypeOK, TalkInv, Cardinality(Candidates) > 1,
           Resolve("plain", None).status = "resolved"
    PROVE  Resolve("plain", None).project = lastTalk
<1>1. IsFiniteSet(registered)
  BY ChatAssumption, FS_Subset DEF TypeOK, ChatAssumption
<1>2. Candidates \subseteq registered
  BY DEF Candidates
<1>3. Cardinality(Candidates) \in Nat
  BY <1>1, <1>2, FS_Subset, FS_CardinalityType
<1>4. Cardinality(Candidates) # 1 /\ Candidates # {}
  BY <1>3, FS_EmptySet
<1>5. "plain" \notin Project
  BY ChatAssumption DEF ChatAssumption
<1>6. /\ Cardinality(Open(Candidates)) = 1
      /\ Resolve("plain", None).project = CHOOSE p \in Open(Candidates) : TRUE
  BY <1>4, <1>5 DEF Resolve, Found, Ambiguous, NotApplicable
<1>7. (CHOOSE p \in Open(Candidates) : TRUE) \in Open(Candidates)
  BY <1>6, OneMember
<1>8. QED BY <1>2, <1>6, <1>7 DEF Open, TalkInv, TypeOK

THEOREM PlainTextStaysInTalkHolds == Spec => PlainTextStaysInTalk
<1> DEFINE Stays == (bot.msg = "plain" /\ bot.only = None /\ Cardinality(Candidates) > 1
                       /\ bot'.project \notin {None, bot.project})
                      => bot'.project = lastTalk
<1>1. Inv /\ [Next]_vars => [Stays]_vars
  <2> SUFFICES ASSUME Inv, Next, bot.msg = "plain", bot.only = None,
                      Cardinality(Candidates) > 1,
                      bot'.project \notin {None, bot.project}
               PROVE  bot'.project = lastTalk
    OBVIOUS
  <2> USE DEF Inv, TypeOK, Bot
  <2>1. CASE LoadPending
    <3>1. /\ Resolve(bot.msg, bot.only).status = "resolved"
          /\ bot'.project = Resolve(bot.msg, bot.only).project
      BY <2>1 DEF LoadPending, Go
    <3>2. QED BY <3>1, PlainTextResolved
  <2>2. CASE Task
    <3> DEFINE found == Resolve(bot.msg, bot.only)
               p == found.project
    <3>1. \A x : Ended(x).project = None
      BY DEF Ended, IdleBot
    <3>2. \A x : ~BaseHandler(x) /\ ~Answered
      BY <3>1 DEF BaseHandler, Answered
    <3>3. found.status = "resolved" /\ SingleReply(p)
      BY <2>2, <3>2 DEF Task, AmbiguousReply
    <3> HIDE DEF p, found
    <3>4. Ask(p)
      BY <3>2, <3>3 DEF SingleReply
    <3>5. bot'.project = p
      BY <3>4 DEF Ask, IdleBot
    <3>6. QED BY <3>3, <3>5, PlainTextResolved DEF p, found
  <2>3. CASE bot'.project \in {None, bot.project}
    BY <2>3
  <2>4. ASSUME NEW p \in Project, Queue(p) \/ Register(p) \/ CloseOther(p) PROVE FALSE
    BY <2>4 DEF Queue, Register, CloseOther
  <2>5. ASSUME NEW msg \in Message, Receive(msg) PROVE FALSE
    BY <2>5 DEF Receive, Ended, IdleBot
  <2>6. CASE \/ Activate \/ SendNote \/ ModelAnswers \/ ModelUnavailable
             \/ RecordQuestion \/ RecordAnswer \/ Reply
    BY <2>6
    DEF Activate, SendNote, ModelAnswers, ModelUnavailable, RecordQuestion,
        RecordAnswer, Reply, Go, Done, IdleBot
  <2>7. CASE Ack
    BY <2>7, AckedRow DEF QueueInv
  <2>8. CASE DeliveryFails \/ HookFails \/ HandlerFails \/ Crash
    BY <2>8 DEF DeliveryFails, HookFails, HandlerFails, Crash, Go, GiveUp, Done, IdleBot
  <2>9. QED BY <2>1, <2>2, <2>4, <2>5, <2>6, <2>7, <2>8 DEF Next, BotActs
<1>2. QED BY <1>1, InvHolds, PTL DEF Spec, PlainTextStaysInTalk
=============================================================================
