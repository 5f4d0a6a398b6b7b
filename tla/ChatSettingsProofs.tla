------------------------- MODULE ChatSettingsProofs -------------------------
(***************************************************************************)
(* What is saved of a chat's choices, for every number of chats, bots,      *)
(* releases, failures and starts.                                           *)
(***************************************************************************)
EXTENDS ChatSettings, TLAPS

USE DEF NoFault, Fault

-----------------------------------------------------------------------------
(* Type correctness.                                                       *)

\* Whatever is loaded is a tier or nothing.
LEMMA KnownIsTyped ==
    ASSUME NEW rows \in [Chats -> Tiers \cup {None}], NEW known \in Releases
    PROVE  Known(rows, known) \in [Chats -> Tiers \cup {None}]
  BY DEF Known

\* /tier keeps the types, whichever choice it is given.
LEMMA SaveTyped ==
    ASSUME TypeOK, NEW c \in Chats, NEW choice \in Tiers \cup {None}, Save(c, choice)
    PROVE  /\ tier' \in [Chats -> Tiers \cup {None}]
           /\ tierRow' \in [Chats -> Tiers \cup {None}]
           /\ tierFile' \in [Chats -> Tiers \cup {None}]
           /\ unsaved' \in SUBSET Chats
           /\ unread' \in BOOLEAN
           /\ faults' \in 0..MaxFaults
<1>1. unread' \in BOOLEAN
  BY Zenon DEF TypeOK, Save
<1>2. faults' \in 0..MaxFaults
  BY SettingsAssumption DEF TypeOK, Save
<1> QED
  BY <1>1, <1>2 DEF TypeOK, Save

\* At first nothing is chosen, in memory or on disk.
LEMMA InitTyped == Init => TypeOK
<1> SUFFICES ASSUME Init PROVE TypeOK
  OBVIOUS
<1>1. /\ tier \in [Chats -> Tiers \cup {None}]
      /\ tierRow \in [Chats -> Tiers \cup {None}]
      /\ tierFile \in [Chats -> Tiers \cup {None}]
  BY DEF Init, NoTiers
<1>2. call \in [Bots -> [at : {"idle", "read", "fill", "write"},
                         usd : Amounts \cup {None}]]
  BY DEF Init, Idle
<1>3. unread \in BOOLEAN /\ leftover \in BOOLEAN /\ raced \in BOOLEAN
  BY Zenon DEF Init
<1> QED
  BY <1>1, <1>2, <1>3, SettingsAssumption DEF Init, TypeOK

\* The variables always have their types.
THEOREM Typed == Spec => []TypeOK
<1>1. Init => TypeOK
  BY InitTyped
<1>2. TypeOK /\ [Next]_vars => TypeOK'
  <2> SUFFICES ASSUME TypeOK, [Next]_vars PROVE TypeOK'
    OBVIOUS
  <2>1. CASE \E release \in Releases : StartWithFile(release)
    <3> PICK release \in Releases : StartWithFile(release)
      BY <2>1
    <3>1. unread' \in BOOLEAN
      BY Zenon DEF StartWithFile
    <3>2. tier' \in [Chats -> Tiers \cup {None}]
      BY KnownIsTyped DEF StartWithFile, TypeOK, NoTiers
    <3>3. faults' \in 0..MaxFaults
      BY SettingsAssumption DEF StartWithFile, TypeOK
    <3> QED
      BY <3>1, <3>2, <3>3 DEF StartWithFile, TypeOK, budgetVars
  <2>2. CASE \E release \in Releases : StartWithDb(release)
    <3> PICK release \in Releases : StartWithDb(release)
      BY <2>2
    <3>0. leftover' \in BOOLEAN
      BY Zenon DEF StartWithDb, TypeOK
    <3>1. leftover' \in BOOLEAN /\ faults' \in 0..MaxFaults
      BY <3>0, SettingsAssumption DEF StartWithDb, TypeOK
    <3>2. tier' \in [Chats -> Tiers \cup {None}]
      BY KnownIsTyped DEF StartWithDb, TypeOK
    <3> QED
      BY <3>1, <3>2 DEF StartWithDb, TypeOK, budgetVars
  <2>3. CASE ImportRow
    BY <2>3, SettingsAssumption DEF ImportRow, ToImport, TypeOK, budgetVars, runVars
  <2>4. CASE ImportFails
    BY <2>4, SettingsAssumption DEF ImportFails, TypeOK, budgetVars, tierVars
  <2>5. CASE FinishMigration
    <3>1. leftover' \in BOOLEAN
      BY <2>5 DEF FinishMigration, TypeOK
    <3>2. tierFile' \in [Chats -> Tiers \cup {None}] /\ faults' \in 0..MaxFaults
      BY <2>5, SettingsAssumption DEF FinishMigration, TypeOK, NoTiers
    <3>3. tier' \in [Chats -> Tiers \cup {None}]
      BY <2>5, KnownIsTyped DEF FinishMigration, TypeOK
    <3> QED
      BY <2>5, <3>1, <3>2, <3>3 DEF FinishMigration, TypeOK, budgetVars
  <2>6. CASE Crash
    BY <2>6, SettingsAssumption DEF Crash, TypeOK, Idle, NoTiers
  <2>7. CASE \E c \in Chats : Tier(c)
    <3> PICK c \in Chats : Tier(c)
      BY <2>7
    <3>1. CASE Reset(c)
      BY <3>1, SaveTyped DEF Reset, Save, TypeOK, budgetVars, runVars
    <3>2. CASE \E t \in Tiers : SetActive(c, t)
      BY <3>2, SaveTyped DEF SetActive, Save, TypeOK, budgetVars, runVars
    <3> QED
      BY <3>1, <3>2 DEF Tier
  <2>8. CASE Budget
    <3> PICK b \in Bots :
          \/ /\ \/ ShowBudget(b) \/ ReadBudget(b) \/ FillBudget(b)
                \/ \E usd \in Amounts : SetBudget(b, usd)
             /\ NoFault
          \/ WriteBudget(b)
      BY <2>8 DEF Budget
    <3>0. UNCHANGED <<tierVars, runVars>>
      BY <2>8 DEF Budget
    <3>1. /\ budget' \in Amounts \cup {None} /\ budgetRow' \in Amounts \cup {None}
          /\ faults' \in 0..MaxFaults
      BY SettingsAssumption DEF ShowBudget, ReadBudget, FillBudget, SetBudget,
         WriteBudget, TypeOK
    <3>3. raced' \in BOOLEAN
      BY DEF ShowBudget, ReadBudget, FillBudget, SetBudget, WriteBudget, TypeOK
    <3>2. call' \in [Bots -> [at : {"idle", "read", "fill", "write"},
                              usd : Amounts \cup {None}]]
      BY DEF ShowBudget, ReadBudget, FillBudget, SetBudget, WriteBudget, TypeOK, Idle
    <3> QED
      BY <3>0, <3>1, <3>2, <3>3 DEF TypeOK, tierVars, runVars
  <2>9. CASE UNCHANGED vars
    BY <2>9 DEF TypeOK, vars, tierVars, budgetVars, runVars
  <2> QED
    BY <2>1, <2>2, <2>3, <2>4, <2>5, <2>6, <2>7, <2>8, <2>9 DEF Next
<1> QED
  BY <1>1, <1>2, PTL DEF Spec

-----------------------------------------------------------------------------
(* What /tier shows is saved.                                              *)

\* Memory holds only tiers this release knows.
LoadedIsKnown == phase = "up" => \A c \in Chats : tier[c] \in registry \cup {None}

\* Only a start with a database imports the file.
MigratesToDb == phase = "migrating" => store = "db"

\* A file is rewritten from memory, a migration ends by loading the database.
TierInv == TypeOK /\ LoadedIsKnown /\ MigratesToDb /\ TierIsSaved

\* A /tier command that is given a tier of this release, or none.
LEMMA SaveKeepsTier ==
    ASSUME TierInv, TypeOK', phase = "up", NEW c \in Chats,
           NEW choice \in registry \cup {None}, Save(c, choice)
    PROVE  LoadedIsKnown' /\ TierIsSaved'
<1>1. tier' = [tier EXCEPT ![c] = choice] /\ registry' = registry /\ phase' = phase
      /\ store' = store
  BY DEF Save, runVars
<1>2. LoadedIsKnown'
  BY <1>1 DEF TierInv, LoadedIsKnown, TypeOK
<1>3. CASE store = "db" /\ NoFault /\ tierRow' = [tierRow EXCEPT ![c] = choice]
           /\ unsaved' = unsaved \ {c}
  <2> SUFFICES ASSUME NEW x \in Chats \ unsaved'
               PROVE  tier'[x] = IF tierRow'[x] \in registry THEN tierRow'[x] ELSE None
    BY <1>1, <1>2, <1>3 DEF TierIsSaved, Saved, Known
  <2>1. CASE x = c
    BY <1>1, <1>3, <2>1 DEF TierInv, TypeOK
  <2>2. CASE x # c
    BY <1>1, <1>3, <2>2 DEF TierInv, TypeOK, TierIsSaved, Saved, Known
  <2> QED
    BY <2>1, <2>2
<1>4. CASE store = "file" /\ tierFile' = tier' /\ unsaved' = {} /\ ~unread'
  BY <1>1, <1>2, <1>4, SettingsAssumption
     DEF TierInv, TierIsSaved, Saved, TypeOK, Known, LoadedIsKnown
<1>5. CASE unsaved' = unsaved \cup {c} /\ UNCHANGED <<tierRow, tierFile, unread>>
  <2> SUFFICES ASSUME NEW x \in Chats \ unsaved'
               PROVE  tier'[x] = Known(Saved, registry)[x]
    BY <1>1, <1>2, <1>5 DEF TierIsSaved, Saved, Known
  <2> QED
    BY <1>1, <1>5 DEF TierInv, TierIsSaved, TypeOK
<1> QED
  BY <1>2, <1>3, <1>4, <1>5 DEF Save

\* In every run, with a database or with a file, what /tier answers is what the
\* next start will load, but for a chat whose write failed (set_active changes
\* memory before it writes, tier_session.py:255); in a run whose file could not
\* be read (tier_session.py:171) no other chat has a tier, until the file is
\* rewritten by a choice.
THEOREM WhatIsShownIsSaved == Spec => []TierIsSaved
<1>1. Init => TierInv
  <2> SUFFICES ASSUME Init PROVE LoadedIsKnown /\ MigratesToDb /\ TierIsSaved
    BY InitTyped DEF TierInv
  <2> QED
    BY DEF Init, LoadedIsKnown, MigratesToDb, TierIsSaved
<1>2. TierInv /\ TypeOK' /\ [Next]_vars => TierInv'
  <2> SUFFICES ASSUME TierInv, TypeOK', [Next]_vars PROVE TierInv'
    OBVIOUS
  <2>0. MigratesToDb'
    BY DEF TierInv, MigratesToDb, Next, StartWithFile, StartWithDb, ImportRow, ImportFails,
       FinishMigration, Crash, Tier, Reset, SetActive, Save, Budget, vars, runVars
  <2> SUFFICES LoadedIsKnown' /\ TierIsSaved'
    BY <2>0 DEF TierInv
  <2> USE DEF TierInv
  <2>1. CASE \E release \in Releases : StartWithFile(release)
    BY <2>1 DEF StartWithFile, LoadedIsKnown, TierIsSaved, Saved, Known, NoTiers
  <2>2. CASE FinishMigration
    <3>1. tier' = Known(tierRow', registry') /\ tierRow' = tierRow /\ phase' = "up"
      BY <2>2 DEF FinishMigration
    <3>2. store' = store /\ unsaved' = unsaved
      BY <2>2 DEF FinishMigration
    <3>3. store = "db"
      BY <2>2 DEF FinishMigration, MigratesToDb
    <3> QED
      BY <3>1, <3>2, <3>3 DEF LoadedIsKnown, TierIsSaved, Saved, Known
  <2>6. CASE phase' = "up" /\ \E release \in Releases : StartWithDb(release)
    BY <2>6 DEF StartWithDb, LoadedIsKnown, TierIsSaved, Saved, Known
  <2>3. CASE phase' # "up"
    BY <2>3 DEF LoadedIsKnown, TierIsSaved
  <2>4. CASE \E c \in Chats : Tier(c)
    <3> PICK c \in Chats : Tier(c)
      BY <2>4
    <3>1. CASE Reset(c)
      BY <3>1, SaveKeepsTier DEF Reset
    <3>2. CASE \E t \in Tiers : SetActive(c, t)
      BY <3>2, SaveKeepsTier DEF SetActive
    <3> QED
      BY <3>1, <3>2 DEF Tier
  <2>5. CASE Budget \/ UNCHANGED vars
    BY <2>5 DEF Budget, vars, tierVars, runVars, LoadedIsKnown, TierIsSaved, Saved, Known
  <2> QED
    BY <2>1, <2>2, <2>3, <2>4, <2>5, <2>6
       DEF Next, ImportRow, ImportFails, Crash, runVars
<1> QED
  BY <1>1, <1>2, Typed, PTL DEF Spec, TierInv

-----------------------------------------------------------------------------
(* A tier that was reset stays reset.                                      *)

\* Once a run with a database is up there is no file left to import from.
NoFileBesideDb ==
    (phase = "up" /\ store = "db" /\ ~leftover)
        => \A c \in Chats : tierFile[c] = None

ForgottenInv == TypeOK /\ NoFileBesideDb /\ ForgottenStaysForgotten

\* A /tier command outside the two that change `forgotten`.
LEMMA SaveKeepsForgotten ==
    ASSUME ForgottenInv, TypeOK', phase = "up", NEW c \in Chats,
           NEW choice \in Tiers \cup {None}, Save(c, choice)
    PROVE  /\ NoFileBesideDb'
           /\ leftover' = leftover
           /\ ~leftover => \A x \in forgotten \ {c} :
                              NoTier(x)'
           /\ (choice = None /\ ~leftover /\ c \in forgotten) =>
                              NoTier(c)'
           /\ (choice = None /\ ~leftover /\ store = "db" /\ faults' = faults) =>
                              NoTier(c)'
<1>1. /\ tier' = [tier EXCEPT ![c] = choice]
      /\ phase' = phase /\ store' = store /\ leftover' = leftover
  BY DEF Save, runVars
<1>2. \/ store = "db" /\ tierRow' = [tierRow EXCEPT ![c] = choice] /\ tierFile' = tierFile
      \/ store = "file" /\ tierRow' = tierRow /\ tierFile' = tier'
      \/ faults' = faults + 1 /\ tierRow' = tierRow /\ tierFile' = tierFile
  BY DEF Save
<1>3. faults' = faults + 1 => faults' # faults
  BY DEF ForgottenInv, TypeOK
<1>4. NoFileBesideDb'
  BY <1>1, <1>2 DEF ForgottenInv, NoFileBesideDb
<1>5. ASSUME ~leftover, NEW x \in forgotten, x # c \/ choice = None
      PROVE  NoTier(x)'
  <2>1. x \in Chats
    BY DEF ForgottenInv, TypeOK
  <2>2. tier[x] = None /\ tierRow[x] = None /\ tierFile[x] = None
    BY <1>5 DEF ForgottenInv, ForgottenStaysForgotten, NoTier
  <2>3. tier'[x] = None
    BY <1>1, <1>5, <2>1, <2>2 DEF ForgottenInv, TypeOK
  <2>4. tierRow'[x] = None /\ tierFile'[x] = None
    BY <1>2, <1>5, <2>1, <2>2, <2>3 DEF ForgottenInv, TypeOK
  <2> QED
    BY <2>3, <2>4 DEF NoTier
<1>6. ASSUME choice = None, ~leftover, store = "db", faults' = faults
      PROVE  NoTier(c)'
  <2>1. tierRow' = [tierRow EXCEPT ![c] = choice] /\ tierFile' = tierFile
    BY <1>2, <1>3, <1>6
  <2>2. tier'[c] = None /\ tierRow'[c] = None
    BY <1>1, <1>6, <2>1 DEF ForgottenInv, TypeOK
  <2>3. tierFile'[c] = None
    BY <1>6, <2>1 DEF ForgottenInv, NoFileBesideDb
  <2> QED
    BY <2>2, <2>3 DEF NoTier
<1> QED
  BY <1>1, <1>4, <1>5, <1>6

\* After a /tier reset that reached the database no later run gives the chat a
\* tier it did not choose again, whatever tier_sessions.json once held, as long
\* as every start with a database could read that file and delete it.
THEOREM ResetIsForGood == Spec => []ForgottenStaysForgotten
<1>1. Init => ForgottenInv
  BY InitTyped DEF Init, ForgottenInv, NoFileBesideDb, ForgottenStaysForgotten, NoTiers
<1>2. ForgottenInv /\ TypeOK' /\ [Next]_vars => ForgottenInv'
  <2> SUFFICES ASSUME ForgottenInv, TypeOK', [Next]_vars
               PROVE  NoFileBesideDb' /\ ForgottenStaysForgotten'
    BY DEF ForgottenInv
  <2> USE DEF ForgottenInv
  <2>1. CASE \E release \in Releases : StartWithFile(release)
    BY <2>1, SettingsAssumption
       DEF StartWithFile, NoFileBesideDb, ForgottenStaysForgotten, NoTier, TypeOK, Known,
           NoTiers
  <2>2. CASE \E release \in Releases : StartWithDb(release)
    <3> PICK release \in Releases : StartWithDb(release)
      BY <2>2
    <3>0. UNCHANGED <<tierRow, tierFile, forgotten>>
      BY DEF StartWithDb
    <3>1. CASE phase' = "migrating" /\ UNCHANGED <<tier, leftover>>
      BY <3>0, <3>1 DEF NoFileBesideDb, ForgottenStaysForgotten, NoTier
    <3>2. CASE /\ tier' = Known(tierRow, release)
               /\ leftover' = (leftover \/ tierFile # NoTiers)
      <4>1. ASSUME ~leftover' PROVE ~leftover /\ \A c \in Chats : tierFile[c] = None
        BY <3>2, <4>1 DEF NoTiers
      <4> QED
        BY <3>0, <3>2, <4>1
           DEF NoFileBesideDb, ForgottenStaysForgotten, NoTier, TypeOK, Known
    <3> QED
      BY <3>1, <3>2 DEF StartWithDb
  <2>3. CASE ImportRow
    <3> PICK c \in ToImport : tierRow' = [tierRow EXCEPT ![c] = tierFile[c]]
      BY <2>3 DEF ImportRow
    <3>0. tierFile[c] # None
      BY SettingsAssumption DEF ToImport, TypeOK
    <3>1. ~leftover => c \notin forgotten
      BY <3>0 DEF ForgottenStaysForgotten, NoTier
    <3> QED
      BY <2>3, <3>1
         DEF ImportRow, runVars, NoFileBesideDb, ForgottenStaysForgotten, NoTier, TypeOK
  <2>4. CASE ImportFails
    BY <2>4 DEF ImportFails, tierVars, NoFileBesideDb, ForgottenStaysForgotten, NoTier
  <2>5. CASE FinishMigration
    <3>1. /\ tier' = Known(tierRow, registry) /\ tierRow' = tierRow
          /\ forgotten' = forgotten
      BY <2>5 DEF FinishMigration
    <3>2. ~leftover' => ~leftover /\ \A c \in Chats : tierFile'[c] = None
      BY <2>5 DEF FinishMigration, NoTiers
    <3> QED
      BY <3>1, <3>2 DEF NoFileBesideDb, ForgottenStaysForgotten, NoTier, TypeOK, Known
  <2>6. CASE Crash
    BY <2>6 DEF Crash, NoFileBesideDb, ForgottenStaysForgotten, NoTier, TypeOK, NoTiers
  <2>7. CASE \E c \in Chats : Tier(c)
    <3> PICK c \in Chats : Tier(c)
      BY <2>7
    <3>1. CASE Reset(c)
      <4>1. phase = "up" /\ Save(c, None)
            /\ forgotten' = IF store = "db" /\ faults' = faults
                              THEN forgotten \cup {c} ELSE forgotten
        BY <3>1 DEF Reset
      <4> QED
        BY <4>1, SaveKeepsForgotten DEF ForgottenStaysForgotten
    <3>2. CASE \E t \in Tiers : SetActive(c, t)
      <4> PICK t \in Tiers : SetActive(c, t)
        BY <3>2
      <4>1. phase = "up" /\ Save(c, t) /\ forgotten' = forgotten \ {c}
        BY DEF SetActive
      <4> QED
        BY <4>1, SaveKeepsForgotten DEF ForgottenStaysForgotten
    <3> QED
      BY <3>1, <3>2 DEF Tier
  <2>8. CASE Budget \/ UNCHANGED vars
    BY <2>8 DEF Budget, vars, tierVars, runVars, NoFileBesideDb, ForgottenStaysForgotten, NoTier
  <2> QED
    BY <2>1, <2>2, <2>3, <2>4, <2>5, <2>6, <2>7, <2>8 DEF Next
<1> QED
  BY <1>1, <1>2, Typed, PTL DEF Spec, ForgottenInv

-----------------------------------------------------------------------------
(* The budget in memory.                                                   *)

Writing(b) == call[b].at = "write"
Filling(b) == call[b].at = "fill"

\* A command lives no longer than its run, and without a database it is over
\* at once.
NoCallOutside ==
    /\ phase # "up" => budget = None /\ \A b \in Bots : ~Busy(b)
    /\ store = "file" => \A b \in Bots : ~Busy(b)

\* A writer is alone and has already put its amount in memory.
WriterIsAlone ==
    \A b \in Bots : Writing(b) =>
        budget = call[b].usd /\ budget # None /\ \A o \in Bots \ {b} : ~Busy(o)

\* What is about to be put in memory is still what the database has.
FillIsFresh == \A b \in Bots : Filling(b) => call[b].usd = budgetRow

SavedUnlessWriting == (\A b \in Bots : ~Writing(b)) => budget \in {None, budgetRow}

BudgetInv ==
    /\ TypeOK /\ NoCallOutside
    /\ (store = "db" /\ ~raced) => WriterIsAlone /\ FillIsFresh /\ SavedUnlessWriting

\* One step of one bot's /budget.
LEMMA BudgetStep ==
    ASSUME BudgetInv, TypeOK', Budget
    PROVE  BudgetInv'
<1> USE DEF BudgetInv
<1>0. phase' = phase /\ store' = store
  BY DEF Budget, runVars
<1> PICK b \in Bots :
      \/ /\ \/ ShowBudget(b) \/ ReadBudget(b) \/ FillBudget(b)
            \/ \E usd \in Amounts : SetBudget(b, usd)
         /\ NoFault
      \/ WriteBudget(b)
  BY DEF Budget
<1>1. CASE ShowBudget(b)
  BY <1>0, <1>1 DEF ShowBudget, TypeOK, NoCallOutside, WriterIsAlone, FillIsFresh,
     SavedUnlessWriting, Writing, Filling, Busy
<1>2. CASE ReadBudget(b)
  BY <1>0, <1>2 DEF ReadBudget, TypeOK, NoCallOutside, WriterIsAlone, FillIsFresh,
     SavedUnlessWriting, Writing, Filling, Busy, Idle
<1>3. CASE FillBudget(b)
  BY <1>0, <1>3 DEF FillBudget, TypeOK, NoCallOutside, WriterIsAlone, FillIsFresh,
     SavedUnlessWriting, Writing, Filling, Busy, Idle
<1>4. CASE \E usd \in Amounts : SetBudget(b, usd)
  <2> PICK usd \in Amounts : SetBudget(b, usd)
    BY <1>4
  <2>1. usd # None /\ phase = "up" /\ ~Busy(b) /\ budget' = usd /\ budgetRow' = budgetRow
    BY SettingsAssumption DEF SetBudget
  <2>2. CASE store = "file"
    BY <1>0, <2>1, <2>2 DEF SetBudget, TypeOK, NoCallOutside, Busy
  <2>3. CASE store = "db"
    <3>1. call' = [call EXCEPT ![b] = [at |-> "write", usd |-> usd]]
      BY <2>3 DEF SetBudget
    <3>2. NoCallOutside'
      BY <1>0, <2>1, <2>3 DEF NoCallOutside
    <3>3. ASSUME ~raced' PROVE WriterIsAlone' /\ FillIsFresh' /\ SavedUnlessWriting'
      <4>1. \A o \in Bots : call[o].at = "idle"
        BY <3>3 DEF SetBudget, Busy
      <4>2. /\ call'[b] = [at |-> "write", usd |-> usd]
            /\ \A o \in Bots \ {b} : call'[o] = call[o]
        BY <3>1 DEF TypeOK
      <4> QED
        BY <2>1, <4>1, <4>2
           DEF WriterIsAlone, FillIsFresh, SavedUnlessWriting, Writing, Filling, Busy
    <3> QED
      BY <1>0, <3>2, <3>3
  <2> QED
    BY <2>2, <2>3 DEF TypeOK
<1>5. CASE WriteBudget(b)
  BY <1>0, <1>5 DEF WriteBudget, TypeOK, NoCallOutside, WriterIsAlone, FillIsFresh,
     SavedUnlessWriting, Writing, Filling, Busy, Idle
<1> QED
  BY <1>1, <1>2, <1>3, <1>4, <1>5

\* When no /budget is under way memory has what the database has, however many
\* bots the owner used, unless two commands overlapped or a write failed: only
\* then is the unlocked read of get_budget (bot_runner.py:1217) stale.
THEOREM BudgetShownIsSaved == Spec => []BudgetIsSaved
<1>1. Init => BudgetInv
  BY InitTyped DEF Init, BudgetInv, NoCallOutside, Busy, Idle
<1>2. BudgetInv /\ TypeOK' /\ [Next]_vars => BudgetInv'
  <2> SUFFICES ASSUME BudgetInv, TypeOK', [Next]_vars PROVE BudgetInv'
    OBVIOUS
  <2>1. CASE Budget
    BY <2>1, BudgetStep
  <2>2. CASE UNCHANGED <<budgetVars, phase, store>>
    BY <2>2 DEF BudgetInv, budgetVars, NoCallOutside, WriterIsAlone, FillIsFresh,
       SavedUnlessWriting, Writing, Filling, Busy
  <2>3. CASE phase # "up" /\ UNCHANGED budgetVars
    BY <2>3 DEF BudgetInv, budgetVars, NoCallOutside, WriterIsAlone, FillIsFresh,
       SavedUnlessWriting, Writing, Filling, Busy
  <2>4. CASE Crash
    BY <2>4 DEF Crash, BudgetInv, NoCallOutside, WriterIsAlone, FillIsFresh,
       SavedUnlessWriting, Writing, Filling, Busy, Idle
  <2>5. CASE \E c \in Chats : Tier(c)
    BY <2>2, <2>5 DEF Tier, Reset, SetActive, Save, runVars
  <2> QED
    BY <2>1, <2>2, <2>3, <2>4, <2>5
       DEF Next, StartWithFile, StartWithDb, ImportRow, ImportFails, FinishMigration,
       vars, runVars
<1>3. BudgetInv => BudgetIsSaved
  BY DEF BudgetInv, BudgetIsSaved, SavedUnlessWriting, Writing, Busy
<1> QED
  BY <1>1, <1>2, <1>3, Typed, PTL DEF Spec, BudgetInv

-----------------------------------------------------------------------------
\* No start, complete or cut short, replaces a tier the database holds: the
\* import of tier_sessions.json adds rows only.
THEOREM StartsKeepRows == Spec => StartKeepsRows
<1>1. TypeOK /\ [Next]_vars =>
        (phase # "up" => \A c \in Chats : tierRow[c] # None => tierRow'[c] = tierRow[c])
  <2> SUFFICES ASSUME TypeOK, [Next]_vars, phase # "up", NEW c \in Chats, tierRow[c] # None
               PROVE  tierRow'[c] = tierRow[c]
    OBVIOUS
  <2>1. CASE ImportRow
    BY <2>1 DEF ImportRow, ToImport, TypeOK
  <2>2. CASE tierRow' = tierRow
    BY <2>2
  <2> QED
    BY <2>1, <2>2 DEF Next, StartWithFile, StartWithDb, ImportFails, FinishMigration, Crash,
       Tier, Reset, SetActive, Budget, tierVars, vars
<1> QED
  BY <1>1, Typed, PTL DEF Spec, StartKeepsRows
=============================================================================
