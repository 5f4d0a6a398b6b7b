---------------------------- MODULE ChatSettings ----------------------------
(***************************************************************************)
(* What a chat has chosen: its model tier (TierSessionStore) and its budget *)
(* (_BudgetState).  Both keep a copy in memory and a row in the state       *)
(* database; without a database the tiers are kept in tier_sessions.json,   *)
(* which the first start with a database imports and deletes.               *)
(*                                                                         *)
(* /tier holds the store's lock over memory and disk, so one command is one *)
(* step.  /budget takes its lock twice, with the database in between: its   *)
(* reads and writes are separate steps, and the bots, which share one       *)
(* _BudgetState and one chat with the owner, interleave them.               *)
(***************************************************************************)
EXTENDS Naturals, FiniteSets

CONSTANTS Chats,        \* chats with a tier; the budget is that of the owner's chat
          Releases,     \* the tier registries of successive releases
          Amounts,      \* budgets the owner may set
          Bots,         \* the bots, each handling its updates one after another
          None,         \* no row, no entry, no choice
          MaxFaults     \* bound: disk and database failures

ASSUME SettingsAssumption ==
    /\ None \notin UNION Releases
    /\ None \notin Amounts
    /\ MaxFaults \in Nat

Tiers == UNION Releases

VARIABLES
    phase,     \* "down", "migrating" (start-up) or "up"
    store,     \* where tiers are kept in this run: "db" or "file"
    registry,  \* the tiers this release knows
    tier,      \* TierSessionStore._by_chat
    tierRow,   \* table tier_sessions
    tierFile,  \* the sessions in tier_sessions.json; no file is no sessions
    budget,    \* _BudgetState._by_chat of the owner's chat
    budgetRow, \* table budget, the owner's chat
    call,      \* what each bot's /budget is doing
    unsaved,   \* chats whose choice changed in memory only
    forgotten, \* chats whose /tier reset was the last word
    unread,    \* this run's store is a file it could not read, nor rewrote since
    leftover,  \* tier_sessions.json outlived a migration
    raced,     \* a /budget began during another one, or could not be written
    faults     \* failures so far

tierVars   == <<tier, tierRow, tierFile, unsaved, forgotten, unread>>
budgetVars == <<budget, budgetRow, call, raced>>
runVars    == <<phase, store, registry, leftover>>
vars       == <<tierVars, budgetVars, runVars, faults>>

Idle == [at |-> "idle", usd |-> None]

\* A disk or database operation that fails, and a step without one.
Fault == faults < MaxFaults /\ faults' = faults + 1
NoFault == faults' = faults

NoTiers == [c \in Chats |-> None]

Init ==
    /\ phase = "down" /\ store = "file" /\ registry \in Releases
    /\ tier = NoTiers
    /\ tierRow = NoTiers /\ tierFile = NoTiers
    /\ budget = None /\ budgetRow = None
    /\ call = [b \in Bots |-> Idle]
    /\ unsaved = {} /\ forgotten = {} /\ unread = FALSE
    /\ leftover = FALSE /\ raced = FALSE
    /\ faults = 0

-----------------------------------------------------------------------------
(* Start-up: import the legacy file, then load.                            *)

\* A tier this release no longer knows is not loaded.
Known(rows, known) ==
    [c \in Chats |-> IF rows[c] \in known THEN rows[c] ELSE None]

\* build_bridge_from_env without a state database.  A file that cannot be read
\* or parsed is ignored: the bots come up with no choices, and it stays.
StartWithFile(release) ==
    /\ phase = "down"
    /\ phase' = "up" /\ store' = "file" /\ registry' = release
    /\ \/ tier' = Known(tierFile, release) /\ unread' = FALSE /\ NoFault
       \/ tier' = NoTiers /\ unread' = TRUE /\ Fault
    /\ UNCHANGED <<tierRow, tierFile, unsaved, forgotten, budgetVars, leftover>>

\* With a database the file is read once and its rows are imported.  A file that
\* cannot be read is kept, nothing is imported, and the store loads the database.
StartWithDb(release) ==
    /\ phase = "down"
    /\ store' = "db" /\ registry' = release
    /\ \/ phase' = "migrating" /\ NoFault
          /\ UNCHANGED <<tier, leftover>>
       \/ phase' = "up" /\ Fault
          /\ tier' = Known(tierRow, release)
          /\ leftover' = (leftover \/ tierFile # NoTiers)
    /\ UNCHANGED <<tierRow, tierFile, unsaved, forgotten, unread, budgetVars>>

\* Plausible bug: the row of the database is not looked up.
ToImportOverRows == {c \in Chats : tierFile[c] \in registry \ {tierRow[c]}}

\* Rows of the file still to be imported: unknown tiers and chats that have a
\* row in the database are skipped.
ToImport == {c \in Chats : tierFile[c] \in registry /\ tierRow[c] = None}

ImportRow ==
    /\ phase = "migrating"
    /\ \E c \in ToImport : tierRow' = [tierRow EXCEPT ![c] = tierFile[c]]
    /\ NoFault
    /\ UNCHANGED <<tier, tierFile, unsaved, forgotten, unread, budgetVars, runVars>>

\* set_tier raises: the start fails and the file stays for the next one.
ImportFails ==
    /\ phase = "migrating" /\ ToImport # {} /\ Fault
    /\ phase' = "down"
    /\ UNCHANGED <<tierVars, budgetVars, store, registry, leftover>>

\* Plausible bug: the imported file is kept.
FinishMigrationKeepingFile ==
    /\ phase = "migrating" /\ ToImport = {}
    /\ phase' = "up" /\ tier' = Known(tierRow, registry)
    /\ NoFault
    /\ UNCHANGED <<tierRow, tierFile, unsaved, forgotten, unread, budgetVars,
                   store, registry, leftover>>

\* os.remove is best effort; the store then loads the database.
FinishMigration ==
    /\ phase = "migrating" /\ ToImport = {}
    /\ \/ tierFile' = NoTiers /\ UNCHANGED leftover /\ NoFault
       \/ UNCHANGED tierFile /\ Fault
          /\ leftover' = (leftover \/ tierFile # NoTiers)
    /\ phase' = "up"
    /\ tier' = Known(tierRow, registry)
    /\ UNCHANGED <<tierRow, unsaved, forgotten, unread, budgetVars, store, registry>>

\* The process dies: memory, and every command under way, is gone.
Crash ==
    /\ phase # "down"
    /\ phase' = "down"
    /\ tier' = NoTiers /\ unsaved' = {} /\ unread' = FALSE
    /\ budget' = None /\ call' = [b \in Bots |-> Idle] /\ raced' = FALSE
    /\ NoFault
    /\ UNCHANGED <<tierRow, tierFile, forgotten, budgetRow,
                   store, registry, leftover>>

-----------------------------------------------------------------------------
(* /tier.                                                                  *)

\* Plausible bug: the file is written before memory changes.
SaveThenChange(c, choice) ==
    /\ tier' = [tier EXCEPT ![c] = choice]
    /\ IF store = "db"
         THEN tierRow' = [tierRow EXCEPT ![c] = choice] /\ UNCHANGED tierFile
         ELSE tierFile' = tier /\ UNCHANGED tierRow
    /\ unsaved' = unsaved \ {c} /\ unread' = FALSE /\ NoFault
    /\ UNCHANGED <<budgetVars, runVars>>

\* set_active and reset change memory first.  With a database the row follows
\* or the call raises; without one the file is rewritten from memory, with it
\* what could not be read, and a failure is swallowed.
Save(c, choice) ==
    /\ tier' = [tier EXCEPT ![c] = choice]
    /\ \/ /\ store = "db" /\ NoFault
          /\ tierRow' = [tierRow EXCEPT ![c] = choice]
          /\ unsaved' = unsaved \ {c}
          /\ UNCHANGED <<tierFile, unread>>
       \/ /\ store = "file" /\ NoFault
          /\ tierFile' = tier'
          /\ unsaved' = {} /\ unread' = FALSE
          /\ UNCHANGED tierRow
       \/ /\ Fault
          /\ unsaved' = unsaved \cup {c}
          /\ UNCHANGED <<tierRow, tierFile, unread>>
    /\ UNCHANGED <<budgetVars, runVars>>

\* An unknown tier raises KeyError before anything changes.
SetActive(c, t) ==
    /\ phase = "up" /\ t \in registry
    /\ Save(c, t)
    /\ forgotten' = forgotten \ {c}

Reset(c) ==
    /\ phase = "up"
    /\ Save(c, None)
    /\ forgotten' = IF store = "db" /\ faults' = faults
                      THEN forgotten \cup {c} ELSE forgotten

\* The subcommands of /tier; a bare /tier reads.
Tier(c) == Reset(c) \/ \E t \in Tiers : SetActive(c, t)

-----------------------------------------------------------------------------
(* /budget.                                                                *)

Busy(b) == call[b].at # "idle"

\* get_budget under the lock: a cached amount is the answer.
ShowBudget(b) ==
    /\ phase = "up" /\ ~Busy(b)
    /\ budget = None /\ store = "db"
    /\ call' = [call EXCEPT ![b] = [at |-> "read", usd |-> None]]
    /\ UNCHANGED <<budget, budgetRow, raced>>

\* Without the lock the row is read; without a row the default is the answer.
ReadBudget(b) ==
    /\ call[b].at = "read"
    /\ call' = [call EXCEPT ![b] =
                  IF budgetRow = None THEN Idle
                  ELSE [at |-> "fill", usd |-> budgetRow]]
    /\ UNCHANGED <<budget, budgetRow, raced>>

FillBudget(b) ==
    /\ call[b].at = "fill"
    /\ budget' = call[b].usd
    /\ call' = [call EXCEPT ![b] = Idle]
    /\ UNCHANGED <<budgetRow, raced>>

\* Plausible bug: set_budget leaves the cached amount alone.
SetBudgetRowOnly(b, usd) ==
    /\ phase = "up" /\ ~Busy(b)
    /\ call' = IF store = "db"
                 THEN [call EXCEPT ![b] = [at |-> "write", usd |-> usd]]
                 ELSE call
    /\ raced' = (raced \/ \E other \in Bots : Busy(other))
    /\ UNCHANGED <<budget, budgetRow>>

\* set_budget: memory under the lock, the row after it.
SetBudget(b, usd) ==
    /\ phase = "up" /\ ~Busy(b)
    /\ budget' = usd
    /\ call' = IF store = "db"
                 THEN [call EXCEPT ![b] = [at |-> "write", usd |-> usd]]
                 ELSE call
    /\ raced' = (raced \/ \E other \in Bots : Busy(other))
    /\ UNCHANGED budgetRow

WriteBudget(b) ==
    /\ call[b].at = "write"
    /\ \/ budgetRow' = call[b].usd /\ UNCHANGED raced /\ NoFault
       \/ raced' = TRUE /\ UNCHANGED budgetRow /\ Fault
    /\ call' = [call EXCEPT ![b] = Idle]
    /\ UNCHANGED budget

Budget ==
    /\ \E b \in Bots :
          \/ /\ \/ ShowBudget(b) \/ ReadBudget(b) \/ FillBudget(b)
                \/ \E usd \in Amounts : SetBudget(b, usd)
             /\ NoFault
          \/ WriteBudget(b)
    /\ UNCHANGED <<tierVars, runVars>>

Next ==
    \/ \E release \in Releases : StartWithFile(release) \/ StartWithDb(release)
    \/ ImportRow \/ ImportFails \/ FinishMigration \/ Crash
    \/ \E c \in Chats : Tier(c)
    \/ Budget

Spec == Init /\ [][Next]_vars

-----------------------------------------------------------------------------
TypeOK ==
    /\ phase \in {"down", "migrating", "up"} /\ store \in {"db", "file"}
    /\ registry \in Releases
    /\ tier \in [Chats -> Tiers \cup {None}]
    /\ tierRow \in [Chats -> Tiers \cup {None}]
    /\ tierFile \in [Chats -> Tiers \cup {None}]
    /\ budget \in Amounts \cup {None} /\ budgetRow \in Amounts \cup {None}
    /\ call \in [Bots -> [at : {"idle", "read", "fill", "write"},
                          usd : Amounts \cup {None}]]
    /\ unsaved \in SUBSET Chats /\ forgotten \in SUBSET Chats
    /\ unread \in BOOLEAN /\ leftover \in BOOLEAN /\ raced \in BOOLEAN
    /\ faults \in 0..MaxFaults

\* What the store of this run has of the chats' choices: nothing, as long as it
\* is a file that could not be read.
Saved == IF store = "db" THEN tierRow ELSE IF unread THEN NoTiers ELSE tierFile

\* When the run could read its store, what /tier answers is what the next start
\* will load, for every chat but one whose write failed (tier_session.py:255:
\* memory is changed first and not put back).  After a start that could not read
\* the file (tier_session.py:171) the chats have no tier, whatever the file holds,
\* until one of them chooses: that choice is written without the others' tiers,
\* and from then on memory and file agree again.
TierIsSaved ==
    phase = "up" =>
        \A c \in Chats \ unsaved : tier[c] = Known(Saved, registry)[c]

\* A start never replaces a choice the database holds, however many times the
\* migration was cut short and run again (migrate_legacy_tier_sessions_json:
\* "existing StateDB rows win over legacy JSON rows").
StartKeepsRows ==
    [][phase # "up" => \A c \in Chats : tierRow[c] # None => tierRow'[c] = tierRow[c]]_vars

NoTier(c) == tier[c] = None /\ tierRow[c] = None /\ tierFile[c] = None

\* After a /tier reset that reached the database the chat has no tier in any
\* later run, until it chooses one: the file it once came from is gone.  Only a
\* file that a start could not delete, or not read and therefore kept, brings
\* the old choice back.
ForgottenStaysForgotten ==
    ~leftover => \A c \in forgotten : NoTier(c)

\* When no /budget is under way, what memory shows is what the database has,
\* unless two commands overlapped or a write failed since the start: the
\* unlocked read of get_budget (bot_runner.py:1217) is harmful only then.
BudgetIsSaved ==
    (store = "db" /\ ~raced /\ \A b \in Bots : ~Busy(b))
        => budget \in {None, budgetRow}
=============================================================================
