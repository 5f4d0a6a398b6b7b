--------------------------- MODULE BotFleetProofs ---------------------------
(***************************************************************************)
(* Theorems about BotFleet, for any number of roles, tokens, tasks and      *)
(* starts of the process.                                                   *)
(***************************************************************************)
EXTENDS BotFleet, WellFoundedInduction, TLAPS

AppState == {"none", "built", "ready", "running", "stopping", "closed"}
Level == {"none", "built", "reachable", "initialized", "started", "polling"}

StartStage == {"built", "probing", "initialize", "start", "poll"}
Stage == {"down", "launched", "checked", "serving", "closing", "exited"} \cup StartStage
Reason == {"config", "construction", "startup", "stopped", "cancelled"}

TypeOK ==
    /\ stage \in Stage /\ exit \in Reason \cup {None}
    /\ config \in Environment \cup {None}
    /\ enabled \subseteq Role /\ app \in [Role -> AppState]
    /\ polls \subseteq Role /\ report \in [Role -> Level]
    /\ failed \subseteq Role /\ refused \subseteq Role
    /\ todo \in [polling : SUBSET Role, started : SUBSET Role,
                 initialized : SUBSET Role]
    /\ inbox \subseteq Role /\ busy \subseteq Role

(* The environment is read until the bots are built, and main() goes on or  *)
(* leaves by what validation makes of it.                                   *)
ConfigInv ==
    /\ config # None /\ stage \notin {"launched", "checked"} => stage = "exited"
    /\ stage \in {"launched", "checked"} => config \in Environment
    /\ stage = "checked" => Health(config) # "failed"
    /\ stage = "exited" /\ exit = "config" =>
          config \in Environment /\ Health(config) = "failed"

(* Before the bots are built, and where they never are, there are none.     *)
NoBotsInv ==
    /\ \/ stage \in {"down", "launched", "checked"}
       \/ stage = "exited" /\ exit \in {"config", "construction"}
       => enabled = {} /\ polls = {} /\ failed = {}
    /\ stage = "exited" => exit \in Reason
    /\ \A r \in Role \ enabled : app[r] = "none"
    /\ polls \subseteq enabled

(* The start stands at one bot: those before it have come all the way, or   *)
(* answered the probe, and those after it have not been touched since.      *)
Line(f, before, here, after) ==
    \A r \in enabled :
        report[r] = IF r < f THEN before ELSE IF r = f THEN here ELSE after

Apps(f, before, here) ==
    \A r \in enabled :
        app[r] = IF r < f THEN before ELSE IF r = f THEN here ELSE "built"

StartIsAt(f) ==
    \/ /\ stage \in {"built", "probing"}
       /\ Line(f, "reachable", "built", "built") /\ Apps(f, "built", "built")
    \/ /\ stage = "initialize"
       /\ Line(f, "polling", "reachable", "reachable") /\ Apps(f, "running", "built")
    \/ /\ stage = "start"
       /\ Line(f, "polling", "initialized", "reachable") /\ Apps(f, "running", "ready")
    \/ /\ stage = "poll"
       /\ Line(f, "polling", "started", "reachable") /\ Apps(f, "running", "running")

StartInv ==
    stage \in StartStage =>
        /\ failed = {} /\ polls = Behind("polling")
        /\ \E f \in enabled : StartIsAt(f)

(* What a failed start reports.                                             *)
FailedAt(f) ==
    /\ failed = {f}
    /\ \A r \in enabled \ {f} :
          report[r] = IF report[f] = "built"
                      THEN IF r < f THEN "reachable" ELSE "built"
                      ELSE IF r < f THEN "polling" ELSE "reachable"

ReportInv ==
    exit = "startup" /\ stage \in {"closing", "exited"} => \E f \in enabled : FailedAt(f)

(* Handlers work for bots that run or are being stopped.                    *)
HandlerInv == \A r \in inbox \cup busy : app[r] \in {"running", "stopping"}

(* Nothing is stopped or closed before the closing begins, and then whatever *)
(* is open is on the lists of what is to be closed.                         *)
Closes == stage = "closing" \/ (stage = "exited" /\ exit \in {"startup", "stopped"})

ClosingInv ==
    /\ stage \notin {"closing", "exited"} =>
          \A r \in Role : app[r] \notin {"stopping", "closed"}
    /\ Closes =>
          /\ exit \in {"startup", "stopped"} /\ todo.initialized \subseteq enabled
          /\ \A r \in enabled \ refused :
                /\ r \in polls => r \in todo.polling
                /\ app[r] \notin {"none", "built", "closed"} => r \in todo.initialized
          /\ \A r \in enabled : app[r] \in {"running", "stopping"} => r \in todo.started
          /\ \A r \in Role : app[r] = "closed" => todo.started = {}
          /\ stage = "exited" => todo = Nothing

Inv ==
    /\ TypeOK /\ ConfigInv /\ NoBotsInv
    /\ StartInv /\ ReportInv /\ HandlerInv /\ ClosingInv

-----------------------------------------------------------------------------
(* Minima and maxima of sets of roles.                                      *)

LEMMA LeastOf ==
    ASSUME NEW S \in SUBSET Nat, S # {}
    PROVE  \E x \in S : \A y \in S : x <= y
<1>1. PICK x \in S : \A y \in S : ~(<<y, x>> \in OpToRel(<, Nat))
  BY NatLessThanWellFounded, WFMin, Zenon
<1>2. \A y \in S : ~(y < x)
  BY <1>1 DEF OpToRel
<1>3. QED BY <1>2

LEMMA MinRole ==
    ASSUME NEW S \in SUBSET Role, S # {}
    PROVE  Min(S) \in S /\ \A y \in S : Min(S) <= y
<1>1. S \subseteq Nat
  BY FleetAssumption DEF Role, FleetAssumption
<1>2. \E x \in S : \A y \in S : x <= y
  BY <1>1, LeastOf
<1>3. QED BY <1>2 DEF Min

LEMMA MaxRole ==
    ASSUME NEW S \in SUBSET Role, S # {}
    PROVE  Max(S) \in S
<1> DEFINE T == {Roles - x : x \in S}
<1>1. Roles \in Nat /\ \A x \in S : x \in Nat /\ x <= Roles
  BY FleetAssumption DEF Role, FleetAssumption
<1>2. T \subseteq Nat /\ T # {}
  BY <1>1
<1>3. PICK m \in T : \A y \in T : m <= y
  BY <1>2, LeastOf
<1>4. PICK x \in S : m = Roles - x
  OBVIOUS
<1>5. \A y \in S : x >= y
  BY <1>1, <1>3, <1>4
<1>6. QED BY <1>5 DEF Max

-----------------------------------------------------------------------------
(* The configuration.                                                       *)

LEMMA SpecCases ==
    ASSUME NEW c \in Environment
    PROVE  /\ c.agentTokens \in {"unset", "blank", "malformed", "mapping"}
           /\ c.agentTokens = "unset" =>
                 RuntimeSpec(c) = IF c.botToken THEN {Coordinator} ELSE {}
           /\ c.agentTokens = "mapping" /\ Usable(c) => RuntimeSpec(c) = Bound(c)
           /\ c.agentTokens = "mapping" /\ ~Usable(c) => RuntimeSpec(c) = Raises
           /\ c.agentTokens \in {"blank", "malformed"} => RuntimeSpec(c) = Raises
BY DEF RuntimeSpec, Environment, Setting

(* What construction makes of an environment is a set of roles with the     *)
(* Coordinator, or nothing, or an error.                                    *)
LEMMA SpecIsRoles ==
    ASSUME NEW c \in Environment
    PROVE  \/ RuntimeSpec(c) \in {Raises, {}}
           \/ RuntimeSpec(c) \subseteq Role /\ Coordinator \in RuntimeSpec(c)
<1>1. Coordinator \in Role
  BY FleetAssumption DEF FleetAssumption
<1>2. QED BY <1>1, SpecCases DEF Bound, Usable

LEMMA RaisesIsNoSpec ==
    Raises \cap Role = {} /\ Raises # {}
BY FleetAssumption DEF Raises, Role, FleetAssumption

LEMMA IdentityIsBuildable ==
    ASSUME NEW c \in Environment
    PROVE  /\ IdentityError(c) => RuntimeSpec(c) \in {Raises, {}}
           /\ ~IdentityError(c) /\ c.agentTokens # "blank" =>
                 RuntimeSpec(c) \notin {Raises, {}}
<1>1. Coordinator \in Role /\ Coordinator \notin Raises
  BY FleetAssumption, RaisesIsNoSpec DEF FleetAssumption
<1>2. CASE c.agentTokens = "unset"
  BY <1>1, <1>2, SpecCases DEF IdentityError, HasAgentTokens
<1>3. CASE c.agentTokens = "blank"
  BY <1>3, SpecCases DEF IdentityError, HasAgentTokens
<1>4. CASE c.agentTokens = "malformed"
  BY <1>4, SpecCases DEF IdentityError, HasAgentTokens
<1>5. CASE c.agentTokens = "mapping"
  <2>1. Usable(c) => RuntimeSpec(c) # {}
    BY <1>5, SpecCases DEF Usable
  <2>2. QED BY <1>5, <2>1, SpecCases DEF IdentityError, HasAgentTokens
<1>6. QED BY <1>2, <1>3, <1>4, <1>5, SpecCases

(* The health report fails on an error of the configuration and on nothing  *)
(* else.                                                                    *)
LEMMA HealthFails ==
    ASSUME NEW c \in Environment
    PROVE  Health(c) = "failed" <=> ~c.owner \/ ~c.threshold \/ IdentityError(c)
<1>1. \A i \in Issues(c) : i.severity = "error" =>
          ~c.owner \/ ~c.threshold \/ IdentityError(c)
  BY DEF Issues, SharedIssues, LegacyIssues, Issue
<1>2. \A i \in Issues(c) : i.code = "bot_identity" => IdentityError(c)
  BY DEF Issues, SharedIssues, LegacyIssues, Issue
<1>3. ~c.owner \/ ~c.threshold \/ IdentityError(c) =>
          \E i \in Issues(c) : i.severity = "error"
  <2>1. ~c.owner => [severity |-> "error", code |-> "owner_chat_id"] \in Issues(c)
    BY DEF Issues, Issue
  <2>2. ~c.threshold => [severity |-> "error", code |-> "cost_threshold"] \in Issues(c)
    BY DEF Issues, Issue
  <2>3. IdentityError(c) => [severity |-> "error", code |-> "bot_identity"] \in Issues(c)
    BY DEF Issues, Issue
  <2>4. QED BY <2>1, <2>2, <2>3
<1>4. Worst(Issues(c)) = "failed" <=> \E i \in Issues(c) : i.severity = "error"
  BY DEF Worst
<1>5. Worst(PersistenceIssues(c)) # "failed" /\ LegacyComponent(c) # "failed"
  BY DEF Worst, PersistenceIssues, Issue, LegacyComponent
<1>6. IdentityComponent(c) = "failed" => IdentityError(c)
  BY <1>2 DEF IdentityComponent, IdentityError
<1>7. Health(c) = "failed" <=> "failed" \in Components(c)
  BY DEF Health
<1>8. QED BY <1>1, <1>3, <1>4, <1>5, <1>6, <1>7 DEF Components

-----------------------------------------------------------------------------
(* Where the start stands.                                                  *)

LEMMA CursorIsCurrent ==
    ASSUME TypeOK, NEW f \in enabled, StartIsAt(f)
    PROVE  /\ stage \in {"built", "probing"} => Current("built") = f
           /\ stage = "initialize" => Current("reachable") = f
           /\ stage = "start" => Current("initialized") = f
           /\ stage = "poll" => Current("started") = f
<1>0. enabled \subseteq Role /\ Role \subseteq Nat
  BY FleetAssumption DEF TypeOK, Role, FleetAssumption
<1>1. ASSUME NEW level, f \in Behind(level), \A r \in Behind(level) : f <= r
      PROVE  Current(level) = f
  <2>1. Behind(level) \subseteq Role
    BY <1>0 DEF Behind
  <2>2. Min(Behind(level)) \in Behind(level) /\ Min(Behind(level)) <= f
    BY <1>1, <2>1, MinRole
  <2>3. f <= Min(Behind(level)) /\ f \in Nat /\ Min(Behind(level)) \in Nat
    BY <1>0, <1>1, <2>1, <2>2
  <2>4. QED BY <2>2, <2>3 DEF Current
<1>2. CASE stage \in {"built", "probing"}
  <2>1. f \in Behind("built") /\ \A r \in Behind("built") : f <= r
    BY <1>0, <1>2 DEF StartIsAt, Line, Behind
  <2>2. QED BY <1>1, <1>2, <2>1
<1>3. CASE stage = "initialize"
  <2>1. f \in Behind("reachable") /\ \A r \in Behind("reachable") : f <= r
    BY <1>0, <1>3 DEF StartIsAt, Line, Behind
  <2>2. QED BY <1>1, <1>3, <2>1
<1>4. CASE stage = "start"
  <2>1. f \in Behind("initialized") /\ \A r \in Behind("initialized") : f <= r
    BY <1>0, <1>4 DEF StartIsAt, Line, Behind
  <2>2. QED BY <1>1, <1>4, <2>1
<1>5. CASE stage = "poll"
  <2>1. f \in Behind("started") /\ \A r \in Behind("started") : f <= r
    BY <1>0, <1>5 DEF StartIsAt, Line, Behind
  <2>2. QED BY <1>1, <1>5, <2>1
<1>6. QED BY <1>2, <1>3, <1>4, <1>5 DEF StartIsAt

(* The bot after f in the order of names.                                   *)
LEMMA NextRole ==
    ASSUME NEW S \in SUBSET Role, NEW f \in S, \E r \in S : r > f
    PROVE  \E g \in S : g > f /\ \A r \in S : r < g <=> r <= f
<1> DEFINE T == {r \in S : r > f}
<1>1. S \subseteq Nat
  BY FleetAssumption DEF Role, FleetAssumption
<1>2. PICK g \in T : \A r \in T : g <= r
  <2>1. T \subseteq Nat /\ T # {}
    BY <1>1
  <2>2. QED BY <2>1, LeastOf
<1>3. ASSUME NEW r \in S PROVE r < g <=> r <= f
  <2>1. r \in Nat /\ f \in Nat /\ g \in Nat /\ g > f
    BY <1>1, <1>2
  <2>2. r > f => g <= r
    BY <1>2
  <2>3. QED BY <2>1, <2>2
<1>4. QED BY <1>2, <1>3

LEMMA FirstRole ==
    ASSUME NEW S \in SUBSET Role, S # {}
    PROVE  \E g \in S : \A r \in S : ~(r < g)
<1>1. S \subseteq Nat
  BY FleetAssumption DEF Role, FleetAssumption
<1>2. PICK g \in S : \A r \in S : g <= r
  BY <1>1, LeastOf
<1>3. QED BY <1>1, <1>2

-----------------------------------------------------------------------------
(* The steps, one by one.                                                   *)

LEMMA InvInit == Init => Inv
<1> SUFFICES ASSUME Init PROVE Inv
  OBVIOUS
<1> USE DEF Init
<1>1. TypeOK
  BY DEF TypeOK, Stage, AppState, Level, Nothing
<1>2. ConfigInv /\ NoBotsInv /\ StartInv /\ ReportInv /\ HandlerInv
  BY DEF ConfigInv, NoBotsInv, StartInv, StartStage, ReportInv, HandlerInv
<1>3. ClosingInv
  BY DEF ClosingInv, Closes
<1>4. QED BY <1>1, <1>2, <1>3 DEF Inv

LEMMA LaunchStep ==
    ASSUME Inv, NEW c \in Environment, Launch(c)
    PROVE  Inv'
<1> USE DEF Launch, bots
<1>1. TypeOK'
  BY DEF Inv, TypeOK, Stage
<1>2. ConfigInv'
  BY DEF Inv, ConfigInv
<1>3. NoBotsInv'
  BY DEF Inv, NoBotsInv
<1>4. StartInv' /\ ReportInv' /\ HandlerInv'
  BY DEF Inv, StartInv, StartStage, ReportInv, HandlerInv
<1>5. ClosingInv'
  BY DEF Inv, ClosingInv, Closes
<1>6. QED BY <1>1, <1>2, <1>3, <1>4, <1>5 DEF Inv

LEMMA ValidateStep ==
    ASSUME Inv, Validate
    PROVE  Inv'
<1> USE DEF Validate, Leave, bots
<1>1. TypeOK'
  BY DEF Inv, TypeOK, Stage, Reason
<1>2. ConfigInv'
  BY DEF Inv, ConfigInv
<1>3. NoBotsInv'
  BY DEF Inv, NoBotsInv, Reason
<1>4. StartInv' /\ ReportInv' /\ HandlerInv'
  BY DEF Inv, StartInv, StartStage, ReportInv, HandlerInv
<1>5. ClosingInv'
  BY DEF Inv, ClosingInv, Closes, NoBotsInv
<1>6. QED BY <1>1, <1>2, <1>3, <1>4, <1>5 DEF Inv

LEMMA BuildStep ==
    ASSUME Inv, Build
    PROVE  Inv'
<1>1. config \in Environment /\ Health(config) # "failed"
      /\ stage = "checked" /\ enabled = {} /\ polls = {} /\ failed = {}
  BY DEF Build, Inv, ConfigInv, NoBotsInv
<1>2. CASE /\ Leave("construction") /\ UNCHANGED <<config, bots>>
  <2> USE DEF Leave, bots
  <2>1. TypeOK'
    BY <1>2 DEF Inv, TypeOK, Stage, Reason
  <2>2. ConfigInv'
    BY <1>2 DEF Inv, ConfigInv
  <2>3. NoBotsInv'
    BY <1>1, <1>2 DEF Inv, NoBotsInv, Reason
  <2>4. StartInv' /\ ReportInv' /\ HandlerInv'
    BY <1>2 DEF Inv, StartInv, StartStage, ReportInv, HandlerInv
  <2>5. ClosingInv'
    BY <1>2 DEF Inv, ClosingInv, Closes
  <2>6. QED BY <2>1, <2>2, <2>3, <2>4, <2>5 DEF Inv
<1>3. CASE RuntimeSpec(config) # Raises /\ Construct(RuntimeSpec(config))
  <2> DEFINE roles == RuntimeSpec(config)
  <2>1. /\ stage' = "built" /\ exit' = exit /\ config' = None /\ enabled' = roles
        /\ app' = [r \in Role |-> IF r \in roles THEN "built" ELSE "none"]
        /\ report' = app' /\ UNCHANGED <<polls, failed, todo, refused, inbox, busy>>
    BY <1>3 DEF Construct
  <2>2. roles \subseteq Role
    BY <1>1, <1>3, SpecIsRoles
  <2> HIDE DEF roles
  <2>3. TypeOK'
    BY <2>1, <2>2 DEF Inv, TypeOK, Stage, StartStage, AppState, Level
  <2>4. ConfigInv' /\ NoBotsInv'
    BY <1>1, <2>1, <2>2 DEF Inv, ConfigInv, NoBotsInv
  <2>5. StartInv'
    <3>1. roles # {}
      BY <1>1, <1>3, HealthFails, IdentityIsBuildable, SpecCases DEF roles
    <3>2. PICK f \in roles : \A r \in roles : ~(r < f)
      BY <2>2, <3>1, FirstRole
    <3>3. \A r \in roles : report'[r] = "built" /\ app'[r] = "built"
      BY <2>1, <2>2
    <3>4. StartIsAt(f)'
      BY <2>1, <3>2, <3>3 DEF StartIsAt, Line, Apps
    <3>5. failed' = {} /\ polls' = Behind("polling")'
      BY <1>1, <2>1, <3>3 DEF Behind
    <3>6. QED BY <2>1, <3>2, <3>4, <3>5 DEF StartInv
  <2>6. ReportInv'
    BY <2>1 DEF ReportInv
  <2>7. HandlerInv'
    <3>1. \A r \in Role : app[r] = "none"
      BY <1>1 DEF Inv, NoBotsInv
    <3>2. inbox \cup busy = {}
      BY <3>1 DEF Inv, TypeOK, HandlerInv
    <3>3. QED BY <2>1, <3>2 DEF HandlerInv
  <2>8. ClosingInv'
    BY <2>1 DEF ClosingInv, Closes
  <2>9. QED BY <2>3, <2>4, <2>5, <2>6, <2>7, <2>8 DEF Inv
<1>4. QED BY <1>2, <1>3 DEF Build

(* A step of the start that succeeds at the bot f, up to the stage it goes  *)
(* on to.                                                                   *)
Succeeds(f, level) ==
    /\ report' = [report EXCEPT ![f] = level] /\ failed' = {}
    /\ UNCHANGED <<launches, config, enabled, refused, inbox, busy, exit, todo>>

LEMMA StartTyped ==
    ASSUME Inv, NEW f \in enabled, NEW level \in Level, Succeeds(f, level),
           stage \in StartStage, stage' \in StartStage \cup {"serving"},
           \/ app' = app
           \/ \E a \in {"ready", "running"} : app' = [app EXCEPT ![f] = a],
           polls' \in {polls, polls \cup {f}},
           app[f] \in {"built", "ready", "running"},
           app[f] = "running" => app' = app
    PROVE  TypeOK' /\ ConfigInv' /\ NoBotsInv' /\ ReportInv' /\ HandlerInv' /\ ClosingInv'
<1> USE DEF Succeeds
<1>1. f \in Role
  BY DEF Inv, TypeOK
<1>2. TypeOK'
  BY <1>1 DEF Inv, TypeOK, Stage, AppState
<1>3. ConfigInv' /\ NoBotsInv'
  BY <1>1 DEF Inv, TypeOK, ConfigInv, NoBotsInv, StartStage
<1>4. ReportInv'
  BY DEF ReportInv, StartStage
<1>5. HandlerInv'
  <2>1. ASSUME NEW r \in inbox \cup busy PROVE app'[r] = app[r]
    BY <1>1 DEF Inv, HandlerInv, TypeOK
  <2>2. QED BY <2>1 DEF Inv, HandlerInv
<1>6. ClosingInv'
  <2>1. \A r \in Role : app'[r] \notin {"stopping", "closed"}
    BY <1>1 DEF Inv, TypeOK, ClosingInv, StartStage
  <2>2. QED BY <2>1 DEF ClosingInv, Closes, StartStage
<1>7. QED BY <1>2, <1>3, <1>4, <1>5, <1>6

(* What a failure at the bot f leaves to be closed, and reports.            *)
LEMMA FailStep ==
    ASSUME Inv, NEW f \in enabled, FailAt(f), Starting, StartIsAt(f),
           stage \in StartStage \ {"built"}
    PROVE  Inv'
<1> USE DEF FailAt, Starting, bots, disk
<1>1. f \in Role /\ enabled \subseteq Role /\ Role \subseteq Nat /\ failed = {}
      /\ polls = Behind("polling")
  BY FleetAssumption DEF Inv, TypeOK, Role, FleetAssumption, StartInv
<1>2. todo' \in [polling : SUBSET Role, started : SUBSET Role, initialized : SUBSET Role]
  BY <1>1 DEF RollbackList, Behind, Opened
<1>3. TypeOK'
  BY <1>1, <1>2 DEF Inv, TypeOK, Stage, Reason
<1>4. ConfigInv' /\ NoBotsInv' /\ StartInv'
  BY <1>1 DEF Inv, ConfigInv, NoBotsInv, StartInv, StartStage
<1>5. HandlerInv'
  BY DEF Inv, HandlerInv
<1>6. ReportInv'
  <2>1. FailedAt(f)'
    BY <1>1 DEF FailedAt, StartIsAt, Line, StartStage
  <2>2. QED BY <2>1 DEF ReportInv
<1>7. ClosingInv'
  <2>1. \A r \in Role : app[r] \notin {"stopping", "closed"}
    BY DEF Inv, ClosingInv, StartStage
  <2>2. /\ Behind("polling") \subseteq todo'.polling
        /\ Opened({"running"}) = todo'.started
        /\ Opened({"ready", "running"}) = todo'.initialized
        /\ todo'.initialized \subseteq enabled
    BY DEF RollbackList, Opened
  <2>3. \A r \in enabled : app[r] \notin {"none", "built", "closed"} => r \in todo'.initialized
    BY <1>1, <2>1, <2>2 DEF Opened, Inv, TypeOK, AppState
  <2>4. \A r \in enabled : app[r] \in {"running", "stopping"} => r \in todo'.started
    BY <1>1, <2>1, <2>2 DEF Opened
  <2>5. QED BY <1>1, <2>1, <2>2, <2>3, <2>4 DEF ClosingInv, Closes
<1>8. QED BY <1>3, <1>4, <1>5, <1>6, <1>7 DEF Inv

LEMMA BeginProbesStep ==
    ASSUME Inv, BeginProbes
    PROVE  Inv'
<1> USE DEF BeginProbes, bots
<1>1. TypeOK' /\ ConfigInv' /\ NoBotsInv'
  BY DEF Inv, TypeOK, Stage, StartStage, ConfigInv, NoBotsInv
<1>2. StartInv'
  BY DEF Inv, StartInv, StartStage, Behind, StartIsAt, Line, Apps
<1>3. ReportInv' /\ HandlerInv' /\ ClosingInv'
  BY DEF Inv, ReportInv, HandlerInv, ClosingInv, Closes
<1>4. QED BY <1>1, <1>2, <1>3 DEF Inv

LEMMA ProbeStep ==
    ASSUME Inv, Probe
    PROVE  Inv'
<1>1. PICK f \in enabled : StartIsAt(f)
  BY DEF Probe, Inv, StartInv, StartStage
<1>2. stage = "probing" /\ Current("built") = f
  BY <1>1, CursorIsCurrent DEF Probe, Inv
<1>3. CASE FailAt(f)
  BY <1>1, <1>2, <1>3, FailStep DEF Probe, StartStage
<1>4. CASE /\ Mark(f, "reachable") /\ UNCHANGED <<app, polls>>
           /\ Go(IF Behind("built") = {f} THEN "initialize" ELSE "probing")
  <2>1. /\ Succeeds(f, "reachable") /\ UNCHANGED <<app, polls>>
        /\ stage' = IF Behind("built") = {f} THEN "initialize" ELSE "probing"
    BY <1>2, <1>4 DEF Probe, Starting, Mark, Go, Succeeds, Inv, StartInv, StartStage, disk
  <2>2. \A r \in enabled :
           /\ report[r] = IF r < f THEN "reachable" ELSE "built"
           /\ report'[r] = IF r <= f THEN "reachable" ELSE "built"
           /\ app'[r] = "built"
    <3>1. enabled \subseteq Role /\ Role \subseteq Nat
      BY FleetAssumption DEF Inv, TypeOK, Role, FleetAssumption
    <3>2. \A r \in enabled : /\ report[r] = IF r < f THEN "reachable" ELSE "built"
                            /\ app[r] = "built"
      BY <1>1, <1>2, <3>1 DEF StartIsAt, Line, Apps
    <3>3. \A r \in enabled : report'[r] = IF r = f THEN "reachable" ELSE report[r]
      BY <2>1, <3>1 DEF Succeeds, Inv, TypeOK
    <3>4. QED BY <2>1, <3>1, <3>2, <3>3
  <2>3. TypeOK' /\ ConfigInv' /\ NoBotsInv' /\ ReportInv' /\ HandlerInv' /\ ClosingInv'
    BY <1>2, <2>1, <2>2, StartTyped DEF Level, StartStage
  <2>4. StartInv'
    <3>0. enabled' = enabled /\ enabled \subseteq Role /\ Role \subseteq Nat
      BY <2>1, FleetAssumption DEF Inv, TypeOK, Role, FleetAssumption, Succeeds
    <3>1. failed' = {} /\ polls' = Behind("polling")'
      BY <1>2, <2>1, <2>2 DEF Succeeds, Behind, Inv, StartInv, StartStage
    <3>2. CASE \E r \in enabled : r > f
      <4>1. PICK g \in enabled : g > f /\ \A r \in enabled : r < g <=> r <= f
        BY <3>0, <3>2, NextRole
      <4>2. stage' = "probing"
        BY <2>1, <2>2, <3>0, <3>2 DEF Behind
      <4>3. StartIsAt(g)'
        BY <2>2, <3>0, <4>1, <4>2 DEF StartIsAt, Line, Apps
      <4>4. QED BY <3>0, <3>1, <4>3 DEF StartInv
    <3>3. CASE \A r \in enabled : r <= f
      <4>1. stage' = "initialize"
        <5>1. \A r \in enabled : report[r] = "built" <=> r = f
          BY <2>2, <3>0, <3>3
        <5>2. QED BY <2>1, <5>1 DEF Behind
      <4>2. PICK g \in enabled : \A r \in enabled : ~(r < g)
        BY <3>0, FirstRole
      <4>3. StartIsAt(g)'
        BY <2>2, <3>0, <3>3, <4>1, <4>2 DEF StartIsAt, Line, Apps
      <4>4. QED BY <3>0, <3>1, <4>3 DEF StartInv
    <3>4. QED BY <3>0, <3>2, <3>3
  <2>5. QED BY <2>3, <2>4 DEF Inv
<1>5. QED BY <1>2, <1>3, <1>4 DEF Probe

(* Three stages begin and end at one bot: report and applications as        *)
(* StartIsAt has them, with a step further at f.                            *)
LEMMA LineMoves ==
    ASSUME Inv, NEW f \in enabled, NEW level \in Level, Succeeds(f, level),
           NEW here, Line(f, "polling", here, "reachable")
    PROVE  /\ Line(f, "polling", level, "reachable")'
           /\ \A r \in enabled : r < f \/ r = f \/ f < r
<1>1. enabled \subseteq Role /\ Role \subseteq Nat /\ enabled' = enabled
  BY FleetAssumption DEF Inv, TypeOK, Role, FleetAssumption, Succeeds
<1>2. \A r \in enabled : report'[r] = IF r = f THEN level ELSE report[r]
  BY <1>1 DEF Succeeds, Inv, TypeOK
<1>3. QED BY <1>1, <1>2 DEF Line

LEMMA InitializeStep ==
    ASSUME Inv, Initialize
    PROVE  Inv'
<1>1. PICK f \in enabled : StartIsAt(f)
  BY DEF Initialize, Inv, StartInv, StartStage
<1>2. stage = "initialize" /\ Current("reachable") = f
  BY <1>1, CursorIsCurrent DEF Initialize, Inv
<1>3. CASE FailAt(f)
  BY <1>1, <1>2, <1>3, FailStep DEF Initialize, StartStage
<1>4. CASE /\ app' = [app EXCEPT ![f] = "ready"] /\ Mark(f, "initialized")
           /\ Go("start") /\ UNCHANGED polls
  <2>1. Succeeds(f, "initialized") /\ stage' = "start" /\ enabled' = enabled
    BY <1>2, <1>4
    DEF Initialize, Starting, Mark, Go, Succeeds, Inv, StartInv, StartStage, disk
  <2>2. Line(f, "polling", "reachable", "reachable") /\ Apps(f, "running", "built")
    BY <1>1, <1>2 DEF StartIsAt
  <2>3. enabled \subseteq Role /\ Role \subseteq Nat
    BY FleetAssumption DEF Inv, TypeOK, Role, FleetAssumption
  <2>4. app[f] = "built"
    BY <2>2, <2>3 DEF Apps
  <2>5. TypeOK' /\ ConfigInv' /\ NoBotsInv' /\ ReportInv' /\ HandlerInv' /\ ClosingInv'
    BY <1>2, <1>4, <2>1, <2>4, StartTyped DEF Level, StartStage
  <2>6. Line(f, "polling", "initialized", "reachable")'
    BY <2>1, <2>2, LineMoves DEF Level
  <2>7. Apps(f, "running", "ready")'
    BY <1>4, <2>1, <2>2, <2>3 DEF Apps, Inv, TypeOK
  <2>8. failed' = {} /\ polls' = Behind("polling")'
    BY <1>2, <1>4, <2>1, <2>2, <2>3, <2>6
    DEF Succeeds, Behind, Line, Inv, StartInv, StartStage
  <2>9. StartInv'
    BY <2>1, <2>6, <2>7, <2>8 DEF StartInv, StartIsAt
  <2>10. QED BY <2>5, <2>9 DEF Inv
<1>5. QED BY <1>2, <1>3, <1>4 DEF Initialize

LEMMA StartStep ==
    ASSUME Inv, Start
    PROVE  Inv'
<1>1. PICK f \in enabled : StartIsAt(f)
  BY DEF Start, Inv, StartInv, StartStage
<1>2. stage = "start" /\ Current("initialized") = f
  BY <1>1, CursorIsCurrent DEF Start, Inv
<1>3. CASE FailAt(f)
  BY <1>1, <1>2, <1>3, FailStep DEF Start, StartStage
<1>4. CASE /\ app' = [app EXCEPT ![f] = "running"] /\ Mark(f, "started")
           /\ Go("poll") /\ UNCHANGED polls
  <2>1. Succeeds(f, "started") /\ stage' = "poll" /\ enabled' = enabled
    BY <1>2, <1>4
    DEF Start, Starting, Mark, Go, Succeeds, Inv, StartInv, StartStage, disk
  <2>2. Line(f, "polling", "initialized", "reachable") /\ Apps(f, "running", "ready")
    BY <1>1, <1>2 DEF StartIsAt
  <2>3. enabled \subseteq Role /\ Role \subseteq Nat
    BY FleetAssumption DEF Inv, TypeOK, Role, FleetAssumption
  <2>4. app[f] = "ready"
    BY <2>2, <2>3 DEF Apps
  <2>5. TypeOK' /\ ConfigInv' /\ NoBotsInv' /\ ReportInv' /\ HandlerInv' /\ ClosingInv'
    BY <1>2, <1>4, <2>1, <2>4, StartTyped DEF Level, StartStage
  <2>6. Line(f, "polling", "started", "reachable")'
    BY <2>1, <2>2, LineMoves DEF Level
  <2>7. Apps(f, "running", "running")'
    BY <1>4, <2>1, <2>2, <2>3 DEF Apps, Inv, TypeOK
  <2>8. failed' = {} /\ polls' = Behind("polling")'
    BY <1>2, <1>4, <2>1, <2>2, <2>3, <2>6
    DEF Succeeds, Behind, Line, Inv, StartInv, StartStage
  <2>9. StartInv'
    BY <2>1, <2>6, <2>7, <2>8 DEF StartInv, StartIsAt
  <2>10. QED BY <2>5, <2>9 DEF Inv
<1>5. QED BY <1>2, <1>3, <1>4 DEF Start

LEMMA StartPollingStep ==
    ASSUME Inv, StartPolling
    PROVE  Inv'
<1>1. PICK f \in enabled : StartIsAt(f)
  BY DEF StartPolling, Inv, StartInv, StartStage
<1>2. stage = "poll" /\ Current("started") = f
  BY <1>1, CursorIsCurrent DEF StartPolling, Inv
<1>3. CASE FailAt(f)
  BY <1>1, <1>2, <1>3, FailStep DEF StartPolling, StartStage
<1>4. CASE /\ polls' = polls \cup {f} /\ Mark(f, "polling") /\ UNCHANGED app
           /\ Go(IF Behind("reachable") = {} THEN "serving" ELSE "initialize")
  <2>1. /\ Succeeds(f, "polling") /\ enabled' = enabled
        /\ stage' = IF Behind("reachable") = {} THEN "serving" ELSE "initialize"
    BY <1>2, <1>4
    DEF StartPolling, Starting, Mark, Go, Succeeds, Inv, StartInv, StartStage, disk
  <2>2. Line(f, "polling", "started", "reachable") /\ Apps(f, "running", "running")
    BY <1>1, <1>2 DEF StartIsAt
  <2>3. enabled \subseteq Role /\ Role \subseteq Nat
    BY FleetAssumption DEF Inv, TypeOK, Role, FleetAssumption
  <2>4. app[f] = "running"
    BY <2>2, <2>3 DEF Apps
  <2>5. TypeOK' /\ ConfigInv' /\ NoBotsInv' /\ ReportInv' /\ HandlerInv' /\ ClosingInv'
    BY <1>2, <1>4, <2>1, <2>4, StartTyped DEF Level, StartStage
  <2>6. Line(f, "polling", "polling", "reachable")'
    BY <2>1, <2>2, LineMoves DEF Level
  <2>7. failed' = {} /\ polls' = Behind("polling")'
    BY <1>2, <1>4, <2>1, <2>2, <2>3, <2>6
    DEF Succeeds, Behind, Line, Inv, StartInv, StartStage
  <2>8. StartInv'
    <3>1. CASE \E r \in enabled : r > f
      <4>1. PICK g \in enabled : g > f /\ \A r \in enabled : r < g <=> r <= f
        BY <2>3, <3>1, NextRole
      <4>2. stage' = "initialize"
        BY <2>1, <2>2, <2>3, <4>1 DEF Behind, Line
      <4>3. Line(g, "polling", "reachable", "reachable")'
        BY <2>1, <2>3, <2>6, <4>1 DEF Line
      <4>4. Apps(g, "running", "built")'
        BY <1>4, <2>1, <2>2, <2>3, <4>1 DEF Apps
      <4>5. QED BY <2>1, <2>7, <4>1, <4>2, <4>3, <4>4 DEF StartInv, StartIsAt
    <3>2. CASE \A r \in enabled : r <= f
      <4>1. stage' = "serving"
        <5>1. \A r \in enabled : report[r] # "reachable"
          BY <2>2, <2>3, <3>2 DEF Line
        <5>2. QED BY <2>1, <5>1 DEF Behind
      <4>2. QED BY <4>1 DEF StartInv, StartStage
    <3>3. QED BY <2>3, <3>1, <3>2
  <2>9. QED BY <2>5, <2>8 DEF Inv
<1>5. QED BY <1>2, <1>3, <1>4 DEF StartPolling

(* Handlers, tasks and the repository between two runs leave main() and its *)
(* bots as they are; an update comes from a bot that runs.                  *)
LEMMA ServedStep ==
    ASSUME Inv,
           UNCHANGED <<stage, exit, config, enabled, app, polls, report, failed, todo,
                       refused>>,
           inbox' \subseteq Role, busy' \subseteq Role,
           \A r \in inbox' \cup busy' :
              r \in inbox \cup busy \/ (r \in Role /\ app[r] = "running")
    PROVE  Inv'
<1>1. TypeOK' /\ ConfigInv' /\ NoBotsInv'
  BY DEF Inv, TypeOK, ConfigInv, NoBotsInv
<1>2. StartInv'
  BY DEF Inv, StartInv, StartStage, Behind, StartIsAt, Line, Apps
<1>3. ReportInv'
  BY DEF Inv, ReportInv, FailedAt
<1>4. HandlerInv'
  BY DEF Inv, HandlerInv
<1>5. ClosingInv'
  BY DEF Inv, ClosingInv, Closes
<1>6. QED BY <1>1, <1>2, <1>3, <1>4, <1>5 DEF Inv

LEMMA FetchStep ==
    ASSUME Inv, NEW r \in Role, Fetch(r) \/ HandlerActs(r)
    PROVE  Inv'
<1>1. CASE Fetch(r)
  BY <1>1, ServedStep DEF Fetch, Still, Inv, TypeOK
<1>2. CASE HandlerActs(r)
  BY <1>2, ServedStep DEF HandlerActs, Handle, FinishHandling, Still, Inv, TypeOK
<1>3. QED BY <1>1, <1>2

LEMMA TaskStep ==
    ASSUME Inv, \/ \E t \in Task : Acquire(t)
                \/ ReleaseByGit \/ RemoveTree \/ Prune \/ GitForgets
    PROVE  Inv'
<1>1. UNCHANGED <<stage, exit, config, enabled, app, polls, report, failed, todo,
                  refused, inbox, busy>>
  BY DEF Acquire, ReleaseByGit, RemoveTree, Prune, GitForgets, Still, bots
<1>2. QED BY <1>1, ServedStep DEF Inv, TypeOK

LEMMA InterruptStep ==
    ASSUME Inv, Interrupt
    PROVE  Inv'
<1>0. UNCHANGED <<launches, config, enabled, app, polls, report, failed, refused,
                  inbox, busy, disk>>
  BY DEF Interrupt
<1>1. CASE /\ stage = "serving" /\ stage' = "closing" /\ exit' = "stopped"
           /\ todo' = [polling |-> enabled, started |-> enabled, initialized |-> enabled]
  <2>1. TypeOK' /\ ConfigInv' /\ NoBotsInv' /\ StartInv' /\ ReportInv' /\ HandlerInv'
    BY <1>0, <1>1
    DEF Inv, TypeOK, Stage, StartStage, Reason, ConfigInv, NoBotsInv, StartInv,
        ReportInv, HandlerInv
  <2>2. ClosingInv'
    BY <1>0, <1>1 DEF Inv, ClosingInv, Closes
  <2>3. QED BY <2>1, <2>2 DEF Inv
<1>2. CASE /\ stage \in {"probing", "initialize", "start", "poll", "closing"}
           /\ Leave("cancelled") /\ todo' = todo
  BY <1>0, <1>2
  DEF Leave, Inv, TypeOK, Stage, StartStage, Reason, ConfigInv, NoBotsInv, StartInv,
      ReportInv, HandlerInv, ClosingInv, Closes
<1>3. QED BY <1>1, <1>2 DEF Interrupt

(* A step of the closing keeps what is reported and who is still served.    *)
LEMMA ClosingKeeps ==
    ASSUME Inv, Closing,
           app' \in [Role -> AppState], polls' \subseteq polls, refused' \subseteq Role,
           todo' \in [polling : SUBSET Role, started : SUBSET Role,
                      initialized : SUBSET Role],
           \A r \in Role \ enabled : app'[r] = "none",
           \A r \in inbox \cup busy : app'[r] \in {"running", "stopping"}
    PROVE  TypeOK' /\ ConfigInv' /\ NoBotsInv' /\ StartInv' /\ ReportInv' /\ HandlerInv'
<1> USE DEF Closing
<1>1. TypeOK' /\ ConfigInv' /\ NoBotsInv'
  BY DEF Inv, TypeOK, ConfigInv, NoBotsInv
<1>2. StartInv' /\ HandlerInv'
  BY DEF StartInv, StartStage, HandlerInv
<1>3. ReportInv'
  BY DEF Inv, ReportInv, FailedAt
<1>4. QED BY <1>1, <1>2, <1>3

LEMMA StopUpdaterStep ==
    ASSUME Inv, StopUpdater
    PROVE  Inv'
<1> DEFINE r == Max(todo.polling)
<1>1. r \in Role
  BY MaxRole DEF StopUpdater, Inv, TypeOK
<1>2. /\ stage = "closing" /\ app' = app /\ todo' = [todo EXCEPT !.polling = @ \ {r}]
      /\ refused' = refused \/ refused' = refused \cup {r}
      /\ polls' = IF refused' = refused THEN polls \ {r} ELSE polls
      /\ Closing
  BY DEF StopUpdater, Closing, MayRaise, DropPolling
<1> HIDE DEF r
<1>3. /\ todo' \in [polling : SUBSET Role, started : SUBSET Role,
                    initialized : SUBSET Role]
      /\ todo'.polling = todo.polling \ {r} /\ todo'.started = todo.started
      /\ todo'.initialized = todo.initialized
  BY <1>2 DEF Inv, TypeOK
<1>4. TypeOK' /\ ConfigInv' /\ NoBotsInv' /\ StartInv' /\ ReportInv' /\ HandlerInv'
  BY <1>1, <1>2, <1>3, ClosingKeeps DEF Inv, TypeOK, HandlerInv, NoBotsInv
<1>5. ClosingInv'
  BY <1>2, <1>3 DEF Closing, Inv, ClosingInv, Closes
<1>6. QED BY <1>4, <1>5 DEF Inv

LEMMA StopApplicationStep ==
    ASSUME Inv, StopApplication
    PROVE  Inv'
<1> DEFINE r == Max(todo.started)
<1>1. r \in Role
  BY MaxRole DEF StopApplication, Inv, TypeOK
<1>2. /\ stage = "closing" /\ Closing /\ UNCHANGED polls
      /\ refused' = refused \/ refused' = refused \cup {r}
      /\ \/ /\ app[r] = "running" /\ app' = [app EXCEPT ![r] = "stopping"]
            /\ todo' = todo
         \/ /\ app[r] = "stopping" /\ app' = [app EXCEPT ![r] = "ready"]
            /\ r \notin inbox \cup busy
            /\ todo' = [todo EXCEPT !.started = @ \ {r}]
  BY DEF StopApplication, Closing, MayRaise
<1> HIDE DEF r
<1>3. /\ todo' \in [polling : SUBSET Role, started : SUBSET Role,
                    initialized : SUBSET Role]
      /\ todo'.polling = todo.polling
      /\ todo'.initialized = todo.initialized
      /\ todo'.started = IF app[r] = "running" THEN todo.started ELSE todo.started \ {r}
  BY <1>2 DEF Inv, TypeOK
<1>4. /\ app' \in [Role -> AppState] /\ \A q \in Role \ {r} : app'[q] = app[q]
      /\ app'[r] = IF app[r] = "running" THEN "stopping" ELSE "ready"
      /\ app[r] \in {"running", "stopping"}
  BY <1>1, <1>2 DEF Inv, TypeOK, AppState
<1>5. TypeOK' /\ ConfigInv' /\ NoBotsInv' /\ StartInv' /\ ReportInv' /\ HandlerInv'
  <2>1. \A q \in inbox \cup busy : app'[q] \in {"running", "stopping"}
    BY <1>2, <1>4 DEF Inv, TypeOK, HandlerInv
  <2>2. \A q \in Role \ enabled : app'[q] = "none"
    BY <1>1, <1>4 DEF Inv, NoBotsInv
  <2>3. QED BY <1>1, <1>2, <1>3, <1>4, <2>1, <2>2, ClosingKeeps DEF Inv, TypeOK
<1>6. ClosingInv'
  BY <1>1, <1>2, <1>3, <1>4 DEF Closing, Inv, TypeOK, ClosingInv, Closes
<1>7. QED BY <1>5, <1>6 DEF Inv

LEMMA ShutDownStep ==
    ASSUME Inv, ShutDownApplication
    PROVE  Inv'
<1> DEFINE r == Max(todo.initialized)
<1>1. r \in todo.initialized /\ r \in enabled /\ r \in Role
  <2>1. r \in todo.initialized
    BY MaxRole DEF ShutDownApplication, Inv, TypeOK
  <2>2. todo.initialized \subseteq enabled /\ enabled \subseteq Role
    BY DEF ShutDownApplication, Closing, Inv, TypeOK, ClosingInv, Closes
  <2>3. QED BY <2>1, <2>2
<1>2. /\ stage = "closing" /\ Closing /\ polls' = polls /\ todo.started = {}
      /\ refused' = refused \/ refused' = refused \cup {r}
      /\ app' = IF refused' = refused THEN [app EXCEPT ![r] = "closed"] ELSE app
      /\ todo' = [todo EXCEPT !.initialized = @ \ {r}]
  BY DEF ShutDownApplication, Closing, MayRaise, AllStopped
<1> HIDE DEF r
<1>3. /\ todo' \in [polling : SUBSET Role, started : SUBSET Role,
                    initialized : SUBSET Role]
      /\ todo'.polling = todo.polling /\ todo'.started = {}
      /\ todo'.initialized = todo.initialized \ {r}
  BY <1>2 DEF Inv, TypeOK
<1>4. /\ app' \in [Role -> AppState] /\ \A q \in Role \ {r} : app'[q] = app[q]
      /\ refused' = refused => app'[r] = "closed"
      /\ app'[r] \in {app[r], "closed"}
  BY <1>1, <1>2 DEF Inv, TypeOK, AppState
<1>5. \A q \in Role : app[q] \notin {"running", "stopping"}
  BY <1>2 DEF Inv, TypeOK, NoBotsInv, ClosingInv, Closes
<1>6. inbox \cup busy = {}
  BY <1>5 DEF Inv, TypeOK, HandlerInv
<1>7. TypeOK' /\ ConfigInv' /\ NoBotsInv' /\ StartInv' /\ ReportInv' /\ HandlerInv'
  <2>1. \A q \in Role \ enabled : app'[q] = "none"
    BY <1>1, <1>4 DEF Inv, NoBotsInv
  <2>2. QED BY <1>1, <1>2, <1>3, <1>4, <1>6, <2>1, ClosingKeeps DEF Inv, TypeOK
<1>8. ClosingInv'
  BY <1>1, <1>2, <1>3, <1>4, <1>5 DEF Closing, Inv, TypeOK, ClosingInv, Closes
<1>9. QED BY <1>7, <1>8 DEF Inv

LEMMA EndStep ==
    ASSUME Inv, Closed \/ EndProcess \/ Kill
    PROVE  Inv'
<1>1. CASE Closed
  <2> USE DEF Closed, bots
  <2>1. TypeOK' /\ ConfigInv' /\ NoBotsInv' /\ StartInv' /\ HandlerInv'
    BY <1>1
    DEF Inv, TypeOK, Stage, ConfigInv, NoBotsInv, StartInv, StartStage, HandlerInv,
        ClosingInv, Closes, Reason
  <2>2. ReportInv' /\ ClosingInv'
    BY <1>1 DEF Inv, ReportInv, FailedAt, ClosingInv, Closes
  <2>3. QED BY <2>1, <2>2 DEF Inv
<1>2. CASE EndProcess \/ Kill
  <2>1. stage' = "down" /\ config' = None /\ NoBots /\ exit' = exit
    BY <1>2 DEF EndProcess, Kill, Gone
  <2>2. TypeOK'
    BY <2>1 DEF Inv, TypeOK, Stage, AppState, Level, NoBots, Nothing
  <2>3. ConfigInv' /\ NoBotsInv' /\ StartInv' /\ ReportInv' /\ HandlerInv'
    BY <2>1 DEF ConfigInv, NoBotsInv, StartInv, StartStage, ReportInv, HandlerInv, NoBots
  <2>4. ClosingInv'
    BY <2>1 DEF ClosingInv, Closes, NoBots
  <2>5. QED BY <2>2, <2>3, <2>4 DEF Inv
<1>3. QED BY <1>1, <1>2

-----------------------------------------------------------------------------
(* The theorems.                                                            *)

(* Every run of the process keeps the invariant.                            *)
THEOREM InvHolds == Spec => []Inv
<1>1. Inv /\ [Next]_vars => Inv'
  <2> SUFFICES ASSUME Inv, [Next]_vars PROVE Inv'
    OBVIOUS
  <2>1. CASE MainActs
    BY <2>1, ValidateStep, BuildStep, BeginProbesStep, ProbeStep, InitializeStep,
       StartStep, StartPollingStep, StopUpdaterStep, StopApplicationStep, ShutDownStep,
       EndStep
    DEF MainActs
  <2>2. CASE UNCHANGED vars
    BY <2>2, ServedStep DEF vars, bots, Inv, TypeOK
  <2>3. QED
    BY <2>1, <2>2, LaunchStep, FetchStep, TaskStep, InterruptStep, EndStep DEF Next
<1>2. QED BY <1>1, InvInit, PTL DEF Spec

(* The variables of the process keep their types.                           *)
THEOREM TypeCorrect == Spec => []TypeOK
BY InvHolds, PTL DEF Inv

(* What validation lets pass can be built, and what it refuses for its bots *)
(* cannot, for any roles, tokens and settings.                              *)
THEOREM ValidatorAgreesWithBuilderHolds == Spec => []ValidatorAgreesWithBuilder
<1>1. Inv => ValidatorAgreesWithBuilder
  <2> SUFFICES ASSUME Inv, config # None PROVE ValidatorAgreesWithBuilder
    BY DEF ValidatorAgreesWithBuilder
  <2>1. config \in Environment
    BY DEF Inv, TypeOK
  <2>2. QED
    BY <2>1, HealthFails, IdentityIsBuildable DEF Inv, ConfigInv, ValidatorAgreesWithBuilder
<1>2. QED BY <1>1, InvHolds, PTL

(* A start that fails names its bot and leaves none polling or open, for    *)
(* any number of bots and wherever it stopped.                              *)
THEOREM FailedStartIsUndoneHolds == Spec => []FailedStartIsUndone
<1>1. Inv => FailedStartIsUndone
  <2> SUFFICES ASSUME Inv PROVE FailedStartIsUndone
    OBVIOUS
  <2>1. exit \in {"startup", "stopped"} /\ stage = "exited" =>
           \A r \in enabled \ refused : ~Left(r)
    BY DEF Inv, ClosingInv, Closes, Nothing, Left
  <2>2. QED BY <2>1 DEF Inv, ReportInv, FailedAt, FailedStartIsUndone
<1>2. QED BY <1>1, InvHolds, PTL

(* As long as a handler may answer, the bot it answers through can send.    *)
THEOREM HandlersHaveTheirBotsHolds == Spec => []HandlersHaveTheirBots
<1>1. Inv => HandlersHaveTheirBots
  <2> SUFFICES ASSUME Inv, NEW r \in busy, exit # "cancelled", NEW speaker \in Role,
                      app[Sender(speaker)] = "closed"
               PROVE  FALSE
    BY DEF HandlersHaveTheirBots
  <2>1. r \in Role /\ app[r] \in {"running", "stopping"} /\ Sender(speaker) \in Role
    BY FleetAssumption DEF Inv, TypeOK, HandlerInv, Sender, FleetAssumption
  <2>2. r \in enabled /\ Sender(speaker) \in enabled
    BY <2>1 DEF Inv, NoBotsInv
  <2>3. Closes
    BY <2>1, <2>2 DEF Inv, ClosingInv, NoBotsInv, Closes, Reason
  <2>4. todo.started = {} /\ r \in todo.started
    BY <2>1, <2>2, <2>3 DEF Inv, ClosingInv
  <2>5. QED BY <2>4
<1>2. QED BY <1>1, InvHolds, PTL
=============================================================================
