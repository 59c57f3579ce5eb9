------------------------------- MODULE Factors -------------------------------
(***************************************************************************)
(* The registry of grid carbon factors and the sustainability goals        *)
(* (api/sustainability.py), served while servers start and seed the same   *)
(* tables (Startup).  One factor is to be the active one: the KPIs and the *)
(* report take the first active row they find.                             *)
(*                                                                         *)
(* PostgreSQL runs at READ COMMITTED: the bulk UPDATE works on the rows of *)
(* its own snapshot, waits for those another session has updated, and does *)
(* not see rows inserted meanwhile.  On SQLite a writer holds the whole    *)
(* database from its first write to its commit.                            *)
(***************************************************************************)
EXTENDS Startup

CONSTANTS
  NoRow,        \* no factor
  GoalTypes,    \* types of goals a request may name
  NewGrids,     \* regions a request may add a factor for
  MaxChanges    \* bound: requests that change something

ASSUME FactorsAssumption ==
  /\ MaxChanges \in Nat /\ GoalTypes \subseteq STRING /\ NewGrids \subseteq STRING
  /\ Servers \cap Workers = {} /\ NoOne \notin Workers

VARIABLES
  desk,      \* worker -> its request
  changes    \* requests so far

fvars == <<svars, desk, changes>>

(* op: what is asked; target: the factor to activate or the row to insert; *)
(* seen: rows the bulk UPDATE works on; off: rows it has set inactive, and *)
(* holds until the commit; old: the factors when the request began, done:  *)
(* the commit has succeeded (the last two are not in the code).            *)
NoDesk ==
  [op |-> "none", at |-> "idle", target |-> NoRow, seen |-> {}, off |-> {},
   old |-> {}, done |-> FALSE]

FactorsInit ==
  /\ StartupInit
  /\ desk = [w \in Workers |-> NoDesk]
  /\ changes = 0

Factors == Named("grid")

-----------------------------------------------------------------------------
(* Requests reach a server that has started.                               *)

Begin(w, op, stage, target) ==
  /\ desk[w].at = "idle" /\ changes < MaxChanges
  /\ \E s \in Servers : server[s].step = Up
  /\ desk' = [desk EXCEPT ![w] =
        [NoDesk EXCEPT !.op = op, !.at = stage, !.target = target, !.old = Factors]]
  /\ changes' = changes + 1
  /\ UNCHANGED svars

(* activate_carbon_factor loads its target first; an unknown id is 404.    *)
UnknownFactor(w) ==
  /\ desk[w].at = "idle"
  /\ \E s \in Servers : server[s].step = Up
  /\ UNCHANGED fvars

Activate(w) == \E f \in Factors : Begin(w, "activate", "update", f)

(* add_carbon_factor: is_active decides whether the others are reset.      *)
Add(w) ==
  \E g \in NewGrids :
     LET row == Row("grid", g, w, changes) IN
     \/ Begin(w, "addActive", "update", row)
     \/ Begin(w, "addInactive", "commit", row)

(* create_or_update_goal looks for the first goal of the type; an update   *)
(* of one leaves the rows as they are.                                     *)
SetGoal(w) ==
  \E t \in GoalTypes :
     IF \E r \in Named("goal") : r.name = t THEN Begin(w, "updateGoal", "commit", NoRow)
     ELSE Begin(w, "addGoal", "commit", Row("goal", t, w, changes))

-----------------------------------------------------------------------------
(* UPDATE carbon_factors SET is_active = false, on every row.              *)

(* Slip: WHERE is_active, to spare the rows that are off already.          *)
SlipTargeted == active

Targeted == Factors

Snapshot(w) ==
  /\ desk[w].at = "update" /\ engine = "postgresql"
  /\ desk' = [desk EXCEPT ![w].seen = Targeted, ![w].at = "locking"]
  /\ UNCHANGED <<svars, changes>>

RowsFree(w) == \A v \in Workers \ {w} : desk[v].off \cap desk[w].seen = {}

UpdateAll(w) ==
  /\ \/ /\ engine = "postgresql" /\ desk[w].at = "locking" /\ RowsFree(w)
        /\ desk' = [desk EXCEPT ![w].off = desk[w].seen, ![w].at = "commit"]
        /\ UNCHANGED writer
     \/ /\ engine = "sqlite" /\ desk[w].at = "update" /\ writer = NoOne
        /\ desk' = [desk EXCEPT ![w].seen = Targeted, ![w].off = Targeted, ![w].at = "commit"]
        /\ writer' = w
  /\ UNCHANGED <<engine, environment, tables, active, server, stops, changes>>

-----------------------------------------------------------------------------

Inserts(w) == desk[w].op \in {"addActive", "addInactive", "addGoal"}
TurnsOn(w) == desk[w].op \in {"activate", "addActive"}

(* Slip: the target was active when loaded, so that setting the flag again *)
(* sends no UPDATE.                                                        *)
SlipTurnedOn(w) == IF TurnsOn(w) THEN {desk[w].target} \ active ELSE {}

(* The bulk UPDATE resets the loaded target as well, so that the flag      *)
(* always differs and is sent.                                             *)
TurnedOn(w) == IF TurnsOn(w) THEN {desk[w].target} ELSE {}

CommitChange(w) ==
  /\ desk[w].at = "commit"
  /\ engine = "sqlite" => writer \in {NoOne, w}
  /\ tables' = IF Inserts(w) THEN tables \cup {desk[w].target} ELSE tables
  /\ active' = (active \ desk[w].off) \cup TurnedOn(w)
  /\ desk' = [desk EXCEPT ![w] = [NoDesk EXCEPT !.done = TRUE]]
  /\ Release(w)
  /\ UNCHANGED <<engine, environment, server, stops, changes>>

(* The request fails before its commit and its session is rolled back.     *)
Abandon(w) ==
  /\ desk[w].at # "idle"
  /\ desk' = [desk EXCEPT ![w] = NoDesk]
  /\ Release(w)
  /\ UNCHANGED <<engine, environment, tables, active, server, stops, changes>>

Handle(w) == Snapshot(w) \/ UpdateAll(w) \/ CommitChange(w)

FactorsNext ==
  \/ StartupNext /\ UNCHANGED <<desk, changes>>
  \/ \E w \in Workers :
        UnknownFactor(w) \/ Activate(w) \/ Add(w) \/ SetGoal(w) \/ Handle(w) \/ Abandon(w)

FactorsSpec == FactorsInit /\ [][FactorsNext]_fvars

-----------------------------------------------------------------------------

(* A factor that is made active replaces all that were there when its      *)
(* request began, whatever ran beside it; only a factor that came          *)
(* meanwhile may be active beside it (sustainability.py:477-478, 505-507).  *)
ActivationsReplace ==
  [][\A w \in Workers :
        TurnsOn(w) /\ desk'[w].done /\ ~ desk[w].done =>
           active' \cap desk[w].old \subseteq {desk[w].target}]_fvars

(* Once there is an active factor there always is one: no step, failure or *)
(* restart sends the KPIs back to their built-in 713 g/kWh                 *)
(* (sustainability.py:104-105).                                            *)
SomeFactorActive ==
  [][active # {} => active' # {} /\ active' \subseteq tables']_fvars
=============================================================================
