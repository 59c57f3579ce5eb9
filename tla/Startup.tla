------------------------------- MODULE Startup -------------------------------
(***************************************************************************)
(* Start-up of a server process: init_db (db/database.py) creates the      *)
(* tables, runs init_rbac_system (rbac_service.py) and seed_database       *)
(* (db/seed.py) in one session, and swallows what they raise.  run_all.py  *)
(* starts two servers on one database and restarts them when a file        *)
(* changes, so that several run this beside each other and beside          *)
(* requests.                                                               *)
(*                                                                         *)
(* A row stands for the rows one statement group inserts.  The database is *)
(* the set of committed rows; a session holds the rows it has added (the   *)
(* unit of work) and those it has sent to the database.                    *)
(***************************************************************************)
EXTENDS Naturals, Sequences, FiniteSets, Deployment

CONSTANTS
  Servers,       \* server processes
  NoOne,         \* nobody holds SQLite's write lock
  Environments,  \* subset of {"development", "production"}
  SeedUsers,     \* the demo users, in the order of users_to_seed
  Grids,         \* regions with a grid factor; the first is seeded active
  Openings,      \* databases a server may find: sets of rows
  MaxStops       \* bound: stops and broken start-ups of server processes

ASSUME StartupAssumption ==
  /\ Environments \subseteq {"development", "production"}
  /\ SeedUsers \in Seq(STRING) /\ Grids \in Seq(STRING) /\ MaxStops \in Nat

Kind(rows, kind) == {r \in rows : r.kind = kind}

(* What is committed as one unit is there as a whole: a user with a wallet *)
(* (seed.py:185-234), the activity factors with the grid factors (36-109), *)
(* the banks, goals, alerts, baseline and sample transactions (237-513).   *)
WholeUnits(rows) ==
  /\ \A u \in Kind(rows, "user") : \E r \in Kind(rows, "wallet") : r.name = u.name
  /\ Kind(rows, "activity") # {} =>
        \A i \in DOMAIN Grids : \E r \in Kind(rows, "grid") : r.name = Grids[i]

DemoParts == {"bank", "alert", "baseline", "transaction"}

WholeDemo(rows) ==
  /\ (\E k \in DemoParts : Kind(rows, k) # {}) => \A k \in DemoParts : Kind(rows, k) # {}
  /\ (\E r \in Kind(rows, "goal") : r.by[1] \in Servers) => Kind(rows, "transaction") # {}
  /\ Kind(rows, "transaction") # {} => Kind(rows, "goal") # {}

(* What a server finds was left by a version that made whole units, too.   *)
ASSUME OpeningsAssumption ==
  /\ NoOne \notin Servers
  /\ \A rows \in Openings :
        /\ WholeUnits(rows) /\ WholeDemo(rows)
        /\ \A r \in rows : r.kind \in {"grid", "goal"} => r.by[1] \notin Servers

(* Kinds of rows without a unique column: nothing stops a second copy.     *)
Unkeyed == {"wallet", "grid", "goal", "alert"}

Row(kind, name, author, n) ==
  [kind |-> kind, name |-> name,
   by |-> IF kind \in Unkeyed THEN <<author, n>> ELSE <<>>]

VARIABLES
  environment,   \* a setting; it never changes, nor does the engine
  tables,   \* committed rows
  active,   \* the committed grid factors with is_active
  server,   \* server -> where its start-up stands, and its session
  writer,   \* the session that holds the write lock (SQLite)
  stops     \* stops and broken start-ups so far

svars == <<engine, environment, tables, active, server, writer, stops>>

(* step: 0 while the process is down, an index of Script while it seeds,   *)
(* Up once it serves; part: what of the step is next.                      *)
NoSeeder == [step |-> 0, part |-> "look", added |-> {}, sent |-> {}]

Named(kind) == Kind(tables, kind)

StartupInit ==
  /\ engine \in Engines /\ environment \in Environments
  /\ tables \in Openings
  /\ active = {r \in tables : r.kind = "grid" /\ r.name = Grids[1]}
  /\ server = [s \in Servers |-> NoSeeder]
  /\ writer = NoOne
  /\ stops = 0

-----------------------------------------------------------------------------
(* The steps in the order of the code, and how each ends its look-up: with *)
(* a commit, a flush, or with rows left in the session.                    *)

Seeds(kind, names, end) == [kind |-> kind, names |-> names, end |-> end]

SystemSteps ==
  << Seeds("schema", {"all"}, "commit"), Seeds("permission", {"all"}, "commit"),
     Seeds("role", {"all"}, "commit"), Seeds("grant", {"all"}, "commit"),
     Seeds("activity", {"all"}, "leave"), Seeds("grid", {Grids[i] : i \in DOMAIN Grids}, "leave") >>

DemoSteps ==
  [i \in DOMAIN SeedUsers |-> Seeds("user", {SeedUsers[i]}, "commit")]
  \o << Seeds("bank", {"all"}, "flush"), Seeds("registry", {"issuance"}, "flush"),
        Seeds("goal", {"co2_per_tx"}, "leave"), Seeds("alert", {"all"}, "leave"),
        Seeds("baseline", {"BASE-DEFAULT-001"}, "flush"),
        Seeds("transaction", {"samples"}, "commit") >>

(* seed_database returns before the demo users in production.              *)
Script == IF environment = "production" THEN SystemSteps ELSE SystemSteps \o DemoSteps

Up == Len(SystemSteps \o DemoSteps) + 1

Seeding(s) == server[s].step \in DOMAIN Script
Step(s) == Script[server[s].step]
User(s) == SeedUsers[server[s].step - Len(SystemSteps)]

-----------------------------------------------------------------------------
(* The session: flush, commit, and the end of it.                          *)

Held(s) == server[s].added \cup server[s].sent

(* Slip: the activity factors have no primary key of their own.            *)
SlipConflict(s) == {r \in server[s].added : r.kind # "activity"} \cap tables # {}

(* A unique index refuses a row somebody has committed.                    *)
Conflict(s) == server[s].added \cap tables # {}

(* An insert waits for the write lock, or for the session that has sent    *)
(* the same key; without one there is nothing to wait for.                 *)
MaySend(s) ==
  \/ server[s].added = {}
  \/ engine = "sqlite" /\ writer \in {NoOne, s}
  \/ engine = "postgresql"
        /\ \A other \in Servers \ {s} : server[other].sent \cap server[s].added = {}

Release(x) == writer' = IF writer = x THEN NoOne ELSE writer

(* "system" is no user, and foreign keys are enforced by both engines      *)
(* (connection.py:21): the issuance account is refused.                    *)
Orphan(s) == \E r \in server[s].added : r.kind = "registry"

CanSend(s) == MaySend(s) /\ ~ Conflict(s) /\ ~ Orphan(s)

(* What a failed start-up leaves: init_db logs a notice and the server     *)
(* serves, unless the tables themselves could not be made.                 *)
GiveUp(s) ==
  /\ server' = [server EXCEPT ![s] =
        [NoSeeder EXCEPT !.step = IF server[s].step = 1 THEN 0 ELSE Up]]
  /\ Release(s)
  /\ UNCHANGED <<tables, active>>

Commit(s, next) ==
  /\ CanSend(s)
  /\ tables' = tables \cup Held(s)
  /\ active' = active \cup {r \in Held(s) : r.kind = "grid" /\ r.name = Grids[1]}
  /\ server' = [server EXCEPT ![s] = next]
  /\ Release(s)

Flush(s, next) ==
  /\ CanSend(s)
  /\ server' = [server EXCEPT ![s] = next]
  /\ writer' = IF engine = "sqlite" /\ server[s].added # {} THEN s ELSE writer
  /\ UNCHANGED <<tables, active>>

After(s) ==
  IF server[s].step = Len(Script) THEN [NoSeeder EXCEPT !.step = Up]
  ELSE [NoSeeder EXCEPT !.step = server[s].step + 1]

-----------------------------------------------------------------------------
(* The steps.                                                              *)

Start(s) ==
  /\ server[s].step = 0
  /\ server' = [server EXCEPT ![s].step = 1]
  /\ UNCHANGED <<engine, environment, tables, active, writer, stops>>

(* autoflush is off: a look-up sees committed and sent rows only.          *)
Missing(s, kind, names) ==
  {n \in names : ~ \E r \in tables \cup server[s].sent : r.kind = kind /\ r.name = n}

Look(s) ==
  LET rows == {Row(Step(s).kind, n, s, 1) : n \in Missing(s, Step(s).kind, Step(s).names)}
      seen == [server[s] EXCEPT !.added = @ \cup rows]
  IN
  /\ Seeding(s) /\ server[s].part = "look" /\ Step(s).kind # "user"
  /\ server' = [server EXCEPT ![s] =
        CASE Step(s).end # "leave" -> [seen EXCEPT !.part = "end"]
          [] Step(s).end = "leave" /\ server[s].step = Len(Script) -> After(s)
          [] OTHER -> [seen EXCEPT !.step = @ + 1]]
  /\ UNCHANGED <<engine, environment, tables, active, writer, stops>>

End(s) ==
  /\ Seeding(s) /\ server[s].part = "end"
  /\ \/ /\ Step(s).end = "commit" /\ Commit(s, After(s))
     \/ /\ Step(s).end = "flush"
        /\ Flush(s, [After(s) EXCEPT !.sent = Held(s)])
  /\ UNCHANGED <<engine, environment, stops>>

(* A demo user: a new one is flushed, an old one is reset and committed.   *)
LookUser(s) ==
  LET new == Missing(s, "user", {User(s)}) # {} IN
  /\ Seeding(s) /\ Step(s).kind = "user" /\ server[s].part = "look"
  /\ server' = [server EXCEPT ![s].part = IF new THEN "insert" ELSE "sync",
                              ![s].added = IF new THEN @ \cup {Row("user", User(s), s, 1)} ELSE @]
  /\ UNCHANGED <<engine, environment, tables, active, writer, stops>>

(* Slip: the new user is committed before the accounts.                    *)
SlipInsertUser(s) ==
  /\ Seeding(s) /\ server[s].part = "insert"
  /\ Commit(s, [server[s] EXCEPT !.part = "end", !.sent = {},
        !.added = {Row("wallet", User(s), s, 1), Row("wallet", User(s), s, 2)}])
  /\ UNCHANGED <<engine, environment, stops>>

(* The accounts of a new user are added, and, as the look-up after them    *)
(* does not see rows that were not flushed, added again (lines 187-233).   *)
InsertUser(s) ==
  /\ Seeding(s) /\ server[s].part = "insert"
  /\ Flush(s, [server[s] EXCEPT !.part = "end", !.sent = Held(s),
        !.added = {Row("wallet", User(s), s, 1)}
                  \cup {Row("wallet", u, s, 2) : u \in Missing(s, "wallet", {User(s)})}])
  /\ UNCHANGED <<engine, environment, stops>>

(* The reset of an old user commits what the session holds.                *)
SyncUser(s) ==
  /\ Seeding(s) /\ server[s].part = "sync"
  /\ Commit(s, [server[s] EXCEPT !.part = "accounts", !.added = {}, !.sent = {}])
  /\ UNCHANGED <<engine, environment, stops>>

LookAccounts(s) ==
  /\ Seeding(s) /\ server[s].part = "accounts"
  /\ server' = [server EXCEPT ![s].part = "end",
        ![s].added = {Row("wallet", u, s, 2) : u \in Missing(s, "wallet", {User(s)})}]
  /\ UNCHANGED <<engine, environment, tables, active, writer, stops>>

(* A refused insert raises, and the exception ends the start-up.           *)
Refused(s) ==
  /\ Seeding(s) /\ server[s].part # "look"
  /\ MaySend(s) /\ (Conflict(s) \/ Orphan(s))
  /\ GiveUp(s)
  /\ UNCHANGED <<engine, environment, stops>>

(* So does a lock timeout or a lost connection.                            *)
Broken(s) ==
  /\ Seeding(s) /\ stops < MaxStops
  /\ GiveUp(s)
  /\ stops' = stops + 1
  /\ UNCHANGED <<engine, environment>>

Stop(s) ==
  /\ server[s].step # 0 /\ stops < MaxStops
  /\ server' = [server EXCEPT ![s] = NoSeeder]
  /\ Release(s)
  /\ stops' = stops + 1
  /\ UNCHANGED <<engine, environment, tables, active>>

Seed(s) == Look(s) \/ End(s) \/ LookUser(s) \/ InsertUser(s) \/ SyncUser(s) \/ LookAccounts(s)

StartupNext == \E s \in Servers : Start(s) \/ Seed(s) \/ Refused(s) \/ Broken(s) \/ Stop(s)

StartupSpec == StartupInit /\ [][StartupNext]_svars

-----------------------------------------------------------------------------

(* Whatever crashes, fails or runs beside it, the seeding leaves no grid   *)
(* factor twice.  The table has no unique column: it is the primary key of *)
(* the activity factors, sent in the same flush, that stops the second     *)
(* server (seed.py:48-53, 103-109).                                        *)
NoDoubledFactor ==
  \A q, r \in Named("grid") :
     q.name = r.name /\ q.by[1] \in Servers /\ r.by[1] \in Servers => q = r

(* Each unit of rows is there as a whole or not at all.                    *)
UnitsAreWhole == WholeUnits(tables) /\ WholeDemo(tables)

(* What a start-up leaves, wherever it stops.                              *)
SeedIsWhole == NoDoubledFactor /\ UnitsAreWhole

(* "Creates all tables from models and seeds initial demonstration data"   *)
(* (database.py:12): once a server that nothing disturbed serves, the      *)
(* banks are there (tests/test_accuracy_engine.py:84-98 pays one).         *)
DemoIsSeeded ==
  environment = "development" /\ stops = 0 /\ (\E s \in Servers : server[s].step = Up) =>
     Named("bank") # {}
=============================================================================
