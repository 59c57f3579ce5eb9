------------------------------ MODULE MCServers ------------------------------
(***************************************************************************)
(* Server processes of one deployment: the seeding by itself (Startup),    *)
(* requests for carbon factors and goals beside the seeding (Factors),     *)
(* energy figures and baselines (Energy), or the middlewares of a process  *)
(* that serves (Gateway).  The part is chosen at the start; the variables  *)
(* of the others stay as they began.                                       *)
(***************************************************************************)
EXTENDS Factors, Energy, Gateway, TLC

CONSTANTS s1, s2, w1, w2, p1, ip1, c1, r1, r2

VARIABLE part

DemoUsers == <<"soham">>
Regions == <<"india", "ppa">>

(* Rows found at the start: none; those of a database that an earlier      *)
(* version seeded when foreign keys were not enforced; or those of one     *)
(* whose factors a development server seeded.                              *)
Found(kind, name) == [kind |-> kind, name |-> name, by |-> <<>>]
Old(kind, name)   == [kind |-> kind, name |-> name, by |-> <<"old", 1>>]

Former ==
  { Found("schema", "all"), Found("user", "soham"), Found("registry", "issuance"),
    Old("wallet", "soham") }

Equipped ==
  { Found(k, "all") : k \in {"schema", "permission", "role", "grant", "activity"} }
  \cup { Old("grid", g) : g \in {"india", "ppa"} }
  \cup { Found("user", "soham"), Old("wallet", "soham") }

Databases == { {}, Former, Equipped }

(* A machine with power counters, and two without: in one time passes      *)
(* while baselines are locked and runs validated, in the other they are    *)
(* read.                                                                   *)
Machines ==
  { [measured |-> TRUE, asks |-> {"realtime", "log"}, ticks |-> 0],
    [measured |-> FALSE, asks |-> {"lock", "validate"}, ticks |-> 1],
    [measured |-> FALSE, asks |-> {"accuracy", "lock", "current", "report"}, ticks |-> 0] }

(* One server process and one client, a window of one and a half seconds   *)
(* of two ticks, so that Retry-After is truncated, and a quota of one, so  *)
(* that three requests reach every case.  Paths share the bucket but not   *)
(* the tracker's deques, so that the requests of a behaviour have one:     *)
(* they register while time passes, or log in while it stands still, since *)
(* the deques of the two differ in what enters them and not in what leaves.*)
MCQuota == [b \in {"auth"} |-> 1]

MCBucketOf == [path \in {"login", "register"} |-> "auth"]

Symmetry ==
  Permutations(Servers) \cup Permutations(Workers) \cup Permutations(Readers)

(* A request that changes something counts: there is none while seeding.   *)
(* Requests meet the factors of a database in production, and those that   *)
(* come while they run in development; no server stops then.  Of the       *)
(* energy figures only the time stamps of the profiles depend on the       *)
(* database: on PostgreSQL, where they may contradict the order of the     *)
(* commits, the clock ticks; on SQLite, where they follow it, it stands    *)
(* still.  The middlewares use no database.                                *)
MCInit ==
  /\ FactorsInit /\ EnergyInit /\ GatewayInit
  /\ \/ /\ part = "seeding" /\ environment = "development" /\ tables # Equipped
        /\ host.measured
     \/ /\ part = "registry" /\ host.measured
        /\ tables = IF environment = "production" THEN Equipped ELSE Former
     \/ /\ part = "energy" /\ environment = "production" /\ tables = {}
        /\ engine = IF host.ticks = 0 THEN "sqlite" ELSE "postgresql"
     \/ /\ part \in Paths /\ environment = "production" /\ tables = {}
        /\ host.measured /\ engine = "sqlite"

MCNext ==
  /\ \/ /\ FactorsNext
        /\ part = "seeding" => UNCHANGED changes
        /\ part = "registry" => UNCHANGED stops
        /\ part \in {"seeding", "registry"}
        /\ UNCHANGED <<host, exporter, prom, kepler, task, shown, profiles, runs, logged, clock>>
        /\ UNCHANGED gvars
     \/ /\ part = "energy" /\ EnergyNext
        /\ UNCHANGED <<environment, tables, active, server, writer, stops, desk, changes>>
        /\ UNCHANGED gvars
     \/ /\ part \in Paths /\ GatewayNext
        /\ part = "login" => UNCHANGED now
        /\ \A p \in Processes, s \in Connections : calls'[p][s].path \in {"none", part}
        /\ UNCHANGED <<fvars, evars>>
  /\ UNCHANGED part

MCSpec == MCInit /\ [][MCNext]_<<fvars, evars, gvars, part>>
=============================================================================
