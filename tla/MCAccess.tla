----------------------------- MODULE MCAccess -----------------------------
(***************************************************************************)
(* Small instances of the account administration: a development database   *)
(* with its demo users, and a production database before its bootstrap.    *)
(***************************************************************************)
EXTENDS Access, TLC

CONSTANTS w1, w2

soham == "soham_gaikwad"  priya == "admin_priya"  demo == "demo_user"  asha == "asha"

MCUsers == {soham, priya, demo, asha}

DemoRow(role, boss) == [NewRow(role, boss) EXCEPT !.root = FALSE]

(* The administrator was suspended before.                                 *)
Development ==
  (soham :> DemoRow("SUPER_ADMIN", TRUE)) @@
  (priya :> [DemoRow("ADMIN", FALSE) EXCEPT !.status = "SUSPENDED"]) @@
  (demo :> DemoRow("CUSTOMER", FALSE)) @@ (asha :> Absent)

(* Boss and second candidate absent; two customers have registered.        *)
Production ==
  (soham :> Absent) @@ (priya :> Absent) @@ (demo :> NewRow("CUSTOMER", FALSE)) @@
  (asha :> NewRow("CUSTOMER", FALSE))

(* Seeding resets one demo user in the instance.                           *)
MCSeeded == priya :> DemoRow("ADMIN", FALSE)

Ask(op, target, role, perm) ==
  [op |-> op, target |-> target, role |-> role, perm |-> perm]

Plain(op, target) == Ask(op, target, "CUSTOMER", "credits.mint")

(* A customer is suspended and restored and logs in meanwhile, with the    *)
(* right and the wrong password; seeding reinstates the administrator.     *)
SuspensionRequests ==
  { Plain("login", soham), Plain("login", demo), Plain("wrong", demo),
    Plain("suspend", demo), Plain("restore", demo),
    Plain("logout", demo), Plain("bootstrap", soham) }

(* Two candidates race for the office; the winner appoints and delegates.  *)
SetupRequests ==
  { Plain("bootstrap", soham), Plain("bootstrap", priya), Plain("register", priya),
    Plain("login", soham), Plain("login", demo),
    Ask("assign", demo, "SUPER_ADMIN", "credits.mint"),
    Ask("assign", asha, "SUPER_ADMIN", "credits.mint"),
    Plain("assign", soham), Plain("suspend", soham),
    Ask("delegate", demo, "CUSTOMER", "roles.assign_delegable") }

MCDeployments ==
  { [development |-> TRUE, users |-> Development, requests |-> SuspensionRequests,
     attempts |-> 3],
    [development |-> FALSE, users |-> Production, requests |-> SetupRequests,
     attempts |-> 2] }

Symmetry == Permutations(Workers)
=============================================================================
