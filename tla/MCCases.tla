------------------------------- MODULE MCCases -------------------------------
(***************************************************************************)
(* A small instance of the case workflow: an administrator, a customer and *)
(* two investigators, one of whom loses the role and gets it back.         *)
(***************************************************************************)
EXTENDS Cases, TLC

CONSTANTS w1, w2, t1, t2

boss == "boss"  ines == "ines"  raj == "raj"  demo == "demo_user"

MCUsers == {boss, ines, raj, demo}
MCOpeningRole ==
  (boss :> "ADMIN") @@ (ines :> "INVESTIGATOR") @@ (raj :> "INVESTIGATOR") @@
  (demo :> "CUSTOMER")

(* ines loses the role and gets it back.                                   *)
MCGrants == {ines} \X {"CUSTOMER", "INVESTIGATOR"}

Ask(op, user, case, investigator, findings, status) ==
  [op |-> op, user |-> user, case |-> case, investigator |-> investigator,
   findings |-> findings, status |-> status]

MCRequests ==
  { Ask("create", boss, NoCase, boss, t1, "CLOSED"),
    Ask("assign", boss, 1, ines, t1, "CLOSED"),
    Ask("assign", boss, 1, raj, t1, "CLOSED"),
    Ask("findings", ines, 1, ines, t1, "IN_PROGRESS"),
    Ask("findings", boss, 1, boss, t2, "RESOLVED"),
    Ask("findings", demo, 1, demo, t2, Null),
    Ask("findings", demo, 1, demo, t2, "RESOLVED"),
    Ask("view", ines, 1, ines, t1, "CLOSED"),
    Ask("view", boss, 1, boss, t1, "CLOSED") }

Symmetry == Permutations(Workers)
=============================================================================
