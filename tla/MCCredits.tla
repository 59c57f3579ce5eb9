----------------------------- MODULE MCCredits -----------------------------
(***************************************************************************)
(* Small instances of the credit service.  bank has no carbon accounts     *)
(* (seed.py:236-257 gives the recipient banks a cash wallet only).         *)
(***************************************************************************)
EXTENDS CreditsAccounting, TLC

CONSTANTS w1, w2

alice == "alice"  bob == "bob"  bank == "bank"

MCUsers == {alice, bob, bank}

MCOpeningBalance ==
  (Asset(alice) :> 3) @@ (Liability(alice) :> 2) @@
  (Asset(bob) :> 1)   @@ (Liability(bob) :> 1)   @@ (Issuance :> 4)

MCOpeningCredits ==
  (0 :> [owner |-> alice, amount |-> 2, status |-> "active"]) @@
  (-1 :> [owner |-> bob, amount |-> 1, status |-> "active"])

Ask(op, user, to, credit, amount) ==
  [op |-> op, user |-> user, to |-> to, credit |-> credit, amount |-> amount]

RacingUsers == {alice, bob}

(* Two claims on one credit, opposite postings on two asset accounts, a    *)
(* mint and an emission.                                                   *)
Claims ==
  { Ask("retire", alice, alice, 0, 2),
    Ask("transfer", alice, bob, 0, 1),
    Ask("transfer", bob, alice, -1, 1),
    Ask("mint", bob, bob, 0, 1),
    Ask("emit", alice, alice, 0, 1) }

(* bob's listing, cached while he is given tonnes.                         *)
Browsing ==
  { Ask("transfer", alice, bob, 0, 1),
    Ask("list", bob, bob, 0, 1) }

RacingRequests == Claims \cup Browsing

(* Also: too much, to oneself, to nobody, to or for a user without         *)
(* accounts, more than the liability, and a listing of nothing, which is   *)
(* never stored.                                                           *)
OddRequests ==
  { Ask("mint", bank, bank, 0, 1),
    Ask("retire", alice, alice, 0, 1),
    Ask("transfer", bob, alice, 1, 1),
    Ask("transfer", alice, alice, 0, 1),
    Ask("transfer", alice, "nobody", 0, 1),
    Ask("transfer", alice, bank, 0, 1),
    Ask("mint", bob, bob, 0, 2),
    Ask("emit", bank, bank, 0, 1),
    Ask("list", bank, bank, 0, 1) }

AllRequests == RacingRequests \cup OddRequests

DoubleClaim == { Ask("retire", alice, alice, 0, 2), Ask("transfer", alice, bob, 0, 1),
                 Ask("list", alice, alice, 0, 1) }
=============================================================================
