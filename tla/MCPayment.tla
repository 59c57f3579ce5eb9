----------------------------- MODULE MCPayment -----------------------------
(***************************************************************************)
(* Small instances of the transfer engine.  Customers are known by two     *)
(* names (bank_id and username, get_user_cash_account:77-79); boss has no  *)
(* wallet until a transfer names one (bootstrap_boss_admin creates none).  *)
(***************************************************************************)
EXTENDS PaymentAccounting, TLC

CONSTANTS w1, w2, k1

alice == "alice"  bob == "bob"  boss == "boss"

MCUsers == {alice, bob, boss}

MCNamesOf ==
  [u \in MCUsers |-> CASE u = alice -> {"ALICE101", "alice_smith"}
                       [] u = bob -> {"BOB202", "bob_jones"} [] OTHER -> {"BOSS001"}]

MCUserOf ==
  [n \in UNION {MCNamesOf[u] : u \in MCUsers} |-> CHOOSE u \in MCUsers : n \in MCNamesOf[u]]

(* Wallets 3 and 4 are identities that new wallets of boss may receive.    *)
MCOwnerOf == [a \in 1..4 |-> CASE a = 1 -> alice [] a = 2 -> bob [] OTHER -> boss]

MCSeedBalance == [a \in {1, 2} |-> 2]

By(actor, src, dst, amount, key) ==
  [actor |-> actor, src |-> src, dst |-> dst, amount |-> amount, key |-> key]

(* Opposite payments (the deadlock), a keyed one and its use by the admin, *)
(* one between two names of one user, which locks one row only, one that   *)
(* is refused, one to a user without a wallet and one to nobody.           *)
MixedRequests ==
  { By(alice, "ALICE101", "BOB202", 2, k1),
    By(bob, "BOB202", "ALICE101", 1, NoKey),
    By(boss, "BOB202", "ALICE101", 2, k1),
    By(alice, "ALICE101", "alice_smith", 1, NoKey),
    By(alice, "BOB202", "ALICE101", 1, NoKey),
    By(bob, "BOB202", "BOSS001", 1, NoKey),
    By(bob, "BOB202", "NOBODY", 1, NoKey) }

(* Ten threads spending one balance, cut down to two; one request is       *)
(* refused, so that the instance never runs out of steps.                  *)
SpendRequests == { By(alice, "ALICE101", "BOB202", 2, NoKey),
                   By(alice, "BOB202", "ALICE101", 1, NoKey) }

Symmetry == Permutations(Workers)
=============================================================================
