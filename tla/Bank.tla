-------------------------------- MODULE Bank --------------------------------
(***************************************************************************)
(* What the transfer engine promises when requests do not overlap: a bank  *)
(* whose transfers are atomic.  A transfer is covered by the current       *)
(* balance, moves its amount exactly once, and extends one hash chain.     *)
(* External view of backend/services/payment_service.py:115-126.           *)
(***************************************************************************)
EXTENDS Integers, Sequences

CONSTANTS Accounts, InitialBalance, NoKey, Genesis

VARIABLES wallet, journal

Init == wallet = InitialBalance /\ journal = <<>>

Transfer ==
  /\ Len(journal') = Len(journal) + 1
  /\ LET t == journal'[Len(journal) + 1]
         moved == [wallet EXCEPT ![t.from] = @ - t.amount]
     IN
     /\ journal' = Append(journal, t)
     /\ t.amount > 0 /\ wallet[t.from] >= t.amount
     /\ wallet' = [moved EXCEPT ![t.to] = @ + t.amount]
     /\ t.fromRun = wallet'[t.from] /\ t.toRun = wallet'[t.to]
     /\ t.key # NoKey => \A i \in DOMAIN journal : journal[i].key # t.key
     /\ t.prev = IF journal = <<>> THEN Genesis ELSE journal[Len(journal)].id

Spec == Init /\ [][Transfer]_<<wallet, journal>>
=============================================================================
