------------------------------ MODULE Journal ------------------------------
(***************************************************************************)
(* What every execution of the transfer engine promises about its          *)
(* committed transactions, races and failures included: an append-only     *)
(* journal in which an idempotency key occurs once, an identity occurs     *)
(* once and every link names the genesis or an earlier transaction.        *)
(* External view of backend/services/payment_service.py:118-125.           *)
(***************************************************************************)
EXTENDS Integers, Sequences

CONSTANTS NoKey, Genesis

VARIABLE journal    \* sequence of records with at least id, key and prev

Init == journal = <<>>

Post ==
  /\ Len(journal') = Len(journal) + 1
  /\ LET t == journal'[Len(journal) + 1] IN
     /\ journal' = Append(journal, t)
     /\ \A i \in DOMAIN journal :
           journal[i].id # t.id /\ (t.key # NoKey => journal[i].key # t.key)
     /\ t.prev = Genesis \/ \E i \in DOMAIN journal : journal[i].id = t.prev

Spec == Init /\ [][Post]_journal
=============================================================================
