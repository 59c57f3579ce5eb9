------------------------- MODULE PaymentAccounting -------------------------
(***************************************************************************)
(* Properties of Payment that add up money over the ledger, and the        *)
(* refinement of the serial bank.                                          *)
(***************************************************************************)
EXTENDS Payment, Sums

AmountOver(entries) == Total(entries, [i \in DOMAIN ledger |-> ledger[i].amount])

Inflow(a)  == AmountOver({i \in DOMAIN ledger : ledger[i].to = a})
Outflow(a) == AmountOver({i \in DOMAIN ledger : ledger[i].from = a})

(* What a wallet has paid out never exceeds what it ever held: money is    *)
(* not spent twice.  SECURITY_ACCEPTANCE_TESTS.md:62 (FIN-02) promises it  *)
(* for ten concurrent transfers of the whole balance.                      *)
NoDoubleSpend ==
  \A a \in Accounts : Outflow(a) <= InitialBalance[a] + Inflow(a)

(* Each transaction links to the one committed just before it: one chain,  *)
(* not a tree ("linking each transaction to the previous block's digest",  *)
(* SECURITY_THREAT_MODEL.md:106).                                          *)
UnbrokenChain ==
  \A i \in DOMAIN ledger :
     ledger[i].prev = IF i = 1 THEN Genesis ELSE ledger[i-1].id

B == INSTANCE Bank WITH wallet <- balance, journal <- ledger

(* With one worker the engine is an atomic bank with one hash chain.       *)
AtomicBank == B!Spec
=============================================================================
