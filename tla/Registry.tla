------------------------------ MODULE Registry ------------------------------
(***************************************************************************)
(* What the credit service promises when requests do not overlap: tonnes   *)
(* are issued, moved between holders and burned against a certificate,     *)
(* never twice and never more than are held.  External view of             *)
(* backend/services/credit_service.py:112-369.                             *)
(***************************************************************************)
EXTENDS Integers

CONSTANTS Holders, OpeningHolding

VARIABLES holding, certified    \* holder -> tonnes

Init == holding = OpeningHolding /\ certified = [h \in Holders |-> 0]

Issue(h, x) ==
  /\ holding' = [holding EXCEPT ![h] = @ + x]
  /\ UNCHANGED certified

Move(h, g, x) ==
  /\ h # g /\ holding[h] >= x
  /\ holding' = [holding EXCEPT ![h] = @ - x, ![g] = @ + x]
  /\ UNCHANGED certified

Offset(h, x) ==
  /\ holding[h] >= x
  /\ holding' = [holding EXCEPT ![h] = @ - x]
  /\ certified' = [certified EXCEPT ![h] = @ + x]

(* The amount is what the change of the holder's own row shows.            *)
Next ==
  \E h \in Holders :
     LET gained == holding'[h] - holding[h] IN
     \/ gained > 0 /\ Issue(h, gained)
     \/ gained < 0 /\ Offset(h, - gained)
     \/ gained < 0 /\ \E g \in Holders : Move(h, g, - gained)

Spec == Init /\ [][Next]_<<holding, certified>>
=============================================================================
