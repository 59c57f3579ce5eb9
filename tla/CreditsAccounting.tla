------------------------- MODULE CreditsAccounting -------------------------
(***************************************************************************)
(* Properties of Credits that add up tonnes, and the refinement of the     *)
(* serial registry.                                                        *)
(***************************************************************************)
EXTENDS Credits, Sums

(* The tables are finite.                                                  *)
ASSUME TablesAssumption ==
  IsFiniteSet(Users) /\ IsFiniteSet(Accounts) /\ IsFiniteSet(DOMAIN OpeningCredits)

(* The tonnes of u's active credits, in the inventory and at the start.    *)
Active(u) ==
  Total({c \in CreditIds : credits[c].owner = u /\ credits[c].status = "active"},
        [c \in CreditIds |-> credits[c].amount])

OpeningActive(u) ==
  Total({c \in DOMAIN OpeningCredits :
           OpeningCredits[c].owner = u /\ OpeningCredits[c].status = "active"},
        [c \in DOMAIN OpeningCredits |-> OpeningCredits[c].amount])

Certified(u) ==
  Total({c \in certificates : c.user = u}, [c \in certificates |-> c.amount])

Minted ==
  Total({i \in DOMAIN postings : postings[i].op = "mint"},
        [i \in DOMAIN postings |-> postings[i].amount])

R == INSTANCE Registry WITH
       Holders <- Users,
       OpeningHolding <- [u \in Users |-> OpeningActive(u)],
       holding <- [u \in Users |-> Active(u)],
       certified <- [u \in Users |-> Certified(u)]

(* Without overlapping requests the inventory is a registry, crashes       *)
(* between the two commits of an operation included.                       *)
ImplementsRegistry == R!Spec

Assets == {a \in Accounts : IsAsset(a)}

(* Double entry: postings move assets and liabilities by the same amount,  *)
(* so that only logged emissions change their difference                   *)
(* (ledger_service.py:37-45, carbon_service.py:53-62).                     *)
BooksBalance ==
  LET logged == {u \in Users : Liability(u) \in Accounts}
      Position(of) == Total(Assets, of) - Total(Accounts \ Assets, of)
  IN Position(balance) = Position(OpeningBalance) - Total(logged, footprint)

(* A tonne is used once: what is certified or still active was there at    *)
(* the start or minted.  The serial number exists "to prevent              *)
(* double-counting or fraud" (models/carbon_credit.py:58-61).              *)
NotCountedTwice ==
  Total(Users, [u \in Users |-> Certified(u)]) + Total(Users, [u \in Users |-> Active(u)])
    <= Total(Users, [u \in Users |-> OpeningActive(u)]) + Minted
=============================================================================
