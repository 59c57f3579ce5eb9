------------------------------ MODULE MCBatch ------------------------------
(***************************************************************************)
(* Traffic generators and customers on both databases: the engine is       *)
(* chosen at the start; RowLocks is TRUE here, and PaymentBatch without it *)
(* runs for SQLite.                                                        *)
(***************************************************************************)
EXTENDS PaymentBatch

CONSTANTS w1, w2

VARIABLE engine

MCNamesOf ==
  [u \in Users |-> CASE u = "alice" -> {"ALICE101", "alice_smith"}
                     [] u = "bob" -> {"BOB202"} [] OTHER -> {"BOSS001"}]
MCUserOf ==
  [n \in UNION {MCNamesOf[u] : u \in Users} |-> CHOOSE u \in Users : n \in MCNamesOf[u]]
MCOwnerOf == [a \in Accounts |-> CASE a = 1 -> "alice" [] a = 2 -> "bob" [] OTHER -> "boss"]
MCSeedBalance == [a \in {1, 2} |-> 2]

By(actor, src, dst, amount, key) ==
  [actor |-> actor, src |-> src, dst |-> dst, amount |-> amount, key |-> key]

(* Bob pays the generator's sender.                                        *)
MCRequests == { By("bob", "BOB202", "ALICE101", 1, NoKey) }

Item(src, dst, amount) == [src |-> src, dst |-> dst, amount |-> amount, key |-> NoKey]

(* A transfer to a bank that is not there, a refused one that keeps two    *)
(* rows locked, and a good one; a benchmark whose parties the operator has *)
(* chosen.                                                                 *)
MCBatches ==
  { <<Item("ALICE101", "NOBODY", 1), Item("ALICE101", "BOB202", 9),
      Item("BOB202", "alice_smith", 1)>>,
    <<Item("BOSS001", "BOB202", 1)>> }

SL == INSTANCE PaymentBatch WITH RowLocks <- FALSE

allvars == <<bvars, engine>>

MCInit == engine \in {"postgresql", "sqlite"} /\ BatchInit

MCNext ==
  /\ \/ engine = "postgresql" /\ BatchNext
     \/ engine = "sqlite" /\ SL!BatchNext
  /\ UNCHANGED engine

Runs(w) ==
  /\ \/ engine = "postgresql" /\ Progress(w)
     \/ engine = "sqlite" /\ SL!Progress(w)
  /\ UNCHANGED engine

Granted(w) == engine = "postgresql" /\ Grant(w) /\ UNCHANGED engine

(* A thread keeps running, and PostgreSQL queues the waiters of a row.     *)
MCSpec ==
  /\ MCInit /\ [][MCNext]_allvars
  /\ \A w \in Workers : WF_allvars(Runs(w)) /\ SF_allvars(Granted(w))
=============================================================================
