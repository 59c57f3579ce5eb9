------------------------------ MODULE MCSerial ------------------------------
(***************************************************************************)
(* One request at a time: the transfer engine or the credit service, each  *)
(* against the abstract component it implements when no requests overlap.  *)
(* The side is chosen at the start; the other one rests.                   *)
(***************************************************************************)
EXTENDS MCCredits

CONSTANTS NoKey, k1

VARIABLES
  side, pc2, session2, reply2, wallet, open, ledger, keys, walletLock, writer2, clock

Customers == {"alice", "bob", "carol", "boss"}

(* Carol's username is Bob's bank_id: the name stands for Bob's account.   *)
NamesOf ==
  [u \in Customers |-> CASE u = "alice" -> {"ALICE101", "alice_smith"}
                         [] u = "bob" -> {"BOB202", "bob_jones"}
                         [] u = "carol" -> {"CAROL303", "BOB202"}
                         [] OTHER -> {"BOSS001"}]

CustomerOf ==
  [n \in UNION {NamesOf[u] : u \in Customers} |->
     IF n = "BOB202" THEN "bob" ELSE CHOOSE u \in Customers : n \in NamesOf[u]]

Pay(actor, src, dst, amount, key) ==
  [actor |-> actor, src |-> src, dst |-> dst, amount |-> amount, key |-> key]

(* Also: the admin repeats a key, a user pays under two names, one without *)
(* a wallet, one nobody knows, nothing, from another's wallet, and from    *)
(* one whose name is the payer's own.                                      *)
Payments ==
  { Pay("alice", "ALICE101", "BOB202", 2, k1),
    Pay("bob", "BOB202", "ALICE101", 1, NoKey),
    Pay("boss", "BOB202", "ALICE101", 2, k1),
    Pay("alice", "ALICE101", "alice_smith", 1, NoKey),
    Pay("bob", "BOB202", "bob_jones", 1, NoKey),
    Pay("alice", "BOB202", "ALICE101", 1, NoKey),
    Pay("alice", "ALICE101", "BOSS001", 1, NoKey),
    Pay("bob", "BOB202", "BOSS001", 1, k1),
    Pay("bob", "BOB202", "NOBODY", 1, NoKey),
    Pay("boss", "BOSS001", "NOBODY", 1, NoKey),
    Pay("carol", "BOB202", "ALICE101", 1, NoKey),
    Pay("alice", "ALICE101", "BOB202", 0, NoKey) }

Transfers == INSTANCE PaymentAccounting WITH
  Users <- Customers, Admins <- {"boss"}, UserOf <- CustomerOf,
  Accounts <- 1..4,
  OwnerOf <- [a \in 1..4 |-> CASE a = 1 -> "alice" [] a = 2 -> "bob" [] OTHER -> "boss"],
  SeedBalance <- [a \in {1, 2} |-> 2], WalletGrant <- 1,
  Keys <- {k1}, Requests <- Payments, RowLocks <- TRUE, SeedStamp <- 0, MaxStamp <- 3,
  pc <- pc2, session <- session2, reply <- reply2, balance <- wallet,
  rowLock <- walletLock, writer <- writer2

money == <<pc2, session2, reply2, wallet, open, ledger, keys, walletLock, writer2, clock>>

SerialInit == side \in {"transfers", "credits"} /\ Transfers!Init /\ Init

SerialNext ==
  /\ \/ side = "transfers" /\ Transfers!Next /\ UNCHANGED vars
     \/ side = "credits" /\ Next /\ UNCHANGED money
  /\ UNCHANGED side

SerialSpec == SerialInit /\ [][SerialNext]_<<vars, money, side>>

(* With one worker the engine is an atomic bank with one hash chain.       *)
AtomicBank == Transfers!AtomicBank
=============================================================================
