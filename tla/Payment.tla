------------------------------ MODULE Payment ------------------------------
(***************************************************************************)
(* The transfer engine: execute_bank_transfer and get_user_cash_account of *)
(* backend/services/payment_service.py, as run by the request threads of   *)
(* POST /payment/transfer.  Every thread ("worker") has its own SQLAlchemy *)
(* session on one shared database; a step of this module is one database   *)
(* round trip together with the local code that follows it.                *)
(*                                                                         *)
(* A session keeps the objects it has loaded: the SELECT ... FOR UPDATE of *)
(* lines 170-171 locks the rows but does not refresh the two Account       *)
(* objects loaded at lines 166-167 (no populate_existing), so the check    *)
(* and the deltas use the balances seen before the locks were granted.     *)
(***************************************************************************)
EXTENDS Integers, Sequences, FiniteSets

CONSTANTS
  Workers,      \* request threads, of one or of several server processes
  NoOne,        \* the holder of a free lock
  Users,        \* rows of the users table
  Admins,       \* users for whom lines 142-143 skip the ownership check
  NamesOf,      \* user -> its bank_id and username
  UserOf,       \* name in a request -> user: a bank_id before a username
  Accounts,     \* identities available to cash_wallet rows
  OwnerOf,      \* account -> the user it belongs to
  SeedBalance,  \* wallets that exist at the start -> their balance
  WalletGrant,  \* balance of a wallet created on the fly (10000.0, line 96)
  Keys,         \* values of the Idempotency-Key header
  NoKey,        \* the header is absent
  Requests,     \* the requests the environment may submit
  NoRequest,    \* the request of an idle worker
  RowLocks,     \* TRUE: PostgreSQL row locks; FALSE: SQLite's writer lock
  SeedStamp,    \* created_at of the newest seeded transaction (0: the past)
  MaxStamp      \* bound: transfers that may reach line 190

Genesis == 0    \* prev_audit_hash of the first transaction
NoTxn   == 0    \* an idempotency key that has no record

RequestType ==
  [actor: Users, src: STRING, dst: STRING, amount: Int, key: Keys \cup {NoKey}]

ASSUME WorkersAssumption == NoOne \notin Workers
ASSUME PartiesAssumption ==
  /\ Admins \subseteq Users
  /\ NamesOf \in [Users -> SUBSET STRING]
  /\ DOMAIN UserOf = UNION {NamesOf[u] : u \in Users}
  /\ \A n \in DOMAIN UserOf : UserOf[n] \in Users /\ n \in NamesOf[UserOf[n]]
ASSUME AccountsAssumption ==
  /\ OwnerOf \in [Accounts -> Users]
  /\ DOMAIN SeedBalance \subseteq Accounts
  /\ \A a \in DOMAIN SeedBalance : SeedBalance[a] \in Nat
  /\ WalletGrant \in Nat
ASSUME RequestsAssumption ==
  /\ NoKey \notin Keys
  /\ NoRequest \notin Requests
  /\ \A r \in Requests : r \in RequestType
ASSUME DatabaseAssumption ==
  RowLocks \in BOOLEAN /\ SeedStamp \in Nat /\ MaxStamp \in Nat

InitialBalance ==
  [a \in Accounts |-> IF a \in DOMAIN SeedBalance THEN SeedBalance[a] ELSE WalletGrant]

VARIABLES
  pc,        \* worker -> where its request stands
  session,   \* worker -> what its session and local variables hold
  reply,     \* worker -> what its last request was answered
  balance,   \* accounts.balance, committed
  open,      \* committed cash_wallet rows
  ledger,    \* committed transactions with their two entries, in commit order
  keys,      \* idempotency_keys, committed: key -> transaction
  rowLock,   \* account -> worker holding its row lock (PostgreSQL)
  writer,    \* worker holding the database's write lock (SQLite)
  clock      \* datetime.utcnow(): the last stamp given out

database == <<balance, open, ledger, keys>>
locks    == <<rowLock, writer>>
vars     == <<pc, session, reply, database, locks, clock>>

Stages == {"idle", "source", "dest", "lockSource", "lockDest", "check",
           "flush", "commit", "answer"}
Statuses == {0, 200, 400, 403, 404, 500}    \* 0: nothing answered yet

(* from, to: the two Account objects, with the balances they were loaded   *)
(* with; created: wallets inserted and not yet committed.                  *)
NoSession ==
  [req |-> NoRequest, from |-> NoOne, to |-> NoOne, fromBal |-> 0, toBal |-> 0,
   created |-> {}, stamp |-> 0, prev |-> Genesis]

Init ==
  /\ pc = [w \in Workers |-> "idle"]
  /\ session = [w \in Workers |-> NoSession]
  /\ reply = [w \in Workers |-> [status |-> 0, key |-> NoKey, txn |-> NoTxn]]
  /\ balance = InitialBalance
  /\ open = DOMAIN SeedBalance
  /\ ledger = <<>>
  /\ keys = [k \in Keys |-> NoTxn]
  /\ rowLock = [a \in Accounts |-> NoOne]
  /\ writer = NoOne
  /\ clock = 0

-----------------------------------------------------------------------------
(* Endings: every path out of the handler answers the client and closes    *)
(* the session (get_db), which rolls back and releases what it holds.      *)

Answer(w, status, k, txn) ==
  reply' = [reply EXCEPT ![w] = [status |-> status, key |-> k, txn |-> txn]]

CloseSession(w) ==
  /\ pc' = [pc EXCEPT ![w] = "idle"]
  /\ session' = [session EXCEPT ![w] = NoSession]
  /\ rowLock' = [a \in Accounts |-> IF rowLock[a] = w THEN NoOne ELSE rowLock[a]]
  /\ writer' = IF writer = w THEN NoOne ELSE writer

Rollback(w, status) ==
  /\ Answer(w, status, session[w].req.key, NoTxn)
  /\ CloseSession(w)
  /\ UNCHANGED <<database, clock>>

-----------------------------------------------------------------------------
(* Lines 128-164: validation, ownership, idempotency lookup.               *)

Valid(r) == r.amount > 0 /\ r.src # r.dst

(* A name of the actor's is accepted, also a username that is another      *)
(* user's bank_id: the account is the other one's then (lines 77-79).      *)
Authorized(r) == r.actor \in Admins \/ r.src \in NamesOf[r.actor]

Recorded(k) == k # NoKey /\ keys[k] # NoTxn

Refuse(w, r) ==
  /\ pc[w] = "idle"
  /\ ~ (Valid(r) /\ Authorized(r))
  /\ Answer(w, IF Valid(r) THEN 403 ELSE 400, r.key, NoTxn)
  /\ UNCHANGED <<pc, session, database, locks, clock>>

Replay(w, r) ==
  /\ pc[w] = "idle"
  /\ Valid(r) /\ Authorized(r)
  /\ Recorded(r.key)
  /\ Answer(w, 200, r.key, keys[r.key])
  /\ UNCHANGED <<pc, session, database, locks, clock>>

(* MaxStamp bounds the transfers; it is checked here so that an accepted   *)
(* request always finds a stamp.                                           *)
Unstamped == {w \in Workers :
                pc[w] \in {"source", "dest", "lockSource", "lockDest", "check"}}

Accept(w, r) ==
  /\ pc[w] = "idle"
  /\ Valid(r) /\ Authorized(r)
  /\ ~ Recorded(r.key)
  /\ clock + Cardinality(Unstamped) < MaxStamp
  /\ pc' = [pc EXCEPT ![w] = "source"]
  /\ session' = [session EXCEPT ![w] = [NoSession EXCEPT !.req = r]]
  /\ reply' = [reply EXCEPT ![w] = [status |-> 0, key |-> r.key, txn |-> NoTxn]]
  /\ UNCHANGED <<database, locks, clock>>

-----------------------------------------------------------------------------
(* Lines 75-101, called at 166 for the source and at 167 for the           *)
(* destination: unlocked reads, and a new wallet for a user without one.   *)

Party(w) == IF pc[w] = "source" THEN session[w].req.src ELSE session[w].req.dst

Wallets(w) ==
  {a \in open \cup session[w].created : OwnerOf[a] = UserOf[Party(w)]}

MayWrite(w) == RowLocks \/ writer \in {NoOne, w}

TakeWriteLock(w) ==
  /\ MayWrite(w)
  /\ writer' = IF RowLocks THEN writer ELSE w

(* Slip: the new wallet is committed, not flushed.                         *)
SlipCommitWallet(w, a, created) ==
  /\ \/ /\ pc[w] = "source"
        /\ pc' = [pc EXCEPT ![w] = "dest"]
        /\ session' = [session EXCEPT ![w].from = a, ![w].fromBal = balance[a]]
     \/ /\ pc[w] = "dest"
        /\ pc' = [pc EXCEPT ![w] = "lockSource"]
        /\ session' = [session EXCEPT ![w].to = a, ![w].toBal = balance[a]]
  /\ open' = open \cup created
  /\ UNCHANGED <<balance, ledger, keys, reply, rowLock, clock>>

(* A row already in the session is not refreshed by loading it again.      *)
Load(w, a, created) ==
  /\ \/ /\ pc[w] = "source"
        /\ pc' = [pc EXCEPT ![w] = "dest"]
        /\ session' = [session EXCEPT ![w].from = a,
                                      ![w].fromBal = balance[a],
                                      ![w].created = @ \cup created]
     \/ /\ pc[w] = "dest"
        /\ pc' = [pc EXCEPT ![w] = "lockSource"]
        /\ session' = [session EXCEPT ![w].to = a,
                                      ![w].toBal = IF a = session[w].from
                                                   THEN session[w].fromBal ELSE balance[a],
                                      ![w].created = @ \cup created]
  /\ UNCHANGED <<reply, database, rowLock, clock>>

UnknownParty(w) ==
  /\ pc[w] \in {"source", "dest"}
  /\ Party(w) \notin DOMAIN UserOf
  /\ Rollback(w, 404)

FindWallet(w) ==
  /\ pc[w] \in {"source", "dest"}
  /\ Party(w) \in DOMAIN UserOf
  /\ \E a \in Wallets(w) : Load(w, a, {})
  /\ UNCHANGED writer

Fresh == Accounts \ (open \cup UNION {session[v].created : v \in Workers})

CreateWallet(w) ==
  /\ pc[w] \in {"source", "dest"}
  /\ Party(w) \in DOMAIN UserOf
  /\ Wallets(w) = {}
  /\ TakeWriteLock(w)
  /\ \E a \in Fresh : OwnerOf[a] = UserOf[Party(w)] /\ Load(w, a, {a})

-----------------------------------------------------------------------------
(* Lines 170-190: row locks (SQLite ignores FOR UPDATE), balance check on  *)
(* the loaded object, time stamp.  The stamp is also the transaction's     *)
(* identity and stands for its audit hash: digests do not collide.         *)

Wanted(w) == IF pc[w] = "lockSource" THEN session[w].from ELSE session[w].to

LockRow(w) ==
  /\ pc[w] \in {"lockSource", "lockDest"}
  /\ RowLocks => rowLock[Wanted(w)] \in {NoOne, w}
  /\ rowLock' = IF RowLocks THEN [rowLock EXCEPT ![Wanted(w)] = w] ELSE rowLock
  /\ pc' = [pc EXCEPT ![w] = IF pc[w] = "lockSource" THEN "lockDest" ELSE "check"]
  /\ UNCHANGED <<session, reply, database, writer, clock>>

(* Slip: off by one at the balance.                                        *)
SlipAlmostCovered(w) == session[w].fromBal + 1 >= session[w].req.amount

Covered(w) == session[w].fromBal >= session[w].req.amount

RejectInsufficient(w) ==
  /\ pc[w] = "check"
  /\ ~ Covered(w)
  /\ Rollback(w, 400)

Stamp(w) ==
  /\ pc[w] = "check"
  /\ Covered(w)
  /\ clock' = clock + 1
  /\ session' = [session EXCEPT ![w].stamp = clock + 1]
  /\ pc' = [pc EXCEPT ![w] = "flush"]
  /\ UNCHANGED <<reply, database, locks>>

-----------------------------------------------------------------------------
(* Lines 203-248: the flush sends the two balances and the header, then    *)
(* the newest committed transaction is read for prev_audit_hash.           *)

(* Slip: the link may name a transaction that is not committed yet.        *)
SlipDirtyIds ==
  {ledger[i].id : i \in DOMAIN ledger} \cup
  {session[v].stamp : v \in {u \in Workers : pc[u] = "commit"}}

Ids == {ledger[i].id : i \in DOMAIN ledger}

(* Slip: ascending instead of descending order.                            *)
SlipOldest(p) == \A s \in Ids : p <= s /\ p # Genesis

IsNewest(p) ==
  /\ \A s \in Ids : s > SeedStamp => s <= p
  /\ p = Genesis \/ p > SeedStamp

Flush(w) ==
  /\ pc[w] = "flush"
  /\ TakeWriteLock(w)
  /\ \E p \in Ids \cup {Genesis} :
        IsNewest(p) /\ session' = [session EXCEPT ![w].prev = p]
  /\ pc' = [pc EXCEPT ![w] = "commit"]
  /\ UNCHANGED <<reply, database, rowLock, clock>>

-----------------------------------------------------------------------------
(* Lines 206-223 and 283-302: entries, idempotency record, single commit.  *)
(* The UNIQUE index on idempotency_keys.key makes the commit fail when     *)
(* another worker committed the key since the lookup.                      *)

SelfTransfer(s) == s.from = s.to

Debited(s)  == IF SelfTransfer(s) THEN s.fromBal ELSE s.fromBal - s.req.amount
Credited(s) == IF SelfTransfer(s) THEN s.fromBal ELSE s.toBal + s.req.amount

TxnRecord(s) ==
  [id |-> s.stamp, key |-> s.req.key, from |-> s.from, to |-> s.to,
   amount |-> s.req.amount, fromRun |-> Debited(s), toRun |-> Credited(s),
   prev |-> s.prev]

(* Slip: the balances are decremented in the database, the entries are     *)
(* still computed from the loaded objects.                                 *)
SlipRelative(s) ==
  [balance EXCEPT ![s.from] = @ - s.req.amount, ![s.to] = @ + s.req.amount]

(* An object whose balance is back to its loaded value is not written.     *)
Posted(s) ==
  IF SelfTransfer(s) THEN balance
  ELSE [balance EXCEPT ![s.from] = Debited(s), ![s.to] = Credited(s)]

(* Slip: no UNIQUE index.                                                  *)
SlipNotUnique(w) == FALSE

KeyTaken(w) == Recorded(session[w].req.key)

(* Slip: the failed commit is swallowed and the response still sent.       *)
SlipSwallowed(w) ==
  /\ pc[w] = "commit"
  /\ KeyTaken(w)
  /\ Answer(w, 200, session[w].req.key, session[w].stamp)
  /\ CloseSession(w)
  /\ UNCHANGED <<database, clock>>

FailDuplicateKey(w) ==
  /\ pc[w] = "commit"
  /\ KeyTaken(w)
  /\ Rollback(w, 500)

Commit(w) ==
  LET s == session[w] IN
  /\ pc[w] = "commit"
  /\ ~ KeyTaken(w)
  /\ ledger' = Append(ledger, TxnRecord(s))
  /\ balance' = Posted(s)
  /\ open' = open \cup s.created
  /\ keys' = IF s.req.key = NoKey THEN keys ELSE [keys EXCEPT ![s.req.key] = s.stamp]
  /\ pc' = [pc EXCEPT ![w] = "answer"]
  /\ session' = [session EXCEPT ![w].created = {}]
  /\ rowLock' = [a \in Accounts |-> IF rowLock[a] = w THEN NoOne ELSE rowLock[a]]
  /\ writer' = IF writer = w THEN NoOne ELSE writer
  /\ UNCHANGED <<reply, clock>>

(* Lines 304-330: metrics, trace thread, response.                         *)
Respond(w) ==
  /\ pc[w] = "answer"
  /\ Answer(w, 200, session[w].req.key, session[w].stamp)
  /\ CloseSession(w)
  /\ UNCHANGED <<database, clock>>

-----------------------------------------------------------------------------
(* Failures.  PostgreSQL aborts a member of a cycle of waiting sessions;   *)
(* SQLite gives up on the write lock after busy_timeout; a process may die *)
(* or lose its connection anywhere, also after the commit (line 314 reads  *)
(* the expired txn.id again): the client is then told nothing useful.      *)

Blocked(w) ==
  /\ RowLocks
  /\ pc[w] \in {"lockSource", "lockDest"}
  /\ rowLock[Wanted(w)] \notin {NoOne, w}

(* Slip: nobody detects the cycle.                                         *)
SlipUndetected(w) == FALSE

Deadlocked(w) ==
  \E cycle \in SUBSET {v \in Workers : Blocked(v)} :
     w \in cycle /\ cycle = {rowLock[Wanted(v)] : v \in cycle}

WaitsToWrite(w) ==
  /\ ~ MayWrite(w)
  /\ \/ pc[w] = "flush"
     \/ /\ pc[w] \in {"source", "dest"}
        /\ Party(w) \in DOMAIN UserOf
        /\ Wallets(w) = {}

LockFailure(w) ==
  /\ Deadlocked(w) \/ WaitsToWrite(w)
  /\ Rollback(w, 500)

Crash(w) ==
  /\ pc[w] # "idle"
  /\ Rollback(w, 500)

-----------------------------------------------------------------------------

Submit(w) == \E r \in Requests : Refuse(w, r) \/ Replay(w, r) \/ Accept(w, r)

Step(w) ==
  \/ UnknownParty(w) \/ FindWallet(w) \/ CreateWallet(w)
  \/ LockRow(w) \/ RejectInsufficient(w) \/ Stamp(w)
  \/ Flush(w) \/ FailDuplicateKey(w) \/ Commit(w) \/ Respond(w)
  \/ LockFailure(w)

Next == \E w \in Workers : Submit(w) \/ Step(w) \/ Crash(w)

Spec == Init /\ [][Next]_vars

(* A request thread keeps running until its handler returns, and the       *)
(* database queues the sessions that wait for a row: no waiter is          *)
(* overtaken for ever by the requests that come after it.                  *)
FairSpec == Spec /\ \A w \in Workers : WF_vars(Step(w)) /\ SF_vars(LockRow(w))

-----------------------------------------------------------------------------

TxnType ==
  [id: Nat \ {NoTxn}, key: Keys \cup {NoKey}, from: Accounts, to: Accounts,
   amount: Nat \ {0}, fromRun: Nat, toRun: Nat, prev: Nat]

SessionType ==
  [req: Requests \cup {NoRequest}, from: Accounts \cup {NoOne}, to: Accounts \cup {NoOne},
   fromBal: Nat, toBal: Nat, created: SUBSET Accounts, stamp: Nat, prev: Nat]

(* Every variable has its type; in particular committed and loaded         *)
(* balances are never negative (the CHECK of models/account.py:70-72 is    *)
(* not modelled: it never fires).                                          *)
TypeOK ==
  /\ pc \in [Workers -> Stages]
  /\ session \in [Workers -> SessionType]
  /\ reply \in [Workers -> [status: Statuses, key: Keys \cup {NoKey}, txn: Nat]]
  /\ balance \in [Accounts -> Nat]
  /\ open \subseteq Accounts
  /\ ledger \in Seq(TxnType)
  /\ keys \in [Keys -> Nat]
  /\ rowLock \in [Accounts -> Workers \cup {NoOne}]
  /\ writer \in Workers \cup {NoOne}
  /\ clock \in Nat

(* A key moves money at most once, however many workers race with it, and  *)
(* whatever crashes and retries happen (models/idempotency.py:3).          *)
OncePerKey ==
  \A i, j \in DOMAIN ledger :
     ledger[i].key = ledger[j].key /\ ledger[i].key # NoKey => i = j

Made(txn, k) == \E i \in DOMAIN ledger : ledger[i].id = txn /\ ledger[i].key = k

(* A client told 200 for a request was told of a transaction that is in    *)
(* the committed ledger, and under a key of the one made with that key.    *)
AnswersAreCommitted ==
  \A w \in Workers : reply[w].status = 200 => Made(reply[w].txn, reply[w].key)

(* The statement and the wallet agree: the balance of a wallet is the      *)
(* running balance of the last committed entry that wrote it.  It needs    *)
(* the commit to be all-or-nothing and the writers of a row to be serial.  *)
RunningBalanceCurrent ==
  \A i \in DOMAIN ledger : ledger[i].from # ledger[i].to =>
     LET later(a) == \E j \in DOMAIN ledger :
                        j > i /\ ledger[j].from # ledger[j].to
                              /\ a \in {ledger[j].from, ledger[j].to}
     IN  /\ later(ledger[i].from) \/ balance[ledger[i].from] = ledger[i].fromRun
         /\ later(ledger[i].to) \/ balance[ledger[i].to] = ledger[i].toRun

(* A wallet that was created on the fly, with its opening grant, exists    *)
(* only together with a committed transfer that has it as a party: a       *)
(* failed transfer creates no money.                                       *)
NoFreeWallet ==
  \A a \in open \ DOMAIN SeedBalance :
     \E i \in DOMAIN ledger : a \in {ledger[i].from, ledger[i].to}

J == INSTANCE Journal WITH journal <- ledger

(* The committed ledger is an append-only journal with one transaction per *)
(* key and links that only point back (payment_service.py:118-125), in     *)
(* every interleaving of workers, aborts and crashes.                      *)
ImplementsJournal == J!Spec

(* Every accepted request is answered: threads blocked on each other's     *)
(* rows are released by the deadlock abort or by the busy timeout.         *)
EveryRequestAnswered ==
  \A w \in Workers : pc[w] # "idle" ~> pc[w] = "idle"
=============================================================================
