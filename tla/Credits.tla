------------------------------ MODULE Credits ------------------------------
(***************************************************************************)
(* Carbon credits: mint, transfer and retire of                            *)
(* backend/services/credit_service.py with the ledger posting they call    *)
(* (ledger_service.py), log_emission of carbon_service.py and the cached   *)
(* listing.  A step is one database or Redis round trip.                   *)
(*                                                                         *)
(* A transfer or retirement has two commits.  The first, inside            *)
(* post_ledger_transaction, moves the account balances and releases the    *)
(* lock on the credit row; the second changes the inventory, from a credit *)
(* row that is read again and not checked again.  As in Payment, FOR       *)
(* UPDATE does not refresh the Account objects loaded before.              *)
(***************************************************************************)
EXTENDS Integers, Sequences, FiniteSets

CONSTANTS
  Workers,         \* request threads
  NoOne,           \* the holder of a free lock; the owner of an absent credit
  Users,           \* rows of the users table
  OpeningBalance,  \* account rows, <<user, name>> -> opening balance
  OpeningCredits,  \* credit rows at the start, numbered from 0 downwards
  Requests,        \* what clients may ask for
  NoRequest,       \* the request of an idle worker
  Engines,         \* databases to consider, of {"postgresql", "sqlite"}
  MaxOps           \* bound: requests that change data

Asset(u)     == <<u, "carbon_asset">>
Liability(u) == <<u, "carbon_liability">>
Issuance     == <<"system", "issuance">>

Accounts == DOMAIN OpeningBalance

(* An operation inserts at most one credit row; it is named after it.      *)
CreditIds == DOMAIN OpeningCredits \cup 1..MaxOps

Statuses == {"active", "retired"}
Absent == [owner |-> NoOne, amount |-> 0, status |-> "absent"]
CreditType == [owner: Users, amount: Int, status: Statuses] \cup {Absent}

RequestType ==
  [op: {"mint", "transfer", "retire", "emit", "list"}, user: Users, to: STRING,
   credit: CreditIds, amount: Nat \ {0}]

ASSUME PeopleAssumption == NoOne \notin Workers \cup Users /\ Users \subseteq STRING
ASSUME RowsAssumption ==
  /\ Accounts \subseteq ({Issuance} \cup {Asset(u) : u \in Users}
                                    \cup {Liability(u) : u \in Users})
  /\ OpeningBalance \in [Accounts -> Nat]
  /\ \A c \in DOMAIN OpeningCredits :
        c \in Int /\ c <= 0 /\ OpeningCredits[c] \in CreditType
ASSUME OperationsAssumption ==
  /\ NoRequest \notin Requests /\ MaxOps \in Nat
  /\ \A r \in Requests : r \in RequestType
ASSUME EnginesAssumption == Engines \subseteq {"postgresql", "sqlite"}

VARIABLES
  engine,        \* the database behind settings.database_url
  pc,            \* worker -> where its request stands
  session,       \* worker -> its session and local variables
  reply,         \* worker -> the answer to its last request
  balance,       \* accounts.balance, committed
  credits,       \* carbon_credits, committed
  postings,      \* ledger transactions, committed, in commit order
  certificates,  \* credit_retirements, committed
  footprint,     \* user -> sum of carbon_records.amount, committed
  cache,         \* user -> the listing in Redis; {}: no key
  rowLock,       \* account -> worker holding its row lock (PostgreSQL)
  creditLock,    \* credit -> worker holding its row lock (PostgreSQL)
  writer,        \* worker holding the database's write lock (SQLite)
  ops            \* operations started

database == <<balance, credits, postings, certificates, footprint>>
locks    == <<rowLock, creditLock, writer>>
vars     == <<engine, pc, session, reply, database, cache, locks, ops>>

Stages == {"idle", "credit", "first", "second", "debit", "entry",
           "reread", "update", "evict", "emission", "emit", "list", "fill"}

(* bal: balances of the loaded accounts; seen: the credit as last read;    *)
(* evict: users whose listing is still to be invalidated.                  *)
NoSession ==
  [id |-> 0, req |-> NoRequest, bal |-> [a \in Accounts |-> 0], seen |-> Absent,
   evict |-> <<>>, listing |-> {}]

Init ==
  /\ engine \in Engines
  /\ pc = [w \in Workers |-> "idle"]
  /\ session = [w \in Workers |-> NoSession]
  /\ reply = [w \in Workers |-> [status |-> 0, id |-> 0, op |-> "list"]]
  /\ balance = OpeningBalance
  /\ credits = [c \in CreditIds |->
                  IF c \in DOMAIN OpeningCredits THEN OpeningCredits[c] ELSE Absent]
  /\ postings = <<>>
  /\ certificates = {}
  /\ footprint = [u \in Users |-> 0]
  /\ cache = [u \in Users |-> {}]
  /\ rowLock = [a \in Accounts |-> NoOne]
  /\ creditLock = [c \in CreditIds |-> NoOne]
  /\ writer = NoOne
  /\ ops = 0

Op(w) == session[w].req.op
User(w) == session[w].req.user
Amount(w) == session[w].req.amount
Target(w) == session[w].req.credit

-----------------------------------------------------------------------------
(* Locks and endings.                                                      *)

Freed(lock, w) == [x \in DOMAIN lock |-> IF lock[x] = w THEN NoOne ELSE lock[x]]

ReleaseAll(w) ==
  /\ rowLock' = Freed(rowLock, w)
  /\ creditLock' = Freed(creditLock, w)
  /\ writer' = IF writer = w THEN NoOne ELSE writer

(* The answer closes the session: an open transaction is rolled back.      *)
Finish(w, status) ==
  /\ reply' = [reply EXCEPT ![w] = [status |-> status, id |-> session[w].id, op |-> Op(w)]]
  /\ pc' = [pc EXCEPT ![w] = "idle"]
  /\ session' = [session EXCEPT ![w] = NoSession]
  /\ ReleaseAll(w)
  /\ UNCHANGED <<engine, database, ops>>

Refuse(w, status) == Finish(w, status) /\ UNCHANGED cache

MayWrite(w) == engine = "sqlite" => writer \in {NoOne, w}
RowFree(lock, x, w) == engine = "postgresql" => lock[x] \in {NoOne, w}

(* Slip: FOR UPDATE is left out.                                           *)
SlipNotTaken(lock, x, w) == lock

Taken(lock, x, w) == IF engine = "postgresql" THEN [lock EXCEPT ![x] = w] ELSE lock

-----------------------------------------------------------------------------
(* Submission.  The schemas admit positive amounts only.                   *)

FirstStage(op) ==
  CASE op \in {"transfer", "retire"} -> "credit"
    [] op = "mint" -> "first"
    [] op = "emit" -> "emission"
    [] op = "list" -> "list"

Submit(w, r) ==
  /\ pc[w] = "idle"
  /\ r.op # "list" => ops < MaxOps
  /\ ops' = IF r.op = "list" THEN ops ELSE ops + 1
  /\ pc' = [pc EXCEPT ![w] = FirstStage(r.op)]
  /\ session' = [session EXCEPT ![w] =
                   [NoSession EXCEPT !.id = IF r.op = "list" THEN 0 ELSE ops + 1, !.req = r]]
  /\ reply' = [reply EXCEPT ![w] = [status |-> 0, id |-> 0, op |-> r.op]]
  /\ UNCHANGED <<engine, database, cache, locks>>

-----------------------------------------------------------------------------
(* Lines 200-222 and 291-307: the credit, locked; its checks.              *)

OwnedActive(w) ==
  LET c == credits[Target(w)] IN c.owner = User(w) /\ c.status = "active"

KnownRecipient(w) == Op(w) = "transfer" => session[w].req.to \in Users

(* Slip: off by one at the amount.                                         *)
SlipAlmostSufficient(w) == credits[Target(w)].amount + 1 >= Amount(w)

Sufficient(w) == credits[Target(w)].amount >= Amount(w)

LockCredit(w) ==
  /\ pc[w] = "credit"
  /\ OwnedActive(w) /\ Sufficient(w) /\ KnownRecipient(w)
  /\ RowFree(creditLock, Target(w), w)
  /\ creditLock' = Taken(creditLock, Target(w), w)
  /\ pc' = [pc EXCEPT ![w] = "first"]
  /\ UNCHANGED <<engine, session, reply, database, cache, rowLock, writer, ops>>

CreditMissing(w) ==
  /\ pc[w] = "credit"
  /\ ~ OwnedActive(w)
  /\ Refuse(w, 404)

CreditRefused(w) ==
  /\ pc[w] = "credit"
  /\ OwnedActive(w) /\ ~ (Sufficient(w) /\ KnownRecipient(w))
  /\ RowFree(creditLock, Target(w), w)
  /\ Refuse(w, IF Sufficient(w) THEN 404 ELSE 400)

-----------------------------------------------------------------------------
(* Lines 127-155, 227-234 and 310-317: the two accounts, not locked.       *)

Debited(w) ==
  CASE Op(w) = "mint" -> Asset(User(w))
    [] Op(w) = "transfer" -> Asset(session[w].req.to)
    [] Op(w) = "retire" -> Liability(User(w))

Credited(w) == IF Op(w) = "mint" THEN Issuance ELSE Asset(User(w))

Opposite(w) == IF Op(w) = "mint" THEN Credited(w) ELSE Debited(w)

(* A mint without an issuance account tries to create one for the user     *)
(* "system": no code creates that user, so the foreign key refuses it.     *)
AccountMissing(w) ==
  /\ pc[w] = "first"
  /\ ~ {Debited(w), Credited(w)} \subseteq Accounts
  /\ Refuse(w, IF Op(w) = "mint" /\ Debited(w) \in Accounts THEN 500 ELSE 404)

LoadFirst(w) ==
  /\ pc[w] = "first"
  /\ {Debited(w), Credited(w)} \subseteq Accounts
  /\ session' = [session EXCEPT ![w].bal[Asset(User(w))] = balance[Asset(User(w))]]
  /\ pc' = [pc EXCEPT ![w] = "second"]
  /\ UNCHANGED <<engine, reply, database, cache, locks, ops>>

LoadSecond(w) ==
  /\ pc[w] = "second"
  /\ session' = IF Opposite(w) = Asset(User(w)) THEN session
                ELSE [session EXCEPT ![w].bal[Opposite(w)] = balance[Opposite(w)]]
  /\ pc' = [pc EXCEPT ![w] = "debit"]
  /\ UNCHANGED <<engine, reply, database, cache, locks, ops>>

-----------------------------------------------------------------------------
(* post_ledger_transaction: the debit entry, the credit entry, commit.     *)
(* Each balance is flushed under its row lock, where the CHECK applies.    *)

IsAsset(a) == a[2] = "carbon_asset"

(* Slip: a credit entry lowers the issuance account, as the comment on     *)
(* line 171 has it.                                                        *)
SlipSigned(a, side, w) ==
  session[w].bal[a] + (IF side = "debit" THEN Amount(w) ELSE - Amount(w))

Posted(a, side, w) ==
  session[w].bal[a] + (IF IsAsset(a) <=> side = "debit" THEN Amount(w) ELSE - Amount(w))

(* Slip: no CHECK constraint.                                              *)
SlipUnchecked(x) == TRUE

PositiveBalance(x) == x >= 0

PostDebit(w) ==
  LET a == Debited(w) IN
  /\ pc[w] = "debit"
  /\ MayWrite(w) /\ RowFree(rowLock, a, w)
  /\ PositiveBalance(Posted(a, "debit", w))
  /\ session' = [session EXCEPT ![w].bal[a] = Posted(a, "debit", w)]
  /\ rowLock' = Taken(rowLock, a, w)
  /\ writer' = IF engine = "sqlite" THEN w ELSE writer
  /\ pc' = [pc EXCEPT ![w] = "entry"]
  /\ UNCHANGED <<engine, reply, database, cache, creditLock, ops>>

Posting(w) ==
  [id |-> session[w].id, op |-> Op(w), debit |-> Debited(w), credit |-> Credited(w),
   amount |-> Amount(w)]

NewCredit(u, w, status) == [owner |-> u, amount |-> Amount(w), status |-> status]

(* The credit of a mint is part of this commit; the inventory change of a  *)
(* transfer or retirement is not.                                          *)
PostCredit(w) ==
  LET a == Credited(w) IN
  /\ pc[w] = "entry"
  /\ RowFree(rowLock, a, w)
  /\ PositiveBalance(Posted(a, "credit", w))
  /\ balance' = [balance EXCEPT ![Debited(w)] = session[w].bal[Debited(w)],
                                ![a] = Posted(a, "credit", w)]
  /\ postings' = Append(postings, Posting(w))
  /\ credits' = IF Op(w) # "mint" THEN credits
                ELSE [credits EXCEPT ![session[w].id] = NewCredit(User(w), w, "active")]
  /\ pc' = [pc EXCEPT ![w] = IF Op(w) = "mint" THEN "evict" ELSE "reread"]
  /\ session' = [session EXCEPT ![w].evict = <<User(w)>>]
  /\ ReleaseAll(w)
  /\ UNCHANGED <<engine, reply, certificates, footprint, cache, ops>>

(* Slip: the refusal of the ledger is logged and the caller goes on.       *)
SlipSwallowed(w) ==
  /\ pc[w] = "debit" /\ RowFree(rowLock, Debited(w), w)
  /\ ~ PositiveBalance(Posted(Debited(w), "debit", w))
  /\ pc' = [pc EXCEPT ![w] = "reread"]
  /\ ReleaseAll(w)
  /\ UNCHANGED <<engine, session, reply, database, cache, ops>>

Overdrawn(w) ==
  /\ \/ /\ pc[w] = "debit" /\ MayWrite(w) /\ RowFree(rowLock, Debited(w), w)
        /\ ~ PositiveBalance(Posted(Debited(w), "debit", w))
     \/ /\ pc[w] = "entry" /\ RowFree(rowLock, Credited(w), w)
        /\ ~ PositiveBalance(Posted(Credited(w), "credit", w))
  /\ Refuse(w, 400)

-----------------------------------------------------------------------------
(* Lines 250-270 and 333-363: the credit is read again, unlocked, and      *)
(* split or handed over.  An UPDATE writes the changed column only.        *)

Reread(w) ==
  /\ pc[w] = "reread"
  /\ session' = [session EXCEPT ![w].seen = credits[Target(w)]]
  /\ pc' = [pc EXCEPT ![w] = "update"]
  /\ UNCHANGED <<engine, reply, database, cache, locks, ops>>

Whole(w) == session[w].seen.amount = Amount(w)

Split(w, owner, status) ==
  [credits EXCEPT ![Target(w)].amount = session[w].seen.amount - Amount(w),
                  ![session[w].id] = NewCredit(owner, w, status)]

(* Slip: the recipient's listing is not invalidated.                       *)
SlipSenderOnly(w) ==
  LET to == session[w].req.to IN
  /\ Op(w) = "transfer"
  /\ credits' = IF ~ Whole(w) THEN Split(w, to, "active")
                ELSE IF session[w].seen.owner = to THEN credits
                ELSE [credits EXCEPT ![Target(w)].owner = to]
  /\ UNCHANGED <<session, certificates>>

HandOver(w) ==
  LET to == session[w].req.to IN
  /\ Op(w) = "transfer"
  /\ credits' = IF ~ Whole(w) THEN Split(w, to, "active")
                ELSE IF session[w].seen.owner = to THEN credits
                ELSE [credits EXCEPT ![Target(w)].owner = to]
  /\ session' = [session EXCEPT ![w].evict = <<User(w), to>>]
  /\ UNCHANGED certificates

Certificate(w) ==
  [id |-> session[w].id, user |-> User(w), credit |-> Target(w), amount |-> Amount(w)]

(* Slip: a certificate is issued for split credits only.                   *)
SlipNoCertificate(w) ==
  /\ Op(w) = "retire"
  /\ credits' = IF Whole(w) THEN [credits EXCEPT ![Target(w)].status = "retired"]
                ELSE Split(w, User(w), "retired")
  /\ certificates' = IF Whole(w) THEN certificates ELSE certificates \cup {Certificate(w)}
  /\ UNCHANGED session

Burn(w) ==
  /\ Op(w) = "retire"
  /\ credits' = IF Whole(w) THEN [credits EXCEPT ![Target(w)].status = "retired"]
                ELSE Split(w, User(w), "retired")
  /\ certificates' = certificates \cup {Certificate(w)}
  /\ UNCHANGED session

UpdateInventory(w) ==
  /\ pc[w] = "update"
  /\ MayWrite(w) /\ RowFree(creditLock, Target(w), w)
  /\ HandOver(w) \/ Burn(w)
  /\ pc' = [pc EXCEPT ![w] = "evict"]
  /\ UNCHANGED <<engine, reply, balance, postings, footprint, cache, locks, ops>>

-----------------------------------------------------------------------------
(* Lines 100-109: invalidation after the commit; a Redis error is logged   *)
(* and swallowed.                                                          *)

Evict(w) ==
  /\ pc[w] = "evict"
  /\ session[w].evict # <<>>
  /\ \/ cache' = [cache EXCEPT ![Head(session[w].evict)] = {}]
     \/ UNCHANGED cache
  /\ session' = [session EXCEPT ![w].evict = Tail(@)]
  /\ UNCHANGED <<engine, pc, reply, database, locks, ops>>

Respond(w) ==
  /\ pc[w] = "evict"
  /\ session[w].evict = <<>>
  /\ Refuse(w, 200)

-----------------------------------------------------------------------------
(* log_emission: an unlocked read-modify-write of the liability, and the   *)
(* record, in one commit; no ledger entry.                                 *)

LoadLiability(w) ==
  LET a == Liability(User(w)) IN
  /\ pc[w] = "emission"
  /\ session' = IF a \in Accounts
                THEN [session EXCEPT ![w].bal[a] = balance[a]] ELSE session
  /\ pc' = [pc EXCEPT ![w] = "emit"]
  /\ UNCHANGED <<engine, reply, database, cache, locks, ops>>

Emit(w) ==
  LET a == Liability(User(w)) IN
  /\ pc[w] = "emit"
  /\ MayWrite(w)
  /\ a \in Accounts => RowFree(rowLock, a, w)
  /\ balance' = IF a \in Accounts
                THEN [balance EXCEPT ![a] = session[w].bal[a] + Amount(w)] ELSE balance
  /\ footprint' = [footprint EXCEPT ![User(w)] = @ + Amount(w)]
  /\ pc' = [pc EXCEPT ![w] = "evict"]
  /\ UNCHANGED <<engine, session, reply, credits, postings, certificates, cache, locks, ops>>

-----------------------------------------------------------------------------
(* get_user_credits: a listing is served from Redis, or read and stored    *)
(* for 60 seconds; an empty listing is not stored.                         *)

Listing(u) ==
  {[id |-> c, amount |-> credits[c].amount, status |-> credits[c].status] :
     c \in {d \in CreditIds : credits[d].owner = u}}

CacheHit(w) ==
  /\ pc[w] = "list"
  /\ cache[User(w)] # {}
  /\ Refuse(w, 200)

(* A Redis error counts as a miss.                                         *)
CacheMiss(w) ==
  /\ pc[w] = "list"
  /\ session' = [session EXCEPT ![w].listing = Listing(User(w))]
  /\ pc' = [pc EXCEPT ![w] = "fill"]
  /\ UNCHANGED <<engine, reply, database, cache, locks, ops>>

Fill(w) ==
  /\ pc[w] = "fill"
  /\ \/ /\ session[w].listing # {}
        /\ cache' = [cache EXCEPT ![User(w)] = session[w].listing]
     \/ UNCHANGED cache
  /\ Finish(w, 200)

(* Stored for 60 seconds.                                                 *)
Expire(u) ==
  /\ cache[u] # {}
  /\ cache' = [cache EXCEPT ![u] = {}]
  /\ UNCHANGED <<engine, pc, session, reply, database, locks, ops>>

-----------------------------------------------------------------------------
(* Failures.                                                               *)

Blocked(w) ==
  \/ pc[w] = "debit" /\ ~ RowFree(rowLock, Debited(w), w)
  \/ pc[w] = "entry" /\ ~ RowFree(rowLock, Credited(w), w)

Holder(w) == rowLock[IF pc[w] = "debit" THEN Debited(w) ELSE Credited(w)]

(* Slip: nobody detects the cycle.                                         *)
SlipUndetected(w) == FALSE

(* PostgreSQL aborts a member of a cycle; the posting reports 400.         *)
Deadlocked(w) ==
  \E cycle \in SUBSET {v \in Workers : Blocked(v)} :
     w \in cycle /\ cycle = {Holder(v) : v \in cycle}

(* SQLite gives up on the write lock after busy_timeout.                   *)
Busy(w) == pc[w] \in {"debit", "update", "emit"} /\ ~ MayWrite(w)

LockFailure(w) ==
  \/ Deadlocked(w) /\ Refuse(w, 400)
  \/ Busy(w) /\ Refuse(w, IF pc[w] = "debit" THEN 400 ELSE 500)

(* A lost connection or a dying process.  db.refresh in the try block of   *)
(* post_ledger_transaction may fail after the commit, and is answered 400. *)
Crash(w) ==
  /\ pc[w] # "idle"
  /\ \/ Refuse(w, 500)
     \/ pc[w] \in {"debit", "entry", "reread"} /\ Refuse(w, 400)

-----------------------------------------------------------------------------

Step(w) ==
  \/ LockCredit(w) \/ CreditMissing(w) \/ CreditRefused(w)
  \/ AccountMissing(w) \/ LoadFirst(w) \/ LoadSecond(w)
  \/ PostDebit(w) \/ PostCredit(w) \/ Overdrawn(w)
  \/ Reread(w) \/ UpdateInventory(w) \/ Evict(w) \/ Respond(w)
  \/ LoadLiability(w) \/ Emit(w)
  \/ CacheHit(w) \/ CacheMiss(w) \/ Fill(w)
  \/ LockFailure(w)

Next ==
  \/ \E w \in Workers : (\E r \in Requests : Submit(w, r)) \/ Step(w) \/ Crash(w)
  \/ \E u \in Users : Expire(u)

Spec == Init /\ [][Next]_vars

(* Threads run until they answer, and the database queues the sessions     *)
(* that wait for a row.                                                    *)
Fairness ==
  \A w \in Workers :
     /\ WF_vars(Step(w))
     /\ SF_vars(LockCredit(w) \/ PostDebit(w) \/ PostCredit(w)
                \/ UpdateInventory(w) \/ Emit(w))

-----------------------------------------------------------------------------

SessionType ==
  [id: Nat, req: Requests \cup {NoRequest}, bal: [Accounts -> Nat], seen: CreditType,
   evict: Seq(Users),
   listing: SUBSET [id: CreditIds, amount: Int, status: Statuses]]

PostingType ==
  [id: 1..MaxOps, op: {"mint", "transfer", "retire"}, debit: Accounts, credit: Accounts,
   amount: Nat \ {0}]

(* Every variable has its type; in particular no committed or flushed      *)
(* balance is negative (models/account.py:70-72).                          *)
TypeOK ==
  /\ engine \in {"postgresql", "sqlite"}
  /\ pc \in [Workers -> Stages]
  /\ session \in [Workers -> SessionType]
  /\ reply \in [Workers -> [status: {0, 200, 400, 404, 500}, id: 0..MaxOps,
                            op: {"mint", "transfer", "retire", "emit", "list"}]]
  /\ balance \in [Accounts -> Nat]
  /\ credits \in [CreditIds -> CreditType]
  /\ postings \in Seq(PostingType)
  /\ certificates \subseteq
        [id: 1..MaxOps, user: Users, credit: CreditIds, amount: Nat \ {0}]
  /\ footprint \in [Users -> Nat]
  /\ cache \in [Users -> SUBSET [id: CreditIds, amount: Int, status: Statuses]]
  /\ rowLock \in [Accounts -> Workers \cup {NoOne}]
  /\ creditLock \in [CreditIds -> Workers \cup {NoOne}]
  /\ writer \in Workers \cup {NoOne}
  /\ ops \in 0..MaxOps

IsPosted(id, op, amount) ==
  \E i \in DOMAIN postings :
     postings[i].id = id /\ postings[i].op = op /\ postings[i].amount = amount

(* The inventory never runs ahead of the ledger: a certificate is backed   *)
(* by the posting that burned its amount, and every credit row that was    *)
(* split off or minted by the posting of that amount, whichever of the two *)
(* commits of an operation a crash falls between.                          *)
InventoryFollowsLedger ==
  /\ \A c \in certificates : IsPosted(c.id, "retire", c.amount)
  /\ \A c \in CreditIds \ DOMAIN OpeningCredits : credits[c] # Absent =>
        \E i \in DOMAIN postings : postings[i].id = c

(* What a client is told is so: after 200 a mint has its posting and its   *)
(* row, a retirement its posting and its certificate; after 404 nothing    *)
(* was posted.                                                             *)
AnswersAreTrue ==
  \A w \in Workers :
     LET made == \E i \in DOMAIN postings : postings[i].id = reply[w].id IN
     /\ reply[w].status = 200 /\ reply[w].op \in {"mint", "transfer", "retire"} => made
     /\ reply[w].status = 200 /\ reply[w].op = "mint" => credits[reply[w].id] # Absent
     /\ reply[w].status = 200 /\ reply[w].op = "retire" =>
           \E c \in certificates : c.id = reply[w].id
     /\ reply[w].status = 404 => ~ made

(* The credit row is locked from its check to the ledger commit: of two    *)
(* requests for one credit, at most one has been checked and not posted    *)
(* (PostgreSQL).                                                           *)
OneCheckedSpender ==
  engine = "postgresql" =>
     \A v, w \in Workers :
        /\ v # w
        /\ {pc[v], pc[w]} \subseteq {"first", "second", "debit", "entry"}
        /\ {Op(v), Op(w)} \subseteq {"transfer", "retire"}
        => Target(v) # Target(w)

(* Every request is answered: sessions that wait for each other's rows are *)
(* released by the deadlock abort or by the busy timeout.                  *)
EveryRequestAnswered == \A w \in Workers : pc[w] # "idle" ~> pc[w] = "idle"

Current(u) == cache[u] \in {{}, Listing(u)}

(* w's commit is the step, and u is among the users it will evict.         *)
EvictsNext(w, u) ==
  /\ pc[w] # "evict" /\ pc'[w] = "evict"
  /\ \E i \in DOMAIN session'[w].evict : session'[w].evict[i] = u

(* w stores what it read before another commit changed it.                 *)
FillsLate(w, u) ==
  pc[w] = "fill" /\ pc'[w] = "idle" /\ User(w) = u /\ session[w].listing # Listing(u)

(* w changes a credit that went to u after w checked it (unchecked reread, *)
(* credit_service.py:250, 333), and does not know of u.                    *)
ChangesAnothers(w, u) ==
  pc[w] = "update" /\ pc'[w] = "evict" /\ credits[Target(w)].owner = u /\ u # User(w)

(* A cached listing falls behind the inventory in three ways only: by a    *)
(* commit whose handler then invalidates that very user's listing, by a    *)
(* listing read before such a commit and stored after it, and by the       *)
(* second of two claims on one credit.  No commit changes what a user owns *)
(* without that, whichever rows it splits, moves or creates                *)
(* (credit_service.py:100-109, 184, 273-274, 365).                         *)
StaleListingsAreExplained ==
  [][\A u \in Users : Current(u) /\ ~ Current(u)' =>
        \E w \in Workers : EvictsNext(w, u) \/ FillsLate(w, u) \/ ChangesAnothers(w, u)]_vars
=============================================================================
