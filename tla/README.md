# Green-Finance: specifications, model checks and proofs

Green-Finance is a carbon-accounting and payment demonstrator: a FastAPI backend
(`backend/`) over PostgreSQL or SQLite, with Redis as a cache, and browser front
ends. The backend moves money between cash wallets, keeps a double-entry carbon
ledger with an inventory of credits, and administers users under a role model with
one *Boss Admin*. FastAPI runs every `def` handler on a thread of a pool, with a
SQLAlchemy session of its own; `run_all.py` starts two server processes on one
database. So most of what is hard here is one thing: **several handlers, each a
sequence of database round trips, interleave on shared rows**, decide on objects they
loaded earlier, and may stop anywhere.

The modules below model the handlers at that grain: one action per database (or Redis)
round trip together with the local code up to the next one.

## 1. Inventory

| Part (source) | State | Operations | What makes it correct |
|---|---|---|---|
| **Transfer engine** `services/payment_service.py`, `api/payment.py` | `accounts` (cash wallets), `transactions`, `ledger_entries`, `idempotency_keys` | transfer, wallet creation on the fly, traffic generator and benchmark (several transfers in one session) | a key moves money once; an answer is true; wallet = last running balance; no money from failed transfers; one hash chain; no double spend; a batch reports what it committed and leaves no lock |
| **Credit service** `services/credit_service.py`, `ledger_service.py`, `api/credits.py` | carbon accounts, `carbon_credits`, `credit_retirements`, ledger, Redis listing | mint, transfer, retire, list | inventory backed by the ledger, books balance, a tonne used once, a listing falls behind only in known ways |
| **Carbon logging** `services/carbon_service.py` | `carbon_records`, liability account | log an emission, list | liability = opening + emissions + postings |
| **Accounts, sessions, authority** `services/auth_service.py`, `rbac_service.py`, `core/dependencies.py`, `api/auth.py`, `api/admin.py` | `users`, `auth_sessions`, `permission_delegations` | register, login with lockout, logout, session check, role change, suspend, restore, delegate, bootstrap | one Boss Admin who keeps office; authority starts there; suspension sticks and revokes sessions; locks are earned |
| **Start-up and seeding** `db/database.py`, `db/seed.py`, `services/rbac_service.py`, `run_all.py` | every table, the session of the seeding, SQLite's write lock | create the schema, roles and permissions, factors, demo users, banks, goals, alerts, baseline, sample transactions; swallow errors | each unit is one commit; nothing twice although two servers seed one database; the demo data are there |
| **Investigation cases** `api/cases.py` | cases, assignments, audit events | create, assign, record findings, view | dense numbers, findings neither lost nor written from outside, a true audit log |
| **Carbon factors, goals, alerts** `api/sustainability.py` | `carbon_factors`, `sustainability_goals`, alerts | add and activate a factor, create or update a goal, resolve an alert, KPIs and exports | an activation replaces the factors it found; once there is an active factor there always is one |
| **Rate limiter** `middleware/rate_limit.py` | buckets of time stamps per process | admit or refuse | at most the quota in any window |
| **Operations tracker** `services/operations_service.py`, `middleware/logging_middleware.py` | five deques of time stamps per process | record, prune and count | no event of the last 60 s is missing from any reader's count |
| **Baseline calibration** `services/baseline_service.py` | in-memory calibration, `baseline_profiles` | start, sample, complete, lock, current, drift | the default never supersedes a lock; a run cites the newest baseline it could see |
| **Telemetry, energy accuracy** `services/telemetry_service.py`, `accuracy_service.py` | `KEPLER_AVAILABLE`, averages, `validation_runs` | real-time figures with fallback, mode, log emissions, validate, report | power carries the label of its source |
| **Portfolio, ledger API, KPI reports** | none of their own | read only | — |
| **HTTP shell, front ends, deployment, documents, tests** | none that handlers share | — | — |

Interactions: handlers call services directly; services share the tables through
their sessions; the credit service calls `post_ledger_transaction`, which **commits on
its own** in the middle of its caller; emission logging writes the liability account
that credit postings read; Redis is written after the commit, errors swallowed;
authentication reads the user row on every request, so role and suspension take effect
without a new token; a development start rewrites demo users under running servers.

Hard behaviours, with their lines, are the `hazards` of `PROJECT.json`. The most
important ones: balances checked under a row lock but *loaded before* it
(`SELECT ... FOR UPDATE` without `populate_existing` does not refresh an object the
session already holds); lock cycles; idempotency lookup and record in different
steps; two commits in one operation; predecessor lookups while other transfers are in
flight; revocation in a commit after the suspension; read-modify-write of counters;
errors swallowed in the middle of a session that goes on (traffic generators, seeding);
two servers that seed one database beside running requests; sources of figures that
vanish between two queries.

## 2. Modules

| Module | Models |
|---|---|
| `Payment` | `execute_bank_transfer` and `get_user_cash_account`, whole, on either database |
| `Journal` | abstract: the append-only journal every execution implements |
| `Bank` | abstract: atomic transfers, which executions without overlap implement |
| `PaymentAccounting` | what the ledger's amounts add up to; the refinement of `Bank` |
| `PaymentBatch` | the traffic generators beside the customers' transfers, on top of `PaymentAccounting` |
| `MCPayment`, `MCBatch` | the instances for TLC |
| `PaymentProofs`, `PaymentBatchProofs` | theorems about the engine alone, and about engine and traffic generators on one database |
| `Credits` | mint, transfer, retire, listing, `post_ledger_transaction`, `log_emission` |
| `Registry` | abstract: credits issued, moved and burned atomically |
| `CreditsAccounting` | what inventory and postings add up to; the refinement of `Registry` |
| `MCCredits`, `MCRacing` | the instances; in `MCRacing` two workers race for rows, or change what a listing shows |
| `CreditsProofs` | theorems about `Credits` |
| `MCSerial` | one worker: the transfer engine against `Bank`, the credit service against `Registry` |
| `Access`, `MCAccess`, `AccessProofs` | registration, login, sessions, role model, bootstrap, demo reset; theorems |
| `Cases`, `MCCases`, `CasesProofs` | case creation, assignment, findings, detail view, audit events; theorems |
| `RateLimiter` | the sliding window of each process |
| `Gateway` | logging middleware and operations tracker around the rate limiter, on top of `RateLimiter` |
| `RateLimiterProofs` | theorems about both |
| `Deployment` | the request threads and the database, which the next three share |
| `Startup` | schema creation and seeding by several server processes |
| `Factors` | carbon factors and goals, served beside the seeding of the same tables, on top of `Startup` |
| `Energy` | telemetry, baselines and validation runs |
| `MCServers` | the instance of the last four parts: two servers that seed, `Factors` beside the seeding, `Energy`, or the `Gateway` of one server |
| `SustainabilityProofs` | theorems about `Startup` and `Factors` together and about `Energy` |
| `Sums`, `SumTheorems` | the sum of a column over rows, which both accounting modules use, and its laws |

`PROJECT.json`, "map", names the lines of every definition. Definitions called `Slip...`
are plausible programming errors (a dropped guard, an off-by-one, a missing reset), kept
beside what they vary; no behaviour uses them. For each property one is substituted
for the definition it follows, to see that the property notices.

### Payment

State: `balance`, `open` (existing wallets), `ledger` (a transaction with its two
entries, in commit order) and `keys` are the *committed* tables; `session[w]` is what a
thread has loaded or flushed and nobody else sees; `rowLock` and `writer` are the
database's locks. `RowLocks` chooses the database: TRUE for PostgreSQL, where FOR
UPDATE locks rows; FALSE for SQLite, where FOR UPDATE is ignored and the first write of
a session takes the one write lock until commit or rollback.

| Actions | Lines of `payment_service.py` |
|---|---|
| `Refuse`, `Replay`, `Accept` | 128-164: validation, ownership, idempotency lookup |
| `UnknownParty`, `FindWallet`, `CreateWallet` | 75-101, called at 166 and 167 |
| `LockRow` | 170-171: sender first, then recipient |
| `RejectInsufficient`, `Stamp` | 173-190: check of the loaded balance, time stamp |
| `Flush` | 202-251: the explicit `db.flush()` and the predecessor query (autoflush is off) |
| `Commit`, `FailDuplicateKey` | 205-302: all rows, the UNIQUE key, one commit |
| `Respond` | 304-330 |
| `LockFailure`, `Crash` | deadlock abort, busy timeout, lost connection or process, anywhere |

`NamesOf` gives a user's bank_id and username, `UserOf` what a name stands for: a bank_id before a username (77-79).
`Authorized` compares the source with the caller's own names only (142-143), so a caller whose username is another
user's bank_id passes, and the account is the other's; the instance of `serial` has one.

The stamp (`datetime.utcnow()`) names a transaction and stands for its audit hash:
digests do not collide, and two transfers do not get the same microsecond.

### PaymentBatch

`simulate_concurrent_workload` and `run_benchmark_batch` call `execute_bank_transfer` in a
loop (the benchmark once) for no actor, under no key, **in one session**, and log what it raises. The
module reuses the steps of `Payment` for the transfers (`AdvanceItem`, `CommitItem`) and
replaces their endings: `FailItem` leaves a refused transfer without a rollback, so flushed
wallets and row locks stay until the next commit of the batch; `AbortItem` is a deadlock or
busy timeout that leaves the session unusable, after which `RefuseItem` fails every later
transfer; `LoseConnection` distinguishes the commit, whose failure is rolled back (297-298)
and which may have succeeded, from the rest; `ReturnItem` appends to the list of the answer and
`EndBatch` answers and closes the session. `Single` is a customer's request, as in
`Payment`. `made` and `lost` are history variables.

### Credits

`engine` is a variable chosen at the start, so one run covers both databases. A transfer
or retirement passes `LockCredit` → (`CreditMissing` | `CreditRefused`) → `LoadFirst`,
`LoadSecond` → `PostDebit` → `PostCredit`, which ends in the **first commit** and frees
every lock, → `Reread` → `UpdateInventory`, the **second commit**, from the row read
again and not checked again → `Evict` → `Respond`. `Crash` can fall between any two.
`CacheHit`, `CacheMiss`, `Fill` and `Expire` are the listing with its 60 s in Redis. A
mint needs an account row of the user "system" to exist; no code creates that user, so
only databases made without enforced foreign keys have it. The instance does.

### Access

A handler loads rows, decides, and writes only the columns that changed
(SQLAlchemy's dirty columns), so racing handlers overwrite single columns. `SessionAccepted`
and `ActorAdmitted` are the dependencies that resolve the caller, `TargetAccepted`
the checks on the target, `CommitRevoking` the commit of a role change or suspension and
`revoke_all_user_sessions` the separate commit after it. `Seed` is the reset of a demo user
by a development start (`seed.py:213-220`), at any moment. Roles are cut to
SUPER_ADMIN, ADMIN and CUSTOMER, permissions to those the operations ask for and one that is
only handed on. Passwords, token signatures and CSRF tokens are external: a login has
the right or a wrong password; a request names an existing session. `wrong` and
`session.mark` are history variables, not in the code.

### Cases

`create_case` is `CountCases`, then `InsertCase` or `InsertClash`: the number is the count plus one, taken a
round trip earlier, and only the UNIQUE column keeps two creations apart. `assign_investigator` is `LoadCase` →
(`NotInvestigator` | `IsInvestigator`) → `LookupAssignment` → (`Attach` | `AttachClash`);
`update_findings` is `LoadCase` → (`Outsider` | `Insider`) → (`RecordFindings` | `RecordFails`); the detail view shares
the first steps and logs a refusal. `Updated` is what an UPDATE of changed columns does to
a row that moved on since it was loaded. `LogEvent` is the separate commit of the audit
event. `SetRole` stands for the role changes of `Access`; `recorded` is a history variable: by whom, and in which role, findings of
a case were committed. `update_findings` asks for no permission, and for an assignment only in the role INVESTIGATOR
(`cases.py:241, 250`); the instance has a customer who sends findings. The request names a documented status or null (`cases.py:37`).

### RateLimiter

`is_allowed` runs on the event loop without a suspension and is one step (`Admit` or
`Refuse`). A list of stamps is a set with its oldest element; `admitted` (history) keeps those
that were pruned. Time is counted in ticks, several to a second, since `int()` truncates the
wait; it does not go backwards. Each process has its own buckets and loses them in `Restart`.

### Gateway

The logging middleware is installed last and so runs outermost (`main.py:49-65`). `Arrive` is
the limiter's `dispatch` (`Admit` and the handler, or `Refuse` and 429), `Respond` the response on its way
out, stamped in the categories of `logging_middleware.py:24-34`, `Raise` an exception no handler
catches, which passes `call_next` and is recorded nowhere. A reader takes the time
(`ReadClock`) *before* it waits for the lock, then prunes and counts (`Sweep`); several
readers prune the same deques with different cutoffs. `served` is a history variable.

### Startup

`Script` lists the steps of `init_db`, `init_rbac_system` and `seed_database` in order, each
with how it ends: a commit, a flush, or rows left in the session. A row stands for the rows a
statement group inserts; kinds without a unique column carry their author, so that a second copy is a
different row. `tables` is what is committed; `server[s].added` is in the unit of work,
`server[s].sent` flushed. autoflush is off, so a look-up sees committed and sent rows only
(`Missing`). A unique index refuses what somebody committed (`Conflict`) and waits for what
somebody sent (`MaySend`); SQLite has the one write lock, for which a session with nothing to insert does not wait. `Refused`, `Broken` and `Stop` end a
start-up; unless the schema itself failed, `init_db` swallows the error and the server serves.

### Factors

`Activate` and `Add` (with `is_active`) run the bulk `UPDATE carbon_factors SET is_active = false`: on
PostgreSQL `Snapshot` takes the rows the statement sees, `UpdateAll` waits for those another
session has updated, and rows inserted meanwhile are missed; on SQLite the write lock makes it one step. Then the
target's flag is set, or the new row inserted, and `CommitChange` commits. `SetGoal` looks for a goal
of the type and inserts or updates. All this runs while servers start, stop and seed the same tables.

### Energy

`get_realtime_metrics` is `Rates` → `Mode` → `Probe` → `Figures`: three queries to
Prometheus and the exporter between which `Change` moves both. `Labelled` is the choice of label
and, for power, idle power and the containers' shares each, of the source: the exporter, Prometheus, the model, or a
figure written in the code (`"fixed"`); an OBSERVED answer without a probe is a `TypeError` (line 209), answered 500. `LogMode` and
`LogEnergy` are the emission log. `Lock`, `LookBaseline` and `InsertDefault` are
`baseline_service.py:104-155`; the profile's time stamp is the database's `now()`: the transaction's
start on PostgreSQL, the insertion on SQLite. `SaveRun` and `LookRun` are validation runs and the
report that makes one. Figures are abstracted to where they come from.

## 3. Runs

| Run | Instance | Question and result |
|---|---|---|
| `payment_postgres` | 2 workers, row locks, `MixedRequests`, `MaxStamp` 3 | `TypeOK`, `OncePerKey`, `AnswersAreCommitted`, refinement of `Journal` and, under fairness, `EveryRequestAnswered`: hold through lock cycles, retries of one key by two people, self transfers, wallets created on the way, unknown parties and crashes |
| `payment_batch` | 2 workers, both databases, a generator's three transfers and an operator's benchmark, a customer, wallets created on the fly, `MaxStamp` 2 | `RunningBalanceCurrent`, `NoFreeWallet`, `BatchReportTrue`, `LocksFollowBatches` and, under fairness, `EveryBatchEnds`: hold although refused transfers keep their locks, deadlocks break the session and connections are lost |
| `payment_double_spend` | 2 workers, row locks, one whole balance twice | `NoDoubleSpend` **fails** (finding 1) |
| `payment_chain_fork` | 2 workers, write lock | `UnbrokenChain` **fails** (finding 2) |
| `serial` | 1 worker, every kind of transfer (`MaxStamp` 3) or of credit request (`MaxOps` 3), refused ones too | `AtomicBank`, refinement of `Registry`, `BooksBalance`: without overlap the engine *is* an atomic bank with one hash chain and the credit service a registry, crashes included |
| `credits_concurrent` | 2 workers, both databases, `Claims` or `Browsing`, `MaxOps` 2 | `TypeOK`, `InventoryFollowsLedger`, `AnswersAreTrue`, `OneCheckedSpender` `StaleListingsAreExplained` and, under fairness, `EveryRequestAnswered`: hold through two claims on one credit, opposite postings, a mint and an emission, with a listing cached across a hand-over and evictions that fail |
| `credits_double_count` | 2 workers, one credit claimed twice | `NotCountedTwice` **fails** (finding 3) |
| `access` | 2 workers, 4 users, `MaxFailures` 2; a development database with 3 attempts, or a production one with two candidates and 2 attempts | `TypeOK`, `RevocationIsComplete`, `LocksAreEarned`, `SuspensionSticks`, `OneBoss`, `BossKeepsOffice`, `SuperAdminsAreAppointed` against racing logins, failures, restorations, demo resets and bootstraps |
| `cases` | 4 users, 2 cases, `MaxRequests` 5, one investigator loses and regains the role | `TypeOK`, `NumbersAreDense`, `AuditIsTrue`, `FindingsKept` |
| `cases_findings` | the same | `FindingsOnAssignedCases` **fails** (finding 5) |
| `servers` | both databases; 2 servers (1 stop) that seed an empty or an old development database; or 2 servers (no stop) beside 2 workers and `MaxChanges` 2, on a production database that holds the factors or an old development one; or energy figures on three machines, one with every source of power, one with `MaxProfiles` 2 and one tick of PostgreSQL's clock, one on SQLite without; or the gateway of 1 process, 1 client, quota 1, window of 1.5 s in half-second ticks, 2 readers, `MaxTime` 4, `MaxCalls` 3, one path in a behaviour (registrations while time passes, logins while it stands still) | `SeedIsWhole`, `ActivationsReplace`, `SomeFactorActive`, `ObservedPowerIsMeasured`, `RunsCiteTheirBaseline`, `DefaultComesFirst`; `WindowBound`, `RetryIsEnough`, `CountsAreTrue`: the quota holds in *every* window; who waits what `Retry-After` said, and less than a second more, is admitted; readers do not cost each other events |
| `startup_banks` | 1 server, no stop, an empty database | `DemoIsSeeded` **fails** (finding 4) |

**Bounds.** `MaxStamp` bounds the transfers accepted, `MaxOps` the credit operations, `attempts`
logins and registrations, `MaxChanges` factor and goal requests, `MaxProfiles` locks,
`MaxCalls` answered requests, `MaxStops` stops and broken start-ups; `MaxFailures` is 2 instead of 5. Each is in the
guard of a submission or a fault only (`Cut` ends a batch at `MaxStamp`, as if fewer transfers had been asked), never of a
handler's step, so whatever starts may finish.
Every race in this code is between two handlers, two servers or one of each on one row or key, so two
of each show it. Three transfers give a key, its retry and a stranger in between. Two wallets make the
lock cycle; a third party without a wallet makes the creations. A batch of three transfers is
enough for a transfer to meet what a failed one and a refused one left behind. Amounts are 1 and 2 (9 to be refused) over
balances of 1 to 4: enough for exact, partial and insufficient cover. Two
failures give a lock, three attempts a login after it. `MaxRequests` 5 lets a creation, an
assignment, a record and two rivals interleave. Three calls are an admission, a refusal and a call after the
window; four ticks are a window and one more, so that what left it is pruned and its place taken. One stop gives a crash in the middle and a restart on what is
left, beside a second server; two changes are two rival activations, or an addition and an activation.
One tick separates older from newer profiles; only on PostgreSQL can stamps contradict the order
of the commits, so only there it ticks. Symmetry is used only in runs that check no liveness property.

**Fairness.** Assumed for `EveryRequestAnswered` and `EveryBatchEnds` only (`FairSpec` in `Payment`, `Fairness` in `Credits`). A thread runs until
its handler returns: weak fairness of `Step(w)` (`Progress(w)` with the batches' steps). PostgreSQL queues the sessions
waiting for a row and grants it in turn, so a waiter is not overtaken for ever: strong
fairness of the lock-taking steps (`LockRow` in `Payment`, `Grant` in `PaymentBatch`; with SQLite the busy timeout, part
of the handler's steps, ends a wait anyway). Submissions, crashes, lost connections, stops, the expiry of listings and the
sources of telemetry have none.

**Deadlock** is checked in every run but one: a state with no step would mean that all threads wait for
each other and no timeout or abort applies. In `credits_concurrent` the clients that only claim stop after `MaxOps`
requests, so its last states have no step; that nobody waits for ever is what `EveryRequestAnswered` says there.

## 4. Proofs

Each theorem is about the specification itself, for *any* sets of threads, users, accounts, rows, requests, servers and
for either database. Constants are constrained by the `ASSUME`s of the modules only, which TLC
evaluates in every run. Each invariant a run checks was checked together with its strengthening before it was proved.

| Module | Theorems |
|---|---|
| `PaymentProofs` | `TypeCorrect`, `KeysMoveMoneyOnce`, `SuccessIsDurable`, `RefinesJournal`; for one worker `SerialEngineIsBank`, `SerialChainUnbroken`, `SerialNoDoubleSpend` |
| `PaymentBatchProofs` | `StatementsMatchWallets`, `GrantsAreEarned`, `ReportsAreTrue`, `LocksAreAccountedFor` |
| `CreditsProofs` | `TypeCorrect`, `InventoryHasItsPostings`, `ClientsAreToldTheTruth`, `OneSpenderChecked`, `ListingsFallBehindForAReason`; for one worker `SerialBooksBalance`, `SerialServiceIsRegistry`, `SerialNotCountedTwice` |
| `AccessProofs` | `TypeCorrect`, `OneBossOnly`, `OfficeIsKept`, `NoUnearnedLock`, `OldSessionsAreClosed`, `SuspensionsHold`, `AppointmentsAreTheBosss` |
| `CasesProofs` | `TypeCorrect`, `NumbersStayDense`, `LogTellsTheTruth`, `FindingsAreKept` |
| `RateLimiterProofs` | `QuotaKept`, `RetryAfterIsEnough`, `TypeCorrect`; `GatewayKeepsLimits`, `RatesAreTrue` |
| `SustainabilityProofs` | `SeedingIsWhole`, `FactorStaysActive`, `ActivationReplacesOthers`; `PowerIsLabelled`, `RunsAreWellFounded`, `NoLateDefault` |
| `SumTheorems` | the laws of sums: any order, one row more, one row changed, rows left out |

They state every invariant, action property and refinement the passing runs check. `NoDoubleSpend`, `UnbrokenChain` and
`NotCountedTwice`, which two workers break (section 5), are proved for one worker: what is wrong there is the overlap, and
nothing else.

**Assumptions** beyond the types of constants and null values that differ from real ones:
`OfficeAssumption` (a deployment begins with one Boss Admin at most, in office, whom seeding does not change; in
development the demo users are there), `CountersAssumption` (users begin without failures and locks), `RowsAssumption`
(opening carbon balances are not negative), `BatchesAssumption` (the parties of the
stimulator, which are fixed, have wallets), `OpeningsAssumption` (a database found at a start consists of whole units, and a
server's own rows are not yet in it), `FactorsAssumption` (servers and request threads differ).
`TablesAssumption` (users, accounts and opening credits are finite in number, as rows of tables are). The theorems
called `Serial...` assume one worker; `SerialEngineIsBank` and `SerialChainUnbroken` also `SeedStamp = 0`: the seeded transactions
lie in the past of every new one; `SerialServiceIsRegistry` and `SerialNotCountedTwice` also that no credit has a negative
amount at the start, as no execution without overlap leaves one.

**Payment.** `TypeOK` is not inductive: that a posted balance is natural needs the guard
`Covered`, passed two round trips earlier. `SInv` adds `SessionSound`: what a session
holds at each stage, namely an amount above zero, the accounts loaded, and from `Stamp` on
a loaded balance that covers the amount and a stamp the clock has given out. Committed balances
come from loaded ones, so no lock is needed. For the ledger, `LInv` says: identities
in the ledger are at most the clock and unique; a key record and its transaction imply
each other; the stamp of a worker in flight is neither in the ledger nor another
worker's; the link it is about to commit is committed already; a worker about to answer
200 has its transaction in the ledger. For the refinement of `Journal`, `OnlyCommitWrites` makes every
other step a stutter, and `CommitAppends` with `LInv` makes a commit a `Post`. For the
refinement of `Bank` by one worker, `HeldSound` says that what it loaded is what is committed, which double spends break, and
`ChainSound` that the last transaction is the newest and the one it links to, which forks break. With `HeldSound` a
commit is a transfer (`CommitTransfers`), and so each wallet holds what it opened with, plus what came in, less
what went out (`Accounted`).

**PaymentBatch.** `BInv` has four parts for each worker: what its session holds at each stage, which
wallets it has flushed (nothing is committed after the last transfer of a batch, so what that leaves is lost), what it
has reported of what it committed, and which locks it must and may hold: those of its two parties from the lock on, and any from earlier
transfers while the batch goes on. `RunningBalanceCurrent` needs the first only, `NoFreeWallet` the first two.

**Credits.** `SessionSound` carries over both commits what the first established: the credit row exists, the number of the
request is in no posting before the first and in one after it. Numbers differ between requests under way and
answered ones (`IdsDistinct`). On PostgreSQL a request between check and posting holds the lock of its credit. For one worker, `FreshSound` says that the
balances it has loaded are the stored ones, and `HeldSound` that the credit it checked is still what it was between
the two commits, until `UpdateInventory` writes it. Then a posting changes both sides of the books alike (`Balanced`), and every
step either leaves all holdings as they are or is one operation of `Registry`; `Conserved` adds up holdings and certificates over the users.
`StaleListingsAreExplained` needs `PendingSound`: between its commits a request's new row is not there yet, since numbers differ, and its
asker is among those it will evict. `UpdateAffects` then says whose credits the second commit changes.

**Sums.** `Total` is a fold of the community modules: a recursive function that takes out one row after the other, in an
order that CHOOSE fixes. Its laws are not proved by induction but from a *least counterexample*: were a law false of some
subset of a finite set, it would be false of a subset all of whose own parts obey it (`LeastSet`, from the well-foundedness of strict
inclusion), and one row taken out contradicts that. `FoldsAgree` and `FoldExists` say that the function is there
and does not depend on the set it was begun for; `TotalSplit` that any row may be taken first; the others follow.

**Access.** Handlers decide on old rows. What saves the Boss Admin is that nobody changes the flag of an existing
row, and that `bank_id` is unique, so that what a handler saw of the flag is still so at its commit; the invariant says
what each stage has seen. `CountsSound` weighs the logins under way: attempts cover sessions, failures and those still to come.
`SuspensionSticks` and `SuperAdminsAreAppointed` come from one lemma about every commit (`CommitMoves`).

**Cases.** A worker about to insert read a count no larger than the present one, so that a free number is the next;
a loaded row may be old, but its number stays, its findings, once seen, are still there; a worker about to log the record
of findings has recorded them itself.

**RateLimiter, Gateway.** That pruned stamps may be forgotten needs `Complete`: a bucket holds every admission younger
than the window. With it, an admission keeps each window that contains it within the quota (`KeyAdmits`); the other windows do
not change (`KeyAged`). `RetrySound` remembers why a client was refused: `KeyAdmitted` and `KeyRefused` compare the wait it was told with
the age of the oldest stamp. For the tracker, `DequeSound` says that a deque is a suffix of what was recorded and
that all it lacks is older than the window of any reader with a cutoff in hand. `Gateway` implements
`RateLimiter`, so the theorems about the quota hold inside it.

**Startup, Factors.** `FInv` says of each seeding session what its look-ups have found (`Found`: every name of
a step passed has its row, committed or held), and of each row it holds why it may be there (`RowSound`). A held grid factor comes with
held activity factors, and a committed one by a server with committed ones; since the activity factors have a primary key,
at most one session has sent them (`OneSender`), and none once they are committed. So a second copy is refused.
At the commit of the sample transactions every demo kind has been looked for, and so is there. A request's bulk UPDATE
has reached all factors that were there when it began (`DeskSound`), and who has reset factors is about to set one.

**Energy.** `TaskSound` says what a telemetry request has found and that it is still so unless a source changed; a
request about to insert the default saw no profile; a validation run works with a baseline as new as any it could know.

**Only model-checked.** Liveness (`EveryRequestAnswered`, `EveryBatchEnds`), since fairness and ENABLED are beyond the
prover, and the five findings, which are counterexamples.

## 5. Findings

1. **Double spend** (`payment_double_spend`; `payment_service.py:166-173`). Both transfers load the
   wallet, one locks and commits, the other gets the lock and checks its
   old object. Both answer 200 and the recipient's balance is overwritten rather than added to.
   `SECURITY_ACCEPTANCE_TESTS.md:62` promises that one of ten succeeds.
2. **Chain fork** (`payment_chain_fork`; line 235). Transfers in flight together link to the same
   predecessor, or a transfer commits after one with a later stamp, against
   `SECURITY_THREAT_MODEL.md:106`. Without overlap the chain is proper (`AtomicBank`).
3. **A tonne counted twice** (`credits_double_count`; `credit_service.py:250, 344`). The ledger's commit
   frees the credit's lock, the row is read again and not checked again.

4. **The banks are never seeded** (`startup_banks`; `seed.py:260-270`). The issuance account is inserted for the user
   "system", whom no code creates; `models/account.py:41` is a foreign key and both databases enforce it. The flush
   raises, `init_db` logs a notice (`database.py:63-64`) and the server serves, without banks, goals, alerts, recommendations,
   default baseline and sample transactions, against `database.py:12` and `tests/test_accuracy_engine.py:84-98`.
5. **Findings on cases of others** (`cases_findings`; `cases.py:250`). A caller whose role is not INVESTIGATOR is not checked
   against the assignments, and no permission is asked for: a customer overwrites findings and status of any case, against
   `cases.py:244` ("on an assigned case"), `cases.py:71` and the permission `cases.investigate` (`rbac_service.py:37`).
   `tests/test_sec_rbac.py:137-146` writes as the assigned investigator only.

Other disagreements met while modelling, each reachable in the models or plain from the
text, for which no run is kept:

- a retry whose first attempt is in flight gets 500 (`FailDuplicateKey`) where `IMPLEMENTATION_PLAN.md:176`
  plans a conflict answer, and `request_hash` is stored but never compared;
- a mint fails with 500 on a fresh database with foreign keys, where `tests/test_sec_rbac.py:73-76` expects
  authorised mints to pass;
- a listing read before an update can be stored after its invalidation, against the comment at
  `credit_service.py:103`, and stays up to its 60 s; so does one whose invalidation failed (`StaleListingsAreExplained`
  names the ways, of which the commit that evicts next is the harmless one). Of two claims on one credit the second may also change a credit that
  meanwhile belongs to another user, whom it does not evict;
- a transfer or retirement of credits that stops between its two commits leaves a posting without its inventory change, and
  nothing repairs it; a reused `Idempotency-Key` is answered with the first transfer, whatever the second asked for;
- `db.refresh` inside the `try` of the posting may fail after its commit and is answered 400;
- carbon balances and failed-login counters lose updates; parallel requests create two wallets for one user;
- a client that waits exactly what `Retry-After` says may be refused again, since the wait is truncated
  (`rate_limit.py:44`); two server processes admit twice the quota (`IMPLEMENTATION_PLAN.md:167` plans Redis for that);
- the benchmark answers "Successfully executed N transactions" when its one transfer failed (`payment_service.py:422, 436`);
- every *new* demo user gets two cash wallets and two carbon accounts of each kind: the look-up at `seed.py:223` does not
  see the accounts just added, since autoflush is off; line 212 announces the balance of one;
- unhandled exceptions are answered 500 outside the logging middleware and are missing from the 5xx rates
  `api/operations.py:4` announces; tracker and limiter exist once per process;
- real-time figures answer 500 when Prometheus has rates and the exporter does not answer (`telemetry_service.py:209`);
  every OBSERVED answer has figures the code fills in, 68, 22 and 10 % shares beside the exporter's counters (178-182) or an idle power of
  18.7 W beside Prometheus' rates (202), against MON-03, "No fabricated data labeled "OBSERVED"" (`SECURITY_ACCEPTANCE_TESTS.md:88`), and
  the remediation of `SECURITY_AUDIT.md:358`; with the exporter, cumulated joules are answered as watts (173-175);
  the emission log asked for twice logs the same hour twice; the KPIs call themselves SIMULATED whatever the mode is
  (`sustainability.py:136-137`);
- two overlapping additions of active factors leave both active on PostgreSQL, and two first goals of a type are both
  inserted: neither table has a unique column for it;
- on PostgreSQL a baseline locked later may carry the earlier time stamp, so that it does not become the current one,
  against the docstring at `baseline_service.py:105-108`; on an old database the seeded default is inserted although a lock exists,
  since `seed.py:374` looks for its key only, and then is the newest;
- for high risk and a target of 9 or more the portfolio weights sum to 1.15, against the comment at `portfolio_service.py:113`;
- a username may equal another user's bank_id (both columns are unique, each by itself): its owner passes the ownership check for that
  account (`payment_service.py:143`, against line 118);
- the audit event of findings reads the status again after the commit (`cases.py:266`), so it may be another writer's;
- an assignment reopens a case resolved since it was loaded, unless it was loaded as ASSIGNED (`cases.py:221`);
- in production seeding returns before its commit (`seed.py:113-118`), so that the factors are lost and `log_emission` takes 1.0; in development it lifts suspensions
  (213-220) and tops up wallets (226-229).

## 6. Not modelled

- The CHECK `balance >= 0` of `models/account.py:70-72`: `TypeCorrect` shows it never fires for transfers.
- Texts, hashes, certificates' layout, trace threads, metrics, floating-point figures (portfolio, accuracy statistics,
  telemetry values): no control depends on them here.
- The calibration manager (`baseline_service.py:21-101`): samples and statistics in memory without a lock. Statistics read
  while another calibration starts are a mixture, and `complete()` ends the new one; nothing in the repository says what
  a profile must contain then. The same holds for the averages of `accuracy_service.py:23-41`.
- `resolve_alert`, one UPDATE of one row, and everything that only reads: ledger API, portfolio, KPIs, trends, reports, exports.
- The contents of seeded rows and the top-up of demo wallets; the paths that pass the limiter unlimited (`rate_limit.py:78-89`).
- Front ends, routing, container configuration: they hold no state the handlers share. What clients send
  is the set `Requests`.
- The database engine: its locks, atomic commits, snapshots and unique indexes are assumed; they are the external part
  of the maps.

## 7. Plan

1. *Core (done):* `Payment`, `Credits`, `Access`, their abstract specifications and runs; `Cases` and `RateLimiter`; the
   proofs of `Payment` and `RateLimiter`.
2. *Extension (done):* `PaymentBatch`, `Gateway`, `Startup`, `Factors`, `Energy`; one run each for what can share a
   state graph, the serial instances in one.
3. *Proofs (done):* every invariant, action property and refinement of the passing runs; the laws of sums; for one worker
   what the findings show two workers break.
4. *To follow:* what would still hold with several workers if the balances were refreshed under the row lock
   (`populate_existing`), as a variant of `Load` to compare with; the calibration manager, once the repository says what a profile contains.
