---------------------------- MODULE PaymentBatch ----------------------------
(***************************************************************************)
(* The traffic generators of payment_service.py beside the customers'      *)
(* transfers: simulate_concurrent_workload (POST /payment/stimulate) and   *)
(* run_benchmark_batch (POST /payment/benchmark).  They run several        *)
(* transfers in ONE session, for no actor and under no key, and log the    *)
(* exceptions of a transfer instead of closing the session: what a failed  *)
(* transfer has locked or flushed stays in the open transaction, and a     *)
(* transaction the database has given up fails every later transfer.       *)
(***************************************************************************)
EXTENDS PaymentAccounting

CONSTANT Batches    \* the batches operators may ask for: sequences of items

ItemType == [src: STRING, dst: STRING, amount: Int, key: {NoKey}]

HasWallet(n) == \E a \in DOMAIN SeedBalance : OwnerOf[a] = UserOf[n]

(* Known parties with a wallet, or nobody: seed.py:120-257 and register    *)
(* create a user and the wallet together.                                  *)
Settled(item) ==
  \A n \in {item.src, item.dst} : n \in DOMAIN UserOf => HasWallet(n)

(* A batch of several transfers is the stimulator's, whose parties are     *)
(* fixed (lines 348-349); the benchmark's one transfer is between parties  *)
(* of the operator's choice.                                               *)
ASSUME BatchesAssumption ==
  /\ Batches \subseteq Seq(ItemType) /\ <<>> \notin Batches
  /\ \A b \in Batches : Len(b) > 1 => \A i \in DOMAIN b : Settled(b[i])

VARIABLE batch      \* worker -> the batch it serves

bvars == <<vars, batch>>

(* todo: the transfers to come; executed: the list of the answer; broken:  *)
(* the session's transaction is unusable; made: transfers the batch has    *)
(* committed, lost: the connection failed (neither is in the code).        *)
NoBatch ==
  [active |-> FALSE, todo |-> <<>>, executed |-> {}, broken |-> FALSE,
   made |-> {}, lost |-> FALSE]

BatchInit ==
  /\ Init
  /\ batch = [w \in Workers |-> NoBatch]

Serving(w) == batch[w].active

-----------------------------------------------------------------------------
(* The customers' requests, as in Payment.                                 *)

Single(w) ==
  /\ ~ Serving(w)
  /\ \/ Step(w)
     \/ Crash(w)
     \/ Submit(w)
  /\ UNCHANGED batch

-----------------------------------------------------------------------------
(* The loop: one transfer after the other.                                 *)

StartBatch(w, b) ==
  /\ pc[w] = "idle" /\ ~ Serving(w)
  /\ batch' = [batch EXCEPT ![w] = [NoBatch EXCEPT !.active = TRUE, !.todo = b]]
  /\ UNCHANGED vars

Between(w) == Serving(w) /\ pc[w] = "idle"

(* The first query of a broken session raises.                             *)
RefuseItem(w) ==
  /\ Between(w) /\ batch[w].todo # <<>>
  /\ batch[w].broken \/ ~ Valid(Head(batch[w].todo))
  /\ batch' = [batch EXCEPT ![w].todo = Tail(@)]
  /\ UNCHANGED vars

(* The bound on transfers cuts a batch short, as if fewer had been asked.  *)
StampsLeft == clock + Cardinality(Unstamped) < MaxStamp

Cut(w) ==
  /\ Between(w) /\ batch[w].todo # <<>> /\ ~ StampsLeft
  /\ batch' = [batch EXCEPT ![w].todo = <<>>]
  /\ UNCHANGED vars

BeginItem(w) ==
  /\ Between(w) /\ batch[w].todo # <<>>
  /\ ~ batch[w].broken /\ Valid(Head(batch[w].todo))
  /\ StampsLeft
  /\ batch' = [batch EXCEPT ![w].todo = Tail(@)]
  /\ session' = [session EXCEPT ![w].req = Head(batch[w].todo)]
  /\ pc' = [pc EXCEPT ![w] = "source"]
  /\ UNCHANGED <<reply, database, locks, clock>>

(* Flushed wallets and row locks outlive the item; the loaded objects do   *)
(* not: the identity map is weak and nothing has changed them.             *)
LeaveItem(w) ==
  /\ pc' = [pc EXCEPT ![w] = "idle"]
  /\ session' = [session EXCEPT ![w] = [NoSession EXCEPT !.created = session[w].created]]

FailItem(w) ==
  /\ Serving(w)
  /\ \/ pc[w] \in {"source", "dest"} /\ Party(w) \notin DOMAIN UserOf
     \/ pc[w] = "check" /\ ~ Covered(w)
  /\ LeaveItem(w)
  /\ UNCHANGED <<reply, database, locks, clock, batch>>

(* The steps of Payment that neither answer nor close the session.         *)
AdvanceItem(w) ==
  /\ Serving(w)
  /\ FindWallet(w) \/ CreateWallet(w) \/ LockRow(w) \/ Stamp(w) \/ Flush(w)
  /\ UNCHANGED batch

CommitItem(w) ==
  /\ Serving(w)
  /\ Commit(w)
  /\ batch' = [batch EXCEPT ![w].made = @ \cup {session[w].stamp}]

ReturnItem(w) ==
  /\ Serving(w) /\ pc[w] = "answer"
  /\ batch' = [batch EXCEPT ![w].executed = @ \cup {session[w].stamp}]
  /\ LeaveItem(w)
  /\ UNCHANGED <<reply, database, locks, clock>>

-----------------------------------------------------------------------------
(* A deadlock or a busy timeout ends the transaction, not the batch.       *)

AbortItem(w) ==
  /\ Serving(w)
  /\ Deadlocked(w) \/ WaitsToWrite(w)
  /\ CloseSession(w)
  /\ batch' = [batch EXCEPT ![w].broken = TRUE]
  /\ UNCHANGED <<reply, database, clock>>

(* Slip: the transfer is counted before its commit is known.               *)
SlipCountedEarly(w) ==
  /\ Serving(w) /\ pc[w] # "idle"
  /\ CloseSession(w)
  /\ batch' = [batch EXCEPT ![w].lost = TRUE,
        ![w].executed = IF pc[w] = "commit" THEN @ \cup {session[w].stamp} ELSE @]
  /\ UNCHANGED <<reply, database, clock>>

(* The connection is lost.  Only a failing commit is rolled back by the    *)
(* handler (lines 297-298), which makes the session usable again; it may   *)
(* fail after the database has committed.  The read of the expired txn.id  *)
(* (line 314) may fail as well.                                            *)
LoseConnection(w) ==
  /\ Serving(w) /\ pc[w] # "idle"
  /\ CloseSession(w)
  /\ \E broken \in (IF pc[w] = "commit" THEN {FALSE}
                    ELSE IF pc[w] = "answer" THEN BOOLEAN ELSE {TRUE}) :
        batch' = [batch EXCEPT ![w].broken = broken, ![w].lost = TRUE]
  /\ UNCHANGED <<reply, database, clock>>

-----------------------------------------------------------------------------
(* The answer, and get_db closes the session.                              *)

(* Slip: the batch returns without closing its session.                    *)
SlipBatchLeft(w) ==
  /\ Between(w) /\ batch[w].todo = <<>>
  /\ batch' = [batch EXCEPT ![w] = NoBatch]
  /\ UNCHANGED vars

EndBatch(w) ==
  /\ Between(w) /\ batch[w].todo = <<>>
  /\ batch' = [batch EXCEPT ![w] = NoBatch]
  /\ CloseSession(w)
  /\ UNCHANGED <<reply, database, clock>>

CrashBatch(w) ==
  /\ Serving(w)
  /\ batch' = [batch EXCEPT ![w] = NoBatch]
  /\ CloseSession(w)
  /\ UNCHANGED <<reply, database, clock>>

-----------------------------------------------------------------------------

BatchStep(w) ==
  \/ RefuseItem(w) \/ Cut(w) \/ BeginItem(w) \/ AdvanceItem(w) \/ FailItem(w)
  \/ CommitItem(w) \/ ReturnItem(w) \/ AbortItem(w) \/ EndBatch(w)

BatchNext ==
  \E w \in Workers :
     \/ Single(w) \/ BatchStep(w) \/ LoseConnection(w) \/ CrashBatch(w)
     \/ \E b \in Batches : StartBatch(w, b)

BatchSpec == BatchInit /\ [][BatchNext]_bvars

(* What a thread does once it has begun, and the grant of a row.           *)
Progress(w) == (~ Serving(w) /\ Step(w) /\ UNCHANGED batch) \/ BatchStep(w)
Grant(w) == LockRow(w) /\ UNCHANGED batch

-----------------------------------------------------------------------------

(* What a batch answers with: committed transfers of this batch only, and, *)
(* unless the connection failed, all of them (lines 373, 383-393).         *)
BatchReportTrue ==
  \A w \in Workers : Between(w) /\ batch[w].todo = <<>> =>
     /\ batch[w].executed \subseteq batch[w].made \cap Ids
     /\ batch[w].lost \/ batch[w].made = batch[w].executed

(* A row or write lock is held by a transfer at work on it, or kept by a   *)
(* batch that has not ended (payment_service.py:377-378 swallows the       *)
(* refusal); and no two sessions hold uncommitted balances of one wallet.  *)
LocksFollowBatches ==
  LET inHand(w) == pc[w] \in {"lockDest", "check", "flush", "commit"}
      parties(w) == {session[w].from, session[w].to}
      kept(w) == Serving(w) /\ ~ batch[w].broken
  IN
  /\ \A a \in Accounts : rowLock[a] # NoOne =>
        kept(rowLock[a]) \/ (inHand(rowLock[a]) /\ a \in parties(rowLock[a]))
  /\ writer # NoOne =>
        \/ pc[writer] = "commit"
        \/ session[writer].created # {} /\ (pc[writer] # "idle" \/ kept(writer))
  /\ \A v, w \in Workers : v # w /\ pc[v] = "commit" /\ pc[w] = "commit" =>
        parties(v) \cap parties(w) = {}

(* Every batch and every request ends, although a batch keeps the locks of *)
(* its refused transfers while it waits for other rows.                    *)
EveryBatchEnds ==
  \A w \in Workers : (pc[w] # "idle" \/ Serving(w)) ~> (pc[w] = "idle" /\ ~ Serving(w))
=============================================================================
