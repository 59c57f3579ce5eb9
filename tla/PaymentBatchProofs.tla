------------------------- MODULE PaymentBatchProofs -------------------------
(***************************************************************************)
(* Proofs about the transfer engine together with the traffic generators,  *)
(* for any number of workers, accounts, requests and batches, with row     *)
(* locks or with a single write lock.  Payment alone is the case Batches = *)
(* {}.                                                                     *)
(***************************************************************************)
EXTENDS PaymentBatch, TLAPS

(* The types the arguments below rest on.                                  *)
ItemSession ==
  [req: Requests \cup ItemType \cup {NoRequest},
   from: Accounts \cup {NoOne}, to: Accounts \cup {NoOne},
   fromBal: Nat, toBal: Nat, created: SUBSET Accounts, stamp: Nat, prev: Nat]

BatchType ==
  [active: BOOLEAN, todo: Seq(ItemType), executed: SUBSET Nat, broken: BOOLEAN,
   made: SUBSET Nat, lost: BOOLEAN]

Typed ==
  /\ pc \in [Workers -> Stages]
  /\ session \in [Workers -> ItemSession]
  /\ batch \in [Workers -> BatchType]
  /\ balance \in [Accounts -> Nat]
  /\ open \subseteq Accounts /\ DOMAIN SeedBalance \subseteq open
  /\ ledger \in Seq(TxnType)
  /\ rowLock \in [Accounts -> Workers \cup {NoOne}]
  /\ writer \in Workers \cup {NoOne}
  /\ clock \in Nat

Kept(w)    == Serving(w) /\ ~ batch[w].broken
InHand(w)  == pc[w] \in {"lockDest", "check", "flush", "commit"}
Parties(w) == {session[w].from, session[w].to}

(* What a session holds at each stage; a batch whose transaction is        *)
(* unusable runs no transfer.                                              *)
StageSound(w) ==
  /\ pc[w] # "idle" =>
        session[w].req \in Requests \cup ItemType /\ session[w].req.amount > 0
  /\ pc[w] \notin {"idle", "source"} => session[w].from \in Accounts
  /\ pc[w] \notin {"idle", "source", "dest"} => session[w].to \in Accounts
  /\ pc[w] \in {"flush", "commit"} => Covered(w) /\ session[w].stamp \in 1..clock
  /\ Serving(w) /\ batch[w].broken => pc[w] = "idle"

(* Flushed wallets belong to the parties of the transfer at work, except   *)
(* after the last transfer of a batch: nothing is committed after it.  In  *)
(* a batch with more to come every party has a wallet.                     *)
CreatedSound(w) ==
  /\ pc[w] \in {"source", "answer"} => session[w].created = {}
  /\ pc[w] = "dest" => session[w].created \subseteq {session[w].from}
  /\ pc[w] \notin {"idle", "source", "dest"} => session[w].created \subseteq Parties(w)
  /\ pc[w] = "idle" =>
        session[w].created = {} \/ (Serving(w) /\ batch[w].todo = <<>>)
  /\ Serving(w) /\ batch[w].todo # <<>> /\ (pc[w] # "idle" \/ Len(batch[w].todo) > 1) =>
        /\ session[w].created = {}
        /\ \A i \in DOMAIN batch[w].todo : Settled(batch[w].todo[i])
        /\ pc[w] # "idle" => Settled(session[w].req)

(* A transfer is committed, then reported; in between it is at "answer".   *)
Unreported(w) == IF Serving(w) /\ pc[w] = "answer" THEN {session[w].stamp} ELSE {}

ReportSound(w) ==
  /\ batch[w].executed \subseteq batch[w].made
  /\ batch[w].made \subseteq Ids
  /\ Unreported(w) \subseteq batch[w].made
  /\ batch[w].lost \/ batch[w].made = batch[w].executed \cup Unreported(w)

(* The locks a worker holds, and those it must hold.                       *)
LocksSound(w) ==
  /\ \A a \in Accounts : rowLock[a] = w => Kept(w) \/ (InHand(w) /\ a \in Parties(w))
  /\ writer = w =>
        \/ pc[w] = "commit"
        \/ session[w].created # {} /\ (pc[w] # "idle" \/ Kept(w))
  /\ RowLocks /\ InHand(w) => rowLock[session[w].from] = w
  /\ RowLocks /\ InHand(w) /\ pc[w] # "lockDest" => rowLock[session[w].to] = w
  /\ ~ RowLocks /\ pc[w] = "commit" => writer = w

WorkerSound(w) == StageSound(w) /\ CreatedSound(w) /\ ReportSound(w) /\ LocksSound(w)

Money == RunningBalanceCurrent /\ NoFreeWallet

BInv == Typed /\ (\A w \in Workers : WorkerSound(w)) /\ Money

USE DEF Genesis, NoTxn

LEMMA RequestTyped ==
  \A r \in Requests \cup ItemType : r.amount \in Int /\ r.key \in Keys \cup {NoKey}
  <1>1. \A r \in Requests : r.amount \in Int /\ r.key \in Keys \cup {NoKey}
    BY RequestsAssumption DEF RequestType
  <1>2. \A r \in ItemType : r.amount \in Int /\ r.key \in Keys \cup {NoKey}
    BY DEF ItemType
  <1> QED BY <1>1, <1>2

LEMMA NoSessionTyped == NoSession \in ItemSession
  BY DEF NoSession, ItemSession

LEMMA NoBatchTyped == NoBatch \in BatchType
  <1>1. <<>> \in Seq(ItemType)
    OBVIOUS
  <1> QED BY <1>1 DEF NoBatch, BatchType

LEMMA InitBInv == BatchInit => BInv
  <1> SUFFICES ASSUME BatchInit PROVE BInv
    OBVIOUS
  <1>1. Typed
    BY NoSessionTyped, NoBatchTyped, AccountsAssumption
    DEF BatchInit, Init, Typed, Stages, InitialBalance
  <1>2. ASSUME NEW w \in Workers PROVE WorkerSound(w)
    <2>1. /\ pc[w] = "idle" /\ session[w] = NoSession /\ batch[w] = NoBatch
          /\ writer = NoOne /\ \A a \in Accounts : rowLock[a] = NoOne
      BY DEF BatchInit, Init
    <2>2. /\ session[w].created = {} /\ ~ Serving(w) /\ w # NoOne
          /\ batch[w].executed = {} /\ batch[w].made = {}
      BY <2>1, WorkersAssumption DEF NoSession, NoBatch, Serving
    <2>3. StageSound(w) /\ CreatedSound(w)
      BY <2>1, <2>2 DEF StageSound, CreatedSound
    <2>4. ReportSound(w)
      BY <2>1, <2>2 DEF ReportSound, Unreported
    <2>5. LocksSound(w)
      BY <2>1, <2>2 DEF LocksSound, InHand
    <2> QED BY <2>3, <2>4, <2>5 DEF WorkerSound
  <1>3. Money
    BY DEF BatchInit, Init, Money, RunningBalanceCurrent, NoFreeWallet
  <1> QED BY <1>1, <1>2, <1>3 DEF BInv

(* A step of worker w leaves every other worker, and what it holds, alone, *)
(* and what is committed stays committed.                                  *)
Aside(w) ==
  /\ \A v \in Workers : v # w =>
       /\ pc'[v] = pc[v] /\ session'[v] = session[v] /\ batch'[v] = batch[v]
       /\ \A a \in Accounts : rowLock'[a] = v <=> rowLock[a] = v
       /\ writer' = v <=> writer = v
  /\ clock' >= clock
  /\ Ids \subseteq Ids'

LEMMA Bystander ==
  ASSUME NEW w \in Workers, NEW v \in Workers, v # w,
         Typed, Typed', WorkerSound(v), Aside(w)
  PROVE  WorkerSound(v)'
  <1>1. /\ pc'[v] = pc[v] /\ session'[v] = session[v] /\ batch'[v] = batch[v]
        /\ \A a \in Accounts : rowLock'[a] = v <=> rowLock[a] = v
        /\ writer' = v <=> writer = v
        /\ clock' >= clock /\ Ids \subseteq Ids'
        /\ clock \in Nat /\ clock' \in Nat
    BY DEF Aside, Typed
  <1>2. StageSound(v)'
    BY <1>1 DEF WorkerSound, StageSound, Covered, Serving
  <1>3. CreatedSound(v)'
    BY <1>1 DEF WorkerSound, CreatedSound, Parties, Serving
  <1>4. ReportSound(v)'
    BY <1>1 DEF WorkerSound, ReportSound, Unreported, Serving
  <1>5. LocksSound(v)'
    BY <1>1 DEF WorkerSound, StageSound, LocksSound, InHand, Kept, Parties, Serving
  <1> QED BY <1>2, <1>3, <1>4, <1>5 DEF WorkerSound

LEMMA Together ==
  ASSUME NEW w \in Workers, BInv, Typed', Aside(w), WorkerSound(w)',
         UNCHANGED <<balance, open, ledger>> \/ Money'
  PROVE  BInv'
  <1>1. \A v \in Workers : WorkerSound(v)'
    BY Bystander DEF BInv
  <1>2. Money'
    <2>1. CASE UNCHANGED <<balance, open, ledger>>
      BY <2>1 DEF BInv, Money, RunningBalanceCurrent, NoFreeWallet
    <2> QED BY <2>1
  <1> QED BY <1>1, <1>2 DEF BInv

-----------------------------------------------------------------------------
(* The steps between the transfers of a batch.                             *)

LEMMA Stutter ==
  ASSUME BInv, UNCHANGED <<pc, session, database, locks, clock, batch>>
  PROVE  BInv'
  <1>1. Typed'
    BY DEF BInv, Typed, database, locks
  <1>2. ASSUME NEW w \in Workers PROVE Aside(w) /\ WorkerSound(w)'
    <2>1. Aside(w)
      BY DEF Aside, Ids, database, locks, BInv, Typed
    <2>2. StageSound(w)' /\ CreatedSound(w)'
      BY DEF BInv, WorkerSound, StageSound, CreatedSound, Covered, Parties, Serving, database, locks
    <2>3. ReportSound(w)' /\ LocksSound(w)'
      BY DEF BInv, WorkerSound, ReportSound, LocksSound, Unreported, Ids, InHand, Kept,
             Parties, Serving, database, locks
    <2> QED BY <2>1, <2>2, <2>3 DEF WorkerSound
  <1>3. Money'
    BY DEF BInv, Money, RunningBalanceCurrent, NoFreeWallet, database
  <1> QED BY <1>1, <1>2, <1>3 DEF BInv

LEMMA BetweenItems ==
  ASSUME NEW w \in Workers, BInv, pc[w] = "idle", NEW b \in BatchType,
         UNCHANGED <<pc, session, database, locks, clock>>,
         batch' = [batch EXCEPT ![w] = b],
         b.active, Kept(w) => ~ b.broken,
         b.executed \subseteq b.made, b.made \subseteq Ids, b.lost \/ b.made = b.executed,
         session[w].created = {} \/ b.todo = <<>>,
         Len(b.todo) > 1 => \A i \in DOMAIN b.todo : Settled(b.todo[i])
  PROVE  BInv'
  <1>1. Typed'
    BY DEF BInv, Typed, database, locks
  <1>2. Aside(w)
    BY DEF Aside, Ids, database, locks, BInv, Typed
  <1>3. /\ pc'[w] = "idle" /\ session'[w] = session[w] /\ batch'[w] = b
        /\ rowLock' = rowLock /\ writer' = writer /\ Ids' = Ids
        /\ b.todo \in Seq(ItemType)
    BY DEF BInv, Typed, database, locks, Ids, BatchType
  <1>4. StageSound(w)'
    BY <1>3 DEF StageSound
  <1>5. CreatedSound(w)'
    <2>1. Len(b.todo) > 1 => b.todo # <<>>
      OBVIOUS
    <2> QED BY <1>3, <2>1 DEF CreatedSound, Serving
  <1>6. ReportSound(w)'
    BY <1>3 DEF ReportSound, Unreported
  <1>7. LocksSound(w)'
    BY <1>3 DEF BInv, WorkerSound, LocksSound, InHand, Kept, Serving
  <1> QED BY <1>1, <1>2, <1>4, <1>5, <1>6, <1>7, Together DEF WorkerSound, database

LEMMA StartBatchBInv ==
  ASSUME NEW w \in Workers, BInv, NEW b \in Batches, StartBatch(w, b)
  PROVE  BInv'
  <1> DEFINE n == [NoBatch EXCEPT !.active = TRUE, !.todo = b]
  <1>1. b \in Seq(ItemType) /\ (Len(b) > 1 => \A i \in DOMAIN b : Settled(b[i]))
    BY BatchesAssumption
  <1>2. n \in BatchType
    BY <1>1, NoBatchTyped DEF BatchType
  <1>3. /\ n.active /\ ~ n.broken /\ n.executed = {} /\ n.made = {} /\ n.todo = b
    BY DEF NoBatch
  <1>4. /\ pc[w] = "idle" /\ session[w].created = {}
        /\ UNCHANGED <<pc, session, database, locks, clock>>
        /\ batch' = [batch EXCEPT ![w] = n]
    BY DEF StartBatch, vars, BInv, WorkerSound, CreatedSound
  <1> HIDE DEF n
  <1> QED BY <1>1, <1>2, <1>3, <1>4, BetweenItems

LEMMA RefuseItemBInv ==
  ASSUME NEW w \in Workers, BInv, RefuseItem(w) \/ Cut(w)
  PROVE  BInv'
  <1>1. /\ batch[w] \in BatchType /\ batch[w].todo \in Seq(ItemType)
        /\ batch \in [Workers -> BatchType]
    BY DEF BInv, Typed, BatchType
  <1>2. PICK t \in {<<>>, Tail(batch[w].todo)} : batch' = [batch EXCEPT ![w].todo = t]
    BY DEF RefuseItem, Cut
  <1> DEFINE n == [batch[w] EXCEPT !.todo = t]
  <1>3. /\ pc[w] = "idle" /\ Serving(w) /\ batch[w].todo # <<>>
        /\ UNCHANGED <<pc, session, database, locks, clock>>
        /\ batch' = [batch EXCEPT ![w] = n]
    BY <1>1, <1>2 DEF RefuseItem, Cut, Between, vars
  <1>4. t \in Seq(ItemType)
    <2>1. Tail(batch[w].todo) \in Seq(ItemType)
      BY <1>1, <1>3
    <2>2. <<>> \in Seq(ItemType)
      OBVIOUS
    <2> QED BY <1>2, <2>1, <2>2
  <1>5. n \in BatchType
    BY <1>1, <1>4 DEF BatchType
  <1>6. /\ n.active = batch[w].active /\ n.broken = batch[w].broken
        /\ n.executed = batch[w].executed /\ n.made = batch[w].made
        /\ n.lost = batch[w].lost /\ n.todo = t
    BY <1>1 DEF BatchType
  <1> HIDE DEF n
  <1>7. session[w].created = {}
    BY <1>3 DEF BInv, WorkerSound, CreatedSound
  <1>8. ASSUME Len(t) > 1 PROVE \A i \in DOMAIN t : Settled(t[i])
    <2>1. t = Tail(batch[w].todo)
      BY <1>2, <1>8
    <2>2. Len(batch[w].todo) > 1
      BY <1>1, <1>3, <1>8, <2>1
    <2>3. \A i \in DOMAIN batch[w].todo : Settled(batch[w].todo[i])
      BY <1>3, <2>2 DEF BInv, WorkerSound, CreatedSound
    <2>4. \A i \in DOMAIN t : i + 1 \in DOMAIN batch[w].todo /\ t[i] = batch[w].todo[i + 1]
      BY <1>1, <1>3, <2>1
    <2> QED BY <2>3, <2>4
  <1>9. /\ n.executed \subseteq n.made /\ n.made \subseteq Ids
        /\ n.lost \/ n.made = n.executed
    BY <1>3, <1>6 DEF BInv, WorkerSound, ReportSound, Unreported
  <1> QED BY <1>3, <1>5, <1>6, <1>7, <1>8, <1>9, BetweenItems DEF Serving, Kept

-----------------------------------------------------------------------------
(* The steps of a transfer up to its commit.                               *)

LEMMA Moves ==
  ASSUME NEW w \in Workers, BInv,
         NEW stage \in Stages, NEW s \in ItemSession, NEW b \in BatchType,
         pc' = [pc EXCEPT ![w] = stage], session' = [session EXCEPT ![w] = s],
         batch' = [batch EXCEPT ![w] = b],
         clock' \in Nat, clock' >= clock,
         rowLock' \in [Accounts -> Workers \cup {NoOne}],
         writer' \in Workers \cup {NoOne},
         \A v \in Workers : v # w =>
            /\ \A a \in Accounts : rowLock'[a] = v <=> rowLock[a] = v
            /\ writer' = v <=> writer = v,
         UNCHANGED <<balance, open, ledger>>,
         WorkerSound(w)'
  PROVE  BInv'
  <1>1. Typed'
    BY DEF BInv, Typed
  <1>2. Aside(w)
    BY DEF Aside, Ids, BInv, Typed
  <1> QED BY <1>1, <1>2, Together

(* The batch of a step that does not touch it.                             *)
LEMMA SameBatch ==
  ASSUME NEW w \in Workers, BInv, UNCHANGED batch
  PROVE  batch[w] \in BatchType /\ batch' = [batch EXCEPT ![w] = batch[w]]
  BY DEF BInv, Typed

LEMMA BeginBInv ==
  ASSUME NEW w \in Workers, BInv, pc[w] = "idle", session[w].created = {},
         NEW r \in Requests \cup ItemType, Valid(r),
         NEW s \in ItemSession, s.req = r, s.created = {},
         NEW b \in BatchType, b.active = batch[w].active, b.broken = batch[w].broken,
         b.executed = batch[w].executed, b.made = batch[w].made, b.lost = batch[w].lost,
         Serving(w) /\ b.broken => FALSE,
         Serving(w) /\ b.todo # <<>> =>
            Settled(r) /\ \A i \in DOMAIN b.todo : Settled(b.todo[i]),
         pc' = [pc EXCEPT ![w] = "source"], session' = [session EXCEPT ![w] = s],
         batch' = [batch EXCEPT ![w] = b],
         UNCHANGED <<database, locks, clock>>
  PROVE  BInv'
  <1>1. /\ pc'[w] = "source" /\ session'[w] = s /\ batch'[w] = b
        /\ rowLock' = rowLock /\ writer' = writer /\ clock' = clock /\ clock \in Nat
        /\ UNCHANGED <<balance, open, ledger>> /\ Ids' = Ids
        /\ rowLock' \in [Accounts -> Workers \cup {NoOne}]
        /\ writer' \in Workers \cup {NoOne} /\ "source" \in Stages
    BY DEF BInv, Typed, database, locks, Ids, Stages
  <1>2. StageSound(w)'
    BY <1>1 DEF StageSound, Valid, Serving
  <1>3. CreatedSound(w)'
    BY <1>1 DEF CreatedSound, Serving
  <1>4. ReportSound(w)'
    BY <1>1 DEF BInv, WorkerSound, ReportSound, Unreported
  <1>5. LocksSound(w)'
    BY <1>1 DEF BInv, WorkerSound, LocksSound, InHand, Kept, Serving
  <1>6. WorkerSound(w)'
    BY <1>2, <1>3, <1>4, <1>5 DEF WorkerSound
  <1>7. \A v \in Workers : v # w =>
           /\ \A a \in Accounts : rowLock'[a] = v <=> rowLock[a] = v
           /\ writer' = v <=> writer = v
    BY <1>1
  <1>8. clock' \in Nat /\ clock' >= clock
    BY <1>1
  <1> QED BY <1>1, <1>6, <1>7, <1>8, Moves

LEMMA AcceptBInv ==
  ASSUME NEW w \in Workers, BInv, ~ Serving(w), UNCHANGED batch,
         NEW r \in Requests, Accept(w, r)
  PROVE  BInv'
  <1> DEFINE s == [NoSession EXCEPT !.req = r]
  <1>1. s \in ItemSession /\ s.req = r /\ s.created = {}
    BY NoSessionTyped DEF ItemSession, NoSession
  <1>2. /\ pc[w] = "idle" /\ session[w].created = {} /\ Valid(r)
        /\ pc' = [pc EXCEPT ![w] = "source"] /\ session' = [session EXCEPT ![w] = s]
        /\ UNCHANGED <<database, locks, clock>>
    BY DEF Accept, BInv, WorkerSound, CreatedSound
  <1> HIDE DEF s
  <1> QED BY <1>1, <1>2, SameBatch, BeginBInv

LEMMA BeginItemBInv ==
  ASSUME NEW w \in Workers, BInv, BeginItem(w)
  PROVE  BInv'
  <1> DEFINE r == Head(batch[w].todo)
             s == [session[w] EXCEPT !.req = r]
             b == [batch[w] EXCEPT !.todo = Tail(@)]
  <1>1. /\ batch[w] \in BatchType /\ batch[w].todo \in Seq(ItemType)
        /\ batch \in [Workers -> BatchType] /\ session[w] \in ItemSession
        /\ session \in [Workers -> ItemSession]
    BY DEF BInv, Typed, BatchType
  <1>2. /\ pc[w] = "idle" /\ Serving(w) /\ batch[w].todo # <<>>
        /\ ~ batch[w].broken /\ Valid(r)
        /\ pc' = [pc EXCEPT ![w] = "source"] /\ session' = [session EXCEPT ![w] = s]
        /\ batch' = [batch EXCEPT ![w] = b]
        /\ UNCHANGED <<database, locks, clock>>
    BY <1>1 DEF BeginItem, Between
  <1>3. r \in ItemType /\ Tail(batch[w].todo) \in Seq(ItemType)
    BY <1>1, <1>2
  <1>4. session[w].created = {}
    BY <1>2 DEF BInv, WorkerSound, CreatedSound
  <1>5. s \in ItemSession /\ s.req = r /\ s.created = {}
    <2> HIDE DEF r
    <2> QED BY <1>1, <1>3, <1>4 DEF ItemSession
  <1>6. /\ b \in BatchType /\ b.active = batch[w].active /\ b.broken = batch[w].broken
        /\ b.executed = batch[w].executed /\ b.made = batch[w].made
        /\ b.lost = batch[w].lost /\ b.todo = Tail(batch[w].todo)
    BY <1>1, <1>3 DEF BatchType
  <1>7. ASSUME b.todo # <<>>
        PROVE  Settled(r) /\ \A i \in DOMAIN b.todo : Settled(b.todo[i])
    <2> DEFINE t == batch[w].todo
    <2>1. t \in Seq(ItemType) /\ t # <<>> /\ Tail(t) # <<>>
      BY <1>1, <1>2, <1>6, <1>7
    <2>2. /\ Len(t) > 1 /\ 1 \in DOMAIN t /\ Head(t) = t[1]
          /\ \A i \in DOMAIN Tail(t) : i + 1 \in DOMAIN t /\ Tail(t)[i] = t[i + 1]
      <3> HIDE DEF t
      <3> QED BY <2>1
    <2>3. \A i \in DOMAIN t : Settled(t[i])
      BY <1>2, <2>2 DEF BInv, WorkerSound, CreatedSound
    <2>4. r = Head(t) /\ b.todo = Tail(t)
      BY <1>6
    <2> HIDE DEF t, r, b
    <2> QED BY <2>2, <2>3, <2>4
  <1> HIDE DEF r, s, b
  <1> QED BY <1>2, <1>3, <1>4, <1>5, <1>6, <1>7, BeginBInv

LEMMA LoadBInv ==
  ASSUME NEW w \in Workers, BInv, UNCHANGED batch,
         NEW a \in Accounts, NEW made \in SUBSET {a}, Load(w, a, made),
         writer' = writer \/ (writer' = w /\ writer \in {NoOne, w} /\ made = {a}),
         Serving(w) /\ batch[w].todo # <<>> => made = {}
  PROVE  BInv'
  <1>1. /\ session[w] \in ItemSession /\ session \in [Workers -> ItemSession]
        /\ pc \in [Workers -> Stages] /\ balance[a] \in Nat
        /\ clock \in Nat /\ rowLock \in [Accounts -> Workers \cup {NoOne}]
        /\ writer \in Workers \cup {NoOne} /\ {"dest", "lockSource"} \subseteq Stages
    BY DEF BInv, Typed, Stages
  <1>2. /\ rowLock' = rowLock /\ clock' = clock /\ Ids' = Ids
        /\ UNCHANGED <<balance, open, ledger>> /\ batch' = batch
        /\ pc[w] \in {"source", "dest"}
    BY DEF Load, database, Ids
  <1>3. \A v \in Workers : v # w =>
           /\ \A x \in Accounts : rowLock'[x] = v <=> rowLock[x] = v
           /\ writer' = v <=> writer = v
    BY <1>2, WorkersAssumption
  <1>w. writer' \in Workers \cup {NoOne}
    BY <1>1
  <1>b. batch[w] \in BatchType /\ batch' = [batch EXCEPT ![w] = batch[w]]
    BY SameBatch
  <1> SUFFICES \E stage \in {"dest", "lockSource"}, s \in ItemSession :
                  /\ pc' = [pc EXCEPT ![w] = stage]
                  /\ session' = [session EXCEPT ![w] = s]
                  /\ WorkerSound(w)'
    <2> PICK stage \in {"dest", "lockSource"}, s \in ItemSession :
                  /\ pc' = [pc EXCEPT ![w] = stage]
                  /\ session' = [session EXCEPT ![w] = s]
                  /\ WorkerSound(w)'
      OBVIOUS
    <2>1. stage \in Stages /\ clock' \in Nat /\ clock' >= clock
      BY <1>1, <1>2
    <2>2. rowLock' \in [Accounts -> Workers \cup {NoOne}]
      BY <1>1, <1>2
    <2> QED BY <1>2, <1>3, <1>w, <1>b, <2>1, <2>2, Moves
  <1>4. pc'[w] \in {"dest", "lockSource"} =>
           ReportSound(w)' /\ \A x \in Accounts : rowLock'[x] = w => Kept(w)'
    BY <1>2 DEF BInv, WorkerSound, ReportSound, LocksSound, Unreported, InHand, Kept, Serving
  <1>5. session[w].created # {} \/ made # {} \/ writer' # w
    BY <1>2 DEF BInv, WorkerSound, LocksSound
  <1>6. CASE pc[w] = "source"
    <2> DEFINE s == [session[w] EXCEPT !.from = a, !.fromBal = balance[a],
                                       !.created = @ \cup made]
    <2>1. s \in ItemSession
      BY <1>1 DEF ItemSession
    <2>2. session' = [session EXCEPT ![w] = s] /\ pc' = [pc EXCEPT ![w] = "dest"]
      BY <1>1, <1>6 DEF Load
    <2>3. /\ s.req = session[w].req /\ s.from = a
          /\ s.created = session[w].created \cup made
      BY <1>1 DEF ItemSession
    <2> HIDE DEF s
    <2>4. pc'[w] = "dest" /\ session'[w] = s
      BY <1>1, <2>2
    <2>5. StageSound(w)'
      BY <1>2, <1>6, <2>3, <2>4 DEF BInv, WorkerSound, StageSound, Serving
    <2>6. CreatedSound(w)'
      BY <1>2, <1>6, <2>3, <2>4 DEF BInv, WorkerSound, CreatedSound, Parties, Serving
    <2>7. LocksSound(w)'
      BY <1>4, <1>5, <2>3, <2>4 DEF LocksSound, InHand
    <2> QED BY <1>4, <2>1, <2>2, <2>4, <2>5, <2>6, <2>7 DEF WorkerSound
  <1>7. CASE pc[w] = "dest"
    <2> DEFINE bal == IF a = session[w].from THEN session[w].fromBal ELSE balance[a]
               s == [session[w] EXCEPT !.to = a, !.toBal = bal, !.created = @ \cup made]
    <2>1. s \in ItemSession
      BY <1>1 DEF ItemSession
    <2>2. session' = [session EXCEPT ![w] = s] /\ pc' = [pc EXCEPT ![w] = "lockSource"]
      BY <1>1, <1>7 DEF Load
    <2>3. /\ s.req = session[w].req /\ s.from = session[w].from /\ s.to = a
          /\ s.created = session[w].created \cup made
      BY <1>1 DEF ItemSession
    <2> HIDE DEF s
    <2>4. pc'[w] = "lockSource" /\ session'[w] = s
      BY <1>1, <2>2
    <2>5. StageSound(w)'
      BY <1>2, <1>7, <2>3, <2>4 DEF BInv, WorkerSound, StageSound, Serving
    <2>6. CreatedSound(w)'
      BY <1>2, <1>7, <2>3, <2>4 DEF BInv, WorkerSound, CreatedSound, Parties, Serving
    <2>7. LocksSound(w)'
      BY <1>4, <1>5, <2>3, <2>4 DEF LocksSound, InHand
    <2> QED BY <1>4, <2>1, <2>2, <2>4, <2>5, <2>6, <2>7 DEF WorkerSound
  <1> QED BY <1>2, <1>6, <1>7

LEMMA FindWalletBInv ==
  ASSUME NEW w \in Workers, BInv, UNCHANGED batch, FindWallet(w)
  PROVE  BInv'
  <1> PICK a \in Wallets(w) : Load(w, a, {})
    BY DEF FindWallet
  <1>1. a \in Accounts
    BY DEF Wallets, BInv, Typed, ItemSession
  <1>2. writer' = writer
    BY DEF FindWallet
  <1> QED BY <1>1, <1>2, LoadBInv

(* A party with a wallet gets no new one.                                  *)
LEMMA CreateWalletBInv ==
  ASSUME NEW w \in Workers, BInv, UNCHANGED batch, CreateWallet(w)
  PROVE  BInv'
  <1> PICK a \in Fresh : Load(w, a, {a})
    BY DEF CreateWallet
  <1>1. a \in Accounts
    BY DEF Fresh
  <1>2. ~ (Serving(w) /\ batch[w].todo # <<>>)
    <2> SUFFICES ASSUME Serving(w), batch[w].todo # <<>> PROVE FALSE
      OBVIOUS
    <2>1. /\ pc[w] \in {"source", "dest"} /\ Wallets(w) = {}
          /\ Party(w) \in DOMAIN UserOf
          /\ Party(w) \in {session[w].req.src, session[w].req.dst}
      BY DEF CreateWallet, Party
    <2>2. HasWallet(Party(w))
      BY <2>1 DEF BInv, WorkerSound, CreatedSound, Settled
    <2> QED BY <2>1, <2>2 DEF HasWallet, Wallets, BInv, Typed
  <1>3. writer' = writer \/ (writer' = w /\ writer \in {NoOne, w})
    BY DEF CreateWallet, TakeWriteLock, MayWrite
  <1> QED BY <1>1, <1>2, <1>3, LoadBInv

LEMMA LockRowBInv ==
  ASSUME NEW w \in Workers, BInv, UNCHANGED batch, LockRow(w)
  PROVE  BInv'
  <1> DEFINE stage == IF pc[w] = "lockSource" THEN "lockDest" ELSE "check"
  <1>1. /\ session \in [Workers -> ItemSession] /\ pc \in [Workers -> Stages]
        /\ clock \in Nat /\ rowLock \in [Accounts -> Workers \cup {NoOne}]
        /\ writer \in Workers \cup {NoOne} /\ stage \in Stages
    BY DEF BInv, Typed, Stages
  <1>2. /\ pc[w] \in {"lockSource", "lockDest"} /\ Wanted(w) \in Parties(w)
        /\ session[w].from \in Accounts /\ session[w].to \in Accounts
    BY DEF LockRow, Wanted, Parties, BInv, WorkerSound, StageSound
  <1>3. /\ session' = session /\ writer' = writer /\ clock' = clock /\ Ids' = Ids
        /\ UNCHANGED <<balance, open, ledger>> /\ batch' = batch
        /\ pc' = [pc EXCEPT ![w] = stage]
        /\ rowLock' = IF RowLocks THEN [rowLock EXCEPT ![Wanted(w)] = w] ELSE rowLock
        /\ RowLocks => rowLock[Wanted(w)] \in {NoOne, w}
    BY DEF LockRow, database, Ids
  <1>4. /\ session' = [session EXCEPT ![w] = session[w]] /\ session[w] \in ItemSession
        /\ pc'[w] = stage
    BY <1>1, <1>3
  <1>5. Wanted(w) \in Accounts
    BY <1>2 DEF Parties
  <1>6. rowLock' \in [Accounts -> Workers \cup {NoOne}]
    BY <1>1, <1>3, <1>5
  <1>7. \A v \in Workers : v # w =>
           /\ \A x \in Accounts : rowLock'[x] = v <=> rowLock[x] = v
           /\ writer' = v <=> writer = v
    BY <1>1, <1>3, <1>5, WorkersAssumption
  <1>8. StageSound(w)' /\ CreatedSound(w)' /\ ReportSound(w)'
    <2>1. StageSound(w)'
      BY <1>2, <1>3, <1>4 DEF BInv, WorkerSound, StageSound, Serving
    <2>2. CreatedSound(w)'
      BY <1>2, <1>3, <1>4 DEF BInv, WorkerSound, CreatedSound, Parties, Serving
    <2>3. ReportSound(w)'
      BY <1>2, <1>3, <1>4 DEF BInv, WorkerSound, ReportSound, Unreported
    <2> QED BY <2>1, <2>2, <2>3
  <1>9. LocksSound(w)'
    <2>1. Kept(w)' = Kept(w) /\ Parties(w)' = Parties(w) /\ InHand(w)'
      BY <1>2, <1>3, <1>4 DEF Kept, Parties, Serving, InHand
    <2>2. LocksSound(w)
      BY DEF BInv, WorkerSound
    <2>3. ASSUME NEW a \in Accounts, rowLock'[a] = w
          PROVE  Kept(w)' \/ a \in Parties(w)'
      <3>1. rowLock[a] = w \/ a = Wanted(w)
        BY <1>1, <1>3, <1>5, <2>3
      <3> QED BY <1>2, <2>1, <2>2, <3>1 DEF LocksSound
    <2>4. writer' = w => session'[w].created # {} /\ pc'[w] # "idle"
      BY <1>2, <1>3, <1>4, <2>2 DEF LocksSound
    <2>5. RowLocks => rowLock'[Wanted(w)] = w
      BY <1>1, <1>3, <1>5
    <2>6. RowLocks => rowLock'[session[w].from] = w
      <3>1. CASE pc[w] = "lockSource"
        BY <2>5, <3>1 DEF Wanted
      <3>2. CASE pc[w] = "lockDest"
        BY <1>1, <1>2, <1>3, <1>5, <2>2, <3>2 DEF LocksSound, InHand
      <3> QED BY <1>2, <3>1, <3>2
    <2>7. RowLocks /\ pc'[w] # "lockDest" => rowLock'[session[w].to] = w
      BY <1>2, <1>4, <2>5 DEF Wanted
    <2>8. pc'[w] # "commit"
      BY <1>4
    <2> QED BY <1>3, <2>1, <2>3, <2>4, <2>6, <2>7, <2>8 DEF LocksSound
  <1>10. WorkerSound(w)'
    BY <1>8, <1>9 DEF WorkerSound
  <1>11. writer' \in Workers \cup {NoOne} /\ clock' \in Nat /\ clock' >= clock
    BY <1>1, <1>3
  <1> HIDE DEF stage
  <1> QED BY <1>1, <1>3, <1>4, <1>6, <1>7, <1>10, <1>11, SameBatch, Moves

LEMMA StampBInv ==
  ASSUME NEW w \in Workers, BInv, UNCHANGED batch, Stamp(w)
  PROVE  BInv'
  <1> DEFINE s == [session[w] EXCEPT !.stamp = clock + 1]
  <1>1. /\ session \in [Workers -> ItemSession] /\ session[w] \in ItemSession
        /\ pc \in [Workers -> Stages] /\ clock \in Nat
        /\ rowLock \in [Accounts -> Workers \cup {NoOne}]
        /\ writer \in Workers \cup {NoOne} /\ "flush" \in Stages
    BY DEF BInv, Typed, Stages
  <1>2. /\ pc[w] = "check" /\ Covered(w) /\ pc' = [pc EXCEPT ![w] = "flush"]
        /\ session' = [session EXCEPT ![w] = s] /\ clock' = clock + 1
        /\ rowLock' = rowLock /\ writer' = writer /\ batch' = batch /\ Ids' = Ids
        /\ UNCHANGED <<balance, open, ledger>>
    BY <1>1 DEF Stamp, database, locks, Ids
  <1>3. /\ s \in ItemSession /\ s.req = session[w].req /\ s.from = session[w].from
        /\ s.to = session[w].to /\ s.fromBal = session[w].fromBal
        /\ s.created = session[w].created /\ s.stamp = clock + 1
    BY <1>1 DEF ItemSession
  <1> HIDE DEF s
  <1>4. session'[w] = s /\ pc'[w] = "flush"
    BY <1>1, <1>2
  <1>5. StageSound(w)'
    BY <1>1, <1>2, <1>3, <1>4 DEF BInv, WorkerSound, StageSound, Covered, Serving
  <1>6. CreatedSound(w)'
    BY <1>2, <1>3, <1>4 DEF BInv, WorkerSound, CreatedSound, Parties, Serving
  <1>7. ReportSound(w)'
    BY <1>2, <1>3, <1>4 DEF BInv, WorkerSound, ReportSound, Unreported
  <1>8. LocksSound(w)'
    BY <1>2, <1>3, <1>4 DEF BInv, WorkerSound, LocksSound, InHand, Kept, Parties, Serving
  <1>9. WorkerSound(w)'
    BY <1>5, <1>6, <1>7, <1>8 DEF WorkerSound
  <1>10. /\ clock' \in Nat /\ clock' >= clock
         /\ rowLock' \in [Accounts -> Workers \cup {NoOne}] /\ writer' \in Workers \cup {NoOne}
         /\ \A v \in Workers : v # w =>
              /\ \A x \in Accounts : rowLock'[x] = v <=> rowLock[x] = v
              /\ writer' = v <=> writer = v
    BY <1>1, <1>2
  <1> QED BY <1>1, <1>2, <1>3, <1>9, <1>10, SameBatch, Moves

LEMMA LedgerTyped ==
  ASSUME Typed, NEW i \in DOMAIN ledger
  PROVE  /\ ledger[i] \in TxnType /\ ledger[i].id \in Nat \ {0}
         /\ ledger[i].from \in Accounts /\ ledger[i].to \in Accounts
  <1>1. ledger[i] \in TxnType
    BY DEF Typed
  <1> QED BY <1>1 DEF TxnType

LEMMA FlushBInv ==
  ASSUME NEW w \in Workers, BInv, UNCHANGED batch, Flush(w)
  PROVE  BInv'
  <1> PICK p \in Ids \cup {Genesis} : session' = [session EXCEPT ![w].prev = p]
    BY DEF Flush
  <1> DEFINE s == [session[w] EXCEPT !.prev = p]
  <1>0. p \in Nat
    BY LedgerTyped DEF Ids, BInv
  <1>1. /\ session \in [Workers -> ItemSession] /\ session[w] \in ItemSession
        /\ pc \in [Workers -> Stages] /\ clock \in Nat
        /\ rowLock \in [Accounts -> Workers \cup {NoOne}]
        /\ writer \in Workers \cup {NoOne} /\ "commit" \in Stages
    BY DEF BInv, Typed, Stages
  <1>2. /\ pc[w] = "flush" /\ pc' = [pc EXCEPT ![w] = "commit"]
        /\ session' = [session EXCEPT ![w] = s] /\ clock' = clock
        /\ rowLock' = rowLock /\ batch' = batch /\ Ids' = Ids
        /\ RowLocks \/ writer \in {NoOne, w}
        /\ writer' = IF RowLocks THEN writer ELSE w
        /\ UNCHANGED <<balance, open, ledger>>
    BY <1>1 DEF Flush, TakeWriteLock, MayWrite, database, Ids
  <1>3. /\ s \in ItemSession /\ s.req = session[w].req /\ s.from = session[w].from
        /\ s.to = session[w].to /\ s.fromBal = session[w].fromBal
        /\ s.created = session[w].created /\ s.stamp = session[w].stamp
    BY <1>0, <1>1 DEF ItemSession
  <1> HIDE DEF s
  <1>4. session'[w] = s /\ pc'[w] = "commit"
    BY <1>1, <1>2
  <1>5. StageSound(w)'
    BY <1>1, <1>2, <1>3, <1>4 DEF BInv, WorkerSound, StageSound, Covered, Serving
  <1>6. CreatedSound(w)'
    BY <1>2, <1>3, <1>4 DEF BInv, WorkerSound, CreatedSound, Parties, Serving
  <1>7. ReportSound(w)'
    BY <1>2, <1>3, <1>4 DEF BInv, WorkerSound, ReportSound, Unreported
  <1>8. LocksSound(w)'
    BY <1>2, <1>3, <1>4 DEF BInv, WorkerSound, LocksSound, InHand, Kept, Parties, Serving
  <1>9. WorkerSound(w)'
    BY <1>5, <1>6, <1>7, <1>8 DEF WorkerSound
  <1>10. /\ clock' \in Nat /\ clock' >= clock
         /\ rowLock' \in [Accounts -> Workers \cup {NoOne}] /\ writer' \in Workers \cup {NoOne}
         /\ \A v \in Workers : v # w =>
              /\ \A x \in Accounts : rowLock'[x] = v <=> rowLock[x] = v
              /\ writer' = v <=> writer = v
    BY <1>1, <1>2, WorkersAssumption
  <1>11. batch[w] \in BatchType /\ batch' = [batch EXCEPT ![w] = batch[w]]
    BY SameBatch
  <1>12. /\ "commit" \in Stages /\ s \in ItemSession
         /\ pc' = [pc EXCEPT ![w] = "commit"] /\ session' = [session EXCEPT ![w] = s]
         /\ UNCHANGED <<balance, open, ledger>>
    BY <1>1, <1>2, <1>3
  <1> QED BY <1>9, <1>10, <1>11, <1>12, Moves

-----------------------------------------------------------------------------
(* Endings: of a transfer that leaves its session open, and of a session.  *)

LEMMA LeaveBInv ==
  ASSUME NEW w \in Workers, BInv, Serving(w), LeaveItem(w),
         pc[w] \notin {"idle", "commit"},
         NEW b \in BatchType, batch' = [batch EXCEPT ![w] = b],
         b.active, b.broken = batch[w].broken, b.todo = batch[w].todo,
         b.made = batch[w].made, b.lost = batch[w].lost,
         b.executed = batch[w].executed \cup Unreported(w),
         UNCHANGED <<database, locks, clock>>
  PROVE  BInv'
  <1> DEFINE s == [NoSession EXCEPT !.created = session[w].created]
  <1>1. /\ session \in [Workers -> ItemSession] /\ session[w] \in ItemSession
        /\ pc \in [Workers -> Stages] /\ clock \in Nat
        /\ rowLock \in [Accounts -> Workers \cup {NoOne}]
        /\ batch \in [Workers -> BatchType]
        /\ writer \in Workers \cup {NoOne} /\ "idle" \in Stages
    BY DEF BInv, Typed, Stages
  <1>2. /\ pc' = [pc EXCEPT ![w] = "idle"] /\ session' = [session EXCEPT ![w] = s]
        /\ rowLock' = rowLock /\ writer' = writer /\ Ids' = Ids /\ clock' = clock
        /\ UNCHANGED <<balance, open, ledger>>
    BY DEF LeaveItem, database, locks, Ids
  <1>3. s \in ItemSession /\ s.created = session[w].created
    BY <1>1, NoSessionTyped DEF ItemSession, NoSession
  <1> HIDE DEF s
  <1>4. session'[w] = s /\ pc'[w] = "idle" /\ batch'[w] = b
    BY <1>1, <1>2
  <1>5. ~ batch[w].broken
    BY DEF BInv, WorkerSound, StageSound
  <1>6. StageSound(w)'
    BY <1>4, <1>5 DEF StageSound
  <1>7. CreatedSound(w)'
    BY <1>3, <1>4 DEF BInv, WorkerSound, CreatedSound, Serving
  <1>8. ReportSound(w)'
    BY <1>2, <1>4 DEF BInv, WorkerSound, ReportSound, Unreported
  <1>9. LocksSound(w)'
    BY <1>2, <1>3, <1>4, <1>5 DEF BInv, WorkerSound, LocksSound, InHand, Kept, Serving
  <1>10. WorkerSound(w)'
    BY <1>6, <1>7, <1>8, <1>9 DEF WorkerSound
  <1>11. /\ clock' \in Nat /\ clock' >= clock
         /\ rowLock' \in [Accounts -> Workers \cup {NoOne}] /\ writer' \in Workers \cup {NoOne}
         /\ \A v \in Workers : v # w =>
              /\ \A x \in Accounts : rowLock'[x] = v <=> rowLock[x] = v
              /\ writer' = v <=> writer = v
    BY <1>1, <1>2
  <1>12. /\ "idle" \in Stages /\ s \in ItemSession
         /\ pc' = [pc EXCEPT ![w] = "idle"] /\ session' = [session EXCEPT ![w] = s]
         /\ UNCHANGED <<balance, open, ledger>>
    BY <1>1, <1>2, <1>3
  <1> QED BY <1>10, <1>11, <1>12, Moves

LEMMA FailItemBInv ==
  ASSUME NEW w \in Workers, BInv, FailItem(w)
  PROVE  BInv'
  <1>1. /\ Serving(w) /\ LeaveItem(w) /\ pc[w] \notin {"idle", "commit", "answer"}
        /\ UNCHANGED <<database, locks, clock>> /\ UNCHANGED batch
    BY DEF FailItem
  <1>2. batch[w].executed = batch[w].executed \cup Unreported(w)
    BY <1>1 DEF Unreported
  <1>3. batch[w].active
    BY <1>1 DEF Serving
  <1> QED BY <1>1, <1>2, <1>3, SameBatch, LeaveBInv

LEMMA ReturnItemBInv ==
  ASSUME NEW w \in Workers, BInv, ReturnItem(w)
  PROVE  BInv'
  <1> DEFINE b == [batch[w] EXCEPT !.executed = @ \cup {session[w].stamp}]
  <1>1. /\ Serving(w) /\ LeaveItem(w) /\ pc[w] = "answer"
        /\ UNCHANGED <<database, locks, clock>>
        /\ batch' = [batch EXCEPT ![w] = b]
    BY DEF ReturnItem, BInv, Typed
  <1>2. batch[w] \in BatchType /\ session[w].stamp \in Nat
    BY DEF BInv, Typed, ItemSession
  <1>3. /\ b \in BatchType /\ b.active = batch[w].active /\ b.broken = batch[w].broken
        /\ b.todo = batch[w].todo /\ b.made = batch[w].made /\ b.lost = batch[w].lost
        /\ b.executed = batch[w].executed \cup {session[w].stamp}
    BY <1>2 DEF BatchType
  <1> HIDE DEF b
  <1>4. Unreported(w) = {session[w].stamp} /\ b.active
    BY <1>1, <1>3 DEF Unreported, Serving
  <1> QED BY <1>1, <1>3, <1>4, LeaveBInv

LEMMA CloseBInv ==
  ASSUME NEW w \in Workers, BInv, CloseSession(w), UNCHANGED <<database, clock>>,
         NEW b \in BatchType, batch' = [batch EXCEPT ![w] = b],
         b.executed \subseteq b.made, b.made \subseteq Ids, b.lost \/ b.made = b.executed,
         b.active /\ Len(b.todo) > 1 => \A i \in DOMAIN b.todo : Settled(b.todo[i])
  PROVE  BInv'
  <1>1. /\ session \in [Workers -> ItemSession] /\ pc \in [Workers -> Stages]
        /\ clock \in Nat /\ rowLock \in [Accounts -> Workers \cup {NoOne}]
        /\ batch \in [Workers -> BatchType]
        /\ writer \in Workers \cup {NoOne} /\ "idle" \in Stages
    BY DEF BInv, Typed, Stages
  <1>2. /\ pc' = [pc EXCEPT ![w] = "idle"] /\ session' = [session EXCEPT ![w] = NoSession]
        /\ rowLock' = [a \in Accounts |-> IF rowLock[a] = w THEN NoOne ELSE rowLock[a]]
        /\ writer' = IF writer = w THEN NoOne ELSE writer
        /\ Ids' = Ids /\ clock' = clock
        /\ UNCHANGED <<balance, open, ledger>>
    BY DEF CloseSession, database, Ids
  <1>3. /\ pc'[w] = "idle" /\ batch'[w] = b /\ session'[w].created = {}
    BY <1>1, <1>2 DEF NoSession
  <1>4. writer' # w /\ \A a \in Accounts : rowLock'[a] # w
    BY <1>2, WorkersAssumption
  <1>5. StageSound(w)' /\ LocksSound(w)'
    BY <1>3, <1>4 DEF StageSound, LocksSound, InHand
  <1>6. CreatedSound(w)'
    BY <1>3 DEF CreatedSound, Serving
  <1>7. ReportSound(w)'
    BY <1>2, <1>3 DEF ReportSound, Unreported
  <1>8. WorkerSound(w)'
    BY <1>5, <1>6, <1>7 DEF WorkerSound
  <1>9. /\ clock' \in Nat /\ clock' >= clock
        /\ rowLock' \in [Accounts -> Workers \cup {NoOne}] /\ writer' \in Workers \cup {NoOne}
        /\ \A v \in Workers : v # w =>
             /\ \A x \in Accounts : rowLock'[x] = v <=> rowLock[x] = v
             /\ writer' = v <=> writer = v
    BY <1>1, <1>2, WorkersAssumption
  <1> QED BY <1>1, <1>2, <1>8, <1>9, NoSessionTyped, Moves

LEMMA SingleCloseBInv ==
  ASSUME NEW w \in Workers, BInv, ~ Serving(w), UNCHANGED batch,
         CloseSession(w), UNCHANGED <<database, clock>>
  PROVE  BInv'
  <1>1. /\ batch[w].executed \subseteq batch[w].made /\ batch[w].made \subseteq Ids
        /\ batch[w].lost \/ batch[w].made = batch[w].executed
    BY DEF BInv, WorkerSound, ReportSound, Unreported
  <1>2. ~ batch[w].active
    BY DEF Serving
  <1> QED BY <1>1, <1>2, SameBatch, CloseBInv

LEMMA AbortItemBInv ==
  ASSUME NEW w \in Workers, BInv, AbortItem(w) \/ LoseConnection(w)
  PROVE  BInv'
  <1>1. batch[w] \in BatchType /\ batch \in [Workers -> BatchType]
    BY DEF BInv, Typed
  <1>2. /\ Serving(w) /\ CloseSession(w) /\ UNCHANGED <<database, clock>>
        /\ pc[w] # "idle"
    BY DEF AbortItem, LoseConnection, Deadlocked, Blocked, WaitsToWrite
  <1>3. ASSUME NEW b \in BatchType, b.todo = batch[w].todo, b.made = batch[w].made,
               b.executed = batch[w].executed, batch' = [batch EXCEPT ![w] = b],
               b.lost \/ (b.lost = batch[w].lost /\ pc[w] # "answer")
        PROVE  BInv'
    <2>1. /\ b.executed \subseteq b.made /\ b.made \subseteq Ids
          /\ b.lost \/ b.made = b.executed
      BY <1>3 DEF BInv, WorkerSound, ReportSound, Unreported
    <2>2. Len(b.todo) > 1 => \A i \in DOMAIN b.todo : Settled(b.todo[i])
      <3>1. Len(b.todo) > 1 => b.todo # <<>>
        OBVIOUS
      <3> QED BY <1>2, <1>3, <3>1 DEF BInv, WorkerSound, CreatedSound
    <2> QED BY <1>2, <1>3, <2>1, <2>2, CloseBInv
  <1>4. CASE AbortItem(w)
    <2> DEFINE b == [batch[w] EXCEPT !.broken = TRUE]
    <2>1. batch' = [batch EXCEPT ![w] = b] /\ pc[w] # "answer"
      BY <1>1, <1>4 DEF AbortItem, Deadlocked, Blocked, WaitsToWrite
    <2>2. /\ b \in BatchType /\ b.todo = batch[w].todo /\ b.made = batch[w].made
          /\ b.executed = batch[w].executed /\ b.lost = batch[w].lost
      BY <1>1 DEF BatchType
    <2> HIDE DEF b
    <2> QED BY <1>3, <2>1, <2>2
  <1>5. CASE LoseConnection(w)
    <2> PICK broken \in BOOLEAN :
          batch' = [batch EXCEPT ![w].broken = broken, ![w].lost = TRUE]
      BY <1>5 DEF LoseConnection
    <2> DEFINE b == [batch[w] EXCEPT !.broken = broken, !.lost = TRUE]
    <2>1. batch' = [batch EXCEPT ![w] = b]
      BY <1>1
    <2>2. /\ b \in BatchType /\ b.todo = batch[w].todo /\ b.made = batch[w].made
          /\ b.executed = batch[w].executed /\ b.lost
      BY <1>1 DEF BatchType
    <2> HIDE DEF b
    <2> QED BY <1>3, <2>1, <2>2
  <1> QED BY <1>4, <1>5

LEMMA EndBatchBInv ==
  ASSUME NEW w \in Workers, BInv, EndBatch(w) \/ CrashBatch(w)
  PROVE  BInv'
  <1>1. /\ CloseSession(w) /\ UNCHANGED <<database, clock>>
        /\ batch' = [batch EXCEPT ![w] = NoBatch]
    BY DEF EndBatch, CrashBatch
  <1>2. /\ NoBatch.executed = {} /\ NoBatch.made = {} /\ ~ NoBatch.active
    BY DEF NoBatch
  <1> QED BY <1>1, <1>2, NoBatchTyped, CloseBInv

-----------------------------------------------------------------------------
(* The commit.                                                             *)

LEMMA Record ==
  ASSUME NEW w \in Workers, BInv, pc[w] = "commit"
  PROVE  LET s == session[w] t == TxnRecord(s) IN
         /\ t \in TxnType /\ Posted(s) \in [Accounts -> Nat]
         /\ t.id = s.stamp /\ {t.from, t.to} = Parties(w)
         /\ t.from # t.to =>
              /\ Posted(s)[t.from] = t.fromRun /\ Posted(s)[t.to] = t.toRun
              /\ \A a \in Accounts \ {t.from, t.to} : Posted(s)[a] = balance[a]
         /\ t.from = t.to => Posted(s) = balance
  <1> DEFINE s == session[w]
             t == TxnRecord(s)
  <1>1. /\ s \in ItemSession /\ StageSound(w) /\ clock \in Nat
        /\ s.req.amount \in Int /\ s.req.key \in Keys \cup {NoKey}
        /\ balance \in [Accounts -> Nat]
    BY RequestTyped DEF BInv, Typed, WorkerSound, StageSound
  <1>2. /\ s.fromBal \in Nat /\ s.toBal \in Nat
        /\ s.stamp \in Nat \ {0} /\ s.prev \in Nat
        /\ s.req.amount \in Nat \ {0} /\ s.fromBal >= s.req.amount
        /\ s.from \in Accounts /\ s.to \in Accounts
    BY <1>1 DEF ItemSession, StageSound, Covered
  <1> HIDE DEF s
  <1>3. Debited(s) \in Nat /\ Credited(s) \in Nat
    BY <1>2 DEF Debited, Credited
  <1>4. /\ t.id = s.stamp /\ t.from = s.from /\ t.to = s.to
        /\ t.fromRun = Debited(s) /\ t.toRun = Credited(s)
    BY DEF TxnRecord
  <1>5. t \in TxnType
    BY <1>1, <1>2, <1>3 DEF TxnRecord, TxnType
  <1> HIDE DEF t
  <1>6. Posted(s) \in [Accounts -> Nat]
    BY <1>1, <1>2, <1>3 DEF Posted
  <1>7. t.from # t.to =>
          /\ Posted(s)[t.from] = t.fromRun /\ Posted(s)[t.to] = t.toRun
          /\ \A a \in Accounts \ {t.from, t.to} : Posted(s)[a] = balance[a]
    BY <1>1, <1>2, <1>4 DEF Posted, SelfTransfer
  <1>8. t.from = t.to => Posted(s) = balance
    BY <1>4 DEF Posted, SelfTransfer
  <1>9. {t.from, t.to} = Parties(w)
    BY <1>4 DEF Parties, s
  <1> QED BY <1>4, <1>5, <1>6, <1>7, <1>8, <1>9 DEF s, t

LEMMA CommitBInv ==
  ASSUME NEW w \in Workers, BInv, Commit(w),
         NEW b \in BatchType, batch' = [batch EXCEPT ![w] = b],
         b.active = batch[w].active, b.broken = batch[w].broken, b.todo = batch[w].todo,
         b.executed = batch[w].executed, b.lost = batch[w].lost,
         b.made = batch[w].made \cup (IF Serving(w) THEN {session[w].stamp} ELSE {})
  PROVE  BInv'
  <1> DEFINE n == Len(ledger) + 1
             t == TxnRecord(session[w])
             s == [session[w] EXCEPT !.created = {}]
  <1>1. /\ session \in [Workers -> ItemSession] /\ session[w] \in ItemSession
        /\ pc \in [Workers -> Stages] /\ clock \in Nat /\ ledger \in Seq(TxnType)
        /\ rowLock \in [Accounts -> Workers \cup {NoOne}]
        /\ batch \in [Workers -> BatchType] /\ balance \in [Accounts -> Nat]
        /\ open \subseteq Accounts /\ DOMAIN SeedBalance \subseteq open
        /\ writer \in Workers \cup {NoOne} /\ "answer" \in Stages
    BY DEF BInv, Typed, Stages
  <1>2. /\ pc[w] = "commit" /\ pc' = [pc EXCEPT ![w] = "answer"]
        /\ session' = [session EXCEPT ![w] = s]
        /\ ledger' = Append(ledger, t) /\ balance' = Posted(session[w])
        /\ open' = open \cup session[w].created
        /\ rowLock' = [a \in Accounts |-> IF rowLock[a] = w THEN NoOne ELSE rowLock[a]]
        /\ writer' = IF writer = w THEN NoOne ELSE writer
        /\ clock' = clock
    BY <1>1 DEF Commit
  <1>3. /\ s \in ItemSession /\ s.created = {} /\ s.stamp = session[w].stamp
        /\ s.req = session[w].req /\ s.from = session[w].from /\ s.to = session[w].to
    BY <1>1 DEF ItemSession
  <1>4. /\ t \in TxnType /\ balance' \in [Accounts -> Nat]
        /\ t.id = session[w].stamp /\ {t.from, t.to} = Parties(w)
        /\ t.from \in Accounts /\ t.to \in Accounts
        /\ t.from # t.to =>
              /\ balance'[t.from] = t.fromRun /\ balance'[t.to] = t.toRun
              /\ \A a \in Accounts \ {t.from, t.to} : balance'[a] = balance[a]
        /\ t.from = t.to => balance' = balance
    <2>1. /\ t \in TxnType /\ balance' \in [Accounts -> Nat]
          /\ t.id = session[w].stamp /\ {t.from, t.to} = Parties(w)
          /\ t.from # t.to =>
                /\ balance'[t.from] = t.fromRun /\ balance'[t.to] = t.toRun
                /\ \A a \in Accounts \ {t.from, t.to} : balance'[a] = balance[a]
          /\ t.from = t.to => balance' = balance
      BY <1>2, Record
    <2> HIDE DEF t
    <2>2. t.from \in Accounts /\ t.to \in Accounts
      BY <2>1 DEF TxnType
    <2> QED BY <2>1, <2>2
  <1> HIDE DEF s, t
  <1>5. /\ n \notin DOMAIN ledger /\ DOMAIN ledger' = DOMAIN ledger \cup {n}
        /\ \A i \in DOMAIN ledger : ledger'[i] = ledger[i] /\ i < n
        /\ ledger'[n] = t /\ ledger' \in Seq(TxnType)
    BY <1>1, <1>2, <1>4
  <1>6. Ids' = Ids \cup {session[w].stamp}
    <2> HIDE DEF n
    <2> QED BY <1>4, <1>5 DEF Ids
  <1>7. pc'[w] = "answer" /\ session'[w] = s /\ batch'[w] = b
    BY <1>1, <1>2
  <1>8. /\ StageSound(w) /\ CreatedSound(w) /\ ReportSound(w)
        /\ RunningBalanceCurrent /\ NoFreeWallet
    BY DEF BInv, WorkerSound, Money
  <1>9. WorkerSound(w)'
    <2>1. StageSound(w)'
      BY <1>2, <1>3, <1>7, <1>8 DEF StageSound, Serving
    <2>2. CreatedSound(w)'
      BY <1>2, <1>3, <1>7, <1>8 DEF CreatedSound, Serving
    <2>3. ReportSound(w)'
      BY <1>2, <1>3, <1>6, <1>7, <1>8 DEF ReportSound, Unreported, Serving
    <2>4. LocksSound(w)'
      BY <1>2, <1>7, WorkersAssumption DEF LocksSound, InHand
    <2> QED BY <2>1, <2>2, <2>3, <2>4 DEF WorkerSound
  <1>10. Typed'
    <2>1. open' \subseteq Accounts /\ DOMAIN SeedBalance \subseteq open'
      BY <1>1, <1>2 DEF ItemSession
    <2>2. session' \in [Workers -> ItemSession] /\ pc' \in [Workers -> Stages]
      BY <1>1, <1>2, <1>3
    <2>3. batch' \in [Workers -> BatchType]
      BY <1>1
    <2>4. /\ rowLock' \in [Accounts -> Workers \cup {NoOne}]
          /\ writer' \in Workers \cup {NoOne}
      BY <1>1, <1>2
    <2> QED BY <1>1, <1>2, <1>4, <1>5, <2>1, <2>2, <2>3, <2>4 DEF Typed
  <1>11. Aside(w)
    BY <1>1, <1>2, <1>6, WorkersAssumption DEF Aside
  <1>12. RunningBalanceCurrent'
    <2> DEFINE moves(i, a) == ledger[i].from # ledger[i].to
                                /\ a \in {ledger[i].from, ledger[i].to}
               moved(i, a) == ledger'[i].from # ledger'[i].to
                                /\ a \in {ledger'[i].from, ledger'[i].to}
    <2>1. SUFFICES ASSUME NEW i \in DOMAIN ledger', ledger'[i].from # ledger'[i].to
                   PROVE  /\ \/ \E j \in DOMAIN ledger' : j > i /\ moved(j, ledger'[i].from)
                             \/ balance'[ledger'[i].from] = ledger'[i].fromRun
                          /\ \/ \E j \in DOMAIN ledger' : j > i /\ moved(j, ledger'[i].to)
                             \/ balance'[ledger'[i].to] = ledger'[i].toRun
      BY DEF RunningBalanceCurrent
    <2>2. CASE i = n
      BY <1>4, <1>5, <2>1, <2>2
    <2>3. CASE i \in DOMAIN ledger
      <3>1. /\ ledger'[i] = ledger[i] /\ n > i /\ n \in DOMAIN ledger'
            /\ ledger[i].from \in Accounts /\ ledger[i].to \in Accounts
        <4>1. n > i
          BY <1>1, <2>3
        <4> QED BY <1>5, <2>3, <4>1, LedgerTyped DEF BInv
      <3>2. \A j \in DOMAIN ledger, a \in Accounts : moves(j, a) => moved(j, a)
        BY <1>5
      <3>3. ASSUME NEW a \in Accounts PROVE balance'[a] = balance[a] \/ moved(n, a)
        BY <1>4, <1>5
      <3>4. /\ \/ \E j \in DOMAIN ledger : j > i /\ moves(j, ledger[i].from)
               \/ balance[ledger[i].from] = ledger[i].fromRun
            /\ \/ \E j \in DOMAIN ledger : j > i /\ moves(j, ledger[i].to)
               \/ balance[ledger[i].to] = ledger[i].toRun
        BY <1>8, <2>1, <2>3, <3>1 DEF RunningBalanceCurrent
      <3> HIDE DEF n, moves, moved
      <3> QED BY <1>5, <3>1, <3>2, <3>3, <3>4
    <2> QED BY <1>5, <2>2, <2>3
  <1>13. NoFreeWallet'
    <2>1. session[w].created \subseteq Parties(w)
      BY <1>2, <1>8 DEF CreatedSound
    <2> SUFFICES ASSUME NEW a \in open' \ DOMAIN SeedBalance
                 PROVE  \E i \in DOMAIN ledger' : a \in {ledger'[i].from, ledger'[i].to}
      BY DEF NoFreeWallet
    <2> HIDE DEF n
    <2>2. CASE a \in open
      BY <1>5, <1>8, <2>2 DEF NoFreeWallet
    <2>3. CASE a \in session[w].created
      BY <1>4, <1>5, <2>1, <2>3
    <2> QED BY <1>2, <2>2, <2>3
  <1> QED BY <1>9, <1>10, <1>11, <1>12, <1>13, Together DEF Money

-----------------------------------------------------------------------------
(* One lemma per kind of step, and the theorems.                           *)

LEMMA SingleBInv ==
  ASSUME NEW w \in Workers, BInv, Single(w)
  PROVE  BInv'
  <1>0. ~ Serving(w) /\ UNCHANGED batch
    BY DEF Single
  <1>1. ASSUME NEW status, Rollback(w, status) PROVE BInv'
    BY <1>0, <1>1, SingleCloseBInv DEF Rollback
  <1>2. CASE UnknownParty(w) \/ RejectInsufficient(w) \/ FailDuplicateKey(w)
               \/ LockFailure(w) \/ Crash(w)
    BY <1>1, <1>2
    DEF UnknownParty, RejectInsufficient, FailDuplicateKey, LockFailure, Crash
  <1>3. CASE Respond(w)
    BY <1>0, <1>3, SingleCloseBInv DEF Respond
  <1>4. CASE FindWallet(w) \/ CreateWallet(w) \/ LockRow(w) \/ Stamp(w) \/ Flush(w)
    BY <1>0, <1>4, FindWalletBInv, CreateWalletBInv, LockRowBInv, StampBInv, FlushBInv
  <1>5. CASE Commit(w)
    <2>1. batch[w].made = batch[w].made \cup (IF Serving(w) THEN {session[w].stamp} ELSE {})
      BY <1>0
    <2> QED BY <1>0, <1>5, <2>1, SameBatch, CommitBInv
  <1>6. CASE Submit(w)
    <2> PICK r \in Requests : Refuse(w, r) \/ Replay(w, r) \/ Accept(w, r)
      BY <1>6 DEF Submit
    <2>1. CASE Refuse(w, r) \/ Replay(w, r)
      BY <1>0, <2>1, Stutter DEF Refuse, Replay
    <2> QED BY <1>0, <2>1, AcceptBInv
  <1> QED BY <1>2, <1>3, <1>4, <1>5, <1>6 DEF Single, Step

LEMMA CommitItemBInv ==
  ASSUME NEW w \in Workers, BInv, CommitItem(w)
  PROVE  BInv'
  <1> DEFINE b == [batch[w] EXCEPT !.made = @ \cup {session[w].stamp}]
  <1>1. batch[w] \in BatchType /\ session[w].stamp \in Nat
    BY DEF BInv, Typed, ItemSession
  <1>2. Serving(w) /\ Commit(w) /\ batch' = [batch EXCEPT ![w] = b]
    BY DEF CommitItem, BInv, Typed
  <1>3. /\ b \in BatchType /\ b.active = batch[w].active /\ b.broken = batch[w].broken
        /\ b.todo = batch[w].todo /\ b.executed = batch[w].executed
        /\ b.lost = batch[w].lost /\ b.made = batch[w].made \cup {session[w].stamp}
    BY <1>1 DEF BatchType
  <1> HIDE DEF b
  <1> QED BY <1>2, <1>3, CommitBInv

LEMMA BatchStepBInv ==
  ASSUME NEW w \in Workers, BInv, BatchStep(w)
  PROVE  BInv'
  <1>1. CASE AdvanceItem(w)
    BY <1>1, FindWalletBInv, CreateWalletBInv, LockRowBInv, StampBInv, FlushBInv
    DEF AdvanceItem
  <1> QED
    BY <1>1, RefuseItemBInv, BeginItemBInv, FailItemBInv, CommitItemBInv, ReturnItemBInv,
       AbortItemBInv, EndBatchBInv
    DEF BatchStep

LEMMA NextBInv == BInv /\ [BatchNext]_bvars => BInv'
  <1> SUFFICES ASSUME BInv, [BatchNext]_bvars PROVE BInv'
    OBVIOUS
  <1>1. CASE UNCHANGED bvars
    BY <1>1, Stutter DEF bvars, vars
  <1>2. CASE BatchNext
    <2> PICK w \in Workers :
          \/ Single(w) \/ BatchStep(w) \/ LoseConnection(w) \/ CrashBatch(w)
          \/ \E b \in Batches : StartBatch(w, b)
      BY <1>2 DEF BatchNext
    <2> QED BY SingleBInv, BatchStepBInv, AbortItemBInv, EndBatchBInv, StartBatchBInv
  <1> QED BY <1>1, <1>2

LEMMA BatchInvariance == BatchSpec => []BInv
  BY InitBInv, NextBInv, PTL DEF BatchSpec

(* The statement and the wallet agree, for any mixture of customers'       *)
(* transfers and batches, aborts, lost connections and crashes.            *)
THEOREM StatementsMatchWallets == BatchSpec => []RunningBalanceCurrent
  <1>1. BInv => RunningBalanceCurrent
    BY DEF BInv, Money
  <1> QED BY <1>1, BatchInvariance, PTL

(* No failed transfer leaves a wallet, and its grant, behind.              *)
THEOREM GrantsAreEarned == BatchSpec => []NoFreeWallet
  <1>1. BInv => NoFreeWallet
    BY DEF BInv, Money
  <1> QED BY <1>1, BatchInvariance, PTL

(* A batch reports transfers it has committed, and all of them unless the  *)
(* connection failed.                                                      *)
THEOREM ReportsAreTrue == BatchSpec => []BatchReportTrue
  <1>1. BInv => BatchReportTrue
    <2> SUFFICES ASSUME BInv, NEW w \in Workers, Between(w), batch[w].todo = <<>>
                 PROVE  /\ batch[w].executed \subseteq batch[w].made \cap Ids
                        /\ batch[w].lost \/ batch[w].made = batch[w].executed
      BY DEF BatchReportTrue
    <2> QED BY DEF BInv, WorkerSound, ReportSound, Unreported, Between
  <1> QED BY <1>1, BatchInvariance, PTL

(* No lock outlives the transfer or the batch that took it, and no two     *)
(* sessions are about to commit balances of one wallet.                    *)
THEOREM LocksAreAccountedFor == BatchSpec => []LocksFollowBatches
  <1>1. BInv => LocksFollowBatches
    <2> SUFFICES ASSUME BInv PROVE LocksFollowBatches
      OBVIOUS
    <2>1. ASSUME NEW a \in Accounts, rowLock[a] # NoOne
          PROVE  LET h == rowLock[a] IN Kept(h) \/ (InHand(h) /\ a \in Parties(h))
      <3>1. rowLock[a] \in Workers
        BY <2>1 DEF BInv, Typed
      <3> QED BY <3>1 DEF BInv, WorkerSound, LocksSound
    <2>2. writer # NoOne =>
            \/ pc[writer] = "commit"
            \/ session[writer].created # {} /\ (pc[writer] # "idle" \/ Kept(writer))
      BY DEF BInv, Typed, WorkerSound, LocksSound
    <2>3. ASSUME NEW v \in Workers, NEW w \in Workers, v # w,
                 pc[v] = "commit", pc[w] = "commit"
          PROVE  Parties(v) \cap Parties(w) = {}
      <3>1. RowLocks \in BOOLEAN
        BY DatabaseAssumption
      <3>2. LocksSound(v) /\ LocksSound(w) /\ InHand(v) /\ InHand(w)
        BY <2>3 DEF BInv, WorkerSound, InHand
      <3>3. RowLocks
        BY <2>3, <3>1, <3>2 DEF LocksSound
      <3>4. /\ \A a \in Parties(v) : rowLock[a] = v
            /\ \A a \in Parties(w) : rowLock[a] = w
        BY <2>3, <3>2, <3>3 DEF LocksSound, Parties
      <3> QED BY <2>3, <3>4
    <2> QED BY <2>1, <2>2, <2>3 DEF LocksFollowBatches, Kept, InHand, Parties
  <1> QED BY <1>1, BatchInvariance, PTL
=============================================================================
