--------------------------- MODULE PaymentProofs ---------------------------
(***************************************************************************)
(* Proofs about the transfer engine for any number of workers, accounts,   *)
(* keys and requests, with row locks or with a single write lock.          *)
(***************************************************************************)
EXTENDS PaymentAccounting, SumTheorems

(* What a session holds at each stage of its handler.                      *)
SessionSound(w) ==
  /\ pc[w] # "idle" => session[w].req \in Requests /\ session[w].req.amount > 0
  /\ pc[w] \notin {"idle", "source"} => session[w].from \in Accounts
  /\ pc[w] \notin {"idle", "source", "dest"} => session[w].to \in Accounts
  /\ pc[w] \in {"flush", "commit"} =>
        Covered(w) /\ session[w].stamp \in 1..clock

SInv == TypeOK /\ \A w \in Workers : SessionSound(w)

USE DEF Genesis, NoTxn

LEMMA NoSessionType == NoSession \in SessionType
  BY DEF NoSession, SessionType

LEMMA RequestTyped ==
  \A r \in Requests : r.amount \in Int /\ r.key \in Keys \cup {NoKey}
  BY RequestsAssumption DEF RequestType

LEMMA InitSInv == Init => SInv
  BY NoSessionType, AccountsAssumption, DatabaseAssumption
  DEF Init, SInv, TypeOK, SessionSound, NoSession, Stages, Statuses, InitialBalance

LEMMA CloseSessionSInv ==
  ASSUME NEW w \in Workers, SInv, CloseSession(w),
         UNCHANGED <<database, clock>>,
         reply' \in [Workers -> [status: Statuses, key: Keys \cup {NoKey}, txn: Nat]]
  PROVE  SInv'
  <1>1. TypeOK'
    BY NoSessionType DEF SInv, TypeOK, CloseSession, database, Stages
  <1>2. ASSUME NEW v \in Workers PROVE SessionSound(v)'
    BY DEF SInv, TypeOK, CloseSession, SessionSound, Covered, database
  <1> QED BY <1>1, <1>2 DEF SInv

LEMMA AnswerTyped ==
  ASSUME NEW w \in Workers, SInv,
         NEW status \in Statuses, NEW k \in Keys \cup {NoKey}, NEW txn \in Nat,
         Answer(w, status, k, txn)
  PROVE  reply' \in [Workers -> [status: Statuses, key: Keys \cup {NoKey}, txn: Nat]]
  BY DEF SInv, TypeOK, Answer

LEMMA RollbackSInv ==
  ASSUME NEW w \in Workers, SInv, pc[w] # "idle",
         NEW status \in Statuses, Rollback(w, status)
  PROVE  SInv'
  <1>1. session[w].req.key \in Keys \cup {NoKey}
    BY RequestTyped DEF SInv, SessionSound
  <1> QED BY <1>1, AnswerTyped, CloseSessionSInv DEF Rollback

LEMMA SubmitSInv ==
  ASSUME NEW w \in Workers, SInv, Submit(w)
  PROVE  SInv'
  <1> PICK r \in Requests : Refuse(w, r) \/ Replay(w, r) \/ Accept(w, r)
    BY DEF Submit
  <1>r. r.amount \in Int /\ r.key \in Keys \cup {NoKey}
    BY RequestTyped
  <1>0. ASSUME UNCHANGED <<pc, session, database, locks, clock>>,
               reply' \in [Workers -> [status: Statuses, key: Keys \cup {NoKey}, txn: Nat]]
        PROVE  SInv'
    BY <1>0 DEF SInv, TypeOK, SessionSound, Covered, database, locks
  <1>1. CASE Refuse(w, r)
    BY <1>0, <1>1, <1>r, AnswerTyped DEF Refuse, Statuses
  <1>2. CASE Replay(w, r)
    <2>1. keys[r.key] \in Nat
      BY <1>2, <1>r DEF Replay, Recorded, SInv, TypeOK
    <2> QED BY <1>0, <1>2, <1>r, <2>1, AnswerTyped DEF Replay, Statuses
  <1>3. CASE Accept(w, r)
    <2>1. [NoSession EXCEPT !.req = r] \in SessionType
      BY NoSessionType DEF SessionType, NoSession
    <2>2. TypeOK'
      BY <1>3, <1>r, <2>1 DEF Accept, SInv, TypeOK, Stages, Statuses, database, locks
    <2>3. ASSUME NEW v \in Workers PROVE SessionSound(v)'
      <3>1. CASE v = w
        BY <1>3, <3>1, <1>r DEF Accept, SInv, TypeOK, SessionSound, NoSession, Valid
      <3>2. CASE v # w
        BY <1>3, <3>2 DEF Accept, SInv, TypeOK, SessionSound, Covered, database
      <3> QED BY <3>1, <3>2
    <2> QED BY <2>2, <2>3 DEF SInv
  <1> QED BY <1>1, <1>2, <1>3

(* Steps that move one worker's stage and session and leave the committed  *)
(* state alone.                                                            *)
LEMMA LocalSInv ==
  ASSUME NEW w \in Workers, SInv,
         NEW stage \in Stages, NEW s \in SessionType,
         pc' = [pc EXCEPT ![w] = stage], session' = [session EXCEPT ![w] = s],
         SessionSound(w)', clock' \in Nat, clock' >= clock,
         rowLock' \in [Accounts -> Workers \cup {NoOne}],
         writer' \in Workers \cup {NoOne},
         UNCHANGED <<reply, database>>
  PROVE  SInv'
  <1>1. TypeOK'
    BY DEF SInv, TypeOK, database
  <1>2. ASSUME NEW v \in Workers, v # w PROVE SessionSound(v)'
    BY <1>2 DEF SInv, TypeOK, SessionSound, Covered
  <1> QED BY <1>1, <1>2 DEF SInv

LEMMA LoadSInv ==
  ASSUME NEW w \in Workers, SInv, NEW a \in Accounts, NEW made \in SUBSET Accounts,
         Load(w, a, made), writer' \in Workers \cup {NoOne}
  PROVE  SInv'
  <1>t. session[w] \in SessionType /\ balance[a] \in Nat
    BY DEF SInv, TypeOK
  <1>u. /\ clock' \in Nat /\ clock' >= clock
        /\ rowLock' \in [Accounts -> Workers \cup {NoOne}]
        /\ UNCHANGED <<reply, database>>
    BY DEF Load, SInv, TypeOK
  <1>s. {"dest", "lockSource"} \subseteq Stages
    BY DEF Stages
  <1>1. CASE pc[w] = "source"
    <2> DEFINE s == [session[w] EXCEPT !.from = a, !.fromBal = balance[a],
                                       !.created = @ \cup made]
    <2>1. s \in SessionType
      BY <1>t DEF SessionType
    <2>2. session' = [session EXCEPT ![w] = s] /\ pc' = [pc EXCEPT ![w] = "dest"]
      BY <1>1, <1>t DEF Load, SInv, TypeOK, SessionType
    <2>3. SessionSound(w)'
      BY <1>1, <1>t, <2>2 DEF Load, SInv, TypeOK, SessionSound, SessionType, Covered
    <2> QED
      <3> HIDE DEF s
      <3> QED BY <1>u, <1>s, <2>1, <2>2, <2>3, LocalSInv
  <1>2. CASE pc[w] = "dest"
    <2> DEFINE b == IF a = session[w].from THEN session[w].fromBal ELSE balance[a]
               s == [session[w] EXCEPT !.to = a, !.toBal = b, !.created = @ \cup made]
    <2>1. s \in SessionType
      BY <1>t DEF SessionType
    <2>2. session' = [session EXCEPT ![w] = s] /\ pc' = [pc EXCEPT ![w] = "lockSource"]
      BY <1>2, <1>t DEF Load, SInv, TypeOK, SessionType
    <2>3. SessionSound(w)'
      BY <1>2, <1>t, <2>2 DEF Load, SInv, TypeOK, SessionSound, SessionType, Covered
    <2> QED
      <3> HIDE DEF s
      <3> QED BY <1>u, <1>s, <2>1, <2>2, <2>3, LocalSInv
  <1> QED BY <1>1, <1>2 DEF Load

LEMMA WalletSInv ==
  ASSUME NEW w \in Workers, SInv, FindWallet(w) \/ CreateWallet(w)
  PROVE  SInv'
  <1>1. CASE FindWallet(w)
    <2> PICK a \in Wallets(w) : Load(w, a, {})
      BY <1>1 DEF FindWallet
    <2>1. a \in Accounts
      BY DEF Wallets, SInv, TypeOK, SessionType
    <2>2. writer' \in Workers \cup {NoOne}
      BY <1>1 DEF FindWallet, SInv, TypeOK
    <2> QED BY <2>1, <2>2, LoadSInv
  <1>2. CASE CreateWallet(w)
    <2> PICK a \in Fresh : Load(w, a, {a})
      BY <1>2 DEF CreateWallet
    <2>1. a \in Accounts
      BY DEF Fresh
    <2>2. writer' \in Workers \cup {NoOne}
      BY <1>2 DEF CreateWallet, TakeWriteLock, SInv, TypeOK
    <2> QED BY <2>1, <2>2, LoadSInv
  <1> QED BY <1>1, <1>2

LEMMA LockRowSInv ==
  ASSUME NEW w \in Workers, SInv, LockRow(w)
  PROVE  SInv'
  <1>1. Wanted(w) \in Accounts
    BY DEF LockRow, Wanted, SInv, SessionSound
  <1>2. TypeOK'
    BY <1>1 DEF LockRow, SInv, TypeOK, Stages, database
  <1>3. ASSUME NEW v \in Workers PROVE SessionSound(v)'
    BY DEF LockRow, SInv, TypeOK, SessionSound, Covered
  <1> QED BY <1>2, <1>3 DEF SInv

LEMMA StampSInv ==
  ASSUME NEW w \in Workers, SInv, Stamp(w)
  PROVE  SInv'
  <1> DEFINE s == [session[w] EXCEPT !.stamp = clock + 1]
  <1>0. clock \in Nat /\ session[w] \in SessionType
    BY DEF SInv, TypeOK
  <1>1. s \in SessionType
    BY <1>0 DEF SessionType
  <1>2. session' = [session EXCEPT ![w] = s]
    BY DEF Stamp, SInv, TypeOK
  <1>3. SessionSound(w)'
    <2>1. /\ pc'[w] = "flush" /\ session'[w] = s /\ clock' = clock + 1
          /\ pc[w] = "check" /\ Covered(w) /\ SessionSound(w)
      BY <1>2 DEF Stamp, SInv, TypeOK
    <2>2. /\ s.req = session[w].req /\ s.from = session[w].from
          /\ s.to = session[w].to /\ s.fromBal = session[w].fromBal
          /\ s.stamp = clock + 1
      BY <1>0 DEF SessionType
    <2> HIDE DEF s
    <2> QED BY <1>0, <2>1, <2>2 DEF SessionSound, Covered
  <1>4. /\ pc' = [pc EXCEPT ![w] = "flush"] /\ "flush" \in Stages
        /\ clock' \in Nat /\ clock' >= clock
        /\ rowLock' \in [Accounts -> Workers \cup {NoOne}]
        /\ writer' \in Workers \cup {NoOne}
        /\ UNCHANGED <<reply, database>>
    BY <1>0 DEF Stamp, SInv, TypeOK, Stages, locks
  <1> HIDE DEF s
  <1> QED BY <1>1, <1>2, <1>3, <1>4, LocalSInv

LEMMA FlushSInv ==
  ASSUME NEW w \in Workers, SInv, Flush(w)
  PROVE  SInv'
  <1> PICK p \in Ids \cup {Genesis} : session' = [session EXCEPT ![w].prev = p]
    BY DEF Flush
  <1>0. p \in Nat /\ session[w] \in SessionType
    <2>1. \A i \in DOMAIN ledger : ledger[i] \in TxnType
      BY DEF SInv, TypeOK
    <2>2. \A i \in DOMAIN ledger : ledger[i].id \in Nat
      BY <2>1 DEF TxnType
    <2> QED BY <2>2 DEF Ids, SInv, TypeOK
  <1> DEFINE s == [session[w] EXCEPT !.prev = p]
  <1>1. s \in SessionType
    BY <1>0 DEF SessionType
  <1>2. session' = [session EXCEPT ![w] = s]
    BY DEF SInv, TypeOK
  <1>3. SessionSound(w)'
    <2>1. /\ pc'[w] = "commit" /\ session'[w] = s /\ clock' = clock
          /\ pc[w] = "flush" /\ SessionSound(w)
      BY <1>2 DEF Flush, SInv, TypeOK
    <2>2. /\ s.req = session[w].req /\ s.from = session[w].from
          /\ s.to = session[w].to /\ s.fromBal = session[w].fromBal
          /\ s.stamp = session[w].stamp
      BY <1>0 DEF SessionType
    <2> HIDE DEF s
    <2> QED BY <2>1, <2>2 DEF SessionSound, Covered
  <1>4. /\ pc' = [pc EXCEPT ![w] = "commit"] /\ "commit" \in Stages
        /\ clock' \in Nat /\ clock' >= clock
        /\ rowLock' \in [Accounts -> Workers \cup {NoOne}]
        /\ writer' \in Workers \cup {NoOne}
        /\ UNCHANGED <<reply, database>>
    BY DEF Flush, TakeWriteLock, SInv, TypeOK, Stages
  <1> HIDE DEF s
  <1> QED BY <1>1, <1>2, <1>3, <1>4, LocalSInv

(* The heart of the overdraft argument: the check at line 173 covers the   *)
(* value that line 184 subtracts from, stale or not.                       *)
LEMMA TxnRecordTyped ==
  ASSUME NEW w \in Workers, SInv, pc[w] = "commit"
  PROVE  /\ TxnRecord(session[w]) \in TxnType
         /\ Debited(session[w]) \in Nat /\ Credited(session[w]) \in Nat
  <1>1. /\ session[w] \in SessionType /\ SessionSound(w)
        /\ session[w].req.amount \in Int /\ session[w].req.key \in Keys \cup {NoKey}
    BY RequestTyped DEF SInv, TypeOK, SessionSound
  <1>2. /\ session[w].fromBal \in Nat /\ session[w].toBal \in Nat
        /\ session[w].stamp \in Nat \ {0} /\ session[w].prev \in Nat
        /\ session[w].req.amount \in Nat \ {0}
        /\ session[w].fromBal >= session[w].req.amount
    BY <1>1 DEF SessionType, SessionSound, Covered, SInv, TypeOK
  <1>3. Debited(session[w]) \in Nat /\ Credited(session[w]) \in Nat
    BY <1>2 DEF Debited, Credited
  <1>4. session[w].from \in Accounts /\ session[w].to \in Accounts
    BY <1>1 DEF SessionSound
  <1> QED BY <1>1, <1>2, <1>3, <1>4 DEF TxnRecord, TxnType

LEMMA CommitSInv ==
  ASSUME NEW w \in Workers, SInv, Commit(w)
  PROVE  SInv'
  <1>1. pc[w] = "commit"
    BY DEF Commit
  <1>2. ledger' \in Seq(TxnType)
    <2>1. ledger' = Append(ledger, TxnRecord(session[w])) /\ ledger \in Seq(TxnType)
      BY DEF Commit, SInv, TypeOK
    <2>2. TxnRecord(session[w]) \in TxnType
      BY <1>1, TxnRecordTyped
    <2> QED BY <2>1, <2>2
  <1>3. balance' \in [Accounts -> Nat]
    <2>1. balance' = Posted(session[w]) /\ balance \in [Accounts -> Nat]
      BY DEF Commit, SInv, TypeOK
    <2>2. Debited(session[w]) \in Nat /\ Credited(session[w]) \in Nat
      BY <1>1, TxnRecordTyped
    <2> QED BY ONLY <2>1, <2>2 DEF Posted
  <1>4. open' \subseteq Accounts
    BY DEF Commit, SInv, TypeOK, SessionType
  <1>5. keys' \in [Keys -> Nat]
    <2>1. /\ session[w].stamp \in Nat /\ keys \in [Keys -> Nat]
          /\ session[w].req.key \in Keys \cup {NoKey}
      <3>1. session[w] \in SessionType /\ session[w].req.key \in Keys \cup {NoKey}
        BY <1>1, RequestTyped DEF SInv, TypeOK, SessionSound
      <3> QED BY <3>1 DEF SInv, TypeOK, SessionType
    <2>2. keys' = IF session[w].req.key = NoKey THEN keys
                  ELSE [keys EXCEPT ![session[w].req.key] = session[w].stamp]
      BY DEF Commit
    <2> QED BY ONLY <2>1, <2>2
  <1>6. session' \in [Workers -> SessionType] /\ pc' \in [Workers -> Stages]
    <2>1. /\ session' = [session EXCEPT ![w].created = {}]
          /\ session \in [Workers -> SessionType]
      BY DEF Commit, SInv, TypeOK
    <2>2. pc' = [pc EXCEPT ![w] = "answer"] /\ pc \in [Workers -> Stages]
      BY DEF Commit, SInv, TypeOK
    <2>3. session' \in [Workers -> SessionType]
      BY ONLY <2>1 DEF SessionType
    <2> QED BY ONLY <2>2, <2>3 DEF Stages
  <1>7. /\ rowLock' \in [Accounts -> Workers \cup {NoOne}]
        /\ writer' \in Workers \cup {NoOne}
        /\ UNCHANGED <<reply, clock>>
    BY DEF Commit, SInv, TypeOK
  <1>8. TypeOK'
    BY <1>2, <1>3, <1>4, <1>5, <1>6, <1>7 DEF SInv, TypeOK
  <1>9. ASSUME NEW v \in Workers PROVE SessionSound(v)'
    BY DEF Commit, SInv, TypeOK, SessionSound, SessionType, Covered
  <1> QED BY <1>8, <1>9 DEF SInv

LEMMA EndSInv ==
  ASSUME NEW w \in Workers, SInv,
         \/ UnknownParty(w) \/ RejectInsufficient(w) \/ FailDuplicateKey(w)
         \/ LockFailure(w) \/ Crash(w) \/ Respond(w)
  PROVE  SInv'
  <1>1. CASE UnknownParty(w)
    BY <1>1, RollbackSInv DEF UnknownParty, Statuses
  <1>2. CASE RejectInsufficient(w)
    BY <1>2, RollbackSInv DEF RejectInsufficient, Statuses
  <1>3. CASE FailDuplicateKey(w)
    BY <1>3, RollbackSInv DEF FailDuplicateKey, Statuses
  <1>4. CASE LockFailure(w)
    <2>1. pc[w] # "idle"
      BY <1>4 DEF LockFailure, Deadlocked, Blocked, WaitsToWrite
    <2> QED BY <1>4, <2>1, RollbackSInv DEF LockFailure, Statuses
  <1>5. CASE Crash(w)
    BY <1>5, RollbackSInv DEF Crash, Statuses
  <1>6. CASE Respond(w)
    <2>1. session[w].req.key \in Keys \cup {NoKey} /\ session[w].stamp \in Nat
      BY <1>6, RequestTyped DEF Respond, SInv, TypeOK, SessionSound, SessionType
    <2> QED BY <1>6, <2>1, AnswerTyped, CloseSessionSInv DEF Respond, Statuses
  <1> QED BY <1>1, <1>2, <1>3, <1>4, <1>5, <1>6

LEMMA NextSInv == SInv /\ [Next]_vars => SInv'
  <1> SUFFICES ASSUME SInv, [Next]_vars PROVE SInv'
    OBVIOUS
  <1>1. CASE UNCHANGED vars
    BY <1>1 DEF vars, database, locks, SInv, TypeOK, SessionSound, Covered
  <1>2. CASE Next
    <2> PICK w \in Workers : Submit(w) \/ Step(w) \/ Crash(w)
      BY <1>2 DEF Next
    <2> QED
      BY SubmitSInv, WalletSInv, LockRowSInv, StampSInv, FlushSInv, CommitSInv, EndSInv
      DEF Step
  <1> QED BY <1>1, <1>2

(* Types, and with them: no committed or loaded balance is ever negative,  *)
(* for every interleaving, although the balance check reads stale objects. *)
THEOREM TypeCorrect == Spec => []TypeOK
  <1>1. SInv => TypeOK
    BY DEF SInv
  <1> QED BY <1>1, InitSInv, NextSInv, PTL DEF Spec

-----------------------------------------------------------------------------
(* The inductive invariant behind the ledger properties.  A stamp belongs  *)
(* to one transfer; a key record and its transaction imply each other; the *)
(* link a worker is about to commit names a committed transaction.         *)

InFlight(w) == pc[w] \in {"flush", "commit"}

LedgerSound ==
  /\ \A i \in DOMAIN ledger : ledger[i].id <= clock
  /\ \A i \in DOMAIN ledger :
        ledger[i].key # NoKey => keys[ledger[i].key] = ledger[i].id
  /\ \A i, j \in DOMAIN ledger : ledger[i].id = ledger[j].id => i = j
  /\ \A k \in Keys : keys[k] # NoTxn => Made(keys[k], k)

StampSound(w) ==
  InFlight(w) =>
    /\ session[w].stamp \notin Ids
    /\ \A v \in Workers : v # w /\ InFlight(v) => session[v].stamp # session[w].stamp

LinkSound(w) == pc[w] = "commit" => session[w].prev \in Ids \cup {Genesis}

AnswerSound(w) ==
  /\ reply[w].status = 200 => Made(reply[w].txn, reply[w].key)
  /\ pc[w] = "answer" => Made(session[w].stamp, session[w].req.key)

LInv ==
  /\ LedgerSound
  /\ \A w \in Workers : StampSound(w) /\ LinkSound(w) /\ AnswerSound(w)

LEMMA InitLInv == Init => LInv
  BY DEF Init, LInv, LedgerSound, StampSound, LinkSound, AnswerSound, InFlight, Made

(* Steps of one worker that leave the committed state alone.               *)
LEMMA LocalLInv ==
  ASSUME NEW w \in Workers, SInv, LInv, UNCHANGED database,
         clock' \in Nat, clock' >= clock,
         \A v \in Workers \ {w} :
            pc'[v] = pc[v] /\ session'[v] = session[v] /\ reply'[v] = reply[v],
         StampSound(w)', LinkSound(w)', AnswerSound(w)'
  PROVE  LInv'
  <1>1. LedgerSound'
    <2>1. \A i \in DOMAIN ledger : ledger[i].id \in Nat
      <3>1. \A i \in DOMAIN ledger : ledger[i] \in TxnType
        BY DEF SInv, TypeOK
      <3> QED BY <3>1 DEF TxnType
    <2>2. clock \in Nat
      BY DEF SInv, TypeOK
    <2> QED BY <2>1, <2>2 DEF LInv, LedgerSound, Made, database
  <1>2. ASSUME NEW v \in Workers, v # w
        PROVE  StampSound(v)' /\ LinkSound(v)' /\ AnswerSound(v)'
    BY <1>2 DEF LInv, StampSound, LinkSound, AnswerSound, InFlight, Made, Ids, database
  <1> QED BY <1>1, <1>2 DEF LInv

LEMMA RollbackLInv ==
  ASSUME NEW w \in Workers, SInv, LInv,
         NEW status \in Statuses \ {200}, Rollback(w, status)
  PROVE  LInv'
  <1>1. /\ pc'[w] = "idle" /\ reply'[w].status # 200
        /\ \A v \in Workers \ {w} :
             pc'[v] = pc[v] /\ session'[v] = session[v] /\ reply'[v] = reply[v]
        /\ UNCHANGED database /\ clock' = clock /\ clock \in Nat
    BY DEF Rollback, Answer, CloseSession, SInv, TypeOK
  <1> QED
    BY <1>1, LocalLInv DEF StampSound, LinkSound, AnswerSound, InFlight

LEMMA EndLInv ==
  ASSUME NEW w \in Workers, SInv, LInv,
         \/ UnknownParty(w) \/ RejectInsufficient(w) \/ FailDuplicateKey(w)
         \/ LockFailure(w) \/ Crash(w)
  PROVE  LInv'
  BY RollbackLInv
  DEF UnknownParty, RejectInsufficient, FailDuplicateKey, LockFailure, Crash, Statuses

LEMMA RespondLInv ==
  ASSUME NEW w \in Workers, SInv, LInv, Respond(w)
  PROVE  LInv'
  <1>1. /\ pc'[w] = "idle" /\ pc[w] = "answer"
        /\ reply'[w].txn = session[w].stamp /\ reply'[w].key = session[w].req.key
        /\ \A v \in Workers \ {w} :
             pc'[v] = pc[v] /\ session'[v] = session[v] /\ reply'[v] = reply[v]
        /\ UNCHANGED database /\ clock' = clock /\ clock \in Nat
    BY DEF Respond, Answer, CloseSession, SInv, TypeOK
  <1>2. AnswerSound(w)'
    BY <1>1 DEF LInv, AnswerSound, Made, database
  <1> QED
    BY <1>1, <1>2, LocalLInv DEF StampSound, LinkSound, InFlight

LEMMA SubmitLInv ==
  ASSUME NEW w \in Workers, SInv, LInv, Submit(w)
  PROVE  LInv'
  <1> PICK r \in Requests : Refuse(w, r) \/ Replay(w, r) \/ Accept(w, r)
    BY DEF Submit
  <1>r. r.key \in Keys \cup {NoKey}
    BY RequestTyped
  <1>1. /\ pc[w] = "idle" /\ pc'[w] \in {"idle", "source"}
        /\ \A v \in Workers \ {w} :
             pc'[v] = pc[v] /\ session'[v] = session[v] /\ reply'[v] = reply[v]
        /\ UNCHANGED database /\ clock' = clock /\ clock \in Nat
    BY DEF Refuse, Replay, Accept, Answer, SInv, TypeOK
  <1>2. reply'[w].status = 200 => Made(reply'[w].txn, reply'[w].key)
    <2>1. CASE Refuse(w, r)
      BY <2>1 DEF Refuse, Answer, SInv, TypeOK
    <2>2. CASE Replay(w, r)
      BY <2>2, <1>r DEF Replay, Recorded, Answer, SInv, TypeOK, LInv, LedgerSound
    <2>3. CASE Accept(w, r)
      BY <2>3 DEF Accept, SInv, TypeOK
    <2> QED BY <2>1, <2>2, <2>3
  <1>3. AnswerSound(w)'
    BY <1>1, <1>2 DEF AnswerSound, Made, database
  <1> QED BY <1>1, <1>3, LocalLInv DEF StampSound, LinkSound, InFlight

LEMMA StampLInv ==
  ASSUME NEW w \in Workers, SInv, LInv, Stamp(w)
  PROVE  LInv'
  <1>1. /\ pc'[w] = "flush" /\ pc[w] = "check" /\ session'[w].stamp = clock + 1
        /\ \A v \in Workers \ {w} :
             pc'[v] = pc[v] /\ session'[v] = session[v] /\ reply'[v] = reply[v]
        /\ UNCHANGED <<reply, database>> /\ clock' = clock + 1 /\ clock \in Nat
    BY DEF Stamp, SInv, TypeOK, SessionType
  <1>2. clock + 1 \notin Ids
    <2>1. \A i \in DOMAIN ledger : ledger[i] \in TxnType
      BY DEF SInv, TypeOK
    <2>2. \A i \in DOMAIN ledger : ledger[i].id \in Nat /\ ledger[i].id <= clock
      BY <2>1 DEF TxnType, LInv, LedgerSound
    <2> QED BY <1>1, <2>2 DEF Ids
  <1>3. \A v \in Workers : InFlight(v) => session[v].stamp # clock + 1
    BY <1>1 DEF SInv, SessionSound, InFlight
  <1>4. StampSound(w)'
    BY <1>1, <1>2, <1>3 DEF StampSound, InFlight, Ids, database
  <1>5. LinkSound(w)' /\ AnswerSound(w)'
    BY <1>1 DEF LInv, LinkSound, AnswerSound, Made, database
  <1> QED BY <1>1, <1>4, <1>5, LocalLInv

LEMMA FlushLInv ==
  ASSUME NEW w \in Workers, SInv, LInv, Flush(w)
  PROVE  LInv'
  <1> PICK p \in Ids \cup {Genesis} : session' = [session EXCEPT ![w].prev = p]
    BY DEF Flush
  <1>1. /\ pc'[w] = "commit" /\ pc[w] = "flush"
        /\ session'[w].prev = p /\ session'[w].stamp = session[w].stamp
        /\ \A v \in Workers \ {w} :
             pc'[v] = pc[v] /\ session'[v] = session[v] /\ reply'[v] = reply[v]
        /\ UNCHANGED <<reply, database>> /\ clock' = clock /\ clock \in Nat
    BY DEF Flush, SInv, TypeOK, SessionType
  <1>2. StampSound(w)'
    BY <1>1 DEF LInv, StampSound, InFlight, Ids, database
  <1>3. LinkSound(w)'
    BY <1>1 DEF LinkSound, Ids, database
  <1>4. AnswerSound(w)'
    BY <1>1 DEF LInv, AnswerSound, Made, database
  <1> QED BY <1>1, <1>2, <1>3, <1>4, LocalLInv

LEMMA LoadLInv ==
  ASSUME NEW w \in Workers, SInv, LInv, FindWallet(w) \/ CreateWallet(w) \/ LockRow(w)
  PROVE  LInv'
  <1>1. /\ pc[w] \in {"source", "dest", "lockSource", "lockDest"}
        /\ pc'[w] \in {"dest", "lockSource", "lockDest", "check"}
        /\ \A v \in Workers \ {w} :
             pc'[v] = pc[v] /\ session'[v] = session[v] /\ reply'[v] = reply[v]
        /\ UNCHANGED <<reply, database>> /\ clock' = clock /\ clock \in Nat
    BY DEF FindWallet, CreateWallet, LockRow, Load, SInv, TypeOK
  <1>2. StampSound(w)' /\ LinkSound(w)' /\ AnswerSound(w)'
    BY <1>1 DEF LInv, StampSound, LinkSound, AnswerSound, InFlight, Made, database
  <1> QED BY <1>1, <1>2, LocalLInv

-----------------------------------------------------------------------------
(* The commit: what appending the new record does to the ledger.           *)

LEMMA CommitAppends ==
  ASSUME NEW w \in Workers, SInv, Commit(w)
  PROVE  LET n == Len(ledger) + 1 IN
         /\ ledger' = Append(ledger, TxnRecord(session[w])) /\ Len(ledger') = n
         /\ n \notin DOMAIN ledger /\ DOMAIN ledger' = DOMAIN ledger \cup {n}
         /\ \A i \in DOMAIN ledger : ledger'[i] = ledger[i]
         /\ ledger'[n] = TxnRecord(session[w])
         /\ ledger'[n].id = session[w].stamp /\ ledger'[n].key = session[w].req.key
         /\ Ids' = Ids \cup {session[w].stamp}
  <1> DEFINE n == Len(ledger) + 1
             t == TxnRecord(session[w])
  <1>1. ledger \in Seq(TxnType) /\ t \in TxnType /\ ledger' = Append(ledger, t)
    BY TxnRecordTyped DEF Commit, SInv, TypeOK
  <1>2. t.id = session[w].stamp /\ t.key = session[w].req.key
    BY DEF TxnRecord
  <1> HIDE DEF t
  <1>3. /\ Len(ledger') = n /\ n \notin DOMAIN ledger
        /\ DOMAIN ledger' = DOMAIN ledger \cup {n}
        /\ \A i \in DOMAIN ledger : ledger'[i] = ledger[i]
        /\ ledger'[n] = t
    BY <1>1
  <1>4. Ids' = Ids \cup {session[w].stamp}
    BY <1>2, <1>3 DEF Ids
  <1> QED BY <1>1, <1>2, <1>3, <1>4 DEF t

LEMMA CommitLInv ==
  ASSUME NEW w \in Workers, SInv, LInv, Commit(w)
  PROVE  LInv'
  <1> DEFINE n == Len(ledger) + 1
             id == session[w].stamp
             k == session[w].req.key
             MadeNow(x, y) ==
               \E i \in DOMAIN ledger' : ledger'[i].id = x /\ ledger'[i].key = y
  <1>1. /\ n \notin DOMAIN ledger /\ DOMAIN ledger' = DOMAIN ledger \cup {n}
        /\ \A i \in DOMAIN ledger : ledger'[i] = ledger[i]
        /\ ledger'[n].id = id /\ ledger'[n].key = k
        /\ Ids' = Ids \cup {id}
    BY CommitAppends
  <1>2. /\ pc[w] = "commit" /\ pc'[w] = "answer" /\ clock' = clock
        /\ k \in Keys \cup {NoKey} /\ id \in Nat \ {0} /\ id <= clock
        /\ id \notin Ids
    BY RequestTyped
    DEF Commit, SInv, TypeOK, SessionSound, SessionType, LInv, StampSound, InFlight
  <1>3. /\ k # NoKey => keys[k] = NoTxn
        /\ keys' = IF k = NoKey THEN keys ELSE [keys EXCEPT ![k] = id]
        /\ keys \in [Keys -> Nat]
    BY DEF Commit, KeyTaken, Recorded, SInv, TypeOK
  <1>4. \A v \in Workers : session'[v].req = session[v].req /\ session'[v].prev = session[v].prev
                              /\ session'[v].stamp = session[v].stamp
    BY DEF Commit, SInv, TypeOK, SessionType
  <1>5. \A v \in Workers \ {w} : pc'[v] = pc[v]
    BY DEF Commit, SInv, TypeOK
  <1>6. \A i \in DOMAIN ledger : /\ ledger[i].id \in Nat \ {0} /\ ledger[i].id \in Ids
                                /\ ledger[i].key \in Keys \cup {NoKey}
    <2>1. \A i \in DOMAIN ledger : ledger[i] \in TxnType
      BY DEF SInv, TypeOK
    <2> QED BY <2>1 DEF TxnType, Ids
  <1>7. \A x, y : Made(x, y) => MadeNow(x, y)
    BY <1>1 DEF Made
  <1>8. MadeNow(id, k)
    BY <1>1
  <1> HIDE DEF n, id, k, MadeNow
  <1>9. LedgerSound'
    <2>1. \A i \in DOMAIN ledger' : ledger'[i].id <= clock'
      BY <1>1, <1>2 DEF LInv, LedgerSound
    <2>2. \A i \in DOMAIN ledger' :
             ledger'[i].key # NoKey => keys'[ledger'[i].key] = ledger'[i].id
      BY <1>1, <1>2, <1>3, <1>6 DEF LInv, LedgerSound
    <2>3. \A i, j \in DOMAIN ledger' : ledger'[i].id = ledger'[j].id => i = j
      BY <1>1, <1>2, <1>6 DEF LInv, LedgerSound
    <2>4. ASSUME NEW x \in Keys, keys'[x] # NoTxn PROVE MadeNow(keys'[x], x)
      <3>1. CASE x = k
        <4>1. k # NoKey
          BY <3>1, RequestsAssumption
        <4>2. keys'[x] = id
          BY <1>3, <3>1, <4>1
        <4> QED BY <1>8, <3>1, <4>2
      <3>2. CASE x # k
        <4>1. keys'[x] = keys[x]
          BY <1>3, <3>2
        <4>2. Made(keys[x], x)
          BY <2>4, <4>1 DEF LInv, LedgerSound
        <4> QED BY <1>7, <4>1, <4>2
      <3> QED BY <3>1, <3>2
    <2> QED BY <2>1, <2>2, <2>3, <2>4 DEF LedgerSound, Made, MadeNow
  <1>10. ASSUME NEW v \in Workers
         PROVE  StampSound(v)' /\ LinkSound(v)' /\ AnswerSound(v)'
    <2>1. StampSound(v)'
      BY <1>1, <1>2, <1>4, <1>5 DEF LInv, StampSound, InFlight, id
    <2>2. LinkSound(v)'
      BY <1>1, <1>2, <1>4, <1>5 DEF LInv, LinkSound
    <2>3. AnswerSound(v)'
      <3>1. reply' = reply
        BY DEF Commit
      <3>2. reply[v].status = 200 => MadeNow(reply[v].txn, reply[v].key)
        BY <1>7 DEF LInv, AnswerSound
      <3>3. pc'[v] = "answer" => MadeNow(session[v].stamp, session[v].req.key)
        BY <1>5, <1>7, <1>8 DEF LInv, AnswerSound, id, k
      <3>4. pc'[v] = "answer" => MadeNow(session'[v].stamp, session'[v].req.key)
        BY <1>4, <3>3
      <3> QED BY <3>1, <3>2, <3>4 DEF AnswerSound, Made, MadeNow
    <2> QED BY <2>1, <2>2, <2>3
  <1> QED BY <1>9, <1>10 DEF LInv

LEMMA NextLInv == SInv /\ LInv /\ [Next]_vars => LInv'
  <1> SUFFICES ASSUME SInv, LInv, [Next]_vars PROVE LInv'
    OBVIOUS
  <1>1. CASE UNCHANGED vars
    BY <1>1 DEF vars, database, LInv, LedgerSound, StampSound, LinkSound, AnswerSound,
                InFlight, Made, Ids
  <1>2. CASE Next
    <2> PICK w \in Workers : Submit(w) \/ Step(w) \/ Crash(w)
      BY <1>2 DEF Next
    <2> QED
      BY SubmitLInv, LoadLInv, StampLInv, FlushLInv, CommitLInv, RespondLInv, EndLInv
      DEF Step
  <1> QED BY <1>1, <1>2

LEMMA Invariance == Spec => [](SInv /\ LInv)
  BY InitSInv, InitLInv, NextSInv, NextLInv, PTL DEF Spec

(* A key moves money at most once: for any number of racing workers.       *)
THEOREM KeysMoveMoneyOnce == Spec => []OncePerKey
  <1>1. SInv /\ LInv => OncePerKey
    BY DEF LInv, LedgerSound, OncePerKey
  <1> QED BY <1>1, Invariance, PTL

(* Whoever was told 200 was told of a committed transaction of that key.   *)
THEOREM SuccessIsDurable == Spec => []AnswersAreCommitted
  <1>1. SInv /\ LInv => AnswersAreCommitted
    BY DEF LInv, AnswerSound, AnswersAreCommitted
  <1> QED BY <1>1, Invariance, PTL

LEMMA OnlyCommitWrites ==
  ASSUME [Next]_vars
  PROVE  UNCHANGED database \/ \E w \in Workers : Commit(w)
  <1>1. CASE UNCHANGED vars
    BY <1>1 DEF vars, database
  <1>2. CASE Next
    <2> PICK w \in Workers : Submit(w) \/ Step(w) \/ Crash(w)
      BY <1>2 DEF Next
    <2>1. CASE Submit(w)
      BY <2>1 DEF Submit, Refuse, Replay, Accept
    <2>2. CASE UnknownParty(w) \/ RejectInsufficient(w) \/ FailDuplicateKey(w)
               \/ LockFailure(w) \/ Crash(w)
      <3>1. PICK status \in {400, 404, 500} : Rollback(w, status)
        BY <2>2 DEF UnknownParty, RejectInsufficient, FailDuplicateKey, LockFailure, Crash
      <3> QED BY <3>1 DEF Rollback
    <2>3. CASE FindWallet(w) \/ CreateWallet(w)
      BY <2>3 DEF FindWallet, CreateWallet, Load
    <2>4. CASE LockRow(w)
      BY <2>4 DEF LockRow
    <2>5. CASE Stamp(w) \/ Flush(w)
      BY <2>5 DEF Stamp, Flush
    <2>6. CASE Respond(w)
      BY <2>6 DEF Respond
    <2> QED BY <2>1, <2>2, <2>3, <2>4, <2>5, <2>6 DEF Step
  <1> QED BY <1>1, <1>2

(* Every behaviour of the engine is, on its ledger, a behaviour of Journal. *)
THEOREM RefinesJournal == Spec => ImplementsJournal
  <1>1. Init => J!Init
    BY DEF Init, J!Init
  <1>2. SInv /\ LInv /\ [Next]_vars => [J!Post]_ledger
    <2> SUFFICES ASSUME SInv, LInv, [Next]_vars, ledger' # ledger
                 PROVE  J!Post
      OBVIOUS
    <2> PICK w \in Workers : Commit(w)
      BY OnlyCommitWrites DEF database
    <2> DEFINE n == Len(ledger) + 1
               t == TxnRecord(session[w])
    <2>1. /\ ledger' = Append(ledger, t) /\ Len(ledger') = n /\ ledger'[n] = t
      BY CommitAppends
    <2>2. /\ t.id = session[w].stamp /\ t.key = session[w].req.key /\ t.prev = session[w].prev
      BY DEF TxnRecord
    <2>3. /\ pc[w] = "commit" /\ t.id \notin Ids /\ t.prev \in Ids \cup {Genesis}
      BY <2>2 DEF Commit, LInv, StampSound, LinkSound, InFlight
    <2>4. ASSUME NEW i \in DOMAIN ledger, t.key # NoKey PROVE ledger[i].key # t.key
      <3>1. keys[t.key] = NoTxn
        BY <2>2, <2>4 DEF Commit, KeyTaken, Recorded
      <3>2. ledger[i] \in TxnType
        BY DEF SInv, TypeOK
      <3>3. ledger[i].id # 0
        BY <3>2 DEF TxnType
      <3> QED BY <2>4, <3>1, <3>3 DEF LInv, LedgerSound
    <2> HIDE DEF t
    <2>5. /\ \A i \in DOMAIN ledger : ledger[i].id # t.id
          /\ t.prev = Genesis \/ \E i \in DOMAIN ledger : ledger[i].id = t.prev
      BY <2>3 DEF Ids
    <2> QED BY <2>1, <2>4, <2>5 DEF J!Post
  <1> QED
    BY <1>1, <1>2, Invariance, PTL DEF Spec, ImplementsJournal, J!Spec

-----------------------------------------------------------------------------
(* The serial bank.  With a single worker no row changes between its       *)
(* loading and the commit, so that what a session holds is what is stored, *)
(* stamps are committed in the order they are given out, and the newest    *)
(* transaction is the last one.                                            *)

Loaded   == {"lockSource", "lockDest", "check", "flush", "commit"}
LastId   == IF ledger = <<>> THEN Genesis ELSE ledger[Len(ledger)].id

HeldSound(w) ==
  /\ pc[w] \in Loaded \cup {"dest"} => session[w].fromBal = balance[session[w].from]
  /\ pc[w] \in Loaded => session[w].toBal = balance[session[w].to]

ChainSound(w) ==
  /\ \A i \in DOMAIN ledger : ledger[i].id <= LastId
  /\ InFlight(w) => \A i \in DOMAIN ledger : ledger[i].id < session[w].stamp
  /\ pc[w] = "commit" => session[w].prev = LastId

LEMMA LedgerIds ==
  ASSUME SInv
  PROVE  /\ \A i \in DOMAIN ledger : ledger[i].id \in Nat \ {0}
         /\ ledger # <<>> => Len(ledger) \in DOMAIN ledger
         /\ ledger = <<>> => DOMAIN ledger = {}
  <1>1. \A i \in DOMAIN ledger : ledger[i] \in TxnType
    BY DEF SInv, TypeOK
  <1>2. ledger \in Seq(TxnType)
    BY DEF SInv, TypeOK
  <1>3. \A i \in DOMAIN ledger : ledger[i].id \in Nat \ {0}
    BY <1>1 DEF TxnType
  <1>4. ledger # <<>> => Len(ledger) \in DOMAIN ledger
    BY <1>2
  <1>5. ledger = <<>> => DOMAIN ledger = {}
    OBVIOUS
  <1> QED BY <1>3, <1>4, <1>5

(* The steps of the one worker, by what they hold when they are done.      *)
LEMMA OneWorkerSteps ==
  ASSUME NEW w, Workers = {w}, SInv, [Next]_vars
  PROVE  \/ UNCHANGED vars
         \/ pc'[w] \in {"idle", "source"} /\ UNCHANGED database
         \/ \E a \in Accounts : Load(w, a, {}) \/ Load(w, a, {a})
         \/ LockRow(w) \/ Stamp(w) \/ Flush(w) \/ Commit(w)
  <1>1. SUFFICES ASSUME Next PROVE
           \/ pc'[w] \in {"idle", "source"} /\ UNCHANGED database
           \/ \E a \in Accounts : Load(w, a, {}) \/ Load(w, a, {a})
           \/ LockRow(w) \/ Stamp(w) \/ Flush(w) \/ Commit(w)
    OBVIOUS
  <1>2. Submit(w) \/ Step(w) \/ Crash(w)
    BY <1>1 DEF Next
  <1>3. CASE Submit(w)
    <2> PICK r \in Requests : Refuse(w, r) \/ Replay(w, r) \/ Accept(w, r)
      BY <1>3 DEF Submit
    <2>1. pc'[w] \in {"idle", "source"} /\ UNCHANGED database
      BY DEF Refuse, Replay, Accept, SInv, TypeOK
    <2> QED BY <2>1
  <1>4. CASE FindWallet(w) \/ CreateWallet(w)
    <2>1. \A a \in Wallets(w) \cup Fresh : a \in Accounts
      BY DEF Wallets, Fresh, SInv, TypeOK, SessionType
    <2> QED BY <1>4, <2>1 DEF FindWallet, CreateWallet
  <1>5. CASE Respond(w)
    BY <1>5 DEF Respond, CloseSession, SInv, TypeOK
  <1>6. CASE UnknownParty(w) \/ RejectInsufficient(w) \/ FailDuplicateKey(w)
             \/ LockFailure(w) \/ Crash(w)
    <2>1. PICK status \in {400, 404, 500} : Rollback(w, status)
      BY <1>6 DEF UnknownParty, RejectInsufficient, FailDuplicateKey, LockFailure, Crash
    <2> QED BY <2>1 DEF Rollback, CloseSession, SInv, TypeOK
  <1> QED BY <1>2, <1>3, <1>4, <1>5, <1>6 DEF Step

(* A session's copies of the balances are never stale.                     *)
LEMMA NextHeld ==
  ASSUME NEW w, Workers = {w}, SInv, HeldSound(w), [Next]_vars
  PROVE  HeldSound(w)'
  <1>0. w \in Workers /\ pc \in [Workers -> Stages] /\ session \in [Workers -> SessionType]
        /\ session[w] \in SessionType
    BY DEF SInv, TypeOK
  <1>1. CASE UNCHANGED vars
    BY <1>1 DEF vars, database, HeldSound
  <1>2. CASE pc'[w] \in {"idle", "source"} /\ UNCHANGED database
    BY <1>2 DEF HeldSound, Loaded
  <1>3. ASSUME NEW a \in Accounts, NEW made, Load(w, a, made)  PROVE HeldSound(w)'
    <2>0. UNCHANGED balance
      BY <1>3 DEF Load, database
    <2>1. CASE pc[w] = "source"
      <3>1. pc'[w] = "dest" /\ session'[w].from = a /\ session'[w].fromBal = balance[a]
        BY <1>0, <1>3, <2>1 DEF Load, SessionType
      <3> QED BY <2>0, <3>1 DEF HeldSound, Loaded
    <2>2. CASE pc[w] = "dest"
      <3>1. /\ pc'[w] = "lockSource" /\ session'[w].to = a
            /\ session'[w].from = session[w].from /\ session'[w].fromBal = session[w].fromBal
            /\ session'[w].toBal = IF a = session[w].from THEN session[w].fromBal ELSE balance[a]
        BY <1>0, <1>3, <2>2 DEF Load, SessionType
      <3>2. session[w].fromBal = balance[session[w].from]
        BY <2>2 DEF HeldSound
      <3>3. session'[w].toBal = balance[a]
        BY <3>1, <3>2
      <3> QED BY <2>0, <3>1, <3>2, <3>3 DEF HeldSound, Loaded
    <2> QED BY <1>3, <2>1, <2>2 DEF Load
  <1>4. CASE LockRow(w) \/ Stamp(w) \/ Flush(w)
    <2>1. /\ pc[w] \in Loaded /\ pc'[w] \in Loaded /\ UNCHANGED balance
          /\ session'[w].from = session[w].from /\ session'[w].fromBal = session[w].fromBal
          /\ session'[w].to = session[w].to /\ session'[w].toBal = session[w].toBal
      BY <1>0, <1>4 DEF LockRow, Stamp, Flush, SessionType, database, Loaded
    <2> QED BY <2>1 DEF HeldSound
  <1>5. CASE Commit(w)
    <2>1. pc'[w] = "answer"
      BY <1>0, <1>5 DEF Commit
    <2> QED BY <2>1 DEF HeldSound, Loaded
  <1> QED BY <1>1, <1>2, <1>3, <1>4, <1>5, OneWorkerSteps

LEMMA CommitChain ==
  ASSUME NEW w \in Workers, SInv, ChainSound(w), Commit(w)
  PROVE  ChainSound(w)'
  <1> DEFINE n == Len(ledger) + 1
  <1>1. /\ pc'[w] = "answer" /\ pc[w] = "commit"
        /\ DOMAIN ledger' = DOMAIN ledger \cup {n} /\ Len(ledger') = n
        /\ \A i \in DOMAIN ledger : ledger'[i] = ledger[i]
        /\ ledger'[n].id = session[w].stamp
    BY CommitAppends DEF Commit, SInv, TypeOK
  <1>2. ledger' # <<>>
    BY <1>1
  <1>3. LastId' = session[w].stamp
    BY <1>1, <1>2 DEF LastId
  <1>4. \A i \in DOMAIN ledger : ledger[i].id < session[w].stamp /\ ledger[i].id \in Nat
    BY <1>1, LedgerIds DEF ChainSound, InFlight
  <1>5. session[w].stamp \in Nat
    BY DEF SInv, TypeOK, SessionType
  <1> HIDE DEF n
  <1>6. \A i \in DOMAIN ledger' : ledger'[i].id <= LastId'
    BY <1>1, <1>3, <1>4, <1>5
  <1> QED BY <1>1, <1>6 DEF ChainSound, InFlight

(* The last transaction is the newest, and the one a new one links to.     *)
LEMMA NextChain ==
  ASSUME NEW w, Workers = {w}, SeedStamp = 0, SInv, LInv, ChainSound(w), [Next]_vars
  PROVE  ChainSound(w)'
  <1>0. w \in Workers /\ pc \in [Workers -> Stages] /\ session \in [Workers -> SessionType]
        /\ session[w] \in SessionType /\ clock \in Nat
    BY DEF SInv, TypeOK
  <1>1. CASE UNCHANGED vars
    BY <1>1 DEF vars, database, ChainSound, InFlight, LastId
  <1>2. ASSUME UNCHANGED ledger, pc'[w] \notin {"flush", "commit"}  PROVE ChainSound(w)'
    BY <1>2 DEF ChainSound, InFlight, LastId
  <1>3. CASE pc'[w] \in {"idle", "source"} /\ UNCHANGED database
    BY <1>2, <1>3 DEF database
  <1>4. ASSUME NEW a \in Accounts, NEW made, Load(w, a, made)  PROVE ChainSound(w)'
    <2>1. UNCHANGED ledger /\ pc'[w] \in {"dest", "lockSource"}
      BY <1>0, <1>4 DEF Load, database
    <2> QED BY <1>2, <2>1
  <1>5. CASE LockRow(w)
    <2>1. UNCHANGED ledger /\ pc'[w] \in {"lockDest", "check"}
      BY <1>0, <1>5 DEF LockRow, database
    <2> QED BY <1>2, <2>1
  <1>6. CASE Stamp(w)
    <2>1. pc'[w] = "flush" /\ UNCHANGED ledger /\ session'[w].stamp = clock + 1
      BY <1>0, <1>6 DEF Stamp, SessionType, database
    <2>2. \A i \in DOMAIN ledger : ledger[i].id < clock + 1
      BY <1>0, LedgerIds DEF LInv, LedgerSound
    <2> QED BY <2>1, <2>2 DEF ChainSound, InFlight, LastId
  <1>7. CASE Flush(w)
    <2> PICK p \in Ids \cup {Genesis} :
           IsNewest(p) /\ session' = [session EXCEPT ![w].prev = p]
      BY <1>7 DEF Flush
    <2>1. /\ pc[w] = "flush" /\ pc'[w] = "commit" /\ UNCHANGED ledger
          /\ session'[w].stamp = session[w].stamp /\ session'[w].prev = p
      BY <1>0, <1>7 DEF Flush, SessionType, database
    <2>2. p = LastId
      <3>1. CASE ledger = <<>>
        BY <3>1, LedgerIds DEF Ids, LastId
      <3>2. CASE ledger # <<>>
        <4>1. /\ LastId = ledger[Len(ledger)].id /\ LastId \in Ids /\ LastId \in Nat \ {0}
              /\ \A s \in Ids : s \in Nat \ {0} /\ s <= LastId
          BY <3>2, LedgerIds DEF ChainSound, LastId, Ids
        <4>2. LastId <= p
          BY <4>1 DEF IsNewest
        <4> QED BY <4>1, <4>2
      <3> QED BY <3>1, <3>2
    <2> QED BY <2>1, <2>2 DEF ChainSound, InFlight, LastId
  <1> QED BY <1>0, <1>1, <1>3, <1>4, <1>5, <1>6, <1>7, CommitChain, OneWorkerSteps

LEMMA SerialHeld ==
  ASSUME NEW w, Workers = {w}
  PROVE  Spec => []HeldSound(w)
  <1>1. Init => HeldSound(w)
    BY DEF Init, HeldSound, Loaded
  <1>2. SInv /\ HeldSound(w) /\ [Next]_vars => HeldSound(w)'
    BY NextHeld
  <1> QED BY <1>1, <1>2, Invariance, PTL DEF Spec

LEMMA SerialChain ==
  ASSUME NEW w, Workers = {w}, SeedStamp = 0
  PROVE  Spec => []ChainSound(w)
  <1>1. Init => ChainSound(w)
    BY DEF Init, ChainSound, InFlight
  <1>2. SInv /\ LInv /\ ChainSound(w) /\ [Next]_vars => ChainSound(w)'
    BY NextChain
  <1> QED BY <1>1, <1>2, Invariance, PTL DEF Spec

(* Taking a sum from a wallet and giving it back changes nothing.          *)
LEMMA BackAndForth ==
  ASSUME NEW f \in [Accounts -> Nat], NEW a \in Accounts, NEW d \in Int
  PROVE  [[f EXCEPT ![a] = @ - d] EXCEPT ![a] = @ + d] = f
  <1> DEFINE g == [f EXCEPT ![a] = @ - d]
             h == [g EXCEPT ![a] = @ + d]
  <1>1. g \in [Accounts -> Int] /\ g[a] = f[a] - d
        /\ \A b \in Accounts : b # a => g[b] = f[b]
    OBVIOUS
  <1> HIDE DEF g
  <1>2. h \in [Accounts -> Int] /\ h[a] = g[a] + d
        /\ \A b \in Accounts : b # a => h[b] = g[b]
    BY <1>1
  <1>3. f[a] \in Nat
    OBVIOUS
  <1>4. h[a] = f[a]
    BY <1>1, <1>2, <1>3
  <1> HIDE DEF h
  <1>5. \A b \in Accounts : h[b] = f[b]
    BY <1>1, <1>2, <1>4
  <1>6. h = f
    BY <1>2, <1>5
  <1> QED BY <1>6 DEF g, h

(* What such a commit does to the wallets: the atomic transfer of Bank.    *)
LEMMA CommitTransfers ==
  ASSUME NEW w \in Workers, SInv, HeldSound(w), Commit(w)
  PROVE  LET t == TxnRecord(session[w])
             moved == [balance EXCEPT ![t.from] = @ - t.amount]
         IN
         /\ t.amount > 0 /\ balance[t.from] >= t.amount
         /\ balance' = [moved EXCEPT ![t.to] = @ + t.amount]
         /\ t.fromRun = balance'[t.from] /\ t.toRun = balance'[t.to]
  <1> DEFINE s == session[w]
             t == TxnRecord(s)
             moved == [balance EXCEPT ![t.from] = @ - t.amount]
  <1>1. /\ t.from = s.from /\ t.to = s.to /\ t.amount = s.req.amount
        /\ t.fromRun = Debited(s) /\ t.toRun = Credited(s)
    BY DEF TxnRecord
  <1>2. /\ s.from \in Accounts /\ s.to \in Accounts /\ s.req.amount \in Int
        /\ s.req.amount > 0 /\ s.fromBal >= s.req.amount
        /\ balance \in [Accounts -> Nat]
    BY RequestTyped DEF Commit, SInv, TypeOK, SessionSound, Covered
  <1>3. s.fromBal = balance[s.from] /\ s.toBal = balance[s.to]
    BY DEF HeldSound, Loaded, Commit
  <1>4. balance' = Posted(s)
    BY DEF Commit
  <1> HIDE DEF s, t
  <1>5. CASE s.from = s.to
    <2>1. balance' = balance
      BY <1>4, <1>5 DEF Posted, SelfTransfer
    <2>2. Debited(s) = balance[s.from] /\ Credited(s) = balance[s.to]
      BY <1>3, <1>5 DEF Debited, Credited, SelfTransfer
    <2>3. t.from \in Accounts /\ t.amount \in Int /\ t.to = t.from
      BY <1>1, <1>2, <1>5
    <2>4. [moved EXCEPT ![t.to] = @ + t.amount] = balance
      BY <1>2, <2>3, BackAndForth
    <2> QED BY <1>1, <1>2, <1>3, <2>1, <2>2, <2>4 DEF t, s
  <1>6. CASE s.from # s.to
    <2>1. Debited(s) = balance[s.from] - s.req.amount
          /\ Credited(s) = balance[s.to] + s.req.amount
      BY <1>3, <1>6 DEF Debited, Credited, SelfTransfer
    <2>2. balance' = [balance EXCEPT ![s.from] = Debited(s), ![s.to] = Credited(s)]
      BY <1>4, <1>6 DEF Posted, SelfTransfer
    <2>3. balance' = [moved EXCEPT ![t.to] = @ + t.amount]
      BY <1>1, <1>2, <1>6, <2>1, <2>2
    <2>4. balance'[s.from] = Debited(s) /\ balance'[s.to] = Credited(s)
      BY <1>2, <1>6, <2>2
    <2> QED BY <1>1, <1>2, <1>3, <2>3, <2>4 DEF t, s
  <1> QED BY <1>5, <1>6

(* Without overlapping requests the engine is a bank whose transfers are   *)
(* atomic, covered by the current balance, made once per key and chained   *)
(* to the one before: for every interleaving of one worker's steps with    *)
(* failures, on either database (payment_service.py:115-330).  The seeded  *)
(* transactions are in the past.                                           *)
THEOREM SerialEngineIsBank ==
  ASSUME NEW w, Workers = {w}, SeedStamp = 0
  PROVE  Spec => AtomicBank
  <1>w. w \in Workers
    OBVIOUS
  <1>1. Init => B!Init
    BY DEF Init, B!Init
  <1>2. ASSUME SInv, LInv, HeldSound(w), ChainSound(w), [Next]_vars
        PROVE  [B!Transfer]_<<balance, ledger>>
    <2>1. CASE \E v \in Workers : Commit(v)
      <3>1. Commit(w)
        BY <2>1
      <3> DEFINE n == Len(ledger) + 1
                 t == TxnRecord(session[w])
                 moved == [balance EXCEPT ![t.from] = @ - t.amount]
      <3>2. ledger' = Append(ledger, t) /\ Len(ledger') = n /\ ledger'[n] = t
        BY <1>w, <1>2, <3>1, CommitAppends
      <3>3. /\ t.amount > 0 /\ balance[t.from] >= t.amount
            /\ balance' = [moved EXCEPT ![t.to] = @ + t.amount]
            /\ t.fromRun = balance'[t.from] /\ t.toRun = balance'[t.to]
        BY <1>w, <1>2, <3>1, CommitTransfers
      <3>4. t.prev = LastId /\ t.key = session[w].req.key
        BY <1>2, <3>1 DEF TxnRecord, ChainSound, Commit
      <3>5. t.prev = IF ledger = <<>> THEN Genesis ELSE ledger[Len(ledger)].id
        BY <3>4 DEF LastId
      <3>6. t.key # NoKey => \A i \in DOMAIN ledger : ledger[i].key # t.key
        <4>1. t.key # NoKey => keys[t.key] = NoTxn
          BY <3>1, <3>4 DEF Commit, KeyTaken, Recorded
        <4> QED BY <1>2, <3>4, <4>1, LedgerIds DEF LInv, LedgerSound
      <3> HIDE DEF t
      <3>7. B!Transfer
        BY <3>2, <3>3, <3>5, <3>6 DEF B!Transfer
      <3> QED BY <3>7
    <2>2. CASE UNCHANGED database
      BY <2>2 DEF database
    <2> QED BY <1>2, <2>1, <2>2, OnlyCommitWrites
  <1>3. Spec => []HeldSound(w) /\ []ChainSound(w)
    BY SerialHeld, SerialChain
  <1> QED
    BY <1>1, <1>2, <1>3, Invariance, PTL DEF Spec, AtomicBank, B!Spec

(* Without overlapping requests the ledger is one hash chain               *)
(* (payment_service.py:235-248); with two workers it forks (the run        *)
(* payment_chain_fork).                                                    *)
THEOREM SerialChainUnbroken ==
  ASSUME NEW w, Workers = {w}, SeedStamp = 0
  PROVE  Spec => []UnbrokenChain
  <1>w. w \in Workers
    OBVIOUS
  <1>1. Init => UnbrokenChain
    BY DEF Init, UnbrokenChain
  <1>2. ASSUME SInv, ChainSound(w), UnbrokenChain, [Next]_vars
        PROVE  UnbrokenChain'
    <2>1. CASE Commit(w)
      <3> DEFINE n == Len(ledger) + 1
      <3>1. /\ DOMAIN ledger = 1..Len(ledger) /\ Len(ledger) \in Nat
            /\ ledger = <<>> <=> Len(ledger) = 0
        BY <1>2 DEF SInv, TypeOK
      <3>2. /\ DOMAIN ledger' = DOMAIN ledger \cup {n}
            /\ \A i \in DOMAIN ledger : ledger'[i] = ledger[i]
            /\ ledger'[n] = TxnRecord(session[w])
        BY <1>w, <1>2, <2>1, CommitAppends
      <3>3. ledger'[n].prev = LastId
        BY <1>2, <2>1, <3>2 DEF ChainSound, Commit, TxnRecord
      <3>4. ledger'[n].prev = IF n = 1 THEN Genesis ELSE ledger'[n-1].id
        <4>1. CASE Len(ledger) = 0
          BY <3>1, <3>3, <4>1 DEF LastId
        <4>2. CASE Len(ledger) # 0
          <5>1. Len(ledger) \in DOMAIN ledger /\ n - 1 = Len(ledger) /\ n # 1
            BY <3>1, <4>2
          <5>2. ledger'[n-1] = ledger[Len(ledger)]
            BY <3>2, <5>1
          <5> QED BY <3>1, <3>3, <4>2, <5>1, <5>2 DEF LastId
        <4> QED BY <4>1, <4>2
      <3>5. ASSUME NEW i \in DOMAIN ledger
            PROVE  ledger'[i].prev = IF i = 1 THEN Genesis ELSE ledger'[i-1].id
        <4>1. i # 1 => i - 1 \in DOMAIN ledger
          BY <3>1
        <4>2. ledger'[i] = ledger[i] /\ (i # 1 => ledger'[i-1] = ledger[i-1])
          BY <3>2, <4>1
        <4> QED BY <1>2, <4>2 DEF UnbrokenChain
      <3> HIDE DEF n
      <3> QED BY <3>2, <3>4, <3>5 DEF UnbrokenChain
    <2>2. CASE UNCHANGED database
      BY <1>2, <2>2 DEF database, UnbrokenChain
    <2> QED BY <1>2, <2>1, <2>2, OnlyCommitWrites
  <1> QED BY <1>1, <1>2, SerialChain, Invariance, PTL DEF Spec

-----------------------------------------------------------------------------
(* What the wallets hold is what the ledger says: the sums of what went in *)
(* and out.  Two workers break it (the run payment_double_spend), whatever *)
(* the locks, because the copies of NextHeld get stale.                    *)

Into(a)  == {i \in DOMAIN ledger : ledger[i].to = a}
OutOf(a) == {i \in DOMAIN ledger : ledger[i].from = a}
Amounts  == [i \in DOMAIN ledger |-> ledger[i].amount]

Accounted(a) ==
  /\ Inflow(a) \in Int /\ Outflow(a) \in Int
  /\ balance[a] = InitialBalance[a] + (Inflow(a) - Outflow(a))

LEMMA LedgerIsFinite ==
  ASSUME SInv
  PROVE  /\ IsFiniteSet(DOMAIN ledger)
         /\ \A i \in DOMAIN ledger : Amounts[i] = ledger[i].amount /\ Amounts[i] \in Int
  <1>1. ledger \in Seq(TxnType) /\ \A i \in DOMAIN ledger : ledger[i] \in TxnType
    BY DEF SInv, TypeOK
  <1>2. IsFiniteSet(DOMAIN ledger)
    <2>1. DOMAIN ledger = 1..Len(ledger) /\ Len(ledger) \in Nat
      BY <1>1
    <2> QED BY <2>1, FS_Interval
  <1>3. \A i \in DOMAIN ledger : ledger[i].amount \in Int
    BY <1>1 DEF TxnType
  <1> QED BY <1>2, <1>3 DEF Amounts

(* A commit adds its amount to one sum of either side.                     *)
LEMMA CommitFlows ==
  ASSUME NEW w \in Workers, SInv, Commit(w), NEW a \in Accounts
  PROVE  LET t == TxnRecord(session[w]) IN
         /\ Inflow(a)' = Inflow(a) + (IF t.to = a THEN t.amount ELSE 0)
         /\ Outflow(a)' = Outflow(a) + (IF t.from = a THEN t.amount ELSE 0)
  <1> DEFINE n == Len(ledger) + 1
             t == TxnRecord(session[w])
  <1>1. /\ n \notin DOMAIN ledger /\ DOMAIN ledger' = DOMAIN ledger \cup {n}
        /\ \A i \in DOMAIN ledger : ledger'[i] = ledger[i]
        /\ ledger'[n] = t
    BY CommitAppends
  <1>2. t.amount \in Int
    BY TxnRecordTyped DEF Commit, TxnType
  <1> HIDE DEF n, t
  <1>3. /\ \A i \in DOMAIN ledger : Amounts[i] \in Int /\ Amounts'[i] = Amounts[i]
        /\ Amounts'[n] = t.amount
    <2>1. Amounts' = [i \in DOMAIN ledger' |-> ledger'[i].amount]
      BY DEF Amounts
    <2> QED BY <1>1, <2>1, LedgerIsFinite
  <1>4. /\ IsFiniteSet(Into(a)) /\ Into(a) \subseteq DOMAIN ledger
        /\ IsFiniteSet(OutOf(a)) /\ OutOf(a) \subseteq DOMAIN ledger
    BY LedgerIsFinite, FS_Subset DEF Into, OutOf
  <1>5. Into(a)' = IF t.to = a THEN Into(a) \cup {n} ELSE Into(a)
    BY <1>1 DEF Into
  <1>6. OutOf(a)' = IF t.from = a THEN OutOf(a) \cup {n} ELSE OutOf(a)
    BY <1>1 DEF OutOf
  <1>7. ASSUME NEW S, IsFiniteSet(S), S \subseteq DOMAIN ledger
        PROVE  /\ Total(S, Amounts') = Total(S, Amounts) /\ Total(S, Amounts) \in Int
               /\ Total(S \cup {n}, Amounts') = Total(S, Amounts) + t.amount
    <2>1. /\ \A i \in S : Amounts[i] \in Int /\ Amounts'[i] = Amounts[i]
          /\ n \notin S /\ Amounts'[n] \in Int
      BY <1>1, <1>2, <1>3, <1>7
    <2>2. Total(S, Amounts') = Total(S, Amounts)
      BY <1>7, <2>1, TotalSame
    <2>3. Total(S, Amounts) \in Int
      BY <1>7, <2>1, TotalType
    <2>4. Total(S \cup {n}, Amounts') = Total(S, Amounts) + Amounts'[n]
      BY <1>7, <2>1, TotalExtended
    <2> QED BY <1>3, <2>2, <2>3, <2>4
  <1>8. /\ Inflow(a) = Total(Into(a), Amounts) /\ Outflow(a) = Total(OutOf(a), Amounts)
        /\ Inflow(a)' = Total(Into(a)', Amounts') /\ Outflow(a)' = Total(OutOf(a)', Amounts')
    BY DEF Inflow, Outflow, AmountOver, Into, OutOf, Amounts
  <1>9. Inflow(a)' = Inflow(a) + (IF t.to = a THEN t.amount ELSE 0)
    <2>1. /\ Total(Into(a), Amounts') = Inflow(a) /\ Inflow(a) \in Int
          /\ Total(Into(a) \cup {n}, Amounts') = Inflow(a) + t.amount
      BY <1>4, <1>7, <1>8
    <2>2. CASE t.to = a
      BY <1>5, <1>8, <2>1, <2>2
    <2>3. CASE t.to # a
      <3>1. Inflow(a)' = Total(Into(a), Amounts')
        BY <1>5, <1>8, <2>3
      <3> QED BY <2>1, <2>3, <3>1
    <2> QED BY <2>2, <2>3
  <1>10. Outflow(a)' = Outflow(a) + (IF t.from = a THEN t.amount ELSE 0)
    <2>1. /\ Total(OutOf(a), Amounts') = Outflow(a) /\ Outflow(a) \in Int
          /\ Total(OutOf(a) \cup {n}, Amounts') = Outflow(a) + t.amount
      BY <1>4, <1>7, <1>8
    <2>2. CASE t.from = a
      BY <1>6, <1>8, <2>1, <2>2
    <2>3. CASE t.from # a
      <3>1. Outflow(a)' = Total(OutOf(a), Amounts')
        BY <1>6, <1>8, <2>3
      <3> QED BY <2>1, <2>3, <3>1
    <2> QED BY <2>2, <2>3
  <1> QED BY <1>9, <1>10 DEF t

LEMMA InitAccounted == ASSUME Init, NEW a \in Accounts  PROVE Accounted(a)
  <1>1. InitialBalance[a] \in Int /\ balance[a] = InitialBalance[a]
    BY AccountsAssumption DEF Init, InitialBalance
  <1>2. {i \in DOMAIN ledger : ledger[i].to = a} = {}
        /\ {i \in DOMAIN ledger : ledger[i].from = a} = {}
    BY DEF Init
  <1>3. Inflow(a) = 0 /\ Outflow(a) = 0
    BY <1>2, TotalOfNothing DEF Inflow, Outflow, AmountOver
  <1> QED BY <1>1, <1>3 DEF Accounted

LEMMA NextAccounted ==
  ASSUME NEW w, Workers = {w}, SInv, HeldSound(w), [Next]_vars,
         NEW a \in Accounts, Accounted(a)
  PROVE  Accounted(a)'
  <1>w. w \in Workers
    OBVIOUS
  <1>1. CASE Commit(w)
    <2> DEFINE t == TxnRecord(session[w])
               moved == [balance EXCEPT ![t.from] = @ - t.amount]
    <2>1. balance' = [moved EXCEPT ![t.to] = @ + t.amount]
      BY <1>w, <1>1, CommitTransfers
    <2>2. /\ Inflow(a)' = Inflow(a) + (IF t.to = a THEN t.amount ELSE 0)
          /\ Outflow(a)' = Outflow(a) + (IF t.from = a THEN t.amount ELSE 0)
      BY <1>w, <1>1, CommitFlows
    <2>3. /\ t.amount \in Int /\ t.from \in Accounts /\ t.to \in Accounts
          /\ balance \in [Accounts -> Nat]
      <3>1. t \in TxnType
        BY <1>w, <1>1, TxnRecordTyped DEF Commit
      <3> HIDE DEF t
      <3>2. t.amount \in Int /\ t.from \in Accounts /\ t.to \in Accounts
        BY <3>1 DEF TxnType
      <3> QED BY <3>2 DEF SInv, TypeOK
    <2> HIDE DEF t
    <2>4. moved \in [Accounts -> Int]
          /\ moved[a] = balance[a] - (IF t.from = a THEN t.amount ELSE 0)
      BY <2>3
    <2> HIDE DEF moved
    <2>5. balance'[a] = moved[a] + (IF t.to = a THEN t.amount ELSE 0)
      BY <2>1, <2>3, <2>4
    <2>6. InitialBalance' = InitialBalance /\ InitialBalance[a] \in Int
      BY AccountsAssumption DEF InitialBalance
    <2>7. /\ Inflow(a) \in Int /\ Outflow(a) \in Int
          /\ balance[a] = InitialBalance[a] + (Inflow(a) - Outflow(a))
      BY DEF Accounted
    <2>8. /\ Inflow(a)' \in Int /\ Outflow(a)' \in Int
          /\ balance'[a] = InitialBalance[a] + (Inflow(a)' - Outflow(a)')
      BY <2>2, <2>3, <2>4, <2>5, <2>6, <2>7
    <2> QED BY <2>6, <2>8 DEF Accounted
  <1>2. CASE UNCHANGED database
    <2>1. ledger' = ledger /\ balance' = balance
      BY <1>2 DEF database
    <2> QED BY <2>1 DEF Accounted, Inflow, Outflow, AmountOver
  <1> QED BY <1>1, <1>2, OnlyCommitWrites

(* Without overlapping requests nothing is spent twice, on either database *)
(* and whatever fails: a wallet has paid out at most what it ever held     *)
(* (payment_service.py:166-188).                                           *)
THEOREM SerialNoDoubleSpend ==
  ASSUME NEW w, Workers = {w}
  PROVE  Spec => []NoDoubleSpend
  <1> DEFINE AInv == \A a \in Accounts : Accounted(a)
  <1>1. Init => AInv
    BY InitAccounted
  <1>2. SInv /\ HeldSound(w) /\ AInv /\ [Next]_vars => AInv'
    BY NextAccounted
  <1>3. SInv /\ AInv => NoDoubleSpend
    <2> SUFFICES ASSUME SInv, NEW a \in Accounts, Accounted(a)
                 PROVE  Outflow(a) <= InitialBalance[a] + Inflow(a)
      BY DEF NoDoubleSpend
    <2>1. balance[a] \in Nat /\ InitialBalance[a] \in Int
      BY AccountsAssumption DEF SInv, TypeOK, InitialBalance
    <2> QED BY <2>1 DEF Accounted
  <1> HIDE DEF AInv
  <1> QED BY <1>1, <1>2, <1>3, SerialHeld, Invariance, PTL DEF Spec
=============================================================================
