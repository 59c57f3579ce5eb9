---------------------------- MODULE CreditsProofs ----------------------------
(***************************************************************************)
(* Proofs about the credit service for any sets of workers, users,         *)
(* accounts, credits and requests, on both databases.                      *)
(***************************************************************************)
EXTENDS CreditsAccounting, SumTheorems, SequenceTheorems

PostingOps == {"mint", "transfer", "retire"}
SpendOps   == {"transfer", "retire"}

(* Between the check of the credit and the ledger commit.                  *)
Checked  == {"first", "second", "debit", "entry"}
Unposted == Checked \cup {"credit"}

Serving(w) == pc[w] # "idle"
Id(w)     == session[w].id
Made(id)  == \E i \in DOMAIN postings : postings[i].id = id

(* What a handler relies on at each stage of its request.                  *)
SessionSound(w) ==
  /\ Serving(w) => session[w].req \in Requests /\ reply[w].status = 0
  /\ Serving(w) /\ Op(w) # "list" => Id(w) \in 1..MaxOps
  /\ Id(w) <= ops
  /\ pc[w] \in {"credit", "reread", "update"} => Op(w) \in SpendOps
  /\ pc[w] \in Checked => Op(w) \in PostingOps
  /\ pc[w] \in {"emission", "emit"} => Op(w) = "emit"
  /\ pc[w] \in {"list", "fill"} => Op(w) = "list"
  /\ pc[w] = "evict" => Op(w) # "list"
  /\ pc[w] \in Checked \cup {"reread", "update"} /\ Op(w) \in SpendOps =>
        credits[Target(w)] # Absent /\ KnownRecipient(w)
  /\ pc[w] \in {"second", "debit", "entry"} =>
        Debited(w) \in Accounts /\ Credited(w) \in Accounts
  /\ pc[w] \in Unposted => ~ Made(Id(w))
  /\ pc[w] \in {"reread", "update", "evict"} /\ Op(w) \in PostingOps =>
        IsPosted(Id(w), Op(w), Amount(w))
  /\ pc[w] = "evict" /\ Op(w) = "mint" => credits[Id(w)] # Absent
  /\ pc[w] = "evict" /\ Op(w) = "retire" => \E c \in certificates : c.id = Id(w)
  /\ engine = "postgresql" /\ pc[w] \in Checked /\ Op(w) \in SpendOps =>
        creditLock[Target(w)] = w

(* The answer a worker gave last is true.                                  *)
AnswerSound(w) ==
  /\ reply[w].id <= ops
  /\ reply[w].status = 200 /\ reply[w].op \in PostingOps => Made(reply[w].id)
  /\ reply[w].status = 200 /\ reply[w].op = "mint" => credits[reply[w].id] # Absent
  /\ reply[w].status = 200 /\ reply[w].op = "retire" =>
        \E c \in certificates : c.id = reply[w].id
  /\ reply[w].status = 404 => ~ Made(reply[w].id)

(* No two requests that change data have one number, answered ones         *)
(* included.                                                               *)
IdsDistinct ==
  \A v, w \in Workers : Serving(v) /\ Id(v) # 0 =>
     /\ Id(v) # reply[w].id
     /\ v # w /\ Serving(w) => Id(v) # Id(w)

IInv ==
  /\ TypeOK
  /\ InventoryFollowsLedger
  /\ \A i \in DOMAIN postings : postings[i].id <= ops
  /\ IdsDistinct
  /\ \A w \in Workers : SessionSound(w) /\ AnswerSound(w)

-----------------------------------------------------------------------------
(* Types.                                                                  *)

CreditRow == [owner: Users, amount: Int, status: Statuses]
ListingRow == [id: CreditIds, amount: Int, status: Statuses]

LEMMA CreditRows ==
  /\ CreditType = CreditRow \cup {Absent} /\ Absent \notin CreditRow
  /\ \A c \in CreditType : c # Absent <=> c \in CreditRow
  /\ \A c \in CreditType : c.owner \in Users <=> c \in CreditRow
  /\ \A c \in CreditType : c.amount \in Int
  <1>1. CreditType = CreditRow \cup {Absent}
    BY DEF CreditType, CreditRow
  <1>2. \A c \in CreditRow : c.owner \in Users /\ c.amount \in Int
    BY DEF CreditRow
  <1>3. Absent.owner = NoOne /\ Absent.amount = 0
    BY DEF Absent
  <1>4. NoOne \notin Users
    BY PeopleAssumption
  <1> QED BY <1>1, <1>2, <1>3, <1>4

LEMMA RequestTyped ==
  /\ NoRequest \notin Requests /\ MaxOps \in Nat
  /\ \A r \in Requests :
        /\ r.op \in {"mint", "transfer", "retire", "emit", "list"}
        /\ r.user \in Users /\ r.credit \in CreditIds /\ r.amount \in Nat \ {0}
  BY OperationsAssumption DEF RequestType

DatabaseTyped ==
  /\ balance \in [Accounts -> Nat]
  /\ credits \in [CreditIds -> CreditType]
  /\ postings \in Seq(PostingType)
  /\ certificates \subseteq
        [id: 1..MaxOps, user: Users, credit: CreditIds, amount: Nat \ {0}]
  /\ footprint \in [Users -> Nat]
  /\ ops \in 0..MaxOps

LocksTyped ==
  /\ rowLock \in [Accounts -> Workers \cup {NoOne}]
  /\ creditLock \in [CreditIds -> Workers \cup {NoOne}]
  /\ writer \in Workers \cup {NoOne}

CacheTyped == cache \in [Users -> SUBSET ListingRow]

ReplyType == [status: {0, 200, 400, 404, 500}, id: 0..MaxOps,
              op: {"mint", "transfer", "retire", "emit", "list"}]

HandlersTyped ==
  /\ pc \in [Workers -> Stages]
  /\ session \in [Workers -> SessionType]
  /\ reply \in [Workers -> ReplyType]

LEMMA TypeParts ==
  TypeOK <=> /\ engine \in {"postgresql", "sqlite"}
             /\ DatabaseTyped /\ LocksTyped /\ CacheTyped /\ HandlersTyped
  BY DEF TypeOK, DatabaseTyped, LocksTyped, CacheTyped, HandlersTyped, ReplyType, ListingRow

LEMMA PostingsTyped ==
  ASSUME TypeOK
  PROVE  /\ postings \in Seq(PostingType) /\ Len(postings) \in Nat
         /\ DOMAIN postings = 1..Len(postings)
         /\ \A i \in DOMAIN postings : postings[i] \in PostingType
  <1>1. postings \in Seq(PostingType)
    BY DEF TypeOK
  <1> QED BY <1>1

(* What a handler has, and what it asks for.                               *)
LEMMA Steady ==
  ASSUME IInv, NEW w \in Workers
  PROVE  /\ pc \in [Workers -> Stages] /\ session \in [Workers -> SessionType]
         /\ reply \in [Workers -> ReplyType]
         /\ session[w] \in SessionType /\ SessionSound(w) /\ AnswerSound(w)
         /\ session[w].id \in Nat /\ ops \in Nat /\ ops <= MaxOps /\ MaxOps \in Nat
         /\ session = [session EXCEPT ![w] = session[w]]
         /\ reply = [reply EXCEPT ![w] = reply[w]]
         /\ Serving(w) =>
              /\ Op(w) \in {"mint", "transfer", "retire", "emit", "list"}
              /\ User(w) \in Users /\ Target(w) \in CreditIds /\ Amount(w) \in Nat \ {0}
  <1>1. /\ pc \in [Workers -> Stages] /\ session \in [Workers -> SessionType]
        /\ reply \in [Workers -> ReplyType] /\ SessionSound(w) /\ AnswerSound(w)
        /\ ops \in 0..MaxOps
    BY DEF IInv, TypeOK, ReplyType
  <1>2. session[w] \in SessionType /\ session[w].id \in Nat
    BY <1>1 DEF SessionType
  <1>3. Serving(w) => session[w].req \in Requests
    BY <1>1 DEF SessionSound
  <1>4. /\ session = [session EXCEPT ![w] = session[w]]
        /\ reply = [reply EXCEPT ![w] = reply[w]]
    BY <1>1
  <1> QED BY <1>1, <1>2, <1>3, <1>4, RequestTyped DEF Op, User, Target, Amount

-----------------------------------------------------------------------------
(* What a step of worker w leaves of what the others rely on: nothing that *)
(* was posted, certified or entered goes away, the only number newly       *)
(* posted is w's own, and w takes no lock that is held.                    *)

Grows(w) ==
  /\ engine' = engine
  /\ ops' \in Nat /\ ops <= ops'
  /\ \A id, op, amount : IsPosted(id, op, amount) => IsPosted(id, op, amount)'
  /\ \A id : Made(id) => Made(id)'
  /\ \A id : Made(id)' => Made(id) \/ (id = Id(w) /\ Serving(w) /\ id # 0)
  /\ \A c \in CreditIds : credits[c] # Absent => credits'[c] # Absent
  /\ certificates \subseteq certificates'
  /\ \A c \in CreditIds : \A v \in Workers \ {w} : creditLock[c] = v => creditLock'[c] = v

LEMMA AnswerKept ==
  ASSUME IInv, NEW w \in Workers, NEW v \in Workers, Grows(w), reply'[v] = reply[v]
  PROVE  AnswerSound(v)'
  <1>1. /\ AnswerSound(v) /\ reply[v] \in ReplyType /\ ops \in Nat /\ MaxOps \in Nat
    BY Steady
  <1>2. reply[v].id \in Nat /\ reply[v].id <= ops'
    BY <1>1 DEF AnswerSound, Grows, ReplyType
  <1>3. reply[v].status = 200 /\ reply[v].op = "mint" => credits'[reply[v].id] # Absent
    <2>1. reply[v].status = 200 /\ reply[v].op \in PostingOps => reply[v].id \in 1..MaxOps
      <3>1. ASSUME Made(reply[v].id)
            PROVE  reply[v].id \in 1..MaxOps
        BY <3>1, PostingsTyped DEF Made, PostingType, IInv
      <3> QED BY <1>1, <3>1 DEF AnswerSound
    <2> QED BY <1>1, <2>1 DEF AnswerSound, Grows, CreditIds, PostingOps
  <1>4. reply[v].status = 404 => ~ Made(reply[v].id)'
    <2>1. Serving(w) /\ Id(w) # 0 => Id(w) # reply[v].id
      BY DEF IInv, IdsDistinct
    <2> QED BY <1>1, <2>1 DEF AnswerSound, Grows
  <1>5. reply[v].status = 200 /\ reply[v].op \in PostingOps => Made(reply[v].id)'
    BY <1>1 DEF AnswerSound, Grows
  <1>6. reply[v].status = 200 /\ reply[v].op = "retire" =>
          \E c \in certificates' : c.id = reply[v].id
    BY <1>1 DEF AnswerSound, Grows
  <1> HIDE DEF IInv, Grows, Made
  <1>7. \A id : Made(id)' <=> \E i \in DOMAIN postings' : postings'[i].id = id
    BY DEF Made
  <1> QED BY <1>2, <1>3, <1>4, <1>5, <1>6, <1>7 DEF AnswerSound, Made

LEMMA Bystander ==
  ASSUME IInv, NEW w \in Workers, NEW v \in Workers \ {w}, Grows(w),
         pc'[v] = pc[v], session'[v] = session[v], reply'[v] = reply[v]
  PROVE  SessionSound(v)'
  <1>1. /\ SessionSound(v) /\ session[v].id \in Nat /\ ops \in Nat
        /\ Serving(v) => Target(v) \in CreditIds
    BY Steady
  <1>2. /\ Op(v)' = Op(v) /\ User(v)' = User(v) /\ Target(v)' = Target(v)
        /\ Amount(v)' = Amount(v) /\ Id(v)' = Id(v) /\ Serving(v)' = Serving(v)
    BY DEF Op, User, Target, Amount, Id, Serving
  <1>3. /\ Debited(v)' = Debited(v) /\ Credited(v)' = Credited(v)
        /\ KnownRecipient(v)' = KnownRecipient(v)
    BY <1>2 DEF Debited, Credited, KnownRecipient
  <1>4. Serving(v) => session[v].req \in Requests /\ reply'[v].status = 0
    BY <1>1 DEF SessionSound
  <1>5. Id(v) <= ops'
    <2>1. Id(v) <= ops /\ Id(v) \in Nat
      BY <1>1 DEF SessionSound, Id
    <2>2. ops' \in Nat /\ ops <= ops'
      BY DEF Grows
    <2> QED BY <1>1, <2>1, <2>2
  <1>6. pc[v] \in Checked \cup {"reread", "update"} /\ Op(v) \in SpendOps =>
           credits'[Target(v)] # Absent /\ KnownRecipient(v)
    BY <1>1 DEF SessionSound, Grows, Serving, Checked
  <1>7. pc[v] \in Unposted => ~ \E i \in DOMAIN postings' : postings'[i].id = Id(v)
    <2>1. ASSUME pc[v] \in Unposted, NEW n, n = Id(v), Made(n)'
          PROVE  FALSE
      <3>1. pc[v] \in Unposted => Op(v) # "list"
        BY <1>1 DEF SessionSound, Unposted, Checked, SpendOps, PostingOps
      <3>2. Serving(v) /\ n # 0 /\ ~ Made(n)
        <4>1. Serving(v)
          BY <2>1 DEF Serving, Unposted, Checked
        <4>2. Id(v) \in 1..MaxOps /\ ~ Made(Id(v))
          BY <1>1, <2>1, <3>1, <4>1 DEF SessionSound
        <4> QED BY <2>1, <4>1, <4>2, RequestTyped
      <3>3. Id(v) = Id(w) /\ Serving(w)
        BY <2>1, <3>2 DEF Grows
      <3> QED BY <2>1, <3>2, <3>3 DEF IInv, IdsDistinct
    <2> QED BY <2>1 DEF Made
  <1>8. pc[v] \in {"reread", "update", "evict"} /\ Op(v) \in PostingOps =>
           \E i \in DOMAIN postings' : /\ postings'[i].id = Id(v) /\ postings'[i].op = Op(v)
                                      /\ postings'[i].amount = Amount(v)
    <2>1. ASSUME pc[v] \in {"reread", "update", "evict"}, Op(v) \in PostingOps
          PROVE  IsPosted(Id(v), Op(v), Amount(v))
      BY <1>1, <2>1 DEF SessionSound
    <2>2. ASSUME NEW id, NEW op, NEW amount, IsPosted(id, op, amount)
          PROVE  \E i \in DOMAIN postings' : /\ postings'[i].id = id /\ postings'[i].op = op
                                            /\ postings'[i].amount = amount
      <3>1. IsPosted(id, op, amount)'
        BY <2>2 DEF Grows
      <3> QED BY <3>1 DEF IsPosted
    <2> QED BY <2>1, <2>2
  <1>9. pc[v] = "evict" /\ Op(v) = "mint" => credits'[Id(v)] # Absent
    BY <1>1 DEF SessionSound, Grows, CreditIds, Serving
  <1>10. pc[v] = "evict" /\ Op(v) = "retire" => \E c \in certificates' : c.id = Id(v)
    BY <1>1 DEF SessionSound, Grows
  <1>11. engine' = "postgresql" /\ pc[v] \in Checked /\ Op(v) \in SpendOps =>
           creditLock'[Target(v)] = v
    BY <1>1 DEF SessionSound, Grows, Serving, Checked
  <1>12. /\ Serving(v) /\ Op(v) # "list" => Id(v) \in 1..MaxOps
         /\ pc[v] \in {"credit", "reread", "update"} => Op(v) \in SpendOps
         /\ pc[v] \in Checked => Op(v) \in PostingOps
         /\ pc[v] \in {"emission", "emit"} => Op(v) = "emit"
         /\ pc[v] \in {"list", "fill"} => Op(v) = "list"
         /\ pc[v] = "evict" => Op(v) # "list"
         /\ pc[v] \in {"second", "debit", "entry"} =>
              Debited(v) \in Accounts /\ Credited(v) \in Accounts
    BY <1>1 DEF SessionSound
  <1> HIDE DEF IInv, Grows
  <1>a. /\ (Serving(v) => session[v].req \in Requests /\ reply[v].status = 0)'
        /\ (Serving(v) /\ Op(v) # "list" => Id(v) \in 1..MaxOps)'
        /\ (Id(v) <= ops)'
    BY <1>2, <1>4, <1>5, <1>12
  <1>b. /\ (pc[v] \in {"credit", "reread", "update"} => Op(v) \in SpendOps)'
        /\ (pc[v] \in Checked => Op(v) \in PostingOps)'
        /\ (pc[v] \in {"emission", "emit"} => Op(v) = "emit")'
        /\ (pc[v] \in {"list", "fill"} => Op(v) = "list")'
        /\ (pc[v] = "evict" => Op(v) # "list")'
    BY <1>2, <1>12
  <1>c. /\ (pc[v] \in Checked \cup {"reread", "update"} /\ Op(v) \in SpendOps =>
              credits[Target(v)] # Absent /\ KnownRecipient(v))'
        /\ (pc[v] \in {"second", "debit", "entry"} =>
              Debited(v) \in Accounts /\ Credited(v) \in Accounts)'
    BY <1>2, <1>3, <1>6, <1>12
  <1>d. /\ (pc[v] \in Unposted => ~ Made(Id(v)))'
        /\ (pc[v] \in {"reread", "update", "evict"} /\ Op(v) \in PostingOps =>
              IsPosted(Id(v), Op(v), Amount(v)))'
    BY <1>2, <1>7, <1>8 DEF Made, IsPosted
  <1>e. /\ (pc[v] = "evict" /\ Op(v) = "mint" => credits[Id(v)] # Absent)'
        /\ (pc[v] = "evict" /\ Op(v) = "retire" => \E c \in certificates : c.id = Id(v))'
        /\ (engine = "postgresql" /\ pc[v] \in Checked /\ Op(v) \in SpendOps =>
              creditLock[Target(v)] = v)'
    BY <1>2, <1>9, <1>10, <1>11
  <1> QED BY <1>a, <1>b, <1>c, <1>d, <1>e DEF SessionSound

-----------------------------------------------------------------------------
(* How a step is put together.                                             *)

PostedBefore == \A i \in DOMAIN postings : postings[i].id <= ops

LEMMA Together ==
  ASSUME IInv, NEW w \in Workers, Grows(w),
         DatabaseTyped', LocksTyped', CacheTyped', HandlersTyped',
         InventoryFollowsLedger', PostedBefore', IdsDistinct',
         \A v \in Workers \ {w} :
            pc'[v] = pc[v] /\ session'[v] = session[v] /\ reply'[v] = reply[v],
         SessionSound(w)', AnswerSound(w)'
  PROVE  IInv'
  <1>1. \A v \in Workers : SessionSound(v)' /\ AnswerSound(v)'
    <2>1. TAKE v \in Workers
    <2>2. CASE v = w
      BY <2>2
    <2>3. CASE v # w
      BY <2>3, Bystander, AnswerKept
    <2> QED BY <2>2, <2>3
  <1>2. engine' \in {"postgresql", "sqlite"}
    BY DEF Grows, IInv, TypeOK
  <1>3. TypeOK'
    BY <1>2 DEF TypeOK, DatabaseTyped, LocksTyped, CacheTyped, HandlersTyped, ReplyType,
                ListingRow
  <1> QED BY <1>1, <1>3 DEF IInv, PostedBefore

LEMMA OneHandler ==
  ASSUME IInv, NEW w \in Workers, NEW stage \in Stages, NEW s \in SessionType,
         NEW answer \in ReplyType,
         pc' = [pc EXCEPT ![w] = stage], session' = [session EXCEPT ![w] = s],
         reply' = [reply EXCEPT ![w] = answer]
  PROVE  /\ HandlersTyped'
         /\ pc'[w] = stage /\ session'[w] = s /\ reply'[w] = answer
         /\ \A v \in Workers \ {w} :
               pc'[v] = pc[v] /\ session'[v] = session[v] /\ reply'[v] = reply[v]
  <1>1. /\ pc \in [Workers -> Stages] /\ session \in [Workers -> SessionType]
        /\ reply \in [Workers -> ReplyType]
    BY Steady
  <1>2. /\ pc' \in [Workers -> Stages] /\ session' \in [Workers -> SessionType]
        /\ reply' \in [Workers -> ReplyType]
    BY <1>1
  <1>3. HandlersTyped'
    BY <1>2 DEF HandlersTyped, SessionType, ReplyType
  <1> QED BY <1>1, <1>3

(* The number of a request passes from the session to the answer; a new    *)
(* request has a new one, a listing none.                                  *)
LEMMA IdsKept ==
  ASSUME IInv, NEW w \in Workers, HandlersTyped',
         \A v \in Workers \ {w} :
            pc'[v] = pc[v] /\ session'[v] = session[v] /\ reply'[v] = reply[v],
         \/ Serving(w) /\ session'[w].id = session[w].id /\ reply'[w] = reply[w]
         \/ Serving(w) /\ pc'[w] = "idle" /\ reply'[w].id = session[w].id
         \/ reply'[w].id = 0 /\ session'[w].id \in {0, ops + 1}
  PROVE  IdsDistinct'
  <1>1. /\ IdsDistinct /\ ops \in Nat
        /\ \A v \in Workers : /\ session[v].id \in Nat /\ session[v].id <= ops
                              /\ reply[v].id \in Nat /\ reply[v].id <= ops
    <2>1. IdsDistinct /\ ops \in Nat
      BY RequestTyped DEF IInv, TypeOK
    <2>2. ASSUME NEW v \in Workers
          PROVE  /\ session[v].id \in Nat /\ session[v].id <= ops
                 /\ reply[v].id \in Nat /\ reply[v].id <= ops
      <3>1. /\ SessionSound(v) /\ AnswerSound(v) /\ session[v].id \in Nat
            /\ reply \in [Workers -> ReplyType]
        BY Steady
      <3>2. reply[v].id \in Nat
        BY <3>1, RequestTyped DEF ReplyType
      <3> QED BY <3>1, <3>2 DEF SessionSound, AnswerSound, Id
    <2> QED BY <2>1, <2>2
  <1>2. SUFFICES ASSUME NEW u \in Workers, NEW v \in Workers, pc'[u] # "idle",
                        session'[u].id # 0
                 PROVE  /\ session'[u].id # reply'[v].id
                        /\ u # v /\ pc'[v] # "idle" => session'[u].id # session'[v].id
    BY DEF IdsDistinct, Serving, Id
  <1>3. CASE u # w /\ v # w
    BY <1>1, <1>2, <1>3 DEF IdsDistinct, Serving, Id
  <1>4. CASE Serving(w) /\ session'[w].id = session[w].id /\ reply'[w] = reply[w]
    BY <1>1, <1>2, <1>4 DEF IdsDistinct, Serving, Id
  <1>5. CASE Serving(w) /\ pc'[w] = "idle" /\ reply'[w].id = session[w].id
    BY <1>1, <1>2, <1>5 DEF IdsDistinct, Serving, Id
  <1>6. CASE reply'[w].id = 0 /\ session'[w].id \in {0, ops + 1}
    BY <1>1, <1>2, <1>6 DEF IdsDistinct, Serving, Id
  <1> QED BY <1>3, <1>4, <1>5, <1>6

LEMMA Quiet ==
  ASSUME IInv, NEW w \in Workers, UNCHANGED <<engine, database>>,
         ops <= ops', ops' \in 0..MaxOps,
         \A c \in CreditIds : \A v \in Workers \ {w} : creditLock[c] = v => creditLock'[c] = v
  PROVE  Grows(w) /\ DatabaseTyped' /\ InventoryFollowsLedger' /\ PostedBefore'
  <1>1. /\ engine' = engine /\ balance' = balance /\ credits' = credits
        /\ postings' = postings /\ certificates' = certificates /\ footprint' = footprint
    BY DEF database
  <1>2. /\ \A id : Made(id)' <=> Made(id)
        /\ \A id, op, amount : IsPosted(id, op, amount)' <=> IsPosted(id, op, amount)
    BY <1>1 DEF Made, IsPosted
  <1>3. Grows(w)
    <2>1. ops' \in Nat
      BY RequestTyped
    <2> HIDE DEF IInv
    <2> QED BY <1>1, <1>2, <2>1 DEF Grows
  <1>4. DatabaseTyped'
    BY <1>1 DEF IInv, TypeOK, DatabaseTyped
  <1>5. InventoryFollowsLedger'
    BY <1>1 DEF IInv, InventoryFollowsLedger, IsPosted
  <1>6. PostedBefore'
    <2>1. \A i \in DOMAIN postings : postings[i].id \in Nat /\ postings[i].id <= ops
      BY PostingsTyped, RequestTyped DEF IInv, PostingType
    <2>2. ops \in Nat /\ ops' \in Nat
      BY RequestTyped DEF IInv, TypeOK
    <2> HIDE DEF IInv
    <2> QED BY <1>1, <2>1, <2>2 DEF PostedBefore
  <1> QED BY <1>3, <1>4, <1>5, <1>6

-----------------------------------------------------------------------------
(* Locks.                                                                  *)

LEMMA Released ==
  ASSUME IInv, NEW w \in Workers, ReleaseAll(w)
  PROVE  /\ LocksTyped'
         /\ \A c \in CreditIds : \A v \in Workers \ {w} :
               creditLock[c] = v => creditLock'[c] = v
  <1>1. /\ rowLock \in [Accounts -> Workers \cup {NoOne}]
        /\ creditLock \in [CreditIds -> Workers \cup {NoOne}]
        /\ writer \in Workers \cup {NoOne}
    BY DEF IInv, TypeOK
  <1>2. /\ rowLock' = [a \in Accounts |-> IF rowLock[a] = w THEN NoOne ELSE rowLock[a]]
        /\ creditLock' = [c \in CreditIds |->
                            IF creditLock[c] = w THEN NoOne ELSE creditLock[c]]
        /\ writer' = IF writer = w THEN NoOne ELSE writer
    BY <1>1 DEF ReleaseAll, Freed
  <1>3. rowLock' \in [Accounts -> Workers \cup {NoOne}]
    BY <1>1, <1>2
  <1>4. creditLock' \in [CreditIds -> Workers \cup {NoOne}]
    BY <1>1, <1>2
  <1>5. writer' \in Workers \cup {NoOne}
    BY <1>1, <1>2
  <1>6. \A c \in CreditIds : \A v \in Workers \ {w} :
           creditLock[c] = v => creditLock'[c] = v
    BY <1>2
  <1> QED BY <1>3, <1>4, <1>5, <1>6 DEF LocksTyped

LEMMA SameLocks ==
  ASSUME IInv, NEW w \in Workers, UNCHANGED locks
  PROVE  /\ LocksTyped'
         /\ \A c \in CreditIds : \A v \in Workers \ {w} :
               creditLock[c] = v => creditLock'[c] = v
  <1>1. rowLock' = rowLock /\ creditLock' = creditLock /\ writer' = writer
    BY DEF locks
  <1> QED BY <1>1 DEF LocksTyped, IInv, TypeOK

LEMMA LockTaken ==
  ASSUME IInv, NEW w \in Workers, NEW S, NEW lock \in [S -> Workers \cup {NoOne}],
         NEW x \in S, RowFree(lock, x, w)
  PROVE  /\ Taken(lock, x, w) \in [S -> Workers \cup {NoOne}]
         /\ \A c \in S : \A v \in Workers \ {w} :
               engine = "postgresql" /\ lock[c] = v => Taken(lock, x, w)[c] = v
         /\ engine # "postgresql" => Taken(lock, x, w) = lock
         /\ engine = "postgresql" => Taken(lock, x, w)[x] = w
  BY PeopleAssumption DEF Taken, RowFree

-----------------------------------------------------------------------------
(* Answers.                                                                *)

LEMMA NoSessionType == NoSession \in SessionType /\ NoSession.id = 0
  <1>1. [a \in Accounts |-> 0] \in [Accounts -> Nat]
    OBVIOUS
  <1>2. <<>> \in Seq(Users) /\ Absent \in CreditType
    BY CreditRows
  <1> QED BY <1>1, <1>2 DEF NoSession, SessionType

LEMMA AnswerStep ==
  ASSUME IInv, NEW w \in Workers, Serving(w), NEW status \in {200, 400, 404, 500},
         Finish(w, status), CacheTyped',
         status = 404 => ~ Made(Id(w)),
         status = 200 => pc[w] = "evict" \/ Op(w) = "list"
  PROVE  IInv'
  <1> DEFINE answer == [status |-> status, id |-> session[w].id, op |-> Op(w)]
  <1>1. /\ reply' = [reply EXCEPT ![w] = answer]
        /\ pc' = [pc EXCEPT ![w] = "idle"]
        /\ session' = [session EXCEPT ![w] = NoSession]
        /\ ReleaseAll(w) /\ UNCHANGED <<engine, database, ops>>
        /\ UNCHANGED <<engine, database>> /\ ops' = ops
    BY DEF Finish
  <1>2. /\ SessionSound(w) /\ session[w].id \in Nat /\ session[w].id <= ops
        /\ ops \in Nat /\ ops <= MaxOps /\ MaxOps \in Nat
        /\ Op(w) \in {"mint", "transfer", "retire", "emit", "list"}
    <2>1. SessionSound(w)
      BY Steady
    <2>2. session[w].id <= ops
      BY <2>1 DEF SessionSound, Id
    <2> QED BY <2>1, <2>2, Steady
  <1>3. answer \in ReplyType
    BY <1>2 DEF ReplyType
  <1>4. answer.status = status /\ answer.id = Id(w) /\ answer.op = Op(w)
    BY DEF Id
  <1> HIDE DEF answer
  <1>5. /\ LocksTyped'
        /\ \A c \in CreditIds : \A v \in Workers \ {w} :
              creditLock[c] = v => creditLock'[c] = v
    BY <1>1, Released
  <1>6. Grows(w) /\ DatabaseTyped' /\ InventoryFollowsLedger' /\ PostedBefore'
    <2>1. ops <= ops' /\ ops' \in 0..MaxOps
      BY <1>1, <1>2
    <2> QED BY <1>1, <1>5, <2>1, Quiet
  <1>7. /\ HandlersTyped'
        /\ pc'[w] = "idle" /\ session'[w] = NoSession /\ reply'[w] = answer
        /\ \A v \in Workers \ {w} :
              pc'[v] = pc[v] /\ session'[v] = session[v] /\ reply'[v] = reply[v]
    <2>1. "idle" \in Stages /\ NoSession \in SessionType
      BY NoSessionType DEF Stages
    <2> QED BY <1>1, <1>3, <2>1, OneHandler
  <1>8. IdsDistinct'
    BY <1>4, <1>7, IdsKept DEF Id
  <1>9. SessionSound(w)'
    <2>1. Id(w)' = 0 /\ ~ Serving(w)'
      BY <1>7, NoSessionType DEF Id, Serving
    <2>2. /\ pc'[w] \notin Checked /\ pc'[w] \notin Unposted
          /\ pc'[w] \notin {"credit", "reread", "update"} /\ pc'[w] \notin {"emission", "emit"}
          /\ pc'[w] \notin {"list", "fill"} /\ pc'[w] \notin {"second", "debit", "entry"}
          /\ pc'[w] \notin {"reread", "update", "evict"} /\ pc'[w] # "evict"
          /\ pc'[w] \notin Checked \cup {"reread", "update"}
      BY <1>7 DEF Unposted, Checked
    <2>3. Id(w)' <= ops'
      BY <1>1, <1>2, <2>1
    <2> QED BY <2>1, <2>2, <2>3 DEF SessionSound
  <1>10. AnswerSound(w)'
    <2>1. /\ postings' = postings /\ credits' = credits /\ certificates' = certificates
      BY <1>1 DEF database
    <2>2. Id(w) <= ops'
      BY <1>1, <1>2 DEF Id
    <2>3. ASSUME status = 200, Op(w) \in PostingOps
          PROVE  /\ \E i \in DOMAIN postings : postings[i].id = Id(w)
                 /\ Op(w) = "mint" => credits[Id(w)] # Absent
                 /\ Op(w) = "retire" => \E c \in certificates : c.id = Id(w)
      <3>1. pc[w] = "evict"
        BY <2>3 DEF PostingOps
      <3> QED BY <1>2, <2>3, <3>1 DEF SessionSound, IsPosted
    <2>4. status = 404 => ~ \E i \in DOMAIN postings : postings[i].id = Id(w)
      BY DEF Made
    <2>5. "mint" \in PostingOps /\ "retire" \in PostingOps
      BY DEF PostingOps
    <2> QED BY <1>4, <1>7, <2>1, <2>2, <2>3, <2>4, <2>5 DEF AnswerSound, Made
  <1> QED BY <1>5, <1>6, <1>7, <1>8, <1>9, <1>10, Together

LEMMA SameCache ==
  ASSUME IInv, UNCHANGED cache
  PROVE  CacheTyped'
  BY DEF IInv, TypeOK, CacheTyped, ListingRow

LEMMA RefuseStep ==
  ASSUME IInv, NEW w \in Workers, Serving(w), NEW status \in {200, 400, 404, 500},
         Refuse(w, status),
         status = 404 => pc[w] \in Unposted,
         status = 200 => pc[w] = "evict" \/ Op(w) = "list"
  PROVE  IInv'
  <1>1. pc[w] \in Unposted => ~ Made(Id(w))
    BY Steady DEF SessionSound
  <1>2. CacheTyped'
    BY SameCache DEF Refuse
  <1> QED BY <1>1, <1>2, AnswerStep DEF Refuse

-----------------------------------------------------------------------------
(* The steps within a request that leave the database alone.               *)

LEMMA SameRequest ==
  ASSUME NEW w \in Workers, session'[w].req = session[w].req, session'[w].id = session[w].id
  PROVE  /\ Op(w)' = Op(w) /\ User(w)' = User(w) /\ Target(w)' = Target(w)
         /\ Amount(w)' = Amount(w) /\ Id(w)' = Id(w)
         /\ Debited(w)' = Debited(w) /\ Credited(w)' = Credited(w)
         /\ KnownRecipient(w)' = KnownRecipient(w)
  BY DEF Op, User, Target, Amount, Id, Debited, Credited, KnownRecipient

LEMMA StageReached ==
  ASSUME IInv, NEW w \in Workers, Serving(w),
         session'[w].req = session[w].req, session'[w].id = session[w].id,
         reply'[w] = reply[w], UNCHANGED <<engine, database, ops>>,
         creditLock'[Target(w)] \in {creditLock[Target(w)], w},
         \/ /\ pc[w] = "credit" /\ pc'[w] = "first"
            /\ credits[Target(w)] # Absent /\ KnownRecipient(w)
            /\ engine = "postgresql" => creditLock'[Target(w)] = w
         \/ /\ pc[w] = "first" /\ pc'[w] = "second"
            /\ Debited(w) \in Accounts /\ Credited(w) \in Accounts
         \/ pc[w] = "second" /\ pc'[w] = "debit"
         \/ pc[w] = "debit" /\ pc'[w] = "entry"
         \/ pc[w] = "reread" /\ pc'[w] = "update"
         \/ pc[w] = "evict" /\ pc'[w] = "evict"
         \/ pc[w] = "emission" /\ pc'[w] = "emit"
         \/ pc[w] = "list" /\ pc'[w] = "fill"
  PROVE  SessionSound(w)'
  <1>1. SessionSound(w)
    BY Steady
  <1>2. /\ engine' = engine /\ credits' = credits /\ postings' = postings
        /\ certificates' = certificates /\ ops' = ops
    BY DEF database
  <1>3. Serving(w)' = Serving(w)
    BY DEF Serving
  <1>4. /\ pc'[w] \in Unposted => ~ \E i \in DOMAIN postings : postings[i].id = Id(w)
        /\ pc'[w] \in {"reread", "update", "evict"} /\ Op(w) \in PostingOps =>
             \E i \in DOMAIN postings : /\ postings[i].id = Id(w) /\ postings[i].op = Op(w)
                                        /\ postings[i].amount = Amount(w)
    BY <1>1 DEF SessionSound, Made, IsPosted, Unposted, Checked
  <1>5. /\ pc'[w] \in {"credit", "reread", "update"} => Op(w) \in SpendOps
        /\ pc'[w] \in Checked => Op(w) \in PostingOps
        /\ pc'[w] \in {"emission", "emit"} => Op(w) = "emit"
        /\ pc'[w] \in {"list", "fill"} => Op(w) = "list"
        /\ pc'[w] = "evict" => Op(w) # "list"
    BY <1>1 DEF SessionSound, Checked, SpendOps, PostingOps
  <1>6. /\ pc'[w] \in Checked \cup {"reread", "update"} /\ Op(w) \in SpendOps =>
             credits[Target(w)] # Absent /\ KnownRecipient(w)
        /\ pc'[w] \in {"second", "debit", "entry"} =>
             Debited(w) \in Accounts /\ Credited(w) \in Accounts
    BY <1>1 DEF SessionSound, Checked, SpendOps
  <1>7. /\ pc'[w] = "evict" /\ Op(w) = "mint" => credits[Id(w)] # Absent
        /\ pc'[w] = "evict" /\ Op(w) = "retire" => \E c \in certificates : c.id = Id(w)
    BY <1>1 DEF SessionSound
  <1>8. engine = "postgresql" /\ pc'[w] \in Checked /\ Op(w) \in SpendOps =>
          creditLock'[Target(w)] = w
    BY <1>1 DEF SessionSound, Checked
  <1>9. /\ session[w].req \in Requests /\ reply[w].status = 0
        /\ Op(w) # "list" => Id(w) \in 1..MaxOps
        /\ Id(w) <= ops
    BY <1>1 DEF SessionSound
  <1>a. /\ (pc[w] \in Unposted => ~ Made(Id(w)))'
        /\ (pc[w] \in {"reread", "update", "evict"} /\ Op(w) \in PostingOps =>
              IsPosted(Id(w), Op(w), Amount(w)))'
    BY <1>2, <1>4, SameRequest DEF Made, IsPosted
  <1>b. /\ (pc[w] \in Checked \cup {"reread", "update"} /\ Op(w) \in SpendOps =>
              credits[Target(w)] # Absent /\ KnownRecipient(w))'
        /\ (pc[w] \in {"second", "debit", "entry"} =>
              Debited(w) \in Accounts /\ Credited(w) \in Accounts)'
    BY <1>2, <1>6, SameRequest
  <1>c. /\ (pc[w] = "evict" /\ Op(w) = "mint" => credits[Id(w)] # Absent)'
        /\ (pc[w] = "evict" /\ Op(w) = "retire" => \E c \in certificates : c.id = Id(w))'
        /\ (engine = "postgresql" /\ pc[w] \in Checked /\ Op(w) \in SpendOps =>
              creditLock[Target(w)] = w)'
    BY <1>2, <1>7, <1>8, SameRequest
  <1>d. /\ (Serving(w) => session[w].req \in Requests /\ reply[w].status = 0)'
        /\ (Serving(w) /\ Op(w) # "list" => Id(w) \in 1..MaxOps)'
        /\ (Id(w) <= ops)'
    BY <1>2, <1>3, <1>9, SameRequest
  <1>e. /\ (pc[w] \in {"credit", "reread", "update"} => Op(w) \in SpendOps)'
        /\ (pc[w] \in Checked => Op(w) \in PostingOps)'
        /\ (pc[w] \in {"emission", "emit"} => Op(w) = "emit")'
        /\ (pc[w] \in {"list", "fill"} => Op(w) = "list")'
        /\ (pc[w] = "evict" => Op(w) # "list")'
    BY <1>5, SameRequest
  <1> QED BY <1>a, <1>b, <1>c, <1>d, <1>e DEF SessionSound

LEMMA HandlerMoves ==
  ASSUME IInv, NEW w \in Workers, Serving(w), NEW stage \in Stages, NEW s \in SessionType,
         s.id = session[w].id,
         pc' = [pc EXCEPT ![w] = stage], session' = [session EXCEPT ![w] = s],
         UNCHANGED <<engine, database, reply, ops>>,
         CacheTyped', LocksTyped',
         \A c \in CreditIds : \A v \in Workers \ {w} : creditLock[c] = v => creditLock'[c] = v,
         SessionSound(w)'
  PROVE  IInv'
  <1>1. /\ reply' = [reply EXCEPT ![w] = reply[w]] /\ reply[w] \in ReplyType
        /\ reply' = reply
        /\ ops <= ops' /\ ops' \in 0..MaxOps
        /\ UNCHANGED <<engine, database>>
    BY Steady
  <1>2. /\ HandlersTyped' /\ session'[w] = s /\ reply'[w] = reply[w]
        /\ \A v \in Workers \ {w} :
              pc'[v] = pc[v] /\ session'[v] = session[v] /\ reply'[v] = reply[v]
    <2>1. /\ pc \in [Workers -> Stages] /\ session \in [Workers -> SessionType]
          /\ reply \in [Workers -> ReplyType]
      BY Steady
    <2>2. /\ pc' \in [Workers -> Stages] /\ session' \in [Workers -> SessionType]
          /\ reply' \in [Workers -> ReplyType] /\ session'[w] = s /\ reply'[w] = reply[w]
          /\ \A v \in Workers \ {w} :
                pc'[v] = pc[v] /\ session'[v] = session[v] /\ reply'[v] = reply[v]
      BY <1>1, <2>1
    <2> QED BY <2>2 DEF HandlersTyped, SessionType, ReplyType
  <1>3. Grows(w) /\ DatabaseTyped' /\ InventoryFollowsLedger' /\ PostedBefore'
    BY <1>1, Quiet
  <1>4. AnswerSound(w)'
    BY <1>2, <1>3, AnswerKept
  <1>5. IdsDistinct'
    BY <1>2, IdsKept
  <1> QED BY <1>2, <1>3, <1>4, <1>5, Together

LEMMA BalanceLoaded ==
  ASSUME IInv, NEW w \in Workers, NEW a \in Accounts, NEW n \in Nat
  PROVE  LET s == [session[w] EXCEPT !.bal[a] = n] IN
         s \in SessionType /\ s.id = session[w].id /\ s.req = session[w].req
  <1> DEFINE s == [session[w] EXCEPT !.bal[a] = n]
  <1>1. session[w] \in SessionType /\ session[w].bal \in [Accounts -> Nat]
    BY Steady DEF SessionType
  <1>2. [session[w].bal EXCEPT ![a] = n] \in [Accounts -> Nat]
    BY <1>1
  <1>3. s \in SessionType /\ s.id = session[w].id /\ s.req = session[w].req
    BY <1>1, <1>2 DEF SessionType
  <1> QED BY <1>3

LEMMA LockCreditStep ==
  ASSUME IInv, NEW w \in Workers, LockCredit(w)
  PROVE  IInv'
  <1>1. /\ pc[w] = "credit" /\ OwnedActive(w) /\ KnownRecipient(w)
        /\ RowFree(creditLock, Target(w), w)
        /\ creditLock' = Taken(creditLock, Target(w), w)
        /\ pc' = [pc EXCEPT ![w] = "first"] /\ session' = session /\ reply' = reply
        /\ UNCHANGED <<engine, database, reply, ops>> /\ UNCHANGED <<engine, database, ops>>
        /\ cache' = cache /\ rowLock' = rowLock /\ writer' = writer /\ engine' = engine
    BY DEF LockCredit
  <1>2. /\ Serving(w) /\ Target(w) \in CreditIds /\ User(w) \in Users
        /\ session' = [session EXCEPT ![w] = session[w]]
        /\ session[w] \in SessionType
        /\ pc'[w] = "first" /\ "first" \in Stages
    BY <1>1, Steady DEF Serving, Stages
  <1>3. creditLock \in [CreditIds -> Workers \cup {NoOne}]
    BY DEF IInv, TypeOK
  <1>4. /\ creditLock' \in [CreditIds -> Workers \cup {NoOne}]
        /\ \A c \in CreditIds : \A v \in Workers \ {w} : creditLock[c] = v => creditLock'[c] = v
        /\ creditLock'[Target(w)] \in {creditLock[Target(w)], w}
        /\ engine = "postgresql" => creditLock'[Target(w)] = w
    BY <1>1, <1>2, <1>3, LockTaken
  <1>5. LocksTyped' /\ CacheTyped'
    <2>1. /\ rowLock \in [Accounts -> Workers \cup {NoOne}]
          /\ writer \in Workers \cup {NoOne}
      BY DEF IInv, TypeOK
    <2> QED BY <1>1, <1>4, <2>1, SameCache DEF LocksTyped
  <1>6. credits[Target(w)] # Absent
    BY <1>1, <1>2, PeopleAssumption DEF OwnedActive, Absent
  <1>7. SessionSound(w)'
    BY <1>1, <1>2, <1>4, <1>6, StageReached
  <1> QED BY <1>1, <1>2, <1>4, <1>5, <1>7, HandlerMoves

(* The caller's accounts, as the debit and the credit of the request.      *)
LEMMA OwnAccount ==
  ASSUME IInv, NEW w \in Workers, pc[w] \in Checked
  PROVE  /\ Asset(User(w)) \in {Debited(w), Credited(w)}
         /\ Opposite(w) \in {Debited(w), Credited(w)}
  <1>1. Op(w) \in PostingOps
    BY Steady DEF SessionSound
  <1> QED BY <1>1 DEF PostingOps, Debited, Credited, Opposite

LEMMA LoadFirstStep ==
  ASSUME IInv, NEW w \in Workers, LoadFirst(w)
  PROVE  IInv'
  <1> DEFINE a == Asset(User(w))
  <1> DEFINE s == [session[w] EXCEPT !.bal[a] = balance[a]]
  <1>1. /\ pc[w] = "first" /\ Debited(w) \in Accounts /\ Credited(w) \in Accounts
        /\ session' = [session EXCEPT ![w] = s] /\ pc' = [pc EXCEPT ![w] = "second"]
        /\ UNCHANGED <<engine, database, reply, ops>> /\ UNCHANGED <<engine, database, ops>>
        /\ UNCHANGED cache /\ UNCHANGED locks /\ creditLock' = creditLock /\ reply' = reply
    BY DEF LoadFirst, locks
  <1>2. a \in Accounts
    BY <1>1, OwnAccount DEF Checked
  <1>3. balance[a] \in Nat
    BY <1>2 DEF IInv, TypeOK
  <1>4. s \in SessionType /\ s.id = session[w].id /\ s.req = session[w].req
    BY <1>2, <1>3, BalanceLoaded
  <1> HIDE DEF s
  <1>5. /\ Serving(w) /\ session'[w] = s /\ pc'[w] = "second" /\ "second" \in Stages
    BY <1>1, Steady DEF Serving, Stages
  <1>6. SessionSound(w)'
    BY <1>1, <1>4, <1>5, StageReached
  <1> QED BY <1>1, <1>4, <1>5, <1>6, SameCache, SameLocks, HandlerMoves

LEMMA LoadSecondStep ==
  ASSUME IInv, NEW w \in Workers, LoadSecond(w)
  PROVE  IInv'
  <1> DEFINE a == Opposite(w)
  <1> DEFINE s == IF a = Asset(User(w)) THEN session[w]
                  ELSE [session[w] EXCEPT !.bal[a] = balance[a]]
  <1>1. /\ pc[w] = "second" /\ pc' = [pc EXCEPT ![w] = "debit"]
        /\ UNCHANGED <<engine, database, reply, ops>> /\ UNCHANGED <<engine, database, ops>>
        /\ UNCHANGED cache /\ UNCHANGED locks /\ creditLock' = creditLock /\ reply' = reply
    BY DEF LoadSecond, locks
  <1>2. session' = [session EXCEPT ![w] = s]
    BY Steady DEF LoadSecond
  <1>3. a \in Accounts
    <2>1. Debited(w) \in Accounts /\ Credited(w) \in Accounts
      BY <1>1, Steady DEF SessionSound
    <2> QED BY <1>1, <2>1, OwnAccount DEF Checked
  <1>4. balance[a] \in Nat
    BY <1>3 DEF IInv, TypeOK
  <1> HIDE DEF a
  <1>5. s \in SessionType /\ s.id = session[w].id /\ s.req = session[w].req
    BY <1>3, <1>4, BalanceLoaded, Steady
  <1> HIDE DEF s
  <1>6. /\ Serving(w) /\ session'[w] = s /\ pc'[w] = "debit" /\ "debit" \in Stages
    BY <1>1, <1>2, Steady DEF Serving, Stages
  <1>7. SessionSound(w)'
    BY <1>1, <1>5, <1>6, StageReached
  <1> QED BY <1>1, <1>2, <1>5, <1>6, <1>7, SameCache, SameLocks, HandlerMoves

LEMMA PostDebitStep ==
  ASSUME IInv, NEW w \in Workers, PostDebit(w)
  PROVE  IInv'
  <1> DEFINE a == Debited(w)
  <1> DEFINE n == Posted(a, "debit", w)
  <1> DEFINE s == [session[w] EXCEPT !.bal[a] = n]
  <1>1. /\ pc[w] = "debit" /\ pc' = [pc EXCEPT ![w] = "entry"]
        /\ RowFree(rowLock, a, w) /\ PositiveBalance(n)
        /\ session' = [session EXCEPT ![w] = s]
        /\ rowLock' = Taken(rowLock, a, w)
        /\ writer' = IF engine = "sqlite" THEN w ELSE writer
        /\ UNCHANGED <<engine, database, reply, ops>> /\ UNCHANGED <<engine, database, ops>>
        /\ UNCHANGED cache /\ creditLock' = creditLock /\ reply' = reply
    BY DEF PostDebit
  <1>2. a \in Accounts /\ Serving(w) /\ Amount(w) \in Nat \ {0}
    BY <1>1, Steady DEF SessionSound, Serving
  <1>3. n \in Nat
    <2>1. session[w].bal[a] \in Nat
      BY <1>2, Steady DEF SessionType
    <2>2. n >= 0
      BY <1>1 DEF PositiveBalance
    <2> QED BY <1>2, <2>1, <2>2 DEF Posted
  <1>4. s \in SessionType /\ s.id = session[w].id /\ s.req = session[w].req
    BY <1>2, <1>3, BalanceLoaded
  <1> HIDE DEF s, n, a
  <1>5. session'[w] = s /\ pc'[w] = "entry" /\ "entry" \in Stages
    BY <1>1, Steady DEF Stages
  <1>6. SessionSound(w)'
    BY <1>1, <1>2, <1>4, <1>5, StageReached
  <1>7. LocksTyped' /\ CacheTyped'
    <2>1. /\ rowLock \in [Accounts -> Workers \cup {NoOne}]
          /\ creditLock \in [CreditIds -> Workers \cup {NoOne}]
          /\ writer \in Workers \cup {NoOne}
      BY DEF IInv, TypeOK
    <2>2. rowLock' \in [Accounts -> Workers \cup {NoOne}]
      BY <1>1, <1>2, <2>1, LockTaken
    <2> QED BY <1>1, <2>1, <2>2, SameCache DEF LocksTyped
  <1> QED BY <1>1, <1>2, <1>4, <1>5, <1>6, <1>7, HandlerMoves

LEMMA RereadStep ==
  ASSUME IInv, NEW w \in Workers, Reread(w)
  PROVE  IInv'
  <1> DEFINE s == [session[w] EXCEPT !.seen = credits[Target(w)]]
  <1>1. /\ pc[w] = "reread" /\ pc' = [pc EXCEPT ![w] = "update"]
        /\ session' = [session EXCEPT ![w] = s]
        /\ UNCHANGED <<engine, database, reply, ops>> /\ UNCHANGED <<engine, database, ops>>
        /\ UNCHANGED cache /\ UNCHANGED locks /\ creditLock' = creditLock /\ reply' = reply
    BY DEF Reread, locks
  <1>2. Serving(w) /\ Target(w) \in CreditIds /\ session[w] \in SessionType
    BY <1>1, Steady DEF Serving
  <1>3. credits[Target(w)] \in CreditType
    BY <1>2 DEF IInv, TypeOK
  <1>4. s \in SessionType /\ s.id = session[w].id /\ s.req = session[w].req
    BY <1>2, <1>3 DEF SessionType
  <1> HIDE DEF s
  <1>5. session'[w] = s /\ pc'[w] = "update" /\ "update" \in Stages
    BY <1>1, Steady DEF Stages
  <1>6. SessionSound(w)'
    BY <1>1, <1>2, <1>4, <1>5, StageReached
  <1> QED BY <1>1, <1>2, <1>4, <1>5, <1>6, SameCache, SameLocks, HandlerMoves

LEMMA EvictStep ==
  ASSUME IInv, NEW w \in Workers, Evict(w)
  PROVE  IInv'
  <1> DEFINE s == [session[w] EXCEPT !.evict = Tail(@)]
  <1>1. /\ pc[w] = "evict" /\ pc' = pc /\ session[w].evict # <<>>
        /\ session' = [session EXCEPT ![w] = s]
        /\ UNCHANGED <<engine, database, reply, ops>> /\ UNCHANGED <<engine, database, ops>>
        /\ UNCHANGED locks /\ creditLock' = creditLock /\ reply' = reply
        /\ \/ cache' = [cache EXCEPT ![Head(session[w].evict)] = {}]
           \/ UNCHANGED cache
    BY DEF Evict, locks
  <1>2. Serving(w) /\ session[w] \in SessionType /\ session[w].evict \in Seq(Users)
    BY <1>1, Steady DEF Serving, SessionType
  <1>3. Tail(session[w].evict) \in Seq(Users)
    BY <1>1, <1>2
  <1>4. s \in SessionType /\ s.id = session[w].id /\ s.req = session[w].req
    BY <1>2, <1>3 DEF SessionType
  <1> HIDE DEF s
  <1>5. /\ session'[w] = s /\ pc'[w] = "evict" /\ "evict" \in Stages
        /\ pc' = [pc EXCEPT ![w] = "evict"]
    BY <1>1, Steady DEF Stages
  <1>6. SessionSound(w)'
    BY <1>1, <1>2, <1>4, <1>5, StageReached
  <1>7. CacheTyped'
    <2>1. cache \in [Users -> SUBSET ListingRow]
      BY DEF IInv, TypeOK, ListingRow
    <2> QED BY <1>1, <2>1 DEF CacheTyped
  <1> QED BY <1>1, <1>2, <1>4, <1>5, <1>6, <1>7, SameLocks, HandlerMoves

LEMMA LoadLiabilityStep ==
  ASSUME IInv, NEW w \in Workers, LoadLiability(w)
  PROVE  IInv'
  <1> DEFINE a == Liability(User(w))
  <1> DEFINE s == IF a \in Accounts THEN [session[w] EXCEPT !.bal[a] = balance[a]]
                  ELSE session[w]
  <1>1. /\ pc[w] = "emission" /\ pc' = [pc EXCEPT ![w] = "emit"]
        /\ UNCHANGED <<engine, database, reply, ops>> /\ UNCHANGED <<engine, database, ops>>
        /\ UNCHANGED cache /\ UNCHANGED locks /\ creditLock' = creditLock /\ reply' = reply
    BY DEF LoadLiability, locks
  <1>2. session' = [session EXCEPT ![w] = s]
    BY Steady DEF LoadLiability
  <1>3. a \in Accounts => balance[a] \in Nat
    BY DEF IInv, TypeOK
  <1> HIDE DEF a
  <1>4. s \in SessionType /\ s.id = session[w].id /\ s.req = session[w].req
    BY <1>3, BalanceLoaded, Steady
  <1> HIDE DEF s
  <1>5. /\ Serving(w) /\ session'[w] = s /\ pc'[w] = "emit" /\ "emit" \in Stages
    BY <1>1, <1>2, Steady DEF Serving, Stages
  <1>6. SessionSound(w)'
    BY <1>1, <1>4, <1>5, StageReached
  <1> QED BY <1>1, <1>2, <1>4, <1>5, <1>6, SameCache, SameLocks, HandlerMoves

(* A listing holds rows of credits that are there.                         *)
LEMMA ListingTyped ==
  ASSUME IInv, NEW u \in Users
  PROVE  Listing(u) \subseteq ListingRow
  <1>1. \A c \in CreditIds : credits[c].owner = u => credits[c] \in CreditRow
    BY CreditRows DEF IInv, TypeOK
  <1> QED BY <1>1 DEF Listing, ListingRow, CreditRow

LEMMA CacheMissStep ==
  ASSUME IInv, NEW w \in Workers, CacheMiss(w)
  PROVE  IInv'
  <1> DEFINE s == [session[w] EXCEPT !.listing = Listing(User(w))]
  <1>1. /\ pc[w] = "list" /\ pc' = [pc EXCEPT ![w] = "fill"]
        /\ session' = [session EXCEPT ![w] = s]
        /\ UNCHANGED <<engine, database, reply, ops>> /\ UNCHANGED <<engine, database, ops>>
        /\ UNCHANGED cache /\ UNCHANGED locks /\ creditLock' = creditLock /\ reply' = reply
    BY DEF CacheMiss, locks
  <1>2. Serving(w) /\ User(w) \in Users /\ session[w] \in SessionType
    BY <1>1, Steady DEF Serving
  <1>3. Listing(User(w)) \subseteq ListingRow
    BY <1>2, ListingTyped
  <1>4. s \in SessionType /\ s.id = session[w].id /\ s.req = session[w].req
    BY <1>2, <1>3 DEF SessionType, ListingRow
  <1> HIDE DEF s
  <1>5. session'[w] = s /\ pc'[w] = "fill" /\ "fill" \in Stages
    BY <1>1, Steady DEF Stages
  <1>6. SessionSound(w)'
    BY <1>1, <1>2, <1>4, <1>5, StageReached
  <1> QED BY <1>1, <1>2, <1>4, <1>5, <1>6, SameCache, SameLocks, HandlerMoves

-----------------------------------------------------------------------------
(* The commits.                                                            *)

LEMMA HandlerCommits ==
  ASSUME IInv, NEW w \in Workers, Serving(w), NEW stage \in Stages, NEW s \in SessionType,
         s.id = session[w].id,
         pc' = [pc EXCEPT ![w] = stage], session' = [session EXCEPT ![w] = s],
         reply' = reply, UNCHANGED cache, LocksTyped',
         Grows(w), DatabaseTyped', InventoryFollowsLedger', PostedBefore',
         SessionSound(w)'
  PROVE  IInv'
  <1>1. /\ pc \in [Workers -> Stages] /\ session \in [Workers -> SessionType]
        /\ reply \in [Workers -> ReplyType]
    BY Steady
  <1>2. /\ pc' \in [Workers -> Stages] /\ session' \in [Workers -> SessionType]
        /\ reply' \in [Workers -> ReplyType] /\ session'[w] = s /\ reply'[w] = reply[w]
        /\ \A v \in Workers \ {w} :
              pc'[v] = pc[v] /\ session'[v] = session[v] /\ reply'[v] = reply[v]
    BY <1>1
  <1>3. HandlersTyped'
    BY <1>2 DEF HandlersTyped, SessionType, ReplyType
  <1>4. AnswerSound(w)' /\ CacheTyped'
    BY <1>2, AnswerKept, SameCache
  <1>5. IdsDistinct'
    BY <1>2, <1>3, IdsKept
  <1> QED BY <1>2, <1>3, <1>4, <1>5, Together

(* What a handler relies on after one of its commits.                      *)
LEMMA CommitReached ==
  ASSUME IInv, NEW w \in Workers, Serving(w), Op(w) # "list",
         session'[w].req = session[w].req, session'[w].id = session[w].id,
         reply'[w] = reply[w], ops' = ops, pc'[w] \in {"reread", "evict"},
         pc'[w] = "reread" =>
            Op(w) \in SpendOps /\ credits'[Target(w)] # Absent /\ KnownRecipient(w),
         Op(w) \in PostingOps =>
            \E i \in DOMAIN postings' : /\ postings'[i].id = Id(w) /\ postings'[i].op = Op(w)
                                       /\ postings'[i].amount = Amount(w),
         pc'[w] = "evict" /\ Op(w) = "mint" => credits'[Id(w)] # Absent,
         pc'[w] = "evict" /\ Op(w) = "retire" => \E c \in certificates' : c.id = Id(w)
  PROVE  SessionSound(w)'
  <1>1. /\ session[w].req \in Requests /\ reply[w].status = 0
        /\ Id(w) \in 1..MaxOps /\ Id(w) <= ops
    BY Steady DEF SessionSound
  <1>2. /\ pc'[w] \notin Checked /\ pc'[w] \notin Unposted
        /\ pc'[w] \notin {"emission", "emit"} /\ pc'[w] \notin {"list", "fill"}
        /\ pc'[w] \notin {"second", "debit", "entry"}
        /\ pc'[w] \in {"credit", "reread", "update"} => pc'[w] = "reread"
        /\ pc'[w] \in Checked \cup {"reread", "update"} => pc'[w] = "reread"
    BY DEF Checked, Unposted
  <1>3. /\ Op(w)' = Op(w) /\ Target(w)' = Target(w) /\ Amount(w)' = Amount(w)
        /\ Id(w)' = Id(w) /\ KnownRecipient(w)' = KnownRecipient(w)
    BY SameRequest
  <1> HIDE DEF IInv
  <1> QED BY <1>1, <1>2, <1>3 DEF SessionSound, IsPosted

LEMMA PostingAppended ==
  ASSUME IInv, NEW p \in PostingType, postings' = Append(postings, p)
  PROVE  /\ postings' \in Seq(PostingType)
         /\ \A id, op, amount : IsPosted(id, op, amount) => IsPosted(id, op, amount)'
         /\ \A id : Made(id) => Made(id)'
         /\ \A id : Made(id)' => Made(id) \/ id = p.id
         /\ \E i \in DOMAIN postings' : postings'[i] = p
         /\ \A i \in DOMAIN postings' :
               postings'[i].id = p.id \/ (i \in DOMAIN postings /\ postings'[i] = postings[i])
  <1>1. postings \in Seq(PostingType) /\ Len(postings) \in Nat
        /\ DOMAIN postings = 1..Len(postings)
    BY PostingsTyped DEF IInv
  <1>2. /\ postings' \in Seq(PostingType) /\ Len(postings') = Len(postings) + 1
        /\ \A i \in 1..Len(postings) : postings'[i] = postings[i]
        /\ postings'[Len(postings) + 1] = p
        /\ DOMAIN postings' = 1..Len(postings) + 1
    BY <1>1
  <1>3. \A i \in DOMAIN postings' :
          \/ i \in DOMAIN postings /\ postings'[i] = postings[i]
          \/ i = Len(postings) + 1 /\ postings'[i] = p
    BY <1>1, <1>2
  <1>4. \A i \in DOMAIN postings : i \in DOMAIN postings' /\ postings'[i] = postings[i]
    BY <1>1, <1>2
  <1>5. Len(postings) + 1 \in DOMAIN postings'
    BY <1>1, <1>2
  <1>6. \A id, op, amount : IsPosted(id, op, amount) => IsPosted(id, op, amount)'
    BY <1>4 DEF IsPosted
  <1>7. \A id : Made(id) => Made(id)'
    BY <1>4 DEF Made
  <1>8. \A id : Made(id)' => Made(id) \/ id = p.id
    BY <1>3 DEF Made
  <1> QED BY <1>2, <1>3, <1>5, <1>6, <1>7, <1>8

LEMMA NewCreditType ==
  ASSUME NEW w \in Workers, NEW u \in Users, NEW status \in Statuses, Amount(w) \in Nat
  PROVE  /\ NewCredit(u, w, status) \in CreditType
         /\ NewCredit(u, w, status) # Absent
  <1>1. NewCredit(u, w, status) \in CreditRow
    BY DEF NewCredit, CreditRow
  <1> QED BY <1>1, CreditRows

LEMMA PostCreditStep ==
  ASSUME IInv, NEW w \in Workers, PostCredit(w)
  PROVE  IInv'
  <1> DEFINE d == Debited(w)
  <1> DEFINE a == Credited(w)
  <1> DEFINE n == Posted(a, "credit", w)
  <1> DEFINE p == Posting(w)
  <1> DEFINE s == [session[w] EXCEPT !.evict = <<User(w)>>]
  <1> DEFINE stage == IF Op(w) = "mint" THEN "evict" ELSE "reread"
  <1> DEFINE new == NewCredit(User(w), w, "active")
  <1>1. /\ pc[w] = "entry" /\ pc' = [pc EXCEPT ![w] = stage]
        /\ PositiveBalance(n)
        /\ balance' = [balance EXCEPT ![d] = session[w].bal[d], ![a] = n]
        /\ postings' = Append(postings, p)
        /\ credits' = IF Op(w) # "mint" THEN credits
                      ELSE [credits EXCEPT ![session[w].id] = new]
        /\ session' = [session EXCEPT ![w] = s] /\ ReleaseAll(w)
        /\ engine' = engine /\ reply' = reply /\ certificates' = certificates
        /\ footprint' = footprint /\ cache' = cache /\ ops' = ops
    BY DEF PostCredit
  <1>2. /\ Serving(w) /\ SessionSound(w) /\ User(w) \in Users /\ Target(w) \in CreditIds
        /\ Amount(w) \in Nat \ {0} /\ session[w] \in SessionType
        /\ session[w].id \in Nat /\ ops \in Nat /\ ops <= MaxOps /\ MaxOps \in Nat
    BY <1>1, Steady DEF Serving
  <1>3. /\ Op(w) \in PostingOps /\ Op(w) # "list" /\ d \in Accounts /\ a \in Accounts
        /\ Id(w) \in 1..MaxOps /\ Id(w) = session[w].id /\ Id(w) <= ops
        /\ session[w].req \in Requests /\ reply[w].status = 0
        /\ Op(w) \in SpendOps => credits[Target(w)] # Absent /\ KnownRecipient(w)
    BY <1>1, <1>2 DEF SessionSound, Checked, Id, PostingOps
  <1>4. p \in PostingType /\ p.id = Id(w) /\ p.op = Op(w) /\ p.amount = Amount(w)
    BY <1>2, <1>3 DEF Posting, PostingType, PostingOps
  <1>5. new \in CreditType /\ new # Absent
    BY <1>2, NewCreditType DEF Statuses
  <1>6. n \in Nat /\ session[w].bal[d] \in Nat
    <2>1. session[w].bal[a] \in Nat /\ session[w].bal[d] \in Nat
      BY <1>2, <1>3 DEF SessionType
    <2>2. n >= 0
      BY <1>1 DEF PositiveBalance
    <2> QED BY <1>2, <2>1, <2>2 DEF Posted
  <1>7. s \in SessionType /\ s.id = session[w].id /\ s.req = session[w].req
    <2>1. <<User(w)>> \in Seq(Users)
      BY <1>2
    <2> QED BY <1>2, <2>1 DEF SessionType
  <1> HIDE DEF d, a, n, p, s, new
  <1>8. /\ stage \in Stages /\ session'[w] = s /\ pc'[w] = stage
    BY <1>1, Steady DEF Stages
  <1>9. /\ postings' \in Seq(PostingType)
        /\ \A id, op, amount : IsPosted(id, op, amount) => IsPosted(id, op, amount)'
        /\ \A id : Made(id) => Made(id)'
        /\ \A id : Made(id)' => Made(id) \/ id = p.id
        /\ \E i \in DOMAIN postings' : postings'[i] = p
        /\ \A i \in DOMAIN postings' :
              postings'[i].id = p.id \/ (i \in DOMAIN postings /\ postings'[i] = postings[i])
    BY <1>1, <1>4, PostingAppended
  <1>10. credits \in [CreditIds -> CreditType] /\ balance \in [Accounts -> Nat]
         /\ InventoryFollowsLedger /\ PostedBefore
    BY DEF IInv, TypeOK, PostedBefore
  <1>11. /\ credits' \in [CreditIds -> CreditType]
         /\ \A c \in CreditIds : credits[c] # Absent => credits'[c] # Absent
         /\ \A c \in CreditIds : credits'[c] # credits[c] => c = Id(w)
         /\ Op(w) = "mint" => credits'[Id(w)] # Absent
    BY <1>1, <1>3, <1>5, <1>10 DEF CreditIds
  <1>12. LocksTyped' /\ \A c \in CreditIds : \A v \in Workers \ {w} :
                           creditLock[c] = v => creditLock'[c] = v
    BY <1>1, Released
  <1>13. Grows(w)
    <2>1. \A id : Made(id)' => Made(id) \/ (id = Id(w) /\ Serving(w) /\ id # 0)
      BY <1>2, <1>3, <1>4, <1>9
    <2>2. ops' \in Nat /\ ops <= ops'
      <3>1. ops' = ops
        BY <1>1
      <3>2. ops \in Nat
        BY <1>2
      <3> QED BY <3>1, <3>2
    <2>3. certificates \subseteq certificates'
      BY <1>1
    <2> QED BY <1>1, <1>9, <1>11, <1>12, <2>1, <2>2, <2>3 DEF Grows
  <1>14. DatabaseTyped'
    <2>1. balance' \in [Accounts -> Nat]
      BY <1>1, <1>3, <1>6, <1>10
    <2> QED BY <1>1, <1>9, <1>11, <2>1 DEF IInv, TypeOK, DatabaseTyped
  <1>15. InventoryFollowsLedger'
    <2>1. \A c \in certificates' : IsPosted(c.id, "retire", c.amount)'
      BY <1>1, <1>9, <1>10 DEF InventoryFollowsLedger
    <2>2. ASSUME NEW c \in CreditIds \ DOMAIN OpeningCredits, credits'[c] # Absent
          PROVE  Made(c)'
      <3>1. CASE c = Id(w)
        BY <1>4, <1>9, <3>1 DEF Made
      <3>2. CASE c # Id(w)
        BY <1>9, <1>10, <1>11, <2>2, <3>2 DEF InventoryFollowsLedger, Made
      <3> QED BY <3>1, <3>2
    <2> QED BY <2>1, <2>2 DEF InventoryFollowsLedger, IsPosted, Made
  <1>16. PostedBefore'
    BY <1>1, <1>3, <1>4, <1>9, <1>10 DEF PostedBefore
  <1>17. SessionSound(w)'
    <2>1. \E i \in DOMAIN postings' : /\ postings'[i].id = Id(w) /\ postings'[i].op = Op(w)
                                      /\ postings'[i].amount = Amount(w)
      BY <1>4, <1>9
    <2>2. stage = "reread" => Op(w) \in SpendOps /\ credits'[Target(w)] # Absent
                              /\ KnownRecipient(w)
      BY <1>2, <1>3, <1>11 DEF SpendOps, PostingOps
    <2>3. stage \in {"reread", "evict"} /\ (stage = "evict" => Op(w) = "mint")
      OBVIOUS
    <2> HIDE DEF stage
    <2> QED BY <1>1, <1>2, <1>3, <1>7, <1>8, <1>11, <2>1, <2>2, <2>3, CommitReached
  <1> HIDE DEF stage
  <1> QED BY <1>1, <1>2, <1>7, <1>8, <1>12, <1>13, <1>14, <1>15, <1>16, <1>17, HandlerCommits

(* A commit that posts nothing.                                            *)
LEMMA LedgerSame ==
  ASSUME IInv, NEW w \in Workers, engine' = engine, postings' = postings, ops' = ops,
         \A c \in CreditIds : credits[c] # Absent => credits'[c] # Absent,
         certificates \subseteq certificates', UNCHANGED locks
  PROVE  Grows(w) /\ PostedBefore' /\ LocksTyped'
  <1>1. /\ \A id : Made(id)' <=> Made(id)
        /\ \A id, op, amount : IsPosted(id, op, amount)' <=> IsPosted(id, op, amount)
    BY DEF Made, IsPosted
  <1>2. ops \in Nat
    BY Steady
  <1>3. LocksTyped' /\ \A c \in CreditIds : \A v \in Workers \ {w} :
                          creditLock[c] = v => creditLock'[c] = v
    BY SameLocks
  <1>4. PostedBefore'
    BY DEF IInv, PostedBefore
  <1> HIDE DEF IInv
  <1> QED BY <1>1, <1>2, <1>3, <1>4 DEF Grows

(* The second commit of a transfer or retirement, as an insertion, a       *)
(* change of the credit, or neither.                                       *)
LEMMA InventoryChanged ==
  ASSUME IInv, NEW w \in Workers, pc[w] = "update", HandOver(w) \/ Burn(w)
  PROVE  /\ credits' \in [CreditIds -> CreditType]
         /\ \A c \in CreditIds : credits[c] # Absent => credits'[c] # Absent
         /\ \A c \in CreditIds : credits[c] = Absent /\ credits'[c] # Absent => c = Id(w)
  <1> DEFINE to == session[w].req.to
  <1> DEFINE t == Target(w)
  <1>1. /\ SessionSound(w) /\ User(w) \in Users /\ t \in CreditIds /\ Serving(w)
        /\ Amount(w) \in Nat \ {0} /\ session[w] \in SessionType
    BY Steady DEF Serving
  <1>2. /\ credits[t] # Absent /\ Op(w) \in SpendOps /\ Id(w) \in 1..MaxOps
        /\ Op(w) = "transfer" => to \in Users
    BY <1>1 DEF SessionSound, KnownRecipient, SpendOps, Checked
  <1>3. credits \in [CreditIds -> CreditType] /\ credits[t] \in CreditRow
        /\ Id(w) \in CreditIds
    BY <1>1, <1>2, CreditRows DEF IInv, TypeOK, CreditIds
  <1>4. session[w].seen.amount \in Int
    BY <1>1, CreditRows DEF SessionType
  <1> DEFINE left == [credits[t] EXCEPT !.amount = session[w].seen.amount - Amount(w)]
  <1>5. left \in CreditRow
    BY <1>1, <1>3, <1>4 DEF CreditRow
  <1>6. ASSUME NEW owner \in Users, NEW status \in Statuses, credits' = Split(w, owner, status)
        PROVE  /\ credits' \in [CreditIds -> CreditType]
               /\ \A c \in CreditIds \ {Id(w)} :
                     credits'[c] = credits[c] \/ (c = t /\ credits'[c] \in CreditRow)
               /\ credits'[Id(w)] # Absent
    <2> DEFINE new == NewCredit(owner, w, status)
    <2>1. new \in CreditType /\ new # Absent
      BY <1>1, NewCreditType
    <2> HIDE DEF new, left
    <2>2. credits' = [credits EXCEPT ![t] = left, ![Id(w)] = new]
      BY <1>6 DEF Split, left, new, Id
    <2> HIDE DEF t
    <2> QED BY <1>1, <1>3, <1>5, <2>1, <2>2, CreditRows
  <1>7. ASSUME NEW row \in CreditRow, credits' = [credits EXCEPT ![t] = row]
        PROVE  /\ credits' \in [CreditIds -> CreditType]
               /\ \A c \in CreditIds : credits'[c] = credits[c] \/ credits'[c] \in CreditRow
               /\ \A c \in CreditIds : credits[c] = Absent => credits'[c] = credits[c]
    <2> HIDE DEF t
    <2> QED BY <1>2, <1>3, <1>7, CreditRows
  <1>8. CASE HandOver(w)
    <2>1. to \in Users /\ "active" \in Statuses
      BY <1>2, <1>8 DEF HandOver, Statuses
    <2>2. [credits[t] EXCEPT !.owner = to] \in CreditRow
      BY <1>3, <2>1 DEF CreditRow
    <2>3. \/ credits' = Split(w, to, "active")
          \/ credits' = credits
          \/ credits' = [credits EXCEPT ![t] = [credits[t] EXCEPT !.owner = to]]
      BY <1>8 DEF HandOver
    <2> HIDE DEF t, to, left
    <2> QED BY <1>2, <1>3, <1>6, <1>7, <2>1, <2>2, <2>3, CreditRows
  <1>9. CASE Burn(w)
    <2>1. "retired" \in Statuses
      BY DEF Statuses
    <2>2. [credits[t] EXCEPT !.status = "retired"] \in CreditRow
      BY <1>3, <2>1 DEF CreditRow
    <2>3. \/ credits' = Split(w, User(w), "retired")
          \/ credits' = [credits EXCEPT ![t] = [credits[t] EXCEPT !.status = "retired"]]
      BY <1>9 DEF Burn
    <2> HIDE DEF t, to, left
    <2> QED BY <1>1, <1>2, <1>3, <1>6, <1>7, <2>1, <2>2, <2>3, CreditRows
  <1> QED BY <1>8, <1>9

LEMMA UpdateInventoryStep ==
  ASSUME IInv, NEW w \in Workers, UpdateInventory(w)
  PROVE  IInv'
  <1> DEFINE to == session[w].req.to
  <1> DEFINE s == IF Op(w) = "transfer" THEN [session[w] EXCEPT !.evict = <<User(w), to>>]
                  ELSE session[w]
  <1> DEFINE cert == Certificate(w)
  <1>1. /\ pc[w] = "update" /\ (HandOver(w) \/ Burn(w))
        /\ pc' = [pc EXCEPT ![w] = "evict"]
        /\ engine' = engine /\ reply' = reply /\ balance' = balance /\ postings' = postings
        /\ footprint' = footprint /\ cache' = cache /\ ops' = ops /\ UNCHANGED locks
    BY DEF UpdateInventory
  <1>2. /\ Serving(w) /\ SessionSound(w) /\ User(w) \in Users /\ Target(w) \in CreditIds
        /\ Amount(w) \in Nat \ {0} /\ session[w] \in SessionType
    BY <1>1, Steady DEF Serving
  <1>3. /\ Op(w) \in SpendOps /\ Op(w) # "list" /\ Op(w) # "mint" /\ Id(w) \in 1..MaxOps
        /\ Op(w) = "transfer" => to \in Users
        /\ IsPosted(Id(w), Op(w), Amount(w))
    BY <1>1, <1>2 DEF SessionSound, KnownRecipient, SpendOps, PostingOps, Checked
  <1>4. s \in SessionType /\ s.id = session[w].id /\ s.req = session[w].req
    <2>1. Op(w) = "transfer" => <<User(w), to>> \in Seq(Users)
      BY <1>2, <1>3
    <2> HIDE DEF to
    <2> QED BY <1>2, <2>1 DEF SessionType
  <1>5. session' = [session EXCEPT ![w] = s]
    BY <1>1, Steady DEF HandOver, Burn
  <1>6. /\ certificates' \in {certificates, certificates \cup {cert}}
        /\ certificates' # certificates => Op(w) = "retire"
        /\ Op(w) = "retire" => cert \in certificates'
    BY <1>1 DEF HandOver, Burn
  <1>7. /\ cert \in [id: 1..MaxOps, user: Users, credit: CreditIds, amount: Nat \ {0}]
        /\ cert.id = Id(w) /\ cert.amount = Amount(w)
    BY <1>2, <1>3 DEF Certificate, Id
  <1> HIDE DEF s, cert, to
  <1>8. session'[w] = s /\ pc'[w] = "evict" /\ "evict" \in Stages
    BY <1>1, <1>5, Steady DEF Stages
  <1>9. /\ credits' \in [CreditIds -> CreditType]
        /\ \A c \in CreditIds : credits[c] # Absent => credits'[c] # Absent
        /\ \A c \in CreditIds : credits[c] = Absent /\ credits'[c] # Absent => c = Id(w)
    BY <1>1, InventoryChanged
  <1>10. Grows(w) /\ PostedBefore' /\ LocksTyped'
    <2>1. certificates \subseteq certificates'
      BY <1>6
    <2> QED BY <1>1, <1>9, <2>1, LedgerSame
  <1>11. DatabaseTyped'
    <2>1. certificates' \subseteq
            [id: 1..MaxOps, user: Users, credit: CreditIds, amount: Nat \ {0}]
      BY <1>6, <1>7 DEF IInv, TypeOK
    <2> QED BY <1>1, <1>9, <2>1 DEF IInv, TypeOK, DatabaseTyped
  <1>12. InventoryFollowsLedger'
    <2>1. InventoryFollowsLedger
      BY DEF IInv
    <2>2. ASSUME NEW c \in certificates'
          PROVE  IsPosted(c.id, "retire", c.amount)
      <3>1. CASE c \in certificates
        BY <2>1, <3>1 DEF InventoryFollowsLedger
      <3>2. CASE c \notin certificates
        <4>1. c = cert /\ Op(w) = "retire"
          BY <1>6, <2>2, <3>2
        <4> QED BY <1>3, <1>7, <4>1
      <3> QED BY <3>1, <3>2
    <2>3. ASSUME NEW c \in CreditIds \ DOMAIN OpeningCredits, credits'[c] # Absent
          PROVE  \E i \in DOMAIN postings : postings[i].id = c
      <3>1. CASE credits[c] # Absent
        BY <2>1, <3>1 DEF InventoryFollowsLedger
      <3>2. CASE credits[c] = Absent
        BY <1>3, <1>9, <2>3, <3>2 DEF IsPosted
      <3> QED BY <3>1, <3>2
    <2> QED BY <1>1, <2>2, <2>3 DEF InventoryFollowsLedger, IsPosted
  <1>13. SessionSound(w)'
    <2>1. \E i \in DOMAIN postings' : /\ postings'[i].id = Id(w) /\ postings'[i].op = Op(w)
                                      /\ postings'[i].amount = Amount(w)
      BY <1>1, <1>3 DEF IsPosted
    <2>2. Op(w) = "retire" => \E c \in certificates' : c.id = Id(w)
      BY <1>6, <1>7
    <2> QED BY <1>1, <1>2, <1>3, <1>4, <1>8, <2>1, <2>2, CommitReached
  <1> QED BY <1>1, <1>2, <1>4, <1>5, <1>8, <1>10, <1>11, <1>12, <1>13, HandlerCommits

LEMMA EmitStep ==
  ASSUME IInv, NEW w \in Workers, Emit(w)
  PROVE  IInv'
  <1> DEFINE a == Liability(User(w))
  <1>1. /\ pc[w] = "emit" /\ pc' = [pc EXCEPT ![w] = "evict"]
        /\ balance' = IF a \in Accounts
                      THEN [balance EXCEPT ![a] = session[w].bal[a] + Amount(w)] ELSE balance
        /\ footprint' = [footprint EXCEPT ![User(w)] = @ + Amount(w)]
        /\ engine' = engine /\ session' = session /\ reply' = reply /\ credits' = credits
        /\ postings' = postings /\ certificates' = certificates /\ cache' = cache
        /\ UNCHANGED locks /\ ops' = ops
    BY DEF Emit
  <1>2. /\ Serving(w) /\ SessionSound(w) /\ User(w) \in Users /\ Amount(w) \in Nat \ {0}
        /\ session[w] \in SessionType /\ session' = [session EXCEPT ![w] = session[w]]
        /\ session[w].bal \in [Accounts -> Nat]
    BY <1>1, Steady DEF Serving, SessionType
  <1>3. Op(w) = "emit"
    BY <1>1, <1>2 DEF SessionSound
  <1>4. balance' \in [Accounts -> Nat]
    <2>1. balance \in [Accounts -> Nat]
      BY DEF IInv, TypeOK
    <2>2. a \in Accounts => session[w].bal[a] + Amount(w) \in Nat
      BY <1>2
    <2> HIDE DEF a
    <2> QED BY <1>1, <2>1, <2>2
  <1>5. footprint' \in [Users -> Nat]
    <2>1. footprint \in [Users -> Nat] /\ footprint[User(w)] + Amount(w) \in Nat
      BY <1>2 DEF IInv, TypeOK
    <2> QED BY <1>1, <2>1
  <1>6. Grows(w) /\ PostedBefore' /\ LocksTyped'
    BY <1>1, LedgerSame
  <1>7. DatabaseTyped'
    BY <1>1, <1>4, <1>5 DEF IInv, TypeOK, DatabaseTyped
  <1>8. InventoryFollowsLedger'
    BY <1>1 DEF IInv, InventoryFollowsLedger, IsPosted
  <1>9. pc'[w] = "evict" /\ "evict" \in Stages
    BY <1>1, Steady DEF Stages
  <1>10. SessionSound(w)'
    BY <1>1, <1>2, <1>3, <1>9, CommitReached DEF PostingOps
  <1> QED BY <1>1, <1>2, <1>6, <1>7, <1>8, <1>9, <1>10, HandlerCommits

-----------------------------------------------------------------------------
(* The beginning and the ways a request ends.                              *)

LEMMA SubmitStep ==
  ASSUME IInv, NEW w \in Workers, NEW r \in Requests, Submit(w, r)
  PROVE  IInv'
  <1> DEFINE id == IF r.op = "list" THEN 0 ELSE ops + 1
  <1> DEFINE s == [NoSession EXCEPT !.id = id, !.req = r]
  <1> DEFINE answer == [status |-> 0, id |-> 0, op |-> r.op]
  <1> DEFINE stage == FirstStage(r.op)
  <1>1. /\ pc[w] = "idle" /\ pc' = [pc EXCEPT ![w] = stage]
        /\ session' = [session EXCEPT ![w] = s]
        /\ reply' = [reply EXCEPT ![w] = answer]
        /\ r.op # "list" => ops < MaxOps
        /\ ops' = IF r.op = "list" THEN ops ELSE ops + 1
        /\ UNCHANGED <<engine, database>> /\ UNCHANGED cache /\ UNCHANGED locks
        /\ engine' = engine /\ postings' = postings
    BY DEF Submit, database
  <1>2. /\ r.op \in {"mint", "transfer", "retire", "emit", "list"}
        /\ ops \in Nat /\ ops <= MaxOps /\ MaxOps \in Nat
    BY RequestTyped, Steady
  <1>3. /\ ops <= ops' /\ ops' \in 0..MaxOps /\ id \in Nat /\ id <= ops'
        /\ r.op # "list" => id \in 1..MaxOps /\ id = ops + 1
        /\ r.op = "list" => id = 0
    BY <1>1, <1>2
  <1>4. s \in SessionType /\ s.id = id /\ s.req = r
    BY <1>3, NoSessionType DEF SessionType
  <1>5. answer \in ReplyType /\ answer.status = 0 /\ answer.id = 0
    BY <1>2 DEF ReplyType
  <1>6. /\ stage \in Stages /\ stage \in {"credit", "first", "emission", "list"}
        /\ stage = "credit" <=> r.op \in SpendOps
        /\ stage = "first" <=> r.op = "mint"
        /\ stage = "emission" <=> r.op = "emit"
        /\ stage = "list" <=> r.op = "list"
    BY <1>2 DEF FirstStage, Stages, SpendOps
  <1> HIDE DEF s, answer, stage, id
  <1>7. /\ HandlersTyped'
        /\ pc'[w] = stage /\ session'[w] = s /\ reply'[w] = answer
        /\ \A v \in Workers \ {w} :
              pc'[v] = pc[v] /\ session'[v] = session[v] /\ reply'[v] = reply[v]
    BY <1>1, <1>4, <1>5, <1>6, OneHandler
  <1>8. LocksTyped' /\ CacheTyped' /\ \A c \in CreditIds : \A v \in Workers \ {w} :
                                         creditLock[c] = v => creditLock'[c] = v
    BY <1>1, SameLocks, SameCache
  <1>9. Grows(w) /\ DatabaseTyped' /\ InventoryFollowsLedger' /\ PostedBefore'
    BY <1>1, <1>3, <1>8, Quiet
  <1>10. IdsDistinct'
    BY <1>2, <1>3, <1>4, <1>5, <1>7, IdsKept
  <1>11. AnswerSound(w)'
    BY <1>3, <1>5, <1>7 DEF AnswerSound
  <1>12. SessionSound(w)'
    <2>1. Op(w)' = r.op /\ Id(w)' = id
      BY <1>4, <1>7 DEF Op, Id
    <2>2. r.op # "list" => ~ \E i \in DOMAIN postings : postings[i].id = id
      <3>1. \A i \in DOMAIN postings : postings[i].id \in Nat /\ postings[i].id <= ops
        BY PostingsTyped, RequestTyped DEF IInv, PostingType
      <3> QED BY <1>2, <1>3, <3>1
    <2>3. /\ stage \in Checked => stage = "first"
          /\ stage \in Unposted => r.op # "list"
          /\ stage \notin {"emission", "emit"} \/ stage = "emission"
          /\ stage \notin {"list", "fill"} \/ stage = "list"
          /\ stage \notin {"second", "debit", "entry"}
          /\ stage \notin {"reread", "update", "evict"}
      BY <1>6 DEF Checked, Unposted, SpendOps
    <2>4. "mint" \notin SpendOps /\ "mint" \in PostingOps
      BY DEF SpendOps, PostingOps
    <2>5. session'[w].req \in Requests /\ reply'[w].status = 0
      BY <1>4, <1>5, <1>7
    <2> HIDE DEF IInv
    <2> QED BY <1>1, <1>3, <1>6, <1>7, <2>1, <2>2, <2>3, <2>4, <2>5 DEF SessionSound, Made
  <1> QED BY <1>7, <1>8, <1>9, <1>10, <1>11, <1>12, Together

LEMMA FillStep ==
  ASSUME IInv, NEW w \in Workers, Fill(w)
  PROVE  IInv'
  <1>1. /\ pc[w] = "fill" /\ Finish(w, 200)
        /\ cache' \in {cache, [cache EXCEPT ![User(w)] = session[w].listing]}
    BY DEF Fill
  <1>2. /\ Serving(w) /\ User(w) \in Users /\ SessionSound(w)
        /\ session[w].listing \subseteq ListingRow
    BY <1>1, Steady DEF Serving, SessionType, ListingRow
  <1>3. Op(w) = "list"
    BY <1>1, <1>2 DEF SessionSound
  <1>4. CacheTyped'
    <2>1. cache \in [Users -> SUBSET ListingRow]
      BY DEF IInv, TypeOK, ListingRow
    <2> QED BY <1>1, <1>2, <2>1 DEF CacheTyped
  <1> QED BY <1>1, <1>2, <1>3, <1>4, AnswerStep

(* Every refusal has the stage its status asks for.                        *)
LEMMA Refusals ==
  ASSUME IInv, NEW w \in Workers,
         \/ CreditMissing(w) \/ CreditRefused(w) \/ AccountMissing(w) \/ Overdrawn(w)
         \/ Respond(w) \/ CacheHit(w) \/ LockFailure(w) \/ Crash(w)
  PROVE  IInv'
  <1>1. ASSUME pc[w] # "idle", NEW status \in {400, 500}, Refuse(w, status)
        PROVE  IInv'
    BY <1>1, RefuseStep DEF Serving
  <1>2. ASSUME pc[w] \in {"credit", "first"}, NEW status \in {400, 404, 500},
               Refuse(w, status)
        PROVE  IInv'
    <2>1. Serving(w) /\ pc[w] \in Unposted
      BY <1>2 DEF Serving, Unposted, Checked
    <2>2. status \in {200, 400, 404, 500} /\ status # 200
      OBVIOUS
    <2> QED BY <1>2, <2>1, <2>2, RefuseStep
  <1>3. ASSUME pc[w] = "evict" \/ pc[w] = "list", Refuse(w, 200)
        PROVE  IInv'
    <2>1. pc[w] = "list" => Op(w) = "list"
      BY Steady DEF SessionSound
    <2> QED BY <1>3, <2>1, RefuseStep DEF Serving
  <1>4. CASE CreditMissing(w)
    BY <1>2, <1>4 DEF CreditMissing
  <1>5. CASE CreditRefused(w)
    BY <1>2, <1>5 DEF CreditRefused
  <1>6. CASE AccountMissing(w)
    BY <1>2, <1>6 DEF AccountMissing
  <1>7. CASE Overdrawn(w)
    BY <1>1, <1>7 DEF Overdrawn
  <1>8. CASE Respond(w)
    BY <1>3, <1>8 DEF Respond
  <1>9. CASE CacheHit(w)
    BY <1>3, <1>9 DEF CacheHit
  <1>10. CASE LockFailure(w)
    <2>1. Deadlocked(w) \/ Busy(w) => pc[w] # "idle"
      BY DEF Deadlocked, Busy, Blocked
    <2> QED BY <1>1, <1>10, <2>1 DEF LockFailure
  <1>11. CASE Crash(w)
    <2>1. pc[w] # "idle" /\ \E status \in {400, 500} : Refuse(w, status)
      BY <1>11 DEF Crash
    <2> QED BY <1>1, <2>1
  <1> QED BY <1>4, <1>5, <1>6, <1>7, <1>8, <1>9, <1>10, <1>11

(* A key of the cache runs out: no worker moves.                           *)
LEMMA NobodyMoves ==
  ASSUME IInv, CacheTyped',
         UNCHANGED <<engine, pc, session, reply, database, locks, ops>>
  PROVE  IInv'
  <1>1. /\ engine' = engine /\ pc' = pc /\ session' = session /\ reply' = reply
        /\ balance' = balance /\ credits' = credits /\ postings' = postings
        /\ certificates' = certificates /\ footprint' = footprint
        /\ rowLock' = rowLock /\ creditLock' = creditLock /\ writer' = writer /\ ops' = ops
    BY DEF database, locks
  <1>2. TypeOK'
    <2>1. HandlersTyped'
      BY <1>1 DEF IInv, TypeOK, HandlersTyped, SessionType, ReplyType
    <2> QED BY <1>1, <2>1 DEF IInv, TypeOK, HandlersTyped, CacheTyped, ListingRow, ReplyType
  <1>3. /\ InventoryFollowsLedger' /\ IdsDistinct'
        /\ \A i \in DOMAIN postings' : postings'[i].id <= ops'
    BY <1>1 DEF IInv, InventoryFollowsLedger, IsPosted, IdsDistinct, Serving, Id
  <1>4. \A w \in Workers : SessionSound(w)' /\ AnswerSound(w)'
    <2>1. TAKE w \in Workers
    <2>2. SessionSound(w) /\ AnswerSound(w)
      BY Steady
    <2>3. SessionSound(w)'
      <3>1. /\ Op(w)' = Op(w) /\ Target(w)' = Target(w) /\ Amount(w)' = Amount(w)
            /\ Id(w)' = Id(w) /\ Debited(w)' = Debited(w) /\ Credited(w)' = Credited(w)
            /\ KnownRecipient(w)' = KnownRecipient(w) /\ Serving(w)' = Serving(w)
        BY <1>1, SameRequest DEF Serving
      <3>2. IsPosted(Id(w), Op(w), Amount(w))' <=> IsPosted(Id(w), Op(w), Amount(w))
        BY <1>1, <3>1 DEF IsPosted
      <3>3. Made(Id(w))' <=> Made(Id(w))
        BY <1>1, <3>1 DEF Made
      <3>4. SessionSound(w)
        BY <2>2
      <3>5. /\ pc'[w] = pc[w] /\ session'[w] = session[w] /\ reply'[w] = reply[w]
            /\ engine' = engine /\ ops' = ops /\ creditLock' = creditLock
            /\ credits' = credits /\ certificates' = certificates
        BY <1>1
      <3> QED BY ONLY <3>1, <3>2, <3>3, <3>4, <3>5 DEF SessionSound
    <2>4. AnswerSound(w)'
      BY <1>1, <2>2 DEF AnswerSound, Made
    <2> QED BY <2>3, <2>4
  <1> QED BY <1>2, <1>3, <1>4 DEF IInv

LEMMA ExpireStep ==
  ASSUME IInv, NEW u \in Users, Expire(u)
  PROVE  IInv'
  <1>1. CacheTyped'
    <2>1. cache \in [Users -> SUBSET ListingRow]
      BY DEF IInv, TypeOK, ListingRow
    <2> QED BY <2>1 DEF CacheTyped, Expire
  <1> QED BY <1>1, NobodyMoves DEF Expire

-----------------------------------------------------------------------------
(* The invariant holds initially and every step keeps it.                  *)

LEMMA InitIInv == Init => IInv
  <1> SUFFICES ASSUME Init PROVE IInv
    OBVIOUS
  <1>1. /\ engine \in Engines
        /\ pc = [w \in Workers |-> "idle"] /\ session = [w \in Workers |-> NoSession]
        /\ reply = [w \in Workers |-> [status |-> 0, id |-> 0, op |-> "list"]]
        /\ balance = OpeningBalance
        /\ credits = [c \in CreditIds |->
                        IF c \in DOMAIN OpeningCredits THEN OpeningCredits[c] ELSE Absent]
        /\ postings = <<>> /\ certificates = {} /\ ops = 0
        /\ footprint = [u \in Users |-> 0] /\ cache = [u \in Users |-> {}]
        /\ rowLock = [a \in Accounts |-> NoOne]
        /\ creditLock = [c \in CreditIds |-> NoOne] /\ writer = NoOne
    BY DEF Init
  <1>2. DatabaseTyped
    <2>1. balance \in [Accounts -> Nat]
      <3>1. OpeningBalance \in [Accounts -> Nat]
        BY RowsAssumption DEF Accounts
      <3> QED BY <1>1, <3>1
    <2>2. credits \in [CreditIds -> CreditType]
      <3>1. Absent \in CreditType
        BY CreditRows
      <3> QED BY <1>1, <3>1, RowsAssumption
    <2>3. postings \in Seq(PostingType) /\ footprint \in [Users -> Nat] /\ ops \in 0..MaxOps
      BY <1>1, RequestTyped
    <2> QED BY <1>1, <2>1, <2>2, <2>3 DEF DatabaseTyped
  <1>3. LocksTyped /\ CacheTyped
    BY <1>1 DEF LocksTyped, CacheTyped
  <1>4. HandlersTyped
    <2>1. [status |-> 0, id |-> 0, op |-> "list"] \in ReplyType
      BY RequestTyped DEF ReplyType
    <2>2. session \in [Workers -> SessionType] /\ pc \in [Workers -> Stages]
      BY <1>1, NoSessionType DEF Stages
    <2> QED BY <1>1, <2>1, <2>2 DEF HandlersTyped
  <1>5. TypeOK
    <2>1. engine \in {"postgresql", "sqlite"}
      BY <1>1, EnginesAssumption
    <2> QED BY <1>2, <1>3, <1>4, <2>1, TypeParts
  <1>6. InventoryFollowsLedger
    BY <1>1 DEF InventoryFollowsLedger
  <1>7. /\ \A i \in DOMAIN postings : postings[i].id <= ops
        /\ IdsDistinct
    BY <1>1 DEF IdsDistinct, Serving
  <1>8. \A w \in Workers : SessionSound(w)
    <2>1. TAKE w \in Workers
    <2>2. pc[w] = "idle" /\ Id(w) = 0 /\ ~ Serving(w)
      BY <1>1, NoSessionType DEF Id, Serving
    <2> QED BY <1>1, <2>2 DEF SessionSound, Unposted, Checked
  <1>9. \A w \in Workers : AnswerSound(w)
    BY <1>1 DEF AnswerSound
  <1> QED BY <1>5, <1>6, <1>7, <1>8, <1>9 DEF IInv

LEMMA NextIInv == IInv /\ [Next]_vars => IInv'
  <1> SUFFICES ASSUME IInv, [Next]_vars PROVE IInv'
    OBVIOUS
  <1>1. CASE UNCHANGED vars
    <2>1. /\ UNCHANGED cache
          /\ UNCHANGED <<engine, pc, session, reply, database, locks, ops>>
      BY <1>1 DEF vars
    <2> QED BY <2>1, SameCache, NobodyMoves
  <1>2. ASSUME NEW w \in Workers, Step(w)
        PROVE  IInv'
    <2>1. CASE \/ CreditMissing(w) \/ CreditRefused(w) \/ AccountMissing(w) \/ Overdrawn(w)
               \/ Respond(w) \/ CacheHit(w) \/ LockFailure(w)
      BY <2>1, Refusals
    <2>2. CASE LockCredit(w)
      BY <2>2, LockCreditStep
    <2>3. CASE LoadFirst(w)
      BY <2>3, LoadFirstStep
    <2>4. CASE LoadSecond(w)
      BY <2>4, LoadSecondStep
    <2>5. CASE PostDebit(w)
      BY <2>5, PostDebitStep
    <2>6. CASE PostCredit(w)
      BY <2>6, PostCreditStep
    <2>7. CASE Reread(w)
      BY <2>7, RereadStep
    <2>8. CASE UpdateInventory(w)
      BY <2>8, UpdateInventoryStep
    <2>9. CASE Evict(w)
      BY <2>9, EvictStep
    <2>10. CASE LoadLiability(w)
      BY <2>10, LoadLiabilityStep
    <2>11. CASE Emit(w)
      BY <2>11, EmitStep
    <2>12. CASE CacheMiss(w)
      BY <2>12, CacheMissStep
    <2>13. CASE Fill(w)
      BY <2>13, FillStep
    <2> QED BY <1>2, <2>1, <2>2, <2>3, <2>4, <2>5, <2>6, <2>7, <2>8, <2>9, <2>10, <2>11,
               <2>12, <2>13 DEF Step
  <1>3. CASE Next
    <2>1. CASE \E w \in Workers : \E r \in Requests : Submit(w, r)
      BY <2>1, SubmitStep
    <2>2. CASE \E w \in Workers : Step(w)
      BY <1>2, <2>2
    <2>3. CASE \E w \in Workers : Crash(w)
      BY <2>3, Refusals
    <2>4. CASE \E u \in Users : Expire(u)
      BY <2>4, ExpireStep
    <2> QED BY <1>3, <2>1, <2>2, <2>3, <2>4 DEF Next
  <1> QED BY <1>1, <1>3

-----------------------------------------------------------------------------
(* The theorems.                                                           *)

LEMMA Invariance == Spec => []IInv
  BY InitIInv, NextIInv, PTL DEF Spec

(* The variables keep their types; no committed or loaded balance is       *)
(* negative.                                                               *)
THEOREM TypeCorrect == Spec => []TypeOK
  <1>1. IInv => TypeOK
    BY DEF IInv
  <1> QED BY <1>1, Invariance, PTL

(* Every certificate and every new credit row has its posting, wherever a  *)
(* crash falls between the two commits.                                    *)
THEOREM InventoryHasItsPostings == Spec => []InventoryFollowsLedger
  <1>1. IInv => InventoryFollowsLedger
    BY DEF IInv
  <1> QED BY <1>1, Invariance, PTL

(* A client that is told 200 or 404 is told the truth.                     *)
THEOREM ClientsAreToldTheTruth == Spec => []AnswersAreTrue
  <1>1. IInv => AnswersAreTrue
    BY DEF IInv, AnswerSound, AnswersAreTrue, Made, PostingOps
  <1> QED BY <1>1, Invariance, PTL

(* On PostgreSQL two requests never both stand between the check of one    *)
(* credit and its posting.                                                 *)
THEOREM OneSpenderChecked == Spec => []OneCheckedSpender
  <1>1. IInv => OneCheckedSpender
    <2>1. SUFFICES ASSUME IInv, engine = "postgresql", NEW v \in Workers, NEW w \in Workers,
                          v # w, {pc[v], pc[w]} \subseteq Checked,
                          {Op(v), Op(w)} \subseteq SpendOps
                   PROVE  Target(v) # Target(w)
      BY DEF OneCheckedSpender, Checked, SpendOps
    <2>2. creditLock[Target(v)] = v /\ creditLock[Target(w)] = w
      BY <2>1, Steady DEF SessionSound
    <2> QED BY <2>1, <2>2
  <1> QED BY <1>1, Invariance, PTL

-----------------------------------------------------------------------------
(* The books of a worker that runs alone.  The balances it holds are those *)
(* of the database, so each posting moves both sides alike.                *)

(* The stages at which a worker has read a balance it is to write.         *)
Loaded == {"second", "debit", "entry", "emit"}

(* What an entry adds to account a.                                        *)
Moved(a, side, w) ==
  IF IsAsset(a) <=> side = "debit" THEN Amount(w) ELSE - Amount(w)

(* The balances a lone worker holds are those of the database, but for the *)
(* debit entry it has flushed.                                             *)
FreshSound(w) ==
  LET bal == session[w].bal
      a == Liability(User(w))
  IN /\ pc[w] = "second" => bal[Asset(User(w))] = balance[Asset(User(w))]
     /\ pc[w] = "debit" =>
           bal[Debited(w)] = balance[Debited(w)] /\ bal[Credited(w)] = balance[Credited(w)]
     /\ pc[w] = "entry" =>
           /\ bal[Debited(w)] = balance[Debited(w)] + Moved(Debited(w), "debit", w)
           /\ Debited(w) # Credited(w) => bal[Credited(w)] = balance[Credited(w)]
     /\ pc[w] = "emit" /\ a \in Accounts => bal[a] = balance[a]

(* Assets less the other accounts, and the emissions that change it.       *)
Position(of) == Total(Assets, of) - Total(Accounts \ Assets, of)
Logged == {u \in Users : Liability(u) \in Accounts}
Balanced == Position(balance) = Position(OpeningBalance) - Total(Logged, footprint)

LEMMA BooksAreBalanced == BooksBalance <=> Balanced
  BY DEF BooksBalance, Balanced, Position, Logged

LEMMA TablesFinite ==
  /\ IsFiniteSet(Assets) /\ IsFiniteSet(Accounts \ Assets) /\ IsFiniteSet(Logged)
  /\ Assets \subseteq Accounts /\ Logged \subseteq Users
  <1>1. Assets \subseteq Accounts /\ Logged \subseteq Users
    BY DEF Assets, Logged
  <1> QED BY <1>1, TablesAssumption, FS_Subset

(* One account's balance changes.                                          *)
LEMMA PositionMoves ==
  ASSUME NEW f, NEW g, NEW x \in Accounts,
         \A a \in Accounts : f[a] \in Int /\ g[a] \in Int,
         \A a \in Accounts \ {x} : f[a] = g[a]
  PROVE  /\ Position(f) \in Int
         /\ Position(g) = Position(f) + (IF IsAsset(x) THEN g[x] - f[x] ELSE f[x] - g[x])
  <1> DEFINE L == Accounts \ Assets
  <1>1. /\ Assets \subseteq Accounts /\ L \subseteq Accounts
        /\ IsFiniteSet(Assets) /\ IsFiniteSet(L) /\ (x \in Assets <=> IsAsset(x))
        /\ (x \in L <=> ~ IsAsset(x))
    BY TablesFinite DEF Assets
  <1> HIDE DEF L
  <1>2. /\ Total(Assets, f) \in Int /\ Total(L, f) \in Int
    BY <1>1, TotalType
  <1>3. CASE IsAsset(x)
    <2>1. Total(Assets, g) = Total(Assets, f) + (g[x] - f[x])
      BY <1>1, <1>3, TotalChanged
    <2>2. \A a \in L : f[a] = g[a]
      BY <1>1, <1>3
    <2>3. Total(L, g) = Total(L, f)
      BY <1>1, <2>2, TotalSame
    <2> QED BY <1>2, <1>3, <2>1, <2>3 DEF Position, L
  <1>4. CASE ~ IsAsset(x)
    <2>0. x \in L /\ \A a \in L : f[a] \in Int /\ g[a] \in Int
      BY <1>1, <1>4
    <2>10. \A a \in L \ {x} : f[a] = g[a]
      BY <1>1
    <2>1. Total(L, g) = Total(L, f) + (g[x] - f[x])
      BY <1>1, <2>0, <2>10, TotalChanged
    <2>2. \A a \in Assets : f[a] = g[a]
      BY <1>1, <1>4
    <2>3. Total(Assets, g) = Total(Assets, f)
      BY <1>1, <2>2, TotalSame
    <2> QED BY <1>2, <1>4, <2>1, <2>3 DEF Position, L
  <1> QED BY <1>3, <1>4

LEMMA InitBalanced ==
  ASSUME Init
  PROVE  Balanced
  <1>1. Total(Logged, footprint) = 0
    <2>1. \A u \in Logged : footprint[u] = 0
      BY TablesFinite DEF Init
    <2>2. Total(Logged, footprint) = Total({}, footprint)
      BY <2>1, TablesFinite, TotalFiltered
    <2> QED BY <2>2, TotalOfNothing
  <1>2. balance = OpeningBalance /\ \A a \in Accounts : balance[a] \in Int
    BY RowsAssumption DEF Init
  <1>3. Total(Assets, balance) \in Int /\ Total(Accounts \ Assets, balance) \in Int
    BY <1>2, TablesFinite, TotalType
  <1> QED BY <1>1, <1>2, <1>3 DEF Balanced, Position

(* The two entries of a posting move the position by opposite amounts.     *)
LEMMA PostingBalances ==
  ASSUME IInv, NEW w \in Workers, FreshSound(w), PostCredit(w)
  PROVE  Position(balance') = Position(balance)
  <1> DEFINE d == Debited(w)
             c == Credited(w)
             n == session[w].bal[d]
             m == Posted(c, "credit", w)
             mid == [balance EXCEPT ![d] = n]
  <1>1. /\ pc[w] = "entry" /\ balance' = [balance EXCEPT ![d] = n, ![c] = m]
    BY DEF PostCredit
  <1>2. d \in Accounts /\ c \in Accounts /\ Amount(w) \in Nat \ {0}
        /\ session[w].bal \in [Accounts -> Nat]
    BY <1>1, Steady DEF SessionSound, Serving, SessionType
  <1>3. balance \in [Accounts -> Nat]
    BY DEF IInv, TypeOK
  <1>4. n = balance[d] + Moved(d, "debit", w) /\ (d # c => session[w].bal[c] = balance[c])
    BY <1>1 DEF FreshSound
  <1>5. m = session[w].bal[c] + Moved(c, "credit", w)
    BY DEF Posted, Moved
  <1> HIDE DEF d, c, n, m
  <1>6. CASE d = c
    <2>1. n = session[w].bal[c]
      BY <1>6 DEF n
    <2>2. m = balance[d]
      BY <1>2, <1>3, <1>4, <1>5, <1>6, <2>1 DEF Moved
    <2>3. balance' = balance
      BY <1>1, <1>2, <1>3, <1>6, <2>2
    <2> QED BY <2>3
  <1>7. CASE d # c
    <2>1. n \in Int /\ m \in Int
      BY <1>2, <1>3, <1>4, <1>5 DEF Moved
    <2>2. /\ \A a \in Accounts : balance[a] \in Int /\ mid[a] \in Int
          /\ \A a \in Accounts \ {d} : balance[a] = mid[a]
          /\ mid[d] = n /\ mid \in [Accounts -> Int] /\ mid[c] = balance[c]
      BY <1>2, <1>3, <1>7, <2>1
    <2>8. balance' = [mid EXCEPT ![c] = m]
      BY <1>1
    <2> HIDE DEF mid
    <2>3. /\ \A a \in Accounts : balance'[a] \in Int
          /\ \A a \in Accounts \ {c} : mid[a] = balance'[a]
          /\ balance'[c] = m
      BY <1>2, <2>1, <2>2, <2>8
    <2>4. /\ Position(balance) \in Int
          /\ Position(mid) = Position(balance)
                             + (IF IsAsset(d) THEN n - balance[d] ELSE balance[d] - n)
      BY <1>2, <2>2, PositionMoves
    <2>5. /\ Position(mid) \in Int
          /\ Position(balance') = Position(mid)
                             + (IF IsAsset(c) THEN m - balance[c] ELSE balance[c] - m)
      <3>1. \A a \in Accounts : mid[a] \in Int /\ balance'[a] \in Int
        BY <2>2, <2>3
      <3>2. Position(balance') = Position(mid)
              + (IF IsAsset(c) THEN balance'[c] - mid[c] ELSE mid[c] - balance'[c])
        BY <1>2, <2>3, <3>1, PositionMoves
      <3>3. Position(mid) \in Int
        BY <1>2, <2>3, <3>1, PositionMoves
      <3> QED BY <2>2, <2>3, <3>2, <3>3
    <2>6. (IF IsAsset(d) THEN n - balance[d] ELSE balance[d] - n) = Amount(w)
      BY <1>2, <1>3, <1>4 DEF Moved
    <2>7. (IF IsAsset(c) THEN m - balance[c] ELSE balance[c] - m) = - Amount(w)
      BY <1>2, <1>3, <1>4, <1>5, <1>7 DEF Moved
    <2> QED BY <1>2, <2>4, <2>5, <2>6, <2>7
  <1> QED BY <1>6, <1>7

(* An emission adds to a liability what it adds to the footprint.          *)
LEMMA EmissionBalances ==
  ASSUME IInv, NEW w \in Workers, FreshSound(w), Balanced, Emit(w)
  PROVE  Balanced'
  <1> DEFINE u == User(w)
             a == Liability(u)
  <1>1. /\ pc[w] = "emit"
        /\ balance' = IF a \in Accounts
                      THEN [balance EXCEPT ![a] = session[w].bal[a] + Amount(w)] ELSE balance
        /\ footprint' = [footprint EXCEPT ![u] = @ + Amount(w)]
    BY DEF Emit
  <1>2. u \in Users /\ Amount(w) \in Nat \ {0}
    BY <1>1, Steady DEF Serving
  <1>3. balance \in [Accounts -> Nat] /\ footprint \in [Users -> Nat]
    BY DEF IInv, TypeOK
  <1>4. ~ IsAsset(a)
    BY DEF IsAsset, Liability
  <1>5. /\ IsFiniteSet(Logged) /\ Logged \subseteq Users
        /\ (u \in Logged <=> a \in Accounts)
        /\ \A v \in Logged : footprint[v] \in Int /\ footprint'[v] \in Int
        /\ \A v \in Logged \ {u} : footprint[v] = footprint'[v]
        /\ footprint'[u] = footprint[u] + Amount(w) /\ footprint[u] \in Int
    <2>1. u \in Logged <=> a \in Accounts
      BY <1>2 DEF Logged
    <2>2. Logged \subseteq Users
      BY TablesFinite
    <2> HIDE DEF u
    <2> QED BY <1>1, <1>2, <1>3, <2>1, <2>2, TablesFinite
  <1>6. Total(Logged, footprint) \in Int
    BY <1>5, TotalType
  <1>7. CASE a \in Accounts
    <2>1. session[w].bal[a] = balance[a]
      BY <1>1, <1>7 DEF FreshSound
    <2> HIDE DEF a, u
    <2>2. /\ \A b \in Accounts : balance[b] \in Int /\ balance'[b] \in Int
          /\ \A b \in Accounts \ {a} : balance[b] = balance'[b]
          /\ balance'[a] = balance[a] + Amount(w) /\ balance[a] \in Int
      BY <1>1, <1>2, <1>3, <1>7, <2>1
    <2>3. /\ Position(balance) \in Int
          /\ Position(balance') = Position(balance) + (balance[a] - balance'[a])
      BY <1>4, <1>7, <2>2, PositionMoves
    <2>4. Total(Logged, footprint') = Total(Logged, footprint) + (footprint'[u] - footprint[u])
      BY <1>5, <1>7, TotalChanged
    <2>5. Position(OpeningBalance) - Total(Logged, footprint) = Position(balance)
      BY DEF Balanced
    <2>6. Position(OpeningBalance) \in Int
      <3>1. \A b \in Accounts : OpeningBalance[b] \in Int
        BY RowsAssumption
      <3> QED BY <3>1, <1>7, PositionMoves
    <2>7. /\ Position(balance') = Position(balance) - Amount(w)
          /\ Total(Logged, footprint') = Total(Logged, footprint) + Amount(w)
      BY <1>2, <1>5, <2>2, <2>3, <2>4
    <2> QED BY <1>2, <1>6, <2>3, <2>5, <2>6, <2>7 DEF Balanced
  <1>8. CASE a \notin Accounts
    <2>1. \A v \in Logged : footprint[v] = footprint'[v]
      BY <1>5, <1>8
    <2>2. Total(Logged, footprint') = Total(Logged, footprint)
      BY <1>5, <2>1, TotalSame
    <2>3. balance' = balance
      BY <1>1, <1>8
    <2> QED BY <2>2, <2>3 DEF Balanced
  <1> QED BY <1>7, <1>8

(* A step of worker w.                                                     *)
Moves(w) == (\E r \in Requests : Submit(w, r)) \/ Step(w) \/ Crash(w)

(* An answered request.                                                    *)
Ends(w) ==
  /\ pc'[w] = "idle" /\ UNCHANGED <<database, engine>>
  /\ session'[w] = NoSession

LEMMA RefusalEnds ==
  ASSUME IInv, NEW w \in Workers, NEW status, Finish(w, status)
  PROVE  Ends(w)
  <1>1. pc \in [Workers -> Stages] /\ session \in [Workers -> SessionType]
    BY Steady
  <1> QED BY <1>1 DEF Finish, Ends

LEMMA Endings ==
  ASSUME IInv, NEW w \in Workers,
         \/ CreditMissing(w) \/ CreditRefused(w) \/ AccountMissing(w) \/ Overdrawn(w)
         \/ Respond(w) \/ CacheHit(w) \/ LockFailure(w) \/ Crash(w) \/ Fill(w)
  PROVE  Ends(w)
  <1>1. \E status : Finish(w, status)
    BY DEF CreditMissing, CreditRefused, AccountMissing, Overdrawn, Respond, CacheHit,
           LockFailure, Crash, Fill, Refuse
  <1> QED BY <1>1, RefusalEnds

(* The stage a step leads to, where it is not the next one of the posting. *)
LEMMA StageAfter ==
  ASSUME IInv, NEW w \in Workers, Moves(w)
  PROVE  \/ Ends(w)
         \/ LockCredit(w) \/ LoadFirst(w) \/ LoadSecond(w) \/ PostDebit(w) \/ PostCredit(w)
         \/ Reread(w) \/ UpdateInventory(w) \/ LoadLiability(w) \/ Emit(w)
         \/ /\ pc'[w] \in {"credit", "first", "emission", "list", "evict", "fill"}
            /\ pc'[w] = "first" => Op(w)' = "mint"
            /\ UNCHANGED <<database, engine>>
  <1>1. pc \in [Workers -> Stages] /\ session \in [Workers -> SessionType]
    BY Steady
  <1>2. CASE \E r \in Requests : Submit(w, r)
    <2>1. PICK r \in Requests : Submit(w, r)
      BY <1>2
    <2>2. r.op \in {"mint", "transfer", "retire", "emit", "list"}
      BY RequestTyped
    <2>3. /\ pc'[w] = FirstStage(r.op) /\ session'[w].req = r
          /\ UNCHANGED <<database, engine>>
      BY <1>1, <2>1 DEF Submit, NoSession
    <2>4. Op(w)' = r.op
      BY <2>3 DEF Op
    <2>5. /\ FirstStage(r.op) \in {"credit", "first", "emission", "list"}
          /\ FirstStage(r.op) = "first" => r.op = "mint"
      BY <2>2 DEF FirstStage
    <2> QED BY <2>3, <2>4, <2>5
  <1>3. CASE Evict(w) \/ CacheMiss(w)
    <2>1. pc'[w] \in {"evict", "fill"} /\ UNCHANGED <<database, engine>>
      BY <1>1, <1>3 DEF Evict, CacheMiss
    <2> QED BY <2>1
  <1>4. CASE \/ CreditMissing(w) \/ CreditRefused(w) \/ AccountMissing(w) \/ Overdrawn(w)
             \/ Respond(w) \/ CacheHit(w) \/ LockFailure(w) \/ Crash(w) \/ Fill(w)
    BY <1>4, Endings
  <1> QED BY <1>2, <1>3, <1>4 DEF Moves, Step

LEMMA NextFresh ==
  ASSUME IInv, NEW w \in Workers, FreshSound(w), Moves(w)
  PROVE  FreshSound(w)'
  <1> DEFINE u == User(w)
             bal == session[w].bal
  <1>1. /\ pc \in [Workers -> Stages] /\ session \in [Workers -> SessionType]
        /\ balance \in [Accounts -> Nat] /\ bal \in [Accounts -> Nat]
        /\ session[w] \in SessionType
    <2>1. balance \in [Accounts -> Nat]
      BY DEF IInv, TypeOK
    <2> QED BY <2>1, Steady DEF SessionType
  <1>2. CASE LoadFirst(w)
    <2> DEFINE a == Asset(u)
    <2>1. /\ pc[w] = "first" /\ pc'[w] = "second" /\ balance' = balance
          /\ {Debited(w), Credited(w)} \subseteq Accounts
          /\ session' = [session EXCEPT ![w].bal[a] = balance[a]]
      BY <1>1, <1>2 DEF LoadFirst, database
    <2>2. a \in Accounts
      BY <2>1, OwnAccount DEF Checked
    <2> HIDE DEF a
    <2>3. session'[w].bal[a] = balance'[a] /\ session'[w].req = session[w].req
      BY <1>1, <2>1, <2>2 DEF SessionType
    <2>4. Asset(User(w)') = a
      BY <2>3 DEF User, a
    <2> QED BY <2>1, <2>3, <2>4 DEF FreshSound
  <1>3. CASE LoadSecond(w)
    <2> DEFINE a == Opposite(w)
               b == Asset(u)
    <2>1. /\ pc[w] = "second" /\ pc'[w] = "debit" /\ balance' = balance
          /\ session' = IF a = b THEN session ELSE [session EXCEPT ![w].bal[a] = balance[a]]
          /\ bal[b] = balance[b]
      BY <1>1, <1>3 DEF LoadSecond, database, FreshSound
    <2>2. a \in {Debited(w), Credited(w)} /\ b \in {Debited(w), Credited(w)}
          /\ {Debited(w), Credited(w)} \subseteq Accounts
      BY <2>1, OwnAccount, Steady DEF Checked, SessionSound
    <2>3. {Debited(w), Credited(w)} = {a, b}
      <3>1. Op(w) \in PostingOps
        BY <2>1, Steady DEF SessionSound, Checked
      <3> QED BY <3>1 DEF Debited, Credited, Opposite, PostingOps
    <2> HIDE DEF a, b
    <2>4. /\ session'[w].bal[a] = balance[a] /\ session'[w].bal[b] = balance[b]
          /\ session'[w].req = session[w].req /\ session'[w].id = session[w].id
      BY <1>1, <2>1, <2>2 DEF SessionType
    <2>5. Debited(w)' = Debited(w) /\ Credited(w)' = Credited(w)
      BY <2>4, SameRequest
    <2> QED BY <2>1, <2>3, <2>4, <2>5 DEF FreshSound
  <1>4. CASE PostDebit(w)
    <2> DEFINE d == Debited(w)
               c == Credited(w)
               n == Posted(d, "debit", w)
    <2>1. /\ pc[w] = "debit" /\ pc'[w] = "entry" /\ balance' = balance
          /\ session' = [session EXCEPT ![w].bal[d] = n]
          /\ bal[d] = balance[d] /\ bal[c] = balance[c]
      BY <1>1, <1>4 DEF PostDebit, database, FreshSound
    <2>2. d \in Accounts /\ c \in Accounts
      BY <2>1, Steady DEF SessionSound
    <2>3. n = balance[d] + Moved(d, "debit", w)
      BY <2>1 DEF Posted, Moved
    <2> HIDE DEF d, c, n
    <2>4. /\ session'[w].bal[d] = n /\ (d # c => session'[w].bal[c] = balance[c])
          /\ session'[w].req = session[w].req /\ session'[w].id = session[w].id
      BY <1>1, <2>1, <2>2 DEF SessionType
    <2>5. Debited(w)' = d /\ Credited(w)' = c /\ Amount(w)' = Amount(w)
      BY <2>4, SameRequest DEF d, c
    <2>6. Moved(Debited(w), "debit", w)' = Moved(d, "debit", w)
      BY <2>5 DEF Moved
    <2>7. /\ session'[w].bal[Debited(w)'] = balance'[Debited(w)'] + Moved(Debited(w), "debit", w)'
          /\ Debited(w)' # Credited(w)' => session'[w].bal[Credited(w)'] = balance'[Credited(w)']
      BY <2>1, <2>3, <2>4, <2>5, <2>6
    <2> QED BY <2>1, <2>7 DEF FreshSound
  <1>5. CASE LoadLiability(w)
    <2> DEFINE a == Liability(u)
    <2>1. /\ pc'[w] = "emit" /\ balance' = balance
          /\ session' = IF a \in Accounts
                        THEN [session EXCEPT ![w].bal[a] = balance[a]] ELSE session
      BY <1>1, <1>5 DEF LoadLiability, database
    <2> HIDE DEF a
    <2>2. /\ a \in Accounts => session'[w].bal[a] = balance[a]
          /\ session'[w].req = session[w].req
      BY <1>1, <2>1 DEF SessionType
    <2>3. Liability(User(w)') = a
      BY <2>2 DEF User, a
    <2> QED BY <2>1, <2>2, <2>3 DEF FreshSound
  <1>6. CASE pc'[w] \notin Loaded
    BY <1>6 DEF FreshSound, Loaded
  <1>7. CASE \/ Ends(w) \/ LockCredit(w) \/ PostCredit(w) \/ Reread(w) \/ UpdateInventory(w)
             \/ Emit(w) \/ pc'[w] \in {"credit", "first", "emission", "list", "evict", "fill"}
    <2>1. pc'[w] \notin Loaded
      BY <1>1, <1>7 DEF Ends, LockCredit, PostCredit, Reread, UpdateInventory, Emit, Loaded
    <2> QED BY <1>6, <2>1
  <1> QED BY <1>2, <1>3, <1>4, <1>5, <1>7, StageAfter

LEMMA NextBalanced ==
  ASSUME IInv, NEW w \in Workers, FreshSound(w), Balanced, Moves(w)
  PROVE  Balanced'
  <1>1. CASE PostCredit(w)
    <2>1. Position(balance') = Position(balance) /\ footprint' = footprint
      BY <1>1, PostingBalances DEF PostCredit
    <2> QED BY <2>1 DEF Balanced
  <1>2. CASE Emit(w)
    BY <1>2, EmissionBalances
  <1>3. CASE UNCHANGED <<balance, footprint>>
    BY <1>3 DEF Balanced
  <1>4. CASE \/ LockCredit(w) \/ LoadFirst(w) \/ LoadSecond(w) \/ PostDebit(w) \/ Reread(w)
             \/ UpdateInventory(w) \/ LoadLiability(w) \/ UNCHANGED <<database, engine>>
    <2>1. UNCHANGED <<balance, footprint>>
      BY <1>4 DEF LockCredit, LoadFirst, LoadSecond, PostDebit, Reread, UpdateInventory,
                  LoadLiability, database
    <2> QED BY <1>3, <2>1
  <1> QED BY <1>1, <1>2, <1>4, StageAfter DEF Ends

(* Nothing moves, or a key of the cache expires.                           *)
LEMMA NothingPosted ==
  ASSUME NEW w, FreshSound(w), Balanced, UNCHANGED <<pc, session, balance, footprint>>
  PROVE  FreshSound(w)' /\ Balanced'
  <1>1. FreshSound(w)'
    BY DEF FreshSound, Moved, User, Op, Amount, Debited, Credited
  <1> QED BY <1>1 DEF Balanced

(* Double entry (BooksBalance): with one worker, postings and failures     *)
(* leave the difference of assets and liabilities as it was, and only      *)
(* logged emissions change it, on either database                          *)
(* (ledger_service.py:37-45, carbon_service.py:53-62).  Two workers could  *)
(* write back a balance that another has changed.                          *)
THEOREM SerialBooksBalance ==
  ASSUME NEW w, Workers = {w}
  PROVE  Spec => []BooksBalance
  <1> DEFINE AInv == FreshSound(w) /\ Balanced
  <1>1. Init => AInv
    <2>1. SUFFICES ASSUME Init PROVE FreshSound(w)
      BY InitBalanced
    <2>2. pc[w] = "idle"
      BY <2>1 DEF Init
    <2> QED BY <2>2 DEF FreshSound
  <1>2. ASSUME IInv, AInv, [Next]_vars PROVE AInv'
    <2>1. CASE \E v \in Workers : Moves(v)
      BY <1>2, <2>1, NextFresh, NextBalanced
    <2>2. CASE UNCHANGED vars \/ \E u \in Users : Expire(u)
      <3>1. UNCHANGED <<pc, session, balance, footprint>>
        BY <2>2 DEF vars, Expire, database
      <3> QED BY <1>2, <3>1, NothingPosted
    <2> QED BY <1>2, <2>1, <2>2 DEF Next, Moves
  <1>3. AInv => BooksBalance
    BY BooksAreBalanced
  <1> HIDE DEF AInv
  <1> QED BY <1>1, <1>2, <1>3, Invariance, PTL DEF Spec

-----------------------------------------------------------------------------
(* The inventory of a worker that runs alone: the registry.                *)

(* From the check of the credit to the second commit.                      *)
Taking == {"first", "second", "debit", "entry", "reread", "update"}

(* What a lone worker has checked of its credit is still so, and the row   *)
(* and certificate it is to write are not there yet.                       *)
HeldSound(w) ==
  /\ pc[w] \in Taking /\ Op(w) \in SpendOps => OwnedActive(w) /\ Sufficient(w)
  /\ pc[w] \in {"reread", "update"} =>
        credits[Id(w)] = Absent /\ \A c \in certificates : c.id # Id(w)
  /\ pc[w] = "update" => session[w].seen = credits[Target(w)]
  /\ \A c \in CreditIds : credits[c].amount \in Nat
  /\ IsFiniteSet(certificates)

(* Active and Certified, as functions of the tables.                       *)
ActiveOf(cr, u) ==
  Total({c \in CreditIds : cr[c].owner = u /\ cr[c].status = "active"},
        [c \in CreditIds |-> cr[c].amount])
CertifiedOf(cs, u) == Total({c \in cs : c.user = u}, [c \in cs |-> c.amount])

(* What a credit row and a certificate count for a user.                   *)
Weight(row, u) == IF row.owner = u /\ row.status = "active" THEN row.amount ELSE 0
Weights(cr, u) == [c \in CreditIds |-> Weight(cr[c], u)]
Share(cs, u)   == [c \in cs |-> IF c.user = u THEN c.amount ELSE 0]

LEMMA CreditIdsFinite == IsFiniteSet(CreditIds)
  <1>1. IsFiniteSet(1..MaxOps)
    BY OperationsAssumption, FS_Interval
  <1> QED BY <1>1, TablesAssumption, FS_Union DEF CreditIds

LEMMA ActiveWeighed ==
  ASSUME NEW cr, \A c \in CreditIds : cr[c].amount \in Int, NEW u
  PROVE  ActiveOf(cr, u) = Total(CreditIds, Weights(cr, u)) /\ ActiveOf(cr, u) \in Int
  <1> DEFINE T == {c \in CreditIds : cr[c].owner = u /\ cr[c].status = "active"}
             f == [c \in CreditIds |-> cr[c].amount]
             g == Weights(cr, u)
  <1>1. /\ T \in SUBSET CreditIds /\ \A c \in CreditIds : g[c] \in Int
        /\ \A c \in T : f[c] = g[c]
        /\ \A c \in CreditIds \ T : g[c] = 0
    BY DEF Weights, Weight
  <1> HIDE DEF T, f, g
  <1>2. Total(T, f) = Total(CreditIds, g) /\ Total(CreditIds, g) \in Int
    BY <1>1, CreditIdsFinite, TotalFiltered, TotalType
  <1> QED BY <1>2 DEF ActiveOf, T, f, g

(* One row of the inventory changes.                                       *)
OnlyAt(x, cr, dr) ==
  /\ \A c \in CreditIds : cr[c].amount \in Int /\ dr[c].amount \in Int
  /\ \A c \in CreditIds \ {x} : cr[c] = dr[c]

LEMMA ActiveMoves ==
  ASSUME NEW cr, NEW dr, NEW x \in CreditIds, NEW u, OnlyAt(x, cr, dr)
  PROVE  /\ ActiveOf(dr, u) = ActiveOf(cr, u) + (Weight(dr[x], u) - Weight(cr[x], u))
         /\ ActiveOf(cr, u) \in Int
  <1>0. /\ \A c \in CreditIds : cr[c].amount \in Int /\ dr[c].amount \in Int
        /\ \A c \in CreditIds \ {x} : cr[c] = dr[c]
    BY DEF OnlyAt
  <1> DEFINE f == Weights(cr, u)
             g == Weights(dr, u)
  <1>1. /\ \A c \in CreditIds : f[c] \in Int /\ g[c] \in Int
        /\ \A c \in CreditIds \ {x} : f[c] = g[c]
        /\ f[x] = Weight(cr[x], u) /\ g[x] = Weight(dr[x], u)
    BY <1>0 DEF Weights, Weight
  <1>2. /\ ActiveOf(cr, u) = Total(CreditIds, f) /\ ActiveOf(dr, u) = Total(CreditIds, g)
        /\ ActiveOf(cr, u) \in Int
    BY <1>0, ActiveWeighed
  <1> HIDE DEF f, g
  <1>3. Total(CreditIds, g) = Total(CreditIds, f) + (g[x] - f[x])
    BY <1>1, CreditIdsFinite, TotalChanged
  <1> QED BY <1>1, <1>2, <1>3

(* Two rows change.                                                        *)
LEMMA RowsMove ==
  ASSUME NEW cr, NEW dr, NEW t \in CreditIds, NEW x \in CreditIds, x # t, NEW u,
         \A c \in CreditIds : cr[c].amount \in Int /\ dr[c].amount \in Int,
         \A c \in CreditIds \ {t, x} : cr[c] = dr[c]
  PROVE  /\ ActiveOf(dr, u) = ActiveOf(cr, u) + (Weight(dr[t], u) - Weight(cr[t], u))
                                              + (Weight(dr[x], u) - Weight(cr[x], u))
         /\ ActiveOf(cr, u) \in Int
  <1> DEFINE mid == [c \in CreditIds |-> IF c = t THEN dr[c] ELSE cr[c]]
  <1>1. /\ mid[t] = dr[t] /\ mid[x] = cr[x]
        /\ OnlyAt(t, cr, mid) /\ OnlyAt(x, mid, dr)
    BY DEF OnlyAt
  <1>2. /\ Weight(cr[t], u) \in Int /\ Weight(dr[t], u) \in Int
        /\ Weight(cr[x], u) \in Int /\ Weight(dr[x], u) \in Int
    BY DEF Weight
  <1> HIDE DEF mid
  <1>3. /\ ActiveOf(mid, u) = ActiveOf(cr, u) + (Weight(mid[t], u) - Weight(cr[t], u))
        /\ ActiveOf(cr, u) \in Int
    BY <1>1, ActiveMoves
  <1>4. ActiveOf(dr, u) = ActiveOf(mid, u) + (Weight(dr[x], u) - Weight(mid[x], u))
    BY <1>1, ActiveMoves
  <1> QED BY <1>1, <1>2, <1>3, <1>4

(* An active row is part of its owner's tonnes.                            *)
LEMMA ActiveCovers ==
  ASSUME NEW cr, \A c \in CreditIds : cr[c].amount \in Nat, NEW x \in CreditIds, NEW u
  PROVE  Weight(cr[x], u) <= ActiveOf(cr, u)
  <1> DEFINE g == Weights(cr, u)
  <1>1. (\A c \in CreditIds : g[c] \in Nat) /\ g[x] = Weight(cr[x], u)
    BY DEF Weights, Weight
  <1>2. ActiveOf(cr, u) = Total(CreditIds, g)
    BY ActiveWeighed
  <1> HIDE DEF g
  <1> QED BY <1>1, <1>2, CreditIdsFinite, TotalCovers

(* A certificate is added.                                                 *)
LEMMA CertificateCounts ==
  ASSUME NEW cs, IsFiniteSet(cs), NEW cert, cert \notin cs, NEW u,
         \A c \in cs : c.amount \in Int, cert.amount \in Int
  PROVE  /\ CertifiedOf(cs \cup {cert}, u) =
              CertifiedOf(cs, u) + (IF cert.user = u THEN cert.amount ELSE 0)
         /\ CertifiedOf(cs, u) \in Int
  <1> DEFINE ds == cs \cup {cert}
  <1>1. ASSUME NEW S, IsFiniteSet(S), \A c \in S : c.amount \in Int
        PROVE  /\ CertifiedOf(S, u) = Total(S, Share(S, u)) /\ CertifiedOf(S, u) \in Int
               /\ \A c \in S : Share(S, u)[c] \in Int
    <2> DEFINE T == {c \in S : c.user = u}
               f == [c \in S |-> c.amount]
               g == Share(S, u)
    <2>1. /\ T \in SUBSET S /\ \A c \in S : g[c] \in Int
          /\ \A c \in T : f[c] = g[c]
          /\ \A c \in S \ T : g[c] = 0
      BY <1>1 DEF Share
    <2> HIDE DEF T, f, g
    <2>2. Total(T, f) = Total(S, g) /\ Total(S, g) \in Int
      BY <1>1, <2>1, TotalFiltered, TotalType
    <2> QED BY <2>1, <2>2 DEF CertifiedOf, T, f, g
  <1>2. IsFiniteSet(ds) /\ cert \in ds /\ ds \ {cert} = cs /\ \A c \in ds : c.amount \in Int
    BY FS_AddElement
  <1>3. /\ CertifiedOf(ds, u) = Total(ds, Share(ds, u))
        /\ CertifiedOf(cs, u) = Total(cs, Share(cs, u)) /\ CertifiedOf(cs, u) \in Int
        /\ \A c \in ds : Share(ds, u)[c] \in Int
    BY <1>1, <1>2
  <1>4. Total(ds, Share(ds, u)) = Share(ds, u)[cert] + Total(ds \ {cert}, Share(ds, u))
    <2> HIDE DEF ds
    <2> QED BY <1>2, <1>3, TotalSplit
  <1>5. Total(cs, Share(ds, u)) = Total(cs, Share(cs, u))
    <2>1. \A c \in cs : Share(ds, u)[c] = Share(cs, u)[c]
      BY DEF Share
    <2> QED BY <2>1, TotalSame
  <1>6. Share(ds, u)[cert] = IF cert.user = u THEN cert.amount ELSE 0
    BY <1>2 DEF Share
  <1> HIDE DEF ds
  <1>7. Total(ds \ {cert}, Share(ds, u)) = CertifiedOf(cs, u)
    BY <1>2, <1>3, <1>5
  <1>8. CertifiedOf(ds, u) = (IF cert.user = u THEN cert.amount ELSE 0) + CertifiedOf(cs, u)
    BY <1>3, <1>4, <1>6, <1>7
  <1>9. CertifiedOf(cs, u) \in Int /\ cert.amount \in Int
    BY <1>3
  <1>10. CertifiedOf(ds, u) = CertifiedOf(cs, u) + (IF cert.user = u THEN cert.amount ELSE 0)
    BY <1>8, <1>9
  <1> QED BY <1>3, <1>10 DEF ds

(* The row and the certificate an operation is named after.                *)
Fresh(w) == credits[Id(w)] = Absent /\ \A c \in certificates : c.id # Id(w)

(* What an operation is to write is not there before its posting.          *)
LEMMA Unwritten ==
  ASSUME IInv, NEW w \in Workers, pc[w] \in Unposted, Op(w) # "list"
  PROVE  Fresh(w) /\ Id(w) \in CreditIds /\ Id(w) \notin DOMAIN OpeningCredits
  <1>1. /\ Id(w) \in 1..MaxOps /\ ~ Made(Id(w)) /\ InventoryFollowsLedger
    BY Steady DEF SessionSound, Serving, Unposted, Checked, IInv
  <1>2. Id(w) \in CreditIds /\ Id(w) \notin DOMAIN OpeningCredits
    BY <1>1, RowsAssumption, OperationsAssumption DEF CreditIds
  <1>3. credits[Id(w)] = Absent
    BY <1>1, <1>2 DEF InventoryFollowsLedger, Made
  <1>4. \A c \in certificates : c.id # Id(w)
    BY <1>1 DEF InventoryFollowsLedger, Made, IsPosted
  <1> QED BY <1>2, <1>3, <1>4 DEF Fresh

(* The row of a mint adds its amount to the minter's tonnes.               *)
LEMMA MintAdds ==
  ASSUME IInv, NEW w \in Workers, HeldSound(w), PostCredit(w), Op(w) = "mint", NEW u
  PROVE  /\ ActiveOf(credits', u) =
              ActiveOf(credits, u) + (IF u = User(w) THEN Amount(w) ELSE 0)
         /\ ActiveOf(credits, u) \in Int
         /\ \A c \in CreditIds : credits'[c].amount \in Nat
  <1> DEFINE x == Id(w)
             row == NewCredit(User(w), w, "active")
  <1>1. /\ credits' = [credits EXCEPT ![x] = row] /\ pc[w] = "entry"
    BY DEF PostCredit, Id
  <1>2. x \in CreditIds /\ credits[x] = Absent
    BY <1>1, Unwritten DEF Unposted, Checked, Fresh
  <1>3. Amount(w) \in Nat \ {0} /\ credits \in [CreditIds -> CreditType]
    BY <1>1, Steady DEF Serving, IInv, TypeOK
  <1>4. \A c \in CreditIds : credits[c].amount \in Nat
    BY DEF HeldSound
  <1>5. /\ row.amount = Amount(w) /\ Weight(row, u) = (IF u = User(w) THEN Amount(w) ELSE 0)
    BY DEF NewCredit, Weight
  <1>6. Weight(Absent, u) = 0
    BY DEF Weight, Absent
  <1> HIDE DEF x, row
  <1>7. /\ credits'[x] = row /\ \A c \in CreditIds \ {x} : credits[c] = credits'[c]
        /\ \A c \in CreditIds : credits'[c].amount \in Nat
    BY <1>1, <1>2, <1>3, <1>4, <1>5
  <1>8. /\ ActiveOf(credits', u) =
             ActiveOf(credits, u) + (Weight(credits'[x], u) - Weight(credits[x], u))
        /\ ActiveOf(credits, u) \in Int
    <2>1. OnlyAt(x, credits, credits')
      BY <1>4, <1>7 DEF OnlyAt
    <2> QED BY <1>2, <2>1, ActiveMoves
  <1> QED BY <1>2, <1>3, <1>5, <1>6, <1>7, <1>8

(* The credit a lone worker is about to split or to hand over.             *)
LEMMA AboutToSpend ==
  ASSUME IInv, NEW w \in Workers, HeldSound(w), pc[w] = "update"
  PROVE  /\ Target(w) \in CreditIds /\ Id(w) \in CreditIds /\ Target(w) # Id(w)
         /\ credits \in [CreditIds -> CreditType]
         /\ credits[Id(w)] = Absent /\ session[w].seen = credits[Target(w)]
         /\ credits[Target(w)].owner = User(w) /\ credits[Target(w)].status = "active"
         /\ credits[Target(w)].amount >= Amount(w) /\ Amount(w) \in Nat \ {0}
         /\ \A c \in CreditIds : credits[c].amount \in Nat
         /\ Op(w) \in SpendOps /\ User(w) \in Users
         /\ Op(w) = "transfer" => session[w].req.to \in Users
  <1>1. /\ Op(w) \in SpendOps /\ Target(w) \in CreditIds /\ Amount(w) \in Nat \ {0}
        /\ Id(w) \in 1..MaxOps /\ User(w) \in Users /\ credits[Target(w)] # Absent
        /\ Op(w) = "transfer" => session[w].req.to \in Users
    BY Steady DEF SessionSound, Serving, SpendOps, KnownRecipient
  <1>2. /\ OwnedActive(w) /\ Sufficient(w) /\ credits[Id(w)] = Absent
        /\ session[w].seen = credits[Target(w)]
        /\ \A c \in CreditIds : credits[c].amount \in Nat
    BY <1>1 DEF HeldSound, Taking
  <1>3. credits \in [CreditIds -> CreditType] /\ Id(w) \in CreditIds
    BY <1>1 DEF IInv, TypeOK, CreditIds
  <1> QED BY <1>1, <1>2, <1>3 DEF OwnedActive, Sufficient

(* A split takes the amount from the credit and puts it in a new row.      *)
LEMMA SplitMoves ==
  ASSUME IInv, NEW w \in Workers, HeldSound(w), pc[w] = "update", NEW u,
         NEW owner \in Users, NEW status \in Statuses
  PROVE  /\ ActiveOf(Split(w, owner, status), u) =
              ActiveOf(credits, u) - (IF u = User(w) THEN Amount(w) ELSE 0)
                + (IF u = owner /\ status = "active" THEN Amount(w) ELSE 0)
         /\ \A c \in CreditIds : Split(w, owner, status)[c].amount \in Nat
  <1> DEFINE t == Target(w)
             x == Id(w)
             n == credits[t].amount
             left == [credits[t] EXCEPT !.amount = n - Amount(w)]
             new == NewCredit(owner, w, status)
  <1>1. /\ t \in CreditIds /\ x \in CreditIds /\ t # x
        /\ credits \in [CreditIds -> CreditType]
        /\ credits[x] = Absent /\ credits[t].owner = User(w) /\ credits[t].status = "active"
        /\ n >= Amount(w) /\ Amount(w) \in Nat \ {0} /\ n \in Nat
        /\ \A c \in CreditIds : credits[c].amount \in Nat
        /\ session[w].seen = credits[t]
    BY AboutToSpend
  <1>2. Split(w, owner, status) = [credits EXCEPT ![t] = left, ![x] = new]
    BY <1>1 DEF Split, Id
  <1>3. credits[t] \in CreditRow
    <2>1. credits[t] \in CreditType /\ credits[t] # Absent
      BY <1>1 DEF Absent
    <2> QED BY <2>1, CreditRows
  <1>4. /\ left.amount = n - Amount(w) /\ left.owner = User(w) /\ left.status = "active"
        /\ new.amount = Amount(w) /\ new.owner = owner /\ new.status = status
        /\ left \in CreditRow /\ new \in CreditType
    BY <1>1, <1>3, NewCreditType DEF CreditRow, NewCredit
  <1>5. /\ Weight(left, u) - Weight(credits[t], u) = - (IF u = User(w) THEN Amount(w) ELSE 0)
        /\ Weight(new, u) = (IF u = owner /\ status = "active" THEN Amount(w) ELSE 0)
        /\ Weight(Absent, u) = 0
    BY <1>1, <1>4 DEF Weight, Absent
  <1>6. left.amount \in Nat /\ new.amount \in Nat /\ left \in CreditType
    BY <1>1, <1>4, CreditRows
  <1> DEFINE dr == [credits EXCEPT ![t] = left, ![x] = new]
  <1> HIDE DEF t, x, left, new, n
  <1>7. /\ \A c \in CreditIds : dr[c].amount \in Nat
        /\ \A c \in CreditIds : credits[c].amount \in Int /\ dr[c].amount \in Int
        /\ \A c \in CreditIds \ {t, x} : credits[c] = dr[c]
        /\ dr[t] = left /\ dr[x] = new
    BY <1>1, <1>6
  <1> HIDE DEF dr
  <1>8. /\ ActiveOf(dr, u) = ActiveOf(credits, u) + (Weight(dr[t], u) - Weight(credits[t], u))
                                                  + (Weight(dr[x], u) - Weight(credits[x], u))
        /\ ActiveOf(credits, u) \in Int
    BY <1>1, <1>7, RowsMove
  <1>9. Split(w, owner, status) = dr
    BY <1>2 DEF dr
  <1> QED BY <1>1, <1>5, <1>7, <1>8, <1>9

(* A credit that is wanted as a whole changes its owner or its status.     *)
LEMMA WholeMoves ==
  ASSUME IInv, NEW w \in Workers, HeldSound(w), pc[w] = "update", NEW u, Whole(w),
         NEW row, row.amount = credits[Target(w)].amount
  PROVE  /\ ActiveOf([credits EXCEPT ![Target(w)] = row], u) =
              ActiveOf(credits, u) - (IF u = User(w) THEN Amount(w) ELSE 0) + Weight(row, u)
         /\ \A c \in CreditIds : [credits EXCEPT ![Target(w)] = row][c].amount \in Nat
  <1> DEFINE t == Target(w)
  <1>1. /\ t \in CreditIds /\ credits \in [CreditIds -> CreditType]
        /\ credits[t].owner = User(w) /\ credits[t].status = "active"
        /\ credits[t].amount = Amount(w) /\ Amount(w) \in Nat
        /\ \A c \in CreditIds : credits[c].amount \in Nat
    BY AboutToSpend DEF Whole
  <1>2. Weight(credits[t], u) = (IF u = User(w) THEN Amount(w) ELSE 0)
    BY <1>1 DEF Weight
  <1>3. row.amount \in Nat
    BY <1>1
  <1> HIDE DEF t
  <1> DEFINE dr == [credits EXCEPT ![t] = row]
  <1>4. dr[t] = row /\ (\A c \in CreditIds : dr[c].amount \in Nat) /\ OnlyAt(t, credits, dr)
    BY <1>1, <1>3 DEF OnlyAt
  <1>5. Weight(row, u) \in Int
    BY <1>3 DEF Weight
  <1> HIDE DEF dr
  <1>6. /\ ActiveOf(dr, u) = ActiveOf(credits, u) + (Weight(dr[t], u) - Weight(credits[t], u))
        /\ ActiveOf(credits, u) \in Int
    BY <1>1, <1>4, ActiveMoves
  <1>7. ActiveOf(dr, u) =
          ActiveOf(credits, u) - (IF u = User(w) THEN Amount(w) ELSE 0) + Weight(row, u)
    BY <1>1, <1>2, <1>4, <1>5, <1>6
  <1> QED BY <1>4, <1>7 DEF t, dr

(* What a request takes from user u, and what a transfer brings u.         *)
Gives(w, u) == IF u = User(w) THEN Amount(w) ELSE 0
Gets(w, u)  == IF Op(w) = "transfer" /\ u = session[w].req.to THEN Amount(w) ELSE 0

(* The second commit moves or burns the amount, and no row goes negative.  *)
LEMMA SpendMoves ==
  ASSUME IInv, NEW w \in Workers, HeldSound(w), pc[w] = "update", HandOver(w) \/ Burn(w),
         NEW u
  PROVE  /\ ActiveOf(credits', u) = ActiveOf(credits, u) - Gives(w, u) + Gets(w, u)
         /\ \A c \in CreditIds : credits'[c].amount \in Nat
  <1> DEFINE t == Target(w)
             to == session[w].req.to
  <1>1. /\ t \in CreditIds /\ credits \in [CreditIds -> CreditType]
        /\ credits[t].owner = User(w) /\ credits[t].status = "active"
        /\ Amount(w) \in Nat /\ session[w].seen = credits[t] /\ User(w) \in Users
        /\ (Op(w) = "transfer" => to \in Users)
        /\ \A c \in CreditIds : credits[c].amount \in Nat
    BY AboutToSpend
  <1>2. credits[t] \in CreditRow
    BY <1>1, CreditRows
  <1>3. ActiveOf(credits, u) \in Int
    BY <1>1, ActiveWeighed
  <1>4. "active" \in Statuses /\ "retired" \in Statuses
    BY DEF Statuses
  <1>5. CASE HandOver(w)
    <2>1. Op(w) = "transfer"
      BY <1>5 DEF HandOver
    <2>2. CASE ~ Whole(w)
      <3>1. credits' = Split(w, to, "active")
        BY <1>5, <2>2 DEF HandOver
      <3>2. /\ ActiveOf(Split(w, to, "active"), u) =
                 ActiveOf(credits, u) - (IF u = User(w) THEN Amount(w) ELSE 0)
                   + (IF u = to THEN Amount(w) ELSE 0)
            /\ \A c \in CreditIds : Split(w, to, "active")[c].amount \in Nat
        BY <1>1, <1>4, <2>1, SplitMoves
      <3> QED BY <2>1, <3>1, <3>2 DEF Gives, Gets
    <2>3. CASE Whole(w) /\ User(w) = to
      <3>1. credits' = credits
        BY <1>1, <1>5, <2>3 DEF HandOver
      <3>2. Gives(w, u) = Gets(w, u) /\ Gives(w, u) \in Int
        BY <1>1, <2>1, <2>3 DEF Gives, Gets
      <3> QED BY <1>1, <1>3, <3>1, <3>2
    <2>4. CASE Whole(w) /\ User(w) # to
      <3> DEFINE row == [credits[t] EXCEPT !.owner = to]
      <3>1. credits' = [credits EXCEPT ![t] = row]
        BY <1>1, <1>5, <2>4 DEF HandOver
      <3>2. row.amount = credits[t].amount /\ row.owner = to /\ row.status = "active"
        BY <1>1, <1>2 DEF CreditRow
      <3>3. Weight(row, u) = Gets(w, u)
        BY <1>1, <2>1, <2>4, <3>2 DEF Weight, Gets, Whole
      <3> HIDE DEF row
      <3>4. /\ ActiveOf([credits EXCEPT ![t] = row], u) =
                 ActiveOf(credits, u) - (IF u = User(w) THEN Amount(w) ELSE 0) + Weight(row, u)
            /\ \A c \in CreditIds : [credits EXCEPT ![t] = row][c].amount \in Nat
        BY <2>4, <3>2, WholeMoves
      <3> QED BY <3>1, <3>3, <3>4 DEF Gives
    <2> QED BY <2>2, <2>3, <2>4
  <1>6. CASE Burn(w)
    <2>1. Gets(w, u) = 0 /\ Gives(w, u) \in Int
      BY <1>1, <1>6 DEF Burn, Gets, Gives
    <2>2. CASE ~ Whole(w)
      <3>1. credits' = Split(w, User(w), "retired")
        BY <1>6, <2>2 DEF Burn
      <3>2. /\ ActiveOf(Split(w, User(w), "retired"), u) =
                 ActiveOf(credits, u) - (IF u = User(w) THEN Amount(w) ELSE 0) + 0
            /\ \A c \in CreditIds : Split(w, User(w), "retired")[c].amount \in Nat
        BY <1>1, <1>4, SplitMoves
      <3> QED BY <2>1, <3>1, <3>2 DEF Gives
    <2>3. CASE Whole(w)
      <3> DEFINE row == [credits[t] EXCEPT !.status = "retired"]
      <3>1. credits' = [credits EXCEPT ![t] = row]
        BY <1>1, <1>6, <2>3 DEF Burn
      <3>2. row.amount = credits[t].amount /\ row.status = "retired"
        BY <1>1, <1>2 DEF CreditRow
      <3>3. Weight(row, u) = 0
        BY <3>2 DEF Weight
      <3> HIDE DEF row
      <3>4. /\ ActiveOf([credits EXCEPT ![t] = row], u) =
                 ActiveOf(credits, u) - (IF u = User(w) THEN Amount(w) ELSE 0) + Weight(row, u)
            /\ \A c \in CreditIds : [credits EXCEPT ![t] = row][c].amount \in Nat
        BY <2>3, <3>2, WholeMoves
      <3> QED BY <2>1, <3>1, <3>3, <3>4 DEF Gives
    <2> QED BY <2>2, <2>3
  <1> QED BY <1>5, <1>6

LEMMA InitHeld ==
  ASSUME NEW w \in Workers, Init,
         \A c \in DOMAIN OpeningCredits : OpeningCredits[c].amount \in Nat
  PROVE  HeldSound(w)
  <1>1. pc[w] = "idle" /\ certificates = {}
    BY DEF Init
  <1>2. \A c \in CreditIds : credits[c].amount \in Nat
    BY DEF Init, Absent
  <1>3. IsFiniteSet(certificates)
    BY <1>1, FS_EmptySet
  <1> QED BY <1>1, <1>2, <1>3 DEF HeldSound, Taking

(* Requests that are not about a credit, or are past it.                   *)
LEMMA HeldElsewhere ==
  ASSUME NEW w, HeldSound(w), UNCHANGED <<credits, certificates>>,
         pc'[w] \in Taking => Op(w)' \notin SpendOps /\ pc'[w] \notin {"reread", "update"}
  PROVE  HeldSound(w)'
  BY DEF HeldSound, Taking

(* The steps within a request that leave the inventory alone.              *)
LEMMA HeldOn ==
  ASSUME NEW w, HeldSound(w), UNCHANGED <<credits, certificates>>,
         session'[w].req = session[w].req, session'[w].id = session[w].id,
         Op(w) \in SpendOps => OwnedActive(w) /\ Sufficient(w),
         pc'[w] \in {"reread", "update"} => Fresh(w),
         pc'[w] = "update" => session'[w].seen = credits[Target(w)]
  PROVE  HeldSound(w)'
  <1>1. /\ Op(w)' = Op(w) /\ Target(w)' = Target(w) /\ Amount(w)' = Amount(w)
        /\ User(w)' = User(w) /\ Id(w)' = Id(w)
    BY DEF Op, Target, Amount, User, Id
  <1> QED BY <1>1 DEF HeldSound, OwnedActive, Sufficient, Fresh

LEMMA NextHeld ==
  ASSUME IInv, NEW w \in Workers, HeldSound(w), Moves(w)
  PROVE  HeldSound(w)'
  <1>1. /\ pc \in [Workers -> Stages] /\ session \in [Workers -> SessionType]
        /\ session[w] \in SessionType /\ SessionSound(w)
    BY Steady
  <1>2. CASE \/ Ends(w)
             \/ /\ pc'[w] \in {"credit", "first", "emission", "list", "evict", "fill"}
                /\ pc'[w] = "first" => Op(w)' = "mint"
                /\ UNCHANGED <<database, engine>>
    <2>1. UNCHANGED <<credits, certificates>>
      BY <1>2 DEF Ends, database
    <2>2. pc'[w] \in Taking => Op(w)' \notin SpendOps /\ pc'[w] \notin {"reread", "update"}
      BY <1>2 DEF Ends, Taking, SpendOps
    <2> QED BY <2>1, <2>2, HeldElsewhere
  <1>3. CASE LoadLiability(w) \/ Emit(w)
    <2>1. pc'[w] \in {"emit", "evict"} /\ UNCHANGED <<credits, certificates>>
      BY <1>1, <1>3 DEF LoadLiability, Emit, database
    <2> QED BY <2>1, HeldElsewhere DEF Taking
  <1>4. CASE LockCredit(w) \/ LoadFirst(w) \/ LoadSecond(w) \/ PostDebit(w)
    <2>1. /\ UNCHANGED <<credits, certificates>>
          /\ session'[w].req = session[w].req /\ session'[w].id = session[w].id
          /\ pc'[w] \in Checked /\ pc[w] \in Checked \cup {"credit"}
          /\ pc[w] = "credit" => OwnedActive(w) /\ Sufficient(w)
      BY <1>1, <1>4 DEF LockCredit, LoadFirst, LoadSecond, PostDebit, database, Checked,
                        SessionType
    <2>2. Op(w) \in SpendOps => OwnedActive(w) /\ Sufficient(w)
      BY <2>1 DEF HeldSound, Taking, Checked
    <2> QED BY <2>1, <2>2, HeldOn DEF Checked
  <1>5. CASE Reread(w)
    <2>1. /\ UNCHANGED <<credits, certificates>>
          /\ session'[w].req = session[w].req /\ session'[w].id = session[w].id
          /\ session'[w].seen = credits[Target(w)] /\ pc[w] = "reread"
      BY <1>1, <1>5 DEF Reread, database, SessionType
    <2>2. Fresh(w) /\ (Op(w) \in SpendOps => OwnedActive(w) /\ Sufficient(w))
      BY <2>1 DEF HeldSound, Taking, Fresh
    <2> QED BY <2>1, <2>2, HeldOn
  <1>6. CASE PostCredit(w) /\ Op(w) # "mint"
    <2>1. /\ UNCHANGED <<credits, certificates>>
          /\ session'[w].req = session[w].req /\ session'[w].id = session[w].id
          /\ pc'[w] = "reread" /\ pc[w] = "entry"
      BY <1>1, <1>6 DEF PostCredit, SessionType
    <2>2. Op(w) \in SpendOps
      BY <1>1, <1>6, <2>1 DEF SessionSound, Checked, PostingOps, SpendOps
    <2>3. OwnedActive(w) /\ Sufficient(w)
      BY <2>1, <2>2 DEF HeldSound, Taking
    <2>4. Fresh(w)
      BY <2>1, <2>2, Unwritten DEF Unposted, Checked, SpendOps
    <2> QED BY <2>1, <2>3, <2>4, HeldOn
  <1>7. CASE PostCredit(w) /\ Op(w) = "mint"
    <2>1. pc'[w] = "evict" /\ certificates' = certificates
      BY <1>1, <1>7 DEF PostCredit
    <2>2. \A c \in CreditIds : credits'[c].amount \in Nat
      BY <1>7, MintAdds
    <2> QED BY <2>1, <2>2 DEF HeldSound, Taking
  <1>8. CASE UpdateInventory(w)
    <2>1. /\ pc[w] = "update" /\ pc'[w] = "evict" /\ (HandOver(w) \/ Burn(w))
          /\ certificates' \in {certificates, certificates \cup {Certificate(w)}}
      BY <1>1, <1>8 DEF UpdateInventory, HandOver, Burn
    <2>2. \A c \in CreditIds : credits'[c].amount \in Nat
      BY <2>1, SpendMoves
    <2>3. IsFiniteSet(certificates')
      BY <2>1, FS_AddElement DEF HeldSound
    <2> QED BY <2>1, <2>2, <2>3 DEF HeldSound, Taking
  <1> QED BY <1>2, <1>3, <1>4, <1>5, <1>6, <1>7, <1>8, StageAfter

(* The registry that the tables show.                                      *)
Holding     == [u \in Users |-> Active(u)]
CertifiedBy == [u \in Users |-> Certified(u)]
Registered  == R!Next \/ UNCHANGED <<Holding, CertifiedBy>>

LEMMA Tonnes ==
  ASSUME NEW u
  PROVE  /\ Active(u) = ActiveOf(credits, u) /\ Active(u)' = ActiveOf(credits', u)
         /\ Certified(u) = CertifiedOf(certificates, u)
         /\ Certified(u)' = CertifiedOf(certificates', u)
  BY DEF Active, ActiveOf, Certified, CertifiedOf

LEMMA Holdings ==
  ASSUME \A u \in Users : Active(u) \in Int /\ Active(u)' \in Int
  PROVE  /\ Holding \in [Users -> Int] /\ Holding' \in [Users -> Int]
         /\ \A u \in Users : Holding[u] = Active(u) /\ Holding'[u] = Active(u)'
  BY DEF Holding

LEMMA Certificates ==
  ASSUME \A u \in Users : Certified(u) \in Int /\ Certified(u)' \in Int
  PROVE  /\ CertifiedBy \in [Users -> Int] /\ CertifiedBy' \in [Users -> Int]
         /\ \A u \in Users : CertifiedBy[u] = Certified(u) /\ CertifiedBy'[u] = Certified(u)'
  BY DEF CertifiedBy

LEMMA Unchanged ==
  ASSUME UNCHANGED <<credits, certificates>>
  PROVE  UNCHANGED <<Holding, CertifiedBy>>
  <1>1. \A u \in Users : Active(u)' = Active(u) /\ Certified(u)' = Certified(u)
    BY Tonnes
  <1> QED BY <1>1 DEF Holding, CertifiedBy

(* The ledger commit issues tonnes for a mint, and for nothing else.       *)
LEMMA MintIssues ==
  ASSUME IInv, NEW w \in Workers, HeldSound(w), PostCredit(w)
  PROVE  /\ Registered
         /\ IF Op(w) = "mint" THEN R!Issue(User(w), Amount(w))
            ELSE UNCHANGED <<Holding, CertifiedBy>>
  <1>1. certificates' = certificates /\ pc[w] = "entry"
    BY DEF PostCredit
  <1>2. CASE Op(w) # "mint"
    BY <1>1, <1>2, Unchanged DEF PostCredit, Registered
  <1>3. CASE Op(w) = "mint"
    <2> DEFINE h == User(w)
               x == Amount(w)
    <2>1. h \in Users /\ x \in Nat \ {0}
      BY <1>1, Steady DEF Serving
    <2>2. \A u \in Users : /\ Active(u)' = Active(u) + (IF u = h THEN x ELSE 0)
                           /\ Active(u) \in Int /\ Certified(u)' = Certified(u)
      BY <1>1, <1>3, MintAdds, Tonnes
    <2> HIDE DEF h, x
    <2>3. CertifiedBy' = CertifiedBy
      BY <2>2 DEF CertifiedBy
    <2>4. Holding' = [Holding EXCEPT ![h] = @ + x] /\ Holding'[h] - Holding[h] = x
      <3>1. /\ Holding \in [Users -> Int] /\ Holding' \in [Users -> Int]
            /\ \A u \in Users : Holding'[u] = Holding[u] + (IF u = h THEN x ELSE 0)
        BY <2>1, <2>2, Holdings
      <3> QED BY <2>1, <3>1
    <2>5. R!Issue(h, x)
      BY <2>3, <2>4 DEF R!Issue, Holding, CertifiedBy
    <2>6. R!Next
      BY <2>1, <2>4, <2>5 DEF R!Next, Holding
    <2> QED BY <1>3, <2>5, <2>6 DEF Registered, h, x
  <1> QED BY <1>2, <1>3

(* The second commit moves tonnes to another user or offsets them.         *)
LEMMA SpendMovesOrBurns ==
  ASSUME IInv, NEW w \in Workers, HeldSound(w), UpdateInventory(w)
  PROVE  /\ Registered
         /\ \/ UNCHANGED <<Holding, CertifiedBy>>
            \/ \E h \in Users, x \in Nat :
                  R!Offset(h, x) \/ \E g \in Users : R!Move(h, g, x)
  <1> DEFINE h == User(w)
             g == session[w].req.to
             x == Amount(w)
  <1>1. pc[w] = "update" /\ (HandOver(w) \/ Burn(w))
    BY DEF UpdateInventory
  <1>2. /\ h \in Users /\ x \in Nat \ {0} /\ (Op(w) = "transfer" => g \in Users)
        /\ Target(w) \in CreditIds /\ credits[Target(w)].owner = h
        /\ credits[Target(w)].status = "active" /\ credits[Target(w)].amount >= x
        /\ \A c \in CreditIds : credits[c].amount \in Nat
    BY <1>1, AboutToSpend
  <1>3. \A u \in Users : /\ Active(u)' = Active(u) - Gives(w, u) + Gets(w, u)
                         /\ Active(u) \in Int
    <2>1. \A c \in CreditIds : credits[c].amount \in Int
      BY <1>2
    <2>2. \A u \in Users : ActiveOf(credits, u) \in Int
      BY <2>1, ActiveWeighed
    <2> QED BY <1>1, <2>2, SpendMoves, Tonnes
  <1>4. Active(h) >= x
    <2>1. Weight(credits[Target(w)], h) = credits[Target(w)].amount
      BY <1>2 DEF Weight
    <2>2. Weight(credits[Target(w)], h) <= ActiveOf(credits, h)
      BY <1>2, ActiveCovers
    <2>3. credits[Target(w)].amount \in Int /\ Active(h) \in Int
      BY <1>2, <1>3
    <2> QED BY <1>2, <2>1, <2>2, <2>3, Tonnes
  <1>5. CASE HandOver(w)
    <2>1. Op(w) = "transfer" /\ certificates' = certificates /\ g \in Users
      BY <1>2, <1>5 DEF HandOver
    <2>2. \A u \in Users : Certified(u)' = Certified(u)
      BY <2>1, Tonnes
    <2>3. \A u \in Users : Active(u)' = Active(u) - (IF u = h THEN x ELSE 0)
                                                 + (IF u = g THEN x ELSE 0)
      BY <1>3, <2>1 DEF Gives, Gets
    <2> HIDE DEF h, g, x
    <2>4. CASE h = g
      <3>1. \A u \in Users : Active(u)' = Active(u)
        BY <1>2, <1>3, <2>3, <2>4
      <3> QED BY <2>2, <3>1 DEF Registered, Holding, CertifiedBy
    <2>5. CASE h # g
      <3>1. CertifiedBy' = CertifiedBy
        BY <2>2 DEF CertifiedBy
      <3>2. /\ Holding' = [Holding EXCEPT ![h] = @ - x, ![g] = @ + x]
            /\ Holding'[h] - Holding[h] = - x /\ Holding[h] >= x
        <4>1. /\ Holding \in [Users -> Int] /\ Holding' \in [Users -> Int]
              /\ \A u \in Users : Holding'[u] = Holding[u] - (IF u = h THEN x ELSE 0)
                                                          + (IF u = g THEN x ELSE 0)
              /\ Holding[h] >= x
          BY <1>2, <1>3, <1>4, <2>3, Holdings
        <4> QED BY <1>2, <2>1, <2>5, <4>1
      <3>3. R!Move(h, g, x)
        BY <2>5, <3>1, <3>2 DEF R!Move, Holding, CertifiedBy
      <3>4. - x < 0 /\ - (- x) = x
        BY <1>2
      <3>5. R!Next
        BY <1>2, <2>1, <3>2, <3>3, <3>4 DEF R!Next, Holding
      <3> QED BY <1>2, <2>1, <3>3, <3>5 DEF Registered
    <2> QED BY <2>4, <2>5
  <1>6. CASE Burn(w)
    <2> DEFINE cert == Certificate(w)
    <2>1. /\ certificates' = certificates \cup {cert} /\ Op(w) = "retire"
          /\ cert.user = h /\ cert.amount = x /\ cert.id = Id(w)
      BY <1>6 DEF Burn, Certificate, Id
    <2>2. /\ cert \notin certificates /\ IsFiniteSet(certificates)
          /\ \A c \in certificates : c.amount \in Int
      <3>1. /\ \A c \in certificates : c.id # Id(w)
            /\ IsFiniteSet(certificates)
        BY <1>1 DEF HeldSound
      <3>2. \A c \in certificates : c.amount \in Nat
        BY DEF IInv, TypeOK
      <3> QED BY <2>1, <3>1, <3>2
    <2> HIDE DEF cert, h, x
    <2>3. \A u : /\ CertifiedOf(certificates', u) =
                      CertifiedOf(certificates, u) + (IF u = h THEN x ELSE 0)
                 /\ CertifiedOf(certificates, u) \in Int
      <3>1. cert.amount \in Int
        BY <1>2, <2>1
      <3>2. \A u : /\ CertifiedOf(certificates \cup {cert}, u) =
                        CertifiedOf(certificates, u) + (IF cert.user = u THEN cert.amount ELSE 0)
                   /\ CertifiedOf(certificates, u) \in Int
        BY <2>2, <3>1, CertificateCounts
      <3> QED BY <2>1, <3>2
    <2>4. \A u \in Users : /\ Certified(u)' = Certified(u) + (IF u = h THEN x ELSE 0)
                           /\ Certified(u) \in Int
      BY <2>3, Tonnes
    <2>5. \A u \in Users : Active(u)' = Active(u) - (IF u = h THEN x ELSE 0)
      <3>1. \A u \in Users : Gets(w, u) = 0 /\ Gives(w, u) = (IF u = h THEN x ELSE 0)
        BY <2>1 DEF Gives, Gets, h, x
      <3> QED BY <1>2, <1>3, <3>1
    <2>6. /\ Holding' = [Holding EXCEPT ![h] = @ - x]
          /\ Holding'[h] - Holding[h] = - x /\ Holding[h] >= x
      <3>1. /\ Holding \in [Users -> Int] /\ Holding' \in [Users -> Int]
            /\ \A u \in Users : Holding'[u] = Holding[u] - (IF u = h THEN x ELSE 0)
            /\ Holding[h] >= x
        BY <1>2, <1>3, <1>4, <2>5, Holdings
      <3> QED BY <1>2, <3>1
    <2>7. CertifiedBy' = [CertifiedBy EXCEPT ![h] = @ + x]
      <3>1. /\ CertifiedBy \in [Users -> Int] /\ CertifiedBy' \in [Users -> Int]
            /\ \A u \in Users : CertifiedBy'[u] = CertifiedBy[u] + (IF u = h THEN x ELSE 0)
        BY <1>2, <2>4, Certificates
      <3> QED BY <1>2, <3>1
    <2>9. R!Offset(h, x)
      BY <2>6, <2>7 DEF R!Offset, Holding, CertifiedBy
    <2>10. - x < 0 /\ - (- x) = x
      BY <1>2
    <2>11. R!Next
      BY <1>2, <2>6, <2>9, <2>10 DEF R!Next, Holding
    <2> QED BY <1>2, <2>9, <2>11 DEF Registered
  <1> QED BY <1>1, <1>5, <1>6

LEMMA InitRegistered ==
  ASSUME Init
  PROVE  R!Init
  <1>1. credits = [c \in CreditIds |->
                     IF c \in DOMAIN OpeningCredits THEN OpeningCredits[c] ELSE Absent]
        /\ certificates = {}
    BY DEF Init
  <1>2. ASSUME NEW u \in Users PROVE Active(u) = OpeningActive(u)
    <2> DEFINE S == {c \in CreditIds : credits[c].owner = u /\ credits[c].status = "active"}
               f == [c \in CreditIds |-> credits[c].amount]
               T == {c \in DOMAIN OpeningCredits :
                       OpeningCredits[c].owner = u /\ OpeningCredits[c].status = "active"}
               g == [c \in DOMAIN OpeningCredits |-> OpeningCredits[c].amount]
    <2>1. S = T /\ S \subseteq CreditIds /\ \A c \in S : f[c] = g[c] /\ g[c] \in Int
      <3>1. u # NoOne
        BY PeopleAssumption
      <3>2. \A c \in DOMAIN OpeningCredits : OpeningCredits[c].amount \in Int
        BY RowsAssumption, CreditRows
      <3> QED BY <1>1, <3>1, <3>2 DEF Absent, CreditIds
    <2>2. IsFiniteSet(S)
      BY <2>1, CreditIdsFinite, FS_Subset
    <2> HIDE DEF S, T, f, g
    <2>3. Total(S, f) = Total(T, g)
      BY <2>1, <2>2, TotalSame
    <2> QED BY <2>3 DEF Active, OpeningActive, S, T, f, g
  <1>3. ASSUME NEW u \in Users PROVE Certified(u) = 0
    <2>1. {c \in certificates : c.user = u} = {}
      BY <1>1
    <2> QED BY <2>1, TotalOfNothing DEF Certified
  <1> QED BY <1>2, <1>3 DEF R!Init

(* The credit service is the registry when requests do not overlap         *)
(* (ImplementsRegistry): every commit issues tonnes, moves them to another *)
(* holder or burns them against a certificate, never more than are held,   *)
(* or changes no holding; a crash between the two commits of an operation  *)
(* leaves the holdings as they were (credit_service.py:112-369).  The      *)
(* amounts at the start are not negative, as the database holds them until *)
(* two requests race for one credit.                                       *)
THEOREM SerialServiceIsRegistry ==
  ASSUME NEW w, Workers = {w},
         \A c \in DOMAIN OpeningCredits : OpeningCredits[c].amount \in Nat
  PROVE  Spec => ImplementsRegistry
  <1>w. w \in Workers
    OBVIOUS
  <1>1. Init => R!Init
    BY InitRegistered
  <1>2. ASSUME IInv, HeldSound(w), [Next]_vars PROVE HeldSound(w)' /\ Registered
    <2>1. CASE Moves(w)
      <3>1. CASE PostCredit(w) \/ UpdateInventory(w)
        BY <1>w, <1>2, <2>1, <3>1, NextHeld, MintIssues, SpendMovesOrBurns
      <3>2. CASE ~ (PostCredit(w) \/ UpdateInventory(w))
        <4>1. UNCHANGED <<credits, certificates>>
          BY <1>w, <1>2, <2>1, <3>2, StageAfter
             DEF Ends, database, LockCredit, LoadFirst, LoadSecond, PostDebit, Reread,
                 LoadLiability, Emit
        <4> QED BY <1>w, <1>2, <2>1, <4>1, NextHeld, Unchanged DEF Registered
      <3> QED BY <3>1, <3>2
    <2>2. CASE UNCHANGED vars \/ \E u \in Users : Expire(u)
      <3>1. UNCHANGED <<pc, session, credits, certificates>>
        BY <2>2 DEF vars, Expire, database
      <3>2. HeldSound(w)'
        BY <1>2, <3>1 DEF HeldSound, OwnedActive, Sufficient, Op, User, Target, Amount, Id
      <3> QED BY <3>1, <3>2, Unchanged DEF Registered
    <2> QED BY <1>2, <2>1, <2>2 DEF Next, Moves
  <1>3. Init => HeldSound(w)
    BY <1>w, InitHeld
  <1>4. Registered =>
          [R!Next]_<<[u \in Users |-> Active(u)], [u \in Users |-> Certified(u)]>>
    BY DEF Registered, Holding, CertifiedBy
  <1> QED
    BY <1>1, <1>2, <1>3, <1>4, Invariance, PTL DEF Spec, ImplementsRegistry, R!Spec

-----------------------------------------------------------------------------
(* A tonne is used once.                                                   *)

(* The tonnes of the users at the start.                                   *)
Opened == [u \in Users |-> OpeningActive(u)]

(* A column over the users changes at one of them.                         *)
ChangesAt(h, f, g) ==
  /\ f \in [Users -> Int] /\ g \in [Users -> Int]
  /\ \A u \in Users \ {h} : f[u] = g[u]

LEMMA ColumnChanged ==
  ASSUME NEW f, NEW g, NEW h \in Users, ChangesAt(h, f, g)
  PROVE  /\ Total(Users, g) = Total(Users, f) + (g[h] - f[h])
         /\ Total(Users, f) \in Int
  <1>1. /\ IsFiniteSet(Users) /\ \A u \in Users \ {h} : f[u] = g[u]
        /\ \A u \in Users : f[u] \in Int /\ g[u] \in Int
    BY TablesAssumption DEF ChangesAt
  <1> QED BY <1>1, TotalChanged, TotalType

(* Every tonne is in the inventory or certified, once.                     *)
Conserved ==
  /\ Holding \in [Users -> Int] /\ CertifiedBy \in [Users -> Int]
  /\ (Total(Users, CertifiedBy) + Total(Users, Holding)) - Minted = Total(Users, Opened)

(* Minted, as a function of the ledger.                                    *)
MintsIn(ps) ==
  Total({i \in DOMAIN ps : ps[i].op = "mint"}, [i \in DOMAIN ps |-> ps[i].amount])

LEMMA MintsTyped ==
  ASSUME NEW ps \in Seq(PostingType)
  PROVE  MintsIn(ps) \in Int
  <1> DEFINE S == {i \in DOMAIN ps : ps[i].op = "mint"}
             f == [i \in DOMAIN ps |-> ps[i].amount]
  <1>1. DOMAIN ps = 1..Len(ps) /\ Len(ps) \in Nat /\ S \subseteq 1..Len(ps)
    OBVIOUS
  <1>2. \A i \in S : f[i] \in Int
    <2>1. \A i \in DOMAIN ps : ps[i] \in PostingType
      OBVIOUS
    <2>2. \A q \in PostingType : q.amount \in Int
      BY DEF PostingType
    <2> QED BY <2>1, <2>2
  <1> HIDE DEF S, f
  <1>3. IsFiniteSet(S)
    <2>1. IsFiniteSet(1..Len(ps))
      BY <1>1, FS_Interval
    <2> QED BY <1>1, <2>1, FS_Subset
  <1>4. Total(S, f) \in Int
    BY <1>2, <1>3, TotalType
  <1> QED BY <1>4 DEF MintsIn, S, f

LEMMA MintsCounted ==
  ASSUME NEW ps \in Seq(PostingType), NEW p \in PostingType
  PROVE  MintsIn(Append(ps, p)) = MintsIn(ps) + (IF p.op = "mint" THEN p.amount ELSE 0)
  <1> DEFINE n == Len(ps) + 1
             qs == Append(ps, p)
             S == {i \in 1..Len(ps) : ps[i].op = "mint"}
             T == {i \in 1..n : qs[i].op = "mint"}
             f == [i \in 1..Len(ps) |-> ps[i].amount]
             g == [i \in 1..n |-> qs[i].amount]
  <1>1. /\ Len(ps) \in Nat /\ DOMAIN ps = 1..Len(ps) /\ DOMAIN qs = 1..n
        /\ qs[n] = p /\ \A i \in 1..Len(ps) : qs[i] = ps[i] /\ ps[i] \in PostingType
    OBVIOUS
  <1>2. MintsIn(ps) = Total(S, f) /\ MintsIn(qs) = Total(T, g)
    BY <1>1 DEF MintsIn
  <1>3. \A q \in PostingType : q.amount \in Int
    BY DEF PostingType
  <1>4. /\ \A i \in S : f[i] \in Int /\ g[i] = f[i]
        /\ \A i \in T : g[i] \in Int
        /\ IsFiniteSet(S) /\ IsFiniteSet(T)
    <2>1. /\ \A i \in 1..n : g[i] = qs[i].amount /\ qs[i] \in PostingType
          /\ \A i \in 1..Len(ps) : f[i] = ps[i].amount /\ qs[i] = ps[i] /\ i \in 1..n
      BY <1>1
    <2>2. IsFiniteSet(1..n)
      BY <1>1, FS_Interval
    <2>3. S \subseteq 1..n /\ T \subseteq 1..n
      BY <1>1
    <2>4. \A i \in 1..n : g[i] \in Int
      BY <1>3, <2>1
    <2>5. S \subseteq 1..Len(ps)
      OBVIOUS
    <2> HIDE DEF S, T, f, g, n, qs
    <2> QED BY <2>1, <2>2, <2>3, <2>4, <2>5, FS_Subset
  <1>5. Total(S, f) = Total(S, g)
    <2> HIDE DEF S, f, g
    <2> QED BY <1>4, TotalSame
  <1>6. CASE p.op # "mint"
    <2>1. S = T
      BY <1>1, <1>6
    <2> HIDE DEF S, T, f, g
    <2> QED BY <1>2, <1>5, <1>6, <2>1, MintsTyped
  <1>7. CASE p.op = "mint"
    <2>1. n \in T /\ T \ {n} = S /\ g[n] = p.amount
      BY <1>1, <1>7
    <2> HIDE DEF S, T, f, g, n
    <2>2. Total(T, g) = g[n] + Total(T \ {n}, g)
      BY <1>4, <2>1, TotalSplit
    <2>3. MintsIn(ps) \in Int /\ p.amount \in Int
      BY <1>3, MintsTyped
    <2>4. MintsIn(qs) = p.amount + MintsIn(ps)
      BY <1>2, <1>5, <2>1, <2>2
    <2> HIDE DEF qs
    <2>5. MintsIn(qs) = MintsIn(ps) + p.amount
      BY <2>3, <2>4
    <2> QED BY <1>7, <2>5 DEF qs
  <1> QED BY <1>6, <1>7

LEMMA PostingConserves ==
  ASSUME IInv, NEW w \in Workers, HeldSound(w), Conserved, PostCredit(w)
  PROVE  Conserved'
  <1> DEFINE p == Posting(w)
             h == User(w)
             x == Amount(w)
  <1>0. IsFiniteSet(Users)
    BY TablesAssumption
  <1>1. /\ postings' = Append(postings, p) /\ pc[w] = "entry"
    BY DEF PostCredit
  <1>2. /\ h \in Users /\ x \in Nat \ {0} /\ postings \in Seq(PostingType)
        /\ p.op = Op(w) /\ p.amount = x /\ p \in PostingType
    <2>1. /\ h \in Users /\ x \in Nat \ {0} /\ SessionSound(w) /\ Serving(w)
      BY <1>1, Steady DEF Serving
    <2>2. /\ Op(w) \in PostingOps /\ Id(w) \in 1..MaxOps
          /\ Debited(w) \in Accounts /\ Credited(w) \in Accounts
      BY <1>1, <2>1 DEF SessionSound, Checked, PostingOps
    <2> QED BY <2>1, <2>2 DEF Posting, PostingType, PostingOps, Id, IInv, TypeOK
  <1>3. /\ Minted = MintsIn(postings) /\ Minted' = MintsIn(postings')
    BY DEF Minted, MintsIn
  <1> HIDE DEF p, h, x
  <1>4. Minted' = Minted + (IF Op(w) = "mint" THEN x ELSE 0) /\ Minted \in Int
    BY <1>1, <1>2, <1>3, MintsCounted, MintsTyped
  <1>5. CASE Op(w) # "mint"
    <2>1. Holding' = Holding /\ CertifiedBy' = CertifiedBy
      BY <1>5, MintIssues
    <2>2. Minted' = Minted
      BY <1>4, <1>5
    <2> QED BY <2>1, <2>2 DEF Conserved
  <1>6. CASE Op(w) = "mint"
    <2>1. /\ Holding' = [Holding EXCEPT ![h] = @ + x] /\ CertifiedBy' = CertifiedBy
          /\ Holding \in [Users -> Int] /\ CertifiedBy \in [Users -> Int]
      BY <1>6, MintIssues DEF R!Issue, Holding, CertifiedBy, Conserved, h, x
    <2>2. /\ Holding' \in [Users -> Int] /\ Holding'[h] - Holding[h] = x
          /\ ChangesAt(h, Holding, Holding')
      BY <1>2, <2>1 DEF ChangesAt
    <2>3. Total(Users, Holding') = Total(Users, Holding) + x /\ Total(Users, Holding) \in Int
      <3>1. Total(Users, Holding') = Total(Users, Holding) + (Holding'[h] - Holding[h])
        BY <1>2, <2>2, ColumnChanged
      <3>2. Total(Users, Holding) \in Int
        BY <1>2, <2>2, ColumnChanged
      <3> QED BY <2>2, <3>1, <3>2
    <2>4. Total(Users, CertifiedBy) \in Int
      BY <2>1, <1>0, TotalType
    <2>5. (Total(Users, CertifiedBy') + Total(Users, Holding')) - Minted' =
            (Total(Users, CertifiedBy) + Total(Users, Holding)) - Minted
      BY <1>2, <1>4, <1>6, <2>1, <2>3, <2>4
    <2> QED BY <2>1, <2>2, <2>5 DEF Conserved
  <1> QED BY <1>5, <1>6

LEMMA SpendingConserves ==
  ASSUME IInv, NEW w \in Workers, HeldSound(w), Conserved, UpdateInventory(w)
  PROVE  Conserved'
  <1>1. Minted' = Minted
    BY DEF UpdateInventory, Minted
  <1>2. CASE UNCHANGED <<Holding, CertifiedBy>>
    BY <1>1, <1>2 DEF Conserved
  <1>3. ASSUME NEW h \in Users, NEW x \in Nat, R!Offset(h, x) PROVE Conserved'
    <2>1. /\ Holding' = [Holding EXCEPT ![h] = @ - x]
          /\ CertifiedBy' = [CertifiedBy EXCEPT ![h] = @ + x]
          /\ Holding \in [Users -> Int] /\ CertifiedBy \in [Users -> Int]
      BY <1>3 DEF R!Offset, Holding, CertifiedBy, Conserved
    <2>2. /\ Holding' \in [Users -> Int] /\ CertifiedBy' \in [Users -> Int]
          /\ Holding'[h] - Holding[h] = - x /\ CertifiedBy'[h] - CertifiedBy[h] = x
          /\ ChangesAt(h, Holding, Holding') /\ ChangesAt(h, CertifiedBy, CertifiedBy')
      BY <2>1 DEF ChangesAt
    <2>3. Total(Users, Holding') = Total(Users, Holding) + (Holding'[h] - Holding[h])
      BY <2>2, ColumnChanged
    <2>4. Total(Users, CertifiedBy') =
            Total(Users, CertifiedBy) + (CertifiedBy'[h] - CertifiedBy[h])
      BY <2>2, ColumnChanged
    <2>5. Total(Users, Holding) \in Int /\ Total(Users, CertifiedBy) \in Int
      BY <2>2, ColumnChanged
    <2>6. Total(Users, CertifiedBy') + Total(Users, Holding') =
            Total(Users, CertifiedBy) + Total(Users, Holding)
      BY <2>2, <2>3, <2>4, <2>5
    <2>7. (Total(Users, CertifiedBy') + Total(Users, Holding')) - Minted' =
            (Total(Users, CertifiedBy) + Total(Users, Holding)) - Minted
      BY <1>1, <2>6
    <2> QED BY <2>2, <2>7 DEF Conserved
  <1>4. ASSUME NEW h \in Users, NEW g \in Users, NEW x \in Nat, R!Move(h, g, x)
        PROVE  Conserved'
    <2> DEFINE mid == [Holding EXCEPT ![h] = @ - x]
    <2>1. /\ Holding' = [Holding EXCEPT ![h] = @ - x, ![g] = @ + x] /\ h # g
          /\ CertifiedBy' = CertifiedBy
          /\ Holding \in [Users -> Int] /\ CertifiedBy \in [Users -> Int]
      BY <1>4 DEF R!Move, Holding, CertifiedBy, Conserved
    <2>2. /\ Holding' \in [Users -> Int]
          /\ mid[h] - Holding[h] = - x /\ Holding'[g] - mid[g] = x
          /\ ChangesAt(h, Holding, mid) /\ ChangesAt(g, mid, Holding')
      BY <2>1 DEF ChangesAt
    <2> HIDE DEF mid
    <2>3. Total(Users, mid) = Total(Users, Holding) + (mid[h] - Holding[h])
      BY <2>2, ColumnChanged
    <2>4. Total(Users, Holding') = Total(Users, mid) + (Holding'[g] - mid[g])
      BY <2>2, ColumnChanged
    <2>5. Total(Users, Holding) \in Int
      BY <2>2, ColumnChanged
    <2>6. Total(Users, Holding') = Total(Users, Holding)
      BY <2>2, <2>3, <2>4, <2>5
    <2> QED BY <1>1, <2>1, <2>2, <2>6 DEF Conserved
  <1> QED BY <1>2, <1>3, <1>4, MintIssues, SpendMovesOrBurns
LEMMA InitConserved ==
  ASSUME NEW w \in Workers, Init, HeldSound(w)
  PROVE  Conserved
  <1>0. IsFiniteSet(Users)
    BY TablesAssumption
  <1>1. Holding = Opened /\ CertifiedBy = [u \in Users |-> 0]
    BY InitRegistered DEF R!Init, Holding, CertifiedBy, Opened
  <1>2. Holding \in [Users -> Int]
    <2>1. \A c \in CreditIds : credits[c].amount \in Int
      BY DEF HeldSound
    <2>2. \A u \in Users : Active(u) \in Int
      BY <2>1, ActiveWeighed, Tonnes
    <2> QED BY <2>2 DEF Holding
  <1>3. CertifiedBy \in [Users -> Int] /\ \A u \in Users : CertifiedBy[u] = 0
    BY <1>1
  <1>4. Total(Users, CertifiedBy) = 0
    <2>1. Total({}, CertifiedBy) = Total(Users, CertifiedBy)
      BY <1>0, <1>3, TotalFiltered
    <2> QED BY <2>1, TotalOfNothing
  <1>5. Minted = 0
    <2>1. {i \in DOMAIN postings : postings[i].op = "mint"} = {}
      BY DEF Init
    <2> QED BY <2>1, TotalOfNothing DEF Minted
  <1>6. Total(Users, Holding) \in Int
    BY <1>0, <1>2, TotalType
  <1> QED BY <1>1, <1>2, <1>3, <1>4, <1>5, <1>6 DEF Conserved

(* A tonne is used once (NotCountedTwice) when requests do not overlap:    *)
(* what is certified or still active was there at the start or minted.  It *)
(* takes two requests at a time to count a tonne twice                     *)
(* (models/carbon_credit.py:58-61, credit_service.py:250-270, 333-363).    *)
THEOREM SerialNotCountedTwice ==
  ASSUME NEW w, Workers = {w},
         \A c \in DOMAIN OpeningCredits : OpeningCredits[c].amount \in Nat
  PROVE  Spec => []NotCountedTwice
  <1>0. IsFiniteSet(Users)
    BY TablesAssumption
  <1>w. w \in Workers
    OBVIOUS
  <1>1. Init => HeldSound(w) /\ Conserved
    BY <1>w, InitHeld, InitConserved
  <1>2. ASSUME IInv, HeldSound(w), Conserved, [Next]_vars PROVE HeldSound(w)' /\ Conserved'
    <2>1. CASE Moves(w)
      <3>1. CASE PostCredit(w) \/ UpdateInventory(w)
        BY <1>w, <1>2, <2>1, <3>1, NextHeld, PostingConserves, SpendingConserves
      <3>2. CASE ~ (PostCredit(w) \/ UpdateInventory(w))
        <4>1. UNCHANGED <<credits, certificates, postings>>
          BY <1>w, <1>2, <2>1, <3>2, StageAfter
             DEF Ends, database, LockCredit, LoadFirst, LoadSecond, PostDebit, Reread,
                 LoadLiability, Emit
        <4>2. UNCHANGED <<Holding, CertifiedBy>> /\ Minted' = Minted
          BY <4>1, Unchanged DEF Minted
        <4> QED BY <1>w, <1>2, <2>1, <4>2, NextHeld DEF Conserved
      <3> QED BY <3>1, <3>2
    <2>2. CASE UNCHANGED vars \/ \E u \in Users : Expire(u)
      <3>1. UNCHANGED <<pc, session, credits, certificates, postings>>
        BY <2>2 DEF vars, Expire, database
      <3>2. HeldSound(w)'
        BY <1>2, <3>1 DEF HeldSound, OwnedActive, Sufficient, Op, User, Target, Amount, Id
      <3>3. UNCHANGED <<Holding, CertifiedBy>> /\ Minted' = Minted
        BY <3>1, Unchanged DEF Minted
      <3> QED BY <1>2, <3>2, <3>3 DEF Conserved
    <2> QED BY <1>2, <2>1, <2>2 DEF Next, Moves
  <1>3. IInv /\ Conserved => NotCountedTwice
    <2>1. SUFFICES ASSUME IInv, Conserved PROVE NotCountedTwice
      OBVIOUS
    <2>2. Total(Users, CertifiedBy) \in Int /\ Total(Users, Holding) \in Int
      BY <1>0, <2>1, TotalType DEF Conserved
    <2>3. Minted \in Int
      <3>1. Minted = MintsIn(postings) /\ postings \in Seq(PostingType)
        BY <2>1 DEF Minted, MintsIn, IInv, TypeOK
      <3> QED BY <3>1, MintsTyped
    <2>4. (Total(Users, CertifiedBy) + Total(Users, Holding)) - Minted = Total(Users, Opened)
      BY <2>1 DEF Conserved
    <2>5. Total(Users, CertifiedBy) + Total(Users, Holding) <= Total(Users, Opened) + Minted
      BY <2>2, <2>3, <2>4
    <2> QED BY <2>5 DEF NotCountedTwice, Opened, CertifiedBy, Holding
  <1> QED BY <1>1, <1>2, <1>3, Invariance, PTL DEF Spec

-----------------------------------------------------------------------------
(* What becomes of a cached listing, whatever workers there are.           *)

(* w is to invalidate the listing of the user it works for.                *)
Announced(w) == \E i \in DOMAIN session[w].evict : session[w].evict[i] = User(w)

(* Between its two commits an operation has announced its user and has not *)
(* written the row it is named after.                                      *)
PendingSound(w) == pc[w] \in {"reread", "update"} => credits[Id(w)] = Absent /\ Announced(w)

LEMMA OthersStay ==
  ASSUME IInv, NEW w \in Workers, Moves(w), NEW v \in Workers \ {w}
  PROVE  pc'[v] = pc[v] /\ session'[v] = session[v]
  <1>1. pc \in [Workers -> Stages] /\ session \in [Workers -> SessionType]
    BY Steady
  <1>2. CASE \/ CreditMissing(w) \/ CreditRefused(w) \/ AccountMissing(w) \/ Overdrawn(w)
             \/ Respond(w) \/ CacheHit(w) \/ LockFailure(w) \/ Crash(w) \/ Fill(w)
    <2>1. /\ pc' = [pc EXCEPT ![w] = "idle"]
          /\ session' = [session EXCEPT ![w] = NoSession]
      BY <1>2 DEF CreditMissing, CreditRefused, AccountMissing, Overdrawn, Respond, CacheHit,
                  LockFailure, Crash, Fill, Refuse, Finish
    <2> QED BY <1>1, <2>1
  <1>3. CASE LockCredit(w) \/ LoadFirst(w) \/ LoadSecond(w) \/ PostDebit(w)
    BY <1>1, <1>3 DEF LockCredit, LoadFirst, LoadSecond, PostDebit
  <1>4. CASE PostCredit(w) \/ Reread(w) \/ UpdateInventory(w)
    BY <1>1, <1>4 DEF PostCredit, Reread, UpdateInventory, HandOver, Burn
  <1>5. CASE Evict(w) \/ LoadLiability(w) \/ Emit(w) \/ CacheMiss(w)
    BY <1>1, <1>5 DEF Evict, LoadLiability, Emit, CacheMiss
  <1>6. CASE \E r \in Requests : Submit(w, r)
    BY <1>1, <1>6 DEF Submit
  <1> QED BY <1>2, <1>3, <1>4, <1>5, <1>6 DEF Moves, Step

(* The rows a commit changes: the one it is named after, and the credit    *)
(* the request asked for.                                                  *)
LEMMA RowsWritten ==
  ASSUME IInv, NEW w \in Workers, Moves(w)
  PROVE  \/ credits' = credits
         \/ /\ PostCredit(w) /\ Op(w) = "mint"
            /\ credits' = [credits EXCEPT ![Id(w)] = NewCredit(User(w), w, "active")]
         \/ UpdateInventory(w)
  <1>1. CASE \/ Ends(w) \/ LockCredit(w) \/ LoadFirst(w) \/ LoadSecond(w) \/ PostDebit(w)
             \/ Reread(w) \/ LoadLiability(w) \/ Emit(w) \/ UNCHANGED <<database, engine>>
    BY <1>1 DEF Ends, LockCredit, LoadFirst, LoadSecond, PostDebit, Reread, LoadLiability,
                Emit, database
  <1>2. CASE PostCredit(w)
    BY <1>2 DEF PostCredit, Id
  <1> QED BY <1>1, <1>2, StageAfter

LEMMA AboutToUpdate ==
  ASSUME IInv, NEW w \in Workers, PendingSound(w), pc[w] = "update"
  PROVE  /\ Target(w) \in CreditIds /\ credits[Target(w)] # Absent
         /\ Id(w) \in CreditIds /\ credits[Id(w)] = Absent /\ Target(w) # Id(w)
         /\ Op(w) \in SpendOps /\ User(w) \in Users /\ Announced(w)
         /\ Op(w) = "transfer" => session[w].req.to \in Users
  <1>1. /\ Op(w) \in SpendOps /\ Target(w) \in CreditIds /\ User(w) \in Users
        /\ Id(w) \in 1..MaxOps /\ credits[Target(w)] # Absent
        /\ Op(w) = "transfer" => session[w].req.to \in Users
    BY Steady DEF SessionSound, Serving, SpendOps, KnownRecipient
  <1>2. credits[Id(w)] = Absent /\ Announced(w)
    BY DEF PendingSound
  <1> QED BY <1>1, <1>2 DEF CreditIds

(* Whose rows the second commit changes: the asker's and the recipient's,  *)
(* who are to be invalidated, and those of the owner it finds.             *)
LEMMA UpdateAffects ==
  ASSUME IInv, NEW w \in Workers, PendingSound(w), UpdateInventory(w),
         NEW c \in CreditIds, credits'[c] # credits[c], NEW u \in Users,
         u \in {credits[c].owner, credits'[c].owner}
  PROVE  EvictsNext(w, u) \/ ChangesAnothers(w, u)
  <1> DEFINE t == Target(w)
             x == Id(w)
             to == session[w].req.to
  <1>1. /\ pc[w] = "update" /\ (HandOver(w) \/ Burn(w)) /\ pc'[w] = "evict"
        /\ session \in [Workers -> SessionType] /\ credits \in [CreditIds -> CreditType]
    <2>1. pc \in [Workers -> Stages] /\ session \in [Workers -> SessionType]
      BY Steady
    <2> QED BY <2>1 DEF UpdateInventory, IInv, TypeOK
  <1>2. /\ t \in CreditIds /\ x \in CreditIds /\ t # x /\ credits[x] = Absent
        /\ credits[t] # Absent /\ Announced(w)
    BY <1>1, AboutToUpdate
  <1>3. u # NoOne
    BY PeopleAssumption
  <1>4. CASE HandOver(w)
    <2>1. /\ session'[w].evict = <<User(w), to>>
          /\ credits' \in {credits, Split(w, to, "active"), [credits EXCEPT ![t].owner = to]}
      BY <1>1, <1>4 DEF HandOver
    <2>2. u \in {User(w), to} => EvictsNext(w, u)
      <3>1. /\ DOMAIN session'[w].evict = 1..2 /\ session'[w].evict[1] = User(w)
            /\ session'[w].evict[2] = to
        BY <2>1
      <3> QED BY <1>1, <3>1 DEF EvictsNext
    <2>3. u \in {User(w), to, credits[t].owner}
      <3>1. CASE credits' = Split(w, to, "active")
        <4>1. /\ credits'[x].owner = to /\ credits'[t].owner = credits[t].owner
              /\ c \in {t, x}
          BY <1>1, <1>2, <3>1, CreditRows DEF Split, NewCredit, Id, CreditRow
        <4> QED BY <1>2, <1>3, <4>1 DEF Absent
      <3>2. CASE credits' = [credits EXCEPT ![t].owner = to]
        <4>1. c = t /\ credits'[t].owner = to
          BY <1>1, <1>2, <3>2, CreditRows DEF CreditRow
        <4> QED BY <4>1
      <3> QED BY <2>1, <3>1, <3>2
    <2> QED BY <1>1, <2>2, <2>3 DEF ChangesAnothers
  <1>5. CASE Burn(w)
    <2>1. /\ session' = session
          /\ credits' \in {Split(w, User(w), "retired"), [credits EXCEPT ![t].status = "retired"]}
      BY <1>5 DEF Burn
    <2>2. u = User(w) => EvictsNext(w, u)
      BY <1>1, <1>2, <2>1 DEF EvictsNext, Announced
    <2>3. u \in {User(w), credits[t].owner}
      <3>1. CASE credits' = Split(w, User(w), "retired")
        <4>1. /\ credits'[x].owner = User(w) /\ credits'[t].owner = credits[t].owner
              /\ c \in {t, x}
          BY <1>1, <1>2, <3>1, CreditRows DEF Split, NewCredit, Id, CreditRow
        <4> QED BY <1>2, <1>3, <4>1 DEF Absent
      <3>2. CASE credits' = [credits EXCEPT ![t].status = "retired"]
        <4>1. c = t /\ credits'[t].owner = credits[t].owner
          BY <1>1, <1>2, <3>2, CreditRows DEF CreditRow
        <4> QED BY <4>1
      <3> QED BY <2>1, <3>1, <3>2
    <2> QED BY <1>1, <2>2, <2>3 DEF ChangesAnothers
  <1> QED BY <1>1, <1>4, <1>5

LEMMA NextPending ==
  ASSUME IInv, NEW w \in Workers, Moves(w), \A v \in Workers : PendingSound(v)
  PROVE  \A v \in Workers : PendingSound(v)'
  <1>1. /\ pc \in [Workers -> Stages] /\ session \in [Workers -> SessionType]
        /\ session[w] \in SessionType /\ SessionSound(w)
        /\ credits \in [CreditIds -> CreditType]
    BY Steady DEF IInv, TypeOK
  <1>2. ASSUME NEW v \in Workers \ {w} PROVE PendingSound(v)'
    <2>1. pc'[v] = pc[v] /\ session'[v] = session[v]
      BY OthersStay
    <2>2. SUFFICES ASSUME pc[v] \in {"reread", "update"} PROVE credits'[Id(v)] = Absent
      BY <2>1 DEF PendingSound, Announced, Id, User
    <2>3. /\ credits[Id(v)] = Absent /\ Id(v) \in 1..MaxOps /\ Serving(v)
      BY <2>2, Steady DEF PendingSound, SessionSound, Serving, SpendOps
    <2>4. Serving(w) => Id(w) # Id(v)
      BY <2>3, OperationsAssumption DEF IInv, IdsDistinct
    <2>5. CASE PostCredit(w) /\ credits' = [credits EXCEPT ![Id(w)] = NewCredit(User(w), w, "active")]
      <3>1. Serving(w)
        BY <2>5 DEF PostCredit, Serving
      <3> QED BY <1>1, <2>3, <2>4, <2>5, <3>1 DEF CreditIds
    <2>6. CASE UpdateInventory(w)
      <3>1. pc[w] = "update" /\ Serving(w)
        BY <2>6 DEF UpdateInventory, Serving
      <3>2. Target(w) # Id(v)
        BY <2>3, <3>1, AboutToUpdate
      <3>3. credits'[Id(v)] = credits[Id(v)]
        BY <1>1, <2>3, <2>4, <2>6, <3>1, <3>2
           DEF UpdateInventory, HandOver, Burn, Split, Id, CreditIds
      <3> QED BY <2>3, <3>3
    <2> QED BY <2>3, <2>5, <2>6, RowsWritten
  <1>3. PendingSound(w)'
    <2>1. CASE Reread(w)
      <3>1. /\ pc[w] = "reread" /\ credits' = credits /\ session'[w].req = session[w].req
            /\ session'[w].id = session[w].id /\ session'[w].evict = session[w].evict
        BY <1>1, <2>1 DEF Reread, database, SessionType
      <3> QED BY <3>1 DEF PendingSound, Announced, Id, User
    <2>2. CASE PostCredit(w)
      <3>1. /\ pc[w] = "entry" /\ session'[w].evict = <<User(w)>>
            /\ pc'[w] = IF Op(w) = "mint" THEN "evict" ELSE "reread"
            /\ session'[w].req = session[w].req /\ session'[w].id = session[w].id
        BY <1>1, <2>2 DEF PostCredit, SessionType
      <3>2. SUFFICES ASSUME Op(w) # "mint" PROVE PendingSound(w)'
        BY <3>1 DEF PendingSound
      <3>3. credits' = credits /\ Op(w) # "list"
        BY <1>1, <2>2, <3>1, <3>2 DEF PostCredit, SessionSound, Checked, PostingOps
      <3>4. credits[Id(w)] = Absent
        BY <3>1, <3>3, Unwritten DEF Unposted, Checked, Fresh
      <3>5. 1 \in DOMAIN session'[w].evict /\ session'[w].evict[1] = User(w)
        BY <3>1
      <3>6. Announced(w)' /\ Id(w)' = Id(w)
        BY <3>1, <3>5 DEF Announced, User, Id
      <3> QED BY <3>3, <3>4, <3>6 DEF PendingSound
    <2>3. CASE ~ (Reread(w) \/ PostCredit(w))
      <3>1. CASE Ends(w) \/ LockCredit(w) \/ LoadFirst(w) \/ LoadSecond(w) \/ PostDebit(w)
        BY <1>1, <3>1 DEF Ends, LockCredit, LoadFirst, LoadSecond, PostDebit, PendingSound
      <3>2. CASE UpdateInventory(w) \/ LoadLiability(w) \/ Emit(w)
        BY <1>1, <3>2 DEF UpdateInventory, LoadLiability, Emit, PendingSound
      <3>3. CASE pc'[w] \in {"credit", "first", "emission", "list", "evict", "fill"}
        BY <3>3 DEF PendingSound
      <3> QED BY <2>3, <3>1, <3>2, <3>3, StageAfter
    <2> QED BY <2>1, <2>2, <2>3
  <1> QED BY <1>2, <1>3

LEMMA ListingSame ==
  ASSUME NEW u,
         \A c \in CreditIds : credits'[c] # credits[c] =>
            u \notin {credits[c].owner, credits'[c].owner}
  PROVE  Listing(u)' = Listing(u)
  BY DEF Listing

(* A step that leaves the inventory alone leaves the cached listings, or   *)
(* removes one, or stores what was read.                                   *)
LEMMA CachedListings ==
  ASSUME IInv, NEW w \in Workers, Moves(w), NEW u \in Users
  PROVE  \/ cache'[u] \in {cache[u], {}}
         \/ /\ pc[w] = "fill" /\ pc'[w] = "idle" /\ User(w) = u
            /\ cache'[u] = session[w].listing /\ credits' = credits
  <1>1. /\ pc \in [Workers -> Stages] /\ cache \in [Users -> SUBSET ListingRow]
    BY Steady DEF IInv, TypeOK, ListingRow
  <1>2. CASE Fill(w)
    BY <1>1, <1>2 DEF Fill, Finish, database
  <1>3. CASE Evict(w)
    BY <1>1, <1>3 DEF Evict
  <1>4. CASE \/ CreditMissing(w) \/ CreditRefused(w) \/ AccountMissing(w) \/ Overdrawn(w)
             \/ Respond(w) \/ CacheHit(w) \/ LockFailure(w) \/ Crash(w)
    BY <1>4 DEF CreditMissing, CreditRefused, AccountMissing, Overdrawn, Respond, CacheHit,
                LockFailure, Crash, Refuse
  <1>5. CASE \/ LockCredit(w) \/ LoadFirst(w) \/ LoadSecond(w) \/ PostDebit(w)
             \/ PostCredit(w)
    BY <1>5 DEF LockCredit, LoadFirst, LoadSecond, PostDebit, PostCredit
  <1>6. CASE Reread(w) \/ UpdateInventory(w) \/ LoadLiability(w) \/ Emit(w) \/ CacheMiss(w)
    BY <1>6 DEF Reread, UpdateInventory, LoadLiability, Emit, CacheMiss
  <1>7. CASE \E r \in Requests : Submit(w, r)
    BY <1>7 DEF Submit
  <1> QED BY <1>2, <1>3, <1>4, <1>5, <1>6, <1>7 DEF Moves, Step

LEMMA ListingsExplained ==
  ASSUME IInv, NEW w \in Workers, Moves(w), PendingSound(w), NEW u \in Users,
         Current(u), ~ Current(u)'
  PROVE  EvictsNext(w, u) \/ FillsLate(w, u) \/ ChangesAnothers(w, u)
  <1>1. CASE Listing(u)' = Listing(u)
    <2>1. cache'[u] \notin {cache[u], {}} /\ cache'[u] # Listing(u)
      BY <1>1 DEF Current
    <2> QED BY <2>1, CachedListings DEF FillsLate
  <1>2. CASE Listing(u)' # Listing(u)
    <2>1. PICK c \in CreditIds : /\ credits'[c] # credits[c]
                                 /\ u \in {credits[c].owner, credits'[c].owner}
      BY <1>2, ListingSame
    <2>2. CASE UpdateInventory(w)
      BY <2>1, <2>2, UpdateAffects
    <2>3. CASE /\ PostCredit(w) /\ Op(w) = "mint"
               /\ credits' = [credits EXCEPT ![Id(w)] = NewCredit(User(w), w, "active")]
      <3>1. /\ pc[w] = "entry" /\ pc'[w] = "evict" /\ session'[w].evict = <<User(w)>>
            /\ credits \in [CreditIds -> CreditType]
        <4>1. pc \in [Workers -> Stages] /\ session \in [Workers -> SessionType]
          BY Steady
        <4> QED BY <2>3, <4>1 DEF PostCredit, IInv, TypeOK, SessionType
      <3>2. Id(w) \in CreditIds /\ credits[Id(w)] = Absent
        BY <2>3, <3>1, Unwritten DEF Unposted, Checked, Fresh
      <3>3. c = Id(w) /\ credits'[c].owner = User(w)
        BY <2>1, <2>3, <3>1, <3>2 DEF NewCredit
      <3>4. credits[c].owner # u
        BY <3>2, <3>3, PeopleAssumption DEF Absent
      <3>5. 1 \in DOMAIN session'[w].evict /\ session'[w].evict[1] = u
        BY <2>1, <3>1, <3>3, <3>4
      <3> QED BY <3>1, <3>5 DEF EvictsNext
    <2> QED BY <2>1, <2>2, <2>3, RowsWritten
  <1> QED BY <1>1, <1>2

(* StaleListingsAreExplained: a cached listing falls behind by a commit    *)
(* that is about to invalidate it, by a late fill, or by the second claim  *)
(* on a credit; by nothing else, for any number of workers and requests    *)
(* (credit_service.py:88-109, 183, 273-274, 367).                          *)
THEOREM ListingsFallBehindForAReason == Spec => StaleListingsAreExplained
  <1> DEFINE Pending == \A v \in Workers : PendingSound(v)
  <1>1. Init => Pending
    BY DEF Init, PendingSound
  <1>2. ASSUME IInv, Pending, [Next]_vars
        PROVE  /\ Pending'
               /\ [\A u \in Users : Current(u) /\ ~ Current(u)' =>
                      \E w \in Workers :
                         EvictsNext(w, u) \/ FillsLate(w, u) \/ ChangesAnothers(w, u)]_vars
    <2>1. CASE \E w \in Workers : Moves(w)
      <3>1. PICK w \in Workers : Moves(w)
        BY <2>1
      <3>2. Pending'
        BY <1>2, <3>1, NextPending
      <3> QED BY <1>2, <3>1, <3>2, ListingsExplained
    <2>2. CASE \E u \in Users : Expire(u)
      <3>1. PICK u \in Users : Expire(u)
        BY <2>2
      <3>2. /\ UNCHANGED <<pc, session, credits>> /\ cache' = [cache EXCEPT ![u] = {}]
            /\ cache \in [Users -> SUBSET ListingRow]
        BY <1>2, <3>1 DEF Expire, database, IInv, TypeOK, ListingRow
      <3>3. \A v \in Users : Current(v) => Current(v)'
        BY <3>2 DEF Current, Listing
      <3> QED BY <1>2, <3>2, <3>3 DEF PendingSound, Announced, Id, User
    <2>3. CASE UNCHANGED vars
      BY <1>2, <2>3 DEF vars, database, PendingSound, Announced, Id, User
    <2> QED BY <1>2, <2>1, <2>2, <2>3 DEF Next, Moves
  <1> HIDE DEF Pending
  <1> QED BY <1>1, <1>2, Invariance, PTL DEF Spec, StaleListingsAreExplained
=============================================================================
