---------------------------- MODULE AccessProofs ----------------------------
(***************************************************************************)
(* Proofs about accounts, sessions and authority for any sets of workers,  *)
(* users, requests and deployments.                                        *)
(***************************************************************************)
EXTENDS Access, FiniteSetTheorems, SequenceTheorems, TLAPS

LoginStages == {"name", "row", "lookup", "verify"}
AuthStages  == {"session", "actor", "logout", "target", "commit", "revoke", "audit"}

SessionRow == [user: Users, role: Roles, open: BOOLEAN]

(* What a handler knows at each stage.  The rows it loaded may be old, but *)
(* nobody changes the boss flag of an existing row: what it saw of that    *)
(* is still true.                                                          *)
SessionSound(w) ==
  /\ pc[w] # "idle" => session[w].req \in deployment.requests
  /\ pc[w] \in LoginStages => Op(w) \in LoginOps
  /\ pc[w] = "insert" =>
        \A u \in Users : Exists(u) /\ users[u].boss => users[u].root
  /\ pc[w] = "verify" =>
        /\ Exists(Target(w)) /\ session[w].seen \in Row
        /\ session[w].seen.failed <= wrong[Target(w)]
  /\ pc[w] \in AuthStages =>
        Op(w) \in AdminOps \cup {"logout"} /\ session[w].token \in 1..Len(sessions)
  /\ pc[w] \in {"target", "commit", "revoke", "audit"} =>
        /\ Op(w) \in AdminOps
        /\ session[w].actor \in Row /\ session[w].actor.boss = users[Caller(w)].boss
  /\ pc[w] = "commit" =>
        /\ Exists(Target(w)) /\ session[w].seen \in Row
        /\ Op(w) \in {"assign", "suspend"} => ~ users[Target(w)].boss
        /\ Op(w) = "assign" /\ session[w].req.role = "SUPER_ADMIN" => users[Caller(w)].boss
  /\ session[w].mark <= Len(sessions)
  /\ pc[w] = "revoke" => Op(w) \in {"assign", "suspend"}
  /\ pc[w] = "audit" /\ Op(w) \in {"assign", "suspend"} =>
        \A j \in 1..session[w].mark : sessions[j].user = Target(w) => ~ sessions[j].open

(* The logins and registrations under way: each may still add a session or *)
(* a wrong password.                                                       *)
Trying == {w \in Workers : pc[w] \in LoginStages}

CountsSound ==
  /\ IsFiniteSet(Trying)
  /\ Len(sessions) + Cardinality(Trying) <= attempts
  /\ \A u \in Users : wrong[u] + Cardinality(Trying) <= attempts

AccountsSound ==
  /\ OneBoss
  /\ BossKeepsOffice
  /\ LocksAreEarned
  /\ deployment.development => \A u \in DOMAIN Seeded :
        Exists(u) /\ users[u].boss = Seeded[u].boss

IInv ==
  /\ TypeOK
  /\ AccountsSound
  /\ \A j \in 1..Len(sessions) : Exists(sessions[j].user)
  /\ CountsSound
  /\ \A w \in Workers : SessionSound(w)

-----------------------------------------------------------------------------
(* Types.                                                                  *)

LEMMA RequestTyped ==
  ASSUME TypeOK
  PROVE  /\ \A r \in deployment.requests : r \in RequestType
         /\ deployment.attempts \in Nat /\ deployment.development \in BOOLEAN
         /\ NoRequest \notin deployment.requests
  BY TablesAssumption, BoundsAssumption DEF TypeOK

LEMMA AbsentIsNoRow == Absent \notin Row
  <1>1. \A r \in Row : DOMAIN r = {"role", "status", "boss", "root", "failed", "lock"}
    BY DEF Row
  <1>2. DOMAIN Absent = {"role"}
    BY DEF Absent
  <1> QED BY <1>1, <1>2

LEMMA ExistingRows ==
  ASSUME TypeOK
  PROVE  \A u \in Users : Exists(u) <=> users[u] \in Row
  BY AbsentIsNoRow DEF TypeOK, Exists

LEMMA SessionsTyped ==
  ASSUME TypeOK
  PROVE  /\ sessions \in Seq(SessionRow) /\ Len(sessions) \in Nat
         /\ DOMAIN sessions = 1..Len(sessions)
         /\ \A j \in 1..Len(sessions) : sessions[j] \in SessionRow
  <1>1. sessions \in Seq(SessionRow)
    BY DEF TypeOK, SessionRow
  <1> QED BY <1>1

LEMMA NoSessionType ==
  ASSUME deployment.attempts \in Nat
  PROVE  NoSession \in SessionType
  BY DEF NoSession, SessionType

-----------------------------------------------------------------------------
(* What a step leaves of the tables, as the other handlers see it: rows    *)
(* stay and keep their flags, a new Boss Admin takes the unique bank_id,   *)
(* session rows stay and do not open again, counters do not fall.          *)

RowsGrow ==
  \A u \in Users :
    /\ users[u] # Absent =>
         /\ users'[u] # Absent
         /\ users'[u].boss = users[u].boss /\ users'[u].root = users[u].root
    /\ users[u] = Absent /\ users'[u] # Absent /\ users'[u].boss => users'[u].root

SessionsGrow ==
  /\ Len(sessions') \in Nat /\ Len(sessions) <= Len(sessions')
  /\ \A j \in 1..Len(sessions) :
        sessions'[j].user = sessions[j].user /\ (sessions'[j].open => sessions[j].open)

Grows ==
  /\ deployment' = deployment
  /\ RowsGrow
  /\ SessionsGrow
  /\ \A u \in Users : wrong'[u] \in Nat /\ wrong[u] <= wrong'[u]

LEMMA Bystander ==
  ASSUME IInv, Grows, NEW v \in Workers, pc'[v] = pc[v], session'[v] = session[v]
  PROVE  SessionSound(v)'
  <1>1. /\ TypeOK /\ SessionSound(v) /\ session[v] \in SessionType
        /\ Len(sessions) \in Nat /\ Len(sessions) <= Len(sessions') /\ Len(sessions') \in Nat
        /\ deployment' = deployment /\ \A j \in 1..Len(sessions) : Exists(sessions[j].user)
    BY DEF IInv, TypeOK, Grows, SessionsGrow
  <1>2. /\ session[v].mark \in Nat /\ session[v].mark <= Len(sessions)
        /\ pc[v] # "idle" => Target(v) \in Users
    BY <1>1, RequestTyped DEF SessionType, SessionSound, RequestType, Target
  <1>3. /\ Op(v)' = Op(v) /\ Target(v)' = Target(v)
        /\ pc[v] \in AuthStages =>
             Caller(v)' = Caller(v) /\ Caller(v) \in Users /\ users[Caller(v)] # Absent
    <2>1. Op(v)' = Op(v) /\ Target(v)' = Target(v)
      BY DEF Op, Target
    <2>2. ASSUME pc[v] \in AuthStages
          PROVE  Caller(v)' = Caller(v) /\ Caller(v) \in Users /\ users[Caller(v)] # Absent
      <3>1. session[v].token \in 1..Len(sessions)
        BY <1>1, <2>2 DEF SessionSound
      <3>2. sessions'[session[v].token].user = sessions[session[v].token].user
        BY <3>1 DEF Grows, SessionsGrow
      <3>3. sessions[session[v].token] \in SessionRow
        BY <1>1, <3>1, SessionsTyped
      <3> QED BY <1>1, <3>1, <3>2, <3>3 DEF Caller, Exists, SessionRow
    <2> QED BY <2>1, <2>2
  <1>4. /\ pc[v] # "idle" => session[v].req \in deployment.requests
        /\ pc[v] \in LoginStages => Op(v) \in LoginOps
        /\ pc[v] = "revoke" => Op(v) \in {"assign", "suspend"}
        /\ session[v].mark <= Len(sessions')
    BY <1>1, <1>2 DEF SessionSound
  <1>5. pc[v] = "insert" =>
          \A u \in Users : users'[u] # Absent /\ users'[u].boss => users'[u].root
    BY <1>1 DEF SessionSound, Grows, RowsGrow, Exists
  <1>6. pc[v] = "verify" =>
          /\ users'[Target(v)] # Absent /\ session[v].seen \in Row
          /\ session[v].seen.failed <= wrong'[Target(v)]
    <2>1. \A u \in Users : wrong[u] \in Nat /\ wrong'[u] \in Nat /\ wrong[u] <= wrong'[u]
      BY <1>1 DEF Grows, TypeOK
    <2>2. session[v].seen \in Row => session[v].seen.failed \in Nat
      BY DEF Row
    <2> QED BY <1>1, <1>2, <2>1, <2>2 DEF SessionSound, Grows, RowsGrow, Exists
  <1>7. pc[v] \in AuthStages =>
          Op(v) \in AdminOps \cup {"logout"} /\ session[v].token \in 1..Len(sessions')
    BY <1>1 DEF SessionSound
  <1>8. pc[v] \in {"target", "commit", "revoke", "audit"} =>
          /\ Op(v) \in AdminOps
          /\ session[v].actor \in Row /\ session[v].actor.boss = users'[Caller(v)].boss
    BY <1>1, <1>3 DEF SessionSound, Grows, RowsGrow, AuthStages
  <1>9. pc[v] = "commit" =>
          /\ users'[Target(v)] # Absent /\ session[v].seen \in Row
          /\ Op(v) \in {"assign", "suspend"} => ~ users'[Target(v)].boss
          /\ Op(v) = "assign" /\ session[v].req.role = "SUPER_ADMIN" =>
               users'[Caller(v)].boss
    BY <1>1, <1>2, <1>3 DEF SessionSound, Grows, RowsGrow, Exists, AuthStages
  <1>10. pc[v] = "audit" /\ Op(v) \in {"assign", "suspend"} =>
          \A j \in 1..session[v].mark : sessions'[j].user = Target(v) => ~ sessions'[j].open
    <2>1. \A j \in 1..session[v].mark : j \in 1..Len(sessions)
      BY <1>1, <1>2
    <2> QED BY <1>1, <2>1 DEF SessionSound, Grows, SessionsGrow
  <1>11. /\ pc'[v] = pc[v] /\ session'[v] = session[v] /\ deployment' = deployment
         /\ pc[v] \in {"target", "commit", "revoke", "audit"} => Caller(v)' = Caller(v)
    BY <1>1, <1>3 DEF AuthStages
  <1> HIDE DEF IInv, Grows
  <1> QED BY <1>3, <1>4, <1>5, <1>6, <1>7, <1>8, <1>9, <1>10, <1>11
          DEF SessionSound, Exists

-----------------------------------------------------------------------------
(* How a step is put together: the tables keep their types, the accounts   *)
(* and the counts stay sound, and each handler is either untouched or      *)
(* sound where it stands now.                                              *)

TablesTyped ==
  /\ users \in [Users -> Row \cup {Absent}]
  /\ sessions \in Seq(SessionRow)
  /\ Len(sessions) <= attempts
  /\ delegations \subseteq [by: Users, to: Users, perm: Permissions]
  /\ wrong \in [Users -> 0..deployment.attempts]
  /\ attempts \in 0..deployment.attempts
  /\ \A j \in 1..Len(sessions) : Exists(sessions[j].user)

HandlersTyped ==
  /\ pc \in [Workers -> Stages]
  /\ session \in [Workers -> SessionType]
  /\ \A w \in Workers : session[w].token <= Len(sessions)

LEMMA Together ==
  ASSUME IInv, Grows, TablesTyped', HandlersTyped', AccountsSound', CountsSound',
         \A v \in Workers : (pc'[v] = pc[v] /\ session'[v] = session[v]) \/ SessionSound(v)'
  PROVE  IInv'
  <1>1. \A v \in Workers : SessionSound(v)'
    <2>1. TAKE v \in Workers
    <2>2. CASE pc'[v] = pc[v] /\ session'[v] = session[v]
      BY <2>2, Bystander
    <2> QED BY <2>2
  <1>2. deployment' \in Deployments
    BY DEF IInv, TypeOK, Grows
  <1>3. TypeOK'
    BY <1>2 DEF TypeOK, TablesTyped, HandlersTyped, SessionRow
  <1>4. \A j \in 1..Len(sessions') : Exists(sessions[j].user)'
    BY DEF TablesTyped
  <1> QED BY <1>1, <1>3, <1>4 DEF IInv

LEMMA OneHandler ==
  ASSUME IInv, NEW w \in Workers, NEW stage \in Stages, NEW s \in SessionType,
         pc' = [pc EXCEPT ![w] = stage], session' = [session EXCEPT ![w] = s],
         Grows, s.token <= Len(sessions')
  PROVE  /\ HandlersTyped'
         /\ pc'[w] = stage /\ session'[w] = s
         /\ \A v \in Workers \ {w} : pc'[v] = pc[v] /\ session'[v] = session[v]
  <1>1. /\ pc \in [Workers -> Stages] /\ session \in [Workers -> SessionType]
        /\ deployment' = deployment
        /\ \A v \in Workers : session[v].token <= Len(sessions)
        /\ Len(sessions) \in Nat /\ Len(sessions') \in Nat /\ Len(sessions) <= Len(sessions')
    BY SessionsTyped DEF IInv, TypeOK, Grows, SessionsGrow
  <1>2. SessionType' = SessionType
    BY <1>1 DEF SessionType
  <1>3. /\ pc'[w] = stage /\ session'[w] = s
        /\ \A v \in Workers \ {w} : pc'[v] = pc[v] /\ session'[v] = session[v]
        /\ pc' \in [Workers -> Stages] /\ session' \in [Workers -> SessionType']
    BY <1>1, <1>2
  <1>4. \A v \in Workers : session[v].token \in Int
    BY <1>1, RequestTyped DEF SessionType, IInv
  <1>5. \A v \in Workers : session'[v].token <= Len(sessions')
    BY <1>1, <1>3, <1>4
  <1> QED BY <1>3, <1>5 DEF HandlersTyped

-----------------------------------------------------------------------------
(* The accounts.                                                           *)

LEMMA SameAccounts ==
  ASSUME IInv, users' = users, wrong' = wrong, deployment' = deployment
  PROVE  AccountsSound' /\ RowsGrow
  <1>1. \A u \in Users : Exists(u)' <=> Exists(u)
    BY DEF Exists
  <1>2. OneBoss' /\ BossKeepsOffice' /\ LocksAreEarned'
    BY <1>1 DEF IInv, AccountsSound, OneBoss, BossKeepsOffice, LocksAreEarned
  <1> QED BY <1>1, <1>2 DEF IInv, AccountsSound, RowsGrow, Exists

(* A row that exists is written: its flags stay, a boss row keeps office   *)
(* and the counter stays behind the wrong passwords.                       *)
LEMMA RowWritten ==
  ASSUME IInv, NEW u \in Users, NEW row \in Row, Exists(u),
         users' = [users EXCEPT ![u] = row], deployment' = deployment,
         \A x \in Users : wrong'[x] \in Nat /\ wrong[x] <= wrong'[x],
         row.boss = users[u].boss, row.root = users[u].root,
         row.boss => row.role = "SUPER_ADMIN" /\ row.status = "ACTIVE",
         row.failed <= wrong'[u], row.lock # "none" => wrong'[u] >= MaxFailures
  PROVE  /\ AccountsSound' /\ RowsGrow /\ users' \in [Users -> Row \cup {Absent}]
         /\ \A x \in Users : Exists(x) => users'[x] # Absent
  <1>1. users \in [Users -> Row \cup {Absent}] /\ AccountsSound
        /\ \A x \in Users : wrong[x] \in Nat
    BY RequestTyped DEF IInv, TypeOK
  <1>2. /\ users'[u] = row /\ row # Absent
        /\ \A x \in Users \ {u} : users'[x] = users[x]
        /\ users' \in [Users -> Row \cup {Absent}]
    BY <1>1, AbsentIsNoRow
  <1>3. \A x \in Users : /\ users'[x] # Absent <=> users[x] # Absent
                         /\ users[x] # Absent =>
                              users'[x].boss = users[x].boss /\ users'[x].root = users[x].root
    BY <1>2 DEF Exists
  <1>4. RowsGrow
    BY <1>3 DEF RowsGrow
  <1>5. OneBoss'
    BY <1>1, <1>3 DEF AccountsSound, OneBoss, Exists
  <1>6. BossKeepsOffice'
    BY <1>1, <1>2, <1>3 DEF AccountsSound, BossKeepsOffice, Exists
  <1>7. LocksAreEarned'
    <2>1. ASSUME NEW x \in Users \ {u}, users'[x] # Absent
          PROVE  users'[x].failed <= wrong'[x] /\ (users'[x].lock # "none" => wrong'[x] >= MaxFailures)
      <3>1. users[x] \in Row /\ users[x].failed \in Nat
        BY <1>1, <1>2, <2>1 DEF Row
      <3>2. users[x].failed <= wrong[x] /\ (users[x].lock # "none" => wrong[x] >= MaxFailures)
        BY <1>1, <1>2, <2>1 DEF AccountsSound, LocksAreEarned, Exists
      <3> QED BY <1>1, <1>2, <2>1, <3>1, <3>2, BoundsAssumption
    <2> QED BY <1>2, <2>1 DEF LocksAreEarned, Exists
  <1>8. deployment'.development => \A x \in DOMAIN Seeded :
           users'[x] # Absent /\ users'[x].boss = Seeded[x].boss
    BY <1>1, <1>3, TablesAssumption DEF AccountsSound, Exists
  <1> QED BY <1>2, <1>3, <1>4, <1>5, <1>6, <1>7, <1>8 DEF AccountsSound, Exists

(* A row is inserted: a Boss Admin only while no boss holds office.        *)
LEMMA RowInserted ==
  ASSUME IInv, NEW u \in Users, NEW role \in Roles, NEW boss \in BOOLEAN, ~ Exists(u),
         users' = [users EXCEPT ![u] = NewRow(role, boss)], deployment' = deployment,
         wrong' = wrong,
         boss => role = "SUPER_ADMIN" /\ \A x \in Users : Exists(x) => ~ users[x].boss
  PROVE  /\ AccountsSound' /\ RowsGrow /\ users' \in [Users -> Row \cup {Absent}]
         /\ \A x \in Users : Exists(x) => users'[x] # Absent
  <1> DEFINE row == NewRow(role, boss)
  <1>1. users \in [Users -> Row \cup {Absent}] /\ AccountsSound
        /\ \A x \in Users : wrong[x] \in Nat
    BY RequestTyped DEF IInv, TypeOK
  <1>2. row \in Row /\ row.boss = boss /\ row.root = boss /\ row.role = role
        /\ row.status = "ACTIVE" /\ row.failed = 0 /\ row.lock = "none"
    BY DEF NewRow, Row
  <1> HIDE DEF row
  <1>3. /\ users'[u] = row /\ row # Absent
        /\ \A x \in Users \ {u} : users'[x] = users[x]
        /\ users' \in [Users -> Row \cup {Absent}]
    BY <1>1, <1>2, AbsentIsNoRow DEF row
  <1>4. RowsGrow /\ \A x \in Users : Exists(x) => users'[x] # Absent
    BY <1>2, <1>3 DEF RowsGrow, Exists
  <1>5. OneBoss'
    BY <1>1, <1>2, <1>3 DEF AccountsSound, OneBoss, Exists
  <1>6. BossKeepsOffice'
    BY <1>1, <1>2, <1>3 DEF AccountsSound, BossKeepsOffice, Exists
  <1>7. LocksAreEarned'
    BY <1>1, <1>2, <1>3 DEF AccountsSound, LocksAreEarned, Exists
  <1>8. deployment'.development => \A x \in DOMAIN Seeded :
           users'[x] # Absent /\ users'[x].boss = Seeded[x].boss
    BY <1>1, <1>3, TablesAssumption DEF AccountsSound, Exists
  <1> QED BY <1>3, <1>4, <1>5, <1>6, <1>7, <1>8 DEF AccountsSound, Exists

-----------------------------------------------------------------------------
(* The counts.                                                             *)

LEMMA CountsTyped ==
  ASSUME IInv
  PROVE  /\ IsFiniteSet(Trying) /\ Cardinality(Trying) \in Nat
         /\ Len(sessions) \in Nat /\ attempts \in Nat /\ deployment.attempts \in Nat
         /\ attempts <= deployment.attempts
         /\ \A u \in Users : wrong[u] \in Nat
         /\ Len(sessions) + Cardinality(Trying) <= attempts
         /\ \A u \in Users : wrong[u] + Cardinality(Trying) <= attempts
  <1>1. TypeOK /\ CountsSound
    BY DEF IInv
  <1>2. IsFiniteSet(Trying) /\ Cardinality(Trying) \in Nat
    BY <1>1, FS_CardinalityType DEF CountsSound
  <1>3. wrong \in [Users -> 0..deployment.attempts] /\ attempts \in 0..deployment.attempts
    BY <1>1 DEF TypeOK
  <1> QED BY <1>1, <1>2, <1>3, SessionsTyped, RequestTyped DEF CountsSound

(* Nothing was counted, and nobody began to try.                           *)
LEMMA NothingCounted ==
  ASSUME IInv, Len(sessions') = Len(sessions), wrong' = wrong, attempts' = attempts,
         \A v \in Workers : pc'[v] \in LoginStages => pc[v] \in LoginStages
  PROVE  CountsSound'
  <1>1. Trying' \subseteq Trying
    BY DEF Trying
  <1>2. IsFiniteSet(Trying') /\ Cardinality(Trying') \in Nat
        /\ Cardinality(Trying') <= Cardinality(Trying)
    BY <1>1, CountsTyped, FS_Subset, FS_CardinalityType
  <1> HIDE DEF IInv
  <1>3. Len(sessions') + Cardinality(Trying') <= attempts'
    BY <1>2, CountsTyped
  <1>4. \A u \in Users : wrong'[u] + Cardinality(Trying') <= attempts'
    BY <1>2, CountsTyped
  <1> QED BY <1>2, <1>3, <1>4 DEF CountsSound

(* A handler begins to try: one attempt more.                              *)
LEMMA AttemptBegun ==
  ASSUME IInv, sessions' = sessions, wrong' = wrong, attempts' = attempts + 1,
         NEW w \in Workers, pc[w] \notin LoginStages,
         \A v \in Workers \ {w} : pc'[v] = pc[v]
  PROVE  CountsSound'
  <1>1. Trying' \subseteq Trying \cup {w}
    BY DEF Trying
  <1>2. /\ IsFiniteSet(Trying \cup {w}) /\ Cardinality(Trying \cup {w}) \in Nat
        /\ Cardinality(Trying \cup {w}) <= Cardinality(Trying) + 1
    <2>1. w \notin Trying
      BY DEF Trying
    <2>2. IsFiniteSet(Trying) /\ Cardinality(Trying) \in Nat
      BY CountsTyped
    <2>3. /\ IsFiniteSet(Trying \cup {w})
          /\ Cardinality(Trying \cup {w}) = Cardinality(Trying) + 1
      BY <2>1, <2>2, FS_AddElement
    <2> QED BY <2>2, <2>3
  <1>3. IsFiniteSet(Trying') /\ Cardinality(Trying') \in Nat
        /\ Cardinality(Trying') <= Cardinality(Trying) + 1
    BY <1>1, <1>2, CountsTyped, FS_Subset, FS_CardinalityType
  <1> HIDE DEF IInv
  <1>4. Len(sessions') + Cardinality(Trying') <= attempts'
    BY <1>3, CountsTyped
  <1>5. \A u \in Users : wrong'[u] + Cardinality(Trying') <= attempts'
    BY <1>3, CountsTyped
  <1> QED BY <1>3, <1>4, <1>5 DEF CountsSound

(* A handler's attempt ends as one session or one wrong password.          *)
LEMMA AttemptSpent ==
  ASSUME IInv, attempts' = attempts, NEW w \in Workers, pc[w] \in LoginStages,
         pc'[w] \notin LoginStages, \A v \in Workers \ {w} : pc'[v] = pc[v],
         Len(sessions') \in Nat, Len(sessions') <= Len(sessions) + 1,
         \A u \in Users : wrong'[u] \in Nat /\ wrong'[u] <= wrong[u] + 1
  PROVE  CountsSound' /\ Len(sessions') <= attempts'
         /\ \A u \in Users : wrong'[u] <= deployment.attempts
  <1>1. Trying' = Trying \ {w} /\ w \in Trying
    BY DEF Trying
  <1>2. /\ IsFiniteSet(Trying') /\ Cardinality(Trying') \in Nat
        /\ Cardinality(Trying') = Cardinality(Trying) - 1
    BY <1>1, CountsTyped, FS_RemoveElement, FS_CardinalityType
  <1> HIDE DEF IInv
  <1>3. Len(sessions') + Cardinality(Trying') <= attempts'
    BY <1>2, CountsTyped
  <1>4. ASSUME NEW u \in Users
        PROVE  wrong'[u] + Cardinality(Trying') <= attempts'
    <2>1. /\ wrong'[u] \in Nat /\ wrong'[u] <= wrong[u] + 1 /\ wrong[u] \in Nat
          /\ wrong[u] + Cardinality(Trying) <= attempts /\ attempts \in Nat
          /\ Cardinality(Trying) \in Nat
      BY CountsTyped
    <2> QED BY <1>2, <2>1
  <1>5. Len(sessions') <= attempts' /\ \A u \in Users : wrong'[u] <= deployment.attempts
    <2>1. /\ attempts \in Nat /\ deployment.attempts \in Nat /\ attempts' = attempts
          /\ attempts <= deployment.attempts
      BY CountsTyped
    <2>2. Len(sessions') <= attempts'
      BY <1>2, <1>3, <2>1
    <2>3. ASSUME NEW u \in Users
          PROVE  wrong'[u] <= deployment.attempts
      <3>1. wrong'[u] + Cardinality(Trying') <= attempts' /\ wrong'[u] \in Nat
        BY <1>4
      <3> QED BY <1>2, <2>1, <3>1
    <2> QED BY <2>2, <2>3
  <1> QED BY <1>2, <1>3, <1>4, <1>5 DEF CountsSound

-----------------------------------------------------------------------------
(* The actions that leave the tables alone.                                *)

LEMMA SameSessions ==
  ASSUME IInv, sessions' = sessions
  PROVE  /\ SessionsGrow /\ Len(sessions') = Len(sessions)
         /\ sessions' \in Seq(SessionRow)
         /\ \A j \in 1..Len(sessions') : sessions'[j].user \in Users
  BY SessionsTyped DEF IInv, SessionsGrow, SessionRow

LEMMA NothingWritten ==
  ASSUME IInv, UNCHANGED <<tables, wrong, deployment>>, attempts <= attempts',
         attempts' \in 0..deployment.attempts
  PROVE  Grows /\ TablesTyped' /\ AccountsSound'
  <1>1. /\ users' = users /\ sessions' = sessions /\ delegations' = delegations
        /\ wrong' = wrong /\ deployment' = deployment
    BY DEF tables
  <1>2. TypeOK /\ \A j \in 1..Len(sessions) : Exists(sessions[j].user)
    BY DEF IInv
  <1>3. RowsGrow /\ AccountsSound'
    BY <1>1, SameAccounts
  <1>4. SessionsGrow /\ Len(sessions') = Len(sessions) /\ sessions' \in Seq(SessionRow)
    BY <1>1, SameSessions
  <1>5. \A u \in Users : wrong'[u] \in Nat /\ wrong[u] <= wrong'[u]
    BY <1>1, CountsTyped
  <1>6. Grows
    BY <1>1, <1>3, <1>4, <1>5 DEF Grows
  <1>7. Len(sessions') <= attempts'
    <2>1. Len(sessions) <= attempts /\ attempts \in Nat /\ Len(sessions) \in Nat
      BY <1>2, CountsTyped DEF TypeOK
    <2> QED BY <2>1, <1>1
  <1>8. \A j \in 1..Len(sessions') : Exists(sessions[j].user)'
    BY <1>1, <1>2 DEF Exists
  <1>9. /\ users' \in [Users -> Row \cup {Absent}]
        /\ delegations' \subseteq [by: Users, to: Users, perm: Permissions]
        /\ wrong' \in [Users -> 0..deployment'.attempts]
        /\ attempts' \in 0..deployment'.attempts
    BY <1>1, <1>2 DEF TypeOK
  <1>10. TablesTyped'
    BY <1>4, <1>7, <1>8, <1>9 DEF TablesTyped
  <1> QED BY <1>3, <1>6, <1>10

LEMMA HandlerMoves ==
  ASSUME IInv, NEW w \in Workers, NEW stage \in Stages, NEW s \in SessionType,
         pc' = [pc EXCEPT ![w] = stage], session' = [session EXCEPT ![w] = s],
         UNCHANGED <<tables, wrong, attempts, deployment>>,
         stage \in LoginStages => pc[w] \in LoginStages,
         s.token <= Len(sessions), SessionSound(w)'
  PROVE  IInv'
  <1>1. /\ UNCHANGED <<tables, wrong, deployment>> /\ attempts' = attempts
        /\ sessions' = sessions /\ wrong' = wrong
    BY DEF tables
  <1>2. attempts <= attempts' /\ attempts' \in 0..deployment.attempts
    BY <1>1, CountsTyped
  <1>3. Grows /\ TablesTyped' /\ AccountsSound'
    BY <1>1, <1>2, NothingWritten
  <1>4. HandlersTyped' /\ pc'[w] = stage
        /\ \A v \in Workers \ {w} : pc'[v] = pc[v] /\ session'[v] = session[v]
    BY <1>1, <1>3, OneHandler
  <1>5. CountsSound'
    BY <1>1, <1>4, NothingCounted
  <1> QED BY <1>3, <1>4, <1>5, Together

LEMMA Idling ==
  ASSUME IInv, NEW w \in Workers, pc'[w] = "idle", session'[w] = NoSession,
         Len(sessions') \in Nat
  PROVE  SessionSound(w)'
  BY DEF SessionSound, NoSession, LoginStages, AuthStages

LEMMA Refused ==
  ASSUME IInv, NEW w \in Workers, Refuse(w), UNCHANGED deployment
  PROVE  IInv'
  <1>1. /\ pc' = [pc EXCEPT ![w] = "idle"] /\ session' = [session EXCEPT ![w] = NoSession]
        /\ UNCHANGED <<tables, wrong, attempts, deployment>> /\ sessions' = sessions
    BY DEF Refuse, Finish, tables
  <1>2. NoSession \in SessionType /\ NoSession.token <= Len(sessions) /\ Len(sessions') \in Nat
    BY <1>1, CountsTyped, NoSessionType DEF NoSession
  <1>3. pc \in [Workers -> Stages] /\ session \in [Workers -> SessionType]
    BY DEF IInv, TypeOK
  <1>4. pc'[w] = "idle" /\ session'[w] = NoSession
    BY <1>1, <1>3
  <1>5. SessionSound(w)'
    BY <1>2, <1>4, Idling
  <1> QED BY <1>1, <1>2, <1>5, HandlerMoves DEF Stages, LoginStages

LEMMA Steady ==
  ASSUME IInv, NEW w \in Workers
  PROVE  /\ pc[w] \in Stages /\ session[w] \in SessionType /\ SessionSound(w)
         /\ session[w].token <= Len(sessions)
         /\ session = [session EXCEPT ![w] = session[w]]
         /\ pc \in [Workers -> Stages] /\ session \in [Workers -> SessionType]
         /\ pc[w] # "idle" => session[w].req \in RequestType /\ Target(w) \in Users
         /\ pc[w] \in AuthStages =>
              session[w].token \in 1..Len(sessions) /\ Caller(w) \in Users /\ Exists(Caller(w))
  <1>1. /\ pc \in [Workers -> Stages] /\ session \in [Workers -> SessionType]
        /\ SessionSound(w) /\ session[w].token <= Len(sessions) /\ TypeOK
    BY DEF IInv, TypeOK
  <1>2. pc[w] # "idle" => session[w].req \in RequestType /\ Target(w) \in Users
    BY <1>1, RequestTyped DEF SessionSound, Target, RequestType
  <1>3. pc[w] \in AuthStages => session[w].token \in 1..Len(sessions)
    BY <1>1 DEF SessionSound
  <1>4. pc[w] \in AuthStages => Caller(w) \in Users /\ Exists(Caller(w))
    BY <1>1, <1>3, SessionsTyped DEF Caller, SessionRow, IInv
  <1> QED BY <1>1, <1>2, <1>3, <1>4

(* A handler moves to a stage that asks no more of what it holds.          *)
LEMMA MovesOn ==
  ASSUME IInv, NEW w \in Workers, UNCHANGED deployment,
         NameFree(w) \/ SessionAccepted(w) \/ BootstrapAccepted(w)
  PROVE  IInv'
  <1>1. PICK stage \in Stages :
          /\ pc' = [pc EXCEPT ![w] = stage]
          /\ \/ pc[w] = "name" /\ stage = "row"
             \/ pc[w] = "session" /\ stage = "actor"
             \/ pc[w] = "boss" /\ stage = "insert" /\ ~ BossExists
    BY DEF NameFree, SessionAccepted, BootstrapAccepted, Goto, Stages
  <1>2. /\ session' = session /\ UNCHANGED <<tables, wrong, attempts, deployment>>
        /\ users' = users /\ sessions' = sessions
    BY DEF NameFree, SessionAccepted, BootstrapAccepted, Goto, tables
  <1>3. /\ pc'[w] = stage /\ session'[w] = session[w]
        /\ session' = [session EXCEPT ![w] = session[w]]
    BY <1>1, <1>2, Steady
  <1>4. SessionSound(w)'
    <2>1. SessionSound(w)
      BY Steady
    <2>2. Op(w)' = Op(w) /\ deployment' = deployment
      BY <1>2 DEF Op
    <2>3. CASE stage = "insert"
      BY <1>1, <1>2, <1>3, <2>1, <2>2, <2>3
         DEF SessionSound, BossExists, Exists, LoginStages, AuthStages
    <2>4. CASE stage \in {"row", "actor"}
      BY <1>1, <1>2, <1>3, <2>1, <2>2, <2>4
         DEF SessionSound, LoginStages, AuthStages
    <2> QED BY <1>1, <2>3, <2>4
  <1>5. stage \in LoginStages => pc[w] \in LoginStages
    BY <1>1 DEF LoginStages
  <1> QED BY <1>1, <1>2, <1>3, <1>4, <1>5, Steady, HandlerMoves

LEMMA LoadedType ==
  ASSUME IInv, NEW w \in Workers, NEW row \in Row
  PROVE  /\ [session[w] EXCEPT !.seen = row] \in SessionType
         /\ [session[w] EXCEPT !.actor = row] \in SessionType
  BY Steady DEF SessionType

LEMMA LoginLookupStep ==
  ASSUME IInv, NEW w \in Workers, LoginLookup(w), UNCHANGED deployment
  PROVE  IInv'
  <1> DEFINE s == [session[w] EXCEPT !.seen = users[Target(w)]]
  <1>1. /\ pc[w] = "lookup" /\ Exists(Target(w)) /\ users[Target(w)].lock # "held"
        /\ pc' = [pc EXCEPT ![w] = "verify"] /\ session' = [session EXCEPT ![w] = s]
        /\ UNCHANGED <<tables, wrong, attempts, deployment>>
    BY DEF LoginLookup, MayTry, Goto
  <1>2. Target(w) \in Users /\ users[Target(w)] \in Row
    BY <1>1, Steady, ExistingRows DEF IInv
  <1>3. /\ s \in SessionType /\ s.seen = users[Target(w)] /\ s.req = session[w].req
        /\ s.token = session[w].token /\ s.mark = session[w].mark
    BY <1>2, Steady, LoadedType DEF SessionType
  <1> HIDE DEF s
  <1>4. /\ pc'[w] = "verify" /\ session'[w] = s /\ users' = users /\ wrong' = wrong
        /\ sessions' = sessions /\ deployment' = deployment
    BY <1>1, Steady DEF tables
  <1>5. Op(w)' = Op(w) /\ Target(w)' = Target(w)
    BY <1>3, <1>4 DEF Op, Target
  <1>6. users[Target(w)].failed <= wrong[Target(w)]
    BY <1>1, <1>2 DEF IInv, AccountsSound, LocksAreEarned
  <1>7. SessionSound(w)'
    <2>1. SessionSound(w)
      BY Steady
    <2> QED BY <1>1, <1>2, <1>3, <1>4, <1>5, <1>6, <2>1
            DEF SessionSound, LoginStages, AuthStages, Exists
  <1> QED BY <1>1, <1>3, <1>7, Steady, HandlerMoves DEF Stages, LoginStages

LEMMA ActorAdmittedStep ==
  ASSUME IInv, NEW w \in Workers, ActorAdmitted(w), UNCHANGED deployment
  PROVE  IInv'
  <1> DEFINE s == [session[w] EXCEPT !.actor = users[Caller(w)]]
  <1> DEFINE stage == IF Op(w) = "logout" THEN "logout" ELSE "target"
  <1>1. /\ pc[w] = "actor"
        /\ pc' = [pc EXCEPT ![w] = stage] /\ session' = [session EXCEPT ![w] = s]
        /\ UNCHANGED <<tables, wrong, attempts, deployment>>
    BY DEF ActorAdmitted, Goto
  <1>2. Caller(w) \in Users /\ users[Caller(w)] \in Row
    BY <1>1, Steady, ExistingRows DEF IInv, AuthStages
  <1>3. /\ s \in SessionType /\ s.actor = users[Caller(w)] /\ s.req = session[w].req
        /\ s.token = session[w].token /\ s.mark = session[w].mark
    BY <1>2, Steady, LoadedType DEF SessionType
  <1> HIDE DEF s
  <1>4. /\ pc'[w] = stage /\ session'[w] = s /\ users' = users /\ wrong' = wrong
        /\ sessions' = sessions /\ deployment' = deployment
    BY <1>1, Steady DEF tables
  <1>5. Op(w)' = Op(w) /\ Target(w)' = Target(w) /\ Caller(w)' = Caller(w)
    BY <1>3, <1>4 DEF Op, Target, Caller
  <1>6. SessionSound(w)'
    <2>1. SessionSound(w)
      BY Steady
    <2> QED BY <1>1, <1>2, <1>3, <1>4, <1>5, <2>1
            DEF SessionSound, LoginStages, AuthStages, AdminOps
  <1>7. stage \in Stages /\ stage \notin LoginStages
    BY DEF Stages, LoginStages
  <1> HIDE DEF stage
  <1> QED BY <1>1, <1>3, <1>6, <1>7, Steady, HandlerMoves

(* The judgement on the loaded target: its boss flag is the row's, and the *)
(* caller who may appoint a super administrator is the boss.               *)
LEMMA TargetAcceptedStep ==
  ASSUME IInv, NEW w \in Workers, TargetAccepted(w), UNCHANGED deployment
  PROVE  IInv'
  <1> DEFINE s == [session[w] EXCEPT !.seen = TargetRow(w)]
  <1>1. /\ pc[w] = "target" /\ Acceptable(w)
        /\ pc' = [pc EXCEPT ![w] = "commit"] /\ session' = [session EXCEPT ![w] = s]
        /\ UNCHANGED <<tables, wrong, attempts, deployment>>
    BY DEF TargetAccepted, Goto
  <1>2. /\ SessionSound(w) /\ Caller(w) \in Users /\ Exists(Caller(w)) /\ Target(w) \in Users
        /\ session[w].actor \in Row /\ session[w].actor.boss = users[Caller(w)].boss
    BY <1>1, Steady DEF AuthStages, SessionSound
  <1>3. /\ Exists(Target(w)) /\ TargetRow(w) \in Row
        /\ TargetRow(w).boss = users[Target(w)].boss
    BY <1>1, <1>2, ExistingRows DEF Acceptable, TargetRow, IInv, Exists
  <1>4. /\ s \in SessionType /\ s.seen = TargetRow(w) /\ s.req = session[w].req
        /\ s.token = session[w].token /\ s.mark = session[w].mark
        /\ s.actor = session[w].actor
    BY <1>3, Steady, LoadedType DEF SessionType
  <1> HIDE DEF s
  <1>5. /\ pc'[w] = "commit" /\ session'[w] = s /\ users' = users /\ wrong' = wrong
        /\ sessions' = sessions /\ deployment' = deployment
    BY <1>1, Steady DEF tables
  <1>6. Op(w)' = Op(w) /\ Target(w)' = Target(w) /\ Caller(w)' = Caller(w)
    BY <1>4, <1>5 DEF Op, Target, Caller
  <1>7. Op(w) \in {"assign", "suspend"} => ~ users[Target(w)].boss
    BY <1>1, <1>3 DEF Acceptable, Permitted, MayAssign, Protected
  <1>8. Op(w) = "assign" /\ session[w].req.role = "SUPER_ADMIN" => users[Caller(w)].boss
    BY <1>1, <1>2 DEF Acceptable, Permitted, MayAssign
  <1>9. SessionSound(w)'
    BY <1>1, <1>2, <1>3, <1>4, <1>5, <1>6, <1>7, <1>8
       DEF SessionSound, LoginStages, AuthStages, Exists
  <1> QED BY <1>1, <1>4, <1>9, Steady, HandlerMoves DEF Stages, LoginStages

LEMMA SubmitStep ==
  ASSUME IInv, NEW w \in Workers, NEW r \in deployment.requests, Submit(w, r),
         UNCHANGED deployment
  PROVE  IInv'
  <1>1. PICK token \in IF FirstStage(r.op) = "session" THEN DOMAIN sessions ELSE {0} :
          session' = [session EXCEPT ![w] = [NoSession EXCEPT !.req = r, !.token = token]]
    BY DEF Submit
  <1> DEFINE s == [NoSession EXCEPT !.req = r, !.token = token]
  <1> DEFINE stage == FirstStage(r.op)
  <1>2. /\ pc[w] = "idle" /\ pc' = [pc EXCEPT ![w] = stage]
        /\ session' = [session EXCEPT ![w] = s] /\ sessions' = sessions
        /\ users' = users /\ wrong' = wrong /\ deployment' = deployment
        /\ UNCHANGED <<tables, wrong, deployment>>
        /\ r.op \in LoginOps => attempts < deployment.attempts
        /\ attempts' = IF r.op \in LoginOps THEN attempts + 1 ELSE attempts
    BY <1>1 DEF Submit, tables
  <1>3. /\ r \in RequestType /\ Len(sessions) \in Nat /\ Len(sessions) <= deployment.attempts
        /\ attempts \in Nat /\ deployment.attempts \in Nat /\ attempts <= deployment.attempts
        /\ DOMAIN sessions = 1..Len(sessions)
    BY RequestTyped, CountsTyped, SessionsTyped DEF IInv, TypeOK
  <1>4. /\ s.req = r /\ s.token = token /\ s.mark = 0 /\ token \in 0..Len(sessions)
        /\ s \in SessionType
    <2>1. token \in 0..Len(sessions) /\ token \in 0..deployment.attempts
      BY <1>1, <1>3
    <2>2. NoSession \in SessionType /\ NoSession.mark = 0
      BY <1>3, NoSessionType DEF NoSession
    <2>3. s \in SessionType /\ s.req = r /\ s.token = token /\ s.mark = NoSession.mark
      BY <1>3, <2>1, <2>2 DEF SessionType
    <2> QED BY <2>1, <2>2, <2>3
  <1>5. /\ stage \in {"session", "lookup", "name", "boss"}
        /\ stage = "session" => r.op \in AdminOps \cup {"logout"} /\ token \in 1..Len(sessions)
        /\ stage \in {"lookup", "name"} <=> r.op \in LoginOps
    BY <1>3 DEF FirstStage, RequestType, LoginOps, AdminOps
  <1> HIDE DEF s, stage
  <1>6. attempts <= attempts' /\ attempts' \in 0..deployment.attempts
    BY <1>2, <1>3
  <1>7. Grows /\ TablesTyped' /\ AccountsSound'
    BY <1>2, <1>6, NothingWritten
  <1>8. /\ HandlersTyped' /\ pc'[w] = stage /\ session'[w] = s
        /\ \A v \in Workers \ {w} : pc'[v] = pc[v] /\ session'[v] = session[v]
    <2>1. stage \in Stages /\ s \in SessionType /\ s.token <= Len(sessions')
      BY <1>2, <1>3, <1>4, <1>5 DEF Stages
    <2> QED BY <1>2, <1>7, <2>1, OneHandler
  <1>9. CountsSound'
    <2>1. CASE r.op \in LoginOps
      BY <1>2, <1>8, <2>1, AttemptBegun DEF LoginStages
    <2>2. CASE r.op \notin LoginOps
      BY <1>2, <1>5, <1>8, <2>2, NothingCounted DEF LoginStages
    <2> QED BY <2>1, <2>2
  <1>10. SessionSound(w)'
    <2>1. Op(w)' = r.op
      BY <1>4, <1>8 DEF Op
    <2> QED BY <1>2, <1>3, <1>4, <1>5, <1>8, <2>1 DEF SessionSound, LoginStages, AuthStages
  <1> QED BY <1>7, <1>8, <1>9, <1>10, Together

-----------------------------------------------------------------------------
(* The actions that write the tables.                                      *)

LEMMA TablesWritten ==
  ASSUME IInv, deployment' = deployment, attempts' = attempts,
         users' \in [Users -> Row \cup {Absent}], RowsGrow,
         SessionsGrow, sessions' \in Seq(SessionRow), Len(sessions') <= attempts,
         \A j \in 1..Len(sessions') : users'[sessions'[j].user] # Absent,
         delegations' \subseteq [by: Users, to: Users, perm: Permissions],
         wrong' \in [Users -> 0..deployment.attempts],
         \A u \in Users : wrong[u] <= wrong'[u]
  PROVE  Grows /\ TablesTyped'
  <1>1. \A u \in Users : wrong'[u] \in Nat
    BY CountsTyped
  <1>2. Grows
    BY <1>1 DEF Grows
  <1>3. attempts' \in 0..deployment'.attempts
    BY CountsTyped
  <1> HIDE DEF IInv
  <1> QED BY <1>2, <1>3 DEF TablesTyped, Exists

LEMMA UsersWritten ==
  ASSUME IInv, deployment' = deployment,
         users' \in [Users -> Row \cup {Absent}], RowsGrow,
         UNCHANGED <<sessions, delegations, wrong, attempts>>
  PROVE  Grows /\ TablesTyped'
  <1>1. /\ sessions' = sessions /\ delegations' = delegations /\ wrong' = wrong
        /\ attempts' = attempts
    OBVIOUS
  <1>2. /\ SessionsGrow /\ Len(sessions') = Len(sessions) /\ sessions' \in Seq(SessionRow)
        /\ \A j \in 1..Len(sessions') : sessions'[j].user \in Users
    BY <1>1, SameSessions
  <1>3. \A j \in 1..Len(sessions') : users'[sessions'[j].user] # Absent
    BY <1>1, <1>2 DEF IInv, RowsGrow, Exists
  <1>4. /\ Len(sessions') <= attempts
        /\ delegations' \subseteq [by: Users, to: Users, perm: Permissions]
        /\ wrong' \in [Users -> 0..deployment.attempts]
    BY <1>1 DEF IInv, TypeOK
  <1>5. \A u \in Users : wrong[u] <= wrong'[u]
    BY <1>1, CountsTyped
  <1> QED BY <1>1, <1>2, <1>3, <1>4, <1>5, TablesWritten

(* One handler writes a row of users and moves to another stage.           *)
LEMMA HandlerWritesRow ==
  ASSUME IInv, NEW w \in Workers, NEW stage \in Stages, NEW s \in SessionType,
         pc' = [pc EXCEPT ![w] = stage], session' = [session EXCEPT ![w] = s],
         UNCHANGED <<sessions, delegations, wrong, attempts, deployment>>,
         users' \in [Users -> Row \cup {Absent}], RowsGrow, AccountsSound',
         stage \in LoginStages => pc[w] \in LoginStages,
         s.token <= Len(sessions), SessionSound(w)'
  PROVE  IInv'
  <1>1. Grows /\ TablesTyped'
    BY UsersWritten
  <1>2. HandlersTyped' /\ pc'[w] = stage
        /\ \A v \in Workers \ {w} : pc'[v] = pc[v] /\ session'[v] = session[v]
    BY <1>1, OneHandler
  <1>3. CountsSound'
    BY <1>2, NothingCounted
  <1> QED BY <1>1, <1>2, <1>3, Together

LEMMA InsertCustomerStep ==
  ASSUME IInv, NEW w \in Workers, InsertCustomer(w), UNCHANGED deployment
  PROVE  IInv'
  <1>1. /\ pc[w] = "row" /\ ~ Exists(Target(w)) /\ pc' = [pc EXCEPT ![w] = "lookup"]
        /\ users' = [users EXCEPT ![Target(w)] = NewRow("CUSTOMER", FALSE)]
        /\ UNCHANGED <<sessions, delegations, wrong, attempts, deployment>>
        /\ wrong' = wrong /\ deployment' = deployment /\ session' = session
        /\ sessions' = sessions
    BY DEF InsertCustomer
  <1>2. /\ Target(w) \in Users /\ "CUSTOMER" \in Roles
        /\ session' = [session EXCEPT ![w] = session[w]]
        /\ session[w] \in SessionType /\ session[w].token <= Len(sessions)
    BY <1>1, Steady DEF Roles
  <1>3. AccountsSound' /\ RowsGrow /\ users' \in [Users -> Row \cup {Absent}]
    BY <1>1, <1>2, RowInserted
  <1>4. SessionSound(w)'
    <2>1. SessionSound(w) /\ pc'[w] = "lookup" /\ session'[w] = session[w] /\ Op(w)' = Op(w)
      BY <1>1, Steady DEF Op
    <2> QED BY <1>1, <2>1 DEF SessionSound, LoginStages, AuthStages
  <1> QED BY <1>1, <1>2, <1>3, <1>4, HandlerWritesRow DEF Stages, LoginStages

(* Only a table without the unique bank_id takes the row: since the check  *)
(* every boss row has carried it.                                          *)
LEMMA InsertBossStep ==
  ASSUME IInv, NEW w \in Workers, InsertBoss(w), UNCHANGED deployment
  PROVE  IInv'
  <1>1. /\ pc[w] = "insert" /\ ~ Exists(Target(w)) /\ RootFree
        /\ pc' = [pc EXCEPT ![w] = "idle"] /\ session' = [session EXCEPT ![w] = NoSession]
        /\ users' = [users EXCEPT ![Target(w)] = NewRow("SUPER_ADMIN", TRUE)]
        /\ UNCHANGED <<sessions, delegations, wrong, attempts, deployment>>
        /\ wrong' = wrong /\ deployment' = deployment /\ sessions' = sessions
    BY DEF InsertBoss, Finish
  <1>2. Target(w) \in Users /\ "SUPER_ADMIN" \in Roles /\ SessionSound(w)
    BY <1>1, Steady DEF Roles
  <1>3. \A x \in Users : Exists(x) => ~ users[x].boss
    <2>1. \A x \in Users : Exists(x) /\ users[x].boss => users[x].root
      BY <1>1, <1>2 DEF SessionSound
    <2> QED BY <1>1, <2>1 DEF RootFree
  <1>4. AccountsSound' /\ RowsGrow /\ users' \in [Users -> Row \cup {Absent}]
    BY <1>1, <1>2, <1>3, RowInserted
  <1>5. NoSession \in SessionType /\ NoSession.token <= Len(sessions) /\ Len(sessions') \in Nat
    BY <1>1, CountsTyped, NoSessionType DEF NoSession
  <1>6. pc'[w] = "idle" /\ session'[w] = NoSession
    BY <1>1, Steady
  <1>7. SessionSound(w)'
    BY <1>5, <1>6, Idling
  <1> QED BY <1>1, <1>4, <1>5, <1>7, HandlerWritesRow DEF Stages, LoginStages

(* What a role change, a suspension or a restoration does to the row.      *)
LEMMA ColumnWritten ==
  ASSUME IInv, NEW w \in Workers, pc[w] = "commit",
         UNCHANGED <<wrong, deployment>>,
         SetRole(w) \/ SetStatus(w, "suspend", "SUSPENDED") \/ SetStatus(w, "restore", "ACTIVE")
  PROVE  AccountsSound' /\ RowsGrow /\ users' \in [Users -> Row \cup {Absent}]
  <1>1. /\ Target(w) \in Users /\ session[w].req \in RequestType /\ Exists(Target(w))
        /\ Op(w) \in {"assign", "suspend"} => ~ users[Target(w)].boss
    BY Steady DEF SessionSound
  <1>2. users[Target(w)] \in Row /\ session[w].req.role \in Roles
    BY <1>1, ExistingRows DEF IInv, RequestType
  <1>3. CASE users' = users
    BY <1>3, SameAccounts DEF IInv, TypeOK
  <1>4. CASE users' # users
    <2> DEFINE old == users[Target(w)]
    <2>1. PICK row : /\ users' = [users EXCEPT ![Target(w)] = row]
                     /\ \/ row = [old EXCEPT !.role = session[w].req.role] /\ Op(w) = "assign"
                        \/ row = [old EXCEPT !.status = "SUSPENDED"] /\ Op(w) = "suspend"
                        \/ row = [old EXCEPT !.status = "ACTIVE"] /\ Op(w) = "restore"
      BY <1>4 DEF SetRole, SetStatus
    <2>2. /\ row \in Row /\ row.boss = old.boss /\ row.root = old.root
          /\ row.failed = old.failed /\ row.lock = old.lock
          /\ row.boss => row.role = old.role /\ row.status \in {old.status, "ACTIVE"}
      BY <1>1, <1>2, <2>1 DEF Row
    <2>3. /\ old.boss => old.role = "SUPER_ADMIN" /\ old.status = "ACTIVE"
          /\ old.failed <= wrong[Target(w)]
          /\ old.lock # "none" => wrong[Target(w)] >= MaxFailures
      BY <1>1 DEF IInv, AccountsSound, BossKeepsOffice, LocksAreEarned
    <2>4. \A x \in Users : wrong'[x] \in Nat /\ wrong[x] <= wrong'[x]
      BY CountsTyped
    <2> HIDE DEF old
    <2>5. /\ row.boss = users[Target(w)].boss /\ row.root = users[Target(w)].root
          /\ row.boss => row.role = "SUPER_ADMIN" /\ row.status = "ACTIVE"
          /\ row.failed <= wrong'[Target(w)]
          /\ row.lock # "none" => wrong'[Target(w)] >= MaxFailures
          /\ deployment' = deployment
      BY <2>2, <2>3 DEF old
    <2> QED BY <1>1, <2>1, <2>2, <2>4, <2>5, RowWritten
  <1> QED BY <1>3, <1>4

LEMMA CommitRevokingStep ==
  ASSUME IInv, NEW w \in Workers, CommitRevoking(w), UNCHANGED deployment
  PROVE  IInv'
  <1> DEFINE s == [session[w] EXCEPT !.mark = Len(sessions)]
  <1>1. /\ pc[w] = "commit" /\ pc' = [pc EXCEPT ![w] = "revoke"]
        /\ session' = [session EXCEPT ![w] = s]
        /\ Op(w) \in {"assign", "suspend"}
        /\ UNCHANGED <<sessions, delegations, wrong, attempts, deployment>>
        /\ deployment' = deployment /\ sessions' = sessions
    BY DEF CommitRevoking, SetRole, SetStatus
  <1>2. AccountsSound' /\ RowsGrow /\ users' \in [Users -> Row \cup {Absent}]
    BY <1>1, ColumnWritten DEF CommitRevoking
  <1>3. Len(sessions) \in 0..deployment.attempts
    BY CountsTyped DEF IInv, TypeOK
  <1>4. /\ s \in SessionType /\ s.req = session[w].req /\ s.token = session[w].token
        /\ s.mark = Len(sessions) /\ s.actor = session[w].actor
    BY <1>3, Steady DEF SessionType
  <1> HIDE DEF s
  <1>5. /\ pc'[w] = "revoke" /\ session'[w] = s
    BY <1>1, Steady
  <1>6. /\ SessionSound(w) /\ Caller(w) \in Users /\ Exists(Caller(w))
        /\ session[w].token <= Len(sessions)
    BY <1>1, Steady DEF AuthStages
  <1>7. Op(w)' = Op(w) /\ Caller(w)' = Caller(w) /\ Target(w)' = Target(w)
    BY <1>1, <1>4, <1>5 DEF Op, Caller, Target
  <1>8. users'[Caller(w)].boss = users[Caller(w)].boss
    BY <1>2, <1>6 DEF RowsGrow, Exists
  <1>9. SessionSound(w)'
    BY <1>1, <1>3, <1>4, <1>5, <1>6, <1>7, <1>8 DEF SessionSound, LoginStages, AuthStages
  <1> QED BY <1>1, <1>2, <1>4, <1>6, <1>9, HandlerWritesRow DEF Stages, LoginStages

LEMMA CommitRestoreStep ==
  ASSUME IInv, NEW w \in Workers, CommitRestore(w), UNCHANGED deployment
  PROVE  IInv'
  <1>1. /\ pc[w] = "commit" /\ pc' = [pc EXCEPT ![w] = "audit"]
        /\ session' = session /\ Op(w) = "restore"
        /\ UNCHANGED <<sessions, delegations, wrong, attempts, deployment>>
        /\ deployment' = deployment /\ sessions' = sessions
    BY DEF CommitRestore, SetStatus
  <1>2. AccountsSound' /\ RowsGrow /\ users' \in [Users -> Row \cup {Absent}]
    BY <1>1, ColumnWritten DEF CommitRestore
  <1>3. /\ pc'[w] = "audit" /\ session'[w] = session[w]
        /\ session' = [session EXCEPT ![w] = session[w]]
        /\ session[w] \in SessionType
    BY <1>1, Steady
  <1>4. /\ SessionSound(w) /\ Caller(w) \in Users /\ Exists(Caller(w))
        /\ session[w].token <= Len(sessions)
    BY <1>1, Steady DEF AuthStages
  <1>5. Op(w)' = Op(w) /\ Caller(w)' = Caller(w) /\ Target(w)' = Target(w)
    BY <1>1 DEF Op, Caller, Target
  <1>6. users'[Caller(w)].boss = users[Caller(w)].boss
    BY <1>2, <1>4 DEF RowsGrow, Exists
  <1>7. SessionSound(w)'
    BY <1>1, <1>3, <1>4, <1>5, <1>6 DEF SessionSound, LoginStages, AuthStages
  <1> QED BY <1>1, <1>2, <1>3, <1>4, <1>7, HandlerWritesRow DEF Stages, LoginStages

-----------------------------------------------------------------------------
(* Sessions are closed: by a logout, by expiry or by a revocation.         *)

LEMMA SessionsClosed ==
  ASSUME IInv, sessions' \in [1..Len(sessions) -> SessionRow],
         \A j \in 1..Len(sessions) : /\ sessions'[j].user = sessions[j].user
                                     /\ sessions'[j].open => sessions[j].open
  PROVE  /\ sessions' \in Seq(SessionRow) /\ Len(sessions') = Len(sessions)
         /\ SessionsGrow
  <1>1. Len(sessions) \in Nat
    BY CountsTyped
  <1>2. sessions' \in Seq(SessionRow)
    BY <1>1, SeqDef
  <1>3. Len(sessions') \in Nat /\ DOMAIN sessions' = 1..Len(sessions')
    BY <1>2
  <1>4. DOMAIN sessions' = 1..Len(sessions)
    OBVIOUS
  <1>5. Len(sessions') = Len(sessions)
    BY <1>1, <1>3, <1>4
  <1> QED BY <1>1, <1>2, <1>5 DEF SessionsGrow

LEMMA OneClosed ==
  ASSUME IInv, NEW j \in 1..Len(sessions), sessions' = [sessions EXCEPT ![j].open = FALSE]
  PROVE  /\ sessions' \in Seq(SessionRow) /\ Len(sessions') = Len(sessions)
         /\ SessionsGrow
  <1>1. sessions \in [1..Len(sessions) -> SessionRow]
    BY SessionsTyped DEF IInv
  <1>2. sessions' \in [1..Len(sessions) -> SessionRow]
    BY <1>1 DEF SessionRow
  <1>3. \A i \in 1..Len(sessions) : /\ sessions'[i].user = sessions[i].user
                                    /\ sessions'[i].open => sessions[i].open
    BY <1>1 DEF SessionRow
  <1> QED BY <1>2, <1>3, SessionsClosed

LEMMA AllClosed ==
  ASSUME IInv, NEW u, sessions' = Revoked(u)
  PROVE  /\ sessions' \in Seq(SessionRow) /\ Len(sessions') = Len(sessions)
         /\ SessionsGrow
         /\ \A j \in 1..Len(sessions) : sessions'[j].user = u => ~ sessions'[j].open
  <1>1. sessions \in [1..Len(sessions) -> SessionRow] /\ DOMAIN sessions = 1..Len(sessions)
    BY SessionsTyped DEF IInv
  <1>2. \A i \in 1..Len(sessions) :
          /\ sessions'[i] \in SessionRow
          /\ sessions'[i].user = sessions[i].user
          /\ sessions'[i].open => sessions[i].open
          /\ sessions'[i].user = u => ~ sessions'[i].open
    <2>1. TAKE i \in 1..Len(sessions)
    <2>2. sessions[i] \in SessionRow
      BY <1>1
    <2>3. sessions'[i] = IF sessions[i].user = u THEN [sessions[i] EXCEPT !.open = FALSE]
                         ELSE sessions[i]
      BY <1>1 DEF Revoked
    <2> QED BY <2>2, <2>3 DEF SessionRow
  <1>3. sessions' \in [1..Len(sessions) -> SessionRow]
    BY <1>1, <1>2 DEF Revoked
  <1> QED BY <1>2, <1>3, SessionsClosed

(* Only sessions are written, and only to close them.                      *)
LEMMA SessionsWritten ==
  ASSUME IInv, deployment' = deployment, UNCHANGED <<users, delegations, wrong, attempts>>,
         SessionsGrow, sessions' \in Seq(SessionRow), Len(sessions') = Len(sessions)
  PROVE  Grows /\ TablesTyped' /\ AccountsSound'
  <1>1. /\ users' = users /\ delegations' = delegations /\ wrong' = wrong
        /\ attempts' = attempts
    OBVIOUS
  <1>2. RowsGrow /\ AccountsSound'
    BY <1>1, SameAccounts
  <1>3. \A j \in 1..Len(sessions') : users'[sessions'[j].user] # Absent
    BY <1>1 DEF IInv, SessionsGrow, Exists
  <1>4. /\ Len(sessions') <= attempts
        /\ users' \in [Users -> Row \cup {Absent}]
        /\ delegations' \subseteq [by: Users, to: Users, perm: Permissions]
        /\ wrong' \in [Users -> 0..deployment.attempts]
    BY <1>1 DEF IInv, TypeOK
  <1>5. \A u \in Users : wrong[u] <= wrong'[u]
    BY <1>1, CountsTyped
  <1> QED BY <1>1, <1>2, <1>3, <1>4, <1>5, TablesWritten

LEMMA LogoutStep ==
  ASSUME IInv, NEW w \in Workers, Logout(w), UNCHANGED deployment
  PROVE  IInv'
  <1>1. /\ pc[w] = "logout" /\ pc' = [pc EXCEPT ![w] = "idle"]
        /\ session' = [session EXCEPT ![w] = NoSession]
        /\ sessions' = [sessions EXCEPT ![session[w].token].open = FALSE]
        /\ UNCHANGED <<users, delegations, wrong, attempts>> /\ deployment' = deployment
        /\ wrong' = wrong /\ attempts' = attempts
    BY DEF Logout, Finish
  <1>2. session[w].token \in 1..Len(sessions)
    BY <1>1, Steady DEF AuthStages
  <1>3. /\ sessions' \in Seq(SessionRow) /\ Len(sessions') = Len(sessions) /\ SessionsGrow
        /\ Len(sessions) \in Nat
    BY <1>1, <1>2, OneClosed, CountsTyped
  <1>4. Grows /\ TablesTyped' /\ AccountsSound'
    BY <1>1, <1>3, SessionsWritten
  <1>5. NoSession \in SessionType /\ NoSession.token <= Len(sessions')
    BY <1>3, CountsTyped, NoSessionType DEF NoSession
  <1>6. /\ HandlersTyped' /\ pc'[w] = "idle" /\ session'[w] = NoSession
        /\ \A v \in Workers \ {w} : pc'[v] = pc[v] /\ session'[v] = session[v]
    BY <1>1, <1>4, <1>5, OneHandler DEF Stages
  <1>7. SessionSound(w)'
    BY <1>3, <1>6, Idling
  <1>8. CountsSound'
    BY <1>1, <1>3, <1>6, NothingCounted DEF LoginStages
  <1> QED BY <1>4, <1>6, <1>7, <1>8, Together

LEMMA RevokeStep ==
  ASSUME IInv, NEW w \in Workers, revoke_all_user_sessions(w), UNCHANGED deployment
  PROVE  IInv'
  <1>1. /\ pc[w] = "revoke" /\ pc' = [pc EXCEPT ![w] = "audit"] /\ session' = session
        /\ sessions' = Revoked(Target(w))
        /\ UNCHANGED <<users, delegations, wrong, attempts>> /\ deployment' = deployment
        /\ wrong' = wrong /\ attempts' = attempts /\ users' = users
    BY DEF revoke_all_user_sessions
  <1>2. /\ sessions' \in Seq(SessionRow) /\ Len(sessions') = Len(sessions) /\ SessionsGrow
        /\ Len(sessions) \in Nat
        /\ \A j \in 1..Len(sessions) : sessions'[j].user = Target(w) => ~ sessions'[j].open
    BY <1>1, AllClosed, CountsTyped
  <1>3. Grows /\ TablesTyped' /\ AccountsSound'
    BY <1>1, <1>2, SessionsWritten
  <1>4. /\ SessionSound(w) /\ session[w] \in SessionType
        /\ session[w].token \in 1..Len(sessions) /\ session[w].token <= Len(sessions')
        /\ session' = [session EXCEPT ![w] = session[w]]
    BY <1>1, <1>2, Steady DEF AuthStages
  <1>5. /\ HandlersTyped' /\ pc'[w] = "audit" /\ session'[w] = session[w]
        /\ \A v \in Workers \ {w} : pc'[v] = pc[v] /\ session'[v] = session[v]
    BY <1>1, <1>3, <1>4, OneHandler DEF Stages
  <1>6. Op(w)' = Op(w) /\ Target(w)' = Target(w) /\ Caller(w)' = Caller(w)
    BY <1>1, <1>2, <1>4 DEF Op, Target, Caller, SessionsGrow
  <1>7. session[w].mark \in Nat /\ session[w].mark <= Len(sessions)
    BY <1>4, RequestTyped DEF SessionSound, SessionType, IInv
  <1>8. \A j \in 1..session[w].mark : sessions'[j].user = Target(w) => ~ sessions'[j].open
    BY <1>2, <1>7
  <1>9. SessionSound(w)'
    BY <1>1, <1>2, <1>4, <1>5, <1>6, <1>7, <1>8 DEF SessionSound, LoginStages, AuthStages
  <1>10. CountsSound'
    BY <1>1, <1>2, <1>5, NothingCounted DEF LoginStages
  <1> QED BY <1>3, <1>5, <1>9, <1>10, Together

LEMMA CommitDelegationStep ==
  ASSUME IInv, NEW w \in Workers, CommitDelegation(w), UNCHANGED deployment
  PROVE  IInv'
  <1> DEFINE granted == [by |-> Caller(w), to |-> Target(w), perm |-> session[w].req.perm]
  <1>1. /\ pc[w] = "commit" /\ pc' = [pc EXCEPT ![w] = "audit"] /\ session' = session
        /\ Op(w) = "delegate" /\ delegations' = delegations \cup {granted}
        /\ UNCHANGED <<users, sessions, wrong, attempts>> /\ deployment' = deployment
        /\ wrong' = wrong /\ attempts' = attempts /\ users' = users /\ sessions' = sessions
    BY DEF CommitDelegation
  <1>2. /\ SessionSound(w) /\ session[w] \in SessionType
        /\ session[w].token \in 1..Len(sessions) /\ session[w].token <= Len(sessions')
        /\ session' = [session EXCEPT ![w] = session[w]]
        /\ Caller(w) \in Users /\ Target(w) \in Users /\ session[w].req.perm \in Permissions
    BY <1>1, Steady DEF AuthStages, RequestType
  <1>3. /\ RowsGrow /\ AccountsSound' /\ SessionsGrow /\ Len(sessions') = Len(sessions)
        /\ sessions' \in Seq(SessionRow)
    BY <1>1, SameAccounts, SameSessions
  <1>4. Grows /\ TablesTyped'
    <2>1. \A j \in 1..Len(sessions') : users'[sessions'[j].user] # Absent
      BY <1>1 DEF IInv, Exists
    <2>2. /\ Len(sessions') <= attempts
          /\ users' \in [Users -> Row \cup {Absent}]
          /\ wrong' \in [Users -> 0..deployment.attempts]
          /\ delegations \subseteq [by: Users, to: Users, perm: Permissions]
      BY <1>1 DEF IInv, TypeOK
    <2>3. delegations' \subseteq [by: Users, to: Users, perm: Permissions]
      BY <1>1, <1>2, <2>2
    <2>4. \A u \in Users : wrong[u] <= wrong'[u]
      BY <1>1, CountsTyped
    <2> QED BY <1>1, <1>3, <2>1, <2>2, <2>3, <2>4, TablesWritten
  <1>5. /\ HandlersTyped' /\ pc'[w] = "audit" /\ session'[w] = session[w]
        /\ \A v \in Workers \ {w} : pc'[v] = pc[v] /\ session'[v] = session[v]
    BY <1>1, <1>2, <1>4, OneHandler DEF Stages
  <1>6. Op(w)' = Op(w) /\ Target(w)' = Target(w) /\ Caller(w)' = Caller(w)
    BY <1>1 DEF Op, Target, Caller
  <1>7. SessionSound(w)'
    BY <1>1, <1>2, <1>5, <1>6 DEF SessionSound, LoginStages, AuthStages
  <1>8. CountsSound'
    BY <1>1, <1>3, <1>5, NothingCounted DEF LoginStages
  <1> QED BY <1>3, <1>4, <1>5, <1>7, <1>8, Together

-----------------------------------------------------------------------------
(* The two ends of an attempt.                                             *)

LEMMA Verifying ==
  ASSUME IInv, NEW w \in Workers, pc[w] = "verify"
  PROVE  /\ Target(w) \in Users /\ Exists(Target(w)) /\ users[Target(w)] \in Row
         /\ session[w].seen \in Row /\ session[w].seen.failed \in Nat
         /\ session[w].seen.failed <= wrong[Target(w)]
         /\ users[Target(w)].failed \in Nat
         /\ users[Target(w)].failed <= wrong[Target(w)]
         /\ users[Target(w)].lock # "none" => wrong[Target(w)] >= MaxFailures
         /\ users[Target(w)].boss =>
              users[Target(w)].role = "SUPER_ADMIN" /\ users[Target(w)].status = "ACTIVE"
  <1>1. SessionSound(w) /\ Target(w) \in Users
    BY Steady
  <1>2. Exists(Target(w)) /\ users[Target(w)] \in Row /\ session[w].seen \in Row
    BY <1>1, ExistingRows DEF IInv, SessionSound
  <1>3. /\ users[Target(w)].failed <= wrong[Target(w)]
        /\ users[Target(w)].lock # "none" => wrong[Target(w)] >= MaxFailures
        /\ users[Target(w)].boss =>
             users[Target(w)].role = "SUPER_ADMIN" /\ users[Target(w)].status = "ACTIVE"
    BY <1>1, <1>2 DEF IInv, AccountsSound, LocksAreEarned, BossKeepsOffice
  <1>4. session[w].seen.failed \in Nat /\ users[Target(w)].failed \in Nat
    BY <1>2 DEF Row
  <1> QED BY <1>1, <1>2, <1>3, <1>4 DEF SessionSound

LEMMA WrongPasswordStep ==
  ASSUME IInv, NEW w \in Workers, WrongPassword(w), UNCHANGED deployment
  PROVE  IInv'
  <1> DEFINE n == session[w].seen.failed + 1
  <1> DEFINE old == users[Target(w)]
  <1> DEFINE row == [old EXCEPT !.failed = n, !.lock = IF Locks(n) THEN "held" ELSE @]
  <1>1. /\ pc[w] = "verify" /\ pc' = [pc EXCEPT ![w] = "idle"]
        /\ session' = [session EXCEPT ![w] = NoSession]
        /\ wrong' = [wrong EXCEPT ![Target(w)] = @ + 1]
        /\ UNCHANGED <<sessions, delegations, attempts>> /\ deployment' = deployment
        /\ attempts' = attempts /\ sessions' = sessions
    BY DEF WrongPassword, Finish
  <1>2. users' = [users EXCEPT ![Target(w)] = row]
    BY DEF WrongPassword
  <1>3. /\ Target(w) \in Users /\ Exists(Target(w)) /\ old \in Row
        /\ n \in Nat /\ n <= wrong[Target(w)] + 1
        /\ old.lock # "none" => wrong[Target(w)] >= MaxFailures
        /\ old.boss => old.role = "SUPER_ADMIN" /\ old.status = "ACTIVE"
        /\ wrong[Target(w)] \in Nat
    BY <1>1, Verifying, CountsTyped
  <1> HIDE DEF n, old
  <1>4. /\ row \in Row /\ row.boss = old.boss /\ row.root = old.root /\ row.role = old.role
        /\ row.status = old.status /\ row.failed = n
        /\ row.lock = IF Locks(n) THEN "held" ELSE old.lock
    BY <1>3 DEF Row
  <1> HIDE DEF row
  <1>5. /\ wrong'[Target(w)] = wrong[Target(w)] + 1
        /\ \A x \in Users : /\ wrong'[x] \in Nat /\ wrong[x] <= wrong'[x]
                            /\ wrong'[x] <= wrong[x] + 1
    <2>1. wrong \in [Users -> 0..deployment.attempts] /\ deployment.attempts \in Nat
      BY RequestTyped DEF IInv, TypeOK
    <2> QED BY <1>1, <1>3, <2>1
  <1>6. row.lock # "none" => wrong'[Target(w)] >= MaxFailures
    BY <1>3, <1>4, <1>5, BoundsAssumption DEF Locks
  <1>7. AccountsSound' /\ RowsGrow /\ users' \in [Users -> Row \cup {Absent}]
    <2>1. /\ row.boss = users[Target(w)].boss /\ row.root = users[Target(w)].root
          /\ row.boss => row.role = "SUPER_ADMIN" /\ row.status = "ACTIVE"
          /\ row.failed <= wrong'[Target(w)]
      BY <1>3, <1>4, <1>5 DEF old
    <2> QED BY <1>1, <1>2, <1>3, <1>4, <1>5, <1>6, <2>1, RowWritten
  <1>8. /\ Len(sessions') = Len(sessions) /\ SessionsGrow /\ sessions' \in Seq(SessionRow)
        /\ Len(sessions) \in Nat
    BY <1>1, SameSessions, CountsTyped
  <1>9. /\ pc'[w] = "idle" /\ session'[w] = NoSession
        /\ \A v \in Workers \ {w} : pc'[v] = pc[v]
    BY <1>1, Steady
  <1>10. CountsSound' /\ \A x \in Users : wrong'[x] <= deployment.attempts
    BY <1>1, <1>5, <1>8, <1>9, AttemptSpent DEF LoginStages
  <1>11. Grows /\ TablesTyped'
    <2>1. \A j \in 1..Len(sessions') : users'[sessions'[j].user] # Absent
      BY <1>1, <1>7, SameSessions DEF IInv, RowsGrow, Exists
    <2>2. /\ Len(sessions') <= attempts
          /\ delegations' \subseteq [by: Users, to: Users, perm: Permissions]
      BY <1>1 DEF IInv, TypeOK
    <2>3. wrong' \in [Users -> 0..deployment.attempts]
      <3>1. wrong \in [Users -> 0..deployment.attempts] /\ deployment.attempts \in Nat
        BY RequestTyped DEF IInv, TypeOK
      <3>2. \A x \in Users : wrong'[x] \in 0..deployment.attempts
        BY <1>5, <1>10, <3>1
      <3> QED BY <1>1, <3>1, <3>2
    <2> QED BY <1>1, <1>5, <1>7, <1>8, <2>1, <2>2, <2>3, TablesWritten
  <1>12. NoSession \in SessionType /\ NoSession.token <= Len(sessions')
    BY <1>8, CountsTyped, NoSessionType DEF NoSession
  <1>13. /\ HandlersTyped' /\ pc'[w] = "idle" /\ session'[w] = NoSession
         /\ \A v \in Workers \ {w} : pc'[v] = pc[v] /\ session'[v] = session[v]
    BY <1>1, <1>11, <1>12, OneHandler DEF Stages
  <1>14. SessionSound(w)'
    BY <1>8, <1>13, Idling
  <1> QED BY <1>7, <1>10, <1>11, <1>13, <1>14, Together

LEMMA OneAppended ==
  ASSUME IInv, NEW u \in Users, NEW role \in Roles,
         sessions' = Append(sessions, [user |-> u, role |-> role, open |-> TRUE])
  PROVE  /\ sessions' \in Seq(SessionRow) /\ Len(sessions') = Len(sessions) + 1
         /\ SessionsGrow
         /\ \A j \in 1..Len(sessions') :
              \/ j \in 1..Len(sessions) /\ sessions'[j] = sessions[j]
              \/ sessions'[j].user = u
  <1> DEFINE new == [user |-> u, role |-> role, open |-> TRUE]
  <1>1. new \in SessionRow /\ new.user = u
    BY DEF SessionRow
  <1>2. sessions \in Seq(SessionRow) /\ Len(sessions) \in Nat
    BY SessionsTyped DEF IInv
  <1> HIDE DEF new
  <1>3. sessions' = Append(sessions, new)
    BY DEF new
  <1>4. /\ sessions' \in Seq(SessionRow) /\ Len(sessions') = Len(sessions) + 1
        /\ \A j \in 1..Len(sessions) : sessions'[j] = sessions[j]
        /\ sessions'[Len(sessions) + 1] = new
    BY <1>1, <1>2, <1>3
  <1>5. \A j \in 1..Len(sessions') : j \in 1..Len(sessions) \/ j = Len(sessions) + 1
    BY <1>2, <1>4
  <1>6. SessionsGrow
    BY <1>2, <1>4 DEF SessionsGrow
  <1> QED BY <1>1, <1>4, <1>5, <1>6

LEMMA OpenSessionStep ==
  ASSUME IInv, NEW w \in Workers, OpenSession(w), UNCHANGED deployment
  PROVE  IInv'
  <1> DEFINE row == ResetFailures(w)
  <1>1. /\ pc[w] = "verify" /\ pc' = [pc EXCEPT ![w] = "idle"]
        /\ session' = [session EXCEPT ![w] = NoSession]
        /\ users' = [users EXCEPT ![Target(w)] = row]
        /\ sessions' = Append(sessions,
              [user |-> Target(w), role |-> session[w].seen.role, open |-> TRUE])
        /\ UNCHANGED <<delegations, wrong, attempts>> /\ deployment' = deployment
        /\ attempts' = attempts /\ wrong' = wrong
    BY DEF OpenSession, Finish
  <1>2. /\ Target(w) \in Users /\ Exists(Target(w)) /\ users[Target(w)] \in Row
        /\ session[w].seen \in Row /\ session[w].seen.role \in Roles
    BY <1>1, Verifying DEF Row
  <1>3. /\ row \in Row /\ row.boss = users[Target(w)].boss /\ row.root = users[Target(w)].root
        /\ row.role = users[Target(w)].role /\ row.status = users[Target(w)].status
        /\ row.failed \in {0, users[Target(w)].failed}
        /\ row.lock \in {"none", users[Target(w)].lock}
    <2>1. \A seen \in Row : seen.failed \in Nat
      BY DEF Row
    <2> QED BY <1>2, <2>1 DEF ResetFailures, Row
  <1> HIDE DEF row
  <1>4. \A x \in Users : /\ wrong'[x] \in Nat /\ wrong[x] <= wrong'[x]
                         /\ wrong'[x] <= wrong[x] + 1
    BY <1>1, CountsTyped
  <1>5. /\ row.boss => row.role = "SUPER_ADMIN" /\ row.status = "ACTIVE"
        /\ row.failed <= wrong'[Target(w)]
        /\ row.lock # "none" => wrong'[Target(w)] >= MaxFailures
    BY <1>1, <1>2, <1>3, <1>4, Verifying
  <1>6. AccountsSound' /\ RowsGrow /\ users' \in [Users -> Row \cup {Absent}]
    BY <1>1, <1>2, <1>3, <1>4, <1>5, RowWritten
  <1>7. /\ sessions' \in Seq(SessionRow) /\ Len(sessions') = Len(sessions) + 1
        /\ SessionsGrow /\ Len(sessions) \in Nat
        /\ \A j \in 1..Len(sessions') :
             \/ j \in 1..Len(sessions) /\ sessions'[j] = sessions[j]
             \/ sessions'[j].user = Target(w)
    BY <1>1, <1>2, OneAppended, CountsTyped
  <1>8. pc'[w] = "idle" /\ \A v \in Workers \ {w} : pc'[v] = pc[v]
    BY <1>1, Steady
  <1>9. CountsSound' /\ Len(sessions') <= attempts
    BY <1>1, <1>4, <1>7, <1>8, AttemptSpent DEF LoginStages
  <1>10. Grows /\ TablesTyped'
    <2>1. \A j \in 1..Len(sessions') : users'[sessions'[j].user] # Absent
      <3>1. \A j \in 1..Len(sessions) : sessions[j].user \in Users /\ Exists(sessions[j].user)
        BY SessionsTyped DEF IInv, SessionRow
      <3>2. users'[Target(w)] # Absent
        BY <1>2, <1>6 DEF RowsGrow, Exists
      <3> QED BY <1>6, <1>7, <3>1, <3>2 DEF RowsGrow, Exists
    <2>2. /\ delegations' \subseteq [by: Users, to: Users, perm: Permissions]
          /\ wrong' \in [Users -> 0..deployment.attempts]
      BY <1>1 DEF IInv, TypeOK
    <2> QED BY <1>1, <1>4, <1>6, <1>7, <1>9, <2>1, <2>2, TablesWritten
  <1>11. NoSession \in SessionType /\ NoSession.token <= Len(sessions') /\ Len(sessions') \in Nat
    BY <1>7, CountsTyped, NoSessionType DEF NoSession
  <1>12. /\ HandlersTyped' /\ pc'[w] = "idle" /\ session'[w] = NoSession
         /\ \A v \in Workers \ {w} : pc'[v] = pc[v] /\ session'[v] = session[v]
    BY <1>1, <1>10, <1>11, OneHandler DEF Stages
  <1>13. SessionSound(w)'
    BY <1>11, <1>12, Idling
  <1> QED BY <1>6, <1>9, <1>10, <1>12, <1>13, Together

-----------------------------------------------------------------------------
(* The steps that no handler takes: a lock or a session runs out, a start  *)
(* resets the demo users.                                                  *)

LEMMA NoHandlerMoves ==
  ASSUME IInv, UNCHANGED <<pc, session, wrong, attempts>>, Grows, TablesTyped',
         AccountsSound', Len(sessions') = Len(sessions)
  PROVE  IInv'
  <1>1. pc' = pc /\ session' = session /\ wrong' = wrong /\ attempts' = attempts
        /\ deployment' = deployment
    BY DEF Grows
  <1>2. HandlersTyped'
    BY <1>1 DEF HandlersTyped, IInv, TypeOK, SessionType
  <1>3. CountsSound'
    BY <1>1, NothingCounted
  <1> QED BY <1>1, <1>2, <1>3, Together

LEMMA LockRunsOutStep ==
  ASSUME IInv, NEW u \in Users, LockRunsOut(u), UNCHANGED deployment
  PROVE  IInv'
  <1> DEFINE row == [users[u] EXCEPT !.lock = "over"]
  <1>1. /\ Exists(u) /\ users[u].lock = "held" /\ users' = [users EXCEPT ![u] = row]
        /\ UNCHANGED <<pc, session, sessions, delegations, wrong, attempts>>
        /\ deployment' = deployment /\ wrong' = wrong /\ sessions' = sessions
    BY DEF LockRunsOut
  <1>2. users[u] \in Row
    BY <1>1, ExistingRows DEF IInv
  <1>3. /\ users[u].failed <= wrong[u] /\ wrong[u] >= MaxFailures
        /\ users[u].boss => users[u].role = "SUPER_ADMIN" /\ users[u].status = "ACTIVE"
    BY <1>1 DEF IInv, AccountsSound, LocksAreEarned, BossKeepsOffice
  <1>4. /\ row \in Row /\ row.boss = users[u].boss /\ row.root = users[u].root
        /\ row.role = users[u].role /\ row.status = users[u].status
        /\ row.failed = users[u].failed
    BY <1>2 DEF Row
  <1> HIDE DEF row
  <1>5. AccountsSound' /\ RowsGrow /\ users' \in [Users -> Row \cup {Absent}]
    <2>1. \A x \in Users : wrong'[x] \in Nat /\ wrong[x] <= wrong'[x]
      BY <1>1, CountsTyped
    <2>2. /\ row.boss => row.role = "SUPER_ADMIN" /\ row.status = "ACTIVE"
          /\ row.failed <= wrong'[u] /\ wrong'[u] >= MaxFailures
      BY <1>1, <1>3, <1>4
    <2> QED BY <1>1, <1>4, <2>1, <2>2, RowWritten
  <1>6. Grows /\ TablesTyped'
    BY <1>1, <1>5, UsersWritten
  <1> QED BY <1>1, <1>5, <1>6, NoHandlerMoves

LEMMA SeedStep ==
  ASSUME IInv, NEW u \in DOMAIN Seeded, Seed(u), UNCHANGED deployment
  PROVE  IInv'
  <1> DEFINE row == [users[u] EXCEPT !.role = Seeded[u].role, !.boss = Seeded[u].boss,
                                     !.status = "ACTIVE"]
  <1>1. /\ deployment.development /\ Exists(u) /\ users' = [users EXCEPT ![u] = row]
        /\ UNCHANGED <<pc, session, sessions, delegations, wrong, attempts>>
        /\ deployment' = deployment /\ wrong' = wrong /\ sessions' = sessions
    BY DEF Seed, Exists
  <1>2. u \in Users /\ Seeded[u] \in Row
    BY TablesAssumption
  <1>3. users[u] \in Row
    BY <1>1, <1>2, ExistingRows DEF IInv
  <1>4. /\ users[u].failed <= wrong[u]
        /\ users[u].lock # "none" => wrong[u] >= MaxFailures
        /\ users[u].boss = Seeded[u].boss
    BY <1>1, <1>2 DEF IInv, AccountsSound, LocksAreEarned
  <1>5. /\ row \in Row /\ row.boss = users[u].boss /\ row.root = users[u].root
        /\ row.role = Seeded[u].role /\ row.status = "ACTIVE"
        /\ row.failed = users[u].failed /\ row.lock = users[u].lock
    BY <1>2, <1>3, <1>4 DEF Row
  <1> HIDE DEF row
  <1>6. AccountsSound' /\ RowsGrow /\ users' \in [Users -> Row \cup {Absent}]
    <2>1. \A x \in Users : wrong'[x] \in Nat /\ wrong[x] <= wrong'[x]
      BY <1>1, CountsTyped
    <2>2. row.boss => row.role = "SUPER_ADMIN" /\ row.status = "ACTIVE"
      BY <1>4, <1>5, OfficeAssumption
    <2>3. row.failed <= wrong'[u] /\ (row.lock # "none" => wrong'[u] >= MaxFailures)
      BY <1>1, <1>4, <1>5
    <2> QED BY <1>1, <1>2, <1>5, <2>1, <2>2, <2>3, RowWritten
  <1>7. Grows /\ TablesTyped'
    BY <1>1, <1>6, UsersWritten
  <1> QED BY <1>1, <1>6, <1>7, NoHandlerMoves

LEMMA ExpireSessionStep ==
  ASSUME IInv, NEW j \in DOMAIN sessions, ExpireSession(j), UNCHANGED deployment
  PROVE  IInv'
  <1>1. /\ sessions' = [sessions EXCEPT ![j].open = FALSE]
        /\ UNCHANGED <<pc, session, users, delegations, wrong, attempts>>
        /\ deployment' = deployment
    BY DEF ExpireSession
  <1>2. j \in 1..Len(sessions)
    BY SessionsTyped DEF IInv
  <1>3. /\ sessions' \in Seq(SessionRow) /\ Len(sessions') = Len(sessions) /\ SessionsGrow
    BY <1>1, <1>2, OneClosed
  <1>4. Grows /\ TablesTyped' /\ AccountsSound'
    BY <1>1, <1>3, SessionsWritten
  <1> QED BY <1>1, <1>3, <1>4, NoHandlerMoves

-----------------------------------------------------------------------------
(* The invariant holds initially and every step keeps it.                  *)

LEMMA InitIInv == Init => IInv
  <1> SUFFICES ASSUME Init PROVE IInv
    OBVIOUS
  <1>1. /\ deployment \in Deployments /\ users = deployment.users
        /\ pc = [w \in Workers |-> "idle"] /\ session = [w \in Workers |-> NoSession]
        /\ sessions = <<>> /\ delegations = {} /\ wrong = [u \in Users |-> 0]
        /\ attempts = 0
    BY DEF Init
  <1>2. deployment.attempts \in Nat /\ users \in [Users -> Row \cup {Absent}]
    BY <1>1, TablesAssumption
  <1>3. Len(sessions) = 0 /\ sessions \in Seq(SessionRow)
    BY <1>1
  <1>4. TypeOK
    <2>1. session \in [Workers -> SessionType]
      BY <1>1, <1>2, NoSessionType
    <2>2. pc \in [Workers -> Stages] /\ wrong \in [Users -> 0..deployment.attempts]
      BY <1>1, <1>2 DEF Stages
    <2>3. \A w \in Workers : session[w].token <= Len(sessions)
      BY <1>1, <1>3 DEF NoSession
    <2>4. Len(sessions) <= attempts /\ attempts \in 0..deployment.attempts
      BY <1>1, <1>2, <1>3
    <2> QED BY <1>1, <1>2, <1>3, <2>1, <2>2, <2>3, <2>4 DEF TypeOK, SessionRow
  <1>5. AccountsSound
    <2>1. OneBoss /\ BossKeepsOffice
      BY <1>1, OfficeAssumption DEF OneBoss, BossKeepsOffice, Exists
    <2>2. \A u \in Users : Exists(u) => users[u].failed = 0 /\ users[u].lock = "none"
      BY <1>1, CountersAssumption DEF Exists
    <2>3. LocksAreEarned
      BY <1>1, <2>2 DEF LocksAreEarned
    <2>4. deployment.development => \A u \in DOMAIN Seeded :
             Exists(u) /\ users[u].boss = Seeded[u].boss
      BY <1>1, OfficeAssumption DEF Exists
    <2> QED BY <2>1, <2>3, <2>4 DEF AccountsSound
  <1>6. CountsSound
    <2>1. Trying = {}
      BY <1>1 DEF Trying, LoginStages
    <2>2. IsFiniteSet(Trying) /\ Cardinality(Trying) = 0
      BY <2>1, FS_EmptySet
    <2> QED BY <1>1, <1>3, <2>2 DEF CountsSound
  <1>7. \A w \in Workers : SessionSound(w)
    BY <1>1, <1>3 DEF SessionSound, LoginStages, AuthStages, NoSession
  <1> QED BY <1>3, <1>4, <1>5, <1>6, <1>7 DEF IInv

(* The ten ways to answer without writing.                                 *)
LEMMA Refusals ==
  ASSUME NEW w \in Workers,
         \/ NameTaken(w) \/ InsertClash(w) \/ LoginRefused(w) \/ SessionRefused(w)
         \/ ActorRefused(w) \/ TargetRefused(w) \/ AlreadyDelegated(w) \/ LogEvent(w)
         \/ BootstrapRefused(w) \/ Crash(w)
  PROVE  Refuse(w)
  BY DEF NameTaken, InsertClash, LoginRefused, SessionRefused, ActorRefused,
         TargetRefused, AlreadyDelegated, LogEvent, BootstrapRefused, Crash

LEMMA StepIInv ==
  ASSUME IInv, NEW w \in Workers, Step(w), UNCHANGED deployment
  PROVE  IInv'
  <1>1. CASE \/ NameTaken(w) \/ InsertClash(w) \/ LoginRefused(w) \/ SessionRefused(w)
             \/ ActorRefused(w) \/ TargetRefused(w) \/ AlreadyDelegated(w) \/ LogEvent(w)
             \/ BootstrapRefused(w)
    BY <1>1, Refusals, Refused
  <1>2. CASE NameFree(w) \/ SessionAccepted(w) \/ BootstrapAccepted(w)
    BY <1>2, MovesOn
  <1>3. CASE InsertCustomer(w)
    BY <1>3, InsertCustomerStep
  <1>4. CASE LoginLookup(w)
    BY <1>4, LoginLookupStep
  <1>5. CASE WrongPassword(w)
    BY <1>5, WrongPasswordStep
  <1>6. CASE OpenSession(w)
    BY <1>6, OpenSessionStep
  <1>7. CASE ActorAdmitted(w)
    BY <1>7, ActorAdmittedStep
  <1>8. CASE Logout(w)
    BY <1>8, LogoutStep
  <1>9. CASE TargetAccepted(w)
    BY <1>9, TargetAcceptedStep
  <1>10. CASE CommitRevoking(w)
    BY <1>10, CommitRevokingStep
  <1>11. CASE CommitRestore(w)
    BY <1>11, CommitRestoreStep
  <1>12. CASE CommitDelegation(w)
    BY <1>12, CommitDelegationStep
  <1>13. CASE revoke_all_user_sessions(w)
    BY <1>13, RevokeStep
  <1>14. CASE InsertBoss(w)
    BY <1>14, InsertBossStep
  <1> QED BY <1>1, <1>2, <1>3, <1>4, <1>5, <1>6, <1>7, <1>8, <1>9, <1>10, <1>11, <1>12,
             <1>13, <1>14 DEF Step

LEMMA NextIInv == IInv /\ [Next]_vars => IInv'
  <1> SUFFICES ASSUME IInv, [Next]_vars PROVE IInv'
    OBVIOUS
  <1>1. CASE UNCHANGED vars
    <2>1. /\ UNCHANGED <<tables, wrong, deployment, pc, session>> /\ attempts' = attempts
          /\ sessions' = sessions /\ pc' = pc /\ session' = session /\ wrong' = wrong
      BY <1>1 DEF vars, tables
    <2>2. attempts <= attempts' /\ attempts' \in 0..deployment.attempts
      BY <2>1, CountsTyped
    <2>3. Grows /\ TablesTyped' /\ AccountsSound'
      BY <2>1, <2>2, NothingWritten
    <2>4. Len(sessions') = Len(sessions)
      BY <2>1
    <2> QED BY <2>1, <2>3, <2>4, NoHandlerMoves
  <1>2. CASE Next
    <2>1. UNCHANGED deployment
      BY <1>2 DEF Next
    <2>2. CASE \E w \in Workers : \E r \in deployment.requests : Submit(w, r)
      BY <2>1, <2>2, SubmitStep
    <2>3. CASE \E w \in Workers : Step(w)
      BY <2>1, <2>3, StepIInv
    <2>4. CASE \E w \in Workers : Crash(w)
      BY <2>1, <2>4, Refusals, Refused
    <2>5. CASE \E u \in Users : LockRunsOut(u)
      BY <2>1, <2>5, LockRunsOutStep
    <2>6. CASE \E j \in DOMAIN sessions : ExpireSession(j)
      BY <2>1, <2>6, ExpireSessionStep
    <2>7. CASE \E u \in DOMAIN Seeded : Seed(u)
      BY <2>1, <2>7, SeedStep
    <2> QED BY <1>2, <2>2, <2>3, <2>4, <2>5, <2>6, <2>7 DEF Next
  <1> QED BY <1>1, <1>2

-----------------------------------------------------------------------------
(* What a step may do to the role and the status of an account.            *)

Kept(u)      == users'[u] = users[u]
SameSide(u)  == users'[u].role = users[u].role /\ users'[u].status = users[u].status
Committing(w, u, op) == pc[w] = "commit" /\ Op(w) = op /\ Target(w) = u

AuthorityMove(u) ==
  \/ Kept(u)
  \/ Exists(u) /\ SameSide(u)
  \/ u \in DOMAIN Seeded
  \/ ~ Exists(u) /\ users'[u].role = "CUSTOMER"
  \/ ~ Exists(u) /\ \E w \in Workers : pc[w] = "insert" /\ Target(w) = u
  \/ \E w \in Workers : Committing(w, u, "restore") /\ users'[u].role = users[u].role
  \/ \E w \in Workers : /\ Committing(w, u, "suspend") /\ users'[u].role = users[u].role
                        /\ users'[u].status = "SUSPENDED"
  \/ \E w \in Workers : /\ Committing(w, u, "assign") /\ users'[u].status = users[u].status
                        /\ users'[u].role = session[w].req.role

LEMMA CommitMoves ==
  ASSUME IInv, NEW w \in Workers, NEW u \in Users, pc[w] = "commit",
         SetRole(w) \/ SetStatus(w, "suspend", "SUSPENDED") \/ SetStatus(w, "restore", "ACTIVE")
  PROVE  AuthorityMove(u)
  <1>1. users \in [Users -> Row \cup {Absent}] /\ Target(w) \in Users /\ Exists(Target(w))
    BY Steady DEF IInv, TypeOK, SessionSound
  <1>2. CASE users'[u] = users[u]
    BY <1>2 DEF AuthorityMove, Kept
  <1>3. CASE users'[u] # users[u]
    <2>1. u = Target(w) /\ users[u] \in Row
      BY <1>1, <1>3, ExistingRows DEF SetRole, SetStatus, IInv
    <2>2. CASE SetRole(w)
      <3>1. users'[u].role = session[w].req.role /\ users'[u].status = users[u].status
        BY <1>1, <1>3, <2>1, <2>2 DEF SetRole, Row
      <3> QED BY <2>1, <2>2, <3>1 DEF AuthorityMove, Committing, SetRole
    <2>3. CASE SetStatus(w, "suspend", "SUSPENDED")
      <3>1. users'[u].role = users[u].role /\ users'[u].status = "SUSPENDED"
        BY <1>1, <1>3, <2>1, <2>3 DEF SetStatus, Row
      <3> QED BY <2>1, <2>3, <3>1 DEF AuthorityMove, Committing, SetStatus
    <2>4. CASE SetStatus(w, "restore", "ACTIVE")
      <3>1. users'[u].role = users[u].role
        BY <1>1, <1>3, <2>1, <2>4 DEF SetStatus, Row
      <3> QED BY <2>1, <2>4, <3>1 DEF AuthorityMove, Committing, SetStatus
    <2> QED BY <2>2, <2>3, <2>4
  <1> QED BY <1>2, <1>3

LEMMA Authority ==
  ASSUME IInv, [Next]_vars, NEW u \in Users
  PROVE  AuthorityMove(u)
  <1>1. users \in [Users -> Row \cup {Absent}]
    BY DEF IInv, TypeOK
  <1>2. CASE users' = users
    BY <1>2 DEF AuthorityMove, Kept
  <1>3. ASSUME NEW w \in Workers, InsertCustomer(w)
        PROVE  AuthorityMove(u)
    <2>1. Target(w) \in Users /\ ~ Exists(Target(w))
      BY <1>3, Steady DEF InsertCustomer
    <2>2. users'[u] = users[u] \/ (u = Target(w) /\ users'[u].role = "CUSTOMER")
      BY <1>1, <1>3, <2>1 DEF InsertCustomer, NewRow
    <2> QED BY <2>1, <2>2 DEF AuthorityMove, Kept
  <1>4. ASSUME NEW w \in Workers, InsertBoss(w)
        PROVE  AuthorityMove(u)
    <2>1. Target(w) \in Users /\ ~ Exists(Target(w)) /\ pc[w] = "insert"
      BY <1>4, Steady DEF InsertBoss
    <2>2. users'[u] = users[u] \/ u = Target(w)
      BY <1>1, <1>4, <2>1 DEF InsertBoss
    <2> QED BY <2>1, <2>2 DEF AuthorityMove, Kept
  <1>5. ASSUME NEW w \in Workers, WrongPassword(w) \/ OpenSession(w)
        PROVE  AuthorityMove(u)
    <2>1. Target(w) \in Users /\ Exists(Target(w)) /\ users[Target(w)] \in Row
      BY <1>5, Verifying DEF WrongPassword, OpenSession
    <2>2. users'[u] = users[u] \/ u = Target(w)
      BY <1>1, <1>5, <2>1 DEF WrongPassword, OpenSession
    <2>3. u = Target(w) => SameSide(u)
      <3>1. CASE WrongPassword(w)
        BY <1>1, <2>1, <3>1 DEF WrongPassword, SameSide, Row
      <3>2. CASE OpenSession(w)
        BY <1>1, <2>1, <3>2 DEF OpenSession, ResetFailures, SameSide, Row
      <3> QED BY <1>5, <3>1, <3>2
    <2> QED BY <2>1, <2>2, <2>3 DEF AuthorityMove, Kept
  <1>6. ASSUME NEW w \in Workers, CommitRevoking(w) \/ CommitRestore(w)
        PROVE  AuthorityMove(u)
    BY <1>6, CommitMoves DEF CommitRevoking, CommitRestore
  <1>7. ASSUME NEW v \in Users, LockRunsOut(v)
        PROVE  AuthorityMove(u)
    <2>1. Exists(v) /\ users[v] \in Row
      BY <1>7, ExistingRows DEF LockRunsOut, IInv
    <2>2. users'[u] = users[u] \/ (u = v /\ SameSide(u))
      BY <1>1, <1>7, <2>1 DEF LockRunsOut, SameSide, Row
    <2> QED BY <2>1, <2>2 DEF AuthorityMove, Kept
  <1>8. ASSUME NEW v \in DOMAIN Seeded, Seed(v)
        PROVE  AuthorityMove(u)
    <2>1. users'[u] = users[u] \/ u = v
      BY <1>1, <1>8 DEF Seed
    <2> QED BY <2>1 DEF AuthorityMove, Kept
  <1>9. ASSUME Next
        PROVE  \/ users' = users
               \/ \E w \in Workers :
                    \/ InsertCustomer(w) \/ InsertBoss(w) \/ WrongPassword(w) \/ OpenSession(w)
                    \/ CommitRevoking(w) \/ CommitRestore(w)
               \/ \E v \in Users : LockRunsOut(v)
               \/ \E v \in DOMAIN Seeded : Seed(v)
    <2>1. ASSUME NEW w \in Workers, NEW r, Submit(w, r) \/ Refuse(w)
          PROVE  users' = users
      BY <2>1 DEF Submit, Refuse, tables
    <2>2. ASSUME NEW w \in Workers,
                 \/ NameFree(w) \/ SessionAccepted(w) \/ BootstrapAccepted(w)
                 \/ LoginLookup(w) \/ ActorAdmitted(w) \/ TargetAccepted(w) \/ Logout(w)
                 \/ CommitDelegation(w) \/ revoke_all_user_sessions(w)
          PROVE  users' = users
      BY <2>2 DEF NameFree, SessionAccepted, BootstrapAccepted, LoginLookup, ActorAdmitted,
         TargetAccepted, Goto, Logout, CommitDelegation, revoke_all_user_sessions, tables
    <2>3. ASSUME NEW w \in Workers, Step(w)
          PROVE  \/ users' = users
                 \/ InsertCustomer(w) \/ InsertBoss(w) \/ WrongPassword(w) \/ OpenSession(w)
                 \/ CommitRevoking(w) \/ CommitRestore(w)
      BY <2>1, <2>2, <2>3, Refusals DEF Step
    <2>4. ASSUME NEW w \in Workers, Crash(w)
          PROVE  users' = users
      BY <2>1, <2>4, Refusals
    <2>5. ASSUME NEW j \in DOMAIN sessions, ExpireSession(j)
          PROVE  users' = users
      BY <2>5 DEF ExpireSession
    <2> QED BY <1>9, <2>1, <2>3, <2>4, <2>5 DEF Next
  <1>10. CASE UNCHANGED vars
    BY <1>2, <1>10 DEF vars, tables
  <1> QED BY <1>2, <1>3, <1>4, <1>5, <1>6, <1>7, <1>8, <1>9, <1>10

-----------------------------------------------------------------------------
(* The theorems.                                                           *)

LEMMA Invariance == Spec => []IInv
  BY InitIInv, NextIInv, PTL DEF Spec

(* The variables keep their types, tokens name rows of auth_sessions and   *)
(* there are no more sessions than logins.                                 *)
THEOREM TypeCorrect == Spec => []TypeOK
  <1>1. IInv => TypeOK
    BY DEF IInv
  <1> QED BY <1>1, Invariance, PTL

(* Racing bootstraps and repeated starts leave at most one Boss Admin.     *)
THEOREM OneBossOnly == Spec => []OneBoss
  <1>1. IInv => OneBoss
    BY DEF IInv, AccountsSound
  <1> QED BY <1>1, Invariance, PTL

(* No interleaving of handlers demotes or suspends the Boss Admin.         *)
THEOREM OfficeIsKept == Spec => []BossKeepsOffice
  <1>1. IInv => BossKeepsOffice
    BY DEF IInv, AccountsSound
  <1> QED BY <1>1, Invariance, PTL

(* Failure counters and locks never run ahead of the wrong passwords.      *)
THEOREM NoUnearnedLock == Spec => []LocksAreEarned
  <1>1. IInv => LocksAreEarned
    BY DEF IInv, AccountsSound
  <1> QED BY <1>1, Invariance, PTL

(* After the revocation of a suspension or role change no session from     *)
(* before its commit is open.                                              *)
THEOREM OldSessionsAreClosed == Spec => []RevocationIsComplete
  <1>1. IInv => RevocationIsComplete
    BY DEF IInv, SessionSound, RevocationIsComplete
  <1> QED BY <1>1, Invariance, PTL

(* Only a restoration or the seeding of a demo user lifts a suspension,    *)
(* whatever other handlers loaded before it.                               *)
THEOREM SuspensionsHold == Spec => SuspensionSticks
  <1> DEFINE Sticks ==
        \A u \in Users :
          Exists(u) /\ users[u].status = "SUSPENDED" /\ users'[u].status = "ACTIVE" =>
            \/ u \in DOMAIN Seeded
            \/ \E w \in Workers : pc[w] = "commit" /\ Op(w) = "restore" /\ Target(w) = u
  <1>1. IInv /\ [Next]_vars => [Sticks]_vars
    BY Authority DEF AuthorityMove, Kept, SameSide, Committing
  <1> QED BY <1>1, Invariance, PTL DEF Spec, SuspensionSticks

(* Nobody becomes a super administrator except by the Boss Admin's own     *)
(* assignment, by bootstrap or by seeding.                                 *)
THEOREM AppointmentsAreTheBosss == Spec => SuperAdminsAreAppointed
  <1> DEFINE Appointed ==
        \A u \in Users :
          LET super == Exists(u) /\ users[u].role = "SUPER_ADMIN"
              becomes == users'[u] # Absent /\ users'[u].role = "SUPER_ADMIN"
          IN ~ super /\ becomes =>
               \/ u \in DOMAIN Seeded
               \/ \E w \in Workers : pc[w] = "insert" /\ Target(w) = u
               \/ \E w \in Workers :
                     pc[w] = "commit" /\ Target(w) = u /\ users[Caller(w)].boss
  <1>1. ASSUME IInv, [Next]_vars, NEW u \in Users,
               ~ (Exists(u) /\ users[u].role = "SUPER_ADMIN"),
               users'[u] # Absent, users'[u].role = "SUPER_ADMIN"
        PROVE  \/ u \in DOMAIN Seeded
               \/ \E w \in Workers : pc[w] = "insert" /\ Target(w) = u
               \/ \E w \in Workers :
                     pc[w] = "commit" /\ Target(w) = u /\ users[Caller(w)].boss
    <2>1. AuthorityMove(u)
      BY <1>1, Authority
    <2>2. ASSUME NEW w \in Workers, pc[w] = "commit", Target(w) = u
          PROVE  /\ Exists(u)
                 /\ Op(w) = "assign" /\ session[w].req.role = "SUPER_ADMIN" =>
                      users[Caller(w)].boss
      BY <1>1, <2>2, Steady DEF SessionSound
    <2> QED BY <1>1, <2>1, <2>2 DEF AuthorityMove, Kept, SameSide, Committing, Exists
  <1>2. IInv /\ [Next]_vars => [Appointed]_vars
    BY <1>1
  <1> QED BY <1>2, Invariance, PTL DEF Spec, SuperAdminsAreAppointed
=============================================================================
