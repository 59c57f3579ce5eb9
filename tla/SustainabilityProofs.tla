------------------------ MODULE SustainabilityProofs ------------------------
(***************************************************************************)
(* Proofs about the sustainability API and the start-up that seeds it, for *)
(* any demo users, regions, requests and failures, on both databases: the  *)
(* seeding of one database by any number of servers, the factor and goal   *)
(* requests beside it, and the energy figures and baselines of one host.   *)
(***************************************************************************)
EXTENDS Factors, Energy, FiniteSetTheorems, SequenceTheorems, TLAPS

-----------------------------------------------------------------------------
(* The script.                                                             *)

S    == Len(SystemSteps)
Bank == S + Len(SeedUsers) + 1     \* where the demo rows begin

Tail6 == << Seeds("bank", {"all"}, "flush"), Seeds("registry", {"issuance"}, "flush"),
            Seeds("goal", {"co2_per_tx"}, "leave"), Seeds("alert", {"all"}, "leave"),
            Seeds("baseline", {"BASE-DEFAULT-001"}, "flush"),
            Seeds("transaction", {"samples"}, "commit") >>

UserSteps == [i \in DOMAIN SeedUsers |-> Seeds("user", {SeedUsers[i]}, "commit")]

Kinds == {"schema", "permission", "role", "grant", "activity", "grid", "user", "bank",
          "registry", "goal", "alert", "baseline", "transaction"}

RowNames ==
  {"all", "issuance", "co2_per_tx", "BASE-DEFAULT-001", "samples"}
  \cup {SeedUsers[i] : i \in DOMAIN SeedUsers} \cup {Grids[i] : i \in DOMAIN Grids}

StepType == [kind: Kinds, names: SUBSET RowNames, end: {"commit", "flush", "leave"}]

LEMMA Names ==
  /\ Len(SeedUsers) \in Nat /\ DOMAIN SeedUsers = 1..Len(SeedUsers)
  BY StartupAssumption

LEMMA SeedsTyped ==
  ASSUME NEW kind \in Kinds, NEW names \in SUBSET RowNames,
         NEW end \in {"commit", "flush", "leave"}
  PROVE  Seeds(kind, names, end) \in StepType
  BY DEF Seeds, StepType

LEMMA OneNameTyped ==
  ASSUME NEW kind \in Kinds, NEW n \in RowNames, NEW end \in {"commit", "flush", "leave"}
  PROVE  Seeds(kind, {n}, end) \in StepType
  <1>1. {n} \in SUBSET RowNames
    OBVIOUS
  <1> QED BY <1>1, SeedsTyped

LEMMA SystemShape ==
  /\ SystemSteps \in Seq(StepType) /\ S = 6
  /\ SystemSteps[1] = Seeds("schema", {"all"}, "commit")
  /\ SystemSteps[2] = Seeds("permission", {"all"}, "commit")
  /\ SystemSteps[3] = Seeds("role", {"all"}, "commit")
  /\ SystemSteps[4] = Seeds("grant", {"all"}, "commit")
  /\ SystemSteps[5] = Seeds("activity", {"all"}, "leave")
  /\ SystemSteps[6] = Seeds("grid", {Grids[i] : i \in DOMAIN Grids}, "leave")
  <1>2. /\ {Grids[i] : i \in DOMAIN Grids} \in SUBSET RowNames /\ "all" \in RowNames
        /\ {"schema", "permission", "role", "grant", "activity", "grid"} \subseteq Kinds
    BY DEF RowNames, Kinds
  <1> DEFINE g == Seeds("grid", {Grids[i] : i \in DOMAIN Grids}, "leave")
             a1 == Seeds("schema", {"all"}, "commit")
             a2 == Seeds("permission", {"all"}, "commit")
             a3 == Seeds("role", {"all"}, "commit")
             a4 == Seeds("grant", {"all"}, "commit")
             a5 == Seeds("activity", {"all"}, "leave")
  <1>3. /\ a1 \in StepType /\ a2 \in StepType /\ a3 \in StepType /\ a4 \in StepType
        /\ a5 \in StepType /\ g \in StepType
    BY <1>2, OneNameTyped, SeedsTyped
  <1>4. SystemSteps = <<a1, a2, a3, a4, a5, g>>
    BY DEF SystemSteps
  <1> HIDE DEF g, a1, a2, a3, a4, a5
  <1>5. /\ SystemSteps \in Seq(StepType) /\ Len(SystemSteps) = 6
        /\ SystemSteps[1] = a1 /\ SystemSteps[2] = a2 /\ SystemSteps[3] = a3
        /\ SystemSteps[4] = a4 /\ SystemSteps[5] = a5 /\ SystemSteps[6] = g
    BY <1>3, <1>4
  <1> QED BY <1>5 DEF S, g, a1, a2, a3, a4, a5

LEMMA TailShape ==
  /\ Tail6 \in Seq(StepType) /\ Len(Tail6) = 6
  /\ Tail6[1] = Seeds("bank", {"all"}, "flush")
  /\ Tail6[2] = Seeds("registry", {"issuance"}, "flush")
  /\ Tail6[3] = Seeds("goal", {"co2_per_tx"}, "leave")
  /\ Tail6[4] = Seeds("alert", {"all"}, "leave")
  /\ Tail6[5] = Seeds("baseline", {"BASE-DEFAULT-001"}, "flush")
  /\ Tail6[6] = Seeds("transaction", {"samples"}, "commit")
  <1> DEFINE a1 == Seeds("bank", {"all"}, "flush")
             a2 == Seeds("registry", {"issuance"}, "flush")
             a3 == Seeds("goal", {"co2_per_tx"}, "leave")
             a4 == Seeds("alert", {"all"}, "leave")
             a5 == Seeds("baseline", {"BASE-DEFAULT-001"}, "flush")
             a6 == Seeds("transaction", {"samples"}, "commit")
  <1>1. /\ {"all", "issuance", "co2_per_tx", "BASE-DEFAULT-001", "samples"} \subseteq RowNames
        /\ {"bank", "registry", "goal", "alert", "baseline", "transaction"} \subseteq Kinds
    BY DEF RowNames, Kinds
  <1>2. /\ a1 \in StepType /\ a2 \in StepType /\ a3 \in StepType /\ a4 \in StepType
        /\ a5 \in StepType /\ a6 \in StepType
    BY <1>1, OneNameTyped
  <1>3. Tail6 = <<a1, a2, a3, a4, a5, a6>>
    BY DEF Tail6
  <1> HIDE DEF a1, a2, a3, a4, a5, a6
  <1>4. /\ Tail6 \in Seq(StepType) /\ Len(Tail6) = 6
        /\ Tail6[1] = a1 /\ Tail6[2] = a2 /\ Tail6[3] = a3
        /\ Tail6[4] = a4 /\ Tail6[5] = a5 /\ Tail6[6] = a6
    BY <1>2, <1>3
  <1> QED BY <1>4 DEF a1, a2, a3, a4, a5, a6

LEMMA UsersShape ==
  /\ UserSteps \in Seq(StepType) /\ Len(UserSteps) = Len(SeedUsers)
  /\ \A i \in DOMAIN SeedUsers : UserSteps[i] = Seeds("user", {SeedUsers[i]}, "commit")
  <1>1. \A i \in DOMAIN SeedUsers : Seeds("user", {SeedUsers[i]}, "commit") \in StepType
    <2>1. "user" \in Kinds /\ \A i \in DOMAIN SeedUsers : SeedUsers[i] \in RowNames
      BY DEF Kinds, RowNames
    <2> QED BY <2>1, OneNameTyped
  <1>2. UserSteps \in [1..Len(SeedUsers) -> StepType]
    BY <1>1, Names DEF UserSteps
  <1>3. UserSteps \in Seq(StepType) /\ Len(UserSteps) = Len(SeedUsers)
    BY <1>2, Names
  <1> QED BY <1>3 DEF UserSteps

LEMMA Joined ==
  ASSUME NEW X, NEW a \in Seq(X), NEW b \in Seq(X)
  PROVE  /\ a \o b \in Seq(X) /\ Len(a \o b) = Len(a) + Len(b)
         /\ \A i \in 1..Len(a) : (a \o b)[i] = a[i]
         /\ \A i \in Len(a) + 1 .. Len(a) + Len(b) : (a \o b)[i] = b[i - Len(a)]
  BY ConcatProperties

(* Both scripts, step by step.                                             *)
LEMMA ScriptShape ==
  /\ Script \in Seq(StepType) /\ DOMAIN Script = 1..Len(Script)
  /\ Len(Script) \in {S, Bank + 5} /\ S = 6 /\ Bank \in Nat /\ Bank >= 7 /\ Up = Bank + 6
  /\ \A i \in DOMAIN Script : i <= S => Script[i] = SystemSteps[i]
  /\ \A i \in DOMAIN Script : S < i /\ i < Bank =>
        i - S \in DOMAIN SeedUsers /\ Script[i] = Seeds("user", {SeedUsers[i - S]}, "commit")
  /\ \A i \in DOMAIN Script : Bank <= i => Script[i] = Tail6[i - Bank + 1]
  /\ Len(Script) # S => Len(Script) = Bank + 5
  <1>1. DemoSteps = UserSteps \o Tail6
    BY DEF DemoSteps, UserSteps, Tail6
  <1>0. /\ UserSteps \in Seq(StepType) /\ Tail6 \in Seq(StepType)
        /\ Len(UserSteps) = Len(SeedUsers) /\ Len(Tail6) = 6 /\ Len(SeedUsers) \in Nat
        /\ DOMAIN SeedUsers = 1..Len(SeedUsers)
    BY UsersShape, TailShape, Names
  <1> HIDE DEF Tail6, UserSteps
  <1>2. /\ DemoSteps \in Seq(StepType) /\ Len(DemoSteps) = Len(SeedUsers) + 6
        /\ \A i \in 1..Len(SeedUsers) : DemoSteps[i] = UserSteps[i]
        /\ \A i \in Len(SeedUsers) + 1 .. Len(SeedUsers) + 6 :
              DemoSteps[i] = Tail6[i - Len(SeedUsers)]
    <2>1. /\ UserSteps \o Tail6 \in Seq(StepType)
          /\ Len(UserSteps \o Tail6) = Len(UserSteps) + Len(Tail6)
          /\ \A i \in 1..Len(UserSteps) : (UserSteps \o Tail6)[i] = UserSteps[i]
          /\ \A i \in Len(UserSteps) + 1 .. Len(UserSteps) + Len(Tail6) :
                (UserSteps \o Tail6)[i] = Tail6[i - Len(UserSteps)]
      <3>1. UserSteps \in Seq(StepType) /\ Tail6 \in Seq(StepType)
        BY <1>0
      <3> QED BY ONLY <3>1, Joined
    <2> QED BY <1>0, <1>1, <2>1
  <1> DEFINE all == SystemSteps \o DemoSteps
  <1>3. /\ all \in Seq(StepType) /\ Len(all) = 6 + Len(DemoSteps)
        /\ \A i \in 1..6 : all[i] = SystemSteps[i]
        /\ \A i \in 7 .. Len(all) : all[i] = DemoSteps[i - 6]
    <2>1. SystemSteps \in Seq(StepType) /\ Len(SystemSteps) = 6
      BY SystemShape DEF S
    <2>2. /\ SystemSteps \o DemoSteps \in Seq(StepType)
          /\ Len(SystemSteps \o DemoSteps) = Len(SystemSteps) + Len(DemoSteps)
          /\ \A i \in 1..Len(SystemSteps) : (SystemSteps \o DemoSteps)[i] = SystemSteps[i]
          /\ \A i \in Len(SystemSteps) + 1 .. Len(SystemSteps) + Len(DemoSteps) :
                (SystemSteps \o DemoSteps)[i] = DemoSteps[i - Len(SystemSteps)]
      <3>1. SystemSteps \in Seq(StepType) /\ DemoSteps \in Seq(StepType)
        BY <1>2, <2>1
      <3> QED BY ONLY <3>1, Joined
    <2>3. all = SystemSteps \o DemoSteps /\ Len(DemoSteps) \in Nat
      BY <1>0, <1>2
    <2> HIDE DEF all
    <2> QED BY <2>1, <2>2, <2>3
  <1> HIDE DEF all
  <1>4. S = 6 /\ Bank = Len(SeedUsers) + 7 /\ Bank \in Nat /\ Bank >= 7
    BY SystemShape, Names DEF Bank
  <1>5. Up = Len(all) + 1
    BY DEF Up, all
  <1>6. CASE environment = "production"
    <2>1. Script = SystemSteps
      BY <1>6 DEF Script
    <2>2. Script \in Seq(StepType) /\ Len(Script) = 6 /\ DOMAIN Script = 1..6
      BY <2>1, SystemShape DEF S
    <2>3. Up = Bank + 6
      BY <1>2, <1>3, <1>4, <1>5, Names
    <2> QED BY <1>4, <2>1, <2>2, <2>3
  <1>7. CASE environment # "production"
    <2>1. Script = all
      BY <1>7 DEF Script, all
    <2>2. Len(Script) = Bank + 5 /\ DOMAIN Script = 1..Len(Script) /\ Up = Bank + 6
          /\ Script \in Seq(StepType)
      BY <1>2, <1>3, <1>4, <1>5, <2>1, Names
    <2>3. \A i \in DOMAIN Script : i <= S => Script[i] = SystemSteps[i]
      BY <1>3, <1>4, <2>1, <2>2
    <2>4. ASSUME NEW i \in DOMAIN Script, S < i, i < Bank
          PROVE  i - S \in DOMAIN SeedUsers
                 /\ Script[i] = Seeds("user", {SeedUsers[i - S]}, "commit")
      <3>1. i - 6 \in 1..Len(SeedUsers) /\ i \in 7..Len(all)
        BY <1>4, <2>1, <2>2, <2>4, Names
      <3>2. Script[i] = UserSteps[i - 6]
        BY <1>2, <1>3, <2>1, <3>1
      <3> QED BY <1>4, <3>1, <3>2, UsersShape, Names
    <2>5. ASSUME NEW i \in DOMAIN Script, Bank <= i
          PROVE  Script[i] = Tail6[i - Bank + 1]
      <3>1. /\ i - 6 \in Len(SeedUsers) + 1 .. Len(SeedUsers) + 6 /\ i \in 7..Len(all)
            /\ (i - 6) - Len(SeedUsers) = i - Bank + 1
        BY <1>4, <2>1, <2>2, <2>5, Names
      <3> QED BY <1>2, <1>3, <2>1, <3>1
    <2> QED BY <1>4, <2>2, <2>3, <2>4, <2>5
  <1> QED BY <1>6, <1>7

DemoKinds == {"bank", "goal", "alert", "baseline", "transaction"}

LEMMA Steps ==
  ASSUME NEW i \in DOMAIN Script
  PROVE  /\ i \in Nat /\ i >= 1 /\ i <= Len(Script) /\ Len(Script) \in Nat
         /\ Script[i] \in StepType
         /\ Script[i].kind = "activity" <=> i = 5
         /\ i = 5 => Script[i].end = "leave" /\ Script[i].names = {"all"}
         /\ Script[i].kind = "grid" <=> i = 6
         /\ i = 6 => Script[i].end = "leave"
                     /\ Script[i].names = {Grids[g] : g \in DOMAIN Grids}
         /\ Script[i].kind = "user" <=> 6 < i /\ i < Bank
         /\ Script[i].kind = "user" =>
              /\ Script[i].end = "commit" /\ i - S \in DOMAIN SeedUsers
              /\ Script[i].names = {SeedUsers[i - S]}
         /\ Script[i].kind \in DemoKinds => i >= Bank
         /\ i >= Bank /\ Script[i].end = "commit" => i = Bank + 5
         /\ Script[i].end # "leave" => i # 5 /\ i # 6
         /\ Script[i].end = "flush" => i >= Bank /\ i # Len(Script)
  <1>1. /\ i \in 1..Len(Script) /\ Len(Script) \in Nat /\ Script[i] \in StepType
        /\ S = 6 /\ Bank \in Nat /\ Bank >= 7 /\ Len(Script) \in {6, Bank + 5}
    <2>1. Script \in Seq(StepType) /\ DOMAIN Script = 1..Len(Script)
      BY ScriptShape
    <2>2. Script[i] \in StepType /\ Len(Script) \in Nat /\ i \in 1..Len(Script)
      BY ONLY <2>1, i \in DOMAIN Script
    <2> QED BY <2>2, ScriptShape
  <1>2. CASE i <= 6
    <2>1. Script[i] = SystemSteps[i] /\ i \in 1..6
      BY <1>1, <1>2, ScriptShape
    <2>2. i \in {1, 2, 3, 4, 5, 6}
      BY <2>1
    <2> QED BY <1>1, <2>1, <2>2, SystemShape DEF Seeds, DemoKinds
  <1>3. CASE 6 < i /\ i < Bank
    <2>1. i - S \in DOMAIN SeedUsers /\ Script[i] = Seeds("user", {SeedUsers[i - S]}, "commit")
      BY <1>1, <1>3, ScriptShape
    <2>2. Script[i].kind = "user" /\ Script[i].names = {SeedUsers[i - S]}
          /\ Script[i].end = "commit"
      BY <2>1 DEF Seeds
    <2>3. /\ Script[i].kind \notin DemoKinds /\ Script[i].kind # "activity"
          /\ Script[i].kind # "grid"
      BY <2>2 DEF DemoKinds
    <2>4. i # 5 /\ i # 6 /\ ~ (i >= Bank) /\ i \in Nat /\ i >= 1 /\ i <= Len(Script)
      BY <1>1, <1>3
    <2> QED BY <1>1, <1>3, <2>1, <2>2, <2>3, <2>4
  <1>4. CASE Bank <= i
    <2>0. Script[i] = Tail6[i - Bank + 1]
      BY <1>4, ScriptShape
    <2>a. /\ i \in Nat /\ i <= Len(Script) /\ Bank \in Nat /\ Bank >= 7
          /\ (Len(Script) = 6 \/ Len(Script) = Bank + 5)
      BY <1>1
    <2>b. i - Bank + 1 \in 1..6
      BY ONLY <2>a, <1>4
    <2>1. Script[i] = Tail6[i - Bank + 1] /\ i - Bank + 1 \in 1..6
      BY <2>0, <2>b
    <2>2. i - Bank + 1 \in {1, 2, 3, 4, 5, 6}
      BY <2>1
    <2> DEFINE t == Tail6[i - Bank + 1]
    <2>3. /\ t.kind \notin {"activity", "grid", "user"} /\ t.end \in {"commit", "flush", "leave"}
          /\ t.end = "commit" => i - Bank + 1 = 6
      BY <2>2, TailShape DEF Seeds
    <2>4. i > 6 /\ (i - Bank + 1 = 6 => i = Bank + 5)
      BY <1>1, <1>4
    <2>5. i # 5 /\ i # 6 /\ ~ (i < Bank) /\ i \in Nat /\ i >= 1 /\ i <= Len(Script)
      BY <1>1, <1>4
    <2>6. Script[i] = t
      BY <2>1
    <2>7. t.end = "flush" => i # Len(Script)
      <3>1. t.end = "flush" => i - Bank + 1 # 6
        BY <2>2, TailShape DEF Seeds
      <3>2. i = Len(Script) => i - Bank + 1 = 6
        BY <1>1, <1>4, <2>5
      <3> QED BY <3>1, <3>2
    <2> HIDE DEF t
    <2> QED BY <1>1, <1>4, <2>3, <2>4, <2>5, <2>6, <2>7
  <1> QED BY <1>1, <1>2, <1>3, <1>4

(* Whoever has passed the last step has looked for every kind of demo row. *)
LEMMA DemoSteps6 ==
  ASSUME NEW i \in DOMAIN Script, i >= Bank
  PROVE  \A k \in DemoKinds : \E j \in DOMAIN Script :
            /\ Script[j].kind = k /\ Script[j].names # {}
            /\ i = Bank + 5 => j <= i
  <1>1. /\ DOMAIN Script = 1..(Bank + 5) /\ Bank \in Nat /\ Bank >= 7
    <2>1. /\ DOMAIN Script = 1..Len(Script) /\ Bank \in Nat /\ Bank >= 7
          /\ (Len(Script) = 6 \/ Len(Script) = Bank + 5)
      BY Steps, ScriptShape
    <2>2. i \in Nat /\ i <= Len(Script)
      BY Steps
    <2>3. Len(Script) = Bank + 5
      <3> SUFFICES ASSUME Len(Script) = 6 PROVE FALSE
        BY <2>1
      <3>1. i \in Nat /\ i <= 6 /\ Bank <= i /\ Bank \in Nat /\ Bank >= 7
        BY <2>1, <2>2
      <3> QED BY ONLY <3>1
    <2> QED BY <2>1, <2>3
  <1>2. ASSUME NEW m \in 1..6
        PROVE  Bank + m - 1 \in DOMAIN Script /\ Script[Bank + m - 1] = Tail6[m]
               /\ Bank + m - 1 <= Bank + 5
    <2>1. Bank + m - 1 \in 1..(Bank + 5) /\ Bank <= Bank + m - 1
          /\ (Bank + m - 1) - Bank + 1 = m
      BY <1>1
    <2> QED BY <1>1, <2>1, ScriptShape
  <1>3. /\ Tail6[1].kind = "bank" /\ Tail6[1].names # {}
        /\ Tail6[3].kind = "goal" /\ Tail6[3].names # {}
        /\ Tail6[4].kind = "alert" /\ Tail6[4].names # {}
        /\ Tail6[5].kind = "baseline" /\ Tail6[5].names # {}
        /\ Tail6[6].kind = "transaction" /\ Tail6[6].names # {}
    BY TailShape DEF Seeds
  <1>4. ASSUME NEW k \in DemoKinds
        PROVE  \E m \in 1..6 : Tail6[m].kind = k /\ Tail6[m].names # {}
    <2>1. 1 \in 1..6 /\ 3 \in 1..6 /\ 4 \in 1..6 /\ 5 \in 1..6 /\ 6 \in 1..6
      OBVIOUS
    <2> QED BY <1>3, <1>4, <2>1 DEF DemoKinds
  <1> QED BY <1>2, <1>4

-----------------------------------------------------------------------------
(* The invariant.                                                          *)

ActivityRow == [kind |-> "activity", name |-> "all", by |-> <<>>]

HeldRow == {Row(k, n, s, i) : k \in Kinds \cup {"wallet"}, n \in RowNames,
                              s \in Servers, i \in {1, 2}}
DeskRow == {Row(k, n, w, i) : k \in {"grid", "goal"}, n \in NewGrids \cup GoalTypes,
                              w \in Workers, i \in Nat}
AnyRow  == (UNION Openings) \cup HeldRow \cup DeskRow

SeederType ==
  [step: Nat, part: {"look", "end", "insert", "sync", "accounts"},
   added: SUBSET HeldRow, sent: SUBSET HeldRow]

DeskType ==
  [op: {"none", "activate", "addActive", "addInactive", "addGoal", "updateGoal"},
   at: {"idle", "update", "locking", "commit"}, target: AnyRow \cup {NoRow},
   seen: SUBSET AnyRow, off: SUBSET AnyRow, old: SUBSET AnyRow, done: BOOLEAN]

Typed ==
  /\ engine \in {"postgresql", "sqlite"}
  /\ tables \subseteq AnyRow /\ active \subseteq tables
  /\ server \in [Servers -> SeederType]
  /\ desk \in [Workers -> DeskType]
  /\ changes \in Nat

(* Every name of step j has its row, committed or in the session of s.     *)
Found(s, j) ==
  \A n \in Script[j].names :
     \E r \in tables \cup Held(s) : r.kind = Script[j].kind /\ r.name = n

(* What the session of a seeding server holds, row by row.                 *)
RowSound(s, x) ==
  /\ x.kind = "activity" => x = ActivityRow /\ server[s].step > 5
  /\ x.kind = "grid" => x = Row("grid", x.name, s, 1) /\ ActivityRow \in Held(s)
  /\ x.kind = "user" =>
        /\ Step(s).kind = "user" /\ x.name = User(s)
        /\ \/ server[s].part = "insert"
           \/ /\ server[s].part = "end"
              /\ \E y \in Held(s) : y.kind = "wallet" /\ y.name = x.name
  /\ x.kind \in DemoKinds => server[s].step >= Bank

SeederSound(s) ==
  /\ ~ Seeding(s) => Held(s) = {} /\ server[s].part = "look"
  /\ Seeding(s) =>
        /\ server[s].part # "look" => Step(s).end # "leave"
        /\ server[s].part \in {"insert", "sync", "accounts"} => Step(s).kind = "user"
        /\ \A j \in DOMAIN Script :
              j < server[s].step \/ (j = server[s].step /\ server[s].part # "look") =>
                 Found(s, j)
        /\ \A x \in Held(s) : RowSound(s, x)
        /\ server[s].part = "accounts" => Held(s) = {}
  /\ engine = "sqlite" /\ server[s].sent # {} => writer = s
  /\ ActivityRow \in server[s].sent => ActivityRow \notin tables

(* A grid factor by a server came with the activity factors.               *)
TablesSound ==
  /\ SeedIsWhole
  /\ \A r \in Named("grid") : r.by[1] \in Servers => ActivityRow \in tables

OneSender ==
  \A s, t \in Servers :
     ActivityRow \in server[s].sent /\ ActivityRow \in server[t].sent => s = t

(* What a request holds: its target, and what its bulk UPDATE has reached  *)
(* of the factors that were there when it began.                           *)
DeskSound(w) ==
  /\ Inserts(w) => desk[w].target \in DeskRow
  /\ desk[w].op = "activate" => desk[w].target \in tables
  /\ desk[w].off # {} => TurnsOn(w)
  /\ desk[w].at \in {"update", "locking"} => TurnsOn(w)
  /\ TurnsOn(w) => desk[w].at # "idle" /\ desk[w].old \subseteq Factors
  /\ TurnsOn(w) /\ desk[w].at = "locking" => desk[w].old \subseteq desk[w].seen
  /\ TurnsOn(w) /\ desk[w].at = "commit" => desk[w].old \subseteq desk[w].off

FInv ==
  /\ Typed /\ TablesSound /\ OneSender
  /\ \A s \in Servers : SeederSound(s)
  /\ \A w \in Workers : DeskSound(w)

-----------------------------------------------------------------------------
(* Rows and sessions.                                                      *)

LEMMA RowFacts ==
  ASSUME NEW k, NEW n, NEW a, NEW i
  PROVE  /\ Row(k, n, a, i).kind = k /\ Row(k, n, a, i).name = n
         /\ k \in {"grid", "goal"} => Row(k, n, a, i).by[1] = a
         /\ k \notin Unkeyed => Row(k, n, a, i) = [kind |-> k, name |-> n, by |-> <<>>]
  BY DEF Row, Unkeyed

LEMMA HeldRows ==
  ASSUME NEW k \in Kinds \cup {"wallet"}, NEW n \in RowNames, NEW s \in Servers,
         NEW i \in {1, 2}
  PROVE  Row(k, n, s, i) \in HeldRow
  BY DEF HeldRow

LEMMA SeederTyped ==
  ASSUME Typed, NEW s \in Servers
  PROVE  /\ server[s] \in SeederType /\ server[s].step \in Nat
         /\ server[s].added \subseteq HeldRow /\ server[s].sent \subseteq HeldRow
         /\ Held(s) \subseteq HeldRow /\ Held(s) = server[s].added \cup server[s].sent
  BY DEF Typed, SeederType, Held

LEMMA NoSeederTyped ==
  ASSUME NEW i \in Nat
  PROVE  /\ [NoSeeder EXCEPT !.step = i] \in SeederType
         /\ [NoSeeder EXCEPT !.step = i].step = i /\ [NoSeeder EXCEPT !.step = i].part = "look"
         /\ [NoSeeder EXCEPT !.step = i].added = {} /\ [NoSeeder EXCEPT !.step = i].sent = {}
  BY DEF NoSeeder, SeederType

LEMMA SameScript == environment' = environment => Script' = Script /\ Script \in Seq(StepType)
  BY ScriptShape DEF Script

(* Where a seeding server stands.                                          *)
LEMMA Standing ==
  ASSUME Typed, NEW s \in Servers, Seeding(s)
  PROVE  /\ server[s].step \in DOMAIN Script /\ Step(s) = Script[server[s].step]
         /\ server[s].step \in Nat /\ server[s].step >= 1 /\ server[s].step <= Len(Script)
         /\ server[s].step # Len(Script) => server[s].step + 1 \in DOMAIN Script
         /\ Up \in Nat /\ Up \notin DOMAIN Script /\ 0 \notin DOMAIN Script
         /\ Step(s).kind = "user" =>
               User(s) \in RowNames /\ Step(s).names = {User(s)}
  <1>1. server[s].step \in DOMAIN Script /\ Step(s) = Script[server[s].step]
    BY DEF Seeding, Step
  <1>2. /\ DOMAIN Script = 1..Len(Script) /\ Len(Script) \in Nat
        /\ Bank \in Nat /\ Up = Bank + 6 /\ Bank >= 7
        /\ Len(Script) = 6 \/ Len(Script) = Bank + 5
    BY <1>1, Steps, ScriptShape
  <1>3. server[s].step \in Nat /\ server[s].step >= 1 /\ server[s].step <= Len(Script)
    BY <1>1, Steps
  <1>4. /\ Up \notin DOMAIN Script /\ 0 \notin DOMAIN Script /\ Up \in Nat
        /\ server[s].step # Len(Script) => server[s].step + 1 \in DOMAIN Script
    <2> DEFINE l == Len(Script)
    <2>1. l \in Nat /\ Bank \in Nat /\ Up = Bank + 6 /\ (l = 6 \/ l = Bank + 5) /\ Bank >= 7
          /\ DOMAIN Script = 1..l /\ server[s].step <= l /\ server[s].step \in Nat
      BY <1>2, <1>3
    <2> HIDE DEF l
    <2>2. /\ Up \notin 1..l /\ 0 \notin 1..l /\ Up \in Nat
          /\ server[s].step # l => server[s].step + 1 \in 1..l
      BY ONLY <2>1
    <2> QED BY <2>1, <2>2 DEF l
  <1>5. Step(s).kind = "user" => User(s) \in RowNames /\ Step(s).names = {User(s)}
    BY <1>1, Steps DEF User, S, RowNames
  <1> QED BY <1>1, <1>2, <1>3, <1>4, <1>5

LEMMA FInvParts ==
  ASSUME FInv
  PROVE  /\ Typed /\ TablesSound /\ OneSender
         /\ \A s \in Servers : SeederSound(s)
         /\ \A w \in Workers : DeskSound(w)
  BY DEF FInv

(* Of two sessions only one can send the activity factors.                 *)
LEMMA MaySendExclusive ==
  ASSUME FInv, NEW s \in Servers, NEW t \in Servers, t # s, MaySend(s),
         ActivityRow \in server[t].sent
  PROVE  ActivityRow \notin Held(s)
  <1>1. SeederSound(t) /\ OneSender /\ NoOne \notin Servers
    BY FInvParts, OpeningsAssumption
  <1>2. ActivityRow \notin server[s].sent
    BY <1>1 DEF OneSender
  <1>3. ActivityRow \notin server[s].added
    <2>1. CASE server[s].added = {}
      BY <2>1
    <2>2. CASE server[s].added # {} /\ engine = "sqlite"
      <3>1. writer = t
        BY <1>1, <2>2 DEF SeederSound
      <3>2. writer \in {NoOne, s}
        BY <2>2 DEF MaySend
      <3> QED BY <1>1, <3>1, <3>2
    <2>3. CASE server[s].added # {} /\ engine # "sqlite"
      <3>1. server[t].sent \cap server[s].added = {}
        BY <2>3 DEF MaySend
      <3> QED BY <3>1
    <2> QED BY <2>1, <2>2, <2>3
  <1> QED BY <1>2, <1>3 DEF Held

(* A session nobody touches stays sound while tables grow.                 *)
LEMMA Bystander ==
  ASSUME NEW t \in Servers, SeederSound(t), server'[t] = server[t],
         tables \subseteq tables', engine' = engine, environment' = environment,
         writer = t => writer' = t,
         ActivityRow \in server[t].sent => ActivityRow \notin tables'
  PROVE  SeederSound(t)'
  <1>1. /\ Held(t)' = Held(t) /\ Script' = Script
        /\ Seeding(t)' = Seeding(t) /\ Step(t)' = Step(t) /\ User(t)' = User(t)
    BY SameScript DEF Held, Seeding, Step, User, Script
  <1>2. \A j : Found(t, j) => Found(t, j)'
    BY <1>1 DEF Found
  <1>3. \A x : RowSound(t, x) => RowSound(t, x)'
    BY <1>1 DEF RowSound
  <1> QED BY <1>1, <1>2, <1>3 DEF SeederSound

(* A request changes no session.                                           *)
LEMMA SeedersKept ==
  ASSUME FInv, UNCHANGED <<engine, environment, server>>, tables \subseteq tables',
         \A t \in Servers : writer = t => writer' = t,
         ActivityRow \in tables' => ActivityRow \in tables
  PROVE  OneSender' /\ \A t \in Servers : SeederSound(t)'
  <1>1. OneSender'
    BY FInvParts DEF OneSender
  <1>2. ASSUME NEW t \in Servers PROVE SeederSound(t)'
    <2>1. SeederSound(t) /\ (ActivityRow \in server[t].sent => ActivityRow \notin tables')
      BY FInvParts DEF SeederSound
    <2> QED BY <2>1, Bystander
  <1> QED BY <1>1, <1>2

(* A server changes no request.                                            *)
LEMMA DesksKept ==
  ASSUME FInv, UNCHANGED <<desk>>, tables \subseteq tables'
  PROVE  \A w \in Workers : DeskSound(w)'
  <1> SUFFICES ASSUME NEW w \in Workers PROVE DeskSound(w)'
    OBVIOUS
  <1>1. DeskSound(w)
    BY FInvParts
  <1>2. Factors \subseteq Factors' /\ Inserts(w)' = Inserts(w) /\ TurnsOn(w)' = TurnsOn(w)
    BY DEF Factors, Named, Kind, Inserts, TurnsOn
  <1> QED BY <1>1, <1>2 DEF DeskSound

LEMMA TablesKept ==
  ASSUME TablesSound, UNCHANGED tables
  PROVE  TablesSound'
  BY DEF TablesSound, SeedIsWhole, NoDoubledFactor, UnitsAreWhole, WholeUnits, WholeDemo,
         Named, Kind

(* A step of server s, put together.                                       *)
LEMMA SeederStep ==
  ASSUME FInv, NEW s \in Servers, NEW new \in SeederType,
         server' = [server EXCEPT ![s] = new],
         UNCHANGED <<engine, environment, desk, changes>>,
         tables \subseteq tables', tables' \subseteq AnyRow, active' \subseteq tables',
         TablesSound', SeederSound(s)',
         \A t \in Servers \ {s} : writer = t => writer' = t,
         \A t \in Servers \ {s} : ActivityRow \in server[t].sent =>
            ActivityRow \notin tables' /\ ActivityRow \notin new.sent
  PROVE  FInv'
  <1>1. server \in [Servers -> SeederType] /\ OneSender
    BY FInvParts DEF Typed
  <1>2. server'[s] = new /\ \A t \in Servers \ {s} : server'[t] = server[t]
    BY <1>1
  <1>3. Typed'
    BY <1>1, FInvParts DEF Typed
  <1>4. OneSender'
    BY <1>1, <1>2 DEF OneSender
  <1>5. ASSUME NEW t \in Servers PROVE SeederSound(t)'
    <2>1. CASE t = s
      BY <2>1
    <2>2. CASE t # s
      BY <1>2, <2>2, Bystander, FInvParts
    <2> QED BY <2>1, <2>2
  <1>6. \A w \in Workers : DeskSound(w)'
    BY DesksKept
  <1> QED BY <1>3, <1>4, <1>5, <1>6 DEF FInv

(* The same where nothing is committed.                                    *)
LEMMA QuietStep ==
  ASSUME FInv, NEW s \in Servers, NEW new \in SeederType,
         server' = [server EXCEPT ![s] = new],
         UNCHANGED <<engine, environment, desk, changes, tables, active>>,
         SeederSound(s)',
         \A t \in Servers \ {s} : writer = t => writer' = t,
         \A t \in Servers \ {s} : ActivityRow \in server[t].sent =>
            ActivityRow \notin new.sent
  PROVE  FInv'
  <1>1. TablesSound' /\ tables' \subseteq AnyRow /\ active' \subseteq tables'
    BY TablesKept, FInvParts DEF Typed
  <1>2. \A t \in Servers : ActivityRow \in server[t].sent => ActivityRow \notin tables'
    BY FInvParts DEF SeederSound
  <1> QED BY <1>1, <1>2, SeederStep

(* A session that has just begun a step, with nothing in it.               *)
LEMMA FreshSound ==
  ASSUME FInv, NEW s \in Servers, NEW i \in Nat,
         server'[s] = [NoSeeder EXCEPT !.step = i], environment' = environment,
         i \in DOMAIN Script =>
            \A j \in DOMAIN Script : j < i =>
               \A n \in Script[j].names :
                  \E r \in tables' : r.kind = Script[j].kind /\ r.name = n
  PROVE  SeederSound(s)'
  <1>1. /\ server'[s].step = i /\ server'[s].part = "look"
        /\ server'[s].added = {} /\ server'[s].sent = {}
    BY NoSeederTyped
  <1>2. /\ Held(s)' = {} /\ Script' = Script
        /\ Seeding(s)' = (i \in DOMAIN Script)
    BY <1>1, SameScript DEF Held, Seeding
  <1>3. i \in DOMAIN Script => \A j \in DOMAIN Script : j < i => Found(s, j)'
    BY <1>2 DEF Found
  <1> QED BY <1>1, <1>2, <1>3 DEF SeederSound

-----------------------------------------------------------------------------
(* The steps of a server.                                                  *)

LEMMA Released ==
  ASSUME NEW x, Release(x)
  PROVE  \A t : t # x /\ writer = t => writer' = t
  BY DEF Release

(* A session that ends without a commit.                                   *)
LEMMA Ended ==
  ASSUME FInv, NEW s \in Servers, NEW i \in Nat, i \notin DOMAIN Script \/ i = 1,
         server' = [server EXCEPT ![s] = [NoSeeder EXCEPT !.step = i]],
         UNCHANGED <<engine, environment, desk, changes, tables, active>>,
         \A t \in Servers \ {s} : writer = t => writer' = t
  PROVE  FInv'
  <1> DEFINE new == [NoSeeder EXCEPT !.step = i]
  <1>1. new \in SeederType /\ new.sent = {}
    BY NoSeederTyped
  <1>2. server'[s] = new
    BY FInvParts DEF Typed
  <1>3. \A j \in DOMAIN Script : j >= 1 /\ j \in Nat
    BY Steps
  <1>4. i \in DOMAIN Script => ~ \E j \in DOMAIN Script : j < i
    BY <1>3
  <1>5. SeederSound(s)'
    BY <1>2, <1>4, FreshSound
  <1>6. server' = [server EXCEPT ![s] = new] /\ ActivityRow \notin new.sent
    BY <1>1
  <1> HIDE DEF new
  <1> QED BY <1>1, <1>5, <1>6, QuietStep

LEMMA GiveUpStep ==
  ASSUME FInv, NEW s \in Servers, Seeding(s), GiveUp(s),
         UNCHANGED <<engine, environment, desk, changes>>
  PROVE  FInv'
  <1> DEFINE i == IF server[s].step = 1 THEN 0 ELSE Up
  <1>1. i \in Nat /\ i \notin DOMAIN Script
    BY Standing, FInvParts
  <1>2. /\ server' = [server EXCEPT ![s] = [NoSeeder EXCEPT !.step = i]]
        /\ UNCHANGED <<tables, active>> /\ Release(s)
    BY DEF GiveUp
  <1>3. \A t \in Servers \ {s} : writer = t => writer' = t
    BY <1>2, Released
  <1> HIDE DEF i
  <1> QED BY <1>1, <1>2, <1>3, Ended

LEMMA RefusedStep ==
  ASSUME FInv, NEW s \in Servers, Refused(s), UNCHANGED <<desk, changes>>
  PROVE  FInv'
  BY GiveUpStep DEF Refused

LEMMA BrokenStep ==
  ASSUME FInv, NEW s \in Servers, Broken(s), UNCHANGED <<desk, changes>>
  PROVE  FInv'
  BY GiveUpStep DEF Broken

LEMMA NotDown == 0 \notin DOMAIN Script
  BY Steps

LEMMA StopStep ==
  ASSUME FInv, NEW s \in Servers, Stop(s), UNCHANGED <<desk, changes>>
  PROVE  FInv'
  <1>1. NoSeeder = [NoSeeder EXCEPT !.step = 0]
    BY DEF NoSeeder
  <1>2. /\ server' = [server EXCEPT ![s] = [NoSeeder EXCEPT !.step = 0]]
        /\ UNCHANGED <<engine, environment, tables, active>> /\ Release(s)
    BY <1>1 DEF Stop
  <1>3. \A t \in Servers \ {s} : writer = t => writer' = t
    BY <1>2, Released
  <1> QED BY <1>2, <1>3, NotDown, Ended

LEMMA StartStep ==
  ASSUME FInv, NEW s \in Servers, Start(s), UNCHANGED <<desk, changes>>
  PROVE  FInv'
  <1>1. server[s].step = 0 /\ ~ Seeding(s) /\ SeederSound(s) /\ server[s] \in SeederType
    BY NotDown, SeederTyped, FInvParts DEF Start, Seeding
  <1>2. server[s].part = "look" /\ server[s].added = {} /\ server[s].sent = {}
    BY <1>1 DEF SeederSound, Held
  <1>3. [server[s] EXCEPT !.step = 1] = [NoSeeder EXCEPT !.step = 1]
    BY <1>1, <1>2 DEF NoSeeder, SeederType
  <1>4. server' = [server EXCEPT ![s] = [NoSeeder EXCEPT !.step = 1]]
    BY <1>3 DEF Start
  <1> QED BY <1>4, Ended DEF Start

(* What a commit leaves is whole.                                          *)
LEMMA CommitTables ==
  ASSUME FInv, NEW s \in Servers, Seeding(s), CanSend(s), Step(s).end = "commit",
         server[s].part # "look", server[s].part # "insert",
         tables' = tables \cup Held(s)
  PROVE  /\ TablesSound'
         /\ ActivityRow \in Held(s) => ActivityRow \notin tables
         /\ tables' \subseteq AnyRow
  <1> DEFINE i == server[s].step
  <1>1. /\ SeederSound(s) /\ TablesSound /\ Typed
        /\ i \in DOMAIN Script /\ Step(s) = Script[i] /\ i \in Nat
        /\ \A x \in Held(s) : RowSound(s, x)
        /\ Held(s) \subseteq HeldRow
    BY FInvParts, Standing, SeederTyped DEF SeederSound
  <1>2. \A j \in DOMAIN Script : j <= i => Found(s, j)
    <2>1. \A j \in DOMAIN Script : j \in Nat
      BY Steps
    <2> QED BY <1>1, <2>1 DEF SeederSound
  <1>3. ActivityRow \in Held(s) => ActivityRow \notin tables
    BY <1>1 DEF CanSend, Conflict, Held, SeederSound
  <1>4. \A u \in Kind(tables', "user") : \E r \in Kind(tables', "wallet") : r.name = u.name
    <2> SUFFICES ASSUME NEW u \in tables', u.kind = "user"
                 PROVE  \E r \in tables' : r.kind = "wallet" /\ r.name = u.name
      BY DEF Kind
    <2>1. CASE u \in tables
      BY <1>1, <2>1 DEF TablesSound, SeedIsWhole, UnitsAreWhole, WholeUnits, Kind
    <2>2. CASE u \in Held(s)
      BY <1>1, <2>2 DEF RowSound
    <2> QED BY <2>1, <2>2
  <1>5. Kind(tables', "activity") # {} =>
          \A g \in DOMAIN Grids : \E r \in Kind(tables', "grid") : r.name = Grids[g]
    <2> SUFFICES ASSUME NEW a \in tables', a.kind = "activity", NEW g \in DOMAIN Grids
                 PROVE  \E r \in tables' : r.kind = "grid" /\ r.name = Grids[g]
      BY DEF Kind
    <2>1. CASE a \in tables
      BY <1>1, <2>1 DEF TablesSound, SeedIsWhole, UnitsAreWhole, WholeUnits, Kind
    <2>2. CASE a \in Held(s)
      <3>1. i > 5
        BY <1>1, <2>2 DEF RowSound
      <3>2. i # 6 /\ i # 5
        BY <1>1, Steps
      <3>3. 6 \in DOMAIN Script
        <4>1. DOMAIN Script = 1..Len(Script) /\ Len(Script) \in Nat /\ i <= Len(Script)
          BY <1>1, Steps, ScriptShape
        <4> DEFINE l == Len(Script)
        <4>2. l \in Nat /\ i <= l /\ i > 5 /\ i \in Nat /\ DOMAIN Script = 1..l
          BY <1>1, <3>1, <4>1
        <4> HIDE DEF l, i
        <4>3. 6 \in 1..l
          BY ONLY <4>2
        <4> QED BY <4>2, <4>3
      <3>4. Found(s, 6) /\ Script[6].kind = "grid"
            /\ Script[6].names = {Grids[h] : h \in DOMAIN Grids}
        <4>1. 6 <= i
          BY <1>1, <3>1
        <4>2. Found(s, 6)
          BY <1>2, <3>3, <4>1
        <4> QED BY <3>3, <4>2, Steps
      <3> QED BY <3>4 DEF Found
    <2> QED BY <2>1, <2>2
  <1>6. WholeDemo(tables')
    <2>1. CASE \E x \in Held(s) : x.kind \in DemoKinds
      <3>1. i >= Bank
        BY <1>1, <2>1 DEF RowSound
      <3>2. i = Bank + 5
        BY <1>1, <3>1, Steps
      <3>3. \A k \in DemoKinds : \E r \in tables' : r.kind = k
        <4> SUFFICES ASSUME NEW k \in DemoKinds PROVE \E r \in tables' : r.kind = k
          OBVIOUS
        <4>1. PICK j \in DOMAIN Script :
                 Script[j].kind = k /\ Script[j].names # {} /\ j <= i
          BY <1>1, <3>1, <3>2, DemoSteps6
        <4>2. Found(s, j)
          BY <1>2, <4>1
        <4> QED BY <4>1, <4>2 DEF Found
      <3>4. \A k \in DemoKinds : Kind(tables', k) # {}
        BY <3>3 DEF Kind
      <3> QED BY <3>4 DEF WholeDemo, DemoParts, DemoKinds
    <2>2. CASE ~ \E x \in Held(s) : x.kind \in DemoKinds
      <3>1. \A k \in DemoKinds : Kind(tables', k) = Kind(tables, k)
        BY <2>2 DEF Kind
      <3>2. WholeDemo(tables)
        BY <1>1 DEF TablesSound, SeedIsWhole, UnitsAreWhole
      <3> QED BY <3>1, <3>2 DEF WholeDemo, DemoParts, DemoKinds
    <2> QED BY <2>1, <2>2
  <1>7. \A r \in tables' : r.kind = "grid" /\ r.by[1] \in Servers => ActivityRow \in tables'
    BY <1>1 DEF TablesSound, Named, Kind, RowSound
  <1>8. ASSUME NEW q \in tables', NEW r \in tables', q.kind = "grid", r.kind = "grid",
               q.name = r.name, q.by[1] \in Servers, r.by[1] \in Servers
        PROVE  q = r
    <2>1. CASE q \in tables /\ r \in tables
      BY <1>1, <1>8, <2>1 DEF TablesSound, SeedIsWhole, NoDoubledFactor, Named, Kind
    <2>2. CASE ~ (q \in tables /\ r \in tables)
      <3>1. ActivityRow \in Held(s)
        BY <1>1, <1>8, <2>2 DEF RowSound
      <3>2. q \notin tables /\ r \notin tables
        BY <1>1, <1>3, <1>8, <3>1 DEF TablesSound, Named, Kind
      <3>3. q = Row("grid", q.name, s, 1) /\ r = Row("grid", r.name, s, 1)
        BY <1>1, <1>8, <3>2 DEF RowSound
      <3> QED BY <1>8, <3>3
    <2> QED BY <2>1, <2>2
  <1>9. NoDoubledFactor'
    BY <1>8 DEF NoDoubledFactor, Named, Kind
  <1>10. TablesSound'
    BY <1>4, <1>5, <1>6, <1>7, <1>9
       DEF TablesSound, SeedIsWhole, UnitsAreWhole, WholeUnits, Named, Kind
  <1>11. tables' \subseteq AnyRow
    <2>1. tables \subseteq AnyRow /\ HeldRow \subseteq AnyRow
      <3>1. tables \subseteq AnyRow
        BY <1>1 DEF Typed
      <3>2. HeldRow \subseteq AnyRow
        BY DEF AnyRow
      <3> QED BY <3>1, <3>2
    <2> QED BY <1>1, <2>1
  <1> QED BY <1>3, <1>10, <1>11

LEMMA CommitStep ==
  ASSUME FInv, NEW s \in Servers, NEW new \in SeederType, Seeding(s), Commit(s, new),
         Step(s).end = "commit", server[s].part # "look", server[s].part # "insert",
         UNCHANGED <<engine, environment, desk, changes>>,
         ActivityRow \notin new.sent, SeederSound(s)'
  PROVE  FInv'
  <1>1. /\ CanSend(s) /\ tables' = tables \cup Held(s) /\ Release(s)
        /\ active' = active \cup {r \in Held(s) : r.kind = "grid" /\ r.name = Grids[1]}
        /\ server' = [server EXCEPT ![s] = new]
    BY DEF Commit
  <1>2. /\ TablesSound' /\ tables' \subseteq AnyRow
        /\ ActivityRow \in Held(s) => ActivityRow \notin tables
    BY <1>1, CommitTables
  <1>3. active' \subseteq tables'
    BY <1>1, FInvParts DEF Typed
  <1>4. \A t \in Servers \ {s} : writer = t => writer' = t
    BY <1>1, Released
  <1>5. ASSUME NEW t \in Servers \ {s}, ActivityRow \in server[t].sent
        PROVE  ActivityRow \notin tables'
    <2>1. ActivityRow \notin tables
      BY <1>5, FInvParts DEF SeederSound
    <2>2. ActivityRow \notin Held(s)
      BY <1>1, <1>5, MaySendExclusive DEF CanSend
    <2> QED BY <1>1, <2>1, <2>2
  <1> QED BY <1>1, <1>2, <1>3, <1>4, <1>5, SeederStep

(* Where a step leaves off: a session with nothing in it.                  *)
LEMMA AfterStep ==
  ASSUME FInv, NEW s \in Servers, Seeding(s)
  PROVE  \E i \in Nat :
            /\ After(s) = [NoSeeder EXCEPT !.step = i] /\ After(s) \in SeederType
            /\ After(s).sent = {}
            /\ i \in DOMAIN Script => i = server[s].step + 1
            /\ server[s].step = Len(Script) => i \notin DOMAIN Script
  <1> DEFINE i == IF server[s].step = Len(Script) THEN Up ELSE server[s].step + 1
  <1>1. /\ i \in Nat /\ (i \in DOMAIN Script => i = server[s].step + 1)
        /\ server[s].step = Len(Script) => i \notin DOMAIN Script
    BY Standing, FInvParts
  <1>2. After(s) = [NoSeeder EXCEPT !.step = i]
    BY DEF After
  <1> HIDE DEF i
  <1> QED BY <1>1, <1>2, NoSeederTyped

(* What has been looked for and committed stays found in the next step.    *)
LEMMA NextStepSound ==
  ASSUME FInv, NEW s \in Servers, Seeding(s), server[s].part # "look",
         server'[s] = After(s), environment' = environment, tables' = tables \cup Held(s)
  PROVE  SeederSound(s)'
  <1>1. PICK i \in Nat :
           /\ After(s) = [NoSeeder EXCEPT !.step = i]
           /\ i \in DOMAIN Script => i = server[s].step + 1
    BY AfterStep
  <1>2. server[s].step \in Nat /\ \A j \in DOMAIN Script : j \in Nat
    BY Steps, Standing, FInvParts
  <1>3. \A j \in DOMAIN Script : j <= server[s].step => Found(s, j)
    BY <1>2, FInvParts DEF SeederSound
  <1>4. \A j \in DOMAIN Script : j <= server[s].step =>
           \A n \in Script[j].names :
              \E r \in tables' : r.kind = Script[j].kind /\ r.name = n
    BY <1>3 DEF Found
  <1>5. i \in DOMAIN Script => \A j \in DOMAIN Script : j < i => j <= server[s].step
    BY <1>1, <1>2
  <1> QED BY <1>1, <1>4, <1>5, FreshSound

LEMMA EndCommitStep ==
  ASSUME FInv, NEW s \in Servers, Seeding(s), server[s].part = "end",
         Step(s).end = "commit", Commit(s, After(s)),
         UNCHANGED <<engine, environment, desk, changes>>
  PROVE  FInv'
  <1>1. After(s) \in SeederType /\ After(s).sent = {}
    BY AfterStep
  <1>2. server'[s] = After(s) /\ tables' = tables \cup Held(s)
    BY FInvParts DEF Commit, Typed
  <1>3. SeederSound(s)'
    BY <1>2, NextStepSound
  <1> QED BY <1>1, <1>3, CommitStep

(* The reset of an old user leaves an empty session.                       *)
LEMMA SyncUserStep ==
  ASSUME FInv, NEW s \in Servers, SyncUser(s), UNCHANGED <<desk, changes>>
  PROVE  FInv'
  <1> DEFINE new == [server[s] EXCEPT !.part = "accounts", !.added = {}, !.sent = {}]
  <1>1. /\ server[s] \in SeederType /\ SeederSound(s) /\ Seeding(s)
        /\ server[s].part = "sync" /\ Commit(s, new)
        /\ UNCHANGED <<engine, environment, desk, changes>>
    BY FInvParts, SeederTyped DEF SyncUser
  <1>2. /\ new \in SeederType /\ new.sent = {} /\ new.added = {}
        /\ new.step = server[s].step /\ new.part = "accounts"
    BY <1>1 DEF SeederType
  <1>3. Step(s).kind = "user" /\ Step(s).end = "commit"
    BY <1>1, Standing, Steps, FInvParts DEF SeederSound
  <1>4. server'[s] = new /\ tables' = tables \cup Held(s)
    BY <1>1, FInvParts DEF Commit, Typed
  <1> HIDE DEF new
  <1>5. SeederSound(s)'
    <2>1. /\ Script' = Script /\ Held(s)' = {} /\ Seeding(s)' /\ Step(s)' = Step(s)
          /\ server'[s].step = server[s].step /\ server'[s].part = "accounts"
          /\ server'[s].sent = {}
      BY <1>1, <1>2, <1>4, SameScript DEF Held, Seeding, Step
    <2>2. \A j \in DOMAIN Script : Found(s, j) => Found(s, j)'
      BY <1>4, <2>1 DEF Found
    <2>3. \A j \in DOMAIN Script : j <= server[s].step => Found(s, j)
      <3>1. server[s].step \in Nat /\ \A j \in DOMAIN Script : j \in Nat
        BY <1>1, Steps, Standing, FInvParts
      <3> QED BY <1>1, <3>1 DEF SeederSound
    <2>4. \A j \in DOMAIN Script : j < server[s].step \/ j = server[s].step => j <= server[s].step
      <3>1. server[s].step \in Nat /\ \A j \in DOMAIN Script : j \in Nat
        BY <1>1, Steps, Standing, FInvParts
      <3> QED BY <3>1
    <2>5. Step(s)'.end # "leave" /\ Step(s)'.kind = "user"
      BY <1>3, <2>1
    <2> QED BY <2>1, <2>2, <2>3, <2>4, <2>5 DEF SeederSound
  <1> QED BY <1>1, <1>2, <1>3, <1>5, CommitStep

(* A flush sends what the session holds, and takes SQLite's write lock.    *)
LEMMA Flushed ==
  ASSUME FInv, NEW s \in Servers, NEW new, Flush(s, new), new.sent = Held(s),
         UNCHANGED <<engine>>
  PROVE  /\ server' = [server EXCEPT ![s] = new] /\ server'[s] = new
         /\ UNCHANGED <<tables, active>>
         /\ \A t \in Servers \ {s} : writer = t => writer' = t
         /\ engine' = "sqlite" /\ new.sent # {} => writer' = s
         /\ ActivityRow \in new.sent => ActivityRow \notin tables'
         /\ \A t \in Servers \ {s} : ActivityRow \in server[t].sent =>
               ActivityRow \notin new.sent
  <1>1. /\ CanSend(s) /\ MaySend(s) /\ ~ Conflict(s)
        /\ server' = [server EXCEPT ![s] = new] /\ UNCHANGED <<tables, active>>
        /\ writer' = IF engine = "sqlite" /\ server[s].added # {} THEN s ELSE writer
    BY DEF Flush, CanSend
  <1>2. server'[s] = new
    BY <1>1, FInvParts DEF Typed
  <1>3. \A t \in Servers \ {s} : writer = t => writer' = t
    BY <1>1, OpeningsAssumption DEF MaySend
  <1>4. engine' = "sqlite" /\ new.sent # {} => writer' = s
    BY <1>1, FInvParts DEF Held, SeederSound
  <1>5. ActivityRow \in new.sent => ActivityRow \notin tables'
    BY <1>1, FInvParts DEF Held, SeederSound, Conflict
  <1>6. \A t \in Servers \ {s} : ActivityRow \in server[t].sent => ActivityRow \notin new.sent
    BY <1>1, MaySendExclusive
  <1> QED BY <1>1, <1>2, <1>3, <1>4, <1>5, <1>6

LEMMA EndFlushStep ==
  ASSUME FInv, NEW s \in Servers, Seeding(s), server[s].part = "end",
         Step(s).end = "flush", Flush(s, [After(s) EXCEPT !.sent = Held(s)]),
         UNCHANGED <<engine, environment, desk, changes>>
  PROVE  FInv'
  <1> DEFINE new == [After(s) EXCEPT !.sent = Held(s)]
             i == server[s].step
  <1>1. /\ i \in DOMAIN Script /\ Step(s) = Script[i] /\ i \in Nat /\ i # Len(Script)
        /\ i + 1 \in DOMAIN Script /\ i >= Bank
    BY Standing, Steps, FInvParts
  <1>2. After(s) = [NoSeeder EXCEPT !.step = i + 1]
    BY <1>1 DEF After
  <1>3. /\ new \in SeederType /\ new.sent = Held(s) /\ new.added = {}
        /\ new.step = i + 1 /\ new.part = "look"
    <2>1. Held(s) \subseteq HeldRow /\ i + 1 \in Nat
      BY <1>1, SeederTyped, FInvParts
    <2>2. /\ After(s) \in SeederType /\ After(s).step = i + 1 /\ After(s).part = "look"
          /\ After(s).added = {}
      BY <1>2, <2>1, NoSeederTyped
    <2> QED BY <2>1, <2>2 DEF SeederType
  <1>4. /\ Flush(s, new) /\ SeederSound(s) /\ \A x \in Held(s) : RowSound(s, x)
    BY FInvParts DEF SeederSound
  <1> HIDE DEF new
  <1>5. /\ server' = [server EXCEPT ![s] = new] /\ server'[s] = new
        /\ UNCHANGED <<tables, active>>
        /\ \A t \in Servers \ {s} : writer = t => writer' = t
        /\ engine' = "sqlite" /\ new.sent # {} => writer' = s
        /\ ActivityRow \in new.sent => ActivityRow \notin tables'
        /\ \A t \in Servers \ {s} : ActivityRow \in server[t].sent =>
              ActivityRow \notin new.sent
    BY <1>3, <1>4, Flushed
  <1>6. SeederSound(s)'
    <2>1. /\ Script' = Script /\ Held(s)' = Held(s) /\ Seeding(s)' /\ Step(s)' = Script[i + 1]
          /\ server'[s].step = i + 1 /\ server'[s].part = "look" /\ server'[s].sent = new.sent
      BY <1>1, <1>3, <1>5, SameScript DEF Held, Seeding, Step
    <2>2. \A j \in DOMAIN Script : j < i + 1 => Found(s, j)'
      <3>1. \A j \in DOMAIN Script : j < i + 1 => j < i \/ j = i
        <4>1. \A j \in DOMAIN Script : j \in Nat
          BY Steps
        <4> QED BY <1>1, <4>1
      <3>2. \A j \in DOMAIN Script : j < i + 1 => Found(s, j)
        BY <1>4, <3>1 DEF SeederSound
      <3> QED BY <1>5, <2>1, <3>2 DEF Found
    <2>3. ASSUME NEW x \in Held(s) PROVE RowSound(s, x)'
      <3>1. RowSound(s, x) /\ x.kind # "user"
        <4>1. Step(s).kind # "user"
          BY <1>1, Steps, ScriptShape
        <4> QED BY <1>4, <4>1 DEF RowSound
      <3>2. i + 1 > 5 /\ i + 1 >= Bank
        BY <1>1, ScriptShape
      <3> QED BY <2>1, <3>1, <3>2 DEF RowSound
    <2> QED BY <1>5, <2>1, <2>2, <2>3 DEF SeederSound
  <1> QED BY <1>3, <1>5, <1>6, QuietStep

LEMMA EndStep ==
  ASSUME FInv, NEW s \in Servers, End(s), UNCHANGED <<desk, changes>>
  PROVE  FInv'
  BY EndCommitStep, EndFlushStep DEF End

LEMMA InsertUserStep ==
  ASSUME FInv, NEW s \in Servers, InsertUser(s), UNCHANGED <<desk, changes>>
  PROVE  FInv'
  <1> DEFINE wallets == {Row("wallet", User(s), s, 1)}
                        \cup {Row("wallet", u, s, 2) : u \in Missing(s, "wallet", {User(s)})}
             new == [server[s] EXCEPT !.part = "end", !.sent = Held(s), !.added = wallets]
             i == server[s].step
  <1>1. /\ server[s] \in SeederType /\ SeederSound(s) /\ Seeding(s)
        /\ server[s].part = "insert" /\ Flush(s, new)
        /\ UNCHANGED <<engine, environment, desk, changes>>
        /\ \A x \in Held(s) : RowSound(s, x)
    BY FInvParts, SeederTyped DEF InsertUser, SeederSound
  <1>2. /\ i \in DOMAIN Script /\ Step(s) = Script[i] /\ i \in Nat
        /\ Step(s).kind = "user" /\ Step(s).end = "commit" /\ User(s) \in RowNames
        /\ \A j \in DOMAIN Script : j \in Nat
    BY <1>1, Standing, Steps, FInvParts DEF SeederSound
  <1>3. wallets \subseteq HeldRow /\ \A x \in wallets : x.kind = "wallet"
    <2>1. \A n \in RowNames, k \in {1, 2} :
             Row("wallet", n, s, k) \in HeldRow /\ Row("wallet", n, s, k).kind = "wallet"
      BY HeldRows, RowFacts
    <2>2. Missing(s, "wallet", {User(s)}) \subseteq RowNames
      BY <1>2 DEF Missing
    <2> QED BY <1>2, <2>1, <2>2
  <1>4. \E y \in wallets : y.kind = "wallet" /\ y.name = User(s)
    BY RowFacts
  <1> HIDE DEF wallets
  <1>5. /\ new \in SeederType /\ new.sent = Held(s) /\ new.added = wallets
        /\ new.step = i /\ new.part = "end"
    <2>1. Held(s) \subseteq HeldRow
      BY SeederTyped, FInvParts
    <2> QED BY <1>1, <1>3, <2>1 DEF SeederType
  <1> HIDE DEF new
  <1>6. /\ server' = [server EXCEPT ![s] = new] /\ server'[s] = new
        /\ UNCHANGED <<tables, active>>
        /\ \A t \in Servers \ {s} : writer = t => writer' = t
        /\ engine' = "sqlite" /\ new.sent # {} => writer' = s
        /\ ActivityRow \in new.sent => ActivityRow \notin tables'
        /\ \A t \in Servers \ {s} : ActivityRow \in server[t].sent =>
              ActivityRow \notin new.sent
    BY <1>1, <1>5, Flushed
  <1>7. SeederSound(s)'
    <2>1. /\ Script' = Script /\ Held(s)' = Held(s) \cup wallets /\ Seeding(s)'
          /\ Step(s)' = Step(s) /\ User(s)' = User(s)
          /\ server'[s].step = i /\ server'[s].part = "end" /\ server'[s].sent = new.sent
      BY <1>1, <1>2, <1>5, <1>6, SameScript DEF Held, Seeding, Step, User
    <2>2. \A j \in DOMAIN Script : j < i \/ j = i => Found(s, j)'
      <3>1. \A j \in DOMAIN Script : j < i \/ j = i => Found(s, j)
        BY <1>1 DEF SeederSound
      <3> QED BY <1>6, <2>1, <3>1 DEF Found
    <2>3. ASSUME NEW x \in Held(s) \cup wallets PROVE RowSound(s, x)'
      <3>1. CASE x \in Held(s)
        <4>1. RowSound(s, x)
          BY <1>1, <3>1
        <4> QED BY <1>2, <1>4, <2>1, <4>1 DEF RowSound
      <3>2. CASE x \in wallets
        <4>1. x.kind = "wallet"
          BY <1>3, <3>2
        <4> QED BY <4>1 DEF RowSound, DemoKinds
      <3> QED BY <2>3, <3>1, <3>2
    <2>4. Step(s)'.end # "leave"
      BY <1>2, <2>1
    <2> QED BY <1>6, <2>1, <2>2, <2>3, <2>4 DEF SeederSound
  <1> QED BY <1>1, <1>5, <1>6, <1>7, QuietStep

(* A look-up sends nothing.                                                *)
LEMMA LookStep ==
  ASSUME FInv, NEW s \in Servers, NEW new \in SeederType,
         server' = [server EXCEPT ![s] = new],
         UNCHANGED <<engine, environment, tables, active, writer, desk, changes>>,
         new.sent \subseteq server[s].sent, SeederSound(s)'
  PROVE  FInv'
  <1>1. \A t \in Servers \ {s} : ActivityRow \in server[t].sent => ActivityRow \notin new.sent
    BY FInvParts DEF OneSender
  <1> QED BY <1>1, QuietStep

LEMMA LookUserStep ==
  ASSUME FInv, NEW s \in Servers, LookUser(s), UNCHANGED <<desk, changes>>
  PROVE  FInv'
  <1> DEFINE isNew == Missing(s, "user", {User(s)}) # {}
             u == Row("user", User(s), s, 1)
             new == [server[s] EXCEPT !.part = IF isNew THEN "insert" ELSE "sync",
                        !.added = IF isNew THEN @ \cup {u} ELSE @]
             i == server[s].step
  <1>1. /\ server[s] \in SeederType /\ SeederSound(s) /\ Seeding(s)
        /\ server[s].part = "look" /\ Step(s).kind = "user"
        /\ \A x \in Held(s) : RowSound(s, x)
    BY FInvParts, SeederTyped DEF LookUser, SeederSound
  <1>2. /\ i \in DOMAIN Script /\ Step(s) = Script[i] /\ i \in Nat
        /\ Step(s).end = "commit" /\ User(s) \in RowNames /\ Step(s).names = {User(s)}
    BY <1>1, Standing, Steps, FInvParts
  <1>3. u \in HeldRow /\ u.kind = "user" /\ u.name = User(s)
    <2>1. "user" \in Kinds /\ 1 \in {1, 2}
      BY DEF Kinds
    <2> QED BY <1>2, <2>1, HeldRows, RowFacts
  <1>4. server' = [server EXCEPT ![s] = new]
        /\ UNCHANGED <<engine, environment, tables, active, writer, desk, changes>>
    BY DEF LookUser
  <1> HIDE DEF u, isNew
  <1>5. /\ new \in SeederType /\ new.sent = server[s].sent /\ new.step = i
        /\ new.part = IF isNew THEN "insert" ELSE "sync"
        /\ new.added = IF isNew THEN server[s].added \cup {u} ELSE server[s].added
    BY <1>1, <1>3 DEF SeederType
  <1> HIDE DEF new
  <1>6. server'[s] = new
    BY <1>4, FInvParts DEF Typed
  <1>7. SeederSound(s)'
    <2>1. /\ Script' = Script /\ Seeding(s)' /\ Step(s)' = Step(s) /\ User(s)' = User(s)
          /\ Held(s)' = IF isNew THEN Held(s) \cup {u} ELSE Held(s)
          /\ server'[s].step = i /\ server'[s].sent = server[s].sent
          /\ server'[s].part = IF isNew THEN "insert" ELSE "sync"
      BY <1>1, <1>2, <1>4, <1>5, <1>6, SameScript DEF Held, Seeding, Step, User
    <2>2. \A j \in DOMAIN Script : j < i => Found(s, j)'
      BY <1>1, <1>4, <2>1 DEF Found, SeederSound
    <2>3. Found(s, i)'
      <3>1. CASE isNew
        BY <1>2, <1>3, <2>1, <3>1, <1>1 DEF Found
      <3>2. CASE ~ isNew
        <4>1. \E r \in tables \cup server[s].sent : r.kind = "user" /\ r.name = User(s)
          BY <3>2 DEF isNew, Missing
        <4> QED BY <1>1, <1>2, <1>4, <2>1, <3>2, <4>1 DEF Found, Held
      <3> QED BY <3>1, <3>2
    <2>4. ASSUME NEW x \in Held(s)' PROVE RowSound(s, x)'
      <3>1. CASE x \in Held(s)
        <4>1. RowSound(s, x) /\ x.kind # "user"
          BY <1>1, <3>1 DEF RowSound
        <4> QED BY <2>1, <4>1 DEF RowSound
      <3>2. CASE x \notin Held(s)
        <4>1. x = u /\ isNew
          BY <2>1, <2>4, <3>2
        <4>2. x.kind = "user" /\ x.name = User(s)' /\ server'[s].part = "insert"
              /\ Step(s)'.kind = "user"
          BY <1>1, <1>3, <2>1, <4>1
        <4> QED BY <4>2 DEF RowSound, DemoKinds
      <3> QED BY <3>1, <3>2
    <2>5. /\ server'[s].part # "look" /\ server'[s].part # "accounts"
          /\ Step(s)'.end # "leave" /\ Step(s)'.kind = "user"
      BY <1>1, <1>2, <2>1
    <2>6. /\ engine' = "sqlite" /\ server'[s].sent # {} => writer' = s
          /\ ActivityRow \in server'[s].sent => ActivityRow \notin tables'
      BY <1>1, <1>4, <2>1 DEF SeederSound
    <2> QED BY <2>1, <2>2, <2>3, <2>4, <2>5, <2>6 DEF SeederSound
  <1> QED BY <1>4, <1>5, <1>7, LookStep

LEMMA LookAccountsStep ==
  ASSUME FInv, NEW s \in Servers, LookAccounts(s), UNCHANGED <<desk, changes>>
  PROVE  FInv'
  <1> DEFINE wallets == {Row("wallet", u, s, 2) : u \in Missing(s, "wallet", {User(s)})}
             new == [server[s] EXCEPT !.part = "end", !.added = wallets]
             i == server[s].step
  <1>1. /\ server[s] \in SeederType /\ SeederSound(s) /\ Seeding(s)
        /\ server[s].part = "accounts" /\ Step(s).kind = "user" /\ Held(s) = {}
    BY FInvParts, SeederTyped DEF LookAccounts, SeederSound
  <1>2. /\ i \in DOMAIN Script /\ Step(s) = Script[i] /\ i \in Nat
        /\ Step(s).end = "commit" /\ User(s) \in RowNames
    BY <1>1, Standing, Steps, FInvParts
  <1>3. wallets \subseteq HeldRow /\ \A x \in wallets : x.kind = "wallet"
    <2>1. \A n \in RowNames : Row("wallet", n, s, 2) \in HeldRow
                              /\ Row("wallet", n, s, 2).kind = "wallet"
      BY HeldRows, RowFacts
    <2>2. Missing(s, "wallet", {User(s)}) \subseteq RowNames
      BY <1>2 DEF Missing
    <2> QED BY <2>1, <2>2
  <1>4. server' = [server EXCEPT ![s] = new]
        /\ UNCHANGED <<engine, environment, tables, active, writer, desk, changes>>
    BY DEF LookAccounts
  <1> HIDE DEF wallets
  <1>5. /\ new \in SeederType /\ new.sent = server[s].sent /\ new.step = i
        /\ new.part = "end" /\ new.added = wallets
    BY <1>1, <1>3 DEF SeederType
  <1> HIDE DEF new
  <1>6. server'[s] = new /\ server[s].sent = {}
    BY <1>1, <1>4, FInvParts DEF Typed, Held
  <1>7. SeederSound(s)'
    <2>1. /\ Script' = Script /\ Seeding(s)' /\ Step(s)' = Step(s) /\ Held(s)' = wallets
          /\ server'[s].step = i /\ server'[s].sent = {} /\ server'[s].part = "end"
      BY <1>1, <1>2, <1>4, <1>5, <1>6, SameScript DEF Held, Seeding, Step
    <2>2. \A j \in DOMAIN Script : j < i \/ j = i => Found(s, j)'
      <3>1. \A j \in DOMAIN Script : j < i \/ j = i => Found(s, j)
        BY <1>1 DEF SeederSound
      <3>2. \A j \in DOMAIN Script : j < i \/ j = i =>
               \A n \in Script[j].names : \E r \in tables : r.kind = Script[j].kind /\ r.name = n
        BY <1>1, <3>1 DEF Found
      <3>3. tables \subseteq tables' \cup Held(s)' /\ Script' = Script
        BY <1>4, <2>1
      <3> QED BY <3>2, <3>3 DEF Found
    <2>3. \A x \in wallets : RowSound(s, x)'
      BY <1>3 DEF RowSound, DemoKinds
    <2>4. Step(s)'.end # "leave"
      BY <1>2, <2>1
    <2> QED BY <2>1, <2>2, <2>3, <2>4 DEF SeederSound
  <1> QED BY <1>4, <1>5, <1>7, LookStep

LEMMA LookRowsStep ==
  ASSUME FInv, NEW s \in Servers, Look(s), UNCHANGED <<desk, changes>>
  PROVE  FInv'
  <1> DEFINE i == server[s].step
             k == Step(s).kind
             rows == {Row(k, n, s, 1) : n \in Missing(s, k, Step(s).names)}
             seen == [server[s] EXCEPT !.added = @ \cup rows]
             last == Step(s).end = "leave" /\ i = Len(Script)
             new == [seen EXCEPT !.part = IF Step(s).end # "leave" THEN "end" ELSE @,
                                 !.step = IF Step(s).end # "leave" THEN @ ELSE @ + 1]
  <1>1. /\ server[s] \in SeederType /\ SeederSound(s) /\ Seeding(s)
        /\ server[s].part = "look" /\ k # "user"
        /\ \A x \in Held(s) : RowSound(s, x)
        /\ UNCHANGED <<engine, environment, tables, active, writer, desk, changes>>
    BY FInvParts, SeederTyped DEF Look, SeederSound
  <1>2. /\ i \in DOMAIN Script /\ Step(s) = Script[i] /\ i \in Nat
        /\ Step(s) \in StepType /\ (~ last => (Step(s).end = "leave" => i + 1 \in DOMAIN Script))
        /\ \A j \in DOMAIN Script : j \in Nat
    BY <1>1, Standing, Steps, FInvParts
  <1>3. CASE last
    <2>1. server' = [server EXCEPT ![s] = After(s)]
      BY <1>3 DEF Look
    <2>2. PICK h \in Nat : After(s) = [NoSeeder EXCEPT !.step = h] /\ h \notin DOMAIN Script
      BY <1>1, <1>3, AfterStep
    <2> QED BY <1>1, <2>1, <2>2, Ended
  <1>4. CASE ~ last
    <2>1. server' = [server EXCEPT ![s] = new]
      <3>1. CASE Step(s).end # "leave"
        <4>1. [seen EXCEPT !.part = "end"] = new
          BY <1>1, <3>1 DEF SeederType
        <4>2. server' = [server EXCEPT ![s] = [seen EXCEPT !.part = "end"]]
          BY <3>1 DEF Look
        <4> QED BY <4>1, <4>2
      <3>2. CASE Step(s).end = "leave"
        <4>1. [seen EXCEPT !.step = @ + 1] = new
          BY <1>1, <3>2 DEF SeederType
        <4>2. server' = [server EXCEPT ![s] = [seen EXCEPT !.step = @ + 1]]
          BY <1>4, <3>2 DEF Look
        <4> QED BY <4>1, <4>2
      <3> QED BY <3>1, <3>2
    <2>2. rows \subseteq HeldRow
      <3>1. k \in Kinds /\ Step(s).names \subseteq RowNames
        BY <1>2 DEF StepType
      <3>2. \A n \in RowNames : Row(k, n, s, 1) \in HeldRow
        BY <3>1, HeldRows
      <3> QED BY <3>1, <3>2 DEF Missing
    <2>3. \A n \in Step(s).names :
             \E r \in tables \cup server[s].sent \cup rows : r.kind = k /\ r.name = n
      BY RowFacts DEF Missing
    <2>4. \A x \in rows : \E n \in Missing(s, k, Step(s).names) :
             x = Row(k, n, s, 1) /\ x.kind = k /\ x.name = n /\ n \in Step(s).names
      BY RowFacts DEF Missing
    <2> HIDE DEF rows
    <2>5. /\ new \in SeederType /\ new.sent = server[s].sent
          /\ new.added = server[s].added \cup rows
          /\ new.part = IF Step(s).end # "leave" THEN "end" ELSE "look"
          /\ new.step = IF Step(s).end # "leave" THEN i ELSE i + 1
      <3>1. /\ seen \in SeederType /\ seen.sent = server[s].sent /\ seen.step = i
            /\ seen.added = server[s].added \cup rows /\ seen.part = "look"
        BY <1>1, <2>2 DEF SeederType
      <3> HIDE DEF seen
      <3>2. i \in Nat /\ i + 1 \in Nat
        BY <1>2
      <3> QED BY <3>1, <3>2 DEF SeederType
    <2> HIDE DEF new, seen
    <2>6. server'[s] = new
      BY <2>1, FInvParts DEF Typed
    <2>7. SeederSound(s)'
      <3>1. /\ Script' = Script /\ Seeding(s)' /\ Held(s)' = Held(s) \cup rows
            /\ server'[s].step = new.step /\ server'[s].part = new.part
            /\ server'[s].sent = server[s].sent
            /\ Step(s).end # "leave" => Step(s)' = Step(s)
        BY <1>1, <1>2, <1>4, <2>5, <2>6, SameScript DEF Held, Seeding, Step
      <3>2. \A j \in DOMAIN Script : j < i => Found(s, j)'
        BY <1>1, <3>1 DEF Found, SeederSound
      <3>3. \A j \in DOMAIN Script : j = i => Found(s, j)'
        <4>1. \A n \in Script[i].names :
                 \E r \in tables' \cup Held(s)' : r.kind = Script[i].kind /\ r.name = n
          BY <1>1, <1>2, <2>3, <3>1 DEF Held
        <4>2. Script' = Script
          BY <3>1
        <4> QED BY <4>1, <4>2 DEF Found
      <3>4. \A j \in DOMAIN Script : j < new.step \/ (j = new.step /\ new.part # "look") =>
               j < i \/ j = i
        BY <1>2, <2>5
      <3>5. new.step >= i /\ (i = 5 => new.step = 6) /\ new.step \in Nat
        BY <1>2, <2>5, Steps
      <3>6. ASSUME NEW x \in Held(s) PROVE RowSound(s, x)'
        <4>1. RowSound(s, x) /\ x.kind # "user"
          BY <1>1 DEF RowSound
        <4>2. /\ x.kind = "activity" => x = ActivityRow /\ server'[s].step > 5
              /\ x.kind \in DemoKinds => server'[s].step >= Bank
          <5>1. /\ x.kind = "activity" => x = ActivityRow /\ i > 5
                /\ x.kind \in DemoKinds => i >= Bank
            BY <4>1 DEF RowSound
          <5>2. Bank \in Nat
            BY ScriptShape
          <5>3. i > 5 => new.step > 5
            BY <1>2, <3>5
          <5>4. i >= Bank => new.step >= Bank
            BY <1>2, <3>5, <5>2
          <5> QED BY <3>1, <5>1, <5>3, <5>4
        <4>3. x.kind = "grid" => x = Row("grid", x.name, s, 1) /\ ActivityRow \in Held(s)'
          BY <3>1, <4>1 DEF RowSound
        <4> QED BY <4>1, <4>2, <4>3 DEF RowSound
      <3>7. ASSUME NEW x \in rows PROVE RowSound(s, x)'
        <4>1. PICK n \in Missing(s, k, Step(s).names) :
                 x = Row(k, n, s, 1) /\ x.kind = k /\ x.name = n /\ n \in Step(s).names
          BY <2>4
        <4>2. x.kind = "activity" => x = ActivityRow /\ server'[s].step > 5
          <5>1. k = "activity" => i = 5 /\ n = "all"
            BY <1>2, <4>1, Steps
          <5>2. k = "activity" => x = ActivityRow
            BY <4>1, <5>1, RowFacts DEF ActivityRow, Unkeyed
          <5> QED BY <3>1, <3>5, <4>1, <5>1, <5>2
        <4>3. x.kind = "grid" => x = Row("grid", x.name, s, 1) /\ ActivityRow \in Held(s)'
          <5> SUFFICES ASSUME k = "grid" PROVE ActivityRow \in Held(s)
            BY <3>1, <4>1
          <5>1. i = 6 /\ n \in {Grids[g] : g \in DOMAIN Grids}
            BY <1>2, <4>1, Steps
          <5>2. 5 \in DOMAIN Script
            <6> DEFINE l == Len(Script)
            <6>1. DOMAIN Script = 1..l /\ l \in Nat /\ 6 <= l
              BY <1>2, <5>1, Steps, ScriptShape
            <6> HIDE DEF l
            <6>2. 5 \in 1..l
              BY ONLY <6>1
            <6> QED BY <6>1, <6>2
          <5>3. Found(s, 5)
            BY <1>1, <5>1, <5>2 DEF SeederSound
          <5>4. PICK r \in tables \cup Held(s) : r.kind = "activity"
            <6>1. Script[5].names = {"all"} /\ Script[5].kind = "activity"
              BY <5>2, Steps
            <6> QED BY <5>3, <6>1 DEF Found
          <5>5. CASE r \in Held(s)
            BY <1>1, <5>4, <5>5 DEF RowSound
          <5>6. CASE r \in tables
            <6>1. WholeUnits(tables)
              BY FInvParts DEF TablesSound, SeedIsWhole, UnitsAreWhole
            <6>2. \E q \in tables : q.kind = "grid" /\ q.name = n
              BY <5>1, <5>4, <5>6, <6>1 DEF WholeUnits, Kind
            <6> QED BY <4>1, <6>2 DEF Missing
          <5> QED BY <5>5, <5>6
        <4>4. x.kind # "user"
          BY <1>1, <4>1
        <4>5. x.kind \in DemoKinds => server'[s].step >= Bank
          <5>1. k \in DemoKinds => i >= Bank
            BY <1>2, Steps
          <5>2. Bank \in Nat
            BY ScriptShape
          <5> QED BY <1>2, <3>1, <3>5, <4>1, <5>1, <5>2
        <4> QED BY <4>2, <4>3, <4>4, <4>5 DEF RowSound
      <3>8. /\ new.part # "look" => Step(s)'.end # "leave"
            /\ new.part \in {"look", "end"}
        BY <2>5, <3>1
      <3>9. /\ engine' = "sqlite" /\ server'[s].sent # {} => writer' = s
            /\ ActivityRow \in server'[s].sent => ActivityRow \notin tables'
        BY <1>1, <3>1 DEF SeederSound
      <3>10. \A j \in DOMAIN Script' :
                j < server'[s].step \/ (j = server'[s].step /\ server'[s].part # "look") =>
                   Found(s, j)'
        <4>1. \A j \in DOMAIN Script :
                 j < new.step \/ (j = new.step /\ new.part # "look") => Found(s, j)'
          BY <3>2, <3>3, <3>4
        <4>2. DOMAIN Script' = DOMAIN Script
          BY <3>1
        <4> QED BY <3>1, <4>1, <4>2
      <3>11. \A x \in Held(s)' : RowSound(s, x)'
        BY <3>1, <3>6, <3>7
      <3> HIDE DEF last, i, k
      <3> QED BY <3>1, <3>8, <3>9, <3>10, <3>11 DEF SeederSound
    <2> QED BY <1>1, <2>1, <2>5, <2>7, LookStep
  <1> QED BY <1>3, <1>4

LEMMA SeedStep ==
  ASSUME FInv, NEW s \in Servers, UNCHANGED <<desk, changes>>,
         Start(s) \/ Seed(s) \/ Refused(s) \/ Broken(s) \/ Stop(s)
  PROVE  FInv'
  BY StartStep, LookRowsStep, EndStep, LookUserStep, InsertUserStep, SyncUserStep,
     LookAccountsStep, RefusedStep, BrokenStep, StopStep DEF Seed

-----------------------------------------------------------------------------
(* The steps of a request.                                                 *)

LEMMA DeskStep ==
  ASSUME FInv, NEW w \in Workers, NEW new \in DeskType,
         desk' = [desk EXCEPT ![w] = new],
         UNCHANGED <<engine, environment, server>>, changes' \in Nat,
         tables \subseteq tables', tables' \subseteq AnyRow, active' \subseteq tables',
         TablesSound', ActivityRow \in tables' => ActivityRow \in tables,
         \A t \in Servers : writer = t => writer' = t,
         DeskSound(w)'
  PROVE  FInv'
  <1>1. OneSender' /\ \A s \in Servers : SeederSound(s)'
    BY SeedersKept
  <1>2. desk \in [Workers -> DeskType]
    BY FInvParts DEF Typed
  <1>3. ASSUME NEW v \in Workers PROVE DeskSound(v)'
    <2>1. CASE v = w
      BY <2>1
    <2>2. CASE v # w
      <3>1. desk'[v] = desk[v] /\ DeskSound(v)
        BY <1>2, <2>2, FInvParts
      <3>2. Factors \subseteq Factors' /\ Inserts(v)' = Inserts(v) /\ TurnsOn(v)' = TurnsOn(v)
        BY <3>1 DEF Factors, Named, Kind, Inserts, TurnsOn
      <3> QED BY <3>1, <3>2 DEF DeskSound
    <2> QED BY <2>1, <2>2
  <1>4. Typed'
    BY <1>2, FInvParts DEF Typed
  <1> QED BY <1>1, <1>3, <1>4 DEF FInv

LEMMA DeskTyped ==
  ASSUME FInv, NEW w \in Workers
  PROVE  /\ desk[w] \in DeskType /\ DeskSound(w) /\ tables \subseteq AnyRow
         /\ active \subseteq tables /\ changes \in Nat /\ Factors \subseteq tables
         /\ \A f \in Factors : f.kind = "grid"
  BY FInvParts DEF Typed, Factors, Named, Kind

LEMMA DeskRows ==
  ASSUME NEW k \in {"grid", "goal"}, NEW n \in NewGrids \cup GoalTypes,
         NEW w \in Workers, NEW i \in Nat
  PROVE  Row(k, n, w, i) \in DeskRow /\ Row(k, n, w, i) \in AnyRow
  BY DEF DeskRow, AnyRow

LEMMA DeskRowFacts ==
  ASSUME NEW r \in DeskRow
  PROVE  r.kind \in {"grid", "goal"} /\ r.by[1] \in Workers /\ r.by[1] \notin Servers
         /\ r \in AnyRow
  <1>1. PICK k \in {"grid", "goal"}, n \in NewGrids \cup GoalTypes, w \in Workers, i \in Nat :
          r = Row(k, n, w, i)
    BY DEF DeskRow
  <1>2. r.kind = k /\ r.by[1] = w
    BY <1>1, RowFacts
  <1> QED BY <1>1, <1>2, FactorsAssumption DEF AnyRow

LEMMA BeginStep ==
  ASSUME FInv, NEW w \in Workers,
         NEW op \in {"activate", "addActive", "addInactive", "addGoal", "updateGoal"},
         NEW stage \in {"update", "commit"}, NEW target \in AnyRow \cup {NoRow},
         Begin(w, op, stage, target),
         stage = "update" <=> op \in {"activate", "addActive"},
         op = "activate" => target \in tables,
         op \in {"addActive", "addInactive", "addGoal"} => target \in DeskRow
  PROVE  FInv'
  <1> DEFINE new == [NoDesk EXCEPT !.op = op, !.at = stage, !.target = target, !.old = Factors]
  <1>1. /\ desk' = [desk EXCEPT ![w] = new] /\ changes' = changes + 1
        /\ UNCHANGED <<engine, environment, tables, active, server, writer, stops>>
    BY DEF Begin, svars
  <1>2. /\ new.op = op /\ new.at = stage /\ new.target = target /\ new.old = Factors
        /\ new.off = {} /\ new.seen = {} /\ new.done = FALSE /\ new \in DeskType
    <2>1. Factors \subseteq AnyRow
      BY DeskTyped
    <2> QED BY <2>1 DEF NoDesk, DeskType
  <1> HIDE DEF new
  <1>3. desk'[w] = new
    BY <1>1, FInvParts DEF Typed
  <1>4. DeskSound(w)'
    <2>1. Factors' = Factors
      BY <1>1 DEF Factors, Named
    <2> QED BY <1>1, <1>2, <1>3, <2>1 DEF DeskSound, Inserts, TurnsOn
  <1>5. TablesSound' /\ changes' \in Nat
    BY <1>1, TablesKept, FInvParts, DeskTyped
  <1> QED BY <1>1, <1>2, <1>4, <1>5, DeskTyped, DeskStep

LEMMA ActivateStep ==
  ASSUME FInv, NEW w \in Workers, Activate(w)
  PROVE  FInv'
  <1>1. PICK f \in Factors : Begin(w, "activate", "update", f)
    BY DEF Activate
  <1>2. f \in tables /\ f \in AnyRow
    BY DeskTyped
  <1> QED BY <1>1, <1>2, BeginStep

LEMMA AddStep ==
  ASSUME FInv, NEW w \in Workers, Add(w)
  PROVE  FInv'
  <1>1. PICK g \in NewGrids : \/ Begin(w, "addActive", "update", Row("grid", g, w, changes))
                              \/ Begin(w, "addInactive", "commit", Row("grid", g, w, changes))
    BY DEF Add
  <1>2. Row("grid", g, w, changes) \in DeskRow /\ Row("grid", g, w, changes) \in AnyRow
    BY DeskTyped, DeskRows
  <1> QED BY <1>1, <1>2, BeginStep

LEMMA SetGoalStep ==
  ASSUME FInv, NEW w \in Workers, SetGoal(w)
  PROVE  FInv'
  <1>1. PICK t \in GoalTypes : \/ Begin(w, "updateGoal", "commit", NoRow)
                               \/ Begin(w, "addGoal", "commit", Row("goal", t, w, changes))
    BY DEF SetGoal
  <1>2. Row("goal", t, w, changes) \in DeskRow /\ Row("goal", t, w, changes) \in AnyRow
    BY DeskTyped, DeskRows
  <1> QED BY <1>1, <1>2, BeginStep

LEMMA SnapshotStep ==
  ASSUME FInv, NEW w \in Workers, Snapshot(w)
  PROVE  FInv'
  <1> DEFINE new == [desk[w] EXCEPT !.seen = Factors, !.at = "locking"]
  <1>1. /\ desk[w] \in DeskType /\ DeskSound(w) /\ Factors \subseteq AnyRow
        /\ desk[w].at = "update" /\ desk' = [desk EXCEPT ![w] = new]
        /\ UNCHANGED <<engine, environment, tables, active, server, writer, stops, changes>>
    BY DeskTyped DEF Snapshot, svars, Targeted
  <1>2. /\ new \in DeskType /\ new.op = desk[w].op /\ new.at = "locking"
        /\ new.target = desk[w].target /\ new.old = desk[w].old /\ new.off = desk[w].off
        /\ new.seen = Factors
    BY <1>1 DEF DeskType
  <1> HIDE DEF new
  <1>3. desk'[w] = new
    BY <1>1, FInvParts DEF Typed
  <1>4. DeskSound(w)'
    <2>1. Factors' = Factors
      BY <1>1 DEF Factors, Named
    <2>2. TurnsOn(w) /\ desk[w].old \subseteq Factors
      BY <1>1 DEF DeskSound
    <2> QED BY <1>1, <1>2, <1>3, <2>1, <2>2 DEF DeskSound, Inserts, TurnsOn
  <1>5. TablesSound' /\ changes' \in Nat
    BY <1>1, TablesKept, FInvParts, DeskTyped
  <1> QED BY <1>1, <1>2, <1>4, <1>5, DeskTyped, DeskStep

LEMMA UpdateAllStep ==
  ASSUME FInv, NEW w \in Workers, UpdateAll(w)
  PROVE  FInv'
  <1>1. /\ desk[w] \in DeskType /\ DeskSound(w) /\ Factors \subseteq AnyRow
        /\ UNCHANGED <<engine, environment, tables, active, server, stops, changes>>
        /\ TurnsOn(w) /\ desk[w].old \subseteq Factors
    BY DeskTyped DEF UpdateAll, DeskSound
  <1>2. \A t \in Servers : writer = t => writer' = t
    BY OpeningsAssumption DEF UpdateAll
  <1>3. \E rows :
           /\ desk[w].old \subseteq rows /\ rows \subseteq AnyRow
           /\ desk' = [desk EXCEPT ![w].seen = rows, ![w].off = rows, ![w].at = "commit"]
    <2>1. CASE engine = "postgresql"
      <3>1. /\ desk' = [desk EXCEPT ![w].off = desk[w].seen, ![w].at = "commit"]
            /\ desk[w].at = "locking"
        BY <2>1 DEF UpdateAll
      <3>2. desk[w].old \subseteq desk[w].seen /\ desk[w].seen \subseteq AnyRow
        BY <1>1, <3>1 DEF DeskSound, DeskType
      <3>3. [desk EXCEPT ![w].off = desk[w].seen, ![w].at = "commit"]
              = [desk EXCEPT ![w].seen = desk[w].seen, ![w].off = desk[w].seen,
                             ![w].at = "commit"]
        BY FInvParts DEF Typed, DeskType
      <3> QED BY <3>1, <3>2, <3>3
    <2>2. CASE engine # "postgresql"
      <3>1. desk' = [desk EXCEPT ![w].seen = Factors, ![w].off = Factors, ![w].at = "commit"]
        BY <2>2 DEF UpdateAll, Targeted
      <3> QED BY <1>1, <3>1
    <2> QED BY <2>1, <2>2
  <1>4. PICK rows : /\ desk[w].old \subseteq rows /\ rows \subseteq AnyRow
                    /\ desk' = [desk EXCEPT ![w].seen = rows, ![w].off = rows,
                                            ![w].at = "commit"]
    BY <1>3
  <1> DEFINE new == [desk[w] EXCEPT !.seen = rows, !.off = rows, !.at = "commit"]
  <1>5. /\ new \in DeskType /\ new.op = desk[w].op /\ new.at = "commit"
        /\ new.target = desk[w].target /\ new.old = desk[w].old /\ new.off = rows
    BY <1>1, <1>4 DEF DeskType
  <1>6. desk' = [desk EXCEPT ![w] = new]
    BY <1>4
  <1> HIDE DEF new
  <1>7. desk'[w] = new
    BY <1>6, FInvParts DEF Typed
  <1>8. DeskSound(w)'
    <2>1. Factors' = Factors
      BY <1>1 DEF Factors, Named
    <2>2. /\ Inserts(w)' = Inserts(w) /\ TurnsOn(w)' /\ tables' = tables
          /\ desk'[w].target = desk[w].target /\ desk'[w].op = desk[w].op
          /\ desk'[w].at = "commit" /\ desk'[w].off = rows /\ desk'[w].old = desk[w].old
      BY <1>1, <1>5, <1>7 DEF Inserts, TurnsOn
    <2>3. desk[w].old \subseteq rows /\ desk[w].old \subseteq Factors
      BY <1>1, <1>4
    <2> QED BY <1>1, <2>1, <2>2, <2>3 DEF DeskSound
  <1>9. TablesSound' /\ changes' \in Nat
    BY <1>1, TablesKept, FInvParts, DeskTyped
  <1> QED BY <1>1, <1>2, <1>5, <1>6, <1>8, <1>9, DeskTyped, DeskStep

LEMMA InsertTables ==
  ASSUME TablesSound, NEW row \in DeskRow, tables' = tables \cup {row}
  PROVE  TablesSound' /\ (ActivityRow \in tables' => ActivityRow \in tables)
  <1>1. row.kind \in {"grid", "goal"} /\ row.by[1] \notin Servers
    BY DeskRowFacts
  <1>2. /\ Kind(tables', "user") = Kind(tables, "user")
        /\ Kind(tables', "wallet") = Kind(tables, "wallet")
        /\ Kind(tables', "activity") = Kind(tables, "activity")
        /\ \A k \in DemoParts : Kind(tables', k) = Kind(tables, k)
        /\ Kind(tables, "grid") \subseteq Kind(tables', "grid")
        /\ Kind(tables, "goal") \subseteq Kind(tables', "goal")
        /\ \A r \in Kind(tables', "grid") : r.by[1] \in Servers => r \in Kind(tables, "grid")
        /\ \A r \in Kind(tables', "goal") : r.by[1] \in Servers => r \in Kind(tables, "goal")
    BY <1>1 DEF Kind, DemoParts
  <1>3. ActivityRow \in tables' => ActivityRow \in tables
    BY <1>1 DEF ActivityRow
  <1>4. WholeUnits(tables) /\ WholeDemo(tables) /\ NoDoubledFactor
        /\ \A r \in Kind(tables, "grid") : r.by[1] \in Servers => ActivityRow \in tables
    BY DEF TablesSound, SeedIsWhole, UnitsAreWhole, Named
  <1>5. WholeUnits(tables')
    BY <1>2, <1>4 DEF WholeUnits
  <1>6. WholeDemo(tables')
    <2>1. "transaction" \in DemoParts
      BY DEF DemoParts
    <2> QED BY <1>2, <1>4, <2>1 DEF WholeDemo
  <1>7. NoDoubledFactor'
    BY <1>2, <1>4 DEF NoDoubledFactor, Named
  <1>8. \A r \in Kind(tables', "grid") : r.by[1] \in Servers => ActivityRow \in tables'
    BY <1>2, <1>4
  <1> QED BY <1>3, <1>5, <1>6, <1>7, <1>8 DEF TablesSound, SeedIsWhole, UnitsAreWhole, Named

(* A request's session at its end: nothing is left of it.                  *)
LEMMA DeskCleared ==
  ASSUME FInv, NEW w \in Workers, NEW b \in BOOLEAN,
         desk' = [desk EXCEPT ![w] = [NoDesk EXCEPT !.done = b]]
  PROVE  [NoDesk EXCEPT !.done = b] \in DeskType /\ DeskSound(w)'
  <1>1. desk'[w] = [NoDesk EXCEPT !.done = b]
    BY FInvParts DEF Typed
  <1> QED BY <1>1 DEF NoDesk, DeskType, DeskSound, Inserts, TurnsOn

LEMMA CommitChangeStep ==
  ASSUME FInv, NEW w \in Workers, CommitChange(w)
  PROVE  FInv'
  <1>1. /\ desk[w] \in DeskType /\ DeskSound(w)
        /\ UNCHANGED <<engine, environment, server, stops, changes>>
        /\ tables' = IF Inserts(w) THEN tables \cup {desk[w].target} ELSE tables
        /\ active' = (active \ desk[w].off) \cup TurnedOn(w)
        /\ desk' = [desk EXCEPT ![w] = [NoDesk EXCEPT !.done = TRUE]]
        /\ Release(w)
    BY DeskTyped DEF CommitChange
  <1>2. [NoDesk EXCEPT !.done = TRUE] \in DeskType /\ DeskSound(w)'
    BY <1>1, DeskCleared
  <1>3. \A t \in Servers : writer = t => writer' = t
    BY <1>1, Released, FactorsAssumption
  <1>4. /\ TablesSound' /\ (ActivityRow \in tables' => ActivityRow \in tables)
        /\ tables \subseteq tables' /\ tables' \subseteq AnyRow
    <2>1. CASE Inserts(w)
      <3>1. desk[w].target \in DeskRow /\ tables' = tables \cup {desk[w].target}
        BY <1>1, <2>1 DEF DeskSound
      <3> QED BY <3>1, InsertTables, DeskRowFacts, DeskTyped, FInvParts
    <2>2. CASE ~ Inserts(w)
      BY <1>1, <2>2, TablesKept, DeskTyped, FInvParts
    <2> QED BY <2>1, <2>2
  <1>5. active' \subseteq tables'
    <2>1. TurnedOn(w) \subseteq tables'
      BY <1>1 DEF TurnedOn, TurnsOn, Inserts, DeskSound
    <2> QED BY <1>1, <1>4, <2>1, DeskTyped
  <1>6. changes' \in Nat
    BY <1>1, DeskTyped
  <1> QED BY <1>1, <1>2, <1>3, <1>4, <1>5, <1>6, DeskStep

LEMMA AbandonStep ==
  ASSUME FInv, NEW w \in Workers, Abandon(w)
  PROVE  FInv'
  <1>1. desk' = [desk EXCEPT ![w] = NoDesk] /\ desk'[w] = NoDesk
    BY FInvParts DEF Abandon, Typed
  <1>2. /\ UNCHANGED <<engine, environment, tables, active, server, stops, changes>>
        /\ Release(w)
    BY DEF Abandon
  <1>3. NoDesk \in DeskType /\ DeskSound(w)'
    BY <1>1 DEF NoDesk, DeskType, DeskSound, Inserts, TurnsOn
  <1>4. \A t \in Servers : writer = t => writer' = t
    BY <1>2, Released, FactorsAssumption
  <1>5. TablesSound' /\ changes' \in Nat
    BY <1>2, TablesKept, FInvParts, DeskTyped
  <1> QED BY <1>1, <1>2, <1>3, <1>4, <1>5, DeskTyped, DeskStep

LEMMA FStutter ==
  ASSUME FInv, UNCHANGED fvars
  PROVE  FInv'
  <1>1. UNCHANGED <<engine, environment, tables, active, server, writer, stops, desk, changes>>
    BY DEF fvars, svars
  <1>2. OneSender' /\ \A t \in Servers : SeederSound(t)'
    BY <1>1, SeedersKept
  <1>3. TablesSound' /\ \A w \in Workers : DeskSound(w)'
    BY <1>1, TablesKept, DesksKept, FInvParts
  <1>4. Typed'
    BY <1>1, FInvParts DEF Typed
  <1> QED BY <1>2, <1>3, <1>4 DEF FInv

-----------------------------------------------------------------------------
(* The theorems.                                                           *)

LEMMA FInit == FactorsInit => FInv
  <1> SUFFICES ASSUME FactorsInit PROVE FInv
    OBVIOUS
  <1>1. /\ engine \in Engines /\ tables \in Openings
        /\ active = {r \in tables : r.kind = "grid" /\ r.name = Grids[1]}
        /\ server = [s \in Servers |-> NoSeeder]
        /\ desk = [w \in Workers |-> NoDesk] /\ changes = 0
    BY DEF FactorsInit, StartupInit
  <1>2. Typed
    <2>1. tables \subseteq AnyRow /\ active \subseteq tables
      BY <1>1 DEF AnyRow
    <2>2. NoSeeder \in SeederType
      BY DEF NoSeeder, SeederType
    <2>3. NoDesk \in DeskType
      BY DEF NoDesk, DeskType
    <2> QED BY <1>1, <2>1, <2>2, <2>3, EnginesAssumption DEF Typed
  <1>3. TablesSound
    BY <1>1, OpeningsAssumption
       DEF TablesSound, SeedIsWhole, UnitsAreWhole, NoDoubledFactor, Named, Kind
  <1>4. OneSender
    BY <1>1 DEF OneSender, NoSeeder
  <1>5. ASSUME NEW s \in Servers PROVE SeederSound(s)
    <2>1. /\ server[s].step = 0 /\ server[s].part = "look" /\ server[s].sent = {}
          /\ server[s].added = {}
      BY <1>1 DEF NoSeeder
    <2> QED BY <2>1, NotDown DEF SeederSound, Seeding, Held
  <1>6. ASSUME NEW w \in Workers PROVE DeskSound(w)
    BY <1>1 DEF DeskSound, NoDesk, Inserts, TurnsOn
  <1> QED BY <1>2, <1>3, <1>4, <1>5, <1>6 DEF FInv

LEMMA FStep ==
  ASSUME FInv, [FactorsNext]_fvars
  PROVE  FInv'
  <1>1. CASE StartupNext /\ UNCHANGED <<desk, changes>>
    BY <1>1, SeedStep DEF StartupNext
  <1>2. ASSUME NEW w \in Workers, UnknownFactor(w)
        PROVE  FInv'
    BY <1>2, FStutter DEF UnknownFactor
  <1>3. ASSUME NEW w \in Workers, Activate(w) \/ Add(w) \/ SetGoal(w)
        PROVE  FInv'
    BY <1>3, ActivateStep, AddStep, SetGoalStep
  <1>4. ASSUME NEW w \in Workers, Handle(w) \/ Abandon(w)
        PROVE  FInv'
    BY <1>4, SnapshotStep, UpdateAllStep, CommitChangeStep, AbandonStep DEF Handle
  <1> QED BY <1>1, <1>2, <1>3, <1>4, FStutter DEF FactorsNext

LEMMA FInvariant == FactorsSpec => []FInv
  <1>1. FInv /\ [FactorsNext]_fvars => FInv'
    BY FStep
  <1> QED BY <1>1, FInit, PTL DEF FactorsSpec

(* However many servers seed one database, beside each other and beside    *)
(* requests, and wherever they stop or fail, no grid factor is there twice *)
(* and every unit of rows is whole (seed.py:26-532).                       *)
THEOREM SeedingIsWhole == FactorsSpec => []SeedIsWhole
  <1>1. FInv => SeedIsWhole
    BY DEF FInv, TablesSound
  <1> QED BY <1>1, FInvariant, PTL

(* Once some factor is active, one always is (sustainability.py:104-105).  *)
THEOREM FactorStaysActive == FactorsSpec => SomeFactorActive
  <1>1. ASSUME FInv, FInv', [FactorsNext]_fvars
        PROVE  active # {} => active' # {} /\ active' \subseteq tables'
    <2>1. active' \subseteq tables'
      BY <1>1 DEF FInv, Typed
    <2>2. ASSUME NEW s \in Servers, Start(s) \/ Seed(s) \/ Refused(s) \/ Broken(s) \/ Stop(s)
          PROVE  active \subseteq active'
      BY <2>2 DEF Start, Seed, Look, End, LookUser, InsertUser, SyncUser, LookAccounts,
                  Refused, Broken, Stop, GiveUp, Commit, Flush
    <2>3. ASSUME NEW w \in Workers, CommitChange(w), active # {}
          PROVE  active' # {}
      <3>1. desk[w].off # {} => TurnsOn(w)
        BY <1>1 DEF FInv, DeskSound
      <3>2. active' = (active \ desk[w].off) \cup TurnedOn(w)
        BY <2>3 DEF CommitChange
      <3>3. TurnsOn(w) => TurnedOn(w) # {}
        BY DEF TurnedOn
      <3> QED BY <2>3, <3>1, <3>2, <3>3
    <2>4. ASSUME NEW w \in Workers,
                 UnknownFactor(w) \/ Activate(w) \/ Add(w) \/ SetGoal(w) \/ Snapshot(w)
                 \/ UpdateAll(w) \/ Abandon(w)
          PROVE  active' = active
      BY <2>4 DEF UnknownFactor, Activate, Add, SetGoal, Snapshot, UpdateAll, Abandon, Begin,
                  svars, fvars
    <2>5. UNCHANGED fvars => active' = active
      BY DEF fvars, svars
    <2> QED BY <1>1, <2>1, <2>2, <2>3, <2>4, <2>5 DEF FactorsNext, StartupNext, Handle
  <1> QED BY <1>1, FInvariant, PTL DEF FactorsSpec, SomeFactorActive

(* A factor made active replaces all that were there when its request      *)
(* began, whatever ran beside it (sustainability.py:477-478, 505-507).     *)
THEOREM ActivationReplacesOthers == FactorsSpec => ActivationsReplace
  <1>1. ASSUME FInv, [FactorsNext]_fvars, NEW w \in Workers,
               TurnsOn(w), desk'[w].done, ~ desk[w].done
        PROVE  active' \cap desk[w].old \subseteq {desk[w].target}
    <2>1. desk \in [Workers -> DeskType] /\ DeskSound(w)
      BY <1>1 DEF FInv, Typed
    <2>2. CASE CommitChange(w)
      <3>1. desk[w].old \subseteq desk[w].off
        BY <1>1, <2>1, <2>2 DEF CommitChange, DeskSound
      <3>2. active' = (active \ desk[w].off) \cup TurnedOn(w)
        BY <2>2 DEF CommitChange
      <3> QED BY <1>1, <3>1, <3>2 DEF TurnedOn
    <2>3. ASSUME NEW v \in Workers, CommitChange(v), v # w
          PROVE  FALSE
      BY <1>1, <2>1, <2>3 DEF CommitChange
    <2>4. ASSUME NEW v \in Workers,
                 UnknownFactor(v) \/ Activate(v) \/ Add(v) \/ SetGoal(v) \/ Snapshot(v)
                 \/ UpdateAll(v) \/ Abandon(v)
          PROVE  FALSE
      <3>1. CASE UnknownFactor(v)
        BY <1>1, <3>1 DEF UnknownFactor, fvars
      <3>2. CASE Activate(v) \/ Add(v) \/ SetGoal(v)
        <4>1. \E op, stage, target : Begin(v, op, stage, target)
          BY <3>2, Zenon DEF Activate, Add, SetGoal
        <4>2. ~ desk'[w].done \/ desk'[w] = desk[w]
          BY <2>1, <4>1 DEF Begin, NoDesk
        <4> QED BY <1>1, <4>2
      <3>3. CASE Snapshot(v)
        BY <1>1, <2>1, <3>3 DEF Snapshot, DeskType
      <3>4. CASE UpdateAll(v)
        BY <1>1, <2>1, <3>4 DEF UpdateAll, DeskType
      <3>5. CASE Abandon(v)
        BY <1>1, <2>1, <3>5 DEF Abandon, NoDesk
      <3> QED BY <2>4, <3>1, <3>2, <3>3, <3>4, <3>5
    <2>5. ~ UNCHANGED fvars /\ ~ UNCHANGED <<desk, changes>>
      BY <1>1 DEF fvars
    <2> QED BY <1>1, <2>2, <2>3, <2>4, <2>5 DEF FactorsNext, Handle
  <1>2. FInv /\ [FactorsNext]_fvars =>
           \A w \in Workers : TurnsOn(w) /\ desk'[w].done /\ ~ desk[w].done =>
              active' \cap desk[w].old \subseteq {desk[w].target}
    BY <1>1
  <1> QED BY <1>2, FInvariant, PTL DEF FactorsSpec, ActivationsReplace

-----------------------------------------------------------------------------
(* The energy figures and baselines.                                       *)

Sources == {"down", "zero", "up"}
Modes   == {"none", "OBSERVED", "SIMULATED"}
Ops     == {"none", "realtime", "accuracy", "log", "lock", "current", "validate", "report"}
Stages  == {"idle", "rates", "mode", "probe", "figures", "logMode", "energy", "lock",
            "look", "default", "run", "report"}

Origins == {"none", "model", "probe", "prometheus", "fixed"}

AnswerType ==
  [mode: Modes, power: Origins, idle: Origins, shares: Origins, steady: BOOLEAN]

TaskType ==
  [op: Ops, at: Stages, mode: Modes, power: BOOLEAN, probe: Sources,
   begun: Nat, base: profiles \cup {NoProfile}, known: SUBSET profiles,
   steady: BOOLEAN]

EnergyTyped ==
  /\ exporter \in Sources /\ clock \in Nat
  /\ task \in [Workers -> TaskType]
  /\ shown \in [Workers -> AnswerType]
  /\ IsFiniteSet(profiles)

(* What a telemetry request has found is still so, unless the sources have *)
(* changed under it; a request about to make the default saw no profile    *)
(* when it began; a validation run works with a baseline as new as all it  *)
(* could know.                                                             *)
TaskSound(w) ==
  LET t == task[w] IN
  /\ t.at = "mode" /\ t.steady /\ t.power => prom = "rates"
  /\ t.at \in {"probe", "figures"} /\ t.steady /\ t.power => t.mode = "OBSERVED"
  /\ t.at = "default" => t.known = {}
  /\ t.at = "run" => t.base \in profiles /\ \A q \in t.known : q.stamp <= t.base.stamp

(* The label of the last answer of a worker.                               *)
LabelSound(w) == Honest(shown[w])

EInv ==
  /\ EnergyTyped
  /\ \A w \in Workers : TaskSound(w) /\ LabelSound(w)
  /\ RunsCiteTheirBaseline
  /\ DefaultComesFirst

LEMMA RestTyped == Rest \in TaskType
  BY DEF Rest, TaskType, Sources, Modes, Ops, Stages

LEMMA InitEInv == EnergyInit => EInv
  <1> SUFFICES ASSUME EnergyInit PROVE EInv
    OBVIOUS
  <1>1. EnergyTyped
    BY RestTyped, FS_EmptySet DEF EnergyInit, EnergyTyped, Nothing, Sources, AnswerType, Modes,
          Origins
  <1>2. ASSUME NEW w \in Workers PROVE TaskSound(w) /\ LabelSound(w)
    BY DEF EnergyInit, TaskSound, LabelSound, Honest, Rest, Nothing
  <1>3. RunsCiteTheirBaseline /\ DefaultComesFirst
    BY DEF EnergyInit, RunsCiteTheirBaseline, DefaultComesFirst
  <1> QED BY <1>1, <1>2, <1>3 DEF EInv

(* A step of one worker, in surroundings that stand still while profiles   *)
(* are only added.                                                         *)
LEMMA Moves ==
  ASSUME NEW w \in Workers, EInv, UNCHANGED <<sources, clock>>,
         profiles \subseteq profiles', IsFiniteSet(profiles'),
         NEW t \in TaskType', task' = [task EXCEPT ![w] = t],
         NEW a \in AnswerType, shown' = [shown EXCEPT ![w] = a],
         TaskSound(w)', LabelSound(w)', RunsCiteTheirBaseline', DefaultComesFirst'
  PROVE  EInv'
  <1>1. \A v \in Workers : task[v] \in TaskType'
    <2>1. \A v \in Workers : task[v] \in TaskType
      BY DEF EInv, EnergyTyped
    <2> QED BY <2>1 DEF TaskType
  <1>2. EnergyTyped'
    <2>1. task' \in [Workers -> TaskType']
      BY <1>1 DEF EInv, EnergyTyped
    <2>2. shown' \in [Workers -> AnswerType]
      BY DEF EInv, EnergyTyped, AnswerType
    <2>3. exporter' \in Sources /\ clock' \in Nat
      BY DEF EInv, EnergyTyped, sources
    <2> QED BY <2>1, <2>2, <2>3 DEF EnergyTyped, AnswerType
  <1>3. ASSUME NEW v \in Workers, v # w PROVE TaskSound(v)' /\ LabelSound(v)'
    <2>1. task'[v] = task[v] /\ shown'[v] = shown[v] /\ prom' = prom
      BY <1>3 DEF EInv, EnergyTyped, sources
    <2>2. TaskSound(v) /\ LabelSound(v)
      BY DEF EInv
    <2> QED BY <2>1, <2>2 DEF TaskSound, LabelSound
  <1> QED BY <1>2, <1>3 DEF EInv

(* A step that commits nothing.                                            *)
LEMMA Quiet ==
  ASSUME NEW w \in Workers, EInv, UNCHANGED <<sources, clock, profiles, runs>>,
         NEW t \in TaskType, task' = [task EXCEPT ![w] = t],
         NEW a \in AnswerType, shown' = [shown EXCEPT ![w] = a],
         TaskSound(w)', LabelSound(w)'
  PROVE  EInv'
  <1>1. t \in TaskType' /\ IsFiniteSet(profiles')
    BY DEF TaskType, EInv, EnergyTyped
  <1>2. RunsCiteTheirBaseline' /\ DefaultComesFirst'
    BY DEF EInv, RunsCiteTheirBaseline, DefaultComesFirst
  <1> QED BY <1>1, <1>2, Moves

LEMMA SameAnswer ==
  ASSUME NEW w \in Workers, EInv, UNCHANGED shown
  PROVE  /\ shown[w] \in AnswerType /\ shown' = [shown EXCEPT ![w] = shown[w]]
         /\ LabelSound(w)'
  BY DEF EInv, EnergyTyped, AnswerType, LabelSound

(* The task of a worker, whose stage is all that matters of it below.      *)
LEMMA TaskFields ==
  ASSUME NEW w \in Workers, EInv
  PROVE  /\ task[w] \in TaskType /\ task \in [Workers -> TaskType]
         /\ task[w].mode \in Modes /\ task[w].power \in BOOLEAN
         /\ task[w].probe \in Sources /\ task[w].steady \in BOOLEAN
         /\ task[w].begun \in Nat /\ task[w].known \subseteq profiles
         /\ task[w].base \in profiles \cup {NoProfile}
         /\ TaskSound(w)
  BY DEF EInv, EnergyTyped, TaskType

LEMMA RestEInv ==
  ASSUME NEW w \in Workers, EInv, UNCHANGED <<sources, clock, profiles, runs, shown>>,
         task' = [task EXCEPT ![w] = Rest]
  PROVE  EInv'
  <1>1. TaskSound(w)'
    <2>1. task'[w] = Rest
      BY TaskFields
    <2> QED BY <2>1 DEF TaskSound, Rest
  <1> QED BY <1>1, RestTyped, SameAnswer, Quiet

LEMMA BeginEInv ==
  ASSUME NEW w \in Workers, EInv, NEW op \in Ops,
         NEW stage \in {"rates", "logMode", "lock", "look", "report"}, BeginTask(w, op, stage)
  PROVE  EInv'
  <1> DEFINE t == [Rest EXCEPT !.op = op, !.at = stage, !.begun = clock, !.known = profiles]
  <1>1. t \in TaskType /\ t.at = stage
    <2>1. clock \in Nat
      BY DEF EInv, EnergyTyped
    <2> QED BY <2>1 DEF Rest, TaskType, Sources, Modes, Stages
  <1>2. /\ task' = [task EXCEPT ![w] = t] /\ shown' = [shown EXCEPT ![w] = Nothing]
        /\ UNCHANGED <<sources, clock, profiles, runs>>
    BY DEF BeginTask, books
  <1> HIDE DEF t
  <1>3. task'[w] = t /\ shown'[w] = Nothing
    BY <1>2 DEF EInv, EnergyTyped
  <1>4. TaskSound(w)' /\ LabelSound(w)' /\ Nothing \in AnswerType
    BY <1>1, <1>3 DEF TaskSound, LabelSound, Honest, Nothing, AnswerType, Modes, Origins
  <1> QED BY <1>1, <1>2, <1>4, Quiet

LEMMA RatesEInv ==
  ASSUME NEW w \in Workers, EInv, Rates(w)
  PROVE  EInv'
  <1> DEFINE t == [task[w] EXCEPT !.power = (prom = "rates"), !.at = "mode"]
  <1>1. t \in TaskType /\ t.at = "mode" /\ (t.power => prom = "rates")
    BY TaskFields DEF TaskType, Modes, Stages
  <1>2. /\ task' = [task EXCEPT ![w] = t] /\ prom' = prom
        /\ UNCHANGED <<sources, clock, profiles, runs, shown>>
    BY TaskFields DEF Rates, books, sources
  <1> HIDE DEF t
  <1>3. task'[w] = t
    BY <1>2, TaskFields
  <1>4. TaskSound(w)'
    BY <1>1, <1>2, <1>3 DEF TaskSound
  <1> QED BY <1>1, <1>2, <1>4, SameAnswer, Quiet

LEMMA ModeEInv ==
  ASSUME NEW w \in Workers, EInv, Mode(w)
  PROVE  EInv'
  <1> DEFINE t == [task[w] EXCEPT !.mode = IF Available THEN "OBSERVED" ELSE "SIMULATED",
                                  !.at = "probe"]
  <1>1. /\ t \in TaskType /\ t.at = "probe"
        /\ t.mode = IF Available THEN "OBSERVED" ELSE "SIMULATED"
        /\ t.steady = task[w].steady /\ t.power = task[w].power
    BY TaskFields DEF TaskType, Modes, Stages
  <1>2. /\ task' = [task EXCEPT ![w] = t] /\ prom' = prom /\ task[w].at = "mode"
        /\ UNCHANGED <<sources, clock, profiles, runs, shown>>
    BY TaskFields DEF Mode, CheckMode, books, sources
  <1> HIDE DEF t
  <1>3. task'[w] = t
    BY <1>2, TaskFields
  <1>4. t.steady /\ t.power => t.mode = "OBSERVED"
    BY <1>1, <1>2, TaskFields DEF TaskSound, Available
  <1>5. TaskSound(w)'
    BY <1>1, <1>3, <1>4 DEF TaskSound
  <1> QED BY <1>1, <1>2, <1>5, SameAnswer, Quiet

LEMMA LogModeEInv ==
  ASSUME NEW w \in Workers, EInv, LogMode(w)
  PROVE  EInv'
  <1> DEFINE t == [task[w] EXCEPT !.mode = IF Available THEN "OBSERVED" ELSE "SIMULATED",
                                  !.at = "energy"]
  <1>1. t \in TaskType /\ t.at = "energy"
    BY TaskFields DEF TaskType, Modes, Stages
  <1>2. /\ task' = [task EXCEPT ![w] = t]
        /\ UNCHANGED <<sources, clock, profiles, runs, shown>>
    BY TaskFields DEF LogMode, CheckMode, books
  <1> HIDE DEF t
  <1>3. task'[w] = t
    BY <1>2, TaskFields
  <1>4. TaskSound(w)'
    BY <1>1, <1>3 DEF TaskSound
  <1> QED BY <1>1, <1>2, <1>4, SameAnswer, Quiet

LEMMA ProbeEInv ==
  ASSUME NEW w \in Workers, EInv, Probe(w)
  PROVE  EInv'
  <1> DEFINE t == [task[w] EXCEPT !.probe = exporter, !.at = "figures"]
  <1>1. /\ t \in TaskType /\ t.at = "figures" /\ t.mode = task[w].mode
        /\ t.steady = task[w].steady /\ t.power = task[w].power
    BY TaskFields DEF TaskType, Stages, EInv, EnergyTyped
  <1>2. /\ task' = [task EXCEPT ![w] = t] /\ task[w].at = "probe"
        /\ UNCHANGED <<sources, clock, profiles, runs, shown>>
    BY TaskFields DEF Probe, books
  <1> HIDE DEF t
  <1>3. task'[w] = t
    BY <1>2, TaskFields
  <1>4. TaskSound(w)'
    BY <1>1, <1>2, <1>3, TaskFields DEF TaskSound
  <1> QED BY <1>1, <1>2, <1>4, SameAnswer, Quiet

(* What the figures are labelled with.                                     *)
LEMMA LabelHonest ==
  ASSUME NEW w \in Workers, EInv, task[w].at = "figures"
  PROVE  Labelled(task[w]) \in AnswerType /\ Honest(Labelled(task[w]))
  <1> DEFINE t == task[w]
             a == Labelled(t)
  <1> SUFFICES a \in AnswerType /\ Honest(a)
    OBVIOUS
  <1>0. /\ t.mode \in Modes /\ t.power \in BOOLEAN /\ t.steady \in BOOLEAN
        /\ t.steady /\ t.power => t.mode = "OBSERVED"
    BY TaskFields DEF TaskSound
  <1> HIDE DEF t, a
  <1>1. CASE t.probe = "up"
    <2>1. a = Answer("OBSERVED", "probe", "probe", "fixed", t.steady)
      BY <1>1 DEF Labelled, a
    <2> QED BY <1>0, <2>1 DEF Answer, AnswerType, Modes, Origins, Honest
  <1>2. CASE t.probe # "up" /\ ~ t.power
    <2>1. a = Answer("SIMULATED", "model", "model", "fixed", t.steady)
      BY <1>2 DEF Labelled, a
    <2> QED BY <1>0, <2>1 DEF Answer, AnswerType, Modes, Origins, Honest
  <1>3. CASE t.probe # "up" /\ t.power
    <2>1. a = Answer(t.mode, "prometheus", "fixed", "prometheus", t.steady)
      BY <1>3 DEF Labelled, a
    <2> QED BY <1>0, <1>3, <2>1 DEF Answer, AnswerType, Modes, Origins, Honest
  <1> QED BY <1>0, <1>1, <1>2, <1>3

LEMMA FiguresEInv ==
  ASSUME NEW w \in Workers, EInv, Figures(w)
  PROVE  EInv'
  <1> DEFINE a == Labelled(task[w])
  <1>1. /\ a \in AnswerType /\ Honest(a)
        /\ Nothing \in AnswerType /\ Honest(Nothing)
    BY LabelHonest DEF Figures, Nothing, AnswerType, Modes, Origins, Honest
  <1>2. PICK b \in {Nothing, a} : shown' = [shown EXCEPT ![w] = b]
    BY DEF Figures
  <1>3. UNCHANGED <<sources, clock, profiles, runs>>
    BY DEF Figures, books
  <1> DEFINE looks == [task[w] EXCEPT !.at = "look"]
  <1>4. looks \in TaskType /\ looks.at = "look" /\ Rest \in TaskType /\ Rest.at = "idle"
    BY TaskFields, RestTyped DEF TaskType, Rest, Stages
  <1>5. PICK t \in {Rest, looks} : task' = [task EXCEPT ![w] = t]
    <2>1. Goto(w, "look") \/ task' = [task EXCEPT ![w] = Rest]
      BY DEF Figures
    <2>2. Goto(w, "look") => task' = [task EXCEPT ![w] = looks]
      BY TaskFields DEF Goto
    <2> QED BY <2>1, <2>2
  <1> HIDE DEF a, looks
  <1>6. task'[w] = t /\ shown'[w] = b
    BY <1>2, <1>5 DEF EInv, EnergyTyped
  <1>7. t.at \in {"look", "idle"}
    BY <1>4, <1>5
  <1>8. TaskSound(w)'
    BY <1>6, <1>7 DEF TaskSound
  <1>9. LabelSound(w)'
    BY <1>1, <1>2, <1>6 DEF LabelSound
  <1>10. t \in TaskType /\ b \in AnswerType
    BY <1>1, <1>2, <1>4, <1>5
  <1> QED BY <1>2, <1>3, <1>5, <1>8, <1>9, <1>10, Quiet

-----------------------------------------------------------------------------
(* The surroundings: what a request found before a change is not relied on *)
(* after it.                                                               *)

LEMMA ChangeEInv ==
  ASSUME EInv, Change
  PROVE  EInv'
  <1>1. /\ task' = [w \in Workers |-> IF task[w] = Rest THEN Rest
                                       ELSE [task[w] EXCEPT !.steady = FALSE]]
        /\ UNCHANGED <<shown, clock, profiles, runs>>
        /\ exporter' \in Sources
    BY DEF Change, books, EInv, EnergyTyped, Sources
  <1>2. ASSUME NEW w \in Workers
        PROVE  task'[w] \in TaskType /\ TaskSound(w)' /\ LabelSound(w)'
    <2>1. LabelSound(w)'
      BY <1>1 DEF EInv, LabelSound
    <2>2. CASE task[w] = Rest
      <3>1. task'[w] = Rest
        BY <1>1, <2>2
      <3> QED BY <2>1, <3>1, RestTyped DEF TaskSound, Rest
    <2>3. CASE task[w] # Rest
      <3> DEFINE t == [task[w] EXCEPT !.steady = FALSE]
      <3>1. /\ t \in TaskType /\ ~ t.steady /\ t.at = task[w].at
            /\ t.known = task[w].known /\ t.base = task[w].base
        BY TaskFields DEF TaskType
      <3>2. task'[w] = t
        BY <1>1, <2>3
      <3> HIDE DEF t
      <3>3. TaskSound(w)'
        BY <1>1, <3>1, <3>2, TaskFields DEF TaskSound
      <3> QED BY <2>1, <3>1, <3>2, <3>3
    <2> QED BY <2>2, <2>3
  <1>3. EnergyTyped'
    <2>1. task' \in [Workers -> TaskType]
      BY <1>1, <1>2
    <2>2. TaskType' = TaskType
      BY <1>1 DEF TaskType
    <2> QED BY <1>1, <2>1, <2>2 DEF EInv, EnergyTyped
  <1>4. RunsCiteTheirBaseline' /\ DefaultComesFirst'
    BY <1>1 DEF EInv, RunsCiteTheirBaseline, DefaultComesFirst
  <1> QED BY <1>2, <1>3, <1>4 DEF EInv

LEMMA RestingEInv ==
  ASSUME EInv, UNCHANGED <<sources, task, shown, profiles, runs>>, clock' \in Nat
  PROVE  EInv'
  <1>1. EnergyTyped'
    BY DEF EInv, EnergyTyped, TaskType, sources
  <1>2. \A w \in Workers : TaskSound(w)' /\ LabelSound(w)'
    BY DEF EInv, TaskSound, LabelSound, sources
  <1>3. RunsCiteTheirBaseline' /\ DefaultComesFirst'
    BY DEF EInv, RunsCiteTheirBaseline, DefaultComesFirst
  <1> QED BY <1>1, <1>2, <1>3 DEF EInv

-----------------------------------------------------------------------------
(* The baseline and the validation runs.                                   *)

(* A new profile that is no second default and saw what it must have seen. *)
LEMMA InsertEInv ==
  ASSUME NEW w \in Workers, EInv, NEW id,
         profiles' = profiles \cup {Profile(w, id)},
         id = Default => task[w].known = {} /\ \A p \in profiles : p.id # Default,
         UNCHANGED <<sources, clock, runs, shown>>,
         NEW t \in TaskType', task' = [task EXCEPT ![w] = t], TaskSound(w)'
  PROVE  EInv'
  <1> DEFINE new == Profile(w, id)
  <1>1. new.id = id /\ new.known = task[w].known
    BY DEF Profile
  <1>2. IsFiniteSet(profiles')
    BY FS_AddElement DEF EInv, EnergyTyped
  <1> HIDE DEF new
  <1>3. DefaultComesFirst'
    <2> SUFFICES ASSUME NEW p \in profiles', p.id = Default
                 PROVE  p.known = {} /\ \A q \in profiles' : q.id = Default => q = p
      BY DEF DefaultComesFirst
    <2>1. profiles' = profiles \cup {new}
      BY DEF new
    <2>2. CASE id = Default
      BY <1>1, <2>1, <2>2
    <2>3. CASE id # Default
      BY <1>1, <2>1, <2>3 DEF EInv, DefaultComesFirst
    <2> QED BY <2>2, <2>3
  <1>4. RunsCiteTheirBaseline'
    BY DEF EInv, RunsCiteTheirBaseline
  <1> QED BY <1>2, <1>3, <1>4, SameAnswer, Moves

LEMMA LockEInv ==
  ASSUME NEW w \in Workers, EInv, Lock(w)
  PROVE  EInv'
  <1> DEFINE id == Cardinality(profiles) + 1
  <1>1. id # Default
    BY FS_CardinalityType DEF EInv, EnergyTyped, Default
  <1>2. /\ profiles' = profiles \cup {Profile(w, id)} /\ task' = [task EXCEPT ![w] = Rest]
        /\ UNCHANGED <<sources, clock, runs, shown>>
    BY DEF Lock
  <1>3. task'[w] = Rest
    BY <1>2, TaskFields
  <1>4. Rest \in TaskType' /\ TaskSound(w)'
    BY <1>3, RestTyped DEF TaskType, TaskSound, Rest
  <1> HIDE DEF id
  <1> QED BY <1>1, <1>2, <1>4, InsertEInv

(* What With makes of a task.                                              *)
LEMMA WithTyped ==
  ASSUME NEW w \in Workers, EInv, NEW p \in profiles', profiles \subseteq profiles',
         \A q \in task[w].known : q.stamp <= p.stamp, With(w, p)
  PROVE  \E t \in TaskType' : task' = [task EXCEPT ![w] = t] /\ TaskSound(w)'
  <1> DEFINE running == [task[w] EXCEPT !.base = p, !.at = "run"]
  <1>1. /\ running \in TaskType' /\ running.at = "run" /\ running.base = p
        /\ running.known = task[w].known
    BY TaskFields DEF TaskType, Stages
  <1>2. Rest \in TaskType' /\ Rest.at = "idle"
    BY RestTyped DEF TaskType, Rest
  <1>3. CASE task[w].op = "validate"
    <2>1. task' = [task EXCEPT ![w] = running]
      BY <1>3 DEF With
    <2> HIDE DEF running
    <2>2. task'[w] = running
      BY <2>1, TaskFields
    <2>3. TaskSound(w)'
      BY <1>1, <2>2 DEF TaskSound
    <2> QED BY <1>1, <2>1, <2>3
  <1>4. CASE task[w].op # "validate"
    <2>1. task' = [task EXCEPT ![w] = Rest]
      BY <1>4 DEF With
    <2>2. task'[w] = Rest
      BY <2>1, TaskFields
    <2>3. TaskSound(w)'
      BY <1>2, <2>2 DEF TaskSound
    <2> QED BY <1>2, <2>1, <2>3
  <1> QED BY <1>3, <1>4

LEMMA LookBaselineEInv ==
  ASSUME NEW w \in Workers, EInv, LookBaseline(w)
  PROVE  EInv'
  <1>1. UNCHANGED <<sources, clock, profiles, runs, shown>> /\ TaskType' = TaskType
    BY DEF LookBaseline, books, TaskType
  <1>2. CASE NoneLocked /\ Goto(w, "default")
    <2> DEFINE t == [task[w] EXCEPT !.at = "default"]
    <2>1. t \in TaskType /\ t.at = "default" /\ t.known = task[w].known
      BY TaskFields DEF TaskType, Stages
    <2>2. task' = [task EXCEPT ![w] = t]
      BY <1>2, TaskFields DEF Goto
    <2> HIDE DEF t
    <2>3. task'[w] = t
      BY <2>2, TaskFields
    <2>4. TaskSound(w)'
      BY <1>2, <2>1, <2>3, TaskFields DEF TaskSound, NoneLocked
    <2> QED BY <1>1, <2>1, <2>2, <2>4, SameAnswer, Quiet
  <1>3. ASSUME NEW p \in Newest, With(w, p) PROVE EInv'
    <2>1. p \in profiles' /\ \A q \in task[w].known : q.stamp <= p.stamp
      BY <1>1, TaskFields DEF Newest
    <2>2. PICK t \in TaskType' : task' = [task EXCEPT ![w] = t] /\ TaskSound(w)'
      BY <1>1, <1>3, <2>1, WithTyped
    <2> QED BY <1>1, <2>2, SameAnswer, Quiet
  <1> QED BY <1>2, <1>3 DEF LookBaseline

LEMMA InsertDefaultEInv ==
  ASSUME NEW w \in Workers, EInv, InsertDefault(w)
  PROVE  EInv'
  <1>1. UNCHANGED <<sources, clock, runs, shown>> /\ task[w].known = {}
    BY TaskFields DEF InsertDefault, TaskSound
  <1>2. CASE \E p \in profiles : p.id = Default
    BY <1>1, <1>2, RestEInv DEF InsertDefault
  <1>3. CASE ~ \E p \in profiles : p.id = Default
    <2> DEFINE new == Profile(w, Default)
    <2>1. profiles' = profiles \cup {new} /\ With(w, new)
      BY <1>3 DEF InsertDefault
    <2>2. PICK t \in TaskType' : task' = [task EXCEPT ![w] = t] /\ TaskSound(w)'
      <3> HIDE DEF new
      <3> QED BY <1>1, <2>1, WithTyped
    <2> QED BY <1>1, <1>3, <2>1, <2>2, InsertEInv
  <1> QED BY <1>2, <1>3

LEMMA SaveRunEInv ==
  ASSUME NEW w \in Workers, EInv, SaveRun(w)
  PROVE  EInv'
  <1> DEFINE r == [base |-> task[w].base, known |-> task[w].known]
  <1>1. /\ runs' = runs \cup {r} /\ task' = [task EXCEPT ![w] = Rest]
        /\ UNCHANGED <<sources, clock, profiles, shown>> /\ task[w].at = "run"
    BY DEF SaveRun
  <1>2. r.base \in profiles /\ \A q \in r.known : q.stamp <= r.base.stamp
    BY <1>1, TaskFields DEF TaskSound
  <1> HIDE DEF r
  <1>3. RunsCiteTheirBaseline'
    BY <1>1, <1>2 DEF EInv, RunsCiteTheirBaseline
  <1>4. DefaultComesFirst' /\ IsFiniteSet(profiles')
    BY <1>1 DEF EInv, DefaultComesFirst, EnergyTyped
  <1>5. task'[w] = Rest
    BY <1>1, TaskFields
  <1>6. Rest \in TaskType' /\ TaskSound(w)'
    BY <1>1, <1>5, RestTyped DEF TaskType, TaskSound, Rest
  <1> QED BY <1>1, <1>3, <1>4, <1>6, SameAnswer, Moves

LEMMA LookRunEInv ==
  ASSUME NEW w \in Workers, EInv, LookRun(w)
  PROVE  EInv'
  <1> DEFINE t == [task[w] EXCEPT !.op = "validate", !.at = "look"]
  <1>1. t \in TaskType /\ t.at = "look"
    BY TaskFields DEF TaskType, Stages, Ops
  <1>2. /\ UNCHANGED <<sources, clock, profiles, runs, shown>>
        /\ task' = [task EXCEPT ![w] = IF runs # {} THEN Rest ELSE t]
    BY DEF LookRun, books
  <1> HIDE DEF t
  <1>3. CASE runs # {}
    BY <1>2, <1>3, RestEInv
  <1>4. CASE runs = {}
    <2>1. task' = [task EXCEPT ![w] = t] /\ task'[w] = t
      BY <1>2, <1>4, TaskFields
    <2>2. TaskSound(w)'
      BY <1>1, <2>1 DEF TaskSound
    <2> QED BY <1>1, <1>2, <2>1, <2>2, SameAnswer, Quiet
  <1> QED BY <1>3, <1>4

-----------------------------------------------------------------------------

LEMMA AskEInv ==
  ASSUME NEW w \in Workers, EInv, Ask(w)
  PROVE  EInv'
  BY BeginEInv DEF Ask, Ops

LEMMA ServeEInv ==
  ASSUME NEW w \in Workers, EInv, Serve(w) \/ AbandonTask(w)
  PROVE  EInv'
  <1>1. CASE LogEnergy(w) \/ AbandonTask(w)
    BY <1>1, RestEInv DEF LogEnergy, AbandonTask, books
  <1> QED
    BY <1>1, RatesEInv, ModeEInv, ProbeEInv, FiguresEInv, LogModeEInv, LockEInv,
       LookBaselineEInv, InsertDefaultEInv, SaveRunEInv, LookRunEInv
    DEF Serve

LEMMA NextEInv == EInv /\ [EnergyNext]_evars => EInv'
  <1> SUFFICES ASSUME EInv, [EnergyNext]_evars PROVE EInv'
    OBVIOUS
  <1>1. CASE UNCHANGED evars
    BY <1>1, RestingEInv DEF evars, books, EInv, EnergyTyped
  <1>2. CASE DatabaseTick
    BY <1>2, RestingEInv DEF DatabaseTick, books, EInv, EnergyTyped
  <1> QED BY <1>1, <1>2, ChangeEInv, AskEInv, ServeEInv DEF EnergyNext

LEMMA Invariance == EnergySpec => []EInv
  BY InitEInv, NextEInv, PTL DEF EnergySpec

(* The power of an OBSERVED answer is measured and just one of its other   *)
(* figures is filled in; a measured power is labelled so unless the        *)
(* sources changed under the request.                                      *)
THEOREM PowerIsLabelled == EnergySpec => []ObservedPowerIsMeasured
  <1>1. EInv => ObservedPowerIsMeasured
    BY DEF EInv, LabelSound, ObservedPowerIsMeasured
  <1> QED BY <1>1, Invariance, PTL

(* A validation run cites the newest baseline there was when it began.     *)
THEOREM RunsAreWellFounded == EnergySpec => []RunsCiteTheirBaseline
  <1>1. EInv => RunsCiteTheirBaseline
    BY DEF EInv
  <1> QED BY <1>1, Invariance, PTL

(* The default baseline is made once, and only while nothing was locked.   *)
THEOREM NoLateDefault == EnergySpec => []DefaultComesFirst
  <1>1. EInv => DefaultComesFirst
    BY DEF EInv
  <1> QED BY <1>1, Invariance, PTL
=================================================================================
