------------------------------- MODULE Access -------------------------------
(***************************************************************************)
(* Accounts, sessions and authority: register_user, authenticate_user,     *)
(* logout_user and revoke_all_user_sessions of auth_service.py, the        *)
(* dependencies of core/dependencies.py, and the role, suspension,         *)
(* restoration, delegation and bootstrap operations of rbac_service.py and *)
(* api/admin.py.  A step is one database round trip.                       *)
(*                                                                         *)
(* A handler decides on the rows it has loaded and writes later; an UPDATE *)
(* carries only the columns whose value differs from the loaded one, so    *)
(* concurrent handlers overwrite single columns, not rows.                 *)
(***************************************************************************)
EXTENDS Integers, Sequences, FiniteSets

CONSTANTS
  Workers,        \* request threads
  Users,          \* names a row of users may have
  Deployments,    \* where the system may run: ENVIRONMENT, the users table it
                  \* starts with, what its clients ask for and, as a bound,
                  \* how many logins and registrations they try
  Seeded,         \* demo users that a development start resets -> their row
  NoRequest,      \* the request of an idle worker
  MaxFailures     \* failed attempts that lock an account (5, line 149)

Roles == {"SUPER_ADMIN", "ADMIN", "CUSTOMER"}

(* Permissions the operations below ask for, and one that is only handed   *)
(* on (credits.mint).                                                      *)
Permissions == {"admins.manage_scoped", "users.suspend_scoped",
                "roles.assign_delegable", "credits.mint"}

ROLE_PERMISSION_MAP ==
  [r \in Roles |-> CASE r = "SUPER_ADMIN" -> Permissions
                     [] r = "ADMIN" -> {"users.suspend_scoped", "roles.assign_delegable"}
                     [] r = "CUSTOMER" -> {}]

(* lock: "held" while locked_until is in the future, "over" when past.     *)
(* root: the row has the unique bank_id BOSS001.                           *)
Row == [role: Roles, status: {"ACTIVE", "SUSPENDED"}, boss: BOOLEAN, root: BOOLEAN,
        failed: Nat, lock: {"none", "held", "over"}]
Absent == [role |-> "none"]

NewRow(role, boss) ==
  [role |-> role, status |-> "ACTIVE", boss |-> boss, root |-> boss,
   failed |-> 0, lock |-> "none"]

AdminOps == {"assign", "suspend", "restore", "delegate"}
LoginOps == {"login", "wrong", "register"}     \* wrong: a wrong password

RequestType ==
  [op: AdminOps \cup LoginOps \cup {"logout", "bootstrap"}, target: Users,
   role: Roles, perm: Permissions]

ASSUME TablesAssumption ==
  /\ \A d \in Deployments :
        /\ d.development \in BOOLEAN /\ d.attempts \in Nat
        /\ d.users \in [Users -> Row \cup {Absent}]
        /\ \A q \in d.requests : q \in RequestType
  /\ DOMAIN Seeded \subseteq Users
  /\ \A u \in DOMAIN Seeded : Seeded[u] \in Row
ASSUME BoundsAssumption ==
  /\ MaxFailures \in Nat \ {0}
  /\ \A d \in Deployments : NoRequest \notin d.requests

(* At most one Boss Admin holds office, and seeding makes none of anyone   *)
(* else.  In development the demo users are there: the first start has     *)
(* inserted them (seed.py:185-198), and no handler changes a boss flag.    *)
ASSUME OfficeAssumption ==
  /\ \A u \in DOMAIN Seeded : Seeded[u].boss => Seeded[u].role = "SUPER_ADMIN"
  /\ \A d \in Deployments :
        LET Boss(u) == d.users[u] # Absent /\ d.users[u].boss IN
        /\ \A u, v \in Users : Boss(u) /\ Boss(v) => u = v
        /\ \A u \in Users : Boss(u) =>
              d.users[u].role = "SUPER_ADMIN" /\ d.users[u].status = "ACTIVE"
        /\ d.development => \A u \in DOMAIN Seeded :
              d.users[u] # Absent /\ d.users[u].boss = Seeded[u].boss

(* Wrong passwords are counted from a start with none on record.           *)
ASSUME CountersAssumption ==
  \A d \in Deployments : \A u \in Users : d.users[u] # Absent =>
     d.users[u].failed = 0 /\ d.users[u].lock = "none"

VARIABLES
  deployment,   \* the one that runs; it never changes
  pc,           \* worker -> where its request stands
  session,      \* worker -> its local variables and loaded rows
  users,        \* users table
  sessions,     \* auth_sessions, in the order of insertion (the index: JTI);
                \* open: neither revoked nor past expires_at
  delegations,  \* permission_delegations
  wrong,        \* user -> wrong passwords refused so far (not in the code)
  attempts      \* logins and registrations started

tables == <<users, sessions, delegations>>
vars   == <<deployment, pc, session, tables, wrong, attempts>>

Stages == {"idle", "lookup", "verify", "session", "actor", "logout", "target",
           "commit", "revoke", "audit", "name", "row", "boss", "insert"}

(* token: the JTI sent; actor, seen: the rows loaded for the caller and    *)
(* for the target; mark: sessions there were at the commit (not in the     *)
(* code).                                                                  *)
NoSession ==
  [req |-> NoRequest, token |-> 0, actor |-> Absent, seen |-> Absent, mark |-> 0]

Init ==
  /\ deployment \in Deployments
  /\ users = deployment.users
  /\ pc = [w \in Workers |-> "idle"]
  /\ session = [w \in Workers |-> NoSession]
  /\ sessions = <<>>
  /\ delegations = {}
  /\ wrong = [u \in Users |-> 0]
  /\ attempts = 0

Op(w) == session[w].req.op
Target(w) == session[w].req.target
Caller(w) == sessions[session[w].token].user
Exists(u) == users[u] # Absent

(* The answer; its status is left out.                                     *)
Finish(w) ==
  /\ pc' = [pc EXCEPT ![w] = "idle"]
  /\ session' = [session EXCEPT ![w] = NoSession]

Refuse(w) == Finish(w) /\ UNCHANGED <<tables, wrong, attempts>>

Goto(w, stage) ==
  /\ pc' = [pc EXCEPT ![w] = stage]
  /\ UNCHANGED <<tables, wrong, attempts>>

FirstStage(op) ==
  CASE op \in AdminOps \cup {"logout"} -> "session"
    [] op \in {"login", "wrong"} -> "lookup"
    [] op = "register" -> "name"
    [] op = "bootstrap" -> "boss"

Submit(w, r) ==
  /\ pc[w] = "idle"
  /\ r.op \in LoginOps => attempts < deployment.attempts
  /\ attempts' = IF r.op \in LoginOps THEN attempts + 1 ELSE attempts
  /\ \E token \in IF FirstStage(r.op) = "session" THEN DOMAIN sessions ELSE {0} :
        session' = [session EXCEPT ![w] = [NoSession EXCEPT !.req = r, !.token = token]]
  /\ pc' = [pc EXCEPT ![w] = FirstStage(r.op)]
  /\ UNCHANGED <<tables, wrong>>

-----------------------------------------------------------------------------
(* register_user: the name is looked up, then inserted under its unique    *)
(* index; the flush of a taken name fails outside the try.                 *)

NameTaken(w) ==
  /\ pc[w] = "name" /\ Exists(Target(w))
  /\ Refuse(w)

NameFree(w) ==
  /\ pc[w] = "name" /\ ~ Exists(Target(w))
  /\ Goto(w, "row") /\ UNCHANGED session

InsertCustomer(w) ==
  /\ pc[w] = "row" /\ ~ Exists(Target(w))
  /\ users' = [users EXCEPT ![Target(w)] = NewRow("CUSTOMER", FALSE)]
  /\ pc' = [pc EXCEPT ![w] = "lookup"]
  /\ UNCHANGED <<session, sessions, delegations, wrong, attempts>>

InsertClash(w) ==
  /\ \/ pc[w] = "row" /\ Exists(Target(w))
     \/ pc[w] = "insert" /\ (Exists(Target(w)) \/ \E u \in Users : Exists(u) /\ users[u].root)
  /\ Refuse(w)

-----------------------------------------------------------------------------
(* authenticate_user: the checks on the loaded row, then one commit.       *)

MayTry(u) == Exists(u) /\ users[u].lock # "held" /\ users[u].status = "ACTIVE"

LoginRefused(w) ==
  /\ pc[w] = "lookup" /\ ~ MayTry(Target(w))
  /\ Refuse(w)

LoginLookup(w) ==
  /\ pc[w] = "lookup" /\ MayTry(Target(w))
  /\ session' = [session EXCEPT ![w].seen = users[Target(w)]]
  /\ Goto(w, "verify")

(* Slip: one attempt early.                                                *)
SlipEarly(n) == n + 1 >= MaxFailures

Locks(n) == n >= MaxFailures

WrongPassword(w) ==
  LET n == session[w].seen.failed + 1 IN
  /\ pc[w] = "verify" /\ Op(w) = "wrong"
  /\ users' = [users EXCEPT ![Target(w)].failed = n,
                            ![Target(w)].lock = IF Locks(n) THEN "held" ELSE @]
  /\ wrong' = [wrong EXCEPT ![Target(w)] = @ + 1]
  /\ Finish(w)
  /\ UNCHANGED <<sessions, delegations, attempts>>

(* Slip: the whole loaded row is written back.                             *)
SlipWholeRow(w) == [session[w].seen EXCEPT !.failed = 0, !.lock = "none"]

ResetFailures(w) ==
  LET seen == session[w].seen IN
  [users[Target(w)] EXCEPT !.failed = IF seen.failed = 0 THEN @ ELSE 0,
                           !.lock = IF seen.lock = "none" THEN @ ELSE "none"]

OpenSession(w) ==
  /\ pc[w] = "verify" /\ Op(w) \in {"login", "register"}
  /\ users' = [users EXCEPT ![Target(w)] = ResetFailures(w)]
  /\ sessions' = Append(sessions,
        [user |-> Target(w), role |-> session[w].seen.role, open |-> TRUE])
  /\ Finish(w)
  /\ UNCHANGED <<delegations, wrong, attempts>>

LockRunsOut(u) ==
  /\ Exists(u) /\ users[u].lock = "held"
  /\ users' = [users EXCEPT ![u].lock = "over"]
  /\ UNCHANGED <<pc, session, sessions, delegations, wrong, attempts>>

-----------------------------------------------------------------------------
(* get_current_user and require_permission: the session row, then the user *)
(* and the permission.                                                     *)

SessionRefused(w) ==
  /\ pc[w] = "session" /\ ~ sessions[session[w].token].open
  /\ Refuse(w)

SessionAccepted(w) ==
  /\ pc[w] = "session" /\ sessions[session[w].token].open
  /\ Goto(w, "actor") /\ UNCHANGED session

Delegated(u, perm) == \E d \in delegations : d.to = u /\ d.perm = perm

has_permission(u, row, perm) ==
  /\ row.status = "ACTIVE"
  /\ row.boss \/ perm \in ROLE_PERMISSION_MAP[row.role] \/ Delegated(u, perm)

Admits(w) ==
  LET u == Caller(w)
      Holds(perm) == has_permission(u, users[u], perm)
  IN
  /\ users[u].status = "ACTIVE"
  /\ Op(w) = "assign" => Holds("admins.manage_scoped")
  /\ Op(w) \in {"suspend", "restore"} => Holds("users.suspend_scoped")
  /\ Op(w) = "delegate" => Holds("roles.assign_delegable")

ActorRefused(w) ==
  /\ pc[w] = "actor" /\ ~ Admits(w)
  /\ Refuse(w)

ActorAdmitted(w) ==
  /\ pc[w] = "actor" /\ Admits(w)
  /\ session' = [session EXCEPT ![w].actor = users[Caller(w)]]
  /\ Goto(w, IF Op(w) = "logout" THEN "logout" ELSE "target")

Logout(w) ==
  /\ pc[w] = "logout"
  /\ sessions' = [sessions EXCEPT ![session[w].token].open = FALSE]
  /\ Finish(w)
  /\ UNCHANGED <<users, delegations, wrong, attempts>>

(* expires_at passes (30 minutes).                                         *)
ExpireSession(j) ==
  /\ sessions[j].open
  /\ sessions' = [sessions EXCEPT ![j].open = FALSE]
  /\ UNCHANGED <<pc, session, users, delegations, wrong, attempts>>

-----------------------------------------------------------------------------
(* The administrative operations: the target is loaded and judged, the     *)
(* change committed, the sessions revoked, the event logged: in the code   *)
(* each of the last three is a commit of its own.                          *)

(* A target that is the caller is the object loaded before.                *)
TargetRow(w) == IF Target(w) = Caller(w) THEN session[w].actor ELSE users[Target(w)]

(* Slip: the role is compared with a misspelt name and the flag forgotten. *)
SlipNotProtected(row) == row.role = "SUPERADMIN"

Protected(row) == row.boss \/ row.role = "SUPER_ADMIN"

(* Slip: any super administrator may appoint another.                      *)
SlipMayAssign(w, row) == Target(w) # Caller(w)

MayAssign(w, row) ==
  /\ ~ Protected(row)
  /\ Target(w) # Caller(w)
  /\ session[w].req.role = "SUPER_ADMIN" => session[w].actor.boss

Permitted(w, row) ==
  CASE Op(w) = "assign"   -> MayAssign(w, row)
    [] Op(w) = "suspend"  -> ~ Protected(row)
    [] Op(w) = "restore"  -> TRUE
    [] Op(w) = "delegate" -> has_permission(Caller(w), session[w].actor, session[w].req.perm)

Acceptable(w) == TargetRow(w) # Absent /\ Permitted(w, TargetRow(w))

TargetRefused(w) ==
  /\ pc[w] = "target" /\ ~ Acceptable(w)
  /\ Refuse(w)

HasAlready(w) == Op(w) = "delegate" /\ Delegated(Target(w), session[w].req.perm)

AlreadyDelegated(w) ==
  /\ pc[w] = "target" /\ Acceptable(w) /\ HasAlready(w)
  /\ Refuse(w)

TargetAccepted(w) ==
  /\ pc[w] = "target" /\ Acceptable(w) /\ ~ HasAlready(w)
  /\ session' = [session EXCEPT ![w].seen = TargetRow(w)]
  /\ Goto(w, "commit")

(* The column is written if it differs from the loaded one.                *)
SetRole(w) ==
  /\ Op(w) = "assign"
  /\ users' = IF session[w].seen.role = session[w].req.role THEN users
              ELSE [users EXCEPT ![Target(w)].role = session[w].req.role]

SetStatus(w, op, status) ==
  /\ Op(w) = op
  /\ users' = IF session[w].seen.status = status THEN users
              ELSE [users EXCEPT ![Target(w)].status = status]

CommitRevoking(w) ==
  /\ pc[w] = "commit"
  /\ SetRole(w) \/ SetStatus(w, "suspend", "SUSPENDED")
  /\ session' = [session EXCEPT ![w].mark = Len(sessions)]
  /\ pc' = [pc EXCEPT ![w] = "revoke"]
  /\ UNCHANGED <<sessions, delegations, wrong, attempts>>

CommitRestore(w) ==
  /\ pc[w] = "commit"
  /\ SetStatus(w, "restore", "ACTIVE")
  /\ pc' = [pc EXCEPT ![w] = "audit"]
  /\ UNCHANGED <<session, sessions, delegations, wrong, attempts>>

CommitDelegation(w) ==
  /\ pc[w] = "commit" /\ Op(w) = "delegate"
  /\ delegations' = delegations \cup
        {[by |-> Caller(w), to |-> Target(w), perm |-> session[w].req.perm]}
  /\ pc' = [pc EXCEPT ![w] = "audit"]
  /\ UNCHANGED <<session, users, sessions, wrong, attempts>>

(* Slip: the newest session is left out.                                   *)
SlipRevoked(u) ==
  [j \in DOMAIN sessions |->
     IF sessions[j].user = u /\ j < Len(sessions)
     THEN [sessions[j] EXCEPT !.open = FALSE] ELSE sessions[j]]

(* Slip: the rows are deleted.                                             *)
SlipDeleted(u) == SelectSeq(sessions, LAMBDA s : s.user # u)

Revoked(u) ==
  [j \in DOMAIN sessions |->
     IF sessions[j].user = u THEN [sessions[j] EXCEPT !.open = FALSE] ELSE sessions[j]]

revoke_all_user_sessions(w) ==
  /\ pc[w] = "revoke"
  /\ sessions' = Revoked(Target(w))
  /\ pc' = [pc EXCEPT ![w] = "audit"]
  /\ UNCHANGED <<session, users, delegations, wrong, attempts>>

LogEvent(w) ==
  /\ pc[w] = "audit"
  /\ Refuse(w)

-----------------------------------------------------------------------------
(* bootstrap_boss_admin, and the start of a process in development, which  *)
(* resets role, status and flag of the demo users (seed.py:213-220).       *)

BossExists == \E u \in Users : Exists(u) /\ (users[u].boss \/ users[u].role = "SUPER_ADMIN")

BootstrapRefused(w) ==
  /\ pc[w] = "boss"
  /\ BossExists \/ Exists(Target(w))
  /\ Refuse(w)

BootstrapAccepted(w) ==
  /\ pc[w] = "boss"
  /\ ~ BossExists /\ ~ Exists(Target(w))
  /\ Goto(w, "insert") /\ UNCHANGED session

(* Slip: bank_id is not unique.                                            *)
SlipRootFree == TRUE

RootFree == ~ \E u \in Users : Exists(u) /\ users[u].root

InsertBoss(w) ==
  /\ pc[w] = "insert"
  /\ ~ Exists(Target(w)) /\ RootFree
  /\ users' = [users EXCEPT ![Target(w)] = NewRow("SUPER_ADMIN", TRUE)]
  /\ Finish(w)
  /\ UNCHANGED <<sessions, delegations, wrong, attempts>>

Seed(u) ==
  /\ deployment.development
  /\ users[u] # Absent
  /\ users' = [users EXCEPT ![u].role = Seeded[u].role, ![u].boss = Seeded[u].boss,
                            ![u].status = "ACTIVE"]
  /\ UNCHANGED <<pc, session, sessions, delegations, wrong, attempts>>

Crash(w) ==
  /\ pc[w] # "idle"
  /\ Refuse(w)

-----------------------------------------------------------------------------

Step(w) ==
  \/ NameTaken(w) \/ NameFree(w) \/ InsertCustomer(w) \/ InsertClash(w)
  \/ LoginRefused(w) \/ LoginLookup(w) \/ WrongPassword(w) \/ OpenSession(w)
  \/ SessionRefused(w) \/ SessionAccepted(w)
  \/ ActorRefused(w) \/ ActorAdmitted(w) \/ Logout(w)
  \/ TargetRefused(w) \/ AlreadyDelegated(w) \/ TargetAccepted(w)
  \/ CommitRevoking(w) \/ CommitRestore(w) \/ CommitDelegation(w)
  \/ revoke_all_user_sessions(w) \/ LogEvent(w)
  \/ BootstrapRefused(w) \/ BootstrapAccepted(w) \/ InsertBoss(w)

Next ==
  /\ \/ \E w \in Workers :
           (\E r \in deployment.requests : Submit(w, r)) \/ Step(w) \/ Crash(w)
     \/ \E u \in Users : LockRunsOut(u)
     \/ \E j \in DOMAIN sessions : ExpireSession(j)
     \/ \E u \in DOMAIN Seeded : Seed(u)
  /\ UNCHANGED deployment

Spec == Init /\ [][Next]_vars

-----------------------------------------------------------------------------

SessionType ==
  [req: deployment.requests \cup {NoRequest}, token: 0..deployment.attempts, actor: Row \cup {Absent},
   seen: Row \cup {Absent}, mark: 0..deployment.attempts]

(* Every variable has its type; a worker in an authenticated stage names a *)
(* row of auth_sessions, and never more sessions exist than logins.        *)
TypeOK ==
  /\ deployment \in Deployments
  /\ pc \in [Workers -> Stages]
  /\ session \in [Workers -> SessionType]
  /\ \A w \in Workers : session[w].token <= Len(sessions)
  /\ users \in [Users -> Row \cup {Absent}]
  /\ sessions \in Seq([user: Users, role: Roles, open: BOOLEAN])
  /\ Len(sessions) <= attempts
  /\ delegations \subseteq [by: Users, to: Users, perm: Permissions]
  /\ wrong \in [Users -> 0..deployment.attempts]
  /\ attempts \in 0..deployment.attempts

(* There is at most one Boss Admin, however many bootstraps race past the  *)
(* check (rbac_service.py:184-187).                                        *)
OneBoss ==
  \A u, v \in Users :
     Exists(u) /\ Exists(v) /\ users[u].boss /\ users[v].boss => u = v

(* The Boss Admin keeps office: no subordinate's role change or suspension *)
(* reaches the row, in whatever order handlers interleave (RBAC-08).       *)
BossKeepsOffice ==
  \A u \in Users : Exists(u) /\ users[u].boss =>
     users[u].role = "SUPER_ADMIN" /\ users[u].status = "ACTIVE"

(* A super administrator is made by the Boss Admin, by bootstrap or by     *)
(* seeding, never by a delegated administrator (RBAC-06).                  *)
SuperAdminsAreAppointed ==
  [][\A u \in Users :
       LET super == Exists(u) /\ users[u].role = "SUPER_ADMIN"
           becomes == users'[u] # Absent /\ users'[u].role = "SUPER_ADMIN"
       IN ~ super /\ becomes =>
            \/ u \in DOMAIN Seeded
            \/ \E w \in Workers : pc[w] = "insert" /\ Target(w) = u
            \/ \E w \in Workers :
                  pc[w] = "commit" /\ Target(w) = u /\ users[Caller(w)].boss]_vars

(* When a suspension or role change has revoked the target's sessions, no  *)
(* session from before its commit is left open: the revocation follows the *)
(* commit (rbac_service.py:306, 352).                                      *)
RevocationIsComplete ==
  \A w \in Workers : pc[w] = "audit" /\ Op(w) \in {"assign", "suspend"} =>
     \A j \in 1..session[w].mark :
        sessions[j].user = Target(w) => ~ sessions[j].open

(* A suspension is lifted by a restoration or by seeding only: logins,     *)
(* failures and role changes that loaded the row before do not undo it.    *)
SuspensionSticks ==
  [][\A u \in Users :
       Exists(u) /\ users[u].status = "SUSPENDED" /\ users'[u].status = "ACTIVE" =>
         \/ u \in DOMAIN Seeded
         \/ \E w \in Workers : pc[w] = "commit" /\ Op(w) = "restore" /\ Target(w) = u]_vars

(* An account is never locked for attempts that were not made: the counter *)
(* does not run ahead of the refused passwords, however updates interleave *)
(* (auth_service.py:146-152).                                              *)
LocksAreEarned ==
  \A u \in Users : Exists(u) =>
     /\ users[u].failed <= wrong[u]
     /\ users[u].lock # "none" => wrong[u] >= MaxFailures
=============================================================================
