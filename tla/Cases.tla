-------------------------------- MODULE Cases --------------------------------
(***************************************************************************)
(* Investigation cases: create_case, assign_investigator, update_findings  *)
(* and get_case_detail of backend/api/cases.py with the audit event that   *)
(* each appends (log_security_event).  A step is one database round trip.  *)
(*                                                                         *)
(* Nothing locks a case between the query that loads it and the commit;    *)
(* an UPDATE carries the columns whose value differs from the loaded one.  *)
(***************************************************************************)
EXTENDS Integers, FiniteSets

CONSTANTS
  Workers,      \* request threads
  Users,        \* rows of the users table
  OpeningRole,  \* user -> role at the start
  Grants,       \* <<user, role>>: role changes that may happen meanwhile
  CaseIds,      \* identities of cases; bound: cases that may be created
  Texts,        \* findings a client may send
  NoText,       \* findings of a case that has none
  Requests,     \* what clients may ask for
  NoRequest,    \* the request of an idle worker
  MaxRequests   \* bound: requests that are handled

(* Cut to three: SUPER_ADMIN does here what ADMIN does, and AUDITOR is     *)
(* shown every case but assigns none.                                      *)
Roles == {"ADMIN", "INVESTIGATOR", "CUSTOMER"}
Statuses == {"OPEN", "ASSIGNED", "IN_PROGRESS", "RESOLVED", "CLOSED"}

NoCase == 0     \* no case named yet

(* An explicit null for the optional status of FindingsUpdateRequest.      *)
Null == "null"

Row == [number: Nat, status: Statuses, findings: Texts \cup {NoText}]
Absent == [number |-> 0]

RequestType ==
  [op: {"create", "assign", "findings", "view"}, user: Users, case: CaseIds \cup {NoCase},
   investigator: Users, findings: Texts, status: (Statuses \ {"OPEN"}) \cup {Null}]

ASSUME CasesAssumption ==
  CaseIds \subseteq Nat \ {NoCase} /\ IsFiniteSet(CaseIds) /\ NoText \notin Texts
ASSUME RolesAssumption == OpeningRole \in [Users -> Roles] /\ Grants \subseteq Users \X Roles
ASSUME RequestsAssumption ==
  /\ NoRequest \notin Requests /\ MaxRequests \in Nat
  /\ \A r \in Requests : r \in RequestType

VARIABLES
  pc,           \* worker -> where its request stands
  session,      \* worker -> its local variables and loaded rows
  role,         \* users.role
  cases,        \* investigation_cases
  assignments,  \* investigation_assignments
  events,       \* security_audit_events
  recorded,     \* findings that were committed, and by whom (not in the code)
  asked         \* requests handled

tables == <<cases, assignments, events>>
vars   == <<pc, session, role, tables, recorded, asked>>

Stages == {"idle", "count", "insert", "case", "investigator", "existing", "attach",
           "membership", "record", "audit"}

(* case: the identity asked for or inserted; actor: the caller's role as   *)
(* loaded; seen: the case as loaded; outcome: of the event to append.      *)
NoSession ==
  [req |-> NoRequest, case |-> NoCase, actor |-> "CUSTOMER", count |-> 0,
   seen |-> Absent, outcome |-> "SUCCESS"]

Init ==
  /\ pc = [w \in Workers |-> "idle"]
  /\ session = [w \in Workers |-> NoSession]
  /\ role = OpeningRole
  /\ cases = [c \in CaseIds |-> Absent]
  /\ assignments = {}
  /\ events = {}
  /\ recorded = {}
  /\ asked = 0

Req(w) == session[w].req
Case(w) == session[w].case
Existing == {c \in CaseIds : cases[c] # Absent}
Goto(w, stage) == pc' = [pc EXCEPT ![w] = stage]

(* The answer closes the session; its status is left out.                  *)
Finish(w) ==
  /\ Goto(w, "idle")
  /\ session' = [session EXCEPT ![w] = NoSession]

Refuse(w) == Finish(w) /\ UNCHANGED <<role, tables, recorded, asked>>

-----------------------------------------------------------------------------
(* get_current_user and require_permission("cases.assign"); permissions    *)
(* that are delegated are in module Access.                                *)

Permitted(r) == r.op \in {"create", "assign"} => role[r.user] = "ADMIN"

(* CaseIds bounds the creations.                                           *)
HasRoom(r) ==
  r.op = "create" =>
    Cardinality(Existing) + Cardinality({w \in Workers : pc[w] \in {"count", "insert"}})
      < Cardinality(CaseIds)

Submit(w, r) ==
  /\ pc[w] = "idle"
  /\ Permitted(r) /\ HasRoom(r)
  /\ asked < MaxRequests /\ asked' = asked + 1
  /\ Goto(w, IF r.op = "create" THEN "count" ELSE "case")
  /\ session' = [session EXCEPT ![w] =
       [NoSession EXCEPT !.req = r, !.case = r.case, !.actor = role[r.user]]]
  /\ UNCHANGED <<role, tables, recorded>>

(* assign_role_to_user of rbac_service.py (module Access).                 *)
SetRole(u, new) ==
  /\ <<u, new>> \in Grants
  /\ role[u] # new
  /\ role' = [role EXCEPT ![u] = new]
  /\ UNCHANGED <<pc, session, tables, recorded, asked>>

-----------------------------------------------------------------------------
(* create_case: the number is the count plus one; case_number is UNIQUE.   *)

CountCases(w) ==
  /\ pc[w] = "count"
  /\ session' = [session EXCEPT ![w].count = Cardinality(Existing)]
  /\ Goto(w, "insert")
  /\ UNCHANGED <<role, tables, recorded, asked>>

(* Slip: case_number is not UNIQUE.                                        *)
SlipNotUnique(w) == FALSE

NumberTaken(w) == \E c \in Existing : cases[c].number = session[w].count + 1

(* Slip: the failed commit is swallowed.                                   *)
SlipSwallowed(w) ==
  /\ pc[w] = "insert"
  /\ NumberTaken(w)
  /\ Goto(w, "audit")
  /\ UNCHANGED <<session, role, tables, recorded, asked>>

InsertClash(w) ==
  /\ pc[w] = "insert"
  /\ NumberTaken(w)
  /\ Refuse(w)

InsertCase(w) ==
  /\ pc[w] = "insert"
  /\ ~ NumberTaken(w)
  /\ \E c \in CaseIds \ Existing :
        /\ cases' = [cases EXCEPT ![c] =
             [number |-> session[w].count + 1, status |-> "OPEN", findings |-> NoText]]
        /\ session' = [session EXCEPT ![w].case = c]
  /\ Goto(w, "audit")
  /\ UNCHANGED <<role, assignments, events, recorded, asked>>

-----------------------------------------------------------------------------
(* The case is loaded; get_case_detail then decides by the caller's role.  *)

CaseMissing(w) ==
  /\ pc[w] = "case" /\ Case(w) \notin Existing
  /\ Refuse(w)

LoadCase(w) ==
  /\ pc[w] = "case" /\ Case(w) \in Existing
  /\ session' = [session EXCEPT ![w].seen = cases[Case(w)]]
  /\ \/ Req(w).op = "assign" /\ Goto(w, "investigator")
     \/ Req(w).op # "assign" /\ session[w].actor = "INVESTIGATOR" /\ Goto(w, "membership")
     \/ Req(w).op = "findings" /\ session[w].actor # "INVESTIGATOR" /\ Goto(w, "record")
  /\ UNCHANGED <<role, tables, recorded, asked>>

(* An administrator is shown any case, a customer none.                    *)
ViewByRole(w) ==
  /\ pc[w] = "case" /\ Case(w) \in Existing
  /\ Req(w).op = "view" /\ session[w].actor # "INVESTIGATOR"
  /\ Refuse(w)

Member(w) == <<Case(w), Req(w).user>> \in assignments

Outsider(w) ==
  /\ pc[w] = "membership" /\ ~ Member(w)
  /\ \/ Req(w).op = "findings" /\ Refuse(w)
     \/ /\ Req(w).op = "view"
        /\ session' = [session EXCEPT ![w].outcome = "DENIED"]
        /\ Goto(w, "audit")
        /\ UNCHANGED <<role, tables, recorded, asked>>

Insider(w) ==
  /\ pc[w] = "membership" /\ Member(w)
  /\ \/ Req(w).op = "findings" /\ Goto(w, "record") /\ UNCHANGED <<session, role, tables, recorded, asked>>
     \/ Req(w).op = "view" /\ Refuse(w)

-----------------------------------------------------------------------------
(* assign_investigator.                                                    *)

NotInvestigator(w) ==
  /\ pc[w] = "investigator" /\ role[Req(w).investigator] # "INVESTIGATOR"
  /\ Refuse(w)

IsInvestigator(w) ==
  /\ pc[w] = "investigator" /\ role[Req(w).investigator] = "INVESTIGATOR"
  /\ Goto(w, "existing")
  /\ UNCHANGED <<session, role, tables, recorded, asked>>

Assigned(w) == <<Case(w), Req(w).investigator>> \in assignments

LookupAssignment(w) ==
  /\ pc[w] = "existing"
  /\ Goto(w, IF Assigned(w) THEN "audit" ELSE "attach")
  /\ UNCHANGED <<session, role, tables, recorded, asked>>

(* Slip: the UPDATE writes the whole row as it was loaded.                 *)
SlipWholeRow(seen, now, new) == new

(* The row after an UPDATE that turns the loaded row seen into new, the    *)
(* stored row being now.                                                   *)
Updated(seen, now, new) ==
  [f \in DOMAIN now |-> IF new[f] = seen[f] THEN now[f] ELSE new[f]]

Update(w, new) ==
  cases' = [cases EXCEPT ![Case(w)] = Updated(session[w].seen, @, new)]

Attached(seen) == [seen EXCEPT !.status = "ASSIGNED"]

(* uq_case_investigator.                                                   *)
AttachClash(w) ==
  /\ pc[w] = "attach" /\ Assigned(w)
  /\ Refuse(w)

Attach(w) ==
  /\ pc[w] = "attach" /\ ~ Assigned(w)
  /\ assignments' = assignments \cup {<<Case(w), Req(w).investigator>>}
  /\ Update(w, Attached(session[w].seen))
  /\ Goto(w, "audit")
  /\ UNCHANGED <<session, role, events, recorded, asked>>

-----------------------------------------------------------------------------
(* update_findings: the commit fails on a null status (NOT NULL).          *)

(* Slip: the failed commit is swallowed.                                   *)
SlipRecordSwallowed(w) ==
  /\ pc[w] = "record" /\ Req(w).status = Null
  /\ Goto(w, "audit")
  /\ UNCHANGED <<session, role, tables, recorded, asked>>

RecordFails(w) ==
  /\ pc[w] = "record" /\ Req(w).status = Null
  /\ Refuse(w)

(* Who wrote, in the role that was loaded.                                 *)
Author(w) == [case |-> Case(w), user |-> Req(w).user, role |-> session[w].actor]

RecordFindings(w) ==
  /\ pc[w] = "record" /\ Req(w).status # Null
  /\ Update(w, [session[w].seen EXCEPT !.findings = Req(w).findings,
                                       !.status = Req(w).status])
  /\ recorded' = recorded \cup {Author(w)}
  /\ Goto(w, "audit")
  /\ UNCHANGED <<session, role, assignments, events, asked>>

-----------------------------------------------------------------------------
(* log_security_event commits on its own and swallows a failure; a process *)
(* may die anywhere.                                                       *)

Event(w) ==
  [action |-> Req(w).op, case |-> Case(w), outcome |-> session[w].outcome,
   target |-> Req(w).investigator, actor |-> Req(w).user]

LogEvent(w) ==
  /\ pc[w] = "audit"
  /\ events' = events \cup {Event(w)}
  /\ Finish(w)
  /\ UNCHANGED <<role, cases, assignments, recorded, asked>>

Crash(w) ==
  /\ pc[w] # "idle"
  /\ Refuse(w)

-----------------------------------------------------------------------------

Step(w) ==
  \/ CountCases(w) \/ InsertClash(w) \/ InsertCase(w)
  \/ CaseMissing(w) \/ LoadCase(w) \/ ViewByRole(w) \/ Outsider(w) \/ Insider(w)
  \/ NotInvestigator(w) \/ IsInvestigator(w) \/ LookupAssignment(w)
  \/ AttachClash(w) \/ Attach(w)
  \/ RecordFails(w) \/ RecordFindings(w) \/ LogEvent(w)

Next ==
  \/ \E w \in Workers : (\E r \in Requests : Submit(w, r)) \/ Step(w) \/ Crash(w)
  \/ \E u \in Users, new \in Roles : SetRole(u, new)

Spec == Init /\ [][Next]_vars

-----------------------------------------------------------------------------

SessionType ==
  [req: Requests \cup {NoRequest}, case: CaseIds \cup {NoCase}, actor: Roles, count: Nat,
   seen: Row \cup {Absent}, outcome: {"SUCCESS", "DENIED"}]

(* Every variable has its type; a request that passed the lookup holds a   *)
(* row, and that case still exists.                                        *)
TypeOK ==
  /\ pc \in [Workers -> Stages]
  /\ session \in [Workers -> SessionType]
  /\ role \in [Users -> Roles]
  /\ cases \in [CaseIds -> Row \cup {Absent}]
  /\ assignments \subseteq Existing \X Users
  /\ events \subseteq [action: {"create", "assign", "findings", "view"}, case: CaseIds,
                       outcome: {"SUCCESS", "DENIED"}, target: Users, actor: Users]
  /\ recorded \subseteq [case: Existing, user: Users, role: Roles]
  /\ asked \in 0..MaxRequests

(* Case numbers are unique and have no gap, although the count is read     *)
(* before the insertion and creations race: a creation whose number is     *)
(* taken fails (cases.py:165-178, models/rbac.py:74).                      *)
NumbersAreDense ==
  /\ \A c, d \in Existing : cases[c].number = cases[d].number => c = d
  /\ {cases[c].number : c \in Existing} = 1..Cardinality(Existing)

(* What the audit log says of a case happened, and its actor did it: no    *)
(* event of a commit that failed, whatever others wrote to that case       *)
(* meanwhile (rbac_service.py:80-106 appends "an immutable record").       *)
AuditIsTrue ==
  \A e \in events : e.outcome = "SUCCESS" =>
    /\ e.case \in Existing
    /\ e.action = "assign" => <<e.case, e.target>> \in assignments
    /\ e.action = "findings" =>
          \E r \in recorded : r.case = e.case /\ r.user = e.actor

(* Findings of a case come from those it is assigned to, and from          *)
(* administrators: "Updates findings on an assigned case." (cases.py:244;  *)
(* rbac_service.py:37, cases.py:71).                                       *)
FindingsOnAssignedCases ==
  \A r \in recorded : r.role # "ADMIN" => <<r.case, r.user>> \in assignments

(* Findings are replaced, never lost: an assignment that loaded the case   *)
(* before they were recorded does not erase them.                          *)
FindingsKept ==
  [][\A c \in CaseIds : c \in Existing /\ cases[c].findings # NoText =>
       cases'[c] # Absent /\ cases[c]'.findings # NoText]_vars
=============================================================================
