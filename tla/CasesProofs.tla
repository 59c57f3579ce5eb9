---------------------------- MODULE CasesProofs ----------------------------
(***************************************************************************)
(* Proofs about the case workflow for any sets of workers, users, cases,   *)
(* texts, role changes and requests.                                       *)
(***************************************************************************)
EXTENDS Cases, FiniteSetTheorems, TLAPS

(* The stages at which a handler holds a row that it has loaded.           *)
Loaded == {"investigator", "existing", "attach", "membership", "record"}

(* Findings of the case w works on were committed for its user.            *)
Wrote(w) == \E r \in recorded : r.case = Case(w) /\ r.user = Req(w).user

(* What a handler knows at each stage: the operation it serves; the case   *)
(* it named exists; a count is never too high; findings that it saw are    *)
(* still there; what an event is going to claim its actor has committed.   *)
SessionSound(w) ==
  /\ pc[w] # "idle" => Req(w) \in Requests
  /\ pc[w] \in {"count", "insert"} => Req(w).op = "create"
  /\ pc[w] = "case" => Req(w).op # "create"
  /\ pc[w] = "insert" => session[w].count <= Cardinality(Existing)
  /\ pc[w] \in {"investigator", "existing", "attach"} => Req(w).op = "assign"
  /\ pc[w] = "membership" =>
        Req(w).op \in {"findings", "view"} /\ session[w].actor = "INVESTIGATOR"
  /\ pc[w] = "record" => Req(w).op = "findings"
  /\ pc[w] \in Loaded \cup {"audit"} => Case(w) \in Existing
  /\ pc[w] \in Loaded =>
        /\ session[w].seen \in Row
        /\ session[w].seen.findings # NoText => cases[Case(w)].findings # NoText
  /\ pc[w] = "audit" /\ session[w].outcome = "SUCCESS" =>
        /\ Req(w).op = "assign" => Assigned(w)
        /\ Req(w).op = "findings" => Wrote(w)

IInv ==
  /\ TypeOK
  /\ NumbersAreDense
  /\ AuditIsTrue
  /\ \A w \in Workers : SessionSound(w)

-----------------------------------------------------------------------------
(* Types of what requests and rows hold.                                   *)

LEMMA RequestTyped ==
  \A r \in Requests :
    /\ r.op \in {"create", "assign", "findings", "view"}
    /\ r.user \in Users /\ r.case \in CaseIds \cup {NoCase} /\ r.investigator \in Users
    /\ r.findings \in Texts /\ r.findings # NoText
    /\ r.status \in (Statuses \ {"OPEN"}) \cup {Null}
  BY RequestsAssumption, CasesAssumption DEF RequestType

LEMMA AbsentIsNoRow == Absent \notin Row
  <1>1. \A r \in Row : DOMAIN r = {"number", "status", "findings"}
    BY DEF Row
  <1>2. DOMAIN Absent = {"number"}
    BY DEF Absent
  <1>3. "status" \notin {"number"}
    OBVIOUS
  <1> QED BY <1>1, <1>2, <1>3

LEMMA ExistingRows ==
  ASSUME TypeOK
  PROVE  \A c \in CaseIds : c \in Existing <=> cases[c] \in Row
  BY AbsentIsNoRow DEF TypeOK, Existing

LEMMA ExistingFinite ==
  /\ Existing \subseteq CaseIds
  /\ IsFiniteSet(Existing) /\ Cardinality(Existing) \in Nat
  <1>1. Existing \in SUBSET CaseIds
    BY DEF Existing
  <1>2. IsFiniteSet(Existing)
    BY <1>1, CasesAssumption, FS_Subset
  <1> QED BY <1>1, <1>2, FS_CardinalityType

LEMMA NoSessionType == NoSession \in SessionType
  BY DEF NoSession, SessionType, Roles

(* An UPDATE yields a row that keeps its number, and that keeps findings   *)
(* unless the request replaces them.                                       *)
LEMMA UpdatedRow ==
  ASSUME NEW seen \in Row, NEW now \in Row, NEW new \in Row
  PROVE  LET row == Updated(seen, now, new) IN
         /\ row \in Row
         /\ new.number = seen.number => row.number = now.number
         /\ row.findings = IF new.findings = seen.findings THEN now.findings
                           ELSE new.findings
  BY DEF Updated, Row

-----------------------------------------------------------------------------

LEMMA InitIInv == Init => IInv
  <1> SUFFICES ASSUME Init PROVE IInv
    OBVIOUS
  <1>1. Existing = {}
    BY DEF Init, Existing
  <1>2. TypeOK
    BY <1>1, NoSessionType, RolesAssumption, RequestsAssumption DEF Init, TypeOK, Stages
  <1>3. NumbersAreDense
    <2>1. Cardinality(Existing) = 0
      BY <1>1, FS_EmptySet
    <2> QED BY <1>1, <2>1 DEF NumbersAreDense
  <1>4. AuditIsTrue
    BY DEF Init, AuditIsTrue
  <1>5. ASSUME NEW w \in Workers PROVE SessionSound(w)
    BY DEF Init, SessionSound, Loaded
  <1> QED BY <1>2, <1>3, <1>4, <1>5 DEF IInv

(* A step that moves one handler and leaves the tables alone.              *)
LEMMA LocalIInv ==
  ASSUME NEW w \in Workers, IInv,
         NEW stage \in Stages, NEW s \in SessionType,
         pc' = [pc EXCEPT ![w] = stage], session' = [session EXCEPT ![w] = s],
         SessionSound(w)', asked' \in 0..MaxRequests,
         UNCHANGED <<role, tables, recorded>>
  PROVE  IInv'
  <1>1. TypeOK'
    BY DEF IInv, TypeOK, tables, Existing
  <1>2. NumbersAreDense' /\ AuditIsTrue'
    BY DEF IInv, NumbersAreDense, AuditIsTrue, tables, Existing
  <1>3. ASSUME NEW v \in Workers, v # w PROVE SessionSound(v)'
    BY <1>3 DEF IInv, TypeOK, SessionSound, Req, Case, Assigned, Wrote, tables, Existing
  <1> QED BY <1>1, <1>2, <1>3 DEF IInv

LEMMA RefuseIInv ==
  ASSUME NEW w \in Workers, IInv, Refuse(w)
  PROVE  IInv'
  <1>1. SessionSound(w)'
    BY DEF Refuse, Finish, Goto, SessionSound, Loaded, IInv, TypeOK
  <1>2. asked' \in 0..MaxRequests /\ "idle" \in Stages
    BY DEF Refuse, IInv, TypeOK, Stages
  <1> QED BY <1>1, <1>2, NoSessionType, LocalIInv DEF Refuse, Finish, Goto

(* A step that changes the stage of one handler only.                      *)
LEMMA GotoIInv ==
  ASSUME NEW w \in Workers, IInv, NEW stage \in Stages, Goto(w, stage),
         UNCHANGED <<session, role, tables, recorded, asked>>,
         SessionSound(w)'
  PROVE  IInv'
  <1>1. session[w] \in SessionType /\ session' = [session EXCEPT ![w] = session[w]]
    BY DEF IInv, TypeOK
  <1>2. asked' \in 0..MaxRequests
    BY DEF IInv, TypeOK
  <1> QED BY <1>1, <1>2, LocalIInv DEF Goto

-----------------------------------------------------------------------------
(* Submission and the change of a role.                                    *)

LEMMA SubmitIInv ==
  ASSUME NEW w \in Workers, IInv, NEW r \in Requests, Submit(w, r)
  PROVE  IInv'
  <1> DEFINE s == [NoSession EXCEPT !.req = r, !.case = r.case, !.actor = role[r.user]]
             stage == IF r.op = "create" THEN "count" ELSE "case"
  <1>1. role[r.user] \in Roles
    BY RequestTyped DEF IInv, TypeOK
  <1>2. s \in SessionType /\ s.req = r
    BY <1>1, RequestTyped, NoSessionType DEF NoSession, SessionType
  <1>3. stage \in Stages /\ asked' \in 0..MaxRequests
    BY RequestsAssumption DEF Stages, Submit, IInv, TypeOK
  <1>4. pc' = [pc EXCEPT ![w] = stage] /\ session' = [session EXCEPT ![w] = s]
    BY DEF Submit, Goto
  <1>5. SessionSound(w)'
    <2>1. pc'[w] = stage /\ session'[w] = s
      BY <1>4 DEF IInv, TypeOK
    <2> HIDE DEF s
    <2> QED BY <1>2, <2>1 DEF SessionSound, Loaded, Req
  <1> HIDE DEF s, stage
  <1> QED BY <1>2, <1>3, <1>4, <1>5, LocalIInv DEF Submit, tables

LEMMA SetRoleIInv ==
  ASSUME IInv, NEW u \in Users, NEW new \in Roles, SetRole(u, new)
  PROVE  IInv'
  <1>1. TypeOK'
    BY DEF SetRole, IInv, TypeOK, Existing, tables
  <1>2. NumbersAreDense' /\ AuditIsTrue'
    BY DEF SetRole, IInv, NumbersAreDense, AuditIsTrue,
           Existing, tables
  <1>3. ASSUME NEW w \in Workers PROVE SessionSound(w)'
    BY DEF SetRole, IInv, SessionSound, Req, Case, Assigned, Wrote, Existing, tables
  <1> QED BY <1>1, <1>2, <1>3 DEF IInv

-----------------------------------------------------------------------------
(* create_case.                                                            *)

LEMMA CountIInv ==
  ASSUME NEW w \in Workers, IInv, CountCases(w)
  PROVE  IInv'
  <1> DEFINE s == [session[w] EXCEPT !.count = Cardinality(Existing)]
  <1>1. session[w] \in SessionType /\ SessionSound(w)
    BY DEF IInv, TypeOK
  <1>2. s \in SessionType
    BY <1>1, ExistingFinite DEF SessionType
  <1>3. pc' = [pc EXCEPT ![w] = "insert"] /\ session' = [session EXCEPT ![w] = s]
    BY DEF CountCases, Goto
  <1>4. SessionSound(w)'
    <2>1. pc'[w] = "insert" /\ session'[w] = s /\ Existing' = Existing
      BY <1>3 DEF IInv, TypeOK, CountCases, tables, Existing
    <2>2. s.req = session[w].req /\ s.count = Cardinality(Existing)
      BY <1>1 DEF SessionType
    <2> HIDE DEF s
    <2> QED BY <1>1, <2>1, <2>2, ExistingFinite DEF SessionSound, Loaded, Req, CountCases
  <1>5. "insert" \in Stages /\ asked' \in 0..MaxRequests
    BY DEF Stages, CountCases, IInv, TypeOK
  <1> HIDE DEF s
  <1> QED BY <1>2, <1>3, <1>4, <1>5, LocalIInv DEF CountCases

(* The heart of NumbersAreDense: a count is at most the number of cases    *)
(* there are; if it is lower, its successor is taken.                      *)
LEMMA FreeNumberIsNext ==
  ASSUME NEW w \in Workers, IInv, pc[w] = "insert", ~ NumberTaken(w)
  PROVE  session[w].count = Cardinality(Existing)
  <1> DEFINE n == Cardinality(Existing)
  <1>1. session[w].count \in Nat /\ session[w].count <= n
    BY DEF IInv, TypeOK, SessionType, SessionSound
  <1>2. n \in Nat
    BY ExistingFinite
  <1>3. {cases[c].number : c \in Existing} = 1..n
    BY DEF IInv, NumbersAreDense
  <1>4. session[w].count + 1 \notin 1..n
    BY <1>3 DEF NumberTaken
  <1> QED BY <1>1, <1>2, <1>4

LEMMA InsertIInv ==
  ASSUME NEW w \in Workers, IInv, InsertCase(w)
  PROVE  IInv'
  <1> DEFINE n == Cardinality(Existing)
  <1> PICK c \in CaseIds \ Existing :
        /\ cases' = [cases EXCEPT ![c] = [number |-> session[w].count + 1,
                                          status |-> "OPEN", findings |-> NoText]]
        /\ session' = [session EXCEPT ![w].case = c]
    BY DEF InsertCase
  <1> DEFINE row == [number |-> n + 1, status |-> "OPEN", findings |-> NoText]
             s == [session[w] EXCEPT !.case = c]
  <1>0. n \in Nat /\ Existing \subseteq CaseIds /\ IsFiniteSet(Existing)
    BY ExistingFinite
  <1>t. TypeOK /\ session[w] \in SessionType /\ SessionSound(w) /\ pc[w] = "insert"
    BY DEF IInv, TypeOK, InsertCase
  <1>1. cases' = [cases EXCEPT ![c] = row]
    BY FreeNumberIsNext DEF InsertCase
  <1>2. row \in Row
    BY <1>0 DEF Row, Statuses
  <1>3. cases' \in [CaseIds -> Row \cup {Absent}]
    BY <1>1, <1>2 DEF IInv, TypeOK
  <1>4. Existing' = Existing \cup {c}
    BY <1>t, <1>1, <1>2, AbsentIsNoRow DEF Existing, TypeOK
  <1>5. /\ \A d \in Existing : d # c /\ cases'[d] = cases[d]
        /\ cases'[c] = row
    BY <1>0, <1>t, <1>1 DEF TypeOK
  <1>6. s \in SessionType /\ s.req = session[w].req /\ s.case = c
    BY <1>t DEF SessionType
  <1>7. /\ session' = [session EXCEPT ![w] = s] /\ pc' = [pc EXCEPT ![w] = "audit"]
        /\ UNCHANGED <<role, assignments, events, recorded, asked>>
    BY DEF InsertCase, Goto
  <1> HIDE DEF s
  <1>8. TypeOK'
    BY <1>t, <1>3, <1>4, <1>6, <1>7 DEF TypeOK, Stages
  <1>9. NumbersAreDense'
    <2>1. Cardinality(Existing') = n + 1
      BY <1>0, <1>4, FS_AddElement
    <2>2. \A d \in Existing : cases'[d].number \in 1..n
      BY <1>5 DEF IInv, NumbersAreDense
    <2>3. cases'[c].number = n + 1
      BY <1>5
    <2>4. {cases'[d].number : d \in Existing'} = {cases[d].number : d \in Existing} \cup {n + 1}
      BY <1>4, <1>5, <2>3
    <2>5. {cases[d].number : d \in Existing} = 1..n
      BY DEF IInv, NumbersAreDense
    <2>6. (1..n) \cup {n + 1} = 1..(n + 1)
      BY <1>0
    <2>7. \A d, e \in Existing : cases'[d].number = cases'[e].number => d = e
      BY <1>5 DEF IInv, NumbersAreDense
    <2>8. \A d \in Existing : cases'[d].number # cases'[c].number
      BY <1>0, <2>2, <2>3
    <2>9. \A d, e \in Existing' : cases'[d].number = cases'[e].number => d = e
      BY <1>4, <2>7, <2>8
    <2> HIDE DEF n
    <2> QED BY <2>1, <2>4, <2>5, <2>6, <2>9 DEF NumbersAreDense
  <1>10. AuditIsTrue'
    BY <1>4, <1>5, <1>7 DEF IInv, AuditIsTrue
  <1>11. ASSUME NEW v \in Workers PROVE SessionSound(v)'
    <2>1. CASE v = w
      <3>1. pc'[w] = "audit" /\ session'[w] = s
        BY <1>t, <1>7 DEF TypeOK
      <3> QED BY <1>t, <1>4, <1>6, <2>1, <3>1 DEF SessionSound, Loaded, Req, Case
    <2>2. CASE v # w
      <3>1. pc'[v] = pc[v] /\ session'[v] = session[v] /\ SessionSound(v)
        BY <1>t, <1>7, <2>2 DEF TypeOK, IInv
      <3>2. session[v].count \in Nat /\ Cardinality(Existing') = n + 1
        BY <1>0, <1>t, <1>4, FS_AddElement DEF TypeOK, SessionType
      <3> HIDE DEF n
      <3>3. pc'[v] = "insert" => session'[v].count <= Cardinality(Existing')
        BY <1>0, <3>1, <3>2 DEF SessionSound, n
      <3> QED BY <1>4, <1>5, <1>7, <3>1, <3>3
              DEF SessionSound, Loaded, Req, Case, Assigned, Wrote
    <2> QED BY <2>1, <2>2
  <1> QED BY <1>8, <1>9, <1>10, <1>11 DEF IInv

-----------------------------------------------------------------------------
(* The case is loaded and the caller judged.                               *)

LEMMA LoadIInv ==
  ASSUME NEW w \in Workers, IInv, LoadCase(w)
  PROVE  IInv'
  <1> DEFINE s == [session[w] EXCEPT !.seen = cases[Case(w)]]
  <1> PICK stage \in {"investigator", "membership", "record"} :
        /\ pc' = [pc EXCEPT ![w] = stage]
        /\ stage = "investigator" => Req(w).op = "assign"
        /\ stage = "membership" => Req(w).op # "assign" /\ session[w].actor = "INVESTIGATOR"
        /\ stage = "record" => Req(w).op = "findings" /\ session[w].actor # "INVESTIGATOR"
    BY DEF LoadCase, Goto
  <1>1. session[w] \in SessionType /\ SessionSound(w) /\ TypeOK /\ pc[w] = "case"
    BY DEF IInv, TypeOK, LoadCase
  <1>2. cases[Case(w)] \in Row /\ Case(w) \in Existing
    BY <1>1, ExistingRows, ExistingFinite DEF LoadCase
  <1>3. s \in SessionType
    BY <1>1, <1>2 DEF SessionType
  <1>4. session' = [session EXCEPT ![w] = s]
    BY DEF LoadCase
  <1>5. stage \in Stages /\ asked' \in 0..MaxRequests
    BY DEF Stages, LoadCase, IInv, TypeOK
  <1>6. Req(w) \in Requests /\ Req(w).op # "create"
    BY <1>1 DEF SessionSound
  <1>7. SessionSound(w)'
    <2>1. pc'[w] = stage /\ session'[w] = s /\ UNCHANGED tables
      BY <1>1, <1>4 DEF TypeOK, LoadCase
    <2>2. /\ s.req = session[w].req /\ s.case = session[w].case
          /\ s.actor = session[w].actor /\ s.seen = cases[Case(w)]
      BY <1>1 DEF SessionType
    <2> HIDE DEF s
    <2> QED BY <1>2, <1>6, <2>1, <2>2, RequestTyped
            DEF SessionSound, Loaded, Req, Case, Assigned, Wrote, Existing, tables
  <1> HIDE DEF s
  <1> QED BY <1>3, <1>4, <1>5, <1>7, LocalIInv DEF LoadCase

LEMMA MembershipIInv ==
  ASSUME NEW w \in Workers, IInv, Outsider(w) \/ Insider(w)
  PROVE  IInv'
  <1>1. session[w] \in SessionType /\ SessionSound(w) /\ TypeOK /\ pc[w] = "membership"
    BY DEF IInv, TypeOK, Outsider, Insider
  <1>2. {"audit", "record", "idle"} \subseteq Stages
    BY DEF Stages
  <1>3. CASE Refuse(w)
    BY <1>3, RefuseIInv
  <1>4. CASE /\ Outsider(w) /\ Req(w).op = "view" /\ Goto(w, "audit")
             /\ session' = [session EXCEPT ![w].outcome = "DENIED"]
             /\ UNCHANGED <<role, tables, recorded, asked>>
    <2> DEFINE s == [session[w] EXCEPT !.outcome = "DENIED"]
    <2>1. /\ s \in SessionType /\ s.outcome = "DENIED"
          /\ s.req = session[w].req /\ s.case = session[w].case
      BY <1>1 DEF SessionType
    <2>2. pc' = [pc EXCEPT ![w] = "audit"] /\ session' = [session EXCEPT ![w] = s]
      BY <1>4 DEF Goto
    <2>3. pc'[w] = "audit" /\ session'[w] = s /\ UNCHANGED <<tables, asked>>
      BY <1>1, <1>4, <2>2 DEF TypeOK
    <2> HIDE DEF s
    <2>4. SessionSound(w)'
      BY <1>1, <2>1, <2>3 DEF SessionSound, Loaded, Req, Case, Existing, tables
    <2>5. asked' \in 0..MaxRequests
      BY <1>1, <2>3 DEF TypeOK
    <2> QED BY <1>2, <1>4, <2>1, <2>2, <2>4, <2>5, LocalIInv
  <1>5. CASE /\ Insider(w) /\ Req(w).op = "findings" /\ Goto(w, "record")
             /\ UNCHANGED <<session, role, tables, recorded, asked>>
    <2>1. SessionSound(w)'
      BY <1>1, <1>5 DEF Goto, Insider, SessionSound, Loaded, Req, Case, Assigned, Wrote,
                        Existing, TypeOK, tables
    <2> QED BY <1>2, <1>5, <2>1, GotoIInv
  <1> QED BY <1>3, <1>4, <1>5 DEF Outsider, Insider

-----------------------------------------------------------------------------
(* assign_investigator and update_findings.                                *)

LEMMA AssignIInv ==
  ASSUME NEW w \in Workers, IInv, IsInvestigator(w) \/ LookupAssignment(w)
  PROVE  IInv'
  <1>1. SessionSound(w) /\ TypeOK
    BY DEF IInv
  <1>2. {"existing", "audit", "attach"} \subseteq Stages
    BY DEF Stages
  <1>3. CASE IsInvestigator(w)
    <2>1. SessionSound(w)'
      BY <1>1, <1>3 DEF IsInvestigator, Goto, SessionSound, Loaded, Req, Case, Assigned,
                        Existing, TypeOK, tables
    <2> QED BY <1>2, <1>3, <2>1, GotoIInv DEF IsInvestigator
  <1>4. CASE LookupAssignment(w)
    <2> DEFINE stage == IF Assigned(w) THEN "audit" ELSE "attach"
    <2>1. pc[w] = "existing" /\ Goto(w, stage)
          /\ UNCHANGED <<session, role, tables, recorded, asked>>
      BY <1>4 DEF LookupAssignment
    <2>2. SessionSound(w)'
      BY <1>1, <2>1 DEF Goto, SessionSound, Loaded, Req, Case, Assigned,
                        Existing, TypeOK, tables
    <2>3. stage \in Stages
      BY <1>2
    <2> HIDE DEF stage
    <2> QED BY <2>1, <2>2, <2>3, GotoIInv
  <1> QED BY <1>3, <1>4

(* An UPDATE of the case in hand that erases no findings.                  *)
LEMMA UpdateIInv ==
  ASSUME NEW w \in Workers, IInv, pc[w] \in {"attach", "record"},
         NEW new \in Row, Update(w, new), new.number = session[w].seen.number,
         new.findings # session[w].seen.findings => new.findings # NoText,
         assignments \subseteq assignments', assignments' \subseteq Existing \X Users,
         Req(w).op = "assign" => Assigned(w)',
         recorded \subseteq recorded', Req(w).op = "findings" => Wrote(w)',
         recorded' \subseteq [case: Existing, user: Users, role: Roles],
         pc' = [pc EXCEPT ![w] = "audit"], UNCHANGED <<session, role, events, asked>>
  PROVE  /\ IInv'
         /\ \A c \in CaseIds : c \in Existing /\ cases[c].findings # NoText =>
              cases'[c] # Absent /\ cases'[c].findings # NoText
  <1> DEFINE c == Case(w)  row == Updated(session[w].seen, cases[c], new)
  <1>1. /\ TypeOK /\ SessionSound(w) /\ c \in Existing /\ session[w].seen \in Row
        /\ session[w].seen.findings # NoText => cases[c].findings # NoText
    BY DEF IInv, SessionSound, Loaded
  <1>2. c \in CaseIds /\ cases[c] \in Row
    BY <1>1, ExistingFinite, ExistingRows
  <1>3. /\ row \in Row /\ row.number = cases[c].number
        /\ row.findings = IF new.findings = session[w].seen.findings
                          THEN cases[c].findings ELSE new.findings
    BY <1>1, <1>2, UpdatedRow
  <1>4. cases' = [cases EXCEPT ![c] = row]
    BY DEF Update
  <1>5. /\ cases' \in [CaseIds -> Row \cup {Absent}] /\ cases'[c] = row
        /\ \A d \in CaseIds : d # c => cases'[d] = cases[d]
    BY <1>1, <1>2, <1>3, <1>4 DEF TypeOK
  <1>6. cases[c].findings # NoText => row.findings # NoText
    BY <1>3
  <1> HIDE DEF row
  <1>8. Existing' = Existing
    BY <1>1, <1>2, <1>3, <1>5, AbsentIsNoRow DEF Existing
  <1>9. \A d \in Existing : /\ cases'[d].number = cases[d].number
                            /\ cases[d].findings # NoText => cases'[d].findings # NoText
    BY <1>3, <1>5, <1>6, ExistingFinite
  <1>10. TypeOK'
    BY <1>1, <1>5, <1>8 DEF TypeOK, Stages
  <1>11. NumbersAreDense'
    BY <1>8, <1>9 DEF IInv, NumbersAreDense
  <1>12. AuditIsTrue'
    BY <1>8, <1>9 DEF IInv, AuditIsTrue
  <1>13. ASSUME NEW v \in Workers PROVE SessionSound(v)'
    <2>1. CASE v = w
      BY <1>1, <1>2, <1>5, <1>8, <2>1
      DEF TypeOK, SessionSound, Loaded, Req, Case, Assigned, Wrote
    <2>2. CASE v # w
      <3>1. /\ pc'[v] = pc[v] /\ session'[v] = session[v] /\ SessionSound(v)
            /\ Case(v)' = Case(v) /\ Req(v)' = Req(v)
        BY <1>1, <2>2 DEF TypeOK, IInv, Case, Req
      <3>2. (Wrote(v) => Wrote(v)') /\ (Assigned(v) => Assigned(v)')
        BY <3>1 DEF Wrote, Assigned
      <3> QED BY <1>8, <1>9, <3>1, <3>2 DEF SessionSound, Loaded
    <2> QED BY <2>1, <2>2
  <1>14. \A d \in Existing : cases'[d] # Absent
    BY <1>8 DEF Existing
  <1> QED BY <1>9, <1>10, <1>11, <1>12, <1>13, <1>14 DEF IInv

LEMMA AttachIInv ==
  ASSUME NEW w \in Workers, IInv, Attach(w)
  PROVE  /\ IInv'
         /\ \A c \in CaseIds : c \in Existing /\ cases[c].findings # NoText =>
              cases'[c] # Absent /\ cases'[c].findings # NoText
  <1> DEFINE new == Attached(session[w].seen)
  <1>1. /\ TypeOK /\ SessionSound(w) /\ pc[w] = "attach" /\ Req(w).op = "assign"
        /\ session[w].seen \in Row /\ Case(w) \in Existing /\ Req(w) \in Requests
    BY DEF IInv, Attach, SessionSound, Loaded
  <1>2. /\ new \in Row /\ new.number = session[w].seen.number
        /\ new.findings = session[w].seen.findings
    BY <1>1 DEF Attached, Row, Statuses
  <1>3. /\ assignments' = assignments \cup {<<Case(w), Req(w).investigator>>}
        /\ assignments' \subseteq Existing \X Users
        /\ pc' = [pc EXCEPT ![w] = "audit"]
        /\ UNCHANGED <<session, role, events, recorded, asked>> /\ Update(w, new)
    BY <1>1, RequestTyped DEF Attach, TypeOK, Goto
  <1>4. Assigned(w)'
    BY <1>3 DEF Assigned, Case, Req
  <1>5. recorded' \subseteq [case: Existing, user: Users, role: Roles]
    BY <1>1, <1>3 DEF TypeOK
  <1> HIDE DEF new
  <1> QED BY <1>1, <1>2, <1>3, <1>4, <1>5, UpdateIInv

LEMMA RecordIInv ==
  ASSUME NEW w \in Workers, IInv, RecordFindings(w)
  PROVE  /\ IInv'
         /\ \A c \in CaseIds : c \in Existing /\ cases[c].findings # NoText =>
              cases'[c] # Absent /\ cases'[c].findings # NoText
  <1> DEFINE new == [session[w].seen EXCEPT !.findings = Req(w).findings,
                                            !.status = Req(w).status]
  <1>1. /\ TypeOK /\ SessionSound(w) /\ pc[w] = "record" /\ Req(w).op = "findings"
        /\ session[w].seen \in Row /\ Case(w) \in Existing /\ Req(w) \in Requests
        /\ session[w] \in SessionType /\ assignments \subseteq Existing \X Users
    BY DEF IInv, TypeOK, RecordFindings, SessionSound, Loaded
  <1>2. /\ Req(w).findings \in Texts /\ Req(w).findings # NoText
        /\ Req(w).status \in Statuses
    BY <1>1, RequestTyped DEF RecordFindings
  <1>3. new \in Row /\ new.number = session[w].seen.number /\ new.findings # NoText
    BY <1>1, <1>2 DEF Row
  <1>4. /\ recorded' = recorded \cup {Author(w)}
        /\ recorded' \subseteq [case: Existing, user: Users, role: Roles]
        /\ Author(w).case = Case(w) /\ Author(w).user = Req(w).user
    <2>1. Author(w) \in [case: Existing, user: Users, role: Roles]
      BY <1>1, RequestTyped DEF Author, SessionType
    <2> QED BY <1>1, <2>1 DEF RecordFindings, Author, TypeOK
  <1>5. /\ pc' = [pc EXCEPT ![w] = "audit"] /\ Update(w, new)
        /\ UNCHANGED <<session, role, assignments, events, asked>>
    BY DEF RecordFindings, Goto
  <1>6. Wrote(w)'
    BY <1>4, <1>5 DEF Wrote, Case, Req
  <1> HIDE DEF new
  <1> QED BY <1>1, <1>3, <1>4, <1>5, <1>6, UpdateIInv

LEMMA LogEventIInv ==
  ASSUME NEW w \in Workers, IInv, LogEvent(w)
  PROVE  IInv'
  <1>1. /\ TypeOK /\ SessionSound(w) /\ pc[w] = "audit" /\ session[w] \in SessionType
        /\ Req(w) \in Requests /\ Case(w) \in Existing
    BY DEF IInv, TypeOK, LogEvent, SessionSound, Loaded
  <1>2. /\ pc' = [pc EXCEPT ![w] = "idle"]
        /\ session' = [session EXCEPT ![w] = NoSession]
        /\ events' = events \cup {Event(w)}
        /\ UNCHANGED <<role, cases, assignments, recorded, asked>>
    BY DEF LogEvent, Finish, Goto
  <1>3. Event(w) \in [action: {"create", "assign", "findings", "view"}, case: CaseIds,
                      outcome: {"SUCCESS", "DENIED"}, target: Users, actor: Users]
    BY <1>1, RequestTyped, ExistingFinite DEF Event, SessionType
  <1>4. TypeOK'
    BY <1>1, <1>2, <1>3, NoSessionType DEF TypeOK, Stages, Existing
  <1>5. Event(w).outcome = "SUCCESS" =>
          /\ Event(w).case \in Existing
          /\ Event(w).action = "assign" =>
               <<Event(w).case, Event(w).target>> \in assignments
          /\ Event(w).action = "findings" =>
               \E r \in recorded : r.case = Event(w).case /\ r.user = Event(w).actor
    BY <1>1 DEF Event, SessionSound, Assigned, Wrote
  <1>6. AuditIsTrue'
    BY <1>2, <1>5 DEF IInv, AuditIsTrue, Existing
  <1>7. NumbersAreDense'
    BY <1>2 DEF IInv, NumbersAreDense, Existing
  <1>8. ASSUME NEW v \in Workers PROVE SessionSound(v)'
    BY <1>1, <1>2 DEF IInv, TypeOK, SessionSound, Loaded, Req, Case, Assigned, Wrote,
                      Existing
  <1> QED BY <1>4, <1>6, <1>7, <1>8 DEF IInv

-----------------------------------------------------------------------------

FindingsStay ==
  \A c \in CaseIds : c \in Existing /\ cases[c].findings # NoText =>
     cases'[c] # Absent /\ cases'[c].findings # NoText

LEMMA StepIInv ==
  ASSUME NEW w \in Workers, IInv, Step(w) \/ Crash(w)
  PROVE  IInv' /\ FindingsStay
  <1>1. CASE CountCases(w)
    BY <1>1, CountIInv DEF CountCases, tables, FindingsStay, Existing
  <1>2. CASE InsertCase(w)
    <2>1. FindingsStay
      <3>1. PICK c \in CaseIds \ Existing : \A d \in CaseIds : d # c => cases'[d] = cases[d]
        BY <1>2 DEF InsertCase, IInv, TypeOK
      <3> QED BY <3>1 DEF FindingsStay, Existing
    <2> QED BY <1>2, <2>1, InsertIInv
  <1>3. CASE LoadCase(w)
    BY <1>3, LoadIInv DEF LoadCase, tables, FindingsStay, Existing
  <1>4. CASE Outsider(w) \/ Insider(w)
    BY <1>4, MembershipIInv DEF Outsider, Insider, Refuse, tables, FindingsStay, Existing
  <1>5. CASE IsInvestigator(w) \/ LookupAssignment(w)
    BY <1>5, AssignIInv DEF IsInvestigator, LookupAssignment, tables, FindingsStay, Existing
  <1>6. CASE Attach(w)
    BY <1>6, AttachIInv DEF FindingsStay
  <1>7. CASE RecordFindings(w)
    BY <1>7, RecordIInv DEF FindingsStay
  <1>8. CASE LogEvent(w)
    BY <1>8, LogEventIInv DEF LogEvent, FindingsStay, Existing
  <1>9. CASE Refuse(w)
    BY <1>9, RefuseIInv DEF Refuse, tables, FindingsStay, Existing
  <1>10. CASE InsertClash(w) \/ CaseMissing(w) \/ ViewByRole(w) \/ NotInvestigator(w)
              \/ AttachClash(w) \/ RecordFails(w) \/ Crash(w)
    BY <1>9, <1>10
    DEF InsertClash, CaseMissing, ViewByRole, NotInvestigator, AttachClash, RecordFails, Crash
  <1> QED BY <1>1, <1>2, <1>3, <1>4, <1>5, <1>6, <1>7, <1>8, <1>10 DEF Step

LEMMA NextIInv ==
  ASSUME IInv, [Next]_vars
  PROVE  IInv' /\ FindingsStay
  <1>1. CASE UNCHANGED vars
    <2>1. UNCHANGED <<pc, session, role, cases, assignments, events, recorded, asked>>
      BY <1>1 DEF vars, tables
    <2>2. TypeOK'
      BY <2>1 DEF IInv, TypeOK, Existing
    <2>3. NumbersAreDense'
      BY <2>1 DEF IInv, NumbersAreDense, Existing
    <2>4. AuditIsTrue'
      BY <2>1 DEF IInv, AuditIsTrue, Existing
    <2>5. ASSUME NEW w \in Workers PROVE SessionSound(w)'
      BY <2>1 DEF IInv, SessionSound, Req, Case, Assigned, Wrote, Existing
    <2> QED BY <2>1, <2>2, <2>3, <2>4, <2>5 DEF IInv, FindingsStay, Existing
  <1>2. ASSUME NEW w \in Workers, NEW r \in Requests, Submit(w, r)
        PROVE  IInv' /\ FindingsStay
    BY <1>2, SubmitIInv DEF Submit, tables, FindingsStay, Existing
  <1>3. ASSUME NEW u \in Users, NEW new \in Roles, SetRole(u, new)
        PROVE  IInv' /\ FindingsStay
    BY <1>3, SetRoleIInv DEF SetRole, tables, FindingsStay, Existing
  <1> QED BY <1>1, <1>2, <1>3, StepIInv DEF Next

LEMMA Invariance == Spec => []IInv
  BY InitIInv, NextIInv, PTL DEF Spec

(* Types; and a handler that has loaded a case holds a row of it.          *)
THEOREM TypeCorrect == Spec => []TypeOK
  <1>1. IInv => TypeOK
    BY DEF IInv
  <1> QED BY <1>1, Invariance, PTL

(* Cases are numbered 1, 2, 3, ... without gap or repetition, however many *)
(* creations race between count and insertion.                             *)
THEOREM NumbersStayDense == Spec => []NumbersAreDense
  <1>1. IInv => NumbersAreDense
    BY DEF IInv
  <1> QED BY <1>1, Invariance, PTL

(* The audit log tells no success that its actor did not commit, whoever   *)
(* else wrote to the case.                                                 *)
THEOREM LogTellsTheTruth == Spec => []AuditIsTrue
  <1>1. IInv => AuditIsTrue
    BY DEF IInv
  <1> QED BY <1>1, Invariance, PTL

(* No handler erases findings, however old the row it loaded is.           *)
THEOREM FindingsAreKept == Spec => FindingsKept
  <1>1. IInv /\ [Next]_vars =>
          [\A c \in CaseIds : c \in Existing /\ cases[c].findings # NoText =>
             cases'[c] # Absent /\ cases[c]'.findings # NoText]_vars
    BY NextIInv DEF FindingsStay
  <1> QED BY <1>1, Invariance, PTL DEF Spec, FindingsKept
=============================================================================
