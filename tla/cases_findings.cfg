SPECIFICATION Spec
CONSTANTS
  Workers = {w1, w2}
  NoRequest = NoRequest
  NoText = NoText
  w1 = w1
  w2 = w2
  t1 = t1
  t2 = t2
  Users <- MCUsers
  OpeningRole <- MCOpeningRole
  CaseIds = {1, 2}
  Texts = {t1, t2}
  Grants <- MCGrants
  MaxRequests = 5
  Requests <- MCRequests
SYMMETRY Symmetry
INVARIANT FindingsOnAssignedCases
