CONSTANTS
  Staff = {"sam", "mo", "ann"}
  Role <- RoleOf
  Leads = {l1}
  Quotes = {q1}
  Entries = {e1}
  Proformas = {p1}
  Amounts = {1, 2}
  References = {"r1", "r2"}
  Requests = {w1, w2}
  Doable = {"create", "status", "edit", "delete", "note", "assign", "payment"}
  Targets = {"Pending Approval", "Approved", "Accepted", "Sent", "Issued", "Cancelled"}
  MaxVersion = 5
  KindOf <- Kept
  HomeOf <- Homes
  EndsOf <- Ends
  Deals = {"d1", "d2"}
  Callers = {a1, a2}
  None = none
  MaxChanges = 3
  Told = {"quote", "payments", "linked", "documents", "people", "deals", "catalogue"}
SPECIFICATION MCSpec
SYMMETRY Interchangeable
INVARIANTS
  AcceptanceIsWhole
  ReviewIsIndependent
  ApprovedTermsStand
  PaymentsAddUp
  AuditTellsEveryChange
  RelationsHold
PROPERTIES
  KeepsThePromise
  NothingIsOverwritten
  ChoicesAreCurrent
