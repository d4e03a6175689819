\* One person, whose browser may have three logins under way, and two addresses:
\* the one the account starts with, on the allowlist, and one an admin may
\* have made a row for.  Two units of TTL, so that a visit in the middle of a
\* session's life makes a difference.
SPECIFICATION Spec
CONSTANTS
  ann = ann
  e1 = e1
  e2 = e2
  Person = {ann}
  Email = {e1, e2}
  FirstEmail <- FirstAddress
  AdminEmails = {e1}
  Invited = {e2}
  Absent = Absent
  TTL = 2
  MaxFlow = 3
  MaxToken = 3
  MaxNow = 3
INVARIANTS
  SlidesByTTL
PROPERTIES
  DeadStaysDead
  RoleIsKept
