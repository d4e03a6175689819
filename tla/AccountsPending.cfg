\* The smallest instance in which an admin makes a row for an address before
\* its owner signs in for the first time.
SPECIFICATION Spec
CONSTANTS
  ann = ann
  e1 = e1
  e2 = e2
  Person = {ann}
  Email = {e1, e2}
  FirstEmail <- FirstAddress
  AdminEmails = {}
  Invited = {e1}
  Absent = Absent
  TTL = 1
  MaxFlow = 1
  MaxToken = 1
  MaxNow = 1
PROPERTIES
  StubIsClaimed
