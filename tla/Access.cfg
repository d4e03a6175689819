\* Two people, one of them on the admin list, either of them perhaps a stub first;
\* two requests wait for their bodies; codes expire at any instant.
SPECIFICATION Spec
CONSTANTS
  Email = {ann, bob}
  AdminEmails = {ann}
  Tag = {t1}
  NoTag = NoTag
  Code = {k1}
  Absent = Absent
  Untold = Untold
  Never = Never
  Replays = FALSE
  MaxSid = 1
  MaxNow = 2
  MaxInflight = 2
INVARIANTS ForeignKeys MeAgrees
PROPERTIES NothingInherited AccessIsGiven JoinedSees AdminsDeleteLeavesOne
