\* The audit log against what admin/sessions.ts says of it.
SPECIFICATION Spec
CONSTANTS
  Email = {ann, bob}
  AdminEmails = {ann}
  Tag = {t1}
  NoTag = NoTag
  Code = {k1}
  Absent = Absent
  Untold = Untold
  Never = Never
  Replays = TRUE
  MaxSid = 1
  MaxNow = 1
  MaxInflight = 1
INVARIANT AuditIsComplete
