SPECIFICATION MCSpec
CONSTANTS
  ann = ann
  bob = bob
  k1 = k1
  t1 = t1
  b1 = b1
  b2 = b2
  Email = {ann, bob}
  AdminEmails = {ann}
  Tag = {t1}
  NoTag = NoTag
  Code = {k1}
  Absent = Absent
  Untold = Untold
  Never = Never
  Replays = FALSE
  MaxSid = 2
  MaxNow = 1
  MaxInflight = 1
  Files = 3
  Field = {"DATABASE_PATH", "REDACTION_EXTRA_PATTERNS"}
  Defaulted = {"REDACTION_EXTRA_PATTERNS"}
  Environment <- Environments
  WebBuild <- Builds
  Browser = {b1, b2}
  Dev = {b1}
  Nobody = Nobody
  Stale = Stale
  PendingTTL = 1
  MaxAsked = 2
  Form <- Forms
  Id = {1, 2, 3, 4, 5}
  Limit = 2
  NoPage = NoPage
  Played = {"production"}
INVARIANTS
  MeOncePerRequest
