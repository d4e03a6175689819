------------------------------- MODULE MCSite -------------------------------
(***************************************************************************)
(* Web, Listing and Redact on small instances.  What is independent is      *)
(* explored side by side instead of multiplied: every behaviour plays one   *)
(* scene, chosen in its initial state, and a scene bounds who does what in  *)
(* it.  In the scene of Redact one text after another arrives.              *)
(***************************************************************************)
EXTENDS Web, Listing, Redact, TLC

CONSTANTS
  ann, bob, k1, t1, b1, b2,
  Played  \* bound: the kinds of scenes that are played

VARIABLE scene

Ann == [email |-> ann, pending |-> FALSE]
Bob == [email |-> bob, pending |-> FALSE]
Stub == [email |-> bob, pending |-> TRUE]

JoinForms == {ProfilePage, JoinLink(k1), join(k1)}

\* a form for each operation of the admin pages, and the pages
AdminForms ==
  {update(1, "code", t1), delete(1), addGrant(1, bob), removeGrant(1, Bob),
   invite(bob, "viewer"), promote(Bob), demote(Ann), remove(Bob),
   create(k1, [tag |-> t1, expires |-> Never]), deleteCode(k1),
   SessionPage(1), AuditPage, UsersPage, SessionView(1), TagView}

Forms == JoinForms \cup AdminForms \cup {SessionsPage}

Builds == {{}, {"broken"}, {"works"}}

Environments ==
  [{"DATABASE_PATH", "REDACTION_EXTRA_PATTERNS"} -> {"absent", "bad", "good", "lazy"}]

\* Texts to redact: every short one, and every one of three lines of these.
Alphabet == {Newline, Begin, End, Name, Word("mail"), Word("other"),
             Secret("ai-key"), Secret("jwt"), Mark("ai-key")}

Lines ==
  {<<>>, <<Word("other")>>, <<Name>>, <<Begin>>, <<End>>, <<Name, Begin>>,
   <<Name, Word("other")>>, <<Name, Secret("ai-key")>>, <<Name, Mark("env-var")>>,
   <<End, Word("mail")>>, <<End, Name, Word("mail")>>, <<Name, Begin, End>>}

Texts == UNION {[1 .. n -> Alphabet] : n \in 0 .. 3}
           \cup {a \o <<Newline>> \o b \o <<Newline>> \o c : a, b, c \in Lines}

\* The scenes: the processes alone; two browsers that sign in; one that
\* follows join links and signs in, with the development server and with the
\* production build; one that works on the list of sessions; one that sends a
\* form; a listing; a text.
Scene(kind, forms) == [kind |-> kind, forms |-> forms]
ListScene(bulk) == [kind |-> "list", forms |-> {SessionsPage}, bulk |-> bulk]

LoginForms == {[kind |-> "login"]} \cup {[kind |-> "callback", email |-> e] : e \in Email}

Scenes ==
  {Scene("process", {}), Scene("login", LoginForms), Scene("join", JoinForms \cup LoginForms),
   Scene("production", JoinForms \cup LoginForms),
   ListScene("drop"), ListScene("show"), Scene("listing", {}),
   Scene("text", {})}
    \cup {Scene("form", {f}) : f \in AdminForms}

FormsOfScene ==
  scene.forms \cup (IF scene.kind = "list"
                    THEN {f \in BulkForms(b1) : f.calls[1].op = scene.bulk} ELSE {})

\* the forms this step sends
Sent == {req'[b].form : b \in {d \in Browser : req[d] = Nobody /\ req'[d] # Nobody}}

InScene ==
  /\ scene' = scene
  /\ scene.kind = "process" => req' = req
  /\ scene.kind # "process" => proc'["cli"] = "down" /\ patterns' = "good"
  /\ scene.kind \notin {"process", "login", "production"} => req'[b2] = Nobody
  /\ scene.kind = "production" => req'[b1] = Nobody
  /\ scene.kind # "join" => now' = now
  /\ scene.kind \in {"login", "join", "production"} =>
       /\ sessions' = sessions /\ inflight' = {} /\ auditors' = auditors
       /\ {u \in UserId : Exists(u) /\ users'[u] \notin {users[u], Absent}} = {}
  /\ scene.kind = "list" =>
       /\ proc'["server"] # "down" /\ mount' # "missing"
       /\ users'[Bob] = users[Bob] /\ auditors' = auditors
       /\ \A s \in Sid : sessions'[s] \in {NewSession, [NewSession EXCEPT !.vis = "shared"], Absent}
       /\ \A b \in Browser : req'[b] # Nobody => req'[b].rows \in {{}, {1}, Sid}
       /\ scene.bulk = "show" => \A s \in Sid : sessions'[s] # Absent
       /\ scene.bulk = "drop" => inflight' = {}
  /\ Sent \subseteq FormsOfScene

InUse ==
  /\ users = [u \in UserId |-> CASE u = Ann -> "admin" [] u = Bob -> "viewer" [] OTHER -> Absent]
  /\ sessions = [s \in Sid |-> NewSession]
  /\ nextSid = MaxSid + 1
  /\ \E expires \in IF scene.kind = "join" THEN {1, Never} ELSE {Never} :
       codes = [k \in Code |-> [tag |-> t1, expires |-> expires]]
  /\ grants = {} /\ redemptions = {} /\ inflight = {} /\ auditors = {Ann}
  /\ told = [users |-> [u \in UserId |-> Untold],
             sessions |-> [s \in Sid |-> Untold],
             codes |-> [k \in Code |-> Absent], grants |-> {}]
  /\ now = 0

\* a fresh database, or one in use; only the scene of the processes starts
\* behind the migration files
MCInit ==
  /\ scene \in Scenes /\ scene.kind \in Played
  /\ ServerInit
  /\ BrowserInit
  /\ login = [b \in Browser |-> IF b = b1 /\ scene.kind \in {"list", "form"} THEN Ann
                                ELSE Nobody]
  /\ scene.kind = "process" \/ recorded = File
  /\ IF recorded = {} THEN Init ELSE InUse
  /\ rows = {} /\ page = {} /\ cursor = NoPage /\ read = {} /\ stayed = {}
  /\ options \in IF scene.kind = "text" THEN Options ELSE {[emails |-> TRUE, extra |-> TRUE]}
  /\ input = <<>>

OfListing == scene.kind = "listing" /\ ListingNext /\ UNCHANGED <<siteVars, redactVars, scene>>

\* Arrives, for one of the texts and then an empty one
OfText ==
  /\ scene.kind = "text"
  /\ input' \in (IF input = <<>> THEN Texts ELSE {<<>>}) /\ options' = options
  /\ UNCHANGED <<siteVars, listingVars, scene>>

OfSite ==
  /\ scene.kind \in {"process", "login", "join", "production", "list", "form"}
  /\ SiteNext
  /\ InScene
  /\ UNCHANGED <<listingVars, redactVars>>

MCNext == OfListing \/ OfText \/ OfSite

MCSpec == MCInit /\ [][MCNext]_<<siteVars, listingVars, redactVars, scene>>

MCFairSpec == MCSpec /\ SiteFairness
=============================================================================
