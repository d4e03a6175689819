------------------------------- MODULE Access -------------------------------
(***************************************************************************)
(* Who may see which session: the tables users, sessions, session_grants,   *)
(* class_codes and code_redemptions with their foreign keys, the one        *)
(* access-check query, the admin routes that write those tables and audit   *)
(* what they wrote, POST /api/join, and the first sign-in that makes a      *)
(* user.                                                                    *)
(*                                                                          *)
(* A request with a body is authenticated when its headers arrive and goes  *)
(* on when `await c.req.json()` returns; any number of other requests run   *)
(* in between, so it is two steps here and its user may be demoted or       *)
(* deleted between them.  Routes without a body are one step.               *)
(*                                                                          *)
(* A user is known by an address: id is the OIDC sub of the owner of the    *)
(* address, or the provisional 'pending:' id an admin made for it.  Of the  *)
(* audit log the module keeps what it tells a reader who replays it, and    *)
(* the users it names.                                                      *)
(***************************************************************************)
EXTENDS Integers, FiniteSets

CONSTANTS
  Email,       \* addresses of the people who have to do with the system
  AdminEmails, \* config.ADMIN_EMAILS
  Tag,         \* tags
  NoTag,       \* SQL NULL in sessions.tag
  Code,        \* class codes
  Absent,      \* no row with this key
  Untold,      \* the audit log says nothing of this key
  Never,       \* SQL NULL in class_codes.expires_at
  Replays,     \* bound: is the audit log replayed?  If not, told stays as it is
  MaxSid,      \* bound: session rows ever created
  MaxNow,      \* bound: the latest instant
  MaxInflight  \* bound: requests waiting for their body at once

ASSUME AccessAssumption ==
  /\ AdminEmails \subseteq Email
  /\ NoTag \notin Tag
  /\ MaxSid \in Nat
  /\ MaxNow \in Nat
  /\ MaxInflight \in Nat
  /\ Never \notin Int
  /\ Replays \in BOOLEAN

VARIABLES
  users,       \* id -> role, or Absent
  sessions,    \* id -> visibility and tag, or Absent
  nextSid,     \* the next session ULID
  codes,       \* code -> tag and expiry, or Absent
  grants,      \* <<session, user>> pairs
  redemptions, \* <<code, user>> pairs
  inflight,    \* for whom authenticated requests wait for their body
  auditors,    \* users with rows in audit_log
  told,        \* what replaying audit_log says of each table
  now

tables == <<users, sessions, nextSid, codes, grants, redemptions>>
audit  == <<auditors, told>>
vars   == <<tables, inflight, audit, now>>

Role       == {"admin", "viewer"}
UserId     == [email : Email, pending : BOOLEAN]
Sid        == 1 .. MaxSid
SessionRow == [vis : {"private", "shared", "code"}, tag : Tag \cup {NoTag}]
CodeRow    == [tag : Tag, expires : (0 .. MaxNow) \cup {Never}]
Request    == [user : UserId, scope : {"admin", "user"}]

ASSUME AbsentIsNoRow ==
  Absent \notin Role /\ Absent \notin SessionRow /\ Absent \notin CodeRow

Exists(u)  == users[u] # Absent
Admins     == {u \in UserId : users[u] = "admin" /\ ~u.pending}
Viewers    == {u \in UserId : users[u] = "viewer" /\ ~u.pending}

TypeOK ==
  /\ users \in [UserId -> Role \cup {Absent}]
  /\ sessions \in [Sid -> SessionRow \cup {Absent}]
  /\ nextSid \in 1 .. MaxSid + 1
  /\ codes \in [Code -> CodeRow \cup {Absent}]
  /\ grants \subseteq Sid \X UserId
  /\ redemptions \subseteq Code \X UserId
  /\ inflight \subseteq Request
  /\ auditors \subseteq UserId
  /\ told \in [users : [UserId -> Role \cup {Absent, Untold}],
               sessions : [Sid -> SessionRow \cup {Absent, Untold}],
               codes : [Code -> CodeRow \cup {Absent}],
               grants : SUBSET (Sid \X UserId)]
  /\ now \in 0 .. MaxNow

Init ==
  /\ users = [u \in UserId |-> Absent]
  /\ sessions = [s \in Sid |-> Absent]
  /\ nextSid = 1
  /\ codes = [k \in Code |-> Absent]
  /\ grants = {}
  /\ redemptions = {}
  /\ inflight = {}
  /\ auditors = {}
  /\ told = [users |-> [u \in UserId |-> Untold],
             sessions |-> [s \in Sid |-> Untold],
             codes |-> [k \in Code |-> Absent],
             grants |-> {}]
  /\ now = 0

----------------------------------------------------------------------------
\* The access check.

\* Mutant of Unexpired: a code that has expired counts, a valid one does not
UnexpiredReversed(k) == codes[k].expires = Never \/ codes[k].expires <= now

\* c.expires_at IS NULL OR c.expires_at > now
Unexpired(k) == codes[k].expires = Never \/ codes[k].expires > now

\* the redeemed codes the query joins with class_codes
RedeemedCodes(u) ==
  {k \in Code : /\ <<k, u>> \in redemptions
                /\ codes[k] # Absent
                /\ Unexpired(k)}

\* canViewSession(userId, userRole, sessionId)
CanView(u, role, s) ==
  /\ sessions[s] # Absent
  /\ \/ role = "admin"
     \/ sessions[s].vis = "shared" /\ <<s, u>> \in grants
     \/ /\ sessions[s].vis = "code"
        /\ \E k \in RedeemedCodes(u) : codes[k].tag = sessions[s].tag

\* what a signed-in user u can open now
Sees(u, s) == ~u.pending /\ Exists(u) /\ CanView(u, users[u], s)

\* Mutant of CountedSessions: the count forgets the expiry
CountedSessionsEver(u) ==
  {s \in Sid : /\ sessions[s] # Absent
               /\ \/ sessions[s].vis = "shared" /\ <<s, u>> \in grants
                  \/ /\ sessions[s].vis = "code"
                     /\ \E k \in Code : /\ <<k, u>> \in redemptions
                                        /\ codes[k] # Absent
                                        /\ codes[k].tag = sessions[s].tag}

\* the sessions GET /api/me counts for a viewer, with a query of its own
CountedSessions(u) ==
  {s \in Sid : /\ sessions[s] # Absent
               /\ \/ sessions[s].vis = "shared" /\ <<s, u>> \in grants
                  \/ /\ sessions[s].vis = "code"
                     /\ \E k \in RedeemedCodes(u) : codes[k].tag = sessions[s].tag}

\* the tags GET /api/me counts for a viewer
CountedTags(u) == {codes[k].tag : k \in RedeemedCodes(u)}

----------------------------------------------------------------------------
\* The audit log.

\* writeAuditLog: a row that names the actor and carries what a reader then
\* believes.  audit_log.actor_id is a foreign key: the insert throws when
\* the actor is gone, and what the handler wrote before it stays written.
WriteAuditLog(actor, belief) ==
  IF users'[actor] # Absent
  THEN /\ auditors' = auditors \cup {actor}
       /\ told' = IF Replays THEN belief ELSE told
  ELSE UNCHANGED audit

\* What ON DELETE CASCADE leaves of a table when a parent row goes.

\* Mutant of WithoutCode: class_codes deleted with foreign_keys off
WithoutCodeNoCascade(set, k) == set

\* Mutant of WithoutUser: the foreign key to users lacks its cascade
WithoutUserNoCascade(set, u) == set

WithoutSession(set, s) == {row \in set : row[1] # s}
WithoutCode(set, k)    == {row \in set : row[1] # k}
WithoutUser(set, u)    == {row \in set : row[2] # u}

----------------------------------------------------------------------------
\* Requests with a body: headers first, then the rest of the handler.

\* sessionMiddleware, requireAuth and, for scope "admin", requireAdmin; the
\* handler then waits for the body
Authenticate(u, scope) ==
  /\ Exists(u) /\ ~u.pending
  /\ scope = "admin" => users[u] = "admin"
  /\ Cardinality(inflight) < MaxInflight
  /\ inflight' = inflight \cup {[user |-> u, scope |-> scope]}
  /\ UNCHANGED <<tables, audit, now>>

\* request q waits no longer; another of the same user may
Departs(q) == inflight' \in {inflight, inflight \ {q}}

\* the body does not come or does not parse, or names a row that is not there
\* or a key that is taken (400, 404, 409), or an insert violates a foreign key
\* (500)
Refuse(q) ==
  /\ Departs(q)
  /\ UNCHANGED <<tables, audit, now>>

\* the server dies with all that wait
Interrupt ==
  /\ inflight' = {}
  /\ UNCHANGED <<tables, audit, now>>

\* PATCH /api/admin/sessions/:id
PatchSession(q, s, row) ==
  /\ q.scope = "admin"
  /\ sessions[s] # Absent
  /\ sessions' = [sessions EXCEPT ![s] = row]
  /\ Departs(q)
  /\ UNCHANGED <<users, nextSid, codes, grants, redemptions, now>>
  /\ WriteAuditLog(q.user, [told EXCEPT !.sessions[s] = row])

\* POST /api/admin/sessions/:id/grants
Grant(q, s, u) ==
  /\ q.scope = "admin"
  /\ sessions[s] # Absent
  /\ Exists(u)
  /\ grants' = grants \cup {<<s, u>>}
  /\ Departs(q)
  /\ UNCHANGED <<users, sessions, nextSid, codes, redemptions, now>>
  /\ WriteAuditLog(q.user, [told EXCEPT !.grants = @ \cup {<<s, u>>}])

EmailTaken(e) == \E u \in UserId : u.email = e /\ Exists(u)

\* POST /api/admin/users: a stub under a provisional id
CreateUser(q, e, role) ==
  /\ q.scope = "admin"
  /\ ~EmailTaken(e)
  /\ LET u == [email |-> e, pending |-> TRUE]
     IN  /\ users' = [users EXCEPT ![u] = role]
         /\ Departs(q)
         /\ UNCHANGED <<sessions, nextSid, codes, grants, redemptions, now>>
         /\ WriteAuditLog(q.user, [told EXCEPT !.users[u] = role])

\* PATCH /api/admin/users/:id
PatchUser(q, u, role) ==
  /\ q.scope = "admin"
  /\ Exists(u)
  /\ users' = [users EXCEPT ![u] = role]
  /\ Departs(q)
  /\ UNCHANGED <<sessions, nextSid, codes, grants, redemptions, now>>
  /\ WriteAuditLog(q.user, [told EXCEPT !.users[u] = role])

\* POST /api/admin/codes
CreateCode(q, k, row) ==
  /\ q.scope = "admin"
  /\ codes[k] = Absent
  /\ codes' = [codes EXCEPT ![k] = row]
  /\ Departs(q)
  /\ UNCHANGED <<users, sessions, nextSid, grants, redemptions, now>>
  /\ WriteAuditLog(q.user, [told EXCEPT !.codes[k] = row])

\* Mutant of Expired: a code is good for the instant it expires at
ExpiredAfter(k) == codes[k].expires # Never /\ codes[k].expires < now

\* row.expiresAt !== null && row.expiresAt <= now
Expired(k) == codes[k].expires # Never /\ codes[k].expires <= now

\* POST /api/join that is granted; the insert needs the user row
Redeem(q, k) ==
  /\ q.scope = "user"
  /\ codes[k] # Absent
  /\ ~Expired(k)
  /\ Exists(q.user)
  /\ redemptions' = redemptions \cup {<<k, q.user>>}
  /\ Departs(q)
  /\ UNCHANGED <<users, sessions, nextSid, codes, grants, audit, now>>

----------------------------------------------------------------------------
\* Routes without a body: authenticated and served in one turn.

\* DELETE /api/admin/sessions/:id
DeleteSession(a, s) ==
  /\ sessions[s] # Absent
  /\ sessions' = [sessions EXCEPT ![s] = Absent]
  /\ grants' = WithoutSession(grants, s)
  /\ UNCHANGED <<users, nextSid, codes, redemptions, inflight, now>>
  /\ WriteAuditLog(a, [told EXCEPT !.sessions[s] = Absent,
                                   !.grants = WithoutSession(@, s)])

\* DELETE /api/admin/sessions/:id/grants/:userId, also when there is none
Revoke(a, s, u) ==
  /\ grants' = grants \ {<<s, u>>}
  /\ UNCHANGED <<users, sessions, nextSid, codes, redemptions, inflight, now>>
  /\ WriteAuditLog(a, [told EXCEPT !.grants = @ \ {<<s, u>>}])

\* Mutant of MayDelete: an admin may delete the own account
MayDeleteAnyone(a, u) == u \notin auditors

\* cannot_delete_self, and audit_log's ON DELETE RESTRICT
MayDelete(a, u) == u # a /\ u \notin auditors

\* DELETE /api/admin/users/:id
DeleteUser(a, u) ==
  /\ Exists(u)
  /\ MayDelete(a, u)
  /\ users' = [users EXCEPT ![u] = Absent]
  /\ grants' = WithoutUser(grants, u)
  /\ redemptions' = WithoutUser(redemptions, u)
  /\ UNCHANGED <<sessions, nextSid, codes, inflight, now>>
  /\ WriteAuditLog(a, [told EXCEPT !.users[u] = Absent,
                                   !.grants = WithoutUser(@, u)])

\* DELETE /api/admin/codes/:code
DeleteCode(a, k) ==
  /\ codes[k] # Absent
  /\ codes' = [codes EXCEPT ![k] = Absent]
  /\ redemptions' = WithoutCode(redemptions, k)
  /\ UNCHANGED <<users, sessions, nextSid, grants, inflight, now>>
  /\ WriteAuditLog(a, [told EXCEPT !.codes[k] = Absent])

----------------------------------------------------------------------------
\* What others do to these tables.

\* the row a new session gets
NewSession == [vis |-> "private", tag |-> NoTag]

\* POST /api/ingest for a claude_session_id not seen before
StartSession ==
  /\ nextSid \in Sid
  /\ sessions' = [sessions EXCEPT ![nextSid] = NewSession]
  /\ nextSid' = nextSid + 1
  /\ UNCHANGED <<users, codes, grants, redemptions, inflight, audit, now>>

\* the first GET /auth/callback of the owner of e; users.email is UNIQUE, so
\* the insert throws when a stub has the address
SignUp(e) ==
  LET u == [email |-> e, pending |-> FALSE]
  IN  /\ ~EmailTaken(e)
      /\ users' = [users EXCEPT ![u] = IF e \in AdminEmails THEN "admin"
                                       ELSE "viewer"]
      /\ told' = IF Replays THEN [told EXCEPT !.users[u] = Untold]
                 ELSE told              \* a sign-in is not an admin's write
      /\ UNCHANGED <<sessions, nextSid, codes, grants, redemptions, inflight,
                     auditors, now>>

Tick ==
  /\ now < MaxNow
  /\ now' = now + 1
  /\ UNCHANGED <<tables, inflight, audit>>

WithBody(q) ==
  \/ \E s \in Sid, row \in SessionRow : PatchSession(q, s, row)
  \/ \E s \in Sid, u \in UserId : Grant(q, s, u)
  \/ \E e \in Email, role \in Role : CreateUser(q, e, role)
  \/ \E u \in UserId, role \in Role : PatchUser(q, u, role)
  \/ \E k \in Code, row \in CodeRow : CreateCode(q, k, row)

WithoutBody(a) ==
  \/ \E s \in Sid : DeleteSession(a, s)
  \/ \E s \in Sid, u \in UserId : Revoke(a, s, u)
  \/ \E u \in UserId : DeleteUser(a, u)
  \/ \E k \in Code : DeleteCode(a, k)

AdminWrite ==
  \/ \E q \in inflight : WithBody(q)
  \/ \E a \in Admins : WithoutBody(a)

Next ==
  \/ \E u \in UserId, scope \in {"admin", "user"} : Authenticate(u, scope)
  \/ \E q \in inflight : Refuse(q) \/ \E k \in Code : Redeem(q, k)
  \/ Interrupt
  \/ AdminWrite
  \/ StartSession
  \/ \E e \in Email : SignUp(e)
  \/ Tick

Spec == Init /\ [][Next]_vars

----------------------------------------------------------------------------
\* Properties.

\* No grant, redemption or audit row names a row that is gone, whatever was
\* deleted while a request waited for its body.
ForeignKeys ==
  /\ \A g \in grants : sessions[g[1]] # Absent /\ Exists(g[2])
  /\ \A r \in redemptions : codes[r[1]] # Absent /\ Exists(r[2])
  /\ \A u \in auditors : Exists(u)

\* One address never has two user rows: neither a stub and its owner nor two
\* stubs, although the stub is made by one request and the owner by another.
OneUserPerEmail ==
  \A u, v \in UserId : Exists(u) /\ Exists(v) /\ u.email = v.email => u = v

\* A code, a user or a session made under a key that was used before starts
\* without rights: nobody has redeemed the code that was deleted and made
\* again, and a deleted user who signs in again has no grants or redemptions.
NothingInherited ==
  [][/\ \A k \in Code : codes[k] = Absent /\ codes'[k] # Absent
          => \A r \in redemptions' : r[1] # k
     /\ \A u \in UserId : users[u] = Absent /\ users'[u] # Absent
          => /\ \A r \in redemptions' : r[2] # u
             /\ \A g \in grants' : g[2] # u
     /\ \A s \in Sid : sessions[s] = Absent /\ sessions'[s] # Absent
          => \A g \in grants' : g[1] # s]_vars

\* A viewer begins to see a session only by an admin's write or by redeeming
\* a code: never because time passes, a session is ingested, or the viewer
\* or somebody else signs in or redeems.
AccessIsGiven ==
  [][\A u \in UserId, s \in Sid :
       ~Sees(u, s) /\ users'[u] = "viewer" /\ Sees(u, s)'
         => \/ AdminWrite
            \/ \E q \in inflight, k \in Code : q.user = u /\ Redeem(q, k)]_vars

\* Whoever POST /api/join grants a code sees the sessions it is for at once,
\* also at the instant the code expires.
JoinedSees ==
  [][\A q \in inflight, k \in Code : Redeem(q, k) =>
       \A s \in Sid : sessions[s] # Absent =>
         (sessions[s].vis = "code" /\ sessions[s].tag = codes[k].tag
            => Sees(q.user, s)')]_vars

\* GET /api/me repeats the access check in queries of its own: it counts
\* exactly the sessions the viewer can open, and a session opened by a class
\* code has one of the tags it counts.
MeAgrees ==
  \A u \in Viewers :
    /\ CountedSessions(u) = {s \in Sid : Sees(u, s)}
    /\ \A s \in Sid : Sees(u, s) /\ sessions[s].vis = "code"
         => sessions[s].tag \in CountedTags(u)

\* Deleting users never leaves the system without an admin: two admins
\* cannot delete each other, and none can delete the own account.
AdminsDeleteLeavesOne ==
  [][Admins # {} /\ Admins' = {} => \A u \in UserId : Exists(u) => users'[u] # Absent]_vars

\* "the audit table is a complete record of admin activity": who replays it
\* knows the rows of every session, user and code it names, the codes there
\* are, and the grants.
AuditIsComplete ==
  /\ \A s \in Sid : told.sessions[s] \in {Untold, sessions[s]}
  /\ \A u \in UserId : told.users[u] \in {Untold, users[u]}
  /\ told.codes = codes
  /\ told.grants = grants
============================================================================
