------------------------------ MODULE Accounts ------------------------------
(***************************************************************************)
(* Sign-in: GET /login, GET /auth/callback with its two waits for the OIDC  *)
(* provider, POST /logout, the auth_sessions table with its sliding expiry, *)
(* and what the admin routes do to the users meanwhile.                     *)
(*                                                                          *)
(* Each person has one browser, which keeps two cookies: the flow cookie    *)
(* with the state of the latest /login, and the session cookie.  A cookie   *)
(* changes when the response that sets it arrives.  A state also stands for *)
(* the authorization code the provider hands out for it, which it redeems   *)
(* once.  The cookie's five minutes are left out: a lost flow cookie is one *)
(* of the ways a browser comes without it.                                  *)
(***************************************************************************)
EXTENDS Integers, FiniteSets

CONSTANTS
  Person,      \* people with an account at the provider; their sub
  Email,       \* addresses
  FirstEmail,  \* the address each person's account starts with
  AdminEmails, \* config.ADMIN_EMAILS
  Invited,     \* bound: addresses an admin ever makes a stub for
  Absent,      \* no such row, no such cookie
  TTL,         \* SESSION_TTL_DAYS
  MaxFlow,     \* bound: logins ever started
  MaxToken,    \* bound: auth sessions ever created
  MaxNow       \* bound: the latest instant

ASSUME AccountsAssumption ==
  /\ FirstEmail \in [Person -> Email]
  /\ AdminEmails \subseteq Email
  /\ Invited \subseteq Email
  /\ TTL \in Nat \ {0}
  /\ MaxFlow \in Nat
  /\ MaxToken \in Nat
  /\ MaxNow \in Nat

VARIABLES
  idp,         \* the address of each person's account at the provider
  role,        \* users.role, or Absent when there is no row
  email,       \* users.email
  rows,        \* auth_sessions: token -> user and expiry, or Absent
  nextToken,
  nextFlow,
  flow,        \* each browser's flow cookie
  jar,         \* each browser's session cookie and the instant it drops it
  calls,       \* callbacks that wait for the provider
  redeemed,    \* states whose authorization code is used up
  now,
  lastUse      \* history: when each token was made or last accepted

users  == <<role, email>>
auth   == <<rows, nextToken, lastUse>>
browser == <<flow, jar>>
vars == <<idp, users, auth, nextFlow, browser, calls, redeemed, now>>

Role    == {"admin", "viewer"}
Sub(p)     == [kind |-> "sub", key |-> p]
Pending(e) == [kind |-> "pending", key |-> e]
UserId  == {Sub(p) : p \in Person} \cup {Pending(e) : e \in Email}
Flow    == 1 .. MaxFlow
Token   == 1 .. MaxToken
Instant == 0 .. MaxNow + TTL
Row     == [user : UserId, expires : Instant]
Cookie  == [token : Token, until : Instant]
Call    == [who : Person, state : Flow, waits : {"tokens", "userinfo"}]

ASSUME AbsentIsNoValue ==
  /\ Absent \notin Role
  /\ Absent \notin Email
  /\ Absent \notin Flow
  /\ Absent \notin Row
  /\ Absent \notin Cookie

TypeOK ==
  /\ idp \in [Person -> Email]
  /\ role \in [UserId -> Role \cup {Absent}]
  /\ email \in [UserId -> Email \cup {Absent}]
  /\ rows \in [Token -> Row \cup {Absent}]
  /\ nextToken \in 1 .. MaxToken + 1
  /\ nextFlow \in 1 .. MaxFlow + 1
  /\ flow \in [Person -> Flow \cup {Absent}]
  /\ jar \in [Person -> Cookie \cup {Absent}]
  /\ calls \subseteq Call
  /\ redeemed \subseteq Flow
  /\ now \in 0 .. MaxNow
  /\ lastUse \in [Token -> 0 .. MaxNow]

Init ==
  /\ idp = FirstEmail
  /\ role = [u \in UserId |-> Absent]
  /\ email = [u \in UserId |-> Absent]
  /\ rows = [t \in Token |-> Absent]
  /\ nextToken = 1
  /\ nextFlow = 1
  /\ flow = [p \in Person |-> Absent]
  /\ jar = [p \in Person |-> Absent]
  /\ calls = {}
  /\ redeemed = {}
  /\ now = 0
  /\ lastUse = [t \in Token |-> 0]

Exists(u) == role[u] # Absent

----------------------------------------------------------------------------
\* The session store, lib/auth/sessions.ts.

\* verifyAuthSession finds the row of token t joined with its user
Accepted(t) ==
  /\ rows[t] # Absent
  /\ Exists(rows[t].user)
  /\ rows[t].expires > now

\* Mutant of Expiry: the row slides to twice the TTL
ExpiryTwice == now + 2 * TTL

\* what createAuthSession and verifyAuthSession set expires_at to
Expiry == now + TTL

\* createAuthSession(sub(p)): the new row
NewRow(p) == [user |-> Sub(p), expires |-> Expiry]

\* when the browser drops the cookie that carries a token made now (the answer
\* travels for less than one instant)
MaxAge == now + TTL

\* Mutant of WithoutUser: auth_sessions keeps the rows of a deleted user
WithoutUserNoCascade(u) == rows

\* ON DELETE CASCADE of auth_sessions.user_id
WithoutUser(u) ==
  [t \in Token |-> IF rows[t] # Absent /\ rows[t].user = u THEN Absent ELSE rows[t]]

----------------------------------------------------------------------------
\* The browser and the routes of auth.ts.

\* GET /login that is answered: a fresh state replaces the flow cookie
Login(p) ==
  /\ nextFlow \in Flow
  /\ nextFlow' = nextFlow + 1
  /\ flow' = [flow EXCEPT ![p] = nextFlow]
  /\ UNCHANGED <<idp, users, auth, jar, calls, redeemed, now>>

\* GET /auth/callback with state st, up to its first wait
Callback(p, st) ==
  /\ flow[p] = st
  /\ calls' = calls \cup {[who |-> p, state |-> st, waits |-> "tokens"]}
  /\ UNCHANGED <<idp, users, auth, nextFlow, browser, redeemed, now>>

\* a callback of another tab, whose state is not in the cookie: 400, and the
\* response takes the flow cookie away from the tab it belongs to
StateMismatch(p, st) ==
  /\ flow[p] \notin {st, Absent}
  /\ st < nextFlow
  /\ flow' = [flow EXCEPT ![p] = Absent]
  /\ UNCHANGED <<idp, users, auth, nextFlow, jar, calls, redeemed, now>>

\* validateAuthorizationCode returns
Exchanged(c) ==
  /\ c.waits = "tokens"
  /\ c.state \notin redeemed
  /\ redeemed' = redeemed \cup {c.state}
  /\ calls' = (calls \ {c}) \cup {[c EXCEPT !.waits = "userinfo"]}
  /\ UNCHANGED <<idp, users, auth, nextFlow, browser, now>>

\* a wait ends with an error: the code was used, the provider is down, its
\* discovery document does not load, or the body has no sub: 400
ProviderFails(c) ==
  /\ calls' = calls \ {c}
  /\ redeemed' \in {redeemed, redeemed \cup {c.state}}
  /\ flow' = [flow EXCEPT ![c.who] = Absent]
  /\ UNCHANGED <<idp, users, auth, nextFlow, jar, now>>

\* UNIQUE(email): another row has the address
Conflict(p) == \E u \in UserId : u # Sub(p) /\ Exists(u) /\ email[u] = idp[p]

FirstRole(p) == IF idp[p] \in AdminEmails THEN "admin" ELSE "viewer"

\* Mutant of RoleAtLogin: the allowlist is looked up at every login
RoleAtEveryLogin(p) == FirstRole(p)

\* the role column after a login: assigned at the first, kept afterwards
RoleAtLogin(p) == IF Exists(Sub(p)) THEN role[Sub(p)] ELSE FirstRole(p)

\* fetchUserInfo returns, and all the rest of the callback: the user row is
\* made or brought up to date, an auth session is made and its token sent;
\* the response may get lost
SignedIn(c) ==
  LET p == c.who
  IN  /\ c.waits = "userinfo"
      /\ ~Conflict(p)
      /\ nextToken \in Token
      /\ role' = [role EXCEPT ![Sub(p)] = RoleAtLogin(p)]
      /\ email' = [email EXCEPT ![Sub(p)] = idp[p]]
      /\ rows' = [rows EXCEPT ![nextToken] = NewRow(p)]
      /\ lastUse' = [lastUse EXCEPT ![nextToken] = now]
      /\ nextToken' = nextToken + 1
      /\ calls' = calls \ {c}
      /\ \/ /\ jar' = [jar EXCEPT ![p] = [token |-> nextToken, until |-> MaxAge]]
            /\ flow' = [flow EXCEPT ![p] = Absent]
         \/ UNCHANGED browser
      /\ UNCHANGED <<idp, nextFlow, redeemed, now>>

\* the INSERT or UPDATE of users throws: 500, nothing is written
SignInFails(c) ==
  /\ c.waits = "userinfo"
  /\ Conflict(c.who)
  /\ calls' = calls \ {c}
  /\ flow' = [flow EXCEPT ![c.who] = Absent]
  /\ UNCHANGED <<idp, users, auth, nextFlow, jar, redeemed, now>>

\* any request with the session cookie: sessionMiddleware slides its row
Visit(p) ==
  /\ jar[p] # Absent
  /\ LET t == jar[p].token
     IN  /\ Accepted(t)
         /\ rows' = [rows EXCEPT ![t].expires = Expiry]
         /\ lastUse' = [lastUse EXCEPT ![t] = now]
  /\ UNCHANGED <<idp, users, nextToken, nextFlow, browser, calls, redeemed, now>>

\* POST /logout
Logout(p) ==
  /\ jar[p] # Absent
  /\ rows' = [rows EXCEPT ![jar[p].token] = Absent]
  /\ jar' = [jar EXCEPT ![p] = Absent]
  /\ UNCHANGED <<idp, users, nextToken, lastUse, nextFlow, flow, calls, redeemed, now>>

----------------------------------------------------------------------------
\* Admins (who of them may do what, and when, is in Access), the provider and
\* time.

\* POST /api/admin/users
CreateStub(e, r) ==
  /\ \A u \in UserId : Exists(u) => email[u] # e
  /\ role' = [role EXCEPT ![Pending(e)] = r]
  /\ email' = [email EXCEPT ![Pending(e)] = e]
  /\ UNCHANGED <<idp, auth, nextFlow, browser, calls, redeemed, now>>

\* PATCH /api/admin/users/:id
ChangeRole(u, r) ==
  /\ Exists(u)
  /\ role' = [role EXCEPT ![u] = r]
  /\ UNCHANGED <<idp, email, auth, nextFlow, browser, calls, redeemed, now>>

\* DELETE /api/admin/users/:id
DeleteUser(u) ==
  /\ Exists(u)
  /\ role' = [role EXCEPT ![u] = Absent]
  /\ email' = [email EXCEPT ![u] = Absent]
  /\ rows' = WithoutUser(u)
  /\ UNCHANGED <<idp, nextToken, lastUse, nextFlow, browser, calls, redeemed, now>>

\* a person's address changes at the provider
ChangeEmail(p, e) ==
  /\ \A q \in Person : idp[q] # e
  /\ idp' = [idp EXCEPT ![p] = e]
  /\ UNCHANGED <<users, auth, nextFlow, browser, calls, redeemed, now>>

\* time passes; browsers drop the cookies whose time is up
Tick ==
  /\ now < MaxNow
  /\ now' = now + 1
  /\ jar' = [p \in Person |-> IF jar[p] # Absent /\ jar[p].until <= now'
                              THEN Absent ELSE jar[p]]
  /\ UNCHANGED <<idp, users, auth, nextFlow, flow, calls, redeemed>>

Next ==
  \/ \E p \in Person :
       \/ Login(p) \/ Visit(p) \/ Logout(p)
       \/ \E st \in Flow : Callback(p, st) \/ StateMismatch(p, st)
       \/ \E e \in Email : ChangeEmail(p, e)
  \/ \E c \in calls : Exchanged(c) \/ ProviderFails(c) \/ SignedIn(c) \/ SignInFails(c)
  \/ \E e \in Invited, r \in Role : CreateStub(e, r)
  \/ \E u \in UserId : DeleteUser(u) \/ \E r \in Role : ChangeRole(u, r)
  \/ Tick

Spec == Init /\ [][Next]_vars

----------------------------------------------------------------------------
\* Properties.

\* A session that is over stays over: a token that expired, was logged out or
\* lost its user is never accepted again, whatever the same person does later
\* - visit with the old cookie, sign in again, or get a new row under the same
\* sub after an admin deleted the old one.
DeadStaysDead ==
  [][\A t \in Token : t < nextToken /\ ~Accepted(t) => ~Accepted(t)']_vars

\* Sliding expiry neither piles up nor runs out early: a token is accepted
\* exactly while its last use is less than the TTL ago, as long as its row is
\* there.
SlidesByTTL ==
  \A t \in Token : rows[t] # Absent => (Accepted(t) <=> now < lastUse[t] + TTL)

\* A browser never holds a cookie that the server has let expire: the cookie
\* ends with or before its row, though only the row slides.
CookieEndsFirst ==
  \A p \in Person :
    jar[p] # Absent /\ rows[jar[p].token] # Absent
      => jar[p].until <= rows[jar[p].token].expires

\* auth.ts 123: "Subsequent logins do NOT re-check": who a login finds in the
\* users table keeps the role the admins gave, whatever the allowlist says and
\* whatever address the provider now reports.
RoleIsKept ==
  [][\A u \in UserId :
       Exists(u) /\ role'[u] \notin {Absent, role[u]} => \E r \in Role : ChangeRole(u, r)]_vars

\* admin/users.ts 11-12: "on first OIDC login the row is updated with the sub":
\* nobody is turned away because an admin made a row for the address before.
StubIsClaimed ==
  [][\A c \in calls : SignInFails(c) => ~Exists(Pending(idp[c.who]))]_vars
============================================================================
