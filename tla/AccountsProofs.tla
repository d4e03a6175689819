---------------------------- MODULE AccountsProofs ----------------------------
(***************************************************************************)
(* Auth sessions and roles, for every set of people and addresses, every    *)
(* allowlist and TTL and any number of logins.                              *)
(*                                                                          *)
(* AccountsInv adds to the properties of Accounts what makes them           *)
(* inductive: a row has its user, is made for a token that was handed out,  *)
(* and ends a TTL after the last use, which is not in the future; and a     *)
(* stub carries the address it is named after.                              *)
(***************************************************************************)
EXTENDS Accounts, TLAPS

RowsOK ==
  \A t \in Token : rows[t] # Absent =>
    /\ t < nextToken
    /\ Exists(rows[t].user)
    /\ rows[t].expires = lastUse[t] + TTL
    /\ lastUse[t] <= now

JarOK == \A p \in Person : jar[p] # Absent => jar[p].token < nextToken

StubsOK == \A e \in Email : Exists(Pending(e)) => email[Pending(e)] = e

AccountsInv ==
  /\ TypeOK
  /\ RowsOK
  /\ JarOK
  /\ StubsOK
  /\ CookieEndsFirst

USE AccountsAssumption, AbsentIsNoValue

\* A person's row and a stub's are different rows, and both are user rows.
LEMMA Ids ==
  /\ \A p \in Person : Sub(p) \in UserId
  /\ \A e \in Email : Pending(e) \in UserId
  /\ \A p \in Person, e \in Email : Sub(p) # Pending(e)
  /\ \A d, e \in Email : Pending(d) = Pending(e) => d = e
<1>1. \A p \in Person : Sub(p) \in UserId
  BY DEF UserId
<1>2. \A e \in Email : Pending(e) \in UserId
  BY DEF UserId
<1>3. \A p \in Person, e \in Email : Sub(p) # Pending(e)
  BY DEF Sub, Pending
<1>4. \A d, e \in Email : Pending(d) = Pending(e) => d = e
  BY DEF Pending
<1> QED BY <1>1, <1>2, <1>3, <1>4

\* Nobody has signed in.
LEMMA InitHolds == Init => AccountsInv
<1> SUFFICES ASSUME Init PROVE AccountsInv
  OBVIOUS
<1>1. TypeOK
  BY DEF Init, TypeOK
<1>2. RowsOK /\ JarOK /\ CookieEndsFirst
  BY DEF Init, RowsOK, JarOK, CookieEndsFirst
<1>3. StubsOK
  BY Ids DEF Init, StubsOK, Exists
<1> QED BY <1>1, <1>2, <1>3 DEF AccountsInv

\* The instants a row or a cookie can get.
LEMMA Expiries ==
  ASSUME TypeOK
  PROVE  Expiry \in Instant /\ MaxAge \in Instant /\ Expiry = now + TTL /\ MaxAge = now + TTL
BY DEF TypeOK, Expiry, MaxAge, Instant

\* Signing in keeps the invariant.
LEMMA SignedInKeepsInv ==
  ASSUME AccountsInv, NEW c \in calls, SignedIn(c)
  PROVE  AccountsInv'
<1> DEFINE p == c.who
           row == [user |-> Sub(p), expires |-> Expiry]
           cookie == [token |-> nextToken, until |-> MaxAge]
<1>0. p \in Person /\ Sub(p) \in UserId
  BY Ids DEF AccountsInv, TypeOK, Call
<1>1. /\ nextToken \in Token
      /\ role' = [role EXCEPT ![Sub(p)] = RoleAtLogin(p)]
      /\ email' = [email EXCEPT ![Sub(p)] = idp[p]]
      /\ rows' = [rows EXCEPT ![nextToken] = row]
      /\ lastUse' = [lastUse EXCEPT ![nextToken] = now]
      /\ nextToken' = nextToken + 1
      /\ calls' = calls \ {c}
      /\ \/ jar' = [jar EXCEPT ![p] = cookie] /\ flow' = [flow EXCEPT ![p] = Absent]
         \/ UNCHANGED <<jar, flow>>
      /\ UNCHANGED <<idp, nextFlow, redeemed, now>>
  BY DEF SignedIn, NewRow, browser
<1>2. RoleAtLogin(p) \in Role
  <2>1. FirstRole(p) \in Role
    BY DEF FirstRole, Role
  <2>2. Exists(Sub(p)) => role[Sub(p)] \in Role
    BY <1>0 DEF AccountsInv, TypeOK, Exists
  <2> QED BY <2>1, <2>2 DEF RoleAtLogin
<1>3. row \in Row /\ row # Absent /\ row.user = Sub(p) /\ row.expires = now + TTL
  BY <1>0, Expiries DEF AccountsInv, Row
<1>4. cookie \in Cookie /\ cookie.token = nextToken /\ cookie.until = now + TTL
  BY <1>1, Expiries DEF AccountsInv, Cookie
<1>5. nextToken' \in 1 .. MaxToken + 1 /\ nextToken \in Nat /\ TTL \in Nat /\ now \in 0 .. MaxNow
  BY <1>1 DEF Token, AccountsInv, TypeOK
<1> HIDE DEF p, row, cookie
<1>6. TypeOK'
  <2>1. role' \in [UserId -> Role \cup {Absent}] /\ email' \in [UserId -> Email \cup {Absent}]
    BY <1>0, <1>1, <1>2 DEF AccountsInv, TypeOK
  <2>2. rows' \in [Token -> Row \cup {Absent}] /\ lastUse' \in [Token -> 0 .. MaxNow]
    BY <1>1, <1>3, <1>5 DEF AccountsInv, TypeOK
  <2>3. jar' \in [Person -> Cookie \cup {Absent}] /\ flow' \in [Person -> Flow \cup {Absent}]
    BY <1>1, <1>4 DEF AccountsInv, TypeOK
  <2> QED BY <1>1, <1>5, <2>1, <2>2, <2>3 DEF AccountsInv, TypeOK
<1>7. \A u \in UserId : Exists(u) => Exists(u)'
  BY <1>0, <1>1, <1>2 DEF AccountsInv, TypeOK, Exists
<1>8. Exists(Sub(p))'
  BY <1>0, <1>1, <1>2 DEF AccountsInv, TypeOK, Exists
<1>9. RowsOK'
  <2> SUFFICES ASSUME NEW t \in Token, rows'[t] # Absent
               PROVE  /\ t < nextToken' /\ Exists(rows[t].user)'
                      /\ rows'[t].expires = lastUse'[t] + TTL /\ lastUse'[t] <= now'
    BY DEF RowsOK
  <2>1. CASE t = nextToken
    BY <1>1, <1>3, <1>5, <1>8, <2>1 DEF AccountsInv, TypeOK, Exists
  <2>2. CASE t # nextToken
    <3>1. rows'[t] = rows[t] /\ lastUse'[t] = lastUse[t] /\ t \in Nat
      BY <1>1, <2>2 DEF AccountsInv, TypeOK, Token
    <3>2. rows[t] \in Row
      BY <3>1 DEF AccountsInv, TypeOK
    <3>3. rows[t].user \in UserId
      BY <3>2 DEF Row
    <3>4. /\ t < nextToken /\ Exists(rows[t].user)
          /\ rows[t].expires = lastUse[t] + TTL /\ lastUse[t] <= now
      BY <3>1 DEF AccountsInv, RowsOK
    <3>5. Exists(rows[t].user)'
      BY <1>7, <3>1, <3>3, <3>4 DEF Exists
    <3> QED BY <1>1, <1>5, <3>1, <3>4, <3>5
  <2> QED BY <2>1, <2>2
<1>10. JarOK'
  <2> SUFFICES ASSUME NEW d \in Person, jar'[d] # Absent
               PROVE  jar'[d].token < nextToken'
    BY DEF JarOK
  <2>1. CASE jar'[d] = jar[d]
    <3>1. jar[d].token < nextToken /\ jar[d].token \in Nat
      BY <2>1 DEF AccountsInv, JarOK, TypeOK, Cookie, Token
    <3> QED BY <1>1, <1>5, <2>1, <3>1
  <2>2. CASE jar'[d] = cookie
    BY <1>1, <1>4, <1>5, <2>2
  <2> QED BY <1>0, <1>1, <2>1, <2>2 DEF AccountsInv, TypeOK
<1>11. CookieEndsFirst'
  <2> SUFFICES ASSUME NEW d \in Person, jar'[d] # Absent, rows'[jar'[d].token] # Absent
               PROVE  jar'[d].until <= rows'[jar'[d].token].expires
    BY DEF CookieEndsFirst
  <2>1. CASE jar'[d] = jar[d]
    <3>1. jar[d].token # nextToken /\ jar[d].token \in Token
      BY <1>5, <2>1 DEF AccountsInv, JarOK, TypeOK, Cookie
    <3>2. rows'[jar[d].token] = rows[jar[d].token]
      BY <1>1, <3>1 DEF AccountsInv, TypeOK
    <3> QED BY <2>1, <3>2 DEF AccountsInv, CookieEndsFirst
  <2>2. CASE jar'[d] = cookie
    <3>1. rows'[nextToken] = row
      BY <1>1 DEF AccountsInv, TypeOK
    <3> QED BY <1>3, <1>4, <1>5, <2>2, <3>1
  <2> QED BY <1>0, <1>1, <2>1, <2>2 DEF AccountsInv, TypeOK
<1>12. StubsOK'
  <2> SUFFICES ASSUME NEW e \in Email, Exists(Pending(e))' PROVE email'[Pending(e)] = e
    BY DEF StubsOK, Pending
  <2>1. Pending(e) \in UserId /\ Pending(e) # Sub(p)
    BY <1>0, Ids
  <2>2. role'[Pending(e)] = role[Pending(e)] /\ email'[Pending(e)] = email[Pending(e)]
    BY <1>1, <2>1 DEF AccountsInv, TypeOK
  <2>3. Exists(Pending(e))
    BY <2>2 DEF Exists, Pending
  <2> QED BY <2>2, <2>3 DEF AccountsInv, StubsOK
<1> QED BY <1>6, <1>9, <1>10, <1>11, <1>12 DEF AccountsInv

\* A visit slides the row of its token and nothing else.
LEMMA VisitKeepsInv ==
  ASSUME AccountsInv, NEW p \in Person, Visit(p)
  PROVE  AccountsInv'
<1> DEFINE t == jar[p].token
<1>1. /\ jar[p] # Absent /\ rows[t] # Absent
      /\ rows' = [rows EXCEPT ![t].expires = Expiry]
      /\ lastUse' = [lastUse EXCEPT ![t] = now]
      /\ UNCHANGED <<idp, role, email, nextToken, nextFlow, flow, jar, calls, redeemed, now>>
  BY DEF Visit, Accepted, users, browser
<1>2. /\ jar[p] \in Cookie /\ t \in Token /\ rows[t] \in Row
      /\ Expiry \in Instant /\ Expiry = now + TTL
      /\ now \in 0 .. MaxNow /\ TTL \in Nat
  BY <1>1, Expiries DEF AccountsInv, TypeOK, Cookie
<1> HIDE DEF t
<1>3. /\ rows'[t] \in Row /\ rows'[t].user = rows[t].user /\ rows'[t].expires = Expiry
      /\ lastUse'[t] = now
      /\ \A d \in Token : d # t => rows'[d] = rows[d] /\ lastUse'[d] = lastUse[d]
  BY <1>1, <1>2 DEF AccountsInv, TypeOK, Row
<1>4. TypeOK'
  <2>1. rows' \in [Token -> Row \cup {Absent}]
    BY <1>1, <1>2, <1>3 DEF AccountsInv, TypeOK
  <2>2. lastUse' \in [Token -> 0 .. MaxNow]
    BY <1>1, <1>2 DEF AccountsInv, TypeOK
  <2> QED BY <1>1, <2>1, <2>2 DEF AccountsInv, TypeOK
<1>5. RowsOK'
  <2> SUFFICES ASSUME NEW d \in Token, rows'[d] # Absent
               PROVE  /\ d < nextToken' /\ Exists(rows[d].user)'
                      /\ rows'[d].expires = lastUse'[d] + TTL /\ lastUse'[d] <= now'
    BY DEF RowsOK
  <2>1. CASE d = t
    BY <1>1, <1>2, <1>3, <2>1 DEF AccountsInv, RowsOK, Exists
  <2>2. CASE d # t
    BY <1>1, <1>3, <2>2 DEF AccountsInv, RowsOK, Exists
  <2> QED BY <2>1, <2>2
<1>6. CookieEndsFirst'
  <2> SUFFICES ASSUME NEW q \in Person, jar'[q] # Absent, rows'[jar'[q].token] # Absent
               PROVE  jar'[q].until <= rows'[jar'[q].token].expires
    BY DEF CookieEndsFirst
  <2>1. jar'[q] = jar[q] /\ jar[q] \in Cookie
    BY <1>1 DEF AccountsInv, TypeOK
  <2>2. CASE jar[q].token = t
    <3>1. /\ jar[q].until <= rows[t].expires /\ rows[t].expires = lastUse[t] + TTL
          /\ lastUse[t] <= now
      BY <1>1, <1>2, <2>1, <2>2 DEF AccountsInv, CookieEndsFirst, RowsOK
    <3>2. jar[q].until \in Nat /\ lastUse[t] \in Nat /\ now \in Nat
      BY <1>2, <2>1 DEF AccountsInv, TypeOK, Cookie, Instant
    <3>3. jar[q].until <= now + TTL
      BY <1>2, <3>1, <3>2
    <3> QED BY <1>2, <1>3, <2>1, <2>2, <3>3
  <2>3. CASE jar[q].token # t
    <3>1. jar[q].token \in Token
      BY <2>1 DEF Cookie
    <3> QED BY <1>3, <2>1, <2>3, <3>1 DEF AccountsInv, CookieEndsFirst
  <2> QED BY <2>2, <2>3
<1>7. JarOK' /\ StubsOK'
  BY <1>1 DEF AccountsInv, JarOK, StubsOK, Exists
<1> QED BY <1>4, <1>5, <1>6, <1>7 DEF AccountsInv

\* Deleting a user takes the rows of their sessions along.
LEMMA DeleteUserKeepsInv ==
  ASSUME AccountsInv, NEW u \in UserId, DeleteUser(u)
  PROVE  AccountsInv'
<1>1. /\ role' = [role EXCEPT ![u] = Absent]
      /\ email' = [email EXCEPT ![u] = Absent]
      /\ UNCHANGED <<idp, nextToken, lastUse, nextFlow, flow, jar, calls, redeemed, now>>
  BY DEF DeleteUser, browser
<1>2. /\ rows' \in [Token -> Row \cup {Absent}]
      /\ \A t \in Token : rows'[t] # Absent => rows'[t] = rows[t] /\ rows[t].user # u
  BY DEF DeleteUser, WithoutUser, AccountsInv, TypeOK
<1>3. TypeOK'
  BY <1>1, <1>2 DEF AccountsInv, TypeOK
<1>4. RowsOK'
  <2> SUFFICES ASSUME NEW t \in Token, rows'[t] # Absent
               PROVE  /\ t < nextToken' /\ Exists(rows[t].user)'
                      /\ rows'[t].expires = lastUse'[t] + TTL /\ lastUse'[t] <= now'
    BY DEF RowsOK
  <2>1. rows'[t] = rows[t] /\ rows[t] # Absent /\ rows[t].user # u
    BY <1>2
  <2>2. rows[t].user \in UserId
    BY <2>1 DEF AccountsInv, TypeOK, Row
  <2> QED BY <1>1, <2>1, <2>2 DEF AccountsInv, TypeOK, RowsOK, Exists
<1>5. JarOK'
  BY <1>1 DEF AccountsInv, JarOK
<1>6. CookieEndsFirst'
  <2>1. \A p \in Person : jar[p] # Absent => jar[p].token \in Token
    BY DEF AccountsInv, TypeOK, Cookie
  <2> QED BY <1>1, <1>2, <2>1 DEF AccountsInv, CookieEndsFirst
<1>7. StubsOK'
  <2> SUFFICES ASSUME NEW e \in Email, Exists(Pending(e))' PROVE email'[Pending(e)] = e
    BY DEF StubsOK, Pending
  <2>1. Pending(e) \in UserId
    BY Ids
  <2>2. role'[Pending(e)] # Absent
    BY DEF Exists, Pending
  <2>3. Pending(e) # u
    BY <1>1, <2>1, <2>2 DEF AccountsInv, TypeOK
  <2>4. role'[Pending(e)] = role[Pending(e)] /\ email'[Pending(e)] = email[Pending(e)]
    BY <1>1, <2>1, <2>3 DEF AccountsInv, TypeOK
  <2> QED BY <2>2, <2>4 DEF AccountsInv, StubsOK, Exists
<1> QED BY <1>3, <1>4, <1>5, <1>6, <1>7 DEF AccountsInv

\* Admins making a stub or changing a role keep the invariant.
LEMMA AdminKeepsInv ==
  ASSUME AccountsInv, NEW r \in Role,
         \/ \E e \in Email : CreateStub(e, r)
         \/ \E u \in UserId : ChangeRole(u, r)
  PROVE  AccountsInv'
<1>0. r # Absent
  OBVIOUS
<1> DEFINE Kept ==
      /\ UNCHANGED <<idp, rows, nextToken, lastUse, nextFlow, flow, jar, calls, redeemed, now>>
      /\ role' \in [UserId -> Role \cup {Absent}]
      /\ email' \in [UserId -> Email \cup {Absent}]
      /\ \A u \in UserId : role[u] # Absent => role'[u] # Absent
<1>1. Kept
  <2>1. ASSUME NEW e \in Email, CreateStub(e, r) PROVE Kept
    BY <1>0, <2>1, Ids DEF CreateStub, AccountsInv, TypeOK, auth, browser
  <2>2. ASSUME NEW u \in UserId, ChangeRole(u, r) PROVE Kept
    BY <1>0, <2>2 DEF ChangeRole, AccountsInv, TypeOK, auth, browser
  <2> QED BY <2>1, <2>2
<1>2. TypeOK'
  BY <1>1 DEF AccountsInv, TypeOK
<1>3. RowsOK'
  <2>1. \A t \in Token : rows[t] # Absent => rows[t].user \in UserId
    BY DEF AccountsInv, TypeOK, Row
  <2> QED BY <1>1, <2>1 DEF AccountsInv, RowsOK, Exists
<1>4. JarOK' /\ CookieEndsFirst'
  BY <1>1 DEF AccountsInv, JarOK, CookieEndsFirst
<1>5. StubsOK'
  <2> SUFFICES ASSUME NEW e \in Email, role'[Pending(e)] # Absent
               PROVE email'[Pending(e)] = e
    BY DEF StubsOK, Pending, Exists
  <2>1. Pending(e) \in UserId
    BY Ids
  <2>2. ASSUME NEW d \in Email, CreateStub(d, r) PROVE email'[Pending(e)] = e
    <3>1. /\ role' = [role EXCEPT ![Pending(d)] = r]
          /\ email' = [email EXCEPT ![Pending(d)] = d]
      BY <2>2 DEF CreateStub
    <3>2. CASE d = e
      BY <2>1, <3>1, <3>2 DEF AccountsInv, TypeOK
    <3>3. CASE d # e
      <4>1. Pending(d) # Pending(e) /\ Pending(d) \in UserId
        BY <3>3, Ids
      <4>2. role'[Pending(e)] = role[Pending(e)] /\ email'[Pending(e)] = email[Pending(e)]
        BY <2>1, <3>1, <4>1 DEF AccountsInv, TypeOK
      <4> QED BY <4>2 DEF AccountsInv, StubsOK, Exists
    <3> QED BY <3>2, <3>3
  <2>3. ASSUME NEW u \in UserId, ChangeRole(u, r) PROVE email'[Pending(e)] = e
    <3>1. role' = [role EXCEPT ![u] = r] /\ email' = email /\ role[u] # Absent
      BY <2>3 DEF ChangeRole, Exists
    <3>2. role[Pending(e)] # Absent
      BY <2>1, <3>1 DEF AccountsInv, TypeOK
    <3> QED BY <3>1, <3>2 DEF AccountsInv, StubsOK, Exists
  <2> QED BY <2>2, <2>3
<1> QED BY <1>2, <1>3, <1>4, <1>5 DEF AccountsInv

\* Logging out removes one row and the cookie.
LEMMA LogoutKeepsInv ==
  ASSUME AccountsInv, NEW p \in Person, Logout(p)
  PROVE  AccountsInv'
<1>1. /\ rows' = [rows EXCEPT ![jar[p].token] = Absent]
      /\ jar' = [jar EXCEPT ![p] = Absent]
      /\ UNCHANGED <<idp, role, email, nextToken, lastUse, nextFlow, flow, calls, redeemed, now>>
  BY DEF Logout, users
<1>2. /\ \A t \in Token : rows'[t] # Absent => rows'[t] = rows[t]
      /\ \A q \in Person : jar'[q] # Absent => jar'[q] = jar[q]
      /\ \A q \in Person : jar[q] # Absent => jar[q].token \in Token
  BY <1>1 DEF AccountsInv, TypeOK, Cookie
<1>3. TypeOK'
  BY <1>1 DEF AccountsInv, TypeOK
<1>4. RowsOK'
  BY <1>1, <1>2 DEF AccountsInv, RowsOK, Exists
<1>5. JarOK' /\ CookieEndsFirst'
  BY <1>1, <1>2 DEF AccountsInv, JarOK, CookieEndsFirst
<1>6. StubsOK'
  BY <1>1 DEF AccountsInv, StubsOK, Exists
<1> QED BY <1>3, <1>4, <1>5, <1>6 DEF AccountsInv

\* Time passes; cookies go, rows stay.
LEMMA TickKeepsInv ==
  ASSUME AccountsInv, Tick
  PROVE  AccountsInv'
<1>1. /\ now' = now + 1 /\ now' \in 0 .. MaxNow
      /\ UNCHANGED <<idp, role, email, rows, nextToken, lastUse, nextFlow, flow, calls, redeemed>>
  BY DEF Tick, AccountsInv, TypeOK, users, auth
<1>2. /\ jar' \in [Person -> Cookie \cup {Absent}]
      /\ \A q \in Person : jar'[q] # Absent => jar'[q] = jar[q]
  BY DEF Tick, AccountsInv, TypeOK
<1>3. TypeOK'
  BY <1>1, <1>2 DEF AccountsInv, TypeOK
<1>4. RowsOK'
  <2> SUFFICES ASSUME NEW t \in Token, rows[t] # Absent PROVE lastUse[t] <= now'
    BY <1>1 DEF AccountsInv, RowsOK, Exists
  <2>1. lastUse[t] <= now /\ lastUse[t] \in Nat /\ now \in Nat
    BY DEF AccountsInv, RowsOK, TypeOK
  <2> QED BY <1>1, <2>1
<1>5. JarOK' /\ CookieEndsFirst'
  BY <1>1, <1>2 DEF AccountsInv, JarOK, CookieEndsFirst
<1>6. StubsOK'
  BY <1>1 DEF AccountsInv, StubsOK, Exists
<1> QED BY <1>3, <1>4, <1>5, <1>6 DEF AccountsInv

\* The steps of a sign-in before its last, and the provider, touch neither
\* the tables nor the session cookies.
LEMMA FlowKeepsInv ==
  ASSUME AccountsInv,
         \/ \E p \in Person : Login(p)
         \/ \E p \in Person, st \in Flow : Callback(p, st) \/ StateMismatch(p, st)
         \/ \E p \in Person, e \in Email : ChangeEmail(p, e)
         \/ \E c \in calls : Exchanged(c) \/ ProviderFails(c) \/ SignInFails(c)
  PROVE  AccountsInv'
<1>1. UNCHANGED <<role, email, rows, nextToken, lastUse, jar, now>>
  BY DEF Login, Callback, StateMismatch, ChangeEmail, Exchanged, ProviderFails, SignInFails,
    users, auth, browser
<1>2. TypeOK'
  <2>1. ASSUME NEW p \in Person, Login(p) PROVE TypeOK'
    BY <2>1 DEF Login, AccountsInv, TypeOK, Flow, users, auth
  <2>2. ASSUME NEW p \in Person, NEW st \in Flow, Callback(p, st) \/ StateMismatch(p, st)
        PROVE  TypeOK'
    BY <2>2 DEF Callback, StateMismatch, AccountsInv, TypeOK, Call, users, auth, browser
  <2>3. ASSUME NEW p \in Person, NEW e \in Email, ChangeEmail(p, e) PROVE TypeOK'
    BY <2>3 DEF ChangeEmail, AccountsInv, TypeOK, users, auth, browser
  <2>4. ASSUME NEW c \in calls, Exchanged(c) PROVE TypeOK'
    BY <2>4 DEF Exchanged, AccountsInv, TypeOK, Call, users, auth, browser
  <2>5. ASSUME NEW c \in calls, ProviderFails(c) \/ SignInFails(c) PROVE TypeOK'
    BY <2>5 DEF ProviderFails, SignInFails, AccountsInv, TypeOK, Call, users, auth, browser
  <2> QED BY <2>1, <2>2, <2>3, <2>4, <2>5
<1> QED BY <1>1, <1>2 DEF AccountsInv, RowsOK, JarOK, CookieEndsFirst, StubsOK, Exists

\* Every step keeps the invariant.
LEMMA NextKeepsInv == AccountsInv /\ [Next]_vars => AccountsInv'
<1> SUFFICES ASSUME AccountsInv, [Next]_vars PROVE AccountsInv'
  OBVIOUS
<1>1. CASE UNCHANGED vars
  BY <1>1 DEF vars, users, auth, browser, AccountsInv, TypeOK, RowsOK, JarOK, CookieEndsFirst,
    StubsOK, Exists
<1>2. CASE Next
  <2>1. Invited \subseteq Email
    OBVIOUS
  <2> QED BY <1>2, <2>1, SignedInKeepsInv, VisitKeepsInv, DeleteUserKeepsInv, AdminKeepsInv,
    LogoutKeepsInv, TickKeepsInv, FlowKeepsInv DEF Next
<1> QED BY <1>1, <1>2

\* The invariant of sign-in.
THEOREM AccountsInvariant == Spec => []AccountsInv
BY InitHolds, NextKeepsInv, PTL DEF Spec

\* Every variable keeps its type.
THEOREM AccountsTypes == Spec => []TypeOK
BY AccountsInvariant, PTL DEF AccountsInv

\* The cookie ends no later than its row (auth.ts 156).
THEOREM CookiesEndFirst == Spec => []CookieEndsFirst
BY AccountsInvariant, PTL DEF AccountsInv

\* A token is good for a TTL from its last use (lib/auth/sessions.ts 75-111).
THEOREM SlidingExpiry == Spec => []SlidesByTTL
<1>1. AccountsInv => SlidesByTTL
  <2> SUFFICES ASSUME AccountsInv, NEW t \in Token, rows[t] # Absent
               PROVE  Accepted(t) <=> now < lastUse[t] + TTL
    BY DEF SlidesByTTL
  <2>1. Exists(rows[t].user) /\ rows[t].expires = lastUse[t] + TTL
    BY DEF AccountsInv, RowsOK
  <2>2. Accepted(t) <=> rows[t].expires > now
    BY <2>1 DEF Accepted
  <2>3. lastUse[t] \in Nat /\ now \in Nat /\ TTL \in Nat
    BY DEF AccountsInv, TypeOK
  <2>4. lastUse[t] + TTL > now <=> now < lastUse[t] + TTL
    BY <2>3
  <2> QED BY <2>1, <2>2, <2>4
<1> QED BY <1>1, AccountsInvariant, PTL

\* A token that is over stays over: only a sign-in makes a row, and it makes it
\* for a token nobody had; a visit slides only a row that is still good.
THEOREM DeadTokensStayDead == Spec => DeadStaysDead
<1>1. ASSUME AccountsInv, AccountsInv', [Next]_vars
      PROVE  [\A t \in Token : t < nextToken /\ ~Accepted(t) => ~Accepted(t)']_vars
  <2> SUFFICES ASSUME Next, NEW t \in Token, t < nextToken, Accepted(t)'
               PROVE  Accepted(t)
    BY <1>1
  <2>1. /\ rows'[t] # Absent /\ rows'[t].expires > now'
        /\ now \in Nat /\ now' \in Nat /\ now <= now'
    <3>1. rows'[t] # Absent /\ rows'[t].expires > now'
      BY DEF Accepted
    <3>2. now' = now \/ Tick
      BY DEF Next, Login, Visit, Logout, Callback, StateMismatch, ChangeEmail,
        Exchanged, ProviderFails, SignedIn, SignInFails, CreateStub, DeleteUser, ChangeRole
    <3>3. now \in Nat /\ now' \in Nat
      BY <1>1 DEF AccountsInv, TypeOK
    <3> QED BY <3>1, <3>2, <3>3 DEF Tick
  <2>2. rows[t] # Absent => Exists(rows[t].user)
    BY <1>1 DEF AccountsInv, RowsOK
  <2>3. CASE rows'[t] = rows[t]
    <3>1. rows[t].expires \in Nat
      BY <1>1, <2>1, <2>3 DEF AccountsInv, TypeOK, Row, Instant
    <3> QED BY <2>1, <2>2, <2>3, <3>1 DEF Accepted
  <2>4. CASE \E p \in Person : Visit(p)
    <3>1. PICK p \in Person : Visit(p)
      BY <2>4
    <3>2. CASE t = jar[p].token
      BY <3>1, <3>2 DEF Visit
    <3>3. CASE t # jar[p].token
      BY <1>1, <2>3, <3>1, <3>3 DEF Visit, AccountsInv, TypeOK
    <3> QED BY <3>2, <3>3
  <2>5. CASE \E c \in calls : SignedIn(c)
    <3>1. t # nextToken
      BY <1>1 DEF AccountsInv, TypeOK, Token
    <3>2. rows'[t] = rows[t]
      BY <1>1, <2>5, <3>1 DEF SignedIn, AccountsInv, TypeOK
    <3> QED BY <2>3, <3>2
  <2>6. CASE \/ \E p \in Person : Logout(p)
             \/ \E u \in UserId : DeleteUser(u)
    BY <1>1, <2>1, <2>3, <2>6 DEF Logout, DeleteUser, WithoutUser, AccountsInv, TypeOK
  <2>7. CASE ~ \/ \E p \in Person : Visit(p) \/ Logout(p)
               \/ \E c \in calls : SignedIn(c)
               \/ \E u \in UserId : DeleteUser(u)
    <3>1. UNCHANGED rows
      BY <2>7 DEF Next, Login, Callback, StateMismatch, ChangeEmail, Exchanged, ProviderFails,
        SignInFails, CreateStub, ChangeRole, Tick, auth
    <3> QED BY <2>3, <3>1
  <2> QED BY <2>4, <2>5, <2>6, <2>7
<1> QED BY <1>1, AccountsInvariant, PTL DEF Spec, DeadStaysDead

\* A role is changed by an admin or not at all; a login that finds its user
\* keeps what it finds (auth.ts 123).
THEOREM RolesAreKept == Spec => RoleIsKept
<1>1. ASSUME AccountsInv, [Next]_vars
      PROVE  [\A u \in UserId :
                Exists(u) /\ role'[u] \notin {Absent, role[u]} => \E r \in Role : ChangeRole(u, r)]_vars
  <2> SUFFICES ASSUME Next, NEW u \in UserId, role[u] # Absent,
                      role'[u] # Absent, role'[u] # role[u]
               PROVE  \E r \in Role : ChangeRole(u, r)
    BY <1>1 DEF Exists
  <2>1. ASSUME NEW c \in calls, SignedIn(c) PROVE FALSE
    <3>1. role' = [role EXCEPT ![Sub(c.who)] = RoleAtLogin(c.who)]
      BY <2>1 DEF SignedIn
    <3>2. u = Sub(c.who)
      BY <1>1, <3>1 DEF AccountsInv, TypeOK
    <3>3. RoleAtLogin(c.who) = role[u]
      BY <3>2 DEF RoleAtLogin, Exists
    <3> QED BY <1>1, <3>1, <3>2, <3>3 DEF AccountsInv, TypeOK
  <2>2. ASSUME NEW e \in Invited, NEW r \in Role, CreateStub(e, r) PROVE FALSE
    <3>1. role' = [role EXCEPT ![Pending(e)] = r] /\ \A v \in UserId : Exists(v) => email[v] # e
      BY <2>2 DEF CreateStub
    <3>2. u = Pending(e)
      BY <1>1, <3>1 DEF AccountsInv, TypeOK
    <3>3. email[u] = e
      BY <1>1, <3>2 DEF AccountsInv, StubsOK, Exists
    <3> QED BY <3>1, <3>3 DEF Exists
  <2>3. ASSUME NEW v \in UserId, NEW r \in Role, ChangeRole(v, r)
        PROVE  \E s \in Role : ChangeRole(u, s)
    <3>1. role' = [role EXCEPT ![v] = r]
      BY <2>3 DEF ChangeRole
    <3>2. u = v
      BY <1>1, <3>1 DEF AccountsInv, TypeOK
    <3> QED BY <2>3, <3>2
  <2>4. ASSUME NEW v \in UserId, DeleteUser(v) PROVE FALSE
    BY <1>1, <2>4 DEF DeleteUser, AccountsInv, TypeOK
  <2>5. CASE UNCHANGED role
    BY <2>5
  <2>6. CASE \/ \E p \in Person :
                  \/ Login(p) \/ Visit(p) \/ Logout(p)
                  \/ \E st \in Flow : Callback(p, st) \/ StateMismatch(p, st)
                  \/ \E e \in Email : ChangeEmail(p, e)
             \/ \E c \in calls : Exchanged(c) \/ ProviderFails(c) \/ SignInFails(c)
             \/ Tick
    BY <2>5, <2>6 DEF Login, Visit, Logout, Callback, StateMismatch, ChangeEmail, Exchanged,
      ProviderFails, SignInFails, Tick, users
  <2> QED BY <2>1, <2>2, <2>3, <2>4, <2>6 DEF Next
<1> QED BY <1>1, AccountsInvariant, PTL DEF Spec, RoleIsKept
============================================================================
