----------------------------- MODULE AccessProofs -----------------------------
(***************************************************************************)
(* What holds of the tables of Access for every set of people, tags and     *)
(* codes and any number of waiting requests.                                *)
(*                                                                          *)
(* AccessInv is inductive: the tables are well formed, children have their  *)
(* parents, and an address has one row.  The action properties follow from  *)
(* it step by step.                                                         *)
(***************************************************************************)
EXTENDS Access, TLAPS

TablesOK ==
  /\ users \in [UserId -> Role \cup {Absent}]
  /\ sessions \in [Sid -> SessionRow \cup {Absent}]
  /\ nextSid \in 1 .. MaxSid + 1
  /\ codes \in [Code -> CodeRow \cup {Absent}]
  /\ grants \subseteq Sid \X UserId
  /\ redemptions \subseteq Code \X UserId
  /\ inflight \subseteq Request
  /\ auditors \subseteq UserId
  /\ now \in Nat

\* what a reader of audit_log may believe
Belief ==
  [users : [UserId -> Role \cup {Absent, Untold}],
   sessions : [Sid -> SessionRow \cup {Absent, Untold}],
   codes : [Code -> CodeRow \cup {Absent}],
   grants : SUBSET (Sid \X UserId)]

LogOK == told \in Belief /\ now <= MaxNow

\* only people sign in; a stub never does
SignedInOK == \A q \in inflight : ~q.user.pending

AccessInv ==
  /\ TablesOK
  /\ LogOK
  /\ SignedInOK
  /\ ForeignKeys
  /\ OneUserPerEmail

USE AccessAssumption, AbsentIsNoRow

\* An audit row adds its actor, who exists, to the users audit_log names.
LEMMA AuditNamesItsActor ==
  ASSUME NEW actor, NEW belief, WriteAuditLog(actor, belief)
  PROVE  \/ auditors' = auditors
         \/ users'[actor] # Absent /\ auditors' = auditors \cup {actor}
BY DEF WriteAuditLog, audit

\* What a belief becomes by one write is again a belief.
LEMMA BeliefFacts ==
  ASSUME NEW t \in Belief
  PROVE  /\ \A s \in Sid, row \in SessionRow \cup {Absent} :
              [t EXCEPT !.sessions[s] = row] \in Belief
         /\ \A u \in UserId, role \in Role \cup {Absent, Untold} :
              [t EXCEPT !.users[u] = role] \in Belief
         /\ \A k \in Code, row \in CodeRow \cup {Absent} :
              [t EXCEPT !.codes[k] = row] \in Belief
         /\ \A g \in SUBSET (Sid \X UserId) : [t EXCEPT !.grants = g] \in Belief
BY DEF Belief

\* The log is written with a belief or not at all.
LEMMA LogKeeps ==
  ASSUME LogOK, NEW actor, NEW belief \in Belief, WriteAuditLog(actor, belief), now' = now
  PROVE  LogOK'
BY DEF LogOK, WriteAuditLog, audit

\* Without rows there is nothing to violate.
LEMMA InitHolds == Init => AccessInv
<1> SUFFICES ASSUME Init PROVE AccessInv
  OBVIOUS
<1>1. TablesOK /\ SignedInOK
  BY DEF Init, TablesOK, SignedInOK
<1>4. LogOK
  BY DEF Init, LogOK, Belief
<1>2. ForeignKeys
  BY DEF Init, ForeignKeys
<1>3. OneUserPerEmail
  BY DEF Init, OneUserPerEmail, Exists
<1> QED BY <1>1, <1>2, <1>3, <1>4 DEF AccessInv

\* A write of an admin whose body has arrived keeps the invariant.
LEMMA WithBodyKeepsInv ==
  ASSUME AccessInv, NEW q \in Request, WithBody(q)
  PROVE  AccessInv'
<1> USE DEF AccessInv
<1>0. q.user \in UserId /\ told \in Belief
  BY DEF TablesOK, Request, LogOK
<1>1. ASSUME NEW s \in Sid, NEW row \in SessionRow, PatchSession(q, s, row)
      PROVE  AccessInv'
  <2>1. /\ sessions' = [sessions EXCEPT ![s] = row] /\ inflight' \subseteq inflight
        /\ UNCHANGED <<users, nextSid, codes, grants, redemptions, now>>
        /\ row # Absent
    BY <1>1 DEF PatchSession, Departs
  <2>2. \/ auditors' = auditors
        \/ users'[q.user] # Absent /\ auditors' = auditors \cup {q.user}
    BY <1>1, AuditNamesItsActor DEF PatchSession
  <2>3. TablesOK' /\ SignedInOK'
    BY <1>0, <2>1, <2>2 DEF TablesOK, SignedInOK
  <2>4. ForeignKeys'
    BY <2>1, <2>2 DEF TablesOK, ForeignKeys, Exists
  <2>5. OneUserPerEmail'
    BY <2>1 DEF OneUserPerEmail, Exists
  <2>6. LogOK'
    BY <1>0, <1>1, BeliefFacts, LogKeeps DEF PatchSession
  <2> QED BY <2>3, <2>4, <2>5, <2>6
<1>2. ASSUME NEW s \in Sid, NEW u \in UserId, Grant(q, s, u)
      PROVE  AccessInv'
  <2>1. /\ sessions[s] # Absent /\ users[u] # Absent
        /\ grants' = grants \cup {<<s, u>>} /\ inflight' \subseteq inflight
        /\ UNCHANGED <<users, sessions, nextSid, codes, redemptions, now>>
    BY <1>2 DEF Grant, Exists, Departs
  <2>2. \/ auditors' = auditors
        \/ users'[q.user] # Absent /\ auditors' = auditors \cup {q.user}
    BY <1>2, AuditNamesItsActor DEF Grant
  <2>3. TablesOK' /\ SignedInOK'
    BY <1>0, <2>1, <2>2 DEF TablesOK, SignedInOK
  <2>4. ForeignKeys'
    BY <2>1, <2>2 DEF TablesOK, ForeignKeys, Exists
  <2>5. OneUserPerEmail'
    BY <2>1 DEF OneUserPerEmail, Exists
  <2>6. LogOK'
    <3>1. told.grants \cup {<<s, u>>} \in SUBSET (Sid \X UserId)
      BY <1>0 DEF Belief
    <3> QED BY <1>0, <1>2, <3>1, BeliefFacts, LogKeeps DEF Grant
  <2> QED BY <2>3, <2>4, <2>5, <2>6
<1>3. ASSUME NEW e \in Email, NEW role \in Role, CreateUser(q, e, role)
      PROVE  AccessInv'
  <2> DEFINE u == [email |-> e, pending |-> TRUE]
  <2>0. u \in UserId /\ u.email = e /\ role # Absent
    BY DEF UserId
  <2>1. /\ \A v \in UserId : v.email = e => users[v] = Absent
        /\ users' = [users EXCEPT ![u] = role] /\ inflight' \subseteq inflight
        /\ UNCHANGED <<sessions, nextSid, codes, grants, redemptions, now>>
    BY <1>3 DEF CreateUser, EmailTaken, Exists, Departs
  <2>2. \/ auditors' = auditors
        \/ users'[q.user] # Absent /\ auditors' = auditors \cup {q.user}
    BY <1>3, AuditNamesItsActor DEF CreateUser
  <2> HIDE DEF u
  <2>3. TablesOK' /\ SignedInOK'
    BY <1>0, <2>0, <2>1, <2>2 DEF TablesOK, SignedInOK
  <2>4. ForeignKeys'
    BY <2>0, <2>1, <2>2 DEF TablesOK, ForeignKeys, Exists
  <2>5. OneUserPerEmail'
    BY <2>0, <2>1 DEF TablesOK, OneUserPerEmail, Exists
  <2>6. LogOK'
    <3>1. [told EXCEPT !.users[u] = role] \in Belief
      BY <1>0, <2>0, BeliefFacts
    <3> QED BY <1>3, <3>1, LogKeeps DEF CreateUser, u
  <2> QED BY <2>3, <2>4, <2>5, <2>6
<1>4. ASSUME NEW u \in UserId, NEW role \in Role, PatchUser(q, u, role)
      PROVE  AccessInv'
  <2>1. /\ users[u] # Absent /\ role # Absent
        /\ users' = [users EXCEPT ![u] = role] /\ inflight' \subseteq inflight
        /\ UNCHANGED <<sessions, nextSid, codes, grants, redemptions, now>>
    BY <1>4 DEF PatchUser, Exists, Departs
  <2>2. \/ auditors' = auditors
        \/ users'[q.user] # Absent /\ auditors' = auditors \cup {q.user}
    BY <1>4, AuditNamesItsActor DEF PatchUser
  <2>3. TablesOK' /\ SignedInOK'
    BY <1>0, <2>1, <2>2 DEF TablesOK, SignedInOK
  <2>4. ForeignKeys'
    BY <2>1, <2>2 DEF TablesOK, ForeignKeys, Exists
  <2>5. OneUserPerEmail'
    BY <2>1 DEF TablesOK, OneUserPerEmail, Exists
  <2>6. LogOK'
    BY <1>0, <1>4, BeliefFacts, LogKeeps DEF PatchUser
  <2> QED BY <2>3, <2>4, <2>5, <2>6
<1>5. ASSUME NEW k \in Code, NEW row \in CodeRow, CreateCode(q, k, row)
      PROVE  AccessInv'
  <2>1. /\ codes[k] = Absent /\ row # Absent
        /\ codes' = [codes EXCEPT ![k] = row] /\ inflight' \subseteq inflight
        /\ UNCHANGED <<users, sessions, nextSid, grants, redemptions, now>>
    BY <1>5 DEF CreateCode, Departs
  <2>2. \/ auditors' = auditors
        \/ users'[q.user] # Absent /\ auditors' = auditors \cup {q.user}
    BY <1>5, AuditNamesItsActor DEF CreateCode
  <2>3. TablesOK' /\ SignedInOK'
    BY <1>0, <2>1, <2>2 DEF TablesOK, SignedInOK
  <2>4. ForeignKeys'
    BY <2>1, <2>2 DEF TablesOK, ForeignKeys, Exists
  <2>5. OneUserPerEmail'
    BY <2>1 DEF OneUserPerEmail, Exists
  <2>6. LogOK'
    BY <1>0, <1>5, BeliefFacts, LogKeeps DEF CreateCode
  <2> QED BY <2>3, <2>4, <2>5, <2>6
<1> QED BY <1>1, <1>2, <1>3, <1>4, <1>5 DEF WithBody

\* A write of an admin that has no body keeps the invariant.
LEMMA WithoutBodyKeepsInv ==
  ASSUME AccessInv, NEW a \in UserId, users[a] = "admin", WithoutBody(a)
  PROVE  AccessInv'
<1> USE DEF AccessInv
<1>0. users[a] # Absent /\ told \in Belief
  BY DEF Role, LogOK
<1>1. ASSUME NEW s \in Sid, DeleteSession(a, s)
      PROVE  AccessInv'
  <2>1. /\ sessions' = [sessions EXCEPT ![s] = Absent]
        /\ grants' = {g \in grants : g[1] # s}
        /\ UNCHANGED <<users, nextSid, codes, redemptions, inflight, now>>
    BY <1>1 DEF DeleteSession, WithoutSession
  <2>2. \/ auditors' = auditors
        \/ users'[a] # Absent /\ auditors' = auditors \cup {a}
    BY <1>1, AuditNamesItsActor DEF DeleteSession
  <2>3. TablesOK' /\ SignedInOK'
    BY <1>0, <2>1, <2>2 DEF TablesOK, SignedInOK
  <2>4. ForeignKeys'
    BY <2>1, <2>2 DEF TablesOK, ForeignKeys, Exists
  <2>5. OneUserPerEmail'
    BY <2>1 DEF OneUserPerEmail, Exists
  <2>6. LogOK'
    <3> DEFINE b == [told EXCEPT !.sessions[s] = Absent,
                                 !.grants = WithoutSession(@, s)]
    <3>1. b \in Belief
      BY <1>0 DEF Belief, WithoutSession
    <3> QED BY <1>1, <3>1, LogKeeps DEF DeleteSession
  <2> QED BY <2>3, <2>4, <2>5, <2>6
<1>2. ASSUME NEW s \in Sid, NEW u \in UserId, Revoke(a, s, u)
      PROVE  AccessInv'
  <2>1. /\ grants' = grants \ {<<s, u>>}
        /\ UNCHANGED <<users, sessions, nextSid, codes, redemptions, inflight, now>>
    BY <1>2 DEF Revoke
  <2>2. \/ auditors' = auditors
        \/ users'[a] # Absent /\ auditors' = auditors \cup {a}
    BY <1>2, AuditNamesItsActor DEF Revoke
  <2>3. TablesOK' /\ SignedInOK'
    BY <1>0, <2>1, <2>2 DEF TablesOK, SignedInOK
  <2>4. ForeignKeys'
    BY <2>1, <2>2 DEF TablesOK, ForeignKeys, Exists
  <2>5. OneUserPerEmail'
    BY <2>1 DEF OneUserPerEmail, Exists
  <2>6. LogOK'
    <3>1. told.grants \ {<<s, u>>} \in SUBSET (Sid \X UserId)
      BY <1>0 DEF Belief
    <3> QED BY <1>0, <1>2, <3>1, BeliefFacts, LogKeeps DEF Revoke
  <2> QED BY <2>3, <2>4, <2>5, <2>6
<1>3. ASSUME NEW u \in UserId, DeleteUser(a, u)
      PROVE  AccessInv'
  <2>1. /\ users' = [users EXCEPT ![u] = Absent]
        /\ u # a /\ u \notin auditors
        /\ grants' = {g \in grants : g[2] # u}
        /\ redemptions' = {r \in redemptions : r[2] # u}
        /\ UNCHANGED <<sessions, nextSid, codes, inflight, now>>
    BY <1>3 DEF DeleteUser, MayDelete, WithoutUser
  <2>2. \/ auditors' = auditors
        \/ users'[a] # Absent /\ auditors' = auditors \cup {a}
    BY <1>3, AuditNamesItsActor DEF DeleteUser
  <2>3. TablesOK' /\ SignedInOK'
    BY <1>0, <2>1, <2>2 DEF TablesOK, SignedInOK
  <2>4. ForeignKeys'
    BY <2>1, <2>2 DEF TablesOK, ForeignKeys, Exists
  <2>5. OneUserPerEmail'
    BY <2>1 DEF TablesOK, OneUserPerEmail, Exists
  <2>6. LogOK'
    <3> DEFINE b == [told EXCEPT !.users[u] = Absent,
                                 !.grants = WithoutUser(@, u)]
    <3>1. b \in Belief
      BY <1>0 DEF Belief, WithoutUser
    <3> QED BY <1>3, <3>1, LogKeeps DEF DeleteUser
  <2> QED BY <2>3, <2>4, <2>5, <2>6
<1>4. ASSUME NEW k \in Code, DeleteCode(a, k)
      PROVE  AccessInv'
  <2>1. /\ codes' = [codes EXCEPT ![k] = Absent]
        /\ redemptions' = {r \in redemptions : r[1] # k}
        /\ UNCHANGED <<users, sessions, nextSid, grants, inflight, now>>
    BY <1>4 DEF DeleteCode, WithoutCode
  <2>2. \/ auditors' = auditors
        \/ users'[a] # Absent /\ auditors' = auditors \cup {a}
    BY <1>4, AuditNamesItsActor DEF DeleteCode
  <2>3. TablesOK' /\ SignedInOK'
    BY <1>0, <2>1, <2>2 DEF TablesOK, SignedInOK
  <2>4. ForeignKeys'
    BY <2>1, <2>2 DEF TablesOK, ForeignKeys, Exists
  <2>5. OneUserPerEmail'
    BY <2>1 DEF OneUserPerEmail, Exists
  <2>6. LogOK'
    BY <1>0, <1>4, BeliefFacts, LogKeeps DEF DeleteCode
  <2> QED BY <2>3, <2>4, <2>5, <2>6
<1> QED BY <1>1, <1>2, <1>3, <1>4 DEF WithoutBody

\* Redeeming a code adds a child whose parents are there.
LEMMA RedeemKeepsInv ==
  ASSUME AccessInv, NEW q \in Request, NEW k \in Code, Redeem(q, k)
  PROVE  AccessInv'
<1>1. /\ codes[k] # Absent /\ users[q.user] # Absent
      /\ redemptions' = redemptions \cup {<<k, q.user>>}
      /\ inflight' \subseteq inflight
      /\ UNCHANGED <<users, sessions, nextSid, codes, grants, auditors, told, now>>
  BY DEF Redeem, Exists, audit, Departs
<1>2. q.user \in UserId
  BY DEF Request
<1> QED BY <1>1, <1>2 DEF AccessInv, TablesOK, LogOK, SignedInOK, ForeignKeys, OneUserPerEmail, Exists

LEMMA StartSessionKeepsInv ==
  ASSUME AccessInv, StartSession
  PROVE  AccessInv'
<1>1. /\ nextSid \in Sid /\ NewSession \in SessionRow
      /\ sessions' = [sessions EXCEPT ![nextSid] = NewSession]
      /\ nextSid' = nextSid + 1
      /\ UNCHANGED <<users, codes, grants, redemptions, inflight, auditors, told, now>>
  BY DEF StartSession, NewSession, SessionRow, audit
<1>2. nextSid' \in 1 .. MaxSid + 1
  BY <1>1 DEF Sid
<1>3. TablesOK' /\ SignedInOK' /\ LogOK'
  BY <1>1, <1>2 DEF AccessInv, TablesOK, SignedInOK, LogOK
<1>4. ForeignKeys'
  BY <1>1 DEF AccessInv, TablesOK, ForeignKeys, Exists
<1> QED BY <1>1, <1>3, <1>4 DEF AccessInv, OneUserPerEmail, Exists

\* The first sign-in makes a row for an address that has none.
LEMMA SignUpKeepsInv ==
  ASSUME AccessInv, NEW e \in Email, SignUp(e)
  PROVE  AccessInv'
<1> DEFINE u == [email |-> e, pending |-> FALSE]
           role == IF e \in AdminEmails THEN "admin" ELSE "viewer"
<1>1. u \in UserId /\ u.email = e /\ role \in Role
  BY DEF UserId, Role
<1>2. /\ \A v \in UserId : v.email = e => users[v] = Absent
      /\ users' = [users EXCEPT ![u] = role]
      /\ told' = IF Replays THEN [told EXCEPT !.users[u] = Untold] ELSE told
      /\ UNCHANGED <<sessions, nextSid, codes, grants, redemptions, inflight, auditors, now>>
  BY DEF SignUp, EmailTaken, Exists
<1> HIDE DEF u, role
<1>3. TablesOK' /\ SignedInOK'
  BY <1>1, <1>2 DEF AccessInv, TablesOK, SignedInOK
<1>4. ForeignKeys'
  BY <1>1, <1>2 DEF AccessInv, TablesOK, ForeignKeys, Exists
<1>5. OneUserPerEmail'
  BY <1>1, <1>2 DEF AccessInv, TablesOK, OneUserPerEmail, Exists
<1>6. LogOK'
  BY <1>1, <1>2, BeliefFacts DEF AccessInv, LogOK
<1> QED BY <1>3, <1>4, <1>5, <1>6 DEF AccessInv

LEMMA TickKeepsInv ==
  ASSUME AccessInv, Tick
  PROVE  AccessInv'
BY DEF Tick, tables, audit, AccessInv, TablesOK, LogOK, SignedInOK, ForeignKeys,
       OneUserPerEmail, Exists

LEMMA InterruptKeepsInv ==
  ASSUME AccessInv, Interrupt
  PROVE  AccessInv'
BY DEF Interrupt, tables, audit, AccessInv, TablesOK, LogOK, SignedInOK, ForeignKeys,
       OneUserPerEmail, Exists

LEMMA StutterKeepsInv ==
  ASSUME AccessInv, UNCHANGED vars
  PROVE  AccessInv'
BY DEF vars, tables, audit, AccessInv, TablesOK, LogOK, SignedInOK, ForeignKeys,
       OneUserPerEmail, Exists

\* Every step keeps the invariant.
LEMMA NextKeepsInv == AccessInv /\ [Next]_vars => AccessInv'
<1> SUFFICES ASSUME AccessInv, [Next]_vars PROVE AccessInv'
  OBVIOUS
<1>0. inflight \subseteq Request
  BY DEF AccessInv, TablesOK
<1>1. ASSUME NEW u \in UserId, NEW scope \in {"admin", "user"}, Authenticate(u, scope)
      PROVE  AccessInv'
  <2>1. /\ inflight' = inflight \cup {[user |-> u, scope |-> scope]}
        /\ UNCHANGED <<users, sessions, nextSid, codes, grants, redemptions, auditors, told, now>>
    BY <1>1 DEF Authenticate, tables, audit
  <2>2. [user |-> u, scope |-> scope] \in Request /\ ~u.pending
    BY <1>1 DEF Authenticate, Request
  <2> QED BY <2>1, <2>2 DEF AccessInv, TablesOK, LogOK, SignedInOK, ForeignKeys, OneUserPerEmail, Exists
<1>2. ASSUME NEW q \in inflight, Refuse(q)
      PROVE  AccessInv'
  <2>1. /\ inflight' \subseteq inflight
        /\ UNCHANGED <<users, sessions, nextSid, codes, grants, redemptions, auditors, told, now>>
    BY <1>2 DEF Refuse, Departs, tables, audit
  <2> QED BY <2>1 DEF AccessInv, TablesOK, LogOK, SignedInOK, ForeignKeys, OneUserPerEmail, Exists
<1>3. ASSUME NEW q \in inflight, NEW k \in Code, Redeem(q, k)
      PROVE  AccessInv'
  BY <1>0, <1>3, RedeemKeepsInv
<1>6. CASE Interrupt
  BY <1>6, InterruptKeepsInv
<1>4. ASSUME NEW q \in inflight, WithBody(q)
      PROVE  AccessInv'
  BY <1>0, <1>4, WithBodyKeepsInv
<1>5. ASSUME NEW a \in Admins, WithoutBody(a)
      PROVE  AccessInv'
  BY <1>5, WithoutBodyKeepsInv DEF Admins
<1> QED BY <1>1, <1>2, <1>3, <1>4, <1>5, <1>6, StartSessionKeepsInv, SignUpKeepsInv, TickKeepsInv,
           StutterKeepsInv DEF Next, AdminWrite

\* The invariant of the tables.
THEOREM AccessInvariant == Spec => []AccessInv
BY InitHolds, NextKeepsInv, PTL DEF Spec

\* Every variable of the tables, the requests under way and the log keeps its
\* type.
THEOREM AccessTypes == Spec => []TypeOK
<1>1. AccessInv => TypeOK
  BY DEF AccessInv, TablesOK, LogOK, Belief, TypeOK
<1> QED BY <1>1, AccessInvariant, PTL

\* No grant, redemption or audit row ever names a row that is gone
\* (migrations/0000_init.sql, 0001_audit_log.sql).
THEOREM RowsHaveParents == Spec => []ForeignKeys
BY AccessInvariant, PTL DEF AccessInv

\* An address never has two rows in users.
THEOREM OneRowPerAddress == Spec => []OneUserPerEmail
BY AccessInvariant, PTL DEF AccessInv

----------------------------------------------------------------------------
\* What a step may never do.

\* What can happen to the rows, whoever is being served: the routes, each by
\* any request, and what others do.
RowsNext ==
  \/ \E q \in Request : WithBody(q) \/ \E k \in Code : Redeem(q, k)
  \/ \E a \in Admins : WithoutBody(a)
  \/ StartSession
  \/ \E e \in Email : SignUp(e)
  \/ Tick

\* The other steps of Access let a request in or send it away.
LEMMA NextMovesRows ==
  ASSUME AccessInv, Next
  PROVE  RowsNext \/ UNCHANGED <<tables, now>>
<1>1. CASE \/ \E u \in UserId, scope \in {"admin", "user"} : Authenticate(u, scope)
           \/ \E q \in inflight : Refuse(q)
           \/ Interrupt
  BY <1>1 DEF Authenticate, Refuse, Interrupt
<1>2. CASE \E q \in inflight : WithBody(q) \/ \E k \in Code : Redeem(q, k)
  BY <1>2 DEF RowsNext, AccessInv, TablesOK
<1>3. CASE (\E a \in Admins : WithoutBody(a)) \/ StartSession \/ (\E e \in Email : SignUp(e)) \/ Tick
  BY <1>3 DEF RowsNext
<1> QED BY <1>1, <1>2, <1>3 DEF Next, AdminWrite

\* The parents of every grant and redemption are there before and after a
\* step, so a key that had no row has no children when it gets one: each
\* action that adds a row leaves both child tables alone.
LEMMA NewRowsHaveNoChildren ==
  ASSUME AccessInv, RowsNext
  PROVE  /\ \A k \in Code : codes[k] = Absent /\ codes'[k] # Absent => redemptions' = redemptions
         /\ \A u \in UserId : users[u] = Absent /\ users'[u] # Absent
              => redemptions' = redemptions /\ grants' = grants
         /\ \A s \in Sid : sessions[s] = Absent /\ sessions'[s] # Absent => grants' = grants
<1>1. CASE \E q \in Request : WithBody(q)
  BY <1>1 DEF AccessInv, TablesOK, WithBody, PatchSession, Grant, CreateUser, PatchUser, CreateCode
<1>2. CASE \E a \in Admins : WithoutBody(a)
  <2>1. ASSUME NEW a \in Admins, NEW s \in Sid, DeleteSession(a, s)
        PROVE  /\ \A t \in Sid : sessions'[t] # Absent => sessions[t] # Absent
               /\ UNCHANGED <<users, codes>>
    BY <2>1 DEF DeleteSession, AccessInv, TablesOK
  <2>2. ASSUME NEW a \in Admins, NEW s \in Sid, NEW u \in UserId, Revoke(a, s, u)
        PROVE  UNCHANGED <<users, sessions, codes>>
    BY <2>2 DEF Revoke
  <2>3. ASSUME NEW a \in Admins, NEW u \in UserId, DeleteUser(a, u)
        PROVE  /\ \A v \in UserId : users'[v] # Absent => users[v] # Absent
               /\ UNCHANGED <<sessions, codes>>
    BY <2>3 DEF DeleteUser, AccessInv, TablesOK
  <2>4. ASSUME NEW a \in Admins, NEW k \in Code, DeleteCode(a, k)
        PROVE  /\ \A j \in Code : codes'[j] # Absent => codes[j] # Absent
               /\ UNCHANGED <<users, sessions>>
    BY <2>4 DEF DeleteCode, AccessInv, TablesOK
  <2> QED BY <1>2, <2>1, <2>2, <2>3, <2>4 DEF WithoutBody
<1>3. CASE \E q \in Request, k \in Code : Redeem(q, k)
  BY <1>3 DEF Redeem
<1>4. CASE StartSession
  BY <1>4 DEF StartSession
<1>5. CASE \E e \in Email : SignUp(e)
  BY <1>5 DEF SignUp
<1>6. CASE Tick
  BY <1>6 DEF Tick, tables
<1> QED BY <1>1, <1>2, <1>3, <1>4, <1>5, <1>6 DEF RowsNext

\* What is made under a key that was used before has no rows that name it.
LEMMA KeysStartEmpty ==
  ASSUME AccessInv, RowsNext
  PROVE  /\ \A k \in Code : codes[k] = Absent /\ codes'[k] # Absent
              => \A r \in redemptions' : r[1] # k
         /\ \A u \in UserId : users[u] = Absent /\ users'[u] # Absent
              => /\ \A r \in redemptions' : r[2] # u
                 /\ \A g \in grants' : g[2] # u
         /\ \A s \in Sid : sessions[s] = Absent /\ sessions'[s] # Absent
              => \A g \in grants' : g[1] # s
BY NewRowsHaveNoChildren DEF AccessInv, ForeignKeys, Exists

\* Whatever is made under a key that was used before starts without rights
\* (the cascades of 0000_init.sql).
THEOREM RightsStartEmpty == Spec => NothingInherited
<1>1. ASSUME AccessInv, [Next]_vars
      PROVE  [/\ \A k \in Code : codes[k] = Absent /\ codes'[k] # Absent
                => \A r \in redemptions' : r[1] # k
              /\ \A u \in UserId : users[u] = Absent /\ users'[u] # Absent
                => /\ \A r \in redemptions' : r[2] # u
                   /\ \A g \in grants' : g[2] # u
              /\ \A s \in Sid : sessions[s] = Absent /\ sessions'[s] # Absent
                => \A g \in grants' : g[1] # s]_vars
  <2>1. CASE UNCHANGED <<tables, now>>
    BY <2>1 DEF tables
  <2>2. CASE RowsNext
    BY <1>1, <2>2, KeysStartEmpty
  <2> QED BY <1>1, <2>1, <2>2, NextMovesRows DEF vars
<1> QED BY <1>1, AccessInvariant, PTL DEF Spec, NothingInherited

\* Who deletes a user is an admin and stays; nothing else deletes one.
LEMMA DeleterStays ==
  ASSUME AccessInv, RowsNext, Admins' = {}, NEW u \in UserId, Exists(u)
  PROVE  users'[u] # Absent
<1>1. ASSUME NEW a \in Admins, NEW v \in UserId, DeleteUser(a, v)
      PROVE  a \in Admins'
  BY <1>1 DEF DeleteUser, MayDelete, Admins, AccessInv, TablesOK
<1>2. CASE \E q \in Request : WithBody(q)
  BY <1>2 DEF WithBody, PatchSession, Grant, CreateUser, PatchUser, CreateCode, AccessInv, TablesOK, Exists
<1>3. CASE \E a \in Admins : WithoutBody(a)
  BY <1>1, <1>3 DEF WithoutBody, DeleteSession, Revoke, DeleteCode, Exists
<1>4. CASE \E e \in Email : SignUp(e)
  BY <1>4 DEF SignUp, AccessInv, TablesOK, Exists, Role
<1>5. CASE (\E q \in Request, k \in Code : Redeem(q, k)) \/ StartSession \/ Tick
  BY <1>5 DEF Redeem, StartSession, Tick, tables, Exists
<1> QED BY <1>2, <1>3, <1>4, <1>5 DEF RowsNext

\* Two admins cannot both go by deleting users: the one who deletes stays.
THEOREM AnAdminStays == Spec => AdminsDeleteLeavesOne
<1>1. ASSUME AccessInv, [Next]_vars
      PROVE  [Admins # {} /\ Admins' = {} => \A u \in UserId : Exists(u) => users'[u] # Absent]_vars
  <2>1. CASE UNCHANGED <<tables, now>>
    BY <2>1 DEF tables, Exists
  <2>2. CASE RowsNext
    BY <1>1, <2>2, DeleterStays
  <2> QED BY <1>1, <2>1, <2>2, NextMovesRows DEF vars
<1> QED BY <1>1, AccessInvariant, PTL DEF Spec, AdminsDeleteLeavesOne

\* The counts of GET /api/me and canViewSession agree for every viewer.
THEOREM MeCountsWhatIsSeen == Spec => []MeAgrees
<1>1. MeAgrees
  <2> SUFFICES ASSUME NEW u \in Viewers
               PROVE  /\ CountedSessions(u) = {s \in Sid : Sees(u, s)}
                      /\ \A s \in Sid : Sees(u, s) /\ sessions[s].vis = "code"
                           => sessions[s].tag \in CountedTags(u)
    BY DEF MeAgrees
  <2>1. users[u] = "viewer" /\ ~u.pending /\ "viewer" # Absent
    BY DEF Viewers, Role
  <2>2. \A s \in Sid : Sees(u, s) <=> CanView(u, "viewer", s)
    BY <2>1 DEF Sees, Exists
  <2>3. \A s \in Sid : Sees(u, s) <=> s \in CountedSessions(u)
    BY <2>2 DEF CanView, CountedSessions
  <2>4. CountedSessions(u) \subseteq Sid
    BY DEF CountedSessions
  <2>5. \A s \in Sid : Sees(u, s) /\ sessions[s].vis = "code" => sessions[s].tag \in CountedTags(u)
    BY <2>2 DEF CanView, CountedTags
  <2> QED BY <2>3, <2>4, <2>5
<1> QED BY <1>1, PTL

\* Who is granted a code sees what it is for: join and the access check draw
\* the line of the expiry at the same instant.
THEOREM JoiningGivesSight == Spec => JoinedSees
<1>1. ASSUME AccessInv, [Next]_vars
      PROVE  [\A q \in inflight, k \in Code : Redeem(q, k) =>
                \A s \in Sid : sessions[s] # Absent =>
                  (sessions[s].vis = "code" /\ sessions[s].tag = codes[k].tag
                     => Sees(q.user, s)')]_vars
  <2> SUFFICES ASSUME NEW q \in inflight, NEW k \in Code, Redeem(q, k),
                      NEW s \in Sid, sessions[s] # Absent,
                      sessions[s].vis = "code", sessions[s].tag = codes[k].tag
               PROVE  Sees(q.user, s)'
    OBVIOUS
  <2>1. /\ codes[k] # Absent /\ ~Expired(k) /\ users[q.user] # Absent
        /\ <<k, q.user>> \in redemptions'
        /\ UNCHANGED <<users, sessions, codes, now>>
    BY DEF Redeem, Exists
  <2>2. Unexpired(k)'
    <3>1. codes[k].expires \in Nat \cup {Never} /\ now \in Nat
      BY <1>1, <2>1 DEF AccessInv, TablesOK, CodeRow
    <3>2. codes[k].expires = Never \/ codes[k].expires > now
      BY <3>1, <2>1 DEF Expired
    <3> QED BY <3>2, <2>1 DEF Unexpired
  <2>3. k \in RedeemedCodes(q.user)'
    BY <2>1, <2>2 DEF RedeemedCodes
  <2>4. CanView(q.user, users[q.user], s)'
    BY <2>1, <2>3 DEF CanView
  <2>5. ~q.user.pending
    BY <1>1 DEF AccessInv, SignedInOK
  <2> QED BY <2>1, <2>4, <2>5 DEF Sees, Exists
<1> QED BY <1>1, AccessInvariant, PTL DEF Spec, JoinedSees

\* Nothing but an admin's write and the own redemption opens a session to a
\* viewer: not time, an ingest, a sign-in or somebody else's redemption.
LEMMA SightNeedsAWrite ==
  ASSUME AccessInv, NEW u \in UserId, NEW s \in Sid, users'[u] = "viewer", Sees(u, s)',
         \/ \E q \in Request, k \in Code : q.user # u /\ Redeem(q, k)
         \/ StartSession
         \/ \E e \in Email : SignUp(e)
         \/ Tick
         \/ UNCHANGED <<tables, now>>
  PROVE  Sees(u, s)
<1>0. /\ ~u.pending
      /\ sessions'[s] # Absent
      /\ \/ sessions'[s].vis = "shared" /\ <<s, u>> \in grants'
         \/ /\ sessions'[s].vis = "code"
            /\ \E k \in RedeemedCodes(u)' : codes'[k].tag = sessions'[s].tag
  BY DEF Sees, CanView
<1>1. CASE \E q \in Request, k \in Code : q.user # u /\ Redeem(q, k)
  <2>1. PICK q \in Request, k \in Code : q.user # u /\ Redeem(q, k)
    BY <1>1
  <2>2. /\ q.user # u
        /\ redemptions' = redemptions \cup {<<k, q.user>>}
        /\ UNCHANGED <<users, sessions, codes, grants, now>>
    BY <2>1 DEF Redeem
  <2>3. \A j \in Code : <<j, u>> \in redemptions' => <<j, u>> \in redemptions
    BY <2>2
  <2>4. RedeemedCodes(u)' \subseteq RedeemedCodes(u)
    BY <2>2, <2>3 DEF RedeemedCodes, Unexpired
  <2>5. Sees(u, s)
    BY <1>0, <2>2, <2>4 DEF Sees, Exists, CanView, Role
  <2> QED BY <2>5
<1>2. CASE Tick
  <2>1. now' = now + 1 /\ UNCHANGED <<users, sessions, codes, grants, redemptions>>
    BY <1>2 DEF Tick, tables
  <2>2. \A k \in Code : codes[k] # Absent => codes[k].expires \in Nat \cup {Never}
    BY DEF AccessInv, TablesOK, CodeRow
  <2>3. \A k \in Code : codes[k] # Absent /\ Unexpired(k)' => Unexpired(k)
    BY <2>1, <2>2 DEF AccessInv, TablesOK, Unexpired
  <2>4. RedeemedCodes(u)' \subseteq RedeemedCodes(u)
    BY <2>1, <2>3 DEF RedeemedCodes
  <2>5. Sees(u, s)
    BY <1>0, <2>1, <2>4 DEF Sees, Exists, CanView, Role
  <2> QED BY <2>5
<1>3. CASE StartSession
  <2>1. /\ nextSid \in Sid
        /\ sessions' = [sessions EXCEPT ![nextSid] = NewSession]
        /\ UNCHANGED <<users, codes, grants, redemptions, now>>
    BY <1>3 DEF StartSession
  <2>2. s # nextSid
    BY <1>0, <2>1 DEF AccessInv, TablesOK, NewSession
  <2>3. sessions'[s] = sessions[s]
    BY <2>1, <2>2 DEF AccessInv, TablesOK
  <2>4. RedeemedCodes(u)' = RedeemedCodes(u)
    BY <2>1 DEF RedeemedCodes, Unexpired
  <2>5. Sees(u, s)
    BY <1>0, <2>1, <2>3, <2>4 DEF Sees, Exists, CanView, Role
  <2> QED BY <2>5
<1>4. CASE \E e \in Email : SignUp(e)
  <2>1. PICK e \in Email : SignUp(e)
    BY <1>4
  <2> DEFINE v == [email |-> e, pending |-> FALSE]
             role == IF e \in AdminEmails THEN "admin" ELSE "viewer"
  <2>2. /\ users' = [users EXCEPT ![v] = role]
        /\ UNCHANGED <<sessions, codes, grants, redemptions, now>>
    BY <2>1 DEF SignUp
  <2>3. users[v] = Absent /\ v \in UserId
    BY <2>1 DEF SignUp, EmailTaken, Exists, UserId
  <2>4. u # v
    <3> SUFFICES ASSUME u = v PROVE FALSE
      OBVIOUS
    <3>1. users[u] = Absent
      BY <2>3
    <3>2. <<s, u>> \notin grants /\ \A k \in Code : <<k, u>> \notin redemptions
      BY <3>1 DEF AccessInv, ForeignKeys, Exists
    <3>3. RedeemedCodes(u)' = {}
      BY <2>2, <3>2 DEF RedeemedCodes
    <3> QED BY <1>0, <2>2, <3>2, <3>3
  <2>5. users'[u] = users[u]
    <3> HIDE DEF v, role
    <3> QED BY <2>2, <2>4 DEF AccessInv, TablesOK
  <2>6. RedeemedCodes(u)' = RedeemedCodes(u)
    BY <2>2 DEF RedeemedCodes, Unexpired
  <2>7. Sees(u, s)
    BY <1>0, <2>2, <2>5, <2>6 DEF Sees, Exists, CanView, Role
  <2> QED BY <2>7
<1>5. CASE UNCHANGED <<tables, now>>
  <2>1. UNCHANGED <<users, sessions, codes, grants, redemptions, now>>
    BY <1>5 DEF tables
  <2>2. RedeemedCodes(u)' = RedeemedCodes(u)
    BY <2>1 DEF RedeemedCodes, Unexpired
  <2> QED BY <1>0, <2>1, <2>2 DEF Sees, Exists, CanView, Role
<1> QED BY <1>1, <1>2, <1>3, <1>4, <1>5

\* A viewer begins to see a session only by an admin's write or the own
\* redemption.
THEOREM SightIsGiven == Spec => AccessIsGiven
<1>1. ASSUME AccessInv, [Next]_vars
      PROVE  [\A u \in UserId, s \in Sid :
                ~Sees(u, s) /\ users'[u] = "viewer" /\ Sees(u, s)'
                  => \/ AdminWrite
                     \/ \E q \in inflight, k \in Code : q.user = u /\ Redeem(q, k)]_vars
  <2> SUFFICES ASSUME Next, NEW u \in UserId, NEW s \in Sid,
                      ~Sees(u, s), users'[u] = "viewer", Sees(u, s)',
                      ~AdminWrite,
                      \A q \in inflight, k \in Code : ~(q.user = u /\ Redeem(q, k))
               PROVE  FALSE
    BY <1>1
  <2>1. \A q \in inflight : q \in Request
    BY <1>1 DEF AccessInv, TablesOK
  <2>2. \/ \E q \in Request, k \in Code : q.user # u /\ Redeem(q, k)
        \/ StartSession
        \/ \E e \in Email : SignUp(e)
        \/ Tick
        \/ UNCHANGED <<tables, now>>
    BY <2>1 DEF Next, Authenticate, Refuse, Interrupt
  <2> QED BY <1>1, <2>2, SightNeedsAWrite
<1> QED BY <1>1, AccessInvariant, PTL DEF Spec, AccessIsGiven
============================================================================
