-------------------------- MODULE PromptStoreProofs --------------------------
(***************************************************************************)
(* The tables stay well numbered through every order of ingests and         *)
(* deletions.  StoreInv strengthens the two properties of PromptStore with  *)
(* what makes them inductive: ids and numbers stay below the next ULID,     *)
(* which bounds them, so that MAX(seq) exists.                              *)
(***************************************************************************)
EXTENDS PromptStore, FiniteSetTheorems, TLAPS

StoreInv ==
  /\ StoreTypeOK
  /\ IsFiniteSet(sessions)
  /\ IsFiniteSet(prompts)
  /\ \A r \in sessions : r.id < nextSid /\ r.seq \in 1 .. nextSid - 1
  /\ \A p \in prompts : p.id < nextPid /\ p.seq \in 1 .. nextPid - 1
  /\ \A p, q \in prompts : p.id = q.id => p = q
  /\ SessionsDistinct
  /\ PromptsNumbered

\* A non-empty set of naturals with a bound has a greatest element.
LEMMA GreatestElement ==
  ASSUME NEW S \in SUBSET Nat, S # {}, NEW n \in Nat, \A x \in S : x <= n
  PROVE  \E m \in S : \A x \in S : x <= m
<1> DEFINE T == {k \in Nat : \A x \in S : x <= k}
<1>1. T \subseteq Nat /\ T # {}
  OBVIOUS
<1>2. PICK m \in T : \A y \in T : ~(<<y, m>> \in OpToRel(<, Nat))
  BY <1>1, NatLessThanWellFounded, WFMin
<1>3. \A y \in T : ~(y < m)
  BY <1>2 DEF OpToRel
<1>4. m \in S
  <2> SUFFICES ASSUME m \notin S PROVE FALSE
    OBVIOUS
  <2>1. m \in Nat /\ \A x \in S : x \in Nat /\ x <= m /\ x # m
    OBVIOUS
  <2>2. m - 1 \in Nat /\ \A x \in S : x <= m - 1
    <3>1. PICK y \in S : TRUE
      OBVIOUS
    <3>2. y \in Nat /\ y <= m /\ y # m
      BY <2>1
    <3>3. m - 1 \in Nat
      BY <2>1, <3>2
    <3>4. ASSUME NEW x \in S PROVE x <= m - 1
      <4>1. x \in Nat /\ x <= m /\ x # m
        BY <2>1
      <4> QED BY <4>1, <2>1
    <3> QED BY <3>3, <3>4
  <2>3. m - 1 \in T /\ m - 1 < m
    BY <2>1, <2>2
  <2> QED BY <2>3, <1>3
<1> QED BY <1>4

\* MAX(seq) + 1 over a non-empty bounded set of rows is one more than a number
\* in use and greater than all of them; over no rows it is 1.
LEMMA NextSeqIsFresh ==
  ASSUME NEW rows, NEW n \in Nat, \A r \in rows : r.seq \in 1 .. n
  PROVE  /\ NextSeq(rows) \in 1 .. n + 1
         /\ \A r \in rows : r.seq < NextSeq(rows)
         /\ rows # {} => \E r \in rows : NextSeq(rows) = r.seq + 1
         /\ rows = {} => NextSeq(rows) = 1
<1>1. CASE rows = {}
  BY <1>1 DEF NextSeq
<1>2. CASE rows # {}
  <2> DEFINE S == {r.seq : r \in rows}
  <2>1. S \in SUBSET Nat /\ S # {} /\ \A x \in S : x <= n
    BY <1>2
  <2>2. \E g \in S : \A r \in rows : r.seq <= g
    <3>1. \E g \in S : \A x \in S : x <= g
      BY <2>1, GreatestElement
    <3> QED BY <3>1
  <2>3. PICK g \in S : NextSeq(rows) = 1 + g /\ \A r \in rows : r.seq <= g
    BY <2>2, <1>2 DEF NextSeq
  <2>4. PICK r \in rows : r.seq = g
    OBVIOUS
  <2>5. g \in 1 .. n
    BY <2>4
  <2>6. NextSeq(rows) \in 1 .. n + 1 /\ \A q \in rows : q.seq < NextSeq(rows)
    BY <2>3, <2>5
  <2>7. NextSeq(rows) = r.seq + 1
    BY <2>3, <2>4, <2>5
  <2> QED BY <2>6, <2>7, <1>2
<1> QED BY <1>1, <1>2

\* The row the upsert leaves: one of the table, or a new one that clashes with
\* none of them.
LEMMA TargetSessionFacts ==
  ASSUME StoreInv, NEW k \in Claude, TargetSession(k).id <= MaxSid
  PROVE  /\ TargetSession(k) \in SessionRow
         /\ TargetSession(k).claude = k
         /\ TargetSession(k) \notin sessions =>
              /\ \A r \in sessions : r.claude # k
              /\ TargetSession(k).id = nextSid
              /\ TargetSession(k).seq \in 1 .. nextSid
              /\ \A r \in sessions : r.seq < TargetSession(k).seq
<1> DEFINE t == TargetSession(k)
<1>1. CASE \E row \in sessions : row.claude = k
  BY <1>1 DEF TargetSession, StoreInv, StoreTypeOK
<1>2. CASE ~ \E row \in sessions : row.claude = k
  <2>1. t = [id |-> nextSid, claude |-> k, seq |-> NextSeq(sessions)]
    BY <1>2 DEF TargetSession
  <2>2. /\ nextSid \in Nat /\ nextSid - 1 \in Nat
        /\ \A r \in sessions : r.seq \in 1 .. nextSid - 1
    BY StoreAssumption DEF StoreInv, StoreTypeOK
  <2>3. NextSeq(sessions) \in 1 .. nextSid - 1 + 1
        /\ \A r \in sessions : r.seq < NextSeq(sessions)
    BY <2>2, NextSeqIsFresh
  <2>4. nextSid \in Sid
    BY <2>1, StoreAssumption DEF StoreInv, StoreTypeOK, Sid
  <2>5. t.id = nextSid /\ t.claude = k /\ t.seq = NextSeq(sessions)
    BY <2>1
  <2>6. t \in SessionRow
    BY <2>1, <2>3, <2>4, <2>2 DEF SessionRow
  <2>7. t.seq \in 1 .. nextSid /\ \A r \in sessions : r.seq < t.seq
    BY <2>2, <2>3, <2>5
  <2> QED BY <2>5, <2>6, <2>7, <1>2
<1> QED BY <1>1, <1>2

\* The inserted row: a fresh id, and the first number its session has not used.
LEMMA NewPromptFacts ==
  ASSUME StoreInv, NEW k \in Claude, IngestTx(k)
  PROVE  /\ NewPrompt(k) \in PromptRow
         /\ NewPrompt(k).id = nextPid
         /\ NewPrompt(k).sid = TargetSession(k).id
         /\ NewPrompt(k).seq \in 1 .. nextPid
         /\ NewPrompt(k) \notin prompts
         /\ \A p \in PromptsOf(NewPrompt(k).sid) : p.seq < NewPrompt(k).seq
         /\ PromptsOf(NewPrompt(k).sid) # {} =>
              \E p \in PromptsOf(NewPrompt(k).sid) : NewPrompt(k).seq = p.seq + 1
         /\ PromptsOf(NewPrompt(k).sid) = {} => NewPrompt(k).seq = 1
<1> DEFINE s == TargetSession(k).id
<1>1. NewPrompt(k) = [id |-> nextPid, sid |-> s, seq |-> NextSeq(PromptsOf(s))]
  BY DEF NewPrompt
<1>2. s \in Sid
  BY TargetSessionFacts DEF IngestTx, SessionRow
<1>3. nextPid \in Pid /\ nextPid \in Nat /\ nextPid - 1 \in Nat
  BY StoreAssumption DEF IngestTx, StoreInv, StoreTypeOK, Pid
<1>4. \A p \in PromptsOf(s) : p.seq \in 1 .. nextPid - 1
  BY DEF PromptsOf, StoreInv
<1>5. /\ NextSeq(PromptsOf(s)) \in 1 .. nextPid - 1 + 1
      /\ \A p \in PromptsOf(s) : p.seq < NextSeq(PromptsOf(s))
      /\ PromptsOf(s) # {} => \E p \in PromptsOf(s) : NextSeq(PromptsOf(s)) = p.seq + 1
      /\ PromptsOf(s) = {} => NextSeq(PromptsOf(s)) = 1
  BY <1>3, <1>4, NextSeqIsFresh
<1>6. \A p \in prompts : p.id < nextPid
  BY DEF StoreInv
<1>7. NewPrompt(k) \in PromptRow
  BY <1>1, <1>2, <1>3, <1>5 DEF PromptRow
<1>8. NewPrompt(k) \notin prompts
  BY <1>1, <1>3, <1>6 DEF Pid
<1>9. /\ NewPrompt(k).id = nextPid /\ NewPrompt(k).sid = s
      /\ NewPrompt(k).seq = NextSeq(PromptsOf(s))
  BY <1>1
<1>10. NewPrompt(k).seq \in 1 .. nextPid
  BY <1>3, <1>5, <1>9
<1> QED BY <1>5, <1>7, <1>8, <1>9, <1>10

LEMMA StoreInitInv == StoreInit => StoreInv
  BY FS_EmptySet, StoreAssumption
     DEF StoreInit, StoreInv, StoreTypeOK, SessionsDistinct, PromptsNumbered, SessionExists

LEMMA IngestPreservesStore ==
  ASSUME StoreInv, NEW k \in Claude, IngestTx(k)
  PROVE  StoreInv'
<1> DEFINE t == TargetSession(k)
           n == NewPrompt(k)
<1>0. t.id <= MaxSid
  BY DEF IngestTx
<1>1. /\ t \in SessionRow /\ t.claude = k
      /\ t \notin sessions => /\ \A r \in sessions : r.claude # k
                              /\ t.id = nextSid
                              /\ t.seq \in 1 .. nextSid
                              /\ \A r \in sessions : r.seq < t.seq
  BY <1>0, TargetSessionFacts
<1>2. /\ n \in PromptRow /\ n.id = nextPid /\ n.sid = t.id /\ n.seq \in 1 .. nextPid
      /\ n \notin prompts
      /\ \A p \in PromptsOf(t.id) : p.seq < n.seq
      /\ PromptsOf(t.id) # {} => \E p \in PromptsOf(t.id) : n.seq = p.seq + 1
      /\ PromptsOf(t.id) = {} => n.seq = 1
  BY NewPromptFacts
<1>3. /\ sessions' = sessions \cup {t}
      /\ nextSid' = IF t \in sessions THEN nextSid ELSE nextSid + 1
      /\ prompts' = prompts \cup {n}
      /\ nextPid' = nextPid + 1
      /\ nextPid <= MaxPid
  BY DEF IngestTx
<1>4. /\ nextSid \in 1 .. MaxSid + 1 /\ nextPid \in 1 .. MaxPid + 1
      /\ sessions \subseteq SessionRow /\ prompts \subseteq PromptRow
      /\ MaxSid \in Nat /\ MaxPid \in Nat
  BY StoreAssumption DEF StoreInv, StoreTypeOK
<1>5. StoreTypeOK'
  BY <1>0, <1>1, <1>2, <1>3, <1>4 DEF StoreTypeOK, SessionRow, PromptRow, Sid, Pid
<1>6. IsFiniteSet(sessions') /\ IsFiniteSet(prompts')
  BY <1>3, FS_AddElement DEF StoreInv
<1>7. \A r \in sessions' : r.id < nextSid' /\ r.seq \in 1 .. nextSid' - 1
  <2>1. nextSid \in Nat /\ nextSid' \in {nextSid, nextSid + 1}
    BY <1>3, <1>4
  <2>2. ASSUME NEW r \in sessions
        PROVE  r.id \in Nat /\ r.id < nextSid /\ r.seq \in 1 .. nextSid - 1
    BY <1>4 DEF StoreInv, SessionRow, Sid
  <2>3. ASSUME t \notin sessions
        PROVE  t.id < nextSid' /\ t.seq \in 1 .. nextSid' - 1
    BY <2>1, <2>3, <1>1, <1>3
  <2> QED BY <2>1, <2>2, <2>3, <1>3
<1>8. \A p \in prompts' : p.id < nextPid' /\ p.seq \in 1 .. nextPid' - 1
  <2>1. nextPid \in Nat /\ nextPid' = nextPid + 1
    BY <1>3, <1>4
  <2>2. ASSUME NEW p \in prompts
        PROVE  p.id \in Nat /\ p.id < nextPid /\ p.seq \in 1 .. nextPid - 1
    BY <1>4 DEF StoreInv, PromptRow, Pid
  <2>3. n.id < nextPid' /\ n.seq \in 1 .. nextPid' - 1
    BY <2>1, <1>2
  <2> QED BY <2>1, <2>2, <2>3, <1>3
<1>9. \A p, q \in prompts' : p.id = q.id => p = q
  BY <1>2, <1>3, <1>4 DEF StoreInv
<1>10. SessionsDistinct'
  <2>1. CASE t \in sessions
    BY <2>1, <1>3 DEF StoreInv, SessionsDistinct
  <2>2. CASE t \notin sessions
    <3>1. \A r \in sessions : r.id # t.id /\ r.claude # t.claude /\ r.seq # t.seq
      BY <2>2, <1>1, <1>4 DEF StoreInv, SessionRow
    <3> QED BY <3>1, <1>3 DEF StoreInv, SessionsDistinct
  <2> QED BY <2>1, <2>2
<1>11. PromptsNumbered'
  <2>1. \A p \in prompts' : SessionExists(p.sid)'
    BY <1>2, <1>3 DEF StoreInv, PromptsNumbered, SessionExists
  <2>2. \A p, q \in prompts' : p.sid = q.sid /\ p.seq = q.seq => p = q
    BY <1>2, <1>3, <1>4 DEF StoreInv, PromptsNumbered, PromptsOf, PromptRow
  <2>3. ASSUME NEW p \in prompts', NEW i \in 1 .. p.seq
        PROVE  \E q \in prompts' : q.sid = p.sid /\ q.seq = i
    <3>1. CASE p \in prompts
      BY <3>1, <2>3, <1>3 DEF StoreInv, PromptsNumbered
    <3>2. CASE p = n /\ i = n.seq
      BY <3>2, <1>3
    <3>3. CASE p = n /\ i # n.seq
      <4>1. i < n.seq /\ n.seq # 1
        BY <3>3, <1>2
      <4>2. PICK r \in PromptsOf(t.id) : n.seq = r.seq + 1
        BY <4>1, <1>2
      <4>3. r \in prompts /\ r.sid = n.sid /\ r.seq \in Nat /\ i \in 1 .. r.seq
        BY <4>1, <4>2, <1>2, <1>4 DEF PromptsOf, PromptRow
      <4>4. \E q \in prompts : q.sid = r.sid /\ q.seq = i
        BY <4>3 DEF StoreInv, PromptsNumbered
      <4> QED BY <3>3, <4>3, <4>4, <1>3
    <3> QED BY <3>1, <3>2, <3>3, <1>3
  <2> QED BY <2>1, <2>2, <2>3 DEF PromptsNumbered
<1> QED BY <1>5, <1>6, <1>7, <1>8, <1>9, <1>10, <1>11 DEF StoreInv

LEMMA DeletePreservesStore ==
  ASSUME StoreInv, NEW row \in sessions, DeleteSessionTx(row)
  PROVE  StoreInv'
<1>1. /\ sessions' = sessions \ {row}
      /\ prompts' = prompts \ PromptsOf(row.id)
      /\ nextSid' = nextSid /\ nextPid' = nextPid
  BY DEF DeleteSessionTx
<1>2. IsFiniteSet(sessions') /\ IsFiniteSet(prompts')
  BY <1>1, FS_RemoveElement, FS_Difference DEF StoreInv
<1>3. StoreTypeOK'
  BY <1>1 DEF StoreInv, StoreTypeOK
<1>4. SessionsDistinct'
  BY <1>1 DEF StoreInv, SessionsDistinct
<1>5. PromptsNumbered'
  <2>1. \A p \in prompts' : p \in prompts /\ p.sid # row.id
    BY <1>1 DEF PromptsOf
  <2>2. \A p \in prompts : p.sid # row.id => p \in prompts'
    BY <1>1 DEF PromptsOf
  <2>3. \A p \in prompts' : SessionExists(p.sid)'
    BY <1>1, <2>1 DEF StoreInv, PromptsNumbered, SessionExists
  <2>4. \A p, q \in prompts' : p.sid = q.sid /\ p.seq = q.seq => p = q
    BY <2>1 DEF StoreInv, PromptsNumbered
  <2>5. \A p \in prompts' : \A i \in 1 .. p.seq :
          \E q \in prompts' : q.sid = p.sid /\ q.seq = i
    BY <2>1, <2>2 DEF StoreInv, PromptsNumbered
  <2> QED BY <2>3, <2>4, <2>5 DEF PromptsNumbered
<1> QED BY <1>1, <1>2, <1>3, <1>4, <1>5 DEF StoreInv

LEMMA StutterPreservesStore ==
  ASSUME StoreInv, UNCHANGED storeVars
  PROVE  StoreInv'
  BY DEF storeVars, StoreInv, StoreTypeOK, SessionsDistinct, PromptsNumbered, SessionExists

\* The invariant of the store, on its own and as used by the stream.
THEOREM StoreInvariant == StoreSpec => []StoreInv
<1>1. StoreInit => StoreInv
  BY StoreInitInv
<1>2. StoreInv /\ [StoreNext]_storeVars => StoreInv'
  BY IngestPreservesStore, DeletePreservesStore, StutterPreservesStore DEF StoreNext
<1> QED BY <1>1, <1>2, PTL DEF StoreSpec

\* Numbering survives every order of ingests and deletions: session numbers
\* never clash although no constraint of the schema says so, and the prompts of
\* each session are numbered 1..n (ingest.ts 81-107).
THEOREM StoreNumbering == StoreSpec => []StoreNumbered
<1>1. StoreInv => StoreNumbered
  BY DEF StoreInv, StoreNumbered
<1> QED BY <1>1, StoreInvariant, PTL
============================================================================
