-------------------------- MODULE LiveViewerProofs --------------------------
(***************************************************************************)
(* What the tab shows, for every number of prompts, sessions, retries and   *)
(* other clients, every cap and every snapshot length: the list is in       *)
(* order, the indicator tells the truth, a tab that has read everything     *)
(* has caught up, and only a snapshot that came too late opens a hole.      *)
(*                                                                          *)
(* ViewerInv stands on StreamInv.  The list and the frames of the tab's     *)
(* connection are about one session and never disagree about the number of  *)
(* a prompt, also when the session was deleted meanwhile; what has not been *)
(* read yet is later than what is shown.                                    *)
(***************************************************************************)
EXTENDS LiveViewer, PromptStreamProofs

\* What the handlers write: the snapshot first and only once, then one prompt
\* a frame, each the next after one sent before.
WellFramed(frames) ==
  \A i \in 1 .. Len(frames) :
    /\ frames[i].ev = "snapshot" <=> i = 1
    /\ frames[i].ev = "prompt" => \E p \in frames[i].rows : frames[i].rows = {p}
    /\ i > 1 => \A p \in frames[i].rows :
                  \E j \in 1 .. i - 1 : \E q \in frames[j].rows : p.seq = q.seq + 1

FramesInv ==
  \A c \in Conn :
    /\ pc[c] = "requested" => out[c] = <<>> /\ reply[c] = 0
    /\ c \in Attached => out[c] # <<>>
    /\ WellFramed(out[c])

\* A session has a prompt: the transaction adds both.
NoEmptySession == \A r \in sessions : PromptsOf(r.id) # {}

\* Which of source, link and page go together.
SourceInv ==
  /\ source # "null" => page = "mounted" /\ retries < MaxRetries
  /\ source \in {"null", "closed"} => link = NoConn
  /\ source = "open" => link # NoConn
  /\ page = "loaded" => view = "connecting" /\ retries = 0
  /\ link = NoConn => got = 0
  /\ session < nextSid \/ (page = "none" /\ list = <<>>)

\* The tab's request: for its session, and with frames to read if it is open.
LinkInv ==
  link # NoConn =>
    /\ sid[link] = session
    /\ got <= Len(out[link])
    /\ source = "open" => pc[link] # "requested"

\* the prompts shown or on their way to the tab
ShownRows  == {Row(list[i]) : i \in 1 .. Len(list)}
ComingRows == IF link = NoConn THEN {} ELSE {Row(p) : p \in SentRows(link)}

\* They are prompts of one session, and its prompts as long as it exists.
KnownInv ==
  /\ \A a, b \in ShownRows \cup ComingRows: a.id = b.id <=> a.seq = b.seq
  /\ SessionExists(session) =>
       ShownRows \cup ComingRows\subseteq {Row(p) : p \in PromptsOf(session)}

\* What was read is shown, and what was not, the snapshot aside, is later.
ReadInv ==
  link # NoConn =>
    \A i \in 1 .. Len(out[link]) : \A p \in out[link][i].rows :
      /\ i <= got => p.id \in Ids(list)
      /\ i > got /\ i > 1 => \A j \in 1 .. Len(list) : list[j].seq < p.seq

\* A snapshot that is not full has the whole session, and all that is shown.
SnapshotInv ==
  link # NoConn /\ got = 0 /\ out[link] # <<>>
    /\ Cardinality(out[link][1].rows) # SnapshotLimit =>
      /\ \E n \in Nat : {p.seq : p \in out[link][1].rows} = 1 .. n
      /\ Ids(list) \subseteq {p.id : p \in out[link][1].rows}

ViewerInv ==
  /\ StreamInv
  /\ FramesInv
  /\ NoEmptySession
  /\ ViewerTypeOK
  /\ IndicatorTruthful
  /\ SourceInv
  /\ LinkInv
  /\ KnownInv
  /\ ReadInv
  /\ SnapshotInv
  /\ ListInOrder

----------------------------------------------------------------------------
(* Sorting *)

\* Rows with numbers of their own can be sorted: each has a rank.
LEMMA SortedSequenceExists ==
  ASSUME NEW S, IsFiniteSet(S), \A x \in S : x.seq \in Nat,
         \A x, y \in S : x.seq = y.seq => x = y
  PROVE  \E l \in [1 .. Cardinality(S) -> S] :
           /\ ToSet(l) = S
           /\ \A i, j \in DOMAIN l : i < j => l[i].seq <= l[j].seq
<1> DEFINE n == Cardinality(S)
           UpTo(x) == {y \in S : y.seq <= x.seq}
           rank == [x \in S |-> Cardinality(UpTo(x))]
<1>1. n \in Nat
  BY FS_CardinalityType
<1>2. ASSUME NEW x \in S
      PROVE  IsFiniteSet(UpTo(x)) /\ rank[x] = Cardinality(UpTo(x)) /\ rank[x] \in 1 .. n
  <2>1. IsFiniteSet(UpTo(x)) /\ Cardinality(UpTo(x)) <= n
    BY FS_Subset
  <2>2. x \in UpTo(x)
    OBVIOUS
  <2>3. Cardinality(UpTo(x)) \in Nat /\ Cardinality(UpTo(x)) # 0
    BY <2>1, <2>2, FS_CardinalityType, FS_EmptySet
  <2>4. rank[x] = Cardinality(UpTo(x))
    OBVIOUS
  <2> HIDE DEF UpTo, n, rank
  <2> QED BY <2>1, <2>3, <2>4, <1>1
<1>3. ASSUME NEW x \in S, NEW y \in S, x.seq < y.seq
      PROVE  rank[x] < rank[y]
  <2>1. UpTo(x) \subseteq UpTo(y) /\ y \in UpTo(y) /\ y \notin UpTo(x)
    BY <1>3
  <2>2. IsFiniteSet(UpTo(y)) /\ UpTo(x) \in SUBSET UpTo(y) /\ UpTo(x) # UpTo(y)
    BY <2>1, <1>2
  <2> HIDE DEF UpTo, rank, n
  <2>3. rank[x] \in Nat /\ rank[y] \in Nat
        /\ rank[x] = Cardinality(UpTo(x)) /\ rank[y] = Cardinality(UpTo(y))
    <3>1. rank[x] = Cardinality(UpTo(x)) /\ rank[x] \in 1 .. n
      BY <1>2
    <3>2. rank[y] = Cardinality(UpTo(y)) /\ rank[y] \in 1 .. n
      BY <1>2
    <3> QED BY <3>1, <3>2, <1>1
  <2>4. Cardinality(UpTo(x)) <= Cardinality(UpTo(y)) /\ Cardinality(UpTo(y)) # Cardinality(UpTo(x))
    BY <2>2, FS_Subset
  <2> QED BY <2>3, <2>4
<1>4. rank \in Injection(S, 1 .. n)
  <2>1. rank \in [S -> 1 .. n]
    <3>1. rank = [x \in S |-> rank[x]]
      OBVIOUS
    <3> HIDE DEF rank, UpTo, n
    <3>2. ASSUME NEW x \in S PROVE rank[x] \in 1 .. n
      BY <1>2
    <3>3. \A x \in S : rank[x] \in 1 .. n
      BY <3>2
    <3> QED BY <3>1, <3>3
  <2> HIDE DEF rank, UpTo, n
  <2>2. ASSUME NEW x \in S, NEW y \in S, rank[x] = rank[y] PROVE x = y
    <3>1. x.seq \in Nat /\ y.seq \in Nat /\ rank[x] \in Nat /\ rank[y] \in Nat
      BY <1>2
    <3>2. ~(x.seq < y.seq) /\ ~(y.seq < x.seq)
      BY <2>2, <3>1, <1>3
    <3> QED BY <3>1, <3>2
  <2> QED BY <2>1, <2>2 DEF Injection, IsInjective
<1>5. rank \in Surjection(S, 1 .. n)
  <2>1. IsFiniteSet(1 .. n) /\ Cardinality(1 .. n) = n
    BY <1>1, FS_Interval
  <2> HIDE DEF rank
  <2> QED BY <2>1, <1>4, FS_Injection
<1> HIDE DEF rank, UpTo, n
<1>6. \A i \in 1 .. n : \E x \in S : rank[x] = i
  BY <1>5 DEF Surjection
<1> DEFINE l == [i \in 1 .. n |-> CHOOSE x \in S : rank[x] = i]
<1>7. \A i \in 1 .. n : l[i] \in S /\ rank[l[i]] = i
  BY <1>6
<1>8. l \in [1 .. n -> S] /\ DOMAIN l = 1 .. n
  BY <1>7
<1> HIDE DEF l
<1>9. ToSet(l) = S
  <2>1. ASSUME NEW x \in S PROVE x \in ToSet(l)
    <3>1. rank[x] \in 1 .. n /\ rank[l[rank[x]]] = rank[x] /\ l[rank[x]] \in S
      BY <1>2, <1>7
    <3>2. l[rank[x]] = x
      BY <3>1, <1>4 DEF Injection, IsInjective
    <3> QED BY <3>1, <3>2, <1>8 DEF ToSet
  <2> QED BY <2>1, <1>7, <1>8 DEF ToSet
<1>10. ASSUME NEW i \in 1 .. n, NEW j \in 1 .. n, i < j
       PROVE  l[i].seq <= l[j].seq
  <2>1. l[i] \in S /\ l[j] \in S /\ rank[l[i]] = i /\ rank[l[j]] = j
    BY <1>7
  <2>2. ~(l[j].seq < l[i].seq)
    <3> SUFFICES ASSUME l[j].seq < l[i].seq PROVE FALSE
      OBVIOUS
    <3>1. j < i
      BY <2>1, <1>3
    <3> QED BY <3>1, <1>10, <1>1
  <2>3. l[i].seq \in Nat /\ l[j].seq \in Nat
    BY <2>1
  <2> QED BY <2>2, <2>3
<1> QED BY <1>8, <1>9, <1>10 DEF n

\* What the sort returns: the same rows, in the order of their numbers.
LEMMA BySeqSorts ==
  ASSUME NEW S, IsFiniteSet(S), \A x \in S : x.seq \in Nat,
         \A x, y \in S : x.seq = y.seq => x = y
  PROVE  /\ BySeq(S) \in Seq(S)
         /\ {BySeq(S)[i] : i \in 1 .. Len(BySeq(S))} = S
         /\ \A i, j \in 1 .. Len(BySeq(S)) : i < j => BySeq(S)[i].seq < BySeq(S)[j].seq
<1> DEFINE n == Cardinality(S)
           l == BySeq(S)
<1>1. n \in Nat
  BY FS_CardinalityType
<1>2. /\ l \in [1 .. n -> S] /\ ToSet(l) = S
      /\ \A i, j \in DOMAIN l : i < j => l[i].seq <= l[j].seq
  BY SortedSequenceExists, Zenon DEF BySeq
<1> HIDE DEF n, l
<1>3. l \in Seq(S) /\ Len(l) = n /\ DOMAIN l = 1 .. n
  BY <1>1, <1>2
<1>4. {l[i] : i \in 1 .. n} = S
  BY <1>2, <1>3 DEF ToSet
<1>5. l \in Injection(1 .. n, S)
  <2>1. l \in Surjection(1 .. n, S)
    BY <1>2, <1>3, <1>4 DEF Surjection
  <2>2. IsFiniteSet(1 .. n) /\ Cardinality(1 .. n) = n
    BY <1>1, FS_Interval
  <2> QED BY <2>1, <2>2, FS_SurjSameCardinalityImpliesInj DEF n
<1>6. ASSUME NEW i \in 1 .. n, NEW j \in 1 .. n, i < j
      PROVE  l[i].seq < l[j].seq
  <2>1. l[i] \in S /\ l[j] \in S /\ l[i] # l[j]
    <3>1. i # j
      BY <1>1, <1>6
    <3> QED BY <3>1, <1>2, <1>5 DEF Injection, IsInjective
  <2>2. l[i].seq \in Nat /\ l[j].seq \in Nat /\ l[i].seq # l[j].seq
    BY <2>1
  <2>3. l[i].seq <= l[j].seq
    BY <1>2, <1>3, <1>6
  <2> QED BY <2>2, <2>3
<1> QED BY <1>3, <1>4, <1>6 DEF l

----------------------------------------------------------------------------
(* What a step of the server does to one connection, and to the tables *)

Quiet(c) ==
  /\ out'[c] = out[c] /\ sid'[c] = sid[c]
  /\ c \in Attached' => c \in Attached
  /\ pc'[c] = "requested" => pc[c] = "requested" /\ reply'[c] = reply[c]

Asked(c) ==
  /\ UNCHANGED storeVars
  /\ pc[c] = "idle" /\ pc'[c] = "requested"
  /\ out'[c] = <<>> /\ reply'[c] = 0

Answered(c) ==
  /\ UNCHANGED storeVars
  /\ pc[c] = "requested" /\ pc'[c] = "snapshot" /\ sid'[c] = sid[c]
  /\ SessionExists(sid[c])
  /\ out'[c] = <<[ev |-> "snapshot", rows |-> Snapshot(sid[c])]>>

Told(c, k) ==
  /\ Serving /\ IngestTx(k) /\ NewPrompt(k).sid = sid[c]
  /\ c \in Attached /\ pc'[c] = pc[c] /\ sid'[c] = sid[c]
  /\ out'[c] = Append(out[c], [ev |-> "prompt", rows |-> {NewPrompt(k)}])

Closed(c) ==
  /\ UNCHANGED storeVars
  /\ c \in Attached /\ pc'[c] = "leaving" /\ sid'[c] = sid[c]
  /\ out'[c] = Append(out[c], [ev |-> "close", rows |-> {}])

\* A broadcast reaches the attached streams of the session, all of which it is
\* news for.
LEMMA IngestOnConnection ==
  ASSUME StreamInv, NEW k \in Claude, Ingest(k), NEW c \in Conn
  PROVE  Quiet(c) \/ Told(c, k)
<1> DEFINE n == NewPrompt(k)
<1>1. TypeOK /\ StoreInv /\ NoLeak /\ SpentIds
  BY DEF StreamInv
<1>2. /\ Serving /\ IngestTx(k) /\ emitters' = emitters \cup {n.sid} /\ Broadcast(n)
      /\ UNCHANGED <<phase, listeners, active, registry, heartbeats, pc, sid, aborted, reply>>
  BY DEF Ingest
<1>3. n \in PromptRow /\ n.id = nextPid
  BY <1>1, <1>2, NewPromptFacts
<1>4. n.sid \in Sid /\ n.sid \in emitters'
  BY <1>2, <1>3 DEF PromptRow
<1> HIDE DEF n
<1>5. listeners[n.sid] = {d \in Attached : sid[d] = n.sid}
  BY <1>1, <1>4 DEF NoLeak
<1>6. out'[c] = IF c \in listeners[n.sid] THEN Deliver(c, n) ELSE out[c]
  BY <1>2, <1>4 DEF Broadcast
<1>7. CASE c \notin listeners[n.sid]
  BY <1>2, <1>6, <1>7 DEF Quiet, Attached
<1>8. CASE c \in listeners[n.sid]
  <2>1. c \in Attached /\ sid[c] = n.sid
    BY <1>5, <1>8
  <2>2. n.id \notin seen[c]
    <3>1. \A i \in seen[c] : i < nextPid
      BY <2>1, <1>1 DEF SpentIds
    <3>2. nextPid \in Nat
      BY <1>1, StoreAssumption DEF StoreInv, StoreTypeOK
    <3> QED BY <3>1, <3>2, <1>3
  <2>3. out'[c] = Append(out[c], [ev |-> "prompt", rows |-> {n}])
    BY <2>2, <1>6, <1>8 DEF Deliver
  <2> QED BY <2>1, <2>3, <1>2 DEF Told, n
<1> QED BY <1>7, <1>8

LEMMA StepOnConnection ==
  ASSUME StreamInv, Next, NEW c \in Conn
  PROVE  Quiet(c) \/ Asked(c) \/ Answered(c) \/ (\E k \in Claude : Told(c, k)) \/ Closed(c)
<1>1. TypeOK /\ NoLeak
  BY DEF StreamInv
<1>2. ASSUME NEW k \in Claude, Ingest(k) PROVE Quiet(c) \/ Told(c, k)
  BY <1>2, IngestOnConnection
<1>3. ASSUME UNCHANGED connVars PROVE Quiet(c)
  BY <1>3 DEF connVars, Quiet, Attached
<1>4. ASSUME NEW k \in Claude, IngestThenCrash(k) PROVE Quiet(c)
  BY <1>3, <1>4 DEF IngestThenCrash
<1>5. ASSUME NEW row \in sessions, DeleteSession(row) PROVE Quiet(c)
  BY <1>3, <1>5 DEF DeleteSession
<1>6. ASSUME CloseServer \/ Drained \/ HardExit \/ Crash PROVE Quiet(c)
  BY <1>3, <1>6 DEF CloseServer, Drained, HardExit, Crash
<1>7. ASSUME Restart PROVE Quiet(c)
  BY <1>7 DEF Restart, Quiet, Attached
<1>8. ASSUME NEW d \in Conn, NEW s \in Sid, Request(d, s) PROVE Quiet(c) \/ Asked(c)
  BY <1>1, <1>8 DEF Request, Quiet, Asked, Attached, TypeOK
<1>9. ASSUME NEW d \in Conn, Refuse(d) \/ TooMany(d) PROVE Quiet(c)
  BY <1>1, <1>9 DEF Refuse, TooMany, Respond, Quiet, Attached, TypeOK
<1>10. ASSUME NEW d \in Conn, Subscribe(d) PROVE Quiet(c) \/ Answered(c)
  BY <1>1, <1>10 DEF Subscribe, Quiet, Answered, Attached, TypeOK
<1>11. ASSUME NEW d \in Conn, Park(d) PROVE Quiet(c)
  BY <1>1, <1>11 DEF Park, Quiet, Attached, TypeOK
<1>12. ASSUME NEW d \in Conn, Abort(d) PROVE Quiet(c)
  BY <1>1, <1>12 DEF Abort, Quiet, Attached, TypeOK
<1>13. ASSUME NEW d \in Conn, Teardown(d) PROVE Quiet(c)
  BY <1>1, <1>13 DEF Teardown, Quiet, Attached, TypeOK
<1>14. ASSUME CloseAllStreams PROVE Quiet(c) \/ Closed(c)
  <2>1. c \in registry => c \in Attached
    BY <1>1 DEF NoLeak, Attached
  <2> QED BY <2>1, <1>14 DEF CloseAllStreams, Quiet, Closed, Attached
<1> QED BY <1>2, <1>4, <1>5, <1>6, <1>7, <1>8, <1>9, <1>10, <1>11, <1>12, <1>13, <1>14 DEF Next

LEMMA StepOnStore ==
  ASSUME Next
  PROVE  [StoreNext]_storeVars
<1>1. ASSUME NEW k \in Claude, Ingest(k) \/ IngestThenCrash(k) PROVE StoreNext
  BY <1>1 DEF Ingest, IngestThenCrash, StoreNext
<1>2. ASSUME NEW row \in sessions, DeleteSession(row) PROVE StoreNext
  BY <1>2 DEF DeleteSession, StoreNext
<1>3. ASSUME NEW c \in Conn, NEW s \in Sid, Request(c, s) PROVE UNCHANGED storeVars
  BY <1>3 DEF Request
<1>4. ASSUME NEW c \in Conn, Refuse(c) \/ TooMany(c) \/ Subscribe(c) \/ Park(c)
                             \/ Abort(c) \/ Teardown(c)
      PROVE  UNCHANGED storeVars
  BY <1>4 DEF Refuse, TooMany, Respond, Subscribe, Park, Abort, Teardown
<1>5. ASSUME CloseAllStreams \/ CloseServer \/ Drained \/ HardExit \/ Crash \/ Restart
      PROVE  UNCHANGED storeVars
  BY <1>5 DEF CloseAllStreams, CloseServer, Drained, HardExit, Crash, Restart
<1> QED BY <1>1, <1>2, <1>3, <1>4, <1>5 DEF Next

\* A session whose ULID is spent does not come back, and keeps its prompts
\* while it exists.
LEMMA SpentSession ==
  ASSUME StoreInv, [StoreNext]_storeVars, NEW s \in Nat, s < nextSid
  PROVE  /\ s < nextSid'
         /\ SessionExists(s)' => SessionExists(s) /\ PromptsOf(s) \subseteq PromptsOf(s)'
<1>0. nextSid \in Nat
  BY StoreAssumption DEF StoreInv, StoreTypeOK
<1>1. CASE UNCHANGED storeVars
  BY <1>1 DEF storeVars, SessionExists, PromptsOf
<1>2. ASSUME NEW k \in Claude, IngestTx(k)
      PROVE  /\ s < nextSid'
             /\ SessionExists(s)' => SessionExists(s) /\ PromptsOf(s) \subseteq PromptsOf(s)'
  <2>1. /\ sessions' = sessions \cup {TargetSession(k)} /\ prompts \subseteq prompts'
        /\ nextSid' \in {nextSid, nextSid + 1} /\ TargetSession(k).id <= MaxSid
    BY <1>2 DEF IngestTx
  <2>2. TargetSession(k) \notin sessions => TargetSession(k).id = nextSid
    BY <2>1, TargetSessionFacts
  <2> QED BY <2>1, <2>2, <1>0 DEF SessionExists, PromptsOf
<1>3. ASSUME NEW row \in sessions, DeleteSessionTx(row)
      PROVE  /\ s < nextSid'
             /\ SessionExists(s)' => SessionExists(s) /\ PromptsOf(s) \subseteq PromptsOf(s)'
  <2>1. /\ sessions' = sessions \ {row} /\ prompts' = prompts \ PromptsOf(row.id)
        /\ nextSid' = nextSid
    BY <1>3 DEF DeleteSessionTx
  <2>2. SessionExists(s)' => s # row.id
    BY <2>1 DEF SessionExists, StoreInv, SessionsDistinct
  <2> QED BY <2>1, <2>2 DEF SessionExists, PromptsOf
<1> QED BY <1>1, <1>2, <1>3 DEF StoreNext

LEMMA SessionsStayFilled ==
  ASSUME StoreInv, NoEmptySession, [StoreNext]_storeVars
  PROVE  NoEmptySession'
<1>1. CASE UNCHANGED storeVars
  BY <1>1 DEF storeVars, NoEmptySession, PromptsOf
<1>2. ASSUME NEW k \in Claude, IngestTx(k) PROVE NoEmptySession'
  <2>1. /\ sessions' = sessions \cup {TargetSession(k)}
        /\ prompts' = prompts \cup {NewPrompt(k)}
    BY <1>2 DEF IngestTx
  <2>2. NewPrompt(k).sid = TargetSession(k).id
    BY <1>2, NewPromptFacts
  <2> QED BY <2>1, <2>2 DEF NoEmptySession, PromptsOf
<1>3. ASSUME NEW row \in sessions, DeleteSessionTx(row) PROVE NoEmptySession'
  <2>1. /\ sessions' = sessions \ {row} /\ prompts' = prompts \ PromptsOf(row.id)
    BY <1>3 DEF DeleteSessionTx
  <2>2. \A r \in sessions' : r \in sessions /\ r.id # row.id
    BY <2>1 DEF StoreInv, SessionsDistinct
  <2> QED BY <2>1, <2>2 DEF NoEmptySession, PromptsOf
<1> QED BY <1>1, <1>2, <1>3 DEF StoreNext

----------------------------------------------------------------------------
(* Frames *)

LEMMA AppendKeepsFramed ==
  ASSUME NEW frames \in Seq(Frame), frames # <<>>, WellFramed(frames),
         NEW f \in Frame, f.ev # "snapshot",
         f.ev = "prompt" => \E p \in f.rows : f.rows = {p},
         \A p \in f.rows : \E q \in FrameRows(frames) : p.seq = q.seq + 1
  PROVE  WellFramed(Append(frames, f))
<1> DEFINE g == Append(frames, f)
           n == Len(frames)
<1>1. /\ n \in Nat \ {0} /\ Len(g) = n + 1 /\ g[n + 1] = f
      /\ \A i \in 1 .. n : g[i] = frames[i]
  OBVIOUS
<1> HIDE DEF g
<1>2. ASSUME NEW i \in 1 .. n
      PROVE  /\ g[i].ev = "snapshot" <=> i = 1
             /\ g[i].ev = "prompt" => \E p \in g[i].rows : g[i].rows = {p}
             /\ i > 1 => \A p \in g[i].rows :
                           \E j \in 1 .. i - 1 : \E q \in g[j].rows : p.seq = q.seq + 1
  <2>1. g[i] = frames[i] /\ \A j \in 1 .. i - 1 : g[j] = frames[j]
    BY <1>1
  <2> QED BY <2>1 DEF WellFramed
<1>3. \A p \in f.rows : \E j \in 1 .. n : \E q \in g[j].rows : p.seq = q.seq + 1
  BY <1>1 DEF FrameRows
<1>4. \A i \in 1 .. n + 1 : i \in 1 .. n \/ i = n + 1
  BY <1>1
<1>5. n + 1 - 1 = n /\ n + 1 # 1
  BY <1>1
<1> HIDE DEF n
<1> QED BY <1>1, <1>2, <1>3, <1>4, <1>5 DEF WellFramed, g

\* A broadcast prompt follows one its subscriber has been sent: the session
\* existed when the stream was opened, has prompts, and the last of them is in
\* every snapshot.
LEMMA ToldFollows ==
  ASSUME StreamInv, NoEmptySession, NEW c \in Conn, NEW k \in Claude, Told(c, k)
  PROVE  /\ SessionExists(sid[c]) /\ NewPrompt(k) \in PromptRow
         /\ \E q \in SentRows(c) : NewPrompt(k).seq = q.seq + 1
<1> DEFINE n == NewPrompt(k)
           s == sid[c]
<1>1. /\ TypeOK /\ StoreInv /\ SpentIds /\ NoGap
      /\ IngestTx(k) /\ Serving /\ c \in Attached /\ n.sid = s
  BY DEF StreamInv, Told
<1>2. /\ n \in PromptRow /\ n.sid = TargetSession(k).id
      /\ \A p \in PromptsOf(s) : p.seq < n.seq
      /\ PromptsOf(s) # {} => \E p \in PromptsOf(s) : n.seq = p.seq + 1
  BY <1>1, NewPromptFacts
<1>3. SessionExists(s)
  <2>1. s \in Nat /\ s < nextSid /\ nextSid \in Nat
    BY <1>1, StoreAssumption DEF SpentIds, StoreInv, StoreTypeOK, TypeOK, Sid
  <2>2. TargetSession(k) \in sessions
    <3>1. TargetSession(k).id <= MaxSid
      BY <1>1 DEF IngestTx
    <3> QED BY <3>1, <2>1, <1>1, <1>2, TargetSessionFacts
  <2> QED BY <2>2, <1>1, <1>2 DEF SessionExists
<1>4. PICK p \in PromptsOf(s) : n.seq = p.seq + 1
  BY <1>2, <1>3 DEF NoEmptySession, SessionExists
<1>5. p \in Snapshot(s)
  <2>1. \A q \in PromptsOf(s) : q.seq \in Nat
    BY <1>1 DEF StoreInv, StoreTypeOK, PromptsOf, PromptRow
  <2>2. {q \in PromptsOf(s) : q.seq > p.seq} = {}
    BY <2>1, <1>2, <1>4
  <2>3. Cardinality({q \in PromptsOf(s) : q.seq > p.seq}) = 0
    BY <2>2, FS_EmptySet
  <2> QED BY <2>3, StreamAssumption DEF Snapshot
<1>6. p \in SentRows(c)
  BY <1>1, <1>3, <1>5 DEF NoGap, NoGapFor
<1> QED BY <1>2, <1>3, <1>4, <1>6

LEMMA SnapshotFrame ==
  ASSUME TypeOK, NEW s
  PROVE  /\ Snapshot(s) \subseteq PromptsOf(s) /\ PromptsOf(s) \subseteq PromptRow
         /\ [ev |-> "snapshot", rows |-> Snapshot(s)] \in Frame
  BY DEF TypeOK, StoreTypeOK, Snapshot, PromptsOf, Frame

LEMMA FramesPreserved ==
  ASSUME StreamInv, FramesInv, NoEmptySession, [Next]_vars
  PROVE  FramesInv'
<1>1. CASE UNCHANGED vars
  BY <1>1 DEF vars, FramesInv, Attached, WellFramed
<1>2. ASSUME Next, NEW c \in Conn
      PROVE  /\ pc'[c] = "requested" => out'[c] = <<>> /\ reply'[c] = 0
             /\ c \in Attached' => out'[c] # <<>>
             /\ WellFramed(out'[c])
  <2>1. /\ pc[c] = "requested" => out[c] = <<>> /\ reply[c] = 0
        /\ c \in Attached => out[c] # <<>>
        /\ WellFramed(out[c])
    BY DEF FramesInv
  <2>2. out[c] \in Seq(Frame) /\ TypeOK
    BY DEF StreamInv, TypeOK
  <2>3. CASE Quiet(c)
    BY <2>1, <2>3 DEF Quiet
  <2>4. CASE Asked(c)
    BY <2>4 DEF Asked, Attached, WellFramed
  <2>5. CASE Answered(c)
    <3> DEFINE f == [ev |-> "snapshot", rows |-> Snapshot(sid[c])]
    <3>1. out'[c] = <<f>> /\ f.ev = "snapshot" /\ pc'[c] = "snapshot"
      BY <2>5 DEF Answered
    <3> HIDE DEF f
    <3>2. Len(<<f>>) = 1 /\ <<f>>[1] = f /\ <<f>> # <<>>
      OBVIOUS
    <3>3. WellFramed(<<f>>)
      BY <3>1, <3>2 DEF WellFramed
    <3> QED BY <3>1, <3>2, <3>3
  <2>6. ASSUME NEW f \in Frame, out'[c] = Append(out[c], f), c \in Attached,
               pc'[c] # "requested", WellFramed(Append(out[c], f))
        PROVE  /\ pc'[c] = "requested" => out'[c] = <<>> /\ reply'[c] = 0
               /\ c \in Attached' => out'[c] # <<>>
               /\ WellFramed(out'[c])
    BY <2>6, <2>2
  <2>7. ASSUME NEW k \in Claude, Told(c, k)
        PROVE  /\ pc'[c] = "requested" => out'[c] = <<>> /\ reply'[c] = 0
               /\ c \in Attached' => out'[c] # <<>>
               /\ WellFramed(out'[c])
    <3> DEFINE f == [ev |-> "prompt", rows |-> {NewPrompt(k)}]
    <3>1. /\ out'[c] = Append(out[c], f) /\ c \in Attached /\ pc'[c] = pc[c]
      BY <2>7 DEF Told
    <3>2. /\ NewPrompt(k) \in PromptRow
          /\ \E q \in SentRows(c) : NewPrompt(k).seq = q.seq + 1
      BY <2>7, ToldFollows
    <3>3. f \in Frame /\ f.ev = "prompt" /\ f.rows = {NewPrompt(k)}
      BY <3>2 DEF Frame
    <3> HIDE DEF f
    <3>4. WellFramed(Append(out[c], f))
      BY <2>1, <2>2, <3>1, <3>2, <3>3, AppendKeepsFramed DEF SentRows
    <3>5. pc'[c] # "requested"
      BY <3>1 DEF Attached
    <3> QED BY <2>6, <3>1, <3>3, <3>4, <3>5
  <2>8. CASE Closed(c)
    <3> DEFINE f == [ev |-> "close", rows |-> {}]
    <3>1. out'[c] = Append(out[c], f) /\ c \in Attached /\ pc'[c] = "leaving"
      BY <2>8 DEF Closed
    <3>2. f \in Frame /\ f.ev = "close" /\ f.rows = {}
      BY DEF Frame
    <3> HIDE DEF f
    <3>3. WellFramed(Append(out[c], f))
      BY <2>1, <2>2, <3>1, <3>2, AppendKeepsFramed
    <3> QED BY <2>6, <3>1, <3>2, <3>3
  <2> QED BY <2>3, <2>4, <2>5, <2>7, <2>8, <1>2, StepOnConnection
<1>3. CASE Next
  BY <1>2, <1>3 DEF FramesInv
<1> QED BY <1>1, <1>3

----------------------------------------------------------------------------
(* The steps of the server, seen from the tab *)

\* A step that adds no row keeps the rows known: a spent session that is gone
\* stays gone.
LEMMA KnownKept ==
  ASSUME StoreInv, KnownInv, SourceInv, ViewerTypeOK, [StoreNext]_storeVars,
         session' = session,
         (ShownRows \cup ComingRows)' \subseteq ShownRows \cup ComingRows
  PROVE  KnownInv'
<1> DEFINE R == ShownRows \cup ComingRows
<1>1. session \in Nat
  BY DEF ViewerTypeOK, Sid
<1>2. CASE session < nextSid
  <2>1. SessionExists(session)' => SessionExists(session) /\ PromptsOf(session) \subseteq PromptsOf(session)'
    BY <1>1, <1>2, SpentSession DEF SessionExists, PromptsOf
  <2>2. \A x \in {Row(p) : p \in PromptsOf(session)} :
          PromptsOf(session) \subseteq PromptsOf(session)' =>
             x \in {Row(p) : p \in PromptsOf(session)'}
    OBVIOUS
  <2>3. /\ \A a, b \in R : a.id = b.id <=> a.seq = b.seq
        /\ SessionExists(session) => R \subseteq {Row(p) : p \in PromptsOf(session)}
    BY DEF KnownInv
  <2>4. R' \subseteq R
    OBVIOUS
  <2> HIDE DEF R
  <2>5. /\ \A a, b \in R' : a.id = b.id <=> a.seq = b.seq
        /\ SessionExists(session)' => R' \subseteq {Row(p) : p \in PromptsOf(session)'}
    BY <2>1, <2>2, <2>3, <2>4
  <2> QED BY <2>5 DEF KnownInv, R
<1>3. CASE ~(session < nextSid)
  <2>1. page = "none" /\ list = <<>> /\ link = NoConn
    BY <1>3 DEF SourceInv
  <2>2. ShownRows = {} /\ ComingRows = {}
    BY <2>1 DEF ShownRows, ComingRows
  <2> QED BY <2>2 DEF KnownInv
<1> QED BY <1>2, <1>3

\* Rows of the session as it is are known.
LEMMA KnownOfSession ==
  ASSUME StoreInv', (ShownRows \cup ComingRows)' \subseteq {Row(p) : p \in PromptsOf(session)'}
  PROVE  KnownInv'
<1>1. \A p, q \in PromptsOf(session)' : p.id = q.id <=> p.seq = q.seq
  BY DEF StoreInv, PromptsNumbered, PromptsOf
<1>2. \A a, b \in (ShownRows \cup ComingRows)' : a.id = b.id <=> a.seq = b.seq
  BY <1>1 DEF Row
<1> QED BY <1>2 DEF KnownInv

LEMMA NoOtherRequest ==
  ASSUME StreamInv, ServerStep, NEW c \in TabConn
  PROVE  ~Asked(c)
<1>1. TypeOK /\ NoLeak
  BY DEF StreamInv
<1> SUFFICES ASSUME pc[c] = "idle", c \in Conn PROVE pc'[c] # "requested"
  BY ViewerAssumption DEF Asked
<1>2. ASSUME NEW k \in Claude, Ingest(k) \/ IngestThenCrash(k) PROVE pc'[c] # "requested"
  BY <1>2 DEF Ingest, IngestThenCrash, connVars
<1>3. ASSUME NEW row \in sessions, DeleteSession(row) PROVE pc'[c] # "requested"
  BY <1>3 DEF DeleteSession, connVars
<1>4. ASSUME NEW d \in Conn \ TabConn, NEW s \in Sid, Request(d, s) PROVE pc'[c] # "requested"
  BY <1>1, <1>4 DEF Request, TypeOK
<1>5. ASSUME NEW d \in Conn, Refuse(d) \/ TooMany(d) PROVE pc'[c] # "requested"
  <2>1. pc' = [pc EXCEPT ![d] = "idle"]
    BY <1>5 DEF Refuse, TooMany, Respond
  <2> QED BY <2>1, <1>1 DEF TypeOK
<1>6. ASSUME NEW d \in Conn, Subscribe(d) PROVE pc'[c] # "requested"
  BY <1>1, <1>6 DEF Subscribe, TypeOK
<1>7. ASSUME NEW d \in Conn, Park(d) PROVE pc'[c] # "requested"
  BY <1>1, <1>7 DEF Park, TypeOK
<1>8. ASSUME NEW d \in Conn, Abort(d) \/ Teardown(d) PROVE pc'[c] # "requested"
  <2>1. pc' = pc \/ pc' = [pc EXCEPT ![d] = "leaving"] \/ pc' = [pc EXCEPT ![d] = "idle"]
    BY <1>8 DEF Abort, Teardown
  <2>2. c \in DOMAIN pc
    BY <1>1 DEF TypeOK
  <2> QED BY <2>1, <2>2
<1>9. ASSUME CloseAllStreams \/ CloseServer \/ Drained \/ HardExit \/ Crash \/ Restart
      PROVE  pc'[c] # "requested"
  BY <1>1, <1>9 DEF CloseAllStreams, CloseServer, Drained, HardExit, Crash, Restart, connVars
<1> QED BY <1>2, <1>3, <1>4, <1>5, <1>6, <1>7, <1>8, <1>9 DEF ServerStep

LEMMA ServerStepNext ==
  ASSUME ServerStep
  PROVE  Next
  BY DEF ServerStep, Next

\* A frame written to the tab's connection, with rows of the session that are
\* later than all that is shown.
LEMMA FrameForTab ==
  ASSUME ViewerInv, StreamInv', [StoreNext]_storeVars, UNCHANGED viewerVars,
         link # NoConn, link \in Attached, pc'[link] # "requested", sid'[link] = sid[link],
         NEW f \in Frame, out'[link] = Append(out[link], f),
         \A p \in f.rows :
           /\ SessionExists(session)
           /\ p \in PromptsOf(session)'
           /\ \A j \in 1 .. Len(list) : list[j].seq < p.seq
  PROVE  LinkInv' /\ KnownInv' /\ ReadInv' /\ SnapshotInv'
<1>1. /\ StreamInv /\ FramesInv /\ ViewerTypeOK /\ SourceInv /\ LinkInv /\ KnownInv
      /\ ReadInv /\ SnapshotInv /\ StoreInv /\ StoreInv'
  BY DEF ViewerInv, StreamInv
<1>2. /\ session' = session /\ list' = list /\ source' = source /\ link' = link /\ got' = got
      /\ page' = page
  BY DEF viewerVars
<1>3. link \in Conn /\ out[link] \in Seq(Frame) /\ out[link] # <<>>
  BY <1>1 DEF Attached, StreamInv, TypeOK, FramesInv
<1> DEFINE g == Append(out[link], f)
           n == Len(out[link])
<1>4. /\ n \in Nat \ {0} /\ Len(g) = n + 1 /\ g[n + 1] = f
      /\ \A i \in 1 .. n : g[i] = out[link][i]
  BY <1>3
<1>5. out'[link'] = g /\ SentRows(link)' = SentRows(link) \cup f.rows
  BY <1>2, <1>3, AppendFrame DEF SentRows
<1> HIDE DEF g
<1>6. got \in Nat /\ got <= n
  BY <1>1 DEF ViewerTypeOK, LinkInv
<1>7. LinkInv'
  BY <1>1, <1>2, <1>4, <1>5, <1>6 DEF LinkInv
<1>8. KnownInv'
  <2>1. ShownRows' = ShownRows /\ ComingRows' = ComingRows \cup {Row(p) : p \in f.rows}
    BY <1>2, <1>5 DEF ShownRows, ComingRows
  <2>2. CASE f.rows = {}
    BY <2>1, <2>2, <1>1, <1>2, KnownKept
  <2>3. CASE f.rows # {}
    <3>1. SessionExists(session)
      BY <2>3
    <3>2. ShownRows \cup ComingRows \subseteq {Row(p) : p \in PromptsOf(session)}
      BY <3>1, <1>1 DEF KnownInv
    <3>3. PromptsOf(session) \subseteq PromptsOf(session)'
      <4>1. session \in Nat /\ session < nextSid
        BY <1>1, <3>1 DEF ViewerTypeOK, Sid, StoreInv, SessionExists
      <4>2. SessionExists(session)'
        <5>1. PICK p \in f.rows : p \in PromptsOf(session)'
          BY <2>3
        <5> QED BY <5>1, <1>1 DEF StoreInv, PromptsNumbered, PromptsOf, SessionExists
      <4> QED BY <4>1, <4>2, <1>1, <1>2, SpentSession DEF SessionExists, PromptsOf
    <3>4. (ShownRows \cup ComingRows)' \subseteq {Row(p) : p \in PromptsOf(session)'}
      BY <2>1, <3>2, <3>3
    <3> QED BY <3>4, <1>1, KnownOfSession
  <2> QED BY <2>2, <2>3
<1>9. ReadInv'
  <2> SUFFICES ASSUME NEW i \in 1 .. n + 1, NEW p \in g[i].rows
               PROVE  /\ i <= got => p.id \in Ids(list)
                      /\ i > got /\ i > 1 => \A j \in 1 .. Len(list) : list[j].seq < p.seq
    BY <1>2, <1>4, <1>5 DEF ReadInv
  <2>1. CASE i \in 1 .. n
    BY <2>1, <1>1, <1>4 DEF ReadInv
  <2>2. CASE i = n + 1
    BY <2>2, <1>4, <1>6
  <2> QED BY <2>1, <2>2, <1>4
<1>10. SnapshotInv'
  <2>1. g[1] = out[link][1] /\ 1 \in 1 .. n
    BY <1>4
  <2> QED BY <2>1, <1>1, <1>2, <1>3, <1>5 DEF SnapshotInv
<1> QED BY <1>7, <1>8, <1>9, <1>10

\* A snapshot shorter than the limit is the whole session.
LEMMA ShortSnapshot ==
  ASSUME StoreInv, NEW s, Cardinality(Snapshot(s)) # SnapshotLimit
  PROVE  /\ Snapshot(s) = PromptsOf(s)
         /\ \E n \in Nat : {p.seq : p \in Snapshot(s)} = 1 .. n
<1> DEFINE P == PromptsOf(s)
           n == Cardinality(P)
           S == Snapshot(s)
<1>1. /\ IsFiniteSet(P) /\ n \in Nat /\ {p.seq : p \in P} = 1 .. n
      /\ \A p, q \in P : p.seq = q.seq => p = q
  BY NumberedToCount
<1>2. {p.seq : p \in S} = {k \in 1 .. n : k > n - SnapshotLimit}
  BY SnapshotNumbers
<1>3. S \subseteq P
  BY DEF Snapshot
<1>4. SnapshotLimit \in Nat /\ SnapshotLimit # 0
  BY StreamAssumption
<1>5. Cardinality(S) # SnapshotLimit
  OBVIOUS
<1> HIDE DEF P, n, S
<1>6. n <= SnapshotLimit
  <2> SUFFICES ASSUME n > SnapshotLimit PROVE FALSE
    BY <1>1, <1>4
  <2> DEFINE a == n - SnapshotLimit + 1
  <2>1. a \in Nat /\ a <= n /\ n - a + 1 = SnapshotLimit
    BY <1>1, <1>4
  <2>2. {k \in 1 .. n : k > n - SnapshotLimit} = a .. n
    BY <1>1, <1>4
  <2>3. IsFiniteSet(S) /\ \A p, q \in S : p.seq = q.seq => p = q
    BY <1>1, <1>3, FS_Subset
  <2> HIDE DEF a
  <2>4. Cardinality(S) = SnapshotLimit
    BY <2>1, <2>2, <2>3, <1>1, <1>2, RowsOfInterval
  <2> QED BY <2>4, <1>5
<1>7. {p.seq : p \in S} = 1 .. n
  BY <1>1, <1>2, <1>4, <1>6
<1>8. S = P
  <2>1. ASSUME NEW q \in P PROVE q \in S
    <3>1. q.seq \in {p.seq : p \in S}
      BY <1>1, <1>7
    <3> QED BY <3>1, <1>1, <1>3
  <2> QED BY <2>1, <1>3
<1> QED BY <1>1, <1>7, <1>8 DEF S, P

LEMMA ServerStepView ==
  ASSUME ViewerInv, ServerStep
  PROVE  ViewerInv'
<1>1. /\ StreamInv /\ FramesInv /\ NoEmptySession /\ ViewerTypeOK /\ SourceInv /\ LinkInv
      /\ KnownInv /\ ReadInv /\ SnapshotInv /\ StoreInv /\ TypeOK
  BY DEF ViewerInv, StreamInv
<1>2. Next /\ [Next]_vars /\ UNCHANGED viewerVars
  BY ServerStepNext DEF ServerStep
<1>3. [StoreNext]_storeVars
  BY <1>2, StepOnStore
<1>4. StreamInv' /\ StoreInv'
  BY <1>1, <1>2, StreamPreserved DEF StreamInv
<1>5. FramesInv' /\ NoEmptySession'
  BY <1>1, <1>2, <1>3, FramesPreserved, SessionsStayFilled
<1>6. /\ session' = session /\ list' = list /\ source' = source /\ link' = link /\ got' = got
      /\ page' = page /\ view' = view /\ retries' = retries
  BY <1>2 DEF viewerVars
<1>7. ViewerTypeOK' /\ IndicatorTruthful' /\ ListInOrder'
  BY <1>6 DEF ViewerInv, ViewerTypeOK, IndicatorTruthful, ListInOrder
<1>8. SourceInv'
  <2>1. session < nextSid => session < nextSid'
    BY <1>1, <1>3, SpentSession DEF ViewerTypeOK, Sid
  <2> QED BY <2>1, <1>1, <1>6 DEF SourceInv
<1>9. LinkInv' /\ KnownInv' /\ ReadInv' /\ SnapshotInv'
  <2>1. CASE link = NoConn
    <3>1. ShownRows' = ShownRows /\ ComingRows' = ComingRows
      BY <2>1, <1>6 DEF ShownRows, ComingRows
    <3>2. KnownInv'
      BY <3>1, <1>1, <1>3, <1>6, KnownKept
    <3> QED BY <2>1, <3>2, <1>6 DEF LinkInv, ReadInv, SnapshotInv
  <2>2. ASSUME link # NoConn
        PROVE  LinkInv' /\ KnownInv' /\ ReadInv' /\ SnapshotInv'
    <3>1. /\ link \in TabConn /\ link \in Conn /\ sid[link] = session
          /\ got \in Nat /\ got <= Len(out[link]) /\ out[link] \in Seq(Frame)
          /\ source = "open" => pc[link] # "requested"
      BY <2>2, <1>1, ViewerAssumption DEF ViewerTypeOK, LinkInv, TypeOK
    <3>2. CASE Quiet(link)
      <4>1. /\ out'[link] = out[link] /\ sid'[link] = sid[link]
            /\ pc'[link] = "requested" => pc[link] = "requested"
        BY <3>2 DEF Quiet
      <4>2. ShownRows' = ShownRows /\ ComingRows' = ComingRows
        BY <4>1, <1>6 DEF ShownRows, ComingRows, SentRows
      <4>3. KnownInv'
        BY <4>2, <1>1, <1>3, <1>6, KnownKept
      <4>4. LinkInv'
        BY <4>1, <3>1, <1>6 DEF LinkInv
      <4>5. ReadInv' /\ SnapshotInv'
        BY <4>1, <1>1, <1>6 DEF ReadInv, SnapshotInv
      <4> QED BY <4>3, <4>4, <4>5
    <3>3. CASE Answered(link)
      <4> DEFINE f == [ev |-> "snapshot", rows |-> Snapshot(session)]
      <4>1. /\ out'[link] = <<f>> /\ f.rows = Snapshot(session) /\ pc'[link] = "snapshot"
            /\ sid'[link] = session /\ SessionExists(session) /\ UNCHANGED storeVars
            /\ pc[link] = "requested"
        BY <3>1, <3>3 DEF Answered
      <4>2. f \in Frame /\ Snapshot(session) \subseteq PromptsOf(session)
        BY <1>1, SnapshotFrame
      <4> HIDE DEF f
      <4>3. Len(<<f>>) = 1 /\ <<f>>[1] = f /\ FrameRows(<<f>>) = Snapshot(session)
        BY <4>1, <4>2, OneFrame
      <4>4. out[link] = <<>> /\ got = 0
        BY <4>1, <3>1, <1>1 DEF FramesInv
      <4>5. PromptsOf(session)' = PromptsOf(session)
        BY <4>1, <1>6 DEF PromptsOf, storeVars
      <4>6. LinkInv'
        BY <4>1, <4>3, <4>4, <1>6 DEF LinkInv
      <4>7. ShownRows \subseteq {Row(p) : p \in PromptsOf(session)}
        BY <4>1, <1>1 DEF KnownInv
      <4>8. KnownInv'
        <5>1. ComingRows' = {Row(p) : p \in Snapshot(session)}
          BY <2>2, <4>1, <4>3, <1>6 DEF ComingRows, SentRows
        <5>2. ShownRows' = ShownRows
          BY <1>6 DEF ShownRows
        <5>3. (ShownRows \cup ComingRows)' \subseteq {Row(p) : p \in PromptsOf(session)'}
          BY <5>1, <5>2, <4>2, <4>5, <4>7
        <5> QED BY <5>3, <1>4, KnownOfSession
      <4>9. ReadInv'
        BY <4>1, <4>3, <4>4, <1>6 DEF ReadInv
      <4>10. SnapshotInv'
        <5> SUFFICES ASSUME Cardinality(Snapshot(session)) # SnapshotLimit
                     PROVE  /\ \E n \in Nat : {p.seq : p \in Snapshot(session)} = 1 .. n
                            /\ Ids(list) \subseteq {p.id : p \in Snapshot(session)}
          BY <4>1, <4>3, <1>6 DEF SnapshotInv
        <5>1. /\ Snapshot(session) = PromptsOf(session)
              /\ \E n \in Nat : {p.seq : p \in Snapshot(session)} = 1 .. n
          BY <1>1, ShortSnapshot
        <5>2. \A i \in 1 .. Len(list) : Row(list[i]) \in {Row(p) : p \in PromptsOf(session)}
          BY <4>7 DEF ShownRows
        <5>3. \A i \in 1 .. Len(list) : list[i].id \in {p.id : p \in PromptsOf(session)}
          BY <5>2 DEF Row
        <5> QED BY <5>1, <5>3 DEF Ids
      <4> QED BY <4>6, <4>8, <4>9, <4>10
    <3>4. ASSUME NEW k \in Claude, Told(link, k)
          PROVE  LinkInv' /\ KnownInv' /\ ReadInv' /\ SnapshotInv'
      <4> DEFINE n == NewPrompt(k)
                 f == [ev |-> "prompt", rows |-> {n}]
      <4>1. /\ out'[link] = Append(out[link], f) /\ link \in Attached
            /\ pc'[link] = pc[link] /\ sid'[link] = sid[link] /\ IngestTx(k) /\ n.sid = session
        BY <3>1, <3>4 DEF Told
      <4>2. SessionExists(session) /\ n \in PromptRow
        BY <3>1, <3>4, <1>1, ToldFollows
      <4>3. f \in Frame /\ f.rows = {n}
        BY <4>2 DEF Frame
      <4>4. n \in PromptsOf(session)'
        BY <4>1, <1>6 DEF PromptsOf, IngestTx
      <4>5. \A p \in PromptsOf(session) : p.seq < n.seq
        BY <4>1, <1>1, NewPromptFacts
      <4>6. ASSUME NEW j \in 1 .. Len(list) PROVE list[j].seq < n.seq
        <5>1. Row(list[j]) \in {Row(p) : p \in PromptsOf(session)}
          BY <4>2, <1>1 DEF KnownInv, ShownRows
        <5> QED BY <5>1, <4>5 DEF Row
      <4> HIDE DEF f, n
      <4>7. pc'[link] # "requested"
        BY <4>1 DEF Attached
      <4> QED BY <2>2, <4>1, <4>2, <4>3, <4>4, <4>6, <4>7, <1>2, <1>3, <1>4, FrameForTab
    <3>5. CASE Closed(link)
      <4> DEFINE f == [ev |-> "close", rows |-> {}]
      <4>1. /\ out'[link] = Append(out[link], f) /\ link \in Attached
            /\ pc'[link] = "leaving" /\ sid'[link] = sid[link]
        BY <3>5 DEF Closed
      <4>2. f \in Frame /\ f.rows = {}
        BY DEF Frame
      <4> HIDE DEF f
      <4> QED BY <2>2, <4>1, <4>2, <1>2, <1>3, <1>4, FrameForTab
    <3> QED BY <3>1, <3>2, <3>3, <3>4, <3>5, <1>1, <1>2, StepOnConnection, NoOtherRequest
  <2> QED BY <2>1, <2>2
<1> QED BY <1>4, <1>5, <1>7, <1>8, <1>9 DEF ViewerInv

----------------------------------------------------------------------------
(* The list *)

\* Displayed prompts of which no two have the same id or the same number.
LEMMA ShownSetSorts ==
  ASSUME NEW S \in SUBSET Shown,
         \A x, y \in S : x.id = y.id \/ x.seq = y.seq => x = y
  PROVE  /\ BySeq(S) \in Seq(Shown)
         /\ {BySeq(S)[i] : i \in 1 .. Len(BySeq(S))} = S
         /\ \A i, j \in 1 .. Len(BySeq(S)) : i < j => BySeq(S)[i].seq < BySeq(S)[j].seq
<1>1. IsFiniteSet(S)
  <2> DEFINE f == [x \in S |-> x.id]
  <2>1. f \in Injection(S, Pid)
    BY DEF Shown, Injection, IsInjective
  <2>2. IsFiniteSet(Pid)
    BY StoreAssumption, FS_Interval DEF Pid
  <2> QED BY <2>1, <2>2, FS_Injection
<1>2. \A x \in S : x.seq \in Nat
  BY DEF Shown
<1>3. BySeq(S) \in Seq(S)
  BY <1>1, <1>2, BySeqSorts
<1>4. Seq(S) \subseteq Seq(Shown)
  OBVIOUS
<1> QED BY <1>1, <1>2, <1>3, <1>4, BySeqSorts

\* The merge shows what the list and the snapshot show, each prompt once.
LEMMA ReconcileMerges ==
  ASSUME list \in Seq(Shown), ListInOrder, NEW rows \in SUBSET PromptRow,
         \A a, b \in ShownRows \cup {Row(p) : p \in rows} : a.id = b.id <=> a.seq = b.seq
  PROVE  LET l == Reconcile(rows)
         IN  /\ l \in Seq(Shown)
             /\ Ids(l) = Ids(list) \cup {p.id : p \in rows}
             /\ \A i \in 1 .. Len(l) : Row(l[i]) \in ShownRows \cup {Row(p) : p \in rows}
             /\ \A p \in rows : \E i \in 1 .. Len(l) : l[i].id = p.id /\ l[i].seq = p.seq
             /\ \A i, j \in 1 .. Len(l) : i < j => l[i].seq < l[j].seq
<1> DEFINE New == {Row(p) : p \in rows}
           Old == {x \in ToSet(list) : \A p \in rows : p.id # x.id}
           S == New \cup Old
           l == Reconcile(rows)
<1>1. ToSet(list) = {list[i] : i \in 1 .. Len(list)}
  BY DEF ToSet
<1>0. ASSUME NEW p \in rows
      PROVE  /\ Row(p) \in Shown
             /\ Row(p).id = p.id /\ Row(p).seq = p.seq
  <2>1. p.id \in Pid /\ p.seq \in Nat
    BY DEF PromptRow
  <2> QED BY <2>1 DEF Row, Shown
<1>2. New \subseteq Shown /\ ToSet(list) \subseteq Shown
  BY <1>0, <1>1
<1>3. \A x \in New : \E p \in rows : x = Row(p) /\ x.id = p.id /\ x.seq = p.seq
  BY <1>0
<1>4. \A x \in ToSet(list) : Row(x) \in ShownRows
  BY <1>1 DEF ShownRows
<1>5. \A x \in S : Row(x) \in ShownRows \cup {Row(p) : p \in rows}
  BY <1>3, <1>4 DEF Row
<1>6. ASSUME NEW x \in S, NEW y \in S
      PROVE  x.id = y.id <=> x.seq = y.seq
  <2>1. Row(x).id = Row(y).id <=> Row(x).seq = Row(y).seq
    BY <1>5
  <2> QED BY <2>1 DEF Row
<1>7. ASSUME NEW x \in S, NEW y \in S, x.id = y.id, x.seq = y.seq
      PROVE  x = y
  <2>1. CASE x \in New /\ y \in New
    <3>1. PICK p \in rows, q \in rows : /\ x = Row(p) /\ x.id = p.id /\ x.seq = p.seq
                                        /\ y = Row(q) /\ y.id = q.id /\ y.seq = q.seq
      BY <2>1, <1>3
    <3>2. p.id = q.id /\ p.seq = q.seq
      BY <3>1, <1>7
    <3> QED BY <3>1, <3>2 DEF Row
  <2>2. CASE x \in Old /\ y \in Old
    <3>1. PICK i \in 1 .. Len(list), j \in 1 .. Len(list) : x = list[i] /\ y = list[j]
      BY <2>2, <1>1
    <3>2. x.seq \in Nat /\ y.seq \in Nat
      BY <2>2, <1>2 DEF Shown
    <3>3. ~(i < j) /\ ~(j < i)
      BY <3>1, <3>2, <1>7 DEF ListInOrder
    <3>4. i = j
      BY <3>3
    <3> QED BY <3>1, <3>4
  <2>3. CASE x \in New /\ y \in Old
    BY <2>3, <1>3, <1>7
  <2>4. CASE x \in Old /\ y \in New
    BY <2>4, <1>3, <1>7
  <2> QED BY <2>1, <2>2, <2>3, <2>4
<1>8. S \in SUBSET Shown /\ \A x, y \in S : x.id = y.id \/ x.seq = y.seq => x = y
  BY <1>2, <1>6, <1>7
<1>9. l = BySeq(S)
  BY DEF Reconcile
<1> HIDE DEF l
<1>10. /\ l \in Seq(Shown) /\ {l[i] : i \in 1 .. Len(l)} = S
       /\ \A i, j \in 1 .. Len(l) : i < j => l[i].seq < l[j].seq
  <2> HIDE DEF S
  <2> QED BY <1>8, <1>9, ShownSetSorts
<1>11. \A i \in 1 .. Len(l) : l[i] \in S
  BY <1>10
<1>12. \A x \in S : \E i \in 1 .. Len(l) : l[i] = x
  BY <1>10
<1>13. ASSUME NEW p \in rows PROVE \E x \in S : x.id = p.id /\ x.seq = p.seq
  <2>1. Row(p) \in S
    OBVIOUS
  <2> QED BY <2>1, <1>0
<1>14. Ids(l) = Ids(list) \cup {p.id : p \in rows}
  <2>1. ASSUME NEW a \in Ids(l) PROVE a \in Ids(list) \cup {p.id : p \in rows}
    <3>1. PICK x \in S : a = x.id
      BY <1>11 DEF Ids
    <3>2. CASE x \in New
      BY <3>1, <3>2, <1>3
    <3>3. CASE x \in Old
      BY <3>1, <3>3, <1>1 DEF Ids
    <3> QED BY <3>1, <3>2, <3>3
  <2>2. ASSUME NEW p \in rows PROVE p.id \in Ids(l)
    BY <1>12, <1>13 DEF Ids
  <2>3. ASSUME NEW i \in 1 .. Len(list) PROVE list[i].id \in Ids(l)
    <3>1. CASE \A p \in rows : p.id # list[i].id
      <4>1. list[i] \in S
        BY <3>1, <1>1
      <4> QED BY <4>1, <1>12 DEF Ids
    <3>2. CASE \E p \in rows : p.id = list[i].id
      BY <3>2, <2>2
    <3> QED BY <3>1, <3>2
  <2> QED BY <2>1, <2>2, <2>3 DEF Ids
<1>15. \A p \in rows : \E i \in 1 .. Len(l) : l[i].id = p.id /\ l[i].seq = p.seq
  BY <1>12, <1>13
<1>16. \A i \in 1 .. Len(l) : Row(l[i]) \in ShownRows \cup {Row(p) : p \in rows}
  BY <1>5, <1>11
<1> QED BY <1>10, <1>14, <1>15, <1>16 DEF l

\* A broadcast prompt that is later than all that is shown goes to the end.
LEMMA UpsertAppends ==
  ASSUME list \in Seq(Shown), ListInOrder, NEW p \in PromptRow,
         \A j \in 1 .. Len(list) : list[j].id # p.id /\ list[j].seq < p.seq
  PROVE  LET l == Upsert(p)
         IN  /\ l = Append(list, Row(p))
             /\ l \in Seq(Shown)
             /\ Len(l) = Len(list) + 1
             /\ \A i \in 1 .. Len(list) : l[i] = list[i]
             /\ l[Len(list) + 1].id = p.id /\ l[Len(list) + 1].seq = p.seq
             /\ Ids(l) = Ids(list) \cup {p.id}
             /\ \A i, j \in 1 .. Len(l) : i < j => l[i].seq < l[j].seq
<1> DEFINE x == Row(p)
           n == Len(list)
           l == Append(list, x)
<1>1. x \in Shown /\ x.id = p.id /\ x.seq = p.seq
  BY DEF Row, Shown, PromptRow
<1>2. Upsert(p) = l
  BY DEF Upsert, Ids
<1> HIDE DEF x
<1>3. /\ n \in Nat /\ l \in Seq(Shown) /\ Len(l) = n + 1 /\ l[n + 1] = x
      /\ \A i \in 1 .. n : l[i] = list[i]
  BY <1>1
<1>4. 1 .. n + 1 = (1 .. n) \cup {n + 1}
  BY <1>3
<1> HIDE DEF l, n
<1>5. {l[i].id : i \in 1 .. n + 1} = {list[i].id : i \in 1 .. n} \cup {x.id}
  BY <1>3, <1>4
<1>6. ASSUME NEW i \in 1 .. n + 1, NEW j \in 1 .. n + 1, i < j
      PROVE  l[i].seq < l[j].seq
  <2>1. i \in 1 .. n
    BY <1>3, <1>6
  <2>2. CASE j \in 1 .. n
    BY <2>1, <2>2, <1>3, <1>6 DEF ListInOrder, n
  <2>3. CASE j = n + 1
    BY <2>1, <2>3, <1>1, <1>3 DEF n
  <2> QED BY <2>2, <2>3, <1>4
<1> QED BY <1>1, <1>2, <1>3, <1>5, <1>6 DEF Ids, n, l, x

----------------------------------------------------------------------------
(* The steps of the tab *)

LEMMA ServerUntouched ==
  ASSUME ViewerInv, UNCHANGED vars
  PROVE  /\ StreamInv' /\ StoreInv' /\ FramesInv' /\ NoEmptySession' /\ [StoreNext]_storeVars
         /\ \A s : /\ PromptsOf(s)' = PromptsOf(s)
                   /\ SessionExists(s)' <=> SessionExists(s)
<1>1. StreamInv /\ FramesInv /\ NoEmptySession
  BY DEF ViewerInv
<1>2. StreamInv' /\ FramesInv'
  BY <1>1, StreamPreserved, FramesPreserved
<1>3. NoEmptySession' /\ UNCHANGED storeVars
  BY <1>1 DEF vars, storeVars, NoEmptySession, PromptsOf
<1> QED BY <1>2, <1>3 DEF StreamInv, vars, PromptsOf, SessionExists

\* A tab without a connection, that shows what it showed.
LEMMA UnlinkedStep ==
  ASSUME ViewerInv, UNCHANGED <<vars, session, list>>, link' = NoConn,
         ViewerTypeOK', IndicatorTruthful', SourceInv'
  PROVE  ViewerInv'
<1>1. StoreInv /\ KnownInv /\ SourceInv /\ ViewerTypeOK
  BY DEF ViewerInv, StreamInv
<1>2. StreamInv' /\ FramesInv' /\ NoEmptySession' /\ [StoreNext]_storeVars
  BY ServerUntouched
<1>3. ShownRows' = ShownRows /\ ComingRows' = {}
  BY DEF ShownRows, ComingRows
<1>4. KnownInv'
  BY <1>1, <1>2, <1>3, KnownKept
<1>5. LinkInv' /\ ReadInv' /\ SnapshotInv'
  BY DEF LinkInv, ReadInv, SnapshotInv
<1>6. ListInOrder'
  BY DEF ViewerInv, ListInOrder
<1> QED BY <1>2, <1>4, <1>5, <1>6 DEF ViewerInv

LEMMA MountStep ==
  ASSUME ViewerInv, Mount
  PROVE  ViewerInv'
<1>1. ViewerTypeOK /\ IndicatorTruthful /\ SourceInv
  BY DEF ViewerInv
<1>2. /\ page = "loaded" /\ page' = "mounted"
      /\ \/ view' = "archived" /\ source' = source
         \/ source' = "connecting" /\ view' = view
      /\ UNCHANGED <<vars, session, list, retries, link, got>>
  BY DEF Mount
<1>3. source = "null" /\ link = NoConn /\ got = 0 /\ view = "connecting" /\ retries = 0
  BY <1>1, <1>2 DEF SourceInv
<1>4. ViewerTypeOK'
  BY <1>1, <1>2 DEF ViewerTypeOK
<1>5. IndicatorTruthful'
  BY <1>2, <1>3 DEF IndicatorTruthful
<1>6. SourceInv'
  BY <1>1, <1>2, <1>3, ViewerAssumption DEF SourceInv, vars
<1> QED BY <1>2, <1>3, <1>4, <1>5, <1>6, UnlinkedStep

LEMMA DestroyStep ==
  ASSUME ViewerInv, Destroy
  PROVE  ViewerInv'
<1>1. ViewerTypeOK /\ SourceInv
  BY DEF ViewerInv
<1>2. /\ page # "none" /\ page' = "none" /\ source' = "null" /\ link' = NoConn /\ got' = 0
      /\ UNCHANGED <<vars, session, list, view, retries>>
  BY DEF Destroy
<1>3. ViewerTypeOK'
  BY <1>1, <1>2 DEF ViewerTypeOK
<1>4. IndicatorTruthful'
  BY <1>2 DEF IndicatorTruthful
<1>5. SourceInv'
  BY <1>1, <1>2 DEF SourceInv, vars
<1> QED BY <1>2, <1>3, <1>4, <1>5, UnlinkedStep

LEMMA OnErrorStep ==
  ASSUME ViewerInv, source \in {"connecting", "open"},
         NEW readyState \in {"connecting", "closed"}, OnError(readyState)
  PROVE  ViewerInv'
<1>1. ViewerTypeOK /\ SourceInv
  BY DEF ViewerInv
<1>2. /\ retries' = retries + 1 /\ link' = NoConn /\ got' = 0
      /\ UNCHANGED <<vars, page, session, list>>
      /\ \/ retries + 1 >= MaxRetries /\ view' = "lost" /\ source' = "null"
         \/ ~(retries + 1 >= MaxRetries) /\ view' = "reconnecting" /\ source' = readyState
  BY DEF OnError
<1>3. /\ page = "mounted" /\ retries \in Nat /\ MaxRetries \in Nat /\ retries < MaxRetries
  BY <1>1, ViewerAssumption DEF SourceInv, ViewerTypeOK
<1>4. ViewerTypeOK'
  BY <1>1, <1>2, <1>3 DEF ViewerTypeOK
<1>5. IndicatorTruthful'
  BY <1>2, <1>3 DEF IndicatorTruthful
<1>6. SourceInv'
  BY <1>1, <1>2, <1>3 DEF SourceInv, vars
<1> QED BY <1>2, <1>4, <1>5, <1>6, UnlinkedStep

LEMMA OnOpenStep ==
  ASSUME ViewerInv, OnOpen
  PROVE  ViewerInv'
<1>1. /\ ViewerTypeOK /\ SourceInv /\ LinkInv /\ FramesInv /\ KnownInv /\ ReadInv
      /\ SnapshotInv /\ ListInOrder
  BY DEF ViewerInv
<1>2. /\ source = "connecting" /\ link # NoConn /\ reply[link] = 200
      /\ source' = "open" /\ view' = "live" /\ retries' = 0
      /\ UNCHANGED <<vars, page, session, list, link, got>>
  BY DEF OnOpen
<1>3. StreamInv' /\ FramesInv' /\ NoEmptySession' /\ \A s : PromptsOf(s)' = PromptsOf(s)
  BY <1>2, ServerUntouched
<1>4. page = "mounted"
  BY <1>1, <1>2 DEF SourceInv
<1>5. ViewerTypeOK'
  BY <1>1, <1>2, ViewerAssumption DEF ViewerTypeOK
<1>6. IndicatorTruthful' /\ SourceInv'
  BY <1>1, <1>2, <1>4, ViewerAssumption DEF IndicatorTruthful, SourceInv, vars
<1>7. LinkInv'
  <2>1. link \in Conn
    BY <1>1, <1>2, ViewerAssumption DEF ViewerTypeOK
  <2>2. pc[link] # "requested"
    BY <2>1, <1>1, <1>2 DEF FramesInv
  <2> QED BY <2>2, <1>1, <1>2 DEF LinkInv, vars
<1>8. KnownInv' /\ ReadInv' /\ SnapshotInv' /\ ListInOrder'
  <2>1. out' = out /\ session' = session /\ list' = list /\ link' = link /\ got' = got
    BY <1>2 DEF vars
  <2>2. ShownRows' = ShownRows /\ ComingRows' = ComingRows
    BY <2>1 DEF ShownRows, ComingRows, SentRows
  <2>3. KnownInv'
    <3>1. StoreInv /\ [StoreNext]_storeVars
      BY <1>2, ServerUntouched DEF ViewerInv, StreamInv
    <3> QED BY <2>1, <2>2, <3>1, <1>1, KnownKept
  <2>4. ReadInv'
    BY <2>1, <1>1 DEF ReadInv
  <2>5. SnapshotInv' /\ ListInOrder'
    BY <2>1, <1>1 DEF SnapshotInv, ListInOrder
  <2> QED BY <2>3, <2>4, <2>5
<1> QED BY <1>3, <1>5, <1>6, <1>7, <1>8 DEF ViewerInv

\* The page shows all prompts of its session.
LEMMA LoadPageStep ==
  ASSUME ViewerInv, NEW s \in Sid, LoadPage(s)
  PROVE  ViewerInv'
<1> DEFINE S == {Row(p) : p \in PromptsOf(s)}
<1>1. /\ ViewerTypeOK /\ SourceInv /\ StoreInv /\ TypeOK
  BY DEF ViewerInv, StreamInv
<1>2. /\ page = "none" /\ SessionExists(s) /\ page' = "loaded" /\ session' = s
      /\ list' = BySeq(S) /\ view' = "connecting" /\ retries' = 0
      /\ UNCHANGED <<vars, source, link, got>>
  BY DEF LoadPage
<1>3. source = "null" /\ link = NoConn /\ got = 0
  BY <1>1, <1>2 DEF SourceInv
<1>4. /\ StreamInv' /\ StoreInv' /\ FramesInv' /\ NoEmptySession'
      /\ PromptsOf(s)' = PromptsOf(s)
  BY <1>2, ServerUntouched
<1>5. ASSUME NEW p \in PromptsOf(s)
      PROVE  /\ p \in prompts /\ p.sid = s
             /\ Row(p) \in Shown /\ Row(Row(p)) = Row(p)
             /\ Row(p).id = p.id /\ Row(p).seq = p.seq
  <2>1. p \in prompts /\ p.sid = s /\ p.id \in Pid /\ p.seq \in Nat
    BY <1>1 DEF PromptsOf, TypeOK, StoreTypeOK, PromptRow
  <2> QED BY <2>1 DEF Row, Shown
<1>6. S \in SUBSET Shown /\ \A x, y \in S : x.id = y.id \/ x.seq = y.seq => x = y
  <2>1. ASSUME NEW p \in PromptsOf(s), NEW q \in PromptsOf(s), p.id = q.id \/ p.seq = q.seq
        PROVE  p = q
    BY <2>1, <1>1, <1>5 DEF StoreInv, PromptsNumbered
  <2>2. ASSUME NEW x \in S, NEW y \in S, x.id = y.id \/ x.seq = y.seq
        PROVE  x = y
    <3>1. PICK p \in PromptsOf(s), q \in PromptsOf(s) : x = Row(p) /\ y = Row(q)
      OBVIOUS
    <3>2. p.id = q.id \/ p.seq = q.seq
      BY <2>2, <3>1, <1>5
    <3> QED BY <2>1, <3>1, <3>2
  <2> QED BY <2>2, <1>5
<1>7. \A x \in S : Row(x) \in {Row(p) : p \in PromptsOf(s)}
  BY <1>5
<1> HIDE DEF S
<1>8. /\ list' \in Seq(Shown) /\ \A i \in 1 .. Len(list') : list'[i] \in S
      /\ \A i, j \in 1 .. Len(list') : i < j => list'[i].seq < list'[j].seq
  BY <1>2, <1>6, ShownSetSorts
<1>9. ViewerTypeOK'
  BY <1>1, <1>2, <1>8, ViewerAssumption DEF ViewerTypeOK
<1>10. IndicatorTruthful'
  BY <1>2, <1>3 DEF IndicatorTruthful
<1>11. SourceInv'
  <2>1. s < nextSid
    BY <1>1, <1>2 DEF StoreInv, SessionExists
  <2> QED BY <2>1, <1>2, <1>3 DEF SourceInv, vars
<1>12. LinkInv' /\ ReadInv' /\ SnapshotInv'
  BY <1>2, <1>3 DEF LinkInv, ReadInv, SnapshotInv
<1>13. KnownInv'
  <2>1. ShownRows' \subseteq {Row(p) : p \in PromptsOf(s)}
    BY <1>7, <1>8 DEF ShownRows
  <2>2. ComingRows' = {}
    BY <1>2, <1>3 DEF ComingRows
  <2>3. (ShownRows \cup ComingRows)' \subseteq {Row(p) : p \in PromptsOf(session)'}
    <3>1. PromptsOf(session)' = PromptsOf(s)'
      BY <1>2 DEF PromptsOf
    <3> QED BY <2>1, <2>2, <3>1, <1>4
  <2> QED BY <2>3, <1>4, KnownOfSession
<1>14. ListInOrder'
  BY <1>8 DEF ListInOrder
<1> QED BY <1>4, <1>9, <1>10, <1>11, <1>12, <1>13, <1>14 DEF ViewerInv

\* The request of the tab: nothing is coming yet.
LEMMA ConnectStep ==
  ASSUME ViewerInv, NEW c \in TabConn, Connect(c)
  PROVE  ViewerInv'
<1>1. /\ StreamInv /\ FramesInv /\ NoEmptySession /\ ViewerTypeOK /\ IndicatorTruthful
      /\ SourceInv /\ KnownInv /\ ListInOrder /\ StoreInv /\ TypeOK
  BY DEF ViewerInv, StreamInv
<1>2. /\ source = "connecting" /\ link = NoConn /\ Request(c, session) /\ link' = c /\ got' = 0
      /\ UNCHANGED <<page, session, list, view, retries, source>>
  BY DEF Connect
<1>3. c \in Conn /\ session \in Sid /\ Next
  BY <1>1, <1>2, ViewerAssumption DEF ViewerTypeOK, Next
<1>4. StreamInv' /\ FramesInv' /\ NoEmptySession' /\ [StoreNext]_storeVars
  BY <1>1, <1>3, StreamPreserved, FramesPreserved, SessionsStayFilled, StepOnStore
<1>5. /\ out'[c] = <<>> /\ sid'[c] = session /\ UNCHANGED storeVars
  BY <1>1, <1>2, <1>3 DEF Request, TypeOK
<1>6. ViewerTypeOK' /\ IndicatorTruthful' /\ ListInOrder'
  BY <1>1, <1>2 DEF ViewerTypeOK, IndicatorTruthful, ListInOrder
<1>7. SourceInv'
  BY <1>1, <1>2, <1>5 DEF SourceInv, storeVars
<1>8. LinkInv' /\ ReadInv' /\ SnapshotInv'
  BY <1>2, <1>5 DEF LinkInv, ReadInv, SnapshotInv
<1>9. KnownInv'
  <2>1. ShownRows' = ShownRows
    BY <1>2 DEF ShownRows
  <2>2. ComingRows' = {}
    BY <1>2, <1>5, NoFrame DEF ComingRows, SentRows
  <2> QED BY <2>1, <2>2, <1>1, <1>2, <1>4, KnownKept
<1> QED BY <1>4, <1>6, <1>7, <1>8, <1>9 DEF ViewerInv

\* The frame to read next.
LEMMA NextFrame ==
  ASSUME ViewerInv, source = "open", got < Len(out[link])
  PROVE  /\ link # NoConn /\ link \in Conn /\ got \in Nat /\ got + 1 \in 1 .. Len(out[link])
         /\ out[link] \in Seq(Frame) /\ out[link][got + 1] \in Frame
         /\ WellFramed(out[link])
         /\ \A i \in 1 .. Len(out[link]) : \A p \in out[link][i].rows :
              p \in PromptRow /\ Row(p) \in ComingRows
<1>1. /\ ViewerTypeOK /\ SourceInv /\ FramesInv /\ TypeOK
  BY DEF ViewerInv, StreamInv
<1>2. link # NoConn /\ link \in Conn /\ got \in Nat
  BY <1>1, ViewerAssumption DEF SourceInv, ViewerTypeOK
<1>3. out[link] \in Seq(Frame) /\ WellFramed(out[link])
  BY <1>1, <1>2 DEF TypeOK, FramesInv
<1> DEFINE o == out[link]
<1>4. o \in Seq(Frame) /\ got < Len(o)
  BY <1>3
<1> HIDE DEF o
<1>5. Len(o) \in Nat /\ got + 1 \in 1 .. Len(o) /\ \A i \in 1 .. Len(o) : o[i] \in Frame
  BY <1>2, <1>4
<1>6. ASSUME NEW i \in 1 .. Len(o), NEW p \in o[i].rows
      PROVE  p \in PromptRow /\ Row(p) \in ComingRows
  <2>1. p \in SentRows(link)
    BY <1>6 DEF SentRows, FrameRows, o
  <2>2. p \in PromptRow
    BY <1>5 DEF Frame
  <2> QED BY <2>1, <2>2, <1>2 DEF ComingRows
<1> QED BY <1>2, <1>3, <1>5, <1>6 DEF o

LEMMA SnapshotRead ==
  ASSUME ViewerInv, source = "open", got < Len(out[link]), out[link][got + 1].ev = "snapshot"
  PROVE  LET rows == out[link][1].rows
             l == Reconcile(rows)
         IN  /\ got = 0 /\ rows \in SUBSET PromptRow
             /\ l \in Seq(Shown)
             /\ Ids(l) = Ids(list) \cup {p.id : p \in rows}
             /\ \A i \in 1 .. Len(l) : Row(l[i]) \in ShownRows \cup {Row(p) : p \in rows}
             /\ \A p \in rows : \E i \in 1 .. Len(l) : l[i].id = p.id /\ l[i].seq = p.seq
             /\ \A i, j \in 1 .. Len(l) : i < j => l[i].seq < l[j].seq
<1> DEFINE rows == out[link][1].rows
<1>1. /\ got = 0 /\ 1 \in 1 .. Len(out[link])
  BY NextFrame DEF WellFramed
<1>2. rows \in SUBSET PromptRow /\ {Row(p) : p \in rows} \subseteq ComingRows
  BY <1>1, NextFrame
<1>3. KnownInv /\ ListInOrder /\ list \in Seq(Shown)
  BY DEF ViewerInv, ViewerTypeOK
<1>4. \A a, b \in ShownRows \cup {Row(p) : p \in rows} : a.id = b.id <=> a.seq = b.seq
  BY <1>2, <1>3 DEF KnownInv
<1> HIDE DEF rows
<1>5. LET l == Reconcile(rows)
      IN  /\ l \in Seq(Shown)
          /\ Ids(l) = Ids(list) \cup {p.id : p \in rows}
          /\ \A i \in 1 .. Len(l) : Row(l[i]) \in ShownRows \cup {Row(p) : p \in rows}
          /\ \A p \in rows : \E i \in 1 .. Len(l) : l[i].id = p.id /\ l[i].seq = p.seq
          /\ \A i, j \in 1 .. Len(l) : i < j => l[i].seq < l[j].seq
  BY <1>2, <1>3, <1>4, ReconcileMerges
<1> QED BY <1>1, <1>2, <1>5 DEF rows

\* The prompt read next is one more than a prompt shown, and goes to the end.
LEMMA PromptRead ==
  ASSUME ViewerInv, source = "open", got < Len(out[link]), out[link][got + 1].ev = "prompt",
         NEW p \in out[link][got + 1].rows
  PROVE  /\ got # 0 /\ out[link][got + 1].rows = {p}
         /\ \E j \in 1 .. Len(list) : p.seq = list[j].seq + 1
         /\ LET l == Upsert(p)
            IN  /\ l \in Seq(Shown)
                /\ Len(l) = Len(list) + 1
                /\ \A i \in 1 .. Len(list) : l[i] = list[i]
                /\ l[Len(list) + 1].id = p.id /\ l[Len(list) + 1].seq = p.seq
                /\ Ids(l) = Ids(list) \cup {p.id}
                /\ \A i, j \in 1 .. Len(l) : i < j => l[i].seq < l[j].seq
<1>1. /\ link # NoConn /\ got \in Nat /\ got + 1 \in 1 .. Len(out[link])
      /\ WellFramed(out[link]) /\ p \in PromptRow /\ Row(p) \in ComingRows
      /\ \A i \in 1 .. Len(out[link]) : \A q \in out[link][i].rows : Row(q) \in ComingRows
  BY NextFrame
<1>2. KnownInv /\ ReadInv /\ ListInOrder /\ list \in Seq(Shown)
  BY DEF ViewerInv, ViewerTypeOK
<1>3. /\ got # 0 /\ \E x \in out[link][got + 1].rows : out[link][got + 1].rows = {x}
      /\ got + 1 > 1 => \E j \in 1 .. got + 1 - 1 : \E q \in out[link][j].rows : p.seq = q.seq + 1
  BY <1>1 DEF WellFramed
<1>4. out[link][got + 1].rows = {p}
  BY <1>3
<1>5. PICK j \in 1 .. got : \E q \in out[link][j].rows : p.seq = q.seq + 1
  BY <1>1, <1>3
<1>6. PICK q \in out[link][j].rows : p.seq = q.seq + 1
  BY <1>5
<1>7. j \in 1 .. Len(out[link]) /\ j <= got
  BY <1>1
<1>8. q.id \in Ids(list) /\ Row(q) \in ComingRows
  BY <1>1, <1>2, <1>6, <1>7 DEF ReadInv
<1>9. \E i \in 1 .. Len(list) : p.seq = list[i].seq + 1
  <2>1. PICK i \in 1 .. Len(list) : list[i].id = q.id
    BY <1>8 DEF Ids
  <2>2. Row(list[i]) \in ShownRows
    BY DEF ShownRows
  <2>3. list[i].seq = q.seq
    BY <2>1, <2>2, <1>2, <1>8 DEF KnownInv, Row
  <2> QED BY <2>3, <1>6
<1>10. \A i \in 1 .. Len(list) : list[i].seq < p.seq
  BY <1>1, <1>2, <1>3 DEF ReadInv
<1>11. ASSUME NEW i \in 1 .. Len(list) PROVE list[i].id # p.id
  <2>1. Row(list[i]) \in ShownRows
    BY DEF ShownRows
  <2>2. list[i].id = p.id => list[i].seq = p.seq
    BY <2>1, <1>1, <1>2 DEF KnownInv, Row
  <2>3. list[i].seq < p.seq /\ p.seq \in Nat
    BY <1>1, <1>10 DEF PromptRow
  <2> QED BY <2>2, <2>3
<1>12. LET l == Upsert(p)
       IN  /\ l \in Seq(Shown)
           /\ Len(l) = Len(list) + 1
           /\ \A i \in 1 .. Len(list) : l[i] = list[i]
           /\ l[Len(list) + 1].id = p.id /\ l[Len(list) + 1].seq = p.seq
           /\ Ids(l) = Ids(list) \cup {p.id}
           /\ \A i, k \in 1 .. Len(l) : i < k => l[i].seq < l[k].seq
  BY <1>1, <1>2, <1>10, <1>11, UpsertAppends
<1> QED BY <1>3, <1>4, <1>9, <1>12

LEMMA OnFrameStep ==
  ASSUME ViewerInv, OnFrame
  PROVE  ViewerInv'
<1> DEFINE f == out[link][got + 1]
           n == Len(out[link])
<1>1. /\ StreamInv /\ ViewerTypeOK /\ IndicatorTruthful /\ SourceInv /\ LinkInv /\ FramesInv
      /\ KnownInv /\ ReadInv /\ ListInOrder /\ ExactlyOnceInOrder /\ TypeOK /\ StoreInv
  BY DEF ViewerInv, StreamInv
<1>2. /\ source = "open" /\ got < n
      /\ UNCHANGED <<vars, page, session, retries>>
      /\ \/ /\ f.ev = "snapshot" /\ list' = Reconcile(f.rows) /\ got' = got + 1
            /\ UNCHANGED <<view, source, link>>
         \/ /\ f.ev = "prompt" /\ (\E p \in f.rows : list' = Upsert(p)) /\ got' = got + 1
            /\ UNCHANGED <<view, source, link>>
         \/ /\ f.ev = "close" /\ view' = "archived" /\ source' = "null"
            /\ link' = NoConn /\ got' = 0 /\ UNCHANGED list
  BY DEF OnFrame
<1>3. /\ link # NoConn /\ link \in Conn /\ got \in Nat /\ got + 1 \in 1 .. n
      /\ out[link] \in Seq(Frame) /\ n \in Nat
      /\ \A i \in 1 .. n : \A p \in out[link][i].rows : p \in PromptRow /\ Row(p) \in ComingRows
  BY <1>2, NextFrame
<1>4. /\ StreamInv' /\ FramesInv' /\ NoEmptySession' /\ [StoreNext]_storeVars
  BY <1>2, ServerUntouched
<1>5. out' = out /\ session' = session /\ sid' = sid /\ pc' = pc /\ nextSid' = nextSid
      /\ page' = page /\ retries' = retries
  BY <1>2 DEF vars
\* What the two data frames have in common: the list grows by the rows of the
\* frame, stays in order, and all that is unread is later.
<1>6. ASSUME view' = view, source' = source, link' = link, got' = got + 1,
             list' \in Seq(Shown),
             Ids(list') = Ids(list) \cup {p.id : p \in f.rows},
             \A i \in 1 .. Len(list') : Row(list'[i]) \in ShownRows \cup {Row(p) : p \in f.rows},
             \A i, j \in 1 .. Len(list') : i < j => list'[i].seq < list'[j].seq
      PROVE  ViewerInv'
  <2>1. ViewerTypeOK'
    BY <1>1, <1>3, <1>5, <1>6 DEF ViewerTypeOK
  <2>2. IndicatorTruthful' /\ ListInOrder'
    BY <1>1, <1>5, <1>6 DEF IndicatorTruthful, ListInOrder
  <2>3. SourceInv'
    <3>1. session < nextSid
      BY <1>1, <1>2 DEF SourceInv
    <3> QED BY <3>1, <1>1, <1>2, <1>3, <1>5, <1>6 DEF SourceInv
  <2>4. LinkInv'
    BY <1>1, <1>2, <1>3, <1>5, <1>6 DEF LinkInv
  <2>5. KnownInv'
    <3>1. ComingRows' = ComingRows
      BY <1>5, <1>6 DEF ComingRows, SentRows
    <3>2. {Row(p) : p \in f.rows} \subseteq ComingRows
      BY <1>3
    <3>3. ShownRows' \subseteq ShownRows \cup ComingRows
      BY <3>2, <1>6 DEF ShownRows
    <3>4. (ShownRows \cup ComingRows)' \subseteq ShownRows \cup ComingRows
      BY <3>1, <3>3
    <3> QED BY <3>4, <1>1, <1>4, <1>5, KnownKept
  <2>6. ReadInv'
    <3> SUFFICES ASSUME NEW i \in 1 .. n, NEW p \in out[link][i].rows
                 PROVE  /\ i <= got + 1 => p.id \in Ids(list')
                        /\ i > got + 1 /\ i > 1 => \A j \in 1 .. Len(list') : list'[j].seq < p.seq
      BY <1>5, <1>6 DEF ReadInv
    <3>1. ASSUME i <= got + 1 PROVE p.id \in Ids(list')
      <4>1. CASE i = got + 1
        BY <4>1, <1>6
      <4>2. CASE i <= got
        BY <4>2, <1>1, <1>3, <1>6 DEF ReadInv
      <4> QED BY <3>1, <4>1, <4>2, <1>3
    <3>2. ASSUME i > got + 1, NEW j \in 1 .. Len(list') PROVE list'[j].seq < p.seq
      <4>1. i > got /\ i > 1
        BY <3>2, <1>3
      <4>2. CASE Row(list'[j]) \in ShownRows
        <5>1. PICK m \in 1 .. Len(list) : Row(list'[j]) = Row(list[m])
          BY <4>2 DEF ShownRows
        <5>2. list'[j].seq = list[m].seq
          BY <5>1 DEF Row
        <5> QED BY <5>2, <4>1, <1>1, <1>3 DEF ReadInv
      <4>3. CASE \E q \in f.rows : Row(list'[j]) = Row(q)
        <5>1. PICK q \in f.rows : Row(list'[j]) = Row(q)
          BY <4>3
        <5>2. list'[j].seq = q.seq
          BY <5>1 DEF Row
        <5>3. q.seq < p.seq
          BY <3>2, <1>1, <1>3 DEF ExactlyOnceInOrder, InOrder
        <5> QED BY <5>2, <5>3
      <4> QED BY <4>2, <4>3, <1>6
    <3> QED BY <3>1, <3>2
  <2>7. SnapshotInv'
    BY <1>3, <1>6 DEF SnapshotInv
  <2> QED BY <2>1, <2>2, <2>3, <2>4, <2>5, <2>6, <2>7, <1>4 DEF ViewerInv
<1>7. CASE /\ f.ev = "snapshot" /\ list' = Reconcile(f.rows) /\ got' = got + 1
           /\ UNCHANGED <<view, source, link>>
  <2>1. got = 0
    BY <1>2, <1>7, SnapshotRead
  <2>2. f.rows = out[link][1].rows
    BY <2>1
  <2>3. /\ list' \in Seq(Shown)
        /\ Ids(list') = Ids(list) \cup {p.id : p \in f.rows}
        /\ \A i \in 1 .. Len(list') : Row(list'[i]) \in ShownRows \cup {Row(p) : p \in f.rows}
        /\ \A i, j \in 1 .. Len(list') : i < j => list'[i].seq < list'[j].seq
    BY <2>2, <1>2, <1>7, SnapshotRead
  <2> QED BY <2>3, <1>6, <1>7
<1>8. ASSUME f.ev = "prompt", NEW p \in f.rows, list' = Upsert(p), got' = got + 1,
             UNCHANGED <<view, source, link>>
      PROVE  ViewerInv'
  <2>1. /\ f.rows = {p} /\ list' \in Seq(Shown) /\ Len(list') = Len(list) + 1
        /\ \A i \in 1 .. Len(list) : list'[i] = list[i]
        /\ list'[Len(list) + 1].id = p.id /\ list'[Len(list) + 1].seq = p.seq
        /\ Ids(list') = Ids(list) \cup {p.id}
        /\ \A i, j \in 1 .. Len(list') : i < j => list'[i].seq < list'[j].seq
    BY <1>2, <1>8, PromptRead
  <2>2. Ids(list') = Ids(list) \cup {q.id : q \in f.rows}
    BY <2>1
  <2>3. ASSUME NEW i \in 1 .. Len(list')
        PROVE  Row(list'[i]) \in ShownRows \cup {Row(q) : q \in f.rows}
    <3>1. list \in Seq(Shown) /\ Len(list) \in Nat
      BY <1>1 DEF ViewerTypeOK
    <3>2. CASE i \in 1 .. Len(list)
      BY <3>2, <2>1 DEF ShownRows
    <3>3. CASE i = Len(list) + 1
      BY <3>3, <2>1 DEF Row
    <3> QED BY <3>1, <3>2, <3>3, <2>1
  <2> QED BY <2>1, <2>2, <2>3, <1>6, <1>8
<1>9. CASE /\ view' = "archived" /\ source' = "null" /\ link' = NoConn /\ got' = 0
           /\ UNCHANGED list
  <2>1. ViewerTypeOK'
    BY <1>1, <1>5, <1>9 DEF ViewerTypeOK
  <2>2. IndicatorTruthful'
    BY <1>9 DEF IndicatorTruthful
  <2>3. page = "mounted" /\ session < nextSid
    BY <1>1, <1>2 DEF SourceInv
  <2>4. SourceInv'
    BY <2>3, <1>5, <1>9 DEF SourceInv
  <2> QED BY <2>1, <2>2, <2>4, <1>2, <1>9, UnlinkedStep
<1> QED BY <1>2, <1>7, <1>8, <1>9

----------------------------------------------------------------------------
(* The theorems *)

LEMMA ViewerInitInv == ViewerInit => ViewerInv
<1> SUFFICES ASSUME ViewerInit PROVE ViewerInv
  OBVIOUS
<1> USE DEF ViewerInit
<1>1. StreamInv
  BY StreamInit
<1>2. FramesInv
  BY DEF Init, FramesInv, Attached, WellFramed
<1>3. NoEmptySession
  BY DEF Init, StoreInit, NoEmptySession
<1>4. ViewerTypeOK
  BY StoreAssumption, ViewerAssumption DEF ViewerTypeOK, Sid
<1>5. IndicatorTruthful /\ SourceInv /\ LinkInv /\ ReadInv /\ SnapshotInv
  BY DEF IndicatorTruthful, SourceInv, LinkInv, ReadInv, SnapshotInv
<1>6. ShownRows = {} /\ ComingRows = {}
  BY DEF ShownRows, ComingRows
<1>7. KnownInv
  BY <1>6 DEF KnownInv
<1>8. ListInOrder
  BY DEF ListInOrder
<1> QED BY <1>1, <1>2, <1>3, <1>4, <1>5, <1>7, <1>8 DEF ViewerInv

LEMMA ViewerPreserved ==
  ASSUME ViewerInv, [ViewerNext]_allVars
  PROVE  ViewerInv'
<1>1. CASE ServerStep
  BY <1>1, ServerStepView
<1>2. ASSUME NEW s \in Sid, LoadPage(s) PROVE ViewerInv'
  BY <1>2, LoadPageStep
<1>3. CASE Mount \/ Destroy
  BY <1>3, MountStep, DestroyStep
<1>4. ASSUME NEW c \in TabConn, Connect(c) PROVE ViewerInv'
  BY <1>4, ConnectStep
<1>5. CASE OnOpen
  BY <1>5, OnOpenStep
<1>6. CASE OnRefused
  BY <1>6, OnErrorStep DEF OnRefused
<1>7. CASE OnDisconnect
  BY <1>7, OnErrorStep DEF OnDisconnect
<1>8. CASE OnFrame
  BY <1>8, OnFrameStep
<1>9. CASE UNCHANGED allVars
  <2>1. UNCHANGED vars /\ UNCHANGED viewerVars
    BY <1>9 DEF allVars
  <2>2. /\ session' = session /\ list' = list /\ source' = source /\ link' = link /\ got' = got
        /\ page' = page /\ view' = view /\ retries' = retries /\ out' = out /\ sid' = sid
        /\ pc' = pc /\ nextSid' = nextSid
    BY <2>1 DEF viewerVars, vars
  <2>3. /\ StreamInv' /\ FramesInv' /\ NoEmptySession' /\ [StoreNext]_storeVars
    BY <2>1, ServerUntouched
  <2>4. ShownRows' = ShownRows /\ ComingRows' = ComingRows
    BY <2>2 DEF ShownRows, ComingRows, SentRows
  <2>5. /\ StoreInv /\ KnownInv /\ SourceInv /\ ViewerTypeOK /\ IndicatorTruthful /\ LinkInv
        /\ ReadInv /\ SnapshotInv /\ ListInOrder
    BY DEF ViewerInv, StreamInv
  <2>6. KnownInv'
    BY <2>2, <2>3, <2>4, <2>5, KnownKept
  <2>7. ViewerTypeOK' /\ IndicatorTruthful' /\ ListInOrder'
    BY <2>2, <2>5 DEF ViewerTypeOK, IndicatorTruthful, ListInOrder
  <2>8. SourceInv' /\ LinkInv'
    BY <2>2, <2>5 DEF SourceInv, LinkInv
  <2>9. ReadInv' /\ SnapshotInv'
    BY <2>2, <2>5 DEF ReadInv, SnapshotInv
  <2> QED BY <2>3, <2>6, <2>7, <2>8, <2>9 DEF ViewerInv
<1> QED BY <1>1, <1>2, <1>3, <1>4, <1>5, <1>6, <1>7, <1>8, <1>9 DEF ViewerNext

\* The inductive invariant of the tab and the server together.
THEOREM ViewerInvariant == ViewerSpec => []ViewerInv
<1>1. ViewerInit => ViewerInv
  BY ViewerInitInv
<1>2. ViewerInv /\ [ViewerNext]_allVars => ViewerInv'
  BY ViewerPreserved
<1> QED BY <1>1, <1>2, PTL DEF ViewerSpec

\* Type correctness of the tab.
THEOREM ViewerTypes == ViewerSpec => []ViewerTypeOK
<1>1. ViewerInv => ViewerTypeOK
  BY DEF ViewerInv
<1> QED BY <1>1, ViewerInvariant, PTL

\* Each prompt is shown once and in the order of the session, whatever was
\* reloaded, lost, sent twice or deleted meanwhile (LiveStream.svelte 52-64).
THEOREM ShownInOrder == ViewerSpec => []ListInOrder
<1>1. ViewerInv => ListInOrder
  BY DEF ViewerInv
<1> QED BY <1>1, ViewerInvariant, PTL

\* The indicator says live only over an open source, and no source outlives
\* the island or a final state (LiveStream.svelte 131-213).
THEOREM IndicatorTellsTheTruth == ViewerSpec => []IndicatorTruthful
<1>1. ViewerInv => IndicatorTruthful
  BY DEF ViewerInv
<1> QED BY <1>1, ViewerInvariant, PTL

\* A tab that has read all its attached connection sent shows the recent
\* prompts of the session, and all published since.
THEOREM ReadersCatchUp == ViewerSpec => []CaughtUp
<1>1. ViewerInv => CaughtUp
  <2> SUFFICES ASSUME ViewerInv, source = "open", Serving, link \in Attached,
                      got = Len(out[link]), SessionExists(session)
               PROVE  /\ {p.id : p \in Snapshot(session)} \subseteq Ids(list)
                      /\ {p.id : p \in SentRows(link)} \subseteq Ids(list)
    BY DEF CaughtUp
  <2>1. /\ SourceInv /\ LinkInv /\ ReadInv /\ NoGap /\ TypeOK
    BY DEF ViewerInv, StreamInv
  <2>2. link # NoConn /\ sid[link] = session
    BY <2>1 DEF SourceInv, LinkInv
  <2>3. Len(out[link]) \in Nat
    BY <2>1 DEF TypeOK, Attached
  <2>4. ASSUME NEW p \in SentRows(link) PROVE p.id \in Ids(list)
    <3>1. PICK i \in 1 .. Len(out[link]) : p \in out[link][i].rows
      BY <2>4 DEF SentRows, FrameRows
    <3>2. i <= got
      BY <2>3
    <3> QED BY <3>1, <3>2, <2>1, <2>2 DEF ReadInv
  <2>5. Snapshot(session) \subseteq SentRows(link)
    BY <2>1, <2>2 DEF NoGap, NoGapFor
  <2> QED BY <2>4, <2>5
<1> QED BY <1>1, ViewerInvariant, PTL

\* The merge with a snapshot that is not full leaves no hole.
LEMMA ShortSnapshotHasNoHole ==
  ASSUME NEW l \in Seq(Shown), NEW n \in Nat,
         \A i \in 1 .. Len(l) : l[i].seq \in 1 .. n,
         \A k \in 1 .. n : \E i \in 1 .. Len(l) : l[i].seq = k,
         \A i, j \in 1 .. Len(l) : i < j => l[i].seq < l[j].seq
  PROVE  ~HasHole(l)
<1> SUFFICES ASSUME NEW i \in 1 .. Len(l) - 1, l[i + 1].seq > l[i].seq + 1
             PROVE  FALSE
  BY DEF HasHole
<1>1. i \in 1 .. Len(l) /\ i + 1 \in 1 .. Len(l) /\ Len(l) \in Nat
  OBVIOUS
<1>2. l[i].seq \in 1 .. n /\ l[i + 1].seq \in 1 .. n
  BY <1>1
<1>3. l[i].seq + 1 \in 1 .. n
  BY <1>2
<1>4. PICK j \in 1 .. Len(l) : l[j].seq = l[i].seq + 1
  BY <1>3
<1>5. ~(j <= i)
  <2> SUFFICES ASSUME j <= i PROVE FALSE
    OBVIOUS
  <2>1. CASE j = i
    BY <2>1, <1>2, <1>4
  <2>2. CASE j < i
    <3>1. l[j].seq < l[i].seq
      BY <2>2, <1>1
    <3> QED BY <3>1, <1>2, <1>4
  <2> QED BY <2>1, <2>2, <1>1
<1>6. ~(j >= i + 1)
  <2> SUFFICES ASSUME j >= i + 1 PROVE FALSE
    OBVIOUS
  <2>1. CASE j = i + 1
    BY <2>1, <1>2, <1>4
  <2>2. CASE j > i + 1
    <3>1. l[i + 1].seq < l[j].seq
      BY <2>2, <1>1
    <3> QED BY <3>1, <1>2, <1>4
  <2> QED BY <2>1, <2>2, <1>1
<1> QED BY <1>1, <1>5, <1>6

\* A prompt one above one that is shown, and above all of them, leaves no hole.
LEMMA NextPromptHasNoHole ==
  ASSUME list \in Seq(Shown), ListInOrder, ~HasHole(list), NEW l, NEW p,
         Len(l) = Len(list) + 1, \A i \in 1 .. Len(list) : l[i] = list[i],
         l[Len(list) + 1].seq = p.seq,
         \E j \in 1 .. Len(list) : p.seq = list[j].seq + 1
  PROVE  ~HasHole(l)
<1> DEFINE n == Len(list)
<1>1. n \in Nat /\ \A i \in 1 .. n : list[i].seq \in Nat
  <2>1. n \in Nat /\ \A i \in 1 .. n : list[i] \in Shown
    OBVIOUS
  <2> QED BY <2>1 DEF Shown
<1>2. PICK j \in 1 .. n : p.seq = list[j].seq + 1
  OBVIOUS
<1>3. \A i, k \in 1 .. n : i < k => list[i].seq < list[k].seq
  BY DEF ListInOrder
<1>4. \A i \in 1 .. n - 1 : ~(list[i + 1].seq > list[i].seq + 1)
  BY DEF HasHole
<1>5. Len(l) = n + 1 /\ (\A i \in 1 .. n : l[i] = list[i]) /\ l[n + 1].seq = p.seq
  OBVIOUS
<1> HIDE DEF n
<1>6. ASSUME NEW i \in 1 .. Len(l) - 1 PROVE ~(l[i + 1].seq > l[i].seq + 1)
  <2>1. i \in 1 .. n
    BY <1>1, <1>5, <1>6
  <2>2. CASE i = n
    <3>1. j = n \/ list[j].seq < list[n].seq
      BY <1>1, <1>3, <2>1, <2>2
    <3>2. l[i + 1].seq = list[j].seq + 1 /\ l[i].seq = list[n].seq
      BY <1>2, <1>5, <2>1, <2>2
    <3>3. list[j].seq \in Nat /\ list[n].seq \in Nat
      BY <1>1, <2>1, <2>2
    <3> QED BY <3>1, <3>2, <3>3
  <2>3. CASE i # n
    <3>1. i \in 1 .. n - 1 /\ i + 1 \in 1 .. n
      BY <1>1, <2>1, <2>3
    <3> QED BY <3>1, <2>1, <1>4, <1>5
  <2> QED BY <2>2, <2>3
<1> QED BY <1>6 DEF HasHole

\* A mounted tab never forgets a prompt, and only a full snapshot, read first on
\* a new connection, can open a hole in the list (LiveStream.svelte 78-98).
THEOREM OnlyLateSnapshotsOpenHoles == ViewerSpec => GrowsWithoutHoles
<1> DEFINE Grows == page = "mounted" =>
                      /\ Ids(list) \subseteq Ids(list')
                      /\ ~HasHole(list) /\ HasHole(list') =>
                           /\ got = 0
                           /\ Cardinality(out[link][1].rows) = SnapshotLimit
<1>1. ASSUME ViewerInv, ViewerNext, page = "mounted" PROVE Grows
  <2>1. ViewerTypeOK /\ SourceInv /\ SnapshotInv /\ ListInOrder
    BY <1>1 DEF ViewerInv
  <2>2. CASE list' = list
    BY <2>2
  <2>3. list' = list \/ OnFrame
    BY <1>1
       DEF ViewerNext, ServerStep, viewerVars, LoadPage, Mount, Destroy, Connect, OnOpen,
           OnRefused, OnDisconnect, OnError
  <2>4. ASSUME OnFrame, list' # list PROVE Grows
    <3> DEFINE f == out[link][got + 1]
    <3>1. /\ source = "open" /\ got < Len(out[link]) /\ link # NoConn
          /\ \/ f.ev = "snapshot" /\ list' = Reconcile(f.rows)
             \/ f.ev = "prompt" /\ \E p \in f.rows : list' = Upsert(p)
      BY <2>1, <2>4 DEF OnFrame, SourceInv
    <3>2. CASE f.ev = "snapshot" /\ list' = Reconcile(f.rows)
      <4> DEFINE rows == out[link][1].rows
      <4>1. got = 0
        BY <1>1, <3>1, <3>2, SnapshotRead
      <4>2. f.rows = rows
        BY <4>1
      <4>3. /\ list' \in Seq(Shown)
            /\ Ids(list') = Ids(list) \cup {p.id : p \in rows}
            /\ \A i \in 1 .. Len(list') : Row(list'[i]) \in ShownRows \cup {Row(p) : p \in rows}
            /\ \A p \in rows : \E i \in 1 .. Len(list') : list'[i].id = p.id /\ list'[i].seq = p.seq
            /\ \A i, j \in 1 .. Len(list') : i < j => list'[i].seq < list'[j].seq
            /\ rows \in SUBSET PromptRow
        BY <1>1, <3>1, <3>2, <4>2, SnapshotRead
      <4>4. ASSUME Cardinality(rows) # SnapshotLimit PROVE ~HasHole(list')
        <5>1. out[link] # <<>>
          BY <3>1, <4>1
        <5>2. PICK n \in Nat : {p.seq : p \in rows} = 1 .. n
          BY <2>1, <3>1, <4>1, <4>4, <5>1 DEF SnapshotInv
        <5>3. Ids(list) \subseteq {p.id : p \in rows}
          BY <2>1, <3>1, <4>1, <4>4, <5>1 DEF SnapshotInv
        <5>4. ASSUME NEW i \in 1 .. Len(list') PROVE list'[i].seq \in 1 .. n
          <6>1. list'[i].id \in Ids(list')
            BY DEF Ids
          <6>2. PICK p \in rows : p.id = list'[i].id
            BY <6>1, <5>3, <4>3
          <6>3. PICK j \in 1 .. Len(list') : list'[j].id = p.id /\ list'[j].seq = p.seq
            BY <4>3
          <6>4. list'[i].seq = list'[j].seq
            <7>1. Row(list'[i]) \in ShownRows' /\ Row(list'[j]) \in ShownRows'
              BY DEF ShownRows
            <7>2. KnownInv'
              BY <1>1, ViewerPreserved DEF ViewerInv
            <7> QED BY <7>1, <7>2, <6>2, <6>3 DEF KnownInv, Row
          <6> QED BY <6>3, <6>4, <5>2
        <5>5. ASSUME NEW k \in 1 .. n PROVE \E i \in 1 .. Len(list') : list'[i].seq = k
          <6>1. PICK p \in rows : p.seq = k
            BY <5>2
          <6> QED BY <6>1, <4>3
        <5> QED BY <5>4, <5>5, <4>3, ShortSnapshotHasNoHole
      <4> QED BY <4>1, <4>3, <4>4
    <3>3. ASSUME f.ev = "prompt", NEW p \in f.rows, list' = Upsert(p) PROVE Grows
      <4>1. /\ \E j \in 1 .. Len(list) : p.seq = list[j].seq + 1
            /\ Len(list') = Len(list) + 1
            /\ \A i \in 1 .. Len(list) : list'[i] = list[i]
            /\ list'[Len(list) + 1].seq = p.seq
            /\ Ids(list') = Ids(list) \cup {p.id}
        BY <1>1, <3>1, <3>3, PromptRead
      <4>2. ~HasHole(list) => ~HasHole(list')
        BY <4>1, <2>1, NextPromptHasNoHole DEF ViewerTypeOK
      <4> QED BY <4>1, <4>2
    <3> QED BY <3>1, <3>2, <3>3
  <2> QED BY <2>2, <2>3, <2>4
<1>2. ViewerInv /\ [ViewerNext]_allVars => [Grows]_allVars
  BY <1>1
<1> QED BY <1>2, ViewerInvariant, PTL DEF ViewerSpec, GrowsWithoutHoles
============================================================================
