------------------------- MODULE PromptStreamProofs -------------------------
(***************************************************************************)
(* The safety of the live feed, for every number of clients, sessions and   *)
(* prompts, every cap and every snapshot length.                            *)
(*                                                                          *)
(* StreamInv adds to the properties of PromptStream what makes them         *)
(* inductive: the tables are well numbered (StoreInv), and an attached      *)
(* stream has been sent, and remembers in seenIds, only prompts whose ULIDs *)
(* are spent, of a session whose ULID is spent.  A broadcast prompt is then *)
(* new to every listener, and later than all it was sent.                   *)
(*                                                                          *)
(* The last part shows that the server implements the abstract feed: its    *)
(* initial states are those of LiveFeed and each of its steps is one of     *)
(* LiveFeed or none.  What the steps need is in StreamInv.                  *)
(***************************************************************************)
EXTENDS PromptStreamRefinement, PromptStoreProofs

SpentIds ==
  \A c \in Attached :
    /\ sid[c] < nextSid
    /\ \A i \in seen[c] : i < nextPid
    /\ \A p \in SentRows(c) : p.id < nextPid

StreamInv ==
  /\ TypeOK
  /\ StoreInv
  /\ CountedAndCapped
  /\ NoLeak
  /\ ExactlyOnceInOrder
  /\ SpentIds
  /\ NoGap

----------------------------------------------------------------------------
(* Frames *)

\* One more frame: its rows are added, and the order is kept if they are later
\* than all before.
LEMMA AppendFrame ==
  ASSUME NEW frames \in Seq(Frame), NEW f \in Frame
  PROVE  /\ Append(frames, f) \in Seq(Frame)
         /\ FrameRows(Append(frames, f)) = FrameRows(frames) \cup f.rows
         /\ InOrder(frames) /\ (\A p \in FrameRows(frames), q \in f.rows :
                                  p.id # q.id /\ p.seq < q.seq)
              => InOrder(Append(frames, f))
<1> DEFINE g == Append(frames, f)
           n == Len(frames)
<1>1. /\ n \in Nat /\ g \in Seq(Frame) /\ Len(g) = n + 1
      /\ g[n + 1] = f /\ \A i \in 1 .. n : g[i] = frames[i]
  OBVIOUS
<1>2. 1 .. n + 1 = (1 .. n) \cup {n + 1}
  BY <1>1
<1> HIDE DEF g, n
<1>3. FrameRows(g) = FrameRows(frames) \cup f.rows
  BY <1>1, <1>2 DEF FrameRows, n
<1>4. ASSUME InOrder(frames),
             \A p \in FrameRows(frames), q \in f.rows : p.id # q.id /\ p.seq < q.seq
      PROVE  InOrder(g)
  <2> SUFFICES ASSUME NEW i \in 1 .. n + 1, NEW j \in 1 .. n + 1, i < j,
                      NEW p \in g[i].rows, NEW q \in g[j].rows
               PROVE  p.id # q.id /\ p.seq < q.seq
    BY <1>1 DEF InOrder
  <2>1. i \in 1 .. n /\ g[i] = frames[i]
    BY <1>1
  <2>2. CASE j = n + 1
    <3>1. q \in f.rows
      BY <2>2, <1>1
    <3>2. p \in FrameRows(frames)
      BY <2>1 DEF FrameRows, n
    <3> QED BY <3>1, <3>2, <1>4
  <2>3. CASE j \in 1 .. n
    BY <2>1, <2>3, <1>1, <1>4 DEF InOrder, n
  <2> QED BY <2>2, <2>3, <1>2
<1> QED BY <1>1, <1>3, <1>4 DEF g

\* A stream of one frame.
LEMMA OneFrame ==
  ASSUME NEW f \in Frame
  PROVE  /\ <<f>> \in Seq(Frame)
         /\ FrameRows(<<f>>) = f.rows
         /\ InOrder(<<f>>)
<1>1. /\ <<f>> \in Seq(Frame) /\ Len(<<f>>) = 1 /\ <<f>>[1] = f
  OBVIOUS
<1>2. FrameRows(<<f>>) = f.rows
  BY <1>1 DEF FrameRows
<1>3. InOrder(<<f>>)
  BY <1>1 DEF InOrder
<1> QED BY <1>1, <1>2, <1>3

LEMMA NoFrame ==
  /\ <<>> \in Seq(Frame)
  /\ FrameRows(<<>>) = {}
  /\ InOrder(<<>>)
  BY DEF FrameRows, InOrder

----------------------------------------------------------------------------

LEMMA StreamInit == Init => StreamInv
<1> SUFFICES ASSUME Init PROVE StreamInv
  OBVIOUS
<1> USE DEF Init, MemoryInit
<1>1. StoreInv
  BY StoreInitInv
<1>2. Attached = {}
  BY DEF Attached
<1>3. TypeOK
  <2>1. StoreTypeOK
    BY <1>1 DEF StoreInv
  <2>2. 1 \in Sid
    BY StoreAssumption DEF Sid
  <2>3. out \in [Conn -> Seq(Frame)]
    BY NoFrame
  <2> QED BY <2>1, <2>2, <2>3 DEF TypeOK
<1>4. CountedAndCapped
  BY <1>2, FS_EmptySet, StreamAssumption DEF CountedAndCapped
<1>5. NoLeak
  BY <1>2 DEF NoLeak
<1>6. ExactlyOnceInOrder
  BY NoFrame DEF ExactlyOnceInOrder
<1>7. SpentIds /\ NoGap
  BY <1>2 DEF SpentIds, NoGap
<1> QED BY <1>1, <1>3, <1>4, <1>5, <1>6, <1>7 DEF StreamInv

LEMMA AttachedFinite == IsFiniteSet(Attached)
  BY StreamAssumption, FS_Subset DEF Attached

\* A step that leaves the tables alone, and what the streams that stay attached
\* were sent, keeps what is said of tables and frames.
LEMMA FramesUntouched ==
  ASSUME StreamInv, UNCHANGED storeVars, Serving' => Serving,
         \A d \in Attached' : /\ d \in Attached
                              /\ sid'[d] = sid[d] /\ seen'[d] = seen[d] /\ out'[d] = out[d]
  PROVE  StoreInv' /\ SpentIds' /\ NoGap'
<1>1. StoreInv'
  BY StutterPreservesStore DEF StreamInv
<1>3. \A d \in Attached' : SentRows(d)' = SentRows(d)
  BY DEF SentRows
<1>4. SpentIds'
  BY <1>3 DEF StreamInv, SpentIds, storeVars
<1>5. \A s : PromptsOf(s)' = PromptsOf(s) /\ SessionExists(s)' = SessionExists(s)
  BY DEF PromptsOf, SessionExists, storeVars
<1>6. \A s : Snapshot(s)' = Snapshot(s)
  BY <1>5 DEF Snapshot
<1>7. ASSUME NEW d \in Attached', Serving' PROVE NoGapFor(d)'
  <2>1. NoGapFor(d)
    BY <1>7 DEF StreamInv, NoGap
  <2>2. sid'[d] = sid[d] /\ SentRows(d)' = SentRows(d)
    BY <1>3
  <2> QED BY <2>1, <2>2, <1>5, <1>6 DEF NoGapFor
<1> QED BY <1>1, <1>4, <1>7 DEF NoGap

----------------------------------------------------------------------------
(* The steps of a stream request *)

LEMMA RequestStep ==
  ASSUME StreamInv, NEW c \in Conn, NEW s \in Sid, Request(c, s)
  PROVE  StreamInv'
<1> USE DEF Request, memoryVars
<1>1. TypeOK /\ CountedAndCapped /\ NoLeak /\ ExactlyOnceInOrder
  BY DEF StreamInv
<1>2. c \notin Attached /\ Attached' = Attached
  BY <1>1 DEF Attached, TypeOK
<1>3. TypeOK'
  BY <1>1, NoFrame DEF TypeOK, StoreTypeOK, storeVars
<1>4. CountedAndCapped'
  BY <1>1, <1>2 DEF CountedAndCapped
<1>5. NoLeak'
  <2>1. \A t \in Sid : {d \in Attached' : sid'[d] = t} = {d \in Attached : sid[d] = t}
    BY <1>1, <1>2 DEF Attached, TypeOK
  <2> QED BY <2>1, <1>1 DEF NoLeak, TypeOK
<1>6. ExactlyOnceInOrder'
  BY <1>1, NoFrame DEF ExactlyOnceInOrder, TypeOK
<1>7. \A d \in Attached' : /\ d \in Attached
                           /\ sid'[d] = sid[d] /\ seen'[d] = seen[d] /\ out'[d] = out[d]
  BY <1>1, <1>2 DEF Attached, TypeOK
<1>8. StoreInv' /\ SpentIds' /\ NoGap'
  BY <1>7, FramesUntouched DEF Serving
<1> QED BY <1>3, <1>4, <1>5, <1>6, <1>8 DEF StreamInv

LEMMA RespondStep ==
  ASSUME StreamInv, NEW c \in Conn, NEW status \in {401, 403, 503}, Respond(c, status)
  PROVE  StreamInv'
<1> USE DEF Respond, memoryVars
<1>1. TypeOK /\ CountedAndCapped /\ NoLeak /\ ExactlyOnceInOrder
  BY DEF StreamInv
<1>2. c \notin Attached /\ Attached' = Attached
  BY <1>1 DEF Attached, TypeOK
<1>3. TypeOK'
  BY <1>1 DEF TypeOK, StoreTypeOK, storeVars
<1>4. CountedAndCapped'
  BY <1>1, <1>2 DEF CountedAndCapped
<1>5. NoLeak'
  BY <1>1, <1>2 DEF NoLeak, TypeOK
<1>6. ExactlyOnceInOrder'
  BY <1>1 DEF ExactlyOnceInOrder
<1>7. StoreInv' /\ SpentIds' /\ NoGap'
  BY <1>2, FramesUntouched DEF Serving
<1> QED BY <1>3, <1>4, <1>5, <1>6, <1>7 DEF StreamInv

\* The snapshot is taken from the tables as they are: it is in order and
\* leaves no gap.
LEMMA SubscribeStep ==
  ASSUME StreamInv, NEW c \in Conn, Subscribe(c)
  PROVE  StreamInv'
<1> USE DEF Subscribe
<1> DEFINE f == [ev |-> "snapshot", rows |-> Snapshot(sid[c])]
<1>1. /\ TypeOK /\ StoreInv /\ CountedAndCapped /\ NoLeak /\ ExactlyOnceInOrder
      /\ SpentIds /\ NoGap
  BY DEF StreamInv
<1>2. c \notin Attached /\ Attached' = Attached \cup {c}
  BY <1>1 DEF Attached, TypeOK
<1>3. Snapshot(sid[c]) \subseteq PromptsOf(sid[c]) /\ PromptsOf(sid[c]) \subseteq prompts
  BY DEF Snapshot, PromptsOf
<1>4. f \in Frame /\ sid[c] \in Sid
  BY <1>1, <1>3 DEF Frame, TypeOK, StoreTypeOK
<1>5. /\ <<f>> \in Seq(Frame) /\ FrameRows(<<f>>) = Snapshot(sid[c]) /\ InOrder(<<f>>)
  BY <1>4, OneFrame
<1>6. out' = [out EXCEPT ![c] = <<f>>]
  OBVIOUS
<1>7. {p.id : p \in Snapshot(sid[c])} \in SUBSET Pid
  BY <1>1, <1>3 DEF TypeOK, StoreTypeOK, PromptRow
<1>8. TypeOK'
  <2>1. out' \in [Conn -> Seq(Frame)]
    BY <1>1, <1>5, <1>6 DEF TypeOK
  <2> HIDE DEF f
  <2>2. seen' \in [Conn -> SUBSET Pid]
    BY <1>1, <1>7 DEF TypeOK
  <2> QED BY <2>1, <2>2, <1>1, <1>4 DEF TypeOK, StoreTypeOK, storeVars
<1>9. CountedAndCapped'
  <2>1. Cardinality(Attached') = Cardinality(Attached) + 1
    BY <1>2, AttachedFinite, FS_AddElement
  <2> QED BY <2>1, <1>1, StreamAssumption DEF CountedAndCapped, BelowCap, TypeOK
<1>10. NoLeak'
  <2>0. /\ listeners \in [Sid -> SUBSET Conn]
        /\ listeners' = [listeners EXCEPT ![sid[c]] = @ \cup {c}]
    BY <1>1 DEF TypeOK
  <2>1. \A t \in Sid : listeners'[t] = IF t = sid[c] THEN listeners[t] \cup {c} ELSE listeners[t]
    <3> HIDE DEF Subscribe
    <3> QED BY <2>0
  <2>2. \A t \in Sid : listeners'[t] = {d \in Attached' : sid'[d] = t}
    BY <2>1, <1>1, <1>2 DEF NoLeak
  <2>3. \A t \in Sid : listeners'[t] # {} => t \in emitters'
    BY <2>1, <1>1 DEF NoLeak
  <2>4. /\ heartbeats' = {d \in Conn : pc'[d] \in {"parked", "leaving"}}
        /\ registry' = {d \in Conn : pc'[d] = "parked"}
    BY <1>1 DEF NoLeak, TypeOK
  <2> QED BY <2>2, <2>3, <2>4 DEF NoLeak
<1>11. ExactlyOnceInOrder'
  BY <1>1, <1>5, <1>6 DEF ExactlyOnceInOrder, TypeOK
<1>12. /\ SentRows(c)' = Snapshot(sid[c])
       /\ \A d \in Attached : d # c /\ SentRows(d)' = SentRows(d) /\ seen'[d] = seen[d]
  BY <1>1, <1>2, <1>5, <1>6 DEF SentRows, TypeOK, Attached
<1>13. UNCHANGED storeVars /\ StoreInv'
  BY <1>1, StutterPreservesStore DEF storeVars
<1>14. SpentIds'
  <2>1. sid[c] < nextSid
    BY <1>1 DEF SessionExists, StoreInv
  <2>2. \A p \in Snapshot(sid[c]) : p.id < nextPid
    BY <1>1, <1>3 DEF StoreInv
  <2>3. seen'[c] = {p.id : p \in Snapshot(sid[c])}
    BY <1>1 DEF TypeOK
  <2>4. nextSid' = nextSid /\ nextPid' = nextPid /\ sid' = sid
    BY <1>13 DEF storeVars
  <2>5. \A i \in seen'[c] : i < nextPid
    BY <2>2, <2>3
  <2>6. \A d \in Attached : /\ sid[d] < nextSid
                            /\ \A i \in seen'[d] : i < nextPid
                            /\ \A p \in SentRows(d)' : p.id < nextPid
    BY <1>1, <1>12 DEF SpentIds
  <2> HIDE DEF Subscribe
  <2>7. \A p \in SentRows(c)' : p.id < nextPid
    BY <2>2, <1>12
  <2> QED BY <2>1, <2>4, <2>5, <2>6, <2>7, <1>2 DEF SpentIds
<1>15. \A s : /\ PromptsOf(s)' = PromptsOf(s) /\ SessionExists(s)' = SessionExists(s)
              /\ Snapshot(s)' = Snapshot(s)
  BY <1>13 DEF PromptsOf, SessionExists, Snapshot, storeVars
<1>16. NoGapFor(c)'
  <2>1. \A p \in Snapshot(sid[c]) : p.sid = sid[c]
    BY <1>3 DEF PromptsOf
  <2>2. ASSUME NEW p \in Snapshot(sid[c]), NEW q \in PromptsOf(sid[c]), q.seq > p.seq
        PROVE  q \in Snapshot(sid[c])
    <3> DEFINE After(r) == {x \in PromptsOf(sid[c]) : x.seq > r.seq}
    <3>1. p \in PromptsOf(sid[c]) /\ Cardinality(After(p)) < SnapshotLimit
      BY DEF Snapshot
    <3>2. \A x \in PromptsOf(sid[c]) : x.seq \in Nat
      BY <1>1, <1>3 DEF TypeOK, StoreTypeOK, PromptRow
    <3>3. After(q) \in SUBSET After(p)
      BY <2>2, <3>1, <3>2
    <3>4. IsFiniteSet(After(p))
      BY <1>1, <1>3, FS_Subset DEF StoreInv
    <3>5. IsFiniteSet(After(q)) /\ Cardinality(After(q)) <= Cardinality(After(p))
      BY <3>3, <3>4, FS_Subset
    <3>6. Cardinality(After(q)) \in Nat /\ Cardinality(After(p)) \in Nat
      BY <3>4, <3>5, FS_CardinalityType
    <3>7. Cardinality(After(q)) < SnapshotLimit
      BY <3>1, <3>5, <3>6, StreamAssumption
    <3> QED BY <3>7 DEF Snapshot
  <2> QED BY <2>1, <2>2, <1>3, <1>12, <1>15 DEF NoGapFor
<1>17. NoGap'
  <2>1. ASSUME NEW d \in Attached PROVE NoGapFor(d)'
    <3>1. NoGapFor(d) /\ sid'[d] = sid[d]
      BY <1>1 DEF NoGap
    <3> QED BY <3>1, <1>12, <1>15 DEF NoGapFor
  <2> QED BY <2>1, <1>2, <1>16 DEF NoGap
<1> QED BY <1>8, <1>9, <1>10, <1>11, <1>13, <1>14, <1>17 DEF StreamInv

\* The place of a handler that parks, is aborted or shut down changes only the
\* registry and the heartbeats.
LEMMA ParkStep ==
  ASSUME StreamInv, NEW c \in Conn, Park(c)
  PROVE  StreamInv'
<1> USE DEF Park
<1>1. TypeOK /\ CountedAndCapped /\ NoLeak /\ ExactlyOnceInOrder
  BY DEF StreamInv
<1>2. Attached' = Attached
  BY <1>1 DEF Attached, TypeOK
<1>3. TypeOK'
  <2>0. pc' \in {[pc EXCEPT ![c] = "parked"], [pc EXCEPT ![c] = "leaving"]}
    OBVIOUS
  <2>1. pc' \in [Conn -> {"idle", "requested", "snapshot", "parked", "leaving"}]
    <3>1. pc \in [Conn -> {"idle", "requested", "snapshot", "parked", "leaving"}]
      BY <1>1 DEF TypeOK
    <3> HIDE DEF Park
    <3> QED BY <3>1, <2>0
  <2>2. registry' \subseteq Conn /\ heartbeats' \subseteq Conn
    BY <1>1 DEF TypeOK
  <2>3. aborted' \in [Conn -> BOOLEAN]
    BY <1>1 DEF TypeOK
  <2> QED BY <2>1, <2>2, <2>3, <1>1 DEF TypeOK, StoreTypeOK, storeVars
<1>4. CountedAndCapped'
  BY <1>1, <1>2 DEF CountedAndCapped
<1>5. NoLeak'
  <2>1. heartbeats' = {d \in Conn : pc'[d] \in {"parked", "leaving"}}
    BY <1>1 DEF NoLeak, TypeOK
  <2>2. registry' = {d \in Conn : pc'[d] = "parked"}
    BY <1>1 DEF NoLeak, TypeOK
  <2> QED BY <2>1, <2>2, <1>1, <1>2 DEF NoLeak
<1>6. ExactlyOnceInOrder'
  BY <1>1 DEF ExactlyOnceInOrder
<1>7. StoreInv' /\ SpentIds' /\ NoGap'
  BY <1>2, FramesUntouched DEF Serving
<1> QED BY <1>3, <1>4, <1>5, <1>6, <1>7 DEF StreamInv

LEMMA AbortStep ==
  ASSUME StreamInv, NEW c \in Conn, Abort(c)
  PROVE  StreamInv'
<1> USE DEF Abort
<1>1. TypeOK /\ CountedAndCapped /\ NoLeak /\ ExactlyOnceInOrder
  BY DEF StreamInv
<1>2. Attached' = Attached
  BY <1>1 DEF Attached, TypeOK
<1>3. TypeOK'
  <2>0. pc' \in {pc, [pc EXCEPT ![c] = "leaving"]}
    OBVIOUS
  <2>1. pc' \in [Conn -> {"idle", "requested", "snapshot", "parked", "leaving"}]
    <3>1. pc \in [Conn -> {"idle", "requested", "snapshot", "parked", "leaving"}]
      BY <1>1 DEF TypeOK
    <3> HIDE DEF Abort
    <3> QED BY <3>1, <2>0
  <2>2. registry' \subseteq Conn /\ heartbeats' \subseteq Conn
    BY <1>1 DEF TypeOK
  <2>3. aborted' \in [Conn -> BOOLEAN]
    BY <1>1 DEF TypeOK
  <2> QED BY <2>1, <2>2, <2>3, <1>1 DEF TypeOK, StoreTypeOK, storeVars
<1>4. CountedAndCapped'
  BY <1>1, <1>2 DEF CountedAndCapped
<1>5. NoLeak'
  <2>1. heartbeats' = {d \in Conn : pc'[d] \in {"parked", "leaving"}}
    BY <1>1 DEF NoLeak, TypeOK
  <2>2. registry' = {d \in Conn : pc'[d] = "parked"}
    BY <1>1 DEF NoLeak, TypeOK
  <2> QED BY <2>1, <2>2, <1>1, <1>2 DEF NoLeak
<1>6. ExactlyOnceInOrder'
  BY <1>1 DEF ExactlyOnceInOrder
<1>7. StoreInv' /\ SpentIds' /\ NoGap'
  BY <1>2, FramesUntouched DEF Serving
<1> QED BY <1>3, <1>4, <1>5, <1>6, <1>7 DEF StreamInv

LEMMA TeardownStep ==
  ASSUME StreamInv, NEW c \in Conn, Teardown(c)
  PROVE  StreamInv'
<1> USE DEF Teardown
<1>1. TypeOK /\ CountedAndCapped /\ NoLeak /\ ExactlyOnceInOrder
  BY DEF StreamInv
<1>2. c \in Attached /\ Attached' = Attached \ {c}
  BY <1>1 DEF Attached, TypeOK
<1>3. /\ active \in Nat /\ sid[c] \in Sid
      /\ listeners \in [Sid -> SUBSET Conn]
      /\ listeners' = [listeners EXCEPT ![sid[c]] = @ \ {c}]
  BY <1>1 DEF TypeOK
<1>4. TypeOK'
  <2>1. active' \in Nat
    BY <1>3
  <2> QED BY <2>1, <1>1 DEF TypeOK, StoreTypeOK, storeVars
<1>5. CountedAndCapped'
  <2>1. /\ IsFiniteSet(Attached) /\ Cardinality(Attached) \in Nat
        /\ Cardinality(Attached') = Cardinality(Attached) - 1
        /\ Cardinality(Attached) # 0
    BY <1>2, AttachedFinite, FS_RemoveElement, FS_CardinalityType, FS_EmptySet
  <2> QED BY <2>1, <1>1, StreamAssumption DEF CountedAndCapped
<1>6. NoLeak'
  <2>1. \A t \in Sid : listeners'[t] = IF t = sid[c] THEN listeners[t] \ {c} ELSE listeners[t]
    <3> HIDE DEF Teardown
    <3> QED BY <1>3
  <2>2. \A t \in Sid : listeners'[t] = {d \in Attached' : sid'[d] = t}
    BY <2>1, <1>1, <1>2 DEF NoLeak
  <2>3. \A t \in Sid : listeners'[t] # {} => t \in emitters'
    BY <2>1, <1>1 DEF NoLeak
  <2>4. heartbeats' = {d \in Conn : pc'[d] \in {"parked", "leaving"}}
    BY <1>1 DEF NoLeak, TypeOK
  <2>5. registry' = {d \in Conn : pc'[d] = "parked"}
    BY <1>1 DEF NoLeak, TypeOK
  <2> QED BY <2>2, <2>3, <2>4, <2>5 DEF NoLeak
<1>7. ExactlyOnceInOrder'
  BY <1>1 DEF ExactlyOnceInOrder
<1>8. StoreInv' /\ SpentIds' /\ NoGap'
  BY <1>2, FramesUntouched DEF Serving
<1> QED BY <1>4, <1>5, <1>6, <1>7, <1>8 DEF StreamInv

----------------------------------------------------------------------------
(* Writers *)

\* A broadcast prompt is new to every listener and later than all it was sent,
\* and the listeners of its session are all who should have it.
LEMMA IngestStep ==
  ASSUME StreamInv, NEW k \in Claude, Ingest(k)
  PROVE  StreamInv'
<1> DEFINE n == NewPrompt(k)
           f == [ev |-> "prompt", rows |-> {n}]
           to == listeners[n.sid]
<1>1. /\ TypeOK /\ StoreInv /\ CountedAndCapped /\ NoLeak /\ ExactlyOnceInOrder
      /\ SpentIds /\ NoGap
  BY DEF StreamInv
<1>2. /\ Serving /\ IngestTx(k)
      /\ emitters' = emitters \cup {n.sid}
      /\ Broadcast(n)
      /\ UNCHANGED <<phase, listeners, active, registry, heartbeats, pc, sid, aborted, reply>>
  BY DEF Ingest
<1>3. StoreInv'
  BY <1>1, <1>2, IngestPreservesStore
<1>4. /\ n \in PromptRow /\ n.id = nextPid /\ n.sid = TargetSession(k).id
      /\ n \notin prompts
      /\ \A p \in PromptsOf(n.sid) : p.seq < n.seq
  BY <1>1, <1>2, NewPromptFacts
<1>5. /\ n.sid \in Sid /\ n.id \in Pid
      /\ prompts' = prompts \cup {n} /\ nextPid' = nextPid + 1
      /\ nextPid \in Nat /\ nextSid \in Nat /\ nextSid' >= nextSid
      /\ sessions' = sessions \cup {TargetSession(k)}
  BY <1>1, <1>2, <1>4, StoreAssumption DEF PromptRow, IngestTx, StoreInv, StoreTypeOK
<1>6. TargetSession(k) \notin sessions => n.sid = nextSid
  BY <1>1, <1>2, <1>4, TargetSessionFacts DEF IngestTx
<1>7. Attached' = Attached /\ Serving'
  BY <1>2 DEF Attached, Serving
<1>8. to = {d \in Attached : sid[d] = n.sid} /\ to \subseteq Conn
  BY <1>1, <1>5 DEF NoLeak, Attached
<1>9. f \in Frame
  BY <1>4 DEF Frame
<1>10. \A d \in Attached : n.id \notin seen[d]
  BY <1>1, <1>4, <1>5 DEF SpentIds
<1> HIDE DEF n, f, to
<1>11. /\ out' = [d \in Conn |-> IF d \in to THEN Deliver(d, n) ELSE out[d]]
       /\ seen' = [d \in Conn |-> IF d \in to THEN seen[d] \cup {n.id} ELSE seen[d]]
  BY <1>2 DEF Broadcast, to
<1>12. \A d \in to : out'[d] = Append(out[d], f) /\ seen'[d] = seen[d] \cup {n.id}
  BY <1>8, <1>10, <1>11 DEF Deliver, f
<1>13. \A d \in Conn : d \notin to => out'[d] = out[d] /\ seen'[d] = seen[d]
  BY <1>11
<1>14. \A d \in Conn : out[d] \in Seq(Frame) /\ seen[d] \in SUBSET Pid
  BY <1>1 DEF TypeOK
<1>28. ASSUME NEW d \in to
       PROVE  /\ out'[d] \in Seq(Frame)
              /\ FrameRows(out'[d]) = FrameRows(out[d]) \cup {n}
              /\ InOrder(out[d]) /\ (\A p \in FrameRows(out[d]) : p.id # n.id /\ p.seq < n.seq)
                   => InOrder(out'[d])
  <2>1. d \in Conn /\ out[d] \in Seq(Frame) /\ out'[d] = Append(out[d], f)
    BY <1>8, <1>12, <1>14
  <2>2. f.rows = {n}
    BY DEF f
  <2> QED BY <2>1, <2>2, <1>9, AppendFrame
<1>15. TypeOK'
  <2>1. out' \in [Conn -> Seq(Frame)]
    <3>1. \A d \in Conn : out'[d] \in Seq(Frame)
      BY <1>13, <1>14, <1>28
    <3> QED BY <3>1, <1>11
  <2>2. seen' \in [Conn -> SUBSET Pid]
    BY <1>5, <1>11, <1>14
  <2>3. StoreTypeOK'
    BY <1>3 DEF StoreInv
  <2> QED BY <2>1, <2>2, <2>3, <1>1, <1>2, <1>5 DEF TypeOK
<1>16. CountedAndCapped'
  BY <1>1, <1>2, <1>7 DEF CountedAndCapped
<1>17. NoLeak'
  BY <1>1, <1>2, <1>7 DEF NoLeak
<1>18. \A d \in to : SentRows(d)' = SentRows(d) \cup {n}
  BY <1>28 DEF SentRows
<1>19. \A d \in Conn : d \notin to => SentRows(d)' = SentRows(d)
  BY <1>13 DEF SentRows
\* A listener's session exists: its ULID is spent, and the ingest found or
\* made the row.
<1>20. ASSUME NEW d \in to
       PROVE  d \in Attached /\ sid[d] = n.sid /\ SessionExists(sid[d])
  <2>1. d \in Attached /\ sid[d] = n.sid /\ sid[d] < nextSid
    BY <1>1, <1>8 DEF SpentIds
  <2>2. TargetSession(k) \in sessions
    BY <2>1, <1>5, <1>6
  <2> QED BY <2>1, <2>2, <1>4 DEF SessionExists
<1>21. ASSUME NEW d \in to
       PROVE  /\ SentRows(d) \subseteq PromptsOf(n.sid)
              /\ \A p \in SentRows(d) : p.id # n.id /\ p.seq < n.seq
  <2>1. SentRows(d) \subseteq PromptsOf(n.sid)
    BY <1>1, <1>2, <1>20 DEF NoGap, NoGapFor
  <2>2. \A p \in SentRows(d) : p.id < nextPid
    BY <1>1, <1>20 DEF SpentIds
  <2> QED BY <2>1, <2>2, <1>4, <1>5
<1>22. ExactlyOnceInOrder'
  <2> SUFFICES ASSUME NEW d \in Conn PROVE InOrder(out'[d])
    BY DEF ExactlyOnceInOrder
  <2>1. InOrder(out[d])
    BY <1>1 DEF ExactlyOnceInOrder
  <2>2. CASE d \in to
    <3>1. \A p \in FrameRows(out[d]) : p.id # n.id /\ p.seq < n.seq
      BY <2>2, <1>21 DEF SentRows
    <3> QED BY <3>1, <2>1, <2>2, <1>28
  <2>3. CASE d \notin to
    BY <2>1, <2>3, <1>13
  <2> QED BY <2>2, <2>3
<1>23. SpentIds'
  <2> SUFFICES ASSUME NEW d \in Attached
               PROVE  /\ sid[d] < nextSid'
                      /\ \A i \in seen'[d] : i < nextPid + 1
                      /\ \A p \in SentRows(d)' : p.id < nextPid + 1
    BY <1>2, <1>5, <1>7 DEF SpentIds
  <2>1. /\ d \in Conn /\ sid[d] \in Nat /\ sid[d] < nextSid
        /\ \A i \in seen[d] : i \in Nat /\ i < nextPid
        /\ \A p \in SentRows(d) : p.id < nextPid
    BY <1>1, <1>14 DEF SpentIds, Attached, TypeOK, Sid, Pid
  <2>2. nextSid' \in Nat
    BY <1>3, StoreAssumption DEF StoreInv, StoreTypeOK
  <2>3. sid[d] < nextSid'
    BY <2>1, <2>2, <1>5
  <2>4. \A p \in SentRows(d) : p.id \in Nat
    <3>1. \A i \in 1 .. Len(out[d]) : out[d][i] \in Frame
      BY <2>1, <1>14
    <3>2. \A p \in SentRows(d) : p \in PromptRow
      BY <3>1 DEF SentRows, FrameRows, Frame
    <3> QED BY <3>2 DEF PromptRow, Pid
  <2>5. CASE d \in to
    BY <2>1, <2>3, <2>4, <2>5, <1>4, <1>5, <1>12, <1>18
  <2>6. CASE d \notin to
    BY <2>1, <2>3, <2>4, <2>6, <1>5, <1>13, <1>19
  <2> QED BY <2>5, <2>6
\* Only the listeners' session has a new prompt, and it is the last there.
<1>24. \A s : PromptsOf(s)' = IF s = n.sid THEN PromptsOf(s) \cup {n} ELSE PromptsOf(s)
  BY <1>5 DEF PromptsOf
<1>25. \A s \in Sid : s < nextSid /\ SessionExists(s)' => SessionExists(s)
  BY <1>4, <1>5, <1>6 DEF SessionExists
<1>26. \A s : Snapshot(s)' \subseteq Snapshot(s) \cup {n}
  <2> SUFFICES ASSUME NEW s, NEW p \in Snapshot(s)', p # n
               PROVE  p \in Snapshot(s)
    OBVIOUS
  <2> DEFINE Old == {q \in PromptsOf(s) : q.seq > p.seq}
             New == {q \in PromptsOf(s)' : q.seq > p.seq}
  <2>1. p \in PromptsOf(s)' /\ Cardinality(New) < SnapshotLimit
    BY DEF Snapshot
  <2>2. p \in PromptsOf(s)
    BY <2>1, <1>24
  <2>3. Old \in SUBSET New
    BY <1>24
  <2>4. IsFiniteSet(New)
    <3>1. New \in SUBSET prompts' /\ IsFiniteSet(prompts')
      BY <1>3 DEF PromptsOf, StoreInv
    <3> QED BY <3>1, FS_Subset
  <2>5. IsFiniteSet(Old) /\ Cardinality(Old) <= Cardinality(New)
    BY <2>3, <2>4, FS_Subset
  <2>6. Cardinality(Old) \in Nat /\ Cardinality(New) \in Nat
    BY <2>4, <2>5, FS_CardinalityType
  <2>7. Cardinality(Old) < SnapshotLimit
    BY <2>1, <2>5, <2>6, StreamAssumption
  <2> QED BY <2>2, <2>7 DEF Snapshot
<1>27. NoGap'
  <2> SUFFICES ASSUME NEW d \in Attached PROVE NoGapFor(d)'
    BY <1>7 DEF NoGap
  <2>1. d \in Conn /\ sid'[d] = sid[d] /\ sid[d] \in Sid /\ sid[d] < nextSid
    BY <1>1, <1>2 DEF SpentIds, Attached, TypeOK
  <2>2. NoGapFor(d)
    BY <1>1, <1>2 DEF NoGap
  <2>3. CASE d \in to
    <3>1. sid[d] = n.sid /\ SessionExists(sid[d])
      BY <2>3, <1>20
    <3>2. \A p \in SentRows(d)' : p.sid = sid[d]
      BY <2>2, <2>3, <3>1, <1>18 DEF NoGapFor
    <3>3. SentRows(d)' \subseteq PromptsOf(sid[d])'
      BY <2>1, <2>2, <2>3, <3>1, <1>18, <1>24 DEF NoGapFor
    <3>4. Snapshot(sid[d])' \subseteq SentRows(d)'
      BY <2>1, <2>2, <2>3, <3>1, <1>18, <1>26 DEF NoGapFor
    <3>5. \A p \in SentRows(d)', q \in PromptsOf(sid[d])' :
            q.seq > p.seq => q \in SentRows(d)'
      <4> SUFFICES ASSUME NEW p \in SentRows(d)', NEW q \in PromptsOf(sid[d]),
                          q.seq > p.seq
                   PROVE  q \in SentRows(d)
        BY <2>1, <2>3, <3>1, <1>18, <1>24
      <4>1. CASE p = n
        <5>1. q.seq < n.seq /\ q.seq \in Nat /\ n.seq \in Nat
          BY <3>1, <1>1, <1>4 DEF PromptsOf, TypeOK, StoreTypeOK, PromptRow
        <5> QED BY <5>1, <4>1
      <4>2. CASE p \in SentRows(d)
        BY <4>2, <2>2, <3>1 DEF NoGapFor
      <4> QED BY <4>1, <4>2, <2>3, <1>18
    <3> QED BY <3>2, <3>3, <3>4, <3>5, <2>1 DEF NoGapFor
  <2>4. CASE d \notin to
    <3>1. sid[d] # n.sid
      BY <2>4, <1>8
    <3>2. PromptsOf(sid[d])' = PromptsOf(sid[d]) /\ SentRows(d)' = SentRows(d)
      BY <3>1, <2>1, <2>4, <1>19, <1>24
    <3>3. Snapshot(sid[d])' = Snapshot(sid[d])
      BY <3>2 DEF Snapshot
    <3>4. SessionExists(sid[d])' => SessionExists(sid[d])
      BY <2>1, <1>25
    <3> QED BY <2>1, <2>2, <3>2, <3>3, <3>4 DEF NoGapFor
  <2> QED BY <2>3, <2>4
<1> QED BY <1>3, <1>15, <1>16, <1>17, <1>22, <1>23, <1>27 DEF StreamInv
\* Killed between commit and broadcast, the process takes its streams with it.
LEMMA IngestThenCrashStep ==
  ASSUME StreamInv, NEW k \in Claude, IngestThenCrash(k)
  PROVE  StreamInv'
<1>1. /\ TypeOK /\ StoreInv /\ CountedAndCapped /\ NoLeak /\ ExactlyOnceInOrder /\ SpentIds
  BY DEF StreamInv
<1>2. IngestTx(k) /\ phase' = "crashed" /\ UNCHANGED <<memoryVars, connVars>>
  BY DEF IngestThenCrash
<1>3. StoreInv'
  BY <1>1, <1>2, IngestPreservesStore
<1>4. Attached' = Attached
  BY <1>2 DEF Attached, connVars
<1>5. TypeOK'
  BY <1>1, <1>2, <1>3 DEF TypeOK, StoreInv, memoryVars, connVars
<1>6. CountedAndCapped' /\ NoLeak' /\ ExactlyOnceInOrder'
  BY <1>1, <1>2, <1>4 DEF CountedAndCapped, NoLeak, ExactlyOnceInOrder, memoryVars, connVars
<1>7. SpentIds'
  <2> SUFFICES ASSUME NEW d \in Attached
               PROVE  /\ sid[d] < nextSid'
                      /\ \A i \in seen[d] : i < nextPid + 1
                      /\ \A p \in SentRows(d) : p.id < nextPid + 1
    BY <1>2, <1>4 DEF SpentIds, SentRows, connVars, IngestTx
  <2>1. /\ sid[d] \in Nat /\ sid[d] < nextSid
        /\ \A i \in seen[d] : i \in Nat /\ i < nextPid
        /\ \A p \in SentRows(d) : p.id < nextPid
    BY <1>1 DEF SpentIds, Attached, TypeOK, Sid, Pid
  <2>2. nextSid \in Nat /\ nextPid \in Nat /\ nextSid' \in {nextSid, nextSid + 1}
    BY <1>1, <1>2, StoreAssumption DEF StoreInv, StoreTypeOK, IngestTx
  <2>3. \A p \in SentRows(d) : p.id \in Nat
    <3>1. \A i \in 1 .. Len(out[d]) : out[d][i] \in Frame
      BY <1>1 DEF TypeOK, Attached
    <3>2. \A p \in SentRows(d) : p \in PromptRow
      BY <3>1 DEF SentRows, FrameRows, Frame
    <3> QED BY <3>2 DEF PromptRow, Pid
  <2> QED BY <2>1, <2>2, <2>3
<1>8. NoGap'
  BY <1>2 DEF NoGap, Serving
<1> QED BY <1>3, <1>5, <1>6, <1>7, <1>8 DEF StreamInv

\* A deletion leaves the other sessions alone, and asks nothing of the streams
\* of the session that is gone.
LEMMA DeleteSessionStep ==
  ASSUME StreamInv, NEW row \in sessions, DeleteSession(row)
  PROVE  StreamInv'
<1>1. /\ TypeOK /\ StoreInv /\ CountedAndCapped /\ NoLeak /\ ExactlyOnceInOrder
      /\ SpentIds /\ NoGap
  BY DEF StreamInv
<1>2. /\ Serving /\ DeleteSessionTx(row)
      /\ UNCHANGED <<phase, memoryVars, connVars>>
  BY DEF DeleteSession
<1>3. StoreInv'
  BY <1>1, <1>2, DeletePreservesStore
<1>4. Attached' = Attached
  BY <1>2 DEF Attached, connVars
<1>5. TypeOK'
  BY <1>1, <1>2, <1>3 DEF TypeOK, StoreInv, memoryVars, connVars
<1>6. CountedAndCapped' /\ NoLeak' /\ ExactlyOnceInOrder'
  BY <1>1, <1>2, <1>4 DEF CountedAndCapped, NoLeak, ExactlyOnceInOrder, memoryVars, connVars
<1>7. SpentIds'
  BY <1>1, <1>2, <1>4 DEF SpentIds, SentRows, connVars, DeleteSessionTx
<1>8. \A s : SessionExists(s)' => SessionExists(s) /\ s # row.id
  BY <1>1, <1>2 DEF SessionExists, DeleteSessionTx, StoreInv, SessionsDistinct
<1>9. \A s : s # row.id => PromptsOf(s)' = PromptsOf(s)
  BY <1>2 DEF PromptsOf, DeleteSessionTx
<1>10. NoGap'
  <2> SUFFICES ASSUME NEW d \in Attached PROVE NoGapFor(d)'
    BY <1>4 DEF NoGap
  <2>1. sid'[d] = sid[d] /\ SentRows(d)' = SentRows(d)
    BY <1>2 DEF SentRows, connVars
  <2>2. NoGapFor(d)
    BY <1>1, <1>2 DEF NoGap
  <2>3. CASE SessionExists(sid[d])'
    <3>1. SessionExists(sid[d]) /\ sid[d] # row.id
      BY <2>1, <2>3, <1>8
    <3>2. PromptsOf(sid[d])' = PromptsOf(sid[d])
      BY <2>1, <3>1, <1>9
    <3>3. Snapshot(sid[d])' = Snapshot(sid[d])
      BY <2>1, <3>2 DEF Snapshot
    <3> QED BY <2>1, <2>2, <3>1, <3>2, <3>3 DEF NoGapFor
  <2>4. CASE ~SessionExists(sid[d])'
    BY <2>1, <2>2, <2>4 DEF NoGapFor
  <2> QED BY <2>3, <2>4
<1> QED BY <1>3, <1>5, <1>6, <1>7, <1>10 DEF StreamInv

----------------------------------------------------------------------------
(* Shutdown, crash, restart *)

\* The close frame carries no prompt.
LEMMA CloseAllStreamsStep ==
  ASSUME StreamInv, CloseAllStreams
  PROVE  StreamInv'
<1> DEFINE f == [ev |-> "close", rows |-> {}]
<1>1. TypeOK /\ StoreInv /\ CountedAndCapped /\ NoLeak /\ ExactlyOnceInOrder /\ SpentIds /\ NoGap
  BY DEF StreamInv
<1>2. /\ phase = "up" /\ phase' = "closing" /\ registry' = {}
      /\ out' = [c \in Conn |-> IF c \in registry THEN Append(out[c], f) ELSE out[c]]
      /\ pc' = [c \in Conn |-> IF c \in registry THEN "leaving" ELSE pc[c]]
      /\ UNCHANGED <<storeVars, emitters, listeners, active, heartbeats, sid, seen,
                     aborted, reply>>
  BY DEF CloseAllStreams
<1>3. f \in Frame /\ f.rows = {}
  BY DEF Frame
<1> HIDE DEF f
<1>4. registry = {c \in Conn : pc[c] = "parked"}
  BY <1>1 DEF NoLeak
<1>5. Attached' = Attached
  BY <1>2, <1>4 DEF Attached
<1>6. ASSUME NEW c \in Conn
      PROVE  /\ out'[c] \in Seq(Frame) /\ InOrder(out'[c])
             /\ FrameRows(out'[c]) = FrameRows(out[c])
  <2>1. out[c] \in Seq(Frame) /\ InOrder(out[c])
    BY <1>1 DEF TypeOK, ExactlyOnceInOrder
  <2>2. CASE c \in registry
    <3>1. out'[c] = Append(out[c], f)
      BY <2>2, <1>2
    <3> QED BY <2>1, <3>1, <1>3, AppendFrame
  <2>3. CASE c \notin registry
    BY <2>1, <2>3, <1>2
  <2> QED BY <2>2, <2>3
<1>7. TypeOK'
  <2>1. out' \in [Conn -> Seq(Frame)]
    BY <1>2, <1>6
  <2>2. pc' \in [Conn -> {"idle", "requested", "snapshot", "parked", "leaving"}]
    BY <1>1, <1>2 DEF TypeOK
  <2>3. StoreTypeOK'
    BY <1>1, <1>2 DEF TypeOK, StoreTypeOK, storeVars
  <2> QED BY <2>1, <2>2, <2>3, <1>1, <1>2 DEF TypeOK
<1>8. CountedAndCapped'
  BY <1>1, <1>2, <1>5 DEF CountedAndCapped
<1>9. NoLeak'
  <2>1. heartbeats' = {d \in Conn : pc'[d] \in {"parked", "leaving"}}
    BY <1>1, <1>2, <1>4 DEF NoLeak
  <2>2. registry' = {d \in Conn : pc'[d] = "parked"}
    BY <1>2, <1>4
  <2> QED BY <2>1, <2>2, <1>1, <1>2, <1>5 DEF NoLeak
<1>10. ExactlyOnceInOrder'
  BY <1>6 DEF ExactlyOnceInOrder
<1>11. StoreInv'
  BY <1>1, <1>2, StutterPreservesStore
<1>12. \A d \in Attached : SentRows(d)' = SentRows(d)
  BY <1>6 DEF SentRows, Attached
<1>13. SpentIds'
  BY <1>1, <1>2, <1>5, <1>12 DEF SpentIds, storeVars
<1>14. \A s : /\ PromptsOf(s)' = PromptsOf(s) /\ SessionExists(s)' = SessionExists(s)
              /\ Snapshot(s)' = Snapshot(s)
  BY <1>2 DEF PromptsOf, SessionExists, Snapshot, storeVars
<1>15. NoGap'
  <2> SUFFICES ASSUME NEW d \in Attached PROVE NoGapFor(d)'
    BY <1>5 DEF NoGap
  <2>1. NoGapFor(d) /\ sid'[d] = sid[d]
    BY <1>1, <1>2 DEF NoGap, Serving
  <2> QED BY <2>1, <1>12, <1>14 DEF NoGapFor
<1> QED BY <1>7, <1>8, <1>9, <1>10, <1>11, <1>13, <1>15 DEF StreamInv

\* CloseServer, Drained, HardExit and Crash change the phase only.
LEMMA PhaseStep ==
  ASSUME StreamInv, CloseServer \/ Drained \/ HardExit \/ Crash
  PROVE  StreamInv'
<1>1. /\ Serving
      /\ phase' \in {"up", "closing", "draining", "exited", "crashed"}
      /\ UNCHANGED <<storeVars, memoryVars, connVars>>
  BY DEF CloseServer, Drained, HardExit, Crash, Serving
<1>2. TypeOK /\ CountedAndCapped /\ NoLeak /\ ExactlyOnceInOrder
  BY DEF StreamInv
<1>3. Attached' = Attached
  BY <1>1 DEF Attached, connVars
<1>4. TypeOK'
  BY <1>1, <1>2 DEF TypeOK, StoreTypeOK, storeVars, memoryVars, connVars
<1>5. CountedAndCapped' /\ NoLeak' /\ ExactlyOnceInOrder'
  BY <1>1, <1>2, <1>3 DEF CountedAndCapped, NoLeak, ExactlyOnceInOrder, memoryVars, connVars
<1>6. \A d \in Attached' : /\ d \in Attached
                           /\ sid'[d] = sid[d] /\ seen'[d] = seen[d] /\ out'[d] = out[d]
  BY <1>1, <1>3 DEF connVars
<1>7. StoreInv' /\ SpentIds' /\ NoGap'
  BY <1>1, <1>6, FramesUntouched
<1> QED BY <1>4, <1>5, <1>7 DEF StreamInv

LEMMA RestartStep ==
  ASSUME StreamInv, Restart
  PROVE  StreamInv'
<1> USE DEF Restart
<1>1. TypeOK /\ StoreInv /\ ExactlyOnceInOrder
  BY DEF StreamInv
<1>2. Attached' = {}
  BY DEF Attached
<1>3. TypeOK'
  BY <1>1 DEF TypeOK, StoreTypeOK, storeVars
<1>4. CountedAndCapped'
  BY <1>2, FS_EmptySet, StreamAssumption DEF CountedAndCapped
<1>5. NoLeak'
  BY <1>2 DEF NoLeak
<1>6. ExactlyOnceInOrder'
  BY <1>1 DEF ExactlyOnceInOrder
<1>7. SpentIds' /\ NoGap'
  BY <1>2 DEF SpentIds, NoGap
<1>8. StoreInv'
  BY <1>1, StutterPreservesStore
<1> QED BY <1>3, <1>4, <1>5, <1>6, <1>7, <1>8 DEF StreamInv

LEMMA StutterStep ==
  ASSUME StreamInv, UNCHANGED vars
  PROVE  StreamInv'
<1>1. UNCHANGED <<storeVars, phase, memoryVars, connVars>>
  BY DEF vars, storeVars, memoryVars, connVars
<1>2. TypeOK /\ CountedAndCapped /\ NoLeak /\ ExactlyOnceInOrder
  BY DEF StreamInv
<1>3. Attached' = Attached
  BY <1>1 DEF Attached, connVars
<1>4. TypeOK' /\ CountedAndCapped' /\ NoLeak' /\ ExactlyOnceInOrder'
  BY <1>1, <1>2, <1>3 DEF TypeOK, StoreTypeOK, CountedAndCapped, NoLeak, ExactlyOnceInOrder,
                          storeVars, memoryVars, connVars
<1>5. StoreInv' /\ SpentIds' /\ NoGap'
  BY <1>1, <1>3, FramesUntouched DEF Serving, connVars
<1> QED BY <1>4, <1>5 DEF StreamInv

\* Every step of the server, or none, keeps the invariant.
LEMMA StreamPreserved ==
  ASSUME StreamInv, [Next]_vars
  PROVE  StreamInv'
<1>1. CASE \E k \in Claude : Ingest(k) \/ IngestThenCrash(k)
  BY <1>1, IngestStep, IngestThenCrashStep
<1>2. CASE \E row \in sessions : DeleteSession(row)
  BY <1>2, DeleteSessionStep
<1>3. CASE \E c \in Conn, s \in Sid : Request(c, s)
  BY <1>3, RequestStep
<1>4. ASSUME NEW c \in Conn, Refuse(c) \/ TooMany(c)
      PROVE  StreamInv'
  BY <1>4, RespondStep DEF Refuse, TooMany
<1>5. ASSUME NEW c \in Conn, Subscribe(c) \/ Park(c) \/ Abort(c) \/ Teardown(c)
      PROVE  StreamInv'
  BY <1>5, SubscribeStep, ParkStep, AbortStep, TeardownStep
<1>6. CASE CloseAllStreams \/ CloseServer \/ Drained \/ HardExit \/ Crash \/ Restart
  BY <1>6, CloseAllStreamsStep, PhaseStep, RestartStep
<1>7. CASE UNCHANGED vars
  BY <1>7, StutterStep
<1> QED BY <1>1, <1>2, <1>3, <1>4, <1>5, <1>6, <1>7 DEF Next

----------------------------------------------------------------------------
(* Theorems *)

\* StreamInv is an invariant of the server: whatever interleaving of ingests,
\* deletions, connections, aborts, shutdowns, crashes and restarts.
THEOREM StreamInvariant == Spec => []StreamInv
<1>1. StreamInv /\ [Next]_vars => StreamInv'
  BY StreamPreserved
<1> QED BY <1>1, StreamInit, PTL DEF Spec

\* Every variable of the server keeps its type.
THEOREM StreamTypes == Spec => []TypeOK
<1>1. StreamInv => TypeOK
  BY DEF StreamInv
<1> QED BY <1>1, StreamInvariant, PTL

\* The connection count is the number of attached handlers and never passes
\* SSE_MAX_CONNECTIONS (stream.ts 131, 158, 167).
THEOREM ConnectionsCounted == Spec => []CountedAndCapped
<1>1. StreamInv => CountedAndCapped
  BY DEF StreamInv
<1> QED BY <1>1, StreamInvariant, PTL

\* No listener, heartbeat or shutdown callback outlives its stream
\* (stream.ts 160-168, 205-223).
THEOREM StreamsDoNotLeak == Spec => []NoLeak
<1>1. StreamInv => NoLeak
  BY DEF StreamInv
<1> QED BY <1>1, StreamInvariant, PTL

\* The snapshot and the prompts after it are exactly once and in order, however
\* ingests race the subscription (stream.ts 145-157).
THEOREM SentExactlyOnceInOrder == Spec => []ExactlyOnceInOrder
<1>1. StreamInv => ExactlyOnceInOrder
  BY DEF StreamInv
<1> QED BY <1>1, StreamInvariant, PTL

\* An attached stream has been sent every prompt of its session since its
\* snapshot (stream.ts 145-157, ingest.ts 128-135).
THEOREM SentWithoutGap == Spec => []NoGap
<1>1. StreamInv => NoGap
  BY DEF StreamInv
<1> QED BY <1>1, StreamInvariant, PTL

----------------------------------------------------------------------------
(* The refinement *)

Published == [s \in Sid |-> Cardinality(PromptsOf(s))]

(* Numbers *)

\* Rows whose numbers are an interval, each number once, are as many as the
\* interval is long.
LEMMA RowsOfInterval ==
  ASSUME NEW U, IsFiniteSet(U), NEW a \in Nat, NEW b \in Nat,
         {q.seq : q \in U} = a .. b,
         \A p, q \in U : p.seq = q.seq => p = q
  PROVE  Cardinality(U) = IF a > b THEN 0 ELSE b - a + 1
<1> DEFINE f == [q \in U |-> q.seq]
<1>1. f \in Bijection(U, a .. b)
  BY DEF Bijection, Injection, Surjection, IsInjective
<1>2. ExistsBijection(U, a .. b)
  BY <1>1 DEF ExistsBijection
<1>3. Cardinality(a .. b) = Cardinality(U)
  BY <1>2, FS_Bijection
<1>4. a \in Int /\ b \in Int
  OBVIOUS
<1>5. Cardinality(a .. b) = IF a > b THEN 0 ELSE b - a + 1
  BY <1>4, FS_Interval
<1> QED BY <1>3, <1>5

\* The prompts of a session are numbered from 1 to their count.
LEMMA NumberedToCount ==
  ASSUME StoreInv, NEW s
  PROVE  /\ IsFiniteSet(PromptsOf(s)) /\ Cardinality(PromptsOf(s)) \in Nat
         /\ {p.seq : p \in PromptsOf(s)} = 1 .. Cardinality(PromptsOf(s))
         /\ \A p, q \in PromptsOf(s) : p.seq = q.seq => p = q
<1> DEFINE P == PromptsOf(s)
           S == {p.seq : p \in P}
<1>1. P \subseteq prompts /\ IsFiniteSet(P) /\ Cardinality(P) \in Nat
  BY FS_Subset, FS_CardinalityType DEF StoreInv, PromptsOf
<1>2. \A p, q \in P : p.seq = q.seq => p = q
  BY DEF StoreInv, PromptsNumbered, PromptsOf
<1>3. CASE P = {}
  BY <1>1, <1>2, <1>3, FS_EmptySet
<1>4. CASE P # {}
  <2>1. nextPid - 1 \in Nat /\ S \in SUBSET Nat /\ S # {} /\ \A x \in S : x <= nextPid - 1
    <3>1. nextPid \in Nat /\ nextPid >= 1
      BY StoreAssumption DEF StoreInv, StoreTypeOK
    <3>2. \A p \in P : p.seq \in 1 .. nextPid - 1
      BY <1>1 DEF StoreInv
    <3> QED BY <3>1, <3>2, <1>4
  <2>2. PICK g \in S : \A x \in S : x <= g
    BY <2>1, GreatestElement
  <2>3. PICK p \in P : p.seq = g
    OBVIOUS
  <2>4. g \in Nat /\ g >= 1
    BY <2>3, <1>1 DEF StoreInv
  <2>5. \A x \in S : x \in 1 .. g
    <3>1. \A q \in P : q.seq \in Nat /\ q.seq >= 1 /\ q.seq <= g
      BY <1>1, <2>2 DEF StoreInv
    <3> QED BY <3>1, <2>4
  <2>6. \A i \in 1 .. g : i \in S
    BY <2>3, <1>1 DEF StoreInv, PromptsNumbered, PromptsOf
  <2>7. S = 1 .. g
    BY <2>5, <2>6
  <2>8. Cardinality(P) = g
    BY <2>4, <2>7, <1>1, <1>2, RowsOfInterval
  <2> QED BY <1>1, <1>2, <2>7, <2>8
<1> QED BY <1>3, <1>4

\* The snapshot holds the highest numbers, as many as it may.
LEMMA SnapshotNumbers ==
  ASSUME StoreInv, NEW s
  PROVE  LET n == Cardinality(PromptsOf(s))
         IN  {p.seq : p \in Snapshot(s)} = {k \in 1 .. n : k > n - SnapshotLimit}
<1> DEFINE P == PromptsOf(s)
           n == Cardinality(P)
<1>1. /\ IsFiniteSet(P) /\ n \in Nat /\ {p.seq : p \in P} = 1 .. n
      /\ \A p, q \in P : p.seq = q.seq => p = q
  BY NumberedToCount
<1>2. \A p \in P : p.seq \in 1 .. n
  BY <1>1
<1> HIDE DEF P, n
<1>3. ASSUME NEW p \in P
      PROVE  Cardinality({q \in P : q.seq > p.seq}) = n - p.seq
  <2> DEFINE U == {q \in P : q.seq > p.seq}
  <2>1. p.seq \in Nat /\ p.seq + 1 \in Nat /\ p.seq <= n
    BY <1>1, <1>2
  <2>2. IsFiniteSet(U) /\ \A q, r \in U : q.seq = r.seq => q = r
    BY <1>1, FS_Subset
  <2>3. \A k \in 1 .. n : \E q \in P : q.seq = k
    BY <1>1
  <2>4. \A q \in U : q.seq \in p.seq + 1 .. n
    BY <1>1, <1>2, <2>1
  <2>5. \A k \in p.seq + 1 .. n : \E q \in U : q.seq = k
    <3>1. ASSUME NEW k \in p.seq + 1 .. n PROVE \E q \in U : q.seq = k
      <4>1. k \in 1 .. n /\ k > p.seq
        BY <2>1, <1>1
      <4> QED BY <4>1, <2>3
    <3> QED BY <3>1
  <2>6. {q.seq : q \in U} = p.seq + 1 .. n
    BY <2>4, <2>5
  <2>7. Cardinality(U) = IF p.seq + 1 > n THEN 0 ELSE n - (p.seq + 1) + 1
    <3> HIDE DEF U
    <3> QED BY <2>1, <2>2, <2>6, <1>1, RowsOfInterval
  <2> QED BY <2>1, <2>7, <1>1
<1>4. Snapshot(s) = {p \in P : n - p.seq < SnapshotLimit}
  BY <1>3 DEF Snapshot, P
<1>5. \A p \in P : n - p.seq < SnapshotLimit <=> p.seq > n - SnapshotLimit
  BY <1>1, <1>2, StreamAssumption
<1>6. {p.seq : p \in Snapshot(s)} = {k \in {p.seq : p \in P} : k > n - SnapshotLimit}
  BY <1>4, <1>5
<1> QED BY <1>1, <1>6 DEF P, n

----------------------------------------------------------------------------
(* Subscriptions *)

\* What the readers see is a matter of the streams that are attached.
LEMMA SameReaders ==
  ASSUME Serving' = Serving, Attached' = Attached,
         \A c \in Attached : sid'[c] = sid[c] /\ SentRows(c)' = SentRows(c)
  PROVE  Reads' = Reads /\ SentNumbers' = SentNumbers
BY DEF Reads, SentNumbers

LEMMA NoReaders ==
  /\ ~Serving => Reads = [c \in Conn |-> NoSession] /\ SentNumbers = [c \in Conn |-> {}]
  /\ ~Serving' => Reads' = [c \in Conn |-> NoSession] /\ SentNumbers' = [c \in Conn |-> {}]
BY DEF Reads, SentNumbers

LEMMA SamePublished ==
  ASSUME prompts' = prompts
  PROVE  Published' = Published
BY DEF Published, PromptsOf

\* One prompt more in one session: one more is published there.
LEMMA OneMorePublished ==
  ASSUME StoreInv, NEW k \in Claude, IngestTx(k)
  PROVE  LET t == NewPrompt(k).sid
         IN  /\ t \in Sid
             /\ Published' = [Published EXCEPT ![t] = @ + 1]
             /\ NewPrompt(k).seq = Published[t] + 1
<1> PICK n : n = NewPrompt(k)
  OBVIOUS
<1> DEFINE t == n.sid
<1>1. /\ n \in PromptRow /\ n \notin prompts
      /\ PromptsOf(t) # {} => \E p \in PromptsOf(t) : n.seq = p.seq + 1
      /\ PromptsOf(t) = {} => n.seq = 1
      /\ \A p \in PromptsOf(t) : p.seq < n.seq
  BY NewPromptFacts
<1>2. t \in Sid /\ n.seq \in Nat
  BY <1>1 DEF PromptRow
<1>3. prompts' = prompts \cup {n}
  BY DEF IngestTx
<1>4. PromptsOf(t)' = PromptsOf(t) \cup {n} /\ n \notin PromptsOf(t)
  BY <1>1, <1>3 DEF PromptsOf
<1>5. \A s : s # t => PromptsOf(s)' = PromptsOf(s)
  BY <1>3 DEF PromptsOf
<1>6. /\ IsFiniteSet(PromptsOf(t)) /\ Cardinality(PromptsOf(t)) \in Nat
      /\ {p.seq : p \in PromptsOf(t)} = 1 .. Cardinality(PromptsOf(t))
  BY NumberedToCount
<1>7. Cardinality(PromptsOf(t))' = Cardinality(PromptsOf(t)) + 1
  BY <1>4, <1>6, FS_AddElement
<1>8. Published' = [Published EXCEPT ![t] = @ + 1]
  BY <1>2, <1>5, <1>7 DEF Published
<1>9. n.seq = Cardinality(PromptsOf(t)) + 1
  <2>1. CASE PromptsOf(t) = {}
    BY <2>1, <1>1, FS_EmptySet
  <2>2. CASE PromptsOf(t) # {}
    <3>1. PICK p \in PromptsOf(t) : n.seq = p.seq + 1
      BY <2>2, <1>1
    <3>2. p.seq \in 1 .. Cardinality(PromptsOf(t))
      BY <1>6
    <3>3. \A i \in 1 .. Cardinality(PromptsOf(t)) : i < n.seq
      BY <1>1, <1>6
    <3>4. Cardinality(PromptsOf(t)) \in 1 .. Cardinality(PromptsOf(t))
      BY <3>2, <1>6
    <3> QED BY <3>1, <3>2, <3>3, <3>4, <1>6
  <2> QED BY <2>1, <2>2
<1> QED BY <1>2, <1>8, <1>9 DEF Published

----------------------------------------------------------------------------
(* The steps *)

LEMMA InitIsFeedInit == Init => Feed!FeedInit
<1> SUFFICES ASSUME Init PROVE Feed!FeedInit
  OBVIOUS
<1>1. Attached = {} /\ prompts = {}
  BY DEF Init, StoreInit, Attached
<1>2. \A s : PromptsOf(s) = {}
  BY <1>1 DEF PromptsOf
<1> QED BY <1>1, <1>2, FS_EmptySet DEF Feed!FeedInit, Reads, SentNumbers

\* The transaction and the broadcast are one Publish.
LEMMA IngestPublishes ==
  ASSUME StreamInv, NEW k \in Claude, Ingest(k)
  PROVE  \E t \in Sid : Feed!Publish(t)
<1> DEFINE n == NewPrompt(k)
           f == [ev |-> "prompt", rows |-> {n}]
<1>1. /\ TypeOK /\ StoreInv /\ NoLeak /\ SpentIds
  BY DEF StreamInv
<1>2. /\ Serving /\ IngestTx(k)
      /\ emitters' = emitters \cup {n.sid}
      /\ Broadcast(n)
      /\ UNCHANGED <<phase, pc, sid>>
  BY DEF Ingest
<1>3. /\ n.sid \in Sid /\ n \in PromptRow /\ n.id = nextPid
      /\ Published' = [Published EXCEPT ![n.sid] = @ + 1]
      /\ n.seq = Published[n.sid] + 1
  BY <1>1, <1>2, NewPromptFacts, OneMorePublished
<1>4. f \in Frame /\ f.rows = {n}
  BY <1>3 DEF Frame
<1>5. nextPid \in Nat
  BY <1>1, StoreAssumption DEF StoreInv, StoreTypeOK
<1> HIDE DEF n, f
<1>6. Attached' = Attached /\ Serving' = Serving
  BY <1>2 DEF Attached, Serving
<1>7. listeners[n.sid] = {d \in Attached : sid[d] = n.sid}
  BY <1>1, <1>3 DEF NoLeak
<1>8. ASSUME NEW d \in Attached, sid[d] = n.sid
      PROVE  SentRows(d)' = SentRows(d) \cup {n}
  <2>1. d \in Conn /\ n.id \notin seen[d] /\ out[d] \in Seq(Frame)
    BY <1>1, <1>3, <1>5 DEF SpentIds, TypeOK, Attached
  <2>2. out'[d] = Append(out[d], f)
    BY <1>2, <1>7, <1>8, <2>1 DEF Broadcast, Deliver, f
  <2> QED BY <2>1, <2>2, <1>4, AppendFrame DEF SentRows
<1>9. ASSUME NEW d \in Attached, sid[d] # n.sid
      PROVE  SentRows(d)' = SentRows(d)
  <2>1. out'[d] = out[d]
    BY <1>2, <1>7, <1>9 DEF Broadcast, Attached
  <2> QED BY <2>1 DEF SentRows
<1>10. Reads' = Reads
  BY <1>2, <1>6 DEF Reads
<1>11. ASSUME NEW c \in Conn
       PROVE  SentNumbers'[c] = IF Reads[c] = n.sid THEN SentNumbers[c] \cup {Published[n.sid] + 1}
                                ELSE SentNumbers[c]
  <2>1. CASE c \in Attached /\ sid[c] = n.sid
    <3>1. Reads[c] = n.sid /\ SentNumbers[c] = {p.seq : p \in SentRows(c)}
          /\ SentNumbers'[c] = {p.seq : p \in SentRows(c)'}
      BY <1>2, <1>6, <2>1 DEF Reads, SentNumbers
    <3> QED BY <3>1, <1>3, <1>8, <2>1
  <2>2. CASE c \in Attached /\ sid[c] # n.sid
    BY <1>2, <1>6, <1>9, <2>2 DEF Reads, SentNumbers
  <2>3. CASE c \notin Attached
    <3>1. Reads[c] = NoSession /\ SentNumbers[c] = {} /\ SentNumbers'[c] = {}
      BY <1>6, <2>3 DEF Reads, SentNumbers
    <3>2. n.sid # NoSession
      BY <1>3 DEF Sid, NoSession
    <3> QED BY <3>1, <3>2
  <2> QED BY <2>1, <2>2, <2>3
<1>12. SentNumbers' = [c \in Conn |-> IF Reads[c] = n.sid
                                      THEN SentNumbers[c] \cup {Published[n.sid] + 1}
                                      ELSE SentNumbers[c]]
  BY <1>11 DEF SentNumbers
<1>13. Feed!Publish(n.sid)
  BY <1>3, <1>10, <1>12 DEF Feed!Publish, Published
<1> QED BY <1>3, <1>13

\* A process that dies behind its commit stores a prompt as it stops.
LEMMA IngestThenCrashStops ==
  ASSUME StreamInv, NEW k \in Claude, IngestThenCrash(k)
  PROVE  Feed!Stop
<1>1. IngestTx(k) /\ ~Serving'
  BY DEF IngestThenCrash, Serving
<1>2. \E t \in Sid : Published' = [Published EXCEPT ![t] = @ + 1]
  BY <1>1, OneMorePublished DEF StreamInv
<1> QED BY <1>1, <1>2, NoReaders DEF Feed!Stop, Published

LEMMA DeleteDiscards ==
  ASSUME StreamInv, NEW row \in sessions, DeleteSession(row)
  PROVE  \E t \in Sid : Feed!Discard(t)
<1>1. /\ prompts' = prompts \ PromptsOf(row.id)
      /\ UNCHANGED <<phase, pc, sid, out>>
  BY DEF DeleteSession, DeleteSessionTx, connVars
<1>2. row.id \in Sid
  BY DEF StreamInv, StoreInv, StoreTypeOK, SessionRow
<1>3. PromptsOf(row.id)' = {} /\ \A s : s # row.id => PromptsOf(s)' = PromptsOf(s)
  BY <1>1 DEF PromptsOf
<1>4. Published' = [Published EXCEPT ![row.id] = 0]
  BY <1>2, <1>3, FS_EmptySet DEF Published
<1>5. Reads' = Reads /\ SentNumbers' = SentNumbers
  BY <1>1 DEF Reads, SentNumbers, Attached, Serving, SentRows
<1>6. Feed!Discard(row.id)
  BY <1>4, <1>5 DEF Feed!Discard, Published
<1> QED BY <1>2, <1>6

\* Snapshot and listener are one Join, under the cap.
LEMMA SubscribeJoins ==
  ASSUME StreamInv, NEW c \in Conn, Subscribe(c)
  PROVE  \E t \in Sid : Feed!Join(c, t)
<1> DEFINE f == [ev |-> "snapshot", rows |-> Snapshot(sid[c])]
<1>1. /\ Serving /\ pc[c] = "requested" /\ active < MaxConnections
      /\ out' = [out EXCEPT ![c] = <<f>>]
      /\ pc' = [pc EXCEPT ![c] = "snapshot"]
      /\ UNCHANGED <<prompts, phase, sid>>
  BY DEF Subscribe, BelowCap, storeVars
<1>2. /\ pc \in [Conn -> {"idle", "requested", "snapshot", "parked", "leaving"}]
      /\ out \in [Conn -> Seq(Frame)] /\ sid \in [Conn -> Sid]
      /\ prompts \subseteq PromptRow /\ StoreInv /\ active = Cardinality(Attached)
  BY DEF StreamInv, TypeOK, StoreTypeOK, CountedAndCapped
<1>3. Serving' /\ Attached' = Attached \cup {c} /\ c \notin Attached
  BY <1>1, <1>2 DEF Serving, Attached
<1>4. f \in Frame
  BY <1>2 DEF Frame, Snapshot, PromptsOf
<1>5. SentRows(c)' = Snapshot(sid[c])
  <2>1. out'[c] = <<f>>
    BY <1>1, <1>2
  <2> HIDE DEF f
  <2>2. FrameRows(<<f>>) = f.rows
    BY <1>4, OneFrame
  <2> QED BY <2>1, <2>2 DEF SentRows, f
<1>6. \A d \in Conn : d # c => SentRows(d)' = SentRows(d)
  BY <1>1, <1>2 DEF SentRows
<1>7. \A d \in Conn : Reads[d] # NoSession <=> d \in Attached
  BY <1>1, <1>2 DEF Reads, Attached, Sid, NoSession
<1>8. Feed!Subscribed = Attached
  BY <1>7 DEF Feed!Subscribed, Attached
<1>9. Published' = Published
  BY <1>1, SamePublished
<1>10. Reads' = [Reads EXCEPT ![c] = sid[c]]
  BY <1>1, <1>3 DEF Reads
<1>11. /\ SentNumbers' = [SentNumbers EXCEPT ![c] = {p.seq : p \in Snapshot(sid[c])}]
  <2>1. SentNumbers'[c] = {p.seq : p \in Snapshot(sid[c])}
    BY <1>3, <1>5 DEF SentNumbers
  <2>2. \A d \in Conn : d # c => SentNumbers'[d] = SentNumbers[d]
    BY <1>1, <1>3, <1>6 DEF SentNumbers
  <2> QED BY <2>1, <2>2 DEF SentNumbers
<1>12. {p.seq : p \in Snapshot(sid[c])} =
         {n \in 1 .. Published[sid[c]] : n > Published[sid[c]] - SnapshotLimit}
  BY <1>2, SnapshotNumbers DEF Published
<1>13. Feed!Join(c, sid[c])
  <2>1. SentNumbers' = [SentNumbers EXCEPT ![c] =
                          {n \in 1 .. Published[sid[c]] : n > Published[sid[c]] - SnapshotLimit}]
    BY <1>11, <1>12
  <2>2. Reads[c] = NoSession
    BY <1>3, <1>7
  <2>3. Feed!Cardinality(Feed!Subscribed) < MaxConnections
    <3>1. Feed!Cardinality(Attached) = Cardinality(Attached)
      BY DEF Feed!Cardinality, Cardinality, Feed!IsFiniteSet, IsFiniteSet
    <3> QED BY <3>1, <1>1, <1>2, <1>8
  <2> QED BY <2>1, <2>2, <2>3, <1>9, <1>10 DEF Feed!Join, Published
<1> QED BY <1>2, <1>13

LEMMA TeardownLeaves ==
  ASSUME StreamInv, NEW c \in Conn, Teardown(c)
  PROVE  Feed!Leave(c)
<1>1. /\ Serving /\ pc' = [pc EXCEPT ![c] = "idle"]
      /\ UNCHANGED <<prompts, phase, sid, out>>
  BY DEF Teardown, storeVars
<1>2. pc \in [Conn -> {"idle", "requested", "snapshot", "parked", "leaving"}]
  BY DEF StreamInv, TypeOK
<1>3. Serving' /\ Attached' = Attached \ {c}
  BY <1>1, <1>2 DEF Serving, Attached
<1>4. \A d : SentRows(d)' = SentRows(d)
  BY <1>1 DEF SentRows
<1>5. Published' = Published
  BY <1>1, SamePublished
<1>6. Reads' = [Reads EXCEPT ![c] = NoSession]
  BY <1>1, <1>3 DEF Reads
<1>7. SentNumbers' = [SentNumbers EXCEPT ![c] = {}]
  <2>1. SentNumbers'[c] = {}
    BY <1>3 DEF SentNumbers
  <2>2. \A d \in Conn : d # c => SentNumbers'[d] = SentNumbers[d]
    BY <1>1, <1>3, <1>4 DEF SentNumbers
  <2> QED BY <2>1, <2>2 DEF SentNumbers
<1> QED BY <1>5, <1>6, <1>7 DEF Feed!Leave, Published

\* A handler that moves on while it stays attached, or while it is not, is not
\* seen by the readers.
LEMMA HandlerStutters ==
  ASSUME StreamInv, NEW c \in Conn,
         \/ \E s \in Sid : Request(c, s)
         \/ Refuse(c) \/ TooMany(c) \/ Park(c) \/ Abort(c)
  PROVE  UNCHANGED Feed!feedVars
<1>1. pc \in [Conn -> {"idle", "requested", "snapshot", "parked", "leaving"}]
      /\ out \in [Conn -> Seq(Frame)] /\ sid \in [Conn -> Sid]
  BY DEF StreamInv, TypeOK
<1>2. UNCHANGED <<prompts, phase>> /\ Attached' = Attached
  BY <1>1 DEF Request, Refuse, TooMany, Respond, Park, Abort, Attached, storeVars
<1>3. \A d \in Attached : sid'[d] = sid[d] /\ out'[d] = out[d]
  BY <1>1 DEF Request, Refuse, TooMany, Respond, Park, Abort, Attached
<1>4. Reads' = Reads /\ SentNumbers' = SentNumbers
  BY <1>2, <1>3, SameReaders DEF SentRows, Serving
<1> QED BY <1>2, <1>4, SamePublished DEF Feed!feedVars, Published

\* The close frame carries no prompt, and streams that are told to close are
\* attached until they are torn down.
LEMMA CloseAllStutters ==
  ASSUME StreamInv, CloseAllStreams
  PROVE  UNCHANGED Feed!feedVars
<1>1. /\ registry = {d \in Conn : pc[d] = "parked"}
      /\ out \in [Conn -> Seq(Frame)]
  BY DEF StreamInv, TypeOK, NoLeak
<1>2. prompts' = prompts /\ sid' = sid /\ Serving /\ Serving' /\ Attached' = Attached
  BY <1>1 DEF CloseAllStreams, Serving, Attached, storeVars
<1>3. ASSUME NEW d \in Conn PROVE SentRows(d)' = SentRows(d)
  <2> DEFINE f == [ev |-> "close", rows |-> {}]
  <2>1. f \in Frame /\ f.rows = {} /\ out[d] \in Seq(Frame)
    BY <1>1 DEF Frame
  <2>2. out'[d] = out[d] \/ out'[d] = Append(out[d], f)
    BY DEF CloseAllStreams
  <2> HIDE DEF f
  <2>3. FrameRows(Append(out[d], f)) = FrameRows(out[d]) \cup f.rows
    BY <2>1, AppendFrame
  <2> QED BY <2>1, <2>2, <2>3 DEF SentRows
<1>4. Reads' = Reads /\ SentNumbers' = SentNumbers
  BY <1>2, <1>3, SameReaders DEF Attached
<1> QED BY <1>2, <1>4, SamePublished DEF Feed!feedVars, Published

\* The process stops, by itself or not, or starts again.
LEMMA ProcessStep ==
  ASSUME CloseServer \/ Drained \/ HardExit \/ Crash \/ Restart
  PROVE  Feed!Stop \/ UNCHANGED Feed!feedVars
<1>1. prompts' = prompts
  BY DEF CloseServer, Drained, HardExit, Crash, Restart, storeVars
<1>2. Published' = Published
  BY <1>1, SamePublished
<1>3. CASE CloseServer
  BY <1>2, <1>3 DEF CloseServer, connVars, Feed!feedVars, Published, Reads, SentNumbers,
                    Serving, Attached, SentRows
<1>4. CASE Drained \/ HardExit \/ Crash
  BY <1>2, <1>4, NoReaders DEF Drained, HardExit, Crash, Serving, Feed!Stop, Published
<1>5. CASE Restart
  <2>1. ~Serving /\ Attached' = {}
    BY <1>5 DEF Restart, Serving, Attached
  <2> QED BY <1>2, <2>1 DEF Feed!feedVars, Published, Reads, SentNumbers
<1> QED BY <1>3, <1>4, <1>5

\* The server implements the live feed: every subscriber is given an unbroken
\* run of its session's prompts that ends with the latest one, whatever
\* ingests, requests, aborts, shutdowns and crashes interleave (stream.ts,
\* emitter.ts, ingest.ts, index.ts).
THEOREM ImplementsLiveFeed == Spec => ImplementsFeed
<1>1. StreamInv /\ [Next]_vars => [Feed!FeedNext]_(Feed!feedVars)
  <2> SUFFICES ASSUME StreamInv, [Next]_vars
               PROVE  Feed!FeedNext \/ UNCHANGED Feed!feedVars
    OBVIOUS
  <2>1. CASE \E k \in Claude : Ingest(k) \/ IngestThenCrash(k)
    BY <2>1, IngestPublishes, IngestThenCrashStops DEF Feed!FeedNext
  <2>2. CASE \E row \in sessions : DeleteSession(row)
    BY <2>2, DeleteDiscards DEF Feed!FeedNext
  <2>3. ASSUME NEW c \in Conn,
               \/ \E s \in Sid : Request(c, s)
               \/ Refuse(c) \/ TooMany(c) \/ Park(c) \/ Abort(c)
        PROVE  UNCHANGED Feed!feedVars
    BY <2>3, HandlerStutters
  <2>4. ASSUME NEW c \in Conn, Subscribe(c) \/ Teardown(c)
        PROVE  Feed!FeedNext
    BY <2>4, SubscribeJoins, TeardownLeaves DEF Feed!FeedNext
  <2>5. CASE CloseAllStreams
    BY <2>5, CloseAllStutters
  <2>6. CASE CloseServer \/ Drained \/ HardExit \/ Crash \/ Restart
    BY <2>6, ProcessStep DEF Feed!FeedNext
  <2>7. CASE UNCHANGED vars
    BY <2>7 DEF vars, Feed!feedVars, Reads, SentNumbers, Serving, Attached, SentRows, PromptsOf
  <2> QED BY <2>1, <2>2, <2>3, <2>4, <2>5, <2>6, <2>7 DEF Next
<1> QED BY <1>1, InitIsFeedInit, StreamInvariant, PTL DEF Spec, ImplementsFeed, Feed!FeedSpec
=============================================================================
