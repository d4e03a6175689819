------------------------- MODULE HookDeliveryProofs -------------------------
(***************************************************************************)
(* No prompt is dropped or needlessly repeated between the hook and the     *)
(* table, for every number of prompts, Claude sessions and tokens, and for  *)
(* every way in which timeouts, restarts, deletions and lost requests meet. *)
(*                                                                          *)
(* HookInv adds to the properties of HookDelivery what makes them           *)
(* inductive.  An answer on its way says what happened to the row; a        *)
(* request that is over can add no row any more, so that a prompt typed     *)
(* after that is later in the table; and while no appends met, only the     *)
(* last line of the queue may still be growing.                             *)
(***************************************************************************)
EXTENDS HookDelivery, PromptStoreProofs

\* Prompts are numbered in the order they are typed.
TypedInOrder ==
  \A d, e \in Event : d < e /\ hook[e] # "none" => hook[d] # "none"

\* A request that goes on has neither a row nor an answer; an answer is 201
\* exactly if there is a row.
AnswerTellsRow ==
  \A e \in Event :
    /\ hook[e] = "none" <=> req[e] = "none"
    /\ req[e] # "over" => code[e] = NoCode /\ row[e] = NoRow
    /\ code[e] # NoCode => (code[e] = 201 <=> row[e] # NoRow)

HasPiece(e, i) == \E j \in 1 .. Len(queue) : queue[j] = Pieces(e)[i]

\* Between its two appends a process has made the first.
RestHasFirst ==
  \A e \in Event : hook[e] = "rest" => Len(Pieces(e)) = 2 /\ HasPiece(e, 1)

\* The rows the requests made are in the order in which the requests were the
\* only ones for their session, and carry its prompts.
RowsInOrder ==
  /\ \A e \in Event : row[e] # NoRow => row[e] < nextPid
  /\ \A d, e \in Event : d < e /\ hook[e] # "none" /\ d \notin with[e] =>
       /\ req[d] = "over"
       /\ row[d] # NoRow /\ row[e] # NoRow => row[d] < row[e]
  /\ \A p, q \in prompts : p.sid = q.sid /\ p.id < q.id => p.seq < q.seq
  /\ \A e \in Event, p \in prompts : p.id = row[e] =>
       \E r \in sessions : r.id = p.sid /\ r.claude = from[e]

Whole(i) ==
  LET e == queue[i].of
      last == i + Len(Pieces(e)) - 1
  IN  /\ last <= Len(queue)
      /\ \A j \in i .. last : queue[j] = [of |-> e, ends |-> j = last]

Growing(i) == i = Len(queue) /\ hook[queue[i].of] = "rest"

\* While no appends met, at most one process is between its two, and its piece
\* is the last in the file.
LastLineGrows ==
  apart =>
    /\ \A d, e \in Event : hook[d] = "rest" /\ hook[e] = "rest" => d = e
    /\ \A e \in Event : hook[e] = "rest" =>
         Len(queue) > 0 /\ queue[Len(queue)] = Pieces(e)[1] /\ Starts(Len(queue))
    /\ (\A e \in Event : hook[e] # "rest") => Starts(Len(queue) + 1)
    /\ \A i \in 1 .. Len(queue) : Starts(i) => Whole(i) \/ Growing(i)

\* Only typed prompts are in the queue.
QueueTyped == \A i \in 1 .. Len(queue) : hook[queue[i].of] # "none"

HookInv ==
  /\ TypeOK
  /\ StoreInv
  /\ TypedInOrder
  /\ AnswerTellsRow
  /\ StoredOrQueued
  /\ RestHasFirst
  /\ RowsInOrder
  /\ QueueTyped
  /\ LastLineGrows

----------------------------------------------------------------------------
(* Types and the store *)

\* The pieces of a body: one that ends, or two of which the last ends.
LEMMA PiecesAre ==
  ASSUME NEW e \in Event
  PROVE  /\ Len(Pieces(e)) \in {1, 2}
         /\ Len(Pieces(e)) = 1 => Pieces(e)[1] = [of |-> e, ends |-> TRUE]
         /\ Len(Pieces(e)) = 2 => /\ Pieces(e)[1] = [of |-> e, ends |-> FALSE]
                                  /\ Pieces(e)[2] = [of |-> e, ends |-> TRUE]
  BY DEF Pieces

LEMMA QueuePiece ==
  ASSUME TypeOK
  PROVE  /\ queue \in Seq([of : Event, ends : BOOLEAN])
         /\ \A i \in 1 .. Len(queue) : queue[i] \in [of : Event, ends : BOOLEAN]
<1>1. queue \in Seq([of : Event, ends : BOOLEAN])
  BY DEF TypeOK
<1>2. ASSUME NEW S, NEW q \in Seq(S), NEW i \in 1 .. Len(q) PROVE q[i] \in S
  BY <1>2
<1> QED BY <1>1, <1>2

LEMMA HookInit == Init => HookInv
<1> SUFFICES ASSUME Init PROVE HookInv
  OBVIOUS
<1>1. StoreInv
  BY StoreInitInv DEF Init
<1>2. from \in [Event -> Claude]
  BY HookAssumption DEF Init
<1>3. TypeOK
  BY <1>1, <1>2, HookAssumption DEF Init, TypeOK, StoreInv, NoCode, NoRow
<1>4. queue = <<>> /\ Len(queue) = 0 /\ 1 .. Len(queue) = {}
  BY DEF Init
<1>5. \A e \in Event : hook[e] = "none" /\ req[e] = "none" /\ code[e] = NoCode /\ row[e] = NoRow
  BY DEF Init
<1>6. TypedInOrder /\ AnswerTellsRow /\ StoredOrQueued /\ RestHasFirst /\ QueueTyped
  BY <1>4, <1>5 DEF TypedInOrder, AnswerTellsRow, StoredOrQueued, RestHasFirst, QueueTyped
<1>7. RowsInOrder
  <2>1. prompts = {}
    BY DEF Init, StoreInit
  <2> QED BY <2>1, <1>5 DEF RowsInOrder
<1>8. LastLineGrows
  BY <1>4, <1>5 DEF LastLineGrows, Starts
<1> QED BY <1>1, <1>3, <1>6, <1>7, <1>8 DEF HookInv

\* The prompt of Submit is the first that was not typed.
LEMMA SubmitTypesNext ==
  ASSUME TypeOK, TypedInOrder, NEW k \in Claude, NEW kd \in Kinds, Submit(k, kd)
  PROVE  \E e \in Event :
           /\ hook[e] = "none"
           /\ \A d \in Event : d < e <=> hook[d] # "none"
           /\ from' = [from EXCEPT ![e] = k]
           /\ kind' = [kind EXCEPT ![e] = kd]
           /\ with' = [with EXCEPT ![e] = {d \in Event : req[d] \in {"sent", "admitted"}}]
           /\ hook' = [hook EXCEPT ![e] = IF Reshaped(kd) THEN "sending" ELSE "done"]
           /\ req' = [req EXCEPT ![e] = IF Reshaped(kd) THEN "sent" ELSE "over"]
           /\ UNCHANGED <<storeVars, code, row, tokens, queue, apart>>
<1> DEFINE e == Cardinality(Typed) + 1
<1>1. e \in Event
  BY DEF Submit
<1>2. MaxEvent \in Nat /\ Event \in SUBSET Nat /\ Typed \in SUBSET Event
  BY HookAssumption DEF Event, Typed
<1>3. Typed = 1 .. Cardinality(Typed)
  <2>1. CASE Typed = {}
    BY <2>1, FS_EmptySet
  <2>2. CASE Typed # {}
    <3>1. \A d \in Typed : d <= MaxEvent
      BY <1>2 DEF Event
    <3>2. PICK m \in Typed : \A d \in Typed : d <= m
      BY <3>1, <1>2, <2>2, GreatestElement
    <3>3. Typed = 1 .. m
      <4>1. \A d \in Typed : d \in 1 .. m
        BY <3>2, <1>2 DEF Event
      <4>2. ASSUME NEW d \in 1 .. m PROVE d \in Typed
        <5>1. m \in Event /\ hook[m] # "none"
          BY <3>2 DEF Typed
        <5>2. d \in Event /\ (d = m \/ d < m)
          BY <5>1, <1>2 DEF Event
        <5> QED BY <5>1, <5>2 DEF TypedInOrder, Typed
      <4> QED BY <4>1, <4>2
    <3>4. m \in Nat /\ m >= 1
      BY <1>2 DEF Event
    <3>5. Cardinality(1 .. m) = m
      BY <3>4, FS_Interval
    <3> QED BY <3>3, <3>5
  <2> QED BY <2>1, <2>2
<1>4. \A d \in Event : d < e <=> d \in Typed
  <2>1. Cardinality(Typed) + 1 \in 1 .. MaxEvent
    BY <1>1 DEF Event
  <2>2. IsFiniteSet(Typed)
    <3>1. IsFiniteSet(1 .. MaxEvent)
      BY <1>2, FS_Interval
    <3> QED BY <3>1, <1>2, FS_Subset DEF Event
  <2>3. Cardinality(Typed) \in Nat
    BY <2>2, FS_CardinalityType
  <2>4. \A d \in Event : d \in Typed <=> d \in 1 .. Cardinality(Typed)
    BY <1>3
  <2>5. \A d \in Event : d \in Nat /\ d >= 1
    BY DEF Event
  <2> QED BY <2>3, <2>4, <2>5
<1>5. e \in Nat
  BY <1>1, <1>2
<1>6. hook[e] = "none" /\ \A d \in Event : d < e <=> hook[d] # "none"
  <2>1. e \notin Typed
    BY <1>1, <1>4, <1>5
  <2> QED BY <2>1, <1>1, <1>4 DEF Typed
<1> HIDE DEF e
<1>7. /\ from' = [from EXCEPT ![e] = k]
      /\ kind' = [kind EXCEPT ![e] = kd]
      /\ with' = [with EXCEPT ![e] = {d \in Event : req[d] \in {"sent", "admitted"}}]
      /\ hook' = [hook EXCEPT ![e] = IF Reshaped(kd) THEN "sending" ELSE "done"]
      /\ req' = [req EXCEPT ![e] = IF Reshaped(kd) THEN "sent" ELSE "over"]
      /\ UNCHANGED <<storeVars, code, row, tokens, queue, apart>>
  BY Zenon DEF Submit, e
<1> QED BY <1>1, <1>6, <1>7

\* Only the transaction and a deletion touch the tables.
LEMMA StoreKept ==
  ASSUME TypeOK, StoreInv, [Next]_hookVars
  PROVE  StoreInv'
<1>1. ASSUME NEW e \in Event, Store(e) PROVE StoreInv'
  <2>1. from[e] \in Claude
    BY DEF TypeOK
  <2> QED BY <1>1, <2>1, IngestPreservesStore DEF Store
<1>2. ASSUME NEW s \in sessions, DeleteSession(s) PROVE StoreInv'
  BY <1>2, DeletePreservesStore DEF DeleteSession
<1>3. CASE UNCHANGED storeVars
  BY <1>3, StutterPreservesStore
<1>4. ASSUME NEW k \in Claude, NEW kd \in Kinds, Submit(k, kd) PROVE UNCHANGED storeVars
  BY <1>4 DEF Submit
<1>5. ASSUME NEW e \in Event,
             Answered(e) \/ GivesUp(e) \/ Queue(e) \/ QueueRest(e) \/ QueueFails(e) \/ Kill(e)
               \/ Admit(e) \/ Invalid(e) \/ Lose(e)
      PROVE  UNCHANGED storeVars
  BY <1>5 DEF Answered, GivesUp, Queue, QueueRest, QueueFails, Kill, Admit, Invalid, Lose, Refuse
<1>6. Restart \/ TimePasses \/ UNCHANGED hookVars => UNCHANGED storeVars
  BY DEF Restart, TimePasses, hookVars
<1> QED BY <1>1, <1>2, <1>3, <1>4, <1>5, <1>6 DEF Next

LEMMA SubmitStep ==
  ASSUME HookInv, NEW k \in Claude, NEW kd \in Kinds, Submit(k, kd)
  PROVE  HookInv'
<1>1. PICK e \in Event :
           /\ hook[e] = "none"
           /\ \A d \in Event : d < e <=> hook[d] # "none"
           /\ from' = [from EXCEPT ![e] = k]
           /\ kind' = [kind EXCEPT ![e] = kd]
           /\ with' = [with EXCEPT ![e] = {d \in Event : req[d] \in {"sent", "admitted"}}]
           /\ hook' = [hook EXCEPT ![e] = IF Reshaped(kd) THEN "sending" ELSE "done"]
           /\ req' = [req EXCEPT ![e] = IF Reshaped(kd) THEN "sent" ELSE "over"]
           /\ UNCHANGED <<storeVars, code, row, tokens, queue, apart>>
  BY SubmitTypesNext DEF HookInv
<1>2. UNCHANGED <<sessions, prompts, nextSid, nextPid, code, row, tokens, queue, apart>>
  BY <1>1 DEF storeVars
<1>3. StoreInv'
  BY <1>1, StutterPreservesStore DEF HookInv
<1>4. TypeOK'
  <2>1. kd \in {"short", "long", "wide", "odd", "cut"}
    BY HookAssumption
  <2> QED BY <1>1, <1>2, <1>3, <2>1 DEF HookInv, TypeOK, StoreInv
<1>5. /\ \A d \in Event \ {e} : /\ hook'[d] = hook[d] /\ req'[d] = req[d] /\ from'[d] = from[d]
                                /\ kind'[d] = kind[d] /\ with'[d] = with[d]
      /\ hook'[e] = (IF Reshaped(kd) THEN "sending" ELSE "done")
      /\ req'[e] = (IF Reshaped(kd) THEN "sent" ELSE "over")
      /\ kind'[e] = kd
      /\ with'[e] = {d \in Event : req[d] \in {"sent", "admitted"}}
  BY <1>1 DEF HookInv, TypeOK
<1>6. Event \in SUBSET Nat
  BY DEF Event
<1>7. TypedInOrder'
  <2> SUFFICES ASSUME NEW d \in Event, NEW f \in Event, d < f, hook'[f] # "none"
               PROVE  hook'[d] # "none"
    BY DEF TypedInOrder
  <2> QED BY <1>1, <1>5, <1>6 DEF HookInv, TypedInOrder
<1>8. AnswerTellsRow'
  BY <1>1, <1>2, <1>5 DEF HookInv, AnswerTellsRow
<1>9. \A d \in Event \ {e} : Pieces(d)' = Pieces(d)
  BY <1>5 DEF Pieces
<1>10. StoredOrQueued'
  <2>1. ASSUME NEW d \in Event \ {e} , hook'[d] = "done"
        PROVE  \/ ~Reshaped(kind'[d])
               \/ row'[d] # NoRow
               \/ \A i \in 1 .. Len(Pieces(d)') : \E j \in 1 .. Len(queue') : queue'[j] = Pieces(d)'[i]
    BY <2>1, <1>2, <1>5, <1>9 DEF HookInv, StoredOrQueued
  <2>2. hook'[e] = "done" => ~Reshaped(kind'[e])
    BY <1>5
  <2> QED BY <2>1, <2>2 DEF StoredOrQueued
<1>11. RestHasFirst'
  <2>1. \A d \in Event : hook'[d] = "rest" => d # e /\ hook[d] = "rest"
    BY <1>5
  <2> QED BY <2>1, <1>2, <1>9 DEF HookInv, RestHasFirst, HasPiece
<1>12. RowsInOrder'
  <2>1. \A d \in Event : row'[d] # NoRow => row'[d] < nextPid'
    BY <1>2 DEF HookInv, RowsInOrder
  <2>2. ASSUME NEW d \in Event, NEW f \in Event, d < f, hook'[f] # "none", d \notin with'[f]
        PROVE  req'[d] = "over" /\ (row'[d] # NoRow /\ row'[f] # NoRow => row'[d] < row'[f])
    <3>1. CASE f = e
      <4>1. d # e /\ hook[d] # "none"
        BY <3>1, <2>2, <1>1, <1>6
      <4>2. req[d] \in {"none", "sent", "admitted", "over"} /\ req[d] \notin {"sent", "admitted"}
        BY <3>1, <2>2, <1>5 DEF HookInv, TypeOK
      <4>3. req[d] = "over"
        BY <4>1, <4>2 DEF HookInv, AnswerTellsRow
      <4>4. row'[f] = NoRow
        BY <3>1, <1>1, <1>2 DEF HookInv, AnswerTellsRow
      <4> QED BY <4>1, <4>3, <4>4, <1>5
    <3>2. CASE f # e
      <4>1. hook[f] # "none" /\ d \notin with[f]
        BY <3>2, <2>2, <1>5
      <4>2. d # e
        BY <4>1, <2>2, <1>1, <1>6
      <4> QED BY <4>1, <4>2, <2>2, <1>2, <1>5 DEF HookInv, RowsInOrder
    <3> QED BY <3>1, <3>2
  <2>3. \A p, q \in prompts' : p.sid = q.sid /\ p.id < q.id => p.seq < q.seq
    BY <1>2 DEF HookInv, RowsInOrder
  <2>4. ASSUME NEW f \in Event, NEW p \in prompts', p.id = row'[f]
        PROVE  \E r \in sessions' : r.id = p.sid /\ r.claude = from'[f]
    <3>1. p \in prompts /\ p.id \in Pid
      BY <1>2 DEF HookInv, TypeOK, StoreTypeOK, PromptRow
    <3>2. row[f] # NoRow
      BY <3>1, <2>4, <1>2 DEF Pid, NoRow
    <3>3. f # e
      BY <3>2, <1>1 DEF HookInv, AnswerTellsRow
    <3> QED BY <3>1, <3>3, <2>4, <1>2, <1>5 DEF HookInv, RowsInOrder
  <2> QED BY <2>1, <2>2, <2>3, <2>4 DEF RowsInOrder
<1>13. QueueTyped'
  BY <1>1, <1>2, <1>5 DEF HookInv, QueueTyped, TypeOK
<1>14. LastLineGrows'
  <2>1. ASSUME NEW i \in 1 .. Len(queue)
        PROVE  /\ queue[i].of \in Event \ {e}
               /\ Whole(i)' = Whole(i)
               /\ Growing(i)' = Growing(i)
    <3>1. queue[i].of \in Event \ {e}
      <4>1. queue[i] \in [of : Event, ends : BOOLEAN]
        BY QueuePiece DEF HookInv
      <4> QED BY <4>1, <1>1 DEF HookInv, QueueTyped
    <3>2. kind'[queue[i].of] = kind[queue[i].of] /\ hook'[queue[i].of] = hook[queue[i].of]
      BY <3>1, <1>5
    <3> QED BY <3>1, <3>2, <1>2 DEF Whole, Growing, Pieces
  <2>2. \A i : Starts(i)' = Starts(i)
    BY <1>2 DEF Starts
  <2>3. \A d \in Event : hook'[d] = "rest" <=> hook[d] = "rest"
    BY <1>1, <1>5
  <2>4. \A d \in Event : hook'[d] = "rest" => d # e
    BY <1>5
  <2> QED BY <2>1, <2>2, <2>3, <2>4, <1>2, <1>9 DEF HookInv, LastLineGrows
<1> QED BY <1>3, <1>4, <1>7, <1>8, <1>10, <1>11, <1>12, <1>13, <1>14 DEF HookInv

----------------------------------------------------------------------------
(* Steps that leave the file, or the tables, alone *)

LEMMA FileUntouched ==
  ASSUME HookInv, UNCHANGED <<kind, queue>>, apart' => apart,
         \A d \in Event : hook'[d] = "none" <=> hook[d] = "none",
         \A d \in Event : hook'[d] = "rest" => hook[d] = "rest",
         apart' => \A d \in Event : hook[d] = "rest" => hook'[d] = "rest"
  PROVE  RestHasFirst' /\ QueueTyped' /\ LastLineGrows'
<1>1. \A d \in Event : Pieces(d)' = Pieces(d)
  BY DEF Pieces
<1>2. RestHasFirst'
  BY <1>1 DEF HookInv, RestHasFirst, HasPiece
<1>3. \A i \in 1 .. Len(queue) : queue[i].of \in Event
  BY QueuePiece DEF HookInv
<1>4. QueueTyped'
  BY <1>3 DEF HookInv, QueueTyped
<1>5. LastLineGrows'
  <2> SUFFICES ASSUME apart' PROVE LastLineGrows'
    BY DEF LastLineGrows
  <2>1. \A d \in Event : hook'[d] = "rest" <=> hook[d] = "rest"
    OBVIOUS
  <2>2. ASSUME NEW i \in 1 .. Len(queue)
        PROVE  Whole(i)' = Whole(i) /\ Growing(i)' = Growing(i)
    BY <2>1, <1>3 DEF Whole, Growing, Pieces
  <2>3. \A i : Starts(i)' = Starts(i)
    BY DEF Starts
  <2> QED BY <2>1, <2>2, <2>3, <1>1 DEF HookInv, LastLineGrows
<1> QED BY <1>2, <1>4, <1>5

LEMMA RowsUntouched ==
  ASSUME HookInv, UNCHANGED <<from, with, row, sessions, prompts, nextPid>>,
         \A d \in Event : hook'[d] = "none" <=> hook[d] = "none",
         \A d \in Event : req[d] = "over" => req'[d] = "over"
  PROVE  TypedInOrder' /\ RowsInOrder'
<1>1. TypedInOrder'
  BY DEF HookInv, TypedInOrder
<1>2. RowsInOrder'
  BY DEF HookInv, RowsInOrder
<1> QED BY <1>1, <1>2

----------------------------------------------------------------------------
(* The client's steps *)

\* A step of a process that is not an append: the answer, the end of curl, a
\* queue that cannot be written, the end of the process.
LEMMA ProcessStep ==
  ASSUME HookInv, NEW e \in Event,
         Answered(e) \/ GivesUp(e) \/ QueueFails(e) \/ Kill(e)
  PROVE  HookInv'
<1>1. /\ UNCHANGED <<from, kind, with, req, row, tokens, queue>>
      /\ UNCHANGED <<sessions, prompts, nextSid, nextPid>>
      /\ \A d \in Event \ {e} : hook'[d] = hook[d] /\ code'[d] = code[d]
      /\ code'[e] \in {code[e], NoCode}
      /\ hook[e] \in {"sending", "queueing", "rest"}
      /\ hook'[e] \in {"done", "queueing", "unqueued", "killed"}
      /\ hook'[e] = "done" => code[e] # NoCode /\ Taken(code[e])
      /\ hook' \in [Event -> {"none", "sending", "queueing", "rest", "done", "unqueued", "killed"}]
      /\ code' \in [Event -> Codes \cup {NoCode}]
      /\ apart' \in BOOLEAN
      /\ apart' => apart /\ hook[e] # "rest"
  <2>1. CASE Answered(e)
    BY <2>1 DEF HookInv, TypeOK, Answered, prompt, storeVars
  <2>2. CASE GivesUp(e)
    BY <2>2 DEF HookInv, TypeOK, GivesUp, TimesOut, prompt, storeVars
  <2>3. CASE QueueFails(e)
    BY <2>3 DEF HookInv, TypeOK, QueueFails, prompt, storeVars
  <2>4. CASE Kill(e)
    BY <2>4 DEF HookInv, TypeOK, Kill, prompt, storeVars
  <2> QED BY <2>1, <2>2, <2>3, <2>4
<1>2. StoreInv'
  BY <1>1, StutterPreservesStore DEF HookInv, storeVars
<1>3. TypeOK'
  BY <1>1, <1>2 DEF HookInv, TypeOK, StoreInv
<1>4. TypedInOrder' /\ RowsInOrder'
  BY <1>1, RowsUntouched
<1>5. RestHasFirst' /\ QueueTyped' /\ LastLineGrows'
  BY <1>1, FileUntouched
<1>6. AnswerTellsRow'
  BY <1>1 DEF HookInv, AnswerTellsRow
<1>7. StoredOrQueued'
  <2>1. hook'[e] = "done" => row'[e] # NoRow
    <3>1. code[e] \in Codes \cup {NoCode}
      BY DEF HookInv, TypeOK
    <3>2. code[e] # NoCode /\ Taken(code[e]) => code[e] = 201
      BY <3>1 DEF Codes, Taken
    <3> QED BY <3>2, <1>1 DEF HookInv, AnswerTellsRow
  <2>2. \A d \in Event : Pieces(d)' = Pieces(d)
    BY <1>1 DEF Pieces
  <2> QED BY <2>1, <2>2, <1>1 DEF HookInv, StoredOrQueued
<1> QED BY <1>2, <1>3, <1>4, <1>5, <1>6, <1>7 DEF HookInv

\* What an append does to the types, the tables and the answers.
LEMMA AppendKeeps ==
  ASSUME HookInv, NEW e \in Event, NEW x \in [of : Event, ends : BOOLEAN],
         queue' = Append(queue, x),
         hook[e] \in {"queueing", "rest"},
         NEW h \in {"rest", "done"}, hook' = [hook EXCEPT ![e] = h],
         apart' \in BOOLEAN, x.of = e,
         UNCHANGED <<storeVars, prompt, req, code, row, tokens>>
  PROVE  /\ TypeOK' /\ StoreInv' /\ TypedInOrder' /\ AnswerTellsRow' /\ RowsInOrder'
         /\ QueueTyped'
         /\ Len(queue') = Len(queue) + 1 /\ Len(queue) \in Nat
         /\ \A i \in 1 .. Len(queue) : queue'[i] = queue[i]
         /\ queue'[Len(queue) + 1] = x
<1>1. UNCHANGED <<from, kind, with, sessions, prompts, nextSid, nextPid>>
  BY DEF storeVars, prompt
<1>2. StoreInv'
  BY StutterPreservesStore DEF HookInv
<1>3. queue \in Seq([of : Event, ends : BOOLEAN])
  BY QueuePiece DEF HookInv
<1>4. /\ queue' \in Seq([of : Event, ends : BOOLEAN])
      /\ Len(queue') = Len(queue) + 1 /\ Len(queue) \in Nat
      /\ \A i \in 1 .. Len(queue) : queue'[i] = queue[i]
      /\ queue'[Len(queue) + 1] = x
  BY <1>3
<1>5. /\ hook' \in [Event -> {"none", "sending", "queueing", "rest", "done", "unqueued", "killed"}]
      /\ \A d \in Event \ {e} : hook'[d] = hook[d]
      /\ hook'[e] = h
  BY DEF HookInv, TypeOK
<1>6. TypeOK'
  BY <1>1, <1>2, <1>4, <1>5 DEF HookInv, TypeOK, StoreInv
<1>7. TypedInOrder' /\ RowsInOrder'
  BY <1>1, <1>5, RowsUntouched
<1>8. AnswerTellsRow'
  BY <1>5 DEF HookInv, AnswerTellsRow
<1>9. QueueTyped'
  <2> SUFFICES ASSUME NEW i \in 1 .. Len(queue') PROVE hook'[queue'[i].of] # "none"
    BY DEF QueueTyped
  <2>1. CASE i \in 1 .. Len(queue)
    <3>1. queue'[i] = queue[i] /\ hook[queue[i].of] # "none" /\ queue[i].of \in Event
      BY <2>1, <1>4, QueuePiece DEF HookInv, QueueTyped
    <3> QED BY <3>1, <1>5
  <2>2. CASE i = Len(queue) + 1
    BY <2>2, <1>4, <1>5
  <2> QED BY <2>1, <2>2, <1>4
<1> QED BY <1>2, <1>4, <1>6, <1>7, <1>8, <1>9

\* A whole line stays whole when the file grows.
LEMMA WholeStays ==
  ASSUME TypeOK, NEW i \in 1 .. Len(queue), Whole(i), UNCHANGED kind,
         Len(queue) \in Nat, Len(queue') = Len(queue) + 1,
         \A j \in 1 .. Len(queue) : queue'[j] = queue[j]
  PROVE  Whole(i)'
<1>1. PICK d \in Event : d = queue[i].of
  BY QueuePiece
<1>2. queue'[i] = queue[i]
  OBVIOUS
<1>3. Len(Pieces(d)) \in {1, 2}
  BY PiecesAre
<1> QED BY <1>1, <1>2, <1>3 DEF Whole, Pieces

LEMMA QueueStep ==
  ASSUME HookInv, NEW e \in Event, Queue(e)
  PROVE  HookInv'
<1> DEFINE x == Pieces(e)[1]
           h == IF Len(Pieces(e)) = 1 THEN "done" ELSE "rest"
<1>1. /\ x \in [of : Event, ends : BOOLEAN] /\ x.of = e /\ h \in {"rest", "done"}
      /\ h = "done" => Len(Pieces(e)) = 1 /\ x = [of |-> e, ends |-> TRUE]
      /\ h = "rest" => Len(Pieces(e)) = 2 /\ x = [of |-> e, ends |-> FALSE]
  <2>1. CASE Len(Pieces(e)) = 1
    <3>1. x = [of |-> e, ends |-> TRUE]
      BY <2>1, PiecesAre
    <3> QED BY <3>1, <2>1
  <2>2. CASE Len(Pieces(e)) = 2
    <3>1. x = [of |-> e, ends |-> FALSE]
      BY <2>2, PiecesAre
    <3> QED BY <3>1, <2>2
  <2> QED BY <2>1, <2>2, PiecesAre
<1>2. /\ hook[e] = "queueing"
      /\ queue' = Append(queue, x)
      /\ hook' = [hook EXCEPT ![e] = h]
      /\ apart' = (apart /\ \A d \in Event : hook[d] # "rest")
      /\ UNCHANGED <<storeVars, prompt, req, code, row, tokens>>
  BY DEF Queue
<1>3. apart' \in BOOLEAN /\ (apart' => apart /\ \A d \in Event : hook[d] # "rest")
  BY <1>2
<1> HIDE DEF x, h
<1>4. /\ TypeOK' /\ StoreInv' /\ TypedInOrder' /\ AnswerTellsRow' /\ RowsInOrder'
      /\ QueueTyped'
      /\ Len(queue') = Len(queue) + 1 /\ Len(queue) \in Nat
      /\ \A i \in 1 .. Len(queue) : queue'[i] = queue[i]
      /\ queue'[Len(queue) + 1] = x
  BY <1>1, <1>2, <1>3, AppendKeeps
<1>5. \A d \in Event : Pieces(d)' = Pieces(d)
  BY <1>2 DEF Pieces, prompt
<1>6. hook'[e] = h /\ \A d \in Event \ {e} : hook'[d] = hook[d]
  BY <1>2 DEF HookInv, TypeOK
<1>7. /\ HasPiece(e, 1)'
      /\ \A d \in Event, i \in {1, 2} : HasPiece(d, i) => HasPiece(d, i)'
  BY <1>4, <1>5 DEF HasPiece, x
<1>8. StoredOrQueued'
  <2>1. ASSUME NEW d \in Event, d # e, hook'[d] = "done"
        PROVE  \/ ~Reshaped(kind'[d])
               \/ row'[d] # NoRow
               \/ \A i \in 1 .. Len(Pieces(d)') : \E j \in 1 .. Len(queue') : queue'[j] = Pieces(d)'[i]
    BY <2>1, <1>2, <1>4, <1>5, <1>6 DEF HookInv, StoredOrQueued, prompt
  <2>2. ASSUME hook'[e] = "done", NEW i \in 1 .. Len(Pieces(e)')
        PROVE  \E j \in 1 .. Len(queue') : queue'[j] = Pieces(e)'[i]
    <3>1. Len(Pieces(e)') = 1
      BY <2>2, <1>1, <1>5, <1>6
    <3>2. i = 1
      BY <3>1
    <3> QED BY <3>2, <1>7 DEF HasPiece
  <2> QED BY <2>1, <2>2 DEF StoredOrQueued
<1>9. RestHasFirst'
  <2>1. \A d \in Event \ {e} : hook'[d] = "rest" => hook[d] = "rest"
    BY <1>6
  <2>2. hook'[e] = "rest" => Len(Pieces(e)) = 2
    BY <1>1, <1>6
  <2> QED BY <2>1, <2>2, <1>5, <1>7 DEF HookInv, RestHasFirst
<1>10. LastLineGrows'
  <2> SUFFICES ASSUME apart' PROVE LastLineGrows'
    BY DEF LastLineGrows
  <2>0. PICK n \in Nat : n = Len(queue)
    BY <1>4
  <2>1. /\ n \in Nat
        /\ \A d \in Event : hook[d] # "rest"
        /\ \A i \in 1 .. n : Starts(i) => Whole(i)
        /\ Starts(n + 1)
    <3>1. \A i \in 1 .. n : queue[i].of \in Event
      BY <2>0, QueuePiece DEF HookInv
    <3> QED BY <3>1, <2>0, <1>3, <1>4 DEF HookInv, LastLineGrows, Growing
  <2>2. \A d \in Event : hook'[d] = "rest" => d = e /\ h = "rest"
    BY <2>1, <1>6
  <2>3. \A i \in 1 .. n + 1 : Starts(i)' <=> Starts(i)
    BY <2>0, <2>1, <1>4 DEF Starts
  <2>4. ASSUME NEW i \in 1 .. n, Starts(i) PROVE Whole(i)'
    <3>1. Whole(i) /\ queue[i].of \in Event
      BY <2>0, <2>4, <2>1, QueuePiece DEF HookInv
    <3> QED BY <3>1, <2>0, <1>2, <1>4, WholeStays DEF HookInv, prompt
  <2>5. Whole(n + 1)' \/ Growing(n + 1)'
    <3>1. queue'[n + 1].of = e
      BY <1>1, <1>4, <2>0
    <3>2. CASE h = "rest"
      BY <3>1, <3>2, <1>4, <1>6, <2>0 DEF Growing
    <3>3. CASE h = "done"
      <4>1. Len(Pieces(e)') = 1 /\ queue'[n + 1] = [of |-> e, ends |-> TRUE]
        BY <3>3, <1>1, <1>4, <1>5, <2>0
      <4>2. \A j \in n + 1 .. n + 1 : j = n + 1
        BY <2>0
      <4>3. kind'[e] \notin {"long", "wide"}
        BY <4>1 DEF Pieces
      <4>4. Whole(n + 1)' <=>
              /\ n + 1 <= Len(queue')
              /\ \A j \in n + 1 .. n + 1 :
                   queue'[j] = [of |-> queue'[n + 1].of, ends |-> j = n + 1]
        <5>1. n + 1 + Len(Pieces(queue[n + 1].of)') - 1 = n + 1
          BY <4>3, <3>1, <2>0 DEF Pieces
        <5> QED BY <5>1 DEF Whole
      <4>5. \A j \in n + 1 .. n + 1 : [of |-> e, ends |-> j = n + 1] = [of |-> e, ends |-> TRUE]
        BY <4>2
      <4> QED BY <4>1, <4>2, <4>4, <4>5, <3>1, <1>4, <2>0
    <3> QED BY <3>2, <3>3, <1>1
  <2>6. h = "rest" => queue'[n + 1] = Pieces(e)'[1] /\ Starts(n + 1)'
    BY <2>0, <2>1, <2>3, <1>4, <1>5 DEF x
  <2>7. h = "done" => Starts(n + 2)'
    BY <1>1, <1>4, <2>0 DEF Starts
  <2>8. \A i \in 1 .. Len(queue') : Starts(i)' => Whole(i)' \/ Growing(i)'
    <3>1. \A i \in 1 .. Len(queue') : i \in 1 .. n \/ i = n + 1
      BY <1>4, <2>0
    <3> QED BY <3>1, <2>3, <2>4, <2>5, <1>4
  <2>9. (\A d \in Event : hook'[d] # "rest") => h = "done"
    BY <1>1, <1>6
  <2>10. Len(queue') = n + 1 /\ n + 1 + 1 = n + 2 /\ n + 1 > 0
    BY <2>0, <1>4
  <2> QED BY <2>2, <2>6, <2>7, <2>8, <2>9, <2>10, <1>4 DEF LastLineGrows
<1> QED BY <1>4, <1>8, <1>9, <1>10 DEF HookInv

LEMMA QueueRestStep ==
  ASSUME HookInv, NEW e \in Event, QueueRest(e)
  PROVE  HookInv'
<1> DEFINE x == [of |-> e, ends |-> TRUE]
<1>1. /\ hook[e] = "rest"
      /\ hook' = [hook EXCEPT ![e] = "done"]
      /\ UNCHANGED <<storeVars, prompt, req, code, row, tokens, apart>>
  BY DEF QueueRest
<1>2. /\ Len(Pieces(e)) = 2 /\ HasPiece(e, 1)
      /\ Pieces(e)[1] = [of |-> e, ends |-> FALSE] /\ Pieces(e)[2] = x
  BY <1>1, PiecesAre DEF HookInv, RestHasFirst
<1>3. queue' = Append(queue, x)
  BY <1>2 DEF QueueRest
<1>4. /\ TypeOK' /\ StoreInv' /\ TypedInOrder' /\ AnswerTellsRow' /\ RowsInOrder'
      /\ QueueTyped'
      /\ Len(queue') = Len(queue) + 1 /\ Len(queue) \in Nat
      /\ \A i \in 1 .. Len(queue) : queue'[i] = queue[i]
      /\ queue'[Len(queue) + 1] = x
  <2>1. x \in [of : Event, ends : BOOLEAN] /\ x.of = e
    OBVIOUS
  <2>2. apart' \in BOOLEAN
    BY <1>1 DEF HookInv, TypeOK
  <2> QED BY <1>1, <1>3, <2>1, <2>2, AppendKeeps
<1>5. \A d \in Event : Pieces(d)' = Pieces(d)
  BY <1>1 DEF Pieces, prompt
<1>6. hook'[e] = "done" /\ \A d \in Event \ {e} : hook'[d] = hook[d]
  BY <1>1 DEF HookInv, TypeOK
<1>7. /\ HasPiece(e, 2)'
      /\ \A d \in Event, i \in {1, 2} : HasPiece(d, i) => HasPiece(d, i)'
  <2>1. Len(queue) + 1 \in 1 .. Len(queue') /\ queue'[Len(queue) + 1] = Pieces(e)'[2]
    <3>1. Pieces(e)'[2] = x
      BY <1>2, <1>5
    <3> QED BY <3>1, <1>4
  <2>2. HasPiece(e, 2)'
    BY <2>1 DEF HasPiece
  <2>3. ASSUME NEW d \in Event, NEW i \in {1, 2}, HasPiece(d, i) PROVE HasPiece(d, i)'
    BY <2>3, <1>4, <1>5 DEF HasPiece
  <2> QED BY <2>2, <2>3
<1>8. StoredOrQueued'
  <2>1. ASSUME NEW d \in Event, d # e, hook'[d] = "done"
        PROVE  \/ ~Reshaped(kind'[d])
               \/ row'[d] # NoRow
               \/ \A i \in 1 .. Len(Pieces(d)') : \E j \in 1 .. Len(queue') : queue'[j] = Pieces(d)'[i]
    BY <2>1, <1>1, <1>4, <1>5, <1>6 DEF HookInv, StoredOrQueued, prompt
  <2>2. ASSUME NEW i \in 1 .. Len(Pieces(e)')
        PROVE  \E j \in 1 .. Len(queue') : queue'[j] = Pieces(e)'[i]
    <3>0. Len(Pieces(e)') = 2
      BY <1>2, <1>5
    <3>1. i \in {1, 2}
      BY <3>0
    <3>2. HasPiece(e, i)'
      BY <3>1, <1>2, <1>7
    <3> QED BY <3>2 DEF HasPiece
  <2> QED BY <2>1, <2>2 DEF StoredOrQueued
<1>9. RestHasFirst'
  <2>1. \A d \in Event : hook'[d] = "rest" => hook[d] = "rest"
    BY <1>6
  <2> QED BY <2>1, <1>5, <1>7 DEF HookInv, RestHasFirst
<1>10. LastLineGrows'
  <2> SUFFICES ASSUME apart' PROVE LastLineGrows'
    BY DEF LastLineGrows
  <2>0. PICK n \in Nat : n = Len(queue)
    BY <1>4
  <2>1. /\ n > 0 /\ queue[n] = [of |-> e, ends |-> FALSE] /\ Starts(n)
        /\ \A d \in Event : hook[d] = "rest" => d = e
        /\ \A i \in 1 .. n : Starts(i) => Whole(i) \/ i = n
    BY <2>0, <1>1, <1>2 DEF HookInv, LastLineGrows, Growing
  <2>2. \A d \in Event : hook'[d] # "rest"
    BY <2>1, <1>6
  <2>3. \A i \in 1 .. n + 1 : Starts(i)' <=> Starts(i)
    BY <2>0, <2>1, <1>4 DEF Starts
  <2>4. ASSUME NEW i \in 1 .. n, Starts(i), i # n PROVE Whole(i)'
    <3>1. Whole(i)
      BY <2>4, <2>1
    <3>2. kind' = kind
      BY <1>1 DEF prompt
    <3> QED BY <3>1, <3>2, <2>0, <1>4, WholeStays DEF HookInv
  <2>5. Whole(n)'
    <3>1. queue'[n] = [of |-> e, ends |-> FALSE] /\ queue'[n + 1] = x /\ queue'[n].of = e
      BY <2>0, <2>1, <1>4
    <3>2. Whole(n)' <=>
            /\ n + 1 <= Len(queue')
            /\ \A j \in n .. n + 1 :
                 queue'[j] = [of |-> queue'[n].of, ends |-> j = n + 1]
      <4>1. n + Len(Pieces(queue[n].of)') - 1 = n + 1
        <5>1. kind' = kind /\ kind[e] \in {"long", "wide"}
          BY <1>1, <1>2 DEF Pieces, prompt
        <5>2. Len(Pieces(queue[n].of)') = 2
          BY <5>1, <3>1 DEF Pieces
        <5> QED BY <5>2, <2>0
      <4> QED BY <4>1 DEF Whole
    <3>3. \A j \in n .. n + 1 :
            \/ j = n /\ [of |-> e, ends |-> j = n + 1] = [of |-> e, ends |-> FALSE]
            \/ j = n + 1 /\ [of |-> e, ends |-> j = n + 1] = [of |-> e, ends |-> TRUE]
      <4>1. \A j \in n .. n + 1 : j = n \/ j = n + 1
        BY <2>0
      <4>2. n # n + 1
        BY <2>0
      <4> QED BY <4>1, <4>2
    <3>4. \A j \in n .. n + 1 : queue'[j] = [of |-> queue'[n].of, ends |-> j = n + 1]
      BY <3>1, <3>3
    <3>5. n + 1 <= Len(queue')
      BY <2>0, <1>4
    <3> QED BY <3>2, <3>4, <3>5
  <2>6. ~Starts(n + 1)
    BY <2>0, <2>1 DEF Starts
  <2>7. Starts(n + 2)'
    BY <1>4, <2>0 DEF Starts
  <2>8. \A i \in 1 .. Len(queue') : Starts(i)' => Whole(i)'
    <3>1. \A i \in 1 .. Len(queue') : i \in 1 .. n \/ i = n + 1
      BY <1>4, <2>0
    <3> QED BY <3>1, <2>3, <2>4, <2>5, <2>6
  <2>9. Len(queue') + 1 = n + 2
    BY <2>0, <1>4
  <2> QED BY <2>2, <2>7, <2>8, <2>9 DEF LastLineGrows
<1> QED BY <1>4, <1>8, <1>9, <1>10 DEF HookInv

----------------------------------------------------------------------------
(* The server's steps *)

\* A step of the server that stores nothing.
LEMMA RequestStep ==
  ASSUME HookInv,
         UNCHANGED <<storeVars, prompt, hook, row, queue, apart>>,
         tokens' \in 0 .. Rate,
         req' \in [Event -> {"none", "sent", "admitted", "over"}],
         code' \in [Event -> Codes \cup {NoCode}],
         \A d \in Event : \/ req'[d] = req[d] /\ code'[d] = code[d]
                          \/ req[d] = "sent" /\ req'[d] = "admitted" /\ code'[d] = code[d]
                          \/ /\ req[d] # "none" /\ req'[d] = "over"
                             /\ code'[d] \in {code[d], NoCode}
                          \/ /\ req[d] \in {"sent", "admitted"} /\ req'[d] = "over"
                             /\ code'[d] # 201
                          \/ req'[d] = req[d] /\ code'[d] = NoCode
  PROVE  HookInv'
<1>1. UNCHANGED <<from, kind, with, sessions, prompts, nextSid, nextPid>>
  BY DEF storeVars, prompt
<1>2. StoreInv'
  BY StutterPreservesStore DEF HookInv
<1>3. TypeOK'
  BY <1>1, <1>2 DEF HookInv, TypeOK, StoreInv
<1>4. TypedInOrder' /\ RowsInOrder'
  <2>1. \A d \in Event : req[d] = "over" => req'[d] = "over"
    OBVIOUS
  <2> QED BY <1>1, <2>1, RowsUntouched
<1>5. RestHasFirst' /\ QueueTyped' /\ LastLineGrows'
  BY <1>1, FileUntouched
<1>6. AnswerTellsRow'
  BY DEF HookInv, AnswerTellsRow, NoCode
<1>7. StoredOrQueued'
  BY <1>1 DEF HookInv, StoredOrQueued, Pieces
<1> QED BY <1>2, <1>3, <1>4, <1>5, <1>6, <1>7 DEF HookInv

LEMMA ServerStep ==
  ASSUME HookInv,
         (\E e \in Event : Admit(e) \/ Invalid(e) \/ Lose(e)) \/ Restart \/ TimePasses
  PROVE  HookInv'
<1>1. ASSUME NEW e \in Event, Admit(e) PROVE HookInv'
  <2>1. UNCHANGED <<storeVars, prompt, hook, row, queue, apart>>
    BY <1>1 DEF Admit, Refuse
  <2>2. CASE \E c \in {413, 401, 429} : Refuse(e, c) /\ UNCHANGED tokens
    <3>1. PICK c \in {413, 401, 429} :
            /\ req' = [req EXCEPT ![e] = "over"]
            /\ code' = [code EXCEPT ![e] = c]
            /\ UNCHANGED tokens
      BY <2>2 DEF Refuse
    <3>2. req[e] = "sent" /\ c \in Codes /\ c # 201
      BY <1>1 DEF Admit, Codes
    <3>3. /\ req' \in [Event -> {"none", "sent", "admitted", "over"}]
          /\ code' \in [Event -> Codes \cup {NoCode}]
          /\ tokens' \in 0 .. Rate
      BY <3>1, <3>2 DEF HookInv, TypeOK
    <3>4. \A d \in Event : \/ req'[d] = req[d] /\ code'[d] = code[d]
                           \/ d = e /\ req'[d] = "over" /\ code'[d] # 201
      BY <3>1, <3>2 DEF HookInv, TypeOK
    <3> QED BY <2>1, <3>2, <3>3, <3>4, RequestStep
  <2>3. CASE /\ tokens > 0 /\ tokens' = tokens - 1
             /\ req' = [req EXCEPT ![e] = "admitted"] /\ UNCHANGED code
    <3>1. tokens' \in 0 .. Rate
      BY <2>3, HookAssumption DEF HookInv, TypeOK
    <3> QED BY <2>1, <2>3, <3>1, <1>1, RequestStep DEF Admit, HookInv, TypeOK
  <2> QED BY <2>2, <2>3, <1>1 DEF Admit
<1>2. ASSUME NEW e \in Event, Invalid(e) PROVE HookInv'
  BY <1>2, RequestStep DEF Invalid, Refuse, HookInv, TypeOK, Codes
<1>3. ASSUME NEW e \in Event, Lose(e) PROVE HookInv'
  BY <1>3, RequestStep DEF Lose, HookInv, TypeOK
<1>4. CASE Restart
  <2>1. Rate \in 0 .. Rate
    BY HookAssumption
  <2>2. /\ UNCHANGED <<storeVars, prompt, hook, row, queue, apart>>
        /\ tokens' = Rate
        /\ req' = [e \in Event |-> IF req[e] = "none" THEN "none" ELSE "over"]
        /\ code' = [e \in Event |-> NoCode]
    BY <1>4 DEF Restart
  <2>3. \A d \in Event : \/ req'[d] = req[d] /\ code'[d] = NoCode
                         \/ req[d] # "none" /\ req'[d] = "over" /\ code'[d] = NoCode
    BY <2>2
  <2>4. /\ req' \in [Event -> {"none", "sent", "admitted", "over"}]
        /\ code' \in [Event -> Codes \cup {NoCode}]
    BY <2>2
  <2> QED BY <2>1, <2>2, <2>3, <2>4, RequestStep
<1>5. CASE TimePasses
  <2>1. tokens' \in 0 .. Rate
    BY <1>5, HookAssumption DEF TimePasses, Refill, HookInv, TypeOK
  <2> QED BY <2>1, <1>5, RequestStep DEF TimePasses, HookInv, TypeOK
<1> QED BY <1>1, <1>2, <1>3, <1>4, <1>5

\* The transaction: the row is the newest of the table, and the newest of its
\* Claude session.
LEMMA StoreStep ==
  ASSUME HookInv, NEW e \in Event, Store(e)
  PROVE  HookInv'
<1> DEFINE k == from[e]
           t == TargetSession(k)
           n == NewPrompt(k)
<1>1. /\ req[e] = "admitted" /\ IngestTx(k)
      /\ row' = [row EXCEPT ![e] = nextPid]
      /\ req' = [req EXCEPT ![e] = "over"]
      /\ code' = [code EXCEPT ![e] = 201]
      /\ UNCHANGED <<from, kind, with, hook, tokens, queue, apart>>
  BY DEF Store, prompt
<1>2. k \in Claude /\ StoreInv /\ TypeOK
  BY DEF HookInv, TypeOK
<1>3. /\ sessions' = sessions \cup {t} /\ prompts' = prompts \cup {n}
      /\ nextPid' = nextPid + 1 /\ nextPid \in Pid /\ nextPid \in Nat \ {0}
      /\ t.id <= MaxSid
  BY <1>1, <1>2, StoreAssumption DEF IngestTx, StoreInv, StoreTypeOK, Pid
<1>4. /\ t.claude = k
      /\ n \in PromptRow /\ n.id = nextPid /\ n.sid = t.id
      /\ \A p \in PromptsOf(n.sid) : p.seq < n.seq
  BY <1>1, <1>2, <1>3, TargetSessionFacts, NewPromptFacts
<1> HIDE DEF k, t, n
<1>5. StoreInv'
  BY <1>1, <1>2, IngestPreservesStore
<1>6. /\ row' \in [Event -> Pid \cup {NoRow}] /\ row'[e] = nextPid
      /\ code'[e] = 201 /\ req'[e] = "over"
      /\ req' \in [Event -> {"none", "sent", "admitted", "over"}]
      /\ code' \in [Event -> Codes \cup {NoCode}]
      /\ \A d \in Event \ {e} : row'[d] = row[d] /\ code'[d] = code[d] /\ req'[d] = req[d]
  BY <1>1, <1>2, <1>3 DEF TypeOK, Codes
<1>7. TypeOK'
  BY <1>1, <1>2, <1>5, <1>6 DEF TypeOK, StoreInv
<1>8. TypedInOrder'
  BY <1>1 DEF HookInv, TypedInOrder
<1>9. AnswerTellsRow'
  <2>1. hook'[e] # "none" /\ row'[e] # NoRow
    BY <1>1, <1>3, <1>6 DEF HookInv, AnswerTellsRow, NoRow
  <2> QED BY <2>1, <1>1, <1>6 DEF HookInv, AnswerTellsRow
<1>10. StoredOrQueued'
  <2>1. row'[e] # NoRow
    BY <1>3, <1>6 DEF NoRow
  <2> QED BY <2>1, <1>1, <1>6 DEF HookInv, StoredOrQueued, Pieces
<1>11. RestHasFirst' /\ QueueTyped' /\ LastLineGrows'
  BY <1>1, FileUntouched
<1>12. \A d \in Event \ {e} : row[d] # NoRow => row[d] < nextPid
  BY DEF HookInv, RowsInOrder
<1>13. RowsInOrder'
  <2>1. \A d \in Event : row'[d] # NoRow => row'[d] < nextPid'
    <3>1. \A d \in Event : row[d] \in Nat
      BY <1>2 DEF TypeOK, Pid, NoRow
    <3> QED BY <3>1, <1>3, <1>6, <1>12
  <2>2. ASSUME NEW d \in Event, NEW f \in Event, d < f, hook'[f] # "none", d \notin with'[f]
        PROVE  req'[d] = "over" /\ (row'[d] # NoRow /\ row'[f] # NoRow => row'[d] < row'[f])
    <3>1. req[d] = "over" /\ (row[d] # NoRow /\ row[f] # NoRow => row[d] < row[f])
      BY <2>2, <1>1 DEF HookInv, RowsInOrder
    <3>2. d # e
      BY <3>1, <1>1
    <3> QED BY <3>1, <3>2, <1>6, <1>12
  <2>3. ASSUME NEW p \in prompts', NEW q \in prompts', p.sid = q.sid, p.id < q.id
        PROVE  p.seq < q.seq
    <3>1. \A r \in prompts : r.id \in Nat /\ r.id < nextPid
      BY <1>2 DEF StoreInv, StoreTypeOK, PromptRow, Pid
    <3>2. CASE q = n
      <4>1. p \in PromptsOf(n.sid)
        BY <2>3, <3>2, <1>3 , <1>4 DEF PromptsOf
      <4> QED BY <4>1, <3>2, <1>4
    <3>3. CASE q # n
      <4>1. q \in prompts /\ p \in prompts
        BY <2>3, <3>1, <3>3, <1>3, <1>4
      <4> QED BY <4>1, <2>3 DEF HookInv, RowsInOrder
    <3> QED BY <3>2, <3>3
  <2>4. ASSUME NEW f \in Event, NEW p \in prompts', p.id = row'[f]
        PROVE  \E r \in sessions' : r.id = p.sid /\ r.claude = from'[f]
    <3>1. \A r \in prompts : r.id \in Nat \ {0} /\ r.id < nextPid
      BY <1>2 DEF StoreInv, StoreTypeOK, PromptRow, Pid
    <3>2. CASE p = n
      <4>1. f = e
        <5>1. f # e => row[f] = nextPid
          BY <3>2, <2>4, <1>4, <1>6
        <5> QED BY <5>1, <1>3, <1>12 DEF NoRow
      <4> QED BY <4>1, <3>2, <1>1, <1>3, <1>4 DEF k
    <3>3. CASE p # n
      <4>1. p \in prompts /\ f # e
        BY <3>1, <3>3, <2>4, <1>3, <1>6
      <4> QED BY <4>1, <2>4, <1>1, <1>3, <1>6 DEF HookInv, RowsInOrder
    <3> QED BY <3>2, <3>3
  <2> QED BY <2>1, <2>2, <2>3, <2>4 DEF RowsInOrder
<1> QED BY <1>5, <1>7, <1>8, <1>9, <1>10, <1>11, <1>13 DEF HookInv

LEMMA DeleteStep ==
  ASSUME HookInv, NEW s \in sessions, DeleteSession(s)
  PROVE  HookInv'
<1>1. /\ UNCHANGED <<from, kind, with, hook, req, code, row, tokens, queue, apart, nextPid>>
      /\ DeleteSessionTx(s)
      /\ sessions' = sessions \ {s} /\ prompts' = prompts \ PromptsOf(s.id)
  BY DEF DeleteSession, DeleteSessionTx, prompt
<1>2. StoreInv'
  BY <1>1, DeletePreservesStore DEF HookInv
<1>3. TypeOK'
  BY <1>1, <1>2 DEF HookInv, TypeOK, StoreInv
<1>4. TypedInOrder' /\ AnswerTellsRow' /\ StoredOrQueued'
  BY <1>1 DEF HookInv, TypedInOrder, AnswerTellsRow, StoredOrQueued, Pieces
<1>5. RestHasFirst' /\ QueueTyped' /\ LastLineGrows'
  BY <1>1, FileUntouched
<1>6. RowsInOrder'
  <2>1. ASSUME NEW f \in Event, NEW p \in prompts', p.id = row'[f]
        PROVE  \E r \in sessions' : r.id = p.sid /\ r.claude = from'[f]
    <3>1. p \in prompts /\ p.sid # s.id /\ p.id = row[f]
      BY <2>1, <1>1 DEF PromptsOf
    <3>2. PICK r \in sessions : r.id = p.sid /\ r.claude = from[f]
      BY <3>1 DEF HookInv, RowsInOrder
    <3>3. r \in sessions'
      BY <3>1, <3>2, <1>1
    <3> QED BY <3>2, <3>3, <1>1
  <2> QED BY <2>1, <1>1 DEF HookInv, RowsInOrder
<1> QED BY <1>2, <1>3, <1>4, <1>5, <1>6 DEF HookInv

----------------------------------------------------------------------------
(* The theorems *)

\* The inductive invariant of delivery, for every number of prompts and hooks.
THEOREM HookInvariant == Spec => []HookInv
<1>1. HookInv /\ [Next]_hookVars => HookInv'
  <2> SUFFICES ASSUME HookInv, [Next]_hookVars PROVE HookInv'
    OBVIOUS
  <2>1. ASSUME NEW k \in Claude, NEW kd \in Kinds, Submit(k, kd) PROVE HookInv'
    BY <2>1, SubmitStep
  <2>2. ASSUME NEW e \in Event,
               Answered(e) \/ GivesUp(e) \/ QueueFails(e) \/ Kill(e)
        PROVE  HookInv'
    BY <2>2, ProcessStep
  <2>3. ASSUME NEW e \in Event, Queue(e) \/ QueueRest(e) PROVE HookInv'
    BY <2>3, QueueStep, QueueRestStep
  <2>4. ASSUME NEW e \in Event, Store(e) PROVE HookInv'
    BY <2>4, StoreStep
  <2>5. ASSUME (\E e \in Event : Admit(e) \/ Invalid(e) \/ Lose(e)) \/ Restart \/ TimePasses
        PROVE  HookInv'
    BY <2>5, ServerStep
  <2>6. ASSUME NEW s \in sessions, DeleteSession(s) PROVE HookInv'
    BY <2>6, DeleteStep
  <2>7. CASE UNCHANGED hookVars
    <3>1. /\ UNCHANGED <<storeVars, prompt, hook, row, queue, apart>>
          /\ UNCHANGED <<tokens, req, code>>
      BY <2>7 DEF hookVars
    <3> QED BY <3>1, RequestStep DEF HookInv, TypeOK
  <2> QED BY <2>1, <2>2, <2>3, <2>4, <2>5, <2>6, <2>7 DEF Next
<1> QED BY <1>1, HookInit, PTL DEF Spec

\* Every variable of the hook, its request and the queue keeps its type.
THEOREM HookTypes == Spec => []TypeOK
<1>1. HookInv => TypeOK
  BY DEF HookInv
<1> QED BY <1>1, HookInvariant, PTL

\* The tables stay well numbered whatever the hooks send and the admin deletes
\* between their prompts.
THEOREM HooksKeepNumbering == Spec => []StoreNumbered
<1>1. HookInv => StoreNumbered
  BY DEF HookInv, StoreInv, StoreNumbered
<1> QED BY <1>1, HookInvariant, PTL

\* No prompt is lost between the script and the table: a process that came to
\* its end has its prompt in the table or in the queue file, whatever became of
\* the request (prompt-logger-hook.sh 96-113).
THEOREM NothingIsDropped == Spec => []StoredOrQueued
<1>1. HookInv => StoredOrQueued
  BY DEF HookInv
<1> QED BY <1>1, HookInvariant, PTL

\* An answered prompt is in exactly one place: its process goes on to the
\* queue exactly if the server stored nothing.
THEOREM AnsweredOnceOnly == Spec => TwiceOnlyIfUnanswered
<1>1. ASSUME HookInv, [Next]_hookVars
      PROVE  [\A e \in Event : Answered(e) => (hook'[e] = "done" <=> row[e] # NoRow)]_hookVars
  <2>1. ASSUME NEW e \in Event, Answered(e)
        PROVE  hook'[e] = "done" <=> row[e] # NoRow
    <3>1. /\ code[e] \in Codes \cup {NoCode} /\ code[e] # NoCode
          /\ hook'[e] = IF Taken(code[e]) THEN "done" ELSE "queueing"
      BY <1>1, <2>1 DEF HookInv, TypeOK, Answered
    <3>2. Taken(code[e]) <=> code[e] = 201
      BY <3>1 DEF Taken, Codes, NoCode
    <3> QED BY <3>1, <3>2, <1>1 DEF HookInv, AnswerTellsRow
  <2> QED BY <2>1
<1> QED BY <1>1, HookInvariant, PTL DEF Spec, TwiceOnlyIfUnanswered

\* The table keeps the order in which a Claude session's prompts were typed,
\* unless a request was still under way when the later one was typed.
THEOREM TableKeepsOrder == Spec => []InOrderUnlessOverlapping
<1>1. HookInv => InOrderUnlessOverlapping
  <2> SUFFICES ASSUME HookInv, NEW d \in Event, NEW e \in Event,
                      d < e, from[d] = from[e], InTable(d), InTable(e), d \notin with[e]
               PROVE  SeqOf(d) < SeqOf(e)
    BY DEF InOrderUnlessOverlapping
  <2>1. PICK p \in prompts : p.id = row[d]
    BY DEF InTable
  <2>2. PICK q \in prompts : q.id = row[e]
    BY DEF InTable
  <2>3. SeqOf(d) = p.seq /\ SeqOf(e) = q.seq
    <3>1. \A x, y \in prompts : x.id = y.id => x = y
      BY DEF HookInv, StoreInv
    <3> QED BY <2>1, <2>2, <3>1 DEF SeqOf
  <2>4. row[d] # NoRow /\ row[e] # NoRow
    <3>1. p.id \in Pid /\ q.id \in Pid
      BY DEF HookInv, StoreInv, StoreTypeOK, PromptRow
    <3> QED BY <3>1, <2>1, <2>2 DEF Pid, NoRow
  <2>5. row[d] < row[e]
    <3>1. hook[e] # "none"
      BY <2>4 DEF HookInv, AnswerTellsRow
    <3> QED BY <3>1, <2>4 DEF HookInv, RowsInOrder
  <2>6. p.sid = q.sid
    <3>1. PICK r \in sessions : r.id = p.sid /\ r.claude = from[d]
      BY <2>1 DEF HookInv, RowsInOrder
    <3>2. PICK t \in sessions : t.id = q.sid /\ t.claude = from[e]
      BY <2>2 DEF HookInv, RowsInOrder
    <3>3. r = t
      BY <3>1, <3>2 DEF HookInv, StoreInv, SessionsDistinct
    <3> QED BY <3>1, <3>2, <3>3
  <2> QED BY <2>1, <2>2, <2>3, <2>5, <2>6 DEF HookInv, RowsInOrder
<1> QED BY <1>1, HookInvariant, PTL

\* While no appends met, every line of queue.jsonl is one whole body.
THEOREM LinesAreWhole == Spec => []WholeLines
<1>1. HookInv => WholeLines
  <2> SUFFICES ASSUME HookInv, apart, NEW i \in 1 .. Len(queue),
                      Starts(i), hook[queue[i].of] = "done"
               PROVE  Whole(i)
    BY DEF WholeLines, Whole
  <2> QED BY DEF HookInv, LastLineGrows, Growing
<1> QED BY <1>1, HookInvariant, PTL

----------------------------------------------------------------------------
(* Once, and only forward *)

\* No piece of a body is in the queue file twice.
QueuedOnce ==
  \A i, j \in 1 .. Len(queue) : queue[i] = queue[j] => i = j

\* A process that has written the newline is done; one that has written
\* something else is between its appends, done, or was killed there.
QueueTells ==
  \A i \in 1 .. Len(queue) :
    hook[queue[i].of] \in IF queue[i].ends THEN {"done"} ELSE {"rest", "done", "killed"}

\* An append of a piece that is not there yet keeps the pieces apart.
LEMMA AppendOnce ==
  ASSUME TypeOK, QueuedOnce, NEW x \in [of : Event, ends : BOOLEAN],
         \A i \in 1 .. Len(queue) : queue[i] # x,
         queue' = Append(queue, x)
  PROVE  QueuedOnce'
<1>1. /\ queue \in Seq([of : Event, ends : BOOLEAN])
      /\ Len(queue') = Len(queue) + 1
      /\ queue'[Len(queue) + 1] = x
      /\ \A i \in 1 .. Len(queue) : queue'[i] = queue[i]
  BY DEF TypeOK
<1>2. \A i \in 1 .. Len(queue') : i \in 1 .. Len(queue) \/ i = Len(queue) + 1
  BY <1>1
<1> QED BY <1>1, <1>2 DEF QueuedOnce

LEMMA AppendTells ==
  ASSUME TypeOK, QueueTells, NEW e \in Event, NEW x \in [of : Event, ends : BOOLEAN], x.of = e,
         \A i \in 1 .. Len(queue) : queue[i].of = e => ~queue[i].ends,
         queue' = Append(queue, x),
         hook' = [hook EXCEPT ![e] = IF x.ends THEN "done" ELSE "rest"]
  PROVE  QueueTells'
<1>1. /\ queue \in Seq([of : Event, ends : BOOLEAN])
      /\ Len(queue') = Len(queue) + 1
      /\ queue'[Len(queue) + 1] = x
      /\ \A i \in 1 .. Len(queue) : queue'[i] = queue[i]
  BY DEF TypeOK
<1>2. \A i \in 1 .. Len(queue') : i \in 1 .. Len(queue) \/ i = Len(queue) + 1
  BY <1>1
<1>3. hook'[e] = (IF x.ends THEN "done" ELSE "rest") /\ \A d \in Event \ {e} : hook'[d] = hook[d]
  BY DEF TypeOK
<1>4. \A i \in 1 .. Len(queue) : queue[i].of \in Event
  BY QueuePiece
<1> QED BY <1>1, <1>2, <1>3, <1>4 DEF QueueTells

LEMMA OnceNext ==
  ASSUME HookInv, QueuedOnce, QueueTells, [Next]_hookVars
  PROVE  QueuedOnce' /\ QueueTells'
<1>0. TypeOK /\ \A i \in 1 .. Len(queue) : queue[i] \in [of : Event, ends : BOOLEAN]
  BY QueuePiece DEF HookInv
<1>1. ASSUME NEW k \in Claude, NEW kd \in Kinds, Submit(k, kd)
      PROVE  QueuedOnce' /\ QueueTells'
  <2>1. PICK e \in Event : hook[e] = "none" /\ \E h : hook' = [hook EXCEPT ![e] = h]
    BY <1>1, SubmitTypesNext DEF HookInv
  <2>2. queue' = queue
    BY <1>1 DEF Submit
  <2>3. \A i \in 1 .. Len(queue) : queue[i].of # e
    BY <2>1 DEF HookInv, QueueTyped
  <2>4. \A d \in Event : d # e => hook'[d] = hook[d]
    BY <1>0, <2>1 DEF TypeOK
  <2> QED BY <1>0, <2>2, <2>3, <2>4 DEF QueuedOnce, QueueTells
<1>2. ASSUME NEW e \in Event, Answered(e) \/ GivesUp(e) \/ QueueFails(e)
      PROVE  QueuedOnce' /\ QueueTells'
  <2>1. /\ queue' = queue /\ hook[e] \in {"sending", "queueing"}
        /\ \A d \in Event : d # e => hook'[d] = hook[d]
    BY <1>0, <1>2 DEF Answered, GivesUp, TimesOut, QueueFails, TypeOK
  <2>2. \A i \in 1 .. Len(queue) : queue[i].of # e
    BY <2>1 DEF QueueTells
  <2> QED BY <1>0, <2>1, <2>2 DEF QueuedOnce, QueueTells
<1>3. ASSUME NEW e \in Event, Kill(e) PROVE QueuedOnce' /\ QueueTells'
  <2>1. /\ queue' = queue /\ hook[e] \in {"sending", "queueing", "rest"} /\ hook'[e] = "killed"
        /\ \A d \in Event : d # e => hook'[d] = hook[d]
    BY <1>0, <1>3 DEF Kill, TypeOK
  <2>2. \A i \in 1 .. Len(queue) : queue[i].of = e => ~queue[i].ends
    BY <2>1 DEF QueueTells
  <2> QED BY <1>0, <2>1, <2>2 DEF QueuedOnce, QueueTells
<1>4. ASSUME NEW e \in Event, Queue(e) PROVE QueuedOnce' /\ QueueTells'
  <2> DEFINE x == Pieces(e)[1]
  <2>1. /\ x \in [of : Event, ends : BOOLEAN] /\ x.of = e
        /\ x.ends <=> Len(Pieces(e)) = 1
    <3>1. CASE Len(Pieces(e)) = 1
      <4>1. x = [of |-> e, ends |-> TRUE]
        BY <3>1, PiecesAre
      <4> QED BY <3>1, <4>1
    <3>2. CASE Len(Pieces(e)) = 2
      <4>1. x = [of |-> e, ends |-> FALSE]
        BY <3>2, PiecesAre
      <4> QED BY <3>2, <4>1
    <3> QED BY <3>1, <3>2, PiecesAre
  <2> HIDE DEF x
  <2>2. /\ hook[e] = "queueing" /\ queue' = Append(queue, x)
        /\ hook' = [hook EXCEPT ![e] = IF Len(Pieces(e)) = 1 THEN "done" ELSE "rest"]
    BY <1>4 DEF Queue, x
  <2>3. \A i \in 1 .. Len(queue) : queue[i].of # e
    BY <2>2 DEF QueueTells
  <2>4. hook' = [hook EXCEPT ![e] = IF x.ends THEN "done" ELSE "rest"]
    BY <2>1, <2>2
  <2>5. QueuedOnce'
    BY <1>0, <2>1, <2>2, <2>3, AppendOnce
  <2>6. QueueTells'
    BY <1>0, <2>1, <2>2, <2>3, <2>4, AppendTells
  <2> QED BY <2>5, <2>6
<1>5. ASSUME NEW e \in Event, QueueRest(e) PROVE QueuedOnce' /\ QueueTells'
  <2> DEFINE x == Pieces(e)[2]
  <2>1. x \in [of : Event, ends : BOOLEAN] /\ x.of = e /\ x.ends
    <3>1. Len(Pieces(e)) = 2
      BY <1>5 DEF QueueRest, HookInv, RestHasFirst
    <3>2. x = [of |-> e, ends |-> TRUE]
      BY <3>1, PiecesAre
    <3> QED BY <3>2
  <2> HIDE DEF x
  <2>2. /\ hook[e] = "rest" /\ queue' = Append(queue, x) /\ hook' = [hook EXCEPT ![e] = "done"]
    BY <1>5 DEF QueueRest, x
  <2>3. \A i \in 1 .. Len(queue) : queue[i].of = e => ~queue[i].ends
    BY <2>2 DEF QueueTells
  <2>4. hook' = [hook EXCEPT ![e] = IF x.ends THEN "done" ELSE "rest"]
    BY <2>1, <2>2
  <2>5. QueuedOnce'
    BY <1>0, <2>1, <2>2, <2>3, AppendOnce
  <2>6. QueueTells'
    BY <1>0, <2>1, <2>2, <2>3, <2>4, AppendTells
  <2> QED BY <2>5, <2>6
<1>6. ASSUME UNCHANGED <<hook, queue>> PROVE QueuedOnce' /\ QueueTells'
  BY <1>6 DEF QueuedOnce, QueueTells
<1>7. ASSUME NEW e \in Event, Admit(e) \/ Store(e) \/ Invalid(e) \/ Lose(e)
      PROVE  UNCHANGED <<hook, queue>>
  BY <1>7 DEF Admit, Store, Invalid, Lose
<1>8. CASE \/ \E session \in sessions : DeleteSession(session)
           \/ Restart
           \/ TimePasses
           \/ UNCHANGED hookVars
  BY <1>6, <1>8 DEF DeleteSession, Restart, TimePasses, hookVars
<1> QED BY <1>1, <1>2, <1>3, <1>4, <1>5, <1>6, <1>7, <1>8 DEF Next

\* A prompt is queued at most once: whatever its request did, its process
\* writes each piece of its line a single time, and a replay of the file sends
\* it once (prompt-logger-hook.sh 110-113).
THEOREM NothingIsQueuedTwice == Spec => []QueuedOnce
<1>1. Init => QueuedOnce /\ QueueTells
  BY DEF Init, QueuedOnce, QueueTells
<1>2. HookInv /\ (QueuedOnce /\ QueueTells) /\ [Next]_hookVars => (QueuedOnce /\ QueueTells)'
  BY OnceNext
<1> QED BY <1>1, <1>2, HookInvariant, PTL DEF Spec

\* what a process and its request have before them
HookLeft == [none |-> 4, sending |-> 3, queueing |-> 2, rest |-> 1,
             done |-> 0, unqueued |-> 0, killed |-> 0]
ReqLeft == [none |-> 3, sent |-> 2, admitted |-> 1, over |-> 0]

\* A process and its request only go forward, and a prompt that has its row has
\* it for good: no order of answers, timeouts and restarts stores it again.
OnlyForward ==
  [][\A e \in Event :
       /\ hook'[e] # hook[e] => HookLeft[hook'[e]] < HookLeft[hook[e]]
       /\ req'[e] # req[e] => ReqLeft[req'[e]] < ReqLeft[req[e]]
       /\ row[e] # NoRow => row'[e] = row[e]]_hookVars

\* So a process takes at most four steps, and its request at most three, before
\* both are over, and between them they make at most one row.
THEOREM HooksGoForward == Spec => OnlyForward
<1> DEFINE Forward(e) == /\ hook'[e] # hook[e] => HookLeft[hook'[e]] < HookLeft[hook[e]]
                         /\ req'[e] # req[e] => ReqLeft[req'[e]] < ReqLeft[req[e]]
                         /\ row[e] # NoRow => row'[e] = row[e]
<1>1. ASSUME HookInv, Next, NEW e \in Event PROVE Forward(e)
  <2>0. TypeOK /\ AnswerTellsRow
    BY <1>1 DEF HookInv
  <2>1. ASSUME NEW k \in Claude, NEW kd \in Kinds, Submit(k, kd) PROVE Forward(e)
    <3>1. PICK d \in Event :
             /\ hook[d] = "none"
             /\ hook' = [hook EXCEPT ![d] = IF Reshaped(kd) THEN "sending" ELSE "done"]
             /\ req' = [req EXCEPT ![d] = IF Reshaped(kd) THEN "sent" ELSE "over"]
             /\ row' = row
      BY <1>1, <2>1, SubmitTypesNext DEF HookInv
    <3>2. req[d] = "none"
      BY <2>0, <3>1 DEF AnswerTellsRow
    <3> QED BY <2>0, <3>1, <3>2 DEF TypeOK, HookLeft, ReqLeft
  <2>2. ASSUME NEW d \in Event,
               Answered(d) \/ GivesUp(d) \/ Queue(d) \/ QueueRest(d) \/ QueueFails(d) \/ Kill(d)
        PROVE  Forward(e)
    <3>1. \E h \in {"done", "queueing", "rest", "unqueued", "killed"} :
             /\ hook' = [hook EXCEPT ![d] = h]
             /\ HookLeft[h] < HookLeft[hook[d]]
             /\ UNCHANGED <<req, row>>
      BY <2>2 DEF Answered, GivesUp, TimesOut, Queue, QueueRest, QueueFails, Kill, HookLeft
    <3> QED BY <2>0, <3>1 DEF TypeOK
  <2>3. ASSUME NEW d \in Event, Admit(d) \/ Store(d) \/ Invalid(d) \/ Lose(d)
        PROVE  Forward(e)
    <3>1. \E r \in {"admitted", "over"} :
             /\ req' = [req EXCEPT ![d] = r]
             /\ ReqLeft[r] < ReqLeft[req[d]]
             /\ hook' = hook
      BY <2>3 DEF Admit, Refuse, Store, Invalid, Lose, ReqLeft
    <3>2. \/ row' = row
          \/ req[d] # "over" /\ row' = [row EXCEPT ![d] = nextPid]
      BY <2>3 DEF Admit, Refuse, Store, Invalid, Lose
    <3>3. row[e] # NoRow => row'[e] = row[e]
      BY <2>0, <3>2 DEF AnswerTellsRow, TypeOK
    <3> QED BY <2>0, <3>1, <3>3 DEF TypeOK
  <2>4. CASE Restart
    <3>1. /\ req'[e] = (IF req[e] = "none" THEN "none" ELSE "over")
          /\ UNCHANGED <<hook, row>>
      BY <2>4 DEF Restart
    <3> QED BY <2>0, <3>1 DEF TypeOK, ReqLeft
  <2>5. CASE TimePasses \/ \E session \in sessions : DeleteSession(session)
    BY <2>5 DEF TimePasses, DeleteSession
  <2> QED BY <1>1, <2>1, <2>2, <2>3, <2>4, <2>5 DEF Next
<1>2. HookInv /\ [Next]_hookVars => [\A e \in Event : Forward(e)]_hookVars
  BY <1>1
<1> QED BY <1>2, HookInvariant, PTL DEF Spec, OnlyForward
============================================================================
