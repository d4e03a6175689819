---------------------------- MODULE PromptStream ----------------------------
(***************************************************************************)
(* The live feed of the server: routes/stream.ts, lib/emitter.ts, the       *)
(* broadcast half of routes/ingest.ts and the graceful shutdown of index.ts.*)
(*                                                                          *)
(* Node runs one callback at a time, so the unit of interleaving is the     *)
(* code between two awaits.  A stream request is served in these steps:     *)
(*                                                                          *)
(*   requested   the request is in the middleware chain                     *)
(*   snapshot    everything from the access check to the first await ran:   *)
(*               snapshot read, listener attached, connection counted, and  *)
(*               the handler awaits the write of the snapshot frame         *)
(*   parked      the shutdown callback is registered, the park promise is   *)
(*               pending                                                    *)
(*   leaving     the park promise is resolved, `finally` has not run yet    *)
(*   idle        torn down, refused, or not started                         *)
(*                                                                          *)
(* A connection slot is used again for the client's next request.           *)
(* Heartbeat frames carry no prompt and are not recorded in `out'; their    *)
(* timers are.                                                              *)
(***************************************************************************)
EXTENDS PromptStore, Sequences

CONSTANTS
  Conn,            \* connection slots
  MaxConnections,  \* config.SSE_MAX_CONNECTIONS
  SnapshotLimit    \* SNAPSHOT_LIMIT

ASSUME StreamAssumption ==
  /\ IsFiniteSet(Conn)
  /\ MaxConnections \in Nat
  /\ SnapshotLimit \in Nat \ {0}

VARIABLES
  phase,       \* of the server process
  emitters,    \* keys of the emitters Map
  listeners,   \* 'prompt' listeners of each session's emitter
  active,      \* activeConnections
  registry,    \* shutdownCallbacks
  pc,          \* progress of the handler serving each connection
  sid,         \* its sessionId parameter
  seen,        \* its seenIds
  out,         \* the frames it has written
  heartbeats,  \* connections whose heartbeat interval is armed
  aborted,     \* the request's abort signal has fired
  reply        \* status of the last response

connVars   == <<pc, sid, seen, out, aborted, reply>>
memoryVars == <<emitters, listeners, active, registry, heartbeats>>
vars == <<sessions, prompts, nextSid, nextPid, phase, emitters, listeners,
          active, registry, heartbeats, pc, sid, seen, out, aborted, reply>>

Frame == [ev : {"snapshot", "prompt", "close"}, rows : SUBSET PromptRow]

Serving == phase \in {"up", "closing", "draining"}

Attached == {c \in Conn : pc[c] \in {"snapshot", "parked", "leaving"}}

TypeOK ==
  /\ StoreTypeOK
  /\ phase \in {"up", "closing", "draining", "exited", "crashed"}
  /\ emitters \subseteq Sid
  /\ listeners \in [Sid -> SUBSET Conn]
  /\ active \in Nat
  /\ registry \subseteq Conn
  /\ heartbeats \subseteq Conn
  /\ pc \in [Conn -> {"idle", "requested", "snapshot", "parked", "leaving"}]
  /\ sid \in [Conn -> Sid]
  /\ seen \in [Conn -> SUBSET Pid]
  /\ out \in [Conn -> Seq(Frame)]
  /\ aborted \in [Conn -> BOOLEAN]
  /\ reply \in [Conn -> {0, 200, 401, 403, 503}]

\* a freshly started process: nothing in memory
MemoryInit ==
  /\ phase = "up"
  /\ emitters = {}
  /\ listeners = [s \in Sid |-> {}]
  /\ active = 0
  /\ registry = {}
  /\ heartbeats = {}

Init ==
  /\ StoreInit
  /\ MemoryInit
  /\ pc = [c \in Conn |-> "idle"]
  /\ sid \in [Conn -> {1}]
  /\ seen = [c \in Conn |-> {}]
  /\ out = [c \in Conn |-> <<>>]
  /\ aborted = [c \in Conn |-> FALSE]
  /\ reply = [c \in Conn |-> 0]

----------------------------------------------------------------------------
(* Ingest *)

\* the rows event e is still news for: what the listener of c writes for p
Deliver(c, p) ==
  IF p.id \in seen[c] THEN out[c]
  ELSE Append(out[c], [ev |-> "prompt", rows |-> {p}])

\* broadcast(): the emitter calls every listener before emit returns
Broadcast(p) ==
  LET to == IF p.sid \in emitters' THEN listeners[p.sid] ELSE {}
  IN  /\ out' = [c \in Conn |-> IF c \in to THEN Deliver(c, p) ELSE out[c]]
      /\ seen' = [c \in Conn |-> IF c \in to THEN seen[c] \cup {p.id} ELSE seen[c]]

\* POST /api/ingest after its middleware: transaction, then broadcast, with
\* no await between them
Ingest(k) ==
  /\ Serving
  /\ IngestTx(k)
  /\ emitters' = emitters \cup {NewPrompt(k).sid}
  /\ Broadcast(NewPrompt(k))
  /\ UNCHANGED <<phase, listeners, active, registry, heartbeats,
                 pc, sid, aborted, reply>>

\* the process dies after the commit and before the broadcast
IngestThenCrash(k) ==
  /\ Serving
  /\ IngestTx(k)
  /\ phase' = "crashed"
  /\ UNCHANGED <<memoryVars, connVars>>

\* DELETE /api/admin/sessions/:id; it leaves the emitter and the open streams
DeleteSession(row) ==
  /\ Serving
  /\ DeleteSessionTx(row)
  /\ UNCHANGED <<phase, memoryVars, connVars>>

----------------------------------------------------------------------------
(* GET /api/stream/:sessionId *)

\* Mutant of Snapshot: the oldest SNAPSHOT_LIMIT prompts (ORDER BY seq ASC)
SnapshotOldest(s) ==
  {p \in PromptsOf(s) :
     Cardinality({q \in PromptsOf(s) : q.seq < p.seq}) < SnapshotLimit}

\* the last SNAPSHOT_LIMIT prompts by seq
Snapshot(s) ==
  {p \in PromptsOf(s) :
     Cardinality({q \in PromptsOf(s) : q.seq > p.seq}) < SnapshotLimit}

\* a client opens (or opens again) a stream; the listening socket accepts
\* until server.close(), but in the turn of the signal no event comes before
\* the continuations of promises that have resolved
Request(c, s) ==
  /\ phase \in {"up", "closing"}
  /\ phase = "closing" => \A d \in Conn : pc[d] # "leaving"
  /\ pc[c] = "idle"
  /\ pc' = [pc EXCEPT ![c] = "requested"]
  /\ sid' = [sid EXCEPT ![c] = s]
  /\ seen' = [seen EXCEPT ![c] = {}]
  /\ out' = [out EXCEPT ![c] = <<>>]
  /\ aborted' = [aborted EXCEPT ![c] = FALSE]
  /\ reply' = [reply EXCEPT ![c] = 0]
  /\ UNCHANGED <<storeVars, phase, memoryVars>>

Respond(c, status) ==
  /\ Serving
  /\ pc[c] = "requested"
  /\ pc' = [pc EXCEPT ![c] = "idle"]
  /\ reply' = [reply EXCEPT ![c] = status]
  /\ UNCHANGED <<storeVars, phase, memoryVars, sid, seen, out, aborted>>

\* no user (401), or canViewSession says no (403): who may view what is the
\* business of another module, so a refusal is always possible here
Refuse(c) == \E status \in {401, 403} : Respond(c, status)

\* Mutant of BelowCap: off by one
AtOrBelowCap == active <= MaxConnections

\* the test before the response body is opened, negated
BelowCap == active < MaxConnections

\* the connection cap, checked after the access check
TooMany(c) ==
  /\ SessionExists(sid[c])
  /\ ~BelowCap
  /\ Respond(c, 503)

\* access granted (so the session row exists), below the cap: the code up to
\* `await stream.writeSSE(snapshot)'
Subscribe(c) ==
  /\ Serving
  /\ pc[c] = "requested"
  /\ SessionExists(sid[c])
  /\ BelowCap
  /\ emitters' = emitters \cup {sid[c]}
  /\ out' = [out EXCEPT ![c] = <<[ev |-> "snapshot", rows |-> Snapshot(sid[c])]>>]
  /\ seen' = [seen EXCEPT ![c] = {p.id : p \in Snapshot(sid[c])}]
  /\ listeners' = [listeners EXCEPT ![sid[c]] = @ \cup {c}]
  /\ active' = active + 1
  /\ reply' = [reply EXCEPT ![c] = 200]
  /\ pc' = [pc EXCEPT ![c] = "snapshot"]
  /\ UNCHANGED <<storeVars, phase, registry, heartbeats, sid, aborted>>

\* Mutant of Park: without the test of abortSignal.aborted
ParkUnchecked(c) ==
  /\ Serving
  /\ pc[c] = "snapshot"
  /\ heartbeats' = heartbeats \cup {c}
  /\ pc' = [pc EXCEPT ![c] = "parked"]
  /\ registry' = registry \cup {c}
  /\ UNCHANGED <<storeVars, phase, emitters, listeners, active, sid, seen, out,
                 aborted, reply>>

\* the snapshot write settled: arm the heartbeat, register, park; if the
\* signal fired meanwhile, deregister and leave at once
Park(c) ==
  /\ Serving
  /\ pc[c] = "snapshot"
  /\ heartbeats' = heartbeats \cup {c}
  /\ IF aborted[c]
     THEN /\ pc' = [pc EXCEPT ![c] = "leaving"]
          /\ UNCHANGED registry
     ELSE /\ pc' = [pc EXCEPT ![c] = "parked"]
          /\ registry' = registry \cup {c}
  /\ UNCHANGED <<storeVars, phase, emitters, listeners, active, sid, seen, out,
                 aborted, reply>>

\* Mutant of Abort: the shutdown callback is not deleted
AbortStaysRegistered(c) ==
  /\ Serving
  /\ pc[c] \in {"requested", "snapshot", "parked"}
  /\ ~aborted[c]
  /\ aborted' = [aborted EXCEPT ![c] = TRUE]
  /\ pc' = [pc EXCEPT ![c] = IF @ = "parked" THEN "leaving" ELSE @]
  /\ UNCHANGED <<storeVars, phase, emitters, listeners, active, registry,
                 heartbeats, sid, seen, out, reply>>

\* the client goes away: the request's abort listeners run
Abort(c) ==
  /\ Serving
  /\ pc[c] \in {"requested", "snapshot", "parked"}
  /\ ~aborted[c]
  /\ aborted' = [aborted EXCEPT ![c] = TRUE]
  /\ IF pc[c] = "parked"
     THEN /\ registry' = registry \ {c}
          /\ pc' = [pc EXCEPT ![c] = "leaving"]
     ELSE UNCHANGED <<registry, pc>>
  /\ UNCHANGED <<storeVars, phase, emitters, listeners, active, heartbeats,
                 sid, seen, out, reply>>

\* finally { teardown() }
Teardown(c) ==
  /\ Serving
  /\ pc[c] = "leaving"
  /\ listeners' = [listeners EXCEPT ![sid[c]] = @ \ {c}]
  /\ heartbeats' = heartbeats \ {c}
  /\ active' = IF active > 0 THEN active - 1 ELSE 0
  /\ pc' = [pc EXCEPT ![c] = "idle"]
  /\ UNCHANGED <<storeVars, phase, emitters, registry, sid, seen, out,
                 aborted, reply>>

----------------------------------------------------------------------------
(* Shutdown, crash, restart *)

\* SIGTERM: the synchronous part of closeAllStreams()
CloseAllStreams ==
  /\ phase = "up"
  /\ phase' = "closing"
  /\ registry' = {}
  /\ out' = [c \in Conn |-> IF c \in registry
                            THEN Append(out[c], [ev |-> "close", rows |-> {}])
                            ELSE out[c]]
  /\ pc' = [c \in Conn |-> IF c \in registry THEN "leaving" ELSE pc[c]]
  /\ UNCHANGED <<storeVars, emitters, listeners, active, heartbeats, sid, seen,
                 aborted, reply>>

\* setImmediate fires: the continuations of resolved promises have run by
\* then; server.close() stops the listening socket
CloseServer ==
  /\ phase = "closing"
  /\ \A c \in Conn : pc[c] # "leaving"
  /\ phase' = "draining"
  /\ UNCHANGED <<storeVars, memoryVars, connVars>>

\* every response ended: the callback of server.close() closes the database
Drained ==
  /\ phase = "draining"
  /\ \A c \in Conn : pc[c] = "idle"
  /\ phase' = "exited"
  /\ UNCHANGED <<storeVars, memoryVars, connVars>>

\* Mutant of HardExit: no timer, the exit waits for every response
HardExitWhenIdle ==
  /\ phase = "draining"
  /\ \A c \in Conn : pc[c] = "idle"
  /\ phase' = "exited"
  /\ UNCHANGED <<storeVars, memoryVars, connVars>>

\* the 5 s timer: forced exit, whatever is still open
HardExit ==
  /\ phase = "draining"
  /\ phase' = "exited"
  /\ UNCHANGED <<storeVars, memoryVars, connVars>>

Crash ==
  /\ Serving
  /\ phase' = "crashed"
  /\ UNCHANGED <<storeVars, memoryVars, connVars>>

\* the container is started again: the tables survive, memory does not, and
\* every client has lost its connection
Restart ==
  /\ phase \in {"exited", "crashed"}
  /\ phase' = "up"
  /\ emitters' = {}
  /\ listeners' = [s \in Sid |-> {}]
  /\ active' = 0
  /\ registry' = {}
  /\ heartbeats' = {}
  /\ pc' = [c \in Conn |-> "idle"]
  /\ UNCHANGED <<storeVars, sid, seen, out, aborted, reply>>

----------------------------------------------------------------------------

Next ==
  \/ \E k \in Claude : Ingest(k) \/ IngestThenCrash(k)
  \/ \E row \in sessions : DeleteSession(row)
  \/ \E c \in Conn, s \in Sid : Request(c, s)
  \/ \E c \in Conn : \/ Refuse(c) \/ TooMany(c) \/ Subscribe(c)
                     \/ Park(c) \/ Abort(c) \/ Teardown(c)
  \/ CloseAllStreams \/ CloseServer \/ Drained \/ HardExit
  \/ Crash \/ Restart

Spec == Init /\ [][Next]_vars

(***************************************************************************)
(* What the runtime guarantees: a handler whose await has settled goes on.  *)
(* The snapshot write of a connected client is not assumed to settle, but   *)
(* it does once the client is gone.  The setImmediate callback runs, however*)
(* busy the server is (SF: its guard is about the current turn of the event *)
(* loop only), and so does the hard-exit timer.  Nothing is assumed of      *)
(* clients, hooks, admins or signals.                                       *)
(***************************************************************************)
Fairness ==
  /\ \A c \in Conn :
       /\ WF_vars(Refuse(c) \/ TooMany(c) \/ Subscribe(c))
       /\ WF_vars(aborted[c] /\ Park(c))
       /\ WF_vars(Teardown(c))
  /\ SF_vars(CloseServer)
  /\ WF_vars(HardExit)

FairSpec == Spec /\ Fairness

----------------------------------------------------------------------------
(* Properties *)

\* The connection count is exactly the number of handlers between attaching
\* their listener and their teardown, on every termination path, and never
\* passes the cap, although the cap is tested by an earlier statement than
\* the one that counts (stream.ts 131, 158, 167).
CountedAndCapped ==
  /\ active = Cardinality(Attached)
  /\ active <= MaxConnections

\* Nothing leaks: a listener hangs on a session's emitter exactly while its
\* handler is between attach and teardown, a heartbeat is armed only then, and
\* the shutdown registry holds exactly the parked streams, so no callback of a
\* stream that is gone is called at shutdown (stream.ts 19-21, 205-223).
NoLeak ==
  /\ \A s \in Sid : listeners[s] = {c \in Attached : sid[c] = s}
  /\ \A s \in Sid : listeners[s] # {} => s \in emitters
  /\ heartbeats = {c \in Conn : pc[c] \in {"parked", "leaving"}}
  /\ registry = {c \in Conn : pc[c] = "parked"}

\* the prompts in a sequence of frames, and those a connection has been sent
FrameRows(frames) == UNION {frames[i].rows : i \in 1 .. Len(frames)}

SentRows(c) == FrameRows(out[c])

\* no prompt in two frames, and later frames with later prompts only
InOrder(frames) ==
  \A i, j \in 1 .. Len(frames) :
    i < j => \A p \in frames[i].rows, q \in frames[j].rows :
               p.id # q.id /\ p.seq < q.seq

\* What a subscriber is sent is exactly once and in order: no prompt is in two
\* of its frames, and a later frame only holds later prompts, whatever
\* ingests raced the snapshot (stream.ts 145-157).
ExactlyOnceInOrder == \A c \in Conn : InOrder(out[c])

\* No gap: while a stream is attached and its session exists, it has been sent
\* a suffix of the session's prompts, of at least SNAPSHOT_LIMIT of them when
\* there are that many; and nothing of another session (a crash between commit
\* and broadcast takes the streams with it).
NoGapFor(c) ==
  /\ \A p \in SentRows(c) : p.sid = sid[c]
  /\ SessionExists(sid[c]) =>
       /\ SentRows(c) \subseteq PromptsOf(sid[c])
       /\ Snapshot(sid[c]) \subseteq SentRows(c)
       /\ \A p \in SentRows(c), q \in PromptsOf(sid[c]) :
            q.seq > p.seq => q \in SentRows(c)

NoGap == Serving => \A c \in Attached : NoGapFor(c)

\* A client that went away is torn down: its listener, its timer and its place
\* under the cap are given back (or the process ends).
AbortReleases ==
  \A c \in Conn : aborted[c] /\ pc[c] # "idle" ~> pc[c] = "idle" \/ ~Serving

\* A signalled server stops: nothing it waits for can keep it up.
ShutdownEnds == phase = "closing" ~> ~Serving

\* index.ts 176: "Close all SSE streams gracefully so clients receive a clean
\* `close` frame instead of an EOF": when the process leaves through
\* shutdown(), no stream is cut off while it is still open.
ClosedCleanly == phase = "exited" => Attached = {}
============================================================================
