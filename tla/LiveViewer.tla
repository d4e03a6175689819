----------------------------- MODULE LiveViewer -----------------------------
(***************************************************************************)
(* One browser tab on /s/:sessionId (LiveStream.svelte) in front of the     *)
(* server of PromptStream, whose other connection slots belong to other     *)
(* clients.                                                                 *)
(*                                                                          *)
(* The browser's EventSource is not in the repository.  It is modelled by   *)
(* its standard: a response that is not 200 fails it for good (readyState   *)
(* CLOSED), a lost connection makes it connect again (readyState            *)
(* CONNECTING), both fire `error'.  Rendering and scrolling are left out.   *)
(***************************************************************************)
EXTENDS PromptStream, SequencesExt

CONSTANTS
  TabConn,         \* the slots the tab's requests use; the rest is other clients'
  MaxRetries,      \* MAX_RETRIES
  NoConn           \* the source has no request under way

ASSUME ViewerAssumption ==
  /\ TabConn \subseteq Conn
  /\ MaxRetries \in Nat \ {0}
  /\ NoConn \notin Conn

VARIABLES
  page,        \* is the page loaded, is the island mounted
  session,     \* the sessionId prop
  list,        \* the reactive list of prompts
  view,        \* connectionState
  retries,
  source,      \* null, or the readyState of the EventSource
  link,        \* the connection that serves it
  got          \* frames received on link

viewerVars == <<page, session, list, view, retries, source, link, got>>
allVars == <<vars, viewerVars>>

\* What a displayed prompt is to the list.
Shown == [id : Pid, seq : Nat]

ViewerTypeOK ==
  /\ page \in {"none", "loaded", "mounted"}
  /\ session \in Sid
  /\ list \in Seq(Shown)
  /\ view \in {"connecting", "live", "reconnecting", "archived", "lost"}
  /\ retries \in 0 .. MaxRetries
  /\ source \in {"null", "connecting", "open", "closed"}
  /\ link \in TabConn \cup {NoConn}
  /\ got \in Nat

ViewerInit ==
  /\ Init
  /\ page = "none"
  /\ session = 1
  /\ list = <<>>
  /\ view = "connecting"
  /\ retries = 0
  /\ source = "null"
  /\ link = NoConn
  /\ got = 0

----------------------------------------------------------------------------
(* The list *)

\* The page, a snapshot and a prompt frame write the other fields of a row in
\* three ways; the handlers look at these two.
Row(p) == [id |-> p.id, seq |-> p.seq]

\* [...].sort((a, b) => a.seq - b.seq)
BySeq(S) ==
  CHOOSE l \in [1 .. Cardinality(S) -> S] :
    /\ ToSet(l) = S
    /\ \A i, j \in DOMAIN l : i < j => l[i].seq <= l[j].seq

Ids(l) == {l[i].id : i \in 1 .. Len(l)}

\* upsertPrompt: append unless the id is there
Upsert(p) == IF p.id \in Ids(list) THEN list ELSE Append(list, Row(p))

\* Mutant of Reconcile: the snapshot replaces the list
ReconcileByReplacing(rows) == BySeq({Row(p) : p \in rows})

\* Mutant of Reconcile: the snapshot is appended to the list
ReconcileByAppending(rows) == list \o BySeq({Row(p) : p \in rows})

\* Mutant of Reconcile: only the first snapshot counts
ReconcileOnce(rows) ==
  IF list = <<>> THEN BySeq({Row(p) : p \in rows}) ELSE list

\* reconcileSnapshot: merge by id, the snapshot's version winning, and sort
Reconcile(rows) ==
  BySeq({Row(p) : p \in rows} \cup
        {x \in ToSet(list) : \A p \in rows : p.id # x.id})

----------------------------------------------------------------------------
(* The page *)

\* server-side rendering of the page: the session and all its prompts
LoadPage(s) ==
  /\ page = "none"
  /\ Serving
  /\ SessionExists(s)
  /\ page' = "loaded"
  /\ session' = s
  /\ list' = BySeq({Row(p) : p \in PromptsOf(s)})
  /\ view' = "connecting"
  /\ retries' = 0
  /\ UNCHANGED <<vars, source, link, got>>

\* onMount -> openStream; `archived' is the loaded row's closed_at # NULL,
\* which an admin sets and clears at will
Mount ==
  /\ page = "loaded"
  /\ page' = "mounted"
  /\ \/ view' = "archived" /\ UNCHANGED source
     \/ source' = "connecting" /\ UNCHANGED view
  /\ UNCHANGED <<vars, session, list, retries, link, got>>

\* Mutant of Destroy: the EventSource is not closed
DestroyKeepsSource ==
  /\ page # "none"
  /\ page' = "none"
  /\ UNCHANGED <<vars, session, list, view, retries, source, link, got>>

\* onDestroy: the user navigates away; the server hears of it by an Abort
Destroy ==
  /\ page # "none"
  /\ page' = "none"
  /\ source' = "null"
  /\ link' = NoConn
  /\ got' = 0
  /\ UNCHANGED <<vars, session, list, view, retries>>

----------------------------------------------------------------------------
(* EventSource and its handlers *)

\* the source sends GET /api/stream/:sessionId, at first or again
Connect(c) ==
  /\ source = "connecting"
  /\ link = NoConn
  /\ Request(c, session)
  /\ link' = c
  /\ got' = 0
  /\ UNCHANGED <<page, session, list, view, retries, source>>

\* onerror, with the readyState the source has by then
OnError(readyState) ==
  /\ retries' = retries + 1
  /\ IF retries + 1 >= MaxRetries
     THEN view' = "lost" /\ source' = "null"
     ELSE view' = "reconnecting" /\ source' = readyState
  /\ link' = NoConn
  /\ got' = 0
  /\ UNCHANGED <<vars, page, session, list>>

\* 'open': the response is 200
OnOpen ==
  /\ source = "connecting"
  /\ link # NoConn
  /\ reply[link] = 200
  /\ source' = "open"
  /\ view' = "live"
  /\ retries' = 0
  /\ UNCHANGED <<vars, page, session, list, link, got>>

\* Mutant of OnRefused: a failed source is not reported to the component
OnRefusedUnseen ==
  /\ source = "connecting"
  /\ link # NoConn
  /\ reply[link] \in {401, 403, 503}
  /\ source' = "closed"
  /\ link' = NoConn
  /\ UNCHANGED <<vars, page, session, list, view, retries, got>>

\* the response is 401, 403 or 503
OnRefused ==
  /\ source = "connecting"
  /\ link # NoConn
  /\ reply[link] \in {401, 403, 503}
  /\ OnError("closed")

\* the connection cannot be made, or is lost
OnDisconnect ==
  /\ source \in {"connecting", "open"}
  /\ OnError("connecting")

\* the next frame of the open connection arrives
OnFrame ==
  /\ source = "open"
  /\ got < Len(out[link])
  /\ LET f == out[link][got + 1]
     IN  \/ /\ f.ev = "snapshot"
            /\ list' = Reconcile(f.rows)
            /\ got' = got + 1
            /\ UNCHANGED <<view, source, link>>
         \/ /\ f.ev = "prompt"
            /\ \E p \in f.rows : list' = Upsert(p)
            /\ got' = got + 1
            /\ UNCHANGED <<view, source, link>>
         \/ /\ f.ev = "close"
            /\ view' = "archived"
            /\ source' = "null"
            /\ link' = NoConn
            /\ got' = 0
            /\ UNCHANGED list
  /\ UNCHANGED <<vars, page, session, retries>>

----------------------------------------------------------------------------

\* the server's own steps and the requests of its other clients
ServerStep ==
  /\ \/ \E k \in Claude : Ingest(k) \/ IngestThenCrash(k)
     \/ \E row \in sessions : DeleteSession(row)
     \/ \E c \in Conn \ TabConn, s \in Sid : Request(c, s)
     \/ \E c \in Conn : \/ Refuse(c) \/ TooMany(c) \/ Subscribe(c)
                        \/ Park(c) \/ Abort(c) \/ Teardown(c)
     \/ CloseAllStreams \/ CloseServer \/ Drained \/ HardExit
     \/ Crash \/ Restart
  /\ UNCHANGED viewerVars

ViewerNext ==
  \/ ServerStep
  \/ \E s \in Sid : LoadPage(s)
  \/ Mount \/ Destroy
  \/ \E c \in TabConn : Connect(c)
  \/ OnOpen \/ OnRefused \/ OnDisconnect \/ OnFrame

ViewerSpec == ViewerInit /\ [][ViewerNext]_allVars

\* the tab hears of the end of its connection, or cannot make one
LinkDead ==
  IF link = NoConn THEN phase \notin {"up", "closing"}
  ELSE ~Serving \/ (pc[link] = "idle" /\ (reply[link] = 0 \/ got = Len(out[link])))

Attempt == (\E c \in TabConn : Connect(c)) \/ (LinkDead /\ OnDisconnect)

\* the socket of a connection the tab has given up is noticed dead
Forsaken(c) == c # link /\ Abort(c) /\ UNCHANGED viewerVars

Proceed(c) ==
  /\ Refuse(c) \/ TooMany(c) \/ Subscribe(c) \/ (aborted[c] /\ Park(c)) \/ Teardown(c)
  /\ UNCHANGED viewerVars

(***************************************************************************)
(* The browser connects again and again, delivers what has arrived and      *)
(* notices a dead connection; the server notices a dead socket, and its     *)
(* handlers go on (see PromptStream).                                       *)
(***************************************************************************)
ViewerFairness ==
  /\ WF_allVars(Attempt)
  /\ WF_allVars(OnOpen \/ OnRefused \/ OnFrame)
  /\ \A c \in TabConn : WF_allVars(Forsaken(c)) /\ WF_allVars(Proceed(c))

ViewerFairSpec == ViewerSpec /\ ViewerFairness

----------------------------------------------------------------------------
(* Properties *)

\* Each prompt is shown once and in the order of the session, although prompt
\* frames are appended unsorted and reach the list through reloads, dropped
\* connections and reconnects (LiveStream.svelte 52-64).
ListInOrder ==
  \A i, j \in 1 .. Len(list) : i < j => list[i].seq < list[j].seq

\* The indicator tells the truth about the subscription: "live" only over an
\* open source, no source left behind when the tab says archived or lost or
\* the island is gone.
IndicatorTruthful ==
  /\ view = "live" /\ page = "mounted" => source = "open"
  /\ view \in {"archived", "lost"} => source = "null"
  /\ page # "mounted" => source = "null"

\* With every frame read on an attached connection, the tab shows each prompt
\* of the session's recent history and everything published since.
CaughtUp ==
  source = "open" /\ Serving /\ link \in Attached /\ got = Len(out[link])
    /\ SessionExists(session)
    => /\ {p.id : p \in Snapshot(session)} \subseteq Ids(list)
       /\ {p.id : p \in SentRows(link)} \subseteq Ids(list)

HasHole(l) == \E i \in 1 .. Len(l) - 1 : l[i + 1].seq > l[i].seq + 1

\* The list never forgets a prompt while the page stays, and a hole in it opens
\* only by the snapshot of a reconnect that came too late: the snapshot is
\* full and the prompts missed before it outnumber what a snapshot holds.
GrowsWithoutHoles ==
  [][page = "mounted" =>
       /\ Ids(list) \subseteq Ids(list')
       /\ ~HasHole(list) /\ HasHole(list') =>
            /\ got = 0
            /\ Cardinality(out[link][1].rows) = SnapshotLimit]_allVars

\* A mounted tab does not stay in its first state for ever: it comes to show
\* live, reconnecting, archived or lost.
ConnectingResolves ==
  page = "mounted" /\ view = "connecting" ~> page = "none" \/ view # "connecting"

\* ARCHITECTURE.md 278: the EventSource "auto-reconnects in the browser for
\* free": while the tab says it is reconnecting, something is.
ReconnectingIsTried ==
  page = "mounted" /\ view = "reconnecting" => source = "connecting"
============================================================================
