---------------------------- MODULE HookDelivery ----------------------------
(***************************************************************************)
(* From the prompt to its row: the hook script that Claude Code runs at     *)
(* every prompt, the request its background curl sends, the middleware      *)
(* chain of POST /api/ingest, and the queue file for what was not taken.    *)
(*                                                                          *)
(* Every prompt has a background process of its own; nothing orders them.   *)
(* A request and the curl that sent it go separate ways once curl gives up. *)
(* The configuration of the hook is in place; what can be wrong with it is  *)
(* its token.                                                               *)
(***************************************************************************)
EXTENDS PromptStore, Sequences

CONSTANTS
  BadToken,    \* Claude sessions on a host whose token is not INGEST_TOKEN
  Rate,        \* INGEST_RATE_LIMIT_PER_MIN, for the one address of the hooks
  Kinds,       \* bound: kinds of payload that occur
  MaxEvent     \* bound: prompts ever typed

ASSUME HookAssumption ==
  /\ Claude # {}
  /\ BadToken \subseteq Claude
  /\ Rate \in Nat \ {0}
  /\ Kinds \subseteq {"short", "long", "wide", "odd", "cut"}
  /\ MaxEvent \in Nat

VARIABLES
  from,        \* claude_session_id of each prompt
  kind,        \* its payload: written in one piece, in several, just over
               \* INGEST_MAX_BODY_KB as a body, not in the schema, over 256 KB
  hook,        \* its process on the client
  req,         \* its request
  code,        \* the status on its way back, or NoCode
  row,         \* history: the prompt row its request made, or NoRow
  tokens,      \* what is left in the bucket of the rate limiter
  queue,       \* the pieces written to queue.jsonl
  apart,       \* history: appends to the queue never met or broke off
  with         \* history: the requests under way when the prompt was typed

prompt == <<from, kind, with>>
hookVars == <<storeVars, prompt, hook, req, code, row, tokens, queue, apart>>

NoCode == 0
NoRow  == 0

Event == 1 .. MaxEvent
Codes == {201, 400, 401, 413, 429}

Typed == {e \in Event : hook[e] # "none"}

TypeOK ==
  /\ StoreTypeOK
  /\ from \in [Event -> Claude]
  /\ kind \in [Event -> {"short", "long", "wide", "odd", "cut"}]
  /\ hook \in [Event -> {"none", "sending", "queueing", "rest", "done", "unqueued", "killed"}]
  /\ req \in [Event -> {"none", "sent", "admitted", "over"}]
  /\ code \in [Event -> Codes \cup {NoCode}]
  /\ row \in [Event -> Pid \cup {NoRow}]
  /\ tokens \in 0 .. Rate
  /\ queue \in Seq([of : Event, ends : BOOLEAN])
  /\ apart \in BOOLEAN
  /\ with \in [Event -> SUBSET Event]

Init ==
  /\ StoreInit
  /\ from = [e \in Event |-> CHOOSE k \in Claude : TRUE]
  /\ kind = [e \in Event |-> "short"]
  /\ hook = [e \in Event |-> "none"]
  /\ req = [e \in Event |-> "none"]
  /\ code = [e \in Event |-> NoCode]
  /\ row = [e \in Event |-> NoRow]
  /\ tokens = Rate
  /\ queue = <<>>
  /\ apart = TRUE
  /\ with = [e \in Event |-> {}]

----------------------------------------------------------------------------
\* The client.

\* A payload over 256 KB is cut in the middle of its JSON: jq prints nothing
Reshaped(kd) == kd # "cut"

\* A prompt is typed: the script makes its body, starts the background
\* process and exits 0
Submit(k, kd) ==
  LET e == Cardinality(Typed) + 1
  IN  /\ e \in Event
      /\ from' = [from EXCEPT ![e] = k]
      /\ kind' = [kind EXCEPT ![e] = kd]
      /\ with' = [with EXCEPT ![e] = {d \in Event : req[d] \in {"sent", "admitted"}}]
      /\ hook' = [hook EXCEPT ![e] = IF Reshaped(kd) THEN "sending" ELSE "done"]
      /\ req' = [req EXCEPT ![e] = IF Reshaped(kd) THEN "sent" ELSE "over"]
      /\ UNCHANGED <<storeVars, code, row, tokens, queue, apart>>

\* Mutant of Taken: any answer will do
TakenAtAll(c) == c # NoCode

\* Mutant of Taken: 200 alone is a success
TakenAt200(c) == c = 200

\* the case of the status: 2??
Taken(c) == c \in 200 .. 299

\* curl prints the status of the answer
Answered(e) ==
  /\ hook[e] = "sending"
  /\ code[e] # NoCode
  /\ hook' = [hook EXCEPT ![e] = IF Taken(code[e]) THEN "done" ELSE "queueing"]
  /\ code' = [code EXCEPT ![e] = NoCode]
  /\ UNCHANGED <<storeVars, prompt, req, row, tokens, queue, apart>>

\* Mutant of TimesOut: --connect-timeout without --max-time
TimesOutConnecting(e) == hook[e] = "sending" /\ req[e] = "sent"

\* either timeout of curl; a refused or broken connection ends it early
TimesOut(e) == hook[e] = "sending"

\* curl prints 000
GivesUp(e) ==
  /\ TimesOut(e)
  /\ hook' = [hook EXCEPT ![e] = "queueing"]
  /\ UNCHANGED <<storeVars, prompt, req, code, row, tokens, queue, apart>>

\* Mutant of Pieces: the newline is forgotten
PiecesUnended(e) ==
  IF kind[e] \in {"long", "wide"}
  THEN <<[of |-> e, ends |-> FALSE], [of |-> e, ends |-> FALSE]>>
  ELSE <<[of |-> e, ends |-> FALSE]>>

\* what the printf of a body writes: one piece, or for a body longer than
\* the output buffer several (here two), the newline in the last
Pieces(e) ==
  IF kind[e] \in {"long", "wide"}
  THEN <<[of |-> e, ends |-> FALSE], [of |-> e, ends |-> TRUE]>>
  ELSE <<[of |-> e, ends |-> TRUE]>>

\* the file is opened for append and the first piece written
Queue(e) ==
  /\ hook[e] = "queueing"
  /\ queue' = Append(queue, Pieces(e)[1])
  /\ hook' = [hook EXCEPT ![e] = IF Len(Pieces(e)) = 1 THEN "done" ELSE "rest"]
  /\ apart' = (apart /\ \A d \in Event : hook[d] # "rest")
  /\ UNCHANGED <<storeVars, prompt, req, code, row, tokens>>

QueueRest(e) ==
  /\ hook[e] = "rest"
  /\ queue' = Append(queue, Pieces(e)[2])
  /\ hook' = [hook EXCEPT ![e] = "done"]
  /\ UNCHANGED <<storeVars, prompt, req, code, row, tokens, apart>>

\* the directory or the file cannot be written: || true
QueueFails(e) ==
  /\ hook[e] = "queueing"
  /\ hook' = [hook EXCEPT ![e] = "unqueued"]
  /\ UNCHANGED <<storeVars, prompt, req, code, row, tokens, queue, apart>>

\* the client machine is switched off, or the process is killed
Kill(e) ==
  /\ hook[e] \in {"sending", "queueing", "rest"}
  /\ hook' = [hook EXCEPT ![e] = "killed"]
  /\ apart' = (apart /\ hook[e] # "rest")
  /\ UNCHANGED <<storeVars, prompt, req, code, row, tokens, queue>>

----------------------------------------------------------------------------
\* The server: bodyLimit, bearerAuth and rateLimit decide on the headers;
\* zValidator waits for the body; the handler does not wait.

TooLarge(e)     == kind[e] = "wide"
Unauthorized(e) == from[e] \in BadToken

Refuse(e, c) ==
  /\ req' = [req EXCEPT ![e] = "over"]
  /\ code' = [code EXCEPT ![e] = c]
  /\ UNCHANGED <<storeVars, row>>

\* the headers arrive, in time or after curl has given up
Admit(e) ==
  /\ req[e] = "sent"
  /\ \/ TooLarge(e) /\ Refuse(e, 413) /\ UNCHANGED tokens
     \/ ~TooLarge(e) /\ Unauthorized(e) /\ Refuse(e, 401) /\ UNCHANGED tokens
     \/ ~TooLarge(e) /\ ~Unauthorized(e) /\ tokens = 0 /\ Refuse(e, 429) /\ UNCHANGED tokens
     \/ /\ ~TooLarge(e) /\ ~Unauthorized(e)
        /\ tokens > 0
        /\ tokens' = tokens - 1
        /\ req' = [req EXCEPT ![e] = "admitted"]
        /\ UNCHANGED <<storeVars, row, code>>
  /\ UNCHANGED <<prompt, hook, queue, apart>>

\* the body is there and fits the schema: the transaction, and 201
Store(e) ==
  /\ req[e] = "admitted"
  /\ kind[e] # "odd"
  /\ IngestTx(from[e])
  /\ row' = [row EXCEPT ![e] = nextPid]
  /\ req' = [req EXCEPT ![e] = "over"]
  /\ code' = [code EXCEPT ![e] = 201]
  /\ UNCHANGED <<prompt, hook, tokens, queue, apart>>

\* the body is there and does not fit: a field that is null, such as a
\* claude_session_id the payload did not have
Invalid(e) ==
  /\ req[e] = "admitted"
  /\ kind[e] = "odd"
  /\ Refuse(e, 400)
  /\ UNCHANGED <<prompt, hook, tokens, queue, apart>>

\* the request is lost on its way, or the rest of its body is
Lose(e) ==
  /\ req[e] \in {"sent", "admitted"}
  /\ req' = [req EXCEPT ![e] = "over"]
  /\ UNCHANGED <<storeVars, prompt, hook, code, row, tokens, queue, apart>>

\* the process dies and starts anew: requests and answers are gone, the
\* buckets are in memory
Restart ==
  /\ req' = [e \in Event |-> IF req[e] = "none" THEN "none" ELSE "over"]
  /\ code' = [e \in Event |-> NoCode]
  /\ tokens' = Rate
  /\ UNCHANGED <<storeVars, prompt, hook, row, queue, apart>>

Refill == tokens' = tokens + 1 /\ tokens < Rate

TimePasses ==
  /\ Refill
  /\ UNCHANGED <<storeVars, prompt, hook, req, code, row, queue, apart>>

\* an admin deletes a session, between any two steps of the hooks
DeleteSession(session) ==
  /\ DeleteSessionTx(session)
  /\ UNCHANGED <<prompt, hook, req, code, row, tokens, queue, apart>>

Next ==
  \/ \E k \in Claude, kd \in Kinds : Submit(k, kd)
  \/ \E e \in Event :
       \/ Answered(e) \/ GivesUp(e) \/ Queue(e) \/ QueueRest(e) \/ QueueFails(e) \/ Kill(e)
       \/ Admit(e) \/ Store(e) \/ Invalid(e) \/ Lose(e)
  \/ \E session \in sessions : DeleteSession(session)
  \/ Restart
  \/ TimePasses

Spec == Init /\ [][Next]_hookVars

\* curl's timers fire, and the client machine runs the process; nothing is
\* asked of the network or the server
FairSpec ==
  /\ Spec
  /\ \A e \in Event : WF_hookVars(GivesUp(e) \/ Queue(e) \/ QueueRest(e))

----------------------------------------------------------------------------
\* Properties.

\* A prompt whose process came to its end was stored or is, every piece of
\* it, in the queue file - however its request and its timeouts met; what was
\* too long for jq to read is the exception (hook/README.md: "On network
\* failure, the payload is appended to queue.jsonl").
StoredOrQueued ==
  \A e \in Event : hook[e] = "done" =>
    \/ ~Reshaped(kind[e])
    \/ row[e] # NoRow
    \/ \A i \in 1 .. Len(Pieces(e)) : \E j \in 1 .. Len(queue) : queue[j] = Pieces(e)[i]

\* A prompt is both in the table and in the queue only if no answer reached
\* its curl: what was answered is in one place, so that a replay of the queue
\* repeats a prompt only after a timeout or a broken connection.
TwiceOnlyIfUnanswered ==
  [][\A e \in Event : Answered(e) => (hook'[e] = "done" <=> row[e] # NoRow)]_hookVars

InTable(e) == \E p \in prompts : p.id = row[e]
SeqOf(e) == (CHOOSE p \in prompts : p.id = row[e]).seq

\* The order of a Claude session in the table, as far as it is still there, is
\* the order in which its prompts were typed, except for a prompt typed while
\* the request of the earlier one was still under way - abandoned by its curl
\* or not.
InOrderUnlessOverlapping ==
  \A d, e \in Event :
    d < e /\ from[d] = from[e] /\ InTable(d) /\ InTable(e) /\ d \notin with[e]
      => SeqOf(d) < SeqOf(e)

Starts(i) == i = 1 \/ queue[i - 1].ends

\* While no two appends ever met and none broke off, every line of the queue
\* file is one whole body.  (Without that condition it fails: bodies longer
\* than bash's output buffer are written in pieces, and two processes mix
\* theirs.)
WholeLines ==
  apart => \A i \in 1 .. Len(queue) :
             LET e == queue[i].of
             IN  Starts(i) /\ hook[e] = "done" =>
                   LET last == i + Len(Pieces(e)) - 1
                   IN  /\ last <= Len(queue)
                       /\ \A j \in i .. last : queue[j] = [of |-> e, ends |-> j = last]

\* No process stays behind: --max-time ends every curl, whatever the network
\* and the server do or fail to do.
HookEnds ==
  \A e \in Event : hook[e] = "sending" ~> hook[e] \in {"done", "unqueued", "killed"}
============================================================================
