---------------------------- MODULE PromptStore ----------------------------
(***************************************************************************)
(* The two tables the live feed reads, sessions and prompts, and the two    *)
(* writers that add and remove their rows: the transaction inside POST      *)
(* /api/ingest and the admin's DELETE /api/admin/sessions/:id with its      *)
(* foreign-key cascade.                                                     *)
(*                                                                          *)
(* ULIDs are drawn from two counters: all the code needs of a ULID is that  *)
(* it was never handed out before.  A row keeps the columns that decide     *)
(* something; titles, previews, content and timestamps are left out.        *)
(***************************************************************************)
EXTENDS Integers, FiniteSets

CONSTANTS
  Claude,      \* claude_session_id values the hooks send
  MaxSid,      \* bound: session rows ever created
  MaxPid       \* bound: prompt rows ever created

ASSUME StoreAssumption ==
  /\ MaxSid \in Nat \ {0}
  /\ MaxPid \in Nat

VARIABLES
  sessions,    \* table sessions
  prompts,     \* table prompts
  nextSid,     \* the next session ULID
  nextPid      \* the next prompt ULID

storeVars == <<sessions, prompts, nextSid, nextPid>>

Sid == 1 .. MaxSid
Pid == 1 .. MaxPid

SessionRow == [id : Sid, claude : Claude, seq : Nat]
PromptRow  == [id : Pid, sid : Sid, seq : Nat]

StoreTypeOK ==
  /\ sessions \subseteq SessionRow
  /\ prompts \subseteq PromptRow
  /\ nextSid \in 1 .. MaxSid + 1
  /\ nextPid \in 1 .. MaxPid + 1

StoreInit ==
  /\ sessions = {}
  /\ prompts = {}
  /\ nextSid = 1
  /\ nextPid = 1

----------------------------------------------------------------------------

\* Mutant of NextSeq: the highest seq itself
NextSeqNoIncrement(rows) ==
  IF rows = {} THEN 1
  ELSE CHOOSE m \in {r.seq : r \in rows} : \A r \in rows : r.seq <= m

\* SELECT COALESCE(MAX(seq), 0) + 1 over a set of rows
NextSeq(rows) ==
  IF rows = {} THEN 1
  ELSE 1 + (CHOOSE m \in {r.seq : r \in rows} : \A r \in rows : r.seq <= m)

PromptsOf(s) == {p \in prompts : p.sid = s}

SessionExists(s) == \E row \in sessions : row.id = s

\* the row the upsert leaves for claude_session_id k: the existing one, or
\* a new one numbered after the highest session
TargetSession(k) ==
  IF \E row \in sessions : row.claude = k
  THEN CHOOSE row \in sessions : row.claude = k
  ELSE [id |-> nextSid, claude |-> k, seq |-> NextSeq(sessions)]

\* the prompt row the transaction inserts
NewPrompt(k) ==
  LET s == TargetSession(k).id
  IN  [id |-> nextPid, sid |-> s, seq |-> NextSeq(PromptsOf(s))]

\* the single better-sqlite3 transaction of the ingest handler
IngestTx(k) ==
  /\ TargetSession(k).id <= MaxSid
  /\ nextPid <= MaxPid
  /\ sessions' = sessions \cup {TargetSession(k)}
  /\ nextSid' = IF TargetSession(k) \in sessions THEN nextSid ELSE nextSid + 1
  /\ prompts' = prompts \cup {NewPrompt(k)}
  /\ nextPid' = nextPid + 1

\* Mutant of DeleteSessionTx: the prompts stay behind
DeleteSessionTxNoCascade(row) ==
  /\ row \in sessions
  /\ sessions' = sessions \ {row}
  /\ UNCHANGED <<prompts, nextSid, nextPid>>

\* DELETE of a session row; prompts go with it (ON DELETE CASCADE)
DeleteSessionTx(row) ==
  /\ row \in sessions
  /\ sessions' = sessions \ {row}
  /\ prompts' = prompts \ PromptsOf(row.id)
  /\ UNCHANGED <<nextSid, nextPid>>

StoreNext ==
  \/ \E k \in Claude : IngestTx(k)
  \/ \E row \in sessions : DeleteSessionTx(row)

StoreSpec == StoreInit /\ [][StoreNext]_storeVars

----------------------------------------------------------------------------

\* No two sessions are bound to the same Claude session, and no two carry the
\* same number in their title, through any order of ingests and deletions
\* (ingest.ts computes MAX(seq)+1; no UNIQUE constraint guards seq).
SessionsDistinct ==
  \A r, t \in sessions :
    r.id = t.id \/ r.claude = t.claude \/ r.seq = t.seq => r = t

\* The prompts of a session are numbered 1..n without a hole or a repetition,
\* although seq is computed by a read of the same transaction, and every
\* prompt belongs to a session that exists.
PromptsNumbered ==
  /\ \A p \in prompts : SessionExists(p.sid)
  /\ \A p, q \in prompts : p.sid = q.sid /\ p.seq = q.seq => p = q
  /\ \A p \in prompts : \A i \in 1 .. p.seq :
       \E q \in prompts : q.sid = p.sid /\ q.seq = i

\* The numbers in the store are right, of sessions and of prompts.
StoreNumbered == SessionsDistinct /\ PromptsNumbered
============================================================================
