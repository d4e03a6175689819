------------------------------- MODULE Server -------------------------------
(***************************************************************************)
(* The server process around its routes: it reads its configuration, brings *)
(* the schema up to date and only then listens (lib/config.ts,              *)
(* lib/db/migrate.ts, index.ts); on first use it loads the web build        *)
(* (mount-web.ts) and the OIDC discovery document (lib/oidc.ts) and keeps   *)
(* them while it lives.  The same migration runner is a command line tool   *)
(* that may run beside the server.  Either process may die at any step.     *)
(***************************************************************************)
EXTENDS Naturals

CONSTANTS
  Files,        \* number of migration files, in the order of their names
  Field,        \* environment variables of the configuration schema
  Defaulted,    \* those with a default, or optional
  Environment,  \* environments a process is started in
  WebBuild      \* what may lie at the places a web build is looked for

ASSUME ServerAssumption ==
  /\ Files \in Nat
  /\ Defaulted \subseteq Field
  \* "lazy" is a value the schema lets pass although its use throws: a
  \* REDACTION_EXTRA_PATTERNS whose regex does not compile
  /\ Environment \subseteq [Field -> {"absent", "bad", "good", "lazy"}]

VARIABLES
  ddl,        \* the migration files whose statements are in effect
  recorded,   \* the file names in _migrations
  proc,       \* what each process is doing
  known,      \* the file names each has read from _migrations or added
  patterns,   \* does the server's list of extra patterns compile?
  mount,      \* the memoized web handler of the server
  discovery   \* discoveryPromise of the server

database == <<ddl, recorded>>
memory   == <<patterns, mount, discovery>>
serverVars == <<database, proc, known, memory>>

Runner == {"server", "cli"}
File   == 1 .. Files

ServerTypeOK ==
  /\ ddl \subseteq File
  /\ recorded \subseteq File
  /\ proc \in [Runner -> {"down", "started", "migrating", "listening"}]
  /\ known \in [Runner -> SUBSET File]
  /\ patterns \in {"good", "lazy"}
  /\ mount \in {"unresolved", "ok", "missing"}
  /\ discovery \in {"none", "pending", "loaded", "failed"}

\* a database file that an earlier version brought to its first migrations
ServerInit ==
  /\ \E n \in 0 .. Files : ddl = 1 .. n /\ recorded = 1 .. n
  /\ proc = [r \in Runner |-> "down"]
  /\ known = [r \in Runner |-> {}]
  /\ patterns = "good"
  /\ mount = "unresolved"
  /\ discovery = "none"

----------------------------------------------------------------------------
\* Boot and migrations.

\* rawSchema.safeParse(process.env)
LoadConfig(env) ==
  \A f \in Field :
    \/ env[f] \in {"good", "lazy"}
    \/ env[f] = "absent" /\ f \in Defaulted

\* A process starts; one whose configuration is invalid exits here.
Start(r, env) ==
  /\ proc[r] = "down"
  /\ LoadConfig(env)
  /\ proc' = [proc EXCEPT ![r] = "started"]
  /\ IF r = "server"
     THEN /\ patterns' = IF \E f \in Field : env[f] = "lazy" THEN "lazy" ELSE "good"
          /\ mount' = "unresolved"
          /\ discovery' = "none"
     ELSE UNCHANGED memory
  /\ UNCHANGED <<database, known>>

\* runMigrations: _migrations is made sure of and read, once
ReadApplied(r) ==
  /\ proc[r] = "started"
  /\ proc' = [proc EXCEPT ![r] = "migrating"]
  /\ known' = [known EXCEPT ![r] = recorded]
  /\ UNCHANGED <<database, memory>>

\* the next file of the loop
NextFile(r, i) ==
  /\ i \in File \ known[r]
  /\ \A j \in File : j < i => j \in known[r]

\* Mutant of Commit: the record is written before, and outside of, the
\* transaction, and the process may die in between
CommitInPieces(i) ==
  /\ recorded' = recorded \cup {i}
  /\ ddl' \in {ddl, ddl \cup {i}}

\* the transaction: the statements of the file and its record, both or none
Commit(i) ==
  /\ recorded' = recorded \cup {i}
  /\ ddl' = ddl \cup {i}

Migrate(r, i) ==
  /\ proc[r] = "migrating"
  /\ NextFile(r, i)
  /\ i \notin recorded
  /\ Commit(i)
  /\ known' = [known EXCEPT ![r] = @ \cup {i}]
  /\ UNCHANGED <<proc, memory>>

\* Another runner has recorded the file meanwhile.  Its statements would all
\* be "IF NOT EXISTS", but the INSERT breaks the primary key of _migrations:
\* the transaction is rolled back and the process exits with 1.
MigrateFails(r, i) ==
  /\ proc[r] = "migrating"
  /\ NextFile(r, i)
  /\ i \in recorded
  /\ proc' = [proc EXCEPT ![r] = "down"]
  /\ UNCHANGED <<database, known, memory>>

\* nothing is left for the loop
Migrated(r) == known[r] = File

\* serve(), or the end of the command line tool
FinishMigrations(r) ==
  /\ proc[r] = "migrating"
  /\ Migrated(r)
  /\ proc' = [proc EXCEPT ![r] = IF r = "server" THEN "listening" ELSE "down"]
  /\ UNCHANGED <<database, known, memory>>

\* the process dies, whatever it was doing; an open transaction is rolled back
Die(r) ==
  /\ proc[r] # "down"
  /\ proc' = [proc EXCEPT ![r] = "down"]
  /\ UNCHANGED <<database, known, memory>>

RunnerStep(r) ==
  \/ ReadApplied(r)
  \/ \E i \in File : Migrate(r, i) \/ MigrateFails(r, i)
  \/ FinishMigrations(r)

----------------------------------------------------------------------------
\* What the listening server memoizes.

\* resolveHandler: the first place that holds a build whose module loads and
\* exports a handler.  Two requests that wait for the same import() share one
\* module, so the resolution is one step.
Resolved(build) == IF "works" \in build THEN "ok" ELSE "missing"

ResolveHandler ==
  mount' \in IF mount = "unresolved" THEN {Resolved(b) : b \in WebBuild} ELSE {mount}

\* getDiscovery: the first caller starts the fetch, all wait for one promise
GetDiscovery == discovery' = IF discovery = "none" THEN "pending" ELSE discovery

\* fetchDiscovery resolves: a 200 with the four required fields
DiscoveryLoads ==
  /\ discovery = "pending"
  /\ discovery' = "loaded"

\* Mutant of AfterFailure: the rejected promise stays
AfterFailureKept == "failed"

\* "A failed fetch is not cached": the catch handler clears the promise
AfterFailure == "none"

\* the fetch fails, or its document lacks a field
DiscoveryFails ==
  /\ discovery = "pending"
  /\ discovery' = AfterFailure

ServerNext ==
  \/ \E r \in Runner : RunnerStep(r) \/ Die(r) \/ \E e \in Environment : Start(r, e)
  \/ /\ proc["server"] = "listening"
     /\ \/ ResolveHandler /\ UNCHANGED discovery
        \/ UNCHANGED mount /\ (GetDiscovery \/ DiscoveryLoads \/ DiscoveryFails)
     /\ UNCHANGED <<database, proc, known, patterns>>

ServerSpec == ServerInit /\ [][ServerNext]_serverVars

----------------------------------------------------------------------------
\* Properties.

\* _migrations says what the schema is: exactly the first files of the
\* directory are recorded, a file is recorded if and only if its statements
\* are in effect, and a server listens only on the whole schema; whichever
\* process died where, and however two runners overlapped.
SchemaWhole ==
  /\ \E n \in 0 .. Files : recorded = 1 .. n
  /\ ddl = recorded
  /\ proc["server"] = "listening" => recorded = File
=============================================================================
