# prompt-logger: verification project

prompt-logger records what a person types into Claude Code. A hook script sends
every prompt to a server (Hono on Node, SQLite through better-sqlite3), which
redacts and stores it and pushes it live to the browsers that watch the
session; admins decide who may watch which session. This directory holds TLA+
models of that program, the TLC runs that check them, and TLAPS proofs of the
safety properties for all values of the constants.

`PROJECT.json` names the source lines behind every definition, the runs, the
mutants (each is a plausible bug, and the run of the property finds it), the
hazards and the theorems.

Contents: 1 the system, 2 the modules and the code, 3 the runs, 4 fairness,
5 the proofs, 6 where the code and its documents disagree, 7 what is left out,
8 the plan.

## 1. The system

| component | state | operations | hard about it |
|---|---|---|---|
| hook script (`hook/prompt-logger-hook.sh`) | a background process per prompt, `queue.jsonl` | read, reshape, POST, queue | one process per prompt and nothing that orders them; an answer that races a timeout; two processes appending to one file |
| ingest route and its middleware (`routes/ingest.ts`, `middleware/bodyLimit.ts`, `bearerAuth.ts`, `rateLimit.ts`) | token buckets in a Map | limit, authenticate, rate-limit, wait for the body, transaction, broadcast | a client that is gone by the time its body is handled; eviction at the cap; a clock that is set back; refills that are added up in floating point |
| prompt store (`sessions`, `prompts`) | rows numbered `MAX(seq)+1` | upsert and insert in one transaction; delete with cascade | numbering across deletions, with no constraint on `seq` |
| emitters and SSE stream (`lib/emitter.ts`, `routes/stream.ts`) | a Map of emitters, listeners, a connection count, heartbeat timers, a shutdown registry | subscribe, park, abort, tear down, broadcast | an ingest between the snapshot read and the listener; a client that leaves during an `await`; the cap tested and counted in different statements |
| lifecycle (`index.ts`) | phase of the process | signal, close streams, `server.close`, hard-exit timer, crash, restart | a stream that registers after the registry was cleared |
| live viewer (`LiveStream.svelte`) | list, connection state, retries, an EventSource | open, message, error, retry, destroy | reconnects, prompts missed while away |
| access control (`middleware/access.ts`, `requireAdmin.ts`, `routes/join.ts`, `me.ts`) | grants, class codes, redemptions, expiry | check, join, count | expiry against redemption; the check repeated in another query |
| admin routes (`routes/admin/*.ts`), audit (`lib/audit.ts`) | users, sessions, codes, `audit_log` | create, patch, delete, grant, revoke, list | the actor is read before the body is awaited; write and audit row are two statements |
| sign-in (`routes/auth.ts`, `lib/oidc.ts`, `lib/auth/sessions.ts`) | `auth_sessions`, the flow and session cookies, the discovery cache | login, callback, verify, logout | two waits for the provider inside the callback; sliding expiry; deleted users |
| redaction (`lib/redact.ts`) | none: a function of the text and the options | key blocks, token patterns, .env blocks, extra patterns, emails | stages that run on what earlier ones left |
| the process around its routes (`lib/config.ts`, `lib/db/migrate.ts`, `mount-web.ts`, `lib/oidc.ts`) | the schema and `_migrations`, the memoized web handler, the cached discovery promise | load, migrate, listen, resolve, fetch | a runner that dies or overlaps another (the server and the command line tool); a failure that stays cached |
| site (`hooks.server.ts`, `lib/api/client.ts`, the pages' loads and form actions) | cookies, the open tab, the ticked rows | `GET /api/me`, the deferred join, the page's calls, one after another | one page is many API calls, and anything may happen between two of them or while one waits for its body; in production the call of `handle` comes back to `handle` |
| listings (`routes/admin/*.ts`, `audit.ts`) | rows, cursor | first page, "Load more" | rows that come and go between pages; a page that is exactly full |
| static user interface, backup, deployment, build | (section 7) | | |

They interact like this. The hook's POST runs the ingest transaction and then, in
the same turn of the event loop, `broadcast`, which calls the listener of every
open stream of the session. A stream is opened by a browser that passed the
session middleware (`auth_sessions`) and `canViewSession` (grants, redemptions). Admin
routes write the tables that decide both, and a session they delete takes its prompts
along under the streams that show them. Shutdown reaches the streams through
the registry. A page goes the long way: the web app calls the API with the browser's cookies, and each call is authenticated
anew. The development server does so over HTTP; the production build, mounted in the server's own process, fetches a
relative path, which SvelteKit serves itself (section 6). Node runs one callback at a time, so **the unit of interleaving
is the code between two awaits**; better-sqlite3 is synchronous, so a handler
that does not await is one step. Hooks, browsers, the OIDC provider and admins are
truly concurrent with it.

What makes each part correct:

- store: sessions distinct, prompts numbered 1..n, whatever was deleted;
- stream: every subscriber gets each prompt exactly once, in order, without a gap;
  the cap holds; nothing leaks on any way out; shutdown ends;
- viewer: the list is in order and never has a hole it could have filled, an open
  connection means the list is caught up, and the indicator does not lie;
- access: nobody begins to see a session without an admin's write or an own
  redemption, rights die with their rows, `/api/me` agrees with the check;
- sign-in: a dead token stays dead, expiry slides by exactly the TTL, only
  admins change roles;
- limiter: never more than a bucket and its refill, bounded memory, an honest
  `Retry-After`;
- hook: a prompt is stored or queued, and both only when no answer came;
- redaction: one pass is enough, and the hits account for the marks;
- process: `_migrations` tells the truth about the schema, a failed fetch is not cached;
- site: a join link survives the sign-in, a form writes only by calls that were let in while its user was an admin, every
  page request that is not handed to itself comes to an end;
- listings: whoever follows the pages to their end has missed nothing.

## 2. The modules and the code

The lines of the first block say who extends whom; a module of proofs extends what it is about.

    PromptStore ───┬── PromptStream ──┬── PromptStreamRefinement (instantiates LiveFeed)
                   │                  └── LiveViewer
                   └── HookDelivery
    Access ────────┬── Web ───────────┬── MCSite
    Server ────────┘                  │
    Listing ──────────────────────────┤
    Redact ───────────────────────────┘
    Accounts ────────── MCAccounts
    RateLimiter

    PromptStoreProofs     PromptStore
    PromptStreamProofs    PromptStreamRefinement, PromptStoreProofs
    LiveViewerProofs      LiveViewer, PromptStreamProofs
    HookDeliveryProofs    HookDelivery, PromptStoreProofs
    IngestProofs          RateLimiter, Redact
    AccountsProofs        Accounts
    AccessProofs          Access
    SiteProofs            Web, Listing, AccessProofs

**PromptStore**: tables `sessions` and `prompts`. `IngestTx` is the transaction of
`ingest.ts`, `DeleteSessionTx` the admin's DELETE with its cascade. ULIDs come
from counters, since all the code needs of one is that it is new. Extended by the
three modules that ingest into it.

**PromptStream**: the server side of the live feed. `pc[c]` is the place of a
stream handler between its awaits: *requested* (middleware), *snapshot*
(everything from the access check to the first await has run: listener attached,
snapshot read, connection counted), *parked*, *leaving*, *idle*. `Ingest` is transaction
and broadcast in one step; `IngestThenCrash` is a process that dies between
them. `CloseAllStreams`, `CloseServer`, `Drained`, `HardExit` are the shutdown of `index.ts`.
`Request` carries the one ordering of the event loop that matters: in the turn of the signal
no new request runs before the continuations of promises that are already resolved.
The catch path around the snapshot write is left out, since Hono's `write` swallows
its errors; heartbeat timers are modelled, their frames are not.

**LiveFeed**: what a feed promises, without connections, timers or awaits: publish,
join, leave, stop. **PromptStreamRefinement** instantiates it with the state functions
`Reads` and `SentNumbers`: a reader is subscribed from attachment to
teardown, so snapshot and listener, which the code makes at separate statements, are one
abstract step.

**LiveViewer**: one tab on `/s/:sessionId` in front of PromptStream. The handlers
of `LiveStream.svelte` are actions; the browser's EventSource, which is not in the
repository, follows its standard (not 200: CLOSED for good; connection lost:
CONNECTING). The sort of a merged list (`BySeq`) is stated by what it yields: a sequence of the rows in which
no earlier one has the larger number. That there is one is a lemma of `LiveViewerProofs`.

**RateLimiter**: buckets, `tryConsume`, eviction of the oldest tenth. A refill and a wait are computed in doubles, so each may come
out a little above or below: the model counts tokens in small grains and lets every refill
be off by `Slip` grains in either direction, and the wait that is rounded up to seconds by as much (`Refills`, `RetryAfter`).
`RoundingAssumption` says that what a refill each millisecond can lose until the longest `Retry-After` is up is less than
one millisecond adds; doubles are finer by many orders of magnitude. So a request may be refused at the instant its `Retry-After` is up, after
ten refills of 0.1, and is allowed a millisecond later, which is what `RetryAfterHonest` says. The code's clock is `Date.now`, which may be set back, although `rateLimit.ts:25`
calls the source monotonic.

**Access**: users, sessions, grants, codes, redemptions, audit. An admin route with a body is
two steps, `Authenticate` and the rest, because `await c.req.json()` lies
between: the actor may be demoted or deleted in the meantime. Waiting requests are a set of users and scopes, so one that is done
may leave another of the same user behind (`Departs`); all are gone when the server dies (`Interrupt`). What the audit log says is kept as
`told`, the belief of somebody who replays it.

**Accounts**: the callback of `auth.ts` with its two waits, the flow cookie, the session
cookie, `auth_sessions` and what admins do to `users` meanwhile. `lastUse` is history.

**HookDelivery**: one process per prompt (`hook[e]`), its request (`req[e]`), which goes its own way
once curl has given up, and the queue file as the sequence of pieces that were
written: bash writes a body longer than its output buffer in several calls. It extends PromptStore, so
what arrives is stored by the same transaction, and an admin may delete the session meanwhile.

**Server**: the process before and around its routes. `Start` reads the configuration,
`ReadApplied` reads `_migrations` once, `Migrate` is one file in its transaction, `MigrateFails` the file that
another runner has applied in the meantime; the command line tool runs the same steps beside the server. The
web handler is resolved once and kept. The discovery document is a cached promise, dropped when it fails.

**Listing**: one reader of a list that others change. The four listings of the admin API
have the same WHERE, ORDER and LIMIT; sessions and audit log have a "Load more" link, and the
search for a user to grant a session to follows the users' cursor. `rows` are the ids that match the link's filter.

**Redact**: `redact()` stage by stage, over texts of tokens. What one of the regular expressions
matches is one token; which characters that takes is not modelled. A stage says at which positions of the text its
marks come and which positions go, and a line is the range between two newlines; so nothing is recursive, and what
the stages do to a text of any length can be proved. The state is the text that has arrived, and the options.

**Web**: extends Access and Server. A browser's request (`req[b]`) goes through *mount*, *me*, *deferred*
(the join link kept in `pl_pending_code`), *route* (the page's gate), *calls* (those of the load or of the form action,
one per step) and *answer*, which may be lost. A login waits for discovery first. A call is the action of Access for its route. The
routes that read a body (`HasBody`) take it in two steps, as in Access: its headers are let in with the browser's cookie as it is then
(`LetIn`), and until the body has come `asker` is whoever they let in, demoted, signed out or deleted meanwhile or not. The
others are authenticated and served in one step, which their code does not interrupt. A call is refused when its headers are
(`Admits`), or when the rows it names do not pass (`Passes`). It breaks when nothing listens, or when the connection does, before or after the
route has served it (`Breaks`, `Throws`). `apiJson` stops at a status that is not 2xx, `apiFetch` goes on. A cookie whose auth session is
gone is `Stale`.

Where the pages are rendered matters. Those of the browsers in `Dev` come from the development server, a process of its own that
survives the API's and calls it over HTTP. Those of the others come from the production build behind `mountWeb`. There a request with a
cookie never gets past *me*: `handle` fetches a relative path, which SvelteKit hands to `handle` again (`MeAgain`, `asked` counts
how often). So what section 3 says of the pages of somebody who is signed in, it says of pages that the development server renders; a production
page is modelled from its visitors without a cookie, who do get their page, and its sign-in and logout, which are the API's own.

**MCSite** puts Web, Listing and Redact in one state space without multiplying them: the initial state
chooses a *scene* (the process alone; two browsers that sign in; one that follows join links, by the
development server or in production; one that drops or one that shares rows in bulk; one form of each kind; a listing; a text), and the scene bounds who acts.

## 3. The runs

| run | states | shows |
|---|---|---|
| `stream` | 355 k | the server implements LiveFeed; exactly once, in order, no gap; cap and count; no leak; an aborted stream is torn down; a signalled server stops. 3 clients race for 2 places (so two listeners share an emitter and a third client is refused), 2 prompts, snapshots of 1 (shorter than the history), a session that may be deleted under its streams. |
| `stream_close` | | **violated**, section 6 |
| `viewer` | 1.68 M | the tab in front of the whole server, with 3 retries (10 in the code): it loses its connection and reconnects over the list it kept, twice in a row before it is lost. 3 prompts, snapshots of 1 (so the snapshot of a reconnect misses some), one place for the tab's old and new connection; it also leaves its first state. |
| `viewer_retry` | | **violated**, section 6 |
| `rate_limiter` | 3.21 M | 3 clients, room for 2 buckets (so eviction happens), windows and seconds that do not divide, every refill and wait off by a grain up or down, a clock that may be set back. May stop: the requests are bounded. |
| `access` | 131 k | 2 people (one on the admin list, each perhaps a stub first), 1 session, 1 code, 3 instants, 2 requests waiting for their bodies. |
| `access_unaudited` | | **violated**, section 6 |
| `accounts` | 0.63 M | one browser with up to 3 logins under way, 2 addresses, TTL of 2 of 4 instants, so a visit in mid-life matters and tokens do expire. |
| `accounts_pending` | | **violated**, section 6 |
| `hook` | 350 k | 2 prompts of every kind of payload, 2 Claude sessions and one on a host with a wrong token, deletion of sessions (so one is made again), a bucket of 1. The numbering of the store is checked here. |
| `site` | 442 k | the scenes of MCSite: 2 browsers, one of the development server and one of the production build, 2 people, one other request waiting for its body beside those of the pages, 1 code, 2 sessions, 3 migration files with two runners, two environment variables in every state, 5 ids in pages of 2, every text of at most 3 tokens and every one of three lines out of 12 kinds, a pending code that lives 1 instant; `GET /api/me` counted up to 2 (`MaxAsked`); every request ends but those that repeat it (`PagesAnswered`). |
| `site_production` | | **violated**, section 6: `GET /api/me` is counted up to 2 (`MaxAsked`), enough for *again*. |

Why the bounds are enough: each property of these modules speaks about pairs (two
prompts on one connection, two connections under the cap, two requests of one
user, two tokens of a user who was deleted, two appends to the file, two calls of one page, two runners), and each instance has at least
two of whatever is paired and one more step of the counter that orders them. What the
proofs of section 5 cover needs no such argument. Of `site`: 5 ids in pages of 2 give a full page, a full last page and a
page of one; three lines are what decides whether the middle one belongs to an .env block, since the code looks at a line's
neighbours only; three files let two runners be a file apart with one to come.

Type invariants: each module has one, and each is proved (section 5), `SiteTypeOK` with those of Access and Server
in it. They belong to no run, since the properties there say more. `PromptStore`'s
`StoreNumbered` joins the distinctness of sessions and the numbering of prompts.

What a few properties mean exactly:

- `GrowsWithoutHoles` (viewer): a list that had no hole gets one only when more prompts were
  stored while the tab was away than a snapshot holds; that gap is by design.
- `RetryAfterHonest` (limiter): a request made one millisecond after `Retry-After` is up is allowed, if the clock was not set back. At the
  very millisecond the code's rounding may refuse it, as the states of the run do, with `Retry-After` of a second more.
- `InOrderUnlessOverlapping` (hook): table order is typing order except for a prompt typed while the earlier
  request was still under way, given up by its curl or not.
- `WholeLines` (hook): a line of the queue is whole as long as no two appends ever met and none
  broke off. Without the condition it is false: bodies longer than the output
  buffer do get mixed when two hooks fail together (reproduced with bash 5.2 and two
  200 KB lines).
- `CookieEndsFirst` (sign-in, a theorem without a run) counts the travel of the answer as less than one instant; in
  the code the cookie's `maxAge` starts when the answer arrives.
- `JoinLinkKept` (site): the code leaves the browser only at the end of its five minutes or with a request of
  somebody signed in that tried it. `DeferredJoinLands` is the other half: a try that reaches the API with a good code
  makes the person it was let in for a member, and is refused for no other reason than a code that is gone or expired, a sign-in
  that is over when the call comes, or a person who is gone when its body has. A join the API refuses is given up, as `hooks.server.ts` does.
- `WritesByAdmins` (site): an admin demoted in the middle of a bulk action finishes at most the one call whose body was awaited then,
  although the page's gate was passed before: the point of decision is the authentication of each call, as in `AccessIsGiven`. Calls without a body,
  the deletions, are made by an admin at that very step.
- `PagesAnswered` (site) excepts the requests that the production build hands to itself (`Recurs`), of which the code guarantees no end. Of the
  others it assumes that SvelteKit ends the response or closes the socket: its handler is not in the repository.
- `PagingMissesNothing` (site) speaks of rows that matched all the time. A row that is inserted above the cursor is not seen, and
  that is what a cursor promises.
- `AccessIsGiven`: an admin's write includes one whose admin was demoted after
  authenticating; the code decides at authentication, and no document says otherwise.

## 4. Fairness

Nothing but the liveness properties needs any. They use:

- `PromptStream!Fairness`: a handler whose await has settled goes on (the Node event loop); the snapshot
  write is *not* assumed to settle, except for a client that is gone; `setImmediate`
  runs (strong fairness: its guard speaks of one turn of the loop); the
  hard-exit timer fires. Nothing is assumed of clients, hooks, admins, signals.
- `ViewerFairSpec` adds that the browser delivers what arrived and fires its timers.
- `Web!SiteFairness` (for `PagesAnswered` alone): the event loop serves a request that has arrived, and a fetch ends because undici's
  timeouts end it. Nothing is assumed of browsers, admins or the provider.
- `HookDelivery!FairSpec`: curl's own timers fire and the client machine runs the process. Nothing is
  assumed of the network or the server, so `HookEnds` rests on `--max-time` alone.

## 5. The proofs

All are `Spec => []Inv` or `Spec => [][A]_vars`, and three say that one specification implements another
(`ImplementsLiveFeed`, `SiteRunsServer`, `SiteImplementsTables`); for every value of the constants that the named ASSUMEs
admit, and every one is checked by `tlapm` to the last leaf. The bounds
(`MaxSid`, `MaxPid`, `MaxToken`, ...) are constants too, with no value assumed.

| module | inductive invariant | what it adds to the properties, and why |
|---|---|---|
| PromptStoreProofs | `StoreInv` | finite tables, and ids and numbers below the next ULID. Without a bound `MAX(seq)` need not exist. |
| PromptStreamProofs | `StreamInv` | `StoreInv` and `SpentIds`: what a stream was sent and remembers in `seenIds` are spent ULIDs. A broadcast prompt is then new to every listener and later than all it was sent, which gives *exactly once* and *in order*; *no gap* needs the two to be in the invariant together. |
| (the same) | `StreamInv` again, for the refinement | each step of the server maps to a step of LiveFeed or a stutter. Stored numbers are 1..n without repetition, so a snapshot is the last `SnapshotLimit` numbers, and a broadcast number is the next one for each reader. |
| LiveViewerProofs | `ViewerInv` | `StreamInv`; frames begin with the one snapshot and go on number by number; the rows shown and those sent but not read belong to one session and agree on its numbers, also after the session was deleted; what is not read, the snapshot aside, is later than what is shown. Without that last part *in order* is not inductive, since `upsertPrompt` only appends. A snapshot that is not full is the whole session and has all that is shown, so only a full one opens a hole. |
| HookDeliveryProofs | `HookInv` | an answer under way says what became of the row, which gives *stored or queued*; a request that is over adds no row any more, so a prompt typed after it is later in the table; while no appends met, only the last line of the queue may still be growing, and its process is the only one between its appends. |
| (the same) | `QueueTells` | a process whose newline is in the file is done, one with any other piece in it is past its first append; so what it appends is not there yet, and no prompt is queued twice. |
| IngestProofs | `LimiterInv`; `HonestInv`; `PlaceInv` | a bucket's grants plus its tokens never exceed a full bucket and the refill since it was made, with one rounding error a millisecond. With it, for `RetryAfterIsHonest`: all a waiting client can have lost by rounding is less than one millisecond adds. `PlaceInv`: a key's place in the Map is that of its last use, because `tryConsume` deletes and sets it again; so the oldest tenth of the Map are those idle longest. |
| (the same) | none but the types, for Redact | the properties are about one text, so they rest on relations between what goes into a stage and what comes out. `Accounted` (marks against hits) holds of every stage and composes. `Clean` and its kin say that no later stage brings back what an earlier one removed; the hard part is the .env stage and those behind it: they make no new run of .env lines because what is left of a text keeps its line starts in order, each coming from one of before, and the names at the starts of two neighbours with them. |
| AccessProofs | `AccessInv` | well-formed tables and log, and waiting requests whose users are not stubs. `NothingInherited` follows because a key without a row has no children (`ForeignKeys`) and no step both adds a row and a child of it. |
| AccountsProofs | `AccountsInv` | a row is for a token already handed out, has its user, and ends a TTL after its last use; a stub carries its address. A dead token stays dead because only a sign-in makes a row, for a new token, and only a row still good is slid. |
| SiteProofs | `ServerInv` | what a migrating runner knows is a subset of what is recorded, which is a prefix of the files; so the first file it does not know is either recorded already, and its insert fails with the whole transaction, or the next one due. |
| (the same) | `ListingInv` | every row that matched all the time and is not below the cursor has been read. It needs that a page which is not full has all rows below its cursor, a fact about cardinalities that is a lemma here. |
| (the same) | `SiteInv` | `ServerInv`, `AccessInv`, no rejected discovery promise is kept, and of each browser: the calls its request has left are calls of a page or form, so that what a granted one does is a route of Access; somebody waits for a body only in a call that has one or in the deferred join; an answer takes the pending code away only if the request came with that very code and tried it for somebody; only requests of the development server outlive the server; an auth session has its user. |
| (the same) | `SiteInv` again, for Access | the requests that wait in Access are those of other clients and those of the pages whose `asker` waits for a body (`Waits`); there is room for one per browser more. Each step of the site maps to a step of `T!Spec` or a stutter: letting a call in is `Authenticate`, serving it a route with `Departs`, a call that breaks or is refused is `Refuse`, the death of the server `Interrupt`. The step lemmas of AccessProofs are about `RowsNext`, what any request may do, so they serve both Access and the site. |

Assumptions: bounds and capacities are natural numbers (positive where the configuration
schema says so), the listed subsets are subsets, and the values that stand for SQL NULL, for
a missing row or for nobody are none of the real values.

Theorems that state a checked property:

- live feed: `StoreNumbering`, `ConnectionsCounted`, `StreamsDoNotLeak`, `SentExactlyOnceInOrder`,
  `SentWithoutGap`, `ImplementsLiveFeed`;
- viewer: `ShownInOrder`, `IndicatorTellsTheTruth`, `ReadersCatchUp`, `OnlyLateSnapshotsOpenHoles`;
- hook: `HooksKeepNumbering`, `NothingIsDropped`, `AnsweredOnceOnly`, `TableKeepsOrder`, `LinesAreWhole`;
- redaction: `MarksAreCounted`, `RedactingOnceIsEnough`, for every text;
- limiter: `RateLimited`, `MemoryIsBounded`, `RetryAfterIsHonest`, `TheIdleGoFirst`;
- access: `RowsHaveParents`, `RightsStartEmpty`, `SightIsGiven`, `JoiningGivesSight`, `AnAdminStays`,
  `MeCountsWhatIsSeen`;
- sign-in: `SlidingExpiry`, `DeadTokensStayDead`, `RolesAreKept`;
- process, listings and site: `SchemaIsWhole`, `NothingIsMissed`, `AdminsWrite`, `FailuresAreForgotten`,
  `CodesWait`, `DeferredJoinsLand`, and, now with the pages at work, `SiteKeepsTables` (with `ForeignKeys`),
  `RightsStartEmptyThere` and `AnAdminStaysThere`.

Theorems that no run repeats:

- the inductive invariants themselves and, as parts of them, the types `StreamTypes`, `ViewerTypes`, `HookTypes`, `AccessTypes`,
  `AccountsTypes`, `RedactTypes`, `ServerTypes`, `SiteTypes`;
- `OneRowPerAddress` (users), `CookiesEndFirst` (sign-in), `PagesAreDisjoint` (no row on two pages of one reading);
- hook: `NothingIsQueuedTwice`; `HooksGoForward` (a process takes at most four steps and its request three, and a prompt
  that has its row gets no other);
- site: `SiteRunsServer` (whatever the pages do, the process behaves as Server says, so all that is proved of Server holds
  of the site); `SiteImplementsTables` (a page's calls are to the tables what requests of other clients are, waits for bodies
  included) and, with it, `SightIsGivenThere`, which is `AccessIsGiven` with the waiting pages among the requests; `MembersJoinThemselves` (a
  membership is of the user a request was let in for, who was signed in then in the browser it came from, whatever happened while its
  body was awaited); `RequestsComeNearer` (each step but the repetition of `GET /api/me` in production takes a page request nearer to its end).

`HooksGoForward` and `RequestsComeNearer` are the safety half of `HookEnds` and `PagesAnswered`: no process or request takes
steps for ever, but for the requests that `PagesAnswered` excepts. That it gets its turn is what TLC checks. The formulas of these theorems were run through TLC on the
instances of `hook` and `site` before they were proved.

Only model-checked: the liveness properties `AbortReleases`, `ShutdownEnds`, `ConnectingResolves`, `HookEnds` and
`PagesAnswered`. Liveness under fairness is outside what this prover does.

## 6. Where the code and its documents disagree

Each has a run whose counterexample shows it.

1. `stream_close`: a stream that subscribes or is still writing its snapshot when the signal comes is
   never sent `close` and is cut off by the hard-exit timer (`index.ts:176`).
2. `viewer_retry`: after a 401, 403 or 503 the EventSource is CLOSED, but the tab says "reconnecting" for
   ever (`ARCHITECTURE.md:278`).
3. `access_unaudited`: a write whose admin is deleted while the body arrives is committed and not
   audited (`admin/sessions.ts:10`, "a complete record"). A crash between the two statements has
   the same effect.
4. `accounts_pending`: the first sign-in of somebody an admin pre-provisioned fails with 500 for good
   (`admin/users.ts:10-12`).
5. `site_production`: in a production build `GET /api/me` of `handle` is a relative path (`client.ts:117`, `168-169`), which `event.fetch` of SvelteKit
   serves by calling `handle` again, with the cookie that `apiFetch` forwards; nothing asks for `event.isSubRequest`, so the
   request makes the same call again instead of "once per request" (`hooks.server.ts:19-21`).

Noticed, without a run: `ARCHITECTURE.md:219` says larger prompts are truncated with a marker, but
the hook cuts the JSON in the middle, `jq` prints nothing and the prompt is dropped in silence;
`ARCHITECTURE.md:220-221` names a replay of the queue that the repository does not have; two appends to the queue mix their lines
(section 3); `purgeExpiredSessions` has no caller; a user who ever wrote an
audit row cannot be deleted (ON DELETE RESTRICT) and the request ends with 500; two ULIDs of one
millisecond have no order, so "newest first" in the audit list is not always.

Noticed around the site, also without a run:

- `mountWeb`'s `app.all('*')` answers an unknown `/api/*` path, so the `notFound` of `index.ts:144-147` is never reached; the API's
  `POST /logout` matches before the page of the same path (`logout/+server.ts`), so a browser that logs out gets a 204;
- `mount-web.ts` keeps a failed search for the build until the restart, although its placeholder says to run the build;
- a `REDACTION_EXTRA_PATTERNS` that does not compile passes the configuration (`redact.ts:158-160` compiles it at the first
  use), and each ingest answers 500; the comment at `redact.ts:44-46` says an order that the .env blocks do not follow;
- `GET /admin/sessions/:id` returns no grants, so the panel of grants is always empty; the rows of a full-text search are in
  snake_case; `admin/sessions/[id]/+page.svelte:119` says that deleting a session removes its audit entries, and they stay;
- form actions that use `apiFetch` (edit and delete of a session, users, codes) report a refusal as success, since it does not look at the
  status; so a bulk action counts refused rows as applied (the model of the calls shows it, `Call` in Web), although the comment at `admin/sessions/+page.server.ts:45` says
  "We collect successes and failures";
- one prompt reaches the page in three shapes: `GET /api/sessions/:id` and the snapshot send the redactions as the JSON text of the column, which
  `RedactionBadge.svelte:12` takes for a list, and the snapshot's rows carry `created_at`, so the rows they replace lose the `createdAt` of
  `lib/api/types.ts:62-63` (LiveViewer keeps of a row its id and number);
- ticks survive paging and reloads, and `allChecked` compares sizes only; users and codes show their first page alone;
- `pl_pending_code` is deleted by name, as the flow cookie is: a later link's code may go with an earlier one.

## 7. What is left out

- Text: which characters the redaction's expressions match, what the full-text index finds, titles, display names,
  previews, hashes. They decide nothing the modules talk about.
- The exact errors of floating point in the rate limiter (a bound on them is modelled); the constant-time comparison of tokens; hashing of tokens; PKCE.
- What changes nothing: request log, CORS headers, healthz, logger, the theme cookie, the redirect of `login-landing`.
- What only a test has: the bypass of sign-in. The rewrite in `handleFetch`, which makes the development server's calls reach the API.
- Static user interface, build, deployment and `backup.sh` (one call of sqlite3's `.backup` and a loop that prunes): no behaviour
  over time that the program depends on.
- `purgeExpiredSessions`, which has no caller.
- A failed SQLite write other than a constraint (disk full), which every handler answers with 500.

Abstractions a reader of Web should know: SvelteKit is not in the repository; that `event.fetch` passes a path of the own origin to `handle`
is taken from how it documents itself, and when the repetition ends (memory, a limit of the framework) is not modelled: `MaxAsked` bounds it. A
production page of a visitor without a cookie makes no call that could do anything, so its calls are modelled as refused, by whichever
of SvelteKit and the API. The loads of a page and its layout run in parallel in SvelteKit and gate-first here; loads of GET requests write nothing. The search for a user in
`addGrant`, up to 20 pages, is one call (`find`); its paging is Listing's. The home page's redirect of an admin is a further
request of the browser. Heartbeat frames and the catch around a swallowed write are left out of PromptStream (section 2).

## 8. The plan

Done: the live feed first, since everything else serves it (PromptStore, PromptStream, LiveFeed,
LiveViewer), then access, sign-in, the limiter and the hook; then the process (Server), the pages and forms (Web), the
listings and the redaction. Every safety invariant and action property that a run checks to hold is proved.

Left: a composition of Accounts with PromptStream, for a session that ends while its stream is open (the stream goes
on; the code checks at subscription only), and the five liveness properties, when a prover for them is at hand.
