-------------------------------- MODULE Web --------------------------------
(***************************************************************************)
(* The site as browsers meet it: SvelteKit, whose hooks and pages call the  *)
(* API with the browser's cookies.  A page request is the calls it makes,   *)
(* one after another: GET /api/me in hooks.server.ts, the join that was     *)
(* deferred across a sign-in, and those of the page's load function or form *)
(* action.  Other requests run between any two of them, and while a call    *)
(* waits for its body; the server may die at any of these points.           *)
(*                                                                          *)
(* The pages of the browsers in Dev are rendered by the development server, *)
(* a process of its own that calls the API over HTTP.  Those of the others  *)
(* come from the production build mounted in the server: there an API path  *)
(* is relative, and event.fetch hands a path of the own origin to handle    *)
(* again before anything else.                                              *)
(*                                                                          *)
(* The API's handlers are the actions of Access; the process is Server.  A  *)
(* browser has one request under way at a time.                             *)
(***************************************************************************)
EXTENDS Access, Server, Sequences, SequencesExt

CONSTANTS
  Browser,
  Dev,         \* the browsers that use the development server
  Nobody,      \* no user, no cookie, no request
  Stale,       \* a pl_sess cookie whose auth session is gone
  PendingTTL,  \* maxAge of pl_pending_code, in instants
  MaxAsked,    \* bound: GET /api/me of one page request
  Form         \* the pages and forms the browsers use

----------------------------------------------------------------------------
\* What a browser can ask for: the pages and the form actions, each as the API
\* calls it makes, in their order.

\* apiJson throws when the status is not 2xx; apiFetch does not look at it
Via(c, via) == [f \in DOMAIN c \cup {"via"} |-> IF f = "via" THEN via ELSE c[f]]
apiJson(c)  == Via(c, "json")
apiFetch(c) == Via(c, "fetch")

Visibility == {"private", "shared", "code"}

Asks(kind, calls) == [kind |-> kind, calls |-> calls]
Action(c) == Asks("action", <<c>>)

\* one call per ticked row
bulkSetVisibility(ids, v) ==
  Asks("action", [i \in DOMAIN ids |-> apiFetch([op |-> "show", sid |-> ids[i], vis |-> v])])
bulkDelete(ids) ==
  Asks("action", [i \in DOMAIN ids |-> apiFetch([op |-> "drop", sid |-> ids[i]])])

update(s, v, t) == Action(apiFetch([op |-> "edit", sid |-> s, vis |-> v, tag |-> t]))
delete(s)       == Action(apiFetch([op |-> "drop", sid |-> s]))

\* the user of the address is looked up, then granted (LeftAfter)
addGrant(s, e)    == Action(apiJson([op |-> "find", sid |-> s, email |-> e]))
removeGrant(s, u) == Action(apiFetch([op |-> "revoke", sid |-> s, user |-> u]))

invite(e, r) == Action(apiFetch([op |-> "invite", email |-> e, role |-> r]))
promote(u)   == Action(apiFetch([op |-> "role", user |-> u, role |-> "admin"]))
demote(u)    == Action(apiFetch([op |-> "role", user |-> u, role |-> "viewer"]))
remove(u)    == Action(apiFetch([op |-> "remove", user |-> u]))

create(k, row) == Action(apiFetch([op |-> "code", code |-> k, row |-> row]))
deleteCode(k)  == Action(apiFetch([op |-> "uncode", code |-> k]))
join(k)        == Action(apiJson([op |-> "join", code |-> k]))

\* the forms each page offers; a page may be old, so for every row
SessionForms ==
  {update(s, v, t) : s \in Sid, v \in Visibility, t \in Tag \cup {NoTag}}
    \cup {delete(s) : s \in Sid}
GrantForms ==
  {addGrant(s, e) : s \in Sid, e \in Email} \cup {removeGrant(s, u) : s \in Sid, u \in UserId}
UserForms ==
  {invite(e, r) : e \in Email, r \in Role}
    \cup UNION {{promote(u), demote(u), remove(u)} : u \in UserId}
CodeForms ==
  {create(k, row) : k \in Code, row \in CodeRow} \cup {deleteCode(k) : k \in Code}

\* reads that are not modelled further; a list of users that is only there to
\* put addresses to ids may fail
Read   == [op |-> "read"]
Lookup == [op |-> "read", via |-> "try"]

Dashboard       == Asks("admin", <<apiJson(Read)>>)
SessionsPage    == Asks("admin", <<apiJson([op |-> "list"])>>)
SessionPage(s)  == Asks("admin", <<apiJson([op |-> "detail", sid |-> s]), Lookup>>)
UsersPage       == Asks("admin", <<apiJson(Read)>>)
CodesPage       == Asks("admin", <<apiJson(Read)>>)
AuditPage       == Asks("admin", <<apiJson(Read), Lookup>>)
SessionView(s)  == Asks("page", <<apiJson([op |-> "see", sid |-> s])>>)
ProfilePage     == Asks("page", <<>>)
TagView         == [kind |-> "tag"]
JoinLink(k)     == [kind |-> "link", code |-> k]

Pages ==
  {Dashboard, SessionsPage, UsersPage, CodesPage, AuditPage, ProfilePage, TagView}
    \cup {SessionPage(s) : s \in Sid} \cup {SessionView(s) : s \in Sid}
    \cup {JoinLink(k) : k \in Code}

ASSUME WebAssumption ==
  /\ Form \subseteq Pages \cup SessionForms \cup GrantForms \cup UserForms \cup CodeForms
                  \cup {join(k) : k \in Code}
  /\ PendingTTL \in Nat \ {0}
  /\ MaxAsked \in Nat \ {0}
  /\ IsFiniteSet(Browser) /\ Dev \subseteq Browser
  /\ Nobody \notin UserId /\ Nobody \notin [code : Code, until : Nat]
  /\ Stale \notin UserId /\ Stale # Nobody

----------------------------------------------------------------------------
VARIABLES
  login,     \* Browser -> user of the auth session its cookie names, Stale or Nobody
  pending,   \* Browser -> its pl_pending_code cookie, or Nobody
  tab,       \* Browser -> where it is: at the provider, on the list, elsewhere
  shown,     \* Browser -> data.sessions of the list page
  selected,  \* Browser -> the ticked ids of the list page
  req        \* Browser -> its request, or Nobody

apiVars     == vars
browserVars == <<login, pending, tab, shown, selected>>
siteVars    == <<apiVars, serverVars, browserVars, req>>

BrowserInit ==
  /\ pending = [b \in Browser |-> Nobody]
  /\ tab = [b \in Browser |-> "other"]
  /\ shown = [b \in Browser |-> {}]
  /\ selected = [b \in Browser |-> {}]
  /\ req = [b \in Browser |-> Nobody]

SiteInit ==
  /\ Init
  /\ ServerInit
  /\ BrowserInit
  /\ login = [b \in Browser |-> Nobody]

Listening == proc["server"] = "listening"

SignedIn(b) == login[b] \notin {Nobody, Stale}

\* deleting a user deletes the auth sessions (ON DELETE CASCADE), not the
\* cookies that name them
LoginsSurvive ==
  login' = [b \in Browser |->
              IF SignedIn(b) /\ users'[login[b]] = Absent THEN Stale ELSE login[b]]

\* request b goes on at another step, with some fields changed
Goes(b, r) == req' = [req EXCEPT ![b] = r]
At(b, step) == req[b] # Nobody /\ req[b].step = step /\ (Listening \/ b \in Dev)

----------------------------------------------------------------------------
\* The list page, admin/sessions/+page.svelte.

ToggleRow(b, s) ==
  /\ tab[b] = "list"
  /\ s \in shown[b]
  /\ selected' = [selected EXCEPT ![b] = IF s \in @ THEN @ \ {s} ELSE @ \cup {s}]
  /\ UNCHANGED <<apiVars, serverVars, login, pending, tab, shown, req>>

ToggleAll(b, checked) ==
  /\ tab[b] = "list"
  /\ selected' = [selected EXCEPT ![b] = IF checked THEN shown[b] ELSE {}]
  /\ UNCHANGED <<apiVars, serverVars, login, pending, tab, shown, req>>

\* the bulk bar, which is there when something is ticked
BulkForms(b) ==
  IF selected[b] = {} THEN {}
  ELSE UNION {{bulkDelete(ids)} \cup {bulkSetVisibility(ids, v) : v \in Visibility} :
                ids \in SetToSeqs(selected[b])}

----------------------------------------------------------------------------
\* Sending a request.

Send(b, form, step) ==
  /\ req[b] = Nobody
  /\ Goes(b, [form |-> form, step |-> step, user |-> Nobody, asked |-> 0,
              left |-> <<>>, asker |-> Nobody,
              join |-> IF pending[b] = Nobody THEN Nobody ELSE pending[b].code,
              tried |-> "no", sets |-> "keep", rows |-> {}, to |-> "page"])
  /\ UNCHANGED <<apiVars, serverVars, browserVars>>

\* the production build is behind mountWeb
Arrival(b) == IF b \in Dev THEN "me" ELSE "mount"

Visit(b) ==
  /\ Listening \/ b \in Dev
  /\ \/ \E form \in Form : /\ tab[b] = "list" => form.kind # "action"
                           /\ Send(b, form, Arrival(b))
     \/ \E form \in BulkForms(b) : Send(b, form, Arrival(b))

\* GET /login and, back from the provider, GET /auth/callback: served by the
\* API's own routes, which match before the catch-all
GoToLogin(b) == Listening /\ Send(b, [kind |-> "login"], "discovery")
Callback(b, e) ==
  /\ Listening /\ tab[b] = "provider"
  /\ Send(b, [kind |-> "callback", email |-> e], "discovery")

\* POST /logout: also the API's own; the cookie and its row go
Logout(b) ==
  /\ Listening /\ req[b] = Nobody /\ login[b] # Nobody
  /\ login' = [login EXCEPT ![b] = Nobody]
  /\ UNCHANGED <<apiVars, serverVars, pending, tab, shown, selected, req>>

----------------------------------------------------------------------------
\* Signing in.

\* createAuthorizationURL, and the three uses of the callback: the caller
\* waits for the promise; if there is none it starts the fetch
AwaitDiscovery(b) ==
  /\ At(b, "discovery") /\ Listening
  /\ GetDiscovery
  /\ Goes(b, IF discovery = "failed"
             THEN [req[b] EXCEPT !.step = "answer", !.to = "refused"]
             ELSE [req[b] EXCEPT !.step = "awaits"])
  /\ UNCHANGED <<apiVars, database, proc, known, patterns, mount, browserVars>>

\* Mutant of Waiting: a rejection that nobody passes on
WaitingUnheard == {}

Waiting == {b \in Browser : req[b] # Nobody /\ req[b].step = "awaits"}

\* the fetch ends; those who wait see its failure and answer 500 or 400
FetchEnds ==
  /\ Listening
  /\ \/ DiscoveryLoads /\ UNCHANGED req
     \/ /\ DiscoveryFails
        /\ req' = [b \in Browser |-> IF b \in Waiting
                     THEN [req[b] EXCEPT !.step = "answer", !.to = "refused"]
                     ELSE req[b]]
  /\ UNCHANGED <<apiVars, database, proc, known, patterns, mount, browserVars>>

\* GET /login redirects to the provider
Redirects(b) ==
  /\ At(b, "awaits") /\ Listening
  /\ discovery = "loaded"
  /\ req[b].form.kind = "login"
  /\ Goes(b, [req[b] EXCEPT !.step = "answer", !.to = "provider"])
  /\ UNCHANGED <<apiVars, serverVars, browserVars>>

\* The callback exchanges the code and ends signed in (Accounts has its
\* steps), provisioning the user at the first login; or the provider or the
\* insert fails.
SignsIn(b) ==
  /\ At(b, "awaits") /\ Listening
  /\ discovery = "loaded"
  /\ req[b].form.kind = "callback"
  /\ LET e == req[b].form.email
         u == [email |-> e, pending |-> FALSE]
     IN  \/ /\ IF Exists(u) THEN UNCHANGED apiVars ELSE SignUp(e)
            /\ login' = [login EXCEPT ![b] = u]
            /\ Goes(b, [req[b] EXCEPT !.step = "answer"])
         \/ /\ Goes(b, [req[b] EXCEPT !.step = "answer", !.to = "refused"])
            /\ UNCHANGED <<apiVars, login>>
  /\ UNCHANGED <<serverVars, pending, tab, shown, selected>>

----------------------------------------------------------------------------
\* The API, as apiFetch and apiJson reach it.

\* Mutant of ScopeOf: the join route behind requireAdmin
ScopeOfAll(c) == "admin"

\* requireAuth or requireAdmin, by the route
ScopeOf(c) == IF c.op \in {"join", "see"} THEN "user" ELSE "admin"

\* the user's row as it is at this call (401, 403)
Authorized(u, c) == Exists(u) /\ (ScopeOf(c) = "admin" => users[u] = "admin")

\* who the headers of a call let in, as their rows are when they arrive
Admits(b, c) == Listening /\ SignedIn(b) /\ Authorized(login[b], c)

\* the routes that wait for a body before they go on
HasBody(c) == c.op \in {"join", "show", "edit", "grant", "invite", "role", "code"}

\* what the route checks of the rows a call names, and the foreign key of a
\* redemption (403, 404, 409, 500)
Passes(u, c) ==
  CASE c.op = "join" -> codes[c.code] # Absent /\ ~Expired(c.code) /\ Exists(u)
    [] c.op = "see" -> Sees(u, c.sid)
    [] c.op \in {"show", "edit", "drop", "detail"} -> sessions[c.sid] # Absent
    [] c.op = "grant" -> sessions[c.sid] # Absent /\ Exists(c.user)
    [] c.op = "invite" -> ~EmailTaken(c.email)
    [] c.op = "role" -> Exists(c.user)
    [] c.op = "remove" -> Exists(c.user) /\ MayDelete(u, c.user)
    [] c.op = "code" -> codes[c.code] = Absent
    [] c.op = "uncode" -> codes[c.code] # Absent
    [] OTHER -> TRUE

\* What a call for user u does when its route serves it; the requests of other
\* clients wait on.
Do(u, c) ==
  /\ LET q == [user |-> u, scope |-> ScopeOf(c)]
     IN  \/ c.op = "join" /\ Redeem(q, c.code)
         \/ c.op = "show" /\ PatchSession(q, c.sid, [sessions[c.sid] EXCEPT !.vis = c.vis])
         \/ c.op = "edit" /\ PatchSession(q, c.sid, [vis |-> c.vis, tag |-> c.tag])
         \/ c.op = "drop" /\ DeleteSession(u, c.sid)
         \/ c.op = "grant" /\ Grant(q, c.sid, c.user)
         \/ c.op = "revoke" /\ Revoke(u, c.sid, c.user)
         \/ c.op = "invite" /\ CreateUser(q, c.email, c.role)
         \/ c.op = "role" /\ PatchUser(q, c.user, c.role)
         \/ c.op = "remove" /\ DeleteUser(u, c.user)
         \/ c.op = "code" /\ CreateCode(q, c.code, c.row)
         \/ c.op = "uncode" /\ DeleteCode(u, c.code)
         \/ c.op \in {"see", "detail", "list", "read", "find"} /\ UNCHANGED <<tables, audit, now>>
  /\ UNCHANGED inflight

\* the headers of a call with a body arrive: whoever they let in stays let in
\* while the body is awaited
LetIn(b, c) ==
  /\ HasBody(c) /\ req[b].asker = Nobody
  /\ Admits(b, c)
  /\ Goes(b, [req[b] EXCEPT !.asker = login[b]])
  /\ UNCHANGED apiVars

\* for whom a call is served now
Asker(b, c) ==
  IF HasBody(c) THEN req[b].asker ELSE IF Admits(b, c) THEN login[b] ELSE Nobody

\* Mutant of Granted: who may write is decided by what GET /api/me said when
\* the request came
GrantedByHook(b, c) ==
  LET u == IF c.op # "drop" THEN Asker(b, c)
           ELSE IF req[b].user # Nobody /\ req[b].user.role = "admin"
                THEN req[b].user.id ELSE Nobody
  IN  Listening /\ u # Nobody /\ Passes(u, c) /\ Do(u, c)

\* each call is authenticated by itself
Granted(b, c) ==
  LET u == Asker(b, c)
  IN  Listening /\ u # Nobody /\ Passes(u, c) /\ Do(u, c)

\* 401, 403 for the headers; 403, 404, 409, 500 for the rest: nothing is done
Refused(b, c) ==
  /\ Listening
  /\ IF Asker(b, c) = Nobody THEN ~Admits(b, c) ELSE ~Passes(Asker(b, c), c)
  /\ UNCHANGED apiVars

\* A call breaks: nothing listens, the way there is broken and nothing was
\* done, or the way back is and it was.
Breaks(b, c) == UNCHANGED apiVars \/ Granted(b, c)

\* fetch throws
Throws(r) ==
  IF r.step = "deferred"
  THEN [r EXCEPT !.step = "route", !.tried = "lost", !.sets = "drop", !.asker = Nobody]
  ELSE [r EXCEPT !.step = "answer", !.to = "error", !.left = <<>>, !.asker = Nobody]

----------------------------------------------------------------------------
\* The page request, step by step.

\* mountWeb: the placeholder, or SvelteKit takes the request
Mount(b) ==
  /\ At(b, "mount") /\ Listening
  /\ ResolveHandler
  /\ Goes(b, IF mount' = "ok" THEN [req[b] EXCEPT !.step = "me"]
             ELSE [req[b] EXCEPT !.step = "answer", !.to = "placeholder"])
  /\ UNCHANGED <<apiVars, database, proc, known, patterns, discovery, browserVars>>

\* handle: without a cookie the visitor is signed out; with one, GET /api/me
\* says who it is, and when it fails the visitor counts as signed out
Me(b) ==
  /\ At(b, "me")
  /\ b \in Dev \/ login[b] = Nobody
  /\ req[b].asked = 0
  /\ \E user \in {Nobody} \cup
                 (IF Listening /\ SignedIn(b)
                  THEN {[id |-> login[b], role |-> users[login[b]]]} ELSE {}) :
       Goes(b, [req[b] EXCEPT !.user = user, !.step = "deferred",
                              !.asked = IF login[b] = Nobody THEN 0 ELSE 1])
  /\ UNCHANGED <<apiVars, serverVars, browserVars>>

\* handle in production, for a request with a cookie: GET /api/me is a
\* relative path, event.fetch makes a request of the same origin out of it and
\* hands it, cookie and all, to handle, which makes the same call
MeAgain(b) ==
  /\ At(b, "me")
  /\ b \notin Dev
  /\ login[b] # Nobody \/ req[b].asked > 0
  /\ req[b].asked < MaxAsked
  /\ Goes(b, [req[b] EXCEPT !.asked = @ + 1])
  /\ UNCHANGED <<apiVars, serverVars, browserVars>>

\* Mutant of Redeems: the deferred join is tried for visitors as well
RedeemsAnyway(b) == req[b].join # Nobody

Redeems(b) == req[b].join # Nobody /\ req[b].user # Nobody

\* handle: the deferred join, once, whatever becomes of it
Deferred(b) ==
  /\ At(b, "deferred")
  /\ LET c == [op |-> "join", via |-> "try", code |-> req[b].join]
         tried(t) == [req[b] EXCEPT !.step = "route", !.tried = t, !.sets = "drop",
                                    !.asker = Nobody]
     IN  IF Redeems(b)
         THEN \/ LetIn(b, c)
              \/ Granted(b, c) /\ Goes(b, tried("done"))
              \/ Refused(b, c) /\ Goes(b, tried("refused"))
              \/ Breaks(b, c) /\ Goes(b, Throws(req[b]))
         ELSE /\ Goes(b, [req[b] EXCEPT !.step = "route"])
              /\ UNCHANGED apiVars
  /\ UNCHANGED <<serverVars, browserVars>>

\* admin/users: nobody demotes or deletes the own account from the page
OnSelf(b, c) ==
  /\ req[b].user # Nobody
  /\ \/ c.op = "remove"
     \/ c.op = "role" /\ c.role = "viewer"
  /\ c.user = req[b].user.id

\* The layouts' gates and the first checks of an action, which has no layout
\* before it.
Gate(b) ==
  LET form == req[b].form
      user == req[b].user
  IN  CASE form.kind # "action" /\ user = Nobody -> "login"
        [] form.kind = "admin" /\ user.role # "admin" -> "refused"
        [] form.kind = "action" /\ OnSelf(b, Head(form.calls)) -> "refused"
        [] OTHER -> "page"

\* the calls of a load function or an action; c/[tag] asks for the list only
\* for an admin, and does without it when it is refused
CallsOf(b) ==
  LET form == req[b].form
  IN  CASE form.kind = "link" -> join(form.code).calls
        [] form.kind = "tag" -> IF req[b].user.role = "admin" THEN <<apiFetch(Read)>> ELSE <<>>
        [] OTHER -> form.calls

Route(b) ==
  /\ At(b, "route")
  /\ IF Gate(b) = "page" /\ CallsOf(b) # <<>>
     THEN Goes(b, [req[b] EXCEPT !.step = "calls", !.left = CallsOf(b)])
     ELSE Goes(b, [req[b] EXCEPT !.step = "answer", !.to = Gate(b),
                                 !.sets = IF Gate(b) = "login" /\ req[b].form.kind = "link"
                                          THEN "set" ELSE @])
  /\ UNCHANGED <<apiVars, serverVars, browserVars>>

\* what a granted call leaves to do: addGrant makes its second call for the
\* user it found at the first, if it found one
LeftAfter(c, left) ==
  IF c.op # "find" THEN {Tail(left)}
  ELSE LET found == {u \in UserId : u.email = c.email /\ Exists(u)}
       IN  IF found = {} THEN {<<>>}
           ELSE {<<apiFetch([op |-> "grant", sid |-> c.sid, user |-> u])>> : u \in found}

\* the rows a granted call puts on the list page: those of its filter
RowsOf(c) ==
  IF c.op = "list" THEN SUBSET {s \in Sid : sessions[s] # Absent} ELSE {{}}

\* One call.  apiJson throws when the status is not 2xx, and ends the page
\* with an error; apiFetch does not look at the status ("via fetch"), so an
\* action goes on after a refusal; both throw when the connection breaks; a
\* list that is only for decoration may fail in either way ("via try").  A
\* write whose admin was deleted while the body was awaited is done, but its
\* audit row is refused, and that is a 500.
Call(b) ==
  /\ At(b, "calls")
  /\ LET r == [req[b] EXCEPT !.asker = Nobody]
         c == Head(req[b].left)
         goesOn(left) == [r EXCEPT !.left = left,
                                   !.step = IF left = <<>> THEN "answer" ELSE "calls"]
     IN  \/ LetIn(b, c)
         \/ /\ Granted(b, c)
            /\ c.via = "json" => users'[Asker(b, c)] # Absent
            /\ \E left \in LeftAfter(c, req[b].left), rows \in RowsOf(c) :
                 Goes(b, [goesOn(left) EXCEPT !.rows = rows,
                                              !.to = IF c.op = "list" THEN "list" ELSE @])
         \/ /\ Refused(b, c)
            /\ Goes(b, IF c.via = "json" THEN Throws(r) ELSE goesOn(Tail(req[b].left)))
         \/ /\ Breaks(b, c)
            /\ Goes(b, IF c.via = "try" THEN goesOn(Tail(req[b].left)) ELSE Throws(r))
  /\ LoginsSurvive
  /\ UNCHANGED <<serverVars, pending, tab, shown, selected>>

\* the browser's pl_pending_code after the answer
PendingAfter(b) ==
  CASE req[b].sets = "keep" -> pending[b]
    [] req[b].sets = "drop" -> Nobody
    [] req[b].sets = "set"  -> [code |-> req[b].form.code, until |-> now + PendingTTL]

\* The answer arrives.  Going from the list to the list (another page of it,
\* another filter, the reload after an action) keeps the component and its
\* ticks.
Answer(b) ==
  /\ At(b, "answer")
  /\ LET to    == req[b].to
         stays == /\ tab[b] = "list"
                  /\ to = "list" \/ (to = "page" /\ req[b].form.kind = "action")
         list  == to = "list" \/ stays
     IN  /\ tab' = [tab EXCEPT ![b] = IF list THEN "list"
                                      ELSE IF to = "provider" THEN to ELSE "other"]
         /\ shown' = [shown EXCEPT ![b] = IF to = "list" THEN req[b].rows
                                          ELSE IF list THEN @ ELSE {}]
         /\ selected' = [selected EXCEPT ![b] = IF stays THEN @ ELSE {}]
  /\ pending' = [pending EXCEPT ![b] = PendingAfter(b)]
  /\ Goes(b, Nobody)
  /\ UNCHANGED <<apiVars, serverVars, login>>

\* the answer does not: the client is gone, or the way back is broken
AnswerLost(b) ==
  /\ At(b, "answer")
  /\ Goes(b, Nobody)
  /\ UNCHANGED <<apiVars, serverVars, browserVars>>

----------------------------------------------------------------------------
\* The others: requests of other clients, the process, time.

\* other admins, and the hook; without its patterns redact() throws and the
\* ingest answers 500
OtherClient ==
  /\ Listening
  /\ \/ \E a \in Admins : WithoutBody(a) \/ Authenticate(a, "admin")
     \/ \E q \in inflight : Refuse(q) \/ \E u \in UserId : PatchUser(q, u, "viewer")
     \/ patterns = "good" /\ StartSession
  /\ LoginsSurvive
  /\ UNCHANGED <<serverVars, pending, tab, shown, selected, req>>

\* an auth session ends by its TTL, and the cookie with it; a request that is
\* under way has sent the cookie
SessionEnds(b) ==
  /\ SignedIn(b) \/ (login[b] = Stale /\ req[b] = Nobody)
  /\ login' = [login EXCEPT ![b] = IF req[b] = Nobody THEN Nobody ELSE Stale]
  /\ UNCHANGED <<apiVars, serverVars, pending, tab, shown, selected, req>>

\* the browser ends a cookie by its maxAge
LivesOn(cookie) == cookie.until > now'

TimePasses ==
  /\ Tick
  /\ pending' = [b \in Browser |-> IF pending[b] # Nobody /\ ~LivesOn(pending[b])
                                   THEN Nobody ELSE pending[b]]
  /\ UNCHANGED <<serverVars, login, tab, shown, selected, req>>

ProcessStep ==
  /\ \/ \E r \in Runner : RunnerStep(r) \/ \E e \in Environment : Start(r, e)
     \/ Die("cli")
  /\ UNCHANGED <<apiVars, browserVars, req>>

\* the server dies, and with it every request it was serving; the development
\* server goes on with its own, whose call breaks if one was under way
ServerDies ==
  /\ Die("server")
  /\ Interrupt
  /\ req' = [b \in Browser |->
               IF req[b] = Nobody THEN Nobody
               ELSE IF b \notin Dev \/ req[b].form.kind \in {"login", "callback"} THEN Nobody
               ELSE IF req[b].asker # Nobody THEN Throws(req[b]) ELSE req[b]]
  /\ UNCHANGED browserVars

PageStep(b) ==
  Mount(b) \/ Me(b) \/ MeAgain(b) \/ Deferred(b) \/ Route(b) \/ Call(b) \/ Answer(b)

LoginStep(b) == AwaitDiscovery(b) \/ Redirects(b) \/ SignsIn(b)

BrowserStep(b) ==
  \/ \E s \in Sid : ToggleRow(b, s)
  \/ \E checked \in BOOLEAN : ToggleAll(b, checked)
  \/ Visit(b)
  \/ GoToLogin(b)
  \/ \E e \in Email : Callback(b, e)
  \/ Logout(b)

SiteNext ==
  \/ \E b \in Browser : \/ BrowserStep(b) \/ PageStep(b) \/ LoginStep(b)
                        \/ AnswerLost(b) \/ SessionEnds(b)
  \/ FetchEnds
  \/ OtherClient
  \/ TimePasses
  \/ ProcessStep
  \/ ServerDies

\* The event loop serves what arrived, and undici's timeouts end a fetch.
SiteFairness ==
  /\ \A b \in Browser : WF_siteVars(PageStep(b)) /\ WF_siteVars(LoginStep(b))
  /\ WF_siteVars(FetchEnds)

SiteSpec == SiteInit /\ [][SiteNext]_siteVars /\ SiteFairness
----------------------------------------------------------------------------
\* Properties.

Step == {"mount", "me", "deferred", "route", "calls", "discovery", "awaits", "answer"}

LoginSteps == {"mount", "discovery", "awaits"}

SiteTypeOK ==
  /\ ServerTypeOK
  /\ TypeOK
  /\ login \in [Browser -> UserId \cup {Nobody, Stale}]
  /\ \A b \in Browser :
       /\ pending[b] # Nobody => /\ pending[b].code \in Code
                                /\ pending[b].until \in now + 1 .. now + PendingTTL
       /\ tab[b] \in {"provider", "list", "other"}
       /\ shown[b] \in SUBSET Sid
       /\ selected[b] \in SUBSET Sid
       /\ tab[b] # "list" => shown[b] = {} /\ selected[b] = {}
       /\ req[b] # Nobody =>
            /\ Listening \/ (b \in Dev /\ req[b].step \notin LoginSteps)
            /\ req[b].step \in Step
            /\ req[b].asked \in 0 .. MaxAsked
            /\ req[b].asker \in UserId \cup {Nobody}
            /\ req[b].asker # Nobody => req[b].step \in {"deferred", "calls"}
            /\ (req[b].step = "calls") = (req[b].left # <<>>)

\* Following a join link before signing in is not for nothing: the browser
\* keeps the code until its five minutes are over or a request of somebody
\* who is signed in has tried it; through sign-in, lost answers and a server
\* that dies at any step.
JoinLinkKept ==
  [][\A b \in Browser :
       pending[b] # Nobody /\ pending'[b] = Nobody
         => \/ now' >= pending[b].until
            \/ /\ req[b].join = pending[b].code
               /\ req[b].user # Nobody
               /\ req[b].tried # "no"]_siteVars

\* Such a try, if it reaches the API and is answered there, with a code still
\* good when its body has come, makes a member of exactly the person who was
\* signed in when it was let in, whoever followed the link, unless the person
\* is gone by then.
DeferredJoinLands ==
  [][\A b \in Browser :
       req[b] # Nobody /\ req[b].tried = "no" /\ Deferred(b)
         => \/ req'[b].tried \in {"no", "lost"}
            \/ codes[req[b].join] = Absent
            \/ Expired(req[b].join)
            \/ req[b].asker = Nobody /\ ~SignedIn(b)
            \/ req[b].asker # Nobody /\ ~Exists(req[b].asker)
            \/ <<req[b].join, req[b].asker>> \in redemptions']_siteVars

\* What a form changes in users, sessions, grants and codes is changed for an
\* admin, whatever the page's gate or GET /api/me said when the request began:
\* an admin at that very call, or, when the route waits for a body, at the
\* moment the call was let in.  So somebody who is demoted in the middle of a
\* bulk action finishes at most the one call whose body was awaited then.
WritesByAdmins ==
  [][\A b \in Browser :
       req[b] # Nobody /\ req[b].step = "calls" /\ req'[b] # req[b]
       => LET forAdmins == ScopeOf(Head(req[b].left)) = "admin"
              isAdmin   == SignedIn(b) /\ users[login[b]] = "admin"
              writes    == <<users, sessions, grants, codes>>' # <<users, sessions, grants, codes>>
              waits     == req'[b] # Nobody /\ req'[b].asker # Nobody
          IN  /\ writes => isAdmin \/ (forAdmins /\ req[b].asker # Nobody)
              /\ waits /\ forAdmins => isAdmin /\ req[b].asker = Nobody]_siteVars

\* "A failed fetch is not cached": GET /login is refused only because a fetch
\* it waited for fails at that moment, never because an earlier one did.
FailureIsNotCached ==
  [][\A b \in Browser :
       /\ req[b] # Nobody /\ req[b].form.kind = "login" /\ req[b].to # "refused"
       /\ req'[b] # Nobody /\ req'[b].to = "refused"
       => discovery = "pending" /\ discovery' # "pending"]_siteVars

\* The request makes GET /api/me again and again.
Recurs(b) == b \notin Dev /\ req[b] # Nobody /\ req[b].asked > 0

\* Every request a browser sends comes to an end, except those that the
\* production build hands to itself: it is answered, its answer is lost, or
\* the server that had it dies.
PagesAnswered == \A b \in Browser : (req[b] # Nobody) ~> (req[b] = Nobody \/ Recurs(b))

\* hooks.server.ts 18-20: a request with a pl_sess cookie "calls `GET /api/me`
\* once per request", and a failure degrades to a visitor who is signed out.
MeOncePerRequest == \A b \in Browser : req[b] # Nobody => req[b].asked <= 1
=============================================================================
