----------------------------- MODULE SiteProofs -----------------------------
(***************************************************************************)
(* The site around the API, for every number of migration files, set of     *)
(* environments, browsers, forms, ids and every limit: the server's         *)
(* variables keep their types and _migrations tells the truth about the     *)
(* schema; reading a list page by page misses no row that was there all the *)
(* time and shows none twice; and of the browsers, whose requests run       *)
(* between each other, what their cookies, screens and requests are, what   *)
(* the pages keep of the tables, what a step of a page never does, and that *)
(* the site changes the tables only by the API's operations.                *)
(***************************************************************************)
EXTENDS Web, Listing, AccessProofs, FiniteSetTheorems, WellFoundedInduction, TLAPS

----------------------------------------------------------------------------
(* Boot and migrations *)

\* What a runner knows it has read or written.  So the first file it does not
\* know, which is the one it takes, is recorded already or the next to be.
ServerInv ==
  /\ ServerTypeOK
  /\ SchemaWhole
  /\ \A r \in Runner : proc[r] = "migrating" => known[r] \subseteq recorded

LEMMA InitServer == ServerInit => ServerInv
<1> SUFFICES ASSUME ServerInit PROVE ServerInv
  OBVIOUS
<1>1. PICK n \in 0 .. Files : ddl = 1 .. n /\ recorded = 1 .. n
  BY DEF ServerInit
<1>2. ddl \subseteq File /\ recorded \subseteq File
  BY <1>1, ServerAssumption DEF File
<1>3. ServerTypeOK
  BY <1>2 DEF ServerTypeOK, ServerInit, Runner
<1> QED BY <1>1, <1>3 DEF ServerInv, SchemaWhole, ServerInit, Runner

LEMMA StartKeeps ==
  ASSUME ServerInv, NEW r \in Runner, NEW e \in Environment, Start(r, e)
  PROVE  ServerInv'
<1>1. ServerTypeOK'
  BY DEF Start, ServerInv, ServerTypeOK, database, memory
<1> QED BY <1>1 DEF Start, ServerInv, SchemaWhole, ServerTypeOK, database, Runner, File

LEMMA ReadKeeps ==
  ASSUME ServerInv, NEW r \in Runner, ReadApplied(r)
  PROVE  ServerInv'
<1>1. ServerTypeOK'
  BY DEF ReadApplied, ServerInv, ServerTypeOK, database, memory
<1>2. \A q \in Runner : proc'[q] = "migrating" => known'[q] \subseteq recorded'
  BY DEF ReadApplied, ServerInv, ServerTypeOK, database
<1> QED BY <1>1, <1>2 DEF ReadApplied, ServerInv, SchemaWhole, ServerTypeOK, database, Runner, File

\* The file that is recorded is the first one this runner does not know, and
\* all it knows is recorded: no gap.
LEMMA MigrateKeeps ==
  ASSUME ServerInv, NEW r \in Runner, NEW i \in File, Migrate(r, i)
  PROVE  ServerInv'
<1>1. /\ recorded' = recorded \cup {i} /\ ddl' = ddl \cup {i}
      /\ proc' = proc /\ proc[r] = "migrating" /\ i \notin recorded
      /\ known' = [known EXCEPT ![r] = @ \cup {i}]
  BY DEF Migrate, Commit
<1>2. ServerTypeOK'
  BY <1>1 DEF Migrate, ServerInv, ServerTypeOK, memory, File
<1>3. \E n \in 0 .. Files : recorded' = 1 .. n
  <2>1. PICK n \in 0 .. Files : recorded = 1 .. n
    BY DEF ServerInv, SchemaWhole
  <2>2. i \in 1 .. Files /\ i > n
    BY <2>1, <1>1, ServerAssumption DEF File
  <2>3. \A j \in 1 .. Files : j < i => j \in 1 .. n
    BY <2>1, <1>1 DEF Migrate, NextFile, ServerInv, File
  <2>4. i = n + 1
    BY <2>2, <2>3, ServerAssumption
  <2> QED BY <2>1, <2>2, <2>4, <1>1, ServerAssumption
<1>4. \A q \in Runner : proc'[q] = "migrating" => known'[q] \subseteq recorded'
  BY <1>1 DEF ServerInv, ServerTypeOK
<1>5. proc'["server"] = "listening" => recorded' = File
  BY <1>1, <1>2 DEF ServerInv, SchemaWhole, ServerTypeOK
<1> QED BY <1>1, <1>2, <1>3, <1>4, <1>5 DEF ServerInv, SchemaWhole

\* A process that goes down or fails changes nothing in the database.
LEMMA DownKeeps ==
  ASSUME ServerInv, NEW r \in Runner,
         proc' = [proc EXCEPT ![r] = "down"], UNCHANGED <<database, known, memory>>
  PROVE  ServerInv'
<1>1. ServerTypeOK'
  BY DEF ServerInv, ServerTypeOK, database, memory
<1> QED BY <1>1 DEF ServerInv, SchemaWhole, ServerTypeOK, database, Runner, File

LEMMA FinishKeeps ==
  ASSUME ServerInv, NEW r \in Runner, FinishMigrations(r)
  PROVE  ServerInv'
<1>1. ServerTypeOK'
  BY DEF FinishMigrations, ServerInv, ServerTypeOK, database, memory
<1>2. recorded = File
  BY DEF FinishMigrations, Migrated, ServerInv, ServerTypeOK
<1> QED BY <1>1, <1>2 DEF FinishMigrations, ServerInv, SchemaWhole, ServerTypeOK, database, Runner, File

LEMMA MemoKeeps ==
  ASSUME ServerInv, mount' \in {"unresolved", "ok", "missing"},
         discovery' \in {"none", "pending", "loaded", "failed"},
         UNCHANGED <<database, proc, known, patterns>>
  PROVE  ServerInv'
BY DEF ServerInv, SchemaWhole, ServerTypeOK, database, File

LEMMA NextServer == ServerInv /\ [ServerNext]_serverVars => ServerInv'
<1> SUFFICES ASSUME ServerInv, [ServerNext]_serverVars PROVE ServerInv'
  OBVIOUS
<1>1. ASSUME NEW r \in Runner, RunnerStep(r) PROVE ServerInv'
  <2>1. CASE ReadApplied(r)
    BY <2>1, ReadKeeps
  <2>2. ASSUME NEW i \in File, Migrate(r, i) PROVE ServerInv'
    BY <2>2, MigrateKeeps
  <2>3. ASSUME NEW i \in File, MigrateFails(r, i) PROVE ServerInv'
    BY <2>3, DownKeeps DEF MigrateFails
  <2>4. CASE FinishMigrations(r)
    BY <2>4, FinishKeeps
  <2> QED BY <1>1, <2>1, <2>2, <2>3, <2>4 DEF RunnerStep
<1>2. ASSUME NEW r \in Runner, Die(r) PROVE ServerInv'
  BY <1>2, DownKeeps DEF Die
<1>3. ASSUME NEW r \in Runner, NEW e \in Environment, Start(r, e) PROVE ServerInv'
  BY <1>3, StartKeeps
<1>4. ASSUME UNCHANGED <<database, proc, known, patterns>>,
             \/ ResolveHandler /\ UNCHANGED discovery
             \/ UNCHANGED mount /\ (GetDiscovery \/ DiscoveryLoads \/ DiscoveryFails)
      PROVE  ServerInv'
  <2>1. mount' \in {"unresolved", "ok", "missing"}
    BY <1>4 DEF ResolveHandler, Resolved, ServerInv, ServerTypeOK
  <2>2. discovery' \in {"none", "pending", "loaded", "failed"}
    BY <1>4 DEF GetDiscovery, DiscoveryLoads, DiscoveryFails, AfterFailure, ServerInv, ServerTypeOK
  <2> QED BY <1>4, <2>1, <2>2, MemoKeeps
<1>5. CASE UNCHANGED serverVars
  BY <1>5 DEF serverVars, database, memory, ServerInv, SchemaWhole, ServerTypeOK, File
<1> QED BY <1>1, <1>2, <1>3, <1>4, <1>5 DEF ServerNext

\* The inductive invariant of boot and migrations (migrate.ts, index.ts).
THEOREM ServerInvariant == ServerSpec => []ServerInv
BY InitServer, NextServer, PTL DEF ServerSpec

\* Every variable of the server process keeps its type.
THEOREM ServerTypes == ServerSpec => []ServerTypeOK
<1>1. ServerInv => ServerTypeOK
  BY DEF ServerInv
<1> QED BY <1>1, ServerInvariant, PTL

\* A file is recorded in _migrations if and only if its statements are in
\* effect, files are recorded from the first without a gap, and the server
\* listens only on the whole schema (migrate.ts 43-60, index.ts 26-32).
THEOREM SchemaIsWhole == ServerSpec => []SchemaWhole
<1>1. ServerInv => SchemaWhole
  BY DEF ServerInv
<1> QED BY <1>1, ServerInvariant, PTL

----------------------------------------------------------------------------
(* Lists read page by page *)

Above(S, r) == {q \in S : q > r}

\* the first page of a list
First(S) == {r \in S : Cardinality(Above(S, r)) < Limit}

\* A function to the naturals is smallest somewhere.
LEMMA Smallest ==
  ASSUME NEW S, S # {}, NEW f \in [S -> Nat]
  PROVE  \E x \in S : \A y \in S : ~(f[y] < f[x])
<1> DEFINE T == {f[x] : x \in S}
<1>1. T \subseteq Nat /\ T # {}
  OBVIOUS
<1>2. PICK m \in T : \A k \in T : ~(<<k, m>> \in OpToRel(<, Nat))
  BY <1>1, NatLessThanWellFounded, WFMin
<1>3. \A k \in T : ~(k < m)
  BY <1>1, <1>2 DEF OpToRel
<1>4. PICK x \in S : m = f[x]
  OBVIOUS
<1>5. \A y \in S : f[y] \in T
  OBVIOUS
<1> QED BY <1>3, <1>4, <1>5

\* What is above a row's place shrinks as the row rises.
LEMMA FewerAbove ==
  ASSUME NEW S, IsFiniteSet(S), S \subseteq Int, NEW r \in S, NEW q \in S, r < q
  PROVE  /\ Cardinality(Above(S, r)) \in Nat
         /\ Cardinality(Above(S, q)) \in Nat
         /\ Cardinality(Above(S, q)) < Cardinality(Above(S, r))
<1>0. r \in Int /\ q \in Int /\ \A p \in S : p \in Int
  OBVIOUS
<1>1. Above(S, q) \subseteq Above(S, r) /\ Above(S, r) \subseteq S
  <2>1. \A p \in S : p > q => p > r
    BY <1>0
  <2> QED BY <2>1 DEF Above
<1>2. IsFiniteSet(Above(S, r)) /\ IsFiniteSet(Above(S, q))
  BY <1>1, FS_Subset
<1>3. Cardinality(Above(S, r)) \in Nat /\ Cardinality(Above(S, q)) \in Nat
  BY <1>2, FS_CardinalityType
<1>4. Cardinality(Above(S, q)) <= Cardinality(Above(S, r))
  BY <1>1, <1>2, FS_Subset
<1>5. q \in Above(S, r) /\ q \notin Above(S, q)
  BY <1>0 DEF Above
<1>6. Cardinality(Above(S, q)) # Cardinality(Above(S, r))
  BY <1>1, <1>2, <1>5, FS_Subset
<1> QED BY <1>3, <1>4, <1>6

\* A finite set of numbers has a least one.
LEMMA LeastElement ==
  ASSUME NEW S, IsFiniteSet(S), S \subseteq Int, S # {}
  PROVE  \E m \in S : \A r \in S : m <= r
<1> DEFINE below(r) == {q \in S : q < r}
           f == [r \in S |-> Cardinality(below(r))]
<1>1. \A r \in S : IsFiniteSet(below(r)) /\ Cardinality(below(r)) \in Nat
  BY FS_Subset, FS_CardinalityType
<1>2. f \in [S -> Nat]
  BY <1>1
<1>3. PICK m \in S : \A r \in S : ~(f[r] < f[m])
  <2> HIDE DEF f
  <2> QED BY <1>2, Smallest
<1>4. ASSUME NEW r \in S, r < m PROVE FALSE
  <2>0. r \in Int /\ m \in Int /\ \A p \in S : p \in Int
    OBVIOUS
  <2>1. below(r) \subseteq below(m) /\ r \in below(m) /\ r \notin below(r)
    <3>1. \A p \in S : p < r => p < m
      BY <1>4, <2>0
    <3>2. below(r) \subseteq below(m)
      BY <3>1
    <3>3. r \in below(m) /\ r \notin below(r)
      BY <1>4, <2>0
    <3> QED BY <3>2, <3>3
  <2>2. Cardinality(below(r)) <= Cardinality(below(m))
    BY <2>1, <1>1, FS_Subset
  <2>3. Cardinality(below(r)) # Cardinality(below(m))
    BY <2>1, <1>1, FS_Subset
  <2> QED BY <2>2, <2>3, <1>1, <1>3
<1>5. \A r \in S : r \in Int
  OBVIOUS
<1> QED BY <1>4, <1>5

\* A page starts at the top: a row above one of its rows is on it too.
LEMMA PageFromTop ==
  ASSUME NEW S, IsFiniteSet(S), S \subseteq Int,
         NEW r \in First(S), NEW q \in S, r <= q
  PROVE  q \in First(S)
<1>1. r \in S /\ Cardinality(Above(S, r)) < Limit
  BY DEF First
<1>2. CASE r = q
  BY <1>2
<1>3. CASE r < q
  <2>1. /\ Cardinality(Above(S, r)) \in Nat /\ Cardinality(Above(S, q)) \in Nat
        /\ Cardinality(Above(S, q)) < Cardinality(Above(S, r))
    BY <1>1, <1>3, FewerAbove
  <2>2. Cardinality(Above(S, q)) < Limit
    BY <1>1, <2>1, ListingAssumption
  <2> QED BY <2>2 DEF First
<1>4. r \in Int /\ q \in Int
  BY <1>1
<1> QED BY <1>2, <1>3, <1>4

\* A page that is not full holds the whole list.
LEMMA ShortPageIsAll ==
  ASSUME NEW S, IsFiniteSet(S), S \subseteq Int, Cardinality(First(S)) # Limit
  PROVE  First(S) = S
<1>1. First(S) \subseteq S /\ IsFiniteSet(First(S))
  BY FS_Subset DEF First
<1> SUFFICES ASSUME S \ First(S) # {} PROVE FALSE
  BY <1>1
<1> DEFINE R == S \ First(S)
           f == [r \in R |-> Cardinality(Above(S, r))]
<1>2. \A r \in S : IsFiniteSet(Above(S, r)) /\ Cardinality(Above(S, r)) \in Nat
  BY FS_Subset, FS_CardinalityType DEF Above
<1>3. f \in [R -> Nat]
  BY <1>2
<1>4. PICK r \in R : \A q \in R : ~(f[q] < f[r])
  <2> HIDE DEF f
  <2> QED BY <1>3, Smallest
<1>5. Above(S, r) \subseteq First(S)
  BY <1>4, FewerAbove DEF Above
<1>6. Cardinality(Above(S, r)) >= Limit
  BY <1>2, ListingAssumption DEF First
<1>7. Cardinality(First(S)) >= Limit /\ Cardinality(First(S)) \in Nat
  BY <1>1, <1>2, <1>5, <1>6, FS_Subset, FS_CardinalityType, ListingAssumption
<1>8. First(S) # {}
  BY <1>7, FS_EmptySet, ListingAssumption
<1>9. PICK m \in First(S) : \A q \in First(S) : m <= q
  BY <1>1, <1>8, LeastElement
<1>10. First(S) \subseteq Above(S, m) \cup {m} /\ m \in S
  <2>1. \A q \in First(S) : q \in S /\ q \in Int /\ m <= q
    BY <1>1, <1>9
  <2>2. m \in S /\ m \in Int
    BY <2>1
  <2>3. \A q \in First(S) : q = m \/ q > m
    BY <2>1, <2>2
  <2> QED BY <2>1, <2>2, <2>3 DEF Above
<1>11. /\ IsFiniteSet(Above(S, m) \cup {m})
       /\ Cardinality(Above(S, m) \cup {m}) <= Cardinality(Above(S, m)) + 1
  <2>1. IsFiniteSet(Above(S, m)) /\ Cardinality(Above(S, m)) \in Nat
    BY <1>2, <1>10
  <2>2. /\ IsFiniteSet(Above(S, m) \cup {m})
        /\ Cardinality(Above(S, m) \cup {m}) =
             IF m \in Above(S, m) THEN Cardinality(Above(S, m))
             ELSE Cardinality(Above(S, m)) + 1
    BY <2>1, FS_AddElement
  <2> QED BY <2>1, <2>2
<1>12. Cardinality(First(S)) <= Cardinality(Above(S, m) \cup {m})
  BY <1>10, <1>11, FS_Subset
<1>13. Cardinality(Above(S, m)) < Limit
  BY <1>9 DEF First
<1>14. Cardinality(Above(S, m) \cup {m}) \in Nat
  BY <1>11, FS_CardinalityType
<1> QED BY <1>2, <1>7, <1>10, <1>11, <1>12, <1>13, <1>14, ListingAssumption

\* What the answer to a request says: a row of the list is on the page or, if
\* there is a next cursor, below it; and the page is not below the cursor.
LEMMA PageAndCursor ==
  ASSUME NEW S, IsFiniteSet(S), S \subseteq Int
  PROVE  LET P == First(S)  n == NextCursor(P)
         IN  /\ P \subseteq S
             /\ n = NoPage => P = S
             /\ n # NoPage => /\ n \in P
                              /\ \A r \in S : r \in P \/ r < n
                              /\ \A r \in P : n <= r
<1>1. First(S) \subseteq S /\ IsFiniteSet(First(S))
  BY FS_Subset DEF First
<1>2. CASE Cardinality(First(S)) # Limit
  BY <1>1, <1>2, ShortPageIsAll DEF NextCursor
<1>3. CASE Cardinality(First(S)) = Limit
  <2>1. First(S) # {}
    BY <1>3, FS_EmptySet, ListingAssumption
  <2>2. \E m \in First(S) : \A q \in First(S) : m <= q
    BY <1>1, <2>1, LeastElement
  <2>3. NextCursor(First(S)) = CHOOSE m \in First(S) : \A q \in First(S) : m <= q
    BY <1>3 DEF NextCursor
  <2>4. /\ NextCursor(First(S)) \in First(S)
        /\ \A q \in First(S) : NextCursor(First(S)) <= q
    BY <2>2, <2>3
  <2>5. NextCursor(First(S)) # NoPage
    BY <1>1, <2>4, ListingAssumption
  <2>6. ASSUME NEW r \in S PROVE r \in First(S) \/ r < NextCursor(First(S))
    <3>1. /\ NextCursor(First(S)) \in Int /\ r \in Int
          /\ NextCursor(First(S)) \in First(S)
      BY <1>1, <2>4
    <3>2. CASE NextCursor(First(S)) <= r
      BY <3>1, <3>2, PageFromTop
    <3> QED BY <3>1, <3>2
  <2> QED BY <1>1, <2>4, <2>5, <2>6
<1> QED BY <1>2, <1>3

----------------------------------------------------------------------------
\* The cursor separates what was read from what is still to come.
ListingInv ==
  /\ ListingTypeOK
  /\ cursor = NoPage /\ read # {} => stayed \subseteq read
  /\ cursor # NoPage => /\ \A r \in stayed : r \in read \/ r < cursor
                        /\ \A r \in read : cursor <= r

\* the rows below a cursor are a finite set of numbers, and their first page is
\* the page
LEMMA PageIsFirst ==
  ASSUME ListingTypeOK, NEW c \in Id \cup {NoPage}
  PROVE  /\ IsFiniteSet(Below(c)) /\ Below(c) \subseteq Int /\ Below(c) \subseteq Id
         /\ PageAt(c) = First(Below(c))
<1>1. Below(c) \subseteq Id
  BY DEF Below, ListingTypeOK
<1> QED BY <1>1, ListingAssumption, FS_Subset DEF PageAt, First, Above

LEMMA FirstPageKeeps ==
  ASSUME ListingInv, FirstPage
  PROVE  ListingInv'
<1> DEFINE P == PageAt(NoPage)
<1>1. ListingTypeOK /\ Below(NoPage) = rows
  BY DEF ListingInv, Below
<1>2. /\ P \subseteq rows
      /\ NextCursor(P) = NoPage => P = rows
      /\ NextCursor(P) # NoPage => /\ NextCursor(P) \in P
                                   /\ \A r \in rows : r \in P \/ r < NextCursor(P)
                                   /\ \A r \in P : NextCursor(P) <= r
  BY <1>1, PageIsFirst, PageAndCursor
<1>3. /\ page' = P /\ read' = P /\ cursor' = NextCursor(P)
      /\ rows' = rows /\ stayed' = rows
  BY DEF FirstPage
<1> HIDE DEF P
<1> QED BY <1>1, <1>2, <1>3 DEF ListingInv, ListingTypeOK

LEMMA LoadMoreKeeps ==
  ASSUME ListingInv, LoadMore
  PROVE  ListingInv' /\ page' \cap read = {}
<1> DEFINE P == PageAt(cursor)
<1>1. ListingTypeOK /\ cursor # NoPage /\ cursor \in Id /\ rows \subseteq Int
      /\ cursor \in Int /\ read \subseteq Int
  BY ListingAssumption DEF ListingInv, ListingTypeOK, LoadMore
<1>2. Below(cursor) = {r \in rows : r < cursor}
  BY <1>1 DEF Below
<1>3. /\ P \subseteq Below(cursor)
      /\ NextCursor(P) = NoPage => P = Below(cursor)
      /\ NextCursor(P) # NoPage =>
           /\ NextCursor(P) \in P
           /\ \A r \in Below(cursor) : r \in P \/ r < NextCursor(P)
           /\ \A r \in P : NextCursor(P) <= r
  BY <1>1, PageIsFirst, PageAndCursor
<1>4. /\ page' = P /\ read' = read \cup P /\ cursor' = NextCursor(P)
      /\ rows' = rows /\ stayed' = stayed
  BY DEF LoadMore
<1> HIDE DEF P
<1>5. ListingTypeOK'
  BY <1>1, <1>2, <1>3, <1>4 DEF ListingTypeOK
<1>6. \A r \in read : r \notin P
  BY <1>1, <1>2, <1>3 DEF ListingInv
<1>7. cursor' = NoPage => stayed' \subseteq read'
  BY <1>1, <1>2, <1>3, <1>4 DEF ListingInv, ListingTypeOK
<1>8. cursor' # NoPage => \A r \in stayed' : r \in read' \/ r < cursor'
  BY <1>1, <1>2, <1>3, <1>4 DEF ListingInv, ListingTypeOK
<1>9. ASSUME cursor' # NoPage, NEW r \in read' PROVE cursor' <= r
  <2>1. cursor' \in P /\ \A q \in P : cursor' <= q
    BY <1>3, <1>4, <1>9
  <2>2. cursor' \in Int /\ cursor' < cursor
    BY <1>1, <1>2, <1>3, <2>1
  <2>3. ASSUME r \in read PROVE cursor' <= r
    <3>1. cursor <= r /\ r \in Int
      BY <1>1, <2>3 DEF ListingInv
    <3> QED BY <3>1, <2>2, <1>1
  <2> QED BY <1>4, <1>9, <2>1, <2>3
<1> QED BY <1>4, <1>5, <1>6, <1>7, <1>8, <1>9 DEF ListingInv

LEMMA ChangeKeeps ==
  ASSUME ListingInv, NEW r \in Id, Enters(r) \/ Leaves(r)
  PROVE  ListingInv'
BY DEF ListingInv, ListingTypeOK, Enters, Leaves, readerVars

LEMMA InitListing == ListingInit => ListingInv
BY DEF ListingInit, ListingInv, ListingTypeOK

LEMMA NextListing == ListingInv /\ [ListingNext]_listingVars => ListingInv'
<1>1. ListingInv /\ UNCHANGED listingVars => ListingInv'
  BY DEF ListingInv, ListingTypeOK, listingVars, readerVars
<1> QED BY <1>1, FirstPageKeeps, LoadMoreKeeps, ChangeKeeps DEF ListingNext

\* The inductive invariant of a listing read by its cursors.
THEOREM ListingInvariant == ListingSpec => []ListingInv
BY InitListing, NextListing, PTL DEF ListingSpec

\* Whoever follows "Load more" to its end has seen every row that matched all
\* the time (admin/sessions.ts 60-71 and the other three listings).
THEOREM NothingIsMissed == ListingSpec => []PagingMissesNothing
<1>1. ListingInv => PagingMissesNothing
  BY DEF ListingInv, PagingMissesNothing
<1> QED BY <1>1, ListingInvariant, PTL

\* No row is on two pages of one reading.
THEOREM PagesAreDisjoint == ListingSpec => PagesDisjoint
<1>1. ListingInv /\ [ListingNext]_listingVars
        => [LoadMore => page' \cap read = {}]_listingVars
  BY LoadMoreKeeps
<1> QED BY <1>1, ListingInvariant, PTL DEF ListingSpec, PagesDisjoint

----------------------------------------------------------------------------
(* The site: browsers, their requests, and what those do to the tables *)

Person == {u \in UserId : ~u.pending}
Cookie == [code : Code, until : Nat]

\* the calls a page or a form can make, without the caller's view of the status
BareCall ==
  [op : {"read", "list"}]
    \cup [op : {"join", "uncode"}, code : Code]
    \cup [op : {"code"}, code : Code, row : CodeRow]
    \cup [op : {"see", "detail", "drop"}, sid : Sid]
    \cup [op : {"show"}, sid : Sid, vis : Visibility]
    \cup [op : {"edit"}, sid : Sid, vis : Visibility, tag : Tag \cup {NoTag}]
    \cup [op : {"grant", "revoke"}, sid : Sid, user : UserId]
    \cup [op : {"find"}, sid : Sid, email : Email]
    \cup [op : {"invite"}, email : Email, role : Role]
    \cup [op : {"role"}, user : UserId, role : Role]
    \cup [op : {"remove"}, user : UserId]

Calls == {Via(c, via) : c \in BareCall, via \in {"json", "fetch"}} \cup {Lookup}

PageForm ==
  [kind : {"admin", "action", "page"}, calls : Seq(Calls)]
    \cup [kind : {"link"}, code : Code]
    \cup [kind : {"tag"}]

AnyForm == PageForm \cup [kind : {"login"}] \cup [kind : {"callback"}, email : Email]

Destination == {"page", "list", "login", "provider", "refused", "placeholder", "error"}

ReqRow ==
  [form : AnyForm, step : Step,
   user : [id : Person, role : Role \cup {Absent}] \cup {Nobody},
   asked : 0 .. MaxAsked, left : Seq(Calls), asker : Person \cup {Nobody},
   join : Code \cup {Nobody}, tried : {"no", "done", "refused", "lost"}, sets : {"keep", "drop", "set"},
   rows : SUBSET Sid, to : Destination]

\* A request and the pl_pending_code its browser has meanwhile: calls are left
\* exactly while it makes them; somebody waits only in the deferred join or a
\* call with a body; the cookie is dropped only for a join that was tried for somebody, and it is the
\* code the request came with.
RowOK(r, cookie) ==
  /\ r.step = "calls" <=> r.left # <<>>
  /\ r.form.kind \in {"login", "callback"} => r.step \in {"discovery", "awaits", "answer"}
  /\ r.step \in {"discovery", "awaits"} => r.form.kind \in {"login", "callback"}
  /\ r.asker # Nobody => \/ r.step = "deferred" /\ r.join # Nobody /\ r.user # Nobody
                         \/ r.step = "calls" /\ HasBody(Head(r.left))
  /\ r.step \in {"mount", "me", "deferred", "discovery", "awaits"} => r.sets = "keep"
  /\ r.sets = "set" => r.form.kind = "link"
  /\ r.sets = "drop" => r.join # Nobody /\ r.user # Nobody /\ r.tried # "no"
  /\ r.join # Nobody /\ cookie # Nobody => cookie.code = r.join

BrowserTypes ==
  /\ login \in [Browser -> Person \cup {Nobody, Stale}]
  /\ pending \in [Browser -> Cookie \cup {Nobody}]
  /\ tab \in [Browser -> {"provider", "list", "other"}]
  /\ shown \in [Browser -> SUBSET Sid]
  /\ selected \in [Browser -> SUBSET Sid]
  /\ req \in [Browser -> ReqRow \cup {Nobody}]

\* nobody has an auth session without having a row in users
LoginsHaveUsers == \A b \in Browser : SignedIn(b) => Exists(login[b])

\* a server listens, or it is a page request the development server has
Alive(b, r) ==
  /\ Listening \/ (b \in Dev /\ r.form.kind \notin {"login", "callback"})
  /\ r.step = "mount" => b \notin Dev

RequestsOK ==
  \A b \in Browser : req[b] # Nobody => Alive(b, req[b]) /\ RowOK(req[b], pending[b])

PendingOK ==
  \A b \in Browser : pending[b] # Nobody => pending[b].until \in now + 1 .. now + PendingTTL

ScreensOK == \A b \in Browser : tab[b] # "list" => shown[b] = {} /\ selected[b] = {}

BrowserInv ==
  /\ BrowserTypes
  /\ LoginsHaveUsers
  /\ PendingOK
  /\ ScreensOK
  /\ RequestsOK

\* the bound on the requests of the others
OthersOK == IsFiniteSet(inflight) /\ Cardinality(inflight) <= MaxInflight

SiteInv == ServerInv /\ AccessInv /\ discovery # "failed" /\ BrowserInv /\ OthersOK

\* what a call carries
CallOK(c) ==
  /\ c.op \in {"read", "list", "join", "uncode", "code", "see", "detail", "drop", "show", "edit",
               "grant", "revoke", "find", "invite", "role", "remove"}
  /\ c.op \in {"join", "uncode", "code"} => c.code \in Code
  /\ c.op = "code" => c.row \in CodeRow
  /\ c.op \in {"see", "detail", "drop", "show", "edit", "grant", "revoke", "find"} => c.sid \in Sid
  /\ c.op \in {"show", "edit"} => c.vis \in Visibility
  /\ c.op = "edit" => c.tag \in Tag \cup {NoTag}
  /\ c.op \in {"grant", "revoke", "role", "remove"} => c.user \in UserId
  /\ c.op \in {"find", "invite"} => c.email \in Email
  /\ c.op \in {"invite", "role"} => c.role \in Role

\* The caller's view of the status changes nothing in the call.
LEMMA BareCallFacts ==
  ASSUME NEW c \in BareCall, NEW via
  PROVE  CallOK(Via(c, via))
<1>1. CASE c \in [op : {"read", "list"}]
  BY <1>1 DEF Via, CallOK
<1>2. CASE c \in [op : {"join", "uncode"}, code : Code]
  BY <1>2 DEF Via, CallOK
<1>3. CASE c \in [op : {"code"}, code : Code, row : CodeRow]
  BY <1>3 DEF Via, CallOK
<1>4. CASE c \in [op : {"see", "detail", "drop"}, sid : Sid]
  BY <1>4 DEF Via, CallOK
<1>5. CASE c \in [op : {"show"}, sid : Sid, vis : Visibility]
  BY <1>5 DEF Via, CallOK
<1>6. CASE c \in [op : {"edit"}, sid : Sid, vis : Visibility, tag : Tag \cup {NoTag}]
  BY <1>6 DEF Via, CallOK
<1>7. CASE c \in [op : {"grant", "revoke"}, sid : Sid, user : UserId]
  BY <1>7 DEF Via, CallOK
<1>8. CASE c \in [op : {"find"}, sid : Sid, email : Email]
  BY <1>8 DEF Via, CallOK
<1>9. CASE c \in [op : {"invite"}, email : Email, role : Role]
  BY <1>9 DEF Via, CallOK
<1>10. CASE c \in [op : {"role"}, user : UserId, role : Role]
  BY <1>10 DEF Via, CallOK
<1>11. CASE c \in [op : {"remove"}, user : UserId]
  BY <1>11 DEF Via, CallOK
<1> QED BY <1>1, <1>2, <1>3, <1>4, <1>5, <1>6, <1>7, <1>8, <1>9, <1>10, <1>11 DEF BareCall

LEMMA CallFacts == \A c \in Calls : CallOK(c)
<1>1. CallOK(Lookup)
  BY DEF CallOK, Lookup
<1> QED BY <1>1, BareCallFacts DEF Calls

LEMMA ApiCalls ==
  ASSUME NEW c \in BareCall
  PROVE  apiJson(c) \in Calls /\ apiFetch(c) \in Calls
BY DEF apiJson, apiFetch, Calls

\* A page or form of calls, one or two.
LEMMA AsksFacts ==
  ASSUME NEW kind \in {"admin", "action", "page"}, NEW c \in Calls, NEW d \in Calls
  PROVE  /\ Asks(kind, <<>>) \in PageForm
         /\ Asks(kind, <<c>>) \in PageForm
         /\ Asks(kind, <<c, d>>) \in PageForm
<1>1. <<>> \in Seq(Calls) /\ <<c>> \in Seq(Calls) /\ <<c, d>> \in Seq(Calls)
  OBVIOUS
<1> QED BY <1>1 DEF Asks, PageForm

LEMMA PageFacts == Pages \subseteq PageForm
<1>1. Lookup \in Calls /\ Read \in BareCall /\ [op |-> "list"] \in BareCall
  BY DEF Calls, Read, BareCall
<1>2. \A s \in Sid : [op |-> "detail", sid |-> s] \in BareCall /\ [op |-> "see", sid |-> s] \in BareCall
  BY DEF BareCall
<1>3. Dashboard \in PageForm /\ UsersPage \in PageForm /\ CodesPage \in PageForm
  BY <1>1, ApiCalls, AsksFacts DEF Dashboard, UsersPage, CodesPage
<1>4. SessionsPage \in PageForm /\ AuditPage \in PageForm /\ ProfilePage \in PageForm
  BY <1>1, ApiCalls, AsksFacts DEF SessionsPage, AuditPage, ProfilePage
<1>5. TagView \in PageForm /\ \A k \in Code : JoinLink(k) \in PageForm
  BY DEF TagView, JoinLink, PageForm
<1>6. \A s \in Sid : SessionPage(s) \in PageForm /\ SessionView(s) \in PageForm
  BY <1>1, <1>2, ApiCalls, AsksFacts DEF SessionPage, SessionView
<1> QED BY <1>3, <1>4, <1>5, <1>6 DEF Pages

LEMMA ActionFacts ==
  ASSUME NEW c \in BareCall
  PROVE  Action(apiJson(c)) \in PageForm /\ Action(apiFetch(c)) \in PageForm
BY ApiCalls, AsksFacts DEF Action

LEMMA FormFacts == Form \subseteq PageForm
<1>1. SessionForms \subseteq PageForm
  <2>1. \A s \in Sid, v \in Visibility, t \in Tag \cup {NoTag} : update(s, v, t) \in PageForm
    <3> SUFFICES ASSUME NEW s \in Sid, NEW v \in Visibility, NEW t \in Tag \cup {NoTag}
                 PROVE  update(s, v, t) \in PageForm
      OBVIOUS
    <3>1. [op |-> "edit", sid |-> s, vis |-> v, tag |-> t] \in BareCall
      BY DEF BareCall
    <3> QED BY <3>1, ActionFacts DEF update
  <2>2. \A s \in Sid : delete(s) \in PageForm
    <3>1. \A s \in Sid : [op |-> "drop", sid |-> s] \in BareCall
      BY DEF BareCall
    <3> QED BY <3>1, ActionFacts DEF delete
  <2> QED BY <2>1, <2>2 DEF SessionForms
<1>2. GrantForms \subseteq PageForm
  <2>1. \A s \in Sid, e \in Email : [op |-> "find", sid |-> s, email |-> e] \in BareCall
    BY DEF BareCall
  <2>2. \A s \in Sid, u \in UserId : [op |-> "revoke", sid |-> s, user |-> u] \in BareCall
    BY DEF BareCall
  <2>3. \A s \in Sid, e \in Email : addGrant(s, e) \in PageForm
    BY <2>1, ActionFacts DEF addGrant
  <2>4. \A s \in Sid, u \in UserId : removeGrant(s, u) \in PageForm
    BY <2>2, ActionFacts DEF removeGrant
  <2> QED BY <2>3, <2>4 DEF GrantForms
<1>3. UserForms \subseteq PageForm
  <2>1. \A e \in Email, r \in Role : [op |-> "invite", email |-> e, role |-> r] \in BareCall
    BY DEF BareCall
  <2>2. \A u \in UserId : /\ [op |-> "role", user |-> u, role |-> "admin"] \in BareCall
                          /\ [op |-> "role", user |-> u, role |-> "viewer"] \in BareCall
                          /\ [op |-> "remove", user |-> u] \in BareCall
    BY DEF BareCall, Role
  <2>3. \A e \in Email, r \in Role : invite(e, r) \in PageForm
    BY <2>1, ActionFacts DEF invite
  <2>4. \A u \in UserId : promote(u) \in PageForm /\ demote(u) \in PageForm /\ remove(u) \in PageForm
    BY <2>2, ActionFacts DEF promote, demote, remove
  <2> QED BY <2>3, <2>4 DEF UserForms
<1>4. CodeForms \subseteq PageForm
  <2>1. \A k \in Code, r \in CodeRow : [op |-> "code", code |-> k, row |-> r] \in BareCall
    BY DEF BareCall
  <2>2. \A k \in Code : [op |-> "uncode", code |-> k] \in BareCall
    BY DEF BareCall
  <2>3. \A k \in Code, r \in CodeRow : create(k, r) \in PageForm
    BY <2>1, ActionFacts DEF create
  <2>4. \A k \in Code : deleteCode(k) \in PageForm
    BY <2>2, ActionFacts DEF deleteCode
  <2> QED BY <2>3, <2>4 DEF CodeForms
<1>5. \A k \in Code : join(k) \in PageForm
  <2>1. \A k \in Code : [op |-> "join", code |-> k] \in BareCall
    BY DEF BareCall
  <2> QED BY <2>1, ActionFacts DEF join
<1> QED BY <1>1, <1>2, <1>3, <1>4, <1>5, PageFacts, WebAssumption

\* The forms of the bulk bar: one call for every ticked row.
LEMMA BulkFacts ==
  ASSUME NEW b, selected[b] \subseteq Sid
  PROVE  BulkForms(b) \subseteq PageForm
<1>1. ASSUME NEW ids \in SetToSeqs(selected[b])
      PROVE  \E n \in Nat : ids \in [1 .. n -> Sid]
  <2>1. selected[b] \subseteq 1 .. MaxSid /\ IsFiniteSet(1 .. MaxSid)
    BY FS_Interval, AccessAssumption DEF Sid
  <2>2. Cardinality(selected[b]) \in Nat
    BY <2>1, FS_Subset, FS_CardinalityType
  <2> QED BY <1>1, <2>2 DEF SetToSeqs
<1>2. ASSUME NEW n \in Nat, NEW ids \in [1 .. n -> Sid]
      PROVE  bulkDelete(ids) \in PageForm
  <2>1. \A i \in 1 .. n : apiFetch([op |-> "drop", sid |-> ids[i]]) \in Calls
    <3>1. \A i \in 1 .. n : [op |-> "drop", sid |-> ids[i]] \in BareCall
      BY DEF BareCall
    <3> QED BY <3>1, ApiCalls
  <2>2. [i \in DOMAIN ids |-> apiFetch([op |-> "drop", sid |-> ids[i]])] \in Seq(Calls)
    BY <2>1
  <2> QED BY <2>2 DEF bulkDelete, Asks, PageForm
<1>3. ASSUME NEW n \in Nat, NEW ids \in [1 .. n -> Sid], NEW v \in Visibility
      PROVE  bulkSetVisibility(ids, v) \in PageForm
  <2>1. \A i \in 1 .. n : apiFetch([op |-> "show", sid |-> ids[i], vis |-> v]) \in Calls
    <3>1. \A i \in 1 .. n : [op |-> "show", sid |-> ids[i], vis |-> v] \in BareCall
      BY DEF BareCall
    <3> QED BY <3>1, ApiCalls
  <2>2. [i \in DOMAIN ids |-> apiFetch([op |-> "show", sid |-> ids[i], vis |-> v])] \in Seq(Calls)
    BY <2>1
  <2> QED BY <2>2 DEF bulkSetVisibility, Asks, PageForm
<1> QED BY <1>1, <1>2, <1>3 DEF BulkForms

\* What a served call does to the tables is one of the routes of Access, done
\* for the user it is served for: a join or another route that had waited for
\* its body, or one without.
LEMMA DoIsARoute ==
  ASSUME AccessInv, NEW u \in UserId, NEW c, CallOK(c), Do(u, c)
  PROVE  LET q == [user |-> u, scope |-> ScopeOf(c)]
         IN  \/ HasBody(c) /\ c.op = "join" /\ Redeem(q, c.code) /\ c.code \in Code
             \/ HasBody(c) /\ c.op # "join" /\ WithBody(q)
             \/ ~HasBody(c) /\ ScopeOf(c) = "admin" /\ WithoutBody(u)
             \/ ~HasBody(c) /\ UNCHANGED apiVars
<1> DEFINE q == [user |-> u, scope |-> ScopeOf(c)]
<1>1. CASE c.op = "join" /\ Redeem(q, c.code)
  BY <1>1 DEF CallOK, HasBody
<1>3. CASE c.op = "show" /\ PatchSession(q, c.sid, [sessions[c.sid] EXCEPT !.vis = c.vis])
  <2>1. c.sid \in Sid /\ c.vis \in Visibility
    BY <1>3 DEF CallOK
  <2>2. sessions[c.sid] \in SessionRow
    BY <1>3, <2>1 DEF AccessInv, TablesOK, PatchSession
  <2>3. [sessions[c.sid] EXCEPT !.vis = c.vis] \in SessionRow
    BY <2>1, <2>2 DEF SessionRow, Visibility
  <2>4. WithBody(q)
    BY <1>3, <2>1, <2>3 DEF WithBody
  <2> QED BY <1>3, <2>4 DEF HasBody
<1>4. CASE c.op = "edit" /\ PatchSession(q, c.sid, [vis |-> c.vis, tag |-> c.tag])
  <2>1. c.sid \in Sid /\ [vis |-> c.vis, tag |-> c.tag] \in SessionRow
    BY <1>4 DEF CallOK, SessionRow, Visibility
  <2>2. WithBody(q)
    BY <1>4, <2>1 DEF WithBody
  <2> QED BY <1>4, <2>2 DEF HasBody
<1>5. CASE c.op = "grant" /\ Grant(q, c.sid, c.user)
  <2>1. c.sid \in Sid /\ c.user \in UserId
    BY <1>5 DEF CallOK
  <2>2. WithBody(q)
    BY <1>5, <2>1 DEF WithBody
  <2> QED BY <1>5, <2>2 DEF HasBody
<1>6. CASE c.op = "invite" /\ CreateUser(q, c.email, c.role)
  <2>1. c.email \in Email /\ c.role \in Role
    BY <1>6 DEF CallOK
  <2>2. WithBody(q)
    BY <1>6, <2>1 DEF WithBody
  <2> QED BY <1>6, <2>2 DEF HasBody
<1>7. CASE c.op = "role" /\ PatchUser(q, c.user, c.role)
  <2>1. c.user \in UserId /\ c.role \in Role
    BY <1>7 DEF CallOK
  <2>2. WithBody(q)
    BY <1>7, <2>1 DEF WithBody
  <2> QED BY <1>7, <2>2 DEF HasBody
<1>8. CASE c.op = "code" /\ CreateCode(q, c.code, c.row)
  <2>1. c.code \in Code /\ c.row \in CodeRow
    BY <1>8 DEF CallOK
  <2>2. WithBody(q)
    BY <1>8, <2>1 DEF WithBody
  <2> QED BY <1>8, <2>2 DEF HasBody
<1>9. CASE \/ c.op = "drop" /\ DeleteSession(u, c.sid)
           \/ c.op = "revoke" /\ Revoke(u, c.sid, c.user)
           \/ c.op = "remove" /\ DeleteUser(u, c.user)
           \/ c.op = "uncode" /\ DeleteCode(u, c.code)
  <2>1. WithoutBody(u)
    BY <1>9 DEF WithoutBody, CallOK
  <2> QED BY <1>9, <2>1 DEF HasBody, ScopeOf
<1>10. CASE c.op \in {"see", "detail", "list", "read", "find"} /\ UNCHANGED apiVars
  BY <1>10 DEF HasBody
<1> QED BY <1>1, <1>3, <1>4, <1>5, <1>6, <1>7, <1>8, <1>9, <1>10 DEF Do, apiVars, vars

\* A served call keeps the invariant of the tables; a join leaves users alone.
LEMMA DoKeeps ==
  ASSUME AccessInv, NEW u \in Person, NEW c, CallOK(c), Do(u, c),
         ~HasBody(c) => Authorized(u, c)
  PROVE  AccessInv' /\ now' = now /\ inflight' = inflight /\ (c.op = "join" => users' = users)
<1> DEFINE q == [user |-> u, scope |-> ScopeOf(c)]
<1>1. q \in Request /\ u \in UserId
  BY DEF Request, ScopeOf, Person
<1>2. CASE \E k \in Code : Redeem(q, k)
  <2>1. AccessInv'
    BY <1>1, <1>2, RedeemKeepsInv
  <2>2. now' = now /\ users' = users
    BY <1>2 DEF Redeem
  <2> QED BY <2>1, <2>2 DEF Do
<1>3. CASE WithBody(q) \/ (u \in Admins /\ WithoutBody(u))
  <2>1. AccessInv'
    BY <1>1, <1>3, WithBodyKeepsInv, WithoutBodyKeepsInv DEF Admins
  <2>2. now' = now
    <3>1. CASE WithBody(q)
      BY <3>1 DEF WithBody, PatchSession, Grant, CreateUser, PatchUser, CreateCode
    <3>2. CASE WithoutBody(u)
      BY <3>2 DEF WithoutBody, DeleteSession, Revoke, DeleteUser, DeleteCode
    <3> QED BY <1>3, <3>1, <3>2
  <2>3. c.op = "join" => users' = users
    BY DEF Do, Redeem
  <2> QED BY <2>1, <2>2, <2>3 DEF Do
<1>4. CASE UNCHANGED apiVars
  <2>1. AccessInv'
    BY <1>4, StutterKeepsInv DEF apiVars
  <2>2. now' = now /\ users' = users
    BY <1>4 DEF apiVars, vars, tables
  <2> QED BY <2>1, <2>2 DEF Do
<1>5. ~HasBody(c) /\ ScopeOf(c) = "admin" => u \in Admins
  BY <1>1 DEF Authorized, Admins, Person
<1> QED BY <1>1, <1>2, <1>3, <1>4, <1>5, DoIsARoute

----------------------------------------------------------------------------
(* The server in the site *)

\* What the site does to the server's variables is what Server does.
LEMMA SiteServerStep ==
  ASSUME SiteNext
  PROVE  [ServerNext]_serverVars
<1>1. ASSUME NEW b \in Browser, Mount(b) PROVE ServerNext
  BY <1>1 DEF Mount, Listening, ServerNext
<1>2. ASSUME NEW b \in Browser, AwaitDiscovery(b) PROVE ServerNext
  BY <1>2 DEF AwaitDiscovery, Listening, ServerNext
<1>3. CASE FetchEnds
  <2>1. /\ proc["server"] = "listening"
        /\ DiscoveryLoads \/ DiscoveryFails
        /\ UNCHANGED <<database, proc, known, patterns, mount>>
    BY <1>3 DEF FetchEnds, Listening
  <2> QED BY <2>1 DEF ServerNext
<1>4. CASE ProcessStep
  BY <1>4 DEF ProcessStep, ServerNext, Runner
<1>5. CASE ServerDies
  BY <1>5 DEF ServerDies, ServerNext, Runner
<1>6. CASE OtherClient \/ TimePasses
  BY <1>6 DEF OtherClient, TimePasses
<1>7. ASSUME NEW b \in Browser, BrowserStep(b) PROVE UNCHANGED serverVars
  BY <1>7 DEF BrowserStep, ToggleRow, ToggleAll, Visit, GoToLogin, Callback, Send, Logout
<1>8. ASSUME NEW b \in Browser,
             Me(b) \/ MeAgain(b) \/ Deferred(b) \/ Route(b) \/ Call(b) \/ Answer(b)
      PROVE  UNCHANGED serverVars
  <2>1. CASE Deferred(b)
    BY <2>1 DEF Deferred
  <2>2. CASE Call(b)
    BY <2>2 DEF Call
  <2>3. CASE Me(b) \/ MeAgain(b) \/ Route(b) \/ Answer(b)
    BY <2>3 DEF Me, MeAgain, Route, Answer
  <2> QED BY <1>8, <2>1, <2>2, <2>3
<1>9. ASSUME NEW b \in Browser, Redirects(b) \/ SignsIn(b) \/ AnswerLost(b) \/ SessionEnds(b)
      PROVE  UNCHANGED serverVars
  BY <1>9 DEF Redirects, SignsIn, AnswerLost, SessionEnds
<1> QED BY <1>1, <1>2, <1>3, <1>4, <1>5, <1>6, <1>7, <1>8, <1>9 DEF SiteNext, PageStep, LoginStep

\* The process the browsers meet is Server: every behaviour of the site is one
\* of its behaviours, whatever the pages do.
THEOREM SiteRunsServer == SiteSpec => ServerSpec
<1>1. SiteInit => ServerInit
  BY DEF SiteInit
<1>2. [SiteNext]_siteVars => [ServerNext]_serverVars
  BY SiteServerStep DEF siteVars
<1> QED BY <1>1, <1>2, PTL DEF SiteSpec, ServerSpec

\* A failed fetch leaves no promise behind.
LEMMA NoFailureKept ==
  ASSUME discovery # "failed", SiteNext
  PROVE  discovery' # "failed"
<1>1. ServerNext \/ UNCHANGED serverVars
  BY SiteServerStep
<1>2. CASE UNCHANGED serverVars
  BY <1>2 DEF serverVars, memory
<1>3. CASE ServerNext
  <2>1. ASSUME NEW r \in Runner, \/ RunnerStep(r) \/ Die(r)
                                 \/ \E e \in Environment : Start(r, e)
        PROVE  discovery' # "failed"
    BY <2>1 DEF RunnerStep, ReadApplied, Migrate, MigrateFails, FinishMigrations, Die, Start, memory
  <2>2. CASE GetDiscovery \/ DiscoveryLoads \/ DiscoveryFails \/ UNCHANGED discovery
    BY <2>2 DEF GetDiscovery, DiscoveryLoads, DiscoveryFails, AfterFailure
  <2> QED BY <1>3, <2>1, <2>2 DEF ServerNext
<1> QED BY <1>1, <1>2, <1>3

----------------------------------------------------------------------------
(* The tables in the site *)

\* A request at some step is a row, and it is alive.
LEMMA AtFacts ==
  ASSUME BrowserInv, NEW b \in Browser, NEW step, At(b, step)
  PROVE  /\ req[b] \in ReqRow /\ RowOK(req[b], pending[b]) /\ req[b].step = step
         /\ Alive(b, req[b]) /\ req[b].form \in AnyForm
BY DEF BrowserInv, BrowserTypes, RequestsOK, At, ReqRow

\* A request that has calls left makes the first of them.
LEMMA NextCall ==
  ASSUME BrowserInv, NEW b \in Browser, At(b, "calls")
  PROVE  /\ req[b] \in ReqRow /\ req[b].left # <<>> /\ req[b].left \in Seq(Calls)
         /\ Head(req[b].left) \in Calls /\ CallOK(Head(req[b].left))
<1>1. req[b] \in ReqRow /\ RowOK(req[b], pending[b]) /\ req[b].step = "calls"
  BY AtFacts
<1>2. req[b].left # <<>> /\ req[b].left \in Seq(Calls)
  BY <1>1 DEF RowOK, ReqRow
<1>3. Head(req[b].left) \in Calls
  BY <1>2
<1> QED BY <1>1, <1>2, <1>3, CallFacts

\* the deferred join of a request
DeferredJoin(b) == [op |-> "join", via |-> "try", code |-> req[b].join]

LEMMA DeferredCall ==
  ASSUME BrowserInv, NEW b \in Browser, At(b, "deferred"), Redeems(b)
  PROVE  CallOK(DeferredJoin(b))
<1>1. req[b].join \in Code
  BY DEF BrowserInv, BrowserTypes, At, Redeems, ReqRow
<1> QED BY <1>1 DEF CallOK, DeferredJoin

\* A call is served for a person: with a body for whoever waited for it, and
\* without one for the browser's user, who is let in at this moment.
LEMMA AskerFacts ==
  ASSUME BrowserInv, NEW b \in Browser, req[b] \in ReqRow, NEW c, Asker(b, c) # Nobody
  PROVE  /\ Asker(b, c) \in Person
         /\ HasBody(c) => Asker(b, c) = req[b].asker
         /\ ~HasBody(c) => Asker(b, c) = login[b] /\ Admits(b, c)
<1>1. CASE HasBody(c)
  BY <1>1 DEF Asker, ReqRow
<1>2. CASE ~HasBody(c)
  <2>1. Admits(b, c) /\ Asker(b, c) = login[b]
    BY <1>2 DEF Asker
  <2>2. login[b] \in Person
    BY <2>1 DEF Admits, SignedIn, BrowserInv, BrowserTypes
  <2> QED BY <1>2, <2>1, <2>2
<1> QED BY <1>1, <1>2

\* The two places a call is made from: what it does to the tables is done for
\* somebody, or it does nothing to them.
LEMMA WhatCallsDo ==
  ASSUME BrowserInv, NEW b \in Browser
  PROVE  /\ Call(b) => LET c == Head(req[b].left)
                       IN  CallOK(c) /\ (UNCHANGED apiVars \/ Granted(b, c))
         /\ Deferred(b) => \/ UNCHANGED apiVars
                           \/ /\ Redeems(b) /\ CallOK(DeferredJoin(b))
                              /\ Granted(b, DeferredJoin(b))
<1>1. ASSUME Call(b)
      PROVE  CallOK(Head(req[b].left)) /\ (UNCHANGED apiVars \/ Granted(b, Head(req[b].left)))
  <2>1. CallOK(Head(req[b].left))
    BY <1>1, NextCall DEF Call
  <2>2. UNCHANGED apiVars \/ Granted(b, Head(req[b].left))
    BY <1>1 DEF Call, LetIn, Refused, Breaks
  <2> QED BY <2>1, <2>2
<1>2. ASSUME Deferred(b)
      PROVE  UNCHANGED apiVars \/ (Redeems(b) /\ Granted(b, DeferredJoin(b)))
  BY <1>2 DEF Deferred, DeferredJoin, LetIn, Refused, Breaks
<1>3. Deferred(b) /\ Redeems(b) => CallOK(DeferredJoin(b))
  BY DeferredCall DEF Deferred
<1> QED BY <1>1, <1>2, <1>3

\* A granted call is a route of Access.
LEMMA GrantedMovesRows ==
  ASSUME AccessInv, BrowserInv, NEW b \in Browser, req[b] \in ReqRow,
         NEW c, CallOK(c), Granted(b, c)
  PROVE  /\ AccessInv' /\ now' = now /\ inflight' = inflight
         /\ c.op = "join" => users' = users
         /\ RowsNext \/ UNCHANGED apiVars
<1> DEFINE u == Asker(b, c)
           q == [user |-> u, scope |-> ScopeOf(c)]
<1>1. u # Nobody /\ Do(u, c)
  BY DEF Granted
<1>2. u \in Person /\ (~HasBody(c) => Authorized(u, c))
  BY <1>1, AskerFacts DEF Admits
<1> HIDE DEF u
<1>3. u \in UserId /\ q \in Request
  BY <1>2 DEF Person, Request, ScopeOf
<1>4. \/ Redeem(q, c.code) /\ c.code \in Code
      \/ WithBody(q)
      \/ ~HasBody(c) /\ ScopeOf(c) = "admin" /\ WithoutBody(u)
      \/ UNCHANGED apiVars
  BY <1>1, <1>3, DoIsARoute
<1>5. ~HasBody(c) /\ ScopeOf(c) = "admin" => u \in Admins
  BY <1>2 DEF Authorized, Admins, Person
<1>6. RowsNext \/ UNCHANGED apiVars
  BY <1>3, <1>4, <1>5 DEF RowsNext
<1> QED BY <1>1, <1>2, <1>6, DoKeeps

\* Everything but the calls of the pages is a step of Access or leaves the
\* tables alone.
LEMMA OthersStepThere ==
  ASSUME BrowserInv, SiteNext, \A b \in Browser : ~Call(b) /\ ~Deferred(b)
  PROVE  Next \/ UNCHANGED apiVars
<1>1. ASSUME NEW b \in Browser, SignsIn(b) PROVE Next \/ UNCHANGED apiVars
  <2>1. UNCHANGED apiVars \/ SignUp(req[b].form.email)
    BY <1>1 DEF SignsIn
  <2>2. req[b].form \in AnyForm /\ req[b].form.kind = "callback"
    BY <1>1, AtFacts DEF SignsIn
  <2>3. req[b].form.email \in Email
    BY <2>2 DEF AnyForm, PageForm
  <2> QED BY <2>1, <2>3 DEF Next
<1>2. CASE OtherClient
  <2>1. ASSUME NEW a \in Admins, Authenticate(a, "admin") PROVE Next
    BY <2>1 DEF Next, Admins
  <2>2. ASSUME NEW q \in inflight, NEW u \in UserId, PatchUser(q, u, "viewer") PROVE Next
    BY <2>2 DEF Next, AdminWrite, WithBody, Role
  <2>3. (\E q \in inflight : Refuse(q)) \/ StartSession \/ (\E a \in Admins : WithoutBody(a)) => Next
    BY DEF Next, AdminWrite
  <2> QED BY <1>2, <2>1, <2>2, <2>3 DEF OtherClient
<1>3. CASE TimePasses
  BY <1>3 DEF TimePasses, Next
<1>4. CASE ServerDies
  BY <1>4 DEF ServerDies, Next
<1>5. CASE FetchEnds \/ ProcessStep
  BY <1>5 DEF FetchEnds, ProcessStep
<1>6. ASSUME NEW b \in Browser, BrowserStep(b) PROVE UNCHANGED apiVars
  BY <1>6 DEF BrowserStep, ToggleRow, ToggleAll, Visit, GoToLogin, Callback, Send, Logout
<1>7. ASSUME NEW b \in Browser, Mount(b) \/ Me(b) \/ MeAgain(b) \/ Route(b) \/ Answer(b)
      PROVE  UNCHANGED apiVars
  BY <1>7 DEF Mount, Me, MeAgain, Route, Answer
<1>8. ASSUME NEW b \in Browser,
             AwaitDiscovery(b) \/ Redirects(b) \/ AnswerLost(b) \/ SessionEnds(b)
      PROVE  UNCHANGED apiVars
  BY <1>8 DEF AwaitDiscovery, Redirects, AnswerLost, SessionEnds
<1> QED BY <1>1, <1>2, <1>3, <1>4, <1>5, <1>6, <1>7, <1>8 DEF SiteNext, PageStep, LoginStep

\* The rows of the tables change by the routes of Access and by what others do,
\* and keep their invariant.
LEMMA SiteTablesStep ==
  ASSUME AccessInv, BrowserInv, SiteNext
  PROVE  AccessInv' /\ (RowsNext \/ UNCHANGED <<tables, now>>)
<1>1. ASSUME NEW b \in Browser, Call(b) \/ Deferred(b)
      PROVE  AccessInv' /\ (RowsNext \/ UNCHANGED apiVars)
  <2>1. req[b] \in ReqRow
    BY <1>1, AtFacts DEF Call, Deferred
  <2>2. CASE UNCHANGED apiVars
    BY <2>2, StutterKeepsInv DEF apiVars
  <2>3. CASE Call(b) /\ ~UNCHANGED apiVars
    BY <2>1, <2>3, WhatCallsDo, GrantedMovesRows
  <2>4. CASE Deferred(b) /\ ~UNCHANGED apiVars
    BY <2>1, <2>4, WhatCallsDo, GrantedMovesRows
  <2> QED BY <1>1, <2>2, <2>3, <2>4
<1>2. CASE Next
  BY <1>2, NextKeepsInv, NextMovesRows
<1>3. CASE UNCHANGED apiVars
  BY <1>3, StutterKeepsInv DEF apiVars, vars
<1>4. UNCHANGED apiVars => UNCHANGED <<tables, now>>
  BY DEF apiVars, vars
<1> QED BY <1>1, <1>2, <1>3, <1>4, OthersStepThere

\* No more requests of others wait than may.
LEMMA OthersStayBounded ==
  ASSUME AccessInv, BrowserInv, OthersOK, SiteNext
  PROVE  OthersOK'
<1>1. ASSUME inflight' \subseteq inflight PROVE OthersOK'
  <2>1. /\ IsFiniteSet(inflight') /\ Cardinality(inflight') <= Cardinality(inflight)
    BY <1>1, FS_Subset DEF OthersOK
  <2>2. Cardinality(inflight) \in Nat /\ Cardinality(inflight') \in Nat
    BY <2>1, FS_CardinalityType DEF OthersOK
  <2> QED BY <2>1, <2>2, AccessAssumption DEF OthersOK
<1>2. ASSUME NEW q, inflight' = inflight \cup {q}, Cardinality(inflight) < MaxInflight
      PROVE  OthersOK'
  <2>1. /\ IsFiniteSet(inflight')
        /\ Cardinality(inflight') \in {Cardinality(inflight), Cardinality(inflight) + 1}
    BY <1>2, FS_AddElement DEF OthersOK
  <2>2. Cardinality(inflight) \in Nat
    BY FS_CardinalityType DEF OthersOK
  <2> QED BY <1>2, <2>1, <2>2, AccessAssumption DEF OthersOK
<1>3. ASSUME NEW b \in Browser, Call(b) \/ Deferred(b) PROVE inflight' = inflight
  <2>1. req[b] \in ReqRow
    BY <1>3, AtFacts DEF Call, Deferred
  <2>2. UNCHANGED apiVars => inflight' = inflight
    BY DEF apiVars, vars
  <2> QED BY <1>3, <2>1, <2>2, WhatCallsDo, GrantedMovesRows
<1>4. ASSUME Next
      PROVE  \/ inflight' \subseteq inflight
             \/ /\ \E q : inflight' = inflight \cup {q}
                /\ Cardinality(inflight) < MaxInflight
  <2>1. ASSUME NEW q \in inflight, WithBody(q) PROVE inflight' \subseteq inflight
    BY <2>1 DEF WithBody, PatchSession, Grant, CreateUser, PatchUser, CreateCode, Departs
  <2>2. ASSUME NEW a \in Admins, WithoutBody(a) PROVE inflight' \subseteq inflight
    BY <2>2 DEF WithoutBody, DeleteSession, Revoke, DeleteUser, DeleteCode
  <2>3. ASSUME NEW q \in inflight, Refuse(q) \/ \E k \in Code : Redeem(q, k)
        PROVE  inflight' \subseteq inflight
    BY <2>3 DEF Refuse, Redeem, Departs
  <2>4. CASE Interrupt \/ StartSession \/ (\E e \in Email : SignUp(e)) \/ Tick
    BY <2>4 DEF Interrupt, StartSession, SignUp, Tick
  <2>5. CASE \E u \in UserId, scope \in {"admin", "user"} : Authenticate(u, scope)
    BY <2>5 DEF Authenticate
  <2> QED BY <1>4, <2>1, <2>2, <2>3, <2>4, <2>5 DEF Next, AdminWrite
<1>5. UNCHANGED apiVars => inflight' \subseteq inflight
  BY DEF apiVars, vars
<1> QED BY <1>1, <1>2, <1>3, <1>4, <1>5, OthersStepThere

----------------------------------------------------------------------------
(* The browsers *)

\* One request moves, its browser's cookies and screen stay.
LEMMA RequestMoves ==
  ASSUME BrowserInv, NEW b \in Browser, NEW r \in ReqRow \cup {Nobody},
         Goes(b, r), r # Nobody => RowOK(r, pending[b]) /\ Alive(b, r), proc' = proc,
         UNCHANGED <<pending, tab, shown, selected>>, now' = now,
         login' \in [Browser -> Person \cup {Nobody, Stale}], LoginsHaveUsers'
  PROVE  BrowserInv'
<1>1. req' = [req EXCEPT ![b] = r]
  BY DEF Goes
<1>2. req \in [Browser -> ReqRow \cup {Nobody}]
  BY DEF BrowserInv, BrowserTypes
<1>3. BrowserTypes'
  BY <1>1, <1>2 DEF BrowserInv, BrowserTypes
<1>4. PendingOK' /\ ScreensOK'
  BY DEF BrowserInv, PendingOK, ScreensOK
<1>5. \A d \in Browser : req'[d] # Nobody => RowOK(req'[d], pending[d]) /\ Alive(d, req'[d])
  BY <1>1, <1>2 DEF BrowserInv, RequestsOK
<1>6. RequestsOK'
  BY <1>5 DEF RequestsOK, RowOK, Alive, Listening
<1> QED BY <1>3, <1>4, <1>6 DEF BrowserInv

\* The tables and the logins do not move: nor do the users of the logins.
LEMMA LoginsStay ==
  ASSUME BrowserInv, login' = login, users' = users
  PROVE  login' \in [Browser -> Person \cup {Nobody, Stale}] /\ LoginsHaveUsers'
BY DEF BrowserInv, BrowserTypes, LoginsHaveUsers, SignedIn, Exists

LEMMA SendKeeps ==
  ASSUME BrowserInv, NEW b \in Browser, NEW form \in AnyForm,
         NEW step \in {"mount", "me", "discovery"},
         form.kind \in {"login", "callback"} <=> step = "discovery",
         Listening \/ (b \in Dev /\ step # "discovery"), step = "mount" => b \notin Dev,
         Send(b, form, step)
  PROVE  BrowserInv'
<1> DEFINE j == IF pending[b] = Nobody THEN Nobody ELSE pending[b].code
           r == [form |-> form, step |-> step, user |-> Nobody, asked |-> 0,
                 left |-> <<>>, asker |-> Nobody, join |-> j,
                 tried |-> "no", sets |-> "keep", rows |-> {}, to |-> "page"]
<1>1. Goes(b, r) /\ UNCHANGED <<apiVars, serverVars, browserVars>>
  BY DEF Send
<1>2. j \in Code \cup {Nobody}
  BY DEF BrowserInv, BrowserTypes, Cookie
<1>3. <<>> \in Seq(Calls)
  OBVIOUS
<1>4. j # Nobody /\ pending[b] # Nobody => pending[b].code = j
  OBVIOUS
<1> HIDE DEF j
<1>5. r \in ReqRow
  BY <1>2, <1>3, WebAssumption DEF ReqRow, Step, Destination
<1>6. RowOK(r, pending[b]) /\ Alive(b, r)
  BY <1>4 DEF RowOK, Alive
<1> HIDE DEF r
<1> QED BY <1>1, <1>5, <1>6, RequestMoves, LoginsStay
     DEF apiVars, vars, tables, serverVars, browserVars

\* Everything a browser does by itself, and the end of its auth session.
LEMMA BrowserStepKeeps ==
  ASSUME BrowserInv, NEW b \in Browser, BrowserStep(b) \/ SessionEnds(b)
  PROVE  BrowserInv'
<1>0. /\ selected[b] \subseteq Sid /\ shown[b] \subseteq Sid
      /\ selected \in [Browser -> SUBSET Sid] /\ shown \in [Browser -> SUBSET Sid]
      /\ login \in [Browser -> Person \cup {Nobody, Stale}]
  BY DEF BrowserInv, BrowserTypes
<1>1. CASE Visit(b)
  <2>1. \A form \in Form \cup BulkForms(b) :
          form \in AnyForm /\ ~(form.kind \in {"login", "callback"})
    BY <1>0, FormFacts, BulkFacts DEF AnyForm, PageForm
  <2>2. /\ Arrival(b) \in {"mount", "me"} /\ (Arrival(b) = "mount" => b \notin Dev)
        /\ Listening \/ b \in Dev
    BY <1>1 DEF Arrival, Visit
  <2>3. PICK form \in Form \cup BulkForms(b) : Send(b, form, Arrival(b))
    BY <1>1 DEF Visit
  <2> QED BY <2>1, <2>2, <2>3, SendKeeps
<1>2. CASE GoToLogin(b)
  <2>1. [kind |-> "login"] \in AnyForm
    BY DEF AnyForm
  <2> QED BY <1>2, <2>1, SendKeeps DEF GoToLogin
<1>3. ASSUME NEW e \in Email, Callback(b, e) PROVE BrowserInv'
  <2>1. [kind |-> "callback", email |-> e] \in AnyForm
    BY DEF AnyForm
  <2> QED BY <1>3, <2>1, SendKeeps DEF Callback
<1>4. ASSUME /\ selected' \in [Browser -> SUBSET Sid]
             /\ \A c \in Browser : c # b => selected'[c] = selected[c]
             /\ tab[b] = "list"
             /\ UNCHANGED <<apiVars, serverVars, login, pending, tab, shown, req>>
      PROVE  BrowserInv'
  <2>1. /\ UNCHANGED <<login, pending, tab, shown, req, users, now, proc>>
    BY <1>4 DEF apiVars, vars, tables, serverVars
  <2>2. BrowserTypes'
    BY <1>4, <2>1 DEF BrowserInv, BrowserTypes
  <2>3. ScreensOK'
    BY <1>4, <2>1 DEF BrowserInv, ScreensOK
  <2>4. LoginsHaveUsers' /\ PendingOK' /\ RequestsOK'
    BY <2>1 DEF BrowserInv, LoginsHaveUsers, SignedIn, Exists, PendingOK, RequestsOK, RowOK, Alive,
               Listening
  <2> QED BY <2>2, <2>3, <2>4 DEF BrowserInv
<1>5. ASSUME NEW s \in Sid, ToggleRow(b, s) PROVE BrowserInv'
  <2> DEFINE new == IF s \in selected[b] THEN selected[b] \ {s} ELSE selected[b] \cup {s}
  <2>1. selected' = [selected EXCEPT ![b] = new] /\ new \in SUBSET Sid
    BY <1>0, <1>5 DEF ToggleRow
  <2> HIDE DEF new
  <2>2. selected' \in [Browser -> SUBSET Sid] /\ \A c \in Browser : c # b => selected'[c] = selected[c]
    BY <1>0, <2>1
  <2> QED BY <1>4, <1>5, <2>2 DEF ToggleRow
<1>6. ASSUME NEW checked \in BOOLEAN, ToggleAll(b, checked) PROVE BrowserInv'
  <2>1. selected' \in [Browser -> SUBSET Sid] /\ \A c \in Browser : c # b => selected'[c] = selected[c]
    BY <1>0, <1>6 DEF ToggleAll
  <2> QED BY <1>4, <1>6, <2>1 DEF ToggleAll
<1>7. CASE Logout(b) \/ SessionEnds(b)
  <2>1. /\ \E to \in {Nobody, Stale} : login' = [login EXCEPT ![b] = to]
        /\ UNCHANGED <<pending, tab, shown, selected, req, users, now, proc>>
    BY <1>7 DEF Logout, SessionEnds, apiVars, vars, tables, serverVars
  <2>2. BrowserTypes'
    BY <2>1 DEF BrowserInv, BrowserTypes
  <2>3. LoginsHaveUsers'
    BY <1>0, <2>1 DEF BrowserInv, LoginsHaveUsers, SignedIn, Exists
  <2>4. PendingOK' /\ ScreensOK' /\ RequestsOK'
    BY <2>1 DEF BrowserInv, PendingOK, ScreensOK, RequestsOK, RowOK, Alive, Listening
  <2> QED BY <2>2, <2>3, <2>4 DEF BrowserInv
<1> QED BY <1>1, <1>2, <1>3, <1>5, <1>6, <1>7 DEF BrowserStep

LEMMA LoginStepKeeps ==
  ASSUME BrowserInv, AccessInv', NEW b \in Browser, LoginStep(b)
  PROVE  BrowserInv'
<1> DEFINE answer == [req[b] EXCEPT !.step = "answer", !.to = "refused"]
           awaits == [req[b] EXCEPT !.step = "awaits"]
           provider == [req[b] EXCEPT !.step = "answer", !.to = "provider"]
           done == [req[b] EXCEPT !.step = "answer"]
<1>0. ASSUME req[b] \in ReqRow, RowOK(req[b], pending[b]), Alive(b, req[b]),
             req[b].step \in {"discovery", "awaits"}
      PROVE  /\ answer \in ReqRow /\ RowOK(answer, pending[b]) /\ Alive(b, answer)
             /\ awaits \in ReqRow /\ RowOK(awaits, pending[b]) /\ Alive(b, awaits)
             /\ provider \in ReqRow /\ RowOK(provider, pending[b]) /\ Alive(b, provider)
             /\ done \in ReqRow /\ RowOK(done, pending[b]) /\ Alive(b, done)
  <2> DEFINE r == req[b]
  <2>1. r \in ReqRow /\ RowOK(r, pending[b]) /\ Alive(b, r) /\ r.step \in {"discovery", "awaits"}
    BY <1>0
  <2> SUFFICES /\ [r EXCEPT !.step = "answer", !.to = "refused"] \in ReqRow
               /\ RowOK([r EXCEPT !.step = "answer", !.to = "refused"], pending[b]) /\ Alive(b, [r EXCEPT !.step = "answer", !.to = "refused"])
               /\ [r EXCEPT !.step = "awaits"] \in ReqRow
               /\ RowOK([r EXCEPT !.step = "awaits"], pending[b]) /\ Alive(b, [r EXCEPT !.step = "awaits"])
               /\ [r EXCEPT !.step = "answer", !.to = "provider"] \in ReqRow
               /\ RowOK([r EXCEPT !.step = "answer", !.to = "provider"], pending[b]) /\ Alive(b, [r EXCEPT !.step = "answer", !.to = "provider"])
               /\ [r EXCEPT !.step = "answer"] \in ReqRow
               /\ RowOK([r EXCEPT !.step = "answer"], pending[b]) /\ Alive(b, [r EXCEPT !.step = "answer"])
    OBVIOUS
  <2> HIDE DEF r
  <2>2. /\ [r EXCEPT !.step = "answer", !.to = "refused"] \in ReqRow
        /\ RowOK([r EXCEPT !.step = "answer", !.to = "refused"], pending[b]) /\ Alive(b, [r EXCEPT !.step = "answer", !.to = "refused"])
    BY <2>1 DEF ReqRow, RowOK, Alive, Step, Destination
  <2>3. /\ [r EXCEPT !.step = "awaits"] \in ReqRow
        /\ RowOK([r EXCEPT !.step = "awaits"], pending[b]) /\ Alive(b, [r EXCEPT !.step = "awaits"])
    BY <2>1 DEF ReqRow, RowOK, Alive, Step, Destination
  <2>4. /\ [r EXCEPT !.step = "answer", !.to = "provider"] \in ReqRow
        /\ RowOK([r EXCEPT !.step = "answer", !.to = "provider"], pending[b]) /\ Alive(b, [r EXCEPT !.step = "answer", !.to = "provider"])
    BY <2>1 DEF ReqRow, RowOK, Alive, Step, Destination
  <2>5. /\ [r EXCEPT !.step = "answer"] \in ReqRow
        /\ RowOK([r EXCEPT !.step = "answer"], pending[b]) /\ Alive(b, [r EXCEPT !.step = "answer"])
    BY <2>1 DEF ReqRow, RowOK, Alive, Step, Destination
  <2> QED BY <2>2, <2>3, <2>4, <2>5
<1>1. CASE AwaitDiscovery(b)
  <2>1. /\ req[b] \in ReqRow /\ RowOK(req[b], pending[b]) /\ Alive(b, req[b])
        /\ req[b].step = "discovery"
    BY <1>1, AtFacts DEF AwaitDiscovery
  <2>2. /\ UNCHANGED <<login, pending, tab, shown, selected, users, now, proc>>
        /\ Goes(b, answer) \/ Goes(b, awaits)
    BY <1>1 DEF AwaitDiscovery, apiVars, vars, tables, browserVars
  <2> HIDE DEF answer, awaits, provider, done
  <2> QED BY <1>0, <2>1, <2>2, RequestMoves, LoginsStay
<1>2. CASE Redirects(b)
  <2>1. /\ req[b] \in ReqRow /\ RowOK(req[b], pending[b]) /\ Alive(b, req[b])
        /\ req[b].step = "awaits"
    BY <1>2, AtFacts DEF Redirects
  <2>2. /\ UNCHANGED <<login, pending, tab, shown, selected, users, now, proc>>
        /\ Goes(b, provider)
    BY <1>2 DEF Redirects, apiVars, vars, tables, browserVars, serverVars
  <2> HIDE DEF answer, awaits, provider, done
  <2> QED BY <1>0, <2>1, <2>2, RequestMoves, LoginsStay
<1>3. CASE SignsIn(b)
  <2>1. /\ req[b] \in ReqRow /\ RowOK(req[b], pending[b]) /\ Alive(b, req[b])
        /\ req[b].step = "awaits"
        /\ req[b].form \in AnyForm /\ req[b].form.kind = "callback"
    BY <1>3, AtFacts DEF SignsIn
  <2>2. UNCHANGED <<pending, tab, shown, selected, proc>>
    BY <1>3 DEF SignsIn, serverVars
  <2> DEFINE e == req[b].form.email
             u == [email |-> e, pending |-> FALSE]
  <2>3. e \in Email
    BY <2>1 DEF AnyForm, PageForm
  <2>4. u \in Person
    BY <2>3 DEF Person, UserId
  <2>5. CASE /\ IF Exists(u) THEN UNCHANGED apiVars ELSE SignUp(e)
             /\ login' = [login EXCEPT ![b] = u]
             /\ Goes(b, done)
    <3>1. now' = now
      BY <2>5 DEF SignUp, apiVars, vars
    <3>2. /\ users' = users /\ users[u] # Absent
          \/ /\ users[u] = Absent
             /\ users' = [users EXCEPT ![u] = IF e \in AdminEmails THEN "admin" ELSE "viewer"]
      BY <2>5 DEF SignUp, Exists, apiVars, vars, tables
    <3>3. "admin" # Absent /\ "viewer" # Absent
      BY AbsentIsNoRow DEF Role
    <3>4. users' \in [UserId -> Role \cup {Absent}]
      BY DEF AccessInv, TablesOK
    <3> HIDE DEF e, u
    <3>5. login' \in [Browser -> Person \cup {Nobody, Stale}]
      BY <2>4, <2>5 DEF BrowserInv, BrowserTypes
    <3>6. users'[u] # Absent
      <4>1. CASE users' = users /\ users[u] # Absent
        BY <4>1
      <4>2. CASE users' = [users EXCEPT ![u] = IF e \in AdminEmails THEN "admin" ELSE "viewer"]
        <5>1. u \in DOMAIN users
          BY <2>4, <3>4, <4>2 DEF Person
        <5> QED BY <3>3, <4>2, <5>1
      <4> QED BY <3>2, <4>1, <4>2
    <3>7. \A v \in UserId : users[v] # Absent => users'[v] # Absent
      <4>1. CASE users' = users
        BY <4>1
      <4>2. CASE users' = [users EXCEPT ![u] = IF e \in AdminEmails THEN "admin" ELSE "viewer"]
        <5>1. \A v \in UserId : v # u => users'[v] = users[v]
          BY <3>4, <4>2
        <5> QED BY <3>6, <5>1
      <4> QED BY <3>2, <4>1, <4>2
    <3>8. LoginsHaveUsers'
      BY <2>5, <3>6, <3>7 DEF BrowserInv, BrowserTypes, LoginsHaveUsers, SignedIn, Exists, Person
    <3> HIDE DEF answer, awaits, provider, done
    <3> QED BY <1>0, <2>1, <2>2, <2>5, <3>1, <3>5, <3>8, RequestMoves
  <2>6. CASE Goes(b, answer) /\ UNCHANGED <<apiVars, login>>
    <3>1. now' = now /\ users' = users /\ login' = login
      BY <2>6 DEF apiVars, vars, tables
    <3> HIDE DEF answer, awaits, provider, done
    <3> QED BY <1>0, <2>1, <2>2, <2>6, <3>1, RequestMoves, LoginsStay
  <2> QED BY <1>3, <2>5, <2>6 DEF SignsIn
<1> QED BY <1>1, <1>2, <1>3 DEF LoginStep

\* The fetch fails for all who wait for it; their requests are answered.
LEMMA FetchEndsKeeps ==
  ASSUME BrowserInv, FetchEnds
  PROVE  BrowserInv'
<1>1. UNCHANGED <<login, pending, tab, shown, selected, users, now, proc>>
  BY DEF FetchEnds, apiVars, vars, tables, browserVars
<1>2. CASE req' = req
  BY <1>1, <1>2 DEF BrowserInv, BrowserTypes, LoginsHaveUsers, SignedIn, Exists, PendingOK, ScreensOK,
                    RequestsOK, RowOK, Alive, Listening
<1>3. CASE req' = [b \in Browser |-> IF b \in Waiting
                     THEN [req[b] EXCEPT !.step = "answer", !.to = "refused"] ELSE req[b]]
  <2>1. ASSUME NEW b \in Browser
        PROVE  /\ req'[b] \in ReqRow \cup {Nobody}
               /\ req'[b] # Nobody => RowOK(req'[b], pending[b]) /\ Alive(b, req'[b])
    <3>1. CASE b \in Waiting
      <4>1. /\ req[b] \in ReqRow /\ RowOK(req[b], pending[b]) /\ Alive(b, req[b])
            /\ req[b].step = "awaits"
        BY <3>1 DEF Waiting, BrowserInv, BrowserTypes, RequestsOK
      <4>2. req'[b] = [req[b] EXCEPT !.step = "answer", !.to = "refused"]
        BY <1>3, <3>1
      <4>3. req'[b] \in ReqRow /\ RowOK(req'[b], pending[b]) /\ Alive(b, req'[b])
        BY <4>1, <4>2 DEF ReqRow, RowOK, Alive, Step, Destination
      <4> QED BY <4>3
    <3>2. CASE b \notin Waiting
      BY <1>3, <3>2 DEF BrowserInv, BrowserTypes, RequestsOK
    <3> QED BY <3>1, <3>2
  <2>2. DOMAIN req' = Browser /\ req' = [b \in Browser |-> req'[b]]
    BY <1>3
  <2>3. req' \in [Browser -> ReqRow \cup {Nobody}]
    BY <2>1, <2>2
  <2>4. BrowserTypes'
    BY <1>1, <2>3 DEF BrowserInv, BrowserTypes
  <2>5. RequestsOK'
    BY <1>1, <2>1 DEF RequestsOK, RowOK, Alive, Listening
  <2> QED BY <1>1, <2>4, <2>5 DEF BrowserInv, LoginsHaveUsers, SignedIn, Exists, PendingOK, ScreensOK
<1> QED BY <1>2, <1>3 DEF FetchEnds

\* GET /api/me and the routing after it.
LEMMA RoutingKeeps ==
  ASSUME BrowserInv, AccessInv, NEW b \in Browser, Mount(b) \/ Me(b) \/ MeAgain(b) \/ Route(b)
  PROVE  BrowserInv'
<1> DEFINE r == req[b]
<1>1. CASE Mount(b)
  <2>1. r \in ReqRow /\ RowOK(r, pending[b]) /\ Alive(b, r) /\ r.step = "mount"
    BY <1>1, AtFacts DEF Mount
  <2>2. UNCHANGED <<login, pending, tab, shown, selected, users, now, proc>>
    BY <1>1 DEF Mount, apiVars, vars, tables, browserVars
  <2>3. PICK q : /\ q \in {[r EXCEPT !.step = "me"],
                           [r EXCEPT !.step = "answer", !.to = "placeholder"]}
                 /\ Goes(b, q)
    BY <1>1 DEF Mount
  <2>4. r.form.kind \notin {"login", "callback"}
    BY <2>1 DEF RowOK
  <2>5. q \in ReqRow /\ RowOK(q, pending[b]) /\ Alive(b, q)
    <3> HIDE DEF r
    <3> QED BY <2>1, <2>3, <2>4 DEF ReqRow, RowOK, Alive, Step, Destination
  <2> QED BY <2>1, <2>2, <2>3, <2>5, RequestMoves, LoginsStay
<1>2. CASE Me(b)
  <2>1. r \in ReqRow /\ RowOK(r, pending[b]) /\ Alive(b, r) /\ r.step = "me"
    BY <1>2, AtFacts DEF Me
  <2>2. UNCHANGED <<login, pending, tab, shown, selected, users, now, proc>>
    BY <1>2 DEF Me, apiVars, vars, tables, browserVars, serverVars
  <2>3. PICK u \in {Nobody} \cup
                 (IF Listening /\ SignedIn(b)
                  THEN {[id |-> login[b], role |-> users[login[b]]]} ELSE {}) :
          Goes(b, [r EXCEPT !.user = u, !.step = "deferred",
                            !.asked = IF login[b] = Nobody THEN 0 ELSE 1])
    BY <1>2 DEF Me
  <2>4. u \in [id : Person, role : Role \cup {Absent}] \cup {Nobody}
    <3>1. SignedIn(b) => login[b] \in Person /\ users[login[b]] \in Role \cup {Absent}
      BY DEF SignedIn, BrowserInv, BrowserTypes, AccessInv, TablesOK, Person
    <3> QED BY <2>3, <3>1
  <2> DEFINE n == IF login[b] = Nobody THEN 0 ELSE 1
             q == [r EXCEPT !.user = u, !.step = "deferred", !.asked = n]
  <2>5. n \in 0 .. MaxAsked
    BY WebAssumption
  <2>6. Goes(b, q)
    BY <2>3
  <2> HIDE DEF r, n
  <2>7. /\ q \in ReqRow
        /\ q.step = "deferred" /\ q.left = r.left /\ q.form = r.form /\ q.sets = r.sets
        /\ q.join = r.join /\ q.tried = r.tried /\ q.asker = r.asker
    BY <2>1, <2>4, <2>5 DEF ReqRow, Step
  <2> HIDE DEF q
  <2>8. RowOK(q, pending[b]) /\ Alive(b, q)
    BY <2>1, <2>7 DEF RowOK, Alive
  <2> QED BY <2>1, <2>2, <2>6, <2>7, <2>8, RequestMoves, LoginsStay
<1>4. CASE MeAgain(b)
  <2>1. r \in ReqRow /\ RowOK(r, pending[b]) /\ Alive(b, r) /\ r.step = "me"
    BY <1>4, AtFacts DEF MeAgain
  <2>2. UNCHANGED <<login, pending, tab, shown, selected, users, now, proc>>
    BY <1>4 DEF MeAgain, apiVars, vars, tables, browserVars, serverVars
  <2> DEFINE n == r.asked + 1
             q == [r EXCEPT !.asked = n]
  <2>3. n \in 0 .. MaxAsked
    BY <1>4, <2>1, WebAssumption DEF MeAgain, ReqRow
  <2>4. Goes(b, q)
    BY <1>4 DEF MeAgain
  <2> HIDE DEF r, n
  <2>5. q \in ReqRow /\ RowOK(q, pending[b]) /\ Alive(b, q)
    BY <2>1, <2>3 DEF ReqRow, RowOK, Alive
  <2> HIDE DEF q
  <2> QED BY <2>1, <2>2, <2>4, <2>5, RequestMoves, LoginsStay
<1>3. CASE Route(b)
  <2>1. /\ r \in ReqRow /\ RowOK(r, pending[b]) /\ Alive(b, r) /\ r.step = "route"
        /\ r.form \in AnyForm
    BY <1>3, AtFacts DEF Route
  <2>2. UNCHANGED <<login, pending, tab, shown, selected, users, now, proc>>
    BY <1>3 DEF Route, apiVars, vars, tables, browserVars, serverVars
  <2>3. r.form.kind \notin {"login", "callback"} /\ r.form \in PageForm
    BY <2>1 DEF RowOK, AnyForm
  <2>4. CallsOf(b) \in Seq(Calls)
    <3>1. \A k \in Code : join(k).calls \in Seq(Calls)
      <4> SUFFICES ASSUME NEW k \in Code PROVE join(k).calls \in Seq(Calls)
        OBVIOUS
      <4>1. [op |-> "join", code |-> k] \in BareCall
        BY DEF BareCall
      <4>2. apiJson([op |-> "join", code |-> k]) \in Calls
        BY <4>1, ApiCalls
      <4>3. <<apiJson([op |-> "join", code |-> k])>> \in Seq(Calls)
        BY <4>2
      <4> QED BY <4>3 DEF join, Action, Asks
    <3>2. <<apiFetch(Read)>> \in Seq(Calls)
      BY ApiCalls DEF Read, BareCall
    <3>3. CASE r.form \in [kind : {"admin", "action", "page"}, calls : Seq(Calls)]
      BY <3>3 DEF CallsOf
    <3>4. CASE r.form \in [kind : {"link"}, code : Code]
      BY <3>1, <3>4 DEF CallsOf
    <3>5. CASE r.form \in [kind : {"tag"}]
      <4>1. r.form.kind = "tag"
        BY <3>5
      <4>2. CallsOf(b) = IF req[b].user.role = "admin" THEN <<apiFetch(Read)>> ELSE <<>>
        BY <4>1 DEF CallsOf
      <4>3. <<>> \in Seq(Calls)
        OBVIOUS
      <4> QED BY <3>2, <4>2, <4>3
    <3> QED BY <2>3, <3>3, <3>4, <3>5 DEF PageForm
  <2>5. Gate(b) \in {"page", "login", "refused"}
    BY DEF Gate
  <2>6. CASE CallsOf(b) # <<>> /\ Goes(b, [r EXCEPT !.step = "calls", !.left = CallsOf(b)])
    <3> DEFINE calls == CallsOf(b)
               q == [r EXCEPT !.step = "calls", !.left = calls]
    <3>0. calls \in Seq(Calls) /\ calls # <<>>
      BY <2>4, <2>6
    <3> HIDE DEF r, calls
    <3>1. q \in ReqRow /\ RowOK(q, pending[b]) /\ Alive(b, q)
      BY <2>1, <2>3, <3>0 DEF ReqRow, RowOK, Alive, Step, Destination
    <3>2. Goes(b, q)
      BY <2>6 DEF r, calls
    <3> HIDE DEF q
    <3> QED BY <2>1, <2>2, <3>1, <3>2, RequestMoves, LoginsStay
  <2>7. CASE Goes(b, [r EXCEPT !.step = "answer", !.to = Gate(b),
                               !.sets = IF Gate(b) = "login" /\ r.form.kind = "link"
                                        THEN "set" ELSE r.sets])
    <3> DEFINE sets == IF Gate(b) = "login" /\ r.form.kind = "link" THEN "set" ELSE r.sets
               gate == Gate(b)
               q == [r EXCEPT !.step = "answer", !.to = gate, !.sets = sets]
    <3>0. /\ gate \in {"page", "login", "refused"} /\ sets \in {"set", r.sets}
          /\ sets = "set" => r.form.kind = "link" \/ r.sets = "set"
      BY <2>5
    <3>2. Goes(b, q)
      BY <2>7
    <3> HIDE DEF r, gate, sets
    <3>3. q \in ReqRow
      BY <2>1, <3>0 DEF ReqRow, Step, Destination
    <3>4. /\ q.step = "answer" /\ q.sets = sets /\ q.form = r.form /\ q.left = r.left
          /\ q.join = r.join /\ q.user = r.user /\ q.tried = r.tried /\ q.asker = r.asker
      BY <2>1 DEF ReqRow
    <3> HIDE DEF q
    <3>1. q \in ReqRow /\ RowOK(q, pending[b]) /\ Alive(b, q)
      BY <2>1, <2>3, <3>0, <3>3, <3>4 DEF RowOK, Alive
    <3> QED BY <2>1, <2>2, <3>1, <3>2, RequestMoves, LoginsStay
  <2> QED BY <1>3, <2>6, <2>7 DEF Route
<1> QED BY <1>1, <1>2, <1>3, <1>4

\* ON DELETE CASCADE leaves no auth session without its user.
LEMMA CascadeFacts ==
  ASSUME BrowserInv, LoginsSurvive
  PROVE  login' \in [Browser -> Person \cup {Nobody, Stale}] /\ LoginsHaveUsers'
<1>1. login' = [b \in Browser |-> IF SignedIn(b) /\ users'[login[b]] = Absent THEN Stale ELSE login[b]]
  BY DEF LoginsSurvive
<1>2. login \in [Browser -> Person \cup {Nobody, Stale}]
  BY DEF BrowserInv, BrowserTypes
<1>3. login' \in [Browser -> Person \cup {Nobody, Stale}]
  BY <1>1, <1>2
<1>4. ASSUME NEW b \in Browser, login'[b] \notin {Nobody, Stale} PROVE users'[login'[b]] # Absent
  BY <1>1, <1>4 DEF SignedIn
<1> QED BY <1>3, <1>4 DEF LoginsHaveUsers, SignedIn, Exists

\* What a call leaves to do is again a sequence of calls.
LEMMA LeftAfterFacts ==
  ASSUME NEW calls \in Seq(Calls), calls # <<>>, NEW left \in LeftAfter(Head(calls), calls)
  PROVE  left \in Seq(Calls)
<1>1. Head(calls) \in Calls /\ CallOK(Head(calls)) /\ Tail(calls) \in Seq(Calls) /\ <<>> \in Seq(Calls)
  BY CallFacts
<1>2. CASE Head(calls).op # "find"
  BY <1>1, <1>2 DEF LeftAfter
<1>3. CASE Head(calls).op = "find"
  <2> DEFINE s == Head(calls).sid
  <2>1. s \in Sid
    BY <1>1, <1>3 DEF CallOK
  <2>2. \A u \in UserId : <<apiFetch([op |-> "grant", sid |-> s, user |-> u])>> \in Seq(Calls)
    <3> SUFFICES ASSUME NEW u \in UserId
                 PROVE  <<apiFetch([op |-> "grant", sid |-> s, user |-> u])>> \in Seq(Calls)
      OBVIOUS
    <3>1. [op |-> "grant", sid |-> s, user |-> u] \in BareCall
      BY <2>1 DEF BareCall
    <3>2. apiFetch([op |-> "grant", sid |-> s, user |-> u]) \in Calls
      BY <3>1, ApiCalls
    <3> QED BY <3>2
  <2>3. \/ left = <<>>
        \/ \E u \in UserId : left = <<apiFetch([op |-> "grant", sid |-> s, user |-> u])>>
    BY <1>3 DEF LeftAfter
  <2> QED BY <1>1, <2>2, <2>3
<1> QED BY <1>2, <1>3

\* What becomes of a request at a call: it waits for the body, or the call is
\* over, and nobody waits any more.
CallLeaves(b, left, shows, to) ==
  [req[b] EXCEPT !.asker = Nobody, !.left = left,
                 !.step = IF left = <<>> THEN "answer" ELSE "calls",
                 !.rows = shows, !.to = to]

LEMMA CallEnds ==
  ASSUME BrowserInv, NEW b \in Browser, Call(b), ~LetIn(b, Head(req[b].left))
  PROVE  \E left \in LeftAfter(Head(req[b].left), req[b].left) \cup {Tail(req[b].left), <<>>},
            shows \in SUBSET Sid, to \in Destination :
              Goes(b, CallLeaves(b, left, shows, to))
<1> DEFINE r == [req[b] EXCEPT !.asker = Nobody]
           c == Head(req[b].left)
           goesOn(left) == [r EXCEPT !.left = left,
                                     !.step = IF left = <<>> THEN "answer" ELSE "calls"]
           lists(left, shows) == [goesOn(left) EXCEPT !.rows = shows,
                                                      !.to = IF c.op = "list" THEN "list" ELSE @]
<1>1. req[b] \in ReqRow /\ req[b].step = "calls"
  BY AtFacts DEF Call
<1>2. \/ Goes(b, goesOn(Tail(req[b].left)))
      \/ Goes(b, Throws(r))
      \/ \E left \in LeftAfter(c, req[b].left), shows \in RowsOf(c) : Goes(b, lists(left, shows))
  <2> HIDE DEF lists, r, goesOn
  <2> QED BY DEF Call, lists, r, goesOn
<1>3. req[b].rows \in SUBSET Sid /\ req[b].to \in Destination
      /\ {"list", "error"} \subseteq Destination
  BY <1>1 DEF ReqRow, Destination
<1>4. \A left : goesOn(left) = CallLeaves(b, left, req[b].rows, req[b].to)
  BY <1>1 DEF CallLeaves, ReqRow
<1>5. Throws(r) = CallLeaves(b, <<>>, req[b].rows, "error")
  <2>1. r.step = "calls"
    BY <1>1 DEF ReqRow
  <2>2. Throws(r) = [r EXCEPT !.step = "answer", !.to = "error", !.left = <<>>, !.asker = Nobody]
    BY <2>1 DEF Throws
  <2> QED BY <1>1, <2>2 DEF CallLeaves, ReqRow
<1>6. \A left, shows : lists(left, shows)
          = CallLeaves(b, left, shows, IF c.op = "list" THEN "list" ELSE req[b].to)
  <2> HIDE DEF c
  <2> QED BY <1>1 DEF CallLeaves, ReqRow
<1>7. RowsOf(c) \subseteq SUBSET Sid
  BY DEF RowsOf
<1> HIDE DEF goesOn, lists, r, c
<1>8. CASE Goes(b, goesOn(Tail(req[b].left)))
  BY <1>3, <1>4, <1>8
<1>9. CASE Goes(b, Throws(r))
  BY <1>3, <1>5, <1>9
<1>10. CASE \E left \in LeftAfter(c, req[b].left), shows \in RowsOf(c) : Goes(b, lists(left, shows))
  <2>1. PICK left \in LeftAfter(c, req[b].left), shows \in RowsOf(c) : Goes(b, lists(left, shows))
    BY <1>10
  <2>2. PICK to \in Destination : lists(left, shows) = CallLeaves(b, left, shows, to)
    BY <1>3, <1>6
  <2> QED BY <1>7, <2>1, <2>2 DEF c
<1> QED BY <1>2, <1>8, <1>9, <1>10

\* The deferred join likewise; without one the request is routed.
LEMMA DeferredEnds ==
  ASSUME NEW b \in Browser, Deferred(b), req[b] \in ReqRow
  PROVE  \/ Redeems(b) /\ LetIn(b, DeferredJoin(b))
         \/ /\ Redeems(b)
            /\ \E tried \in {"done", "refused", "lost"} :
                 /\ tried = "done" => Granted(b, DeferredJoin(b))
                 /\ tried = "refused" => Refused(b, DeferredJoin(b))
                 /\ Goes(b, [req[b] EXCEPT !.step = "route", !.tried = tried, !.sets = "drop",
                                           !.asker = Nobody])
         \/ ~Redeems(b) /\ Goes(b, [req[b] EXCEPT !.step = "route"]) /\ UNCHANGED apiVars
<1>1. Throws(req[b]) = [req[b] EXCEPT !.step = "route", !.tried = "lost", !.sets = "drop",
                                      !.asker = Nobody]
  BY DEF Deferred, At, Throws
<1>2. CASE Redeems(b)
  <2> DEFINE tried(t) == [req[b] EXCEPT !.step = "route", !.tried = t, !.sets = "drop",
                                        !.asker = Nobody]
             c == DeferredJoin(b)
  <2>1. \/ LetIn(b, c)
        \/ Granted(b, c) /\ Goes(b, tried("done"))
        \/ Refused(b, c) /\ Goes(b, tried("refused"))
        \/ Goes(b, tried("lost"))
    BY <1>1, <1>2 DEF Deferred, DeferredJoin
  <2> HIDE DEF c, tried
  <2>2. \/ LetIn(b, c)
        \/ \E t \in {"done", "refused", "lost"} :
             /\ t = "done" => Granted(b, c)
             /\ t = "refused" => Refused(b, c)
             /\ Goes(b, tried(t))
    BY <2>1
  <2> QED BY <1>2, <2>2 DEF c, tried
<1>3. CASE ~Redeems(b)
  BY <1>3 DEF Deferred
<1> QED BY <1>2, <1>3

\* whoever is let in is a person
LEMMA LetInFacts ==
  ASSUME BrowserInv, NEW b \in Browser, NEW c, LetIn(b, c)
  PROVE  /\ HasBody(c) /\ req[b].asker = Nobody /\ Listening /\ Authorized(login[b], c)
         /\ SignedIn(b) /\ login[b] \in Person /\ login[b] # Nobody
         /\ UNCHANGED apiVars /\ Goes(b, [req[b] EXCEPT !.asker = login[b]])
BY DEF LetIn, Admits, SignedIn, BrowserInv, BrowserTypes

LEMMA DeferredKeeps ==
  ASSUME BrowserInv, AccessInv, NEW b \in Browser, Deferred(b)
  PROVE  BrowserInv'
<1> DEFINE r == req[b]
<1>1. r \in ReqRow /\ RowOK(r, pending[b]) /\ Alive(b, r) /\ r.step = "deferred"
  BY AtFacts DEF Deferred
<1>2. UNCHANGED <<login, pending, tab, shown, selected, proc>>
  BY DEF Deferred, browserVars, serverVars
<1>3. r.form.kind \notin {"login", "callback"} /\ r.left = <<>>
  BY <1>1 DEF RowOK
<1>4. now' = now /\ users' = users
  <2>1. CASE UNCHANGED apiVars
    BY <2>1 DEF apiVars, vars, tables
  <2>2. CASE Redeems(b) /\ CallOK(DeferredJoin(b)) /\ Granted(b, DeferredJoin(b))
    <3>1. DeferredJoin(b).op = "join"
      BY DEF DeferredJoin
    <3> QED BY <1>1, <2>2, <3>1, GrantedMovesRows
  <2> QED BY <2>1, <2>2, WhatCallsDo
<1>5. CASE Redeems(b) /\ LetIn(b, DeferredJoin(b))
  <2> DEFINE u == login[b]
             q == [r EXCEPT !.asker = u]
  <2>1. u \in Person /\ Goes(b, q)
    BY <1>5, LetInFacts
  <2>2. r.join # Nobody /\ r.user # Nobody
    BY <1>5 DEF Redeems
  <2> HIDE DEF r, u
  <2>3. q \in ReqRow /\ RowOK(q, pending[b]) /\ Alive(b, q)
    BY <1>1, <1>3, <2>1, <2>2 DEF ReqRow, RowOK, Alive
  <2> HIDE DEF q
  <2> QED BY <1>2, <1>4, <2>1, <2>3, RequestMoves, LoginsStay
<1>6. ASSUME Redeems(b), NEW tried \in {"done", "refused", "lost"},
             Goes(b, [r EXCEPT !.step = "route", !.tried = tried, !.sets = "drop",
                               !.asker = Nobody])
      PROVE  BrowserInv'
  <2> DEFINE q == [r EXCEPT !.step = "route", !.tried = tried, !.sets = "drop",
                            !.asker = Nobody]
  <2>1. r.join # Nobody /\ r.user # Nobody
    BY <1>6 DEF Redeems
  <2>2. Goes(b, q)
    BY <1>6
  <2> HIDE DEF r
  <2>3. q \in ReqRow /\ RowOK(q, pending[b]) /\ Alive(b, q)
    BY <1>1, <1>3, <2>1 DEF ReqRow, RowOK, Alive, Step
  <2> HIDE DEF q
  <2> QED BY <1>2, <1>4, <2>2, <2>3, RequestMoves, LoginsStay
<1>7. CASE ~Redeems(b) /\ Goes(b, [r EXCEPT !.step = "route"])
  <2> DEFINE q == [r EXCEPT !.step = "route"]
  <2>1. r.asker = Nobody
    BY <1>1, <1>7 DEF RowOK, Redeems
  <2>2. Goes(b, q)
    BY <1>7
  <2> HIDE DEF r
  <2>3. q \in ReqRow /\ RowOK(q, pending[b]) /\ Alive(b, q)
    BY <1>1, <1>3, <2>1 DEF ReqRow, RowOK, Alive, Step
  <2> HIDE DEF q
  <2> QED BY <1>2, <1>4, <2>2, <2>3, RequestMoves, LoginsStay
<1> QED BY <1>1, <1>5, <1>6, <1>7, DeferredEnds

LEMMA CallKeeps ==
  ASSUME BrowserInv, AccessInv, NEW b \in Browser, Call(b)
  PROVE  BrowserInv'
<1> DEFINE r == req[b]
           c == Head(r.left)
<1>1. /\ r \in ReqRow /\ RowOK(r, pending[b]) /\ Alive(b, r) /\ r.step = "calls"
      /\ r.left \in Seq(Calls) /\ r.left # <<>> /\ CallOK(c)
  BY AtFacts, NextCall DEF Call
<1>2. UNCHANGED <<pending, tab, shown, selected, proc>>
  BY DEF Call, serverVars
<1>3. r.form.kind \notin {"login", "callback"}
  BY <1>1 DEF RowOK
<1>4. now' = now
  <2>1. UNCHANGED apiVars => now' = now
    BY DEF apiVars, vars
  <2> QED BY <1>1, <2>1, WhatCallsDo, GrantedMovesRows
<1>5. login' \in [Browser -> Person \cup {Nobody, Stale}] /\ LoginsHaveUsers'
  BY CascadeFacts DEF Call
<1>6. CASE LetIn(b, c)
  <2> DEFINE u == login[b]
             q == [r EXCEPT !.asker = u]
  <2>1. u \in Person /\ Goes(b, q) /\ HasBody(c)
    BY <1>6, LetInFacts
  <2> HIDE DEF r, u
  <2>2. q \in ReqRow /\ Alive(b, q)
    BY <1>1, <2>1 DEF ReqRow, Alive
  <2>3. /\ q.step = r.step /\ q.left = r.left /\ q.form = r.form /\ q.sets = r.sets
        /\ q.join = r.join /\ q.user = r.user /\ q.tried = r.tried
    BY <1>1 DEF ReqRow
  <2> HIDE DEF q
  <2>4. RowOK(q, pending[b])
    BY <1>1, <1>3, <2>1, <2>3 DEF RowOK
  <2> QED BY <1>2, <1>4, <1>5, <2>1, <2>2, <2>4, RequestMoves
<1>7. CASE ~LetIn(b, c)
  <2>1. PICK left \in LeftAfter(c, r.left) \cup {Tail(r.left), <<>>},
             shows \in SUBSET Sid, to \in Destination :
               Goes(b, CallLeaves(b, left, shows, to))
    BY <1>7, CallEnds
  <2>2. left \in Seq(Calls)
    <3>1. r.left \in Seq(Calls) /\ r.left # <<>> /\ Tail(r.left) \in Seq(Calls) /\ <<>> \in Seq(Calls)
      BY <1>1, CallFacts DEF ReqRow, RowOK
    <3> HIDE DEF r
    <3> QED BY <2>1, <3>1, LeftAfterFacts
  <2> DEFINE step == IF left = <<>> THEN "answer" ELSE "calls"
             q == CallLeaves(b, left, shows, to)
  <2>3. q = [r EXCEPT !.asker = Nobody, !.left = left, !.step = step, !.rows = shows, !.to = to]
    BY DEF CallLeaves
  <2>4. step \in {"answer", "calls"} /\ (step = "calls" <=> left # <<>>)
    OBVIOUS
  <2> HIDE DEF r, c, step
  <2>5. q \in ReqRow
    BY <1>1, <2>2, <2>3, <2>4 DEF ReqRow, Step
  <2>6. /\ q.step = step /\ q.left = left /\ q.form = r.form /\ q.sets = r.sets
        /\ q.join = r.join /\ q.user = r.user /\ q.tried = r.tried /\ q.asker = Nobody
    BY <1>1, <2>3 DEF ReqRow
  <2>7. RowOK(q, pending[b]) /\ Alive(b, q)
    BY <1>1, <1>3, <2>4, <2>5, <2>6 DEF RowOK, Alive
  <2> HIDE DEF q
  <2>8. Goes(b, q)
    BY <2>1 DEF q
  <2> QED BY <1>2, <1>4, <1>5, <2>5, <2>7, <2>8, RequestMoves
<1> QED BY <1>6, <1>7

\* The answer reaches the browser, or it does not.
LEMMA AnswerKeeps ==
  ASSUME BrowserInv, AccessInv, NEW b \in Browser, Answer(b) \/ AnswerLost(b)
  PROVE  BrowserInv'
<1>0. now \in Nat
  BY DEF AccessInv, TablesOK
<1>1. CASE AnswerLost(b)
  <2>1. UNCHANGED <<login, pending, tab, shown, selected, users, now, proc>>
    BY <1>1 DEF AnswerLost, apiVars, vars, tables, browserVars, serverVars
  <2> QED BY <1>1, <2>1, RequestMoves, LoginsStay DEF AnswerLost
<1>2. CASE Answer(b)
  <2> DEFINE r == req[b]
             stays == tab[b] = "list" /\ (r.to = "list" \/ (r.to = "page" /\ r.form.kind = "action"))
             list == r.to = "list" \/ stays
             tab1 == IF list THEN "list" ELSE IF r.to = "provider" THEN r.to ELSE "other"
             shown1 == IF r.to = "list" THEN r.rows ELSE IF list THEN shown[b] ELSE {}
             selected1 == IF stays THEN selected[b] ELSE {}
             cookie == PendingAfter(b)
  <2>1. /\ r \in ReqRow /\ RowOK(r, pending[b]) /\ r.step = "answer"
        /\ r.form \in AnyForm
    BY <1>2, AtFacts DEF Answer
  <2>2. /\ tab' = [tab EXCEPT ![b] = tab1]
        /\ shown' = [shown EXCEPT ![b] = shown1]
        /\ selected' = [selected EXCEPT ![b] = selected1]
        /\ pending' = [pending EXCEPT ![b] = cookie]
        /\ req' = [req EXCEPT ![b] = Nobody]
        /\ UNCHANGED <<login, users, now, proc>>
    BY <1>2 DEF Answer, Goes, apiVars, vars, tables, serverVars
  <2>3. /\ tab \in [Browser -> {"provider", "list", "other"}]
        /\ shown \in [Browser -> SUBSET Sid] /\ selected \in [Browser -> SUBSET Sid]
        /\ pending \in [Browser -> Cookie \cup {Nobody}] /\ req \in [Browser -> ReqRow \cup {Nobody}]
        /\ login \in [Browser -> Person \cup {Nobody, Stale}]
    BY DEF BrowserInv, BrowserTypes
  <2>4. /\ tab1 \in {"provider", "list", "other"} /\ shown1 \in SUBSET Sid /\ selected1 \in SUBSET Sid
        /\ tab1 # "list" => shown1 = {} /\ selected1 = {}
    BY <2>1, <2>3 DEF ReqRow
  <2>5. /\ cookie \in Cookie \cup {Nobody}
        /\ cookie # Nobody => \/ cookie = pending[b]
                              \/ cookie.until = now + PendingTTL
    <3>1. CASE r.sets = "keep"
      BY <2>3, <3>1 DEF PendingAfter
    <3>2. CASE r.sets = "drop"
      BY <3>2 DEF PendingAfter
    <3>3. CASE r.sets = "set"
      <4>1. r.form.kind = "link" /\ r.form \in AnyForm
        BY <2>1, <3>3 DEF RowOK
      <4>2. r.form.code \in Code
        BY <4>1 DEF AnyForm, PageForm
      <4>3. now + PendingTTL \in Nat
        BY <1>0, WebAssumption
      <4>4. cookie = [code |-> r.form.code, until |-> now + PendingTTL]
        BY <3>3 DEF PendingAfter
      <4> QED BY <4>2, <4>3, <4>4 DEF Cookie
    <3> QED BY <2>1, <3>1, <3>2, <3>3 DEF ReqRow
  <2> HIDE DEF tab1, shown1, selected1, cookie, r, stays, list
  <2>6. BrowserTypes'
    BY <2>2, <2>3, <2>4, <2>5 DEF BrowserTypes
  <2>7. ScreensOK'
    BY <2>2, <2>3, <2>4 DEF BrowserInv, ScreensOK
  <2>8. LoginsHaveUsers'
    BY <2>2 DEF BrowserInv, LoginsHaveUsers, SignedIn, Exists
  <2>9. RequestsOK'
    <3>1. \A d \in Browser : req'[d] # Nobody => d # b /\ req'[d] = req[d] /\ pending'[d] = pending[d]
      BY <2>2, <2>3
    <3> QED BY <2>2, <3>1 DEF BrowserInv, RequestsOK, RowOK, Alive, Listening
  <2>10. PendingOK'
    BY <1>0, <2>2, <2>3, <2>5, WebAssumption DEF BrowserInv, PendingOK
  <2> QED BY <2>6, <2>7, <2>8, <2>9, <2>10 DEF BrowserInv
<1> QED BY <1>1, <1>2

\* The others: requests of other clients, time, processes.
LEMMA OthersKeep ==
  ASSUME BrowserInv, AccessInv, ServerInv, OtherClient \/ TimePasses \/ ProcessStep \/ ServerDies
  PROVE  BrowserInv'
<1>0. now \in Nat /\ proc \in [Runner -> {"down", "started", "migrating", "listening"}]
  BY DEF AccessInv, TablesOK, ServerInv, ServerTypeOK
<1>1. CASE OtherClient
  <2>1. UNCHANGED <<pending, tab, shown, selected, req, proc>> /\ LoginsSurvive
    BY <1>1 DEF OtherClient, serverVars
  <2>2. now' = now
    <3>1. ASSUME NEW a, WithoutBody(a) \/ Authenticate(a, "admin") PROVE now' = now
      BY <3>1 DEF WithoutBody, DeleteSession, Revoke, DeleteUser, DeleteCode, Authenticate
    <3>2. ASSUME NEW q, Refuse(q) \/ \E u \in UserId : PatchUser(q, u, "viewer") PROVE now' = now
      BY <3>2 DEF Refuse, PatchUser
    <3>3. StartSession => now' = now
      BY DEF StartSession
    <3> QED BY <1>1, <3>1, <3>2, <3>3 DEF OtherClient
  <2>3. login' \in [Browser -> Person \cup {Nobody, Stale}] /\ LoginsHaveUsers'
    BY <2>1, CascadeFacts
  <2> QED BY <2>1, <2>2, <2>3 DEF BrowserInv, BrowserTypes, PendingOK, ScreensOK, RequestsOK, RowOK,
                                  Alive, Listening
<1>2. CASE TimePasses
  <2>1. /\ now' = now + 1 /\ users' = users
        /\ pending' = [b \in Browser |-> IF pending[b] # Nobody /\ ~LivesOn(pending[b])
                                         THEN Nobody ELSE pending[b]]
        /\ UNCHANGED <<login, tab, shown, selected, req, proc>>
    BY <1>2 DEF TimePasses, Tick, tables, serverVars
  <2>2. ASSUME NEW b \in Browser
        PROVE  /\ pending'[b] \in {pending[b], Nobody}
               /\ pending'[b] # Nobody => pending'[b].until > now'
    BY <2>1, <2>2 DEF LivesOn
  <2>3. pending \in [Browser -> Cookie \cup {Nobody}]
    BY DEF BrowserInv, BrowserTypes
  <2>4. pending' \in [Browser -> Cookie \cup {Nobody}]
    BY <2>1, <2>3
  <2>5. PendingOK'
    <3> SUFFICES ASSUME NEW b \in Browser, pending'[b] # Nobody
                 PROVE  pending'[b].until \in now' + 1 .. now' + PendingTTL
      BY DEF PendingOK
    <3>1. pending'[b] = pending[b] /\ pending[b] # Nobody /\ pending[b].until > now'
      BY <2>2
    <3>2. pending[b].until \in now + 1 .. now + PendingTTL
      BY <3>1 DEF BrowserInv, PendingOK
    <3> QED BY <3>1, <3>2, <2>1, <1>0, WebAssumption
  <2>6. BrowserTypes' /\ ScreensOK' /\ LoginsHaveUsers'
    BY <2>1, <2>4 DEF BrowserInv, BrowserTypes, ScreensOK, LoginsHaveUsers, SignedIn, Exists
  <2>7. RequestsOK'
    BY <2>1, <2>2 DEF BrowserInv, RequestsOK, RowOK, Alive, Listening
  <2> QED BY <2>5, <2>6, <2>7 DEF BrowserInv
<1>3. CASE ProcessStep
  <2>1. UNCHANGED <<login, pending, tab, shown, selected, req, users, now>>
    BY <1>3 DEF ProcessStep, apiVars, vars, tables, browserVars
  <2>2. Listening => Listening'
    <3> SUFFICES ASSUME Listening PROVE Listening'
      OBVIOUS
    <3>1. ASSUME NEW r \in Runner, RunnerStep(r) PROVE proc'["server"] = "listening"
      BY <1>0, <3>1 DEF RunnerStep, ReadApplied, Migrate, MigrateFails, FinishMigrations, Listening,
                        Runner
    <3>2. ASSUME NEW r \in Runner, NEW e \in Environment, Start(r, e)
          PROVE  proc'["server"] = "listening"
      BY <1>0, <3>2 DEF Start, Listening, Runner
    <3>3. CASE Die("cli")
      BY <1>0, <3>3 DEF Die, Listening, Runner
    <3> QED BY <1>3, <3>1, <3>2, <3>3 DEF ProcessStep, Listening
  <2> QED BY <2>1, <2>2 DEF BrowserInv, BrowserTypes, LoginsHaveUsers, SignedIn, Exists, PendingOK,
                            ScreensOK, RequestsOK, RowOK, Alive
<1>4. CASE ServerDies
  <2>1. UNCHANGED <<login, pending, tab, shown, selected, users, now>>
    BY <1>4 DEF ServerDies, Interrupt, tables, browserVars
  <2>2. ASSUME NEW b \in Browser
        PROVE  /\ req'[b] \in ReqRow \cup {Nobody}
               /\ req'[b] # Nobody => /\ RowOK(req'[b], pending[b]) /\ b \in Dev
                                      /\ req'[b].form.kind \notin {"login", "callback"}
                                      /\ req'[b].step # "mount"
    <3> DEFINE r == req[b]
    <3>1. /\ r # Nobody => r \in ReqRow /\ RowOK(r, pending[b]) /\ Alive(b, r)
          /\ r \in ReqRow \cup {Nobody}
      BY DEF BrowserInv, BrowserTypes, RequestsOK
    <3>2. \/ req'[b] = Nobody
          \/ /\ r # Nobody /\ b \in Dev /\ r.form.kind \notin {"login", "callback"}
             /\ req'[b] = IF r.asker # Nobody THEN Throws(r) ELSE r
      BY <1>4 DEF ServerDies
    <3>3. ASSUME r # Nobody, b \in Dev, r.form.kind \notin {"login", "callback"}
          PROVE  /\ r \in ReqRow /\ RowOK(r, pending[b])
                 /\ r.step # "mount"
      BY <3>1, <3>3 DEF Alive
    <3>4. ASSUME r # Nobody, b \in Dev, r.form.kind \notin {"login", "callback"}, r.asker # Nobody
          PROVE  /\ Throws(r) \in ReqRow /\ RowOK(Throws(r), pending[b])
                 /\ Throws(r).form = r.form /\ Throws(r).step # "mount"
      <4>1. CASE r.step = "deferred"
        <5>1. /\ Throws(r) = [r EXCEPT !.step = "route", !.tried = "lost", !.sets = "drop",
                                       !.asker = Nobody]
              /\ r \in ReqRow /\ RowOK(r, pending[b])
          BY <3>3, <3>4, <4>1 DEF Throws
        <5> HIDE DEF r
        <5> QED BY <3>4, <4>1, <5>1 DEF ReqRow, RowOK, Step
      <4>2. CASE r.step # "deferred"
        <5>1. /\ Throws(r) = [r EXCEPT !.step = "answer", !.to = "error", !.left = <<>>,
                                       !.asker = Nobody]
              /\ r \in ReqRow /\ RowOK(r, pending[b]) /\ <<>> \in Seq(Calls)
          BY <3>3, <3>4, <4>2 DEF Throws
        <5> HIDE DEF r
        <5>2. r.step = "calls"
          BY <3>4, <4>2, <5>1 DEF RowOK
        <5> QED BY <3>4, <5>1, <5>2 DEF ReqRow, RowOK, Step, Destination
      <4> QED BY <4>1, <4>2
    <3> HIDE DEF r
    <3>5. CASE req'[b] = Nobody
      BY <3>5
    <3>6. CASE req'[b] # Nobody
      <4>1. r # Nobody /\ b \in Dev /\ r.form.kind \notin {"login", "callback"}
        BY <3>2, <3>6
      <4>2. /\ req'[b] \in ReqRow /\ RowOK(req'[b], pending[b]) /\ req'[b].form = r.form
            /\ req'[b].step # "mount"
        BY <3>2, <3>3, <3>4, <3>6, <4>1
      <4> QED BY <4>1, <4>2 DEF Alive
    <3> QED BY <3>5, <3>6
  <2>3. req' = [b \in Browser |-> req'[b]]
    BY <1>4 DEF ServerDies
  <2>4. req' \in [Browser -> ReqRow \cup {Nobody}]
    BY <2>2, <2>3
  <2>5. RequestsOK'
    BY <2>1, <2>2 DEF RequestsOK, RowOK, Alive
  <2>6. BrowserTypes' /\ LoginsHaveUsers' /\ PendingOK' /\ ScreensOK'
    BY <2>1, <2>4 DEF BrowserInv, BrowserTypes, LoginsHaveUsers, SignedIn, Exists, PendingOK, ScreensOK
  <2> QED BY <2>5, <2>6 DEF BrowserInv
<1> QED BY <1>1, <1>2, <1>3, <1>4

LEMMA NextSite == SiteInv /\ [SiteNext]_siteVars => SiteInv'
<1> SUFFICES ASSUME SiteInv, [SiteNext]_siteVars PROVE SiteInv'
  OBVIOUS
<1>0. ServerInv /\ AccessInv /\ discovery # "failed" /\ BrowserInv /\ OthersOK
  BY DEF SiteInv
<1>1. CASE SiteNext
  <2>1. ServerInv'
    BY <1>0, <1>1, SiteServerStep, NextServer
  <2>2. AccessInv' /\ OthersOK'
    BY <1>0, <1>1, SiteTablesStep, OthersStayBounded
  <2>3. discovery' # "failed"
    BY <1>0, <1>1, NoFailureKept
  <2>4. BrowserInv'
    BY <1>0, <1>1, <2>2, BrowserStepKeeps, RoutingKeeps, DeferredKeeps, CallKeeps, AnswerKeeps,
       LoginStepKeeps, FetchEndsKeeps, OthersKeep DEF SiteNext, PageStep
  <2> QED BY <2>1, <2>2, <2>3, <2>4 DEF SiteInv
<1>2. CASE UNCHANGED siteVars
  <2>1. UNCHANGED <<apiVars, serverVars, login, pending, tab, shown, selected, req>>
    BY <1>2 DEF siteVars, browserVars
  <2>2. ServerInv' /\ discovery' # "failed"
    BY <1>0, <2>1, NextServer DEF serverVars, memory
  <2>3. AccessInv'
    BY <1>0, <2>1, StutterKeepsInv DEF apiVars
  <2>4. UNCHANGED <<users, inflight, now, proc>>
    BY <2>1 DEF apiVars, vars, tables, serverVars
  <2>5. BrowserInv' /\ OthersOK'
    BY <1>0, <2>1, <2>4 DEF BrowserInv, BrowserTypes, LoginsHaveUsers, SignedIn, Exists, PendingOK,
                            ScreensOK, RequestsOK, RowOK, Alive, Listening, OthersOK
  <2> QED BY <2>2, <2>3, <2>5 DEF SiteInv
<1> QED BY <1>1, <1>2

\* Nobody is signed in and nobody asks for anything.
LEMMA InitSite == SiteInit => SiteInv
<1> SUFFICES ASSUME SiteInit PROVE SiteInv
  OBVIOUS
<1>1. ServerInv /\ AccessInv /\ discovery # "failed"
  BY InitServer, InitHolds DEF SiteInit, ServerInit
<1>2. BrowserInv
  BY DEF SiteInit, BrowserInit, BrowserInv, BrowserTypes, LoginsHaveUsers, SignedIn, PendingOK,
         ScreensOK, RequestsOK
<1>3. OthersOK
  <2>1. inflight = {}
    BY DEF SiteInit, Init
  <2> QED BY <2>1, FS_EmptySet, AccessAssumption DEF OthersOK
<1> QED BY <1>1, <1>2, <1>3 DEF SiteInv

\* The inductive invariant of the site: the server's, the tables', and that
\* cookies, screens and requests are what the pages make of them.
THEOREM SiteInvariant == SiteSpec => []SiteInv
BY InitSite, NextSite, PTL DEF SiteSpec

\* Types of the whole site, and with them: while no server listens only pages
\* of the development server are under way; somebody waits only in a request
\* that makes a call; and a deferred code lives no longer than its five minutes.
THEOREM SiteTypes == SiteSpec => []SiteTypeOK
<1>1. SiteInv => SiteTypeOK
  <2> SUFFICES ASSUME SiteInv PROVE SiteTypeOK
    OBVIOUS
  <2>1. ServerTypeOK /\ TypeOK
    BY DEF SiteInv, ServerInv, AccessInv, TablesOK, LogOK, Belief, TypeOK
  <2>2. login \in [Browser -> UserId \cup {Nobody, Stale}]
    BY DEF SiteInv, BrowserInv, BrowserTypes, Person
  <2> DEFINE RequestOK(b) ==
        /\ Listening \/ (b \in Dev /\ req[b].step \notin LoginSteps)
        /\ req[b].step \in Step
        /\ req[b].asked \in 0 .. MaxAsked
        /\ req[b].asker \in UserId \cup {Nobody}
        /\ req[b].asker # Nobody => req[b].step \in {"deferred", "calls"}
        /\ (req[b].step = "calls") = (req[b].left # <<>>)
  <2> SUFFICES ASSUME NEW b \in Browser
               PROVE  /\ pending[b] # Nobody => /\ pending[b].code \in Code
                                                /\ pending[b].until \in now + 1 .. now + PendingTTL
                      /\ tab[b] \in {"provider", "list", "other"}
                      /\ shown[b] \in SUBSET Sid
                      /\ selected[b] \in SUBSET Sid
                      /\ tab[b] # "list" => shown[b] = {} /\ selected[b] = {}
                      /\ req[b] # Nobody => RequestOK(b)
    BY <2>1, <2>2 DEF SiteTypeOK
  <2>3. BrowserTypes /\ PendingOK /\ ScreensOK /\ RequestsOK
    BY DEF SiteInv, BrowserInv
  <2>4. pending[b] # Nobody => /\ pending[b].code \in Code
                               /\ pending[b].until \in now + 1 .. now + PendingTTL
    BY <2>3 DEF BrowserTypes, PendingOK, Cookie
  <2>5. tab[b] \in {"provider", "list", "other"} /\ shown[b] \in SUBSET Sid /\ selected[b] \in SUBSET Sid
    BY <2>3 DEF BrowserTypes
  <2>6. ASSUME req[b] # Nobody PROVE RequestOK(b)
    <3>1. req[b] \in ReqRow /\ RowOK(req[b], pending[b]) /\ Alive(b, req[b])
      BY <2>3, <2>6 DEF BrowserTypes, RequestsOK
    <3>2. /\ req[b].step \in Step /\ req[b].asked \in 0 .. MaxAsked
          /\ req[b].asker \in UserId \cup {Nobody}
      BY <3>1 DEF ReqRow, Person
    <3>3. /\ req[b].asker # Nobody => req[b].step \in {"deferred", "calls"}
          /\ (req[b].step = "calls") = (req[b].left # <<>>)
      BY <3>1 DEF RowOK
    <3>4. Listening \/ (b \in Dev /\ req[b].step \notin LoginSteps)
      BY <3>1 DEF RowOK, Alive, LoginSteps
    <3> QED BY <3>2, <3>3, <3>4
  <2> QED BY <2>3, <2>4, <2>5, <2>6 DEF ScreensOK
<1> QED BY <1>1, SiteInvariant, PTL

\* Through the pages as through the API alone: no row without its parents, no
\* address with two users, no auth session of somebody who is gone.
THEOREM SiteKeepsTables == SiteSpec => [](ForeignKeys /\ OneUserPerEmail /\ LoginsHaveUsers)
<1>1. SiteInv => ForeignKeys /\ OneUserPerEmail /\ LoginsHaveUsers
  BY DEF SiteInv, AccessInv, BrowserInv
<1> QED BY <1>1, SiteInvariant, PTL

----------------------------------------------------------------------------
(* The site is a client of the API *)

\* a page whose call was let in and waits for its body
Asking(r) == r # Nobody /\ r.asker # Nobody
Askers    == {b \in Browser : Asking(req[b])}

\* the call as the API has it
WaitOf(r) ==
  [user |-> r.asker, scope |-> IF r.step = "deferred" THEN "user" ELSE ScopeOf(Head(r.left))]

Waits == inflight \cup {WaitOf(req[b]) : b \in Askers}

\* Access, with the calls of the pages among its requests that wait
T == INSTANCE Access WITH inflight <- Waits, MaxInflight <- MaxInflight + Cardinality(Browser)

\* No page begins or ends to wait.
LEMMA SameWaits ==
  ASSUME \A b \in Browser : req'[b] = req[b] \/ (~Asking(req[b]) /\ ~Asking(req'[b]))
  PROVE  /\ inflight' = inflight => Waits' = Waits
         /\ \A q : inflight' = inflight \cup {q} => Waits' = Waits \cup {q}
         /\ \A q \in inflight : inflight' \in {inflight, inflight \ {q}}
                                  => Waits' \in {Waits, Waits \ {q}} /\ q \in Waits
<1>1. Askers' = Askers /\ \A b \in Askers : req'[b] = req[b]
  BY DEF Askers, Asking
<1> DEFINE pages == {WaitOf(req[b]) : b \in Askers}
<1>2. {WaitOf(req'[b]) : b \in Askers'} = pages
  BY <1>1
<1>3. Waits = inflight \cup pages /\ Waits' = inflight' \cup pages
  BY <1>2 DEF Waits, WaitOf
<1> HIDE DEF pages
<1> QED BY <1>3

\* One page is let in.
LEMMA OneMoreWaits ==
  ASSUME NEW b \in Browser, inflight' = inflight, ~Asking(req[b]), Asking(req'[b]),
         \A d \in Browser : d # b => req'[d] = req[d]
  PROVE  Waits' = Waits \cup {WaitOf(req'[b])}
<1>1. Askers' = Askers \cup {b} /\ b \notin Askers /\ \A d \in Askers : req'[d] = req[d]
  BY DEF Askers, Asking
<1>2. {WaitOf(req'[d]) : d \in Askers'} = {WaitOf(req[d]) : d \in Askers} \cup {WaitOf(req'[b])}
  BY <1>1
<1> QED BY <1>2 DEF Waits, WaitOf

\* One page waits no longer; another may, for a call just like it.
LEMMA OneWaitsNoMore ==
  ASSUME NEW b \in Browser, inflight' = inflight, Asking(req[b]), ~Asking(req'[b]),
         \A d \in Browser : d # b => req'[d] = req[d]
  PROVE  Waits' \in {Waits, Waits \ {WaitOf(req[b])}} /\ WaitOf(req[b]) \in Waits
<1>1. Askers' = Askers \ {b} /\ b \in Askers /\ \A d \in Askers' : req'[d] = req[d]
  BY DEF Askers, Asking
<1> DEFINE rest == inflight \cup {WaitOf(req[d]) : d \in Askers'}
<1>2. {WaitOf(req'[d]) : d \in Askers'} = {WaitOf(req[d]) : d \in Askers'}
  BY <1>1
<1>3. Waits' = rest
  BY <1>2 DEF Waits, WaitOf
<1>4. {WaitOf(req[d]) : d \in Askers} = {WaitOf(req[d]) : d \in Askers'} \cup {WaitOf(req[b])}
  BY <1>1
<1>5. Waits = rest \cup {WaitOf(req[b])}
  BY <1>4 DEF Waits
<1> HIDE DEF rest
<1> QED BY <1>3, <1>5

\* As many pages wait as there are browsers, at most.
LEMMA FewWait ==
  ASSUME OthersOK
  PROVE  /\ Cardinality(inflight) < MaxInflight
              => Cardinality(Waits) < MaxInflight + Cardinality(Browser)
         /\ Askers # Browser => Cardinality(Waits) < MaxInflight + Cardinality(Browser)
<1> DEFINE pages == {WaitOf(req[b]) : b \in Askers}
<1>1. /\ IsFiniteSet(Browser) /\ Askers \subseteq Browser
      /\ IsFiniteSet(inflight) /\ Cardinality(inflight) <= MaxInflight
  BY WebAssumption DEF Askers, OthersOK
<1>2. /\ IsFiniteSet(Askers) /\ Cardinality(Askers) <= Cardinality(Browser)
      /\ Askers # Browser => Cardinality(Askers) # Cardinality(Browser)
  BY <1>1, FS_Subset
<1>3. IsFiniteSet(pages) /\ Cardinality(pages) <= Cardinality(Askers)
  <2> DEFINE f == [b \in Askers |-> WaitOf(req[b])]
  <2>1. f \in Surjection(Askers, pages)
    BY DEF Surjection
  <2> HIDE DEF f, pages
  <2> QED BY <1>2, <2>1, FS_Surjection
<1>4. /\ IsFiniteSet(inflight \cup pages)
      /\ Cardinality(inflight \cup pages)
           = Cardinality(inflight) + Cardinality(pages) - Cardinality(inflight \cap pages)
  BY <1>1, <1>3, FS_Union
<1>5. IsFiniteSet(inflight \cap pages)
  BY <1>1, FS_Subset
<1>6. /\ Cardinality(Browser) \in Nat /\ Cardinality(Askers) \in Nat
      /\ Cardinality(inflight) \in Nat /\ Cardinality(pages) \in Nat
      /\ Cardinality(inflight \cap pages) \in Nat
  BY <1>1, <1>2, <1>3, <1>5, FS_CardinalityType
<1>7. Waits = inflight \cup pages
  BY DEF Waits
<1> HIDE DEF pages
<1> QED BY <1>1, <1>2, <1>3, <1>4, <1>6, <1>7, AccessAssumption

\* The routes are the same there: whoever had waited waits no longer.
LEMMA SameWithBody ==
  ASSUME NEW q, WithBody(q), Waits' \in {Waits, Waits \ {q}}
  PROVE  T!WithBody(q)
<1>1. ASSUME NEW s \in Sid, NEW row \in SessionRow, PatchSession(q, s, row)
      PROVE  T!PatchSession(q, s, row)
  BY <1>1 DEF PatchSession, T!PatchSession, T!Departs, WriteAuditLog, T!WriteAuditLog, audit, T!audit
<1>2. ASSUME NEW s \in Sid, NEW u \in UserId, Grant(q, s, u)
      PROVE  T!Grant(q, s, u)
  BY <1>2 DEF Grant, T!Grant, T!Departs, WriteAuditLog, T!WriteAuditLog, audit, T!audit, Exists, T!Exists
<1>3. ASSUME NEW e \in Email, NEW role \in Role, CreateUser(q, e, role)
      PROVE  T!CreateUser(q, e, role)
  <2>1. ~T!EmailTaken(e)
    BY <1>3 DEF CreateUser, EmailTaken, T!EmailTaken, T!UserId, UserId, Exists, T!Exists
  <2> QED BY <1>3, <2>1 DEF CreateUser, T!CreateUser, T!Departs, WriteAuditLog, T!WriteAuditLog, audit, T!audit
<1>4. ASSUME NEW u \in UserId, NEW role \in Role, PatchUser(q, u, role)
      PROVE  T!PatchUser(q, u, role)
  BY <1>4 DEF PatchUser, T!PatchUser, T!Departs, WriteAuditLog, T!WriteAuditLog, audit, T!audit, Exists, T!Exists
<1>5. ASSUME NEW k \in Code, NEW row \in CodeRow, CreateCode(q, k, row)
      PROVE  T!CreateCode(q, k, row)
  BY <1>5 DEF CreateCode, T!CreateCode, T!Departs, WriteAuditLog, T!WriteAuditLog, audit, T!audit
<1>6. Sid = T!Sid /\ SessionRow = T!SessionRow /\ UserId = T!UserId /\ Role = T!Role /\ CodeRow = T!CodeRow
  BY DEF Sid, T!Sid, SessionRow, T!SessionRow, UserId, T!UserId, Role, T!Role, CodeRow, T!CodeRow
<1>7. \/ \E s \in Sid, row \in SessionRow : PatchSession(q, s, row)
      \/ \E s \in Sid, u \in UserId : Grant(q, s, u)
      \/ \E e \in Email, role \in Role : CreateUser(q, e, role)
      \/ \E u \in UserId, role \in Role : PatchUser(q, u, role)
      \/ \E k \in Code, row \in CodeRow : CreateCode(q, k, row)
  BY DEF WithBody
<1>8. \/ \E s \in Sid, row \in SessionRow : T!PatchSession(q, s, row)
      \/ \E s \in Sid, u \in UserId : T!Grant(q, s, u)
      \/ \E e \in Email, role \in Role : T!CreateUser(q, e, role)
      \/ \E u \in UserId, role \in Role : T!PatchUser(q, u, role)
      \/ \E k \in Code, row \in CodeRow : T!CreateCode(q, k, row)
  BY <1>1, <1>2, <1>3, <1>4, <1>5, <1>7
<1> QED BY <1>6, <1>8 DEF T!WithBody

LEMMA SameRedeem ==
  ASSUME NEW q, NEW k, Redeem(q, k), Waits' \in {Waits, Waits \ {q}}
  PROVE  T!Redeem(q, k)
BY DEF Redeem, T!Redeem, T!Departs, Expired, T!Expired, Exists, T!Exists, audit, T!audit

LEMMA SameWithoutBody ==
  ASSUME NEW u, WithoutBody(u), Waits' = Waits
  PROVE  T!WithoutBody(u)
<1>1. ASSUME NEW s \in Sid, DeleteSession(u, s) PROVE T!DeleteSession(u, s)
  BY <1>1 DEF DeleteSession, T!DeleteSession, WithoutSession, T!WithoutSession, WriteAuditLog, T!WriteAuditLog,
              audit, T!audit
<1>2. ASSUME NEW s \in Sid, NEW v \in UserId, Revoke(u, s, v) PROVE T!Revoke(u, s, v)
  BY <1>2 DEF Revoke, T!Revoke, WriteAuditLog, T!WriteAuditLog, audit, T!audit
<1>3. ASSUME NEW v \in UserId, DeleteUser(u, v) PROVE T!DeleteUser(u, v)
  BY <1>3 DEF DeleteUser, T!DeleteUser, WithoutUser, T!WithoutUser, MayDelete, T!MayDelete, Exists, T!Exists,
              WriteAuditLog, T!WriteAuditLog, audit, T!audit
<1>4. ASSUME NEW k \in Code, DeleteCode(u, k) PROVE T!DeleteCode(u, k)
  BY <1>4 DEF DeleteCode, T!DeleteCode, WithoutCode, T!WithoutCode, WriteAuditLog, T!WriteAuditLog, audit, T!audit
<1>5. Sid = T!Sid /\ UserId = T!UserId
  BY DEF Sid, T!Sid, UserId, T!UserId
<1>6. \/ \E s \in Sid : DeleteSession(u, s)
      \/ \E s \in Sid, v \in UserId : Revoke(u, s, v)
      \/ \E v \in UserId : DeleteUser(u, v)
      \/ \E k \in Code : DeleteCode(u, k)
  BY DEF WithoutBody
<1>7. \/ \E s \in Sid : T!DeleteSession(u, s)
      \/ \E s \in Sid, v \in UserId : T!Revoke(u, s, v)
      \/ \E v \in UserId : T!DeleteUser(u, v)
      \/ \E k \in Code : T!DeleteCode(u, k)
  BY <1>1, <1>2, <1>3, <1>4, <1>6
<1> QED BY <1>5, <1>7 DEF T!WithoutBody

LEMMA SameOthers ==
  ASSUME Waits' = Waits
  PROVE  /\ StartSession => T!StartSession
         /\ \A e \in Email : SignUp(e) => T!SignUp(e)
         /\ Tick => T!Tick
         /\ UNCHANGED <<tables, audit, now>> => UNCHANGED T!vars
<1>1. StartSession => T!StartSession
  BY DEF StartSession, T!StartSession, Sid, T!Sid, NewSession, T!NewSession, audit, T!audit
<1>2. ASSUME NEW e \in Email, SignUp(e) PROVE T!SignUp(e)
  <2>1. ~T!EmailTaken(e)
    BY <1>2 DEF SignUp, EmailTaken, T!EmailTaken, T!UserId, UserId, Exists, T!Exists
  <2> QED BY <1>2, <2>1 DEF SignUp, T!SignUp
<1>3. Tick => T!Tick
  BY DEF Tick, T!Tick, tables, T!tables, audit, T!audit
<1>4. UNCHANGED <<tables, audit, now>> => UNCHANGED T!vars
  BY DEF tables, T!tables, audit, T!audit, T!vars
<1> QED BY <1>1, <1>2, <1>3, <1>4

\* What a step of the site is there.
StepThere ==
  \/ T!AdminWrite
  \/ \E q \in Waits, k \in Code : q \in Request /\ Redeem(q, k) /\ T!Redeem(q, k)
  \/ (StartSession \/ (\E e \in Email : SignUp(e)) \/ Tick) /\ Waits' = Waits
  \/ /\ \/ \E u \in UserId, scope \in {"admin", "user"} : T!Authenticate(u, scope)
        \/ \E q \in Waits : T!Refuse(q)
        \/ T!Interrupt
     /\ UNCHANGED <<tables, now>>
  \/ UNCHANGED <<tables, audit, now>> /\ Waits' = Waits

LEMMA SameCardinality ==
  ASSUME NEW S
  PROVE  T!Cardinality(S) = Cardinality(S)
BY DEF T!Cardinality, Cardinality

\* An admin who is let in, or others of theirs, when there is room.
LEMMA AuthenticatedThere ==
  ASSUME NEW u \in Person, NEW scope \in {"admin", "user"}, Exists(u),
         scope = "admin" => users[u] = "admin",
         Cardinality(Waits) < MaxInflight + Cardinality(Browser),
         Waits' = Waits \cup {[user |-> u, scope |-> scope]}, UNCHANGED <<tables, audit, now>>
  PROVE  StepThere
<1>1. UNCHANGED <<T!tables, T!audit, now>>
  BY DEF tables, T!tables, audit, T!audit
<1>2. T!Exists(u) /\ ~u.pending
  BY DEF Exists, T!Exists, Person
<1>3. T!Authenticate(u, scope)
  BY <1>1, <1>2, SameCardinality DEF T!Authenticate
<1> QED BY <1>3 DEF StepThere, Person, tables

LEMMA CallsThere ==
  ASSUME SiteInv, NEW b \in Browser, req[b] # Nobody, req[b] \in ReqRow, NEW c, CallOK(c),
         Asking(req[b]) => /\ HasBody(c)
                           /\ WaitOf(req[b]) = [user |-> req[b].asker, scope |-> ScopeOf(c)],
         \A d \in Browser : d # b => req'[d] = req[d],
         \/ /\ LetIn(b, c) /\ Asking(req'[b])
            /\ WaitOf(req'[b]) = [user |-> login[b], scope |-> ScopeOf(c)]
         \/ ~Asking(req'[b]) /\ (Granted(b, c) \/ UNCHANGED apiVars)
  PROVE  StepThere
<1>0. /\ BrowserInv /\ AccessInv /\ OthersOK /\ req[b] # Nobody
      /\ ScopeOf(c) \in {"admin", "user"}
      /\ UNCHANGED apiVars => UNCHANGED <<tables, audit, now>> /\ inflight' = inflight
  <2>1. UNCHANGED apiVars => UNCHANGED <<tables, audit, now>> /\ inflight' = inflight
    BY DEF apiVars, vars, tables, audit
  <2> QED BY <2>1 DEF SiteInv, ScopeOf
<1>1. CASE LetIn(b, c) /\ Asking(req'[b])
           /\ WaitOf(req'[b]) = [user |-> login[b], scope |-> ScopeOf(c)]
  <2>1. /\ req[b].asker = Nobody /\ Authorized(login[b], c) /\ login[b] \in Person
        /\ UNCHANGED apiVars
    BY <1>0, <1>1, LetInFacts
  <2>2. ~Asking(req[b]) /\ Askers # Browser
    BY <2>1 DEF Asking, Askers
  <2>3. Cardinality(Waits) < MaxInflight + Cardinality(Browser)
    BY <1>0, <2>2, FewWait
  <2>4. Waits' = Waits \cup {[user |-> login[b], scope |-> ScopeOf(c)]}
    BY <1>0, <1>1, <2>1, <2>2, OneMoreWaits
  <2> QED BY <1>0, <2>1, <2>3, <2>4, AuthenticatedThere DEF Authorized
<1>2. ASSUME ~Asking(req'[b]), inflight' = inflight
      PROVE  /\ ~Asking(req[b]) => Waits' = Waits
             /\ Asking(req[b]) => /\ Waits' \in {Waits, Waits \ {WaitOf(req[b])}}
                                  /\ WaitOf(req[b]) \in Waits
  <2>1. ~Asking(req[b]) => Waits' = Waits
    BY <1>2, SameWaits
  <2> QED BY <1>2, <2>1, OneWaitsNoMore
<1>3. CASE ~Asking(req'[b]) /\ UNCHANGED apiVars
  <2>1. CASE ~Asking(req[b])
    BY <1>0, <1>2, <1>3, <2>1 DEF StepThere
  <2>2. CASE Asking(req[b])
    <3>1. T!Refuse(WaitOf(req[b])) /\ WaitOf(req[b]) \in Waits
      BY <1>0, <1>2, <1>3, <2>2 DEF T!Refuse, T!Departs, tables, T!tables, audit, T!audit
    <3> QED BY <1>0, <1>3, <3>1 DEF StepThere
  <2> QED BY <2>1, <2>2
<1>4. CASE ~Asking(req'[b]) /\ Granted(b, c)
  <2> DEFINE u == Asker(b, c)
             q == [user |-> u, scope |-> ScopeOf(c)]
  <2>1. u # Nobody /\ Do(u, c) /\ inflight' = inflight
    BY <1>4 DEF Granted, Do
  <2>2. /\ u \in Person
        /\ HasBody(c) => u = req[b].asker
        /\ ~HasBody(c) => u = login[b] /\ Admits(b, c)
    BY <1>0, <2>1, AskerFacts
  <2> HIDE DEF u
  <2>3. u \in UserId /\ q \in Request
    BY <1>0, <2>2 DEF Person, Request
  <2>4. \/ HasBody(c) /\ c.op = "join" /\ Redeem(q, c.code) /\ c.code \in Code
        \/ HasBody(c) /\ c.op # "join" /\ WithBody(q)
        \/ ~HasBody(c) /\ ScopeOf(c) = "admin" /\ WithoutBody(u)
        \/ ~HasBody(c) /\ UNCHANGED apiVars
    BY <1>0, <2>1, <2>3, DoIsARoute
  <2>5. CASE HasBody(c)
    <3>1. Asking(req[b]) /\ WaitOf(req[b]) = q
      BY <1>0, <2>1, <2>2, <2>5 DEF Asking
    <3>2. q \in Waits /\ Waits' \in {Waits, Waits \ {q}}
      BY <1>2, <1>4, <2>1, <3>1
    <3> HIDE DEF q
    <3>3. CASE Redeem(q, c.code) /\ c.code \in Code
      BY <2>3, <3>2, <3>3, SameRedeem DEF StepThere
    <3>4. CASE WithBody(q)
      <4>1. T!WithBody(q)
        BY <3>2, <3>4, SameWithBody
      <4> QED BY <3>2, <4>1 DEF StepThere, T!AdminWrite
    <3> QED BY <2>4, <2>5, <3>3, <3>4 DEF q
  <2>6. CASE ~HasBody(c)
    <3>1. Waits' = Waits
      BY <1>2, <1>4, <2>1, <2>6
    <3>2. CASE ScopeOf(c) = "admin" /\ WithoutBody(u)
      <4>1. T!WithoutBody(u)
        BY <3>1, <3>2, SameWithoutBody
      <4>2. u \in T!Admins
        BY <2>2, <2>3, <2>6, <3>2 DEF Admits, Authorized, Person, UserId, T!UserId, T!Admins
      <4> QED BY <4>1, <4>2 DEF StepThere, T!AdminWrite
    <3>3. CASE UNCHANGED apiVars
      BY <1>0, <3>1, <3>3 DEF StepThere
    <3> QED BY <2>4, <2>6, <3>2, <3>3
  <2> QED BY <2>5, <2>6
<1> QED BY <1>1, <1>3, <1>4

LEMMA CallThere ==
  ASSUME SiteInv, NEW b \in Browser, Call(b)
  PROVE  StepThere
<1> DEFINE c == Head(req[b].left)
<1>1. BrowserInv /\ req \in [Browser -> ReqRow \cup {Nobody}]
  BY DEF SiteInv, BrowserInv, BrowserTypes
<1>2. /\ req[b] # Nobody /\ req[b] \in ReqRow /\ RowOK(req[b], pending[b])
      /\ req[b].step = "calls" /\ CallOK(c)
      /\ Granted(b, c) \/ UNCHANGED apiVars
  BY <1>1, AtFacts, WhatCallsDo DEF Call, At
<1>3. /\ Asking(req[b]) => HasBody(c)
      /\ WaitOf(req[b]) = [user |-> req[b].asker, scope |-> ScopeOf(c)]
  BY <1>2 DEF RowOK, Asking, WaitOf
<1>4. CASE LetIn(b, c)
  <2> DEFINE q == [req[b] EXCEPT !.asker = login[b]]
  <2>1. Goes(b, q) /\ UNCHANGED apiVars
    BY <1>1, <1>4, LetInFacts
  <2>2. q.step = "calls" /\ q.left = req[b].left /\ q.asker = login[b]
    BY <1>2 DEF ReqRow
  <2>3. req'[b] = q /\ \A d \in Browser : d # b => req'[d] = req[d]
    BY <1>1, <2>1 DEF Goes
  <2> HIDE DEF q
  <2>4. WaitOf(req'[b]) = [user |-> login[b], scope |-> ScopeOf(c)]
    BY <2>2, <2>3 DEF WaitOf
  <2> QED BY <1>2, <1>3, <1>4, <2>1, <2>3, <2>4, CallsThere
<1>5. CASE ~LetIn(b, c)
  <2>1. PICK left, shows, to : Goes(b, CallLeaves(b, left, shows, to))
    BY <1>1, <1>5, CallEnds
  <2> DEFINE q == CallLeaves(b, left, shows, to)
  <2>2. q.asker = Nobody
    BY <1>2 DEF CallLeaves, ReqRow
  <2>3. req'[b] = q /\ \A d \in Browser : d # b => req'[d] = req[d]
    BY <1>1, <2>1 DEF Goes
  <2> HIDE DEF q
  <2>4. ~Asking(req'[b])
    BY <2>2, <2>3 DEF Asking
  <2> QED BY <1>2, <1>3, <2>3, <2>4, CallsThere
<1> QED BY <1>4, <1>5

LEMMA DeferredThere ==
  ASSUME SiteInv, NEW b \in Browser, Deferred(b)
  PROVE  StepThere
<1> DEFINE c == DeferredJoin(b)
<1>1. BrowserInv /\ req \in [Browser -> ReqRow \cup {Nobody}]
  BY DEF SiteInv, BrowserInv, BrowserTypes
<1>2. /\ req[b] # Nobody /\ req[b] \in ReqRow /\ RowOK(req[b], pending[b])
      /\ req[b].step = "deferred"
  BY <1>1, AtFacts DEF Deferred, At
<1>3. HasBody(c) /\ WaitOf(req[b]) = [user |-> req[b].asker, scope |-> ScopeOf(c)]
  BY <1>2 DEF HasBody, DeferredJoin, ScopeOf, WaitOf
<1>4. CASE Redeems(b)
  <2>1. CallOK(c) /\ (Granted(b, c) \/ UNCHANGED apiVars)
    BY <1>1, <1>4, DeferredCall, WhatCallsDo DEF Deferred
  <2>2. CASE LetIn(b, c)
    <3> DEFINE q == [req[b] EXCEPT !.asker = login[b]]
    <3>1. Goes(b, q) /\ UNCHANGED apiVars
      BY <1>1, <2>2, LetInFacts
    <3>2. q.step = "deferred" /\ q.asker = login[b]
      BY <1>2 DEF ReqRow
    <3>3. req'[b] = q /\ \A d \in Browser : d # b => req'[d] = req[d]
      BY <1>1, <3>1 DEF Goes
    <3> HIDE DEF q
    <3>4. WaitOf(req'[b]) = [user |-> login[b], scope |-> ScopeOf(c)]
      BY <3>2, <3>3 DEF WaitOf, ScopeOf, DeferredJoin
    <3> QED BY <1>2, <1>3, <2>1, <2>2, <3>1, <3>3, <3>4, CallsThere
  <2>3. ASSUME NEW tried, Goes(b, [req[b] EXCEPT !.step = "route", !.tried = tried, !.sets = "drop",
                                                 !.asker = Nobody])
        PROVE  StepThere
    <3> DEFINE q == [req[b] EXCEPT !.step = "route", !.tried = tried, !.sets = "drop", !.asker = Nobody]
    <3>1. q.asker = Nobody
      BY <1>2 DEF ReqRow
    <3>2. req'[b] = q /\ \A d \in Browser : d # b => req'[d] = req[d]
      BY <1>1, <2>3 DEF Goes
    <3> HIDE DEF q
    <3>3. ~Asking(req'[b])
      BY <3>1, <3>2 DEF Asking
    <3> QED BY <1>2, <1>3, <2>1, <3>2, <3>3, CallsThere
  <2> QED BY <1>2, <1>4, <2>2, <2>3, DeferredEnds
<1>5. CASE ~Redeems(b)
  <2>1. Goes(b, [req[b] EXCEPT !.step = "route"]) /\ UNCHANGED apiVars
    BY <1>2, <1>5, DeferredEnds
  <2>2. ~Asking(req[b])
    BY <1>2, <1>5 DEF RowOK, Redeems, Asking
  <2>3. ~Asking(req'[b]) /\ \A d \in Browser : d # b => req'[d] = req[d]
    <3> DEFINE q == [req[b] EXCEPT !.step = "route"]
    <3>1. q.asker = req[b].asker
      BY <1>2 DEF ReqRow
    <3>2. req'[b] = q /\ \A d \in Browser : d # b => req'[d] = req[d]
      BY <1>1, <2>1 DEF Goes
    <3> HIDE DEF q
    <3> QED BY <1>2, <2>2, <3>1, <3>2 DEF Asking
  <2>4. UNCHANGED <<tables, audit, now>> /\ inflight' = inflight
    BY <2>1 DEF apiVars, vars, tables, audit
  <2> QED BY <2>2, <2>3, <2>4, SameWaits DEF StepThere
<1> QED BY <1>4, <1>5

\* Nor does anybody wait when the server is dead.
LEMMA DeathEndsWaits ==
  ASSUME BrowserInv, ServerDies, NEW b \in Browser
  PROVE  ~Asking(req'[b])
<1>1. req[b] # Nobody => req[b] \in ReqRow
  BY DEF BrowserInv, BrowserTypes
<1>2. \/ req'[b] = Nobody
      \/ req[b] # Nobody /\ req'[b] = IF req[b].asker # Nobody THEN Throws(req[b]) ELSE req[b]
  BY DEF ServerDies
<1>3. req[b] # Nobody => Throws(req[b]).asker = Nobody
  BY <1>1 DEF Throws, ReqRow
<1> QED BY <1>2, <1>3 DEF Asking

\* At every other step but a call nobody waits before or after.
LEMMA NobodyWaits ==
  ASSUME SiteInv, SiteNext, ~ServerDies, \A b \in Browser : ~Call(b) /\ ~Deferred(b)
  PROVE  \A b \in Browser : req'[b] = req[b] \/ (~Asking(req[b]) /\ ~Asking(req'[b]))
<1> SUFFICES ASSUME NEW b \in Browser, req'[b] # req[b]
             PROVE  ~Asking(req[b]) /\ ~Asking(req'[b])
  OBVIOUS
<1>1. /\ BrowserInv /\ req \in [Browser -> ReqRow \cup {Nobody}]
      /\ req[b] # Nobody => req[b] \in ReqRow /\ RowOK(req[b], pending[b])
  BY DEF SiteInv, BrowserInv, BrowserTypes, RequestsOK
<1>2. ASSUME NEW d \in Browser, NEW r, Goes(d, r) PROVE d = b /\ req'[b] = r
  BY <1>1, <1>2 DEF Goes
<1>3. ASSUME NEW d \in Browser, NEW r, Goes(d, r), ~Asking(req[d]), ~Asking(r)
      PROVE  ~Asking(req[b]) /\ ~Asking(req'[b])
  BY <1>2, <1>3
<1>4. ASSUME NEW d \in Browser, BrowserStep(d) PROVE ~Asking(req[b]) /\ ~Asking(req'[b])
  <2>1. req' = req \/ \E form, step : Send(d, form, step)
    BY <1>4 DEF BrowserStep, ToggleRow, ToggleAll, Visit, GoToLogin, Callback, Logout
  <2>2. PICK form, step : Send(d, form, step)
    BY <2>1
  <2> DEFINE r == [form |-> form, step |-> step, user |-> Nobody, asked |-> 0,
                   left |-> <<>>, asker |-> Nobody,
                   join |-> IF pending[d] = Nobody THEN Nobody ELSE pending[d].code,
                   tried |-> "no", sets |-> "keep", rows |-> {}, to |-> "page"]
  <2>3. Goes(d, r) /\ req[d] = Nobody /\ r.asker = Nobody
    BY <2>2 DEF Send
  <2> HIDE DEF r
  <2> QED BY <1>3, <2>3 DEF Asking
<1>5. ASSUME NEW d \in Browser, NEW step \in Step \ {"deferred", "calls"}, At(d, step)
      PROVE  ~Asking(req[d]) /\ req[d] \in ReqRow /\ req[d].asker = Nobody
  BY <1>1, <1>5, AtFacts DEF RowOK, Asking
<1>6. ASSUME NEW d \in Browser, Mount(d) PROVE ~Asking(req[b]) /\ ~Asking(req'[b])
  <2>1. At(d, "mount") /\ d = b
    BY <1>2, <1>6 DEF Mount
  <2>2. ~Asking(req[b]) /\ req[b] \in ReqRow /\ req[b].asker = Nobody
    BY <1>5, <2>1 DEF Step
  <2>3. req'[b] \in {[req[b] EXCEPT !.step = "me"], [req[b] EXCEPT !.step = "answer", !.to = "placeholder"]}
    BY <1>2, <1>6, <2>1 DEF Mount
  <2>4. req'[b].asker = Nobody
    BY <2>2, <2>3 DEF ReqRow
  <2> QED BY <2>2, <2>4 DEF Asking
<1>7. ASSUME NEW d \in Browser, Me(d) \/ MeAgain(d) PROVE ~Asking(req[b]) /\ ~Asking(req'[b])
  <2>1. At(d, "me") /\ d = b
    BY <1>2, <1>7 DEF Me, MeAgain
  <2>2. ~Asking(req[b]) /\ req[b] \in ReqRow /\ req[b].asker = Nobody
    BY <1>5, <2>1 DEF Step
  <2>3. \/ \E user, n : req'[b] = [req[b] EXCEPT !.user = user, !.step = "deferred", !.asked = n]
        \/ req'[b] = [req[b] EXCEPT !.asked = @ + 1]
    BY <1>2, <1>7, <2>1 DEF Me, MeAgain
  <2>4. req'[b].asker = Nobody
    BY <2>2, <2>3 DEF ReqRow
  <2> QED BY <2>2, <2>4 DEF Asking
<1>8. ASSUME NEW d \in Browser, Route(d) PROVE ~Asking(req[b]) /\ ~Asking(req'[b])
  <2>1. At(d, "route") /\ d = b
    BY <1>2, <1>8 DEF Route
  <2>2. ~Asking(req[b]) /\ req[b] \in ReqRow /\ req[b].asker = Nobody
    BY <1>5, <2>1 DEF Step
  <2>3. \/ \E left : req'[b] = [req[b] EXCEPT !.step = "calls", !.left = left]
        \/ \E to, sets : req'[b] = [req[b] EXCEPT !.step = "answer", !.to = to, !.sets = sets]
    <3> DEFINE sets == IF Gate(b) = "login" /\ req[b].form.kind = "link" THEN "set" ELSE req[b].sets
    <3>1. \/ Goes(b, [req[b] EXCEPT !.step = "calls", !.left = CallsOf(b)])
          \/ Goes(b, [req[b] EXCEPT !.step = "answer", !.to = Gate(b), !.sets = sets])
      BY <1>8, <2>1 DEF Route
    <3> HIDE DEF sets
    <3>2. \/ req'[b] = [req[b] EXCEPT !.step = "calls", !.left = CallsOf(b)]
          \/ req'[b] = [req[b] EXCEPT !.step = "answer", !.to = Gate(b), !.sets = sets]
      BY <1>1, <3>1 DEF Goes
    <3> QED BY <3>2
  <2>4. req'[b].asker = Nobody
    BY <2>2, <2>3 DEF ReqRow
  <2> QED BY <2>2, <2>4 DEF Asking
<1>9. ASSUME NEW d \in Browser, Answer(d) \/ AnswerLost(d) PROVE ~Asking(req[b]) /\ ~Asking(req'[b])
  <2>1. At(d, "answer") /\ Goes(d, Nobody)
    BY <1>9 DEF Answer, AnswerLost
  <2>2. ~Asking(req[d])
    BY <1>5, <2>1 DEF Step
  <2> QED BY <1>3, <2>1, <2>2 DEF Asking
<1>10. ASSUME NEW d \in Browser, LoginStep(d) PROVE ~Asking(req[b]) /\ ~Asking(req'[b])
  <2>1. (At(d, "discovery") \/ At(d, "awaits")) /\ d = b
    BY <1>2, <1>10 DEF LoginStep, AwaitDiscovery, Redirects, SignsIn
  <2>2. ~Asking(req[b]) /\ req[b] \in ReqRow /\ req[b].asker = Nobody
    BY <1>5, <2>1 DEF Step
  <2>3. req'[b] \in {[req[b] EXCEPT !.step = "answer", !.to = "refused"], [req[b] EXCEPT !.step = "awaits"],
                     [req[b] EXCEPT !.step = "answer", !.to = "provider"], [req[b] EXCEPT !.step = "answer"]}
    BY <1>2, <1>10, <2>1 DEF LoginStep, AwaitDiscovery, Redirects, SignsIn
  <2>4. req'[b].asker = Nobody
    BY <2>2, <2>3 DEF ReqRow
  <2> QED BY <2>2, <2>4 DEF Asking
<1>11. CASE FetchEnds
  <2>1. /\ b \in Waiting /\ req[b].step = "awaits" /\ req[b] # Nobody
        /\ req'[b] = [req[b] EXCEPT !.step = "answer", !.to = "refused"]
    BY <1>11 DEF FetchEnds, Waiting
  <2>2. req[b].asker = Nobody /\ req'[b].asker = Nobody
    BY <1>1, <2>1 DEF RowOK, ReqRow
  <2> QED BY <2>2 DEF Asking
<1>12. CASE OtherClient \/ TimePasses \/ ProcessStep \/ \E d \in Browser : SessionEnds(d)
  BY <1>12 DEF OtherClient, TimePasses, ProcessStep, SessionEnds
<1> QED BY <1>4, <1>6, <1>7, <1>8, <1>9, <1>10, <1>11, <1>12 DEF SiteNext, PageStep

LEMMA SiteStepsThere ==
  ASSUME SiteInv, SiteNext
  PROVE  StepThere
<1>0. /\ BrowserInv /\ AccessInv /\ OthersOK
      /\ UNCHANGED apiVars => UNCHANGED <<tables, audit, now>> /\ inflight' = inflight
  <2>1. UNCHANGED apiVars => UNCHANGED <<tables, audit, now>> /\ inflight' = inflight
    BY DEF apiVars, vars, tables, audit
  <2> QED BY <2>1 DEF SiteInv
<1>1. CASE \E b \in Browser : Call(b) \/ Deferred(b)
  BY <1>1, CallThere, DeferredThere
<1>2. CASE ServerDies
  <2>1. Interrupt /\ \A b \in Browser : ~Asking(req'[b])
    BY <1>0, <1>2, DeathEndsWaits DEF ServerDies
  <2>2. Waits' = {}
    BY <2>1 DEF Waits, Askers, Interrupt
  <2>3. T!Interrupt /\ UNCHANGED <<tables, now>>
    BY <2>1, <2>2 DEF Interrupt, T!Interrupt, tables, T!tables, audit, T!audit
  <2> QED BY <2>3 DEF StepThere
<1> SUFFICES ASSUME ~ServerDies, \A b \in Browser : ~Call(b) /\ ~Deferred(b)
             PROVE  StepThere
  BY <1>1, <1>2
<1>3. /\ inflight' = inflight => Waits' = Waits
      /\ \A q : inflight' = inflight \cup {q} => Waits' = Waits \cup {q}
      /\ \A q \in inflight : inflight' \in {inflight, inflight \ {q}}
                               => Waits' \in {Waits, Waits \ {q}} /\ q \in Waits
  BY NobodyWaits, SameWaits
<1>4. CASE UNCHANGED apiVars
  BY <1>0, <1>3, <1>4 DEF StepThere
<1>5. ASSUME NEW b \in Browser, SignsIn(b), ~UNCHANGED apiVars PROVE StepThere
  <2>1. SignUp(req[b].form.email)
    BY <1>5 DEF SignsIn
  <2>2. req[b].form \in AnyForm /\ req[b].form.kind = "callback"
    BY <1>0, <1>5, AtFacts DEF SignsIn
  <2>3. req[b].form.email \in Email
    BY <2>2 DEF AnyForm, PageForm
  <2>4. inflight' = inflight
    BY <2>1 DEF SignUp
  <2> QED BY <1>3, <2>1, <2>3, <2>4 DEF StepThere
<1>6. CASE OtherClient
  <2>1. ASSUME NEW a \in Admins, WithoutBody(a) PROVE StepThere
    <3>1. Waits' = Waits
      BY <1>3, <2>1 DEF WithoutBody, DeleteSession, Revoke, DeleteUser, DeleteCode
    <3>2. T!WithoutBody(a) /\ a \in T!Admins
      BY <2>1, <3>1, SameWithoutBody DEF Admins, T!Admins, UserId, T!UserId
    <3> QED BY <3>2 DEF StepThere, T!AdminWrite
  <2>2. ASSUME NEW a \in Admins, Authenticate(a, "admin") PROVE StepThere
    <3>1. /\ a \in Person /\ Exists(a) /\ users[a] = "admin"
          /\ Cardinality(inflight) < MaxInflight
          /\ inflight' = inflight \cup {[user |-> a, scope |-> "admin"]}
          /\ UNCHANGED <<tables, audit, now>>
      BY <2>2 DEF Authenticate, Admins, Person
    <3> QED BY <1>0, <1>3, <3>1, FewWait, AuthenticatedThere
  <2>3. ASSUME NEW q \in inflight, Refuse(q) PROVE StepThere
    <3>1. Waits' \in {Waits, Waits \ {q}} /\ q \in Waits
      BY <1>3, <2>3 DEF Refuse, Departs
    <3>2. T!Refuse(q) /\ UNCHANGED <<tables, now>>
      BY <2>3, <3>1 DEF Refuse, T!Refuse, T!Departs, tables, T!tables, audit, T!audit
    <3> QED BY <3>1, <3>2 DEF StepThere
  <2>4. ASSUME NEW q \in inflight, NEW u \in UserId, PatchUser(q, u, "viewer") PROVE StepThere
    <3>1. Waits' \in {Waits, Waits \ {q}} /\ q \in Waits
      BY <1>3, <2>4 DEF PatchUser, Departs
    <3>2. WithBody(q)
      BY <2>4 DEF WithBody, Role
    <3>3. T!WithBody(q)
      BY <3>1, <3>2, SameWithBody
    <3> QED BY <3>1, <3>3 DEF StepThere, T!AdminWrite
  <2>5. CASE StartSession
    <3>1. inflight' = inflight
      BY <2>5 DEF StartSession
    <3> QED BY <1>3, <2>5, <3>1 DEF StepThere
  <2> QED BY <1>6, <2>1, <2>2, <2>3, <2>4, <2>5 DEF OtherClient
<1>7. CASE TimePasses
  BY <1>3, <1>7 DEF TimePasses, Tick, StepThere
<1>8. ASSUME NEW b \in Browser,
             \/ BrowserStep(b) \/ Mount(b) \/ Me(b) \/ MeAgain(b) \/ Route(b) \/ Answer(b)
             \/ AwaitDiscovery(b) \/ Redirects(b) \/ AnswerLost(b) \/ SessionEnds(b)
      PROVE  UNCHANGED apiVars
  BY <1>8 DEF BrowserStep, ToggleRow, ToggleAll, Visit, GoToLogin, Callback, Send, Logout, Mount,
              Me, MeAgain, Route, Answer, AwaitDiscovery, Redirects, AnswerLost, SessionEnds
<1>9. FetchEnds \/ ProcessStep => UNCHANGED apiVars
  BY DEF FetchEnds, ProcessStep
<1> QED BY <1>4, <1>5, <1>6, <1>7, <1>8, <1>9 DEF SiteNext, PageStep, LoginStep

\* Whatever the pages do, and whatever runs between their calls, what they do
\* to the tables is what clients of the API do: every page is one whose call is
\* authenticated, waits for its body while others run, and is then served or
\* refused, by Access, which has no page and no cookie.
THEOREM SiteImplementsTables == SiteSpec => T!Spec
<1>1. SiteInit => T!Init
  <2> SUFFICES ASSUME SiteInit PROVE T!Init
    OBVIOUS
  <2>1. Waits = {}
    BY DEF SiteInit, BrowserInit, Init, Waits, Askers, Asking
  <2> QED BY <2>1 DEF SiteInit, Init, T!Init, UserId, T!UserId, Sid, T!Sid
<1>2. SiteInv /\ [SiteNext]_siteVars => [T!Next]_T!vars
  <2>1. ASSUME SiteInv, SiteNext PROVE T!Next \/ UNCHANGED T!vars
    <3>1. StepThere
      BY <2>1, SiteStepsThere
    <3>2. UserId = T!UserId
      BY DEF UserId, T!UserId
    <3> QED BY <3>1, <3>2, SameOthers DEF StepThere, T!Next
  <2>2. ASSUME UNCHANGED siteVars PROVE UNCHANGED T!vars
    <3>1. req' = req /\ inflight' = inflight /\ UNCHANGED <<tables, audit, now>>
      BY <2>2 DEF siteVars, apiVars, vars, tables, audit
    <3> QED BY <3>1, SameWaits, SameOthers
  <2> QED BY <2>1, <2>2
<1> QED BY <1>1, <1>2, SiteInvariant, PTL DEF SiteSpec, T!Spec

\* Also through the pages, what is made under a key that was used before starts
\* without rights.
THEOREM RightsStartEmptyThere == SiteSpec => NothingInherited
<1>1. ASSUME SiteInv, [SiteNext]_siteVars
      PROVE  [/\ \A k \in Code : codes[k] = Absent /\ codes'[k] # Absent
                   => \A r \in redemptions' : r[1] # k
              /\ \A u \in UserId : users[u] = Absent /\ users'[u] # Absent
                   => /\ \A r \in redemptions' : r[2] # u
                      /\ \A g \in grants' : g[2] # u
              /\ \A s \in Sid : sessions[s] = Absent /\ sessions'[s] # Absent
                   => \A g \in grants' : g[1] # s]_vars
  <2>1. RowsNext \/ UNCHANGED <<tables, now>>
    BY <1>1, SiteTablesStep DEF SiteInv, siteVars, apiVars, vars
  <2>2. CASE UNCHANGED <<tables, now>>
    BY <2>2 DEF tables
  <2>3. CASE RowsNext
    BY <1>1, <2>3, KeysStartEmpty DEF SiteInv
  <2> QED BY <2>1, <2>2, <2>3
<1> QED BY <1>1, SiteInvariant, PTL DEF SiteSpec, NothingInherited

\* Nor do the pages let the admins delete each other: users/+page.svelte hides
\* the button, the route refuses.
THEOREM AnAdminStaysThere == SiteSpec => AdminsDeleteLeavesOne
<1>1. ASSUME SiteInv, [SiteNext]_siteVars
      PROVE  [Admins # {} /\ Admins' = {} => \A u \in UserId : Exists(u) => users'[u] # Absent]_vars
  <2>1. RowsNext \/ UNCHANGED <<tables, now>>
    BY <1>1, SiteTablesStep DEF SiteInv, siteVars, apiVars, vars
  <2>2. CASE UNCHANGED <<tables, now>>
    BY <2>2 DEF tables, Exists
  <2>3. CASE RowsNext
    BY <1>1, <2>3, DeleterStays DEF SiteInv
  <2> QED BY <2>1, <2>2, <2>3
<1> QED BY <1>1, SiteInvariant, PTL DEF SiteSpec, AdminsDeleteLeavesOne

\* A viewer of the pages begins to see a session only by the write of somebody
\* whom the API let in as an admin, for a call of a page or another, or by a
\* join the viewer was let in for: neither time, sign-ins, hooks nor somebody
\* else's join open one.
THEOREM SightIsGivenThere == SiteSpec => T!AccessIsGiven
<1> DEFINE Opens(u, s) == ~T!Sees(u, s) /\ users'[u] = "viewer" /\ T!Sees(u, s)'
           Given(u) == \/ T!AdminWrite
                       \/ \E q \in Waits, k \in Code : q.user = u /\ T!Redeem(q, k)
<1>1. \A u \in UserId, s \in Sid : Sees(u, s) = T!Sees(u, s)
  BY DEF Sees, T!Sees, CanView, T!CanView, Exists, T!Exists, RedeemedCodes, T!RedeemedCodes,
         Unexpired, T!Unexpired
<1>2. \A u \in UserId, s \in Sid : Sees(u, s)' = T!Sees(u, s)'
  BY DEF Sees, T!Sees, CanView, T!CanView, Exists, T!Exists, RedeemedCodes, T!RedeemedCodes,
         Unexpired, T!Unexpired
<1>3. ASSUME SiteInv, SiteNext, NEW u \in UserId, NEW s \in Sid, Opens(u, s), ~Given(u)
      PROVE  FALSE
  <2>1. AccessInv /\ ~Sees(u, s) /\ Sees(u, s)' /\ users'[u] = "viewer"
    BY <1>1, <1>2, <1>3 DEF SiteInv
  <2>2. \/ \E q \in Request, k \in Code : q.user # u /\ Redeem(q, k)
        \/ StartSession \/ (\E e \in Email : SignUp(e)) \/ Tick
        \/ UNCHANGED <<tables, now>>
    BY <1>3, SiteStepsThere DEF StepThere
  <2> QED BY <2>1, <2>2, SightNeedsAWrite
<1>4. SiteInv /\ [SiteNext]_siteVars
        => [\A u \in T!UserId, s \in T!Sid : Opens(u, s) => Given(u)]_T!vars
  <2>1. UNCHANGED siteVars => UNCHANGED T!vars
    <3>1. UNCHANGED siteVars => req' = req /\ inflight' = inflight /\ UNCHANGED <<tables, audit, now>>
      BY DEF siteVars, apiVars, vars, tables, audit
    <3> QED BY <3>1, SameWaits, SameOthers
  <2>2. UserId = T!UserId /\ Sid = T!Sid
    BY DEF UserId, T!UserId, Sid, T!Sid
  <2> QED BY <1>3, <2>1, <2>2
<1> QED BY <1>4, SiteInvariant, PTL DEF SiteSpec, T!AccessIsGiven

----------------------------------------------------------------------------
(* What a step of the site may never do *)

\* A step that moves both a request and the tables is a step of that request.
LEMMA WhoWrites ==
  ASSUME BrowserInv, SiteNext, NEW b \in Browser, req'[b] # req[b], tables' # tables
  PROVE  Deferred(b) \/ Call(b) \/ SignsIn(b)
<1>0. req \in [Browser -> ReqRow \cup {Nobody}]
  BY DEF BrowserInv, BrowserTypes
<1>1. ASSUME NEW d \in Browser, NEW r, Goes(d, r) PROVE d = b
  BY <1>0, <1>1 DEF Goes
<1>2. ASSUME NEW d \in Browser, Deferred(d) \/ Call(d) \/ SignsIn(d) PROVE d = b
  <2>1. \E r : Goes(d, r)
    BY <1>2 DEF Deferred, Call, SignsIn, LetIn
  <2> QED BY <2>1, <1>1
<1>3. UNCHANGED apiVars => FALSE
  BY DEF apiVars, vars
<1>5. ~OtherClient /\ ~TimePasses
  BY DEF OtherClient, TimePasses
<1>6. ~FetchEnds /\ ~ProcessStep /\ ~ServerDies
  BY <1>3 DEF FetchEnds, ProcessStep, ServerDies, Interrupt
<1>7. ASSUME NEW d \in Browser
      PROVE  ~BrowserStep(d)
  BY <1>3, <1>7 DEF BrowserStep, ToggleRow, ToggleAll, Visit, GoToLogin, Callback, Send, Logout
<1>8. ASSUME NEW d \in Browser
      PROVE  ~Mount(d) /\ ~Me(d) /\ ~MeAgain(d) /\ ~Route(d) /\ ~Answer(d)
  BY <1>3, <1>8 DEF Mount, Me, MeAgain, Route, Answer
<1>9. ASSUME NEW d \in Browser
      PROVE  ~AwaitDiscovery(d) /\ ~Redirects(d) /\ ~AnswerLost(d) /\ ~SessionEnds(d)
  BY <1>3, <1>9 DEF AwaitDiscovery, Redirects, AnswerLost, SessionEnds
<1>10. PICK d \in Browser : Deferred(d) \/ Call(d) \/ SignsIn(d)
  BY <1>5, <1>6, <1>7, <1>8, <1>9 DEF SiteNext, PageStep, LoginStep
<1> QED BY <1>2, <1>10

\* A request begins to wait only at its call, when that lets it in.
LEMMA WhoWaits ==
  ASSUME SiteInv, SiteNext, NEW b \in Browser, req'[b] # req[b], Asking(req'[b])
  PROVE  \/ Call(b) /\ LetIn(b, Head(req[b].left))
         \/ Deferred(b) /\ LetIn(b, DeferredJoin(b))
<1>0. BrowserInv /\ req \in [Browser -> ReqRow \cup {Nobody}]
  BY DEF SiteInv, BrowserInv, BrowserTypes
<1>1. ASSUME NEW d \in Browser, NEW r, Goes(d, r) PROVE d = b /\ req'[b] = r
  BY <1>0, <1>1 DEF Goes
<1>2. PICK d \in Browser : Call(d) \/ Deferred(d)
  BY <1>0, NobodyWaits, DeathEndsWaits
<1>3. d = b
  <2>1. \E r : Goes(d, r)
    BY <1>2 DEF Deferred, Call, LetIn
  <2> QED BY <2>1, <1>1
<1>4. ASSUME Call(b), ~LetIn(b, Head(req[b].left)) PROVE FALSE
  <2>1. PICK left, shows, to : Goes(b, CallLeaves(b, left, shows, to))
    BY <1>0, <1>4, CallEnds
  <2>2. req[b] \in ReqRow
    BY <1>0, <1>4, AtFacts DEF Call
  <2>3. CallLeaves(b, left, shows, to).asker = Nobody
    BY <2>2 DEF CallLeaves, ReqRow
  <2> QED BY <1>1, <2>1, <2>3 DEF Asking
<1>5. ASSUME Deferred(b), ~LetIn(b, DeferredJoin(b)) PROVE FALSE
  <2>1. req[b] \in ReqRow /\ RowOK(req[b], pending[b]) /\ req[b].step = "deferred"
    BY <1>0, <1>5, AtFacts DEF Deferred
  <2>2. CASE ~Redeems(b) /\ Goes(b, [req[b] EXCEPT !.step = "route"])
    <3> DEFINE q == [req[b] EXCEPT !.step = "route"]
    <3>1. req[b].asker = Nobody
      BY <2>1, <2>2 DEF RowOK, Redeems
    <3>2. q.asker = Nobody
      BY <2>1, <3>1 DEF ReqRow
    <3>3. req'[b] = q
      BY <1>1, <2>2
    <3> HIDE DEF q
    <3> QED BY <3>2, <3>3 DEF Asking
  <2>3. ASSUME NEW tried, Goes(b, [req[b] EXCEPT !.step = "route", !.tried = tried, !.sets = "drop",
                                                 !.asker = Nobody])
        PROVE  FALSE
    <3> DEFINE q == [req[b] EXCEPT !.step = "route", !.tried = tried, !.sets = "drop", !.asker = Nobody]
    <3>1. q.asker = Nobody
      BY <2>1 DEF ReqRow
    <3>2. req'[b] = q
      BY <1>1, <2>3
    <3> HIDE DEF q
    <3> QED BY <3>1, <3>2 DEF Asking
  <2> QED BY <1>5, <2>1, <2>2, <2>3, DeferredEnds
<1> QED BY <1>2, <1>3, <1>4, <1>5

\* A join leaves users, sessions, grants and codes as they are.
LEMMA WritesAreForAdmins ==
  ASSUME NEW u, NEW c, Do(u, c),
         <<users, sessions, grants, codes>>' # <<users, sessions, grants, codes>>
  PROVE  ScopeOf(c) = "admin"
<1>1. ASSUME UNCHANGED tables PROVE FALSE
  BY <1>1 DEF tables
<1>2. ASSUME NEW q, NEW k, Redeem(q, k) PROVE FALSE
  BY <1>2 DEF Redeem
<1>3. c.op \notin {"join", "see"}
  BY <1>1, <1>2 DEF Do
<1> QED BY <1>3 DEF ScopeOf

\* What a form changes it changes for somebody who is an admin at that call
\* or was one when the call was let in; who is none is not let in.
THEOREM AdminsWrite == SiteSpec => WritesByAdmins
<1> DEFINE forAdmins(b) == ScopeOf(Head(req[b].left)) = "admin"
           isAdmin(b)   == SignedIn(b) /\ users[login[b]] = "admin"
           writes       == <<users, sessions, grants, codes>>' # <<users, sessions, grants, codes>>
           waits(b)     == req'[b] # Nobody /\ req'[b].asker # Nobody
<1>1. ASSUME SiteInv, SiteNext, NEW b \in Browser,
             req[b] # Nobody, req[b].step = "calls", req'[b] # req[b], writes
      PROVE  isAdmin(b) \/ (forAdmins(b) /\ req[b].asker # Nobody)
  <2> DEFINE c == Head(req[b].left)
  <2>1. tables' # tables /\ ~UNCHANGED apiVars
    BY <1>1 DEF apiVars, vars, tables
  <2>2. BrowserInv /\ (Deferred(b) \/ Call(b) \/ SignsIn(b))
    BY <1>1, <2>1, WhoWrites DEF SiteInv
  <2>3. Call(b)
    BY <1>1, <2>2 DEF Deferred, SignsIn, At
  <2>4. Granted(b, c) /\ req[b] \in ReqRow
    BY <2>1, <2>2, <2>3, WhatCallsDo, AtFacts DEF Call
  <2>5. Asker(b, c) # Nobody /\ Do(Asker(b, c), c)
    BY <2>4 DEF Granted
  <2>6. ScopeOf(c) = "admin"
    BY <1>1, <2>5, WritesAreForAdmins
  <2>7. CASE HasBody(c)
    BY <2>2, <2>4, <2>5, <2>6, <2>7, AskerFacts
  <2>8. CASE ~HasBody(c)
    <3>1. Admits(b, c)
      BY <2>2, <2>4, <2>5, <2>8, AskerFacts
    <3> QED BY <2>6, <3>1 DEF Admits, Authorized
  <2> QED BY <2>7, <2>8
<1>2. ASSUME SiteInv, SiteNext, NEW b \in Browser,
             req[b] # Nobody, req[b].step = "calls", req'[b] # req[b], waits(b), forAdmins(b)
      PROVE  isAdmin(b) /\ req[b].asker = Nobody
  <2>1. \/ Call(b) /\ LetIn(b, Head(req[b].left))
        \/ Deferred(b) /\ LetIn(b, DeferredJoin(b))
    BY <1>2, WhoWaits DEF Asking
  <2>2. LetIn(b, Head(req[b].left))
    BY <1>2, <2>1 DEF Deferred, At
  <2> QED BY <1>2, <2>2, LetInFacts DEF SiteInv, Authorized
<1>3. SiteInv /\ [SiteNext]_siteVars
        => [\A b \in Browser :
              req[b] # Nobody /\ req[b].step = "calls" /\ req'[b] # req[b]
              => /\ writes => isAdmin(b) \/ (forAdmins(b) /\ req[b].asker # Nobody)
                 /\ waits(b) /\ forAdmins(b) => isAdmin(b) /\ req[b].asker = Nobody]_siteVars
  BY <1>1, <1>2
<1> QED BY <1>3, SiteInvariant, PTL DEF SiteSpec, WritesByAdmins

\* GET /login is refused only by the fetch it waits for: no rejected promise
\* outlives its fetch.
THEOREM FailuresAreForgotten == SiteSpec => FailureIsNotCached
<1> DEFINE Turns(b) == /\ req[b] # Nobody /\ req[b].form.kind = "login" /\ req[b].to # "refused"
                       /\ req'[b] # Nobody /\ req'[b].to = "refused"
<1>1. ASSUME SiteInv, SiteNext, NEW b \in Browser, Turns(b)
      PROVE  discovery = "pending" /\ discovery' # "pending"
  <2>0. /\ req \in [Browser -> ReqRow \cup {Nobody}] /\ discovery # "failed"
        /\ req[b] \in ReqRow
        /\ req[b].step \in {"discovery", "awaits", "answer"}
    BY <1>1 DEF SiteInv, BrowserInv, BrowserTypes, RequestsOK, RowOK
  <2>1. req'[b] # req[b]
    BY <1>1
  <2>2. ASSUME NEW d \in Browser, NEW r, Goes(d, r) PROVE d = b /\ req'[b] = r
    BY <2>0, <2>1, <2>2 DEF Goes
  <2>3. CASE FetchEnds
    <3>1. DiscoveryFails
      BY <2>1, <2>3 DEF FetchEnds
    <3> QED BY <3>1 DEF DiscoveryFails, AfterFailure
  <2>4. ~OtherClient /\ ~TimePasses /\ ~ProcessStep
    BY <2>1 DEF OtherClient, TimePasses, ProcessStep
  <2>5. ~ServerDies
    BY <1>1, <2>1 DEF ServerDies
  <2>6. ASSUME NEW d \in Browser, BrowserStep(d) PROVE FALSE
    <3>1. req' = req \/ (req[d] = Nobody /\ \E r : Goes(d, r))
      BY <2>6 DEF BrowserStep, ToggleRow, ToggleAll, Visit, GoToLogin, Callback, Send, Logout
    <3> QED BY <1>1, <2>1, <2>2, <3>1
  <2>7. ASSUME NEW d \in Browser, Answer(d) \/ AnswerLost(d) PROVE FALSE
    <3>1. Goes(d, Nobody)
      BY <2>7 DEF Answer, AnswerLost
    <3> QED BY <1>1, <2>2, <3>1
  <2>8. ASSUME NEW d \in Browser,
               Mount(d) \/ Me(d) \/ MeAgain(d) \/ Deferred(d) \/ Route(d) \/ Call(d)
        PROVE  FALSE
    <3>1. req[d].step \in {"mount", "me", "deferred", "route", "calls"}
      BY <2>8 DEF Mount, Me, MeAgain, Deferred, Route, Call, At
    <3>2. \E r : Goes(d, r)
      BY <2>8 DEF Mount, Me, MeAgain, Deferred, Route, Call, LetIn
    <3> QED BY <2>0, <2>2, <3>1, <3>2
  <2>9. ASSUME NEW d \in Browser, AwaitDiscovery(d) PROVE FALSE
    <3>1. Goes(d, [req[d] EXCEPT !.step = "awaits"])
      BY <2>0, <2>9 DEF AwaitDiscovery
    <3>2. req'[b].to = req[b].to
      BY <2>0, <2>2, <3>1 DEF ReqRow
    <3> QED BY <1>1, <3>2
  <2>10. ASSUME NEW d \in Browser, Redirects(d) PROVE FALSE
    <3>1. Goes(d, [req[d] EXCEPT !.step = "answer", !.to = "provider"])
      BY <2>10 DEF Redirects
    <3>2. req'[b].to = "provider"
      BY <2>0, <2>2, <3>1 DEF ReqRow
    <3> QED BY <1>1, <3>2
  <2>11. ASSUME NEW d \in Browser, SignsIn(d) PROVE FALSE
    <3>1. req[d].form.kind = "callback" /\ \E r : Goes(d, r)
      BY <2>11 DEF SignsIn
    <3> QED BY <1>1, <2>2, <3>1
  <2>12. ASSUME NEW d \in Browser, SessionEnds(d) PROVE FALSE
    BY <2>1, <2>12 DEF SessionEnds
  <2> QED BY <1>1, <2>3, <2>4, <2>5, <2>6, <2>7, <2>8, <2>9, <2>10, <2>11, <2>12
       DEF SiteNext, PageStep, LoginStep
<1>2. SiteInv /\ [SiteNext]_siteVars
        => [\A b \in Browser : Turns(b) => discovery = "pending" /\ discovery' # "pending"]_siteVars
  BY <1>1
<1> QED BY <1>2, SiteInvariant, PTL DEF SiteSpec, FailureIsNotCached

\* Only an answer and the end of its five minutes take a code away.
LEMMA WhoTakesTheCode ==
  ASSUME BrowserInv, SiteNext, NEW b \in Browser, pending'[b] # pending[b]
  PROVE  TimePasses \/ Answer(b)
<1>0. pending \in [Browser -> Cookie \cup {Nobody}]
  BY DEF BrowserInv, BrowserTypes
<1>1. ~OtherClient /\ ~FetchEnds /\ ~ProcessStep /\ ~ServerDies
  BY DEF OtherClient, FetchEnds, ProcessStep, ServerDies, browserVars
<1>2. ASSUME NEW d \in Browser PROVE ~BrowserStep(d)
  BY <1>2 DEF BrowserStep, ToggleRow, ToggleAll, Visit, GoToLogin, Callback, Send, Logout, browserVars
<1>3. ASSUME NEW d \in Browser
      PROVE  ~Mount(d) /\ ~Me(d) /\ ~MeAgain(d) /\ ~Deferred(d) /\ ~Route(d) /\ ~Call(d)
  BY <1>3 DEF Mount, Me, MeAgain, Deferred, Route, Call, browserVars
<1>4. ASSUME NEW d \in Browser
      PROVE  ~AwaitDiscovery(d) /\ ~Redirects(d) /\ ~SignsIn(d) /\ ~AnswerLost(d) /\ ~SessionEnds(d)
  BY <1>4 DEF AwaitDiscovery, Redirects, SignsIn, AnswerLost, SessionEnds, browserVars
<1>5. ASSUME NEW d \in Browser, Answer(d) PROVE d = b
  BY <1>0, <1>5 DEF Answer
<1> QED BY <1>1, <1>2, <1>3, <1>4, <1>5 DEF SiteNext, PageStep, LoginStep

\* A code that waits for its owner to sign in is given up only when its time
\* is over or it was tried for somebody.
THEOREM CodesWait == SiteSpec => JoinLinkKept
<1> DEFINE GivenUp(b) == \/ now' >= pending[b].until
                         \/ /\ req[b].join = pending[b].code
                            /\ req[b].user # Nobody
                            /\ req[b].tried # "no"
<1>1. ASSUME SiteInv, SiteNext, NEW b \in Browser, pending[b] # Nobody, pending'[b] = Nobody
      PROVE  GivenUp(b)
  <2>0. BrowserInv /\ now \in Nat /\ pending \in [Browser -> Cookie \cup {Nobody}]
    BY <1>1 DEF SiteInv, AccessInv, TablesOK, BrowserInv, BrowserTypes
  <2>1. TimePasses \/ Answer(b)
    BY <1>1, <2>0, WhoTakesTheCode
  <2>2. CASE TimePasses
    <3>1. ~(pending[b].until > now') /\ now' = now + 1
      BY <1>1, <2>2 DEF TimePasses, LivesOn, Tick
    <3>2. pending[b].until \in Nat
      BY <1>1, <2>0 DEF Cookie
    <3> QED BY <2>0, <3>1, <3>2
  <2>3. CASE Answer(b)
    <3>1. req[b] \in ReqRow /\ RowOK(req[b], pending[b]) /\ req[b].form \in AnyForm
      BY <2>0, <2>3, AtFacts DEF Answer
    <3>2. PendingAfter(b) = Nobody
      BY <1>1, <2>0, <2>3 DEF Answer
    <3>3. CASE req[b].sets = "keep"
      BY <1>1, <3>2, <3>3 DEF PendingAfter
    <3>4. CASE req[b].sets = "drop"
      BY <1>1, <3>1, <3>4 DEF RowOK
    <3>5. CASE req[b].sets = "set"
      <4>1. req[b].form.kind = "link"
        BY <3>1, <3>5 DEF RowOK
      <4>2. req[b].form.code \in Code
        BY <3>1, <4>1 DEF AnyForm, PageForm
      <4>3. now + PendingTTL \in Nat
        BY <2>0, WebAssumption
      <4>4. PendingAfter(b) = [code |-> req[b].form.code, until |-> now + PendingTTL]
        BY <3>5 DEF PendingAfter
      <4> QED BY <3>2, <4>2, <4>3, <4>4, WebAssumption
    <3> QED BY <3>1, <3>3, <3>4, <3>5 DEF ReqRow
  <2> QED BY <2>1, <2>2, <2>3
<1>2. SiteInv /\ [SiteNext]_siteVars
        => [\A b \in Browser : pending[b] # Nobody /\ pending'[b] = Nobody => GivenUp(b)]_siteVars
  BY <1>1
<1> QED BY <1>2, SiteInvariant, PTL DEF SiteSpec, JoinLinkKept

\* A deferred join that reaches the API and is answered makes a member of
\* whoever was let in, if the code is good and the person still there when the
\* body has come: no gate of the API is closed to it, since an auth session has
\* its user (SiteInv).
THEOREM DeferredJoinsLand == SiteSpec => DeferredJoinLands
<1> DEFINE Lands(b) == \/ req'[b].tried \in {"no", "lost"}
                       \/ codes[req[b].join] = Absent
                       \/ Expired(req[b].join)
                       \/ req[b].asker = Nobody /\ ~SignedIn(b)
                       \/ req[b].asker # Nobody /\ ~Exists(req[b].asker)
                       \/ <<req[b].join, req[b].asker>> \in redemptions'
<1>1. ASSUME SiteInv, NEW b \in Browser, req[b] # Nobody, req[b].tried = "no", Deferred(b)
      PROVE  Lands(b)
  <2> DEFINE c == DeferredJoin(b)
  <2>1. /\ req \in [Browser -> ReqRow \cup {Nobody}] /\ req[b] \in ReqRow
        /\ BrowserInv /\ LoginsHaveUsers
    BY <1>1 DEF SiteInv, BrowserInv, BrowserTypes
  <2>2. c.op = "join" /\ c.code = req[b].join /\ HasBody(c) /\ ScopeOf(c) = "user"
    BY DEF DeferredJoin, HasBody, ScopeOf
  <2>3. CASE LetIn(b, c)
    <3>1. req'[b].tried = req[b].tried
      BY <2>1, <2>3 DEF LetIn, Goes, ReqRow
    <3> QED BY <1>1, <3>1
  <2>4. ASSUME NEW tried \in {"done", "refused", "lost"},
               tried = "done" => Granted(b, c),
               tried = "refused" => Refused(b, c),
               Goes(b, [req[b] EXCEPT !.step = "route", !.tried = tried, !.sets = "drop",
                                      !.asker = Nobody])
        PROVE  Lands(b)
    <3>1. req'[b].tried = tried
      BY <2>1, <2>4 DEF Goes, ReqRow
    <3>2. Asker(b, c) = req[b].asker
      BY <2>2 DEF Asker
    <3> HIDE DEF c
    <3>3. CASE tried = "done"
      <4>1. Do(req[b].asker, c)
        BY <2>4, <3>2, <3>3 DEF Granted
      <4>2. Redeem([user |-> req[b].asker, scope |-> ScopeOf(c)], c.code)
        BY <2>2, <4>1 DEF Do
      <4> QED BY <2>2, <4>2 DEF Redeem
    <3>4. CASE tried = "refused" /\ req[b].asker = Nobody
      <4>1. ~Admits(b, c) /\ Listening
        BY <2>4, <3>2, <3>4 DEF Refused
      <4>2. ~SignedIn(b)
        BY <2>1, <2>2, <4>1 DEF Admits, Authorized, LoginsHaveUsers
      <4> QED BY <3>4, <4>2
    <3>5. CASE tried = "refused" /\ req[b].asker # Nobody
      <4>1. ~Passes(req[b].asker, c)
        BY <2>4, <3>2, <3>5 DEF Refused
      <4> QED BY <2>2, <3>5, <4>1 DEF Passes
    <3> QED BY <3>1, <3>3, <3>4, <3>5
  <2>5. CASE Goes(b, [req[b] EXCEPT !.step = "route"])
    <3>1. req'[b].tried = req[b].tried
      BY <2>1, <2>5 DEF Goes, ReqRow
    <3> QED BY <1>1, <3>1
  <2> QED BY <1>1, <2>1, <2>3, <2>4, <2>5, DeferredEnds
<1>2. SiteInv /\ [SiteNext]_siteVars
        => [\A b \in Browser :
              req[b] # Nobody /\ req[b].tried = "no" /\ Deferred(b) => Lands(b)]_siteVars
  BY <1>1
<1> QED BY <1>2, SiteInvariant, PTL DEF SiteSpec, DeferredJoinLands

\* Who becomes a member of a class: a row of class_redemptions is always of the
\* user a request was let in for and of the code that this request brought
\* along or asks for; and a request is let in for whoever is signed in, at that
\* moment, in the browser it comes from.
JoinsAreOwn ==
  [][/\ \A r \in redemptions' \ redemptions :
          \E b \in Browser :
            /\ Asking(req[b]) /\ ~Asking(req'[b]) /\ req[b].asker = r[2]
            /\ \/ req[b].step = "deferred" /\ req[b].join = r[1]
               \/ req[b].step = "calls" /\ Head(req[b].left).op = "join"
                                        /\ Head(req[b].left).code = r[1]
     /\ \A b \in Browser :
          Asking(req'[b]) /\ req'[b] # req[b]
            => ~Asking(req[b]) /\ SignedIn(b) /\ Goes(b, [req[b] EXCEPT !.asker = login[b]])]_siteVars

\* The deferred code of one visitor never makes a member of another, whoever
\* signs in, out or is deleted while the body of the join is awaited: between
\* the link and the sign-in the code stays with the browser, and the join is
\* served for the session that browser had when it was let in.
THEOREM MembersJoinThemselves == SiteSpec => JoinsAreOwn
<1> DEFINE Own(r, b) == /\ Asking(req[b]) /\ ~Asking(req'[b]) /\ req[b].asker = r[2]
                        /\ \/ req[b].step = "deferred" /\ req[b].join = r[1]
                           \/ req[b].step = "calls" /\ Head(req[b].left).op = "join"
                                                    /\ Head(req[b].left).code = r[1]
           LetInAs(b) == ~Asking(req[b]) /\ SignedIn(b) /\ Goes(b, [req[b] EXCEPT !.asker = login[b]])
<1>1. ASSUME NEW u, NEW c, Do(u, c), NEW r \in redemptions' \ redemptions
      PROVE  c.op = "join" /\ r = <<c.code, u>>
  <2>1. \/ c.op = "join" /\ redemptions' = redemptions \cup {<<c.code, u>>}
        \/ redemptions' \subseteq redemptions
    BY <1>1 DEF Do, Redeem, PatchSession, DeleteSession, Grant, Revoke, CreateUser, PatchUser,
                DeleteUser, CreateCode, DeleteCode, WithoutUser, WithoutCode, tables
  <2> QED BY <1>1, <2>1
<1>2. ASSUME SiteInv, SiteNext, NEW r \in redemptions' \ redemptions
      PROVE  \E b \in Browser : Own(r, b)
  <2>0. BrowserInv /\ req \in [Browser -> ReqRow \cup {Nobody}]
    BY <1>2 DEF SiteInv, BrowserInv, BrowserTypes
  <2>1. ~UNCHANGED apiVars /\ ~UNCHANGED tables
    BY <1>2 DEF apiVars, vars, tables
  <2>2. ASSUME NEW b \in Browser,
               \/ BrowserStep(b) \/ Mount(b) \/ Me(b) \/ MeAgain(b) \/ Route(b) \/ Answer(b)
               \/ AwaitDiscovery(b) \/ Redirects(b) \/ AnswerLost(b) \/ SessionEnds(b)
        PROVE  UNCHANGED apiVars
    BY <2>2 DEF BrowserStep, ToggleRow, ToggleAll, Visit, GoToLogin, Callback, Send, Logout, Mount,
                Me, MeAgain, Route, Answer, AwaitDiscovery, Redirects, AnswerLost, SessionEnds
  <2>3. ~TimePasses /\ ~FetchEnds /\ ~ProcessStep /\ ~ServerDies
    BY <2>1 DEF TimePasses, Tick, FetchEnds, ProcessStep, ServerDies, Interrupt
  <2>4. ~OtherClient
    BY <1>2 DEF OtherClient, WithoutBody, DeleteSession, Revoke, DeleteUser, DeleteCode, PatchUser,
                StartSession, WithoutUser, WithoutCode, Authenticate, Refuse, tables
  <2>5. \A b \in Browser : ~SignsIn(b)
    BY <1>2, <2>1 DEF SignsIn, SignUp
  <2>6. PICK b \in Browser : Deferred(b) \/ Call(b)
    BY <1>2, <2>1, <2>2, <2>3, <2>4, <2>5 DEF SiteNext, PageStep, LoginStep
  <2>7. req[b] \in ReqRow /\ RowOK(req[b], pending[b]) /\ req[b] # Nobody
    BY <2>0, <2>6, AtFacts DEF Deferred, Call, At
  <2>8. CASE Deferred(b)
    <3> DEFINE c == DeferredJoin(b)
    <3>1. Redeems(b) /\ Granted(b, c)
      BY <2>0, <2>1, <2>8, WhatCallsDo
    <3>2. Do(req[b].asker, c) /\ req[b].asker # Nobody
      BY <3>1 DEF Granted, Asker, HasBody, DeferredJoin
    <3>3. r = <<req[b].join, req[b].asker>>
      BY <1>1, <1>2, <3>2 DEF DeferredJoin
    <3>4. ~LetIn(b, c)
      BY <2>1 DEF LetIn
    <3>5. PICK tried : Goes(b, [req[b] EXCEPT !.step = "route", !.tried = tried, !.sets = "drop",
                                              !.asker = Nobody])
      BY <2>7, <2>8, <3>1, <3>4, DeferredEnds
    <3>6. req'[b].asker = Nobody
      BY <2>0, <2>7, <3>5 DEF Goes, ReqRow
    <3>7. req[b].step = "deferred"
      BY <2>8 DEF Deferred, At
    <3> QED BY <2>7, <3>2, <3>3, <3>6, <3>7 DEF Asking
  <2>9. CASE Call(b)
    <3> DEFINE c == Head(req[b].left)
    <3>1. Granted(b, c)
      BY <2>0, <2>1, <2>9, WhatCallsDo
    <3>2. Asker(b, c) # Nobody /\ Do(Asker(b, c), c)
      BY <3>1 DEF Granted
    <3>3. c.op = "join" /\ r = <<c.code, Asker(b, c)>>
      BY <1>1, <1>2, <3>2
    <3>4. Asker(b, c) = req[b].asker
      BY <3>3 DEF Asker, HasBody
    <3>5. ~LetIn(b, c)
      BY <2>1 DEF LetIn
    <3>6. PICK left, shows, to : Goes(b, CallLeaves(b, left, shows, to))
      BY <2>0, <2>9, <3>5, CallEnds
    <3>7. req'[b].asker = Nobody
      BY <2>0, <2>7, <3>6 DEF Goes, CallLeaves, ReqRow
    <3>8. req[b].step = "calls"
      BY <2>9 DEF Call, At
    <3> QED BY <2>7, <3>2, <3>3, <3>4, <3>7, <3>8 DEF Asking
  <2> QED BY <2>6, <2>8, <2>9
<1>3. ASSUME SiteInv, SiteNext, NEW b \in Browser, Asking(req'[b]), req'[b] # req[b]
      PROVE  LetInAs(b)
  <2>1. PICK c : LetIn(b, c)
    BY <1>3, WhoWaits
  <2> QED BY <1>3, <2>1, LetInFacts DEF SiteInv, Asking
<1>4. SiteInv /\ [SiteNext]_siteVars
        => [/\ \A r \in redemptions' \ redemptions : \E b \in Browser : Own(r, b)
            /\ \A b \in Browser : Asking(req'[b]) /\ req'[b] # req[b] => LetInAs(b)]_siteVars
  BY <1>2, <1>3
<1> QED BY <1>4, SiteInvariant, PTL DEF SiteSpec, JoinsAreOwn

\* The steps of a request, counted from its end.
Stage == [mount |-> 6, me |-> 5, deferred |-> 4, route |-> 3, calls |-> 2,
          discovery |-> 4, awaits |-> 3, answer |-> 1]

\* what a row of calls can still make: the one that looks a user up is followed
\* by a grant
Weight(left) ==
  2 * Len(left) + (IF left # <<>> /\ Head(left).op = "find" THEN 1 ELSE 0)

MovesOn(r, s) ==
  \/ Stage[s.step] < Stage[r.step]
  \/ r.step = "calls" /\ s.step = "calls" /\ Weight(s.left) < Weight(r.left)
  \/ r.step = s.step /\ r.left = s.left /\ r.asker = Nobody /\ s.asker # Nobody

\* GET /api/me of a page of the production build, which is one more such request
HandedToItself(b) ==
  /\ b \notin Dev /\ req[b].step = "me"
  /\ login[b] # Nobody \/ req[b].asked > 0
  /\ Goes(b, [req[b] EXCEPT !.asked = @ + 1])

\* A step of a request takes it nearer to its end: it never goes back to a step
\* it has done, waits for the body of a call once and never makes a call again,
\* so it takes finitely many; except that a page of the production build that
\* came with a cookie makes GET /api/me over and over.
RequestsMoveOn ==
  [][\A b \in Browser : req[b] # Nobody /\ req'[b] # Nobody /\ req'[b] # req[b]
       => MovesOn(req[b], req'[b]) \/ HandedToItself(b)]_siteVars

LEMMA WeightFacts ==
  ASSUME NEW calls \in Seq(Calls), calls # <<>>
  PROVE  /\ Weight(calls) \in Nat
         /\ Weight(Tail(calls)) < Weight(calls)
         /\ \A left \in LeftAfter(Head(calls), calls) : Weight(left) < Weight(calls)
<1>1. /\ Len(calls) \in Nat \ {0} /\ Tail(calls) \in Seq(Calls)
      /\ Len(Tail(calls)) = Len(calls) - 1
  OBVIOUS
<1>2. Weight(calls) \in {2 * Len(calls), 2 * Len(calls) + 1}
  BY <1>1 DEF Weight
<1>3. Weight(Tail(calls)) \in {2 * Len(Tail(calls)), 2 * Len(Tail(calls)) + 1}
  BY <1>1 DEF Weight
<1>4. Weight(Tail(calls)) < Weight(calls)
  BY <1>1, <1>2, <1>3
<1>5. ASSUME NEW left \in LeftAfter(Head(calls), calls) PROVE Weight(left) < Weight(calls)
  <2>1. CASE Head(calls).op # "find"
    BY <1>4, <2>1 DEF LeftAfter
  <2>2. CASE Head(calls).op = "find"
    <3>1. Weight(calls) = 2 * Len(calls) + 1
      BY <2>2 DEF Weight
    <3>2. \/ left = <<>>
          \/ \E u \in UserId :
               left = <<apiFetch([op |-> "grant", sid |-> Head(calls).sid, user |-> u])>>
      BY <2>2 DEF LeftAfter
    <3>3. Weight(left) \in {0, 2}
      <4>1. Weight(<<>>) = 0
        BY DEF Weight
      <4>2. ASSUME NEW u \in UserId
            PROVE  Weight(<<apiFetch([op |-> "grant", sid |-> Head(calls).sid, user |-> u])>>) = 2
        <5> DEFINE g == apiFetch([op |-> "grant", sid |-> Head(calls).sid, user |-> u])
        <5>1. g.op = "grant"
          BY DEF apiFetch, Via
        <5> HIDE DEF g
        <5>2. Len(<<g>>) = 1 /\ Head(<<g>>) = g /\ <<g>> # <<>>
          OBVIOUS
        <5>3. Weight(<<g>>) = 2
          BY <5>1, <5>2 DEF Weight
        <5> QED BY <5>3 DEF g
      <4> QED BY <3>2, <4>1, <4>2
    <3> QED BY <1>1, <3>1, <3>3
  <2> QED BY <2>1, <2>2
<1> QED BY <1>1, <1>2, <1>4, <1>5

\* Nothing but the repetition of GET /api/me keeps a request from its end:
\* whoever gets a turn brings it nearer to its answer (with the fairness of the
\* event loop, which is TLC's part, it comes).
THEOREM RequestsComeNearer == SiteSpec => RequestsMoveOn
<1>1. ASSUME SiteInv, SiteNext, NEW b \in Browser,
             req[b] # Nobody, req'[b] # Nobody, req'[b] # req[b]
      PROVE  MovesOn(req[b], req'[b]) \/ HandedToItself(b)
  <2>0. /\ req \in [Browser -> ReqRow \cup {Nobody}] /\ req[b] \in ReqRow
        /\ BrowserInv /\ RowOK(req[b], pending[b])
    BY <1>1 DEF SiteInv, BrowserInv, BrowserTypes, RequestsOK
  <2>1. ASSUME NEW d \in Browser, NEW r, Goes(d, r) PROVE d = b /\ req'[b] = r
    BY <1>1, <2>0, <2>1 DEF Goes
  <2>2. ~OtherClient /\ ~TimePasses /\ ~ProcessStep
    BY <1>1 DEF OtherClient, TimePasses, ProcessStep
  <2>3. ASSUME NEW d \in Browser,
               \/ BrowserStep(d) \/ Answer(d) \/ AnswerLost(d) \/ SessionEnds(d)
        PROVE  FALSE
    <3>1. UNCHANGED req \/ Goes(d, Nobody) \/ (req[d] = Nobody /\ \E r : Goes(d, r))
      BY <2>3 DEF BrowserStep, ToggleRow, ToggleAll, Visit, GoToLogin, Callback, Send, Logout,
                  Answer, AnswerLost, SessionEnds
    <3> QED BY <1>1, <2>1, <3>1
  <2>4. CASE FetchEnds
    <3>1. b \in Waiting /\ req'[b] = [req[b] EXCEPT !.step = "answer", !.to = "refused"]
      BY <1>1, <2>4 DEF FetchEnds
    <3>2. req[b].step = "awaits" /\ req'[b].step = "answer"
      BY <2>0, <3>1 DEF Waiting, ReqRow
    <3> QED BY <3>2 DEF MovesOn, Stage
  <2>5. ASSUME NEW d \in Browser, LoginStep(d) PROVE MovesOn(req[b], req'[b])
    <3>1. d = b
      BY <2>1, <2>5 DEF LoginStep, AwaitDiscovery, Redirects, SignsIn
    <3>2. \/ req[b].step = "discovery" /\ req'[b].step \in {"answer", "awaits"}
          \/ req[b].step = "awaits" /\ req'[b].step = "answer"
      <4>1. /\ [req[b] EXCEPT !.step = "answer", !.to = "refused"].step = "answer"
            /\ [req[b] EXCEPT !.step = "answer", !.to = "provider"].step = "answer"
            /\ [req[b] EXCEPT !.step = "answer"].step = "answer"
            /\ [req[b] EXCEPT !.step = "awaits"].step = "awaits"
        BY <2>0 DEF ReqRow
      <4>2. CASE AwaitDiscovery(b)
        <5>1. req[b].step = "discovery"
          BY <4>2 DEF AwaitDiscovery, At
        <5>2. \/ req'[b] = [req[b] EXCEPT !.step = "answer", !.to = "refused"]
              \/ req'[b] = [req[b] EXCEPT !.step = "awaits"]
          BY <2>1, <4>2 DEF AwaitDiscovery
        <5> QED BY <4>1, <5>1, <5>2
      <4>3. CASE Redirects(b)
        <5>1. /\ req[b].step = "awaits"
              /\ req'[b] = [req[b] EXCEPT !.step = "answer", !.to = "provider"]
          BY <2>1, <4>3 DEF Redirects, At
        <5> QED BY <4>1, <5>1
      <4>4. CASE SignsIn(b)
        <5>1. req[b].step = "awaits"
          BY <4>4 DEF SignsIn, At
        <5>2. \/ req'[b] = [req[b] EXCEPT !.step = "answer"]
              \/ req'[b] = [req[b] EXCEPT !.step = "answer", !.to = "refused"]
          BY <2>1, <4>4 DEF SignsIn
        <5> QED BY <4>1, <5>1, <5>2
      <4> QED BY <2>5, <3>1, <4>2, <4>3, <4>4 DEF LoginStep
    <3> QED BY <3>2 DEF MovesOn, Stage
  <2>6. CASE ServerDies
    <3> DEFINE r == req[b]
    <3>1. r.asker # Nobody /\ req'[b] = Throws(r)
      BY <1>1, <2>6 DEF ServerDies
    <3>2. r \in ReqRow /\ r.step \in {"deferred", "calls"}
      BY <2>0, <3>1 DEF RowOK
    <3> HIDE DEF r
    <3>3. \/ r.step = "deferred" /\ Throws(r).step = "route"
          \/ r.step = "calls" /\ Throws(r).step = "answer"
      BY <3>2 DEF Throws, ReqRow
    <3> QED BY <3>1, <3>3 DEF MovesOn, Stage, r
  <2>7. ASSUME NEW d \in Browser, Mount(d) PROVE MovesOn(req[b], req'[b])
    <3>1. d = b
      BY <2>1, <2>7 DEF Mount
    <3>2. req[b].step = "mount" /\ req'[b].step \in {"me", "answer"}
      BY <2>0, <2>7, <3>1 DEF Mount, At, Goes, ReqRow
    <3> QED BY <3>2 DEF MovesOn, Stage
  <2>8. ASSUME NEW d \in Browser, Me(d) PROVE MovesOn(req[b], req'[b])
    <3>1. d = b
      BY <2>1, <2>8 DEF Me
    <3>2. req[b].step = "me" /\ req'[b].step = "deferred"
      BY <2>0, <2>8, <3>1 DEF Me, At, Goes, ReqRow
    <3> QED BY <3>2 DEF MovesOn, Stage
  <2>12. ASSUME NEW d \in Browser, MeAgain(d) PROVE HandedToItself(b)
    <3>1. d = b
      BY <2>1, <2>12 DEF MeAgain
    <3> QED BY <2>12, <3>1 DEF MeAgain, At, HandedToItself
  <2>9. ASSUME NEW d \in Browser, Deferred(d) PROVE MovesOn(req[b], req'[b])
    <3>1. d = b
      BY <2>1, <2>9 DEF Deferred, LetIn
    <3>2. req[b].step = "deferred"
      BY <2>9, <3>1 DEF Deferred, At
    <3>3. CASE LetIn(b, DeferredJoin(b))
      <4>1. /\ req[b].asker = Nobody /\ login[b] # Nobody
            /\ req'[b] = [req[b] EXCEPT !.asker = login[b]]
        BY <2>0, <2>1, <3>3, LetInFacts
      <4>2. req'[b].asker # Nobody /\ req'[b].step = req[b].step /\ req'[b].left = req[b].left
        BY <2>0, <4>1 DEF ReqRow
      <4> QED BY <4>1, <4>2 DEF MovesOn
    <3>4. CASE ~LetIn(b, DeferredJoin(b))
      <4>1. \/ \E tried : Goes(b, [req[b] EXCEPT !.step = "route", !.tried = tried, !.sets = "drop",
                                                  !.asker = Nobody])
            \/ Goes(b, [req[b] EXCEPT !.step = "route"])
        BY <2>0, <2>9, <3>1, <3>4, DeferredEnds
      <4>2. req'[b].step = "route"
        BY <2>0, <4>1 DEF Goes, ReqRow
      <4> QED BY <3>2, <4>2 DEF MovesOn, Stage
    <3> QED BY <3>3, <3>4
  <2>10. ASSUME NEW d \in Browser, Route(d) PROVE MovesOn(req[b], req'[b])
    <3>1. d = b
      BY <2>1, <2>10 DEF Route
    <3>2. req[b].step = "route"
      BY <2>10, <3>1 DEF Route, At
    <3>3. req'[b].step \in {"calls", "answer"}
      <4> DEFINE calls == [req[b] EXCEPT !.step = "calls", !.left = CallsOf(b)]
                 ends == [req[b] EXCEPT !.step = "answer", !.to = Gate(b),
                                        !.sets = IF Gate(b) = "login" /\ req[b].form.kind = "link"
                                                 THEN "set" ELSE @]
      <4>1. calls.step = "calls" /\ ends.step = "answer"
        BY <2>0 DEF ReqRow
      <4>2. Goes(b, calls) \/ Goes(b, ends)
        BY <2>10, <3>1 DEF Route
      <4> HIDE DEF calls, ends
      <4> QED BY <2>1, <4>1, <4>2
    <3> QED BY <3>2, <3>3 DEF MovesOn, Stage
  <2>11. ASSUME NEW d \in Browser, Call(d) PROVE MovesOn(req[b], req'[b])
    <3>1. d = b
      BY <2>1, <2>11 DEF Call, LetIn
    <3>2. /\ req[b].step = "calls" /\ req[b].left \in Seq(Calls) /\ req[b].left # <<>>
      BY <2>0, <2>11, <3>1, NextCall DEF Call, At
    <3> DEFINE c == Head(req[b].left)
    <3>3. CASE LetIn(b, c)
      <4>1. /\ req[b].asker = Nobody /\ login[b] # Nobody
            /\ req'[b] = [req[b] EXCEPT !.asker = login[b]]
        BY <2>0, <2>1, <3>3, LetInFacts
      <4>2. req'[b].asker # Nobody /\ req'[b].step = req[b].step /\ req'[b].left = req[b].left
        BY <2>0, <4>1 DEF ReqRow
      <4> QED BY <4>1, <4>2 DEF MovesOn
    <3>4. CASE ~LetIn(b, c)
      <4>1. PICK left \in LeftAfter(c, req[b].left) \cup {Tail(req[b].left), <<>>},
                 shows \in SUBSET Sid, to \in Destination :
              Goes(b, CallLeaves(b, left, shows, to))
        BY <2>0, <2>11, <3>1, <3>4, CallEnds
      <4>2. /\ req'[b].left = left
            /\ req'[b].step = IF left = <<>> THEN "answer" ELSE "calls"
        BY <2>0, <2>1, <4>1 DEF CallLeaves, ReqRow
      <4>3. left # <<>> => Weight(left) < Weight(req[b].left)
        BY <3>2, <4>1, WeightFacts
      <4>4. CASE left = <<>>
        BY <3>2, <4>2, <4>4 DEF MovesOn, Stage
      <4>5. CASE left # <<>>
        BY <3>2, <4>2, <4>3, <4>5 DEF MovesOn
      <4> QED BY <4>4, <4>5
    <3> QED BY <3>3, <3>4
  <2> QED BY <1>1, <2>2, <2>3, <2>4, <2>5, <2>6, <2>7, <2>8, <2>9, <2>10, <2>11, <2>12
       DEF SiteNext, PageStep
<1>2. SiteInv /\ [SiteNext]_siteVars
        => [\A b \in Browser : req[b] # Nobody /\ req'[b] # Nobody /\ req'[b] # req[b]
              => MovesOn(req[b], req'[b]) \/ HandedToItself(b)]_siteVars
  BY <1>1
<1> QED BY <1>2, SiteInvariant, PTL DEF SiteSpec, RequestsMoveOn
=============================================================================
