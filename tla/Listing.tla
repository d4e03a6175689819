------------------------------ MODULE Listing ------------------------------
(***************************************************************************)
(* Reading a list page by page while others change it.  The four listings   *)
(* of the admin API (sessions, users, codes, audit) answer in the same way: *)
(* rows below the cursor, highest id first, at most a limit of them, and a  *)
(* next cursor if the page is full.  The pages of the sessions and of the   *)
(* audit log follow it with "Load more", which keeps the filter and shows   *)
(* the next page in place of the one before; the search for the user to     *)
(* grant a session to follows that of the users.                            *)
(*                                                                          *)
(* rows are the ids that match the filter of the link; a row comes and goes *)
(* by an insert, a delete or an edit of what the filter looks at.  An id    *)
(* may be anywhere in the order: users are listed by sub, codes by name.    *)
(***************************************************************************)
EXTENDS Integers, FiniteSets

CONSTANTS
  Id,     \* ids, as their places in the order of the column
  Limit,  \* rows of a page
  NoPage  \* no cursor

ASSUME ListingAssumption ==
  /\ Id \subseteq Int
  /\ IsFiniteSet(Id)
  /\ Limit \in Nat \ {0}
  /\ NoPage \notin Int

VARIABLES
  rows,    \* the matching rows of the table
  page,    \* what the page shows: its rows
  cursor,  \* nextCursor of the page
  read,    \* history: the rows of every page since the first
  stayed   \* history: the rows that match since the first page was asked for

readerVars  == <<page, cursor, read>>
listingVars == <<rows, readerVars, stayed>>

ListingTypeOK ==
  /\ rows \subseteq Id
  /\ page \subseteq Id
  /\ cursor \in Id \cup {NoPage}
  /\ read \subseteq Id
  /\ stayed \subseteq rows

ListingInit ==
  /\ rows \in SUBSET Id
  /\ page = {} /\ cursor = NoPage /\ read = {} /\ stayed = {}

\* the WHERE clause
Below(c) == {r \in rows : c = NoPage \/ r < c}

\* ORDER BY id DESC LIMIT
PageAt(c) ==
  {r \in Below(c) : Cardinality({q \in Below(c) : q > r}) < Limit}

\* Mutant of NextCursor: the test for a page that was read with a row more
NextCursorBeyond(list) ==
  IF Cardinality(list) > Limit THEN CHOOSE r \in list : \A q \in list : r <= q
  ELSE NoPage

\* list.length === limit ? list.at(-1)?.id : null
NextCursor(list) ==
  IF Cardinality(list) = Limit THEN CHOOSE r \in list : \A q \in list : r <= q
  ELSE NoPage

\* the listing without a cursor: the first visit, "Apply", "Clear"
FirstPage ==
  /\ page' = PageAt(NoPage)
  /\ cursor' = NextCursor(PageAt(NoPage))
  /\ read' = PageAt(NoPage)
  /\ stayed' = rows
  /\ UNCHANGED rows

\* the link with the cursor, which is there if there is a next page
LoadMore ==
  /\ cursor # NoPage
  /\ page' = PageAt(cursor)
  /\ cursor' = NextCursor(PageAt(cursor))
  /\ read' = read \cup PageAt(cursor)
  /\ UNCHANGED <<rows, stayed>>

Enters(r) ==
  /\ r \notin rows
  /\ rows' = rows \cup {r}
  /\ UNCHANGED <<readerVars, stayed>>

Leaves(r) ==
  /\ r \in rows
  /\ rows' = rows \ {r}
  /\ stayed' = stayed \ {r}
  /\ UNCHANGED readerVars

ListingNext ==
  \/ FirstPage
  \/ LoadMore
  \/ \E r \in Id : Enters(r) \/ Leaves(r)

ListingSpec == ListingInit /\ [][ListingNext]_listingVars

----------------------------------------------------------------------------
\* Properties.

\* Whoever follows "Load more" to its end has seen every row that matched all
\* the time, whatever came and went between the pages.
PagingMissesNothing == cursor = NoPage /\ read # {} => stayed \subseteq read

\* No row is on two pages of one reading.
PagesDisjoint == [][LoadMore => page' \cap read = {}]_listingVars
============================================================================
