----------------------------- MODULE CursorPaging -----------------------------
(***************************************************************************)
(* The lists that a client walks through page by page, handing back the    *)
(* cursor of the page before: users, notifications, contents, playlists    *)
(* and reviews (the query repositories, ContentRepositoryImpl and the        *)
(* services around them).                                                  *)
(*                                                                         *)
(* A query filters, orders and limits; where its ORDER BY leaves two rows  *)
(* tied the database puts them in any order, a different one each time. A  *)
(* page is therefore a set of rows that no row outside it has to precede,  *)
(* and its cursor a row of the page that precedes no other. Only the rows  *)
(* that pass the filters of the walk are here: one that comes to pass them *)
(* is inserted, one that no longer does is deleted.                        *)
(***************************************************************************)
EXTENDS FiniteSets, Integers

CONSTANTS
    Limit,     \* rows on a page
    Worlds,    \* each a set of rows that a table may hold in the course of a walk
    Grain,     \* how many values of a FLOAT column print as one text
    NoCursor

\* key: the column that the list is sorted by; updated: playlists.updated_at.
Row == [id : Nat, key : Nat, updated : Nat]

ASSUME PagingAssumption ==
    /\ Limit \in Nat \ {0}
    /\ Worlds \subseteq SUBSET Row
    /\ Grain \in Nat \ {0}
    /\ NoCursor \notin Row

VARIABLES
    query, world,   \* chosen once: what is asked for; the rows that may turn up
    stored,         \* the table
    cursor,         \* the last row of the last page, as it was
    over,           \* the last page said that there is no next
    before, page,   \* rows of the earlier pages and of the last one
    steady          \* rows in the table, unchanged, since the first page

table      == <<query, world, stored>>
walk       == <<cursor, over, before, page>>
pagingVars == <<table, walk, steady>>

Lists == {"users", "notifications", "contents", "contentsDefault",
          "contentsByCount", "contentsByRate", "playlists", "playlistsByCount",
          "reviews"}

\* sortDirection as it comes in; none: left out.
Directions == {"ASC", "ASCENDING", "DESCENDING", "none"}

Queries == [list : Lists, dir : Directions]

PagingTypeOK ==
    /\ query \in Queries
    /\ world \in Worlds
    /\ stored \subseteq world /\ IsFiniteSet(stored)
    /\ \A a, b \in stored : a.id = b.id => a = b
    /\ cursor \in world \cup {NoCursor}
    /\ over \in BOOLEAN
    /\ before \subseteq world /\ page \subseteq world
    /\ steady \subseteq stored

PagingInit ==
    /\ query \in Queries /\ world \in Worlds
    /\ stored = {}
    /\ cursor = NoCursor /\ over = FALSE
    /\ before = {} /\ page = {}
    /\ steady = {}

-----------------------------------------------------------------------------
(* The queries. OrderBy(a, b): a has to precede b. After(a, c): the         *)
(* condition that the query with cursor c adds to its WHERE.                *)

Sorted(x, y, asc) == IF asc THEN x < y ELSE y < x

\* The cursor condition tests the parameter, the order its default, "ASC".
\* What the front end sends, "ASCENDING", is neither.
UsersOrderBy(a, b) ==
    \/ Sorted(a.key, b.key, query.dir \in {"ASC", "none"})
    \/ a.key = b.key /\ a.id < b.id

\* Mutation: idAfter is read, and not used.
UsersAfterKeyOnly(a, c) == Sorted(c.key, a.key, query.dir = "ASC")

UsersAfter(a, c) ==
    \/ Sorted(c.key, a.key, query.dir = "ASC")
    \/ a.key = c.key /\ a.id > c.id

Ascending == query.dir = "ASCENDING"

NotificationsOrderBy(a, b) ==
    \/ Sorted(a.key, b.key, Ascending)
    \/ a.key = b.key /\ Sorted(a.id, b.id, Ascending)

\* Mutation: the cursor's own row is on the next page again.
NotificationsFrom(a, c) ==
    \/ Sorted(c.key, a.key, Ascending)
    \/ a.key = c.key /\ (a.id = c.id \/ Sorted(c.id, a.id, Ascending))

NotificationsAfter(a, c) ==
    \/ Sorted(c.key, a.key, Ascending)
    \/ a.key = c.key /\ Sorted(c.id, a.id, Ascending)

ContentLists ==
    {"contents", "contentsDefault", "contentsByCount", "contentsByRate"}

\* By id. Without sortBy (contentsDefault) the order is descending whatever
\* the direction asked for; by rate or by watcherCount there is no second key.
ContentsOrderBy(a, b) ==
    CASE query.list = "contents"        -> Sorted(a.id, b.id, Ascending)
      [] query.list = "contentsDefault" -> a.id > b.id
      [] query.list \in {"contentsByCount", "contentsByRate"} ->
             Sorted(a.key, b.key, Ascending)

\* A rate on its way out of its FLOAT column into the cursor and back into the
\* query. The text of a FLOAT has fewer digits than its value, and is compared
\* as the decimal that it is: that may lie below or above the value it was
\* printed from, and be the same for values that differ.
Printed(rate) == Grain * ((rate + Grain \div 2) \div Grain)

ContentsAfter(a, c) ==
    LET last == IF query.list = "contentsByRate" THEN Printed(c.key) ELSE c.key
    IN  IF query.list \in {"contentsByCount", "contentsByRate"}
        THEN \/ Sorted(last, a.key, Ascending)
             \/ a.key = last /\ Sorted(c.id, a.id, Ascending)
        ELSE Sorted(c.id, a.id, Ascending)

PlaylistsOrderBy(a, b) ==
    LET x == IF query.list = "playlistsByCount" THEN a.key ELSE a.updated
        y == IF query.list = "playlistsByCount" THEN b.key ELSE b.updated
    IN  Sorted(x, y, Ascending) \/ (x = y /\ a.id > b.id)

\* Whatever the list is sorted by, and in whichever direction.
PlaylistsAfter(a, c) == a.updated < c.updated

ReviewsOrderBy(a, b) == Sorted(a.key, b.key, Ascending)

ReviewsAfter(a, c) == a.id < c.id

OrderBy(a, b) ==
    CASE query.list = "users"         -> UsersOrderBy(a, b)
      [] query.list = "notifications" -> NotificationsOrderBy(a, b)
      [] query.list \in ContentLists   -> ContentsOrderBy(a, b)
      [] query.list \in {"playlists", "playlistsByCount"} -> PlaylistsOrderBy(a, b)
      [] query.list = "reviews"       -> ReviewsOrderBy(a, b)

After(a, c) ==
    CASE query.list = "users"         -> UsersAfter(a, c)
      [] query.list = "notifications" -> NotificationsAfter(a, c)
      [] query.list \in ContentLists   -> ContentsAfter(a, c)
      [] query.list \in {"playlists", "playlistsByCount"} -> PlaylistsAfter(a, c)
      [] query.list = "reviews"       -> ReviewsAfter(a, c)

-----------------------------------------------------------------------------
(* A walk.                                                                  *)

Matching == {r \in stored : cursor # NoCursor => After(r, cursor)}

\* The query asks for one row more than the page; the page leaves it out.
HasNext == Cardinality(Matching) > Limit

\* The pages that the database may answer with.
Pages ==
    IF HasNext
    THEN {K \in SUBSET Matching :
             /\ Cardinality(K) = Limit
             /\ \A a \in K, b \in Matching \ K : ~OrderBy(b, a)}
    ELSE {Matching}

\* The rows that may be the last of page K.
Last(K) == {r \in K : \A b \in K : ~OrderBy(r, b)}

\* Mutation: the next cursor is that of the extra row.
CursorOfExtraRow ==
    /\ ~over
    /\ page' \in Pages
    /\ over' = ~HasNext
    /\ before' = before \cup page
    /\ IF HasNext
       THEN \E extra \in Matching \ page' :
               /\ \A b \in Matching \ page' : ~OrderBy(b, extra)
               /\ cursor' = extra
       ELSE cursor' = cursor
    /\ steady' = IF cursor = NoCursor THEN stored ELSE steady
    /\ UNCHANGED table

NextPage ==
    /\ ~over
    /\ page' \in Pages
    /\ over' = ~HasNext
    /\ before' = before \cup page
    /\ IF HasNext THEN cursor' \in Last(page') ELSE cursor' = cursor
    /\ steady' = IF cursor = NoCursor THEN stored ELSE steady
    /\ UNCHANGED table

\* The client begins again, without a cursor.
Restart ==
    /\ over \/ page # {}
    /\ cursor' = NoCursor /\ over' = FALSE
    /\ before' = {} /\ page' = {}
    /\ steady' = {}
    /\ UNCHANGED table

-----------------------------------------------------------------------------
(* Others, between two pages.                                               *)

NewId(r) == \A s \in stored : s.id # r.id

Insert(r) ==
    /\ NewId(r)
    /\ stored' = stored \cup {r}
    /\ UNCHANGED <<query, world, walk, steady>>

Delete(r) ==
    /\ stored' = stored \ {r}
    /\ steady' = steady \ {r}
    /\ UNCHANGED <<query, world, walk>>

\* r becomes s; the time of a notification does not change.
Edit(r, s) ==
    /\ query.list # "notifications"
    /\ s.id = r.id /\ s # r
    /\ stored' = (stored \ {r}) \cup {s}
    /\ steady' = steady \ {r}
    /\ UNCHANGED <<query, world, walk>>

PagingNext ==
    \/ NextPage
    \/ Restart
    \/ \E r \in world : Insert(r)
    \/ \E r \in stored : Delete(r) \/ \E s \in world : Edit(r, s)

PagingSpec == PagingInit /\ [][PagingNext]_pagingVars

-----------------------------------------------------------------------------
(* Where the cursor continues the order.                                    *)

\* On the rows of this world, After means: later in the order; and the order
\* tells any two rows apart.
Continues ==
    \A a, b \in world :
        /\ After(b, a) <=> OrderBy(a, b)
        /\ a.id # b.id => OrderBy(a, b) \/ OrderBy(b, a)

Distinct(f(_)) == \A a, b \in world : a.id # b.id => f(a) # f(b)

SameOrder(f(_), g(_)) == \A a, b \in world : f(a) < f(b) <=> g(a) < g(b)

\* The rates of this world print as they are, as whole and half ones do.
RatesPrintExactly == \A r \in world : Printed(r.key) = r.key

Key(r)     == r.key
Updated(r) == r.updated
Id(r)      == r.id

\* The walks that can be relied upon: for the rest, the cursor and the order
\* disagree about some rows.
Reliable ==
    CASE query.list = "users"            -> query.dir # "none"
      [] query.list = "notifications"    -> TRUE
      [] query.list = "contents"         -> TRUE
      [] query.list = "contentsDefault"  -> ~Ascending
      [] query.list = "contentsByCount"  -> Distinct(Key)
      [] query.list = "contentsByRate"   -> Distinct(Key) /\ RatesPrintExactly
      [] query.list = "playlists"        -> ~Ascending /\ Distinct(Updated)
      [] query.list = "playlistsByCount" ->
             ~Ascending /\ Distinct(Key) /\ SameOrder(Key, Updated)
      [] query.list = "reviews"          -> ~Ascending /\ SameOrder(Key, Id)

-----------------------------------------------------------------------------
(* Correctness.                                                             *)

\* The next page goes on where the last one ended: no row comes a second time,
\* and none that belongs in an earlier page, whatever others do in between.
PagesInOrder ==
    Reliable => \A a \in before, b \in page : OrderBy(a, b)

\* A walk that is over has shown every row that was there all along.
WalkComplete ==
    Reliable /\ over => steady \subseteq before \cup page

\* The cursor separates what has been shown from what is still to come.
CursorSeparates ==
    Reliable /\ ~over /\ cursor # NoCursor =>
        /\ \A a \in before \cup page : a = cursor \/ OrderBy(a, cursor)
        /\ \A a \in steady : a \in before \cup page \/ After(a, cursor)
=============================================================================
