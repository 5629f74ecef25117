----------------------------- MODULE ListStore ------------------------------
(***************************************************************************)
(* The list stores of the web front end (la in the compiled bundle): rows  *)
(* that are fetched page by page and, between the answers, added and       *)
(* deleted by pushed events. Every store of the pages is one of these: the *)
(* messages of a conversation, the viewers of a content, playlists,        *)
(* contents, notifications.                                                *)
(*                                                                         *)
(* A row is a record with an id; None stands for an absent cursor or       *)
(* parameter. A request carries what the store held when it was made: the  *)
(* answer is put together from that, not from what the store holds when it *)
(* arrives.                                                                *)
(***************************************************************************)
EXTENDS FiniteSets, Naturals, Sequences, TLC

CONSTANT None

\* clearData, and the store before anything is fetched.
Cleared == [data |-> <<>>, more |-> FALSE, cursor |-> None, loading |-> FALSE,
            params |-> None]

Ids(list) == {list.data[i].id : i \in 1..Len(list.data)}

\* add: a row that is there is left alone; a new one is sorted in. sorted: the
\* rows with the new one, in the order of the list's parameters.
Add(list, row, sorted) ==
    IF row.id \in Ids(list) THEN list ELSE [list EXCEPT !.data = sorted]

\* delete: the rows with another id stay, in their order.
Delete(list, id) ==
    LET kept == {i \in 1..Len(list.data) : list.data[i].id # id}
        Nth(n) == CHOOSE i \in kept : Cardinality({j \in kept : j <= i}) = n
    IN  [list EXCEPT !.data = [n \in 1..Cardinality(kept) |-> list.data[Nth(n)]]]

\* updateParams({...}), which goes on to fetch: the rows go before the answer
\* is asked for, the cursor state stays. Ignored while something loads.
Fetching(list, params) ==
    IF list.loading THEN [list EXCEPT !.params = params]
    ELSE [list EXCEPT !.params = params, !.data = <<>>, !.loading = TRUE]

FetchRequest(list) == [params |-> list.params, base |-> <<>>, cursor |-> None]

\* fetchMore is ignored while something loads and after the last page.
MayFetchMore(list) == ~list.loading /\ list.more

MoreRequest(list) ==
    [params |-> list.params, base |-> list.data, cursor |-> list.cursor]

\* Mutation: the answer of a further page replaces the pages before.
AnsweredAnew(list, request, page) ==
    [list EXCEPT !.data = page.rows, !.more = page.more, !.cursor = page.cursor,
                 !.loading = FALSE]

\* The answer to a request replaces the rows by those the request was made
\* with and the page's.
Answered(list, request, page) ==
    [list EXCEPT !.data = request.base \o page.rows, !.more = page.more,
                 !.cursor = page.cursor, !.loading = FALSE]

\* An error leaves everything but the loading flag.
Failed(list) == [list EXCEPT !.loading = FALSE]
=============================================================================
