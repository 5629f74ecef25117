------------------------------- MODULE MCLists -------------------------------
(* Model checking of Playlists and of CursorPaging, which share no state: a  *)
(* behaviour is one of the first or one of the second, as part says.         *)
EXTENDS Playlists, CursorPaging, TLC

VARIABLE part

\* Nothing tells users or titles apart.
Interchangeable == Permutations(Users) \cup Permutations(Titles)

\* Nor requests: they are numbered as they begin.
InTurn == \A q, r \in Requests : q < r /\ pc[q] = "new" => pc[r] = "new"

Ids == 1..3

R(i, k, u) == [id |-> i, key |-> k, updated |-> u]

\* Ties; values that differ, with edits that move a row to the other end, all
\* of them multiples of the grain; values in the order of the ids, most of them
\* not; two columns in opposite orders.
SomeWorlds ==
    { {R(i, k, k) : i \in Ids, k \in 1..2},
      {R(i, 3 * i, 3 * i) : i \in Ids} \cup {R(i, 3 * i + 9, 3 * i + 9) : i \in Ids},
      {R(i, i, i) : i \in 1..5},
      {R(i, i, 6 - i) : i \in 1..5} }

\* The part that stands still has one initial state.
EitherInit ==
    /\ part \in {"playlists", "paging"}
    /\ Init /\ PagingInit
    /\ part = "playlists" => query = CHOOSE q \in Queries : TRUE
    /\ part = "playlists" => world = CHOOSE w \in Worlds : TRUE
    /\ part = "paging" => setting = CHOOSE s \in Settings : TRUE

EitherNext ==
    \/ part = "playlists" /\ Next /\ UNCHANGED <<part, pagingVars>>
    \/ part = "paging" /\ PagingNext /\ UNCHANGED <<part, vars>>

EitherSpec == EitherInit /\ [][EitherNext]_<<part, vars, pagingVars>>
=============================================================================
