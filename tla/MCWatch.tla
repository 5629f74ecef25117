------------------------------ MODULE MCWatch ------------------------------
(* Model checking of WatchParty and WatchPage.                              *)
EXTENDS WatchPage, TLC

\* Users, sessions and contents are interchangeable.
Interchangeable == Permutations(Users) \cup Permutations(Sessions)
                   \cup Permutations(Contents)

\* Delete numbers the rows that stay; on short lists TLC compares it with the
\* filter of the code.
ASSUME DeleteIsFilter ==
    \A data \in UNION {[1..n -> [id : Users \cup Contents]] : n \in 0..4}, w \in Users :
        Delete([Cleared EXCEPT !.data = data], w).data =
            SelectSeq(data, LAMBDA row : row.id # w)

\* Everything clients and administrators do, one handler at a time.
OneByOne == [overlap |-> FALSE, tabs |-> TRUE, unsubscribe |-> TRUE,
             delete |-> TRUE, to |-> {"watch", "dm"}]

\* Overlapping handlers: clients only watch and leave by disconnecting.
Busy == [overlap |-> TRUE, tabs |-> TRUE, unsubscribe |-> FALSE,
         delete |-> FALSE, to |-> {"watch"}]

OneTabEach == [Busy EXCEPT !.tabs = FALSE]

\* Pages in front of handlers that run one at a time.
Paged == [overlap |-> FALSE, tabs |-> TRUE, unsubscribe |-> FALSE,
          delete |-> FALSE, to |-> {"watch"}]

PagedUnsubscribing == [Paged EXCEPT !.unsubscribe = TRUE]

AllOfThem == {OneByOne, Busy, OneTabEach, Paged, PagedUnsubscribing}

Staying == [leave |-> FALSE, drop |-> FALSE, prompt |-> TRUE, ordered |-> TRUE]

Explored ==
    {<<s, None>> : s \in {OneByOne, Busy, OneTabEach}}
    \cup {<<Paged, h>> : h \in {Staying, [Staying EXCEPT !.prompt = FALSE],
                                [Staying EXCEPT !.drop = TRUE, !.ordered = FALSE]}}
    \cup {<<PagedUnsubscribing, [Staying EXCEPT !.leave = TRUE]>>}
=============================================================================
