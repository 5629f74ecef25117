----------------------------- MODULE MCMessages -----------------------------
(* Model checking of DirectMessages.                                        *)
EXTENDS DirectMessages

\* The two participants are interchangeable.
Interchangeable == Permutations(Users)

\* Sorted numbers the places of the rows; on short lists TLC compares it with
\* sorting by comparisons.
ASSUME SortedIsSort ==
    \A rows \in UNION {[1..n -> Rows] : n \in 0..4} :
        Sorted(rows) = SortSeq(rows, Newer)

\* Pages only read: explore one participant's page at a time.
OneReader == \E u \in Users : page[u] = Cleared /\ asked[u] = <<>>

\* Impatient readers have up to two requests under way: two messages do, and
\* nothing is marked as read (that is explored with patient readers).
FewForImpatient ==
    patient \/ /\ stage[MaxMessages] = "none"
               /\ \A m \in Messages : ~isRead[m]
=============================================================================
