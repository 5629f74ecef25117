------------------------------ MODULE MCCatalog ------------------------------
(* Model checking of Catalog and ContentImport.                             *)
EXTENDS ContentImport, TLC

CONSTANTS a, b, u1, u2, guest, r1, r2, r3, film1, film2, show, match1, match2, action, sport

E(k, t, n) == [key |-> k, title |-> t, names |-> {n}]

\* Two days. On the first the first team has nothing to report, which ends the
\* sports step; on the second all titles are new, and a film has moved to the
\* other page while the pages were read, so that it is offered twice.
TwoDays == <<
    [movies |-> << <<E(film1, a, action)>>, <<E(film2, a, action)>> >>,
     series |-> << <<E(show, a, action)>> >>,
     teams  |-> << <<>>, <<E(match1, a, sport)>> >>],
    [movies |-> << <<E(film2, b, action)>>, <<E(film1, b, sport), E(film2, b, action)>> >>,
     series |-> << <<E(show, b, sport)>> >>,
     teams  |-> << <<E(match1, b, sport)>>, <<E(match2, b, sport)>> >>] >>

SomeChunks == 1..13

SomeTagLists == {{}, {action}, {action, sport}}

SomeRequests == {guest, r1, r2, r3} \cup SomeChunks

S(o, g, e, ad, i) == [overlap |-> o, generated |-> g, edits |-> e, admin |-> ad, import |-> i]

SomeModes ==
    { S(TRUE, TRUE, TRUE, TRUE, FALSE),
      S(FALSE, FALSE, FALSE, TRUE, FALSE),
      S(FALSE, FALSE, FALSE, FALSE, TRUE),
      S(TRUE, TRUE, FALSE, TRUE, TRUE) }

Interchangeable == Permutations({u1, u2}) \cup Permutations({r1, r2, r3})
=============================================================================
