----------------------------- MODULE MCSessions -----------------------------
(* Model checking of JwtSessions.                                           *)
EXTENDS SessionProperties, TLC

\* Nothing tells users, roles, pairs or threads apart. (Sound here: every
\* formula checked with it is symmetric and none is a liveness property.)
Interchangeable == Permutations(Users) \cup Permutations(Roles)
                   \cup Permutations(Pairs) \cup Permutations(Requests)

\* Liveness has to hold while users go on logging in and refreshing, so a
\* pair that is over (expired, no key, no request holds it) may be generated
\* again: a finite set of pairs then stands for an endless supply of them.
Recycle(n) ==
    /\ n \in accessExpired \cap refreshExpired
    /\ accessByRefresh[n] = None
    /\ \A u \in Users : refreshByUser[u] # n
    /\ \A r \in Requests : n \notin {loc[r].old, loc[r].new, loc[r].refresh,
                                    loc[r].access}
    /\ claims' = [claims EXCEPT ![n] = None]
    /\ delivered' = delivered \ {n}
    /\ accessExpired' = accessExpired \ {n}
    /\ refreshExpired' = refreshExpired \ {n}
    /\ UNCHANGED <<account, registry, pc, loc, failures>>

LongRun == Init /\ [][Next \/ \E n \in Pairs : Recycle(n)]_vars /\ Fairness
=============================================================================
