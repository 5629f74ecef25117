----------------------------- MODULE MCDelivery -----------------------------
(* Model checking of NotificationDelivery.                                  *)
EXTENDS NotificationDelivery, TLC

\* Users and streams are interchangeable in the runs that check safety only.
Interchangeable == Permutations(Users) \cup Permutations(Emitters)

\* A page overflows with the third row at the earliest. Of the runs with three
\* rows those are explored where all of them are events for one user that are
\* neither rolled back nor deleted, in one thread, without a restart.
ThreeForOne ==
    \A n \in Notes : n = 3 /\ tx[n] # "none" =>
        /\ \A m \in Notes : kind[m] = "event" /\ to[m] = to[n]
                            /\ tx[m] \notin {"rolledBack", "deleted"}
        /\ \A e \in Emitters : user[e] \in {to[n], None}
        /\ poolSize <= 1 /\ crashes = 0
=============================================================================
