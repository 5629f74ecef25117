---------------------------- MODULE SessionStore ----------------------------
(***************************************************************************)
(* What users and administrators are promised about sessions: an account   *)
(* has at most one open session, the session was opened with the account's *)
(* present role while it was not locked, and a change of role or of the    *)
(* lock flag only ever takes effect on an account whose session has been   *)
(* closed (README: locking an account or changing its role logs it out).   *)
(***************************************************************************)
CONSTANTS Users, Roles, Pairs

VARIABLES
    account,    \* role and lock flag of each user
    open        \* the open sessions, at most one for each user

vars == <<account, open>>

Rows     == [role : Roles, locked : BOOLEAN]
Sessions == [id : Pairs, owner : Users, role : Roles]

TypeOK == account \in [Users -> Rows] /\ open \subseteq Sessions

Init ==
    /\ account \in [Users -> [role : Roles, locked : {FALSE}]]
    /\ open = {}

SessionsOf(u) == {s \in open : s.owner = u}

Open(s) ==
    /\ SessionsOf(s.owner) = {}
    /\ account[s.owner] = [role |-> s.role, locked |-> FALSE]
    /\ open' = open \cup {s}
    /\ UNCHANGED account

\* Logout, replacement by a newer session, expiry.
Close(s) ==
    /\ open' = open \ {s}
    /\ UNCHANGED account

ChangeAccount(u, row) ==
    /\ SessionsOf(u) = {}
    /\ account' = [account EXCEPT ![u] = row]
    /\ UNCHANGED open

Next ==
    \/ \E s \in Sessions : Open(s)
    \/ \E s \in open : Close(s)
    \/ \E u \in Users, row \in Rows : ChangeAccount(u, row)

Spec == Init /\ [][Next]_vars
=============================================================================
