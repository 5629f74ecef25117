------------------------- MODULE SessionProperties -------------------------
(***************************************************************************)
(* Correctness of JwtSessions. The first group holds for any number of     *)
(* overlapping requests; the second needs the requests about one account   *)
(* to run one after another (Exclusive) and no half-finished request.      *)
(***************************************************************************)
EXTENDS JwtSessions

\* The authentication filter lets a request with access token n through, with
\* the role the token claims.
Accepted(n) == n \in accessActive \ accessExpired /\ ~claims[n].locked

\* Request r is registering pair n.
Registers(r, n) == ~Idle(r) /\ loc[r].new = n

\* The key of the access (refresh) token of pair n is still to be written.
AccessUnborn(n)  == claims[n] = None \/ \E r \in Requests : Registers(r, n)
RefreshUnborn(n) == claims[n] = None
                    \/ \E r \in Requests : Registers(r, n) /\ pc[r] # "setActive"

-----------------------------------------------------------------------------
(* With any overlap of requests, and with requests that break off.          *)

\* The registry never mixes sessions: the refresh token filed under a user was
\* issued to that user, a refresh token leads to the access token it was
\* generated with, and only generated tokens are on file. The keys are written
\* and deleted by many requests, from values read several commands earlier.
KeysMatchTokens ==
    /\ \A u \in Users : refreshByUser[u] # None =>
           claims[refreshByUser[u]] # None /\ claims[refreshByUser[u]].owner = u
    /\ \A n \in Pairs : accessByRefresh[n] # None =>
           accessByRefresh[n] = n /\ claims[n] # None
    /\ \A n \in accessActive : claims[n] # None

AccessStage  == [n \in Pairs |-> IF n \in accessActive THEN "live"
                                 ELSE IF AccessUnborn(n) THEN "unborn" ELSE "dead"]
RefreshStage == [n \in Pairs |-> IF accessByRefresh[n] # None THEN "live"
                                 ELSE IF RefreshUnborn(n) THEN "unborn" ELSE "dead"]

Lifecycle == INSTANCE TokenLifecycle WITH access <- AccessStage, refresh <- RefreshStage

\* Whatever overlaps, each token is honoured during one stretch of time only:
\* a refresh token that was spent, or an access token that was revoked, does
\* not come back through a registration that was still under way.
TokensDieOnce == Lifecycle!Spec

Registering == {"login", "refresh"}

\* What the position of a request says about its locals.
RequestOK(r) ==
    /\ Idle(r) => loc[r] = NullLocals
    /\ loc[r].new # None <=>
           loc[r].op \in Registering /\ pc[r] \notin {"idle", "loadUser"}
    /\ pc[r] \in {"loadUser", "rotateGet", "rotateDelAccess", "rotateDelRefresh"} =>
           loc[r].op = "refresh" /\ loc[r].old # None
    /\ pc[r] \in {"setByUser", "setByRefresh", "setActive"} => loc[r].op \in Registering
    /\ pc[r] = "commit" => loc[r].op \notin Registering
    /\ pc[r] \in {"getAccess", "delByUser", "delByRefresh"} => loc[r].refresh # None
    /\ loc[r].new # None =>
           claims[loc[r].new] # None /\ claims[loc[r].new].owner = loc[r].user

\* A pair under registration belongs to one request, and its keys are written
\* by that request alone, in order.
RegistrationOK ==
    /\ \A q, r \in Requests, n \in Pairs :
           Registers(q, n) /\ Registers(r, n) => q = r
    /\ \A r \in Requests, n \in Pairs : Registers(r, n) =>
           /\ n \notin accessActive
           /\ pc[r] # "setActive" => accessByRefresh[n] = None

\* The inductive invariant behind the theorems for overlapping requests: it
\* ties the keys in Redis to the commands each request has still to send.
RegistryInv ==
    /\ TypeOK
    /\ \A n \in delivered : claims[n] # None
    /\ \A r \in Requests : RequestOK(r)
    /\ KeysMatchTokens
    /\ RegistrationOK

\* A lock takes effect in the end even when it raced a login or a refresh: if
\* the account stays locked, the last accepted access token runs out.
LockEventuallyBites ==
    \A u \in Users :
        <>[](account[u].locked) =>
        <>[](\A n \in Pairs : claims[n] # None /\ claims[n].owner = u => ~Accepted(n))

-----------------------------------------------------------------------------
(* With Exclusive and MaxFailures = 0.                                      *)

\* One login at a time (SecurityConfig: the registry allows one concurrent
\* login): a user never has two access tokens on file.
SingleSession ==
    \A m, n \in accessActive : claims[m].owner = claims[n].owner => m = n

\* Forced logout on lock and on role change (README): a token that is accepted
\* agrees with the committed account row.
ForcedLogout ==
    \A n \in Pairs : Accepted(n) =>
        account[claims[n].owner] = [role |-> claims[n].role, locked |-> FALSE]

\* A lock is lifted by an unlock only: no other transaction that was under way
\* writes the old flag back.
OnlyUnlockUnlocks ==
    [][\A u \in Users : account[u].locked /\ ~account'[u].locked =>
           \E r \in Requests : /\ pc[r] = "commit" /\ pc'[r] = "idle"
                               /\ loc[r].op = "lock" /\ loc[r].user = u]_vars

OpenSessions == {[id |-> n, owner |-> claims[n].owner, role |-> claims[n].role] :
                    n \in {m \in Pairs : Accepted(m)}}

Store == INSTANCE SessionStore WITH open <- OpenSessions

\* The registry implements the session store users are promised.
ImplementsStore == Store!Spec

\* The inductive invariant behind the theorems for requests that do not overlap,
\* from here to SerialInv: it says which keys lead to a live access token and
\* what each request under way knows of the keys and of the row of its user.

\* The access tokens of user u that the filter may find.
Live(u) == {n \in accessActive : claims[n].owner = u}

OneAtATime ==
    \A q, r \in Requests : ~Idle(q) /\ ~Idle(r) /\ loc[q].user = loc[r].user => q = r

\* The access token of a pair expires first, and neither while it is registered.
ExpiryOK ==
    /\ refreshExpired \subseteq accessExpired \ accessActive
    /\ \A n \in accessExpired : claims[n] # None /\ \A r \in Requests : ~Registers(r, n)

\* A live access token can be found by its user, unless a request about the user
\* is about to delete it.
Filed(n) ==
    LET u == claims[n].owner
    IN  \/ refreshByUser[u] = n /\ accessByRefresh[n] = n
        \/ \E r \in Requests : pc[r] \in {"delByRefresh", "delActive"} /\ loc[r].user = u

\* It tells the role of the committed row, and that it is not locked only if so.
Agrees(n) ==
    LET w == account[claims[n].owner]
    IN  w.role = claims[n].role /\ (w.locked => claims[n].locked)

\* No session is left when the request goes on to open one or to commit a
\* change that ends it.
Cleared(r) ==
    \/ pc[r] \in {"setByUser", "setByRefresh", "setActive"}
    \/ pc[r] = "commit" /\ (loc[r].op = "role" \/ (loc[r].op = "lock" /\ loc[r].row.locked))

\* What request r knows of its user.
Owns(r) == \A n \in {loc[r].old, loc[r].refresh, loc[r].access} \ {None} :
               claims[n] # None /\ claims[n].owner = loc[r].user

KnowsSession(r) ==
    LET u == loc[r].user
    IN  /\ pc[r] = "rotateDelAccess" => loc[r].access = loc[r].old
        /\ pc[r] = "rotateDelRefresh" => loc[r].old \notin accessActive
        /\ pc[r] = "getAccess" => Live(u) \subseteq {loc[r].refresh}
        /\ pc[r] \in {"delByUser", "delByRefresh", "delActive"} => Live(u) \subseteq {loc[r].access}
        /\ Cleared(r) => Live(u) = {}
        /\ pc[r] \in {"setByRefresh", "setActive"} => refreshByUser[u] = loc[r].new
        /\ pc[r] = "setActive" => accessByRefresh[loc[r].new] = loc[r].new

KnowsRow(r) ==
    LET w == account[loc[r].user]
    IN  /\ loc[r].new # None => /\ claims[loc[r].new].role = w.role
                                /\ claims[loc[r].new].locked = w.locked
        /\ loc[r].op = "role" => loc[r].row.locked = w.locked
        /\ loc[r].op = "lock" => loc[r].row = [w EXCEPT !.locked = ~w.locked]
        /\ loc[r].op = "profile" => loc[r].row = w
        /\ pc[r] = "commit" => loc[r].op # "logout"

SerialInv ==
    /\ RegistryInv
    /\ OneAtATime /\ ExpiryOK
    /\ \A n \in accessActive : Filed(n) /\ Agrees(n)
    /\ \A r \in Requests : ~Idle(r) => Owns(r) /\ KnowsSession(r) /\ KnowsRow(r)
=============================================================================
