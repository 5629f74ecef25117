---------------------------- MODULE JwtSessions ----------------------------
(***************************************************************************)
(* Log-in sessions of the application: the Redis registry of issued JWT    *)
(* pairs (RedisRegistry), the endpoints that use it (login, OAuth2 login,  *)
(* token refresh, logout) and the account changes that must end a session  *)
(* (role change, lock).                                                    *)
(*                                                                         *)
(* A pair is an access token and the refresh token generated with it.      *)
(* Every Redis command is one step, because nothing in the code makes two  *)
(* of them atomic; every request is a process with a program counter, and  *)
(* a database transaction works on the row it read and writes the whole    *)
(* row back when it commits, as Hibernate does for this entity.            *)
(***************************************************************************)
EXTENDS FiniteSets, Naturals

CONSTANTS
    Users,        \* accounts
    Roles,        \* USER, ADMIN
    Pairs,        \* the (access, refresh) token pairs that can be generated
    Requests,     \* request threads
    None,         \* an absent key or a null reference
    Exclusive,    \* TRUE: requests about one account never overlap
    MaxFailures,  \* how many requests may break off half way
    MaxExpiries   \* how many pairs may run out of time

Rows   == [role : Roles, locked : BOOLEAN]
Claims == [owner : Users, role : Roles, locked : BOOLEAN]

ASSUME SessionAssumption ==
    /\ Users # {} /\ Roles # {}
    /\ None \notin Pairs \cup Claims
    /\ Exclusive \in BOOLEAN
    /\ MaxFailures \in Nat
    /\ MaxExpiries \in Nat

VARIABLES
    account,          \* committed row of each user: role and lock flag
    claims,           \* claims of each generated pair; None: not generated yet
    delivered,        \* pairs whose tokens a client has received
    accessExpired,    \* pairs whose access JWT is past its expiry
    refreshExpired,   \* pairs whose refresh JWT is past its expiry
    refreshByUser,    \* jwt:refresh:user:{userId}
    accessByRefresh,  \* jwt:access:by_refresh:{refresh}
    accessActive,     \* the access tokens with a key jwt:access:active:{access}
    pc,               \* next step of each request
    loc,              \* local variables of each request
    failures          \* requests broken off so far

registry  == <<refreshByUser, accessByRefresh, accessActive>>
tokens    == <<claims, delivered, accessExpired, refreshExpired>>
vars == <<account, claims, delivered, accessExpired, refreshExpired,
          refreshByUser, accessByRefresh, accessActive, pc, loc, failures>>

Ops == {"login", "refresh", "logout", "role", "lock", "profile"}

Steps == {"idle", "loadUser", "rotateGet", "rotateDelAccess", "rotateDelRefresh",
          "getRefresh", "getAccess", "delByUser", "delByRefresh", "delActive",
          "setByUser", "setByRefresh", "setActive", "commit"}

\* op and user: what the request does and for whom; row: the entity to write;
\* old: the refresh token being rotated; new: the pair being registered;
\* refresh, access: what invalidate and rotate read from Redis.
Locals == [op : Ops, user : Users, row : Rows,
           old : Pairs \cup {None}, new : Pairs \cup {None},
           refresh : Pairs \cup {None}, access : Pairs \cup {None}]

NoRow == CHOOSE w \in Rows : TRUE

NullLocals == [op |-> "profile", user |-> CHOOSE u \in Users : TRUE,
               row |-> NoRow, old |-> None, new |-> None,
               refresh |-> None, access |-> None]

TypeOK ==
    /\ account \in [Users -> Rows]
    /\ claims \in [Pairs -> Claims \cup {None}]
    /\ delivered \subseteq Pairs
    /\ accessExpired \subseteq Pairs
    /\ refreshExpired \subseteq Pairs
    /\ refreshByUser \in [Users -> Pairs \cup {None}]
    /\ accessByRefresh \in [Pairs -> Pairs \cup {None}]
    /\ accessActive \subseteq Pairs
    /\ pc \in [Requests -> Steps]
    /\ loc \in [Requests -> Locals]
    /\ failures \in 0..MaxFailures

Init ==
    /\ account \in [Users -> [role : Roles, locked : {FALSE}]]
    /\ claims = [n \in Pairs |-> None]
    /\ delivered = {}
    /\ accessExpired = {}
    /\ refreshExpired = {}
    /\ refreshByUser = [u \in Users |-> None]
    /\ accessByRefresh = [n \in Pairs |-> None]
    /\ accessActive = {}
    /\ pc = [r \in Requests |-> "idle"]
    /\ loc = [r \in Requests |-> NullLocals]
    /\ failures = 0

-----------------------------------------------------------------------------
(* Request bookkeeping.                                                     *)

Idle(r) == pc[r] = "idle"

\* A request about user u may start on thread r.
MayStart(r, u) ==
    /\ Idle(r)
    /\ Exclusive => \A q \in Requests : Idle(q) \/ loc[q].user # u

\* Request r goes to its next step with these locals; a request that is
\* over forgets them. (Locals are set back to None after their last use.)
Step(r, step, locals) ==
    /\ pc' = [pc EXCEPT ![r] = step]
    /\ loc' = [loc EXCEPT ![r] = IF step = "idle" THEN NullLocals ELSE locals]

Goto(r, step) == Step(r, step, loc[r])

Begin(r, step, op, u, row, old, new) ==
    Step(r, step, [op |-> op, user |-> u, row |-> row, old |-> old, new |-> new,
                   refresh |-> None, access |-> None])

\* What follows RedisRegistry.invalidateJwtInformationByUserId in its callers.
AfterInvalidate(r) ==
    CASE loc[r].op \in {"login", "refresh"} -> "setByUser"
      [] loc[r].op = "logout"               -> "idle"
      [] OTHER                              -> "commit"

\* Mutation: token ids are not unique, so an earlier pair can be generated again.
GenerateWithoutUuid(n, u, row) ==
    /\ claims' = [claims EXCEPT ![n] = [owner |-> u, role |-> row.role,
                                        locked |-> row.locked]]
    /\ UNCHANGED <<delivered, accessExpired, refreshExpired>>

\* JwtTokenProvider signs a pair that carries the user's row as claims.
Generate(n, u, row) ==
    /\ claims[n] = None
    /\ claims' = [claims EXCEPT ![n] = [owner |-> u, role |-> row.role,
                                        locked |-> row.locked]]
    /\ UNCHANGED <<delivered, accessExpired, refreshExpired>>

-----------------------------------------------------------------------------
(* Endpoints: the part of each handler before its first registry command.  *)

\* The request authenticated (temporary password or stored password); both
\* providers refuse a locked account.
Login(r, u, n) ==
    /\ MayStart(r, u)
    /\ ~account[u].locked
    /\ Generate(n, u, account[u])
    /\ Begin(r, "getRefresh", "login", u, NoRow, None, n)
    /\ UNCHANGED <<account, registry, failures>>

\* The OAuth2 user service never looks at the lock flag.
Oauth2Login(r, u, n) ==
    /\ MayStart(r, u)
    /\ Generate(n, u, account[u])
    /\ Begin(r, "getRefresh", "login", u, NoRow, None, n)
    /\ UNCHANGED <<account, registry, failures>>

\* AuthService.refreshToken: the presented token is genuine, unexpired and
\* known to the registry.
Refresh(r, n) ==
    /\ n \in delivered \ refreshExpired
    /\ accessByRefresh[n] # None
    /\ MayStart(r, claims[n].owner)
    /\ Begin(r, "loadUser", "refresh", claims[n].owner, NoRow, n, None)
    /\ UNCHANGED <<account, tokens, registry, failures>>

\* Mutation: the new tokens copy the claims of the old one.
CopyClaims(r, n) ==
    /\ pc[r] = "loadUser"
    /\ claims[n] = None
    /\ claims' = [claims EXCEPT ![n] = claims[loc[r].old]]
    /\ Step(r, "rotateGet", [loc[r] EXCEPT !.new = n])
    /\ UNCHANGED <<account, delivered, accessExpired, refreshExpired, registry,
                   failures>>

\* loadUserByUsername, then both tokens of the new pair.
LoadUser(r, n) ==
    /\ pc[r] = "loadUser"
    /\ ~account[loc[r].user].locked
    /\ Generate(n, loc[r].user, account[loc[r].user])
    /\ Step(r, "rotateGet", [loc[r] EXCEPT !.new = n])
    /\ UNCHANGED <<account, registry, failures>>

\* LockedException: the refresh ends, the old pair stays as it is.
RefuseLocked(r) ==
    /\ pc[r] = "loadUser"
    /\ account[loc[r].user].locked
    /\ Goto(r, "idle")
    /\ UNCHANGED <<account, tokens, registry, failures>>

\* The logout handler needs only a genuine, unexpired access token.
Logout(r, n) ==
    /\ n \in delivered \ accessExpired
    /\ MayStart(r, claims[n].owner)
    /\ Begin(r, "getRefresh", "logout", claims[n].owner, NoRow, None, None)
    /\ UNCHANGED <<account, tokens, registry, failures>>

\* Mutation: the row is rebuilt for the new role, with the lock flag at its
\* default.
UpdateRoleResetsLock(r, u, role) ==
    /\ MayStart(r, u)
    /\ account[u].role # role
    /\ Begin(r, "getRefresh", "role", u, [role |-> role, locked |-> FALSE],
             None, None)
    /\ UNCHANGED <<account, tokens, registry, failures>>

\* Mutation: a role change leaves the sessions alone.
UpdateRoleKeepsSession(r, u, role) ==
    /\ MayStart(r, u)
    /\ account[u].role # role
    /\ Begin(r, "commit", "role", u, [account[u] EXCEPT !.role = role], None, None)
    /\ UNCHANGED <<account, tokens, registry, failures>>

\* UserService.updateRole returns early when the role is already there.
UpdateRole(r, u, role) ==
    /\ MayStart(r, u)
    /\ account[u].role # role
    /\ Begin(r, "getRefresh", "role", u, [account[u] EXCEPT !.role = role],
             None, None)
    /\ UNCHANGED <<account, tokens, registry, failures>>

\* Mutation: the registry is told about unlocking instead of locking.
UpdateLockedInverted(r, u, locked) ==
    /\ MayStart(r, u)
    /\ account[u].locked # locked
    /\ Begin(r, IF locked THEN "commit" ELSE "getRefresh", "lock", u,
             [account[u] EXCEPT !.locked = locked], None, None)
    /\ UNCHANGED <<account, tokens, registry, failures>>

\* UserService.updateLocked touches the registry only when it locks.
UpdateLocked(r, u, locked) ==
    /\ MayStart(r, u)
    /\ account[u].locked # locked
    /\ Begin(r, IF locked THEN "getRefresh" ELSE "commit", "lock", u,
             [account[u] EXCEPT !.locked = locked], None, None)
    /\ UNCHANGED <<account, tokens, registry, failures>>

\* changePassword and updateProfile: the columns they set are not modelled,
\* the write of the row they read is.
UpdateProfile(r, u) ==
    /\ MayStart(r, u)
    /\ Begin(r, "commit", "profile", u, account[u], None, None)
    /\ UNCHANGED <<account, tokens, registry, failures>>

\* The transaction writes every column of the entity it loaded.
Commit(r) ==
    /\ pc[r] = "commit"
    /\ account' = [account EXCEPT ![loc[r].user] = loc[r].row]
    /\ Goto(r, "idle")
    /\ UNCHANGED <<tokens, registry, failures>>

-----------------------------------------------------------------------------
(* RedisRegistry.rotateJwtInformation, up to its call of register.         *)

RotateGet(r) ==
    /\ pc[r] = "rotateGet"
    /\ LET a == accessByRefresh[loc[r].old]
       IN  Step(r, IF a = None THEN "rotateDelRefresh" ELSE "rotateDelAccess",
                [loc[r] EXCEPT !.access = a])
    /\ UNCHANGED <<account, tokens, registry, failures>>

RotateDelAccess(r) ==
    /\ pc[r] = "rotateDelAccess"
    /\ accessActive' = accessActive \ {loc[r].access}
    /\ Goto(r, "rotateDelRefresh")
    /\ UNCHANGED <<account, tokens, refreshByUser, accessByRefresh, failures>>

RotateDelRefresh(r) ==
    /\ pc[r] = "rotateDelRefresh"
    /\ accessByRefresh' = [accessByRefresh EXCEPT ![loc[r].old] = None]
    /\ Step(r, "getRefresh", [loc[r] EXCEPT !.old = None, !.access = None])
    /\ UNCHANGED <<account, tokens, refreshByUser, accessActive, failures>>

-----------------------------------------------------------------------------
(* RedisRegistry.invalidateJwtInformationByUserId.                          *)

GetRefresh(r) ==
    /\ pc[r] = "getRefresh"
    /\ LET f == refreshByUser[loc[r].user]
       IN  Step(r, IF f = None THEN AfterInvalidate(r) ELSE "getAccess",
                [loc[r] EXCEPT !.refresh = f])
    /\ UNCHANGED <<account, tokens, registry, failures>>

GetAccess(r) ==
    /\ pc[r] = "getAccess"
    /\ Step(r, "delByUser", [loc[r] EXCEPT !.access = accessByRefresh[loc[r].refresh]])
    /\ UNCHANGED <<account, tokens, registry, failures>>

DelByUser(r) ==
    /\ pc[r] = "delByUser"
    /\ refreshByUser' = [refreshByUser EXCEPT ![loc[r].user] = None]
    /\ Goto(r, "delByRefresh")
    /\ UNCHANGED <<account, tokens, accessByRefresh, accessActive, failures>>

DelByRefresh(r) ==
    /\ pc[r] = "delByRefresh"
    /\ accessByRefresh' = [accessByRefresh EXCEPT ![loc[r].refresh] = None]
    /\ Step(r, IF loc[r].access = None THEN AfterInvalidate(r) ELSE "delActive",
            [loc[r] EXCEPT !.refresh = None])
    /\ UNCHANGED <<account, tokens, refreshByUser, accessActive, failures>>

\* Mutation: invalidate forgets the key of the access token.
DelActiveForgotten(r) ==
    /\ pc[r] = "delActive"
    /\ Step(r, AfterInvalidate(r), [loc[r] EXCEPT !.access = None])
    /\ UNCHANGED <<account, tokens, registry, failures>>

DelActive(r) ==
    /\ pc[r] = "delActive"
    /\ accessActive' = accessActive \ {loc[r].access}
    /\ Step(r, AfterInvalidate(r), [loc[r] EXCEPT !.access = None])
    /\ UNCHANGED <<account, tokens, refreshByUser, accessByRefresh, failures>>

-----------------------------------------------------------------------------
(* RedisRegistry.registerJwtInformation, after its call of invalidate.      *)

SetByUser(r) ==
    /\ pc[r] = "setByUser"
    /\ refreshByUser' = [refreshByUser EXCEPT ![loc[r].user] = loc[r].new]
    /\ Goto(r, "setByRefresh")
    /\ UNCHANGED <<account, tokens, accessByRefresh, accessActive, failures>>

SetByRefresh(r) ==
    /\ pc[r] = "setByRefresh"
    /\ accessByRefresh' = [accessByRefresh EXCEPT ![loc[r].new] = loc[r].new]
    /\ Goto(r, "setActive")
    /\ UNCHANGED <<account, tokens, refreshByUser, accessActive, failures>>

\* The last command; the response now reaches the client.
SetActive(r) ==
    /\ pc[r] = "setActive"
    /\ accessActive' = accessActive \cup {loc[r].new}
    /\ delivered' = delivered \cup {loc[r].new}
    /\ Goto(r, "idle")
    /\ UNCHANGED <<account, claims, accessExpired, refreshExpired,
                   refreshByUser, accessByRefresh, failures>>

-----------------------------------------------------------------------------
(* A request breaks off: a Redis command or the transaction throws. The     *)
(* Redis commands already sent stay, the row is not written. The login      *)
(* handlers have added the tokens to the response before they register.     *)

Break(r) ==
    /\ ~Idle(r)
    /\ failures < MaxFailures
    /\ failures' = failures + 1
    /\ delivered' = IF loc[r].op = "login" THEN delivered \cup {loc[r].new}
                                           ELSE delivered
    /\ Goto(r, "idle")
    /\ UNCHANGED <<account, claims, accessExpired, refreshExpired, registry>>

(* Time. A JWT expires; its keys, whose TTLs were computed from it, follow. *)
(* No request takes as long as a token lives, so nothing expires while its  *)
(* pair is being registered, and the access lifetime is the shorter one.    *)

Settled(n) ==
    /\ claims[n] # None
    /\ \A r \in Requests : Idle(r) \/ loc[r].new # n

AccessJwtExpires(n) ==
    /\ Settled(n)
    /\ n \notin accessExpired
    /\ Cardinality(accessExpired) < MaxExpiries
    /\ accessExpired' = accessExpired \cup {n}
    /\ UNCHANGED <<account, claims, delivered, refreshExpired, registry, pc, loc,
                   failures>>

RefreshJwtExpires(n) ==
    /\ n \in accessExpired \ (accessActive \cup refreshExpired)
    /\ refreshExpired' = refreshExpired \cup {n}
    /\ UNCHANGED <<account, claims, delivered, accessExpired, registry, pc, loc,
                   failures>>

AccessKeyExpires(n) ==
    /\ n \in accessActive \cap accessExpired
    /\ accessActive' = accessActive \ {n}
    /\ UNCHANGED <<account, tokens, refreshByUser, accessByRefresh, pc, loc, failures>>

UserKeyExpires(u) ==
    /\ refreshByUser[u] \in refreshExpired
    /\ refreshByUser' = [refreshByUser EXCEPT ![u] = None]
    /\ UNCHANGED <<account, tokens, accessByRefresh, accessActive, pc, loc, failures>>

RefreshKeyExpires(n) ==
    /\ n \in refreshExpired
    /\ accessByRefresh[n] # None
    /\ accessByRefresh' = [accessByRefresh EXCEPT ![n] = None]
    /\ UNCHANGED <<account, tokens, refreshByUser, accessActive, pc, loc, failures>>

-----------------------------------------------------------------------------

Arrive(r) ==
    \/ \E u \in Users, n \in Pairs : Login(r, u, n) \/ Oauth2Login(r, u, n)
    \/ \E n \in Pairs : Refresh(r, n) \/ Logout(r, n)
    \/ \E u \in Users, role \in Roles : UpdateRole(r, u, role)
    \/ \E u \in Users, locked \in BOOLEAN : UpdateLocked(r, u, locked)
    \/ \E u \in Users : UpdateProfile(r, u)

Continue(r) ==
    \/ \E n \in Pairs : LoadUser(r, n)
    \/ RefuseLocked(r)
    \/ RotateGet(r) \/ RotateDelAccess(r) \/ RotateDelRefresh(r)
    \/ GetRefresh(r) \/ GetAccess(r)
    \/ DelByUser(r) \/ DelByRefresh(r) \/ DelActive(r)
    \/ SetByUser(r) \/ SetByRefresh(r) \/ SetActive(r)
    \/ Commit(r)

Time ==
    \/ \E n \in Pairs : \/ AccessJwtExpires(n) \/ RefreshJwtExpires(n)
                        \/ AccessKeyExpires(n) \/ RefreshKeyExpires(n)
    \/ \E u \in Users : UserKeyExpires(u)

Next ==
    \/ \E r \in Requests : Arrive(r) \/ Continue(r) \/ Break(r)
    \/ Time

Spec == Init /\ [][Next]_vars

\* Threads keep running and clocks keep ticking.
Fairness ==
    /\ \A r \in Requests : WF_vars(Continue(r))
    /\ \A n \in Pairs : WF_vars(AccessJwtExpires(n))
=============================================================================
