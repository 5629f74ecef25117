--------------------------- MODULE SessionProofs ---------------------------
(***************************************************************************)
(* Theorems about JwtSessions, for any users, pairs and number of threads: *)
(* first what holds however they overlap and break off, with the           *)
(* refinement of TokenLifecycle, then what holds if they come one by one   *)
(* and none breaks off, with the refinement of SessionStore.               *)
(***************************************************************************)
EXTENDS SessionProperties, TLAPS

LEMMA NullLocalsType ==
  /\ NoRow \in Rows
  /\ NullLocals \in Locals
  /\ NullLocals.new = None
  <1>1. PICK x \in Roles : TRUE
    BY SessionAssumption
  <1>2. [role |-> x, locked |-> FALSE] \in Rows
    BY <1>1 DEF Rows
  <1>3. NoRow \in Rows
    BY <1>2 DEF NoRow
  <1>4. (CHOOSE u \in Users : TRUE) \in Users
    BY SessionAssumption
  <1>5. QED
    BY <1>3, <1>4 DEF NullLocals, Locals, Ops

LEMMA AfterInvalidateType ==
  ASSUME NEW r \in Requests
  PROVE  /\ AfterInvalidate(r) \in {"setByUser", "idle", "commit"}
         /\ AfterInvalidate(r) = "setByUser" <=> loc[r].op \in Registering
  BY DEF AfterInvalidate, Registering

\* What one step of request r does to the program counters and locals.
LEMMA StepEffect ==
  ASSUME TypeOK, NEW r \in Requests, NEW s \in Steps, NEW l \in Locals, Step(r, s, l)
  PROVE  /\ pc' \in [Requests -> Steps]
         /\ loc' \in [Requests -> Locals]
         /\ pc'[r] = s
         /\ loc'[r] = IF s = "idle" THEN NullLocals ELSE l
         /\ \A q \in Requests \ {r} : pc'[q] = pc[q] /\ loc'[q] = loc[q]
  BY NullLocalsType DEF TypeOK, Step

LEMMA InvInit == Init => RegistryInv
  <1> SUFFICES ASSUME Init PROVE RegistryInv
    OBVIOUS
  <1>1. TypeOK
    <2>1. [role : Roles, locked : {FALSE}] \subseteq Rows
      BY DEF Rows
    <2>2. account \in [Users -> Rows]
      BY <2>1 DEF Init
    <2>3. QED
      BY <2>2, NullLocalsType, SessionAssumption DEF Init, TypeOK, Steps
  <1>2. \A r \in Requests : RequestOK(r)
    BY NullLocalsType DEF Init, RequestOK, Idle
  <1>3. KeysMatchTokens /\ RegistrationOK
    BY DEF Init, KeysMatchTokens, RegistrationOK, Registers, Idle
  <1>4. QED
    BY <1>1, <1>2, <1>3 DEF RegistryInv, Init

\* A request cannot invalidate what another one has found out, as long as
\* generated pairs keep their claims.
LEMMA OthersStayOK ==
  ASSUME RegistryInv, NEW r \in Requests,
         \A q \in Requests \ {r} : pc'[q] = pc[q] /\ loc'[q] = loc[q],
         \A n \in Pairs : claims[n] # None => claims'[n] = claims[n]
  PROVE  \A q \in Requests \ {r} : RequestOK(q)'
  <1> SUFFICES ASSUME NEW q \in Requests \ {r} PROVE RequestOK(q)'
    OBVIOUS
  <1>1. RequestOK(q) /\ loc[q] \in Locals
    BY DEF RegistryInv, TypeOK
  <1>2. loc[q].new # None => loc[q].new \in Pairs
    BY <1>1 DEF Locals
  <1>3. QED
    BY <1>1, <1>2 DEF RequestOK, Idle

\* A step of r that starts no registration keeps the registrations in order if
\* the keys it adds are those of the pair r registers.
LEMMA RegistrationKept ==
  ASSUME RegistryInv, NEW r \in Requests,
         \A q \in Requests \ {r} : pc'[q] = pc[q] /\ loc'[q] = loc[q],
         \A n \in Pairs : Registers(r, n)' => Registers(r, n),
         \A n \in accessActive' \ accessActive : Registers(r, n) /\ ~Registers(r, n)',
         \A n \in Pairs : accessByRefresh'[n] # None =>
             accessByRefresh[n] # None \/ (Registers(r, n) /\ pc'[r] = "setActive"),
         pc[r] = "setActive" => pc'[r] \in {"setActive", "idle"}
  PROVE  RegistrationOK'
  <1>1. \A q \in Requests, n \in Pairs : Registers(q, n)' => Registers(q, n)
    BY DEF Registers, Idle
  <1>2. ASSUME NEW q \in Requests, NEW n \in Pairs, Registers(q, n)'
        PROVE  n \notin accessActive' /\ (pc'[q] # "setActive" => accessByRefresh'[n] = None)
    <2>1. Registers(q, n) /\ n \notin accessActive
      BY <1>1, <1>2 DEF RegistryInv, RegistrationOK
    <2>2. Registers(r, n) => q = r
      BY <2>1 DEF RegistryInv, RegistrationOK
    <2>3. n \notin accessActive'
      BY <1>2, <2>1, <2>2
    <2>4. ASSUME pc'[q] # "setActive" PROVE accessByRefresh'[n] = None
      <3>1. pc[q] # "setActive"
        BY <1>2, <2>4 DEF Registers, Idle
      <3>2. accessByRefresh[n] = None
        BY <2>1, <3>1 DEF RegistryInv, RegistrationOK
      <3>3. QED
        BY <2>2, <2>4, <3>2
    <2>5. QED
      BY <2>3, <2>4
  <1>3. \A p, q \in Requests, n \in Pairs : Registers(p, n)' /\ Registers(q, n)' => p = q
    BY <1>1 DEF RegistryInv, RegistrationOK
  <1>4. QED
    BY <1>2, <1>3 DEF RegistrationOK

\* A request that starts to register a freshly generated pair keeps the
\* registrations in order.
LEMMA FreshPairRegistered ==
  ASSUME RegistryInv, NEW r \in Requests, NEW n \in Pairs, claims[n] = None,
         \A q \in Requests \ {r} : pc'[q] = pc[q] /\ loc'[q] = loc[q],
         loc'[r].new = n,
         UNCHANGED <<accessActive, accessByRefresh>>
  PROVE  RegistrationOK'
  <1>1. \A q \in Requests : ~Registers(q, n)
    BY SessionAssumption DEF RegistryInv, RequestOK, Registers, Idle
  <1>2. \A q \in Requests, m \in Pairs :
            Registers(q, m)' => (Registers(q, m) /\ q # r) \/ (q = r /\ m = n)
    BY DEF Registers, Idle
  <1>3. n \notin accessActive /\ accessByRefresh[n] = None
    BY DEF RegistryInv, KeysMatchTokens
  <1>4. \A q, p \in Requests, m \in Pairs :
            Registers(q, m)' /\ Registers(p, m)' => q = p
    BY <1>1, <1>2 DEF RegistryInv, RegistrationOK
  <1>5. ASSUME NEW q \in Requests, NEW m \in Pairs, Registers(q, m)'
        PROVE  m \notin accessActive' /\ (pc'[q] # "setActive" => accessByRefresh'[m] = None)
    BY <1>2, <1>3, <1>5 DEF RegistryInv, RegistrationOK
  <1>6. QED
    BY <1>4, <1>5 DEF RegistrationOK

\* Starting a login generates a pair that nothing else refers to yet.
LEMMA LoginInv ==
  ASSUME RegistryInv, NEW r \in Requests, NEW u \in Users, NEW n \in Pairs,
         Login(r, u, n) \/ Oauth2Login(r, u, n)
  PROVE  RegistryInv'
  <1> DEFINE l == [op |-> "login", user |-> u, row |-> NoRow, old |-> None,
                   new |-> n, refresh |-> None, access |-> None]
  <1>1. l \in Locals
    BY NullLocalsType DEF Locals, Ops
  <1>2. Step(r, "getRefresh", l) /\ Idle(r) /\ claims[n] = None
    BY DEF Login, Oauth2Login, Begin, MayStart, Generate
  <1>3. /\ pc' \in [Requests -> Steps]
        /\ loc' \in [Requests -> Locals]
        /\ pc'[r] = "getRefresh" /\ loc'[r] = l
        /\ \A q \in Requests \ {r} : pc'[q] = pc[q] /\ loc'[q] = loc[q]
    <2> HIDE DEF l
    <2> QED BY <1>1, <1>2, StepEffect DEF RegistryInv, Steps
  <1>4. PICK c \in Claims : c.owner = u /\ claims' = [claims EXCEPT ![n] = c]
    BY DEF Login, Oauth2Login, Generate, RegistryInv, TypeOK, Rows, Claims
  <1>5. UNCHANGED <<account, delivered, accessExpired, refreshExpired,
                    refreshByUser, accessByRefresh, accessActive, failures>>
    BY DEF Login, Oauth2Login, Generate, registry
  <1>6. TypeOK'
    BY <1>3, <1>4, <1>5 DEF RegistryInv, TypeOK
  <1>7. \A q \in Requests : RequestOK(q)'
    <2>1. \A m \in Pairs : claims[m] # None => claims'[m] = claims[m]
      BY <1>2, <1>4 DEF RegistryInv, TypeOK
    <2>2. \A q \in Requests \ {r} : RequestOK(q)'
      BY <1>3, <2>1, OthersStayOK
    <2>3. claims'[n] # None /\ claims'[n].owner = u
      BY <1>4, SessionAssumption DEF RegistryInv, TypeOK, Claims
    <2>4. RequestOK(r)'
      BY <1>3, <2>3, SessionAssumption DEF RequestOK, Idle, Registering
    <2>5. QED
      BY <2>2, <2>4
  <1>9. KeysMatchTokens'
    BY <1>2, <1>4, <1>5 DEF RegistryInv, KeysMatchTokens, TypeOK
  <1>10. RegistrationOK'
    BY <1>2, <1>3, <1>5, FreshPairRegistered
  <1>11. QED
    BY <1>2, <1>4, <1>5, <1>6, <1>7, <1>9, <1>10 DEF RegistryInv, TypeOK

\* The other requests that can arrive register nothing yet.
LEMMA ArriveInv ==
  ASSUME RegistryInv, NEW r \in Requests, Arrive(r)
  PROVE  RegistryInv'
  <1>1. CASE \E u \in Users, n \in Pairs : Login(r, u, n) \/ Oauth2Login(r, u, n)
    BY <1>1, LoginInv
  <1>2. ASSUME NEW s \in {"loadUser", "getRefresh", "commit"}, NEW l \in Locals,
               Idle(r), Step(r, s, l), l.new = None,
               s = "loadUser" <=> l.op = "refresh", l.op # "login",
               s = "loadUser" => l.old # None,
               UNCHANGED <<account, tokens, registry, failures>>
        PROVE  RegistryInv'
    <2>1. /\ pc' \in [Requests -> Steps]
          /\ loc' \in [Requests -> Locals]
          /\ pc'[r] = s /\ loc'[r] = l
          /\ \A q \in Requests \ {r} : pc'[q] = pc[q] /\ loc'[q] = loc[q]
      BY <1>2, StepEffect DEF RegistryInv, Steps
    <2>2. TypeOK' /\ KeysMatchTokens' /\ \A n \in delivered' : claims'[n] # None
      BY <1>2, <2>1 DEF RegistryInv, TypeOK, KeysMatchTokens, tokens, registry
    <2>3. RequestOK(r)'
      BY <1>2, <2>1 DEF RequestOK, Idle, Registering
    <2>4. \A q \in Requests : RequestOK(q)'
      BY <1>2, <2>1, <2>3, OthersStayOK DEF tokens
    <2>5. \A n \in Pairs : ~Registers(r, n)'
      BY <1>2, <2>1, SessionAssumption DEF Registers
    <2>6. accessActive' = accessActive /\ accessByRefresh' = accessByRefresh
      BY <1>2 DEF registry
    <2>7. pc[r] = "setActive" => pc'[r] \in {"setActive", "idle"}
      BY <1>2 DEF Idle
    <2>8. RegistrationOK'
      <3>1. \A n \in Pairs : Registers(r, n)' => Registers(r, n)
        BY <2>5
      <3>2. \A n \in accessActive' \ accessActive : Registers(r, n) /\ ~Registers(r, n)'
        BY <2>6
      <3>3. \A n \in Pairs : accessByRefresh'[n] # None =>
               accessByRefresh[n] # None \/ (Registers(r, n) /\ pc'[r] = "setActive")
        BY <2>6
      <3>4. QED
        BY <2>1, <2>7, <3>1, <3>2, <3>3, RegistrationKept
    <2>9. QED
      BY <2>2, <2>4, <2>8 DEF RegistryInv
  <1>3. CASE \E n \in Pairs : Refresh(r, n) \/ Logout(r, n)
    <2>1. PICK n \in Pairs : Refresh(r, n) \/ Logout(r, n)
      BY <1>3
    <2>2. claims[n].owner \in Users
      BY <2>1 DEF Refresh, Logout, RegistryInv, TypeOK, Claims
    <2>3. CASE Refresh(r, n)
      <3> DEFINE l == [op |-> "refresh", user |-> claims[n].owner, row |-> NoRow,
                       old |-> n, new |-> None, refresh |-> None, access |-> None]
      <3>1. l \in Locals /\ l.new = None /\ l.op = "refresh" /\ l.old # None
        BY <2>2, NullLocalsType, SessionAssumption DEF Locals, Ops
      <3>2. Idle(r) /\ Step(r, "loadUser", l) /\ UNCHANGED <<account, tokens, registry, failures>>
        BY <2>3 DEF Refresh, MayStart, Begin
      <3> HIDE DEF l
      <3>3. QED
        BY <1>2, <3>1, <3>2
    <2>4. CASE Logout(r, n)
      <3> DEFINE l == [op |-> "logout", user |-> claims[n].owner, row |-> NoRow,
                       old |-> None, new |-> None, refresh |-> None, access |-> None]
      <3>1. l \in Locals /\ l.new = None /\ l.op = "logout"
        BY <2>2, NullLocalsType DEF Locals, Ops
      <3>2. Idle(r) /\ Step(r, "getRefresh", l) /\ UNCHANGED <<account, tokens, registry, failures>>
        BY <2>4 DEF Logout, MayStart, Begin
      <3> HIDE DEF l
      <3>3. QED
        BY <1>2, <3>1, <3>2
    <2>5. QED
      BY <2>1, <2>3, <2>4
  <1>4. ASSUME NEW u \in Users, NEW w \in Rows, NEW op \in {"role", "lock", "profile"},
               NEW s \in {"getRefresh", "commit"}, Begin(r, s, op, u, w, None, None),
               Idle(r), UNCHANGED <<account, tokens, registry, failures>>
        PROVE  RegistryInv'
    <2> DEFINE l == [op |-> op, user |-> u, row |-> w, old |-> None, new |-> None,
                     refresh |-> None, access |-> None]
    <2>1. l \in Locals /\ l.new = None /\ l.op \in {"role", "lock", "profile"}
      BY DEF Locals, Ops
    <2>2. Step(r, s, l)
      BY <1>4 DEF Begin
    <2> HIDE DEF l
    <2>3. QED
      BY <1>2, <1>4, <2>1, <2>2
  <1>5. \A u \in Users :
          /\ account[u] \in Rows
          /\ \A x \in Roles : [account[u] EXCEPT !.role = x] \in Rows
          /\ \A b \in BOOLEAN : [account[u] EXCEPT !.locked = b] \in Rows
    BY DEF RegistryInv, TypeOK, Rows
  <1>6. ASSUME NEW u \in Users, NEW x \in Roles, UpdateRole(r, u, x)
        PROVE  RegistryInv'
    BY <1>4, <1>5, <1>6 DEF UpdateRole, MayStart
  <1>7. ASSUME NEW u \in Users, NEW b \in BOOLEAN, UpdateLocked(r, u, b)
        PROVE  RegistryInv'
    <2>1. (IF b THEN "getRefresh" ELSE "commit") \in {"getRefresh", "commit"}
      OBVIOUS
    <2>2. QED
      BY <1>4, <1>5, <1>7, <2>1 DEF UpdateLocked, MayStart
  <1>8. ASSUME NEW u \in Users, UpdateProfile(r, u)
        PROVE  RegistryInv'
    BY <1>4, <1>5, <1>8 DEF UpdateProfile, MayStart
  <1>9. QED
    BY <1>1, <1>3, <1>6, <1>7, <1>8 DEF Arrive

\* Generating the new pair of a refresh; as at a login, nothing refers to it yet.
LEMMA LoadUserInv ==
  ASSUME RegistryInv, NEW r \in Requests, NEW n \in Pairs, LoadUser(r, n)
  PROVE  RegistryInv'
  <1> DEFINE l == [loc[r] EXCEPT !.new = n]
  <1>1. loc[r] \in Locals /\ l \in Locals
    BY DEF RegistryInv, TypeOK, Locals
  <1>2. Step(r, "rotateGet", l) /\ ~Idle(r) /\ claims[n] = None
    BY DEF LoadUser, Generate, Idle
  <1>3. loc[r].op = "refresh" /\ loc[r].old # None /\ loc[r].new = None
    BY DEF LoadUser, RegistryInv, RequestOK
  <1>4. l.op = "refresh" /\ l.old # None /\ l.new = n /\ l.user = loc[r].user
    BY <1>1, <1>3 DEF Locals
  <1> HIDE DEF l
  <1>5. /\ pc' \in [Requests -> Steps]
        /\ loc' \in [Requests -> Locals]
        /\ pc'[r] = "rotateGet" /\ loc'[r] = l
        /\ \A q \in Requests \ {r} : pc'[q] = pc[q] /\ loc'[q] = loc[q]
    BY <1>1, <1>2, StepEffect DEF RegistryInv, Steps
  <1>6. PICK c \in Claims : c.owner = loc[r].user /\ claims' = [claims EXCEPT ![n] = c]
    <2>1. loc[r].user \in Users
      BY <1>1 DEF Locals
    <2>2. account[loc[r].user] \in Rows
      BY <2>1 DEF RegistryInv, TypeOK
    <2>3. QED
      BY <2>1, <2>2 DEF LoadUser, Generate, Rows, Claims
  <1>7. UNCHANGED <<account, delivered, accessExpired, refreshExpired,
                    refreshByUser, accessByRefresh, accessActive, failures>>
    BY DEF LoadUser, Generate, registry
  <1>8. TypeOK'
    BY <1>5, <1>6, <1>7 DEF RegistryInv, TypeOK
  <1>9. \A q \in Requests : RequestOK(q)'
    <2>1. \A m \in Pairs : claims[m] # None => claims'[m] = claims[m]
      BY <1>2, <1>6 DEF RegistryInv, TypeOK
    <2>2. \A q \in Requests \ {r} : RequestOK(q)'
      BY <1>5, <2>1, OthersStayOK
    <2>3. claims'[n] # None /\ claims'[n].owner = l.user
      BY <1>4, <1>6, SessionAssumption DEF RegistryInv, TypeOK, Claims
    <2>4. RequestOK(r)'
      BY <1>4, <1>5, <2>3, SessionAssumption DEF RequestOK, Idle, Registering
    <2>5. QED
      BY <2>2, <2>4
  <1>10. KeysMatchTokens'
    BY <1>2, <1>6, <1>7 DEF RegistryInv, KeysMatchTokens, TypeOK
  <1>11. RegistrationOK'
    BY <1>2, <1>4, <1>5, <1>7, FreshPairRegistered
  <1>12. QED
    BY <1>2, <1>6, <1>7, <1>8, <1>9, <1>10, <1>11 DEF RegistryInv, TypeOK

\* The pattern of every other step of a request: it generates nothing, goes on
\* with the same pair or is over, and adds keys of its own pair at most.
LEMMA CommandInv ==
  ASSUME RegistryInv, NEW r \in Requests, NEW s \in Steps, NEW l \in Locals,
         Step(r, s, l), claims' = claims,
         s # "idle" => ~Idle(r) /\ l.new = loc[r].new,
         pc[r] = "setActive" => s \in {"setActive", "idle"},
         \A n \in accessActive' \ accessActive : Registers(r, n) /\ s = "idle",
         \A n \in Pairs : accessByRefresh'[n] # None =>
             accessByRefresh[n] # None \/ (Registers(r, n) /\ s = "setActive"),
         RequestOK(r)', KeysMatchTokens',
         account' \in [Users -> Rows],
         delivered' \subseteq Pairs, \A n \in delivered' : claims[n] # None,
         accessExpired' \subseteq Pairs, refreshExpired' \subseteq Pairs,
         refreshByUser' \in [Users -> Pairs \cup {None}],
         accessByRefresh' \in [Pairs -> Pairs \cup {None}],
         accessActive' \subseteq Pairs, failures' \in 0..MaxFailures
  PROVE  RegistryInv'
  <1>1. /\ pc' \in [Requests -> Steps]
        /\ loc' \in [Requests -> Locals]
        /\ pc'[r] = s
        /\ loc'[r] = IF s = "idle" THEN NullLocals ELSE l
        /\ \A q \in Requests \ {r} : pc'[q] = pc[q] /\ loc'[q] = loc[q]
    BY StepEffect DEF RegistryInv
  <1>2. TypeOK'
    BY <1>1 DEF RegistryInv, TypeOK
  <1>3. \A q \in Requests : RequestOK(q)'
    BY <1>1, OthersStayOK
  <1>4. RegistrationOK'
    <2>1. \A n \in Pairs : Registers(r, n)' => Registers(r, n)
      BY <1>1 DEF Registers, Idle
    <2>2. \A n \in accessActive' \ accessActive : Registers(r, n) /\ ~Registers(r, n)'
      BY <1>1 DEF Registers, Idle
    <2>3. \A n \in Pairs : accessByRefresh'[n] # None =>
             accessByRefresh[n] # None \/ (Registers(r, n) /\ pc'[r] = "setActive")
      BY <1>1
    <2>4. pc[r] = "setActive" => pc'[r] \in {"setActive", "idle"}
      BY <1>1
    <2>5. QED
      BY <1>1, <2>1, <2>2, <2>3, <2>4, RegistrationKept
  <1>5. QED
    BY <1>2, <1>3, <1>4 DEF RegistryInv

\* Steps that read Redis or the database, or only end the request.
LEMMA ReadInv ==
  ASSUME RegistryInv, NEW r \in Requests,
         RefuseLocked(r) \/ RotateGet(r) \/ GetRefresh(r) \/ GetAccess(r)
  PROVE  RegistryInv'
  <1> loc[r] \in Locals /\ pc[r] \in Steps /\ RequestOK(r)
    BY DEF RegistryInv, TypeOK
  <1> USE DEF Idle, tokens, registry
  <1>1. ASSUME NEW s \in Steps, NEW l \in Locals, Step(r, s, l),
               UNCHANGED <<account, tokens, registry, failures>>,
               s # "idle" => ~Idle(r) /\ l.new = loc[r].new, pc[r] # "setActive",
               RequestOK(r)'
        PROVE  RegistryInv'
    <2>1. KeysMatchTokens'
      BY <1>1 DEF RegistryInv, KeysMatchTokens
    <2>2. QED
      BY <1>1, <2>1, CommandInv DEF RegistryInv, TypeOK
  <1>2. CASE RefuseLocked(r)
    <2>1. Step(r, "idle", loc[r])
      BY <1>2 DEF RefuseLocked, Goto
    <2>2. pc'[r] = "idle" /\ loc'[r] = NullLocals
      BY <2>1, StepEffect DEF RegistryInv, Steps
    <2>3. RequestOK(r)'
      BY <2>2, NullLocalsType DEF RequestOK
    <2>4. QED
      BY <1>1, <1>2, <2>1, <2>3 DEF RefuseLocked, Steps
  <1>3. CASE RotateGet(r)
    <2> DEFINE a == accessByRefresh[loc[r].old]
               l == [loc[r] EXCEPT !.access = a]
               s == IF a = None THEN "rotateDelRefresh" ELSE "rotateDelAccess"
    <2>1. loc[r].old \in Pairs
      BY <1>3 DEF RotateGet, RequestOK, Locals
    <2>2. a \in Pairs \cup {None}
      BY <2>1 DEF RegistryInv, TypeOK
    <2>3. l \in Locals /\ l.new = loc[r].new /\ l.op = loc[r].op /\ l.old = loc[r].old
          /\ l.user = loc[r].user
      BY <2>2 DEF Locals
    <2>4. s \in {"rotateDelRefresh", "rotateDelAccess"} /\ Step(r, s, l)
      BY <1>3 DEF RotateGet
    <2> HIDE DEF a, l, s
    <2>5. pc'[r] = s /\ loc'[r] = l
      BY <2>3, <2>4, StepEffect DEF RegistryInv, Steps
    <2>6. RequestOK(r)'
      BY <1>3, <2>3, <2>4, <2>5 DEF RotateGet, RequestOK
    <2>7. QED
      BY <1>1, <1>3, <2>3, <2>4, <2>6 DEF RotateGet, Steps
  <1>4. CASE GetRefresh(r)
    <2> DEFINE f == refreshByUser[loc[r].user]
               l == [loc[r] EXCEPT !.refresh = f]
               s == IF f = None THEN AfterInvalidate(r) ELSE "getAccess"
    <2>1. f \in Pairs \cup {None}
      BY DEF Locals, RegistryInv, TypeOK
    <2>2. l \in Locals /\ l.new = loc[r].new /\ l.op = loc[r].op /\ l.refresh = f
          /\ l.user = loc[r].user
      BY <2>1 DEF Locals
    <2>3. /\ s \in {"getAccess", "setByUser", "idle", "commit"} /\ Step(r, s, l)
          /\ s = "getAccess" => f # None
          /\ s = "setByUser" => l.op \in Registering
          /\ s \in {"idle", "commit"} => l.op \notin Registering
      BY <1>4, <2>2, AfterInvalidateType DEF GetRefresh
    <2> HIDE DEF f, l, s
    <2>4. pc'[r] = s /\ loc'[r] = IF s = "idle" THEN NullLocals ELSE l
      BY <2>2, <2>3, StepEffect DEF RegistryInv, Steps
    <2>5. RequestOK(r)'
      BY <1>4, <2>2, <2>3, <2>4, NullLocalsType DEF GetRefresh, RequestOK
    <2>6. QED
      BY <1>1, <1>4, <2>2, <2>3, <2>5 DEF GetRefresh, Steps
  <1>5. CASE GetAccess(r)
    <2> DEFINE a == accessByRefresh[loc[r].refresh]
               l == [loc[r] EXCEPT !.access = a]
    <2>1. loc[r].refresh \in Pairs
      BY <1>5 DEF GetAccess, RequestOK, Locals
    <2>2. a \in Pairs \cup {None}
      BY <2>1 DEF RegistryInv, TypeOK
    <2>3. l \in Locals /\ l.new = loc[r].new /\ l.op = loc[r].op
          /\ l.refresh = loc[r].refresh /\ l.user = loc[r].user
      BY <2>2 DEF Locals
    <2>4. Step(r, "delByUser", l)
      BY <1>5 DEF GetAccess
    <2> HIDE DEF a, l
    <2>5. pc'[r] = "delByUser" /\ loc'[r] = l
      BY <2>3, <2>4, StepEffect DEF RegistryInv, Steps
    <2>6. RequestOK(r)'
      BY <1>5, <2>3, <2>5 DEF GetAccess, RequestOK
    <2>7. QED
      BY <1>1, <1>5, <2>3, <2>4, <2>6 DEF GetAccess, Steps
  <1>6. QED
    BY <1>2, <1>3, <1>4, <1>5

\* Steps that delete a key.
LEMMA DeleteInv ==
  ASSUME RegistryInv, NEW r \in Requests,
         \/ RotateDelAccess(r) \/ RotateDelRefresh(r)
         \/ DelByUser(r) \/ DelByRefresh(r) \/ DelActive(r)
  PROVE  RegistryInv'
  <1> loc[r] \in Locals /\ pc[r] \in Steps /\ RequestOK(r)
    BY DEF RegistryInv, TypeOK
  <1> USE DEF Idle, tokens
  <1>1. ASSUME NEW s \in Steps, NEW l \in Locals, Step(r, s, l),
               UNCHANGED <<account, tokens, failures>>,
               s # "idle" => ~Idle(r) /\ l.new = loc[r].new, pc[r] # "setActive",
               RequestOK(r)',
               accessActive' \subseteq accessActive,
               refreshByUser' \in [Users -> Pairs \cup {None}],
               \A u \in Users : refreshByUser'[u] \in {refreshByUser[u], None},
               accessByRefresh' \in [Pairs -> Pairs \cup {None}],
               \A n \in Pairs : accessByRefresh'[n] \in {accessByRefresh[n], None}
        PROVE  RegistryInv'
    <2>1. KeysMatchTokens'
      BY <1>1 DEF RegistryInv, KeysMatchTokens
    <2>2. QED
      BY <1>1, <2>1, CommandInv DEF RegistryInv, TypeOK
  <1>2. CASE RotateDelAccess(r)
    <2>1. Step(r, "rotateDelRefresh", loc[r])
      BY <1>2 DEF RotateDelAccess, Goto
    <2>2. pc'[r] = "rotateDelRefresh" /\ loc'[r] = loc[r]
      BY <2>1, StepEffect DEF RegistryInv, Steps
    <2>3. RequestOK(r)'
      BY <1>2, <2>2 DEF RotateDelAccess, RequestOK
    <2>4. QED
      BY <1>1, <1>2, <2>1, <2>3 DEF RotateDelAccess, Steps, RegistryInv, TypeOK
  <1>3. CASE RotateDelRefresh(r)
    <2> DEFINE l == [loc[r] EXCEPT !.old = None, !.access = None]
    <2>1. l \in Locals /\ l.new = loc[r].new /\ l.op = loc[r].op /\ l.user = loc[r].user
      BY DEF Locals
    <2>2. Step(r, "getRefresh", l)
      BY <1>3 DEF RotateDelRefresh
    <2> HIDE DEF l
    <2>3. pc'[r] = "getRefresh" /\ loc'[r] = l
      BY <2>1, <2>2, StepEffect DEF RegistryInv, Steps
    <2>4. RequestOK(r)'
      BY <1>3, <2>1, <2>3 DEF RotateDelRefresh, RequestOK
    <2>5. QED
      BY <1>1, <1>3, <2>1, <2>2, <2>4 DEF RotateDelRefresh, Steps, RegistryInv, TypeOK
  <1>4. CASE DelByUser(r)
    <2>1. Step(r, "delByRefresh", loc[r])
      BY <1>4 DEF DelByUser, Goto
    <2>2. pc'[r] = "delByRefresh" /\ loc'[r] = loc[r]
      BY <2>1, StepEffect DEF RegistryInv, Steps
    <2>3. RequestOK(r)'
      BY <1>4, <2>2 DEF DelByUser, RequestOK
    <2>4. QED
      BY <1>1, <1>4, <2>1, <2>3 DEF DelByUser, Steps, RegistryInv, TypeOK
  <1>5. CASE DelByRefresh(r)
    <2> DEFINE l == [loc[r] EXCEPT !.refresh = None]
               s == IF loc[r].access = None THEN AfterInvalidate(r) ELSE "delActive"
    <2>1. l \in Locals /\ l.new = loc[r].new /\ l.op = loc[r].op /\ l.user = loc[r].user
      BY DEF Locals
    <2>2. /\ s \in {"delActive", "setByUser", "idle", "commit"} /\ Step(r, s, l)
          /\ s = "setByUser" => l.op \in Registering
          /\ s \in {"idle", "commit"} => l.op \notin Registering
      BY <1>5, <2>1, AfterInvalidateType DEF DelByRefresh
    <2> HIDE DEF l, s
    <2>3. pc'[r] = s /\ loc'[r] = IF s = "idle" THEN NullLocals ELSE l
      BY <2>1, <2>2, StepEffect DEF RegistryInv, Steps
    <2>4. RequestOK(r)'
      BY <1>5, <2>1, <2>2, <2>3, NullLocalsType DEF DelByRefresh, RequestOK
    <2>5. QED
      BY <1>1, <1>5, <2>1, <2>2, <2>4 DEF DelByRefresh, Steps, RegistryInv, TypeOK
  <1>6. CASE DelActive(r)
    <2> DEFINE l == [loc[r] EXCEPT !.access = None]
               s == AfterInvalidate(r)
    <2>1. l \in Locals /\ l.new = loc[r].new /\ l.op = loc[r].op /\ l.user = loc[r].user
      BY DEF Locals
    <2>2. /\ s \in {"setByUser", "idle", "commit"} /\ Step(r, s, l)
          /\ s = "setByUser" <=> l.op \in Registering
      BY <1>6, <2>1, AfterInvalidateType DEF DelActive
    <2> HIDE DEF l, s
    <2>3. pc'[r] = s /\ loc'[r] = IF s = "idle" THEN NullLocals ELSE l
      BY <2>1, <2>2, StepEffect DEF RegistryInv, Steps
    <2>4. RequestOK(r)'
      BY <1>6, <2>1, <2>2, <2>3, NullLocalsType DEF DelActive, RequestOK
    <2>5. QED
      BY <1>1, <1>6, <2>1, <2>2, <2>4 DEF DelActive, Steps, RegistryInv, TypeOK
  <1>7. QED
    BY <1>2, <1>3, <1>4, <1>5, <1>6

\* Steps that record the pair being registered.
LEMMA RecordInv ==
  ASSUME RegistryInv, NEW r \in Requests,
         SetByUser(r) \/ SetByRefresh(r) \/ SetActive(r)
  PROVE  RegistryInv'
  <1> DEFINE n == loc[r].new
  <1> USE DEF Idle
  <1>1. /\ loc[r] \in Locals /\ pc[r] \in Steps /\ RequestOK(r)
        /\ pc[r] \in {"setByUser", "setByRefresh", "setActive"}
    BY DEF RegistryInv, TypeOK, SetByUser, SetByRefresh, SetActive
  <1>2. /\ n \in Pairs /\ Registers(r, n)
        /\ claims[n] # None /\ claims[n].owner = loc[r].user
    BY <1>1 DEF RequestOK, Registers, Locals
  <1>3. CASE SetByUser(r)
    <2>1. Step(r, "setByRefresh", loc[r])
      BY <1>3 DEF SetByUser, Goto
    <2>2. pc'[r] = "setByRefresh" /\ loc'[r] = loc[r]
      BY <1>1, <2>1, StepEffect DEF RegistryInv, Steps
    <2>3. /\ UNCHANGED <<account, tokens, accessByRefresh, accessActive, failures>>
          /\ refreshByUser' = [refreshByUser EXCEPT ![loc[r].user] = n]
      BY <1>3 DEF SetByUser
    <2>4. RequestOK(r)'
      BY <1>1, <1>3, <2>2, <2>3 DEF SetByUser, RequestOK, tokens
    <2>5. KeysMatchTokens'
      BY <1>1, <1>2, <2>3 DEF RegistryInv, TypeOK, KeysMatchTokens, tokens
    <2>6. refreshByUser' \in [Users -> Pairs \cup {None}]
      BY <1>2, <2>3 DEF RegistryInv, TypeOK
    <2>7. QED
      BY <1>1, <1>3, <2>1, <2>3, <2>4, <2>5, <2>6, CommandInv
      DEF RegistryInv, TypeOK, tokens, Steps, SetByUser
  <1>4. CASE SetByRefresh(r)
    <2>1. Step(r, "setActive", loc[r])
      BY <1>4 DEF SetByRefresh, Goto
    <2>2. pc'[r] = "setActive" /\ loc'[r] = loc[r]
      BY <1>1, <2>1, StepEffect DEF RegistryInv, Steps
    <2>3. /\ UNCHANGED <<account, tokens, refreshByUser, accessActive, failures>>
          /\ accessByRefresh' = [accessByRefresh EXCEPT ![n] = n]
      BY <1>4 DEF SetByRefresh
    <2>4. RequestOK(r)'
      BY <1>1, <1>4, <2>2, <2>3 DEF SetByRefresh, RequestOK, tokens
    <2>5. KeysMatchTokens'
      BY <1>2, <2>3 DEF RegistryInv, TypeOK, KeysMatchTokens, tokens
    <2>6. accessByRefresh' \in [Pairs -> Pairs \cup {None}]
      BY <1>2, <2>3 DEF RegistryInv, TypeOK
    <2>7. \A m \in Pairs : accessByRefresh'[m] # None =>
             accessByRefresh[m] # None \/ Registers(r, m)
      BY <1>2, <2>3 DEF RegistryInv, TypeOK
    <2>8. QED
      BY <1>1, <1>4, <2>1, <2>3, <2>4, <2>5, <2>6, <2>7, CommandInv
      DEF RegistryInv, TypeOK, tokens, Steps, SetByRefresh
  <1>5. CASE SetActive(r)
    <2>1. Step(r, "idle", loc[r])
      BY <1>5 DEF SetActive, Goto
    <2>2. pc'[r] = "idle" /\ loc'[r] = NullLocals
      BY <1>1, <2>1, StepEffect DEF RegistryInv, Steps
    <2>3. /\ UNCHANGED <<account, claims, accessExpired, refreshExpired,
                         refreshByUser, accessByRefresh, failures>>
          /\ accessActive' = accessActive \cup {n}
          /\ delivered' = delivered \cup {n}
      BY <1>5 DEF SetActive
    <2>4. RequestOK(r)'
      BY <2>2, NullLocalsType DEF RequestOK
    <2>5. KeysMatchTokens'
      BY <1>2, <2>3 DEF RegistryInv, KeysMatchTokens
    <2>6. QED
      BY <1>1, <1>2, <2>1, <2>3, <2>4, <2>5, CommandInv DEF RegistryInv, TypeOK, Steps
  <1>6. QED
    BY <1>3, <1>4, <1>5

\* A request that commits or breaks off is over; it leaves the keys alone.
LEMMA EndInv ==
  ASSUME RegistryInv, NEW r \in Requests, Commit(r) \/ Break(r)
  PROVE  RegistryInv'
  <1> USE DEF Idle
  <1>1. loc[r] \in Locals /\ pc[r] \in Steps /\ RequestOK(r)
    BY DEF RegistryInv, TypeOK
  <1>2. /\ Step(r, "idle", loc[r])
        /\ UNCHANGED <<claims, accessExpired, refreshExpired, refreshByUser,
                       accessByRefresh, accessActive>>
    BY DEF Commit, Break, Goto, tokens, registry
  <1>3. pc'[r] = "idle" /\ loc'[r] = NullLocals
    BY <1>1, <1>2, StepEffect DEF RegistryInv, Steps
  <1>4. RequestOK(r)'
    BY <1>3, NullLocalsType DEF RequestOK
  <1>5. KeysMatchTokens'
    BY <1>2 DEF RegistryInv, KeysMatchTokens
  <1>6. account' \in [Users -> Rows]
    BY <1>1 DEF Commit, Break, RegistryInv, TypeOK, Locals
  <1>7. delivered' \subseteq Pairs /\ \A n \in delivered' : claims[n] # None
    <2>1. loc[r].op = "login" /\ ~Idle(r) => loc[r].new \in Pairs /\ claims[loc[r].new] # None
      BY <1>1 DEF RequestOK, Registering, Locals
    <2>2. QED
      BY <2>1 DEF Commit, Break, RegistryInv, TypeOK, tokens
  <1>8. failures' \in 0..MaxFailures
    BY SessionAssumption DEF Commit, Break, RegistryInv, TypeOK
  <1>9. QED
    BY <1>1, <1>2, <1>4, <1>5, <1>6, <1>7, <1>8, CommandInv
    DEF RegistryInv, TypeOK, Steps

\* Expiry only takes keys away.
LEMMA TimeInv == ASSUME RegistryInv, Time PROVE RegistryInv'
  <1>1. /\ UNCHANGED <<account, claims, delivered, pc, loc, failures>>
        /\ accessExpired' \subseteq Pairs /\ refreshExpired' \subseteq Pairs
        /\ refreshByUser' \in [Users -> Pairs \cup {None}]
        /\ \A u \in Users : refreshByUser'[u] \in {refreshByUser[u], None}
        /\ accessByRefresh' \in [Pairs -> Pairs \cup {None}]
        /\ \A n \in Pairs : accessByRefresh'[n] \in {accessByRefresh[n], None}
        /\ accessActive' \subseteq accessActive
    BY DEF Time, AccessJwtExpires, RefreshJwtExpires, AccessKeyExpires,
           UserKeyExpires, RefreshKeyExpires, RegistryInv, TypeOK, registry, tokens
  <1>2. TypeOK'
    BY <1>1 DEF RegistryInv, TypeOK
  <1>3. \A r \in Requests : RequestOK(r)'
    BY <1>1 DEF RegistryInv, RequestOK, Idle
  <1>4. KeysMatchTokens'
    BY <1>1 DEF RegistryInv, KeysMatchTokens
  <1>5. RegistrationOK'
    BY <1>1 DEF RegistryInv, RegistrationOK, Registers, Idle
  <1>6. QED
    BY <1>1, <1>2, <1>3, <1>4, <1>5 DEF RegistryInv

LEMMA InvNext == RegistryInv /\ [Next]_vars => RegistryInv'
  <1> SUFFICES ASSUME RegistryInv, [Next]_vars PROVE RegistryInv'
    OBVIOUS
  <1>1. ASSUME NEW r \in Requests, Arrive(r) PROVE RegistryInv'
    BY <1>1, ArriveInv
  <1>2. ASSUME NEW r \in Requests, Continue(r) PROVE RegistryInv'
    BY <1>2, LoadUserInv, ReadInv, DeleteInv, RecordInv, EndInv DEF Continue
  <1>3. ASSUME NEW r \in Requests, Break(r) PROVE RegistryInv'
    BY <1>3, EndInv
  <1>4. CASE Time
    BY <1>4, TimeInv
  <1>5. CASE UNCHANGED vars
    BY <1>5 DEF vars, RegistryInv, TypeOK, RequestOK, KeysMatchTokens,
                RegistrationOK, Registers, Idle
  <1>6. QED
    BY <1>1, <1>2, <1>3, <1>4, <1>5 DEF Next

\* However requests overlap and wherever they break off, the registry keeps the
\* shape its commands rely on.
THEOREM RegistryInvariant == Spec => []RegistryInv
  BY InvInit, InvNext, PTL DEF Spec

\* No registry key ever leads to a token of another user or of another pair.
THEOREM KeysAlwaysMatch == Spec => []KeysMatchTokens
  <1>1. RegistryInv => KeysMatchTokens
    BY DEF RegistryInv
  <1>2. QED
    BY <1>1, RegistryInvariant, PTL

-----------------------------------------------------------------------------
(* The registry implements the life cycle of tokens.                        *)

\* What of a request step matters to the stages: it neither starts nor ends a
\* registration and does not pass its last command but one.
Quiet(r) ==
    /\ claims' = claims
    /\ \A q \in Requests \ {r} : pc'[q] = pc[q] /\ loc'[q] = loc[q]
    /\ \A n \in Pairs : Registers(r, n)' <=> Registers(r, n)
    /\ \A n \in Pairs : Registers(r, n) => pc[r] # "setActive" /\ pc'[r] # "setActive"

LEMMA QuietUnborn ==
  ASSUME NEW r \in Requests, Quiet(r), NEW n \in Pairs
  PROVE  /\ AccessUnborn(n)' <=> AccessUnborn(n)
         /\ RefreshUnborn(n)' <=> RefreshUnborn(n)
  <1>1. \A q \in Requests : Registers(q, n)' <=> Registers(q, n)
    BY DEF Quiet, Registers, Idle
  <1>2. \A q \in Requests :
            Registers(q, n) => (pc'[q] # "setActive" <=> pc[q] # "setActive")
    BY DEF Quiet
  <1>3. QED
    BY <1>1, <1>2 DEF Quiet, AccessUnborn, RefreshUnborn

LEMMA QuietStep ==
  ASSUME RegistryInv, NEW r \in Requests, NEW s, NEW l, Step(r, s, l),
         claims' = claims, pc[r] # "setActive", s # "setActive",
         Idle(r) => s = "idle" \/ l.new = None,
         ~Idle(r) => (IF s = "idle" THEN None ELSE l.new) = loc[r].new
  PROVE  Quiet(r)
  <1>1. /\ pc'[r] = s /\ loc'[r] = IF s = "idle" THEN NullLocals ELSE l
        /\ \A q \in Requests \ {r} : pc'[q] = pc[q] /\ loc'[q] = loc[q]
    BY DEF Step, RegistryInv, TypeOK
  <1>2. \A n \in Pairs : Registers(r, n)' <=> Registers(r, n)
    BY <1>1, NullLocalsType, SessionAssumption DEF Registers, Idle
  <1>3. QED
    BY <1>1, <1>2 DEF Quiet

LEMMA ArriveQuiet ==
  ASSUME RegistryInv, NEW r \in Requests, Arrive(r),
         ~ \E u \in Users, n \in Pairs : Login(r, u, n) \/ Oauth2Login(r, u, n)
  PROVE  Quiet(r) /\ UNCHANGED registry
  <1> USE DEF MayStart, Begin, Idle, tokens
  <1>1. ASSUME NEW n \in Pairs, Refresh(r, n) \/ Logout(r, n)
        PROVE  Quiet(r) /\ UNCHANGED registry
    BY <1>1, QuietStep DEF Refresh, Logout
  <1>2. ASSUME NEW u \in Users, NEW x \in Roles, UpdateRole(r, u, x)
        PROVE  Quiet(r) /\ UNCHANGED registry
    BY <1>2, QuietStep DEF UpdateRole
  <1>3. ASSUME NEW u \in Users, NEW b \in BOOLEAN, UpdateLocked(r, u, b)
        PROVE  Quiet(r) /\ UNCHANGED registry
    BY <1>3, QuietStep DEF UpdateLocked
  <1>4. ASSUME NEW u \in Users, UpdateProfile(r, u)
        PROVE  Quiet(r) /\ UNCHANGED registry
    BY <1>4, QuietStep DEF UpdateProfile
  <1>5. QED
    BY <1>1, <1>2, <1>3, <1>4 DEF Arrive

\* Every later step but the last two commands of a registration and the
\* generation of a pair is quiet.
LEMMA CommandQuiet ==
  ASSUME RegistryInv, NEW r \in Requests,
         \/ RefuseLocked(r) \/ Commit(r)
         \/ RotateGet(r) \/ RotateDelAccess(r) \/ RotateDelRefresh(r)
         \/ GetRefresh(r) \/ GetAccess(r)
         \/ DelByUser(r) \/ DelByRefresh(r) \/ DelActive(r) \/ SetByUser(r)
  PROVE  Quiet(r)
  <1> loc[r] \in Locals /\ RequestOK(r)
    BY DEF RegistryInv, TypeOK
  <1> USE DEF Idle, tokens, Goto, RequestOK, Registering
  <1>1. CASE RefuseLocked(r)
    BY <1>1, QuietStep DEF RefuseLocked
  <1>2. CASE Commit(r)
    BY <1>2, QuietStep DEF Commit
  <1>3. CASE RotateGet(r)
    BY <1>3, QuietStep DEF RotateGet, Locals
  <1>4. CASE RotateDelAccess(r)
    BY <1>4, QuietStep DEF RotateDelAccess
  <1>5. CASE RotateDelRefresh(r)
    BY <1>5, QuietStep DEF RotateDelRefresh, Locals
  <1>6. CASE GetRefresh(r)
    BY <1>6, QuietStep, AfterInvalidateType DEF GetRefresh, Locals
  <1>7. CASE GetAccess(r)
    BY <1>7, QuietStep DEF GetAccess, Locals
  <1>8. CASE DelByUser(r)
    BY <1>8, QuietStep DEF DelByUser
  <1>9. CASE DelByRefresh(r)
    BY <1>9, QuietStep, AfterInvalidateType DEF DelByRefresh, Locals
  <1>10. CASE DelActive(r)
    BY <1>10, QuietStep, AfterInvalidateType DEF DelActive, Locals
  <1>11. CASE SetByUser(r)
    BY <1>11, QuietStep DEF SetByUser
  <1>12. QED
    BY <1>1, <1>2, <1>3, <1>4, <1>5, <1>6, <1>7, <1>8, <1>9, <1>10, <1>11

\* With the same tokens still to be written and the same keys, nothing shows.
LEMMA SameStages ==
  ASSUME \A n \in Pairs : /\ AccessUnborn(n)' <=> AccessUnborn(n)
                          /\ RefreshUnborn(n)' <=> RefreshUnborn(n),
         UNCHANGED <<accessByRefresh, accessActive>>
  PROVE  UNCHANGED <<AccessStage, RefreshStage>>
  BY DEF AccessStage, RefreshStage

\* Deleting the key of an access token withdraws it, if it is there.
LEMMA AccessDeleted ==
  ASSUME RegistryInv, NEW a \in Pairs \cup {None},
         \A n \in Pairs : /\ AccessUnborn(n)' <=> AccessUnborn(n)
                          /\ RefreshUnborn(n)' <=> RefreshUnborn(n),
         accessActive' = accessActive \ {a}, UNCHANGED accessByRefresh
  PROVE  [Lifecycle!Next]_(Lifecycle!vars)
  <1>1. RefreshStage' = RefreshStage
    BY DEF RefreshStage
  <1>2. CASE a \notin accessActive
    BY <1>1, <1>2 DEF AccessStage, Lifecycle!vars
  <1>3. CASE a \in accessActive
    <2>1. a \in Pairs /\ ~AccessUnborn(a)
      BY <1>3 DEF RegistryInv, TypeOK, KeysMatchTokens, RegistrationOK, AccessUnborn
    <2>2. AccessStage[a] = "live" /\ AccessStage' = [AccessStage EXCEPT ![a] = "dead"]
      BY <1>3, <2>1 DEF AccessStage
    <2>3. Lifecycle!WithdrawAccess(a)
      BY <1>1, <2>2 DEF Lifecycle!WithdrawAccess
    <2>4. QED
      BY <2>1, <2>3 DEF Lifecycle!Next
  <1>4. QED
    BY <1>2, <1>3

\* So does deleting the key of a refresh token.
LEMMA RefreshDeleted ==
  ASSUME RegistryInv, NEW f \in Pairs \cup {None},
         \A n \in Pairs : /\ AccessUnborn(n)' <=> AccessUnborn(n)
                          /\ RefreshUnborn(n)' <=> RefreshUnborn(n),
         accessByRefresh' = [accessByRefresh EXCEPT ![f] = None], UNCHANGED accessActive
  PROVE  [Lifecycle!Next]_(Lifecycle!vars)
  <1>1. AccessStage' = AccessStage
    BY DEF AccessStage
  <1>2. CASE f = None \/ accessByRefresh[f] = None
    <2>1. accessByRefresh' = accessByRefresh
      BY <1>2, SessionAssumption DEF RegistryInv, TypeOK
    <2>2. QED
      BY <1>1, <2>1 DEF RefreshStage, Lifecycle!vars
  <1>3. CASE f \in Pairs /\ accessByRefresh[f] # None
    <2>1. ~RefreshUnborn(f)
      BY <1>3 DEF RegistryInv, KeysMatchTokens, RegistrationOK, RefreshUnborn
    <2>2. RefreshStage[f] = "live" /\ RefreshStage' = [RefreshStage EXCEPT ![f] = "dead"]
      BY <1>3, <2>1 DEF RefreshStage, RegistryInv, TypeOK
    <2>3. Lifecycle!WithdrawRefresh(f)
      BY <1>1, <2>2 DEF Lifecycle!WithdrawRefresh
    <2>4. QED
      BY <1>3, <2>3 DEF Lifecycle!Next
  <1>4. QED
    BY <1>2, <1>3

\* A freshly generated pair has not come into being yet.
LEMMA GenerateStutters ==
  ASSUME RegistryInv, NEW r \in Requests, NEW n \in Pairs, claims[n] = None,
         \A m \in Pairs \ {n} : claims'[m] = claims[m],
         \A q \in Requests \ {r} : pc'[q] = pc[q] /\ loc'[q] = loc[q],
         pc'[r] \notin {"idle", "setActive"}, loc'[r].new = n,
         Idle(r) \/ loc[r].new = None,
         UNCHANGED <<accessByRefresh, accessActive>>
  PROVE  UNCHANGED <<AccessStage, RefreshStage>>
  <1>1. \A q \in Requests, m \in Pairs :
            Registers(q, m)' <=> (Registers(q, m) /\ q # r) \/ (q = r /\ m = n)
    BY DEF Registers, Idle
  <1>2. \A m \in Pairs : ~Registers(r, m)
    BY SessionAssumption DEF Registers
  <1>3. \A m \in Pairs \ {n} : /\ AccessUnborn(m)' <=> AccessUnborn(m)
                               /\ RefreshUnborn(m)' <=> RefreshUnborn(m)
    BY <1>1, <1>2 DEF AccessUnborn, RefreshUnborn
  <1>4. AccessUnborn(n) /\ AccessUnborn(n)' /\ RefreshUnborn(n) /\ RefreshUnborn(n)'
    BY <1>1 DEF AccessUnborn, RefreshUnborn
  <1>5. QED
    BY <1>3, <1>4, SameStages

\* Writing the refresh key grants the refresh token.
LEMMA RefreshRecorded ==
  ASSUME RegistryInv, NEW r \in Requests, SetByRefresh(r)
  PROVE  [Lifecycle!Next]_(Lifecycle!vars)
  <1> DEFINE n == loc[r].new
  <1>1. /\ n \in Pairs /\ Registers(r, n) /\ pc[r] = "setByRefresh" /\ claims[n] # None
    BY DEF SetByRefresh, RegistryInv, TypeOK, RequestOK, Registers, Locals, Idle, Registering
  <1>2. /\ pc'[r] = "setActive" /\ loc' = loc /\ claims' = claims
        /\ \A q \in Requests \ {r} : pc'[q] = pc[q]
    BY DEF SetByRefresh, Goto, Step, tokens, RegistryInv, TypeOK
  <1>3. \A q \in Requests, m \in Pairs : Registers(q, m)' <=> Registers(q, m)
    BY <1>1, <1>2 DEF Registers, Idle
  <1>4. AccessStage' = AccessStage
    BY <1>2, <1>3 DEF AccessStage, AccessUnborn, SetByRefresh
  <1>5. accessByRefresh[n] = None /\ RefreshUnborn(n)
    BY <1>1 DEF RegistryInv, RegistrationOK, RefreshUnborn
  <1>6. \A m \in Pairs \ {n} : RefreshUnborn(m)' <=> RefreshUnborn(m)
    <2>1. \A m \in Pairs \ {n} : ~Registers(r, m)
      BY DEF Registers
    <2>2. QED
      BY <1>2, <1>3, <2>1 DEF RefreshUnborn
  <1>7. accessByRefresh' = [accessByRefresh EXCEPT ![n] = n]
    BY DEF SetByRefresh
  <1>8. RefreshStage[n] = "unborn" /\ RefreshStage' = [RefreshStage EXCEPT ![n] = "live"]
    BY <1>1, <1>5, <1>6, <1>7, SessionAssumption DEF RefreshStage, RegistryInv, TypeOK
  <1>9. Lifecycle!GrantRefresh(n)
    BY <1>4, <1>8 DEF Lifecycle!GrantRefresh
  <1>10. QED
    BY <1>1, <1>9 DEF Lifecycle!Next

\* Writing the access key, the last command, grants the access token.
LEMMA AccessRecorded ==
  ASSUME RegistryInv, NEW r \in Requests, SetActive(r)
  PROVE  [Lifecycle!Next]_(Lifecycle!vars)
  <1> DEFINE n == loc[r].new
  <1>1. /\ n \in Pairs /\ Registers(r, n) /\ pc[r] = "setActive" /\ claims[n] # None
    BY DEF SetActive, RegistryInv, TypeOK, RequestOK, Registers, Locals, Idle, Registering
  <1>2. /\ pc'[r] = "idle" /\ claims' = claims /\ accessByRefresh' = accessByRefresh
        /\ accessActive' = accessActive \cup {n}
        /\ \A q \in Requests \ {r} : pc'[q] = pc[q] /\ loc'[q] = loc[q]
    BY DEF SetActive, Goto, Step, RegistryInv, TypeOK
  <1>3. \A q \in Requests, m \in Pairs : Registers(q, m)' <=> Registers(q, m) /\ q # r
    BY <1>2 DEF Registers, Idle
  <1>4. \A m \in Pairs : RefreshUnborn(m)' <=> RefreshUnborn(m)
    BY <1>1, <1>2, <1>3 DEF RefreshUnborn
  <1>5. ~RefreshUnborn(n) /\ n \notin accessActive /\ AccessUnborn(n)
    BY <1>1 DEF RegistryInv, RegistrationOK, RefreshUnborn, AccessUnborn
  <1>6. \A m \in Pairs \ {n} : AccessUnborn(m)' <=> AccessUnborn(m)
    <2>1. \A m \in Pairs \ {n} : ~Registers(r, m)
      BY DEF Registers
    <2>2. QED
      BY <1>2, <1>3, <2>1 DEF AccessUnborn
  <1>7. RefreshStage' = RefreshStage /\ RefreshStage[n] # "unborn"
    BY <1>1, <1>2, <1>4, <1>5 DEF RefreshStage
  <1>8. AccessStage[n] = "unborn" /\ AccessStage' = [AccessStage EXCEPT ![n] = "live"]
    BY <1>1, <1>2, <1>5, <1>6 DEF AccessStage
  <1>9. Lifecycle!GrantAccess(n)
    BY <1>7, <1>8 DEF Lifecycle!GrantAccess
  <1>10. QED
    BY <1>1, <1>9 DEF Lifecycle!Next

\* A registration that breaks off abandons its pair.
LEMMA BreakAbandons ==
  ASSUME RegistryInv, NEW r \in Requests, Break(r)
  PROVE  [Lifecycle!Next]_(Lifecycle!vars)
  <1> PICK n \in Pairs \cup {None} : n = loc[r].new
    BY DEF RegistryInv, TypeOK, Locals
  <1>1. /\ pc'[r] = "idle" /\ UNCHANGED <<claims, accessByRefresh, accessActive>>
        /\ \A q \in Requests \ {r} : pc'[q] = pc[q] /\ loc'[q] = loc[q]
    BY DEF Break, Goto, Step, registry, RegistryInv, TypeOK
  <1>2. \A q \in Requests, m \in Pairs : Registers(q, m)' <=> Registers(q, m) /\ q # r
    BY <1>1 DEF Registers, Idle
  <1>3. \A m \in Pairs \ {n} : ~Registers(r, m)
    BY DEF Registers
  <1>4. \A m \in Pairs \ {n} : /\ AccessUnborn(m)' <=> AccessUnborn(m)
                               /\ RefreshUnborn(m)' <=> RefreshUnborn(m)
    BY <1>1, <1>2, <1>3 DEF AccessUnborn, RefreshUnborn
  <1>5. CASE n = None
    <2>1. n \notin Pairs
      BY <1>5, SessionAssumption
    <2>2. QED
      BY <1>1, <1>4, <2>1, SameStages DEF Lifecycle!vars
  <1>6. CASE n # None
    <2>1. n \in Pairs /\ Registers(r, n) /\ claims[n] # None
      BY <1>6 DEF RegistryInv, TypeOK, RequestOK, Registers, Locals, Idle
    <2>2. AccessUnborn(n) /\ ~AccessUnborn(n)' /\ ~RefreshUnborn(n)' /\ n \notin accessActive
      BY <1>1, <1>2, <2>1 DEF AccessUnborn, RefreshUnborn, RegistryInv, RegistrationOK
    <2>3. AccessStage[n] = "unborn" /\ AccessStage' = [AccessStage EXCEPT ![n] = "dead"]
      BY <1>1, <1>4, <2>1, <2>2 DEF AccessStage
    <2>4. RefreshStage' = [RefreshStage EXCEPT ![n] = IF @ = "unborn" THEN "dead" ELSE @]
      BY <1>1, <1>4, <2>1, <2>2 DEF RefreshStage
    <2>5. QED
      BY <2>1, <2>3, <2>4 DEF Lifecycle!Abandon, Lifecycle!Next
  <1>7. QED
    BY <1>5, <1>6

\* Expiry withdraws the token whose key goes.
LEMMA TimeWithdraws ==
  ASSUME RegistryInv, Time PROVE [Lifecycle!Next]_(Lifecycle!vars)
  <1>1. UNCHANGED <<claims, pc, loc>>
    BY DEF Time, AccessJwtExpires, RefreshJwtExpires, AccessKeyExpires,
           UserKeyExpires, RefreshKeyExpires, tokens
  <1>2. \A n \in Pairs : /\ AccessUnborn(n)' <=> AccessUnborn(n)
                         /\ RefreshUnborn(n)' <=> RefreshUnborn(n)
    BY <1>1 DEF AccessUnborn, RefreshUnborn, Registers, Idle
  <1>3. ASSUME NEW n \in Pairs, AccessKeyExpires(n)
        PROVE  [Lifecycle!Next]_(Lifecycle!vars)
    BY <1>2, <1>3, AccessDeleted DEF AccessKeyExpires
  <1>4. ASSUME NEW n \in Pairs, RefreshKeyExpires(n)
        PROVE  [Lifecycle!Next]_(Lifecycle!vars)
    BY <1>2, <1>4, RefreshDeleted DEF RefreshKeyExpires
  <1>5. ASSUME UNCHANGED <<accessByRefresh, accessActive>>
        PROVE  [Lifecycle!Next]_(Lifecycle!vars)
    BY <1>2, <1>5, SameStages DEF Lifecycle!vars
  <1>6. QED
    BY <1>3, <1>4, <1>5
    DEF Time, AccessJwtExpires, RefreshJwtExpires, UserKeyExpires, registry

\* Steps of a request, one by one.
LEMMA ContinueAdvances ==
  ASSUME RegistryInv, NEW r \in Requests, Continue(r)
  PROVE  [Lifecycle!Next]_(Lifecycle!vars)
  <1>1. loc[r] \in Locals /\ RequestOK(r)
    BY DEF RegistryInv, TypeOK
  <1>2. ASSUME Quiet(r)
        PROVE  \A n \in Pairs : /\ AccessUnborn(n)' <=> AccessUnborn(n)
                                /\ RefreshUnborn(n)' <=> RefreshUnborn(n)
    BY <1>2, QuietUnborn
  <1>3. ASSUME NEW n \in Pairs, LoadUser(r, n)
        PROVE  [Lifecycle!Next]_(Lifecycle!vars)
    <2>1. claims[n] = None /\ \A m \in Pairs \ {n} : claims'[m] = claims[m]
      BY <1>3 DEF LoadUser, Generate, RegistryInv, TypeOK
    <2>2. /\ pc'[r] = "rotateGet" /\ loc'[r].new = n /\ loc[r].new = None
          /\ \A q \in Requests \ {r} : pc'[q] = pc[q] /\ loc'[q] = loc[q]
      BY <1>1, <1>3 DEF LoadUser, Step, RequestOK, Locals, RegistryInv, TypeOK
    <2>3. UNCHANGED <<accessByRefresh, accessActive>>
      BY <1>3 DEF LoadUser, registry
    <2>4. QED
      BY <2>1, <2>2, <2>3, GenerateStutters DEF Lifecycle!vars
  <1>4. CASE \/ RefuseLocked(r) \/ Commit(r) \/ RotateGet(r)
             \/ GetRefresh(r) \/ GetAccess(r) \/ DelByUser(r) \/ SetByUser(r)
    <2>1. UNCHANGED <<accessByRefresh, accessActive>>
      BY <1>4 DEF RefuseLocked, Commit, RotateGet, GetRefresh, GetAccess, DelByUser,
                  SetByUser, registry
    <2>2. QED
      BY <1>2, <1>4, <2>1, CommandQuiet, SameStages DEF Lifecycle!vars
  <1>5. CASE RotateDelAccess(r) \/ DelActive(r)
    <2>1. loc[r].access \in Pairs \cup {None}
      BY <1>1 DEF Locals
    <2>2. accessActive' = accessActive \ {loc[r].access} /\ UNCHANGED accessByRefresh
      BY <1>5 DEF RotateDelAccess, DelActive
    <2>3. QED
      BY <1>2, <1>5, <2>1, <2>2, CommandQuiet, AccessDeleted
  <1>6. CASE RotateDelRefresh(r) \/ DelByRefresh(r)
    <2>1. loc[r].old \in Pairs \cup {None} /\ loc[r].refresh \in Pairs \cup {None}
      BY <1>1 DEF Locals
    <2>2. PICK f \in Pairs \cup {None} :
             accessByRefresh' = [accessByRefresh EXCEPT ![f] = None] /\ UNCHANGED accessActive
      BY <1>6, <2>1 DEF RotateDelRefresh, DelByRefresh
    <2>3. QED
      BY <1>2, <1>6, <2>2, CommandQuiet, RefreshDeleted
  <1>7. QED
    BY <1>3, <1>4, <1>5, <1>6, RefreshRecorded, AccessRecorded DEF Continue

LEMMA ArriveStutters ==
  ASSUME RegistryInv, NEW r \in Requests, Arrive(r)
  PROVE  [Lifecycle!Next]_(Lifecycle!vars)
  <1>1. ASSUME NEW u \in Users, NEW n \in Pairs, Login(r, u, n) \/ Oauth2Login(r, u, n)
        PROVE  [Lifecycle!Next]_(Lifecycle!vars)
    <2>1. claims[n] = None /\ \A m \in Pairs \ {n} : claims'[m] = claims[m]
      BY <1>1 DEF Login, Oauth2Login, Generate, RegistryInv, TypeOK
    <2>2. /\ pc'[r] = "getRefresh" /\ loc'[r].new = n /\ Idle(r)
          /\ \A q \in Requests \ {r} : pc'[q] = pc[q] /\ loc'[q] = loc[q]
      BY <1>1 DEF Login, Oauth2Login, MayStart, Begin, Step, RegistryInv, TypeOK
    <2>3. UNCHANGED <<accessByRefresh, accessActive>>
      BY <1>1 DEF Login, Oauth2Login, registry
    <2>4. QED
      BY <2>1, <2>2, <2>3, GenerateStutters DEF Lifecycle!vars
  <1>2. CASE ~ \E u \in Users, n \in Pairs : Login(r, u, n) \/ Oauth2Login(r, u, n)
    <2>1. Quiet(r) /\ UNCHANGED <<accessByRefresh, accessActive>>
      BY <1>2, ArriveQuiet DEF registry
    <2>2. \A n \in Pairs : /\ AccessUnborn(n)' <=> AccessUnborn(n)
                           /\ RefreshUnborn(n)' <=> RefreshUnborn(n)
      BY <2>1, QuietUnborn
    <2>3. QED
      BY <2>1, <2>2, SameStages DEF Lifecycle!vars
  <1>3. QED
    BY <1>1, <1>2

\* Every token is honoured during one stretch of time at most, whatever
\* requests overlap and wherever they break off: RedisRegistry implements the
\* life cycle of tokens.
THEOREM RegistryKeepsLifecycle == Spec => TokensDieOnce
  <1>1. Init => Lifecycle!Init
    BY DEF Init, Lifecycle!Init, AccessStage, RefreshStage, AccessUnborn, RefreshUnborn
  <1>2. RegistryInv /\ [Next]_vars => [Lifecycle!Next]_(Lifecycle!vars)
    <2> SUFFICES ASSUME RegistryInv, [Next]_vars
                 PROVE  [Lifecycle!Next]_(Lifecycle!vars)
      OBVIOUS
    <2>1. ASSUME NEW r \in Requests, Arrive(r) \/ Continue(r) \/ Break(r)
          PROVE  [Lifecycle!Next]_(Lifecycle!vars)
      BY <2>1, ArriveStutters, ContinueAdvances, BreakAbandons
    <2>2. CASE Time
      BY <2>2, TimeWithdraws
    <2>3. CASE UNCHANGED vars
      <3>1. \A n \in Pairs : /\ AccessUnborn(n)' <=> AccessUnborn(n)
                             /\ RefreshUnborn(n)' <=> RefreshUnborn(n)
        BY <2>3 DEF vars, AccessUnborn, RefreshUnborn, Registers, Idle
      <3>2. QED
        BY <2>3, <3>1, SameStages DEF vars, Lifecycle!vars
    <2>4. QED
      BY <2>1, <2>2, <2>3 DEF Next
  <1>3. QED
    BY <1>1, <1>2, RegistryInvariant, PTL DEF Spec, TokensDieOnce, Lifecycle!Spec

-----------------------------------------------------------------------------
(* Requests about one account one after another, none broken off.          *)

LEMMA StepMoves ==
  ASSUME TypeOK, NEW r \in Requests, NEW s, NEW l, Step(r, s, l)
  PROVE  /\ pc'[r] = s /\ loc'[r] = IF s = "idle" THEN NullLocals ELSE l
         /\ \A q \in Requests \ {r} : pc'[q] = pc[q] /\ loc'[q] = loc[q]
  BY DEF TypeOK, Step

\* Nobody else works for the user of request r.
LEMMA OthersElsewhere ==
  ASSUME SerialInv, NEW r \in Requests, ~Idle(r)
  PROVE  \A q \in Requests \ {r} : ~Idle(q) => loc[q].user # loc[r].user
  BY DEF SerialInv, OneAtATime

\* A live token of a user about whom no request is deleting keys.
LEMMA FiledFully ==
  ASSUME SerialInv, NEW n \in accessActive,
         \A q \in Requests : pc[q] \in {"delByRefresh", "delActive"} =>
             loc[q].user # claims[n].owner
  PROVE  refreshByUser[claims[n].owner] = n /\ accessByRefresh[n] = n
  BY DEF SerialInv, Filed

LEMMA OwnFiled ==
  ASSUME SerialInv, NEW r \in Requests, ~Idle(r),
         pc[r] \notin {"delByRefresh", "delActive"}, NEW n \in Live(loc[r].user)
  PROVE  refreshByUser[loc[r].user] = n /\ accessByRefresh[n] = n
  BY OthersElsewhere, FiledFully DEF Live, Idle

\* What a step of a request about user u leaves alone.
Frame(u) ==
    /\ \A v \in Users \ {u} : account'[v] = account[v] /\ refreshByUser'[v] = refreshByUser[v]
    /\ \A n \in Pairs : claims[n] # None => claims'[n] = claims[n]
    /\ \A n \in Pairs : claims[n] # None /\ claims[n].owner # u =>
           /\ accessByRefresh'[n] = accessByRefresh[n]
           /\ n \in accessActive' => n \in accessActive
    /\ UNCHANGED <<accessExpired, refreshExpired>>

\* The other requests know what they knew.
LEMMA OthersKnow ==
  ASSUME SerialInv, RegistryInv', NEW u \in Users, Frame(u),
         \A n \in accessActive' : claims[n] # None,
         NEW q \in Requests, ~Idle(q), loc[q].user # u, pc'[q] = pc[q], loc'[q] = loc[q]
  PROVE  Owns(q)' /\ KnowsSession(q)' /\ KnowsRow(q)'
  <1> DEFINE v == loc[q].user
  <1>1. /\ v \in Users /\ v # u /\ loc[q] \in Locals /\ RequestOK(q)
        /\ Owns(q) /\ KnowsSession(q) /\ KnowsRow(q)
    BY DEF SerialInv, RegistryInv, TypeOK, Locals
  <1>2. account'[v] = account[v] /\ refreshByUser'[v] = refreshByUser[v]
    BY <1>1 DEF Frame
  <1>3. \A n \in Pairs : claims[n] # None => claims'[n] = claims[n]
    BY DEF Frame
  <1>4. Owns(q)'
    BY <1>1, <1>3 DEF Owns, Locals
  <1>5. \A n \in Pairs : claims[n] # None /\ claims[n].owner = v =>
            accessByRefresh'[n] = accessByRefresh[n] /\ (n \in accessActive' => n \in accessActive)
    BY <1>1 DEF Frame
  <1>6. \A n \in accessActive' : claims'[n].owner = v => n \in accessActive /\ claims[n].owner = v
    BY <1>1, <1>3, <1>5 DEF RegistryInv, TypeOK
  <1>7. loc[q].new # None => /\ loc[q].new \in Pairs /\ claims[loc[q].new] # None
                             /\ claims[loc[q].new].owner = v
    BY <1>1 DEF RequestOK, Locals
  <1>8. KnowsRow(q)'
    BY <1>1, <1>2, <1>3, <1>7 DEF KnowsRow
  <1>9. pc[q] = "setActive" => loc[q].new # None
    BY <1>1 DEF RequestOK
  <1>10. pc[q] = "rotateDelRefresh" => /\ loc[q].old \in Pairs /\ claims[loc[q].old] # None
                                       /\ claims[loc[q].old].owner = v
    BY <1>1 DEF RequestOK, Owns, Locals
  <1>11. KnowsSession(q)'
    <2>1. \A n : n \in Live(v)' => n \in Live(v)
      BY <1>6 DEF Live
    <2>2. Cleared(q)' <=> Cleared(q)
      BY DEF Cleared
    <2>3. pc[q] = "rotateDelRefresh" => loc[q].old \notin accessActive'
      BY <1>1, <1>5, <1>10 DEF KnowsSession
    <2>4. pc[q] = "setActive" => accessByRefresh'[loc[q].new] = loc[q].new
      BY <1>1, <1>5, <1>7, <1>9 DEF KnowsSession
    <2>5. Live(loc[q].user)' = Live(v)'
      BY DEF Live
    <2>6. QED
      BY <1>1, <1>2, <2>1, <2>2, <2>3, <2>4, <2>5 DEF KnowsSession
  <1>12. QED
    BY <1>4, <1>8, <1>11

\* A step of request r about user u keeps the invariant if r knows what it
\* should afterwards and the live tokens of u are filed and agree.
LEMMA RequestSerial ==
  ASSUME SerialInv, RegistryInv', NEW r \in Requests, NEW u \in Users, Frame(u),
         \A q \in Requests \ {r} : pc'[q] = pc[q] /\ loc'[q] = loc[q],
         \A q \in Requests \ {r} : ~Idle(q) => loc[q].user # u,
         pc'[r] # "idle" => loc'[r].user = u,
         \A n \in Pairs : Registers(r, n)' => Registers(r, n) \/ claims[n] = None,
         \A n \in accessActive' : n \in accessActive \/ Registers(r, n),
         pc'[r] # "idle" => Owns(r)' /\ KnowsSession(r)' /\ KnowsRow(r)',
         \A n \in accessActive' : claims'[n].owner = u => Filed(n)' /\ Agrees(n)',
         ~Idle(r) => loc[r].user = u
  PROVE  SerialInv'
  <1>1. \A n \in accessActive' : claims[n] # None /\ n \in Pairs
    <2>1. accessActive \subseteq Pairs /\ loc[r] \in Locals /\ RequestOK(r)
          /\ \A n \in accessActive : claims[n] # None
      BY DEF SerialInv, RegistryInv, TypeOK, KeysMatchTokens
    <2>2. accessActive' \subseteq Pairs
      BY DEF RegistryInv, TypeOK
    <2>3. ASSUME NEW n \in accessActive', Registers(r, n) PROVE claims[n] # None
      <3>1. loc[r].new = n /\ n # None
        BY <2>2, <2>3, SessionAssumption DEF Registers
      <3>2. QED
        BY <2>1, <3>1 DEF RequestOK
    <2>4. QED
      BY <2>1, <2>2, <2>3
  <1>2. OneAtATime'
    BY DEF SerialInv, OneAtATime, Idle
  <1>3. ExpiryOK'
    <2>1. refreshExpired \subseteq accessExpired \ accessActive'
      BY <1>1 DEF SerialInv, ExpiryOK
    <2>2. \A n \in accessExpired : claims'[n] # None
      BY DEF SerialInv, ExpiryOK, Frame, RegistryInv, TypeOK
    <2>3. ASSUME NEW n \in accessExpired, NEW q \in Requests PROVE ~Registers(q, n)'
      BY DEF SerialInv, RegistryInv, TypeOK, ExpiryOK, Registers, Idle
    <2>4. QED
      BY <2>1, <2>2, <2>3 DEF ExpiryOK, Frame
  <1>4. ASSUME NEW n \in accessActive', claims'[n].owner # u PROVE Filed(n)' /\ Agrees(n)'
    <2>1. claims'[n] = claims[n] /\ n \in accessActive /\ accessByRefresh'[n] = accessByRefresh[n]
      BY <1>1, <1>4 DEF Frame
    <2>2. claims[n].owner \in Users \ {u}
      BY <1>1, <1>4, <2>1 DEF SerialInv, RegistryInv, TypeOK, Claims
    <2>3. /\ account'[claims[n].owner] = account[claims[n].owner]
          /\ refreshByUser'[claims[n].owner] = refreshByUser[claims[n].owner]
      BY <2>2 DEF Frame
    <2>4. Filed(n) /\ Agrees(n)
      BY <2>1 DEF SerialInv
    <2>5. Agrees(n)'
      BY <2>1, <2>3, <2>4 DEF Agrees
    <2>6. CASE refreshByUser[claims[n].owner] = n /\ accessByRefresh[n] = n
      BY <2>1, <2>3, <2>5, <2>6 DEF Filed
    <2>7. CASE \E q \in Requests : pc[q] \in {"delByRefresh", "delActive"} /\ loc[q].user = claims[n].owner
      <3>1. PICK q \in Requests : pc[q] \in {"delByRefresh", "delActive"} /\ loc[q].user = claims[n].owner
        BY <2>7
      <3>2. q # r
        BY <2>2, <3>1 DEF Idle
      <3>3. QED
        BY <2>1, <2>5, <3>1, <3>2 DEF Filed
    <2>8. QED
      BY <2>4, <2>5, <2>6, <2>7 DEF Filed
  <1>5. ASSUME NEW q \in Requests \ {r}, ~Idle(q)' PROVE Owns(q)' /\ KnowsSession(q)' /\ KnowsRow(q)'
    <2>1. ~Idle(q)
      BY <1>5 DEF Idle
    <2>2. QED
      BY <1>1, <2>1, OthersKnow
  <1>6. QED
    BY <1>2, <1>3, <1>4, <1>5 DEF SerialInv, Idle

\* A step that only reads, and is not one of a request that is deleting keys.
LEMMA QuietSerial ==
  ASSUME SerialInv, RegistryInv', NEW r \in Requests, NEW u \in Users, NEW s, NEW l,
         Step(r, s, l), UNCHANGED <<account, tokens, registry>>,
         pc[r] \notin {"delByRefresh", "delActive"},
         ~Idle(r) => loc[r].user = u,
         \A q \in Requests \ {r} : ~Idle(q) => loc[q].user # u,
         s # "idle" => l.user = u /\ (l.new # None => ~Idle(r) /\ l.new = loc[r].new),
         s # "idle" => Owns(r)' /\ KnowsSession(r)' /\ KnowsRow(r)'
  PROVE  SerialInv'
  <1>1. /\ pc'[r] = s /\ (s # "idle" => loc'[r] = l)
        /\ \A q \in Requests \ {r} : pc'[q] = pc[q] /\ loc'[q] = loc[q]
    BY StepMoves DEF SerialInv, RegistryInv
  <1>2. Frame(u)
    BY DEF Frame, tokens, registry
  <1>3. \A n \in Pairs : Registers(r, n)' => Registers(r, n)
    BY <1>1, SessionAssumption DEF Registers, Idle
  <1>4. ASSUME NEW n \in accessActive', claims'[n].owner = u PROVE Filed(n)' /\ Agrees(n)'
    <2>1. n \in accessActive /\ claims[n].owner = u
      BY <1>4 DEF tokens, registry
    <2>2. refreshByUser[u] = n /\ accessByRefresh[n] = n
      BY <2>1, FiledFully DEF Idle
    <2>3. Agrees(n)
      BY <2>1 DEF SerialInv
    <2>4. QED
      BY <2>1, <2>2, <2>3 DEF Filed, Agrees, tokens, registry
  <1>5. accessActive' = accessActive
    BY DEF registry
  <1>6. QED
    BY <1>1, <1>2, <1>3, <1>4, <1>5, RequestSerial

-----------------------------------------------------------------------------
(* Requests arrive.                                                         *)

\* A login registers a pair that agrees with the row it has read.
LEMMA LoginSerial ==
  ASSUME SerialInv, RegistryInv', Exclusive, NEW r \in Requests, NEW u \in Users,
         NEW n \in Pairs, Login(r, u, n) \/ Oauth2Login(r, u, n)
  PROVE  SerialInv'
  <1> DEFINE l == [op |-> "login", user |-> u, row |-> NoRow, old |-> None,
                   new |-> n, refresh |-> None, access |-> None]
             c == [owner |-> u, role |-> account[u].role, locked |-> account[u].locked]
  <1>1. /\ Step(r, "getRefresh", l) /\ Idle(r) /\ claims[n] = None
        /\ \A q \in Requests \ {r} : ~Idle(q) => loc[q].user # u
        /\ claims' = [claims EXCEPT ![n] = c]
        /\ UNCHANGED <<account, delivered, accessExpired, refreshExpired, registry>>
    BY DEF Login, Oauth2Login, Begin, MayStart, Generate
  <1>2. /\ pc'[r] = "getRefresh" /\ loc'[r] = l
        /\ \A q \in Requests \ {r} : pc'[q] = pc[q] /\ loc'[q] = loc[q]
    BY <1>1, StepMoves DEF SerialInv, RegistryInv
  <1>3. /\ l.user = u /\ l.op = "login" /\ l.new = n
        /\ l.old = None /\ l.refresh = None /\ l.access = None
        /\ c.role = account[u].role /\ c.locked = account[u].locked
    OBVIOUS
  <1> HIDE DEF l, c
  <1>4. claims'[n] = c /\ \A m \in Pairs \ {n} : claims'[m] = claims[m]
    BY <1>1 DEF SerialInv, RegistryInv, TypeOK
  <1>5. Frame(u)
    BY <1>1, <1>4 DEF Frame, registry
  <1>6. Owns(r)' /\ KnowsSession(r)' /\ KnowsRow(r)'
    BY <1>1, <1>2, <1>3, <1>4 DEF Owns, KnowsSession, Cleared, KnowsRow
  <1>7. \A m \in Pairs : Registers(r, m)' => claims[m] = None
    BY <1>1, <1>2, <1>3 DEF Registers
  <1>8. ASSUME NEW m \in accessActive', claims'[m].owner = u PROVE Filed(m)' /\ Agrees(m)'
    <2>1. m \in accessActive /\ claims[m] # None /\ m \in Pairs
      BY <1>1 DEF registry, SerialInv, RegistryInv, KeysMatchTokens, TypeOK
    <2>2. claims'[m] = claims[m]
      BY <1>1, <1>4, <2>1
    <2>3. refreshByUser[u] = m /\ accessByRefresh[m] = m
      BY <1>1, <1>8, <2>1, <2>2, FiledFully DEF Idle
    <2>4. Agrees(m)
      BY <2>1 DEF SerialInv
    <2>5. QED
      BY <1>1, <1>8, <2>2, <2>3, <2>4 DEF Filed, Agrees, registry
  <1>9. accessActive' = accessActive
    BY <1>1 DEF registry
  <1>10. QED
    BY <1>1, <1>2, <1>3, <1>5, <1>6, <1>7, <1>8, <1>9, RequestSerial

\* The other requests begin with a look at what is there.
LEMMA BeginSerial ==
  ASSUME SerialInv, RegistryInv', Exclusive, NEW r \in Requests, NEW u \in Users,
         NEW s \in {"loadUser", "getRefresh", "commit"}, NEW op \in Ops, NEW row, NEW old,
         MayStart(r, u), Begin(r, s, op, u, row, old, None),
         UNCHANGED <<account, tokens, registry, failures>>,
         old # None => claims[old] # None /\ claims[old].owner = u,
         op = "role" => row.locked = account[u].locked,
         op = "lock" => row = [account[u] EXCEPT !.locked = ~account[u].locked],
         op = "profile" => row = account[u],
         s = "commit" => op = "profile" \/ (op = "lock" /\ ~row.locked)
  PROVE  SerialInv'
  <1> DEFINE l == [op |-> op, user |-> u, row |-> row, old |-> old, new |-> None,
                   refresh |-> None, access |-> None]
  <1>1. Step(r, s, l) /\ Idle(r) /\ \A q \in Requests \ {r} : ~Idle(q) => loc[q].user # u
    BY DEF MayStart, Begin
  <1>2. pc'[r] = s /\ loc'[r] = l
    BY <1>1, StepMoves DEF SerialInv, RegistryInv
  <1>3. /\ l.user = u /\ l.op = op /\ l.row = row /\ l.new = None
        /\ l.old = old /\ l.refresh = None /\ l.access = None
    OBVIOUS
  <1> HIDE DEF l
  <1>4. Owns(r)' /\ KnowsSession(r)'
    BY <1>2, <1>3 DEF Owns, KnowsSession, Cleared, tokens
  <1>5. KnowsRow(r)'
    BY <1>2, <1>3 DEF KnowsRow
  <1>6. QED
    BY <1>1, <1>3, <1>4, <1>5, QuietSerial DEF Idle

LEMMA ArriveSerial ==
  ASSUME SerialInv, RegistryInv', Exclusive, NEW r \in Requests, Arrive(r)
  PROVE  SerialInv'
  <1>1. ASSUME NEW u \in Users, NEW n \in Pairs, Login(r, u, n) \/ Oauth2Login(r, u, n)
        PROVE  SerialInv'
    BY <1>1, LoginSerial
  <1>2. ASSUME NEW n \in delivered PROVE n \in Pairs /\ claims[n] # None /\ claims[n].owner \in Users
    BY DEF SerialInv, RegistryInv, TypeOK, Claims
  <1>3. ASSUME NEW n \in Pairs, Refresh(r, n) PROVE SerialInv'
    BY <1>2, <1>3, BeginSerial DEF Refresh, Ops
  <1>4. ASSUME NEW n \in Pairs, Logout(r, n) PROVE SerialInv'
    BY <1>2, <1>4, BeginSerial DEF Logout, Ops
  <1>5. \A u \in Users : account[u] \in Rows
    BY DEF SerialInv, RegistryInv, TypeOK
  <1>6. ASSUME NEW u \in Users, NEW x \in Roles, UpdateRole(r, u, x) PROVE SerialInv'
    <2>1. [account[u] EXCEPT !.role = x].locked = account[u].locked
      BY <1>5 DEF Rows
    <2>2. QED
      BY <1>6, <2>1, BeginSerial DEF UpdateRole, Ops
  <1>7. ASSUME NEW u \in Users, NEW b \in BOOLEAN, UpdateLocked(r, u, b) PROVE SerialInv'
    <2> DEFINE s   == IF b THEN "getRefresh" ELSE "commit"
               row == [account[u] EXCEPT !.locked = b]
    <2>1. b = ~account[u].locked
      BY <1>5, <1>7 DEF UpdateLocked, Rows
    <2>2. row.locked = b /\ row = [account[u] EXCEPT !.locked = ~account[u].locked]
      BY <1>5, <2>1 DEF Rows
    <2>3. s \in {"getRefresh", "commit"} /\ (s = "commit" => ~row.locked)
      BY <2>2
    <2>4. MayStart(r, u) /\ Begin(r, s, "lock", u, row, None, None)
          /\ UNCHANGED <<account, tokens, registry, failures>>
      BY <1>7 DEF UpdateLocked
    <2> HIDE DEF s, row
    <2>5. QED
      BY <2>2, <2>3, <2>4, BeginSerial DEF Ops
  <1>8. ASSUME NEW u \in Users, UpdateProfile(r, u) PROVE SerialInv'
    BY <1>8, BeginSerial DEF UpdateProfile, Ops
  <1>9. QED
    BY <1>1, <1>3, <1>4, <1>6, <1>7, <1>8 DEF Arrive

-----------------------------------------------------------------------------
(* Requests go on.                                                          *)

LEMMA OnItsWay ==
  ASSUME SerialInv, NEW r \in Requests, ~Idle(r)
  PROVE  /\ loc[r] \in Locals /\ loc[r].user \in Users /\ account[loc[r].user] \in Rows
         /\ RequestOK(r) /\ Owns(r) /\ KnowsSession(r) /\ KnowsRow(r)
         /\ \A q \in Requests \ {r} : ~Idle(q) => loc[q].user # loc[r].user
  BY OthersElsewhere DEF SerialInv, RegistryInv, TypeOK, Locals

LEMMA LoadUserSerial ==
  ASSUME SerialInv, RegistryInv', NEW r \in Requests, NEW n \in Pairs, LoadUser(r, n)
  PROVE  SerialInv'
  <1> DEFINE u == loc[r].user
             l == [loc[r] EXCEPT !.new = n]
             c == [owner |-> u, role |-> account[u].role, locked |-> account[u].locked]
  <1>1. /\ Step(r, "rotateGet", l) /\ ~Idle(r) /\ claims[n] = None /\ pc[r] = "loadUser"
        /\ claims' = [claims EXCEPT ![n] = c]
        /\ UNCHANGED <<account, delivered, accessExpired, refreshExpired, registry>>
    BY DEF LoadUser, Generate, Idle
  <1>2. /\ pc'[r] = "rotateGet" /\ loc'[r] = l
        /\ \A q \in Requests \ {r} : pc'[q] = pc[q] /\ loc'[q] = loc[q]
    BY <1>1, StepMoves DEF SerialInv, RegistryInv
  <1>3. /\ loc[r] \in Locals /\ u \in Users /\ Owns(r) /\ KnowsRow(r)
        /\ loc[r].op = "refresh" /\ loc[r].new = None
        /\ \A q \in Requests \ {r} : ~Idle(q) => loc[q].user # u
    BY <1>1, OnItsWay DEF RequestOK
  <1>4. /\ l.user = u /\ l.op = "refresh" /\ l.new = n
        /\ l.old = loc[r].old /\ l.refresh = loc[r].refresh /\ l.access = loc[r].access
        /\ c.role = account[u].role /\ c.locked = account[u].locked
    BY <1>3 DEF Locals
  <1> HIDE DEF l, c, u
  <1>5. claims'[n] = c /\ \A m \in Pairs \ {n} : claims'[m] = claims[m]
    BY <1>1 DEF SerialInv, RegistryInv, TypeOK
  <1>6. Frame(u)
    BY <1>1, <1>5 DEF Frame, registry
  <1>7. Owns(r)'
    BY <1>1, <1>2, <1>3, <1>4, <1>5 DEF Owns, Locals, u
  <1>8. KnowsSession(r)' /\ KnowsRow(r)'
    BY <1>1, <1>2, <1>3, <1>4, <1>5 DEF KnowsSession, Cleared, KnowsRow
  <1>9. \A m \in Pairs : Registers(r, m)' => claims[m] = None
    BY <1>1, <1>2, <1>4 DEF Registers
  <1>10. ASSUME NEW m \in accessActive', claims'[m].owner = u PROVE Filed(m)' /\ Agrees(m)'
    <2>1. m \in accessActive /\ claims[m] # None /\ m \in Pairs
      BY <1>1 DEF registry, SerialInv, RegistryInv, KeysMatchTokens, TypeOK
    <2>2. claims'[m] = claims[m] /\ m \in Live(u)
      BY <1>1, <1>5, <1>10, <2>1 DEF Live
    <2>3. refreshByUser[u] = m /\ accessByRefresh[m] = m
      BY <1>1, <2>2, OwnFiled DEF u
    <2>4. Agrees(m)
      BY <2>1 DEF SerialInv
    <2>5. QED
      BY <1>1, <1>10, <2>2, <2>3, <2>4 DEF Filed, Agrees, registry
  <1>11. accessActive' = accessActive
    BY <1>1 DEF registry
  <1>12. QED
    BY <1>1, <1>2, <1>3, <1>4, <1>6, <1>7, <1>8, <1>9, <1>10, <1>11, RequestSerial DEF u

LEMMA RefuseLockedSerial ==
  ASSUME SerialInv, RegistryInv', NEW r \in Requests, RefuseLocked(r)
  PROVE  SerialInv'
  <1>1. /\ Step(r, "idle", loc[r]) /\ pc[r] = "loadUser" /\ ~Idle(r)
        /\ UNCHANGED <<account, tokens, registry>>
    BY DEF RefuseLocked, Goto, Idle
  <1>2. QED
    BY <1>1, OnItsWay, QuietSerial

\* rotate finds the access token of the old pair, unless that is dead already.
LEMMA RotateGetSerial ==
  ASSUME SerialInv, RegistryInv', NEW r \in Requests, RotateGet(r)
  PROVE  SerialInv'
  <1> DEFINE a == accessByRefresh[loc[r].old]
             l == [loc[r] EXCEPT !.access = a]
             s == IF a = None THEN "rotateDelRefresh" ELSE "rotateDelAccess"
  <1>1. /\ Step(r, s, l) /\ pc[r] = "rotateGet" /\ ~Idle(r)
        /\ UNCHANGED <<account, tokens, registry>>
    BY DEF RotateGet, Idle
  <1>2. /\ loc[r] \in Locals /\ RequestOK(r) /\ Owns(r) /\ KnowsRow(r) /\ loc[r].user \in Users
        /\ \A q \in Requests \ {r} : ~Idle(q) => loc[q].user # loc[r].user
    BY <1>1, OnItsWay
  <1>3. loc[r].old \in Pairs /\ claims[loc[r].old] # None /\ claims[loc[r].old].owner = loc[r].user
    BY <1>1, <1>2 DEF RequestOK, Owns, Locals
  <1>4. a = None \/ a = loc[r].old
    BY <1>3 DEF SerialInv, RegistryInv, KeysMatchTokens
  <1>5. a = None => loc[r].old \notin accessActive
    <2> SUFFICES ASSUME a = None, loc[r].old \in accessActive PROVE FALSE
      OBVIOUS
    <2>1. loc[r].old \in Live(loc[r].user)
      BY <1>3 DEF Live
    <2>2. accessByRefresh[loc[r].old] = loc[r].old
      BY <1>1, <2>1, OwnFiled
    <2>3. QED
      BY <1>3, <2>2, SessionAssumption
  <1>6. /\ l.user = loc[r].user /\ l.op = loc[r].op /\ l.new = loc[r].new /\ l.old = loc[r].old
        /\ l.refresh = loc[r].refresh /\ l.row = loc[r].row /\ l.access = a
    BY <1>2 DEF Locals
  <1>7. s \in {"rotateDelRefresh", "rotateDelAccess"} /\ (s = "rotateDelRefresh" <=> a = None)
    OBVIOUS
  <1> HIDE DEF a, l, s
  <1>8. pc'[r] = s /\ loc'[r] = l
    BY <1>1, <1>7, StepMoves DEF SerialInv, RegistryInv
  <1>9. Owns(r)'
    BY <1>1, <1>2, <1>3, <1>4, <1>6, <1>8 DEF Owns, tokens
  <1>10. KnowsSession(r)'
    BY <1>1, <1>4, <1>5, <1>6, <1>7, <1>8 DEF KnowsSession, Cleared, registry
  <1>11. KnowsRow(r)'
    BY <1>1, <1>2, <1>6, <1>7, <1>8 DEF KnowsRow, tokens
  <1>12. QED
    BY <1>1, <1>2, <1>6, <1>7, <1>9, <1>10, <1>11, QuietSerial

\* What refreshByUser names is the one live token there can be.
LEMMA GetRefreshSerial ==
  ASSUME SerialInv, RegistryInv', NEW r \in Requests, GetRefresh(r)
  PROVE  SerialInv'
  <1> DEFINE u == loc[r].user
             f == refreshByUser[u]
             l == [loc[r] EXCEPT !.refresh = f]
             s == IF f = None THEN AfterInvalidate(r) ELSE "getAccess"
  <1>1. /\ Step(r, s, l) /\ pc[r] = "getRefresh" /\ ~Idle(r)
        /\ UNCHANGED <<account, tokens, registry>>
    BY DEF GetRefresh, Idle
  <1>2. /\ loc[r] \in Locals /\ u \in Users /\ Owns(r) /\ KnowsRow(r)
        /\ \A q \in Requests \ {r} : ~Idle(q) => loc[q].user # u
    BY <1>1, OnItsWay
  <1>3. Live(u) \subseteq {f}
    BY <1>1, OwnFiled
  <1>4. f # None => claims[f] # None /\ claims[f].owner = u
    BY <1>2 DEF SerialInv, RegistryInv, KeysMatchTokens
  <1>5. f = None => Live(u) = {}
    BY <1>3, SessionAssumption DEF Live, SerialInv, RegistryInv, TypeOK
  <1>6. /\ l.user = u /\ l.op = loc[r].op /\ l.new = loc[r].new /\ l.old = loc[r].old
        /\ l.refresh = f /\ l.row = loc[r].row /\ l.access = loc[r].access
    BY <1>2 DEF Locals
  <1>7. IF f = None THEN s \in {"setByUser", "idle", "commit"} ELSE s = "getAccess"
    BY DEF AfterInvalidate
  <1>8. s = "commit" => loc[r].op # "logout"
    BY DEF AfterInvalidate
  <1> HIDE DEF u, f, l, s
  <1>9. pc'[r] = s /\ (s # "idle" => loc'[r] = l)
    BY <1>1, StepMoves DEF SerialInv, RegistryInv
  <1>10. ASSUME s # "idle" PROVE Owns(r)' /\ KnowsRow(r)'
    BY <1>1, <1>2, <1>4, <1>6, <1>8, <1>9, <1>10 DEF Owns, KnowsRow, tokens, u
  <1>11. ASSUME s # "idle" PROVE KnowsSession(r)'
    <2>1. Live(loc[r].user)' = Live(u)
      BY <1>1, <1>6, <1>9, <1>11 DEF Live, tokens, registry
    <2>2. s \in {"setByUser", "commit", "getAccess"} /\ (s # "getAccess" => Live(u) = {})
      BY <1>5, <1>7, <1>11
    <2>3. loc'[r].refresh = f
      BY <1>6, <1>9, <1>11
    <2>4. QED
      BY <1>3, <1>9, <2>1, <2>2, <2>3 DEF KnowsSession, Cleared
  <1>12. s # "idle" => l.user = u /\ (l.new # None => ~Idle(r) /\ l.new = loc[r].new)
    BY <1>1, <1>6
  <1>13. QED
    BY <1>1, <1>2, <1>10, <1>11, <1>12, QuietSerial DEF u

\* And what accessByRefresh names with it, its access token.
LEMMA GetAccessSerial ==
  ASSUME SerialInv, RegistryInv', NEW r \in Requests, GetAccess(r)
  PROVE  SerialInv'
  <1> DEFINE u == loc[r].user
             a == accessByRefresh[loc[r].refresh]
             l == [loc[r] EXCEPT !.access = a]
  <1>1. /\ Step(r, "delByUser", l) /\ pc[r] = "getAccess" /\ ~Idle(r)
        /\ UNCHANGED <<account, tokens, registry>>
    BY DEF GetAccess, Idle
  <1>2. /\ loc[r] \in Locals /\ u \in Users /\ RequestOK(r)
        /\ Owns(r) /\ KnowsSession(r) /\ KnowsRow(r)
        /\ \A q \in Requests \ {r} : ~Idle(q) => loc[q].user # u
    BY <1>1, OnItsWay
  <1>3. loc[r].refresh \in Pairs
    BY <1>1, <1>2 DEF RequestOK, Locals
  <1>4. a = None \/ a = loc[r].refresh
    BY <1>3 DEF SerialInv, RegistryInv, KeysMatchTokens
  <1>5. Live(u) \subseteq {a}
    BY <1>1, <1>2, OwnFiled DEF KnowsSession
  <1>6. /\ l.user = u /\ l.op = loc[r].op /\ l.new = loc[r].new /\ l.old = loc[r].old
        /\ l.refresh = loc[r].refresh /\ l.row = loc[r].row /\ l.access = a
    BY <1>2 DEF Locals
  <1> HIDE DEF u, a, l
  <1>7. pc'[r] = "delByUser" /\ loc'[r] = l
    BY <1>1, StepMoves DEF SerialInv, RegistryInv
  <1>8. Owns(r)' /\ KnowsRow(r)'
    BY <1>1, <1>2, <1>4, <1>6, <1>7 DEF Owns, KnowsRow, tokens, u
  <1>9. KnowsSession(r)'
    <2>1. Live(loc[r].user)' = Live(u)
      BY <1>1, <1>6, <1>7 DEF Live, tokens, registry
    <2>2. QED
      BY <1>5, <1>6, <1>7, <2>1 DEF KnowsSession, Cleared
  <1>10. QED
    BY <1>1, <1>2, <1>6, <1>8, <1>9, QuietSerial DEF u

\* The pattern of the steps that write: they touch the keys of the request's own
\* user.
LEMMA CommandSerial ==
  ASSUME SerialInv, RegistryInv', NEW r \in Requests, ~Idle(r), NEW u, u = loc[r].user,
         NEW s, NEW l, Step(r, s, l), UNCHANGED <<claims, accessExpired, refreshExpired>>,
         s # "idle" => l.user = u /\ l.new = loc[r].new,
         \A v \in Users \ {u} : account'[v] = account[v] /\ refreshByUser'[v] = refreshByUser[v],
         \A n \in Pairs : claims[n].owner # u => accessByRefresh'[n] = accessByRefresh[n],
         \A n \in accessActive' : n \in accessActive \/ (Registers(r, n) /\ claims[n].owner = u),
         s # "idle" => Owns(r)' /\ KnowsSession(r)' /\ KnowsRow(r)',
         \A n \in accessActive' : claims[n].owner = u => Filed(n)' /\ Agrees(n)'
  PROVE  SerialInv'
  <1>1. /\ pc'[r] = s /\ (s # "idle" => loc'[r] = l)
        /\ \A q \in Requests \ {r} : pc'[q] = pc[q] /\ loc'[q] = loc[q]
    BY StepMoves DEF SerialInv, RegistryInv
  <1>2. Frame(u)
    BY DEF Frame
  <1>3. \A n \in Pairs : Registers(r, n)' => Registers(r, n)
    BY <1>1 DEF Registers, Idle
  <1>4. u \in Users /\ \A q \in Requests \ {r} : ~Idle(q) => loc[q].user # u
    BY OnItsWay
  <1>5. QED
    BY <1>1, <1>2, <1>3, <1>4, RequestSerial

LEMMA RotateDelAccessSerial ==
  ASSUME SerialInv, RegistryInv', NEW r \in Requests, RotateDelAccess(r)
  PROVE  SerialInv'
  <1> DEFINE u == loc[r].user
  <1>1. /\ Step(r, "rotateDelRefresh", loc[r]) /\ pc[r] = "rotateDelAccess" /\ ~Idle(r)
        /\ accessActive' = accessActive \ {loc[r].access}
        /\ UNCHANGED <<account, tokens, refreshByUser, accessByRefresh>>
    BY DEF RotateDelAccess, Goto, Idle
  <1>2. Owns(r) /\ KnowsSession(r) /\ KnowsRow(r)
    BY <1>1, OnItsWay
  <1>3. pc'[r] = "rotateDelRefresh" /\ loc'[r] = loc[r]
    BY <1>1, StepMoves DEF SerialInv, RegistryInv
  <1>4. Owns(r)' /\ KnowsRow(r)'
    BY <1>1, <1>2, <1>3 DEF Owns, KnowsRow, tokens
  <1>5. KnowsSession(r)'
    BY <1>1, <1>2, <1>3 DEF KnowsSession, Cleared
  <1>6. ASSUME NEW n \in accessActive', claims[n].owner = u PROVE Filed(n)' /\ Agrees(n)'
    <2>1. n \in accessActive /\ n \in Live(u)
      BY <1>1, <1>6 DEF Live
    <2>2. refreshByUser[u] = n /\ accessByRefresh[n] = n /\ Agrees(n)
      BY <1>1, <2>1, OwnFiled DEF SerialInv
    <2>3. QED
      BY <1>1, <1>6, <2>2 DEF Filed, Agrees, tokens
  <1> HIDE DEF u
  <1>7. QED
    BY <1>1, <1>4, <1>5, <1>6, CommandSerial DEF tokens, u

LEMMA RotateDelRefreshSerial ==
  ASSUME SerialInv, RegistryInv', NEW r \in Requests, RotateDelRefresh(r)
  PROVE  SerialInv'
  <1> DEFINE u == loc[r].user
             l == [loc[r] EXCEPT !.old = None, !.access = None]
  <1>1. /\ Step(r, "getRefresh", l) /\ pc[r] = "rotateDelRefresh" /\ ~Idle(r)
        /\ accessByRefresh' = [accessByRefresh EXCEPT ![loc[r].old] = None]
        /\ UNCHANGED <<account, tokens, refreshByUser, accessActive>>
    BY DEF RotateDelRefresh, Idle
  <1>2. loc[r] \in Locals /\ RequestOK(r) /\ Owns(r) /\ KnowsSession(r) /\ KnowsRow(r)
    BY <1>1, OnItsWay
  <1>3. /\ loc[r].old \in Pairs /\ loc[r].old \notin accessActive
        /\ claims[loc[r].old].owner = u
    BY <1>1, <1>2 DEF RequestOK, Owns, KnowsSession, Locals
  <1>4. /\ l.user = u /\ l.op = loc[r].op /\ l.new = loc[r].new /\ l.old = None
        /\ l.refresh = loc[r].refresh /\ l.row = loc[r].row /\ l.access = None
    BY <1>2 DEF Locals
  <1> HIDE DEF u, l
  <1>5. pc'[r] = "getRefresh" /\ loc'[r] = l
    BY <1>1, StepMoves DEF SerialInv, RegistryInv
  <1>6. Owns(r)' /\ KnowsSession(r)' /\ KnowsRow(r)'
    BY <1>1, <1>2, <1>4, <1>5 DEF Owns, KnowsSession, Cleared, KnowsRow, tokens, u
  <1>7. \A n \in Pairs \ {loc[r].old} : accessByRefresh'[n] = accessByRefresh[n]
    BY <1>1 DEF SerialInv, RegistryInv, TypeOK
  <1>8. ASSUME NEW n \in accessActive', claims[n].owner = u PROVE Filed(n)' /\ Agrees(n)'
    <2>1. n \in accessActive /\ n \in Live(u) /\ n \in Pairs \ {loc[r].old}
      BY <1>1, <1>3, <1>8 DEF Live, SerialInv, RegistryInv, TypeOK
    <2>2. refreshByUser[u] = n /\ accessByRefresh[n] = n /\ Agrees(n)
      BY <1>1, <2>1, OwnFiled DEF SerialInv, u
    <2>3. QED
      BY <1>1, <1>7, <1>8, <2>1, <2>2 DEF Filed, Agrees, tokens
  <1>9. \A n \in Pairs : claims[n].owner # u => accessByRefresh'[n] = accessByRefresh[n]
    BY <1>3, <1>7
  <1>10. QED
    BY <1>1, <1>4, <1>6, <1>8, <1>9, CommandSerial DEF tokens, u

\* From here on the live token is known to the request alone.
LEMMA DelByUserSerial ==
  ASSUME SerialInv, RegistryInv', NEW r \in Requests, DelByUser(r)
  PROVE  SerialInv'
  <1> DEFINE u == loc[r].user
  <1>1. /\ Step(r, "delByRefresh", loc[r]) /\ pc[r] = "delByUser" /\ ~Idle(r)
        /\ refreshByUser' = [refreshByUser EXCEPT ![u] = None]
        /\ UNCHANGED <<account, tokens, accessByRefresh, accessActive>>
    BY DEF DelByUser, Goto, Idle
  <1>2. Owns(r) /\ KnowsSession(r) /\ KnowsRow(r)
    BY <1>1, OnItsWay
  <1>3. pc'[r] = "delByRefresh" /\ loc'[r] = loc[r]
    BY <1>1, StepMoves DEF SerialInv, RegistryInv
  <1>4. Owns(r)' /\ KnowsRow(r)'
    BY <1>1, <1>2, <1>3 DEF Owns, KnowsRow, tokens
  <1>5. KnowsSession(r)'
    <2>1. Live(loc[r].user)' = Live(u)
      BY <1>1, <1>3 DEF Live, tokens
    <2>2. QED
      BY <1>1, <1>2, <1>3, <2>1 DEF KnowsSession, Cleared
  <1>6. ASSUME NEW n \in accessActive', claims[n].owner = u PROVE Filed(n)' /\ Agrees(n)'
    BY <1>1, <1>3, <1>6 DEF SerialInv, Filed, Agrees, tokens
  <1>7. \A v \in Users \ {u} : refreshByUser'[v] = refreshByUser[v]
    BY <1>1 DEF SerialInv, RegistryInv, TypeOK
  <1> HIDE DEF u
  <1>8. QED
    BY <1>1, <1>4, <1>5, <1>6, <1>7, CommandSerial DEF tokens, u

LEMMA DelByRefreshSerial ==
  ASSUME SerialInv, RegistryInv', NEW r \in Requests, DelByRefresh(r)
  PROVE  SerialInv'
  <1> DEFINE u == loc[r].user
             l == [loc[r] EXCEPT !.refresh = None]
             s == IF loc[r].access = None THEN AfterInvalidate(r) ELSE "delActive"
  <1>1. /\ Step(r, s, l) /\ pc[r] = "delByRefresh" /\ ~Idle(r)
        /\ accessByRefresh' = [accessByRefresh EXCEPT ![loc[r].refresh] = None]
        /\ UNCHANGED <<account, tokens, refreshByUser, accessActive>>
    BY DEF DelByRefresh, Idle
  <1>2. /\ loc[r] \in Locals /\ RequestOK(r)
        /\ Owns(r) /\ KnowsSession(r) /\ KnowsRow(r)
    BY <1>1, OnItsWay
  <1>3. loc[r].refresh \in Pairs /\ claims[loc[r].refresh].owner = u
    BY <1>1, <1>2 DEF RequestOK, Owns, Locals
  <1>4. /\ Live(u) \subseteq {loc[r].access}
        /\ loc[r].access = None => Live(u) = {}
    BY <1>1, <1>2, SessionAssumption DEF KnowsSession, Live, SerialInv, RegistryInv, TypeOK
  <1>5. /\ l.user = u /\ l.op = loc[r].op /\ l.new = loc[r].new /\ l.old = loc[r].old
        /\ l.refresh = None /\ l.row = loc[r].row /\ l.access = loc[r].access
    BY <1>2 DEF Locals
  <1>6. IF loc[r].access = None THEN s \in {"setByUser", "idle", "commit"} ELSE s = "delActive"
    BY DEF AfterInvalidate
  <1>7. s = "commit" => loc[r].op # "logout"
    BY DEF AfterInvalidate
  <1> HIDE DEF u, l, s
  <1>8. pc'[r] = s /\ (s # "idle" => loc'[r] = l)
    BY <1>1, StepMoves DEF SerialInv, RegistryInv
  <1>9. ASSUME s # "idle" PROVE Owns(r)' /\ KnowsRow(r)'
    BY <1>1, <1>2, <1>5, <1>7, <1>8, <1>9 DEF Owns, KnowsRow, tokens, u
  <1>10. ASSUME s # "idle" PROVE KnowsSession(r)'
    <2>1. Live(loc[r].user)' = Live(u)
      BY <1>1, <1>5, <1>8, <1>10 DEF Live, tokens
    <2>2. s \in {"setByUser", "commit", "delActive"} /\ (s # "delActive" => Live(u) = {})
      BY <1>4, <1>6, <1>10
    <2>3. loc'[r].access = loc[r].access
      BY <1>5, <1>8, <1>10
    <2>4. QED
      BY <1>4, <1>8, <2>1, <2>2, <2>3 DEF KnowsSession, Cleared
  <1>11. ASSUME NEW n \in accessActive', claims[n].owner = u PROVE Filed(n)' /\ Agrees(n)'
    <2>1. n \in Live(u)
      BY <1>1, <1>11 DEF Live
    <2>2. s = "delActive"
      BY <1>4, <1>6, <2>1
    <2>3. pc'[r] = "delActive" /\ loc'[r].user = u
      BY <1>5, <1>8, <2>2
    <2>4. Agrees(n)
      BY <1>1, <1>11 DEF SerialInv
    <2>5. QED
      BY <1>1, <1>11, <2>3, <2>4 DEF Filed, Agrees, tokens
  <1>12. \A n \in Pairs : claims[n].owner # u => accessByRefresh'[n] = accessByRefresh[n]
    BY <1>1, <1>3 DEF SerialInv, RegistryInv, TypeOK
  <1>13. QED
    BY <1>1, <1>5, <1>9, <1>10, <1>11, <1>12, CommandSerial DEF tokens, u

LEMMA DelActiveSerial ==
  ASSUME SerialInv, RegistryInv', NEW r \in Requests, DelActive(r)
  PROVE  SerialInv'
  <1> DEFINE u == loc[r].user
             l == [loc[r] EXCEPT !.access = None]
             s == AfterInvalidate(r)
  <1>1. /\ Step(r, s, l) /\ pc[r] = "delActive" /\ ~Idle(r)
        /\ accessActive' = accessActive \ {loc[r].access}
        /\ UNCHANGED <<account, tokens, refreshByUser, accessByRefresh>>
    BY DEF DelActive, Idle
  <1>2. /\ loc[r] \in Locals /\ Owns(r) /\ KnowsSession(r) /\ KnowsRow(r)
    BY <1>1, OnItsWay
  <1>3. Live(u) \subseteq {loc[r].access}
    BY <1>1, <1>2 DEF KnowsSession
  <1>4. \A n \in accessActive' : claims[n].owner # u
    BY <1>1, <1>3 DEF Live
  <1>5. /\ l.user = u /\ l.op = loc[r].op /\ l.new = loc[r].new /\ l.old = loc[r].old
        /\ l.refresh = loc[r].refresh /\ l.row = loc[r].row /\ l.access = None
    BY <1>2 DEF Locals
  <1>6. s \in {"setByUser", "idle", "commit"} /\ (s = "commit" => loc[r].op # "logout")
    BY DEF AfterInvalidate
  <1> HIDE DEF u, l, s
  <1>7. pc'[r] = s /\ (s # "idle" => loc'[r] = l)
    BY <1>1, StepMoves DEF SerialInv, RegistryInv
  <1>8. ASSUME s # "idle" PROVE Owns(r)' /\ KnowsRow(r)'
    BY <1>1, <1>2, <1>5, <1>6, <1>7, <1>8 DEF Owns, KnowsRow, tokens, u
  <1>9. ASSUME s # "idle" PROVE KnowsSession(r)'
    <2>1. Live(loc[r].user)' = {}
      BY <1>1, <1>4, <1>5, <1>7, <1>9 DEF Live, tokens
    <2>2. QED
      BY <1>6, <1>7, <2>1 DEF KnowsSession
  <1>10. QED
    BY <1>1, <1>4, <1>5, <1>8, <1>9, CommandSerial DEF tokens, u

LEMMA RegisterFacts ==
  ASSUME SerialInv, NEW r \in Requests, pc[r] \in {"setByUser", "setByRefresh", "setActive"}
  PROVE  /\ ~Idle(r) /\ loc[r].new \in Pairs /\ Registers(r, loc[r].new)
         /\ claims[loc[r].new].owner = loc[r].user
         /\ Live(loc[r].user) = {} /\ Cleared(r)
  <1>1. loc[r] \in Locals /\ RequestOK(r) /\ KnowsSession(r) /\ ~Idle(r)
    BY OnItsWay DEF Idle
  <1>2. QED
    BY <1>1 DEF RequestOK, KnowsSession, Cleared, Registers, Locals

LEMMA SetByUserSerial ==
  ASSUME SerialInv, RegistryInv', NEW r \in Requests, SetByUser(r)
  PROVE  SerialInv'
  <1> DEFINE u == loc[r].user
  <1>1. /\ Step(r, "setByRefresh", loc[r]) /\ pc[r] = "setByUser" /\ ~Idle(r)
        /\ refreshByUser' = [refreshByUser EXCEPT ![u] = loc[r].new]
        /\ UNCHANGED <<account, tokens, accessByRefresh, accessActive>>
    BY DEF SetByUser, Goto, Idle
  <1>2. u \in Users /\ Owns(r) /\ KnowsRow(r) /\ Live(u) = {}
    BY <1>1, OnItsWay, RegisterFacts
  <1>3. pc'[r] = "setByRefresh" /\ loc'[r] = loc[r]
    BY <1>1, StepMoves DEF SerialInv, RegistryInv
  <1>4. Owns(r)' /\ KnowsRow(r)'
    BY <1>1, <1>2, <1>3 DEF Owns, KnowsRow, tokens
  <1>5. /\ refreshByUser'[u] = loc[r].new
        /\ \A v \in Users \ {u} : refreshByUser'[v] = refreshByUser[v]
    BY <1>1, <1>2 DEF SerialInv, RegistryInv, TypeOK
  <1>6. KnowsSession(r)'
    <2>1. Live(loc[r].user)' = Live(u)
      BY <1>1, <1>3 DEF Live, tokens
    <2>2. QED
      BY <1>2, <1>3, <1>5, <2>1 DEF KnowsSession, Cleared
  <1>7. \A n \in accessActive' : claims[n].owner # u
    BY <1>1, <1>2 DEF Live
  <1> HIDE DEF u
  <1>8. QED
    BY <1>1, <1>4, <1>5, <1>6, <1>7, CommandSerial DEF tokens, u

LEMMA SetByRefreshSerial ==
  ASSUME SerialInv, RegistryInv', NEW r \in Requests, SetByRefresh(r)
  PROVE  SerialInv'
  <1> DEFINE u == loc[r].user
             n == loc[r].new
  <1>1. /\ Step(r, "setActive", loc[r]) /\ pc[r] = "setByRefresh" /\ ~Idle(r)
        /\ accessByRefresh' = [accessByRefresh EXCEPT ![n] = n]
        /\ UNCHANGED <<account, tokens, refreshByUser, accessActive>>
    BY DEF SetByRefresh, Goto, Idle
  <1>2. /\ Owns(r) /\ KnowsRow(r) /\ KnowsSession(r) /\ Live(u) = {}
        /\ n \in Pairs /\ claims[n].owner = u
    BY <1>1, OnItsWay, RegisterFacts
  <1>3. pc'[r] = "setActive" /\ loc'[r] = loc[r]
    BY <1>1, StepMoves DEF SerialInv, RegistryInv
  <1>4. Owns(r)' /\ KnowsRow(r)'
    BY <1>1, <1>2, <1>3 DEF Owns, KnowsRow, tokens
  <1>5. accessByRefresh'[n] = n /\ \A m \in Pairs \ {n} : accessByRefresh'[m] = accessByRefresh[m]
    BY <1>1, <1>2 DEF SerialInv, RegistryInv, TypeOK
  <1>6. KnowsSession(r)'
    <2>1. Live(loc[r].user)' = Live(u)
      BY <1>1, <1>3 DEF Live, tokens
    <2>2. QED
      BY <1>1, <1>2, <1>3, <1>5, <2>1 DEF KnowsSession, Cleared
  <1>7. \A m \in accessActive' : claims[m].owner # u
    BY <1>1, <1>2 DEF Live
  <1>8. \A m \in Pairs : claims[m].owner # u => accessByRefresh'[m] = accessByRefresh[m]
    BY <1>2, <1>5
  <1> HIDE DEF u
  <1>9. QED
    BY <1>1, <1>4, <1>6, <1>7, <1>8, CommandSerial DEF tokens, u

\* The new session is the only one, and the row is still the one it tells of.
LEMMA SetActiveSerial ==
  ASSUME SerialInv, RegistryInv', NEW r \in Requests, SetActive(r)
  PROVE  SerialInv'
  <1> DEFINE u == loc[r].user
             n == loc[r].new
  <1>1. /\ Step(r, "idle", loc[r]) /\ pc[r] = "setActive" /\ ~Idle(r)
        /\ accessActive' = accessActive \cup {n}
        /\ UNCHANGED <<account, claims, accessExpired, refreshExpired,
                       refreshByUser, accessByRefresh>>
    BY DEF SetActive, Goto, Idle
  <1>2. /\ KnowsRow(r) /\ KnowsSession(r) /\ Live(u) = {} /\ Registers(r, n)
        /\ n \in Pairs /\ claims[n].owner = u
    BY <1>1, OnItsWay, RegisterFacts
  <1>3. n # None
    BY <1>2, SessionAssumption
  <1>4. ASSUME NEW m \in accessActive', claims[m].owner = u PROVE Filed(m)' /\ Agrees(m)'
    <2>1. m = n
      BY <1>1, <1>2, <1>4 DEF Live
    <2>2. refreshByUser[u] = n /\ accessByRefresh[n] = n
      BY <1>1, <1>2 DEF KnowsSession
    <2>3. claims[n].role = account[u].role /\ claims[n].locked = account[u].locked
      BY <1>2, <1>3 DEF KnowsRow
    <2>4. QED
      BY <1>1, <1>2, <2>1, <2>2, <2>3 DEF Filed, Agrees
  <1> HIDE DEF u
  <1>5. QED
    BY <1>1, <1>2, <1>4, CommandSerial DEF u

\* The row that is written is the committed one but for what the request is about.
LEMMA CommitFacts ==
  ASSUME SerialInv, NEW r \in Requests, pc[r] = "commit"
  PROVE  /\ ~Idle(r)
         /\ LET w == account[loc[r].user]
            IN  \/ loc[r].op = "profile" /\ loc[r].row = w
                \/ loc[r].op = "lock" /\ w.locked /\ ~loc[r].row.locked /\ loc[r].row.role = w.role
                \/ loc[r].op = "lock" /\ ~w.locked /\ loc[r].row.locked /\ Live(loc[r].user) = {}
                \/ loc[r].op = "role" /\ loc[r].row.locked = w.locked /\ Live(loc[r].user) = {}
  <1> DEFINE w == account[loc[r].user]
  <1>1. /\ ~Idle(r) /\ loc[r] \in Locals /\ w \in Rows
        /\ RequestOK(r) /\ KnowsSession(r) /\ KnowsRow(r)
    BY OnItsWay DEF Idle
  <1>2. loc[r].op \in {"profile", "lock", "role"}
    BY <1>1 DEF RequestOK, Registering, KnowsRow, Locals, Ops
  <1>3. CASE loc[r].op = "profile"
    BY <1>1, <1>3 DEF KnowsRow
  <1>4. CASE loc[r].op = "role"
    BY <1>1, <1>4 DEF KnowsRow, KnowsSession, Cleared
  <1>5. CASE loc[r].op = "lock"
    <2>1. loc[r].row = [w EXCEPT !.locked = ~w.locked]
      BY <1>1, <1>5 DEF KnowsRow
    <2>2. loc[r].row.locked = ~w.locked /\ loc[r].row.role = w.role /\ w.locked \in BOOLEAN
      BY <1>1, <2>1 DEF Rows
    <2>3. loc[r].row.locked => Live(loc[r].user) = {}
      BY <1>1, <1>5 DEF KnowsSession, Cleared
    <2>4. QED
      BY <1>1, <1>5, <2>2, <2>3
  <1>6. QED
    BY <1>2, <1>3, <1>4, <1>5

LEMMA CommitSerial ==
  ASSUME SerialInv, RegistryInv', NEW r \in Requests, Commit(r)
  PROVE  SerialInv'
  <1> DEFINE u == loc[r].user
  <1>1. /\ Step(r, "idle", loc[r]) /\ pc[r] = "commit" /\ ~Idle(r)
        /\ account' = [account EXCEPT ![u] = loc[r].row]
        /\ UNCHANGED <<tokens, registry>>
    BY DEF Commit, Goto, Idle
  <1>2. u \in Users
    BY <1>1, OnItsWay
  <1>3. account'[u] = loc[r].row /\ \A v \in Users \ {u} : account'[v] = account[v]
    BY <1>1, <1>2 DEF SerialInv, RegistryInv, TypeOK
  <1>4. ASSUME NEW n \in accessActive', claims[n].owner = u PROVE Filed(n)' /\ Agrees(n)'
    <2>1. n \in accessActive /\ n \in Live(u)
      BY <1>1, <1>4 DEF Live, registry
    <2>2. refreshByUser[u] = n /\ accessByRefresh[n] = n /\ Agrees(n)
      BY <1>1, <2>1, OwnFiled DEF SerialInv
    <2>3. /\ loc[r].row.role = account[u].role
          /\ loc[r].row.locked => account[u].locked
      BY <1>1, <2>1, CommitFacts
    <2>4. QED
      BY <1>1, <1>3, <1>4, <2>2, <2>3 DEF Filed, Agrees, tokens, registry
  <1> HIDE DEF u
  <1>5. QED
    BY <1>1, <1>3, <1>4, CommandSerial DEF tokens, registry, u

\* Expiry takes keys away that no live session needs.
LEMMA TimeSerial ==
  ASSUME SerialInv, RegistryInv', Time
  PROVE  SerialInv'
  <1>1. /\ UNCHANGED <<account, claims, pc, loc>>
        /\ accessExpired \subseteq accessExpired'
        /\ \A n \in accessExpired' \ accessExpired : Settled(n)
        /\ refreshExpired' \subseteq (refreshExpired \cup accessExpired) \ accessActive
        /\ accessActive' \subseteq accessActive
        /\ \A u \in Users : refreshByUser'[u] = refreshByUser[u] \/ refreshByUser[u] \in refreshExpired
        /\ \A n \in Pairs : accessByRefresh'[n] = accessByRefresh[n] \/ n \in refreshExpired
    <2> USE DEF registry, tokens, SerialInv, RegistryInv, TypeOK, ExpiryOK
    <2>1. CASE \E n \in Pairs : AccessJwtExpires(n)
      BY <2>1 DEF AccessJwtExpires
    <2>2. CASE \E n \in Pairs : RefreshJwtExpires(n)
      BY <2>2 DEF RefreshJwtExpires
    <2>3. CASE \E n \in Pairs : AccessKeyExpires(n)
      BY <2>3 DEF AccessKeyExpires
    <2>4. CASE \E n \in Pairs : RefreshKeyExpires(n)
      BY <2>4 DEF RefreshKeyExpires
    <2>5. CASE \E u \in Users : UserKeyExpires(u)
      BY <2>5 DEF UserKeyExpires
    <2>6. QED
      BY <2>1, <2>2, <2>3, <2>4, <2>5 DEF Time
  <1>2. OneAtATime'
    BY <1>1 DEF SerialInv, OneAtATime, Idle
  <1>3. ExpiryOK'
    <2>1. refreshExpired' \subseteq accessExpired' \ accessActive'
      BY <1>1 DEF SerialInv, ExpiryOK
    <2>2. \A n \in accessExpired' : claims[n] # None /\ \A r \in Requests : ~Registers(r, n)
      BY <1>1 DEF SerialInv, ExpiryOK, Settled, Registers
    <2>3. QED
      BY <1>1, <2>1, <2>2 DEF ExpiryOK, Registers, Idle
  <1>4. ASSUME NEW n \in accessActive' PROVE Filed(n)' /\ Agrees(n)'
    <2>1. /\ n \in accessActive /\ n \in Pairs /\ n \notin refreshExpired /\ Filed(n) /\ Agrees(n)
          /\ claims[n].owner \in Users
      BY <1>1 DEF SerialInv, ExpiryOK, RegistryInv, TypeOK, KeysMatchTokens, Claims
    <2>2. CASE refreshByUser[claims[n].owner] = n /\ accessByRefresh[n] = n
      BY <1>1, <2>1, <2>2 DEF Filed, Agrees
    <2>3. CASE ~(refreshByUser[claims[n].owner] = n /\ accessByRefresh[n] = n)
      BY <1>1, <2>1, <2>3 DEF Filed, Agrees
    <2>4. QED
      BY <2>2, <2>3
  <1>5. ASSUME NEW r \in Requests, ~Idle(r) PROVE Owns(r)' /\ KnowsSession(r)' /\ KnowsRow(r)'
    <2>1. /\ loc[r] \in Locals /\ loc[r].user \in Users /\ RequestOK(r)
          /\ Owns(r) /\ KnowsSession(r) /\ KnowsRow(r)
      BY <1>5, OnItsWay
    <2>2. Owns(r)' /\ KnowsRow(r)'
      BY <1>1, <2>1 DEF Owns, KnowsRow
    <2>3. Live(loc[r].user)' \subseteq Live(loc[r].user)
      BY <1>1 DEF Live
    <2>4. pc[r] \in {"setByRefresh", "setActive"} =>
              /\ loc[r].new \in Pairs /\ loc[r].new \notin refreshExpired
              /\ refreshByUser'[loc[r].user] = refreshByUser[loc[r].user]
      <3>1. SUFFICES ASSUME pc[r] \in {"setByRefresh", "setActive"}
                     PROVE  /\ loc[r].new \in Pairs /\ loc[r].new \notin refreshExpired
                            /\ refreshByUser'[loc[r].user] = refreshByUser[loc[r].user]
        OBVIOUS
      <3>2. loc[r].new \in Pairs /\ Registers(r, loc[r].new)
        BY <3>1, RegisterFacts
      <3>3. loc[r].new \notin refreshExpired
        BY <3>2 DEF SerialInv, ExpiryOK
      <3>4. QED
        BY <1>1, <2>1, <3>1, <3>2, <3>3 DEF KnowsSession
    <2>5. Cleared(r)' <=> Cleared(r)
      BY <1>1 DEF Cleared
    <2>6. KnowsSession(r)'
      BY <1>1, <2>1, <2>3, <2>4, <2>5 DEF KnowsSession
    <2>7. QED
      BY <2>2, <2>6
  <1>6. QED
    BY <1>1, <1>2, <1>3, <1>4, <1>5 DEF SerialInv, Idle

LEMMA SerialInit == Init => SerialInv
  <1> SUFFICES ASSUME Init PROVE SerialInv
    OBVIOUS
  <1>1. RegistryInv
    BY InvInit
  <1>2. \A r \in Requests : Idle(r)
    BY DEF Init, Idle
  <1>3. OneAtATime /\ ExpiryOK /\ accessActive = {}
    BY <1>2 DEF Init, OneAtATime, ExpiryOK
  <1>4. QED
    BY <1>1, <1>2, <1>3 DEF SerialInv

LEMMA ContinueSerial ==
  ASSUME SerialInv, RegistryInv', NEW r \in Requests, Continue(r)
  PROVE  SerialInv'
  <1>1. CASE (\E n \in Pairs : LoadUser(r, n)) \/ RefuseLocked(r)
    BY <1>1, LoadUserSerial, RefuseLockedSerial
  <1>2. CASE RotateGet(r) \/ RotateDelAccess(r) \/ RotateDelRefresh(r)
    BY <1>2, RotateGetSerial, RotateDelAccessSerial, RotateDelRefreshSerial
  <1>3. CASE GetRefresh(r) \/ GetAccess(r)
    BY <1>3, GetRefreshSerial, GetAccessSerial
  <1>4. CASE DelByUser(r) \/ DelByRefresh(r) \/ DelActive(r)
    BY <1>4, DelByUserSerial, DelByRefreshSerial, DelActiveSerial
  <1>5. CASE SetByUser(r) \/ SetByRefresh(r) \/ SetActive(r)
    BY <1>5, SetByUserSerial, SetByRefreshSerial, SetActiveSerial
  <1>6. CASE Commit(r)
    BY <1>6, CommitSerial
  <1>7. QED
    BY <1>1, <1>2, <1>3, <1>4, <1>5, <1>6 DEF Continue

LEMMA NoBreak ==
  ASSUME TypeOK, MaxFailures = 0, NEW r \in Requests PROVE ~Break(r)
  BY DEF TypeOK, Break

LEMMA SerialNext ==
  ASSUME Exclusive, MaxFailures = 0 PROVE SerialInv /\ [Next]_vars => SerialInv'
  <1> SUFFICES ASSUME SerialInv, [Next]_vars PROVE SerialInv'
    OBVIOUS
  <1>1. RegistryInv /\ RegistryInv'
    BY InvNext DEF SerialInv
  <1>2. ASSUME NEW r \in Requests, Arrive(r) \/ Continue(r) \/ Break(r) PROVE SerialInv'
    BY <1>1, <1>2, ArriveSerial, ContinueSerial, NoBreak DEF RegistryInv
  <1>3. CASE Time
    BY <1>1, <1>3, TimeSerial
  <1>4. CASE UNCHANGED vars
    <2>1. OneAtATime' /\ ExpiryOK'
      BY <1>4 DEF vars, SerialInv, OneAtATime, ExpiryOK, Idle, Registers
    <2>2. \A n \in accessActive' : Filed(n)' /\ Agrees(n)'
      BY <1>4 DEF vars, SerialInv, Filed, Agrees
    <2>3. ASSUME NEW r \in Requests, ~Idle(r)' PROVE Owns(r)' /\ KnowsSession(r)' /\ KnowsRow(r)'
      BY <1>4, <2>3 DEF vars, SerialInv, Idle, Owns, KnowsSession, KnowsRow, Cleared, Live
    <2>4. QED
      BY <1>1, <2>1, <2>2, <2>3 DEF SerialInv
  <1>5. QED
    BY <1>2, <1>3, <1>4 DEF Next

\* While requests about one account run one after another and none breaks off,
\* the registry, the rows and the requests under way agree.
THEOREM SerialInvariant ==
  ASSUME Exclusive, MaxFailures = 0 PROVE Spec => []SerialInv
  BY SerialInit, SerialNext, PTL DEF Spec

\* Of one user one access token at most is on file, also half way through
\* a login, a refresh or a logout.
THEOREM OneSessionEach ==
  ASSUME Exclusive, MaxFailures = 0 PROVE Spec => []SingleSession
  <1>1. SerialInv => SingleSession
    <2> SUFFICES ASSUME SerialInv, NEW m \in accessActive, NEW n \in accessActive,
                        claims[m].owner = claims[n].owner
                 PROVE  m = n
      BY DEF SingleSession
    <2>1. CASE \E r \in Requests : /\ pc[r] \in {"delByRefresh", "delActive"}
                                   /\ loc[r].user = claims[n].owner
      <3>1. PICK r \in Requests : /\ pc[r] \in {"delByRefresh", "delActive"}
                                  /\ loc[r].user = claims[n].owner
        BY <2>1
      <3>2. KnowsSession(r)
        BY <3>1, OnItsWay DEF Idle
      <3>3. Live(loc[r].user) \subseteq {loc[r].access}
        BY <3>1, <3>2 DEF KnowsSession
      <3>4. QED
        BY <3>1, <3>3 DEF Live
    <2>2. CASE \A r \in Requests : pc[r] \in {"delByRefresh", "delActive"} =>
                                       loc[r].user # claims[n].owner
      BY <2>2, FiledFully
    <2>3. QED
      BY <2>1, <2>2
  <1>2. QED
    BY <1>1, SerialInvariant, PTL

LEMMA AcceptedAgrees ==
  ASSUME SerialInv, NEW n \in Pairs, Accepted(n)
  PROVE  /\ claims[n] \in Claims /\ Agrees(n)
         /\ account[claims[n].owner] = [role |-> claims[n].role, locked |-> FALSE]
  <1>1. n \in accessActive /\ ~claims[n].locked
    BY DEF Accepted
  <1>2. claims[n] \in Claims /\ Agrees(n)
    BY <1>1 DEF SerialInv, RegistryInv, TypeOK, KeysMatchTokens
  <1>3. account[claims[n].owner] \in Rows
    BY <1>2 DEF SerialInv, RegistryInv, TypeOK, Claims
  <1>4. QED
    BY <1>1, <1>2, <1>3 DEF Agrees, Rows

\* A token that is accepted tells the role of the committed row, and the
\* account is not locked.
THEOREM LogoutIsForced ==
  ASSUME Exclusive, MaxFailures = 0 PROVE Spec => []ForcedLogout
  <1>1. SerialInv => ForcedLogout
    BY AcceptedAgrees DEF ForcedLogout
  <1>2. QED
    BY <1>1, SerialInvariant, PTL

\* Only the commit of a request changes rows.
LEMMA RowsKept ==
  ASSUME [Next]_vars, ~ \E r \in Requests : Commit(r) PROVE UNCHANGED account
  <1>1. ASSUME NEW r \in Requests, Arrive(r) PROVE UNCHANGED account
    BY <1>1 DEF Arrive, Login, Oauth2Login, Refresh, Logout, UpdateRole, UpdateLocked,
                UpdateProfile
  <1>2. ASSUME NEW r \in Requests, Continue(r) PROVE UNCHANGED account
    BY <1>2 DEF Continue, LoadUser, RefuseLocked, RotateGet, RotateDelAccess,
                RotateDelRefresh, GetRefresh, GetAccess, DelByUser, DelByRefresh,
                DelActive, SetByUser, SetByRefresh, SetActive
  <1>3. ASSUME Time \/ (\E r \in Requests : Break(r)) \/ UNCHANGED vars PROVE UNCHANGED account
    BY <1>3 DEF Time, AccessJwtExpires, RefreshJwtExpires, AccessKeyExpires,
                RefreshKeyExpires, UserKeyExpires, Break, vars
  <1>4. QED
    BY <1>1, <1>2, <1>3 DEF Next

\* No transaction that was under way writes a lock flag back that an
\* administrator changed.
THEOREM LockStays ==
  ASSUME Exclusive, MaxFailures = 0 PROVE Spec => OnlyUnlockUnlocks
  <1> DEFINE Unlocks(u) == \E r \in Requests : /\ pc[r] = "commit" /\ pc'[r] = "idle"
                                               /\ loc[r].op = "lock" /\ loc[r].user = u
  <1>1. SerialInv /\ [Next]_vars =>
            [\A u \in Users : account[u].locked /\ ~account'[u].locked => Unlocks(u)]_vars
    <2> SUFFICES ASSUME SerialInv, [Next]_vars, NEW u \in Users,
                        account[u].locked, ~account'[u].locked
                 PROVE  Unlocks(u)
      OBVIOUS
    <2>1. PICK r \in Requests : Commit(r)
      BY RowsKept
    <2>2. /\ pc[r] = "commit" /\ Step(r, "idle", loc[r])
          /\ account' = [account EXCEPT ![loc[r].user] = loc[r].row]
      BY <2>1 DEF Commit, Goto
    <2>3. pc'[r] = "idle"
      BY <2>2, StepMoves DEF SerialInv, RegistryInv
    <2>4. loc[r].user = u /\ ~loc[r].row.locked
      BY <2>2 DEF SerialInv, RegistryInv, TypeOK
    <2>5. loc[r].op = "lock"
      BY <2>2, <2>4, CommitFacts
    <2>6. QED
      BY <2>2, <2>3, <2>4, <2>5
  <1>2. QED
    BY <1>1, SerialInvariant, PTL DEF Spec, OnlyUnlockUnlocks

-----------------------------------------------------------------------------
(* The registry implements the store of sessions users are promised.       *)

Session(n) == [id |-> n, owner |-> claims[n].owner, role |-> claims[n].role]

LEMMA OpenAre ==
  ASSUME NEW s PROVE s \in OpenSessions <=> \E n \in Pairs : Accepted(n) /\ s = Session(n)
  BY DEF OpenSessions, Session

\* A step that changes no row and lets one session run out at most.
LEMMA StoreCloses ==
  ASSUME SerialInv, UNCHANGED account, NEW a,
         \A n \in Pairs : Accepted(n) => claims'[n] = claims[n],
         \A n \in Pairs \ {a} : Accepted(n)' <=> Accepted(n),
         a \in Pairs => (Accepted(a)' => Accepted(a))
  PROVE  [Store!Next]_(Store!vars)
  <1>1. \A n \in Pairs : Accepted(n) => Session(n)' = Session(n)
    BY DEF Session
  <1>2. CASE a \in Pairs /\ Accepted(a) /\ ~Accepted(a)'
    <2>1. Session(a) \in OpenSessions
      BY <1>2, OpenAre
    <2>2. OpenSessions' = OpenSessions \ {Session(a)}
      <3>1. \A m, n \in Pairs : Session(m) = Session(n) => m = n
        BY DEF Session
      <3>2. ASSUME NEW s PROVE s \in OpenSessions' <=> s \in OpenSessions \ {Session(a)}
        <4>1. s \in OpenSessions' <=> \E n \in Pairs : Accepted(n)' /\ s = Session(n)'
          BY DEF OpenSessions, Session
        <4>2. QED
          BY <1>1, <1>2, <3>1, <4>1, OpenAre
      <3>3. QED
        BY <3>2
    <2>3. Store!Close(Session(a))
      BY <2>2 DEF Store!Close
    <2>4. QED
      BY <2>1, <2>3 DEF Store!Next
  <1>3. CASE a \in Pairs => (Accepted(a)' <=> Accepted(a))
    <2>1. ASSUME NEW s PROVE s \in OpenSessions' <=> s \in OpenSessions
      <3>1. s \in OpenSessions' <=> \E n \in Pairs : Accepted(n)' /\ s = Session(n)'
        BY DEF OpenSessions, Session
      <3>2. QED
        BY <1>1, <1>3, <3>1, OpenAre
    <2>2. OpenSessions' = OpenSessions
      BY <2>1
    <2>3. QED
      BY <2>2 DEF Store!vars
  <1>4. QED
    BY <1>2, <1>3

\* A step that leaves the keys and the rows alone.
LEMMA StoreStutters ==
  ASSUME SerialInv, UNCHANGED <<account, accessActive, accessExpired>>,
         \A n \in Pairs : claims[n] # None => claims'[n] = claims[n]
  PROVE  [Store!Next]_(Store!vars)
  <1>1. \A n \in Pairs : n \in accessActive => claims'[n] = claims[n]
    BY DEF SerialInv, RegistryInv, KeysMatchTokens
  <1>2. \A n \in Pairs : Accepted(n)' <=> Accepted(n)
    BY <1>1 DEF Accepted
  <1>3. \A n \in Pairs : Accepted(n) => claims'[n] = claims[n]
    BY <1>1 DEF Accepted
  <1>4. QED
    BY <1>2, <1>3, StoreCloses

LEMMA GenerateKeeps ==
  ASSUME RegistryInv, NEW n \in Pairs, NEW u, NEW row, Generate(n, u, row)
  PROVE  \A m \in Pairs : claims[m] # None => claims'[m] = claims[m]
  BY DEF Generate, RegistryInv, TypeOK

\* A pair whose last key is written opens the session of its user, unless its
\* claims say that the account is locked.
LEMMA StoreOpens ==
  ASSUME SerialInv, NEW r \in Requests, SetActive(r)
  PROVE  [Store!Next]_(Store!vars)
  <1> PICK u \in Users, n \in Pairs : u = loc[r].user /\ n = loc[r].new
    BY RegisterFacts, OnItsWay DEF SetActive
  <1>1. /\ pc[r] = "setActive" /\ accessActive' = accessActive \cup {n}
        /\ UNCHANGED <<account, claims, accessExpired>>
    BY DEF SetActive
  <1>2. /\ claims[n].owner = u /\ Live(u) = {}
        /\ Registers(r, n) /\ KnowsRow(r) /\ RequestOK(r)
    BY <1>1, RegisterFacts, OnItsWay
  <1>3. n # None /\ claims[n] \in Claims /\ account[u] \in Rows
    BY <1>2, SessionAssumption DEF RequestOK, SerialInv, RegistryInv, TypeOK
  <1>4. n \notin accessExpired /\ n \notin accessActive
    BY <1>2 DEF SerialInv, ExpiryOK, RegistryInv, RegistrationOK
  <1>5. \A m \in Pairs \ {n} : Accepted(m)' <=> Accepted(m)
    BY <1>1 DEF Accepted
  <1>6. CASE claims[n].locked
    <2>1. ~Accepted(n)'
      BY <1>1, <1>6 DEF Accepted
    <2>2. QED
      BY <1>1, <1>5, <2>1, StoreCloses
  <1>7. CASE ~claims[n].locked
    <2>1. Accepted(n)' /\ ~Accepted(n)
      BY <1>1, <1>4, <1>7 DEF Accepted
    <2>2. Store!SessionsOf(u) = {}
      BY <1>2, OpenAre DEF Store!SessionsOf, Session, Live, Accepted
    <2>3. account[u] = [role |-> claims[n].role, locked |-> FALSE]
      BY <1>2, <1>3, <1>7 DEF KnowsRow, Rows
    <2>4. OpenSessions' = OpenSessions \cup {Session(n)}
      <3>1. ASSUME NEW s PROVE s \in OpenSessions' <=> s \in OpenSessions \cup {Session(n)}
        <4>1. s \in OpenSessions' <=> \E m \in Pairs : Accepted(m)' /\ s = Session(m)
          BY <1>1 DEF OpenSessions, Session
        <4>2. QED
          BY <1>2, <1>5, <2>1, <4>1, OpenAre
      <3>2. QED
        BY <3>1
    <2>5. Session(n) \in Store!Sessions /\ Session(n).owner = u /\ Session(n).role = claims[n].role
      BY <1>2, <1>3 DEF Session, Store!Sessions, Claims
    <2>6. Store!Open(Session(n))
      BY <1>1, <2>2, <2>3, <2>4, <2>5 DEF Store!Open
    <2>7. QED
      BY <2>5, <2>6 DEF Store!Next
  <1>8. QED
    BY <1>6, <1>7

\* A row is only changed while its user has no session.
LEMMA StoreChanges ==
  ASSUME SerialInv, NEW r \in Requests, Commit(r)
  PROVE  [Store!Next]_(Store!vars)
  <1> DEFINE u == loc[r].user
             w == account[u]
             row == loc[r].row
  <1>1. /\ pc[r] = "commit" /\ account' = [account EXCEPT ![u] = row]
        /\ UNCHANGED <<claims, accessActive, accessExpired>>
    BY DEF Commit, tokens, registry
  <1>2. u \in Users /\ row \in Store!Rows
    BY <1>1, OnItsWay DEF Idle, Locals, Rows, Store!Rows
  <1>3. OpenSessions' = OpenSessions
    BY <1>1 DEF OpenSessions, Accepted
  <1>4. CASE row = w
    <2>1. account' = account
      BY <1>1, <1>4 DEF SerialInv, RegistryInv, TypeOK
    <2>2. QED
      BY <1>3, <2>1 DEF Store!vars
  <1>5. CASE row # w
    <2>1. w.locked \/ Live(u) = {}
      BY <1>1, <1>5, CommitFacts
    <2>2. Store!SessionsOf(u) = {}
      <3>1. ASSUME NEW n \in Pairs, Accepted(n), claims[n].owner = u PROVE FALSE
        <4>1. w = [role |-> claims[n].role, locked |-> FALSE] /\ n \in Live(u)
          BY <3>1, AcceptedAgrees DEF Live, Accepted
        <4>2. QED
          BY <2>1, <4>1
      <3>2. QED
        BY <3>1, OpenAre DEF Store!SessionsOf, Session
    <2>3. Store!ChangeAccount(u, row)
      BY <1>1, <1>3, <2>2 DEF Store!ChangeAccount
    <2>4. QED
      BY <1>2, <2>3 DEF Store!Next
  <1>6. QED
    BY <1>4, <1>5

LEMMA StoreStep ==
  ASSUME SerialInv, MaxFailures = 0, [Next]_vars
  PROVE  [Store!Next]_(Store!vars)
  <1> USE DEF registry, tokens
  <1>1. RegistryInv
    BY DEF SerialInv
  <1>2. ASSUME NEW r \in Requests, Arrive(r) PROVE [Store!Next]_(Store!vars)
    <2>1. UNCHANGED <<account, accessActive, accessExpired>>
      BY <1>2 DEF Arrive, Login, Oauth2Login, Refresh, Logout, UpdateRole, UpdateLocked,
                  UpdateProfile, Generate
    <2>2. UNCHANGED claims \/ \E n \in Pairs, u \in Users : Generate(n, u, account[u])
      BY <1>2 DEF Arrive, Login, Oauth2Login, Refresh, Logout, UpdateRole, UpdateLocked,
                  UpdateProfile
    <2>3. QED
      BY <1>1, <2>1, <2>2, StoreStutters, GenerateKeeps
  <1>3. ASSUME NEW r \in Requests, NEW n \in Pairs, LoadUser(r, n) PROVE [Store!Next]_(Store!vars)
    <2>1. /\ UNCHANGED <<account, accessActive, accessExpired>>
          /\ Generate(n, loc[r].user, account[loc[r].user])
      BY <1>3 DEF LoadUser, Generate
    <2>2. QED
      BY <1>1, <2>1, StoreStutters, GenerateKeeps
  <1>4. ASSUME NEW r \in Requests,
               \/ RefuseLocked(r) \/ RotateGet(r) \/ RotateDelRefresh(r) \/ GetRefresh(r)
               \/ GetAccess(r) \/ DelByUser(r) \/ DelByRefresh(r)
               \/ SetByUser(r) \/ SetByRefresh(r)
        PROVE  [Store!Next]_(Store!vars)
    <2>1. UNCHANGED <<account, claims, accessActive, accessExpired>>
      BY <1>4 DEF RefuseLocked, RotateGet, RotateDelRefresh, GetRefresh, GetAccess,
                  DelByUser, DelByRefresh, SetByUser, SetByRefresh
    <2>2. QED
      BY <2>1, StoreStutters
  <1>5. ASSUME NEW r \in Requests, RotateDelAccess(r) \/ DelActive(r)
        PROVE  [Store!Next]_(Store!vars)
    <2>1. /\ accessActive' = accessActive \ {loc[r].access}
          /\ UNCHANGED <<account, claims, accessExpired>>
      BY <1>5 DEF RotateDelAccess, DelActive
    <2>2. \A n \in Pairs : Accepted(n)' <=> Accepted(n) /\ n # loc[r].access
      BY <2>1 DEF Accepted
    <2> DEFINE a == loc[r].access
    <2> HIDE DEF a
    <2>3. \A n \in Pairs : Accepted(n)' <=> Accepted(n) /\ n # a
      BY <2>2 DEF a
    <2>4. QED
      BY <2>1, <2>3, StoreCloses
  <1>6. ASSUME Time PROVE [Store!Next]_(Store!vars)
    <2>1. UNCHANGED <<account, claims>>
      BY <1>6 DEF Time, AccessJwtExpires, RefreshJwtExpires, AccessKeyExpires,
                  RefreshKeyExpires, UserKeyExpires
    <2>2. ASSUME NEW n \in Pairs, AccessJwtExpires(n) PROVE [Store!Next]_(Store!vars)
      <3>1. \A m \in Pairs : Accepted(m)' <=> Accepted(m) /\ m # n
        BY <2>1, <2>2 DEF AccessJwtExpires, Accepted
      <3>2. QED
        BY <2>1, <3>1, StoreCloses
    <2>3. ASSUME NEW n \in Pairs, AccessKeyExpires(n) PROVE [Store!Next]_(Store!vars)
      <3>1. \A m \in Pairs : Accepted(m)' <=> Accepted(m)
        BY <2>1, <2>3 DEF AccessKeyExpires, Accepted
      <3>2. QED
        BY <2>1, <3>1, StoreCloses
    <2>4. CASE UNCHANGED <<accessActive, accessExpired>>
      BY <2>1, <2>4, StoreStutters
    <2>5. QED
      BY <1>6, <2>2, <2>3, <2>4
      DEF Time, RefreshJwtExpires, RefreshKeyExpires, UserKeyExpires
  <1>7. ASSUME UNCHANGED vars PROVE [Store!Next]_(Store!vars)
    BY <1>7, StoreStutters DEF vars
  <1>8. \A r \in Requests : ~Break(r)
    BY <1>1, NoBreak DEF RegistryInv
  <1>9. ASSUME NEW r \in Requests, Continue(r) PROVE [Store!Next]_(Store!vars)
    BY <1>3, <1>4, <1>5, <1>9, StoreOpens, StoreChanges DEF Continue
  <1>10. QED
    BY <1>2, <1>6, <1>7, <1>8, <1>9 DEF Next

\* Under the same two hypotheses RedisRegistry and its callers implement the
\* session store: one session for an account, opened with the row of that
\* moment, and rows that change only when the session is gone.
THEOREM RegistryImplementsStore ==
  ASSUME Exclusive, MaxFailures = 0 PROVE Spec => ImplementsStore
  <1>1. Init => Store!Init
    BY DEF Init, Store!Init, OpenSessions, Accepted
  <1>2. SerialInv /\ [Next]_vars => [Store!Next]_(Store!vars)
    BY StoreStep
  <1>3. QED
    BY <1>1, <1>2, SerialInvariant, PTL DEF Spec, ImplementsStore, Store!Spec
=============================================================================
